--------------------------- MODULE DtlsSocketProofs ---------------------------
(***************************************************************************)
(* The memory contract of the handshake timer holds for any number of timer *)
(* cells and of flights, whatever is lost, duplicated or reordered, whether *)
(* or not the timer context is polled, wherever an iteration is when the    *)
(* socket is deleted.                                                       *)
(***************************************************************************)
EXTENDS DtlsSocket, TLAPS

\* Where an iteration is tells what is known of the handshake; the destructor
\* overlaps one only if raced.
Iterating ==
  /\ iter.at = "idle" => iter = Idle
  /\ iter.at = "complete" => done
  /\ iter.at \in {"rearm", "add"} => ~done /\ started
  /\ iter.at # "idle" /\ life # "live" => raced
  /\ got = Flights => done
  /\ done => started

\* The socket's own timer exists; it is valid until the socket dies, and made for
\* a handshake that goes on or completes in this iteration.
ReadTimerContract ==
  readTimer # Null =>
    /\ started
    /\ iter.at # "idle" => heap[readTimer] # "free"
    /\ alive => heap[readTimer] = "valid" /\ (~done \/ iter.at = "complete")

\* What the context points to exists, and when valid it is the socket's own.
CtxTimerContract ==
  /\ ctxTimer # Null =>
       /\ heap[ctxTimer] # "free"
       /\ heap[ctxTimer] = "valid" =>
            readTimer = ctxTimer /\ (~done \/ iter.at = "complete") /\ (alive \/ raced)
  /\ iter.at = "add" => readTimer # Null /\ readTimer # ctxTimer

\* The destructor's copy is still mReadTimer if no iteration came between.
StopContract ==
  /\ life = "stopping" /\ ~raced => stop = readTimer
  /\ life # "stopping" => stop = Null

Contract == ReadTimerContract /\ CtxTimerContract /\ StopContract

IInv == TypeOK /\ Iterating /\ Contract

\* Without polling the context never lets go of the timer it was given last.
Armed == alive /\ started /\ ~done /\ iter.at \notin {"rearm", "add"} => ctxTimer # Null /\ ctxTimer = readTimer

-----------------------------------------------------------------------------
(* What SSL_do_handshake reports, before any timer is touched.               *)

\* A report that brings OpenSSL nothing new leaves a sound iteration to go on.
LEMMA RepeatStep ==
  ASSUME IInv, alive, iter = Idle, started, Repeat
  PROVE  /\ done' = done /\ failed' \in BOOLEAN
         /\ iter' \in [at : {"idle", "rearm"}, flight : 0..(Flights - 1)]
         /\ iter'.at = "idle" => iter' = Idle
         /\ iter'.at = "rearm" => ~done
<1>1. CASE done /\ WaitForMore
  BY <1>1, FlightsAssumption DEF WaitForMore, IInv, TypeOK, Idle
<1>2. CASE ~done /\ failed /\ Fail
  BY <1>2, FlightsAssumption DEF Fail, IInv, TypeOK, Idle
<1>3. CASE ~done /\ ~failed /\ WaitForMore
  BY <1>3, FlightsAssumption DEF WaitForMore, IInv, TypeOK, Idle
<1>4. CASE ~done /\ ~failed /\ SendFlight(got)
  <2>1. got \in 0..(Flights - 1)
    BY <1>4, FlightsAssumption DEF IInv, TypeOK, Iterating
  <2> QED
    BY <1>4, <2>1 DEF SendFlight, IInv, TypeOK, Idle
<1> QED
  BY <1>1, <1>2, <1>3, <1>4 DEF Repeat

\* A flight of the peer, old or next, does so too, or completes the handshake.
LEMMA PacketStep ==
  ASSUME IInv, NEW k \in 0..Flights, HandlePacket(k)
  PROVE  /\ got' \in 0..Flights /\ (got' = Flights => done')
         /\ done' \in BOOLEAN /\ failed' \in BOOLEAN
         /\ iter' \in [at : {"idle", "rearm", "complete"}, flight : 0..(Flights - 1)]
         /\ iter'.at = "idle" => iter' = Idle /\ done' = done
         /\ iter'.at = "rearm" => ~done'
         /\ iter'.at = "complete" => done'
<1> USE FlightsAssumption
<1>1. CASE k = got + 1 /\ ~done /\ ~failed /\ k = Flights
  <2>1. got' = k /\ Complete
    BY <1>1, Zenon DEF HandlePacket
  <2>2. done' /\ done' \in BOOLEAN /\ failed' \in BOOLEAN
    BY <2>1, Zenon DEF Complete, IInv, TypeOK
  <2>3. iter' = [at |-> "complete", flight |-> 0]
    BY <2>1 DEF Complete
  <2> QED
    BY <2>1, <2>2, <2>3
<1>2. CASE k = got + 1 /\ ~done /\ ~failed /\ k # Flights
  <2>1. k \in 0..(Flights - 1)
    BY <1>2
  <2> QED
    BY <1>2, <2>1 DEF HandlePacket, SendFlight, IInv, TypeOK, Idle
<1>3. CASE ~(k = got + 1 /\ ~done /\ ~failed)
  BY <1>3, RepeatStep DEF HandlePacket, Enter, IInv, TypeOK, Iterating
<1> QED
  BY <1>1, <1>2, <1>3

-----------------------------------------------------------------------------
(* Every step keeps the invariant and, without polling, the timer of a waiting *)
(* client.                                                                     *)

Kept == IInv' /\ setting' = setting /\ (~setting.polled /\ Armed => Armed')

\* The steps that begin an iteration.
LEMMA BeginStep ==
  ASSUME IInv, StartClient \/ HandleAlert \/ \E k \in 0..Flights : HandlePacket(k)
  PROVE  Kept
<1> USE FlightsAssumption, TimersAssumption
<1>1. CASE StartClient
  <2>1. iter' \in [at : {"idle", "complete", "rearm", "add"}, flight : 0..(Flights - 1)]
        /\ iter'.at = "rearm"
    BY <1>1 DEF StartClient, SendFlight
  <2>2. ~done /\ done' = done /\ failed' = failed
    BY <1>1 DEF StartClient, SendFlight, IInv, Iterating
  <2> QED
    BY <1>1, <2>1, <2>2
    DEF StartClient, Enter, timers, net, alive, Kept, IInv, TypeOK, Iterating, Contract,
        ReadTimerContract, CtxTimerContract, StopContract, Armed
<1>2. CASE HandleAlert
  BY <1>2
  DEF HandleAlert, WaitForMore, Fail, Enter, timers, net, alive, Idle, Kept, IInv, TypeOK, Iterating, Contract,
      ReadTimerContract, CtxTimerContract, StopContract, Armed
<1>3. ASSUME NEW k \in 0..Flights, HandlePacket(k) PROVE Kept
  <2>1. /\ Enter /\ started /\ started' = started /\ setting' = setting
        /\ UNCHANGED timers /\ toPeer' = toPeer /\ toClient' \in {toClient, toClient \ {k}}
    BY <1>3 DEF HandlePacket
  <2>2. got' = Flights => done'
    BY <1>3, PacketStep
  <2>3. TypeOK'
    BY <1>3, <2>1, PacketStep DEF Enter, timers, IInv, TypeOK
  <2>4. Iterating'
    BY <1>3, <2>1, PacketStep DEF Enter, alive, IInv, TypeOK, Iterating
  <2>5. Contract'
    BY <1>3, <2>1, PacketStep
    DEF Enter, timers, alive, Idle, IInv, Contract, ReadTimerContract, CtxTimerContract, StopContract, TypeOK
  <2>6. Armed => Armed'
    BY <1>3, <2>1, PacketStep DEF Enter, timers, alive, Idle, Armed
  <2> QED
    BY <2>1, <2>3, <2>4, <2>5, <2>6 DEF Kept, IInv
<1> QED
  BY <1>1, <1>2, <1>3

\* The steps of an iteration that touch the timers.
LEMMA IterationStep ==
  ASSUME IInv, Iteration
  PROVE  Kept
<1> USE FlightsAssumption, TimersAssumption
<1>1. CASE Reset
  <2>1. heap' \in [Timers -> {"free", "valid", "invalid"}] /\ iter' = Idle
        /\ \A t \in Timers : (heap'[t] = "free" <=> heap[t] = "free") /\ heap'[t] \in {heap[t], "invalid"}
    BY <1>1 DEF Reset, Invalidate, IInv, TypeOK
  <2>2. readTimer # Null => heap'[readTimer] # "valid"
    BY <1>1 DEF Reset, Invalidate, IInv, TypeOK
  <2>3. TypeOK'
    BY <1>1, <2>1 DEF Reset, ssl, ending, net, Idle, IInv, TypeOK
  <2> QED
    BY <1>1, <2>1, <2>2, <2>3
    DEF Reset, ssl, ending, net, alive, Idle, Kept, IInv, TypeOK, Iterating, Contract,
        ReadTimerContract, CtxTimerContract, StopContract, Armed
<1>2. CASE Rearm
  <2>1. PICK t \in Timers : /\ Fresh(t)
                            /\ heap' = [Invalidate(heap, readTimer) EXCEPT ![t] = "valid"]
                            /\ readTimer' = t
    BY <1>2 DEF Rearm
  <2>2. heap' \in [Timers -> {"free", "valid", "invalid"}] /\ heap'[t] = "valid"
    BY <2>1 DEF Invalidate, IInv, TypeOK
  <2>3. ctxTimer # Null => heap'[ctxTimer] # "free" /\ heap'[ctxTimer] # "valid"
    BY <1>2, <2>1 DEF Fresh, Invalidate, IInv, TypeOK, Contract, CtxTimerContract
  <2>4. iter' = [at |-> "add", flight |-> iter.flight] /\ iter.at = "rearm" /\ iter.flight \in 0..(Flights - 1)
    BY <1>2 DEF Rearm, IInv, TypeOK
  <2>5. TypeOK'
    BY <1>2, <2>1, <2>2, <2>4 DEF Rearm, ssl, ending, net, IInv, TypeOK
  <2>6. life # "live" => raced
    BY <2>4 DEF IInv, Iterating
  <2> QED
    BY <1>2, <2>1, <2>2, <2>3, <2>4, <2>5, <2>6
    DEF Rearm, Fresh, ssl, ending, net, alive, Kept, IInv, TypeOK, Iterating, Contract,
        ReadTimerContract, CtxTimerContract, StopContract, Armed
<1>3. CASE Add
  <2>1. heap' \in [Timers -> {"free", "valid", "invalid"}] /\ heap'[readTimer] = heap[readTimer]
        /\ readTimer \in Timers /\ ctxTimer' = readTimer /\ readTimer' = readTimer
    BY <1>3 DEF Add, IInv, TypeOK, Contract, CtxTimerContract
  <2>2. iter' = Idle /\ Idle \in [at : {"idle", "complete", "rearm", "add"}, flight : 0..(Flights - 1)]
        /\ toPeer' \subseteq 0..(Flights - 1)
    <3>1. iter.flight \in 0..(Flights - 1) /\ 0 \in 0..(Flights - 1)
      BY DEF IInv, TypeOK
    <3> QED
      BY <1>3, <3>1 DEF Add, Idle, IInv, TypeOK
  <2>3. TypeOK'
    BY <1>3, <2>1, <2>2 DEF Add, ssl, ending, net, IInv, TypeOK
  <2> QED
    BY <1>3, <2>1, <2>2, <2>3
    DEF Add, ssl, ending, net, alive, Idle, Kept, IInv, TypeOK, Iterating, Contract,
        ReadTimerContract, CtxTimerContract, StopContract, Armed
<1> QED
  BY <1>1, <1>2, <1>3 DEF Iteration

\* A polled timer expires, or deletes itself.
LEMMA PollStep ==
  ASSUME IInv, UpdateTimer
  PROVE  Kept
<1> USE FlightsAssumption, TimersAssumption
<1>0. /\ setting.polled /\ ctxTimer \in Timers /\ ctxTimer' = Null
      /\ UNCHANGED <<setting, started, got, readTimer, net>>
  BY DEF UpdateTimer, IInv, TypeOK
<1>1. CASE heap[ctxTimer] = "valid" /\ Enter /\ Repeat /\ UNCHANGED heap
  <2>1. readTimer = ctxTimer /\ started /\ alive /\ iter = Idle /\ ~done
    BY <1>0, <1>1, Zenon DEF Enter, Idle, IInv, TypeOK, Contract, CtxTimerContract, ReadTimerContract
  <2>2. /\ done' = done /\ failed' \in BOOLEAN
        /\ iter' \in [at : {"idle", "rearm"}, flight : 0..(Flights - 1)]
        /\ iter'.at = "idle" => iter' = Idle
        /\ iter'.at = "rearm" => ~done
    BY <1>1, <2>1, RepeatStep
  <2>3. TypeOK'
    BY <1>0, <1>1, <2>2 DEF Enter, net, IInv, TypeOK
  <2>4. Iterating'
    BY <1>0, <1>1, <2>1, <2>2 DEF Enter, alive, Idle, IInv, TypeOK, Iterating
  <2>5. Contract'
    BY <1>0, <1>1, <2>1, <2>2
    DEF Enter, alive, Idle, IInv, Contract, ReadTimerContract, CtxTimerContract, StopContract, TypeOK
  <2> QED
    BY <1>0, <2>3, <2>4, <2>5 DEF Kept, IInv
<1>2. CASE /\ heap[ctxTimer] # "valid" /\ iter = Idle
           /\ heap' = [heap EXCEPT ![ctxTimer] = "free"]
           /\ UNCHANGED <<done, failed, iter, ending>>
  <2>1. TypeOK'
    BY <1>0, <1>2 DEF net, ending, IInv, TypeOK
  <2>2. Iterating' /\ StopContract' /\ CtxTimerContract'
    BY <1>0, <1>2 DEF ending, alive, Idle, IInv, Iterating, Contract, CtxTimerContract, StopContract
  <2>3. ReadTimerContract'
    BY <1>0, <1>2 DEF ending, alive, Idle, IInv, TypeOK, Contract, ReadTimerContract
  <2> QED
    BY <1>0, <2>1, <2>2, <2>3 DEF Kept, IInv, Contract
<1> QED
  BY <1>1, <1>2 DEF UpdateTimer

\* The destructor, on its own or in the middle of an iteration.
LEMMA StopStep ==
  ASSUME IInv, BeginStop \/ EndStop
  PROVE  Kept
<1> USE FlightsAssumption, TimersAssumption
<1>1. CASE BeginStop
  <2>1. TypeOK'
    BY <1>1 DEF BeginStop, ssl, timers, net, IInv, TypeOK
  <2>2. Iterating'
    <3>1. iter.at # "idle" => raced'
      <4>1. raced' = (iter # Idle)
        BY <1>1, Zenon DEF BeginStop
      <4>2. iter.at # "idle" => iter # Idle
        BY DEF Idle
      <4> QED
        BY <4>1, <4>2, Zenon
    <3> QED
      BY <1>1, <3>1 DEF BeginStop, ssl, Idle, IInv, Iterating
  <2>3. ReadTimerContract' /\ CtxTimerContract' /\ StopContract'
    BY <1>1
    DEF BeginStop, ssl, timers, alive, IInv, Contract, ReadTimerContract, CtxTimerContract, StopContract
  <2> QED
    BY <1>1, <2>1, <2>2, <2>3 DEF Contract, BeginStop, ssl, timers, alive, Kept, IInv, Armed
<1>2. CASE EndStop
  <2>1. heap' \in [Timers -> {"free", "valid", "invalid"}]
        /\ \A t \in Timers : /\ heap'[t] = "free" <=> heap[t] = "free"
                             /\ heap'[t] = "valid" => heap[t] = "valid" /\ t # stop
    BY <1>2 DEF EndStop, Invalidate, IInv, TypeOK
  <2>2. TypeOK'
    BY <1>2, <2>1 DEF EndStop, ssl, net, IInv, TypeOK
  <2>3. Iterating' /\ StopContract' /\ ReadTimerContract'
    BY <1>2, <2>1
    DEF EndStop, ssl, alive, Idle, IInv, TypeOK, Iterating, Contract, ReadTimerContract, StopContract
  <2>4. CtxTimerContract'
    BY <1>2, <2>1
    DEF EndStop, ssl, alive, IInv, TypeOK, Contract, CtxTimerContract, StopContract
  <2> QED
    BY <1>2, <2>2, <2>3, <2>4 DEF EndStop, alive, Kept, IInv, Contract, Armed
<1> QED
  BY <1>1, <1>2

\* The network touches no timer.
LEMMA NetworkStep ==
  ASSUME IInv, Lose \/ UNCHANGED vars \/ \E k \in 0..Flights : PeerAnswers(k)
  PROVE  Kept
<1> USE FlightsAssumption
<1>1. UNCHANGED <<setting, started, ssl, iter, timers, ending>>
  BY DEF Lose, PeerAnswers, vars
<1>2. toPeer' \subseteq 0..(Flights - 1) /\ toClient' \subseteq 1..Flights
  <2>1. CASE Lose \/ UNCHANGED vars
    BY <2>1 DEF Lose, vars, net, IInv, TypeOK
  <2>2. ASSUME NEW k \in 0..Flights, PeerAnswers(k)
        PROVE  toPeer' \subseteq 0..(Flights - 1) /\ toClient' \subseteq 1..Flights
    <3>1. k + 1 \in 1..Flights
      BY <2>2 DEF PeerAnswers, IInv, TypeOK
    <3> QED
      BY <2>2, <3>1 DEF PeerAnswers, IInv, TypeOK
  <2> QED
    BY <2>1, <2>2
<1>3. TypeOK' /\ Iterating' /\ Contract' /\ (Armed => Armed')
  BY <1>1, <1>2
  DEF ssl, timers, ending, alive, IInv, TypeOK, Iterating, Contract, ReadTimerContract, CtxTimerContract,
      StopContract, Armed, Idle
<1> QED
  BY <1>1, <1>3 DEF Kept, IInv

\* Every step keeps the invariant.
LEMMA Step ==
  ASSUME IInv, [Next]_vars
  PROVE  Kept
BY BeginStep, IterationStep, PollStep, StopStep, NetworkStep DEF Next

\* The invariant holds before startClient.
LEMMA InitStep == Init => IInv /\ Armed
<1> SUFFICES ASSUME Init PROVE IInv /\ Armed
  OBVIOUS
<1> USE FlightsAssumption
<1>1. /\ done \in BOOLEAN /\ started \in BOOLEAN /\ failed \in BOOLEAN /\ raced \in BOOLEAN
      /\ ~done /\ ~started
  BY Zenon DEF Init
<1>2. TypeOK
  BY <1>1 DEF Init, Idle, TypeOK
<1>3. Iterating /\ Contract /\ Armed
  BY <1>1
  DEF Init, Idle, Iterating, Contract, ReadTimerContract, CtxTimerContract, StopContract, Armed
<1> QED
  BY <1>2, <1>3 DEF IInv

\* The invariant holds in every state the program reaches.
LEMMA Invariant == Spec => []IInv
<1>1. IInv /\ [Next]_vars => IInv'
  BY Step DEF Kept
<1> QED
  BY <1>1, InitStep, PTL DEF Spec

\* The variables keep their types; in particular no flight past the last one is
\* ever sent.
THEOREM Typing == Spec => []TypeOK
<1>1. IInv => TypeOK
  BY DEF IInv
<1> QED
  BY <1>1, Invariant, PTL

\* No sequence of flights, timeouts and alerts, and no deletion of the socket,
\* leaves mTimer or mReadTimer at a deleted timer; nor the destructor, unless an
\* iteration overlaps it.
THEOREM NoDanglingTimerTheorem == Spec => []NoDanglingTimer
<1>1. IInv => NoDanglingTimer
  BY DEF IInv, Iterating, Contract, ReadTimerContract, CtxTimerContract, StopContract, alive, NoDanglingTimer
<1> QED
  BY <1>1, Invariant, PTL

\* A timer that is still valid is the socket's last, of a handshake that goes on;
\* and of a socket that is there, unless its destructor overlapped an iteration.
THEOREM OldTimerIsInvalidTheorem == Spec => []OldTimerIsInvalid
<1>1. IInv => OldTimerIsInvalid
  BY DEF IInv, Contract, CtxTimerContract, OldTimerIsInvalid
<1> QED
  BY <1>1, Invariant, PTL

\* As this repository runs it, with the context never polled, a waiting client
\* always has its timer armed.
THEOREM WaitingIsArmedTheorem == Spec => []WaitingIsArmed
<1> DEFINE Unpolled == ~setting.polled => Armed
<1>1. IInv /\ Unpolled /\ [Next]_vars => Unpolled'
  BY Step DEF Kept
<1>2. IInv /\ Unpolled => WaitingIsArmed
  BY DEF IInv, Contract, ReadTimerContract, Armed, Idle, WaitingIsArmed
<1> QED
  <2>1. Init => Unpolled
    BY InitStep
  <2> HIDE DEF Unpolled
  <2> QED
    BY <1>1, <1>2, <2>1, Invariant, PTL DEF Spec

=============================================================================
