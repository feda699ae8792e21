---------------------------- MODULE TeardownProofs ----------------------------
(***************************************************************************)
(* The connection with all its threads still is a SendQueue, so what is     *)
(* proved of the queue holds of it; and close() leaves no thread behind.    *)
(* Nothing is assumed of how early close() is called; after a second call  *)
(* nothing is said.                                                         *)
(***************************************************************************)
EXTENDS Teardown, SendQueueProofs

\* A thread that was joined has ended, and close() returns after joining them all.
Joins ==
  /\ \A m \in Transports : nice[m] = "deleted" => npc[m] = "exited"
  /\ cpc \in {"join", "closed"} => \A m \in Transports : nice[m] = "deleted"
  /\ cpc = "closed" => spc = "exited"

\* close() returns once; what is counted beyond that are further calls.
Counted == calls <= Calls /\ (cpc # "closed" => calls = 0)

TInv == IInv /\ TearTypeOK /\ Joins /\ Counted

-----------------------------------------------------------------------------
\* The threads' steps are steps of the send queue, or leave it alone.
LEMMA QueueStep == [TearNext]_tearVars => [Next]_vars
<1> SUFFICES ASSUME [TearNext]_tearVars PROVE Next \/ UNCHANGED vars
  OBVIOUS
<1>1. ASSUME NEW m \in Transports, NiceThread(m) PROVE Next \/ UNCHANGED vars
  BY <1>1 DEF NiceThread, MakeLoop, RunLoop, Iterate, NoEvent, OnNiceData, UseChannel, Report, Next
<1>2. ASSUME Closer PROVE Next \/ UNCHANGED vars
  BY <1>2 DEF Closer, Enter, StopSender, Return, FreeMembers, QuitLoop, JoinNice, Next, Close
<1>3. ASSUME CloseAgain PROVE UNCHANGED vars
  BY <1>3 DEF CloseAgain
<1>4. CASE UNCHANGED tearVars
  BY <1>4 DEF tearVars
<1> QED
  BY <1>1, <1>2, <1>3, <1>4 DEF TearNext, Next

\* The invariant holds when the transports have just been made.
LEMMA TearInitInvariant == TearInit => TInv
<1> SUFFICES ASSUME TearInit PROVE TInv
  OBVIOUS
<1>1. IInv
  BY InitInvariant DEF TearInit
<1> QED
  BY <1>1, CallsAssumption
  DEF TearInit, Init, TInv, IInv, TearTypeOK, Joins, Counted, NicePcs

\* A step of a nice thread's own keeps it where join() may expect it.
LEMMA GoStep ==
  ASSUME TInv, NEW m \in Transports, NEW from \in NicePcs \ {"exited"}, NEW to \in NicePcs,
         Go(m, from, to), UNCHANGED <<freed, calls, vars>>, running' \in [Transports -> BOOLEAN]
  PROVE  (TearTypeOK /\ Joins /\ Counted)'
BY DEF TInv, TearTypeOK, TypeOK, Joins, Counted, Go, vars

\* Every step of every thread keeps the invariant.
LEMMA TearStep == TInv /\ [TearNext]_tearVars => TInv'
<1> SUFFICES ASSUME TInv, [TearNext]_tearVars PROVE TInv'
  OBVIOUS
<1>1. IInv'
  BY QueueStep, Step DEF TInv
<1>2. TypeOK'
  BY <1>1 DEF IInv
<1> USE CallsAssumption DEF TInv, TearTypeOK, Joins, Counted
<1>3. ASSUME Sender, UNCHANGED threads PROVE TInv'
  BY <1>1, <1>2, <1>3 DEF Sender, SenderCheck, SenderLock, SenderWrite, SenderPop, threads
<1>4. ASSUME NEW p \in Packets, Write(p) \/ QueueData(p), UNCHANGED threads PROVE TInv'
  BY <1>1, <1>2, <1>4 DEF Write, QueueData, threads
<1>5. ASSUME NEW m \in Transports, NiceThread(m) PROVE TInv'
  <2>1. CASE MakeLoop(m) \/ Iterate(m) \/ NoEvent(m) \/ OnNiceData(m) \/ UseChannel(m)
    BY <1>1, <2>1, GoStep DEF MakeLoop, Iterate, NoEvent, OnNiceData, UseChannel, NicePcs
  <2>2. CASE RunLoop(m)
    BY <1>1, <2>2, GoStep DEF RunLoop, NicePcs
  <2>3. ASSUME NEW n \in Transports, Report(m, n) PROVE TInv'
    <3>1. CASE nice[n] = "deleted" /\ UNCHANGED vars
      BY <1>1, <2>3, <3>1, GoStep DEF Report, NicePcs
    <3>2. ASSUME NEW state \in NiceStates, UpdateIceState(n, state) PROVE TInv'
      <4>1. npc' = [npc EXCEPT ![m] = "check"] /\ UNCHANGED <<running, freed, calls, cpc, spc>>
            /\ nice[n] # "deleted" /\ nice' = [nice EXCEPT ![n] = state]
            /\ state \in {"pending", "ready"} /\ npc[m] = "poll"
        BY <2>3, <3>2 DEF Report, Go, UpdateIceState
      <4>2. nice \in [Transports -> NiceStates]
        BY DEF IInv, TypeOK
      <4> QED
        BY <1>1, <1>2, <4>1, <4>2 DEF NicePcs
    <3> QED
      BY <2>3, <3>1, <3>2 DEF Report
  <2> QED
    BY <1>5, <2>1, <2>2, <2>3 DEF NiceThread
<1>6. ASSUME Closer PROVE TInv'
  <2>1. CASE Enter
    BY <1>1, <1>2, <2>1 DEF Enter, BeginClose, threads
  <2>2. ASSUME NEW m \in Transports, FreeMembers(m) PROVE TInv'
    BY <1>1, <1>2, <2>2 DEF FreeMembers, vars
  <2>3. ASSUME NEW m \in Transports, QuitLoop(m) PROVE TInv'
    <3>1. nice \in [Transports -> NiceStates]
      BY DEF IInv, TypeOK
    <3> QED
      BY <1>1, <1>2, <2>3, <3>1 DEF QuitLoop, CloseNice, Closing
  <2>4. ASSUME NEW m \in Transports, JoinNice(m) PROVE TInv'
    <3>1. nice \in [Transports -> NiceStates]
      BY DEF IInv, TypeOK
    <3> QED
      BY <1>1, <1>2, <2>4, <3>1 DEF JoinNice, DeleteNice, Closing, threads
  <2>5. CASE StopSender
    BY <1>1, <1>2, <2>5 DEF StopSender, StopSending, threads
  <2>6. CASE Return
    BY <1>1, <1>2, <2>6 DEF Return, Joined
  <2> QED
    BY <1>6, <2>1, <2>2, <2>3, <2>4, <2>5, <2>6 DEF Closer
<1>7. ASSUME CloseAgain PROVE TInv'
  BY <1>1, <1>2, <1>7 DEF CloseAgain, vars
<1>8. CASE UNCHANGED tearVars
  BY <1>1, <1>2, <1>8 DEF tearVars, threads, vars
<1> QED
  BY <1>3, <1>4, <1>5, <1>6, <1>7, <1>8 DEF TearNext

\* The invariant holds in every state the connection reaches.
LEMMA TearInvariant == TearSpec => []TInv
BY TearInitInvariant, TearStep, PTL DEF TearSpec

-----------------------------------------------------------------------------
\* The variables of all threads keep their types.
THEOREM TearTyping == TearSpec => []TearTypeOK
<1>1. TInv => TearTypeOK
  BY DEF TInv
<1> QED
  BY <1>1, TearInvariant, PTL

\* However early or often close() is called: a NiceConnection is deleted after
\* its thread ended, and when close() returns no thread is left.
THEOREM NobodyLeftTheorem == TearSpec => []NobodyLeft
<1>1. TInv => NobodyLeft
  BY DEF TInv, Joins, NobodyLeft
<1> QED
  BY <1>1, TearInvariant, PTL

\* The connection with its nice threads and its close() implements SendQueue ...
THEOREM ImplementsQueue == TearSpec => Spec
<1>1. TearInit => Init
  BY DEF TearInit
<1> QED
  BY <1>1, QueueStep, PTL DEF TearSpec, Spec

\* ... and so keeps the promise of DropTailQueue to the end of its life.
THEOREM TearKeepsPromise ==
  ASSUME Mutexed = Transports
  PROVE  TearSpec => KeepsPromise
BY ImplementsQueue, KeepsPromiseTheorem

=============================================================================
