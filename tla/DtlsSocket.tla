------------------------------ MODULE DtlsSocket ------------------------------
(***************************************************************************)
(* One client DtlsSocket, the timer context of its DtlsFactory (every       *)
(* socket has a factory of its own) and the datagrams between it and the    *)
(* peer.  The socket owns its read timer through mReadTimer, the context    *)
(* through mTimer; who may delete a DtlsTimer is a contract between the     *)
(* two, spread over doHandshakeIteration, addTimer, updateTimer and fire.   *)
(*                                                                          *)
(* External: OpenSSL, reduced to what SSL_do_handshake reports (a result,   *)
(* and whether it wrote a flight), and the peer.  The handshake is Flights  *)
(* exchanges: client flight k is answered by peer flight k + 1.             *)
(***************************************************************************)
EXTENDS Naturals

CONSTANTS
  Timers,        \* the heap cells that hold a DtlsTimer
  Null,
  Flights,       \* flights the peer sends before the handshake is complete
  Settings       \* the networks and builds considered

ASSUME TimersAssumption  == Null \notin Timers
ASSUME FlightsAssumption == Flights \in Nat \ {0}

\* May the network lose a datagram?  Does anything call updateTimer?
Setting == [lossy : BOOLEAN, polled : BOOLEAN]

ASSUME SettingsAssumption == Settings \subseteq Setting

VARIABLES
  setting,     \* fixed in Init
  life,        \* of the socket: live, in its destructor, or dead
  done,        \* mHandshakeCompleted
  started,     \* startClient has been called
  failed,      \* OpenSSL reported a fatal error, and will again
  got,         \* peer flights OpenSSL has processed
  iter,        \* where doHandshakeIteration is, and the flight it has to write
  heap,        \* each cell: no timer, or a timer with mValid true or false
  readTimer,   \* DtlsSocket::mReadTimer
  ctxTimer,    \* TestTimerContext::mTimer
  stop,        \* the destructor's copy of mReadTimer
  raced,       \* history: an iteration and the destructor were under way together
  toPeer,      \* client flights on their way
  toClient     \* peer flights on their way

net    == <<toPeer, toClient>>
timers == <<heap, readTimer, ctxTimer>>
ssl    == <<done, failed, got>>
ending == <<life, stop, raced>>
vars   == <<setting, started, ssl, iter, timers, ending, net>>

alive == life # "dead"
Idle  == [at |-> "idle", flight |-> 0]

TypeOK ==
  /\ setting \in Settings
  /\ life \in {"live", "stopping", "dead"}
  /\ done \in BOOLEAN /\ started \in BOOLEAN /\ failed \in BOOLEAN /\ raced \in BOOLEAN
  /\ got \in 0..Flights
  /\ iter \in [at : {"idle", "complete", "rearm", "add"}, flight : 0..(Flights - 1)]
  /\ heap \in [Timers -> {"free", "valid", "invalid"}]
  /\ readTimer \in Timers \cup {Null}
  /\ ctxTimer \in Timers \cup {Null}
  /\ stop \in Timers \cup {Null}
  /\ toPeer \subseteq 0..(Flights - 1)
  /\ toClient \subseteq 1..Flights

Init ==
  /\ setting \in Settings
  /\ life = "live" /\ done = FALSE /\ started = FALSE /\ failed = FALSE /\ raced = FALSE
  /\ got = 0
  /\ iter = Idle
  /\ heap = [t \in Timers |-> "free"]
  /\ readTimer = Null /\ ctxTimer = Null /\ stop = Null
  /\ toPeer = {} /\ toClient = {}

-----------------------------------------------------------------------------
(* DtlsSocket::doHandshakeIteration, on the nice thread.  It begins with what *)
(* SSL_do_handshake reports; handshakeMutex_ keeps other iterations out, but  *)
(* not the destructor, which runs on the thread that closes.                  *)

\* No iteration begins on a dead socket: DtlsTransport::onNiceData would use a
\* deleted object, which Teardown shows (UsesOnlyLive).
Enter == alive /\ iter = Idle /\ raced' = (raced \/ life = "stopping") /\ UNCHANGED <<life, stop>>

\* SSL_ERROR_NONE
Complete ==
  /\ done' = TRUE
  /\ iter' = [at |-> "complete", flight |-> 0]
  /\ UNCHANGED failed

\* SSL_ERROR_WANT_READ after flight k was written to mOutBio.
SendFlight(k) ==
  /\ iter' = [at |-> "rearm", flight |-> k]
  /\ UNCHANGED <<done, failed>>

\* SSL_ERROR_WANT_READ and nothing written: "leave the timers alone".
WaitForMore == UNCHANGED <<done, failed, iter>>

\* Any other result: handshakeFailed.
Fail == failed' = TRUE /\ UNCHANGED <<done, iter>>

\* Mutant: the flight after the last one is written.
RepeatNextFlight ==
  \/ done /\ WaitForMore
  \/ ~done /\ failed /\ Fail
  \/ ~done /\ ~failed /\ (SendFlight(got + 1) \/ WaitForMore)

\* An iteration that brings OpenSSL nothing new: it may write its last flight
\* again, or not.
Repeat ==
  \/ done /\ WaitForMore
  \/ ~done /\ failed /\ Fail
  \/ ~done /\ ~failed /\ (SendFlight(got) \/ WaitForMore)

\* if (timer) timer->invalidate().  A cell that was freed stays so.
Invalidate(h, timer) ==
  [t \in Timers |-> IF t = timer /\ h[t] = "valid" THEN "invalid" ELSE h[t]]

\* A cell the allocator may hand out: nothing points to it.  A timer that was
\* leaked keeps its cell in the program; here the cell is used again.
Fresh(t) == t \notin {readTimer, ctxTimer, stop}

\* Mutant: mReadTimer is not reset.
ResetKeepsTimer ==
  /\ iter.at = "complete"
  /\ heap' = Invalidate(heap, readTimer)
  /\ iter' = Idle
  /\ UNCHANGED <<setting, started, ssl, readTimer, ctxTimer, ending, net>>

\* After handshakeCompleted(): the timer is invalidated and let go of.
Reset ==
  /\ iter.at = "complete"
  /\ heap' = Invalidate(heap, readTimer)
  /\ readTimer' = Null
  /\ iter' = Idle
  /\ UNCHANGED <<setting, started, ssl, ctxTimer, ending, net>>

\* Mutant: mReadTimer is invalidated after the new timer was stored in it.
RearmInvalidatesNew ==
  /\ iter.at = "rearm"
  /\ \E t \in Timers :
       /\ Fresh(t)
       /\ heap' = [heap EXCEPT ![t] = "invalid"]
       /\ readTimer' = t
  /\ iter' = [iter EXCEPT !.at = "add"]
  /\ UNCHANGED <<setting, started, ssl, ctxTimer, ending, net>>

\* A flight has to be written: the old timer is invalidated, a new one made.
Rearm ==
  /\ iter.at = "rearm"
  /\ \E t \in Timers :
       /\ Fresh(t)
       /\ heap' = [Invalidate(heap, readTimer) EXCEPT ![t] = "valid"]
       /\ readTimer' = t
  /\ iter' = [iter EXCEPT !.at = "add"]
  /\ UNCHANGED <<setting, started, ssl, ctxTimer, ending, net>>

\* TestTimerContext::addTimer, where the context deletes the timer it held; then
\* the flight goes to the peer.
Add ==
  /\ iter.at = "add"
  /\ heap' = [t \in Timers |-> IF t = ctxTimer THEN "free" ELSE heap[t]]
  /\ ctxTimer' = readTimer
  /\ toPeer' = toPeer \cup {iter.flight}
  /\ iter' = Idle
  /\ UNCHANGED <<setting, started, ssl, readTimer, ending, toClient>>

-----------------------------------------------------------------------------
(* Who runs an iteration                                                     *)

\* DtlsTransport::updateIceState(NICE_READY) -> start() -> startClient().
StartClient ==
  /\ Enter /\ ~started
  /\ started' = TRUE
  /\ SendFlight(0)
  /\ UNCHANGED <<setting, got, timers, net>>

\* Mutant: what OpenSSL wrote in answer is not sent.
HandlePacketSilently(k) ==
  /\ Enter /\ started
  /\ k \in toClient
  /\ IF k = got + 1 /\ ~done /\ ~failed
       THEN got' = k /\ IF k = Flights THEN Complete ELSE WaitForMore
       ELSE Repeat /\ UNCHANGED got
  /\ toClient' \in {toClient, toClient \ {k}}
  /\ UNCHANGED <<setting, started, timers, toPeer>>

\* handlePacketMaybe, on a flight of the peer: the next one, or an old one (the
\* network may deliver it again).
HandlePacket(k) ==
  /\ Enter /\ started
  /\ k \in toClient
  /\ IF k = got + 1 /\ ~done /\ ~failed
       THEN got' = k /\ IF k = Flights THEN Complete ELSE SendFlight(k)
       ELSE Repeat /\ UNCHANGED got
  /\ toClient' \in {toClient, toClient \ {k}}
  /\ UNCHANGED <<setting, started, timers, toPeer>>

\* handlePacketMaybe, on a datagram OpenSSL rejects for good (a fatal alert).
HandleAlert ==
  /\ Enter /\ started
  /\ IF done THEN WaitForMore ELSE Fail
  /\ UNCHANGED <<setting, started, got, timers, net>>

\* TestTimerContext::updateTimer once mExpiryTime has passed, by a nice thread that
\* polls between two packets: mTimer = 0, then fire().  A valid timer expires on
\* the socket (forceRetransmit) and is not deleted; an invalid one deletes itself.
\* Another thread could not poll: updateTimer and addTimer share no lock.
UpdateTimer ==
  /\ setting.polled
  /\ ctxTimer # Null
  /\ ctxTimer' = Null
  /\ \/ /\ heap[ctxTimer] = "valid"
        /\ Enter /\ Repeat
        /\ UNCHANGED heap
     \/ /\ heap[ctxTimer] # "valid" /\ iter = Idle
        /\ heap' = [heap EXCEPT ![ctxTimer] = "free"]
        /\ UNCHANGED <<done, failed, iter, ending>>
  /\ UNCHANGED <<setting, started, got, readTimer, net>>

-----------------------------------------------------------------------------
(* The thread that closes: DtlsSocketContext::stop deletes the socket, without *)
(* handshakeMutex_, so an iteration may be anywhere.  It goes on in an object  *)
(* that is gone; here it finds the fields as they were.                        *)

\* if (mReadTimer): the pointer is read ...
BeginStop ==
  /\ life = "live"
  /\ life' = "stopping"
  /\ stop' = readTimer
  /\ raced' = (iter # Idle)
  /\ UNCHANGED <<setting, started, ssl, iter, timers, net>>

\* Mutant: the destructor does not invalidate the timer.
EndStopOnly ==
  /\ life = "stopping"
  /\ life' = "dead"
  /\ stop' = Null
  /\ UNCHANGED <<setting, started, ssl, iter, timers, raced, net>>

\* ... what it pointed to is invalidated, and OpenSSL's part is freed.
EndStop ==
  /\ life = "stopping"
  /\ life' = "dead"
  /\ heap' = Invalidate(heap, stop)
  /\ stop' = Null
  /\ UNCHANGED <<setting, started, ssl, iter, readTimer, ctxTimer, raced, net>>

-----------------------------------------------------------------------------
(* The network and the peer                                                  *)

\* The peer answers a client flight, each time it arrives.
PeerAnswers(k) ==
  /\ k \in toPeer
  /\ toPeer' \in {toPeer, toPeer \ {k}}
  /\ toClient' = toClient \cup {k + 1}
  /\ UNCHANGED <<setting, started, ssl, iter, timers, ending>>

Lose ==
  /\ setting.lossy
  /\ \/ \E k \in toPeer : toPeer' = toPeer \ {k} /\ UNCHANGED toClient
     \/ \E k \in toClient : toClient' = toClient \ {k} /\ UNCHANGED toPeer
  /\ UNCHANGED <<setting, started, ssl, iter, timers, ending>>

Iteration == Reset \/ Rearm \/ Add

Next ==
  \/ StartClient \/ Iteration
  \/ \E k \in 0..Flights : HandlePacket(k) \/ PeerAnswers(k)
  \/ HandleAlert \/ UpdateTimer \/ BeginStop \/ EndStop \/ Lose

Spec == Init /\ [][Next]_vars

\* The nice thread runs and reads what has arrived in its turn, what is not lost
\* arrives, and a polled timer fires.
FairSpec ==
  /\ Spec
  /\ WF_vars(StartClient) /\ WF_vars(Iteration) /\ SF_vars(UpdateTimer)
  /\ \A k \in 0..Flights : SF_vars(HandlePacket(k)) /\ WF_vars(PeerAnswers(k))

-----------------------------------------------------------------------------
(* Properties                                                                *)

\* No pointer to a timer outlives it: what addTimer and fire delete is never what
\* mTimer or the mReadTimer of a socket that is there, or that an iteration is in,
\* still points to; nor, if no iteration overlaps it, what the destructor is about
\* to invalidate.  Where one does, addTimer may delete the destructor's timer.
NoDanglingTimer ==
  /\ ctxTimer # Null => heap[ctxTimer] # "free"
  /\ readTimer # Null /\ (alive \/ iter # Idle) => heap[readTimer] # "free"
  /\ stop # Null /\ ~raced => heap[stop] # "free"

\* A timer that would call back into the socket is the last one it made, for a
\* handshake that goes on, or that completes in this very iteration; and the
\* socket is there, unless it was deleted in the middle of an iteration, which
\* may then leave a valid timer of a dead socket in the context.
OldTimerIsInvalid ==
  ctxTimer # Null /\ heap[ctxTimer] = "valid" =>
    readTimer = ctxTimer /\ (~done \/ iter.at = "complete") /\ (alive \/ raced)

\* As this repository runs it, with no call of updateTimer: whenever the client
\* waits for an answer, a valid timer is armed for it.
WaitingIsArmed ==
  ~setting.polled /\ alive /\ started /\ ~done /\ iter = Idle =>
    ctxTimer # Null /\ ctxTimer = readTimer /\ heap[ctxTimer] = "valid"

\* When nothing is lost the handshake ends, whatever is duplicated or reordered.
Ends == (started /\ ~setting.lossy) ~> (done \/ failed \/ ~alive)

\* A client left waiting by a lost flight sends its own again.
LossIsRepaired ==
  (started /\ iter = Idle /\ toPeer = {} /\ toClient = {}) ~> (toPeer # {} \/ done \/ failed \/ life # "live")

=============================================================================
