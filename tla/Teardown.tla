------------------------------- MODULE Teardown -------------------------------
(***************************************************************************)
(* How a connection ends: close() against the threads of the connection.    *)
(* SendQueue's writers, sender and close() run together with each            *)
(* transport's nice thread (NiceConnection::init and its GLib loop), which   *)
(* receives data through the transport's SRTP channels and DTLS sockets and  *)
(* reports ICE states.  Transport::close frees the channels and sockets,     *)
(* quits the loop, joins the thread and deletes the NiceConnection, in this  *)
(* order, and clears no pointer.                                             *)
(*                                                                          *)
(* External: GLib.  g_main_loop_run sets the flag that g_main_loop_quit      *)
(* clears, and looks at it once per iteration.                               *)
(***************************************************************************)
EXTENDS SendQueue

CONSTANTS
  EarlyClose, \* may close() be called before every loop runs?
  Calls       \* how often close() is called: closeSink or closeSource, the destructor

ASSUME CallsAssumption == EarlyClose \in BOOLEAN /\ Calls \in Nat \ {0}

VARIABLES
  npc,      \* where each transport's nice thread is
  running,  \* its loop's is_running
  freed,    \* the transports whose SRTP channels and DTLS sockets are freed
  calls     \* calls of close() that have returned, or begun again

threads == <<npc, running, freed, calls>>
tearVars == <<vars, threads>>

\* init() before loop_ and agent_ exist; before g_main_loop_run; the loop looking
\* at is_running, waiting for an event; onNiceData with the channel it will use.
NicePcs == {"init", "made", "check", "poll", "data", "exited"}

TearTypeOK ==
  /\ TypeOK
  /\ npc \in [Transports -> NicePcs]
  /\ running \in [Transports -> BOOLEAN]
  /\ freed \subseteq Transports
  /\ calls \in 0..Calls

TearInit ==
  /\ Init
  /\ npc = [m \in Transports |-> "init"]
  /\ running = [m \in Transports |-> FALSE]
  /\ freed = {}
  /\ calls = 0

-----------------------------------------------------------------------------
(* A nice thread                                                             *)

Go(m, from, to) == npc[m] = from /\ npc' = [npc EXCEPT ![m] = to]

\* NiceConnection::init up to nice_agent_gather_candidates.
MakeLoop(m) == Go(m, "init", "made") /\ UNCHANGED <<running, freed, calls, vars>>

\* g_main_loop_run.
RunLoop(m) ==
  /\ Go(m, "made", "check")
  /\ running' = [running EXCEPT ![m] = TRUE]
  /\ UNCHANGED <<freed, calls, vars>>

Iterate(m) ==
  /\ Go(m, "check", IF running[m] THEN "poll" ELSE "exited")
  /\ UNCHANGED <<running, freed, calls, vars>>

\* Nothing came before the loop was woken up.
NoEvent(m) == Go(m, "poll", "check") /\ UNCHANGED <<running, freed, calls, vars>>

\* cb_nice_recv, onNiceData: the channel is read from the transport ...
OnNiceData(m) == Go(m, "poll", "data") /\ UNCHANGED <<running, freed, calls, vars>>

\* ... and used: unprotect, or DtlsSocketContext::read; then the packet goes up
\* to the sinks, whose queues it may have to wait for.
UseChannel(m) == Go(m, "data", "check") /\ UNCHANGED <<running, freed, calls, vars>>

\* A callback of the agent: the connection's own iceState, or through updateState
\* and setRemoteCandidates the one of n.  Of a deleted n nothing can be said.
Report(m, n) ==
  /\ Go(m, "poll", "check")
  /\ \/ \E state \in NiceStates : UpdateIceState(n, state)
     \/ nice[n] = "deleted" /\ UNCHANGED vars
  /\ UNCHANGED <<running, freed, calls>>

NiceThread(m) ==
  \/ MakeLoop(m) \/ RunLoop(m) \/ Iterate(m) \/ NoEvent(m) \/ OnNiceData(m) \/ UseChannel(m)
  \/ \E n \in Transports : Report(m, n)

-----------------------------------------------------------------------------
(* WebRtcConnection::close                                                   *)

Enter ==
  /\ ~EarlyClose => \A m \in Transports : npc[m] \notin {"init", "made"}
  /\ BeginClose
  /\ UNCHANGED threads

\* Transport::close: dtlsRtp->stop(), dtlsRtcp->stop(), free(srtp_), free(srtcp_) ...
FreeMembers(m) ==
  /\ Closing(m)
  /\ m \notin freed
  /\ freed' = freed \cup {m}
  /\ UNCHANGED <<npc, running, calls, vars>>

\* Mutant: the loop is left running.
QuitNothing(m) ==
  /\ m \in freed
  /\ CloseNice(m)
  /\ UNCHANGED threads

\* ... nice_->close(), which quits the loop if there is one ...
QuitLoop(m) ==
  /\ m \in freed
  /\ CloseNice(m)
  /\ running' = [running EXCEPT ![m] = @ /\ npc[m] = "init"]
  /\ UNCHANGED <<npc, freed, calls>>

\* Mutant: the NiceConnection is deleted without joining its thread.
DeleteAtOnce(m) ==
  /\ DeleteNice(m)
  /\ UNCHANGED threads

\* ... nice_->join(), delete nice_.
JoinNice(m) ==
  /\ npc[m] = "exited"
  /\ DeleteNice(m)
  /\ UNCHANGED threads

StopSender == StopSending /\ UNCHANGED threads

Return ==
  /\ Joined
  /\ calls' = calls + 1
  /\ UNCHANGED <<npc, running, freed>>

\* close() once more, by the destructor after closeSink or closeSource.  The pointers
\* are not NULL: Transport::close stops, frees, quits and joins what is gone, and
\* deletes nice_ a second time.
CloseAgain ==
  /\ cpc = "closed" /\ calls = 1 /\ calls < Calls
  /\ calls' = calls + 1
  /\ UNCHANGED <<npc, running, freed, vars>>

\* Of what follows a second call nothing can be said, and the model ends there: the
\* connection's threads have ended before, and nobody writes.
Defined == calls < 2

Closer ==
  \/ Enter \/ StopSender \/ Return
  \/ \E m \in Transports : FreeMembers(m) \/ QuitLoop(m) \/ JoinNice(m)

-----------------------------------------------------------------------------
TearNext ==
  \/ Sender /\ UNCHANGED threads
  \/ \E p \in Packets : Defined /\ (Write(p) \/ QueueData(p)) /\ UNCHANGED threads
  \/ \E m \in Transports : NiceThread(m)
  \/ Closer \/ CloseAgain

TearSpec == TearInit /\ [][TearNext]_tearVars

\* Every thread runs: the sender, the nice threads (GLib comes back from each
\* wait once its loop was quit), a writer that reached queueData gets the mutex,
\* and a close that has begun goes on.  Nobody has to write, or to close.
FairTearSpec ==
  /\ TearSpec
  /\ WF_tearVars(Sender /\ UNCHANGED threads)
  /\ WF_tearVars(cpc # "open" /\ Closer)
  /\ \A m \in Transports : WF_tearVars(NiceThread(m))
  /\ \A p \in Packets : WF_tearVars(Defined /\ QueueData(p) /\ UNCHANGED threads)

-----------------------------------------------------------------------------
(* Properties                                                                *)

\* Once a NiceConnection is deleted its thread has ended, and once the first close()
\* has returned no thread of the connection is left: the order of join() and delete
\* in Transport::close, and of the transports and send_Thread_ in close().
NobodyLeft ==
  /\ \A m \in Transports : nice[m] = "deleted" => npc[m] = "exited"
  /\ cpc = "closed" => spc = "exited" /\ \A m \in Transports : nice[m] = "deleted"

\* close() leaves the threads that are still running nothing to trip over: no
\* thread, and no second close(), uses a channel or a NiceConnection that
\* close() has freed ("The object cannot be used after this call").
UsesOnlyLive ==
  [][/\ \A p \in Packets : Write(p) => Writer(p) \notin freed
     /\ SenderWrite => nice[Route(Head(queue))] # "deleted"
     /\ \A m \in Transports : UseChannel(m) => m \notin freed
     /\ \A m, n \in Transports : Report(m, n) => nice[n] # "deleted"
     /\ CloseAgain => freed = {}]_tearVars

=============================================================================
