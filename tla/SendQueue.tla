------------------------------ MODULE SendQueue ------------------------------
(***************************************************************************)
(* The send queue of a WebRtcConnection: any thread that writes a packet    *)
(* puts it in (Transport::write, queueData), the connection's own thread    *)
(* takes it out (sendLoop), and close() tears the transports down before it *)
(* stops that thread.  Packets are abstract; what matters of one is which   *)
(* transport wrote it.  Module DropTailQueue states the promise this keeps. *)
(***************************************************************************)
EXTENDS Naturals, Sequences

CONSTANTS
  Packets,
  AudioPackets,   \* those written by the audio transport
  Transports,     \* the transports the connection has
  Mutexed,        \* those whose write() locks writeMutex_: DtlsTransport does,
                  \* in SdesTransport the lock is commented out
  Limit,          \* 1000 in queueData
  NoPacket        \* what malloc left in protectBuf_

ASSUME LimitAssumption   == Limit \in Nat \ {0}
ASSUME PacketsAssumption ==
  /\ AudioPackets \subseteq Packets /\ NoPacket \notin Packets
  /\ Transports \subseteq {"video", "audio"}
  /\ Mutexed \subseteq Transports
  /\ AudioPackets # {} => "audio" \in Transports
  /\ Packets \ AudioPackets # {} => "video" \in Transports

VARIABLES
  protectBuf, \* protectBuf_: the packet each transport has protected last
  writing,    \* packets whose write() found iceState READY and goes to queueData
  offered,    \* packets queueData has taken or dropped
  queue,      \* sendQueue_
  lock,       \* receiveVideoMutex_: is it held by the sender thread?
  sending,    \* sending_
  spc,        \* where the sender thread is
  nice,       \* each transport's iceState, "deleted" with its NiceConnection
  quit,       \* the transports whose nice_->close() has run
  cpc,        \* where the thread that closes the connection is
  sent        \* the packets handed to the ICE agents

vars == <<protectBuf, writing, offered, queue, lock, sending, spc, nice, quit, cpc, sent>>

\* "pending" stands for every state before READY, and for FAILED.
NiceStates == {"pending", "ready", "finished", "deleted"}

TypeOK ==
  /\ protectBuf \in [Transports -> Packets \cup {NoPacket}]
  /\ writing \subseteq Packets /\ offered \subseteq Packets
  /\ queue \in Seq(Packets) /\ sent \in Seq(Packets)
  /\ lock \in BOOLEAN /\ sending \in BOOLEAN
  /\ spc \in {"check", "lock", "write", "pop", "exited"}
  /\ nice \in [Transports -> NiceStates] /\ quit \subseteq Transports
  /\ cpc \in {"open", "closing", "join", "closed"}

Init ==
  /\ protectBuf = [m \in Transports |-> NoPacket]
  /\ writing = {} /\ offered = {}
  /\ queue = <<>> /\ sent = <<>>
  /\ lock = FALSE /\ sending = TRUE
  /\ spc = "check"
  /\ nice = [m \in Transports |-> "pending"] /\ quit = {}
  /\ cpc = "open"

\* The transport that wrote p, and the one sendLoop sends it on.
Writer(p) == IF p \in AudioPackets THEN "audio" ELSE "video"
Route(p)  == IF p \in AudioPackets /\ "audio" \in Transports THEN "audio" ELSE "video"

-----------------------------------------------------------------------------
\* What a read of nice_->iceState finds: of a deleted NiceConnection, anything.
FoundReady(m)    == nice[m] \in {"ready", "deleted"}
FoundNotReady(m) == nice[m] # "ready"

\* NiceConnection::updateIceState: the agent's callbacks, and setRemoteCandidates on
\* any thread.  Nothing keeps it from overwriting what close() stored.
UpdateIceState(m, state) ==
  /\ state \in {"pending", "ready"} /\ nice[m] # "deleted"
  /\ nice' = [nice EXCEPT ![m] = state]
  /\ UNCHANGED <<protectBuf, writing, offered, queue, lock, sending, spc, quit, cpc, sent>>

\* write() of the packet's transport, up to its last look at nice_->iceState: the
\* packet is protected in protectBuf_.
Write(p) ==
  /\ p \notin writing \cup offered
  /\ FoundReady(Writer(p))
  /\ Writer(p) \in Mutexed => \A q \in writing : Writer(q) # Writer(p)
  /\ protectBuf' = [protectBuf EXCEPT ![Writer(p)] = p]
  /\ writing' = writing \cup {p}
  /\ UNCHANGED <<offered, queue, lock, sending, spc, nice, quit, cpc, sent>>

\* Mutant: sendQueue_.size() <= Limit.
QueueDataOneMore(p) ==
  /\ p \in writing
  /\ ~lock
  /\ queue' = IF Len(queue) <= Limit THEN Append(queue, protectBuf[Writer(p)]) ELSE queue
  /\ writing' = writing \ {p}
  /\ offered' = offered \cup {p}
  /\ UNCHANGED <<protectBuf, lock, sending, spc, nice, quit, cpc, sent>>

\* WebRtcConnection::queueData on protectBuf_: at the limit it is dropped.
QueueData(p) ==
  /\ p \in writing
  /\ ~lock
  /\ queue' = IF Len(queue) < Limit THEN Append(queue, protectBuf[Writer(p)]) ELSE queue
  /\ writing' = writing \ {p}
  /\ offered' = offered \cup {p}
  /\ UNCHANGED <<protectBuf, lock, sending, spc, nice, quit, cpc, sent>>

-----------------------------------------------------------------------------
(* WebRtcConnection::sendLoop                                                *)

SenderCheck ==
  /\ spc = "check"
  /\ spc' = IF sending THEN "lock" ELSE "exited"
  /\ UNCHANGED <<protectBuf, writing, offered, queue, lock, sending, nice, quit, cpc, sent>>

SenderLock ==
  /\ spc = "lock"
  /\ ~lock
  /\ IF queue # <<>>
       THEN lock' = TRUE /\ spc' = "write"
       ELSE lock' = lock /\ spc' = "check"
  /\ UNCHANGED <<protectBuf, writing, offered, queue, sending, nice, quit, cpc, sent>>

\* writeOnNice, sendData: nothing is sent unless iceState is NICE_READY.
SenderWrite ==
  /\ spc = "write"
  /\ \/ FoundReady(Route(Head(queue))) /\ sent' = Append(sent, Head(queue))
     \/ FoundNotReady(Route(Head(queue))) /\ sent' = sent
  /\ spc' = "pop"
  /\ UNCHANGED <<protectBuf, writing, offered, queue, lock, sending, nice, quit, cpc>>

\* Mutant: the mutex is released in the other branch only.
SenderPopKeepsLock ==
  /\ spc = "pop"
  /\ queue' = Tail(queue)
  /\ spc' = "check"
  /\ UNCHANGED <<protectBuf, writing, offered, lock, sending, nice, quit, cpc, sent>>

SenderPop ==
  /\ spc = "pop"
  /\ queue' = Tail(queue)
  /\ lock' = FALSE
  /\ spc' = "check"
  /\ UNCHANGED <<protectBuf, writing, offered, sending, nice, quit, cpc, sent>>

-----------------------------------------------------------------------------
(* WebRtcConnection::close: the video transport, the audio transport, then   *)
(* sending_ and the sender thread.                                           *)

BeginClose ==
  /\ cpc = "open"
  /\ cpc' = "closing"
  /\ UNCHANGED <<protectBuf, writing, offered, queue, lock, sending, spc, nice, quit, sent>>

\* The transport close() is at.
Closing(m) ==
  /\ cpc = "closing"
  /\ m = "audio" /\ "video" \in Transports => nice["video"] = "deleted"

\* Mutant: close() leaves a state of its own.
CloseNiceFailed(m) ==
  /\ Closing(m)
  /\ m \notin quit
  /\ nice' = [nice EXCEPT ![m] = "failed"]
  /\ quit' = quit \cup {m}
  /\ UNCHANGED <<protectBuf, writing, offered, queue, lock, sending, spc, cpc, sent>>

\* Transport::close: nice_->close() ...
CloseNice(m) ==
  /\ Closing(m)
  /\ m \notin quit
  /\ nice' = [nice EXCEPT ![m] = "finished"]
  /\ quit' = quit \cup {m}
  /\ UNCHANGED <<protectBuf, writing, offered, queue, lock, sending, spc, cpc, sent>>

\* ... nice_->join(), delete nice_.
DeleteNice(m) ==
  /\ Closing(m)
  /\ m \in quit /\ nice[m] # "deleted"
  /\ nice' = [nice EXCEPT ![m] = "deleted"]
  /\ UNCHANGED <<protectBuf, writing, offered, queue, lock, sending, spc, quit, cpc, sent>>

StopSending ==
  /\ cpc = "closing"
  /\ \A m \in Transports : nice[m] = "deleted"
  /\ sending' = FALSE
  /\ cpc' = "join"
  /\ UNCHANGED <<protectBuf, writing, offered, queue, lock, spc, nice, quit, sent>>

Joined ==
  /\ cpc = "join"
  /\ spc = "exited"
  /\ cpc' = "closed"
  /\ UNCHANGED <<protectBuf, writing, offered, queue, lock, sending, spc, nice, quit, sent>>

-----------------------------------------------------------------------------
Sender == SenderCheck \/ SenderLock \/ SenderWrite \/ SenderPop

Close == BeginClose \/ StopSending \/ Joined \/ \E m \in Transports : CloseNice(m) \/ DeleteNice(m)

Next ==
  \/ \E p \in Packets : Write(p) \/ QueueData(p)
  \/ \E m \in Transports, state \in NiceStates : UpdateIceState(m, state)
  \/ Sender \/ Close

Spec == Init /\ [][Next]_vars

-----------------------------------------------------------------------------
(* Properties                                                                *)

\* The packet sendLoop is about to pop has already been sent.
Abstract == INSTANCE DropTailQueue WITH
              waiting <- IF spc = "pop" THEN Tail(queue) ELSE queue,
              down <- {p \in Packets : nice[Route(p)] # "ready"}

\* The queue keeps its promise: order, at most once, refusal only at the limit,
\* loss only of a packet whose agent is not ready (queueData, sendLoop,
\* updateIceState and close together).
KeepsPromise == Abstract!AbsSpec

\* Every packet that was written leaves the queue, sent or not, unless the
\* connection is being closed: the sender never gets stuck (sendLoop).
In(p, s) == \E i \in 1..Len(s) : s[i] = p
Leaves ==
  \A p \in Packets : (p \in writing \/ In(p, queue)) ~>
                       ((p \in offered /\ ~In(p, queue)) \/ cpc # "open")

\* close() returns: the sender thread always sees sending_ go false.
CloseReturns == cpc = "closing" ~> cpc = "closed"

=============================================================================
