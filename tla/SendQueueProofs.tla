--------------------------- MODULE SendQueueProofs ---------------------------
(***************************************************************************)
(* The send queue implements DropTailQueue for any packets and any limit,   *)
(* any number of writers, and a close() at any moment.                      *)
(***************************************************************************)
EXTENDS SendQueue, TLAPS

\* The mutex is held exactly while a packet is being sent and popped, and then
\* there is one; the queue never grows past the limit.
Guarded ==
  /\ lock <=> spc \in {"write", "pop"}
  /\ lock => queue # <<>>
  /\ Len(queue) <= Limit

\* A packet is offered to the queue once.
Once == writing \cap offered = {}

\* On its way to the queue is a packet.  A transport that locks writeMutex_ has
\* only one on its way, and it is the one in protectBuf_.
Filled == \A p \in writing : protectBuf[Writer(p)] \in Packets
Protected ==
  \A p \in writing : Writer(p) \in Mutexed =>
    /\ protectBuf[Writer(p)] = p
    /\ \A q \in writing : Writer(q) = Writer(p) => q = p

IInv == TypeOK /\ Guarded /\ Once /\ Filled /\ Protected

-----------------------------------------------------------------------------
\* Taking the first packet leaves a shorter queue of packets.
LEMMA TailFacts ==
  ASSUME NEW s \in Seq(Packets), s # <<>>
  PROVE  Head(s) \in Packets /\ Tail(s) \in Seq(Packets) /\ Len(Tail(s)) = Len(s) - 1
OBVIOUS

\* Every packet is sent on a transport the connection has.
LEMMA RouteFact ==
  ASSUME NEW p \in Packets
  PROVE  Route(p) \in Transports
BY PacketsAssumption DEF Route

\* Every packet is written by a transport the connection has.
LEMMA WriterFact ==
  ASSUME NEW p \in Packets
  PROVE  Writer(p) \in Transports
BY PacketsAssumption DEF Writer

\* The invariant holds when the connection is made.
LEMMA InitInvariant == Init => IInv
<1> SUFFICES ASSUME Init PROVE IInv
  OBVIOUS
<1>1. <<>> \in Seq(Packets) /\ Len(<<>>) <= Limit
  BY LimitAssumption
<1>2. TypeOK
  BY <1>1 DEF Init, TypeOK, NiceStates
<1>3. Guarded /\ Once /\ Filled /\ Protected
  BY <1>1 DEF Init, Guarded, Once, Filled, Protected
<1> QED
  BY <1>2, <1>3 DEF IInv

\* Every step of a writer, of the sender and of close() keeps the invariant.
LEMMA Step == IInv /\ [Next]_vars => IInv'
<1> SUFFICES ASSUME IInv, [Next]_vars PROVE IInv'
  OBVIOUS
<1> USE LimitAssumption DEF IInv, TypeOK, Guarded, Once, Filled, NiceStates, Protected
<1>1. ASSUME NEW p \in Packets, Write(p) PROVE IInv'
  <2>1. (TypeOK /\ Guarded /\ Once)'
    BY <1>1 DEF Write
  <2>3. Filled'
    <3>1. Writer(p) \in Transports /\ \A q \in writing : Writer(q) \in Transports
      BY WriterFact
    <3> QED
      BY <1>1, <3>1 DEF Write
  <2>2. Protected'
    <3> SUFFICES ASSUME NEW q \in writing', Writer(q) \in Mutexed
                 PROVE  /\ protectBuf'[Writer(q)] = q
                        /\ \A r \in writing' : Writer(r) = Writer(q) => r = q
      OBVIOUS
    <3>1. protectBuf' = [protectBuf EXCEPT ![Writer(p)] = p] /\ writing' = writing \cup {p}
          /\ (Writer(p) \in Mutexed => \A r \in writing : Writer(r) # Writer(p))
      BY <1>1 DEF Write
    <3>2. Writer(p) \in Transports
      BY WriterFact
    <3>3. CASE Writer(q) = Writer(p)
      BY <3>1, <3>2, <3>3
    <3>4. CASE Writer(q) # Writer(p)
      <4>1. q \in writing /\ protectBuf'[Writer(q)] = protectBuf[Writer(q)]
        BY <3>1, <3>4, WriterFact
      <4> QED
        BY <3>1, <3>4, <4>1
    <3> QED
      BY <3>3, <3>4
  <2> QED
    BY <2>1, <2>2, <2>3
<1>2. ASSUME NEW p \in Packets, QueueData(p) PROVE IInv'
  <2>1. CASE Len(queue) < Limit
    <3>1. queue' = Append(queue, protectBuf[Writer(p)]) /\ protectBuf[Writer(p)] \in Packets
      BY <1>2, <2>1, WriterFact DEF QueueData
    <3>2. queue' \in Seq(Packets) /\ Len(queue') = Len(queue) + 1
      BY <3>1
    <3> QED
      BY <1>2, <2>1, <3>2 DEF QueueData
  <2>2. CASE ~(Len(queue) < Limit)
    BY <1>2, <2>2 DEF QueueData
  <2> QED
    BY <2>1, <2>2
<1>3. ASSUME SenderCheck PROVE IInv'
  BY <1>3 DEF SenderCheck
<1>4. ASSUME SenderLock PROVE IInv'
  BY <1>4 DEF SenderLock
<1>5. ASSUME SenderWrite PROVE IInv'
  <2>1. Head(queue) \in Packets
    BY <1>5, TailFacts DEF SenderWrite
  <2>2. sent' \in Seq(Packets)
    <3>1. sent' = Append(sent, Head(queue)) \/ sent' = sent
      BY <1>5 DEF SenderWrite
    <3>2. Append(sent, Head(queue)) \in Seq(Packets)
      BY <1>5, <2>1
    <3> QED
      BY <3>1, <3>2
  <2> QED
    BY <1>5, <2>2 DEF SenderWrite
<1>6. ASSUME SenderPop PROVE IInv'
  <2>1. queue' \in Seq(Packets) /\ Len(queue') = Len(queue) - 1
    BY <1>6, TailFacts DEF SenderPop
  <2>2. Len(queue') <= Limit
    BY <2>1
  <2> QED
    BY <1>6, <2>1, <2>2 DEF SenderPop
<1>7. ASSUME BeginClose PROVE IInv'
  BY <1>7 DEF BeginClose
<1>8. ASSUME NEW m \in Transports, CloseNice(m) PROVE IInv'
  BY <1>8 DEF CloseNice, Closing
<1>9. ASSUME NEW m \in Transports, DeleteNice(m) PROVE IInv'
  BY <1>9 DEF DeleteNice, Closing
<1>13. ASSUME NEW m \in Transports, NEW state \in NiceStates, UpdateIceState(m, state) PROVE IInv'
  BY <1>13 DEF UpdateIceState
<1>10. ASSUME StopSending PROVE IInv'
  BY <1>10 DEF StopSending
<1>11. ASSUME Joined PROVE IInv'
  BY <1>11 DEF Joined
<1>12. CASE UNCHANGED vars
  BY <1>12 DEF vars
<1> QED
  BY <1>1, <1>2, <1>3, <1>4, <1>5, <1>6, <1>7, <1>8, <1>9, <1>10, <1>11, <1>12, <1>13
  DEF Next, Sender, Close

\* The invariant holds in every state the program reaches.
LEMMA Invariant == Spec => []IInv
BY InitInvariant, Step, PTL DEF Spec

\* The variables keep their types: only packets are queued and sent.
THEOREM Typing == Spec => []TypeOK
<1>1. IInv => TypeOK
  BY DEF IInv
<1> QED
  BY <1>1, Invariant, PTL

-----------------------------------------------------------------------------
(* The refinement: queueData accepts or refuses, the write before the pop    *)
(* sends or (when close() has reached the agent) discards, the rest stutters. *)

\* Every step is a step of the promise, or leaves it alone.
LEMMA AbstractStep ==
  ASSUME Mutexed = Transports, IInv, [Next]_vars
  PROVE  [Abstract!AbsNext]_(Abstract!absVars)
<1> SUFFICES Abstract!AbsNext \/ UNCHANGED Abstract!absVars
  BY DEF Abstract!absVars
<1> USE LimitAssumption DEF IInv, TypeOK, Guarded, Once, Filled
<1>1. ASSUME NEW p \in Packets, Write(p) PROVE UNCHANGED Abstract!absVars
  BY <1>1 DEF Write, Abstract!absVars
<1>2. ASSUME NEW p \in Packets, QueueData(p) PROVE Abstract!Accept(p) \/ Abstract!Refuse(p)
  <2>1. p \notin offered /\ offered' = offered \cup {p} /\ spc # "pop" /\ spc' = spc
        /\ cpc' = cpc /\ sent' = sent
    BY <1>2 DEF QueueData
  <2>2. protectBuf[Writer(p)] = p
    BY <1>2, WriterFact DEF QueueData, Protected
  <2>3. CASE Len(queue) < Limit
    BY <1>2, <2>1, <2>3, <2>2 DEF QueueData, Abstract!Accept, Abstract!Offer
  <2>4. CASE Len(queue) = Limit
    BY <1>2, <2>1, <2>4 DEF QueueData, Abstract!Refuse, Abstract!Offer
  <2>5. Len(queue) \in Nat
    OBVIOUS
  <2> QED
    BY <2>3, <2>4, <2>5
<1>3. ASSUME SenderCheck PROVE UNCHANGED Abstract!absVars
  BY <1>3 DEF SenderCheck, Abstract!absVars
<1>4. ASSUME SenderLock PROVE UNCHANGED Abstract!absVars
  BY <1>4 DEF SenderLock, Abstract!absVars
<1>5. ASSUME SenderWrite PROVE Abstract!Send \/ Abstract!Discard
  <2>1. queue # <<>> /\ Head(queue) \in Packets
    BY <1>5, TailFacts DEF SenderWrite
  <2>2. CASE sent' = Append(sent, Head(queue))
    BY <1>5, <2>1, <2>2 DEF SenderWrite, Abstract!Send
  <2>3. CASE FoundNotReady(Route(Head(queue))) /\ sent' = sent
    <3>1. Head(queue) \in {p \in Packets : nice[Route(p)] # "ready"}
      BY <2>1, <2>3 DEF FoundNotReady
    <3> QED
      BY <1>5, <2>1, <2>3, <3>1 DEF SenderWrite, Abstract!Discard
  <2> QED
    BY <1>5, <2>2, <2>3 DEF SenderWrite
<1>6. ASSUME SenderPop PROVE UNCHANGED Abstract!absVars
  BY <1>6 DEF SenderPop, Abstract!absVars
<1>7. ASSUME BeginClose PROVE UNCHANGED Abstract!absVars
  BY <1>7 DEF BeginClose, Abstract!absVars
<1>8. ASSUME NEW m \in Transports, CloseNice(m) PROVE Abstract!Agents
  BY <1>8 DEF CloseNice, Closing, Abstract!Agents
<1>9. ASSUME NEW m \in Transports, DeleteNice(m) PROVE Abstract!Agents
  BY <1>9 DEF DeleteNice, Closing, Abstract!Agents
<1>13. ASSUME NEW m \in Transports, NEW state \in NiceStates, UpdateIceState(m, state)
      PROVE  Abstract!Agents
  BY <1>13 DEF UpdateIceState, Abstract!Agents
<1>10. ASSUME StopSending PROVE UNCHANGED Abstract!absVars
  BY <1>10 DEF StopSending, Abstract!absVars
<1>11. ASSUME Joined PROVE UNCHANGED Abstract!absVars
  BY <1>11 DEF Joined, Abstract!absVars
<1>12. CASE UNCHANGED vars
  BY <1>12 DEF vars, Abstract!absVars
<1> QED
  BY <1>1, <1>2, <1>3, <1>4, <1>5, <1>6, <1>7, <1>8, <1>9, <1>10, <1>11, <1>12, <1>13
  DEF Next, Sender, Close, Abstract!AbsNext

\* sendLoop, queueData and close() together keep the queue's promise: order, at
\* most once, refusal only when Limit packets wait, loss only while closing, when
\* every transport's write() holds writeMutex_ (DtlsTransport).
THEOREM KeepsPromiseTheorem ==
  ASSUME Mutexed = Transports
  PROVE  Spec => KeepsPromise
<1>1. Init => Abstract!AbsInit
  BY DEF Init, Abstract!AbsInit
<1> QED
  BY <1>1, Invariant, AbstractStep, PTL DEF Spec, KeepsPromise, Abstract!AbsSpec

=============================================================================
