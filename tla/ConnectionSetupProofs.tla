------------------------ MODULE ConnectionSetupProofs ------------------------
(***************************************************************************)
(* Theorems about ConnectionSetup, for every set of offers and, except for *)
(* NoLostStart, both values of EarlyGathering.  ReadyIsKeyed needs offers  *)
(* whose channels the code keys (DTLS, or SDES with rtcp-mux) and          *)
(* ReadyIsStable offers that are no bundle of two transports: without these*)
(* assumptions the runs show them violated.  NoLostStart is proved for     *)
(* bundles with a video and gathering that ends after the constructor.     *)
(***************************************************************************)
EXTENDS ConnectionSetup, TLAPS

\* Where setRemoteSdp is: what is built belongs to the offer, and a transport
\* under construction has no thread and no pointer yet.
Construction ==
  /\ toBuild \cup tp \subseteq sdp.has
  /\ building \in sdp.has \cup {None}
  /\ building \notin tp \cup toBuild
  /\ tp \cap toBuild = {}
  /\ pc[App] \in {"INITIAL"} \cup AppSteps
  /\ pc[App] \in {"INITIAL", "start", "assign"} <=> building # None
  /\ pc[App] \in {"INITIAL", "start"} => pc[building] = "off" /\ tstate[building] = "INITIAL"
  /\ \A m \in toBuild : pc[m] = "off"

\* How far a transport is, by what its thread is doing.
Phases ==
  /\ \A m \in Media : pc[m] \in LoopSteps \cup {"STARTED", "READY"}
  /\ \A m \in Media : pc[m] = "off" => tstate[m] \in {None, "INITIAL"}
  /\ \A m \in Media : pc[m] # "off" => m \in sdp.has
  /\ \A m \in Media : pc[m] = "init" => tstate[m] = "INITIAL"
  /\ \A m \in Media : ice[m] = "INITIAL" => tstate[m] = "INITIAL"
  /\ \A m \in Media : pc[m] \in {"STARTED", "READY"} => tstate[m] = pc[m]
  /\ \A m \in Media : pc[m] = "iceReady" \/ (\E c \in Components : hs[m][c] # "idle")
       => ice[m] \notin {"unset", "INITIAL"} /\ pc[m] \notin {"off", "init"}

\* Who is inside updateState.
Locked ==
  /\ lock # Free => Calling(lock)
  /\ lock = Free => temp = "INITIAL"
  /\ temp \in {"INITIAL", "STARTED", "READY"}

Keying == \A m \in Media : tstate[m] = "READY" => Comps \subseteq keyed[m]

\* What a thread inside updateState concluded, and what it announced, is true.
Announced ==
  temp = "READY" \/ globalState = "READY" => \A m \in Carrying : tstate[m] = "READY"

IInv == TypeOK /\ Construction /\ Phases /\ Locked /\ Announced

\* Candidates are only handed to transports whose pointer is set, and nothing
\* happens on a transport before it has them.
Handed ==
  /\ \A i \in 1..Len(todo) : todo[i] \in tp
  /\ remote \subseteq tp
  /\ \A m \in Media : pc[m] = "iceReady" \/ tstate[m] = "READY" => m \in remote
  /\ \A m \in Media, c \in Components : hs[m][c] # "idle" => m \in remote

\* A transport that has left its constructor's state has its candidates, and so
\* do all that carry media once the connection has left INITIAL or is about to.
Gathering ==
  /\ \A m \in Media : tstate[m] \notin {None, "INITIAL"} => Gathered(m)
  /\ \A m \in Media : Gathered(m) => pc[m] \notin {"off", "init"}
  /\ \A i \in 1..Len(todo) : Gathered(todo[i])
  /\ temp # "INITIAL" \/ globalState # "INITIAL" \/ asked = "informed"
       => \A m \in Carrying : m \in tp /\ Gathered(m)

\* What getLocalSdp has collected so far.
Answering ==
  /\ described \subseteq Describing
  /\ asked = "no" => described = {}
  /\ asked # "no" => described # {}
  /\ asked = "informed" => \A m \in described : Named(m) \subseteq answer

AllReady == AllIn("READY") /\ sdp.has \subseteq ssrc

\* Only the transports the offer requires are built and started, and in a bundle
\* the audio's is never given candidates.
Sharing ==
  /\ toBuild \cup tp \subseteq Required(sdp)
  /\ building \in Required(sdp) \cup {None}
  /\ \A m \in Media : pc[m] # "off" => m \in Required(sdp)
  /\ sdp.bundle => "audio" \notin remote /\ \A i \in 1..Len(todo) : todo[i] # "audio"

\* No bundle has a second transport, which would report its own states.
Unrivalled(o) == o.bundle => Required(o) # Media

\* What is announced, and what is about to be.
Settled ==
  Unrivalled(sdp) =>
    /\ ~sdp.bundle /\ (temp = "READY" \/ globalState = "READY") => AllReady
    /\ globalState = "READY" /\ lock # Free => temp # "INITIAL"
    /\ sdp.has # {} /\ AllReady =>
         \/ globalState = "READY"
         \/ \E m \in Media : pc[m] = "READY" /\ (lock = m => temp = "READY")

SInv == IInv /\ Handed /\ Sharing /\ Settled /\ Gathering /\ Answering

-----------------------------------------------------------------------------
\* A description's transports are for media it has.
LEMMA RequiredInOffer ==
  ASSUME NEW o \in Offers
  PROVE  Required(o) \subseteq o.has /\ o.has \subseteq Media
BY OffersAssumption DEF Required, Offer

\* The setRemoteCandidates calls that updateState has to make are for media.
LEMMA CandidatesType ==
  ASSUME NEW t
  PROVE  Candidates(t) \in Seq(Media)
<1>1. ASSUME NEW m \in Media, NEW condition PROVE CallIf(m, condition) \in Seq(Media)
  BY DEF CallIf
<1>2. \A a, b \in Seq(Media) : a \o b \in Seq(Media)
  OBVIOUS
<1>3. "video" \in Media /\ "audio" \in Media
  BY DEF Media
<1> DEFINE v == CallIf("video", AllIn("STARTED") /\ "video" \in sdp.has)
           a == CallIf("audio", AllIn("STARTED") /\ "audio" \in sdp.has /\ ~sdp.bundle)
           b == CallIf("video", BundleReport(t))
<1>4. v \in Seq(Media) /\ a \in Seq(Media) /\ b \in Seq(Media)
  BY <1>1, <1>3
<1>5. Candidates(t) = v \o a \o b
  BY DEF Candidates
<1> HIDE DEF v, a, b
<1> QED
  BY <1>2, <1>4, <1>5

\* Taking the first of those calls leaves a sequence of them.
LEMMA HeadTail ==
  ASSUME NEW s \in Seq(Media), s # <<>>
  PROVE  Head(s) \in Media /\ Tail(s) \in Seq(Media)
OBVIOUS

\* Every step keeps every variable in its type.
LEMMA TypeStep == TypeOK /\ [Next]_vars => TypeOK'
<1> SUFFICES ASSUME TypeOK, [Next]_vars PROVE TypeOK'
  OBVIOUS
<1> USE DEF TypeOK, transports, constructed, updating, answering, Threads, App, None, Free,
            TransportStates, IceStates, WebRTCStates, AppSteps, LoopSteps, Components, Comps
<1>1. ASSUME NEW m \in Media, BeginTransport(m) PROVE TypeOK'
  BY <1>1 DEF BeginTransport
<1>2. ASSUME NEW m \in Media, StartNice(m) PROVE TypeOK'
  BY <1>2 DEF StartNice
<1>3. ASSUME NEW m \in Media, AssignTransport(m) PROVE TypeOK'
  BY <1>3 DEF AssignTransport
<1>4. ASSUME ReturnFromSetRemoteSdp PROVE TypeOK'
  BY <1>4 DEF ReturnFromSetRemoteSdp
<1>5. ASSUME NEW m \in Media, NiceInit(m) PROVE TypeOK'
  BY <1>5 DEF NiceInit
<1>6. ASSUME NEW m \in Media, GatheringDone(m) PROVE TypeOK'
  BY <1>6 DEF GatheringDone
<1>7. ASSUME NEW m \in Media, NEW c \in Components, ComponentReady(m, c) PROVE TypeOK'
  <2>1. comps' \in [Media -> SUBSET Components]
    BY <1>7 DEF ComponentReady
  <2>2. ice' \in [Media -> IceStates]
    BY <1>7 DEF ComponentReady
  <2>3. pc' \in [Threads -> AppSteps \cup LoopSteps \cup TransportStates]
    BY <1>7 DEF ComponentReady
  <2> QED
    BY <1>7, <2>1, <2>2, <2>3 DEF ComponentReady
<1>8. ASSUME NEW m \in Media, NEW c \in Components, ComponentFailed(m, c) PROVE TypeOK'
  BY <1>8 DEF ComponentFailed
<1>9. ASSUME NEW m \in Media, SdesReady(m) PROVE TypeOK'
  BY <1>9 DEF SdesReady
<1>10. ASSUME NEW m \in Media, StartHandshakes(m) PROVE TypeOK'
  BY <1>10 DEF StartHandshakes, Sent
<1>11. ASSUME NEW m \in Media, NEW c \in Components, AnswerFlight(m, c) PROVE TypeOK'
  BY <1>11 DEF AnswerFlight, Sent
<1>12. ASSUME NEW m \in Media, NEW c \in Components, HandshakeCompleted(m, c) PROVE TypeOK'
  <2>1. keyed' \in [Media -> SUBSET Components]
    BY <1>12 DEF HandshakeCompleted
  <2>2. CASE Comps \subseteq keyed'[m]
    BY <1>12, <2>1, <2>2 DEF HandshakeCompleted
  <2>3. CASE ~(Comps \subseteq keyed'[m])
    BY <1>12, <2>1, <2>3 DEF HandshakeCompleted
  <2> QED
    BY <2>2, <2>3
<1>13. ASSUME NEW m \in Media, LearnSsrc(m) PROVE TypeOK'
  BY <1>13 DEF LearnSsrc
<1>14. ASSUME NEW t \in Threads, UpdateBegin(t) PROVE TypeOK'
  <2>1. NewState(t) \in WebRTCStates
    BY Zenon DEF NewState, WebRTCStates
  <2>2. CASE tp = {}
    BY <1>14, <2>2 DEF UpdateBegin, Returned
  <2>3. CASE tp # {}
    <3>1. Candidates(t) \in Seq(Media) /\ <<>> \in Seq(Media)
      BY CandidatesType
    <3>2. todo' \in Seq(Media)
      BY <1>14, <2>3, <3>1, Zenon DEF UpdateBegin
    <3> QED
      BY <1>14, <2>1, <2>3, <3>2 DEF UpdateBegin
  <2> QED
    BY <2>2, <2>3
<1>15. ASSUME NEW t \in Threads, GiveCandidates(t) PROVE TypeOK'
  BY <1>15, HeadTail DEF GiveCandidates
<1>16. ASSUME NEW t \in Threads, MarkReceived(t) PROVE TypeOK'
  BY <1>16, HeadTail DEF MarkReceived
<1>17. ASSUME NEW t \in Threads, UpdateEnd(t) PROVE TypeOK'
  BY <1>17 DEF UpdateEnd, Returned
<1>18. ASSUME NEW m \in Media, GetLocalSdp(m) PROVE TypeOK'
  BY <1>18 DEF GetLocalSdp, Named, Media
<1>19. CASE UNCHANGED vars
  BY <1>19 DEF vars
<1> QED
  BY <1>1, <1>2, <1>3, <1>4, <1>5, <1>6, <1>7, <1>8, <1>9, <1>10, <1>11, <1>12, <1>13, <1>14, <1>15, <1>16, <1>17, <1>18, <1>19
  DEF Next, SetRemoteSdp, UpdateState, KeyExchange, Checks, Idle

\* The initial states are typed.
LEMMA TypeInit == Init => TypeOK
<1> SUFFICES ASSUME Init PROVE TypeOK
  OBVIOUS
<1>1. sdp \in Offers /\ toBuild \subseteq Media
  BY RequiredInOffer DEF Init
<1>2. ssrc \subseteq Media
  BY OffersAssumption DEF Init, Offer
<1>3. pc \in [Threads -> AppSteps \cup LoopSteps \cup TransportStates]
  BY DEF Init, AppSteps, LoopSteps
<1>4. todo \in Seq(Media)
  BY DEF Init
<1> QED
  BY <1>1, <1>2, <1>3, <1>4
  DEF Init, TypeOK, Threads, Free, TransportStates, IceStates, WebRTCStates

\* The variables keep their types (every operation of setRemoteSdp,
\* NiceConnection's callbacks, the transports and updateState).
THEOREM Typing == Spec => []TypeOK
BY TypeInit, TypeStep, PTL DEF Spec

-----------------------------------------------------------------------------
(* Each part of the invariant is preserved, action by action.               *)

\* setRemoteSdp builds each transport of the offer once, in any interleaving.
LEMMA ConstructionStep ==
  ASSUME TypeOK, Construction, Locked, [Next]_vars
  PROVE  Construction'
<1> USE DEF TypeOK, Construction, Locked, Calling, transports, constructed, updating, Threads, App, None, Free, Media,
           TransportStates, AppSteps, LoopSteps, Components, Comps
<1>1. ASSUME NEW m \in Media, BeginTransport(m) PROVE Construction'
  BY <1>1 DEF BeginTransport
<1>2. ASSUME NEW m \in Media, StartNice(m) PROVE Construction'
  BY <1>2 DEF StartNice
<1>3. ASSUME NEW m \in Media, AssignTransport(m) PROVE Construction'
  BY <1>3 DEF AssignTransport
<1>4. ASSUME ReturnFromSetRemoteSdp PROVE Construction'
  BY <1>4 DEF ReturnFromSetRemoteSdp
<1>5. ASSUME NEW m \in Media, NiceInit(m) PROVE Construction'
  BY <1>5 DEF NiceInit
<1>6. ASSUME NEW m \in Media, GatheringDone(m) PROVE Construction'
  BY <1>6 DEF GatheringDone
<1>7. ASSUME NEW m \in Media, NEW c \in Components, ComponentReady(m, c) PROVE Construction'
  BY <1>7 DEF ComponentReady
<1>8. ASSUME NEW m \in Media, NEW c \in Components, ComponentFailed(m, c) PROVE Construction'
  BY <1>8 DEF ComponentFailed
<1>9. ASSUME NEW m \in Media, SdesReady(m) PROVE Construction'
  BY <1>9 DEF SdesReady
<1>10. ASSUME NEW m \in Media, StartHandshakes(m) PROVE Construction'
  BY <1>10 DEF StartHandshakes
<1>11. ASSUME NEW m \in Media, NEW c \in Components, AnswerFlight(m, c) PROVE Construction'
  BY <1>11 DEF AnswerFlight
<1>12. ASSUME NEW m \in Media, NEW c \in Components, HandshakeCompleted(m, c) PROVE Construction'
  BY <1>12 DEF HandshakeCompleted
<1>13. ASSUME NEW m \in Media, LearnSsrc(m) PROVE Construction'
  BY <1>13 DEF LearnSsrc
<1>14. ASSUME NEW t \in Threads, UpdateBegin(t) PROVE Construction'
  BY <1>14 DEF UpdateBegin, Returned
<1>15. ASSUME NEW t \in Threads, GiveCandidates(t) PROVE Construction'
  BY <1>15 DEF GiveCandidates
<1>16. ASSUME NEW t \in Threads, MarkReceived(t) PROVE Construction'
  BY <1>16 DEF MarkReceived
<1>17. ASSUME NEW t \in Threads, UpdateEnd(t) PROVE Construction'
  BY <1>17 DEF UpdateEnd, Returned
<1>18. ASSUME NEW m \in Media, GetLocalSdp(m) PROVE Construction'
  BY <1>18 DEF GetLocalSdp
<1>19. CASE UNCHANGED vars
  BY <1>19 DEF vars
<1> QED
  BY <1>1, <1>2, <1>3, <1>4, <1>5, <1>6, <1>7, <1>8, <1>9,
     <1>10, <1>11, <1>12, <1>13, <1>14, <1>15, <1>16, <1>17, <1>18, <1>19
  DEF Next, SetRemoteSdp, UpdateState, KeyExchange, Checks, Idle

\* A transport's thread, its ICE state and its transport state advance together.
LEMMA PhasesStep ==
  ASSUME TypeOK, Construction, Phases, Locked, [Next]_vars
  PROVE  Phases'
<1> USE DEF TypeOK, Phases, Locked, Calling, transports, constructed, updating, Threads, App, None, Free, Media,
           TransportStates, AppSteps, LoopSteps, Components, Comps
<1>1. ASSUME NEW m \in Media, BeginTransport(m) PROVE Phases'
  BY <1>1 DEF BeginTransport, Construction
<1>2. ASSUME NEW m \in Media, StartNice(m) PROVE Phases'
  BY <1>2 DEF StartNice, Construction
<1>3. ASSUME NEW m \in Media, AssignTransport(m) PROVE Phases'
  BY <1>3 DEF AssignTransport
<1>4. ASSUME ReturnFromSetRemoteSdp PROVE Phases'
  BY <1>4 DEF ReturnFromSetRemoteSdp
<1>5. ASSUME NEW m \in Media, NiceInit(m) PROVE Phases'
  BY <1>5 DEF NiceInit
<1>6. ASSUME NEW m \in Media, GatheringDone(m) PROVE Phases'
  BY <1>6 DEF GatheringDone
<1>7. ASSUME NEW m \in Media, NEW c \in Components, ComponentReady(m, c) PROVE Phases'
  BY <1>7 DEF ComponentReady
<1>8. ASSUME NEW m \in Media, NEW c \in Components, ComponentFailed(m, c) PROVE Phases'
  BY <1>8 DEF ComponentFailed
<1>9. ASSUME NEW m \in Media, SdesReady(m) PROVE Phases'
  BY <1>9 DEF SdesReady
<1>10. ASSUME NEW m \in Media, StartHandshakes(m) PROVE Phases'
  BY <1>10 DEF StartHandshakes
<1>11. ASSUME NEW m \in Media, NEW c \in Components, AnswerFlight(m, c) PROVE Phases'
  BY <1>11 DEF AnswerFlight
<1>12. ASSUME NEW m \in Media, NEW c \in Components, HandshakeCompleted(m, c) PROVE Phases'
  BY <1>12 DEF HandshakeCompleted
<1>13. ASSUME NEW m \in Media, LearnSsrc(m) PROVE Phases'
  BY <1>13 DEF LearnSsrc
<1>14. ASSUME NEW t \in Threads, UpdateBegin(t) PROVE Phases'
  BY <1>14 DEF UpdateBegin, Returned
<1>15. ASSUME NEW t \in Threads, GiveCandidates(t) PROVE Phases'
  BY <1>15 DEF GiveCandidates
<1>16. ASSUME NEW t \in Threads, MarkReceived(t) PROVE Phases'
  BY <1>16 DEF MarkReceived
<1>17. ASSUME NEW t \in Threads, UpdateEnd(t) PROVE Phases'
  BY <1>17 DEF UpdateEnd, Returned
<1>18. ASSUME NEW m \in Media, GetLocalSdp(m) PROVE Phases'
  BY <1>18 DEF GetLocalSdp
<1>19. CASE UNCHANGED vars
  BY <1>19 DEF vars
<1> QED
  BY <1>1, <1>2, <1>3, <1>4, <1>5, <1>6, <1>7, <1>8, <1>9,
     <1>10, <1>11, <1>12, <1>13, <1>14, <1>15, <1>16, <1>17, <1>18, <1>19
  DEF Next, SetRemoteSdp, UpdateState, KeyExchange, Checks, Idle

\* Only a thread that called updateState holds updateStateMutex_.
LEMMA LockedStep ==
  ASSUME TypeOK, Phases, Construction, Locked, [Next]_vars
  PROVE  Locked'
<1> USE DEF TypeOK, Phases, Locked, Calling, transports, constructed, updating, Threads, App, None, Free, Media,
           TransportStates, AppSteps, LoopSteps, Components, Comps
<1>1. ASSUME NEW m \in Media, BeginTransport(m) PROVE Locked'
  BY <1>1 DEF BeginTransport
<1>2. ASSUME NEW m \in Media, StartNice(m) PROVE Locked'
  BY <1>2 DEF StartNice, Construction
<1>3. ASSUME NEW m \in Media, AssignTransport(m) PROVE Locked'
  BY <1>3 DEF AssignTransport
<1>4. ASSUME ReturnFromSetRemoteSdp PROVE Locked'
  BY <1>4 DEF ReturnFromSetRemoteSdp
<1>5. ASSUME NEW m \in Media, NiceInit(m) PROVE Locked'
  BY <1>5 DEF NiceInit
<1>6. ASSUME NEW m \in Media, GatheringDone(m) PROVE Locked'
  BY <1>6 DEF GatheringDone
<1>7. ASSUME NEW m \in Media, NEW c \in Components, ComponentReady(m, c) PROVE Locked'
  BY <1>7 DEF ComponentReady
<1>8. ASSUME NEW m \in Media, NEW c \in Components, ComponentFailed(m, c) PROVE Locked'
  BY <1>8 DEF ComponentFailed
<1>9. ASSUME NEW m \in Media, SdesReady(m) PROVE Locked'
  BY <1>9 DEF SdesReady
<1>10. ASSUME NEW m \in Media, StartHandshakes(m) PROVE Locked'
  BY <1>10 DEF StartHandshakes
<1>11. ASSUME NEW m \in Media, NEW c \in Components, AnswerFlight(m, c) PROVE Locked'
  BY <1>11 DEF AnswerFlight
<1>12. ASSUME NEW m \in Media, NEW c \in Components, HandshakeCompleted(m, c) PROVE Locked'
  BY <1>12 DEF HandshakeCompleted
<1>13. ASSUME NEW m \in Media, LearnSsrc(m) PROVE Locked'
  BY <1>13 DEF LearnSsrc
<1>14. ASSUME NEW t \in Threads, UpdateBegin(t) PROVE Locked'
  BY <1>14 DEF UpdateBegin, Returned, NewState
<1>15. ASSUME NEW t \in Threads, GiveCandidates(t) PROVE Locked'
  BY <1>15 DEF GiveCandidates
<1>16. ASSUME NEW t \in Threads, MarkReceived(t) PROVE Locked'
  BY <1>16 DEF MarkReceived
<1>17. ASSUME NEW t \in Threads, UpdateEnd(t) PROVE Locked'
  BY <1>17 DEF UpdateEnd, Returned
<1>18. ASSUME NEW m \in Media, GetLocalSdp(m) PROVE Locked'
  BY <1>18 DEF GetLocalSdp
<1>19. CASE UNCHANGED vars
  BY <1>19 DEF vars
<1> QED
  BY <1>1, <1>2, <1>3, <1>4, <1>5, <1>6, <1>7, <1>8, <1>9,
     <1>10, <1>11, <1>12, <1>13, <1>14, <1>15, <1>16, <1>17, <1>18, <1>19
  DEF Next, SetRemoteSdp, UpdateState, KeyExchange, Checks, Idle

\* Both updateIceState and onHandshakeCompleted key a transport before it is ready.
LEMMA KeyingStep ==
  ASSUME \A o \in Offers : o.dtls \/ o.rtcpMux,
         TypeOK, Phases, Keying, [Next]_vars
  PROVE  Keying'
<1> USE DEF TypeOK, Keying, transports, constructed, updating, Threads, App, None, Free, Media,
           TransportStates, AppSteps, LoopSteps, Components, Comps, Components, Comps
<1>1. ASSUME NEW m \in Media, BeginTransport(m) PROVE Keying'
  BY <1>1 DEF BeginTransport
<1>2. ASSUME NEW m \in Media, StartNice(m) PROVE Keying'
  BY <1>2 DEF StartNice
<1>3. ASSUME NEW m \in Media, AssignTransport(m) PROVE Keying'
  BY <1>3 DEF AssignTransport
<1>4. ASSUME ReturnFromSetRemoteSdp PROVE Keying'
  BY <1>4 DEF ReturnFromSetRemoteSdp
<1>5. ASSUME NEW m \in Media, NiceInit(m) PROVE Keying'
  BY <1>5 DEF NiceInit
<1>6. ASSUME NEW m \in Media, GatheringDone(m) PROVE Keying'
  BY <1>6 DEF GatheringDone, Phases
<1>7. ASSUME NEW m \in Media, NEW c \in Components, ComponentReady(m, c) PROVE Keying'
  BY <1>7 DEF ComponentReady
<1>8. ASSUME NEW m \in Media, NEW c \in Components, ComponentFailed(m, c) PROVE Keying'
  BY <1>8 DEF ComponentFailed
<1>9. ASSUME NEW m \in Media, SdesReady(m) PROVE Keying'
  BY <1>9 DEF SdesReady
<1>10. ASSUME NEW m \in Media, StartHandshakes(m) PROVE Keying'
  BY <1>10 DEF StartHandshakes
<1>11. ASSUME NEW m \in Media, NEW c \in Components, AnswerFlight(m, c) PROVE Keying'
  BY <1>11 DEF AnswerFlight
<1>12. ASSUME NEW m \in Media, NEW c \in Components, HandshakeCompleted(m, c) PROVE Keying'
  BY <1>12 DEF HandshakeCompleted
<1>13. ASSUME NEW m \in Media, LearnSsrc(m) PROVE Keying'
  BY <1>13 DEF LearnSsrc
<1>14. ASSUME NEW t \in Threads, UpdateBegin(t) PROVE Keying'
  BY <1>14 DEF UpdateBegin
<1>15. ASSUME NEW t \in Threads, GiveCandidates(t) PROVE Keying'
  BY <1>15 DEF GiveCandidates
<1>16. ASSUME NEW t \in Threads, MarkReceived(t) PROVE Keying'
  BY <1>16 DEF MarkReceived
<1>17. ASSUME NEW t \in Threads, UpdateEnd(t) PROVE Keying'
  BY <1>17 DEF UpdateEnd
<1>18. ASSUME NEW m \in Media, GetLocalSdp(m) PROVE Keying'
  BY <1>18 DEF GetLocalSdp
<1>19. CASE UNCHANGED vars
  BY <1>19 DEF vars
<1> QED
  BY <1>1, <1>2, <1>3, <1>4, <1>5, <1>6, <1>7, <1>8, <1>9,
     <1>10, <1>11, <1>12, <1>13, <1>14, <1>15, <1>16, <1>17, <1>18, <1>19
  DEF Next, SetRemoteSdp, UpdateState, KeyExchange, Checks, Idle

\* What updateState concludes, and then announces, stays true of the transports.
LEMMA AnnouncedStep ==
  ASSUME TypeOK, Construction, Phases, Locked, Announced, [Next]_vars
  PROVE  Announced'
<1> USE DEF TypeOK, Announced, Carrying, transports, constructed, updating, Threads, App, None, Free, Media,
           TransportStates, AppSteps, LoopSteps, Components, Comps
<1>1. ASSUME NEW m \in Media, BeginTransport(m) PROVE Announced'
  BY <1>1 DEF BeginTransport, Phases, Construction
<1>2. ASSUME NEW m \in Media, StartNice(m) PROVE Announced'
  BY <1>2 DEF StartNice
<1>3. ASSUME NEW m \in Media, AssignTransport(m) PROVE Announced'
  BY <1>3 DEF AssignTransport
<1>4. ASSUME ReturnFromSetRemoteSdp PROVE Announced'
  BY <1>4 DEF ReturnFromSetRemoteSdp
<1>5. ASSUME NEW m \in Media, NiceInit(m) PROVE Announced'
  BY <1>5 DEF NiceInit
<1>6. ASSUME NEW m \in Media, GatheringDone(m) PROVE Announced'
  BY <1>6 DEF GatheringDone, Phases
<1>7. ASSUME NEW m \in Media, NEW c \in Components, ComponentReady(m, c) PROVE Announced'
  BY <1>7 DEF ComponentReady
<1>8. ASSUME NEW m \in Media, NEW c \in Components, ComponentFailed(m, c) PROVE Announced'
  BY <1>8 DEF ComponentFailed
<1>9. ASSUME NEW m \in Media, SdesReady(m) PROVE Announced'
  BY <1>9 DEF SdesReady
<1>10. ASSUME NEW m \in Media, StartHandshakes(m) PROVE Announced'
  BY <1>10 DEF StartHandshakes
<1>11. ASSUME NEW m \in Media, NEW c \in Components, AnswerFlight(m, c) PROVE Announced'
  BY <1>11 DEF AnswerFlight
<1>12. ASSUME NEW m \in Media, NEW c \in Components, HandshakeCompleted(m, c) PROVE Announced'
  <2>1. \A n \in Media : tstate[n] = "READY" => tstate'[n] = "READY"
    BY <1>12 DEF HandshakeCompleted
  <2>2. UNCHANGED <<sdp, temp, globalState>>
    BY <1>12 DEF HandshakeCompleted
  <2>3. Carrying \subseteq Media
    BY OffersAssumption DEF Offer
  <2> QED
    BY <2>1, <2>2, <2>3
<1>13. ASSUME NEW m \in Media, LearnSsrc(m) PROVE Announced'
  BY <1>13 DEF LearnSsrc
<1>14. ASSUME NEW t \in Threads, UpdateBegin(t) PROVE Announced'
  BY <1>14 DEF UpdateBegin, Locked, Calling, NewState, AllIn, BundleReport, Phases, Construction
<1>15. ASSUME NEW t \in Threads, GiveCandidates(t) PROVE Announced'
  BY <1>15 DEF GiveCandidates
<1>16. ASSUME NEW t \in Threads, MarkReceived(t) PROVE Announced'
  BY <1>16 DEF MarkReceived
<1>17. ASSUME NEW t \in Threads, UpdateEnd(t) PROVE Announced'
  BY <1>17 DEF UpdateEnd
<1>18. ASSUME NEW m \in Media, GetLocalSdp(m) PROVE Announced'
  BY <1>18 DEF GetLocalSdp
<1>19. CASE UNCHANGED vars
  BY <1>19 DEF vars
<1> QED
  BY <1>1, <1>2, <1>3, <1>4, <1>5, <1>6, <1>7, <1>8, <1>9,
     <1>10, <1>11, <1>12, <1>13, <1>14, <1>15, <1>16, <1>17, <1>18, <1>19
  DEF Next, SetRemoteSdp, UpdateState, KeyExchange, Checks, Idle

\* Candidates reach only transports whose pointer is set, and nothing precedes them.
LEMMA HandedStep ==
  ASSUME TypeOK, Construction, Phases, Locked, Handed, [Next]_vars
  PROVE  Handed'
<1> USE DEF TypeOK, Handed, transports, constructed, updating, Threads, App, None, Free, Media,
           TransportStates, AppSteps, LoopSteps, Components, Comps, Components, Comps
<1>1. ASSUME NEW m \in Media, BeginTransport(m) PROVE Handed'
  BY <1>1 DEF BeginTransport, Construction
<1>2. ASSUME NEW m \in Media, StartNice(m) PROVE Handed'
  BY <1>2 DEF StartNice
<1>3. ASSUME NEW m \in Media, AssignTransport(m) PROVE Handed'
  BY <1>3 DEF AssignTransport
<1>4. ASSUME ReturnFromSetRemoteSdp PROVE Handed'
  BY <1>4 DEF ReturnFromSetRemoteSdp
<1>5. ASSUME NEW m \in Media, NiceInit(m) PROVE Handed'
  BY <1>5 DEF NiceInit
<1>6. ASSUME NEW m \in Media, GatheringDone(m) PROVE Handed'
  BY <1>6 DEF GatheringDone, Phases
<1>7. ASSUME NEW m \in Media, NEW c \in Components, ComponentReady(m, c) PROVE Handed'
  BY <1>7 DEF ComponentReady
<1>8. ASSUME NEW m \in Media, NEW c \in Components, ComponentFailed(m, c) PROVE Handed'
  BY <1>8 DEF ComponentFailed
<1>9. ASSUME NEW m \in Media, SdesReady(m) PROVE Handed'
  BY <1>9 DEF SdesReady
<1>10. ASSUME NEW m \in Media, StartHandshakes(m) PROVE Handed'
  BY <1>10 DEF StartHandshakes
<1>11. ASSUME NEW m \in Media, NEW c \in Components, AnswerFlight(m, c) PROVE Handed'
  BY <1>11 DEF AnswerFlight
<1>12. ASSUME NEW m \in Media, NEW c \in Components, HandshakeCompleted(m, c) PROVE Handed'
  BY <1>12 DEF HandshakeCompleted
<1>13. ASSUME NEW m \in Media, LearnSsrc(m) PROVE Handed'
  BY <1>13 DEF LearnSsrc
<1>14. ASSUME NEW t \in Threads, UpdateBegin(t) PROVE Handed'
  BY <1>14 DEF UpdateBegin, Locked, Candidates, CallIf, AllIn, BundleReport, Returned, Calling, Construction
<1>15. ASSUME NEW t \in Threads, GiveCandidates(t) PROVE Handed'
  <2>1. Head(todo) = todo[1] /\ 1 \in 1..Len(todo)
    BY <1>15 DEF GiveCandidates
  <2>2. Head(todo) \in tp
    BY <2>1
  <2> QED
    BY <1>15, <2>2 DEF GiveCandidates
<1>16. ASSUME NEW t \in Threads, MarkReceived(t) PROVE Handed'
  BY <1>16 DEF MarkReceived
<1>17. ASSUME NEW t \in Threads, UpdateEnd(t) PROVE Handed'
  BY <1>17 DEF UpdateEnd, Returned
<1>18. ASSUME NEW m \in Media, GetLocalSdp(m) PROVE Handed'
  BY <1>18 DEF GetLocalSdp
<1>19. CASE UNCHANGED vars
  BY <1>19 DEF vars
<1> QED
  BY <1>1, <1>2, <1>3, <1>4, <1>5, <1>6, <1>7, <1>8, <1>9,
     <1>10, <1>11, <1>12, <1>13, <1>14, <1>15, <1>16, <1>17, <1>18, <1>19
  DEF Next, SetRemoteSdp, UpdateState, KeyExchange, Checks, Idle

\* A bundle's audio transport is built, with DTLS, but the candidates are the
\* video's: it stays where its gathering ended.
LEMMA SharingStep ==
  ASSUME TypeOK, Locked, Sharing, [Next]_vars
  PROVE  Sharing'
<1> USE DEF TypeOK, Sharing, transports, constructed, updating, answering, Threads, App, None, Free, Media,
           TransportStates, AppSteps, LoopSteps, Components, Comps
<1>1. ASSUME NEW m \in Media, BeginTransport(m) PROVE Sharing'
  BY <1>1 DEF BeginTransport
<1>2. ASSUME NEW m \in Media, StartNice(m) PROVE Sharing'
  BY <1>2 DEF StartNice
<1>3. ASSUME NEW m \in Media, AssignTransport(m) PROVE Sharing'
  BY <1>3 DEF AssignTransport
<1>4. ASSUME ReturnFromSetRemoteSdp PROVE Sharing'
  BY <1>4 DEF ReturnFromSetRemoteSdp
<1>5. ASSUME NEW m \in Media, NiceInit(m) PROVE Sharing'
  BY <1>5 DEF NiceInit
<1>6. ASSUME NEW m \in Media, GatheringDone(m) PROVE Sharing'
  BY <1>6 DEF GatheringDone
<1>7. ASSUME NEW m \in Media, NEW c \in Components, ComponentReady(m, c) PROVE Sharing'
  BY <1>7 DEF ComponentReady
<1>8. ASSUME NEW m \in Media, NEW c \in Components, ComponentFailed(m, c) PROVE Sharing'
  BY <1>8 DEF ComponentFailed
<1>9. ASSUME NEW m \in Media, SdesReady(m) PROVE Sharing'
  BY <1>9 DEF SdesReady
<1>10. ASSUME NEW m \in Media, StartHandshakes(m) PROVE Sharing'
  BY <1>10 DEF StartHandshakes
<1>11. ASSUME NEW m \in Media, NEW c \in Components, AnswerFlight(m, c) PROVE Sharing'
  BY <1>11 DEF AnswerFlight
<1>12. ASSUME NEW m \in Media, NEW c \in Components, HandshakeCompleted(m, c) PROVE Sharing'
  BY <1>12 DEF HandshakeCompleted
<1>13. ASSUME NEW m \in Media, LearnSsrc(m) PROVE Sharing'
  BY <1>13 DEF LearnSsrc
<1>14. ASSUME NEW t \in Threads, UpdateBegin(t) PROVE Sharing'
  BY <1>14 DEF UpdateBegin, Candidates, CallIf, Returned, Calling
<1>15. ASSUME NEW t \in Threads, GiveCandidates(t) PROVE Sharing'
  <2>1. Head(todo) = todo[1] /\ 1 \in 1..Len(todo)
    BY <1>15 DEF GiveCandidates
  <2> QED
    BY <1>15, <2>1 DEF GiveCandidates
<1>16. ASSUME NEW t \in Threads, MarkReceived(t) PROVE Sharing'
  BY <1>16 DEF MarkReceived
<1>17. ASSUME NEW t \in Threads, UpdateEnd(t) PROVE Sharing'
  BY <1>17 DEF UpdateEnd, Returned, Locked, Calling
<1>18. ASSUME NEW m \in Media, GetLocalSdp(m) PROVE Sharing'
  BY <1>18 DEF GetLocalSdp
<1>19. CASE UNCHANGED vars
  BY <1>19 DEF vars
<1> QED
  BY <1>1, <1>2, <1>3, <1>4, <1>5, <1>6, <1>7, <1>8, <1>9,
     <1>10, <1>11, <1>12, <1>13, <1>14, <1>15, <1>16, <1>17, <1>18, <1>19
  DEF Next, SetRemoteSdp, UpdateState, KeyExchange, Checks, Idle

\* A thread that enters updateState once READY is announced reports a state that
\* does not take it back, when there is no second transport of a bundle.
LEMMA ReadyIsReported ==
  ASSUME TypeOK, Construction, Phases, Announced, Handed, Sharing, Settled, Unrivalled(sdp),
         globalState = "READY", tp # {}, NEW t \in Threads, Calling(t)
  PROVE  NewState(t) # "INITIAL"
<1> USE DEF Threads, App, Media, None, Calling, TransportStates, AppSteps, LoopSteps
<1>1. CASE ~sdp.bundle
  <2>1. AllReady
    BY <1>1 DEF Settled
  <2>2. \A m \in sdp.has : tstate[m] = "READY" /\ m \in tp
    BY <2>1 DEF AllReady, AllIn
  <2>3. t # App
    BY <2>2 DEF Construction
  <2>4. t \in sdp.has /\ pc[t] = tstate[t]
    BY <2>3 DEF Phases
  <2> QED
    BY <2>1, <2>2, <2>4 DEF NewState, AllReady
<1>2. CASE sdp.bundle
  <2>1. "audio" \notin remote
    BY <1>2 DEF Sharing
  <2>2. tstate["video"] = "READY"
    <3>1. \A m \in Carrying : tstate[m] = "READY" /\ m \in Media
      BY OffersAssumption DEF Announced, Carrying, TypeOK, Offer
    <3>2. Carrying # {}
      BY DEF Carrying, Construction
    <3> QED
      BY <2>1, <3>1, <3>2 DEF Handed
  <2>3. "video" \in tp
    BY <2>2 DEF Handed
  <2>4. Required(sdp) = {"video"}
    <3>1. Required(sdp) \subseteq Media
      BY RequiredInOffer DEF TypeOK
    <3> QED
      BY <1>2, <2>3, <3>1 DEF Sharing, Unrivalled
  <2>5. t = "video"
    BY <2>3, <2>4 DEF Sharing, Construction
  <2>6. pc[t] = "READY"
    BY <2>2, <2>5 DEF Phases
  <2> QED
    BY <1>2, <2>3, <2>5, <2>6 DEF NewState, BundleReport
<1> QED
  BY <1>1, <1>2

\* The last transport to become ready announces READY.
LEMMA SettledStep ==
  ASSUME TypeOK, Construction, Phases, Locked, Announced, Handed, Sharing, Settled, [Next]_vars
  PROVE  Settled'
<1> USE DEF TypeOK, Settled, AllReady, AllIn, transports, constructed, updating, Threads, App, None, Free, Media,
           TransportStates, AppSteps, LoopSteps, Components, Comps
<1>1. ASSUME NEW m \in Media, BeginTransport(m) PROVE Settled'
  BY <1>1 DEF BeginTransport, Phases, Construction
<1>2. ASSUME NEW m \in Media, StartNice(m) PROVE Settled'
  BY <1>2 DEF StartNice, Construction
<1>3. ASSUME NEW m \in Media, AssignTransport(m) PROVE Settled'
  BY <1>3 DEF AssignTransport, Handed, Construction, Phases
<1>4. ASSUME ReturnFromSetRemoteSdp PROVE Settled'
  BY <1>4 DEF ReturnFromSetRemoteSdp
<1>5. ASSUME NEW m \in Media, NiceInit(m) PROVE Settled'
  BY <1>5 DEF NiceInit
<1>6. ASSUME NEW m \in Media, GatheringDone(m) PROVE Settled'
  BY <1>6 DEF GatheringDone, Phases
<1>7. ASSUME NEW m \in Media, NEW c \in Components, ComponentReady(m, c) PROVE Settled'
  BY <1>7 DEF ComponentReady
<1>8. ASSUME NEW m \in Media, NEW c \in Components, ComponentFailed(m, c) PROVE Settled'
  BY <1>8 DEF ComponentFailed
<1>9. ASSUME NEW m \in Media, SdesReady(m) PROVE Settled'
  BY <1>9 DEF SdesReady, Locked, Calling, Phases
<1>10. ASSUME NEW m \in Media, StartHandshakes(m) PROVE Settled'
  BY <1>10 DEF StartHandshakes
<1>11. ASSUME NEW m \in Media, NEW c \in Components, AnswerFlight(m, c) PROVE Settled'
  BY <1>11 DEF AnswerFlight
<1>12. ASSUME NEW m \in Media, NEW c \in Components, HandshakeCompleted(m, c) PROVE Settled'
  <2>1. lock # m
    BY <1>12 DEF HandshakeCompleted, Locked, Calling
  <2>2. CASE Comps \subseteq keyed'[m]
    <3>1. tstate' = [tstate EXCEPT ![m] = "READY"] /\ pc' = [pc EXCEPT ![m] = "READY"]
          /\ UNCHANGED <<sdp, tp, ssrc, lock, temp, globalState>>
      BY <1>12, <2>2 DEF HandshakeCompleted
    <3> QED
      BY <2>1, <3>1
  <2>3. CASE ~(Comps \subseteq keyed'[m])
    <3>1. UNCHANGED <<tstate, pc, sdp, tp, ssrc, lock, temp, globalState>>
      BY <1>12, <2>3 DEF HandshakeCompleted
    <3> QED
      BY <3>1
  <2> QED
    BY <2>2, <2>3
<1>13. ASSUME NEW m \in Media, LearnSsrc(m) PROVE Settled'
  BY <1>13 DEF LearnSsrc, Locked, Calling, Phases
<1>14. ASSUME NEW t \in Threads, UpdateBegin(t) PROVE Settled'
  <2> SUFFICES ASSUME Unrivalled(sdp) PROVE Settled'
    BY <1>14 DEF UpdateBegin
  <2>1. UNCHANGED <<sdp, tp, tstate, ssrc, globalState, AllReady>> /\ lock = Free /\ Calling(t)
    BY <1>14 DEF UpdateBegin
  <2>2. CASE tp = {}
    <3>1. UNCHANGED <<lock, temp>> /\ (sdp.has # {} => ~AllReady)
      BY <1>14, <2>1, <2>2 DEF UpdateBegin
    <3> QED
      BY <2>1, <3>1
  <2>3. CASE tp # {}
    <3>1. lock' = t /\ temp' = NewState(t) /\ UNCHANGED pc
      BY <1>14, <2>3 DEF UpdateBegin
    <3>2. ~sdp.bundle /\ (temp' = "READY" \/ globalState = "READY") => AllReady
      BY <2>1, <3>1 DEF NewState, BundleReport, Locked
    <3>3. globalState = "READY" => NewState(t) # "INITIAL"
      BY <2>1, <2>3, ReadyIsReported
    <3>4. sdp.has # {} /\ AllReady =>
            \/ globalState = "READY"
            \/ \E m \in Media : pc[m] = "READY" /\ (t = m => NewState(t) = "READY")
      BY <2>1 DEF NewState
    <3> HIDE DEF AllReady, AllIn
    <3> QED
      BY <2>1, <3>1, <3>2, <3>3, <3>4
  <2> QED
    BY <2>2, <2>3
<1>15. ASSUME NEW t \in Threads, GiveCandidates(t) PROVE Settled'
  BY <1>15 DEF GiveCandidates
<1>16. ASSUME NEW t \in Threads, MarkReceived(t) PROVE Settled'
  BY <1>16 DEF MarkReceived
<1>17. ASSUME NEW t \in Threads, UpdateEnd(t) PROVE Settled'
  <2> SUFFICES ASSUME Unrivalled(sdp) PROVE Settled'
    BY <1>17 DEF UpdateEnd
  <2>1. UNCHANGED AllReady /\ temp' = "INITIAL" /\ lock' = Free
    BY <1>17 DEF UpdateEnd
  <2>2. \A m \in Media : m # t => pc'[m] = pc[m]
    BY <1>17 DEF UpdateEnd, Returned
  <2>3. CASE temp = "READY" \/ globalState = "READY"
    <3>1. globalState' = "READY" /\ (~sdp.bundle => AllReady) /\ UNCHANGED sdp
      BY <1>17, <2>3 DEF UpdateEnd, Locked
    <3> HIDE DEF AllReady
    <3> QED
      BY <2>1, <3>1
  <2>4. CASE temp # "READY" /\ globalState # "READY"
    <3>1. globalState' # "READY"
      BY <1>17, <2>4 DEF UpdateEnd
    <3>2. ASSUME NEW m \in Media, pc[m] = "READY", lock = m => temp = "READY"
          PROVE  pc'[m] = "READY" /\ lock' # m
      BY <1>17, <2>1, <2>2, <2>4, <3>2 DEF UpdateEnd
    <3>3. UNCHANGED sdp
      BY <1>17 DEF UpdateEnd
    <3> HIDE DEF AllReady
    <3> QED
      BY <2>1, <2>4, <3>1, <3>2, <3>3
  <2> QED
    BY <2>3, <2>4
<1>18. ASSUME NEW m \in Media, GetLocalSdp(m) PROVE Settled'
  BY <1>18 DEF GetLocalSdp
<1>19. CASE UNCHANGED vars
  BY <1>19 DEF vars
<1> QED
  BY <1>1, <1>2, <1>3, <1>4, <1>5, <1>6, <1>7, <1>8, <1>9,
     <1>10, <1>11, <1>12, <1>13, <1>14, <1>15, <1>16, <1>17, <1>18, <1>19
  DEF Next, SetRemoteSdp, UpdateState, KeyExchange, Checks, Idle

\* The candidates are there before anything is announced, and they stay.
LEMMA GatheringStep ==
  ASSUME TypeOK, Construction, Phases, Locked, Answering, Gathering, [Next]_vars
  PROVE  Gathering'
<1> USE DEF TypeOK, Gathering, Gathered, Carrying, transports, constructed, updating, answering, Threads, App, None, Free, Media,
           TransportStates, AppSteps, LoopSteps, Components, Comps
<1>1. ASSUME NEW m \in Media, BeginTransport(m) PROVE Gathering'
  BY <1>1 DEF BeginTransport, Phases, Construction
<1>2. ASSUME NEW m \in Media, StartNice(m) PROVE Gathering'
  BY <1>2 DEF StartNice, Construction
<1>3. ASSUME NEW m \in Media, AssignTransport(m) PROVE Gathering'
  BY <1>3 DEF AssignTransport
<1>4. ASSUME ReturnFromSetRemoteSdp PROVE Gathering'
  BY <1>4 DEF ReturnFromSetRemoteSdp
<1>5. ASSUME NEW m \in Media, NiceInit(m) PROVE Gathering'
  BY <1>5 DEF NiceInit
<1>6. ASSUME NEW m \in Media, GatheringDone(m) PROVE Gathering'
  BY <1>6 DEF GatheringDone, Phases
<1>7. ASSUME NEW m \in Media, NEW c \in Components, ComponentReady(m, c) PROVE Gathering'
  BY <1>7 DEF ComponentReady
<1>8. ASSUME NEW m \in Media, NEW c \in Components, ComponentFailed(m, c) PROVE Gathering'
  BY <1>8 DEF ComponentFailed
<1>9. ASSUME NEW m \in Media, SdesReady(m) PROVE Gathering'
  BY <1>9 DEF SdesReady, Phases
<1>10. ASSUME NEW m \in Media, StartHandshakes(m) PROVE Gathering'
  BY <1>10 DEF StartHandshakes
<1>11. ASSUME NEW m \in Media, NEW c \in Components, AnswerFlight(m, c) PROVE Gathering'
  BY <1>11 DEF AnswerFlight
<1>12. ASSUME NEW m \in Media, NEW c \in Components, HandshakeCompleted(m, c) PROVE Gathering'
  <2>1. UNCHANGED <<ice, todo, sdp, tp, temp, globalState, asked>>
    BY <1>12 DEF HandshakeCompleted
  <2>2. Gathered(m)
    BY <1>12 DEF HandshakeCompleted, Phases
  <2>3. \A n \in Media : n # m => tstate'[n] = tstate[n]
    BY <1>12 DEF HandshakeCompleted
  <2>4. \A n \in Media : pc'[n] \in {"off", "init"} => pc[n] \in {"off", "init"}
    BY <1>12 DEF HandshakeCompleted
  <2> QED
    BY <2>1, <2>2, <2>3, <2>4
<1>13. ASSUME NEW m \in Media, LearnSsrc(m) PROVE Gathering'
  BY <1>13 DEF LearnSsrc
<1>14. ASSUME NEW t \in Threads, UpdateBegin(t) PROVE Gathering'
  <2>1. CASE tp = {}
    BY <1>14, <2>1 DEF UpdateBegin, Returned
  <2>2. CASE tp # {}
    BY <1>14, <2>2 DEF UpdateBegin, Locked, Calling, NewState, Candidates, CallIf, AllIn,
       BundleReport, Phases, Construction
  <2> QED
    BY <2>1, <2>2
<1>15. ASSUME NEW t \in Threads, GiveCandidates(t) PROVE Gathering'
  BY <1>15 DEF GiveCandidates
<1>16. ASSUME NEW t \in Threads, MarkReceived(t) PROVE Gathering'
  <2>1. Head(todo) = todo[1] /\ 1 \in 1..Len(todo) /\ Head(todo) \in Media
    BY <1>16 DEF MarkReceived
  <2>2. pc[Head(todo)] \notin {"off", "init"}
    BY <2>1
  <2>3. \A i \in 1..Len(todo') : Gathered(todo'[i])
    BY <1>16 DEF MarkReceived
  <2>4. \A n \in Media : Gathered(n) => Gathered(n)'
    BY <1>16, <2>1 DEF MarkReceived
  <2> QED
    BY <1>16, <2>1, <2>2, <2>3, <2>4 DEF MarkReceived
<1>17. ASSUME NEW t \in Threads, UpdateEnd(t) PROVE Gathering'
  BY <1>17 DEF UpdateEnd, Returned
<1>18. ASSUME NEW m \in Media, GetLocalSdp(m) PROVE Gathering'
  BY <1>18 DEF GetLocalSdp
<1>19. CASE UNCHANGED vars
  BY <1>19 DEF vars
<1> QED
  BY <1>1, <1>2, <1>3, <1>4, <1>5, <1>6, <1>7, <1>8, <1>9,
     <1>10, <1>11, <1>12, <1>13, <1>14, <1>15, <1>16, <1>17, <1>18, <1>19
  DEF Next, SetRemoteSdp, UpdateState, KeyExchange, Checks, Idle

\* Every transport getLocalSdp asks in an informed call has its candidates.
LEMMA AnsweringStep ==
  ASSUME TypeOK, Construction, Gathering, Answering, [Next]_vars
  PROVE  Answering'
<1> USE DEF TypeOK, Answering, Describing, Named, transports, constructed, updating, answering, Threads, App, None, Free, Media,
           TransportStates, AppSteps, LoopSteps, Components, Comps
<1>1. ASSUME NEW m \in Media, BeginTransport(m) PROVE Answering'
  BY <1>1 DEF BeginTransport
<1>2. ASSUME NEW m \in Media, StartNice(m) PROVE Answering'
  BY <1>2 DEF StartNice
<1>3. ASSUME NEW m \in Media, AssignTransport(m) PROVE Answering'
  BY <1>3 DEF AssignTransport
<1>4. ASSUME ReturnFromSetRemoteSdp PROVE Answering'
  BY <1>4 DEF ReturnFromSetRemoteSdp
<1>5. ASSUME NEW m \in Media, NiceInit(m) PROVE Answering'
  BY <1>5 DEF NiceInit
<1>6. ASSUME NEW m \in Media, GatheringDone(m) PROVE Answering'
  BY <1>6 DEF GatheringDone
<1>7. ASSUME NEW m \in Media, NEW c \in Components, ComponentReady(m, c) PROVE Answering'
  BY <1>7 DEF ComponentReady
<1>8. ASSUME NEW m \in Media, NEW c \in Components, ComponentFailed(m, c) PROVE Answering'
  BY <1>8 DEF ComponentFailed
<1>9. ASSUME NEW m \in Media, SdesReady(m) PROVE Answering'
  BY <1>9 DEF SdesReady
<1>10. ASSUME NEW m \in Media, StartHandshakes(m) PROVE Answering'
  BY <1>10 DEF StartHandshakes
<1>11. ASSUME NEW m \in Media, NEW c \in Components, AnswerFlight(m, c) PROVE Answering'
  BY <1>11 DEF AnswerFlight
<1>12. ASSUME NEW m \in Media, NEW c \in Components, HandshakeCompleted(m, c) PROVE Answering'
  BY <1>12 DEF HandshakeCompleted
<1>13. ASSUME NEW m \in Media, LearnSsrc(m) PROVE Answering'
  BY <1>13 DEF LearnSsrc
<1>14. ASSUME NEW t \in Threads, UpdateBegin(t) PROVE Answering'
  BY <1>14 DEF UpdateBegin
<1>15. ASSUME NEW t \in Threads, GiveCandidates(t) PROVE Answering'
  BY <1>15 DEF GiveCandidates
<1>16. ASSUME NEW t \in Threads, MarkReceived(t) PROVE Answering'
  BY <1>16 DEF MarkReceived
<1>17. ASSUME NEW t \in Threads, UpdateEnd(t) PROVE Answering'
  BY <1>17 DEF UpdateEnd
<1>18. ASSUME NEW m \in Media, GetLocalSdp(m) PROVE Answering'
  <2>1. asked' = "informed" => Gathered(m)
    BY <1>18 DEF GetLocalSdp, Gathering, Carrying, Construction
  <2> QED
    BY <1>18, <2>1 DEF GetLocalSdp
<1>19. CASE UNCHANGED vars
  BY <1>19 DEF vars
<1> QED
  BY <1>1, <1>2, <1>3, <1>4, <1>5, <1>6, <1>7, <1>8, <1>9,
     <1>10, <1>11, <1>12, <1>13, <1>14, <1>15, <1>16, <1>17, <1>18, <1>19
  DEF Next, SetRemoteSdp, UpdateState, KeyExchange, Checks, Idle

-----------------------------------------------------------------------------
\* The invariant holds when setRemoteSdp begins.
LEMMA InitInvariant == Init => SInv
<1> SUFFICES ASSUME Init PROVE SInv
  OBVIOUS
<1> USE DEF Init, Threads, App, None, Free, Media
<1>1. TypeOK
  BY TypeInit
<1>2. Construction /\ Sharing
  BY RequiredInOffer DEF Construction, AppSteps, Sharing
<1>3. Phases
  BY DEF Phases, LoopSteps
<1>4. Locked /\ Announced
  BY DEF Locked, Announced
<1>5. Handed /\ Settled
  BY DEF Handed, Settled, AllReady, AllIn
<1>6. Gathering /\ Answering
  BY DEF Gathering, Gathered, Answering, Describing
<1> QED
  BY <1>1, <1>2, <1>3, <1>4, <1>5, <1>6 DEF SInv, IInv

\* The invariant holds in every state the program reaches.
LEMMA Invariant == Spec => []SInv
<1>1. SInv /\ [Next]_vars => SInv'
  BY TypeStep, ConstructionStep, PhasesStep, LockedStep, AnnouncedStep, HandedStep, SharingStep, SettledStep,
     GatheringStep, AnsweringStep
  DEF SInv, IInv
<1> QED
  BY <1>1, InitInvariant, PTL DEF Spec

\* A connection is READY only when the transports that carry its media are
\* ready and every one of their channels has its keys, whatever the order of
\* the callbacks and of the calls to updateState: for every offer whose
\* channels the code keys.
THEOREM ReadyIsKeyedTheorem ==
  ASSUME \A o \in Offers : o.dtls \/ o.rtcpMux
  PROVE  Spec => []ReadyIsKeyed
<1>1. Init => Keying
  BY DEF Init, Keying, None
<1>2. SInv /\ Keying /\ [Next]_vars => Keying'
  BY KeyingStep DEF SInv, IInv
<1>3. SInv /\ Keying => ReadyIsKeyed
  <2>1. TypeOK => Carrying \subseteq Media
    BY OffersAssumption DEF TypeOK, Carrying, Offer
  <2> QED
    BY <2>1 DEF SInv, IInv, Keying, Announced, ReadyIsKeyed
<1> QED
  BY <1>1, <1>2, <1>3, Invariant, PTL DEF Spec

\* No later call of updateState takes READY back, for every offer but a bundle
\* with two transports, of which the run shows one taking it back.
THEOREM ReadyIsStableTheorem ==
  ASSUME \A o \in Offers : Unrivalled(o)
  PROVE  Spec => ReadyIsStable
<1>1. SInv /\ [Next]_vars => (globalState = "READY" => globalState' = "READY")
  <2> SUFFICES ASSUME SInv, [Next]_vars, globalState = "READY"
               PROVE  globalState' = "READY"
    OBVIOUS
  <2>1. CASE \E t \in Threads : UpdateEnd(t)
    <3>1. Unrivalled(sdp)
      BY DEF SInv, IInv, TypeOK
    <3> QED
      BY <2>1, <3>1 DEF SInv, IInv, Settled, Locked, UpdateEnd, Threads, Media, App, Free
  <2>2. CASE ~\E t \in Threads : UpdateEnd(t)
    <3>1. UNCHANGED globalState
      BY <2>2 DEF Next, vars, SetRemoteSdp, BeginTransport, StartNice, AssignTransport,
         ReturnFromSetRemoteSdp, NiceInit, GatheringDone, Checks, ComponentReady,
         ComponentFailed, KeyExchange, SdesReady, StartHandshakes, AnswerFlight,
         HandshakeCompleted, LearnSsrc, UpdateState, UpdateBegin, GiveCandidates,
         MarkReceived, GetLocalSdp, Idle
    <3> QED
      BY <3>1
  <2> QED
    BY <2>1, <2>2
<1> QED
  BY <1>1, Invariant, PTL DEF Spec, ReadyIsStable

\* No interleaving of the transports' threads leaves a ready connection
\* unannounced, for every offer: of a bundle with two transports the audio's
\* never gets ready, so that AllIn("READY") asks for more than the code needs.
THEOREM NoLostReadyTheorem == Spec => []NoLostReady
<1>1. SInv => NoLostReady
  <2> SUFFICES ASSUME SInv, Quiet, sdp.has # {}, AllReady
               PROVE  globalState = "READY"
    BY DEF NoLostReady, AllReady
  <2>1. Unrivalled(sdp)
    <3> SUFFICES ASSUME sdp.bundle, Required(sdp) = Media PROVE FALSE
      BY DEF Unrivalled
    <3>1. "audio" \in sdp.has
      BY RequiredInOffer DEF SInv, IInv, TypeOK, Media
    <3>2. tstate["audio"] = "READY"
      BY <3>1 DEF AllReady, AllIn
    <3> QED
      BY <3>2 DEF SInv, Handed, Sharing, Media
  <2> QED
    BY <2>1 DEF SInv, Settled, Quiet
<1> QED
  BY <1>1, Invariant, PTL

\* An application that calls getLocalSdp after the connection has left INITIAL
\* answers every medium with candidates, for every offer, bundled or not: the
\* state only changes when every transport that getLocalSdp asks has gathered.
THEOREM AnswerIsCompleteTheorem == Spec => []AnswerIsComplete
<1>1. SInv => AnswerIsComplete
  <2> SUFFICES ASSUME SInv, asked = "informed", Describing \subseteq described
               PROVE  sdp.has \subseteq answer
    BY DEF AnswerIsComplete
  <2>1. sdp.has \subseteq Media
    BY OffersAssumption DEF SInv, IInv, TypeOK, Offer
  <2>2. CASE sdp.bundle
    <3>1. described = {"video"}
      BY <2>2 DEF SInv, Answering, Describing
    <3> QED
      BY <2>1, <2>2, <3>1 DEF SInv, Answering, Named, Media
  <2>3. CASE ~sdp.bundle
    <3>1. \A m \in sdp.has : m \in tp
      BY <2>3 DEF SInv, Gathering, Carrying
    <3> QED
      BY <2>3, <3>1 DEF SInv, Answering, Describing, Named
  <2> QED
    BY <2>2, <2>3
<1> QED
  BY <1>1, Invariant, PTL

-----------------------------------------------------------------------------
(* The change to STARTED, when no gathering ends before the constructor does. *)

\* The transports that updateState has still to give their candidates.
Pending == {todo[i] : i \in 1..Len(todo)}

\* Once every transport has gathered, the candidates have been handed over, or
\* a thread that reports STARTED has still to enter updateState, or is in it
\* and has the calls that are missing on its list.
HandingOver ==
  /\ \A m \in Media : tstate[m] \notin {None, "INITIAL"} => m \in tp
  /\ lock = Free => todo = <<>> /\ ~given
  /\ given => todo # <<>> /\ Head(todo) \in remote
  /\ sdp.has # {} /\ AllIn("STARTED") =>
       \/ Carrying \subseteq remote
       \/ \E m \in Media : pc[m] = "STARTED" /\ (lock = m => Carrying \subseteq remote \cup Pending)

\* A call made leaves the list, and no other.
LEMMA PendingTail ==
  ASSUME NEW s \in Seq(Media), s # <<>>
  PROVE  {s[i] : i \in 1..Len(s)} = {Head(s)} \cup {Tail(s)[i] : i \in 1..Len(Tail(s))}
<1>1. Len(s) \in Nat \ {0} /\ Head(s) = s[1] /\ Len(Tail(s)) = Len(s) - 1
  OBVIOUS
<1>2. \A i \in 1..Len(Tail(s)) : Tail(s)[i] = s[i + 1]
  OBVIOUS
<1>3. ASSUME NEW i \in 1..Len(s), i # 1
      PROVE  i - 1 \in 1..Len(Tail(s)) /\ Tail(s)[i - 1] = s[i]
  BY <1>1, <1>2, <1>3
<1>4. ASSUME NEW i \in 1..Len(Tail(s)) PROVE i + 1 \in 1..Len(s)
  BY <1>1, <1>4
<1>5. 1 \in 1..Len(s)
  BY <1>1
<1>6. ASSUME NEW x \in {s[i] : i \in 1..Len(s)}
      PROVE  x = Head(s) \/ \E j \in 1..Len(Tail(s)) : x = Tail(s)[j]
  <2>1. PICK i \in 1..Len(s) : x = s[i]
    BY <1>6
  <2> QED
    BY <1>1, <1>3, <2>1, Zenon
<1>7. ASSUME NEW j \in 1..Len(Tail(s)) PROVE Tail(s)[j] \in {s[i] : i \in 1..Len(s)}
  BY <1>2, <1>4, <1>7, Zenon
<1>8. Head(s) \in {s[i] : i \in 1..Len(s)}
  BY <1>1, <1>5, Zenon
<1> QED
  BY <1>6, <1>7, <1>8, Zenon

\* When every transport has gathered, the calls updateState decides on reach
\* all the transports that will carry media: a bundle needs its video.
LEMMA CarryingAreCandidates ==
  ASSUME TypeOK, sdp.bundle => "video" \in sdp.has, AllIn("STARTED"), NEW t
  PROVE  Carrying \subseteq {Candidates(t)[i] : i \in 1..Len(Candidates(t))}
<1>1. sdp.has \subseteq {"video", "audio"}
  BY OffersAssumption DEF TypeOK, Offer, Media
<1> DEFINE v == CallIf("video", AllIn("STARTED") /\ "video" \in sdp.has)
           a == CallIf("audio", AllIn("STARTED") /\ "audio" \in sdp.has /\ ~sdp.bundle)
           b == CallIf("video", BundleReport(t))
<1>2. Candidates(t) = v \o a \o b
  BY DEF Candidates
<1>3. v \in Seq(Media) /\ a \in Seq(Media) /\ b \in Seq(Media)
  <2>1. ASSUME NEW m \in Media, NEW condition PROVE CallIf(m, condition) \in Seq(Media)
    BY DEF CallIf
  <2>2. "video" \in Media /\ "audio" \in Media
    BY DEF Media
  <2> QED
    BY <2>1, <2>2
<1>4. "video" \in sdp.has => Len(v) = 1 /\ v[1] = "video"
  BY DEF CallIf
<1>5. "audio" \in sdp.has /\ ~sdp.bundle => Len(a) = 1 /\ a[1] = "audio"
  BY DEF CallIf
<1> HIDE DEF v, a, b
<1>6. ASSUME "video" \in sdp.has
      PROVE  \E i \in 1..Len(Candidates(t)) : Candidates(t)[i] = "video"
  BY <1>2, <1>3, <1>4, <1>6
<1>7. ASSUME "audio" \in sdp.has, ~sdp.bundle
      PROVE  \E i \in 1..Len(Candidates(t)) : Candidates(t)[i] = "audio"
  <2>1. Len(v) + 1 \in 1..Len(Candidates(t)) /\ Candidates(t)[Len(v) + 1] = a[1]
    BY <1>2, <1>3, <1>5, <1>7
  <2> QED
    BY <1>5, <1>7, <2>1
<1>8. ASSUME NEW m \in Carrying
      PROVE  (m = "video" /\ "video" \in sdp.has) \/ (m = "audio" /\ "audio" \in sdp.has /\ ~sdp.bundle)
  BY <1>1, <1>8 DEF Carrying
<1> QED
  BY <1>6, <1>7, <1>8, Zenon

\* No action loses a transport's candidates once every transport has gathered.
LEMMA HandingOverStep ==
  ASSUME ~EarlyGathering, TypeOK, Construction, Phases, Locked, Handed, HandingOver,
         sdp.bundle => "video" \in sdp.has, [Next]_vars
  PROVE  HandingOver'
<1> USE DEF TypeOK, HandingOver, Pending, Carrying, transports, constructed, updating, answering, Threads,
           App, None, Free, Media, TransportStates, AppSteps, LoopSteps, Components, Comps
<1>1. ASSUME NEW m \in Media, BeginTransport(m) PROVE HandingOver'
  BY <1>1 DEF BeginTransport, Construction, AllIn
<1>2. ASSUME NEW m \in Media, StartNice(m) PROVE HandingOver'
  BY <1>2 DEF StartNice, Construction, Phases, AllIn
<1>3. ASSUME NEW m \in Media, AssignTransport(m) PROVE HandingOver'
  BY <1>3 DEF AssignTransport, Construction, AllIn
<1>4. ASSUME ReturnFromSetRemoteSdp PROVE HandingOver'
  <2>1. UNCHANGED <<sdp, tp, tstate, remote, lock, todo, given, AllIn("STARTED"), Carrying, Pending>>
    BY <1>4 DEF ReturnFromSetRemoteSdp, AllIn
  <2>2. \A m \in Media : pc'[m] = pc[m]
    BY <1>4 DEF ReturnFromSetRemoteSdp
  <2> HIDE DEF Pending
  <2> QED
    BY <2>1, <2>2
<1>5. ASSUME NEW m \in Media, NiceInit(m) PROVE HandingOver'
  BY <1>5 DEF NiceInit, AllIn
<1>6. ASSUME NEW m \in Media, GatheringDone(m) PROVE HandingOver'
  BY <1>6 DEF GatheringDone, Locked, Calling, AllIn
<1>7. ASSUME NEW m \in Media, NEW c \in Components, ComponentReady(m, c) PROVE HandingOver'
  BY <1>7 DEF ComponentReady, AllIn
<1>8. ASSUME NEW m \in Media, NEW c \in Components, ComponentFailed(m, c) PROVE HandingOver'
  BY <1>8 DEF ComponentFailed, AllIn
<1>9. ASSUME NEW m \in Media, SdesReady(m) PROVE HandingOver'
  BY <1>9 DEF SdesReady, Handed, Phases, AllIn
<1>10. ASSUME NEW m \in Media, StartHandshakes(m) PROVE HandingOver'
  BY <1>10 DEF StartHandshakes, AllIn
<1>11. ASSUME NEW m \in Media, NEW c \in Components, AnswerFlight(m, c) PROVE HandingOver'
  BY <1>11 DEF AnswerFlight, AllIn
<1>12. ASSUME NEW m \in Media, NEW c \in Components, HandshakeCompleted(m, c) PROVE HandingOver'
  <2>1. UNCHANGED <<sdp, tp, remote, lock, todo, given>> /\ lock # m
    BY <1>12 DEF HandshakeCompleted, Locked, Calling
  <2>2. m \in remote /\ m \in tp
    BY <1>12 DEF HandshakeCompleted, Handed
  <2>3. CASE Comps \subseteq keyed'[m]
    <3>1. tstate' = [tstate EXCEPT ![m] = "READY"] /\ pc' = [pc EXCEPT ![m] = "READY"]
      BY <1>12, <2>3 DEF HandshakeCompleted
    <3>2. AllIn("STARTED")' => AllIn("STARTED") /\ m \notin sdp.has
      BY <2>1, <3>1 DEF AllIn
    <3> QED
      BY <2>1, <2>2, <3>1, <3>2 DEF Construction
  <2>4. CASE ~(Comps \subseteq keyed'[m])
    <3>1. UNCHANGED <<tstate, pc>>
      BY <1>12, <2>4 DEF HandshakeCompleted
    <3> QED
      BY <2>1, <3>1 DEF AllIn
  <2> QED
    BY <2>3, <2>4
<1>13. ASSUME NEW m \in Media, LearnSsrc(m) PROVE HandingOver'
  BY <1>13 DEF LearnSsrc, AllIn
<1>14. ASSUME NEW t \in Threads, UpdateBegin(t) PROVE HandingOver'
  <2>1. UNCHANGED <<sdp, tp, tstate, remote>> /\ lock = Free /\ UNCHANGED <<AllIn("STARTED"), Carrying>>
    BY <1>14 DEF UpdateBegin, AllIn
  <2>2. CASE tp = {}
    BY <1>14, <2>1, <2>2 DEF UpdateBegin, AllIn
  <2>3. CASE tp # {}
    <3>1. lock' = t /\ UNCHANGED <<pc, given>> /\ todo' = IF pc[t] = "STARTED" THEN Candidates(t) ELSE <<>>
      BY <1>14, <2>3 DEF UpdateBegin
    <3>2. pc[t] = "STARTED" /\ AllIn("STARTED") => Carrying \subseteq Pending'
      <4>1. Pending' = {todo'[i] : i \in 1..Len(todo')}
        BY DEF Pending
      <4> HIDE DEF Pending, Carrying, TypeOK
      <4> SUFFICES ASSUME pc[t] = "STARTED", AllIn("STARTED") PROVE Carrying \subseteq Pending'
        OBVIOUS
      <4>2. Carrying \subseteq {Candidates(t)[i] : i \in 1..Len(Candidates(t))}
        BY CarryingAreCandidates
      <4>3. todo' = Candidates(t)
        BY <3>1
      <4> QED
        BY <4>1, <4>2, <4>3, Zenon
    <3>3. t # Free
      BY DEF Threads, App, Free, Media
    <3> HIDE DEF Pending
    <3> QED
      BY <2>1, <3>1, <3>2, <3>3
  <2> QED
    BY <2>2, <2>3
<1>15. ASSUME NEW t \in Threads, GiveCandidates(t) PROVE HandingOver'
  <2>1. UNCHANGED <<sdp, tp, tstate, pc, lock, todo>> /\ remote \subseteq remote'
        /\ given' /\ todo # <<>> /\ Head(todo) \in remote' /\ lock # Free
    BY <1>15 DEF GiveCandidates, Threads, App, Free, Media
  <2>2. UNCHANGED <<AllIn("STARTED"), Carrying, Pending>>
    BY <2>1 DEF AllIn, Pending
  <2> HIDE DEF Pending, Carrying, TypeOK
  <2> QED
    BY <2>1, <2>2
<1>16. ASSUME NEW t \in Threads, MarkReceived(t) PROVE HandingOver'
  <2>1. UNCHANGED <<sdp, tp, tstate, pc, lock, remote>> /\ lock # Free
        /\ todo # <<>> /\ todo' = Tail(todo) /\ ~given' /\ Head(todo) \in remote
    BY <1>16 DEF MarkReceived, Threads, App, Free, Media
  <2>2. Pending = {Head(todo)} \cup Pending'
    <3>1. todo \in Seq(Media)
      OBVIOUS
    <3>2. Pending = {todo[i] : i \in 1..Len(todo)} /\ Pending' = {todo'[i] : i \in 1..Len(todo')}
      OBVIOUS
    <3> HIDE DEF Media, Pending, TypeOK, HandingOver
    <3>3. {todo[i] : i \in 1..Len(todo)}
            = {Head(todo)} \cup {Tail(todo)[i] : i \in 1..Len(Tail(todo))}
      BY <2>1, <3>1, PendingTail
    <3> QED
      BY <2>1, <3>2, <3>3, Zenon
  <2>3. UNCHANGED <<AllIn("STARTED"), Carrying>>
    BY <2>1, Zenon DEF AllIn
  <2> HIDE DEF Pending
  <2> QED
    BY <2>1, <2>2, <2>3
<1>17. ASSUME NEW t \in Threads, UpdateEnd(t) PROVE HandingOver'
  <2>1. UNCHANGED <<sdp, tp, tstate, remote, todo, given>> /\ lock = t /\ lock' = Free /\ todo = <<>> /\ ~given
    BY <1>17 DEF UpdateEnd
  <2>2. UNCHANGED <<AllIn("STARTED"), Carrying>> /\ Pending = {}
    BY <2>1 DEF AllIn, Pending
  <2>3. \A m \in Media : m # t => pc'[m] = pc[m]
    BY <1>17 DEF UpdateEnd, Returned
  <2>4. \A m \in Media : m # Free
    BY DEF Media, Free
  <2> HIDE DEF Pending
  <2> QED
    BY <2>1, <2>2, <2>3, <2>4
<1>18. ASSUME NEW m \in Media, GetLocalSdp(m) PROVE HandingOver'
  BY <1>18 DEF GetLocalSdp, AllIn
<1>19. CASE UNCHANGED vars
  BY <1>19 DEF vars, AllIn
<1> QED
  BY <1>1, <1>2, <1>3, <1>4, <1>5, <1>6, <1>7, <1>8, <1>9,
     <1>10, <1>11, <1>12, <1>13, <1>14, <1>15, <1>16, <1>17, <1>18, <1>19
  DEF Next, SetRemoteSdp, UpdateState, KeyExchange, Checks, Idle

\* No interleaving of the transports' threads loses the change to STARTED, when
\* a transport's pointer is set before its gathering ends and every bundle has
\* a video: the candidates reach each transport that will carry media.
THEOREM NoLostStartTheorem ==
  ASSUME EarlyGathering = FALSE, \A o \in Offers : o.bundle => "video" \in o.has
  PROVE  Spec => []NoLostStart
<1>1. Init => HandingOver
  BY DEF Init, HandingOver, AllIn, None, Free
<1>2. SInv /\ HandingOver /\ [Next]_vars => HandingOver'
  BY HandingOverStep DEF SInv, IInv, TypeOK
<1>3. HandingOver => NoLostStart
  BY DEF HandingOver, NoLostStart, Quiet
<1> QED
  BY <1>1, <1>2, <1>3, Invariant, PTL DEF Spec

-----------------------------------------------------------------------------
(* iceState, when only one transport's thread may write it.                  *)

\* The offer asks for one transport.
Alone(o) == \A m, n \in Required(o) : m = n

\* The candidates are handed over by the thread that has just gathered, before any
\* component is ready; and who is complete has iceState say so.
Serial ==
  /\ todo # <<>> => lock # Free /\ pc[lock] = "STARTED"
  /\ \A m \in remote : Gathered(m)
  /\ \A m \in Media : comps[m] # {} => m \in remote /\ pc[m] # "STARTED"
  /\ \A m \in Media : Comps \subseteq comps[m] => ice[m] \in {"READY", "FAILED"}

\* The first call on the list is one of them.
LEMMA FirstOf ==
  ASSUME NEW s \in Seq(Media), s # <<>>
  PROVE  1 \in 1..Len(s) /\ Head(s) = s[1] /\ s[1] \in Media
OBVIOUS

LEMMA SerialStep ==
  ASSUME Alone(sdp), TypeOK, Construction, Phases, Locked, Handed, Sharing, Gathering, Serial, [Next]_vars
  PROVE  Serial'
<1> USE DEF TypeOK, Serial, Gathered, transports, constructed, updating, answering, Threads,
           App, None, Free, Media, TransportStates, AppSteps, LoopSteps, Components, Comps
<1>1. ASSUME NEW m \in Media, BeginTransport(m) PROVE Serial'
  BY <1>1 DEF BeginTransport, Construction
<1>2. ASSUME NEW m \in Media, StartNice(m) PROVE Serial'
  BY <1>2 DEF StartNice, Construction
<1>3. ASSUME NEW m \in Media, AssignTransport(m) PROVE Serial'
  BY <1>3 DEF AssignTransport
<1>4. ASSUME ReturnFromSetRemoteSdp PROVE Serial'
  BY <1>4 DEF ReturnFromSetRemoteSdp
<1>5. ASSUME NEW m \in Media, NiceInit(m) PROVE Serial'
  <2>1. /\ pc[m] = "init" /\ ice' = [ice EXCEPT ![m] = "INITIAL"] /\ pc' = [pc EXCEPT ![m] = "loop"]
        /\ UNCHANGED <<sdp, remote, comps, lock, todo>>
    BY <1>5 DEF NiceInit
  <2>2. m \notin remote /\ 1 \in Comps
    BY <2>1 DEF Gathering
  <2>3. comps[m] = {}
    BY <2>2
  <2>4. todo # <<>> => lock # m
    BY <2>1
  <2> QED
    BY <2>1, <2>2, <2>3, <2>4
<1>6. ASSUME NEW m \in Media, GatheringDone(m) PROVE Serial'
  BY <1>6 DEF GatheringDone
<1>7. ASSUME NEW m \in Media, NEW c \in Components, ComponentReady(m, c) PROVE Serial'
  BY <1>7 DEF ComponentReady
<1>8. ASSUME NEW m \in Media, NEW c \in Components, ComponentFailed(m, c) PROVE Serial'
  BY <1>8 DEF ComponentFailed
<1>9. ASSUME NEW m \in Media, SdesReady(m) PROVE Serial'
  BY <1>9 DEF SdesReady
<1>10. ASSUME NEW m \in Media, StartHandshakes(m) PROVE Serial'
  BY <1>10 DEF StartHandshakes
<1>11. ASSUME NEW m \in Media, NEW c \in Components, AnswerFlight(m, c) PROVE Serial'
  BY <1>11 DEF AnswerFlight
<1>12. ASSUME NEW m \in Media, NEW c \in Components, HandshakeCompleted(m, c) PROVE Serial'
  BY <1>12 DEF HandshakeCompleted
<1>13. ASSUME NEW m \in Media, LearnSsrc(m) PROVE Serial'
  BY <1>13 DEF LearnSsrc
<1>14. ASSUME NEW t \in Threads, UpdateBegin(t) PROVE Serial'
  BY <1>14 DEF UpdateBegin, Returned
<1>15. ASSUME NEW t \in Threads, GiveCandidates(t) PROVE Serial'
  <2>1. /\ todo # <<>> /\ UNCHANGED <<sdp, ice, comps, pc, lock, todo>>
        /\ remote' = remote \cup {Head(todo)}
    BY <1>15 DEF GiveCandidates
  <2>2. Gathered(Head(todo))
    BY <2>1, FirstOf DEF Gathering
  <2> QED
    BY <2>1, <2>2
<1>16. ASSUME NEW t \in Threads, MarkReceived(t) PROVE Serial'
  <2>1. /\ lock = t /\ todo # <<>> /\ UNCHANGED <<sdp, remote, comps, pc, lock>>
        /\ ice' = [ice EXCEPT ![Head(todo)] = "RECEIVED"] /\ todo' = Tail(todo)
    BY <1>16 DEF MarkReceived
  <2>2. Head(todo) \in tp /\ Head(todo) \in Media
    BY <2>1, FirstOf DEF Handed
  <2>3. pc[t] = "STARTED" /\ t \in Media
    BY <2>1 DEF Construction
  <2>4. Head(todo) = t
    BY <2>2, <2>3 DEF Sharing, Alone
  <2>5. comps[t] = {} /\ 1 \in Comps
    BY <2>3
  <2> QED
    BY <2>1, <2>3, <2>4, <2>5
<1>17. ASSUME NEW t \in Threads, UpdateEnd(t) PROVE Serial'
  BY <1>17 DEF UpdateEnd, Returned
<1>18. ASSUME NEW m \in Media, GetLocalSdp(m) PROVE Serial'
  BY <1>18 DEF GetLocalSdp
<1>19. CASE UNCHANGED vars
  BY <1>19 DEF vars
<1> QED
  BY <1>1, <1>2, <1>3, <1>4, <1>5, <1>6, <1>7, <1>8, <1>9,
     <1>10, <1>11, <1>12, <1>13, <1>14, <1>15, <1>16, <1>17, <1>18, <1>19
  DEF Next, SetRemoteSdp, UpdateState, KeyExchange, Checks, Idle

\* Where the offer asks for one transport, its iceState says what the agent last
\* said: of the two writers, cb_component_state_changed and setRemoteCandidates,
\* both are then on the transport's own thread.  With two transports the run
\* shows the one overwrite the other.
THEOREM IceStateReflectsTheorem ==
  ASSUME \A o \in Offers : Alone(o)
  PROVE  Spec => []IceStateReflects
<1>1. Init => Serial
  BY DEF Init, Serial, Comps, Components
<1>2. SInv /\ Serial /\ [Next]_vars => Serial'
  BY SerialStep DEF SInv, IInv, TypeOK
<1>3. Serial => IceStateReflects
  BY DEF Serial, IceStateReflects
<1> QED
  BY <1>1, <1>2, <1>3, Invariant, PTL DEF Spec

=============================================================================
