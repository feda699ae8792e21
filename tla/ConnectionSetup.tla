--------------------------- MODULE ConnectionSetup ---------------------------
(***************************************************************************)
(* How a WebRtcConnection becomes READY.  The application's thread runs     *)
(* setRemoteSdp, which builds one Transport per negotiated medium; each     *)
(* Transport starts a thread of its own (NiceConnection::init, a GLib main  *)
(* loop) whose callbacks drive the transport's ICE state, its key exchange  *)
(* and, through Transport::updateTransportState, the connection's           *)
(* updateState.  updateState runs on whichever thread called it, under      *)
(* updateStateMutex_, and reaches back into the OTHER transports when it    *)
(* hands them the remote candidates.                                        *)
(*                                                                          *)
(* External: libnice (when candidates are gathered, when a component is     *)
(* ready or failed), the peer's half of the DTLS handshake, the media       *)
(* packets.  The handshake's own machinery is in module DtlsSocket, the     *)
(* sending and the teardown in module SendQueue.                            *)
(***************************************************************************)
EXTENDS Integers, Sequences, FiniteSets

CONSTANTS
  Offers,          \* the remote descriptions the peer may send
  EarlyGathering   \* may gathering end before the transport's pointer is set?

Media      == {"video", "audio"}
Components == {1, 2}               \* RTP, and RTCP when it is not multiplexed

\* What SdpInfo::processSdp keeps of a description and this module reads.
Offer == [bundle : BOOLEAN, dtls : BOOLEAN, rtcpMux : BOOLEAN,
          has : SUBSET Media,      \* hasVideo, hasAudio
          crypto : SUBSET Media,   \* media with a supported a=crypto line
          ssrc : SUBSET Media]     \* media whose SSRC is in the description

\* processSdp sets a medium's flag on the m= line its a=crypto, a=ssrc follow.
ASSUME OffersAssumption ==
  \A o \in Offers : o \in Offer /\ o.crypto \subseteq o.has /\ o.ssrc \subseteq o.has

ASSUME GatheringAssumption == EarlyGathering \in BOOLEAN

App     == "app"
Threads == Media \cup {App}
Free    == "free"
None    == "none"

TransportStates == {"INITIAL", "STARTED", "READY"}
IceStates == {"unset", "INITIAL", "GATHERED", "RECEIVED", "READY", "FAILED"}
WebRTCStates == {"INITIAL", "STARTED", "READY", "FINISHED", "FAILED"}

VARIABLES
  sdp,         \* remoteSdp_
  toBuild,     \* transports setRemoteSdp has still to construct
  building,    \* the transport whose constructor is running, or None
  tp,          \* the media whose pointer (videoTransport_, audioTransport_) is set
  tstate,      \* Transport::state_ (None before construction)
  ice,         \* NiceConnection::iceState
  comps,       \* comp_state_list: the components that reported READY
  remote,      \* the media whose ICE agent has been given remote candidates
  hs,          \* the client handshake of each component
  keyed,       \* the components whose SRTP channel has its keys
  ssrc,        \* the media whose source SSRC is known (not 0)
  globalState, \* WebRtcConnection::globalState_
  pc,          \* what each thread is doing
  lock,        \* the holder of updateStateMutex_
  todo,        \* in updateState: the setRemoteCandidates calls still to make
  given,       \* in updateState: the agent has them, iceState is not yet set
  temp,        \* in updateState: the local variable temp
  asked,       \* when getLocalSdp was called: in state INITIAL, or informed
  described,   \* the transports getLocalSdp has asked
  answer       \* the media localSdp_ has candidates of

constructed == <<toBuild, building, tp>>
transports  == <<tstate, ice, comps, hs, keyed, ssrc>>
updating    == <<lock, todo, given, temp>>
answering   == <<asked, described, answer>>
vars == <<answering, sdp, constructed, transports, remote, globalState, pc, updating>>

\* The components of every stream: new NiceConnection(.., comps).
Comps == IF sdp.rtcpMux THEN {1} ELSE Components

\* The transports setRemoteSdp constructs for a description.
Required(o) == CASE o.dtls              -> o.has
                 [] ~o.dtls /\ o.bundle -> o.crypto \cap {"video"}
                 [] OTHER               -> o.crypto

(* A thread that called updateState(s, transport) waits, or holds the lock,  *)
(* with pc = s.                                                              *)
Calling(t) == pc[t] \in TransportStates
AppSteps   == {"next", "start", "assign", "done"}
LoopSteps  == {"off", "init", "loop", "iceReady"}

TypeOK ==
  /\ sdp \in Offers
  /\ toBuild \subseteq Media
  /\ building \in Media \cup {None}
  /\ tp \subseteq Media
  /\ tstate \in [Media -> TransportStates \cup {None}]
  /\ ice \in [Media -> IceStates]
  /\ comps \in [Media -> SUBSET Components]
  /\ remote \subseteq Media
  /\ hs \in [Media -> [Components -> {"idle", "hello", "finished", "lost", "done"}]]
  /\ keyed \in [Media -> SUBSET Components]
  /\ ssrc \subseteq Media
  /\ globalState \in WebRTCStates
  /\ pc \in [Threads -> AppSteps \cup LoopSteps \cup TransportStates]
  /\ lock \in Threads \cup {Free}
  /\ todo \in Seq(Media)
  /\ given \in BOOLEAN
  /\ temp \in WebRTCStates
  /\ asked \in {"no", "early", "informed"}
  /\ described \subseteq Media /\ answer \subseteq Media

Init ==
  /\ sdp \in Offers
  /\ toBuild = Required(sdp)
  /\ building = None
  /\ tp = {}
  /\ tstate = [m \in Media |-> None]
  /\ ice = [m \in Media |-> "unset"]
  /\ comps = [m \in Media |-> {}]
  /\ remote = {}
  /\ hs = [m \in Media |-> [c \in Components |-> "idle"]]
  /\ keyed = [m \in Media |-> {}]
  /\ ssrc = sdp.ssrc
  /\ globalState = "INITIAL"
  /\ pc = [t \in Threads |-> IF t = App THEN "next" ELSE "off"]
  /\ lock = Free
  /\ todo = <<>>
  /\ given = FALSE
  /\ temp = "INITIAL"
  /\ asked = "no" /\ described = {} /\ answer = {}

-----------------------------------------------------------------------------
(* The application's thread: WebRtcConnection::setRemoteSdp                  *)

\* A transport's constructor up to updateTransportState(TRANSPORT_INITIAL).
\* With DTLS the video transport comes first; with SDES the a=crypto lines
\* are taken in the order the peer wrote them.
BeginTransport(m) ==
  /\ pc[App] = "next"
  /\ m \in toBuild
  /\ sdp.dtls /\ m = "audio" => "video" \notin toBuild
  /\ toBuild' = toBuild \ {m}
  /\ building' = m
  /\ tstate' = [tstate EXCEPT ![m] = "INITIAL"]
  /\ pc' = [pc EXCEPT ![App] = "INITIAL"]
  /\ UNCHANGED <<answering, sdp, tp, ice, comps, hs, keyed, ssrc, remote, globalState, updating>>

\* The end of the constructor: nice_->start() creates the nice thread.
StartNice(m) ==
  /\ pc[App] = "start"
  /\ building = m
  /\ pc' = [pc EXCEPT ![App] = "assign", ![m] = "init"]
  /\ UNCHANGED <<answering, sdp, constructed, transports, remote, globalState, updating>>

\* videoTransport_ = new ...: the pointer is stored after the constructor.
AssignTransport(m) ==
  /\ pc[App] = "assign"
  /\ building = m
  /\ tp' = tp \cup {m}
  /\ building' = None
  /\ pc' = [pc EXCEPT ![App] = "next"]
  /\ UNCHANGED <<answering, sdp, toBuild, transports, remote, globalState, updating>>

ReturnFromSetRemoteSdp ==
  /\ pc[App] = "next"
  /\ toBuild = {}
  /\ pc' = [pc EXCEPT ![App] = "done"]
  /\ UNCHANGED <<answering, sdp, constructed, transports, remote, globalState, updating>>

\* The transports getLocalSdp asks: a bundle's answer comes from the first.
Describing == IF sdp.bundle THEN tp \cap {"video"} ELSE tp

\* processLocalSdp, with either kind of transport: the candidates are there ...
Gathered(m) == ice[m] \notin {"unset", "INITIAL"}

\* ... and in a bundle each is added again as the audio's.
Named(m) == IF sdp.bundle THEN {m, "audio"} ELSE {m}

\* getLocalSdp's part on transport m, once init() has created the agent that
\* getLocalDescription reads.
GetLocalSdp(m) ==
  /\ pc[App] = "done"
  /\ m \in Describing \ described
  /\ m = "audio" => "video" \notin Describing \ described
  /\ ice[m] # "unset"
  /\ asked' = IF asked # "no" THEN asked ELSE IF globalState = "INITIAL" THEN "early" ELSE "informed"
  /\ described' = described \cup {m}
  /\ answer' = IF Gathered(m) THEN answer \cup Named(m) ELSE answer
  /\ UNCHANGED <<sdp, constructed, transports, remote, globalState, pc, updating>>

-----------------------------------------------------------------------------
(* The nice thread of transport m                                            *)

NiceInit(m) ==
  /\ pc[m] = "init"
  /\ ice' = [ice EXCEPT ![m] = "INITIAL"]
  /\ pc' = [pc EXCEPT ![m] = "loop"]
  /\ UNCHANGED <<answering, sdp, constructed, tstate, comps, hs, keyed, ssrc, remote, globalState, updating>>

\* cb_candidate_gathering_done, then updateTransportState(TRANSPORT_STARTED).
GatheringDone(m) ==
  /\ pc[m] = "loop"
  /\ ice[m] = "INITIAL"
  /\ EarlyGathering \/ m \in tp
  /\ ice' = [ice EXCEPT ![m] = "GATHERED"]
  /\ tstate' = [tstate EXCEPT ![m] = "STARTED"]
  /\ pc' = [pc EXCEPT ![m] = "STARTED"]
  /\ UNCHANGED <<answering, sdp, constructed, comps, hs, keyed, ssrc, remote, globalState, updating>>

\* cb_component_state_changed(READY), updateComponentState, updateIceState.
ComponentReady(m, c) ==
  /\ pc[m] = "loop"
  /\ m \in remote
  /\ c \in Comps \ comps[m]
  /\ comps' = [comps EXCEPT ![m] = @ \cup {c}]
  /\ IF Comps \subseteq comps'[m]
       THEN /\ ice' = [ice EXCEPT ![m] = "READY"]
            /\ pc' = [pc EXCEPT ![m] = "iceReady"]
       ELSE UNCHANGED <<ice, pc>>
  /\ UNCHANGED <<answering, sdp, constructed, tstate, hs, keyed, ssrc, remote, globalState, updating>>

\* cb_component_state_changed(FAILED): the transports ignore NICE_FAILED.
ComponentFailed(m, c) ==
  /\ pc[m] = "loop"
  /\ m \in remote
  /\ c \in Comps \ comps[m]
  /\ ice[m] # "FAILED"
  /\ ice' = [ice EXCEPT ![m] = "FAILED"]
  /\ UNCHANGED <<answering, sdp, constructed, tstate, comps, hs, keyed, ssrc, remote, globalState, pc, updating>>

\* Mutant: the components are counted from 0.
SdesReadyFromZero(m) ==
  /\ pc[m] = "iceReady"
  /\ ~sdp.dtls
  /\ keyed' = [keyed EXCEPT ![m] = {0}]
  /\ tstate' = [tstate EXCEPT ![m] = "READY"]
  /\ pc' = [pc EXCEPT ![m] = "READY"]
  /\ UNCHANGED <<answering, sdp, constructed, ice, comps, hs, ssrc, remote, globalState, updating>>

\* SdesTransport::updateIceState(NICE_READY).  Both calls of setRtpParams are
\* made on srtp_: without rtcp-mux the channel of component 2 is only created.
SdesReady(m) ==
  /\ pc[m] = "iceReady"
  /\ ~sdp.dtls
  /\ keyed' = [keyed EXCEPT ![m] = {1}]
  /\ tstate' = [tstate EXCEPT ![m] = "READY"]
  /\ pc' = [pc EXCEPT ![m] = "READY"]
  /\ UNCHANGED <<answering, sdp, constructed, ice, comps, hs, ssrc, remote, globalState, updating>>

\* A flight leaves through NiceConnection::sendData only while iceState is READY.
Sent(m, flight) == IF ice[m] = "READY" THEN flight ELSE "lost"

\* Mutant: only dtlsRtp is started.
StartRtpHandshake(m) ==
  /\ pc[m] = "iceReady"
  /\ sdp.dtls
  /\ hs' = [hs EXCEPT ![m][1] = Sent(m, "hello")]
  /\ pc' = [pc EXCEPT ![m] = "loop"]
  /\ UNCHANGED <<answering, sdp, constructed, tstate, ice, comps, keyed, ssrc, remote, globalState, updating>>

\* DtlsTransport::updateIceState(NICE_READY): start() sends the ClientHellos.
StartHandshakes(m) ==
  /\ pc[m] = "iceReady"
  /\ sdp.dtls
  /\ hs' = [hs EXCEPT ![m] = [c \in Components |->
                 IF c \in Comps THEN Sent(m, "hello") ELSE "idle"]]
  /\ pc' = [pc EXCEPT ![m] = "loop"]
  /\ UNCHANGED <<answering, sdp, constructed, tstate, ice, comps, keyed, ssrc, remote, globalState, updating>>

\* The peer's first flight arrives and the client answers it.
AnswerFlight(m, c) ==
  /\ pc[m] = "loop"
  /\ hs[m][c] = "hello"
  /\ hs' = [hs EXCEPT ![m][c] = Sent(m, "finished")]
  /\ UNCHANGED <<answering, sdp, constructed, tstate, ice, comps, keyed, ssrc, remote, globalState, pc, updating>>

\* Mutant: readyRtcp is not waited for.
HandshakeCompletedRtp(m, c) ==
  /\ pc[m] = "loop"
  /\ hs[m][c] = "finished"
  /\ hs' = [hs EXCEPT ![m][c] = "done"]
  /\ keyed' = [keyed EXCEPT ![m] = @ \cup {c}]
  /\ IF 1 \in keyed'[m]
       THEN /\ tstate' = [tstate EXCEPT ![m] = "READY"]
            /\ pc' = [pc EXCEPT ![m] = "READY"]
       ELSE UNCHANGED <<tstate, pc>>
  /\ UNCHANGED <<answering, sdp, constructed, ice, comps, ssrc, remote, globalState, updating>>

\* The peer's last flight arrives: onHandshakeCompleted keys the component's
\* channel and, when every channel has its keys, the transport is READY.
HandshakeCompleted(m, c) ==
  /\ pc[m] = "loop"
  /\ hs[m][c] = "finished"
  /\ hs' = [hs EXCEPT ![m][c] = "done"]
  /\ keyed' = [keyed EXCEPT ![m] = @ \cup {c}]
  /\ IF Comps \subseteq keyed'[m]
       THEN /\ tstate' = [tstate EXCEPT ![m] = "READY"]
            /\ pc' = [pc EXCEPT ![m] = "READY"]
       ELSE UNCHANGED <<tstate, pc>>
  /\ UNCHANGED <<answering, sdp, constructed, ice, comps, ssrc, remote, globalState, updating>>

\* Mutant: the SSRC is stored and updateState is not called.
LearnSsrcSilently(m) ==
  /\ pc[m] = "loop"
  /\ tstate[m] = "READY"
  /\ ~sdp.bundle
  /\ m \notin ssrc
  /\ ssrc' = ssrc \cup {m}
  /\ UNCHANGED <<answering, sdp, constructed, tstate, ice, comps, hs, keyed, pc, remote, globalState, updating>>

\* onTransportData learns the SSRC a description left out (Firefox) from the
\* first packet, when the medium has a sink and the offer is not bundled.
LearnSsrc(m) ==
  /\ pc[m] = "loop"
  /\ tstate[m] = "READY"
  /\ ~sdp.bundle
  /\ m \notin ssrc
  /\ ssrc' = ssrc \cup {m}
  /\ pc' = [pc EXCEPT ![m] = "READY"]
  /\ UNCHANGED <<answering, sdp, constructed, tstate, ice, comps, hs, keyed, remote, globalState, updating>>

-----------------------------------------------------------------------------
(* WebRtcConnection::updateState(state, transport), on the caller's thread t  *)

\* Every medium of the offer has a transport, and it is in state s.
AllIn(s) == \A m \in sdp.has : m \in tp /\ tstate[m] = s

\* Mutant: the bundle's branch does not ask which transport reports.
AnyBundleReport(t) == sdp.bundle /\ "video" \in tp

\* The bundle's transport reports: transport == videoTransport_ && bundle_.
BundleReport(t) == sdp.bundle /\ t = "video" /\ "video" \in tp

\* The setRemoteCandidates calls of a state change to STARTED, in order.
CallIf(m, condition) == IF condition THEN <<m>> ELSE <<>>

\* Mutant: the audio transport is forgotten.
CandidatesVideo(t) ==
  CallIf("video", AllIn("STARTED") /\ "video" \in sdp.has) \o CallIf("video", BundleReport(t))

Candidates(t) ==
  CallIf("video", AllIn("STARTED") /\ "video" \in sdp.has)
    \o CallIf("audio", AllIn("STARTED") /\ "audio" \in sdp.has /\ ~sdp.bundle)
    \o CallIf("video", BundleReport(t))

\* Mutant: one ready transport is enough.
NewStateAnyReady(t) ==
  CASE pc[t] = "STARTED" /\ (AllIn("STARTED") \/ BundleReport(t)) -> "STARTED"
    [] pc[t] = "READY" /\ \E m \in sdp.has : m \in tp /\ tstate[m] = "READY" -> "READY"
    [] OTHER -> "INITIAL"

NewState(t) ==
  CASE pc[t] = "STARTED" /\ (AllIn("STARTED") \/ BundleReport(t)) -> "STARTED"
    [] pc[t] = "READY" /\ ((AllIn("READY") /\ sdp.has \subseteq ssrc) \/ BundleReport(t)) -> "READY"
    [] OTHER -> "INITIAL"

\* Where a thread goes on when updateState returns to it.
Returned(t) == [pc EXCEPT ![t] = IF t = App THEN "start" ELSE "loop"]

UpdateBegin(t) ==
  /\ Calling(t)
  /\ lock = Free
  /\ IF tp = {}
       THEN pc' = Returned(t) /\ UNCHANGED updating
       ELSE /\ lock' = t
            /\ todo' = IF pc[t] = "STARTED" THEN Candidates(t) ELSE <<>>
            /\ temp' = NewState(t)
            /\ UNCHANGED <<pc, given>>
  /\ UNCHANGED <<answering, sdp, constructed, transports, remote, globalState>>

\* NiceConnection::setRemoteCandidates, first half: the agent has them all.
GiveCandidates(t) ==
  /\ lock = t
  /\ todo # <<>> /\ ~given
  /\ remote' = remote \cup {Head(todo)}
  /\ given' = TRUE
  /\ UNCHANGED <<answering, sdp, constructed, transports, globalState, pc, lock, todo, temp>>

\* ... second half: updateIceState(NICE_CANDIDATES_RECEIVED), on this thread.
MarkReceived(t) ==
  /\ lock = t
  /\ todo # <<>> /\ given
  /\ ice' = [ice EXCEPT ![Head(todo)] = "RECEIVED"]
  /\ todo' = Tail(todo)
  /\ given' = FALSE
  /\ UNCHANGED <<answering, sdp, constructed, tstate, comps, hs, keyed, ssrc, remote, globalState, pc, lock, temp>>

\* The end of updateState: the listener is told of globalState_ if it changes.
UpdateEnd(t) ==
  /\ lock = t
  /\ todo = <<>>
  /\ globalState' = IF temp = "STARTED" /\ globalState = "READY" THEN globalState ELSE temp
  /\ lock' = Free
  /\ temp' = "INITIAL"
  /\ pc' = Returned(t)
  /\ UNCHANGED <<answering, sdp, constructed, transports, remote, todo, given>>

-----------------------------------------------------------------------------
\* setRemoteSdp has returned and no callback is in progress.
Quiet == pc[App] = "done" /\ \A m \in Media : pc[m] \in {"off", "loop"}

\* Nothing more happens: the network may stay silent.
Idle == Quiet /\ UNCHANGED vars

SetRemoteSdp ==
  \/ \E m \in Media : BeginTransport(m) \/ StartNice(m) \/ AssignTransport(m)
  \/ ReturnFromSetRemoteSdp

UpdateState(t) == UpdateBegin(t) \/ GiveCandidates(t) \/ MarkReceived(t) \/ UpdateEnd(t)

KeyExchange(m) ==
  \/ SdesReady(m) \/ StartHandshakes(m)
  \/ \E c \in Components : AnswerFlight(m, c) \/ HandshakeCompleted(m, c)

Checks(m) == \E c \in Components : ComponentReady(m, c) \/ ComponentFailed(m, c)

Next ==
  \/ SetRemoteSdp
  \/ \E m \in Media : NiceInit(m) \/ GatheringDone(m) \/ Checks(m) \/ KeyExchange(m) \/ LearnSsrc(m)
  \/ \E m \in Media : GetLocalSdp(m)
  \/ \E t \in Threads : UpdateState(t)
  \/ Idle

Spec == Init /\ [][Next]_vars

(* Threads are scheduled, callbacks the agent owes are made and a handshake   *)
(* whose flights all left is answered.  Nothing obliges the network to reach  *)
(* ready rather than failed, nor the peer to send media.                      *)
Resolve(m) == ice[m] # "FAILED" /\ Checks(m)

Fairness ==
  /\ WF_vars(SetRemoteSdp)
  /\ \A m \in Media : WF_vars(NiceInit(m)) /\ WF_vars(GatheringDone(m))
                      /\ WF_vars(Resolve(m)) /\ WF_vars(KeyExchange(m))
  /\ \A t \in Threads : WF_vars(UpdateState(t))

FairSpec == Spec /\ Fairness

-----------------------------------------------------------------------------
(* Properties                                                                *)

\* The transports whose keys and candidates a READY connection relies on.
Carrying == IF sdp.bundle /\ "video" \in sdp.has THEN {"video"} ELSE sdp.has

\* READY is only announced when every transport that will carry media is ready
\* and each of its components has an SRTP channel with keys, on whatever
\* threads the callbacks arrived (WebRtcConnection.cpp updateState).
ReadyIsKeyed ==
  globalState = "READY" =>
    \A m \in Carrying : tstate[m] = "READY" /\ Comps \subseteq keyed[m]

\* An application that calls getLocalSdp after the connection has left INITIAL
\* answers every medium of the offer with candidates, although processLocalSdp
\* only looks at what iceState is at that moment.
AnswerIsComplete ==
  asked = "informed" /\ Describing \subseteq described => sdp.has \subseteq answer

\* No interleaving of the two transports' threads loses the change to READY:
\* when no callback is running, both are ready and both SSRCs are known, the
\* connection is READY (the last of the threads to lock sees all of it).
NoLostReady ==
  Quiet /\ sdp.has # {} /\ AllIn("READY") /\ sdp.has \subseteq ssrc => globalState = "READY"

\* No interleaving loses the change to STARTED: when no callback is running and
\* every transport has gathered, the peer's candidates have been handed over.
NoLostStart ==
  Quiet /\ sdp.has # {} /\ AllIn("STARTED") => Carrying \subseteq remote

\* A connection announced READY is not taken back while nothing failed.
ReadyIsStable == [][globalState = "READY" => globalState' = "READY"]_vars

\* iceState says what the agent last said: between callbacks, a stream whose
\* components are all ready is READY, unless the agent then reported a failure.
IceStateReflects ==
  \A m \in Media : pc[m] = "loop" /\ Comps \subseteq comps[m] => ice[m] \in {"READY", "FAILED"}

\* A connection whose network paths do not fail is established, and stays so.
Establishes ==
  <>[](globalState = "READY") \/ <>(\E m \in Media : ice[m] = "FAILED")
=============================================================================
