---------------------------- MODULE OneToManyProofs ----------------------------
(***************************************************************************)
(* For any set of subscribers and any descriptions: a packet that does not  *)
(* stray is handed exactly once to every subscriber that stays; every       *)
(* variable keeps its type, the payload type in the shared buffer included; *)
(* feedback is recognised where the publisher's description names its SSRCs;*)
(* and each peer is sent its own payload types where the descriptions number*)
(* theirs as OwnPayloadType requires.                                       *)
(***************************************************************************)
EXTENDS OneToMany, SdpInfoProofs

-----------------------------------------------------------------------------
(* The traversal                                                             *)

\* Following(tree, s) is the first node behind s, or the end if there is none.
LEMMA FollowingIsNext ==
  ASSUME NEW s \in Nat, NEW tree \in SUBSET Peers
  PROVE  /\ Following(tree, s) \in tree \cup {End}
         /\ Following(tree, s) # End => Following(tree, s) > s /\ Following(tree, s) \in Nat
         /\ \A q \in tree : q > s => Following(tree, s) # End /\ Following(tree, s) <= q
<1> DEFINE rest == {q \in tree : q > s}
           first == CHOOSE q \in rest : \A r \in rest : q <= r
<1>1. CASE rest = {}
  BY <1>1 DEF Following, End
<1>2. CASE rest # {}
  <2>1. \E q \in rest : \A r \in rest : q <= r
    <3>1. rest \in SUBSET Peers
      OBVIOUS
    <3> HIDE DEF rest
    <3> QED
      BY <1>2, <3>1, PeersAssumption
  <2>2. first \in rest /\ \A r \in rest : first <= r
    BY <2>1
  <2>3. Following(tree, s) = first
    BY <1>2 DEF Following
  <2>4. first \in Nat \ {0}
    BY <2>2, PeersAssumption
  <2> QED
    BY <2>2, <2>3, <2>4 DEF End
<1> QED
  BY <1>1, <1>2

\* Behind the iterator everyone has had the packet, before it no one.
Served ==
  /\ ~twice
  /\ \A s \in Peers : /\ s \in due /\ (it = End \/ s < it) => s \in got
                      /\ it # End /\ s >= it => s \notin got

\* Unless it strayed, the iterator is at a node of the tree.
TravInv ==
  /\ it \in Peers \cup {End}
  /\ due \subseteq subscribers /\ subscribers \subseteq Peers
  /\ app.op \in {"link", "assign", "remove", "unlink"} => app.peer \in Peers
  /\ ~strayed => (app.op # "crashed" => it \in subscribers \cup Entry \cup {End}) /\ Served

LEMMA TravInit == Init => TravInv
BY DEF Init, TravInv, Served, Idle

\* Whichever tree the publisher's thread finds, all that are due are in it.
LEMMA TreesAre ==
  ASSUME TravInv, NEW tree \in Trees
  PROVE  tree \in SUBSET Peers /\ subscribers \subseteq tree /\ tree \subseteq subscribers \cup Entry
BY DEF TravInv, Trees, Entry

\* A new packet: nobody has it, and the iterator is at the first.
LEMMA TravReceive ==
  ASSUME TravInv, NEW c \in Codecs, Receive(c)
  PROVE  TravInv'
<1>1. PICK tree \in Trees : it' = Following(tree, End)
  BY DEF Receive
<1>2. /\ due' = subscribers /\ subscribers' = subscribers /\ got' = {} /\ ~twice' /\ app' = app
  BY DEF Receive
<1>3. /\ Following(tree, End) \in tree \cup {End}
      /\ Following(tree, End) # End => Following(tree, End) \in Nat
      /\ \A q \in tree : q > End => Following(tree, End) # End /\ Following(tree, End) <= q
  BY TreesAre, FollowingIsNext DEF End
<1>4. \A s \in subscribers : s \in Nat /\ s > End /\ s \in tree
  BY TreesAre, PeersAssumption DEF TravInv, End
<1>5. Served'
  BY <1>1, <1>2, <1>3, <1>4, PeersAssumption DEF Served, TravInv, End
<1> QED
  BY <1>1, <1>2, <1>3, <1>5, TreesAre DEF TravInv, Entry

\* One subscriber is served, and the iterator goes to the next, or astray.
LEMMA TravDeliver ==
  ASSUME TravInv, Deliver
  PROVE  TravInv'
<1>1. /\ HasSink /\ Increment
      /\ got' = got \cup {it} /\ twice' = (twice \/ it \in got)
      /\ UNCHANGED <<due, subscribers, app>>
  BY DEF Deliver, config
<1>2. /\ it \in Nat \ {0} /\ it \in Peers
  BY <1>1, PeersAssumption DEF TravInv, HasSink, End
<1>3. CASE Rotates /\ it' \in subscribers \cup Entry \cup {End} /\ strayed'
  BY <1>1, <1>3 DEF TravInv, Entry
<1>4. ASSUME NEW tree \in Trees, it' = Following(tree, it), UNCHANGED strayed PROVE TravInv'
  <2>1. /\ Following(tree, it) \in tree \cup {End}
        /\ Following(tree, it) # End => Following(tree, it) > it /\ Following(tree, it) \in Nat
        /\ \A q \in tree : q > it => Following(tree, it) # End /\ Following(tree, it) <= q
    BY <1>2, TreesAre, FollowingIsNext
  <2>2. subscribers \subseteq tree /\ tree \subseteq subscribers \cup Entry
    BY TreesAre
  <2>3. ASSUME ~strayed PROVE Served'
    <3>1. it \notin got /\ ~twice
      BY <1>2, <2>3 DEF TravInv, Served, End
    <3>2. ASSUME NEW s \in Peers
          PROVE  /\ s \in due' /\ (it' = End \/ s < it') => s \in got'
                 /\ it' # End /\ s >= it' => s \notin got'
      <4>1. s \in Nat /\ (s \in due => s \in tree)
        BY <2>2, PeersAssumption DEF TravInv
      <4>2. /\ s \in due /\ s < it => s \in got
            /\ s >= it => s \notin got
        BY <1>2, <2>3 DEF TravInv, Served, End
      <4> QED
        BY <1>1, <1>2, <1>4, <2>1, <4>1, <4>2
    <3>3. ~twice'
      BY <1>1, <3>1
    <3> QED
      BY <3>2, <3>3 DEF Served
  <2> QED
    BY <1>1, <1>2, <1>4, <2>1, <2>2, <2>3 DEF TravInv, Entry
<1> QED
  BY <1>1, <1>3, <1>4 DEF Increment

\* The application's steps move neither the iterator nor the count: they add
\* subscribers the packet was not due to, and erase some.
LEMMA TravApp ==
  ASSUME TravInv, App
  PROVE  TravInv'
<1>1. UNCHANGED <<it, got, twice>>
  BY DEF App, PublisherSdp, UpdateSsrcs, Insert, Store, Unlink, Erase, CloseAll, CloseSource,
         AddSubscriber, RemoveSubscriber, SubscriberSdp, packet
<1>2. ASSUME due' \subseteq due, ~strayed' => ~strayed PROVE ~strayed' => Served'
  BY <1>1, <1>2 DEF TravInv, Served
<1>3. CASE Insert \/ Store
  <2>1. /\ app.peer \in Peers /\ app.op # "crashed" /\ app'.op # "crashed"
        /\ app.op \in {"link", "assign"}
        /\ UNCHANGED <<due, strayed>>
        /\ subscribers \subseteq subscribers' /\ subscribers' \subseteq Peers
        /\ app'.op \in {"link", "assign", "remove", "unlink"} => app'.peer \in Peers
    BY <1>3 DEF Insert, Store, Idle, TravInv, packet
  <2>2. subscribers \cup Entry \subseteq subscribers' \cup Entry'
    BY <1>3, <2>1 DEF Insert, Store, Idle, Entry
  <2> QED
    BY <1>1, <1>2, <2>1, <2>2 DEF TravInv
<1>9. CASE Unlink
  <2>1. subscribers' \cup Entry' = subscribers \cup {app.peer} /\ Entry = {}
    BY <1>9 DEF Unlink, Entry
  <2>2. Served' \/ strayed'
    BY <1>2, <1>9 DEF Unlink
  <2> QED
    BY <1>1, <1>9, <2>1, <2>2 DEF Unlink, TravInv
<1>10. CASE Erase
  <2>1. Entry = {app.peer} /\ Entry' = {} /\ UNCHANGED <<due, subscribers>>
    BY <1>10 DEF Erase, Entry, Idle
  <2>2. ~strayed' => ~strayed /\ it # app.peer
    BY <1>10 DEF Erase
  <2>3. app.op # "crashed" /\ app'.op = "idle"
    BY <1>10 DEF Erase, Idle
  <2> QED
    BY <1>1, <1>2, <2>1, <2>2, <2>3 DEF TravInv
<1>4. ASSUME NEW s \in Peers, AddSubscriber(s) \/ RemoveSubscriber(s) PROVE TravInv'
  BY <1>1, <1>4 DEF AddSubscriber, RemoveSubscriber, Idle, TravInv, Served, Entry, packet
<1>5. ASSUME UNCHANGED <<due, strayed, subscribers>>, Entry = {}, app.op # "crashed",
             app' = app \/ app'.op \in {"idle", "update", "closing", "closed"}
      PROVE  TravInv'
  <2>1. Entry' = {}
    <3>1. app.op \notin {"link", "assign", "unlink"}
      BY <1>5 DEF Entry
    <3> QED
      BY <1>5, <3>1 DEF Entry
  <2>2. ~strayed' => Served'
    BY <1>2, <1>5
  <2> QED
    BY <1>1, <1>5, <2>1, <2>2 DEF TravInv
<1>6. ASSUME NEW d \in Published, PublisherSdp(d) PROVE TravInv'
  BY <1>5, <1>6 DEF PublisherSdp, packet, Entry, Idle
<1>7. ASSUME NEW s \in Peers, NEW d \in Subscribed, SubscriberSdp(s, d) PROVE TravInv'
  BY <1>5, <1>7 DEF SubscriberSdp, packet, Entry, Idle
<1>8. ASSUME UpdateSsrcs \/ CloseAll \/ CloseSource PROVE TravInv'
  BY <1>5, <1>8 DEF UpdateSsrcs, CloseAll, CloseSource, Idle, packet, Entry
<1> QED
  BY <1>3, <1>4, <1>6, <1>7, <1>8, <1>9, <1>10 DEF App

\* Every step keeps the invariant.
LEMMA TravStep == TravInv /\ [Next]_vars => TravInv'
<1> SUFFICES ASSUME TravInv, [Next]_vars PROVE TravInv'
  OBVIOUS
<1>1. CASE App
  BY <1>1, TravApp
<1>2. ASSUME NEW c \in Codecs, Receive(c) PROVE TravInv'
  BY <1>2, TravReceive
<1>3. CASE Deliver
  BY <1>3, TravDeliver
<1>4. CASE Stray
  <2>1. strayed /\ UNCHANGED <<due, strayed, subscribers, app, got>>
    BY <1>4 DEF Stray, config, TravInv
  <2> QED
    BY <1>4, <2>1 DEF Stray, TravInv, Entry
<1>5. CASE Crash
  BY <1>5 DEF Crash, packet, TravInv, Served
<1>6. CASE UNCHANGED vars
  BY <1>6 DEF vars, config, packet, TravInv, Served, Entry
<1> QED
  BY <1>1, <1>2, <1>3, <1>4, <1>5, <1>6 DEF Next, Publisher

\* While subscribers come and go, a packet is handed exactly once to each that
\* stays (deliverVideoData's loop over the map): also while a node that is being
\* linked or unlinked may already be found or not, and whatever the iterator does
\* where the node it is at stays. It says nothing of a packet whose iterator moved
\* in the middle of a rotation, or whose node was deleted.
THEOREM EachOnceTheorem == Spec => []EachOnce
<1>1. TravInv => EachOnce
  BY DEF TravInv, Served, EachOnce
<1> QED
  BY <1>1, TravInit, TravStep, PTL DEF Spec

-----------------------------------------------------------------------------
(* Types                                                                     *)

\* Every codec of the table has its medium and its number.
LEMMA MediumIsMedia == \A c \in Codecs : Medium(c) \in Media /\ InternalPT(c) \in PTs
BY CodecsAssumption, Table

\* What processSdp makes of a description of the instance.
LEMMA InfoIs ==
  ASSUME NEW d \in Published \cup Subscribed \cup {<<>>}
  PROVE  LoopInv(Info[d], d, Len(d)) /\ IsInfo(Info[d])
<1>1. IsDescription(d)
  BY DescriptionsAssumption, NoDescription
<1>2. Info[d] = ProcessSdp(d)
  BY DEF Info
<1> QED
  BY <1>1, <1>2, Processed DEF LoopInv

LEMMA SsrcsTyped == \A d \in Published : Info[d].ssrc \in [Media -> SSRCs]
<1> SUFFICES ASSUME NEW d \in Published PROVE Info[d].ssrc \in [Media -> SSRCs]
  OBVIOUS
<1>1. Info[d].ssrc = [m \in Media |-> Info[d].ssrc[m]] /\ Info[d] = ProcessSdp(d)
  BY InfoIs DEF IsInfo, Info
<1>2. \A m \in Media : Info[d].ssrc[m] \in SSRCs
  BY <1>1 DEF SSRCs, Ssrcs
<1> QED
  BY <1>1, <1>2

\* The answer's numbers of a codec are those of payloadVector_.
LEMMA NumbersAre ==
  ASSUME NEW d, NEW c, NEW l
  PROVE  l \in Numbers(d, c) <=>
           \E r \in Info[d].payloads : /\ r.medium \in Described(Info[d]) /\ r.codec = c
                                     /\ l = RtpmapLine(r.pt, r.codec)
<1>1. l \in GetSdp(Info[d], Both(NoSsrc)) /\ l.kind = "rtpmap"
        <=> \E r \in Info[d].payloads : r.medium \in Described(Info[d]) /\ l = RtpmapLine(r.pt, r.codec)
  BY RtpmapsOfAnswer
<1>2. \A pt, e : RtpmapLine(pt, e).codec = e
  BY DEF RtpmapLine
<1> QED
  BY <1>1, <1>2 DEF Numbers

LEMMA NumbersTyped ==
  ASSUME NEW d \in Published, NEW c, NEW l \in Numbers(d, c)
  PROVE  l.pt \in PTs
<1>1. PICK r \in Info[d].payloads : l = RtpmapLine(r.pt, r.codec)
  BY NumbersAre
<1>2. l.pt = r.pt
  BY <1>1 DEF RtpmapLine
<1> QED
  BY <1>1, <1>2, InfoIs DEF IsInfo

\* Nothing that a subscriber writes leaves the seven bits.
LEMMA TranslationTyped ==
  ASSUME NEW info, IsInfo(info), NEW pt \in PTs, NEW k \in PTs
  PROVE  Translate(info.inOut, pt) \in PTs /\ Sent(Looked(info, k), pt) \in PTs
<1>1. 0 \in PTs
  BY DEF PTs
<1>2. \A j : Lookup(info.inOut, j) \in PTs
  BY <1>1 DEF Lookup, IsInfo
<1>3. Looked(info, k).inOut = Assign(info.inOut, k, Lookup(info.inOut, k))
  BY DEF Looked, IsInfo
<1>4. \A j : Lookup(Looked(info, k).inOut, j) \in PTs
  BY <1>1, <1>2, <1>3 DEF Lookup, Assign, IsInfo
<1> QED
  BY <1>2, <1>4 DEF Translate, Sent

Apps == [op : {"idle", "link", "assign", "remove", "unlink", "update", "closing", "closed", "crashed"},
         peer : Peers \cup {End}]

\* What the application's thread may be at.
LEMMA AppTyped ==
  /\ Idle \in Apps
  /\ \A s \in Peers : [op |-> "link", peer |-> s] \in Apps /\ [op |-> "remove", peer |-> s] \in Apps
  /\ \A op \in {"update", "closing", "closed", "crashed"} : [op |-> op, peer |-> End] \in Apps
BY DEF Apps, Idle

LEMMA TypeInit == Init => TypeOK
<1> SUFFICES ASSUME Init PROVE TypeOK
  OBVIOUS
<1>1. 0 \in PTs /\ Garbage \in SSRCs
  BY DEF PTs, SSRCs
<1>2. Nothing \in [peer : Peers \cup {End}, codec : Codecs, pt : PTs, ssrc : SSRCs]
  BY <1>1, CodecsAssumption DEF Nothing
<1> QED
  <2>1. Both(Garbage) \in [Media -> SSRCs]
    BY <1>1 DEF Both
  <2>2. sink \in [Peers -> [Media -> SSRCs]]
    BY <2>1 DEF Init
  <2> QED
    BY <1>1, <1>2, <2>1, <2>2, AppTyped, CodecsAssumption DEF Init, TypeOK, Apps

\* The application's steps: who is inserted was added, which TravInv knows.
LEMMA TypeApp ==
  ASSUME TypeOK, TravInv, App
  PROVE  TypeOK'
<1>1. ASSUME NEW d \in Published, PublisherSdp(d) PROVE TypeOK'
  BY <1>1, SsrcsTyped DEF PublisherSdp, TypeOK, packet
<1>2. CASE UpdateSsrcs
  BY <1>2 DEF UpdateSsrcs, TypeOK, Idle, packet
<1>3. CASE Insert \/ Store
  <2>1. app.peer \in Peers
    BY <1>3 DEF Insert, Store, TravInv
  <2> QED
    BY <1>3, <2>1, AppTyped DEF Insert, Store, TypeOK, Apps, packet
<1>4. CASE Unlink \/ Erase
  <2>1. app' \in Apps
    BY <1>4, AppTyped DEF Unlink, Erase, TypeOK, Apps
  <2> QED
    BY <1>4, <2>1 DEF Unlink, Erase, TypeOK, Apps
<1>5. CASE CloseAll \/ CloseSource
  BY <1>5 DEF CloseAll, CloseSource, TypeOK, packet
<1>6. ASSUME NEW s \in Peers, AddSubscriber(s) \/ RemoveSubscriber(s) PROVE TypeOK'
  <2>1. CASE AddSubscriber(s)
    BY <1>6, <2>1, AppTyped DEF AddSubscriber, TypeOK, Apps, packet
  <2>2. CASE RemoveSubscriber(s)
    BY <1>6, <2>2, AppTyped DEF RemoveSubscriber, TypeOK, Apps, packet
  <2> QED
    BY <1>6, <2>1, <2>2
<1>7. ASSUME NEW s \in Peers, NEW d \in Subscribed, SubscriberSdp(s, d) PROVE TypeOK'
  BY <1>7 DEF SubscriberSdp, TypeOK, packet
<1> QED
  BY <1>1, <1>2, <1>3, <1>4, <1>5, <1>6, <1>7 DEF App

\* The publisher's thread.
LEMMA TypeReceive ==
  ASSUME TypeOK, TravInv, NEW c \in Codecs, Receive(c)
  PROVE  TypeOK'
<1>1. published \in Published /\ it' \in Peers \cup {End}
  <2>1. PICK tree \in Trees : it' = Following(tree, End)
    BY DEF Receive
  <2>2. tree \in SUBSET Peers /\ End \in Nat
    BY TreesAre DEF End
  <2>3. it' \in tree \cup {End}
    BY <2>1, <2>2, FollowingIsNext
  <2> QED
    BY <2>2, <2>3 DEF Receive, TypeOK
<1>2. PICK number \in Numbers(published, c) :
        buf' = Translate(Info[published].outIn, number.pt)
  BY DEF Receive
<1>3. buf' \in PTs
  <2>1. \A k : Lookup(Info[published].outIn, k) \in PTs \cup {0}
    BY <1>1, InfoIs DEF Lookup, IsInfo
  <2>2. number.pt \in PTs
    BY <1>1, NumbersTyped
  <2> QED
    BY <1>2, <2>1, <2>2 DEF Translate
<1>4. src' \in [Media -> SSRCs]
  BY DEF Receive, TypeOK, SSRCs
<1>5. out' \in [peer : Peers \cup {End}, codec : Codecs, pt : PTs, ssrc : SSRCs]
  <2>1. 0 \in PTs /\ Garbage \in SSRCs
    BY DEF PTs, SSRCs
  <2> QED
    BY <2>1, CodecsAssumption DEF Receive, Nothing
<1>6. got' \subseteq Peers
  BY DEF Receive
<1>7. strayed' \in BOOLEAN /\ twice' \in BOOLEAN
  BY Zenon DEF Receive
<1> QED
  BY <1>1, <1>3, <1>4, <1>5, <1>6, <1>7 DEF Receive, TypeOK

\* What one subscriber is served, in the terms of its description.
LEMMA Served1 ==
  ASSUME TypeOK, TravInv, Deliver
  PROVE  /\ it \in Peers /\ it' \in Peers \cup {End}
         /\ subscribed[it] \in Subscribed \cup {<<>>}
         /\ buf' = Translate(Info[subscribed[it]].inOut, buf) /\ buf' \in PTs
         /\ \/ out' = out
            \/ /\ conn[it] # "new"
               /\ out' = [peer |-> it, codec |-> codec,
                           pt |-> Sent(Looked(Info[subscribed[it]], buf), buf'),
                           ssrc |-> sink[it][Medium(codec)]]
         /\ UNCHANGED <<config, codec, due>>
         /\ got' = got \cup {it} /\ twice' \in BOOLEAN /\ strayed' \in BOOLEAN
<1>1. it \in Peers /\ it \in Nat
  BY PeersAssumption DEF Deliver, HasSink, TravInv, End
<1>2. it' \in Peers \cup {End} /\ strayed' \in BOOLEAN
  <2>1. subscribers \cup Entry \subseteq Peers
    BY DEF TravInv, Entry
  <2>2. ASSUME NEW tree \in Trees, it' = Following(tree, it) PROVE it' \in Peers \cup {End}
    BY <1>1, <2>1, <2>2, TreesAre, FollowingIsNext
  <2> QED
    BY <2>1, <2>2 DEF Deliver, Increment, TypeOK
<1>3. subscribed[it] \in Subscribed \cup {<<>>}
  BY <1>1 DEF TypeOK
<1> DEFINE info == Info[subscribed[it]]
<1>4. IsInfo(info)
  BY <1>3, InfoIs
<1>5. buf' = Translate(info.inOut, buf) /\ buf' \in PTs
  BY <1>4, TranslationTyped DEF Deliver, TypeOK
<1>6. \/ out' = out
      \/ conn[it] # "new" /\ Hand(Sent(Looked(info, buf), Translate(info.inOut, buf)))
  BY DEF Deliver, MayHand, Reaches
<1>7. got' = got \cup {it} /\ twice' \in BOOLEAN
  BY Zenon DEF Deliver
<1> QED
  BY <1>1, <1>2, <1>3, <1>5, <1>6, <1>7 DEF Deliver, Hand

LEMMA TypePublisher ==
  ASSUME TypeOK, TravInv, Publisher
  PROVE  TypeOK'
<1>1. CASE Deliver
  <2>1. subscribed[it] \in Subscribed \cup {<<>>} /\ it \in Peers /\ buf' \in PTs
    BY <1>1, Served1
  <2>2. Sent(Looked(Info[subscribed[it]], buf), buf') \in PTs
    BY <2>1, InfoIs, TranslationTyped DEF TypeOK
  <2>3. sink[it][Medium(codec)] \in SSRCs
    BY <2>1, MediumIsMedia DEF TypeOK
  <2>4. out' \in [peer : Peers \cup {End}, codec : Codecs, pt : PTs, ssrc : SSRCs]
    <3>1. CASE out' = out
      BY <3>1 DEF TypeOK
    <3>2. CASE out' # out
      BY <1>1, <2>1, <2>2, <2>3, <3>2, Served1 DEF TypeOK
    <3> QED
      BY <3>1, <3>2
  <2>5. got' \subseteq Peers /\ twice' \in BOOLEAN /\ strayed' \in BOOLEAN
    BY <1>1, <2>1, Served1 DEF TypeOK
  <2>6. it' \in Peers \cup {End} /\ UNCHANGED <<config, codec, due>>
    BY <1>1, Served1
  <2> QED
    BY <2>1, <2>4, <2>5, <2>6 DEF TypeOK, config
<1>2. CASE Stray
  BY <1>2 DEF Stray, TravInv, Entry, TypeOK, config
<1>3. CASE Crash
  BY <1>3, AppTyped DEF Crash, TypeOK, Apps, packet
<1> QED
  BY <1>1, <1>2, <1>3, TypeReceive DEF Publisher

LEMMA TypeStep == TypeOK /\ TravInv /\ [Next]_vars => TypeOK'
<1>1. TypeOK /\ UNCHANGED vars => TypeOK'
  BY DEF TypeOK, vars, config, packet
<1> QED
  BY <1>1, TypeApp, TypePublisher DEF Next

\* Whatever the peers' descriptions, subscribers, SSRCs and payload types stay in
\* their sets: no translation of processSdp's maps leaves the header's seven bits.
THEOREM TypingTheorem == Spec => []TypeOK
BY TypeInit, TypeStep, TravInit, TravStep, PTL DEF Spec

-----------------------------------------------------------------------------
(* Feedback                                                                  *)

\* The publisher's description names different SSRCs for audio and video.
NamesSsrcs(d) ==
  /\ \A m \in Media : Info[d].ssrc[m] # NoSsrc
  /\ Info[d].ssrc["video"] # Info[d].ssrc["audio"]

\* Has the publisher negotiated, and the subscribers been told?
Settled == published # <<>> /\ app.op # "update"

Told(s) == sink[s] = src

\* No packet comes before the publisher has negotiated; then everyone in the map,
\* or on the way into it or out of it, has the publisher's SSRCs.
SsrcInv ==
  /\ published # <<>> \/ app.op = "update" =>
       (\A m \in Media : src[m] # NoSsrc) /\ src["video"] # src["audio"]
  /\ ~Settled => it = End /\ out.peer = End
  /\ Settled => /\ \A s \in subscribers : Told(s)
                /\ app.op \in {"link", "assign", "remove", "unlink"} => Told(app.peer)
  /\ out.peer # End => out.ssrc = src[Medium(out.codec)]

LEMMA SsrcInit == Init => SsrcInv
BY DEF Init, SsrcInv, Idle, Nothing, Settled

\* What the application does to the publisher and to the map.
LEMMA SsrcApp ==
  ASSUME SsrcInv, TypeOK, TravInv, App, \A d \in Published : NamesSsrcs(d)
  PROVE  SsrcInv'
<1>1. ASSUME NEW d \in Published, PublisherSdp(d) PROVE SsrcInv'
  <2>1. (\A m \in Media : src'[m] # NoSsrc) /\ src'["video"] # src'["audio"]
    BY <1>1 DEF PublisherSdp, NamesSsrcs
  <2> QED
    BY <1>1, <2>1 DEF PublisherSdp, SsrcInv, Settled, Idle, packet
<1>2. CASE UpdateSsrcs
  <2>1. \A s \in subscribers : sink'[s] = src
    BY <1>2 DEF UpdateSsrcs, TravInv
  <2> QED
    BY <1>2, <2>1 DEF UpdateSsrcs, SsrcInv, Settled, Told, Idle, packet
<1>3. CASE Insert \/ Store
  BY <1>3 DEF Insert, Store, SsrcInv, Settled, Told, Idle, packet
<1>4. CASE Unlink \/ Erase
  BY <1>4 DEF Unlink, Erase, SsrcInv, Settled, Told, Idle
<1>5. ASSUME NEW s \in Peers, AddSubscriber(s) PROVE SsrcInv'
  <2>1. sink'[s] = src /\ \A q \in subscribers : sink'[q] = sink[q]
    BY <1>5 DEF AddSubscriber, TypeOK
  <2> QED
    BY <1>5, <2>1 DEF AddSubscriber, SsrcInv, Settled, Told, Idle, packet
<1>6. ASSUME NEW s \in Peers, RemoveSubscriber(s) PROVE SsrcInv'
  BY <1>6 DEF RemoveSubscriber, SsrcInv, Settled, Told, Idle, packet
<1>7. ASSUME UNCHANGED <<src, published, sink, subscribers, packet>>, app.op # "update",
             app' = app \/ app'.op \in {"closing", "closed"}
      PROVE SsrcInv'
  BY <1>7 DEF SsrcInv, Settled, Told, packet
<1>8. ASSUME NEW s \in Peers, NEW d \in Subscribed, SubscriberSdp(s, d) PROVE SsrcInv'
  BY <1>7, <1>8 DEF SubscriberSdp, Idle
<1>9. ASSUME CloseAll \/ CloseSource PROVE SsrcInv'
  BY <1>7, <1>9 DEF CloseAll, CloseSource, Idle
<1> QED
  BY <1>1, <1>2, <1>3, <1>4, <1>5, <1>6, <1>8, <1>9 DEF App

\* What the publisher's thread does to a packet: nothing is left to be learned.
LEMMA SsrcPublisher ==
  ASSUME SsrcInv, TypeOK, TravInv, Publisher
  PROVE  SsrcInv'
<1>1. ASSUME NEW c \in Codecs, Receive(c) PROVE SsrcInv'
  <2>1. Medium(c) \in Media /\ src[Medium(c)] # NoSsrc
    BY <1>1, MediumIsMedia DEF Receive, SsrcInv
  <2>2. src' = src
    BY <1>1, <2>1 DEF Receive, TypeOK
  <2>3. Settled
    BY <1>1 DEF Receive, Settled
  <2> QED
    BY <1>1, <2>2, <2>3 DEF Receive, SsrcInv, Settled, Told, Nothing
<1>2. CASE Deliver
  <2>1. /\ UNCHANGED <<config, codec>>
        /\ \/ out' = out
           \/ out'.codec = codec /\ out'.ssrc = sink[it][Medium(codec)]
    BY <1>2, Served1
  <2>2. Settled /\ Told(it)
    BY <1>2 DEF Deliver, HasSink, SsrcInv
  <2> QED
    BY <2>1, <2>2 DEF SsrcInv, Settled, Told, config
<1>3. CASE Stray
  BY <1>3 DEF Stray, SsrcInv, Settled, Told, config, TravInv
<1>4. CASE Crash
  BY <1>4 DEF Crash, SsrcInv, Settled, Told, packet
<1> QED
  BY <1>1, <1>2, <1>3, <1>4 DEF Publisher

\* Where the publisher's description names its SSRCs, the reports of every
\* subscriber's peer are taken by deliverFeedback for the medium they are about,
\* in whatever order the peers subscribed and negotiated.
THEOREM FeedbackTheorem ==
  ASSUME \A d \in Published : NamesSsrcs(d)
  PROVE  Spec => []FeedbackIsRecognised
<1>1. Init => SsrcInv
  BY SsrcInit
<1>2. SsrcInv /\ TypeOK /\ TravInv /\ [Next]_vars => SsrcInv'
  <2>1. SsrcInv /\ TypeOK /\ TravInv /\ Next => SsrcInv'
    BY SsrcApp, SsrcPublisher DEF Next
  <2>2. SsrcInv /\ UNCHANGED vars => SsrcInv'
    BY DEF SsrcInv, Settled, Told, vars, config, packet
  <2> QED
    BY <2>1, <2>2
<1>3. SsrcInv /\ TypeOK => FeedbackIsRecognised
  <2> SUFFICES ASSUME SsrcInv, TypeOK, out.peer # End PROVE Taken(out.ssrc) = Medium(out.codec)
    BY DEF FeedbackIsRecognised
  <2>1. Medium(out.codec) \in Media /\ out.ssrc = src[Medium(out.codec)]
    BY MediumIsMedia DEF SsrcInv, TypeOK
  <2>2. src["video"] # src["audio"]
    BY DEF SsrcInv, Settled
  <2> QED
    BY <2>1, <2>2 DEF Taken, Media
<1> QED
  BY <1>1, <1>2, <1>3, TypeInit, TypeStep, TravInit, TravStep, PTL DEF Spec

-----------------------------------------------------------------------------
(* Payload types                                                             *)

LEMMA RedAndVp8 ==
  \A c \in {"red", "VP8"} : /\ Known(c) /\ Medium(c) = "video"
                          /\ InternalPT(c) = IF c = "red" THEN RED_90000_PT ELSE VP8_90000_PT
<1> SUFFICES ASSUME NEW c \in {"red", "VP8"}
             PROVE  /\ Known(c) /\ Medium(c) = "video"
                    /\ InternalPT(c) = IF c = "red" THEN RED_90000_PT ELSE VP8_90000_PT
  OBVIOUS
<1> DEFINE entry == RtpMap(IF c = "red" THEN RED_90000_PT ELSE VP8_90000_PT, c, "video")
<1>1. entry \in internalPayloadVector_ /\ entry.codec = c
  BY DEF internalPayloadVector_, RtpMap
<1>2. \A r \in internalPayloadVector_ : r.codec = c => r = entry
  BY DEF internalPayloadVector_, RtpMap, RED_90000_PT, VP8_90000_PT
<1>3. (CHOOSE r \in internalPayloadVector_ : r.codec = c) = entry
  BY <1>1, <1>2
<1>4. entry.medium = "video" /\ entry.pt = IF c = "red" THEN RED_90000_PT ELSE VP8_90000_PT
  BY DEF RtpMap
<1> HIDE DEF entry
<1> QED
  BY <1>1, <1>3, <1>4 DEF Known, Medium, InternalPT

\* Every entry of payloadVector_ is a line of the description, in its own medium,
\* and the answer has the video ones.
LEMMA EntryIsLine ==
  ASSUME NEW d \in Published \cup Subscribed \cup {<<>>}, InSections(d),
         NEW r \in Info[d].payloads
  PROVE  /\ \E j \in 1..Len(d) : IsKnownRtpmap(d[j]) /\ r.pt = d[j].pt /\ r.codec = d[j].codec
         /\ Known(r.codec) /\ r.pt \in PTs
         /\ r.codec \in {"red", "VP8"} => r.medium \in Described(Info[d])
<1>1. /\ FromLines(Info[d], d, Len(d)) /\ InPlace(Info[d], d, Len(d)) /\ IsInfo(Info[d])
  BY InfoIs DEF LoopInv
<1>2. r.medium = Medium(r.codec) /\ r.medium \in Info[d].has
  BY <1>1 DEF InPlace
<1>3. Known(r.codec) /\ r.pt \in PTs
  BY <1>1 DEF IsInfo
<1>4. r.codec \in {"red", "VP8"} => r.medium \in Described(Info[d])
  BY <1>2, RedAndVp8 DEF Described, HasTransport, Media
<1> QED
  BY <1>1, <1>3, <1>4 DEF FromLines

\* The publisher's numbers become internal ones.
LEMMA Internalised ==
  ASSUME NEW d \in Published, MayPublish(d), NEW c, NEW l \in Numbers(d, c)
  PROVE  /\ Lookup(Info[d].outIn, l.pt) = InternalPT(c)
         /\ InternalPT(c) = 0 => l.pt = 0
<1>1. PICK r \in Info[d].payloads : r.codec = c /\ l = RtpmapLine(r.pt, r.codec)
  BY NumbersAre
<1>2. l.pt = r.pt
  BY <1>1 DEF RtpmapLine
<1>3. PICK i \in 1..Len(d) : IsKnownRtpmap(d[i]) /\ r.pt = d[i].pt /\ r.codec = d[i].codec
  BY EntryIsLine DEF MayPublish
<1>4. MapsMatch(Info[d])
  BY InfoIs DEF LoopInv
<1>5. r.pt \in DOMAIN Info[d].outIn
  BY <1>4 DEF MapsMatch
<1>6. PICK q \in Info[d].payloads : q.pt = r.pt /\ Info[d].outIn[r.pt] = InternalPT(q.codec)
  BY <1>4, <1>5 DEF MapsMatch
<1>7. PICK j \in 1..Len(d) : IsKnownRtpmap(d[j]) /\ q.pt = d[j].pt /\ q.codec = d[j].codec
  BY EntryIsLine DEF MayPublish
<1>8. q.codec = c
  BY <1>1, <1>3, <1>6, <1>7 DEF MayPublish, NumbersOnce
<1> QED
  BY <1>1, <1>2, <1>3, <1>5, <1>6, <1>8 DEF Lookup, MayPublish

\* Where it has RED the block inside is numbered as if it were internal.
LEMMA BlockIsInternal ==
  ASSUME NEW d \in Published, MayPublish(d), Numbers(d, "red") # {}
  PROVE  (CHOOSE l \in Numbers(d, "VP8") : TRUE).pt = VP8_90000_PT
<1>1. PICK r \in Info[d].payloads : r.codec = "red"
  BY NumbersAre
<1>2. PICK i \in 1..Len(d) : IsKnownRtpmap(d[i]) /\ d[i].codec = "red"
  BY <1>1, EntryIsLine DEF MayPublish
<1>3. PICK j \in 1..Len(d) : IsKnownRtpmap(d[j]) /\ d[j].codec = "VP8"
  BY <1>2 DEF MayPublish
<1>4. PICK q \in Info[d].payloads : q.codec = "VP8"
  <2>1. InPlace(Info[d], d, Len(d))
    BY InfoIs DEF LoopInv, MayPublish
  <2>2. RtpMap(d[j].pt, d[j].codec, Medium(d[j].codec)) \in Info[d].payloads
    BY <1>3, <2>1 DEF InPlace
  <2> QED
    BY <1>3, <2>2 DEF RtpMap
<1>5. RtpmapLine(q.pt, q.codec) \in Numbers(d, "VP8")
  BY <1>4, EntryIsLine, NumbersAre DEF MayPublish
<1>6. ASSUME NEW l \in Numbers(d, "VP8") PROVE l.pt = VP8_90000_PT
  <2>1. PICK p \in Info[d].payloads : p.codec = "VP8" /\ l = RtpmapLine(p.pt, p.codec)
    BY NumbersAre
  <2>2. l.pt = p.pt
    BY <2>1 DEF RtpmapLine
  <2>3. PICK k \in 1..Len(d) : IsKnownRtpmap(d[k]) /\ p.pt = d[k].pt /\ p.codec = d[k].codec
    BY EntryIsLine DEF MayPublish
  <2> QED
    BY <1>2, <2>1, <2>2, <2>3 DEF MayPublish
<1> QED
  BY <1>5, <1>6

\* A subscriber with the internal numbers changes nothing in the shared buffer.
LEMMA Identity ==
  ASSUME NEW d \in Subscribed \cup {<<>>}, MaySubscribe(d)
  PROVE  /\ \A r \in Info[d].payloads :
              r.pt = InternalPT(r.codec) /\ Known(r.codec) /\ r.pt \in DOMAIN Info[d].inOut
         /\ \A k \in DOMAIN Info[d].inOut : Info[d].inOut[k] = k
         /\ \A k : Translate(Info[d].inOut, k) = k
<1>1. ASSUME NEW r \in Info[d].payloads
      PROVE  r.pt = InternalPT(r.codec) /\ Known(r.codec)
  <2>1. PICK j \in 1..Len(d) : IsKnownRtpmap(d[j]) /\ r.pt = d[j].pt /\ r.codec = d[j].codec
    BY EntryIsLine DEF MaySubscribe
  <2> QED
    BY <2>1 DEF MaySubscribe, NumbersInternally, IsKnownRtpmap
<1>2. MapsMatch(Info[d])
  BY InfoIs DEF LoopInv
<1>3. \A r \in Info[d].payloads : r.pt \in DOMAIN Info[d].inOut
  BY <1>1, <1>2 DEF MapsMatch
<1>4. \A k \in DOMAIN Info[d].inOut : Info[d].inOut[k] = k
  BY <1>1, <1>2 DEF MapsMatch
<1>5. \A k : Translate(Info[d].inOut, k) = k
  BY <1>4 DEF Translate, Lookup
<1> QED
  BY <1>1, <1>3, <1>4, <1>5

\* A codec of payloadVector_ is the one that its number stands for.
LEMMA EntryOf ==
  ASSUME NEW d \in Subscribed \cup {<<>>}, MaySubscribe(d), NEW c, Known(c), Knows(d, c)
  PROVE  /\ \E r \in Info[d].payloads : r.codec = c /\ r.pt = InternalPT(c)
         /\ Means(d, InternalPT(c)) = {c}
<1>1. PICK l \in Numbers(d, c) : TRUE
  BY DEF Knows
<1>2. PICK r \in Info[d].payloads : /\ r.medium \in Described(Info[d]) /\ r.codec = c
                                    /\ l = RtpmapLine(r.pt, r.codec)
  BY NumbersAre
<1>3. r.pt = InternalPT(c)
  BY <1>2, Identity
<1>4. l.pt = InternalPT(c) /\ l.codec = c
  BY <1>2, <1>3 DEF RtpmapLine
<1>5. c \in Means(d, InternalPT(c))
  BY <1>4 DEF Means, Numbers
<1>6. ASSUME NEW e \in Means(d, InternalPT(c)) PROVE e = c
  <2>1. PICK k \in GetSdp(Info[d], Both(NoSsrc)) : k.kind = "rtpmap" /\ k.pt = InternalPT(c) /\ k.codec = e
    BY DEF Means
  <2>2. PICK q \in Info[d].payloads : k = RtpmapLine(q.pt, q.codec)
    BY <2>1, RtpmapsOfAnswer
  <2>3. q.pt = InternalPT(c) /\ q.codec = e
    BY <2>1, <2>2 DEF RtpmapLine
  <2>4. q.pt = InternalPT(e) /\ Known(e)
    BY <2>3, Identity
  <2> QED
    BY <2>3, <2>4, Table
<1> QED
  BY <1>2, <1>3, <1>5, <1>6

\* supportPayloadType(RED_90000_PT) tells whether the peer was answered RED.
LEMMA SupportsRed ==
  ASSUME NEW d \in Subscribed \cup {<<>>}, MaySubscribe(d), NEW k
  PROVE  /\ SupportPayloadType(Looked(Info[d], k), RED_90000_PT) <=> Knows(d, "red")
         /\ Knows(d, "VP8") => Lookup(Looked(Info[d], k).inOut, VP8_90000_PT) = VP8_90000_PT
<1> DEFINE info == Looked(Info[d], k)
<1>1. /\ info.inOut = Assign(Info[d].inOut, k, Lookup(Info[d].inOut, k))
      /\ info.payloads = Info[d].payloads
  BY InfoIs DEF Looked, IsInfo
<1>2. ASSUME NEW r \in Info[d].payloads
      PROVE  r.pt \in DOMAIN info.inOut /\ Lookup(info.inOut, r.pt) = r.pt
  BY <1>1, Identity DEF Lookup, Assign
<1> HIDE DEF info
<1>3. ASSUME Knows(d, "red") PROVE SupportPayloadType(info, RED_90000_PT)
  <2>1. PICK r \in Info[d].payloads : r.pt = RED_90000_PT
    BY <1>3, EntryOf, RedAndVp8
  <2> QED
    BY <1>1, <1>2, <2>1 DEF SupportPayloadType
<1>4. ASSUME SupportPayloadType(info, RED_90000_PT) PROVE Knows(d, "red")
  <2>1. PICK r \in Info[d].payloads : Lookup(info.inOut, r.pt) = RED_90000_PT
    BY <1>1, <1>4 DEF SupportPayloadType
  <2>2. r.codec = "red"
    BY <1>2, <2>1, Identity, RedAndVp8, Table
  <2>3. RtpmapLine(r.pt, r.codec) \in Numbers(d, "red")
    BY <2>2, EntryIsLine, NumbersAre DEF MaySubscribe
  <2> QED
    BY <2>3 DEF Knows
<1>5. ASSUME Knows(d, "VP8") PROVE Lookup(info.inOut, VP8_90000_PT) = VP8_90000_PT
  <2>1. PICK r \in Info[d].payloads : r.pt = VP8_90000_PT
    BY <1>5, EntryOf, RedAndVp8
  <2> QED
    BY <1>2, <2>1
<1> QED
  BY <1>3, <1>4, <1>5 DEF info

\* The packet's number is the internal one while it is delivered, and each copy
\* has the internal number of what is in it, which its peer uses too.
PayInv ==
  /\ TypeOK
  /\ it # End => /\ published # <<>> /\ Numbers(published, codec) # {}
                 /\ buf = InternalPT(codec)
  /\ out.peer # End =>
       /\ conn[out.peer] # "new"
       /\ LET d == subscribed[out.peer]
              c == IF out.codec = "red" /\ ~Knows(d, "red") THEN "VP8" ELSE out.codec
          IN Knows(d, c) => out.pt = InternalPT(c)

LEMMA PayInit == Init => PayInv
BY TypeInit DEF Init, PayInv, Nothing

\* The application changes neither the packet nor what a packet was sent by: the
\* publisher negotiates before there are packets, a subscriber before it gets one.
LEMMA PayApp ==
  ASSUME PayInv, TypeOK', App
  PROVE  PayInv'
<1>1. UNCHANGED <<it, buf, codec, out>>
  BY DEF App, PublisherSdp, UpdateSsrcs, Insert, Store, Unlink, Erase, CloseAll, CloseSource, AddSubscriber,
         RemoveSubscriber, SubscriberSdp, packet
<1>2. published # <<>> => published' = published
  BY DEF App, PublisherSdp, UpdateSsrcs, Insert, Store, Unlink, Erase, CloseAll, CloseSource, AddSubscriber,
         RemoveSubscriber, SubscriberSdp
<1>3. \A s \in Peers : conn[s] # "new" => conn'[s] # "new" /\ subscribed'[s] = subscribed[s]
  <2> TAKE s \in Peers
  <2>1. ASSUME UNCHANGED <<conn, subscribed>> PROVE conn[s] # "new" => conn'[s] # "new" /\ subscribed'[s] = subscribed[s]
    BY <2>1
  <2>2. ASSUME NEW q \in Peers, NEW d \in Subscribed, SubscriberSdp(q, d)
        PROVE  conn[s] # "new" => conn'[s] # "new" /\ subscribed'[s] = subscribed[s]
    BY <2>2 DEF SubscriberSdp, PayInv, TypeOK
  <2>3. ASSUME (\E q \in Peers : RemoveSubscriber(q)) \/ CloseAll
        PROVE  conn[s] # "new" => conn'[s] # "new" /\ subscribed'[s] = subscribed[s]
    BY <2>3 DEF RemoveSubscriber, CloseAll, PayInv, TypeOK
  <2> QED
    BY <2>1, <2>2, <2>3 DEF App, PublisherSdp, UpdateSsrcs, Insert, Store, Unlink, Erase, CloseSource, AddSubscriber
<1>4. out.peer # End => out.peer \in Peers
  BY DEF PayInv, TypeOK
<1> QED
  BY <1>1, <1>2, <1>3, <1>4 DEF PayInv

\* The packet arrives with its peer's number, and leaves with the internal one.
LEMMA PayReceive ==
  ASSUME PayInv, TypeOK', NEW c \in Codecs, Receive(c), \A d \in Published : MayPublish(d)
  PROVE  PayInv'
<1>1. published \in Published /\ published' = published /\ codec' = c /\ out'.peer = End
  BY DEF Receive, PayInv, TypeOK, Nothing
<1>2. PICK number \in Numbers(published, c) :
        buf' = Translate(Info[published].outIn, number.pt)
  BY DEF Receive
<1>3. buf' = InternalPT(c)
  BY <1>1, <1>2, Internalised DEF Translate
<1> QED
  BY <1>1, <1>2, <1>3 DEF PayInv, Receive

\* Each subscriber leaves the number as it is, and sends what its peer expects.
LEMMA PayDeliver ==
  ASSUME PayInv, TravInv, TypeOK', Deliver,
         \A d \in Published : MayPublish(d), \A d \in Subscribed : MaySubscribe(d)
  PROVE  PayInv'
<1> DEFINE d == subscribed[it]
<1>1. /\ it \in Peers /\ it # End /\ d \in Subscribed \cup {<<>>}
      /\ buf' = Translate(Info[d].inOut, buf)
      /\ UNCHANGED <<published, subscribed, conn, codec>>
      /\ \/ out' = out
         \/ /\ conn[it] # "new" /\ out'.peer = it /\ out'.codec = codec
            /\ out'.pt = Sent(Looked(Info[d], buf), buf')
  BY Served1, PeersAssumption DEF PayInv, config, End
<1>2. MaySubscribe(d)
  BY <1>1, NoDescription DEF MaySubscribe, NumbersInternally
<1>3. buf' = buf
  BY <1>1, <1>2, Identity
<1>4. /\ published \in Published /\ Numbers(published, codec) # {}
      /\ buf = InternalPT(codec) /\ codec \in Codecs
  BY <1>1 DEF PayInv, TypeOK
<1> HIDE DEF d
<1>5. ASSUME NEW c, c = IF codec = "red" /\ ~Knows(d, "red") THEN "VP8" ELSE codec, Knows(d, c)
      PROVE  Sent(Looked(Info[d], buf), buf) = InternalPT(c)
  <2>1. SupportPayloadType(Looked(Info[d], buf), RED_90000_PT) <=> Knows(d, "red")
    BY <1>1, <1>2, SupportsRed
  <2>2. CASE codec = "red" /\ ~Knows(d, "red")
    <3>1. c = "VP8" /\ buf = RED_90000_PT /\ Medium(codec) = "video"
      BY <1>4, <1>5, <2>2, RedAndVp8
    <3>2. (CHOOSE l \in Numbers(published, "VP8") : TRUE).pt = VP8_90000_PT
      BY <1>4, <2>2, BlockIsInternal
    <3>3. Lookup(Looked(Info[d], buf).inOut, VP8_90000_PT) = VP8_90000_PT
      BY <1>1, <1>2, <1>5, <3>1, SupportsRed
    <3>4. Sent(Looked(Info[d], buf), buf) = VP8_90000_PT
      BY <2>1, <2>2, <3>1, <3>2, <3>3 DEF Sent
    <3> QED
      BY <3>1, <3>4, RedAndVp8
  <2>3. CASE codec = "red" /\ Knows(d, "red")
    BY <1>4, <1>5, <2>1, <2>3 DEF Sent
  <2>4. CASE codec # "red"
    <3>1. buf # RED_90000_PT
      BY <1>4, <2>4, CodecsAssumption, RedAndVp8, Table
    <3> QED
      BY <1>4, <1>5, <2>4, <3>1 DEF Sent
  <2> QED
    BY <2>2, <2>3, <2>4
<1>6. CASE out' = out
  BY <1>1, <1>3, <1>4, <1>6 DEF PayInv
<1>7. CASE out' # out
  <2>1. subscribed'[out'.peer] = d /\ conn'[out'.peer] # "new" /\ out'.codec = codec
    BY <1>1, <1>7 DEF d
  <2>2. out'.pt = Sent(Looked(Info[d], buf), buf)
    BY <1>1, <1>3, <1>7
  <2> QED
    BY <1>1, <1>3, <1>4, <1>5, <2>1, <2>2 DEF PayInv
<1> QED
  BY <1>6, <1>7

\* Every step keeps it.
LEMMA PayStep ==
  ASSUME \A d \in Published : MayPublish(d), \A d \in Subscribed : MaySubscribe(d)
  PROVE  PayInv /\ TravInv /\ [Next]_vars => PayInv'
<1> SUFFICES ASSUME PayInv, TravInv, [Next]_vars PROVE PayInv'
  OBVIOUS
<1>1. TypeOK'
  BY TypeStep DEF PayInv
<1>2. CASE Stray
  BY <1>1, <1>2 DEF Stray, PayInv, config, TypeOK, End
<1>3. CASE UNCHANGED vars \/ Crash
  BY <1>1, <1>3 DEF Crash, PayInv, vars, config, packet
<1> QED
  BY <1>1, <1>2, <1>3, PayApp, PayReceive, PayDeliver DEF Next, Publisher

\* From peer to peer, through processSdp, the maps of both ends, the one buffer
\* that all subscribers rewrite and getSdp: where publishers and subscribers number
\* as MayPublish and MaySubscribe say, the peer of each subscriber finds in every
\* packet the codec that is in it, by its own numbers.
THEOREM OwnPayloadTypeTheorem ==
  ASSUME \A d \in Published : MayPublish(d), \A d \in Subscribed : MaySubscribe(d)
  PROVE  Spec => []OwnPayloadType
<1>1. PayInv => OwnPayloadType
  <2> SUFFICES ASSUME PayInv, out.peer # End,
                      NEW d, d = subscribed[out.peer],
                      NEW c, c = IF out.codec = "red" /\ ~Knows(d, "red") THEN "VP8" ELSE out.codec,
                      Knows(d, c)
               PROVE  Means(d, out.pt) = {c}
    BY DEF OwnPayloadType
  <2>1. d \in Subscribed \cup {<<>>} /\ out.codec \in Codecs /\ out.pt = InternalPT(c)
    BY DEF PayInv, TypeOK
  <2>2. MaySubscribe(d)
    BY <2>1, NoDescription DEF MaySubscribe, NumbersInternally
  <2>3. Known(c)
    BY <2>1, CodecsAssumption, RedAndVp8
  <2> QED
    BY <2>1, <2>2, <2>3, EntryOf
<1>2. PayInv /\ TravInv /\ [Next]_vars => PayInv'
  BY PayStep
<1> QED
  BY <1>1, <1>2, PayInit, TravInit, TravStep, PTL DEF Spec

=============================================================================
