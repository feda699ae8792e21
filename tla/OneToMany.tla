------------------------------- MODULE OneToMany -------------------------------
(***************************************************************************)
(* OneToManyProcessor: the publisher's nice threads hand every packet to      *)
(* every subscriber, in ONE buffer that each of them rewrites (payload type,  *)
(* SSRC) before its transport copies it; the application's thread adds and   *)
(* removes subscribers and negotiates meanwhile, with no lock on the map of  *)
(* subscribers.  The publisher's writeMutex_ lets one packet through at a    *)
(* time, audio or video.  A packet is its codec and the payload type in its  *)
(* header; a RED packet has a VP8 block inside.                              *)
(*                                                                          *)
(* External: the peers, and the application that owns the connections.       *)
(***************************************************************************)
EXTENDS SdpInfo

CONSTANTS
  Peers,            \* the subscribers' ids, in the order of std::map
  Published,        \* descriptions the publisher may be given
  Subscribed,       \* descriptions a subscriber may be given
  Codecs            \* the codecs of the packets

Garbage == "garbage"     \* an SSRC before it is set
Learned == "learned"     \* read from the first packet

\* A traversal in the order of the keys has a first one to go to.
ASSUME PeersAssumption ==
  /\ Peers \subseteq Nat \ {0}
  /\ \A S \in SUBSET Peers : S # {} => \E first \in S : \A s \in S : first <= s
ASSUME CodecsAssumption == "VP8" \in Codecs /\ \A c \in Codecs : Known(c)
ASSUME DescriptionsAssumption == \A d \in Published \cup Subscribed : IsDescription(d)

Ssrcs(descriptions) == {ProcessSdp(d).ssrc[m] : d \in descriptions, m \in Media}
SSRCs == Ssrcs(Published) \cup {Garbage, Learned}
End   == 0                       \* subscribers.end()

VARIABLES
  src,          \* the publisher's videoSourceSSRC_, audioSourceSSRC_
  published,    \* its remote description
  sink,         \* each subscriber's videoSinkSSRC_, audioSinkSSRC_
  subscribed,   \* each subscriber's remote description
  conn,         \* each subscriber's connection
  subscribers,  \* the keys of the map, but one that is being entered or erased
  app,          \* the application's thread: an operation and its peer
  it,           \* the iterator of deliver*Data, End between packets
  buf,          \* the payload type in the shared buffer
  codec,        \* what the packet is
  due,          \* history: subscribers since the packet arrived
  got,          \* history: who was handed the packet
  twice,        \* history: somebody was handed it again
  strayed,      \* history: the map was relinked under the iterator
  out           \* history: the last copy of the packet a transport was given

config  == <<src, published, sink, subscribed, conn, subscribers, app>>
packet  == <<it, buf, codec, due, got, twice, strayed, out>>
vars    == <<config, packet>>

Both(x) == [m \in Media |-> x]

\* Constant, so that no description is processed twice.
Info == [d \in Published \cup Subscribed \cup {<<>>} |-> ProcessSdp(d)]

Idle    == [op |-> "idle", peer |-> End]
Nothing == [peer |-> End, codec |-> "VP8", pt |-> 0, ssrc |-> Garbage]

TypeOK ==
  /\ src \in [Media -> SSRCs] /\ sink \in [Peers -> [Media -> SSRCs]]
  /\ published \in Published \cup {<<>>}
  /\ subscribed \in [Peers -> Subscribed \cup {<<>>}]
  /\ conn \in [Peers -> {"new", "up", "closed"}]
  /\ subscribers \subseteq Peers /\ due \subseteq Peers /\ got \subseteq Peers
  /\ app \in [op : {"idle", "link", "assign", "remove", "unlink", "update",
                    "closing", "closed", "crashed"}, peer : Peers \cup {End}]
  /\ it \in Peers \cup {End}
  /\ buf \in PTs /\ codec \in Codecs
  /\ strayed \in BOOLEAN /\ twice \in BOOLEAN
  /\ out \in [peer : Peers \cup {End}, codec : Codecs, pt : PTs, ssrc : SSRCs]

Init ==
  /\ src = Both(Garbage) /\ published = <<>>
  /\ sink = [s \in Peers |-> Both(Garbage)]
  /\ subscribed = [s \in Peers |-> <<>>]
  /\ conn = [s \in Peers |-> "new"]
  /\ subscribers = {} /\ due = {}
  /\ app = Idle
  /\ it = End /\ buf = 0 /\ codec = "VP8"
  /\ got = {} /\ twice = FALSE /\ strayed = FALSE
  /\ out = Nothing

-----------------------------------------------------------------------------
(* The application's thread                                                  *)

\* The publisher's setRemoteSdp: its SSRCs first ...
PublisherSdp(d) ==
  /\ app = Idle /\ published = <<>>
  /\ published' = d
  /\ src' = Info[d].ssrc
  /\ app' = [op |-> "update", peer |-> End]
  /\ UNCHANGED <<sink, subscribed, conn, subscribers, packet>>

\* Mutant: the subscribers keep the SSRCs they were given when they were added.
KeepSsrcs ==
  /\ app.op = "update"
  /\ app' = Idle
  /\ UNCHANGED <<src, published, sink, subscribed, conn, subscribers, packet>>

\* ... and muxer_->updateSsrcs() at its end.
UpdateSsrcs ==
  /\ app.op = "update"
  /\ sink' = [s \in Peers |-> IF s \in subscribers THEN src ELSE sink[s]]
  /\ app' = Idle
  /\ UNCHANGED <<src, published, subscribed, conn, subscribers, packet>>

\* A subscriber's own setRemoteSdp, before or after it is added.
SubscriberSdp(s, d) ==
  /\ app = Idle /\ conn[s] = "new"
  /\ conn' = [conn EXCEPT ![s] = "up"]
  /\ subscribed' = [subscribed EXCEPT ![s] = d]
  /\ UNCHANGED <<src, published, sink, subscribers, app, packet>>

\* addSubscriber copies the publisher's SSRCs; then, in subscribers[peerId] =
\* webRtcConn, operator[] links a node into the tree and rotates it ...
AddSubscriber(s) ==
  /\ app = Idle
  /\ s \notin subscribers /\ conn[s] # "closed"
  /\ sink' = [sink EXCEPT ![s] = src]
  /\ app' = [op |-> "link", peer |-> s]
  /\ UNCHANGED <<src, published, subscribed, conn, subscribers, packet>>

\* ... which is there then, with a NULL sink ...
Insert ==
  /\ app.op = "link"
  /\ app' = [op |-> "assign", peer |-> app.peer]
  /\ UNCHANGED <<src, published, sink, subscribed, conn, subscribers, packet>>

\* ... until the assignment.
Store ==
  /\ app.op = "assign"
  /\ subscribers' = subscribers \cup {app.peer}
  /\ app' = Idle
  /\ UNCHANGED <<src, published, sink, subscribed, conn, packet>>

\* removeSubscriber closes the connection ...
RemoveSubscriber(s) ==
  /\ app = Idle
  /\ s \in subscribers
  /\ conn' = [conn EXCEPT ![s] = "closed"]
  /\ app' = [op |-> "remove", peer |-> s]
  /\ UNCHANGED <<src, published, sink, subscribed, subscribers, packet>>

\* ... and then erases it from the map: its node is unlinked, the tree rotated ...
Unlink ==
  /\ app.op = "remove"
  /\ subscribers' = subscribers \ {app.peer}
  /\ due' = due \ {app.peer}
  /\ app' = [op |-> "unlink", peer |-> app.peer]
  /\ UNCHANGED <<src, published, sink, subscribed, conn, it, buf, codec, got, twice, strayed, out>>

\* ... and deleted, wherever the iterator is.
Erase ==
  /\ app.op = "unlink"
  /\ strayed' = (strayed \/ it = app.peer)
  /\ app' = Idle
  /\ UNCHANGED <<src, published, sink, subscribed, conn, subscribers, it, buf, codec, due, got, twice, out>>

\* closeAll: every subscriber, which stays in the map ...
CloseAll ==
  /\ app = Idle
  /\ conn' = [s \in Peers |-> IF s \in subscribers THEN "closed" ELSE conn[s]]
  /\ app' = [op |-> "closing", peer |-> End]
  /\ UNCHANGED <<src, published, sink, subscribed, subscribers, packet>>

\* ... then the publisher, whose close() joins its nice thread.
CloseSource ==
  /\ app.op = "closing"
  /\ it = End
  /\ app' = [op |-> "closed", peer |-> End]
  /\ UNCHANGED <<src, published, sink, subscribed, conn, subscribers, packet>>

-----------------------------------------------------------------------------
(* The publisher's nice thread                                               *)

\* The entry that the application's thread is linking or unlinking, with no lock.
Entry == IF app.op \in {"link", "assign", "unlink"} THEN {app.peer} ELSE {}

\* The trees that the publisher's thread may find: with that entry, or without it.
Trees == {subscribers \cup S : S \in IF app.op = "assign" THEN {Entry} ELSE {{}, Entry}}

\* Two nodes and the entry: while it is linked or unlinked the tree may be rotated.
Rotates == app.op \in {"link", "unlink"} /\ \E p, q \in subscribers : p # q

\* Mutant: the iterator does not pass s.
FollowingOrSame(tree, s) ==
  LET rest == {q \in tree : q >= s}
  IN IF rest = {} THEN End ELSE CHOOSE q \in rest : \A r \in rest : q <= r

\* The first node behind s.
Following(tree, s) ==
  LET rest == {q \in tree : q > s}
  IN IF rest = {} THEN End ELSE CHOOSE q \in rest : \A r \in rest : q <= r

\* ++ reads the links one by one: in a tree that is being rotated it may skip nodes,
\* or go back.
Increment ==
  \/ /\ \E tree \in Trees : it' = Following(tree, it)
     /\ UNCHANGED strayed
  \/ /\ Rotates
     /\ it' \in subscribers \cup Entry \cup {End}
     /\ strayed' = TRUE

\* The numbers the publisher's peer gives its codecs, in the answer it was sent.
Numbers(d, c) == {l \in GetSdp(Info[d], Both(NoSsrc)) : l.kind = "rtpmap" /\ l.codec = c}

\* onTransportData on a packet of the publisher, which is up once its setRemoteSdp
\* has returned.  In a bundle the SSRC tells the medium, and a packet of an unknown
\* one is dropped; otherwise the transport tells it, and an unknown SSRC is learned.
\* outInPTMap makes the payload type internal.
Receive(c) ==
  /\ published # <<>> /\ app.op \notin {"update", "closed", "crashed"}
  /\ it = End
  /\ Info[published].isBundle => src[Medium(c)] # NoSsrc
  /\ src' = [src EXCEPT ![Medium(c)] = IF @ = NoSsrc THEN Learned ELSE @]
  /\ \E tree \in Trees : it' = Following(tree, End)
  /\ codec' = c
  /\ \E number \in Numbers(published, c) :
       buf' = Translate(Info[published].outIn, number.pt)
  /\ due' = subscribers
  /\ got' = {} /\ twice' = FALSE /\ strayed' = FALSE
  /\ out' = Nothing
  /\ UNCHANGED <<published, sink, subscribed, conn, subscribers, app>>

\* What is sent for a packet translated to pt: a subscriber without RED is given
\* the VP8 block inside, in the connection's own deliverMediaBuffer_.  The block
\* still has the number it has in the publisher's description.
Sent(info, pt) ==
  IF Medium(codec) = "video" /\ pt = RED_90000_PT /\ ~SupportPayloadType(info, pt)
    THEN Lookup(info.inOut, (CHOOSE l \in Numbers(published, "VP8") : TRUE).pt)
    ELSE pt

\* writeSsrc, and the write() of the subscriber's transport, which copies.
Hand(pt) == out' = [peer |-> it, codec |-> codec, pt |-> pt, ssrc |-> sink[it][Medium(codec)]]

\* The iterator is at a node whose sink has been stored.
HasSink == it # End /\ (it \in subscribers \/ (app.op = "unlink" /\ it = app.peer))

Reaches   == conn[it] = "up" /\ HasTransport(Info[subscribed[it]], Medium(codec))
MayHand   == Reaches \/ conn[it] = "closed"
MayHandNo == ~Reaches

\* Mutant: the block inside RED is taken out in the shared buffer.
DeliverInPlace ==
  /\ HasSink
  /\ LET info == Info[subscribed[it]]
         pt   == Sent(Looked(info, buf), Translate(info.inOut, buf))
     IN /\ buf' = IF pt = Translate(info.inOut, buf) THEN pt ELSE VP8_90000_PT
        /\ \/ MayHand /\ Hand(pt)
           \/ MayHandNo /\ out' = out
  /\ got' = got \cup {it}
  /\ twice' = (twice \/ it \in got)
  /\ Increment
  /\ UNCHANGED <<config, codec, due>>

\* The subscriber's deliverVideoData or deliverAudioData, and the iterator's ++.  A
\* subscriber without a transport (a new one) rewrites the buffer and sends nothing;
\* a closed one, whose pointers outlive what they pointed to, may do either.
Deliver ==
  /\ HasSink
  /\ LET info == Info[subscribed[it]]
         pt   == Translate(info.inOut, buf)
     IN /\ buf' = pt
        /\ \/ MayHand /\ Hand(Sent(Looked(info, buf), pt))
           \/ MayHandNo /\ out' = out
  /\ got' = got \cup {it}
  /\ twice' = (twice \/ it \in got)
  /\ Increment
  /\ UNCHANGED <<config, codec, due>>

\* The iterator is at a node whose sink is still NULL: the process ends.
Crash ==
  /\ app.op \in {"link", "assign"} /\ it = app.peer
  /\ app' = [op |-> "crashed", peer |-> End]
  /\ UNCHANGED <<src, published, sink, subscribed, conn, subscribers, packet>>

\* The iterator's node was erased: the traversal goes on anywhere, or ends.
Stray ==
  /\ it \notin subscribers \cup Entry \cup {End} /\ app.op # "crashed"
  /\ it' \in subscribers \cup Entry \cup {End}
  /\ UNCHANGED <<config, buf, codec, due, got, twice, strayed, out>>

-----------------------------------------------------------------------------
\* What the publisher's deliverFeedback takes a report on SSRC ssrc for.
Taken(ssrc) == IF ssrc = src["video"] THEN "video" ELSE "audio"

App ==
  \/ \E d \in Published : PublisherSdp(d)
  \/ UpdateSsrcs \/ Insert \/ Store \/ Unlink \/ Erase \/ CloseAll \/ CloseSource
  \/ \E s \in Peers : AddSubscriber(s) \/ RemoveSubscriber(s) \/ \E d \in Subscribed : SubscriberSdp(s, d)

Publisher == (\E c \in Codecs : Receive(c)) \/ Deliver \/ Crash \/ Stray

Next == App \/ Publisher

Spec == Init /\ [][Next]_vars

-----------------------------------------------------------------------------
(* Properties                                                                *)

\* What the peer of a subscriber finds in a packet, by the answer it was sent.
Means(d, pt) == {l.codec : l \in {k \in GetSdp(Info[d], Both(NoSsrc)) :
                                    k.kind = "rtpmap" /\ k.pt = pt}}
Knows(d, c) == Numbers(d, c) # {}

\* The publishers and subscribers that OwnPayloadType holds for: a publisher may
\* number its codecs as it likes, PCMU keeping its 0, but has VP8 at its internal
\* number where it has RED; a subscriber uses the internal numbers.
MayPublish(d) ==
  LET Has(i, c) == IsKnownRtpmap(d[i]) /\ d[i].codec = c
  IN /\ InSections(d) /\ NumbersOnce(d)
     /\ \A i \in 1..Len(d) : IsKnownRtpmap(d[i]) /\ InternalPT(d[i].codec) = 0 => d[i].pt = 0
     /\ (\E i \in 1..Len(d) : Has(i, "red")) =>
          /\ \E i \in 1..Len(d) : Has(i, "VP8")
          /\ \A i \in 1..Len(d) : Has(i, "VP8") => d[i].pt = VP8_90000_PT
MaySubscribe(d) == InSections(d) /\ NumbersInternally(d)

\* From peer to peer: whatever numbers the publisher's peer uses, a subscriber's
\* peer finds in every packet the codec that is in it (the block inside, if it
\* has no RED), by its own numbers and whoever was served from the same buffer
\* before it: processSdp, the maps of both ends, getSdp and the deliveries.
OwnPayloadType ==
  out.peer # End =>
    LET d == subscribed[out.peer]
        c == IF out.codec = "red" /\ ~Knows(d, "red") THEN "VP8" ELSE out.codec
    IN Knows(d, c) => Means(d, out.pt) = {c}

\* A packet is handed exactly once to every subscriber that was there all the
\* time, and never twice to one, while others come and go between the steps of the
\* traversal: unless a step of the iterator falls into a rotation of the tree, or
\* its node is deleted under it.
EachOnce ==
  ~strayed => ~twice /\ (it = End => due \subseteq got)

\* Nobody who was there all the time is left out (OneToManyProcessor.h: "to every
\* subscriber"), rotated or not.
EverySubscriber == it = End => due \subseteq got

\* A report on the packet, by the peer of the subscriber it was sent to, is taken
\* for the medium it is about: the SSRC the packet went out with is the one the
\* publisher compares with, also for those who subscribed before the publisher
\* negotiated, whom updateSsrcs repairs.
FeedbackIsRecognised == out.peer # End => Taken(out.ssrc) = Medium(out.codec)

=============================================================================
