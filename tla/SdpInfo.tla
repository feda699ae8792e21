------------------------------- MODULE SdpInfo -------------------------------
(***************************************************************************)
(* A session description and what processSdp makes of it: the media, the     *)
(* SSRCs and the maps between the payload types of the peer (external) and   *)
(* those used between connections (internal).  A description is a sequence   *)
(* of lines; the lines that concern ICE and keys are those of the offers in  *)
(* ConnectionSetup.  payloadVector_ is a set: nothing in the code depends on *)
(* the order of its entries.  No state.                                      *)
(***************************************************************************)
EXTENDS Naturals, SequencesExt

Media == {"video", "audio"}

VP8_90000_PT == 100
RED_90000_PT == 116

RtpMap(pt, codec, medium) == [pt |-> pt, codec |-> codec, medium |-> medium]

\* A codec is its name and clock rate.
internalPayloadVector_ ==
  { RtpMap(VP8_90000_PT, "VP8", "video"), RtpMap(117, "ulpfec", "video"),
    RtpMap(RED_90000_PT, "red", "video"), RtpMap(111, "opus", "audio"),
    RtpMap(103, "ISAC/16000", "audio"), RtpMap(104, "ISAC/32000", "audio"),
    RtpMap(0, "PCMU", "audio"), RtpMap(8, "PCMA", "audio"),
    RtpMap(13, "CN/8000", "audio"), RtpMap(105, "CN/16000", "audio"),
    RtpMap(106, "CN/32000", "audio"), RtpMap(107, "CN/48000", "audio"),
    RtpMap(126, "telephone-event", "audio") }

\* A codec of the table.
Known(codec) == \E r \in internalPayloadVector_ : r.codec = codec

InternalPT(codec) == (CHOOSE r \in internalPayloadVector_ : r.codec = codec).pt
Medium(codec)     == (CHOOSE r \in internalPayloadVector_ : r.codec = codec).medium

\* The lines.
GroupLine         == [kind |-> "group"]
MediaLine(m)      == [kind |-> "m", medium |-> m]
SsrcLine(x)       == [kind |-> "ssrc", ssrc |-> x]
RtpmapLine(pt, c) == [kind |-> "rtpmap", pt |-> pt, codec |-> c]

PTs == 0..127            \* seven bits of the RTP header

\* A description as the peers write them.
IsLine(line) ==
  \/ line.kind \in {"group", "ssrc"}
  \/ line.kind = "m" /\ line.medium \in Media
  \/ line.kind = "rtpmap" /\ line.pt \in PTs
IsDescription(lines) ==
  /\ Len(lines) \in Nat /\ DOMAIN lines = 1..Len(lines)
  /\ \A i \in 1..Len(lines) : IsLine(lines[i])

\* The a=rtpmap lines of the codecs of the table, and whether the i-th line
\* stands in a medium's section.
IsKnownRtpmap(line) == line.kind = "rtpmap" /\ Known(line.codec)
InSection(lines, i, m) ==
  \E j \in 1..i - 1 : /\ lines[j].kind = "m" /\ lines[j].medium = m
                      /\ \A k \in j + 1..i - 1 : lines[k].kind # "m"
InSections(lines) ==
  \A i \in 1..Len(lines) :
    IsKnownRtpmap(lines[i]) => InSection(lines, i, Medium(lines[i].codec))

\* How a description numbers them: no number is two codecs'; the internal ones.
NumbersOnce(lines) ==
  \A i, j \in 1..Len(lines) :
    IsKnownRtpmap(lines[i]) /\ IsKnownRtpmap(lines[j]) /\ lines[i].pt = lines[j].pt
      => lines[i].codec = lines[j].codec
NumbersInternally(lines) ==
  \A i \in 1..Len(lines) :
    IsKnownRtpmap(lines[i]) => lines[i].pt = InternalPT(lines[i].codec)
\* 0 is PCMU's, and PCMU's only: it also stands for "not in the map".
ZeroIsPcmu(lines) ==
  \A i \in 1..Len(lines) :
    IsKnownRtpmap(lines[i]) => (lines[i].pt = 0 <=> InternalPT(lines[i].codec) = 0)

NoSsrc  == "0"
NoMap   == [pt \in {} |-> 0]
NewInfo == [mtype |-> "other", isBundle |-> FALSE, has |-> {},
            ssrc |-> [m \in Media |-> NoSsrc],
            outIn |-> NoMap, inOut |-> NoMap, payloads |-> {}]

\* The value of m[k] of a std::map, 0 for a key it has not, and m[k] = v.
Lookup(map, k)    == IF k \in DOMAIN map THEN map[k] ELSE 0
Assign(map, k, v) == [j \in DOMAIN map \cup {k} |-> IF j = k THEN v ELSE map[j]]

\* Mutant: the marker bit, in the same byte, is carried along.
TranslateMarked(map, pt) == 128 + (IF Lookup(map, pt) # 0 THEN Lookup(map, pt) ELSE pt)

\* What a packet's payload type is replaced by: if( map[pt] != 0 ) pt = map[pt].
Translate(map, pt) == IF Lookup(map, pt) # 0 THEN Lookup(map, pt) ELSE pt

\* a=rtpmap: a codec of the table enters both maps, any other is left out.
ProcessRtpmap(info, line) ==
  IF Known(line.codec)
    THEN [info EXCEPT !.outIn = Assign(@, line.pt, InternalPT(line.codec)),
                      !.inOut = Assign(@, InternalPT(line.codec), line.pt),
                      !.payloads = @ \cup {RtpMap(line.pt, line.codec, info.mtype)}]
    ELSE info

\* One turn of processSdp's loop.
ProcessLine(info, line) ==
  CASE line.kind = "group"  -> [info EXCEPT !.isBundle = TRUE]
    [] line.kind = "m"      -> [info EXCEPT !.mtype = line.medium, !.has = @ \cup {line.medium}]
    [] line.kind = "ssrc"   -> IF info.mtype \in Media THEN [info EXCEPT !.ssrc[info.mtype] = line.ssrc]
                                                       ELSE info
    [] line.kind = "rtpmap" -> ProcessRtpmap(info, line)

ProcessSdp(lines) == FoldLeft(ProcessLine, NewInfo, lines)

\* SdpInfo::supportPayloadType.  The map counts a key that was only looked up.
Looked(info, k) == [info EXCEPT !.inOut = Assign(@, k, Lookup(@, k))]
SupportPayloadType(info, pt) ==
  /\ pt \in DOMAIN info.inOut
  /\ \E r \in info.payloads : Lookup(info.inOut, r.pt) = pt

\* Does the connection that got this description have a transport for m?
\* With a bundle everything goes through the video transport.
HasTransport(info, m) == (IF info.isBundle THEN "video" ELSE m) \in info.has

\* addDesc: the media the answer describes.
Described(info) == {m \in Media : HasTransport(info, m)}

\* getSdp's part of one medium: the payload types of the remote description.
Section(info, m, ssrc) ==
  {MediaLine(m), SsrcLine(ssrc[m])}
    \cup {RtpmapLine(r.pt, r.codec) : r \in {q \in info.payloads : q.medium = m}}

\* The answer to a description, the set of its lines.
GetSdp(info, ssrc) ==
  (IF info.isBundle THEN {GroupLine} ELSE {})
    \cup UNION {Section(info, m, ssrc) : m \in Described(info)}

=============================================================================
