---------------------------- MODULE SdpInfoProofs ----------------------------
(***************************************************************************)
(* What processSdp's loop computes, for descriptions of any length: the       *)
(* facts about the result hold of every turn.  Induction is on the first turn *)
(* that would break one: a set of numbers has a least element.               *)
(***************************************************************************)
EXTENDS SdpInfo, TLAPS

-----------------------------------------------------------------------------
(* The loop                                                                  *)

Loop == INSTANCE LeftFold WITH Base <- NewInfo, Step <- ProcessLine

\* processSdp's loop: info[i] is what it has after i lines.
LEMMA ProcessSdpLoop ==
  ASSUME NEW lines, NEW n \in Nat, DOMAIN lines = 1..n
  PROVE  \E info : /\ info[0] = NewInfo
                   /\ \A i \in 1..n : info[i] = ProcessLine(info[i - 1], lines[i])
                   /\ ProcessSdp(lines) = info[n]
<1>1. Loop!Fold(lines) = ProcessSdp(lines)
  BY DEF ProcessSdp, FoldLeft, Loop!Fold, Loop!FoldLeft, MapThenFoldSet, Loop!MapThenFoldSet, Max, Loop!Max
<1>2. \E info : /\ info[0] = NewInfo
                /\ \A i \in 1..n : info[i] = ProcessLine(info[i - 1], lines[i])
                /\ Loop!Fold(lines) = info[n]
  BY Loop!FoldLoop
<1> QED
  BY <1>1, <1>2

-----------------------------------------------------------------------------
(* One turn                                                                  *)

\* The table gives every codec a payload type of its own, and its medium.
LEMMA Table ==
  /\ \A c : Known(c) => InternalPT(c) \in PTs /\ Medium(c) \in Media
  /\ \A c, d : Known(c) /\ Known(d) /\ InternalPT(c) = InternalPT(d) => c = d
<1>1. ASSUME NEW c, Known(c)
      PROVE  \E r \in internalPayloadVector_ : r.codec = c /\ InternalPT(c) = r.pt /\ Medium(c) = r.medium
  BY <1>1 DEF Known, InternalPT, Medium
<1>2. \A r \in internalPayloadVector_ : r.pt \in PTs /\ r.medium \in Media
  BY DEF internalPayloadVector_, RtpMap, PTs, Media, VP8_90000_PT, RED_90000_PT
<1>3. \A r, q \in internalPayloadVector_ : r.pt = q.pt => r.codec = q.codec
  BY DEF internalPayloadVector_, RtpMap, VP8_90000_PT, RED_90000_PT
<1> QED
  BY <1>1, <1>2, <1>3

IsInfo(info) ==
  /\ info = [mtype |-> info.mtype, isBundle |-> info.isBundle, has |-> info.has, ssrc |-> info.ssrc,
             outIn |-> info.outIn, inOut |-> info.inOut, payloads |-> info.payloads]
  /\ info.mtype \in Media \cup {"other"}
  /\ info.has \subseteq Media
  /\ info.ssrc = [m \in Media |-> info.ssrc[m]]
  /\ \A k \in DOMAIN info.outIn : info.outIn[k] \in PTs
  /\ \A k \in DOMAIN info.inOut : info.inOut[k] \in PTs
  /\ \A r \in info.payloads : r = RtpMap(r.pt, r.codec, r.medium) /\ r.pt \in PTs /\ Known(r.codec)

\* Both maps speak of the codecs in payloadVector_, and of nothing else.
MapsMatch(info) ==
  /\ \A r \in info.payloads : r.pt \in DOMAIN info.outIn /\ InternalPT(r.codec) \in DOMAIN info.inOut
  /\ \A k \in DOMAIN info.outIn :
       \E r \in info.payloads : r.pt = k /\ info.outIn[k] = InternalPT(r.codec)
  /\ \A k \in DOMAIN info.inOut :
       \E r \in info.payloads : InternalPT(r.codec) = k /\ info.inOut[k] = r.pt

\* What a turn does with each kind of line.
LEMMA Turn ==
  ASSUME NEW info, NEW line, IsInfo(info), IsLine(line), NEW next, next = ProcessLine(info, line)
  PROVE  /\ IsInfo(next)
         /\ next.mtype = IF line.kind = "m" THEN line.medium ELSE info.mtype
         /\ next.has = info.has \cup (IF line.kind = "m" THEN {line.medium} ELSE {})
         /\ IF IsKnownRtpmap(line)
              THEN /\ next.outIn = Assign(info.outIn, line.pt, InternalPT(line.codec))
                   /\ next.inOut = Assign(info.inOut, InternalPT(line.codec), line.pt)
                   /\ next.payloads = info.payloads \cup {RtpMap(line.pt, line.codec, info.mtype)}
              ELSE next.outIn = info.outIn /\ next.inOut = info.inOut /\ next.payloads = info.payloads
<1>1. CASE line.kind = "group"
  <2>1. next = [info EXCEPT !.isBundle = TRUE]
    BY <1>1 DEF ProcessLine
  <2> QED
    BY <1>1, <2>1 DEF IsInfo, IsKnownRtpmap
<1>2. CASE line.kind = "m"
  <2>1. next = [info EXCEPT !.mtype = line.medium, !.has = @ \cup {line.medium}] /\ line.medium \in Media
    BY <1>2 DEF ProcessLine, IsLine
  <2>2. /\ next.mtype = line.medium /\ next.has = info.has \cup {line.medium} /\ next.ssrc = info.ssrc
        /\ next.outIn = info.outIn /\ next.inOut = info.inOut /\ next.payloads = info.payloads
        /\ next = [mtype |-> next.mtype, isBundle |-> next.isBundle, has |-> next.has, ssrc |-> next.ssrc,
                   outIn |-> next.outIn, inOut |-> next.inOut, payloads |-> next.payloads]
    BY <2>1 DEF IsInfo
  <2>3. IsInfo(next)
    BY <2>1, <2>2 DEF IsInfo
  <2> QED
    BY <1>2, <2>2, <2>3 DEF IsKnownRtpmap
<1>3. CASE line.kind = "ssrc"
  <2>1. next = info \/ (info.mtype \in Media /\ next = [info EXCEPT !.ssrc[info.mtype] = line.ssrc])
    BY <1>3 DEF ProcessLine
  <2> QED
    BY <1>3, <2>1 DEF IsInfo, IsKnownRtpmap
<1>4. CASE line.kind = "rtpmap" /\ ~Known(line.codec)
  <2>1. next = info
    BY <1>4 DEF ProcessLine, ProcessRtpmap
  <2> QED
    BY <1>4, <2>1 DEF IsKnownRtpmap
<1>5. CASE line.kind = "rtpmap" /\ Known(line.codec)
  <2> DEFINE out == Assign(info.outIn, line.pt, InternalPT(line.codec))
             in  == Assign(info.inOut, InternalPT(line.codec), line.pt)
             new == info.payloads \cup {RtpMap(line.pt, line.codec, info.mtype)}
  <2>1. next = [info EXCEPT !.outIn = out, !.inOut = in, !.payloads = new]
    BY <1>5 DEF ProcessLine, ProcessRtpmap
  <2>2. line.pt \in PTs /\ InternalPT(line.codec) \in PTs
    BY <1>5, Table DEF IsLine
  <2>3. \A k \in DOMAIN out : out[k] \in PTs
    BY <2>2 DEF Assign, IsInfo
  <2>4. \A k \in DOMAIN in : in[k] \in PTs
    BY <2>2 DEF Assign, IsInfo
  <2>5. \A r \in new : r = RtpMap(r.pt, r.codec, r.medium) /\ r.pt \in PTs /\ Known(r.codec)
    BY <1>5, <2>2 DEF IsInfo, RtpMap
  <2> HIDE DEF out, in, new
  <2>6. /\ next.outIn = out /\ next.inOut = in /\ next.payloads = new
        /\ next.mtype = info.mtype /\ next.has = info.has /\ next.ssrc = info.ssrc
        /\ next = [mtype |-> next.mtype, isBundle |-> next.isBundle, has |-> next.has, ssrc |-> next.ssrc,
                   outIn |-> next.outIn, inOut |-> next.inOut, payloads |-> next.payloads]
    BY <2>1 DEF IsInfo
  <2>7. IsInfo(next)
    BY <2>3, <2>4, <2>5, <2>6 DEF IsInfo
  <2> QED
    BY <1>5, <2>6, <2>7 DEF IsKnownRtpmap, out, in, new
<1> QED
  BY <1>1, <1>2, <1>3, <1>4, <1>5 DEF IsLine

\* An a=rtpmap line keeps both maps in step with payloadVector_.
LEMMA MapsTurn ==
  ASSUME NEW info, NEW line, IsInfo(info), MapsMatch(info), IsLine(line)
  PROVE  MapsMatch(ProcessLine(info, line))
<1> DEFINE next == ProcessLine(info, line)
<1>1. CASE ~IsKnownRtpmap(line)
  <2>1. next.outIn = info.outIn /\ next.inOut = info.inOut /\ next.payloads = info.payloads
    BY <1>1, Turn
  <2> QED
    BY <2>1 DEF MapsMatch
<1>2. CASE IsKnownRtpmap(line)
  <2> DEFINE new == RtpMap(line.pt, line.codec, info.mtype)
  <2>1. /\ next.outIn = Assign(info.outIn, line.pt, InternalPT(line.codec))
        /\ next.inOut = Assign(info.inOut, InternalPT(line.codec), line.pt)
        /\ next.payloads = info.payloads \cup {new}
    BY <1>2, Turn
  <2>2. new.pt = line.pt /\ new.codec = line.codec
    BY DEF RtpMap
  <2> HIDE DEF new, next
  <2>3. \A r \in next.payloads : r.pt \in DOMAIN next.outIn /\ InternalPT(r.codec) \in DOMAIN next.inOut
    BY <2>1, <2>2 DEF MapsMatch, Assign
  <2>4. ASSUME NEW k \in DOMAIN next.outIn
        PROVE  \E r \in next.payloads : r.pt = k /\ next.outIn[k] = InternalPT(r.codec)
    BY <2>1, <2>2 DEF MapsMatch, Assign
  <2>5. ASSUME NEW k \in DOMAIN next.inOut
        PROVE  \E r \in next.payloads : InternalPT(r.codec) = k /\ next.inOut[k] = r.pt
    BY <2>1, <2>2 DEF MapsMatch, Assign
  <2>6. MapsMatch(next)
    BY <2>3, <2>4, <2>5 DEF MapsMatch
  <2> QED
    BY <2>6 DEF next
<1> QED
  BY <1>1, <1>2

-----------------------------------------------------------------------------
(* The result                                                                *)

\* Every entry of payloadVector_ is one of the first i lines ...
FromLines(info, lines, i) ==
  \A r \in info.payloads :
    \E j \in 1..i : IsKnownRtpmap(lines[j]) /\ r.pt = lines[j].pt /\ r.codec = lines[j].codec

\* ... each of those lines has its entry, and each entry the medium of its codec.
InPlace(info, lines, i) ==
  /\ \A j \in 1..i : lines[j].kind = "m" =>
       /\ lines[j].medium \in info.has
       /\ (\A k \in j + 1..i : lines[k].kind # "m") => info.mtype = lines[j].medium
  /\ \A j \in 1..i : IsKnownRtpmap(lines[j]) =>
       RtpMap(lines[j].pt, lines[j].codec, Medium(lines[j].codec)) \in info.payloads
  /\ \A r \in info.payloads : r.medium = Medium(r.codec) /\ r.medium \in info.has

LoopInv(info, lines, i) ==
  /\ IsInfo(info) /\ MapsMatch(info) /\ FromLines(info, lines, i)
  /\ InSections(lines) => InPlace(info, lines, i)

LEMMA LoopInit ==
  ASSUME NEW lines
  PROVE  LoopInv(NewInfo, lines, 0)
<1>1. 1..0 = {}
  OBVIOUS
<1>2. IsInfo(NewInfo)
  BY DEF IsInfo, NewInfo, NoMap, NoSsrc
<1>3. MapsMatch(NewInfo)
  BY DEF MapsMatch, NewInfo, NoMap
<1>4. FromLines(NewInfo, lines, 0) /\ InPlace(NewInfo, lines, 0)
  BY <1>1 DEF FromLines, InPlace, NewInfo
<1> QED
  BY <1>2, <1>3, <1>4 DEF LoopInv

LEMMA LoopStep ==
  ASSUME NEW lines, IsDescription(lines), NEW i \in 1..Len(lines),
         NEW info, LoopInv(info, lines, i - 1),
         NEW next, next = ProcessLine(info, lines[i])
  PROVE  LoopInv(next, lines, i)
<1>1. /\ i \in Nat /\ i - 1 \in Nat /\ 1..i = (1..i - 1) \cup {i} /\ IsLine(lines[i])
  BY DEF IsDescription
<1> DEFINE line == lines[i]
           new == RtpMap(line.pt, line.codec, info.mtype)
<1>2. IsInfo(info) /\ MapsMatch(info) /\ FromLines(info, lines, i - 1)
  BY DEF LoopInv
<1>3. /\ IsInfo(next)
      /\ next.mtype = IF line.kind = "m" THEN line.medium ELSE info.mtype
      /\ next.has = info.has \cup (IF line.kind = "m" THEN {line.medium} ELSE {})
      /\ next.payloads = info.payloads \cup (IF IsKnownRtpmap(line) THEN {new} ELSE {})
  <2>1. /\ IsInfo(next)
        /\ next.mtype = IF line.kind = "m" THEN line.medium ELSE info.mtype
        /\ next.has = info.has \cup (IF line.kind = "m" THEN {line.medium} ELSE {})
        /\ IF IsKnownRtpmap(line) THEN next.payloads = info.payloads \cup {new}
                                  ELSE next.payloads = info.payloads
    BY <1>1, <1>2, Turn
  <2> QED
    BY <2>1
<1>4. MapsMatch(next)
  BY <1>1, <1>2, MapsTurn
<1>5. new = [pt |-> line.pt, codec |-> line.codec, medium |-> info.mtype]
  BY DEF RtpMap
<1>6. FromLines(next, lines, i)
  <2> SUFFICES ASSUME NEW r \in next.payloads
               PROVE  \E j \in 1..i : IsKnownRtpmap(lines[j]) /\ r.pt = lines[j].pt /\ r.codec = lines[j].codec
    BY DEF FromLines
  <2>1. CASE r \in info.payloads
    BY <1>1, <1>2, <2>1 DEF FromLines
  <2>2. CASE r \notin info.payloads
    <3>1. IsKnownRtpmap(line) /\ r = new
      BY <1>3, <2>2
    <3> QED
      BY <1>5, <3>1, <1>1
  <2> QED
    BY <2>1, <2>2
<1>7. ASSUME InSections(lines) PROVE InPlace(next, lines, i)
  <2>1. InPlace(info, lines, i - 1)
    BY <1>7 DEF LoopInv
  <2>2. ASSUME IsKnownRtpmap(line)
        PROVE  info.mtype = Medium(line.codec) /\ info.mtype \in info.has
    <3>1. PICK j \in 1..i - 1 : /\ lines[j].kind = "m" /\ lines[j].medium = Medium(line.codec)
                               /\ \A k \in j + 1..i - 1 : lines[k].kind # "m"
      BY <1>7, <2>2 DEF InSections, InSection
    <3> QED
      BY <2>1, <3>1 DEF InPlace
  <2>3. ASSUME NEW j \in 1..i, lines[j].kind = "m"
        PROVE  /\ lines[j].medium \in next.has
               /\ (\A k \in j + 1..i : lines[k].kind # "m") => next.mtype = lines[j].medium
    <3>1. CASE j = i
      BY <1>3, <2>3, <3>1
    <3>2. CASE j # i
      <4>1. j \in 1..i - 1 /\ i \in j + 1..i /\ (\A k \in j + 1..i - 1 : k \in j + 1..i)
        BY <1>1, <3>2
      <4> QED
        BY <1>3, <2>1, <2>3, <4>1 DEF InPlace
    <3> QED
      BY <3>1, <3>2
  <2>4. ASSUME NEW j \in 1..i, IsKnownRtpmap(lines[j])
        PROVE  RtpMap(lines[j].pt, lines[j].codec, Medium(lines[j].codec)) \in next.payloads
    <3>1. CASE j = i
      <4>1. next.payloads = info.payloads \cup {new} /\ info.mtype = Medium(line.codec)
        BY <1>3, <2>2, <2>4, <3>1
      <4> QED
        BY <3>1, <4>1
    <3>2. CASE j \in 1..i - 1
      BY <1>3, <2>1, <2>4, <3>2 DEF InPlace
    <3> QED
      BY <1>1, <3>1, <3>2
  <2>5. ASSUME NEW r \in next.payloads
        PROVE  r.medium = Medium(r.codec) /\ r.medium \in next.has
    <3>1. CASE r \in info.payloads
      BY <1>3, <2>1, <3>1 DEF InPlace
    <3>2. CASE r \notin info.payloads
      <4>1. IsKnownRtpmap(line) /\ r = new
        BY <1>3, <3>2
      <4>2. r.medium = info.mtype /\ r.codec = line.codec
        BY <1>5, <4>1
      <4> QED
        BY <1>3, <2>2, <4>1, <4>2
    <3> QED
      BY <3>1, <3>2
  <2> HIDE DEF line, new
  <2> QED
    BY <2>3, <2>4, <2>5 DEF InPlace
<1> QED
  BY <1>3, <1>4, <1>6, <1>7 DEF LoopInv

\* What holds of every turn holds of what processSdp returns.
LEMMA Processed ==
  ASSUME NEW lines, IsDescription(lines)
  PROVE  LoopInv(ProcessSdp(lines), lines, Len(lines))
<1> DEFINE n == Len(lines)
<1>1. n \in Nat /\ DOMAIN lines = 1..n
  BY DEF IsDescription
<1>2. PICK info : /\ info[0] = NewInfo
                  /\ \A i \in 1..n : info[i] = ProcessLine(info[i - 1], lines[i])
                  /\ ProcessSdp(lines) = info[n]
  BY <1>1, ProcessSdpLoop
<1> DEFINE Broken == {i \in 0..n : ~LoopInv(info[i], lines, i)}
<1>3. Broken = {}
  <2> SUFFICES ASSUME Broken # {} PROVE FALSE
    OBVIOUS
  <2>1. Broken \in SUBSET Nat
    OBVIOUS
  <2>2. PICK i \in Broken : \A k \in Broken : i <= k
    <3> HIDE DEF Broken
    <3> QED
      BY <2>1, Loop!Least
  <2>3. i # 0
    BY <1>2, <2>2, LoopInit
  <2>4. i \in 1..n /\ i - 1 \in 0..n /\ ~(i <= i - 1)
    BY <1>1, <2>2, <2>3
  <2>5. LoopInv(info[i - 1], lines, i - 1)
    BY <2>2, <2>4
  <2>6. info[i] = ProcessLine(info[i - 1], lines[i])
    BY <1>2, <2>4
  <2>7. LoopInv(info[i], lines, i)
    BY <2>4, <2>5, <2>6, LoopStep
  <2> QED
    BY <2>2, <2>7
<1>4. n \in 0..n
  BY <1>1
<1> QED
  BY <1>2, <1>3, <1>4

\* No description: every connection's before setRemoteSdp.
LEMMA NoDescription == IsDescription(<<>>) /\ InSections(<<>>) /\ Len(<<>>) = 0
BY DEF IsDescription, InSections

-----------------------------------------------------------------------------
(* What the result is good for                                               *)

\* A packet that the peer numbers for a known codec is given the codec's internal
\* number on its way in (onTransportData), and that number is made one that the
\* peer has for the same codec on its way out (deliver*Data), in whatever order its
\* lines are: where no number is two codecs' and 0, which the code takes for "not
\* in the map", is PCMU's only.
THEOREM RoundTripTheorem ==
  ASSUME NEW lines, IsDescription(lines), InSections(lines),
         NumbersOnce(lines), ZeroIsPcmu(lines),
         NEW i \in 1..Len(lines), IsKnownRtpmap(lines[i])
  PROVE  LET info     == ProcessSdp(lines)
             internal == InternalPT(lines[i].codec)
         IN /\ Translate(info.outIn, lines[i].pt) = internal
            /\ \E j \in 1..Len(lines) : /\ IsKnownRtpmap(lines[j]) /\ lines[j].codec = lines[i].codec
                                       /\ Translate(info.inOut, internal) = lines[j].pt
<1> DEFINE codec == lines[i].codec
           internal == InternalPT(codec)
<1> SUFFICES ASSUME NEW info, info = ProcessSdp(lines)
             PROVE  /\ Translate(info.outIn, lines[i].pt) = internal
                    /\ \E j \in 1..Len(lines) : /\ IsKnownRtpmap(lines[j]) /\ lines[j].codec = codec
                                               /\ Translate(info.inOut, internal) = lines[j].pt
  OBVIOUS
<1>1. MapsMatch(info) /\ FromLines(info, lines, Len(lines)) /\ InPlace(info, lines, Len(lines))
  BY Processed DEF LoopInv
<1>2. PICK r \in info.payloads : r.pt = lines[i].pt /\ r.codec = codec
  BY <1>1 DEF InPlace, RtpMap
<1>3. \A q \in info.payloads : \E j \in 1..Len(lines) :
        IsKnownRtpmap(lines[j]) /\ q.pt = lines[j].pt /\ q.codec = lines[j].codec
  BY <1>1 DEF FromLines
<1>4. Translate(info.outIn, lines[i].pt) = internal
  <2>1. r.pt \in DOMAIN info.outIn
    BY <1>1, <1>2 DEF MapsMatch
  <2>2. PICK q \in info.payloads : q.pt = r.pt /\ info.outIn[r.pt] = InternalPT(q.codec)
    BY <1>1, <2>1 DEF MapsMatch
  <2>3. q.codec = codec
    BY <1>2, <1>3, <2>2 DEF NumbersOnce
  <2>4. Lookup(info.outIn, lines[i].pt) = internal
    BY <1>2, <2>1, <2>2, <2>3 DEF Lookup
  <2>5. internal = 0 => lines[i].pt = 0
    BY DEF ZeroIsPcmu
  <2> QED
    BY <2>4, <2>5 DEF Translate
<1>5. PICK j \in 1..Len(lines) : /\ IsKnownRtpmap(lines[j]) /\ lines[j].codec = codec
                               /\ Lookup(info.inOut, internal) = lines[j].pt
  <2>1. internal \in DOMAIN info.inOut
    BY <1>1, <1>2 DEF MapsMatch
  <2>2. PICK q \in info.payloads : InternalPT(q.codec) = internal /\ info.inOut[internal] = q.pt
    BY <1>1, <2>1 DEF MapsMatch
  <2>3. PICK j \in 1..Len(lines) : IsKnownRtpmap(lines[j]) /\ q.pt = lines[j].pt /\ q.codec = lines[j].codec
    BY <1>3
  <2>4. q.codec = codec
    BY <2>2, <2>3, Table DEF IsKnownRtpmap
  <2> QED
    BY <2>1, <2>2, <2>3, <2>4 DEF Lookup
<1>6. lines[j].pt = 0 => internal = 0
  BY <1>5 DEF ZeroIsPcmu
<1> QED
  BY <1>4, <1>5, <1>6 DEF Translate

\* The a=rtpmap lines of an answer.
LEMMA RtpmapsOfAnswer ==
  ASSUME NEW info, NEW ssrc, NEW l
  PROVE  l \in GetSdp(info, ssrc) /\ l.kind = "rtpmap"
           <=> \E r \in info.payloads : r.medium \in Described(info) /\ l = RtpmapLine(r.pt, r.codec)
<1>1. GroupLine.kind = "group" /\ (\A m : MediaLine(m).kind = "m") /\ (\A x : SsrcLine(x).kind = "ssrc")
  BY DEF GroupLine, MediaLine, SsrcLine
<1>2. \A pt, c : RtpmapLine(pt, c).kind = "rtpmap"
  BY DEF RtpmapLine
<1>3. ASSUME l \in GetSdp(info, ssrc), l.kind = "rtpmap"
      PROVE  \E r \in info.payloads : r.medium \in Described(info) /\ l = RtpmapLine(r.pt, r.codec)
  <2>1. PICK m \in Described(info) : l \in Section(info, m, ssrc)
    BY <1>1, <1>3 DEF GetSdp
  <2> QED
    BY <1>1, <1>3, <2>1 DEF Section
<1>4. ASSUME NEW r \in info.payloads, r.medium \in Described(info), l = RtpmapLine(r.pt, r.codec)
      PROVE  l \in GetSdp(info, ssrc) /\ l.kind = "rtpmap"
  <2>1. l \in Section(info, r.medium, ssrc)
    BY <1>4 DEF Section
  <2> QED
    BY <1>2, <1>4, <2>1 DEF GetSdp
<1> QED
  BY <1>3, <1>4

\* The answer of getSdp offers nothing that the description did not, and keeps the
\* peer's number of every known codec of a medium that has a transport.
THEOREM AnswerTheorem ==
  ASSUME NEW lines, IsDescription(lines), InSections(lines), NEW ssrc
  PROVE  LET info == ProcessSdp(lines)
         IN \A pt, c : RtpmapLine(pt, c) \in GetSdp(info, ssrc)
              <=> /\ \E j \in 1..Len(lines) :
                       IsKnownRtpmap(lines[j]) /\ lines[j].pt = pt /\ lines[j].codec = c
                  /\ HasTransport(info, Medium(c))
<1> SUFFICES ASSUME NEW info, info = ProcessSdp(lines), NEW pt, NEW c
             PROVE  RtpmapLine(pt, c) \in GetSdp(info, ssrc)
                      <=> /\ \E j \in 1..Len(lines) :
                               IsKnownRtpmap(lines[j]) /\ lines[j].pt = pt /\ lines[j].codec = c
                          /\ HasTransport(info, Medium(c))
  OBVIOUS
<1>1. LoopInv(info, lines, Len(lines))
  BY Processed
<1>2. IsInfo(info) /\ FromLines(info, lines, Len(lines)) /\ InPlace(info, lines, Len(lines))
  BY <1>1 DEF LoopInv
<1>3. RtpmapLine(pt, c).kind = "rtpmap"
  BY DEF RtpmapLine
<1>4. \A x, d : RtpmapLine(x, d) = RtpmapLine(pt, c) => x = pt /\ d = c
  BY DEF RtpmapLine
<1>5. ASSUME RtpmapLine(pt, c) \in GetSdp(info, ssrc)
      PROVE  /\ \E j \in 1..Len(lines) : IsKnownRtpmap(lines[j]) /\ lines[j].pt = pt /\ lines[j].codec = c
             /\ HasTransport(info, Medium(c))
  <2>1. PICK r \in info.payloads : r.medium \in Described(info) /\ RtpmapLine(pt, c) = RtpmapLine(r.pt, r.codec)
    BY <1>3, <1>5, RtpmapsOfAnswer
  <2>2. r.pt = pt /\ r.codec = c /\ r.medium = Medium(c)
    BY <1>2, <1>4, <2>1 DEF InPlace
  <2> QED
    BY <1>2, <2>1, <2>2 DEF FromLines, Described
<1>6. ASSUME NEW j \in 1..Len(lines), IsKnownRtpmap(lines[j]), lines[j].pt = pt, lines[j].codec = c,
             HasTransport(info, Medium(c))
      PROVE  RtpmapLine(pt, c) \in GetSdp(info, ssrc)
  <2> DEFINE r == RtpMap(pt, c, Medium(c))
  <2>1. r \in info.payloads /\ r.pt = pt /\ r.codec = c /\ r.medium = Medium(c)
    BY <1>2, <1>6 DEF InPlace, RtpMap
  <2>2. r.medium \in Described(info)
    BY <1>6, <2>1, Table DEF IsKnownRtpmap, Described
  <2> HIDE DEF r
  <2> QED
    BY <2>1, <2>2, RtpmapsOfAnswer
<1> QED
  BY <1>5, <1>6

=============================================================================
