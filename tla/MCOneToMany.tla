------------------------------ MODULE MCOneToMany ------------------------------
(* Instances of OneToMany: the descriptions of each run.                     *)
EXTENDS OneToMany

\* Audio and video with the given lines, bundled or not; Firefox names no SSRC.
Describes(group, audio, video, ssrc(_)) ==
  group \o <<MediaLine("audio")>> \o audio \o ssrc("audio")
        \o <<MediaLine("video")>> \o video \o ssrc("video")

Bundled   == <<GroupLine>>
Apart     == <<>>
Named(m)  == <<SsrcLine(m)>>
Opus(pt)  == <<RtpmapLine(pt, "opus"), RtpmapLine(9, "G722")>>
Vp8(pt)   == <<RtpmapLine(pt, "VP8")>>
Vp8Red(pt) == <<RtpmapLine(100, "VP8"), RtpmapLine(pt, "red")>>

Chrome      == Describes(Bundled, Opus(111), Vp8Red(116), Named)
Renumbered  == Describes(Bundled, Opus(109), Vp8Red(121), Named)
WithoutRed  == Describes(Apart, Opus(111), Vp8(100), Named)
OtherNumber == Describes(Apart, Opus(109), Vp8(120), Named)
VideoOnly   == <<MediaLine("video")>> \o Vp8(100) \o Named("video")

\* A publisher may number as it likes, but for the block inside RED; subscribers
\* use the internal numbers.
Publishers  == {Renumbered, OtherNumber}
Subscribers == {Chrome, WithoutRed}
ASSUME NumberingAssumption ==
  (\A d \in Publishers : MayPublish(d)) /\ (\A d \in Subscribers : MaySubscribe(d))

\* ... and one that numbers VP8 differently.
MixedPublishers  == {Chrome}
MixedSubscribers == {Chrome, OtherNumber, VideoOnly}

\* Where only the traversal matters.
OnePublisher  == {OtherNumber}
OneSubscriber == {WithoutRed}

=============================================================================
