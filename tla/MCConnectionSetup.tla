-------------------------- MODULE MCConnectionSetup --------------------------
(* Instances of ConnectionSetup: the offers of each run.                     *)
EXTENDS ConnectionSetup

\* Every combination of media, with a supported a=crypto line for each medium
\* when the offer has no fingerprint.
AllOffers ==
  {o \in Offer : /\ o.has # {}
                 /\ o.crypto = IF o.dtls THEN {} ELSE o.has
                 /\ o.ssrc \subseteq o.has}

\* Without the offers that are known to fail: SDES without rtcp-mux leaves the
\* RTCP channel without keys, a bundle of audio alone gets no candidates.
KeyableOffers  == {o \in AllOffers : o.dtls \/ o.rtcpMux}
SafeOffers     == {o \in KeyableOffers : o.bundle => "video" \in o.has}

\* Offers that name their SSRCs and whose handshakes, if any, use one transport.
LiveOffers ==
  {o \in SafeOffers : /\ o.ssrc = o.has
                      /\ o.dtls => Cardinality(o.has) = 1}

BundledDtls    == {o \in SafeOffers : o.dtls /\ o.bundle /\ o.has = Media}
TwoTransports  == {o \in SafeOffers : ~o.bundle /\ o.has = Media}

=============================================================================
