----------------------------- MODULE MCGathering -----------------------------
(* Two transports, one with a component for RTCP, one with an IPv6 address.  *)
EXTENDS Gathering

Candidate(t, c, ipv6) == [by |-> t, comp |-> c, ipv6 |-> ipv6]

MCThreads == {"video", "audio"}
MCFound ==
  [t \in MCThreads |->
     IF t = "video" THEN << <<Candidate(t, 1, TRUE), Candidate(t, 1, FALSE)>> >>
                    ELSE << <<Candidate(t, 1, FALSE)>>, <<Candidate(t, 2, FALSE)>> >>]

=============================================================================
