---------------------------- MODULE DropTailQueue ----------------------------
(***************************************************************************)
(* What the send queue of a connection promises its transports: packets     *)
(* leave in the order they were accepted, each at most once; a packet is    *)
(* refused only when Limit packets are waiting; an accepted packet is       *)
(* discarded only when the ICE agent it would leave by is not ready.        *)
(***************************************************************************)
EXTENDS Naturals, Sequences

CONSTANTS Packets, Limit

VARIABLES
  offered,   \* the packets that were accepted or refused
  waiting,   \* accepted, not yet sent
  sent,
  down       \* the packets whose agent is not ready

absVars == <<offered, waiting, sent, down>>

AbsInit == offered = {} /\ waiting = <<>> /\ sent = <<>> /\ down \subseteq Packets

Offer(p) == p \notin offered /\ offered' = offered \cup {p}

Accept(p) ==
  /\ Offer(p)
  /\ Len(waiting) < Limit
  /\ waiting' = Append(waiting, p)
  /\ UNCHANGED <<sent, down>>

Refuse(p) ==
  /\ Offer(p)
  /\ Len(waiting) = Limit
  /\ UNCHANGED <<waiting, sent, down>>

Send ==
  /\ waiting # <<>>
  /\ sent' = Append(sent, Head(waiting))
  /\ waiting' = Tail(waiting)
  /\ UNCHANGED <<offered, down>>

Discard ==
  /\ waiting # <<>> /\ Head(waiting) \in down
  /\ waiting' = Tail(waiting)
  /\ UNCHANGED <<offered, sent, down>>

\* An agent becomes ready, or ceases to be.
Agents == down' \subseteq Packets /\ UNCHANGED <<offered, waiting, sent>>

AbsNext == (\E p \in Packets : Accept(p) \/ Refuse(p)) \/ Send \/ Discard \/ Agents

AbsSpec == AbsInit /\ [][AbsNext]_absVars

=============================================================================
