------------------------------ MODULE Gathering ------------------------------
(***************************************************************************)
(* cb_candidate_gathering_done: every transport's nice thread copies the     *)
(* candidates its agent found, component by component, into its own          *)
(* localCandidates.  The list it is at is held in lcands, a global that the  *)
(* threads of all connections share and no lock protects; each read and      *)
(* write of it is a step here.  Agents are external.                         *)
(***************************************************************************)
EXTENDS Naturals, Sequences

CONSTANTS
  Threads,    \* the nice threads, one per transport
  Found       \* what each agent found: a list per component (there are one or two)
              \* of candidates [by, comp, ipv6]

VARIABLES
  pc,              \* where each thread is
  currentCompId,
  lcands,          \* the list that the loop condition and the inner loop read
  iterator,        \* what is left of the list a thread walks
  localCandidates,
  exited           \* exit(0): the whole process

vars == <<pc, currentCompId, lcands, iterator, localCandidates, exited>>

NULL == <<>>

Init ==
  /\ pc = [t \in Threads |-> "gathering"]
  /\ currentCompId = [t \in Threads |-> 1]
  /\ lcands = NULL
  /\ iterator = [t \in Threads |-> NULL]
  /\ localCandidates = [t \in Threads |-> <<>>]
  /\ exited = FALSE

\* nice_agent_get_local_candidates: NULL past the last component.
LocalCandidates(t, comp) == IF comp <= Len(Found[t]) THEN Found[t][comp] ELSE NULL

Go(t, from, to) == ~exited /\ pc[t] = from /\ pc' = [pc EXCEPT ![t] = to]

\* lcands = nice_agent_get_local_candidates(..., currentCompId++), before the
\* loop and at the end of its body.
Fetch(t) ==
  /\ \/ Go(t, "gathering", "while")
     \/ Go(t, "for", "while") /\ iterator[t] = NULL
  /\ lcands' = LocalCandidates(t, currentCompId[t])
  /\ currentCompId' = [currentCompId EXCEPT ![t] = @ + 1]
  /\ UNCHANGED <<iterator, localCandidates, exited>>

\* while (lcands != NULL) ...
Continue(t) ==
  /\ Go(t, "while", IF lcands = NULL THEN "end" ELSE "enter")
  /\ UNCHANGED <<currentCompId, lcands, iterator, localCandidates, exited>>

\* ... for (iterator = lcands; ...)
Enter(t) ==
  /\ Go(t, "enter", "for")
  /\ iterator' = [iterator EXCEPT ![t] = lcands]
  /\ UNCHANGED <<currentCompId, lcands, localCandidates, exited>>

\* The body: an IPv6 candidate is skipped, another is copied as this transport's.
Copy(t) ==
  /\ Go(t, "for", "for")
  /\ iterator[t] # NULL
  /\ iterator' = [iterator EXCEPT ![t] = Tail(@)]
  /\ localCandidates' =
       IF Head(iterator[t]).ipv6 THEN localCandidates
       ELSE [localCandidates EXCEPT ![t] = Append(@, Head(iterator[t]))]
  /\ UNCHANGED <<currentCompId, lcands, exited>>

\* updateIceState(NICE_CANDIDATES_GATHERED), unless there is nothing to gather.
Finish(t) ==
  /\ Go(t, "end", "gathered")
  /\ exited' = (localCandidates[t] = <<>>)
  /\ UNCHANGED <<currentCompId, lcands, iterator, localCandidates>>

Next == \E t \in Threads : Fetch(t) \/ Continue(t) \/ Enter(t) \/ Copy(t) \/ Finish(t)

Spec == Init /\ [][Next]_vars

-----------------------------------------------------------------------------
\* When a transport has gathered, its localCandidates are "the obtained local
\* candidates": its own agent's, of every component, IPv4, in order.
Obtained(t) ==
  SelectSeq(IF Len(Found[t]) = 1 THEN Found[t][1] ELSE Found[t][1] \o Found[t][2],
            LAMBDA candidate : ~candidate.ipv6)
ObtainsItsOwn == \A t \in Threads : pc[t] = "gathered" => localCandidates[t] = Obtained(t)

=============================================================================
