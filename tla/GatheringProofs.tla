--------------------------- MODULE GatheringProofs ---------------------------
(***************************************************************************)
(* What one nice thread gathers when no other thread gathers meanwhile: its  *)
(* agent's IPv4 candidates of every component, all of them, in order.  The   *)
(* run GatheringRace shows that two threads may not.                         *)
(***************************************************************************)
EXTENDS Gathering, TLAPS

-----------------------------------------------------------------------------
(* The list an agent found, and what is kept of it                           *)

\* All that t's agent found, component by component.
All(t) == IF Len(Found[t]) = 1 THEN Found[t][1] ELSE Found[t][1] \o Found[t][2]

\* s are the IPv4 candidates among the first k of list, in its order: at gives
\* the place in list of each.
IsPlaces(at, s, list, k) ==
  /\ \A i, j \in 1..Len(s) : i < j => at[i] < at[j]
  /\ \A i \in 1..Len(s) : s[i] = list[at[i]] /\ ~list[at[i]].ipv6
  /\ \A p \in 1..k : ~list[p].ipv6 => \E i \in 1..Len(s) : at[i] = p
Kept(s, list, k) == \E at \in [1..Len(s) -> 1..k] : IsPlaces(at, s, list, k)

LEMMA KeptNone == ASSUME NEW list PROVE Kept(<<>>, list, 0)
<1> DEFINE at == [i \in 1..0 |-> 0]
<1>1. at \in [1..Len(<<>>) -> 1..0] /\ IsPlaces(at, <<>>, list, 0)
  BY DEF IsPlaces
<1> QED
  BY <1>1 DEF Kept

\* A candidate that is skipped.
LEMMA KeptSkip ==
  ASSUME NEW S, NEW s \in Seq(S), NEW list, NEW k \in Nat, Kept(s, list, k), list[k + 1].ipv6
  PROVE  Kept(s, list, k + 1)
<1>1. PICK at \in [1..Len(s) -> 1..k] : IsPlaces(at, s, list, k)
  BY DEF Kept
<1>2. at \in [1..Len(s) -> 1..k + 1] /\ IsPlaces(at, s, list, k + 1)
  <2>1. 1..k + 1 = 1..k \cup {k + 1}
    OBVIOUS
  <2> QED
    BY <1>1, <2>1 DEF IsPlaces
<1> QED
  BY <1>2 DEF Kept

\* A candidate that is copied.
LEMMA KeptMore ==
  ASSUME NEW S, NEW s \in Seq(S), NEW list, NEW k \in Nat, Kept(s, list, k), ~list[k + 1].ipv6,
         list[k + 1] \in S
  PROVE  Kept(Append(s, list[k + 1]), list, k + 1)
<1>1. PICK at \in [1..Len(s) -> 1..k] : IsPlaces(at, s, list, k)
  BY DEF Kept
<1> DEFINE n    == Len(s)
           more == [i \in 1..n + 1 |-> IF i = n + 1 THEN k + 1 ELSE at[i]]
           new  == Append(s, list[k + 1])
<1>2. n \in Nat /\ Len(new) = n + 1 /\ new[n + 1] = list[k + 1] /\ \A i \in 1..n : new[i] = s[i]
  OBVIOUS
<1>3. 1..n + 1 = 1..n \cup {n + 1} /\ 1..k + 1 = 1..k \cup {k + 1} /\ n + 1 \notin 1..n
  BY <1>2
<1>4. more[n + 1] = k + 1 /\ \A i \in 1..n : more[i] = at[i] /\ at[i] \in 1..k
  BY <1>1, <1>3 DEF IsPlaces
<1>5. more \in [1..n + 1 -> 1..k + 1]
  BY <1>3, <1>4
<1> HIDE DEF n, more, new
<1>6. \A i, j \in 1..n + 1 : i < j => more[i] < more[j]
  <2> SUFFICES ASSUME NEW i \in 1..n + 1, NEW j \in 1..n + 1, i < j PROVE more[i] < more[j]
    OBVIOUS
  <2>1. i \in 1..n
    BY <1>2
  <2>2. CASE j = n + 1
    BY <1>4, <2>1, <2>2
  <2>3. CASE j \in 1..n
    BY <1>1, <1>4, <2>1, <2>3 DEF IsPlaces, n
  <2> QED
    BY <1>3, <2>2, <2>3
<1>7. \A i \in 1..n + 1 : new[i] = list[more[i]] /\ ~list[more[i]].ipv6
  BY <1>1, <1>2, <1>3, <1>4 DEF IsPlaces, n
<1>8. \A p \in 1..k + 1 : ~list[p].ipv6 => \E i \in 1..n + 1 : more[i] = p
  BY <1>1, <1>3, <1>4 DEF IsPlaces, n
<1>9. IsPlaces(more, new, list, k + 1)
  BY <1>2, <1>5, <1>6, <1>7, <1>8 DEF IsPlaces
<1> QED
  BY <1>2, <1>5, <1>9 DEF Kept, new

-----------------------------------------------------------------------------
(* One thread                                                                *)

\* A walk through a list: where it starts, and what is behind the p-th.
LEMMA Start ==
  ASSUME NEW S, NEW l \in Seq(S)
  PROVE  l = SubSeq(l, 0 + 1, Len(l)) /\ 0 \in 0..Len(l)
OBVIOUS

LEMMA Behind ==
  ASSUME NEW S, NEW l \in Seq(S), NEW p \in 0..Len(l), NEW rest, rest = SubSeq(l, p + 1, Len(l))
  PROVE  /\ rest = <<>> => p = Len(l)
         /\ rest # <<>> => /\ p + 1 \in 1..Len(l) /\ Head(rest) = l[p + 1]
                           /\ Tail(rest) = SubSeq(l, p + 1 + 1, Len(l))
<1>1. Len(l) \in Nat /\ p \in Nat /\ rest \in Seq(S) /\ Len(rest) = Len(l) - p
  OBVIOUS
<1>2. \A i \in 1..Len(rest) : rest[i] = l[p + i]
  OBVIOUS
<1>3. ASSUME rest = <<>> PROVE p = Len(l)
  <2>1. Len(<<>>) = 0
    OBVIOUS
  <2>2. Len(rest) = 0
    BY <1>3, <2>1, Zenon
  <2> QED
    BY <1>1, <2>2
<1>4. ASSUME rest # <<>>
      PROVE  /\ p + 1 \in 1..Len(l) /\ Head(rest) = l[p + 1]
             /\ Tail(rest) = SubSeq(l, p + 1 + 1, Len(l))
  <2>1. Len(rest) # 0
    BY <1>1, <1>4
  <2>2. p + 1 \in 1..Len(l) /\ 1 \in 1..Len(rest)
    BY <1>1, <2>1
  <2>3. Head(rest) = l[p + 1]
    BY <1>1, <1>2, <2>2
  <2>4. Tail(rest) = SubSeq(l, p + 1 + 1, Len(l))
    BY <1>1, <1>2, <2>2
  <2> QED
    BY <2>2, <2>3, <2>4
<1> QED
  BY <1>3, <1>4

\* What libnice returns: one or two lists of candidates, and where the first
\* component has none the agent has no address for the second either.
IsFound(found, Candidates) ==
  /\ found \in Seq(Seq(Candidates)) /\ Len(found) \in {1, 2}
  /\ found[1] = <<>> => \A comp \in 1..Len(found) : found[comp] = <<>>

\* How many candidates the agent has of the components before comp.
Before(t, comp) ==
  IF comp = 1 THEN 0 ELSE IF comp = 2 THEN Len(Found[t][1]) ELSE Len(All(t))

\* Where in its list each component is.
LEMMA Layout ==
  ASSUME NEW Candidates, NEW t \in Threads, IsFound(Found[t], Candidates)
  PROVE  /\ All(t) \in Seq(Candidates)
         /\ \A comp \in 1..Len(Found[t]) :
              LET l == Found[t][comp]
              IN /\ l \in Seq(Candidates) /\ Before(t, comp) \in Nat
                 /\ \A p \in 1..Len(l) : All(t)[Before(t, comp) + p] = l[p]
                 /\ Before(t, comp + 1) = Before(t, comp) + Len(l)
         /\ \A comp \in 1..Len(Found[t]) + 1 :
              LocalCandidates(t, comp) = NULL => Before(t, comp) = Len(All(t))
<1> DEFINE one == Found[t][1]
           two == Found[t][2]
<1>1. CASE Len(Found[t]) = 1
  <2>1. one \in Seq(Candidates) /\ All(t) = one
    BY <1>1 DEF IsFound, All
  <2>2. 1..Len(Found[t]) = {1} /\ 1..Len(Found[t]) + 1 = {1, 2}
    BY <1>1
  <2>3. Before(t, 1) = 0 /\ Before(t, 2) = Len(one)
    BY DEF Before
  <2>4. Len(one) \in Nat /\ (one = <<>> => Len(one) = 0)
    BY <2>1
  <2> HIDE DEF one
  <2>5. LocalCandidates(t, 1) = one
    BY <1>1 DEF LocalCandidates, one
  <2> QED
    BY <2>1, <2>2, <2>3, <2>4, <2>5 DEF one, NULL
<1>2. CASE Len(Found[t]) = 2
  <2>1. one \in Seq(Candidates) /\ two \in Seq(Candidates) /\ All(t) = one \o two
    BY <1>2 DEF IsFound, All
  <2>2. 1..Len(Found[t]) = {1, 2} /\ 1..Len(Found[t]) + 1 = {1, 2, 3}
    BY <1>2
  <2>3. Before(t, 1) = 0 /\ Before(t, 2) = Len(one) /\ Before(t, 3) = Len(All(t))
    BY DEF Before
  <2>4. one = <<>> => two = <<>>
    BY <1>2 DEF IsFound
  <2>5. LocalCandidates(t, 1) = one /\ LocalCandidates(t, 2) = two
    BY <1>2 DEF LocalCandidates
  <2> HIDE DEF one, two
  <2>6. /\ All(t) \in Seq(Candidates) /\ Len(All(t)) = Len(one) + Len(two)
        /\ Len(one) \in Nat /\ Len(two) \in Nat
        /\ \A p \in 1..Len(one) : All(t)[p] = one[p]
        /\ \A p \in 1..Len(two) : All(t)[Len(one) + p] = two[p]
    BY <2>1
  <2>7. (one = <<>> => Len(one) = 0) /\ (two = <<>> => Len(two) = 0)
    OBVIOUS
  <2> DEFINE Placed(comp, l) ==
               /\ l \in Seq(Candidates) /\ Before(t, comp) \in Nat
               /\ \A p \in 1..Len(l) : All(t)[Before(t, comp) + p] = l[p]
               /\ Before(t, comp + 1) = Before(t, comp) + Len(l)
  <2>8. Placed(1, one)
    <3>1. \A p \in 1..Len(one) : 0 + p = p
      OBVIOUS
    <3> QED
      BY <2>1, <2>3, <2>6, <3>1
  <2>9. Placed(2, two)
    <3>1. 2 + 1 = 3
      OBVIOUS
    <3> QED
      BY <2>1, <2>3, <2>6, <3>1
  <2>10. \A comp \in 1..Len(Found[t]) : Placed(comp, Found[t][comp])
    BY <2>2, <2>8, <2>9 DEF one, two
  <2>11. ASSUME NEW comp \in 1..Len(Found[t]) + 1, LocalCandidates(t, comp) = NULL
         PROVE  Before(t, comp) = Len(All(t))
    <3>1. CASE comp = 1
      <4>1. one = <<>> /\ two = <<>>
        BY <2>4, <2>5, <2>11, <3>1 DEF NULL
      <4> QED
        BY <2>3, <2>6, <2>7, <3>1, <4>1
    <3>2. CASE comp = 2
      <4>1. two = <<>>
        BY <2>5, <2>11, <3>2 DEF NULL
      <4> QED
        BY <2>3, <2>6, <2>7, <3>2, <4>1
    <3>3. CASE comp = 3
      BY <2>3, <3>3
    <3> QED
      BY <2>2, <3>1, <3>2, <3>3
  <2> QED
    BY <2>6, <2>10, <2>11
<1> QED
  BY <1>1, <1>2 DEF IsFound

\* The thread copies the lists in order: what it has kept are the candidates
\* before the one it is at, in the list of the component before currentCompId.
Place(t, at, comp, kept, list, rest) ==
  LET l == Found[t][comp]
      Has(n) == Kept(kept, All(t), n)
  IN \/ at = "gathering" /\ comp = 0 /\ kept = <<>>
     \/ /\ at = "while" /\ comp \in 1..Len(Found[t]) + 1
        /\ list = LocalCandidates(t, comp) /\ Has(Before(t, comp))
     \/ at = "enter" /\ comp \in 1..Len(Found[t]) /\ list = l /\ Has(Before(t, comp))
     \/ /\ at = "for" /\ comp \in 1..Len(Found[t])
        /\ \E p \in 0..Len(l) : rest = SubSeq(l, p + 1, Len(l)) /\ Has(Before(t, comp) + p)
     \/ at \in {"end", "gathered"} /\ Has(Len(All(t)))

GInv(t, Candidates) ==
  /\ DOMAIN pc = Threads /\ currentCompId \in [Threads -> Nat] /\ DOMAIN iterator = Threads
  /\ localCandidates \in [Threads -> Seq(Candidates)]
  /\ Place(t, pc[t], currentCompId[t] - 1, localCandidates[t], lcands, iterator[t])

\* What a thread that has gathered has.
OwnInOrder == \A t \in Threads : pc[t] = "gathered" => Kept(localCandidates[t], All(t), Len(All(t)))

LEMMA GatheringStep ==
  ASSUME NEW Candidates, NEW t, Threads = {t}, IsFound(Found[t], Candidates),
         GInv(t, Candidates), [Next]_vars
  PROVE  GInv(t, Candidates)'
<1> DEFINE comp == currentCompId[t] - 1
           kept == localCandidates[t]
           l    == Found[t][comp]
<1>0. /\ DOMAIN pc = Threads /\ currentCompId \in [Threads -> Nat] /\ DOMAIN iterator = Threads
      /\ localCandidates \in [Threads -> Seq(Candidates)] /\ kept \in Seq(Candidates)
      /\ Place(t, pc[t], comp, kept, lcands, iterator[t])
  BY DEF GInv
<1>1. CASE Fetch(t) /\ pc[t] = "gathering"
  <2>1. /\ pc' = [pc EXCEPT ![t] = "while"]
        /\ lcands' = LocalCandidates(t, currentCompId[t])
        /\ currentCompId' = [currentCompId EXCEPT ![t] = @ + 1]
        /\ UNCHANGED <<iterator, localCandidates>>
    BY <1>1 DEF Fetch, Go
  <2>2. currentCompId[t] = 1 /\ kept = <<>>
    BY <1>0, <1>1 DEF Place
  <2>3. 1 \in 1..Len(Found[t]) + 1 /\ Before(t, 1) = 0 /\ Kept(<<>>, All(t), 0)
    BY KeptNone DEF IsFound, Before
  <2>4. Place(t, "while", 1, <<>>, LocalCandidates(t, 1), iterator[t])
    BY <2>3 DEF Place
  <2> QED
    BY <1>0, <2>1, <2>2, <2>4 DEF GInv
<1>2. CASE Fetch(t) /\ pc[t] = "for"
  <2>1. /\ pc' = [pc EXCEPT ![t] = "while"]
        /\ lcands' = LocalCandidates(t, currentCompId[t])
        /\ currentCompId' = [currentCompId EXCEPT ![t] = @ + 1]
        /\ iterator[t] = <<>> /\ UNCHANGED <<iterator, localCandidates>>
    BY <1>2 DEF Fetch, Go, NULL
  <2>2. PICK p \in 0..Len(l) : /\ comp \in 1..Len(Found[t]) /\ iterator[t] = SubSeq(l, p + 1, Len(l))
                               /\ Kept(kept, All(t), Before(t, comp) + p)
    BY <1>0, <1>2 DEF Place
  <2>3. /\ l \in Seq(Candidates) /\ Before(t, comp) \in Nat
        /\ Before(t, comp + 1) = Before(t, comp) + Len(l)
    BY <2>2, Layout
  <2>4. p = Len(l)
    BY <2>1, <2>2, <2>3, Behind
  <2>5. comp + 1 \in 1..Len(Found[t]) + 1 /\ comp + 1 = currentCompId[t]
    BY <1>0, <2>2 DEF IsFound
  <2>6. Place(t, "while", currentCompId[t], kept, LocalCandidates(t, currentCompId[t]), iterator[t])
    BY <2>2, <2>3, <2>4, <2>5 DEF Place
  <2> QED
    BY <1>0, <2>1, <2>6 DEF GInv
<1>3. CASE Continue(t)
  <2>1. /\ UNCHANGED <<currentCompId, lcands, iterator, localCandidates>>
        /\ pc[t] = "while" /\ pc' = [pc EXCEPT ![t] = IF lcands = <<>> THEN "end" ELSE "enter"]
    BY <1>3 DEF Continue, Go, NULL
  <2>2. /\ comp \in 1..Len(Found[t]) + 1 /\ lcands = LocalCandidates(t, comp)
        /\ Kept(kept, All(t), Before(t, comp))
    BY <1>0, <2>1 DEF Place
  <2>3. CASE lcands = <<>>
    <3>1. Before(t, comp) = Len(All(t))
      BY <2>2, <2>3, Layout DEF NULL
    <3>2. Place(t, "end", comp, kept, lcands, iterator[t])
      BY <2>2, <3>1 DEF Place
    <3> QED
      BY <1>0, <2>1, <2>3, <3>2 DEF GInv
  <2>4. CASE lcands # <<>>
    <3>1. comp \in 1..Len(Found[t]) /\ lcands = l
      BY <2>2, <2>4 DEF LocalCandidates, IsFound, NULL
    <3>2. Place(t, "enter", comp, kept, lcands, iterator[t])
      BY <2>2, <3>1 DEF Place
    <3> QED
      BY <1>0, <2>1, <2>4, <3>2 DEF GInv
  <2> QED
    BY <2>3, <2>4
<1>4. CASE Enter(t)
  <2>1. /\ UNCHANGED <<currentCompId, lcands, localCandidates>> /\ pc[t] = "enter"
        /\ pc' = [pc EXCEPT ![t] = "for"] /\ iterator' = [iterator EXCEPT ![t] = lcands]
    BY <1>4 DEF Enter, Go
  <2>2. comp \in 1..Len(Found[t]) /\ lcands = l /\ Kept(kept, All(t), Before(t, comp))
    BY <1>0, <2>1 DEF Place
  <2>3. l \in Seq(Candidates) /\ Before(t, comp) \in Nat
    BY <2>2, Layout
  <2>4. l = SubSeq(l, 0 + 1, Len(l)) /\ 0 \in 0..Len(l) /\ Before(t, comp) + 0 = Before(t, comp)
    BY <2>3, Start
  <2>5. Place(t, "for", comp, kept, lcands, lcands)
    BY <2>2, <2>4 DEF Place
  <2> QED
    BY <1>0, <2>1, <2>5 DEF GInv
<1>5. CASE Copy(t)
  <2> DEFINE c == Head(iterator[t])
  <2>1. /\ UNCHANGED <<currentCompId, lcands>> /\ pc[t] = "for" /\ pc' = [pc EXCEPT ![t] = "for"]
        /\ iterator[t] # <<>> /\ iterator' = [iterator EXCEPT ![t] = Tail(@)]
        /\ localCandidates' = IF c.ipv6 THEN localCandidates
                              ELSE [localCandidates EXCEPT ![t] = Append(@, c)]
    <3> HIDE DEF kept, l
    <3> QED
      BY <1>5 DEF Copy, Go, NULL
  <2>2. PICK p \in 0..Len(l) : /\ comp \in 1..Len(Found[t]) /\ iterator[t] = SubSeq(l, p + 1, Len(l))
                               /\ Kept(kept, All(t), Before(t, comp) + p)
    BY <1>0, <2>1 DEF Place
  <2>3. /\ l \in Seq(Candidates) /\ Before(t, comp) \in Nat
        /\ \A q \in 1..Len(l) : All(t)[Before(t, comp) + q] = l[q]
    BY <2>2, Layout
  <2>4. /\ p + 1 \in 1..Len(l) /\ c = l[p + 1]
        /\ Tail(iterator[t]) = SubSeq(l, p + 1 + 1, Len(l))
    BY <2>1, <2>2, <2>3, Behind
  <2> DEFINE k == Before(t, comp) + p
  <2>5. k \in Nat /\ Before(t, comp) + (p + 1) = k + 1 /\ All(t)[k + 1] = c /\ c \in Candidates
    <3>1. Len(l) \in Nat /\ p \in Nat /\ l[p + 1] \in Candidates
      BY <2>3, <2>4
    <3>2. All(t)[Before(t, comp) + (p + 1)] = l[p + 1]
      BY <2>3, <2>4
    <3>3. k \in Nat /\ Before(t, comp) + (p + 1) = k + 1
      BY <2>3, <3>1
    <3> QED
      BY <2>4, <3>1, <3>2, <3>3
  <2>6. Kept(kept, All(t), k)
    BY <2>2
  <2> HIDE DEF c, k
  <2>7. /\ Kept(localCandidates'[t], All(t), k + 1)
        /\ localCandidates' \in [Threads -> Seq(Candidates)]
    <3>1. CASE c.ipv6
      BY <1>0, <2>1, <2>5, <2>6, <3>1, KeptSkip
    <3>2. CASE ~c.ipv6
      <4>1. localCandidates' = [localCandidates EXCEPT ![t] = Append(kept, c)]
        BY <2>1, <3>2
      <4>2. localCandidates'[t] = Append(kept, c)
        BY <1>0, <4>1
      <4>3. Kept(Append(kept, c), All(t), k + 1)
        BY <1>0, <2>5, <2>6, <3>2, KeptMore
      <4> QED
        BY <1>0, <2>5, <4>1, <4>2, <4>3
    <3> QED
      BY <3>1, <3>2
  <2>8. Place(t, "for", comp, localCandidates'[t], lcands, Tail(iterator[t]))
    <3>1. p + 1 \in 0..Len(l)
      BY <2>4
    <3> QED
      BY <2>2, <2>4, <2>5, <2>7, <3>1 DEF Place
  <2> QED
    BY <1>0, <2>1, <2>7, <2>8 DEF GInv
<1>6. CASE Finish(t)
  <2>1. /\ UNCHANGED <<currentCompId, lcands, iterator, localCandidates>>
        /\ pc[t] = "end" /\ pc' = [pc EXCEPT ![t] = "gathered"]
    BY <1>6 DEF Finish, Go
  <2>2. Place(t, "gathered", comp, kept, lcands, iterator[t])
    BY <1>0, <2>1 DEF Place
  <2> QED
    BY <1>0, <2>1, <2>2 DEF GInv
<1>7. CASE UNCHANGED vars
  BY <1>0, <1>7 DEF vars, GInv
<1> QED
  BY <1>1, <1>2, <1>3, <1>4, <1>5, <1>6, <1>7 DEF Next, Fetch, Go

\* Where no other thread gathers, and whatever its agent found, the candidates a
\* transport has gathered are its agent's IPv4 ones of every component, each
\* once and in order.
THEOREM OwnInOrderTheorem ==
  ASSUME NEW Candidates, NEW t, Threads = {t}, IsFound(Found[t], Candidates)
  PROVE  Spec => []OwnInOrder
<1>1. Init => GInv(t, Candidates)
  <2>1. Place(t, "gathering", 0, <<>>, NULL, NULL)
    BY DEF Place
  <2> QED
    BY <2>1 DEF Init, GInv
<1>2. GInv(t, Candidates) /\ [Next]_vars => GInv(t, Candidates)'
  BY GatheringStep
<1>3. GInv(t, Candidates) => OwnInOrder
  BY DEF GInv, Place, OwnInOrder
<1> QED
  BY <1>1, <1>2, <1>3, PTL DEF Spec

=============================================================================
