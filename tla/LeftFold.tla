------------------------------- MODULE LeftFold -------------------------------
(***************************************************************************)
(* Loops as left folds: a loop of the code that goes through a list and      *)
(* changes its state by one line at a time is FoldLeft(Step, Base, lines).   *)
(* FoldLoop unrolls it, for lists of any length, from FoldLeft's own      *)
(* definition.  The modules about such a loop instantiate Step and Base.     *)
(***************************************************************************)
EXTENDS SequencesExt, WellFoundedInduction, TLAPS

CONSTANTS
  Base,         \* the state before the loop
  Step(_, _)    \* a turn: the state before it, and the line

Fold(lines) == FoldLeft(Step, Base, lines)

\* A set of numbers has a first one: what induction on the turns rests on.
LEMMA Least ==
  ASSUME NEW S \in SUBSET Nat, S # {}
  PROVE  \E n \in S : \A k \in S : n <= k
<1> DEFINE R == OpToRel(<, Nat)
<1>1. IsWellFoundedOn(R, Nat)
  BY NatLessThanWellFounded
<1>2. \A k, n \in Nat : k < n => <<k, n>> \in R
  BY DEF OpToRel
<1> HIDE DEF R
<1>3. PICK n \in S : \A k \in S : ~ (<<k, n>> \in R)
  BY <1>1, WFMin
<1>4. ASSUME NEW k \in S PROVE n <= k
  <2>1. k \in Nat /\ n \in Nat /\ ~(k < n)
    BY <1>2, <1>3
  <2> QED
    BY <2>1
<1> QED
  BY <1>4

\* FoldLeft takes the largest index off a set of them until none is left.
Largest(s) == CHOOSE x \in s : \A y \in s : x >= y

IsFold(iter, lines, n) ==
  iter = [s \in SUBSET (1..n) |->
            IF s = {} THEN Base ELSE Step(iter[s \ {Largest(s)}], lines[Largest(s)])]

LEMMA LargestIs ==
  ASSUME NEW n \in Nat, NEW s \in SUBSET (1..n + 1), n + 1 \in s
  PROVE  Largest(s) = n + 1
<1>1. \A y \in s : n + 1 >= y
  OBVIOUS
<1>2. Largest(s) \in s /\ \A y \in s : Largest(s) >= y
  BY <1>1 DEF Largest
<1>3. Largest(s) \in 1..n + 1 /\ Largest(s) >= n + 1
  BY <1>2
<1> QED
  BY <1>3

\* The function that FoldLeft chooses exists.
LEMMA FoldExists ==
  ASSUME NEW lines, NEW n \in Nat
  PROVE  \E iter : IsFold(iter, lines, n)
<1> DEFINE Bad == {k \in Nat : ~\E iter : IsFold(iter, lines, k)}
<1> SUFFICES ASSUME Bad # {} PROVE FALSE
  OBVIOUS
<1>1. PICK k \in Bad : \A j \in Bad : k <= j
  <2> HIDE DEF Bad
  <2>1. Bad \in SUBSET Nat
    BY DEF Bad
  <2> QED
    BY <2>1, Least
<1>2. k # 0
  <2> DEFINE iter == [s \in SUBSET (1..0) |-> Base]
  <2>1. \A s \in SUBSET (1..0) : s = {}
    OBVIOUS
  <2>2. IsFold(iter, lines, 0)
    BY <2>1 DEF IsFold
  <2> QED
    BY <2>2
<1>3. k - 1 \in Nat /\ k - 1 \notin Bad
  BY <1>1, <1>2
<1>4. PICK iter : IsFold(iter, lines, k - 1)
  BY <1>3
<1> DEFINE longer == [s \in SUBSET (1..k) |->
                        IF k \in s THEN Step(iter[s \ {k}], lines[k]) ELSE iter[s]]
<1>5. ASSUME NEW s \in SUBSET (1..k)
      PROVE  longer[s] = IF s = {} THEN Base
                                   ELSE Step(longer[s \ {Largest(s)}], lines[Largest(s)])
  <2>1. CASE k \in s
    <3>1. Largest(s) = k
      BY <1>3, <2>1, LargestIs
    <3>2. longer[s \ {k}] = iter[s \ {k}]
      OBVIOUS
    <3> QED
      BY <2>1, <3>1, <3>2
  <2>2. CASE k \notin s /\ s # {}
    <3>1. s \in SUBSET (1..k - 1)
      BY <1>1, <1>3, <2>2
    <3>2. iter[s] = Step(iter[s \ {Largest(s)}], lines[Largest(s)])
      BY <1>4, <2>2, <3>1 DEF IsFold
    <3>3. s \ {Largest(s)} \in SUBSET (1..k) /\ k \notin s \ {Largest(s)}
      BY <2>2
    <3> QED
      BY <2>2, <3>2, <3>3
  <2>3. CASE s = {}
    <3>1. {} \in SUBSET (1..k - 1)
      OBVIOUS
    <3>2. iter[{}] = Base
      BY <1>4, <3>1 DEF IsFold
    <3> QED
      BY <2>3, <3>2
  <2> QED
    BY <2>1, <2>2, <2>3
<1>6. IsFold(longer, lines, k)
  BY <1>5 DEF IsFold
<1> QED
  BY <1>1, <1>6

\* What the loop computes: acc[i] is what it has after i lines.
LEMMA FoldLoop ==
  ASSUME NEW lines, NEW n \in Nat, DOMAIN lines = 1..n
  PROVE  \E acc : /\ acc[0] = Base
                  /\ \A i \in 1..n : acc[i] = Step(acc[i - 1], lines[i])
                  /\ Fold(lines) = acc[n]
<1> DEFINE iter == CHOOSE f : IsFold(f, lines, n)
           acc == [i \in 0..n |-> iter[1..i]]
<1>1. IsFold(iter, lines, n)
  BY FoldExists
<1>2. Fold(lines) = iter[1..n]
  BY DEF Fold, FoldLeft, MapThenFoldSet, Max, Largest, IsFold
<1> HIDE DEF iter
<1>3. acc[0] = Base
  <2>1. 1..0 = {} /\ {} \in SUBSET (1..n) /\ 0 \in 0..n
    OBVIOUS
  <2> QED
    BY <1>1, <2>1 DEF IsFold
<1>4. ASSUME NEW i \in 1..n PROVE acc[i] = Step(acc[i - 1], lines[i])
  <2>1. 1..i \in SUBSET (1..n) /\ 1..i # {} /\ i - 1 \in Nat /\ i - 1 \in 0..n /\ i \in 0..n
    <3>1. i \in Nat /\ 1 <= i /\ i <= n
      OBVIOUS
    <3>2. \A j \in 1..i : j \in 1..n
      BY <3>1
    <3>3. 1 \in 1..i
      BY <3>1
    <3>4. i - 1 \in Nat /\ i - 1 \in 0..n /\ i \in 0..n
      BY <3>1
    <3> QED
      BY <3>2, <3>3, <3>4
  <2>2. Largest(1..i) = i
    <3>1. i \in 1..i
      OBVIOUS
    <3>2. i = (i - 1) + 1
      BY <2>1
    <3> QED
      BY <2>1, <3>1, <3>2, LargestIs
  <2>3. (1..i) \ {i} = 1..i - 1
    BY <2>1
  <2>4. iter[1..i] = Step(iter[(1..i) \ {i}], lines[i])
    BY <1>1, <2>1, <2>2 DEF IsFold
  <2> QED
    BY <2>1, <2>3, <2>4
<1>5. Fold(lines) = acc[n]
  BY <1>2
<1> HIDE DEF acc
<1> QED
  BY <1>3, <1>4, <1>5

=============================================================================
