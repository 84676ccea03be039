----------------------------- MODULE FoldProofs -----------------------------
(***************************************************************************)
(* Lemmas about the folds of the community modules, which the models use   *)
(* where the code walks over a queue or an array and changes its state at  *)
(* each record.  A fold is a function on the subsets of what is walked     *)
(* over, defined by recursion; it is given here by a table of the          *)
(* operation, so that no lemma takes an operator as a parameter.           *)
(***************************************************************************)
EXTENDS Integers, FiniteSets, SequencesExt, FiniteSetTheorems, WellFoundedInduction, TLAPS

\* The least element of a set of numbers.
LEMMA LeastNumber ==
  ASSUME NEW S \in SUBSET Nat, S # {}
  PROVE  \E i \in S : \A j \in S : i <= j
<1>1. PICK i \in S : \A j \in S : ~(<<j, i>> \in OpToRel(<, Nat))
  BY NatLessThanWellFounded, WFMin
<1>2. ASSUME NEW j \in S PROVE i <= j
  <2>1. ~(j < i)
    BY <1>1 DEF OpToRel
  <2> QED BY <2>1
<1> QED BY <1>2

\* pick takes an element from every set there is something left in.
PicksFrom(pick, S) == \A s \in SUBSET S : s # {} => pick[s] \in s
Completes(B, pick, S) ==
  {} \in B /\ \A s \in SUBSET S : s # {} /\ s \ {pick[s]} \in B => s \in B
\* h gives what the operation op makes of base and the elements of each subset.
IsTable(h, S, pick, base, op) ==
  \A s \in SUBSET S : h[s] = IF s = {} THEN base ELSE op[pick[s]][h[s \ {pick[s]}]]

\* A family that holds the empty set, and every set that holds it without the element
\* the walk takes from it, holds every subset.
LEMMA OneByOne ==
  ASSUME NEW S, IsFiniteSet(S), NEW pick, PicksFrom(pick, S),
         NEW B, Completes(B, pick, S)
  PROVE  SUBSET S \subseteq B
<1> USE DEF PicksFrom, Completes
<1> DEFINE Out == {n \in Nat : \E s \in SUBSET S : s \notin B /\ Cardinality(s) = n}
<1>1. SUFFICES ASSUME Out # {} PROVE FALSE
  <2>1. \A s \in SUBSET S : Cardinality(s) \in Nat
    BY FS_Subset, FS_CardinalityType
  <2> QED BY <2>1
<1>2. PICK n \in Out : \A m \in Out : n <= m
  <2>1. Out \in SUBSET Nat
    OBVIOUS
  <2> HIDE DEF Out
  <2> QED BY <1>1, <2>1, LeastNumber
<1>3. PICK s \in SUBSET S : s \notin B /\ Cardinality(s) = n
  OBVIOUS
<1>4. s # {} /\ pick[s] \in s
  BY <1>3
<1> DEFINE t == s \ {pick[s]}
<1>5. t \in SUBSET S /\ t \notin B
  BY <1>3, <1>4
<1>6. IsFiniteSet(s)
  BY FS_Subset
<1>7. Cardinality(t) = n - 1
  BY <1>3, <1>4, <1>6, FS_RemoveElement
<1>8. Cardinality(t) \in Nat
  BY <1>5, FS_Subset, FS_CardinalityType
<1>9. n - 1 \in Out
  BY <1>5, <1>7, <1>8
<1>10. n \in Nat /\ n <= n - 1
  BY <1>2, <1>9
<1> QED BY <1>10

\* The table of a fold: there is a function that gives for each subset what the
\* operation op makes of its elements, taken in the order of pick.
LEMMA FoldTable ==
  ASSUME NEW S, IsFiniteSet(S), NEW pick, PicksFrom(pick, S),
         NEW I, NEW base \in I, NEW op \in [S -> [I -> I]]
  PROVE  \E h \in [SUBSET S -> I] : IsTable(h, S, pick, base, op)
<1> USE DEF PicksFrom
<1> DEFINE Upto(n) == {s \in SUBSET S : Cardinality(s) <= n}
           Fills(h, n) == \A s \in Upto(n) :
             h[s] = IF s = {} THEN base ELSE op[pick[s]][h[s \ {pick[s]}]]
           Lacking == {n \in Nat : ~ \E h \in [Upto(n) -> I] : Fills(h, n)}
<1>1. \A s \in SUBSET S : IsFiniteSet(s) /\ Cardinality(s) \in Nat
  BY FS_Subset, FS_CardinalityType
<1>2. \A s \in SUBSET S : s # {} =>
        s \ {pick[s]} \in SUBSET S /\ Cardinality(s \ {pick[s]}) = Cardinality(s) - 1
  BY <1>1, FS_RemoveElement
<1>3. {} \in SUBSET S /\ Cardinality({}) = 0
        /\ \A s \in SUBSET S : Cardinality(s) = 0 => s = {}
  BY <1>1, FS_EmptySet
<1>4. 0 \notin Lacking
  <2> DEFINE h == [s \in Upto(0) |-> base]
  <2>1. \A s \in Upto(0) : s = {}
    BY <1>1, <1>3
  <2>2. h \in [Upto(0) -> I] /\ Fills(h, 0)
    BY <2>1
  <2> QED BY <2>2
<1>5. ASSUME NEW n \in Nat, n \notin Lacking PROVE n + 1 \notin Lacking
  <2>1. PICK g \in [Upto(n) -> I] : Fills(g, n)
    BY <1>5
  <2> DEFINE Value(s) == IF s \in Upto(n) THEN g[s] ELSE op[pick[s]][g[s \ {pick[s]}]]
             h == [s \in Upto(n + 1) |-> Value(s)]
  <2>2. Upto(n) \subseteq Upto(n + 1)
    BY <1>1
  <2>3. \A s \in Upto(n + 1) : s # {} => s \ {pick[s]} \in Upto(n)
    BY <1>1, <1>2
  <2>4. {} \in Upto(n)
    BY <1>3
  <2>5. \A s \in Upto(n + 1) : h[s] \in I
    <3> SUFFICES ASSUME NEW s \in Upto(n + 1) PROVE h[s] \in I
      OBVIOUS
    <3>1. CASE s \in Upto(n)
      <4> HIDE DEF Upto
      <4> QED BY <3>1, <2>2
    <3>2. CASE s \notin Upto(n)
      <4>1. s # {} /\ pick[s] \in S /\ g[s \ {pick[s]}] \in I
        BY <3>2, <2>3, <2>4
      <4>2. op[pick[s]][g[s \ {pick[s]}]] \in I
        <5> DEFINE x == g[s \ {pick[s]}]
        <5>1. op[pick[s]] \in [I -> I] /\ x \in I
          BY <4>1
        <5>2. op[pick[s]][x] \in I
          <6> HIDE DEF x
          <6> QED BY <5>1
        <5> QED BY <5>2
      <4> HIDE DEF Upto
      <4>3. h[s] = op[pick[s]][g[s \ {pick[s]}]]
        BY <3>2
      <4> QED BY <4>2, <4>3
    <3> QED BY <3>1, <3>2
  <2>6. Fills(h, n + 1)
    <3> SUFFICES ASSUME NEW s \in Upto(n + 1)
                 PROVE  h[s] = IF s = {} THEN base ELSE op[pick[s]][h[s \ {pick[s]}]]
      OBVIOUS
    <3>1. s # {} => h[s \ {pick[s]}] = g[s \ {pick[s]}]
      BY <2>2, <2>3
    <3> HIDE DEF Fills
    <3>2. CASE s \in Upto(n)
      <4>1. h[s] = g[s]
        BY <3>2, <2>2
      <4>2. g[s] = IF s = {} THEN base ELSE op[pick[s]][g[s \ {pick[s]}]]
        BY <3>2, <2>1 DEF Fills
      <4> QED BY <3>1, <4>1, <4>2
    <3>3. CASE s \notin Upto(n)
      <4>1. s # {} /\ h[s] = op[pick[s]][g[s \ {pick[s]}]]
        BY <3>3, <2>4
      <4> QED BY <3>1, <4>1
    <3> QED BY <3>2, <3>3
  <2>7. h \in [Upto(n + 1) -> I]
    <3> HIDE DEF Upto
    <3> QED BY <2>5
  <2> QED BY <2>6, <2>7
<1>6. Lacking = {}
  <2>1. Lacking \in SUBSET Nat
    OBVIOUS
  <2> HIDE DEF Lacking
  <2>2. SUFFICES ASSUME Lacking # {} PROVE FALSE
    OBVIOUS
  <2>3. PICK n \in Lacking : \A m \in Lacking : n <= m
    BY <2>1, <2>2, LeastNumber
  <2>4. n \in Nat /\ n # 0
    BY <2>1, <2>3, <1>4
  <2>5. n - 1 \in Nat /\ (n - 1) + 1 = n /\ ~(n <= n - 1)
    BY <2>4
  <2> QED BY <2>3, <2>5, <1>5
<1>7. Cardinality(S) \in Nat /\ Upto(Cardinality(S)) = SUBSET S
  BY <1>1, FS_Subset, FS_CardinalityType
<1>8. PICK h \in [Upto(Cardinality(S)) -> I] : Fills(h, Cardinality(S))
  BY <1>6, <1>7
<1> QED BY <1>7, <1>8 DEF IsTable

\* A walk over a sequence takes the last of the places still to come (community Max).
LEMMA LargestOf ==
  ASSUME NEW n \in Nat, NEW s \in SUBSET (1..n), s # {}
  PROVE  /\ Max(s) \in s
         /\ \A i \in s : i <= Max(s)
<1> DEFINE T == {n - i : i \in s}
<1>1. \A i \in s : i \in Int /\ 1 <= i /\ i <= n
  OBVIOUS
<1>2. \A i \in s : n - i \in Nat
  BY <1>1
<1>3. T \in SUBSET Nat /\ T # {}
  BY <1>2
<1>4. PICK t \in T : \A u \in T : t <= u
  <2> HIDE DEF T
  <2> QED BY <1>3, LeastNumber
<1>5. PICK i \in s : t = n - i
  BY <1>4
<1>6. ASSUME NEW j \in s PROVE i >= j
  <2>1. n - i <= n - j
    BY <1>4, <1>5
  <2> QED BY <2>1, <1>1
<1>7. \E x \in s : \A y \in s : x >= y
  BY <1>6
<1>8. Max(s) \in s /\ \A y \in s : Max(s) >= y
  BY <1>7 DEF Max
<1> QED BY <1>1, <1>8

\* Each step of the walk stays within I.
Keeps(walk, n, I) ==
  \A s \in SUBSET (1..n) : s # {} /\ walk[s \ {Max(s)}] \in I => walk[s] \in I

\* What every step of a walk keeps holds at its end.
LEMMA WalkStays ==
  ASSUME NEW n \in Nat, NEW walk, NEW I, walk[{}] \in I, Keeps(walk, n, I)
  PROVE  walk[1..n] \in I
<1> DEFINE Places == 1..n
           pick == [s \in SUBSET Places |-> Max(s)]
           B == {s \in SUBSET Places : walk[s] \in I}
<1>1. \A s \in SUBSET Places : s # {} => pick[s] = Max(s) /\ Max(s) \in s
  BY LargestOf
<1>2. PicksFrom(pick, Places)
  BY <1>1 DEF PicksFrom
<1>3. IsFiniteSet(Places)
  BY FS_Interval
<1>4. Completes(B, pick, Places)
  <2>1. {} \in B
    OBVIOUS
  <2>2. ASSUME NEW s \in SUBSET Places, s # {}, s \ {pick[s]} \in B PROVE s \in B
    <3>1. walk[s \ {Max(s)}] \in I
      BY <1>1, <2>2
    <3> QED BY <2>2, <3>1 DEF Keeps
  <2> HIDE DEF B, pick
  <2> QED BY <2>1, <2>2 DEF Completes
<1>5. SUBSET Places \subseteq B
  <2> HIDE DEF Places, pick, B
  <2> QED BY <1>2, <1>3, <1>4, OneByOne
<1> QED BY <1>5

\* What holds at first, and after a step when it held before, holds at the end.
LEMMA StepByStep ==
  ASSUME NEW n \in Nat, NEW G, 0 \in G, \A i \in 1 .. n : i - 1 \in G => i \in G
  PROVE  \A i \in 0 .. n : i \in G
<1> DEFINE Out == {i \in 0 .. n : i \notin G}
<1>1. SUFFICES ASSUME Out # {} PROVE FALSE
  OBVIOUS
<1>2. PICK i \in Out : \A j \in Out : i <= j
  <2>1. Out \in SUBSET Nat
    OBVIOUS
  <2> HIDE DEF Out
  <2> QED BY <1>1, <2>1, LeastNumber
<1>3. i \in 1 .. n /\ i - 1 \in 0 .. n
  OBVIOUS
<1>4. i - 1 \notin Out
  BY <1>2, <1>3
<1> QED BY <1>3, <1>4
=============================================================================
