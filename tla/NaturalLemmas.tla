---------------------------- MODULE NaturalLemmas ----------------------------
(***************************************************************************)
(* Induction over the natural numbers, from the fact that every set of     *)
(* them has a least element, and what follows for finite sets of them.     *)
(***************************************************************************)
EXTENDS Integers, FiniteSets, FiniteSetTheorems, WellFoundedInduction, TLAPS

\* Every set of natural numbers has a least element.
LEMMA LeastNatural ==
    ASSUME NEW T \in SUBSET Nat, T # {}
    PROVE  \E x \in T : \A y \in T : x <= y
<1>1. IsWellFoundedOn(OpToRel(<, Nat), Nat)
  BY NatLessThanWellFounded
<1>2. PICK x \in T : \A y \in T : ~ (<<y, x>> \in OpToRel(<, Nat))
  BY <1>1, WFMin, Zenon
<1>3. \A y \in T : ~ (y < x)
  BY <1>2 DEF OpToRel
<1> QED
  BY <1>3

\* A set that has 0 and the successor of each of its members below N has all up to N.
LEMMA UpTo ==
    ASSUME NEW N \in Nat, NEW S, 0 \in S,
           \A n \in 0..N : n < N /\ n \in S => n + 1 \in S
    PROVE  0..N \subseteq S
<1> SUFFICES ASSUME (0..N) \ S # {} PROVE FALSE
  OBVIOUS
<1>1. (0..N) \ S \in SUBSET Nat
  OBVIOUS
<1>2. PICK x \in (0..N) \ S : \A y \in (0..N) \ S : x <= y
  BY <1>1, LeastNatural
<1>3. x # 0
  BY <1>2
<1>4. x - 1 \in 0..N /\ x - 1 < N /\ x - 1 \in S
  BY <1>2, <1>3
<1> QED
  BY <1>2, <1>4

\* A set of natural numbers that is bounded has a largest element.
LEMMA LargestBelow ==
    ASSUME NEW T \in SUBSET Nat, T # {}, NEW b \in Nat, \A x \in T : x <= b
    PROVE  \E x \in T : \A y \in T : y <= x
  <1> DEFINE D == {b - x : x \in T}
  <1>1. D \in SUBSET Nat /\ D # {}
    <2>1. \A x \in T : x \in Nat /\ b - x \in Nat
      OBVIOUS
    <2>2. \E x \in T : b - x \in D
      OBVIOUS
    <2> QED
      BY <2>1, <2>2
  <1>2. IsWellFoundedOn(OpToRel(<, Nat), Nat)
    BY NatLessThanWellFounded
  <1>3. PICK d \in D : \A e \in D : ~ (<<e, d>> \in OpToRel(<, Nat))
    <2> HIDE DEF D
    <2> QED
      BY <1>1, <1>2, WFMin, Zenon
  <1>4. \A e \in D : ~ (e < d)
    BY <1>1, <1>3 DEF OpToRel
  <1>5. PICK x \in T : d = b - x
    OBVIOUS
  <1>6. ASSUME NEW y \in T PROVE y <= x
    <2>1. b - y \in D /\ ~ (b - y < b - x)
      BY <1>4, <1>5
    <2> QED
      BY <2>1
  <1> QED
    BY <1>6

\* A finite set of natural numbers has a member with any smaller number of
\* members below it.
LEMMA NthExists ==
    ASSUME NEW S \in SUBSET Nat, IsFiniteSet(S), NEW i \in 1..Cardinality(S)
    PROVE  \E p \in S : Cardinality({q \in S : q < p}) = i - 1
  <1> DEFINE Below(p) == {q \in S : q < p}
             N == Cardinality(S)
             T == {n \in 0..(N - 1) : \E p \in S : Cardinality(Below(p)) = n}
  <1>1. N \in Nat /\ N # 0 /\ S # {}
    BY FS_CardinalityType, FS_EmptySet
  <1>2. 0 \in T
    <2>1. PICK p \in S : \A q \in S : p <= q
      BY <1>1, LeastNatural
    <2>2. Below(p) = {}
      <3>1. \A q \in S : q \in Nat /\ ~ (q < p)
        BY <2>1
      <3> QED
        BY <3>1
    <2> HIDE DEF Below, N
    <2>3. Cardinality(Below(p)) = 0
      BY <2>2, FS_EmptySet
    <2> QED
      BY <1>1, <2>3
  <1>3. ASSUME NEW n \in 0..(N - 1), n < N - 1, n \in T PROVE n + 1 \in T
    <2>1. PICK p \in S : Cardinality(Below(p)) = n
      BY <1>3
    <2> DEFINE B == Below(p) \cup {p}
    <2>2. IsFiniteSet(Below(p)) /\ p \notin Below(p)
      BY FS_Subset
    <2>3. IsFiniteSet(B) /\ Cardinality(B) = n + 1
      <3> HIDE DEF Below
      <3> QED
        BY <2>1, <2>2, FS_AddElement
    <2>4. S \ B # {}
      <3>1. B \subseteq S
        OBVIOUS
      <3>2. Cardinality(B) # N
        BY <1>1, <1>3, <2>3
      <3>3. B # S
        BY <3>2
      <3> HIDE DEF B
      <3> QED
        BY <3>1, <3>3
    <2>5. S \ B \in SUBSET Nat
      OBVIOUS
    <2>6. PICK r \in S \ B : \A q \in S \ B : r <= q
      <3> HIDE DEF B
      <3> QED
        BY <2>4, <2>5, LeastNatural
    <2>7. r \in S /\ p < r
      BY <2>6
    <2>8. Below(r) = B
      <3>1. ASSUME NEW q \in S, q < r PROVE q \in B
        BY <2>6, <3>1, q \in Nat, r \in Nat
      <3>2. ASSUME NEW q \in B PROVE q \in S /\ q < r
        BY <2>7, <3>2, p \in Nat, r \in Nat
      <3> HIDE DEF B
      <3> QED
        BY <3>1, <3>2
    <2>9. Cardinality(Below(r)) = n + 1
      <3> HIDE DEF B, Below
      <3> QED
        BY <2>3, <2>8
    <2> HIDE DEF Below, N
    <2> QED
      BY <1>1, <1>3, <2>7, <2>9
  <1>4. 0..(N - 1) \subseteq T
    <2> HIDE DEF T, N
    <2>1. N - 1 \in Nat
      BY <1>1
    <2> QED
      BY <1>2, <1>3, <2>1, UpTo
  <1>5. i - 1 \in 0..(N - 1)
    BY <1>1
  <1> QED
    BY <1>4, <1>5
=============================================================================
