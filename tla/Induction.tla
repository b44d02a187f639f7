------------------------------ MODULE Induction ------------------------------
(***************************************************************************)
(* Induction in the form the proofs about loops use: over a set of numbers *)
(* instead of a predicate, which an operator parameter would have to be.   *)
(***************************************************************************)
EXTENDS Integers, FiniteSets, FiniteSetTheorems, WellFoundedInduction, TLAPS

\* A set of naturals that is not empty has a least element.
LEMMA Least ==
  ASSUME NEW T \in SUBSET Nat, T # {}
  PROVE  \E x \in T : \A y \in T : x <= y
<1> DEFINE R == StrictSubsetOrdering(Nat)
           Below(n) == 0..n
<1>1. \A x, y \in Nat : y < x => <<Below(y), Below(x)>> \in R
  <2> SUFFICES ASSUME NEW x \in Nat, NEW y \in Nat, y < x
               PROVE  <<Below(y), Below(x)>> \in R
    OBVIOUS
  <2>1. Below(y) \subseteq Below(x) /\ Below(y) # Below(x)
    <3>1. x \in Below(x) /\ x \notin Below(y)
      OBVIOUS
    <3> QED
      BY <3>1
  <2>2. Below(y) \in SUBSET Nat /\ Below(x) \in SUBSET Nat
    OBVIOUS
  <2> QED
    BY <2>1, <2>2 DEF StrictSubsetOrdering
<1>2. \A x \in T : Below(x) \in FiniteSubsetsOf(Nat)
  BY FS_Interval DEF FiniteSubsetsOf
<1>3. {Below(x) : x \in T} # {} /\ {Below(x) : x \in T} \subseteq FiniteSubsetsOf(Nat)
  BY <1>2
<1> HIDE DEF R, Below
<1>4. \E b \in {Below(x) : x \in T} : \A d \in {Below(x) : x \in T} : ~ (<<d, b>> \in R)
  BY <1>3, FS_StrictSubsetOrderingWellFounded, WFMin DEF R
<1>5. PICK x \in T : \A y \in T : ~ (<<Below(y), Below(x)>> \in R)
  BY <1>4
<1>6. ASSUME NEW y \in T
      PROVE  x <= y
  <2>1. y < x => <<Below(y), Below(x)>> \in R
    BY <1>1
  <2> QED
    BY <1>5, <2>1
<1> QED
  BY <1>6

\* The principle of induction over the naturals.
LEMMA Induct ==
  ASSUME NEW S \in SUBSET Nat, 0 \in S, \A n \in S : n + 1 \in S
  PROVE  S = Nat
<1> SUFFICES ASSUME Nat \ S # {} PROVE FALSE
  OBVIOUS
<1>1. PICK x \in Nat \ S : \A y \in Nat \ S : x <= y
  BY Least
<1>2. x - 1 \in Nat /\ x - 1 \in S
  BY <1>1
<1> QED
  BY <1>1, <1>2

\* The same up to a bound.
LEMMA InductUpTo ==
  ASSUME NEW N \in Nat, NEW S \in SUBSET (0..N),
         0 \in S, \A n \in 1..N : n - 1 \in S => n \in S
  PROVE  S = 0..N
<1> DEFINE T == {n \in Nat : n <= N => n \in S}
<1>1. 0 \in T
  OBVIOUS
<1>2. ASSUME NEW n \in T
      PROVE  n + 1 \in T
  <2>1. CASE n + 1 <= N
    <3>1. n \in S /\ n + 1 \in 1..N /\ (n + 1) - 1 = n
      BY <2>1
    <3>2. n + 1 \in S
      BY <3>1
    <3> QED
      BY <3>2
  <2>2. CASE ~(n + 1 <= N)
    BY <2>2
  <2> QED
    BY <2>1, <2>2
<1>3. T \in SUBSET Nat
  OBVIOUS
<1>4. T = Nat
  <2> HIDE DEF T
  <2> QED
    BY <1>1, <1>2, <1>3, Induct
<1>5. ASSUME NEW n \in 0..N
      PROVE  n \in S
  <2>1. n \in T
    BY <1>4
  <2> QED
    BY <2>1
<1> QED
  BY <1>5

\* The same between two bounds.
LEMMA InductFrom ==
  ASSUME NEW p \in Int, NEW q \in Int, NEW S,
         p \in S, \A k \in (p + 1)..q : k - 1 \in S => k \in S
  PROVE  \A k \in p..q : k \in S
<1> SUFFICES ASSUME p <= q
             PROVE  \A k \in p..q : k \in S
  OBVIOUS
<1> DEFINE N == q - p
           T == {n \in 0..N : p + n \in S}
<1>1. N \in Nat /\ T \in SUBSET (0..N) /\ 0 \in T
  OBVIOUS
<1>2. ASSUME NEW n \in 1..N, n - 1 \in T
      PROVE  n \in T
  <2>1. p + n \in (p + 1)..q /\ (p + n) - 1 = p + (n - 1)
    OBVIOUS
  <2>2. p + n \in S
    BY <1>2, <2>1
  <2> QED
    BY <2>2
<1>3. T = 0..N
  <2> HIDE DEF T, N
  <2> QED
    BY <1>1, <1>2, InductUpTo
<1>4. ASSUME NEW k \in p..q
      PROVE  k \in S
  <2>1. k - p \in 0..N /\ p + (k - p) = k
    OBVIOUS
  <2>2. k - p \in T
    BY <1>3, <2>1
  <2> QED
    BY <2>1, <2>2
<1> QED
  BY <1>4
=============================================================================
