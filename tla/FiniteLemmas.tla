----------------------------- MODULE FiniteLemmas -----------------------------
(***************************************************************************)
(* Facts about finite sets, minima and maxima that the proofs of the       *)
(* components share.  Induction over a finite set is by a set of good      *)
(* subsets in the place of a predicate.                                    *)
(***************************************************************************)
EXTENDS Integers, FiniteSets, FiniteSetsExt, FiniteSetTheorems,
        WellFoundedInduction, TLAPS

\* A non-empty set of naturals has a least element.
LEMMA LeastOfNat ==
    ASSUME NEW S \in SUBSET Nat, S # {}
    PROVE  Min(S) \in S /\ \A x \in S : Min(S) <= x
<1> DEFINE Less == OpToRel(<, Nat)
<1>1. ASSUME NEW x \in Nat, NEW y \in Nat, x < y
      PROVE  <<x, y>> \in Less
  BY <1>1 DEF OpToRel
<1>2. PICK m \in S : \A y \in S : ~ (<<y, m>> \in Less)
  BY WFMin, NatLessThanWellFounded
<1> HIDE DEF Less
<1>3. \A y \in S : m <= y
  <2>1. TAKE y \in S
  <2>2. m \in Nat /\ y \in Nat
    OBVIOUS
  <2>3. ~(y < m)
    BY <1>1, <1>2, <2>2
  <2> QED
    BY <2>2, <2>3
<1> QED
  BY <1>3 DEF Min

\* A set of naturals with a bound has a greatest element.
LEMMA GreatestUpTo ==
    ASSUME NEW n \in Nat, NEW S \in SUBSET (0..n), S # {}
    PROVE  Max(S) \in S /\ \A x \in S : x <= Max(S)
<1> DEFINE T == {n - x : x \in S}
<1>1. T \in SUBSET Nat /\ T # {}
  <2>1. \A x \in S : n - x \in Nat
    OBVIOUS
  <2> QED
    BY <2>1
<1>2. PICK m \in S : Min(T) = n - m
  BY <1>1, LeastOfNat
<1>3. \A x \in S : Min(T) <= n - x
  BY <1>1, LeastOfNat
<1> HIDE DEF T
<1>4. \A x \in S : m >= x
  BY <1>2, <1>3
<1> QED
  BY <1>4 DEF Max

Picked(S) == CHOOSE x \in S : TRUE

\* A finite set has what its empty subset has and a subset gets with the
\* element that CHOOSE picks of it.
LEMMA SubsetInduction ==
    ASSUME NEW S, IsFiniteSet(S), NEW Good, {} \in Good,
           \A T \in SUBSET S : T # {} /\ T \ {Picked(T)} \in Good => T \in Good
    PROVE  S \in Good
<1> SUFFICES ASSUME S \notin Good PROVE FALSE
  OBVIOUS
<1> DEFINE Sizes == {Cardinality(T) : T \in {U \in SUBSET S : U \notin Good}}
<1>1. \A T \in SUBSET S : IsFiniteSet(T) /\ Cardinality(T) \in Nat
  BY FS_Subset, FS_CardinalityType
<1>2. Sizes \in SUBSET Nat /\ Sizes # {}
  BY <1>1
<1>3. PICK T \in SUBSET S : T \notin Good /\ Cardinality(T) = Min(Sizes)
  <2>1. Min(Sizes) \in Sizes
    BY <1>2, LeastOfNat
  <2> QED
    BY <2>1
<1>4. T # {} /\ Picked(T) \in T
  <2>1. T # {}
    BY <1>3
  <2> QED
    BY <2>1 DEF Picked
<1>5. Cardinality(T \ {Picked(T)}) = Cardinality(T) - 1
  BY <1>1, <1>4, FS_RemoveElement
<1>6. T \ {Picked(T)} \notin Good
  BY <1>3, <1>4
<1>7. Min(Sizes) <= Cardinality(T \ {Picked(T)})
  BY <1>2, <1>6, LeastOfNat
<1> QED
  BY <1>1, <1>3, <1>5, <1>7

\* A finite set of naturals has a greatest element.
LEMMA GreatestOfFinite ==
    ASSUME NEW S \in SUBSET Nat, IsFiniteSet(S), S # {}
    PROVE  Max(S) \in S /\ \A x \in S : x <= Max(S)
<1> DEFINE Good == {T \in SUBSET S : \E n \in Nat : \A x \in T : x <= n}
<1>1. {} \in Good
  OBVIOUS
<1>2. ASSUME NEW T \in SUBSET S, T # {}, T \ {Picked(T)} \in Good
      PROVE  T \in Good
  <2>1. PICK n \in Nat : \A x \in T \ {Picked(T)} : x <= n
    BY <1>2
  <2>2. Picked(T) \in Nat
    BY <1>2 DEF Picked
  <2>3. \A x \in T : x <= n + Picked(T)
    BY <2>1, <2>2
  <2>4. n + Picked(T) \in Nat
    BY <2>1, <2>2
  <2> QED
    BY <2>3, <2>4
<1>3. S \in Good
  <2> HIDE DEF Good
  <2> QED
    BY <1>1, <1>2, SubsetInduction
<1>4. PICK n \in Nat : \A x \in S : x <= n
  BY <1>3
<1>5. S \in SUBSET (0..n)
  BY <1>4
<1> QED
  BY <1>5, GreatestUpTo

\* What a function takes a finite set to is finite.
LEMMA FiniteImage ==
    ASSUME NEW S, IsFiniteSet(S), NEW f
    PROVE  IsFiniteSet({f[x] : x \in S})
<1> DEFINE T == {f[x] : x \in S}
           g == [x \in S |-> f[x]]
<1>1. g \in [S -> T]
  OBVIOUS
<1>2. \A t \in T : \E x \in S : g[x] = t
  OBVIOUS
<1>3. g \in Surjection(S, T)
  BY <1>1, <1>2 DEF Surjection
<1> QED
  BY <1>3, FS_Surjection
=============================================================================
