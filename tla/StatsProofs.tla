------------------------------ MODULE StatsProofs ------------------------------
(***************************************************************************)
(* What a report of StatsCollector can show, for any number of queries,    *)
(* clients, domains, lists and upstreams, bumping and loading in any order.*)
(***************************************************************************)
EXTENDS Stats, FiniteLemmas

-----------------------------------------------------------------------------
\* Sums over finite sets.  f and g below are functions on the set or more.

\* What the fold of SumOver computes, for the subsets in `sets`.
SumFrom(f, sums, s) == IF s = {} THEN 0 ELSE f[Picked(s)] + sums[s \ {Picked(s)}]
Adds(f, sets, sums) == sums = [s \in sets |-> SumFrom(f, sums, s)]

LEMMA SumDef ==
    ASSUME NEW f, NEW S
    PROVE  SumOver(f, S) = (CHOOSE sums : Adds(f, SUBSET S, sums))[S]
  BY Zenon DEF SumOver, MapThenSumSet, MapThenFoldSet, Adds, SumFrom, Picked

\* The recursion has a solution: one for the subsets of up to n elements gives
\* one for those of n + 1.
LEMMA AddsExists ==
    ASSUME NEW f, NEW S, IsFiniteSet(S)
    PROVE  \E sums : Adds(f, SUBSET S, sums)
<1> DEFINE UpTo(n) == {s \in SUBSET S : Cardinality(s) <= n}
           Bad == {n \in Nat : ~ \E sums : Adds(f, UpTo(n), sums)}
<1>1. \A s \in SUBSET S : IsFiniteSet(s) /\ Cardinality(s) \in Nat
  BY FS_Subset, FS_CardinalityType
<1>2. \A s \in SUBSET S : s # {} =>
          Picked(s) \in s /\ Cardinality(s \ {Picked(s)}) = Cardinality(s) - 1
  <2> TAKE s \in SUBSET S
  <2> HAVE s # {}
  <2>1. Picked(s) \in s
    BY DEF Picked
  <2> QED
    BY <1>1, <2>1, FS_RemoveElement
<1>3. Bad = {}
  <2> SUFFICES ASSUME Bad # {} PROVE FALSE
    OBVIOUS
  <2> DEFINE n == Min(Bad)
  <2>1. n \in Bad /\ n \in Nat /\ \A m \in Bad : n <= m
    BY LeastOfNat
  <2> HIDE DEF n
  <2>2. CASE n = 0
    <3> DEFINE none == [s \in UpTo(0) |-> 0]
    <3>1. \A s \in UpTo(0) : s = {}
      BY <1>1, FS_EmptySet
    <3>2. Adds(f, UpTo(0), none)
      BY <3>1 DEF Adds, SumFrom
    <3> QED
      BY <2>1, <2>2, <3>2
  <2>3. CASE n # 0
    <3>1. n - 1 \in Nat /\ n - 1 \notin Bad
      <4>1. n - 1 \in Nat /\ ~(n <= n - 1)
        BY <2>1, <2>3
      <4> HIDE DEF Bad
      <4> QED
        BY <2>1, <4>1
    <3>2. PICK sums : Adds(f, UpTo(n - 1), sums)
      BY <3>1
    <3> DEFINE more == [s \in UpTo(n) |-> SumFrom(f, sums, s)]
    <3>3. \A s \in UpTo(n) : s # {} => s \ {Picked(s)} \in UpTo(n - 1)
      BY <1>1, <1>2, <2>1
    <3>4. \A s \in UpTo(n - 1) : s \in UpTo(n) /\ sums[s] = SumFrom(f, sums, s)
      BY <1>1, <2>1, <3>2 DEF Adds
    <3>5. \A s \in UpTo(n - 1) : more[s] = sums[s]
      BY <3>4
    <3>6. \A s \in UpTo(n) : SumFrom(f, sums, s) = SumFrom(f, more, s)
      <4> HIDE DEF more
      <4> QED
        BY <3>3, <3>5 DEF SumFrom
    <3>7. Adds(f, UpTo(n), more)
      BY <3>6 DEF Adds
    <3> QED
      BY <2>1, <3>7
  <2> QED
    BY <2>2, <2>3
<1>4. Cardinality(S) \in Nat /\ Cardinality(S) \notin Bad
  BY <1>3, FS_CardinalityType
<1>5. \A s \in SUBSET S : Cardinality(s) <= Cardinality(S)
  BY FS_Subset
<1>6. UpTo(Cardinality(S)) = SUBSET S
  BY <1>5
<1> QED
  BY <1>4, <1>6

LEMMA SumAdds ==
    ASSUME NEW f, NEW S, IsFiniteSet(S)
    PROVE  \E sums : Adds(f, SUBSET S, sums) /\ SumOver(f, S) = sums[S]
  BY AddsExists, SumDef

\* A sum is what is picked and the sum of the rest.
LEMMA SumNext ==
    ASSUME NEW f, NEW S, IsFiniteSet(S)
    PROVE  /\ S = {} => SumOver(f, S) = 0
           /\ S # {} => SumOver(f, S) = f[Picked(S)] + SumOver(f, S \ {Picked(S)})
<1>1. PICK sums : Adds(f, SUBSET S, sums) /\ SumOver(f, S) = sums[S]
  BY SumAdds
<1>2. sums[S] = SumFrom(f, sums, S)
  BY <1>1 DEF Adds
<1>3. ASSUME S # {}
      PROVE  SumOver(f, S \ {Picked(S)}) = sums[S \ {Picked(S)}]
  <2> DEFINE R == S \ {Picked(S)}
  <2>1. IsFiniteSet(R) /\ R \in SUBSET S
    BY FS_Subset
  <2> HIDE DEF R
  <2>2. PICK less : Adds(f, SUBSET R, less) /\ SumOver(f, R) = less[R]
    BY <2>1, SumAdds
  <2> DEFINE Good == {T \in SUBSET R : less[T] = sums[T]}
  <2>3. \A T \in SUBSET R : less[T] = SumFrom(f, less, T) /\ sums[T] = SumFrom(f, sums, T)
    BY <1>1, <2>1, <2>2 DEF Adds
  <2>4. {} \in Good
    BY <2>3 DEF SumFrom
  <2>5. \A T \in SUBSET R : T # {} /\ T \ {Picked(T)} \in Good => T \in Good
    BY <2>3 DEF SumFrom
  <2> HIDE DEF Good
  <2>6. R \in Good
    BY <2>1, <2>4, <2>5, SubsetInduction
  <2>7. less[R] = sums[R]
    BY <2>6 DEF Good
  <2> QED
    BY <2>2, <2>7 DEF R
<1> QED
  BY <1>1, <1>2, <1>3 DEF SumFrom

LEMMA SumRest ==
    ASSUME NEW T, T # {}
    PROVE  Picked(T) \in T
  BY DEF Picked

\* Sums of naturals are naturals.
LEMMA SumType ==
    ASSUME NEW S, IsFiniteSet(S), NEW f, \A x \in S : f[x] \in Nat
    PROVE  SumOver(f, S) \in Nat
<1> DEFINE Good == {T \in SUBSET S : SumOver(f, T) \in Nat}
<1>1. \A T \in SUBSET S : IsFiniteSet(T)
  BY FS_Subset
<1>2. {} \in Good
  <2>1. SumOver(f, {}) = 0
    BY <1>1, SumNext
  <2> QED
    BY <2>1
<1>3. ASSUME NEW T \in SUBSET S, T # {}, T \ {Picked(T)} \in Good
      PROVE  T \in Good
  BY <1>1, <1>3, SumNext, SumRest
<1> HIDE DEF Good
<1>4. S \in Good
  BY <1>2, <1>3, SubsetInduction
<1> QED
  BY <1>4 DEF Good

\* A sum of smaller terms, two at a time, is smaller: used with one sum and
\* with the sum of two.
LEMMA SumMono ==
    ASSUME NEW S, IsFiniteSet(S), NEW f, NEW g, NEW h,
           \A x \in S : f[x] \in Nat /\ g[x] \in Nat /\ h[x] \in Nat /\ f[x] + g[x] <= h[x]
    PROVE  SumOver(f, S) + SumOver(g, S) <= SumOver(h, S)
<1> DEFINE Good == {T \in SUBSET S : SumOver(f, T) + SumOver(g, T) <= SumOver(h, T)}
<1>1. \A T \in SUBSET S : IsFiniteSet(T)
  BY FS_Subset
<1>2. {} \in Good
  <2>1. \A k : SumOver(k, {}) = 0
    BY <1>1, SumNext
  <2> QED
    BY <2>1
<1>3. ASSUME NEW T \in SUBSET S, T # {}, T \ {Picked(T)} \in Good
      PROVE  T \in Good
  <2>1. Picked(T) \in S /\ IsFiniteSet(T) /\ IsFiniteSet(T \ {Picked(T)})
    BY <1>1, <1>3, SumRest
  <2>2. /\ SumOver(f, T) = f[Picked(T)] + SumOver(f, T \ {Picked(T)})
        /\ SumOver(g, T) = g[Picked(T)] + SumOver(g, T \ {Picked(T)})
        /\ SumOver(h, T) = h[Picked(T)] + SumOver(h, T \ {Picked(T)})
    BY <1>3, <2>1, SumNext
  <2>3. /\ SumOver(f, T \ {Picked(T)}) \in Nat /\ SumOver(g, T \ {Picked(T)}) \in Nat
        /\ SumOver(h, T \ {Picked(T)}) \in Nat
    BY <2>1, SumType
  <2>4. SumOver(f, T \ {Picked(T)}) + SumOver(g, T \ {Picked(T)})
            <= SumOver(h, T \ {Picked(T)})
    BY <1>3
  <2> QED
    BY <2>1, <2>2, <2>3, <2>4
<1> HIDE DEF Good
<1>4. S \in Good
  BY <1>2, <1>3, SubsetInduction
<1> QED
  BY <1>4 DEF Good

LEMMA SumLess ==
    ASSUME NEW S, IsFiniteSet(S), NEW f, NEW h,
           \A x \in S : f[x] \in Nat /\ h[x] \in Nat /\ f[x] <= h[x]
    PROVE  SumOver(f, S) <= SumOver(h, S)
<1> DEFINE zero == [x \in S |-> 0]
<1>1. \A x \in S : zero[x] = 0 /\ f[x] + zero[x] <= h[x]
  OBVIOUS
<1> HIDE DEF zero
<1>2. SumOver(f, S) + SumOver(zero, S) <= SumOver(h, S)
  BY <1>1, SumMono
<1>3. SumOver(f, S) \in Nat /\ SumOver(zero, S) \in Nat /\ SumOver(h, S) \in Nat
  BY <1>1, SumType
<1> QED
  BY <1>2, <1>3

LEMMA SumSame ==
    ASSUME NEW S, IsFiniteSet(S), NEW f, NEW g, \A x \in S : f[x] \in Nat /\ f[x] = g[x]
    PROVE  SumOver(f, S) = SumOver(g, S)
<1>1. SumOver(f, S) <= SumOver(g, S) /\ SumOver(g, S) <= SumOver(f, S)
  BY SumLess
<1>2. SumOver(f, S) \in Nat /\ SumOver(g, S) \in Nat
  BY SumType
<1> QED
  BY <1>1, <1>2

\* A sum grows by what one of its terms grows.
LEMMA SumGrows ==
    ASSUME NEW S, IsFiniteSet(S), NEW f, NEW g, NEW c, NEW n \in Nat,
           \A x \in S : f[x] \in Nat /\ g[x] = IF x = c THEN f[x] + n ELSE f[x]
    PROVE  SumOver(g, S) = SumOver(f, S) + (IF c \in S THEN n ELSE 0)
<1> DEFINE Good == {T \in SUBSET S :
                      SumOver(g, T) = SumOver(f, T) + (IF c \in T THEN n ELSE 0)}
<1>1. \A T \in SUBSET S : IsFiniteSet(T)
  BY FS_Subset
<1>2. {} \in Good
  <2>1. \A k : SumOver(k, {}) = 0
    BY <1>1, SumNext
  <2> QED
    BY <2>1
<1>3. ASSUME NEW T \in SUBSET S, T # {}, T \ {Picked(T)} \in Good
      PROVE  T \in Good
  <2>1. Picked(T) \in S /\ Picked(T) \in T /\ IsFiniteSet(T) /\ IsFiniteSet(T \ {Picked(T)})
    BY <1>1, <1>3, SumRest
  <2>2. /\ SumOver(f, T) = f[Picked(T)] + SumOver(f, T \ {Picked(T)})
        /\ SumOver(g, T) = g[Picked(T)] + SumOver(g, T \ {Picked(T)})
    BY <1>3, <2>1, SumNext
  <2>3. SumOver(f, T \ {Picked(T)}) \in Nat
    BY <2>1, SumType
  <2>4. SumOver(g, T \ {Picked(T)})
            = SumOver(f, T \ {Picked(T)}) + (IF c \in T \ {Picked(T)} THEN n ELSE 0)
    BY <1>3
  <2>5. CASE c = Picked(T)
    BY <2>1, <2>2, <2>3, <2>4, <2>5
  <2>6. CASE c # Picked(T)
    BY <2>1, <2>2, <2>3, <2>4, <2>6
  <2> QED
    BY <2>5, <2>6
<1> HIDE DEF Good
<1>4. S \in Good
  BY <1>2, <1>3, SubsetInduction
<1> QED
  BY <1>4 DEF Good

\* The sum of m for each element of a set.
LEMMA SumOfEqual ==
    ASSUME NEW S, IsFiniteSet(S), NEW f, NEW A \in SUBSET S, NEW m \in Nat,
           \A x \in S : f[x] = IF x \in A THEN m ELSE 0
    PROVE  SumOver(f, S) = m * Cardinality(A)
<1> DEFINE Good == {T \in SUBSET S : SumOver(f, T) = m * Cardinality(T \cap A)}
<1>1. \A T \in SUBSET S : IsFiniteSet(T)
  BY FS_Subset
<1>2. {} \in Good
  <2>1. SumOver(f, {}) = 0
    BY <1>1, SumNext
  <2>2. {} \cap A = {} /\ Cardinality({}) = 0
    BY FS_EmptySet
  <2> QED
    BY <2>1, <2>2
<1>3. ASSUME NEW T \in SUBSET S, T # {}, T \ {Picked(T)} \in Good
      PROVE  T \in Good
  <2> DEFINE p == Picked(T)
             rest == Cardinality((T \ {p}) \cap A)
  <2>1. p \in S /\ p \in T /\ IsFiniteSet(T) /\ IsFiniteSet((T \ {p}) \cap A)
    BY <1>1, <1>3, SumRest
  <2>2. SumOver(f, T) = f[p] + m * rest
    BY <1>3, <2>1, SumNext
  <2>3. rest \in Nat
    BY <2>1, FS_CardinalityType
  <2>4. CASE p \in A
    <3>1. T \cap A = ((T \ {p}) \cap A) \cup {p} /\ p \notin (T \ {p}) \cap A
      BY <2>1, <2>4
    <3>2. Cardinality(T \cap A) = rest + 1
      BY <2>1, <3>1, FS_AddElement
    <3> HIDE DEF rest, p
    <3>3. f[p] = m
      BY <2>1, <2>4
    <3>4. m * (rest + 1) = m + m * rest
      BY <2>3
    <3> QED
      BY <2>2, <3>2, <3>3, <3>4 DEF p
  <2>5. CASE p \notin A
    <3>1. T \cap A = (T \ {p}) \cap A /\ f[p] = 0
      BY <2>1, <2>5
    <3>2. Cardinality(T \cap A) = rest
      BY <3>1
    <3> HIDE DEF rest, p
    <3>3. m * rest \in Nat
      BY <2>3
    <3>4. SumOver(f, T) = m * rest
      BY <2>2, <3>1, <3>3
    <3> QED
      BY <3>2, <3>4
  <2> QED
    BY <2>4, <2>5
<1>4. S \in Good
  <2> HIDE DEF Good
  <2> QED
    BY <1>2, <1>3, SubsetInduction
<1>5. S \cap A = A
  OBVIOUS
<1> QED
  BY <1>4, <1>5

-----------------------------------------------------------------------------
\* What a query bumps.

BumpSet == [of : Counters, by : Nat]

LEMMA RequestTypes ==
    ASSUME NEW r \in Requests
    PROVE  /\ r.client \in Clients /\ r.domain \in Domains /\ r.source \in Sources
           /\ r.outcome \in Outcomes /\ r.upstream \in Nat /\ r.ms \in Nat
  BY StatsAssumption

LEMMA CounterTypes ==
    /\ Total \in Counters /\ Blocked \in Counters /\ Hits \in Counters
    /\ \A k \in Sources : <<"blocked_by_source", k>> \in Counters
    /\ \A k \in Clients : <<"client_queries", k>> \in Counters /\ <<"client_blocks", k>> \in Counters
    /\ \A k \in Domains : <<"domain_queries", k>> \in Counters /\ <<"domain_blocks", k>> \in Counters
    /\ \A k \in Slots : <<"upstream_total_ms", k>> \in Counters /\ <<"upstream_count", k>> \in Counters
  BY DEF Counters, Per

Millis(r) == [of |-> <<"upstream_total_ms", r.upstream>>, by |-> r.ms]
Counted(r) == One("upstream_count", r.upstream)

LEMMA TupleIs ==
    /\ \A T : <<>> \in Seq(T) /\ Len(<<>>) = 0
    /\ \A T, a : a \in T => <<a>> \in Seq(T) /\ Len(<<a>>) = 1 /\ <<a>>[1] = a
    /\ \A T, a, b : a \in T /\ b \in T =>
          <<a, b>> \in Seq(T) /\ Len(<<a, b>>) = 2 /\ <<a, b>>[1] = a /\ <<a, b>>[2] = b
  OBVIOUS

\* An upstream with a slot has its samples recorded there, and no other has.
LEMMA SampledIs ==
    ASSUME NEW r \in Requests
    PROVE  /\ Sampled(r) \in Seq(BumpSet)
           /\ r.upstream \notin Slots => Len(Sampled(r)) = 0
           /\ r.upstream \in Slots =>
                 /\ Len(Sampled(r)) = 2
                 /\ Sampled(r)[1] = Millis(r) /\ Sampled(r)[2] = Counted(r)
<1>1. r.upstream \in Nat /\ UpstreamSlots \in Nat
  BY RequestTypes, StatsAssumption
<1>2. r.upstream \in Slots <=> r.upstream < UpstreamSlots
  BY <1>1 DEF Slots
<1>3. SlotOf(r.upstream) = IF r.upstream < UpstreamSlots THEN {r.upstream} ELSE {}
  BY DEF SlotOf
<1>4. CASE r.upstream \notin Slots
  <2>1. Sampled(r) = <<>>
    BY <1>2, <1>3, <1>4 DEF Sampled
  <2> QED
    BY <1>4, <2>1, TupleIs
<1>5. CASE r.upstream \in Slots
  <2>1. Max({r.upstream}) = r.upstream
    BY <1>1 DEF Max
  <2>2. Sampled(r) = <<Millis(r), Counted(r)>>
    BY <1>2, <1>3, <1>5, <2>1 DEF Sampled, Millis, Counted, One
  <2>3. Millis(r) \in BumpSet /\ Counted(r) \in BumpSet
    BY <1>5, RequestTypes, CounterTypes DEF BumpSet, Millis, Counted, One
  <2> QED
    BY <1>5, <2>2, <2>3, TupleIs
<1> QED
  BY <1>4, <1>5

\* The bumps of a query by their places.
First(bumps, r) ==
    /\ bumps[1] = One("total_queries", 0)
    /\ bumps[2] = One("client_queries", r.client)
    /\ r.outcome # "empty" => bumps[3] = One("domain_queries", r.domain)
Samples(bumps, r, i) ==
    /\ r.upstream \in Slots
    /\ bumps[i] = Millis(r) /\ bumps[i + 1] = Counted(r)
Last(bumps, r) ==
    \/ r.outcome = "empty" /\ Len(bumps) = 2
    \/ /\ r.outcome = "blocked" /\ Len(bumps) = 7
       /\ bumps[4] = One("blocked_queries", 0)
       /\ bumps[5] = One("blocked_by_source", r.source)
       /\ bumps[6] = One("client_blocks", r.client)
       /\ bumps[7] = One("domain_blocks", r.domain)
    \/ /\ r.outcome \in {"cached", "stale"} /\ Len(bumps) = 4
       /\ bumps[4] = One("cache_hits", 0)
    \/ /\ r.outcome = "stale" /\ Len(bumps) = 6
       /\ bumps[4] = One("cache_hits", 0) /\ Samples(bumps, r, 5)
    \/ r.outcome \in {"local", "ipv6", "forwarded"} /\ Len(bumps) = 3
    \/ r.outcome = "forwarded" /\ Len(bumps) = 5 /\ Samples(bumps, r, 4)

LEMMA OnesTypes ==
    ASSUME NEW r \in Requests
    PROVE  /\ One("total_queries", 0) \in BumpSet /\ One("blocked_queries", 0) \in BumpSet
           /\ One("cache_hits", 0) \in BumpSet
           /\ One("client_queries", r.client) \in BumpSet
           /\ One("client_blocks", r.client) \in BumpSet
           /\ One("domain_queries", r.domain) \in BumpSet
           /\ One("domain_blocks", r.domain) \in BumpSet
           /\ One("blocked_by_source", r.source) \in BumpSet
  BY RequestTypes, CounterTypes DEF One, BumpSet, Total, Blocked, Hits

LEMMA QuestionBumps ==
    ASSUME NEW r \in Requests, r.outcome # "empty"
    PROVE  /\ Bumps(r) \in Seq(BumpSet) /\ Len(Bumps(r)) \in 3..7
           /\ First(Bumps(r), r) /\ Last(Bumps(r), r)
<1> DEFINE R == Received(r)
           O == Outcome(r)
<1>1. R \in Seq(BumpSet) /\ Len(R) = 3 /\ First(R, r)
  BY OnesTypes DEF Received, First
<1>2. ASSUME O \in Seq(BumpSet), Len(O) \in 0..4
      PROVE  /\ Bumps(r) \in Seq(BumpSet) /\ Len(Bumps(r)) = 3 + Len(O)
             /\ Len(Bumps(r)) \in 3..7 /\ First(Bumps(r), r)
             /\ \A i \in 1..Len(O) : Bumps(r)[3 + i] = O[i]
  <2> HIDE DEF R, O
  <2>1. /\ R \o O \in Seq(BumpSet) /\ Len(R \o O) = Len(R) + Len(O)
        /\ \A i \in 1..Len(R) : (R \o O)[i] = R[i]
        /\ \A i \in 1..Len(O) : (R \o O)[Len(R) + i] = O[i]
    <3>1. R \in Seq(BumpSet) /\ O \in Seq(BumpSet)
      BY <1>1, <1>2
    <3> QED
      BY <3>1
  <2>2. Bumps(r) = R \o O
    BY DEF Bumps, R, O
  <2>3. Bumps(r)[1] = R[1] /\ Bumps(r)[2] = R[2] /\ Bumps(r)[3] = R[3]
    BY <1>1, <2>1, <2>2
  <2>4. First(Bumps(r), r)
    BY <1>1, <2>3 DEF First
  <2>5. Len(R) = 3
    BY <1>1
  <2>6. Len(Bumps(r)) = 3 + Len(O)
    BY <2>1, <2>2, <2>5
  <2>7. \A i \in 1..Len(O) : Bumps(r)[3 + i] = O[i]
    BY <2>1, <2>2, <2>5, Zenon
  <2>8. Bumps(r) \in Seq(BumpSet)
    BY <2>1, <2>2
  <2>9. Len(Bumps(r)) \in 3..7
    <3>1. PICK k \in 0..4 : Len(O) = k
      BY <1>2
    <3>2. 3 + k \in 3..7
      OBVIOUS
    <3> QED
      BY <2>6, <3>1, <3>2
  <2> QED
    BY <2>4, <2>6, <2>7, <2>8, <2>9
<1>3. CASE r.outcome = "blocked"
  <2>1. O = <<One("blocked_queries", 0), One("blocked_by_source", r.source),
              One("client_blocks", r.client), One("domain_blocks", r.domain)>>
    BY <1>3 DEF Outcome
  <2> HIDE DEF O
  <2>2. O \in Seq(BumpSet) /\ Len(O) = 4
    BY <2>1, OnesTypes
  <2> QED
    BY <1>2, <1>3, <2>1, <2>2 DEF Last
<1>4. CASE r.outcome = "cached"
  <2>1. O = <<One("cache_hits", 0)>>
    BY <1>4 DEF Outcome
  <2> HIDE DEF O
  <2>2. O \in Seq(BumpSet) /\ Len(O) = 1
    BY <2>1, OnesTypes
  <2> QED
    BY <1>2, <1>4, <2>1, <2>2 DEF Last
<1>5. CASE r.outcome = "stale"
  <2> DEFINE h == <<One("cache_hits", 0)>>
  <2>1. h \in Seq(BumpSet) /\ Len(h) = 1 /\ h[1] = One("cache_hits", 0)
    BY OnesTypes
  <2>2. O = h \o Sampled(r)
    BY <1>5 DEF Outcome
  <2> HIDE DEF O, h
  <2>3. /\ O \in Seq(BumpSet) /\ Len(O) = Len(h) + Len(Sampled(r))
        /\ \A i \in 1..Len(h) : O[i] = h[i]
        /\ \A i \in 1..Len(Sampled(r)) : O[Len(h) + i] = Sampled(r)[i]
    <3>1. Sampled(r) \in Seq(BumpSet)
      BY SampledIs
    <3>2. h \in Seq(BumpSet)
      BY <2>1
    <3>3. /\ h \o Sampled(r) \in Seq(BumpSet)
          /\ Len(h \o Sampled(r)) = Len(h) + Len(Sampled(r))
          /\ \A i \in 1..Len(h) : (h \o Sampled(r))[i] = h[i]
          /\ \A i \in 1..Len(Sampled(r)) : (h \o Sampled(r))[Len(h) + i] = Sampled(r)[i]
      BY <3>1, <3>2
    <3> QED
      BY <2>2, <3>3
  <2>4. O[1] = One("cache_hits", 0)
    BY <2>1, <2>3
  <2>5. CASE r.upstream \notin Slots
    <3>1. Len(O) = 1
      BY <2>1, <2>3, <2>5, SampledIs
    <3>2. Len(O) \in 0..4 /\ 1 \in 1..Len(O)
      BY <3>1
    <3>3. Len(Bumps(r)) = 3 + Len(O) /\ Bumps(r)[3 + 1] = O[1]
      BY <1>2, <2>3, <3>2
    <3>4. Len(Bumps(r)) = 4 /\ Bumps(r)[4] = O[1]
      BY <3>1, <3>3
    <3> QED
      BY <1>2, <1>5, <2>3, <2>4, <3>2, <3>4 DEF Last
  <2>6. CASE r.upstream \in Slots
    <3>1. Len(O) = 3 /\ O[2] = Millis(r) /\ O[3] = Counted(r)
      BY <2>1, <2>3, <2>6, SampledIs
    <3>2. Len(O) \in 0..4 /\ {1, 2, 3} \subseteq 1..Len(O)
      BY <3>1
    <3>3. /\ Len(Bumps(r)) = 3 + Len(O) /\ Bumps(r)[3 + 1] = O[1]
          /\ Bumps(r)[3 + 2] = O[2] /\ Bumps(r)[3 + 3] = O[3]
      BY <1>2, <2>3, <3>2
    <3>4. /\ Len(Bumps(r)) = 6 /\ Bumps(r)[4] = O[1]
          /\ Bumps(r)[5] = O[2] /\ Bumps(r)[5 + 1] = O[3]
      BY <3>1, <3>3
    <3>5. Samples(Bumps(r), r, 5) /\ Last(Bumps(r), r)
      BY <1>5, <2>4, <2>6, <3>1, <3>4 DEF Last, Samples
    <3> QED
      BY <1>2, <2>3, <3>2, <3>5
  <2> QED
    BY <2>5, <2>6
<1>6. CASE r.outcome = "forwarded"
  <2>1. O = Sampled(r)
    BY <1>6 DEF Outcome
  <2> HIDE DEF O
  <2>2. CASE r.upstream \notin Slots
    <3>1. O \in Seq(BumpSet) /\ Len(O) = 0
      BY <2>1, <2>2, SampledIs
    <3>2. Len(Bumps(r)) = 3
      BY <1>2, <3>1
    <3> QED
      BY <1>2, <1>6, <3>1, <3>2 DEF Last
  <2>3. CASE r.upstream \in Slots
    <3>1. O \in Seq(BumpSet) /\ Len(O) = 2 /\ O[1] = Millis(r) /\ O[2] = Counted(r)
      BY <2>1, <2>3, SampledIs
    <3>2. Len(Bumps(r)) = 5 /\ Bumps(r)[4] = O[1] /\ Bumps(r)[4 + 1] = O[2]
      BY <1>2, <3>1
    <3> QED
      BY <1>2, <1>6, <2>3, <3>1, <3>2 DEF Last, Samples
  <2> QED
    BY <2>2, <2>3
<1>7. CASE r.outcome \in {"local", "ipv6"}
  <2>1. O = <<>>
    BY <1>7 DEF Outcome
  <2> HIDE DEF O
  <2>2. O \in Seq(BumpSet) /\ Len(O) = 0
    BY <2>1
  <2> QED
    BY <1>2, <1>7, <2>2 DEF Last
<1> QED
  BY <1>3, <1>4, <1>5, <1>6, <1>7, RequestTypes DEF Outcomes

LEMMA BumpsAre ==
    ASSUME NEW r \in Requests
    PROVE  /\ Bumps(r) \in Seq(BumpSet) /\ Len(Bumps(r)) \in 2..7
           /\ First(Bumps(r), r) /\ Last(Bumps(r), r)
<1>1. CASE r.outcome # "empty"
  <2>1. \A n \in 3..7 : n \in 2..7
    OBVIOUS
  <2> QED
    BY <1>1, <2>1, QuestionBumps
<1>2. CASE r.outcome = "empty"
  <2> DEFINE R == <<One("total_queries", 0), One("client_queries", r.client)>>
  <2>1. /\ R \in Seq(BumpSet) /\ Len(R) = 2
        /\ R[1] = One("total_queries", 0) /\ R[2] = One("client_queries", r.client)
    BY OnesTypes, TupleIs
  <2>2. Received(r) = R /\ Outcome(r) = <<>>
    BY <1>2 DEF Received, Outcome
  <2> HIDE DEF R
  <2>3. R \o <<>> = R
    BY <2>1
  <2>4. Bumps(r) = R
    BY <2>2, <2>3 DEF Bumps
  <2> QED
    BY <1>2, <2>1, <2>4 DEF First, Last
<1> QED
  BY <1>1, <1>2

\* A query bumps no field twice, each for itself, and by 1 or its milliseconds.
LEMMA BumpsOnce ==
    ASSUME NEW r \in Requests, NEW i \in 1..Len(Bumps(r))
    PROVE  /\ Bumps(r)[i] \in BumpSet
           /\ Bumps(r)[i].by = IF Bumps(r)[i].of[1] = "upstream_total_ms" THEN r.ms ELSE 1
           /\ \A j \in 1..Len(Bumps(r)) : Bumps(r)[i].of[1] = Bumps(r)[j].of[1] => i = j
<1> DEFINE bumps == Bumps(r)
<1>1. /\ bumps \in Seq(BumpSet) /\ Len(bumps) \in 2..7
      /\ First(bumps, r) /\ Last(bumps, r)
  BY BumpsAre
<1> HIDE DEF bumps
<1>2. \A f, k : One(f, k).of[1] = f /\ One(f, k).by = 1
  BY DEF One
<1>3. /\ Millis(r).of[1] = "upstream_total_ms" /\ Millis(r).by = r.ms
      /\ Counted(r).of[1] = "upstream_count" /\ Counted(r).by = 1
  BY DEF Millis, Counted, One
<1>4. i \in 1..Len(bumps)
  BY DEF bumps
<1>5. bumps[i] \in BumpSet
  BY <1>1, <1>4
<1>6. /\ bumps[i].by = IF bumps[i].of[1] = "upstream_total_ms" THEN r.ms ELSE 1
      /\ \A j \in 1..Len(bumps) : bumps[i].of[1] = bumps[j].of[1] => i = j
  <2>1. /\ bumps[1].of[1] = "total_queries" /\ bumps[1].by = 1
        /\ bumps[2].of[1] = "client_queries" /\ bumps[2].by = 1
        /\ r.outcome # "empty" => bumps[3].of[1] = "domain_queries" /\ bumps[3].by = 1
    BY <1>1, <1>2 DEF First
  <2>2. CASE r.outcome = "blocked"
    <3>1. /\ Len(bumps) = 7
          /\ bumps[4].of[1] = "blocked_queries" /\ bumps[4].by = 1
          /\ bumps[5].of[1] = "blocked_by_source" /\ bumps[5].by = 1
          /\ bumps[6].of[1] = "client_blocks" /\ bumps[6].by = 1
          /\ bumps[7].of[1] = "domain_blocks" /\ bumps[7].by = 1
      BY <1>1, <1>2, <2>2 DEF Last
    <3>2. 1..Len(bumps) = {1, 2, 3, 4, 5, 6, 7}
      BY <3>1
    <3> QED
      BY <1>4, <2>1, <2>2, <3>1, <3>2
  <2>3. CASE r.outcome = "empty"
    <3>1. Len(bumps) = 2
      BY <1>1, <2>3 DEF Last
    <3>2. 1..Len(bumps) = {1, 2}
      BY <3>1
    <3> QED
      BY <1>4, <2>1, <3>2
  <2>4. CASE r.outcome \notin {"blocked", "empty"}
    <3>1. \/ Len(bumps) = 3
          \/ Len(bumps) = 4 /\ bumps[4].of[1] = "cache_hits" /\ bumps[4].by = 1
          \/ /\ Len(bumps) = 6 /\ bumps[4].of[1] = "cache_hits" /\ bumps[4].by = 1
             /\ bumps[5] = Millis(r) /\ bumps[6] = Counted(r)
          \/ Len(bumps) = 5 /\ bumps[4] = Millis(r) /\ bumps[5] = Counted(r)
      BY <1>1, <1>2, <2>4 DEF Last, Samples
    <3>2. CASE Len(bumps) = 3
      <4>1. 1..Len(bumps) = {1, 2, 3}
        BY <3>2
      <4> QED
        BY <1>4, <2>1, <2>4, <4>1
    <3>3. CASE /\ Len(bumps) = 4 /\ bumps[4].of[1] = "cache_hits" /\ bumps[4].by = 1
      <4>1. 1..Len(bumps) = {1, 2, 3, 4}
        BY <3>3
      <4> QED
        BY <1>4, <2>1, <2>4, <3>3, <4>1
    <3>4. CASE /\ Len(bumps) = 6 /\ bumps[4].of[1] = "cache_hits" /\ bumps[4].by = 1
               /\ bumps[5] = Millis(r) /\ bumps[6] = Counted(r)
      <4>1. 1..Len(bumps) = {1, 2, 3, 4, 5, 6}
        BY <3>4
      <4> QED
        BY <1>3, <1>4, <2>1, <2>4, <3>4, <4>1
    <3>5. CASE Len(bumps) = 5 /\ bumps[4] = Millis(r) /\ bumps[5] = Counted(r)
      <4>1. 1..Len(bumps) = {1, 2, 3, 4, 5}
        BY <3>5
      <4> QED
        BY <1>3, <1>4, <2>1, <2>4, <3>5, <4>1
    <3> QED
      BY <3>1, <3>2, <3>3, <3>4, <3>5
  <2> QED
    BY <2>2, <2>3, <2>4
<1> QED
  BY <1>5, <1>6 DEF bumps

\* Where a query bumps which field, and under which key.
Placed(r, i, of) ==
    /\ of[1] = "total_queries" <=> i = 1
    /\ of[1] = "client_queries" <=> i = 2
    /\ of[1] = "domain_queries" <=> i = 3
    /\ of[1] = "blocked_queries" <=> r.outcome = "blocked" /\ i = 4
    /\ of[1] = "blocked_by_source" <=> r.outcome = "blocked" /\ i = 5
    /\ of[1] = "client_blocks" <=> r.outcome = "blocked" /\ i = 6
    /\ of[1] = "domain_blocks" <=> r.outcome = "blocked" /\ i = 7
    /\ of[1] = "cache_hits" <=> r.outcome \in {"cached", "stale"} /\ i = 4
Keyed(r, of) ==
    /\ of[1] \in {"client_queries", "client_blocks"} => of = <<of[1], r.client>>
    /\ of[1] \in {"domain_queries", "domain_blocks"} => of = <<of[1], r.domain>>
    /\ of[1] \in {"upstream_total_ms", "upstream_count"} =>
          r.upstream \in Slots /\ of = <<of[1], r.upstream>>
    /\ of[1] \in {"total_queries", "blocked_queries", "cache_hits"} => of = <<of[1], 0>>

LEMMA BumpsPlaced ==
    ASSUME NEW r \in Requests
    PROVE  /\ \A i \in 1..Len(Bumps(r)) :
                 Placed(r, i, Bumps(r)[i].of) /\ Keyed(r, Bumps(r)[i].of)
           /\ r.outcome = "blocked" => Len(Bumps(r)) = 7
           /\ r.outcome \in {"cached", "stale"} => Len(Bumps(r)) >= 4
           /\ r.outcome = "empty" => Len(Bumps(r)) = 2
           /\ r.outcome # "empty" => Len(Bumps(r)) >= 3
           /\ \A i \in 1..Len(Bumps(r)) : Bumps(r)[i].of[1] = "upstream_count" =>
                 i - 1 \in 1..Len(Bumps(r)) /\ Bumps(r)[i - 1].of[1] = "upstream_total_ms"
<1> DEFINE bumps == Bumps(r)
           Goal(i) == /\ Placed(r, i, bumps[i].of) /\ Keyed(r, bumps[i].of)
                      /\ bumps[i].of[1] = "upstream_count" =>
                            /\ i - 1 \in 1..Len(bumps)
                            /\ bumps[i - 1].of[1] = "upstream_total_ms"
<1>1. Len(bumps) \in 2..7 /\ First(bumps, r) /\ Last(bumps, r)
  BY BumpsAre
<1> HIDE DEF bumps
<1>2. \A f, k : One(f, k).of = <<f, k>>
  BY DEF One
<1>3. /\ Millis(r).of = <<"upstream_total_ms", r.upstream>>
      /\ Counted(r).of = <<"upstream_count", r.upstream>>
  BY DEF Millis, Counted, One
<1>4. Goal(1) /\ Goal(2) /\ (r.outcome # "empty" => Goal(3))
  BY <1>1, <1>2 DEF First, Placed, Keyed
<1>5. CASE r.outcome = "blocked"
  <2>1. /\ Len(bumps) = 7
        /\ bumps[4] = One("blocked_queries", 0) /\ bumps[5] = One("blocked_by_source", r.source)
        /\ bumps[6] = One("client_blocks", r.client)
        /\ bumps[7] = One("domain_blocks", r.domain)
    BY <1>1, <1>5 DEF Last
  <2>2. Goal(4) /\ Goal(5) /\ Goal(6) /\ Goal(7)
    BY <1>2, <1>5, <2>1 DEF Placed, Keyed
  <2>3. 1..Len(bumps) = {1, 2, 3, 4, 5, 6, 7}
    BY <2>1
  <2>4. \A i \in 1..Len(bumps) : Goal(i)
    <3> HIDE DEF Goal
    <3> QED
      BY <1>4, <1>5, <2>2, <2>3
  <2> QED
    BY <1>5, <2>1, <2>4 DEF bumps
<1>6. CASE r.outcome = "empty"
  <2>1. Len(bumps) = 2
    BY <1>1, <1>6 DEF Last
  <2>2. 1..Len(bumps) = {1, 2}
    BY <2>1
  <2>3. \A i \in 1..Len(bumps) : Goal(i)
    <3> HIDE DEF Goal
    <3> QED
      BY <1>4, <2>2
  <2> QED
    BY <1>6, <2>1, <2>3 DEF bumps
<1>7. CASE r.outcome \notin {"blocked", "empty"}
  <2>1. \/ Len(bumps) = 3 /\ r.outcome \notin {"cached", "stale"}
        \/ /\ Len(bumps) = 4 /\ bumps[4] = One("cache_hits", 0)
           /\ r.outcome \in {"cached", "stale"}
        \/ /\ Len(bumps) = 6 /\ bumps[4] = One("cache_hits", 0)
           /\ bumps[5] = Millis(r) /\ bumps[6] = Counted(r)
           /\ r.outcome = "stale" /\ r.upstream \in Slots
        \/ /\ Len(bumps) = 5 /\ bumps[4] = Millis(r) /\ bumps[5] = Counted(r)
           /\ r.outcome = "forwarded" /\ r.upstream \in Slots
    BY <1>1, <1>7 DEF Last, Samples
  <2>2. CASE Len(bumps) = 3 /\ r.outcome \notin {"cached", "stale"}
    <3>1. 1..Len(bumps) = {1, 2, 3}
      BY <2>2
    <3>2. \A i \in 1..Len(bumps) : Goal(i)
      <4> HIDE DEF Goal
      <4> QED
        BY <1>4, <1>7, <3>1
    <3> QED
      BY <1>7, <2>2, <3>2 DEF bumps
  <2>3. CASE /\ Len(bumps) = 4 /\ bumps[4] = One("cache_hits", 0)
             /\ r.outcome \in {"cached", "stale"}
    <3>1. 1..Len(bumps) = {1, 2, 3, 4}
      BY <2>3
    <3>2. Goal(4)
      BY <1>2, <2>3 DEF Placed, Keyed
    <3>3. \A i \in 1..Len(bumps) : Goal(i)
      <4> HIDE DEF Goal
      <4> QED
        BY <1>4, <1>7, <3>1, <3>2
    <3> QED
      BY <1>7, <2>3, <3>3 DEF bumps
  <2>4. CASE /\ Len(bumps) = 6 /\ bumps[4] = One("cache_hits", 0)
             /\ bumps[5] = Millis(r) /\ bumps[6] = Counted(r)
             /\ r.outcome = "stale" /\ r.upstream \in Slots
    <3>1. 1..Len(bumps) = {1, 2, 3, 4, 5, 6}
      BY <2>4
    <3>2. Goal(4) /\ Goal(5) /\ Goal(6)
      BY <1>2, <1>3, <2>4 DEF Placed, Keyed
    <3>3. \A i \in 1..Len(bumps) : Goal(i)
      <4> HIDE DEF Goal
      <4> QED
        BY <1>4, <1>7, <3>1, <3>2
    <3> QED
      BY <1>7, <2>4, <3>3 DEF bumps
  <2>5. CASE /\ Len(bumps) = 5 /\ bumps[4] = Millis(r) /\ bumps[5] = Counted(r)
             /\ r.outcome = "forwarded" /\ r.upstream \in Slots
    <3>1. 1..Len(bumps) = {1, 2, 3, 4, 5}
      BY <2>5
    <3>2. Goal(4) /\ Goal(5)
      BY <1>2, <1>3, <2>5 DEF Placed, Keyed
    <3>3. \A i \in 1..Len(bumps) : Goal(i)
      <4> HIDE DEF Goal
      <4> QED
        BY <1>4, <1>7, <3>1, <3>2
    <3> QED
      BY <1>7, <2>5, <3>3 DEF bumps
  <2> QED
    BY <2>1, <2>2, <2>3, <2>4, <2>5
<1> QED
  BY <1>5, <1>6, <1>7

-----------------------------------------------------------------------------
\* The counters.

\* What a task has bumped so far, and what that adds to a counter or to all
\* counters of a map.
Made(q) == {Bumps(request[q])[i] : i \in 1..bumped[q]}
Added(q, c) ==
    IF \E b \in Made(q) : b.of = c
    THEN IF c[1] = "upstream_total_ms" THEN request[q].ms ELSE 1
    ELSE 0
AddedTo(q, field) == IF \E b \in Made(q) : b.of[1] = field THEN 1 ELSE 0

BumpsWithin == \A q \in Queries : bumped[q] <= Len(Bumps(request[q]))

\* No bump is lost or made twice: a counter is the sum of what the tasks have
\* added to it, and so is the sum of a map.
CountersExact ==
    \A c \in Counters : counter[c] = SumOver([q \in Queries |-> Added(q, c)], Queries)
MapExact(field, keys) ==
    Sum(counter, field, keys) = SumOver([q \in Queries |-> AddedTo(q, field)], Queries)
MapsExact ==
    /\ MapExact("client_queries", Clients) /\ MapExact("domain_queries", Domains)
    /\ MapExact("client_blocks", Clients) /\ MapExact("domain_blocks", Domains)
    /\ MapExact("blocked_by_source", Sources)

\* A report found no sample counted before its milliseconds were added.
SamplesBefore ==
    \A u \in Slots, m \in Nat :
        /\ <<"upstream_count", u>> \in DOMAIN start
        /\ \A q \in Sampling(u) : m <= request[q].ms
        => m * start[<<"upstream_count", u>>] <= start[<<"upstream_total_ms", u>>]

CountsInv == TypeOK /\ BumpsWithin /\ CountersExact /\ MapsExact

LEMMA MadeTypes ==
    ASSUME TypeOK, BumpsWithin, NEW q \in Queries
    PROVE  /\ request[q] \in Requests /\ bumped[q] \in Nat
           /\ \A i \in 1..bumped[q] : i \in 1..Len(Bumps(request[q]))
           /\ \A c : Added(q, c) \in Nat
           /\ \A field : AddedTo(q, field) \in {0, 1}
<1>1. request[q] \in Requests /\ bumped[q] \in Nat
  BY DEF TypeOK
<1>2. request[q].ms \in Nat
  BY <1>1, RequestTypes
<1>3. Len(Bumps(request[q])) \in Nat /\ bumped[q] <= Len(Bumps(request[q]))
  BY <1>1, BumpsAre DEF BumpsWithin
<1> QED
  BY <1>1, <1>2, <1>3 DEF Added, AddedTo

\* What a task has added to a map or a total is a matter of how far it is.
LEMMA AddedByPlace ==
    ASSUME TypeOK, BumpsWithin, NEW q \in Queries
    PROVE  LET r == request[q]
               n == bumped[q]
           IN  /\ Added(q, Total) = IF n >= 1 THEN 1 ELSE 0
               /\ AddedTo(q, "client_queries") = IF n >= 2 THEN 1 ELSE 0
               /\ AddedTo(q, "domain_queries") = IF n >= 3 THEN 1 ELSE 0
               /\ Added(q, Blocked) = IF r.outcome = "blocked" /\ n >= 4 THEN 1 ELSE 0
               /\ Added(q, Hits) = IF r.outcome \in {"cached", "stale"} /\ n >= 4 THEN 1 ELSE 0
               /\ AddedTo(q, "blocked_by_source") = IF r.outcome = "blocked" /\ n >= 5 THEN 1 ELSE 0
               /\ AddedTo(q, "client_blocks") = IF r.outcome = "blocked" /\ n >= 6 THEN 1 ELSE 0
               /\ AddedTo(q, "domain_blocks") = IF r.outcome = "blocked" /\ n >= 7 THEN 1 ELSE 0
<1> DEFINE r == request[q]
           n == bumped[q]
           F(i) == Bumps(r)[i].of[1]
<1>1. n \in Nat /\ \A i \in 1..n : Placed(r, i, Bumps(r)[i].of) /\ Keyed(r, Bumps(r)[i].of)
  BY MadeTypes, BumpsPlaced
<1>2. \A field : (\E b \in Made(q) : b.of[1] = field) <=> \E i \in 1..n : F(i) = field
  BY DEF Made
<1>3. \A field \in {"total_queries", "blocked_queries", "cache_hits"} :
          (\E b \in Made(q) : b.of = <<field, 0>>) <=> \E i \in 1..n : F(i) = field
  <2> TAKE field \in {"total_queries", "blocked_queries", "cache_hits"}
  <2>1. \A i \in 1..n : Bumps(r)[i].of = <<field, 0>> <=> F(i) = field
    BY <1>1 DEF Keyed
  <2> QED
    BY <2>1 DEF Made
<1>4. Added(q, Total) = IF \E i \in 1..n : F(i) = "total_queries" THEN 1 ELSE 0
  BY <1>3 DEF Added, Total
<1>5. Added(q, Blocked) = IF \E i \in 1..n : F(i) = "blocked_queries" THEN 1 ELSE 0
  BY <1>3 DEF Added, Blocked
<1>6. Added(q, Hits) = IF \E i \in 1..n : F(i) = "cache_hits" THEN 1 ELSE 0
  BY <1>3 DEF Added, Hits
<1>7. \A field : AddedTo(q, field) = IF \E i \in 1..n : F(i) = field THEN 1 ELSE 0
  BY <1>2 DEF AddedTo
<1>8. /\ (\E i \in 1..n : F(i) = "total_queries") <=> n >= 1
      /\ (\E i \in 1..n : F(i) = "client_queries") <=> n >= 2
      /\ (\E i \in 1..n : F(i) = "domain_queries") <=> n >= 3
      /\ (\E i \in 1..n : F(i) = "blocked_queries") <=> r.outcome = "blocked" /\ n >= 4
      /\ (\E i \in 1..n : F(i) = "blocked_by_source") <=> r.outcome = "blocked" /\ n >= 5
      /\ (\E i \in 1..n : F(i) = "client_blocks") <=> r.outcome = "blocked" /\ n >= 6
      /\ (\E i \in 1..n : F(i) = "domain_blocks") <=> r.outcome = "blocked" /\ n >= 7
      /\ (\E i \in 1..n : F(i) = "cache_hits") <=> r.outcome \in {"cached", "stale"} /\ n >= 4
  <2>1. \A k \in 1..7 : k \in 1..n <=> n >= k
    BY <1>1
  <2>2. \A i \in 1..n : Placed(r, i, Bumps(r)[i].of)
    BY <1>1
  <2> QED
    BY <2>1, <2>2 DEF Placed
<1> QED
  BY <1>4, <1>5, <1>6, <1>7, <1>8

\* What a map or a total can hold: its counters are those of its field.
LEMMA FieldIs ==
    \A c \in Counters :
        /\ c[1] = "client_queries" => c \in Per("client_queries", Clients)
        /\ c[1] = "domain_queries" => c \in Per("domain_queries", Domains)
        /\ c[1] = "client_blocks" => c \in Per("client_blocks", Clients)
        /\ c[1] = "domain_blocks" => c \in Per("domain_blocks", Domains)
        /\ c[1] = "blocked_by_source" => c \in Per("blocked_by_source", Sources)
  BY DEF Counters, Per, Total, Blocked, Hits

LEMMA FieldOfKey ==
    \A field, keys : \A c \in Per(field, keys) : c[1] = field
  BY DEF Per

LEMMA FinitePer ==
    ASSUME NEW field, NEW keys, IsFiniteSet(keys)
    PROVE  IsFiniteSet(Per(field, keys))
<1> DEFINE entry == [key \in keys |-> <<field, key>>]
<1>1. IsFiniteSet({entry[key] : key \in keys})
  <2> HIDE DEF entry
  <2> QED
    BY FiniteImage
<1> QED
  BY <1>1 DEF Per

\* A bump adds one element to what its task has made, of a field not there yet.
Bumped(q, b) ==
    /\ b \in BumpSet
    /\ b.by = IF b.of[1] = "upstream_total_ms" THEN request[q].ms ELSE 1
    /\ counter' = [counter EXCEPT ![b.of] = @ + b.by]
    /\ request' = request
    /\ Made(q)' = Made(q) \cup {b}
    /\ \A p \in Queries \ {q} : Made(p)' = Made(p)
    /\ \A x \in Made(q) : x.of[1] # b.of[1]

LEMMA BumpMakes ==
    ASSUME TypeOK, BumpsWithin, NEW q \in Queries, Bump(q)
    PROVE  BumpsWithin' /\ \E b : Bumped(q, b)
<1> DEFINE bumps == Bumps(request[q])
           n == bumped[q]
           b == bumps[n + 1]
<1>1. /\ request[q] \in Requests /\ n \in Nat /\ Len(bumps) \in Nat
      /\ n < Len(bumps) /\ n + 1 \in 1..Len(bumps)
  <2>1. request[q] \in Requests /\ n \in Nat
    BY MadeTypes
  <2>2. Len(bumps) \in 2..7
    BY <2>1, BumpsAre
  <2>3. n < Len(bumps)
    BY DEF Bump
  <2> QED
    BY <2>1, <2>2, <2>3
<1>2. /\ request' = request /\ bumped' = [bumped EXCEPT ![q] = @ + 1]
      /\ counter' = [counter EXCEPT ![b.of] = @ + b.by]
  BY DEF Bump
<1>3. bumped \in [Queries -> 0..7]
  BY DEF TypeOK
<1>4. bumped'[q] = n + 1 /\ \A p \in Queries \ {q} : bumped'[p] = bumped[p]
  BY <1>2, <1>3
<1>5. BumpsWithin'
  BY <1>1, <1>2, <1>4 DEF BumpsWithin
<1>6. \A p \in Queries \ {q} : Made(p)' = Made(p)
  BY <1>2, <1>4 DEF Made
<1>7. Made(q)' = Made(q) \cup {b}
  <2>1. Made(q)' = {bumps[i] : i \in 1..(n + 1)}
    BY <1>2, <1>4 DEF Made
  <2>2. Made(q) = {bumps[i] : i \in 1..n}
    BY DEF Made
  <2>3. 1..(n + 1) = (1..n) \cup {n + 1}
    BY <1>1
  <2> QED
    BY <2>1, <2>2, <2>3
<1>8. /\ b \in BumpSet
      /\ b.by = IF b.of[1] = "upstream_total_ms" THEN request[q].ms ELSE 1
      /\ \A j \in 1..Len(bumps) : b.of[1] = bumps[j].of[1] => n + 1 = j
  BY <1>1, BumpsOnce
<1>9. \A x \in Made(q) : x.of[1] # b.of[1]
  <2>1. \A i \in 1..n : i \in 1..Len(bumps) /\ i # n + 1
    BY <1>1
  <2>2. \A i \in 1..n : b.of[1] # bumps[i].of[1]
    BY <1>8, <2>1
  <2> QED
    BY <2>2 DEF Made
<1>10. Bumped(q, b)
  <2> HIDE DEF b
  <2> QED
    BY <1>2, <1>6, <1>7, <1>8, <1>9 DEF Bumped
<1> QED
  BY <1>5, <1>10

LEMMA BumpAdds ==
    ASSUME TypeOK, BumpsWithin, NEW q \in Queries, NEW b, Bumped(q, b)
    PROVE  /\ \A c \in Counters, p \in Queries :
                 Added(p, c)' = IF p = q THEN Added(p, c) + (IF b.of = c THEN b.by ELSE 0)
                                ELSE Added(p, c)
           /\ \A field : \A p \in Queries :
                 AddedTo(p, field)' =
                     IF p = q THEN AddedTo(p, field) + (IF b.of[1] = field THEN 1 ELSE 0)
                     ELSE AddedTo(p, field)
<1>1. /\ \A p \in Queries : request[p] \in Requests /\ request[p].ms \in Nat
      /\ b.by \in Nat
  BY MadeTypes, RequestTypes DEF Bumped, BumpSet
<1>2. \A p \in Queries \ {q} : Made(p)' = Made(p) /\ request' = request
  BY DEF Bumped
<1>3. Made(q)' = Made(q) \cup {b} /\ \A x \in Made(q) : x.of[1] # b.of[1]
  BY DEF Bumped
<1>4. b.by = IF b.of[1] = "upstream_total_ms" THEN request[q].ms ELSE 1
  BY DEF Bumped
<1>5. request' = request
  BY DEF Bumped
<1>6. ASSUME NEW p \in Queries, p # q
      PROVE  \A c : Added(p, c)' = Added(p, c) /\ AddedTo(p, c)' = AddedTo(p, c)
  BY <1>2, <1>5, <1>6 DEF Added, AddedTo
<1>7. ASSUME NEW c
      PROVE  Added(q, c)' = Added(q, c) + (IF b.of = c THEN b.by ELSE 0)
  <2>1. (\E x \in Made(q)' : x.of = c) <=> (\E x \in Made(q) : x.of = c) \/ b.of = c
    BY <1>3
  <2>2. ~ ((\E x \in Made(q) : x.of = c) /\ b.of = c)
    BY <1>3
  <2>3. request[q].ms \in Nat /\ request'[q].ms = request[q].ms
    BY <1>1, <1>5
  <2>4. CASE b.of = c
    BY <1>4, <2>1, <2>2, <2>3, <2>4 DEF Added
  <2>5. CASE b.of # c
    BY <2>1, <2>3, <2>5 DEF Added
  <2> QED
    BY <2>4, <2>5
<1>8. ASSUME NEW field
      PROVE  AddedTo(q, field)' = AddedTo(q, field) + (IF b.of[1] = field THEN 1 ELSE 0)
  <2>1. (\E x \in Made(q)' : x.of[1] = field)
            <=> (\E x \in Made(q) : x.of[1] = field) \/ b.of[1] = field
    BY <1>3
  <2>2. ~ ((\E x \in Made(q) : x.of[1] = field) /\ b.of[1] = field)
    BY <1>3
  <2> QED
    BY <2>1, <2>2 DEF AddedTo
<1> QED
  BY <1>6, <1>7, <1>8

LEMMA BumpTypes ==
    ASSUME TypeOK, BumpsWithin, NEW q \in Queries, Bump(q)
    PROVE  TypeOK'
<1>1. PICK b : Bumped(q, b)
  BY BumpMakes
<1>2. b.of \in Counters /\ b.by \in Nat /\ counter' = [counter EXCEPT ![b.of] = @ + b.by]
  BY <1>1 DEF Bumped, BumpSet
<1>3. counter' \in [Counters -> Nat]
  BY <1>2 DEF TypeOK
<1>4. UNCHANGED <<request, part, start, seen>> /\ bumped' = [bumped EXCEPT ![q] = @ + 1]
  BY DEF Bump
<1>5. bumped[q] + 1 \in 0..7
  <2>1. bumped[q] \in Nat /\ request[q] \in Requests
    BY MadeTypes
  <2>2. Len(Bumps(request[q])) \in 2..7
    BY <2>1, BumpsAre
  <2>3. bumped[q] < Len(Bumps(request[q]))
    BY DEF Bump
  <2>4. \A n \in Nat, k \in 2..7 : n < k => n + 1 \in 0..7
    OBVIOUS
  <2> QED
    BY <2>1, <2>2, <2>3, <2>4
<1>6. bumped' \in [Queries -> 0..7]
  BY <1>4, <1>5 DEF TypeOK
<1> QED
  BY <1>3, <1>4, <1>6 DEF TypeOK

LEMMA BumpCounts ==
    ASSUME CountsInv, NEW q \in Queries, Bump(q)
    PROVE  CountersExact'
<1> USE DEF CountsInv
<1>1. PICK b : Bumped(q, b)
  BY BumpMakes
<1>2. b.of \in Counters /\ b.by \in Nat /\ counter' = [counter EXCEPT ![b.of] = @ + b.by]
  BY <1>1 DEF Bumped, BumpSet
<1> SUFFICES ASSUME NEW c \in Counters
             PROVE  counter'[c] = SumOver([p \in Queries |-> Added(p, c)'], Queries)
  BY DEF CountersExact
<1> DEFINE f == [p \in Queries |-> Added(p, c)]
           g == [p \in Queries |-> Added(p, c)']
           n == IF b.of = c THEN b.by ELSE 0
<1>3. n \in Nat /\ IsFiniteSet(Queries)
  BY <1>2, StatsAssumption
<1>4. \A p \in Queries : f[p] \in Nat /\ g[p] = IF p = q THEN f[p] + n ELSE f[p]
  BY <1>1, BumpAdds, MadeTypes
<1>5. counter[c] = SumOver(f, Queries)
  BY DEF CountersExact
<1>6. counter'[c] = counter[c] + n
  <2>1. counter \in [Counters -> Nat]
    BY DEF TypeOK
  <2> QED
    BY <1>2, <2>1
<1> HIDE DEF f, g, n
<1>7. SumOver(g, Queries) = SumOver(f, Queries) + n
  BY <1>3, <1>4, SumGrows
<1>8. counter'[c] = SumOver(g, Queries)
  BY <1>5, <1>6, <1>7
<1> QED
  BY <1>8 DEF g

LEMMA BumpMap ==
    ASSUME CountsInv, NEW q \in Queries, Bump(q), NEW field, NEW keys, IsFiniteSet(keys),
           Per(field, keys) \subseteq Counters, field # "upstream_total_ms",
           \A c \in Counters : c[1] = field => c \in Per(field, keys),
           MapExact(field, keys)
    PROVE  MapExact(field, keys)'
<1> USE DEF CountsInv
<1>1. PICK b : Bumped(q, b)
  BY BumpMakes
<1>2. /\ b.of \in Counters /\ b.by \in Nat
      /\ counter' = [counter EXCEPT ![b.of] = @ + b.by]
      /\ b.by = IF b.of[1] = "upstream_total_ms" THEN request[q].ms ELSE 1
  BY <1>1 DEF Bumped, BumpSet
<1> DEFINE P == Per(field, keys)
           f == [p \in Queries |-> AddedTo(p, field)]
           g == [p \in Queries |-> AddedTo(p, field)']
           n == IF b.of[1] = field THEN 1 ELSE 0
<1>3. n \in Nat /\ IsFiniteSet(Queries) /\ IsFiniteSet(P)
  BY StatsAssumption, FinitePer
<1>4. \A p \in Queries : f[p] \in Nat /\ g[p] = IF p = q THEN f[p] + n ELSE f[p]
  BY <1>1, BumpAdds, MadeTypes
<1>5. \A x \in P : counter[x] \in Nat
                    /\ counter'[x] = IF x = b.of THEN counter[x] + b.by ELSE counter[x]
  <2>1. counter \in [Counters -> Nat]
    BY DEF TypeOK
  <2> QED
    BY <1>2, <2>1
<1>6. n = IF b.of \in P THEN b.by ELSE 0
  BY <1>2, FieldOfKey
<1>7. SumOver(counter, P) = SumOver(f, Queries)
  BY DEF MapExact, Sum
<1> HIDE DEF f, g, n, P
<1>8. SumOver(g, Queries) = SumOver(f, Queries) + n
  BY <1>3, <1>4, SumGrows
<1>9. SumOver(counter', P) = SumOver(counter, P) + n
  <2> DEFINE o == b.of
             k == b.by
             after == counter'
  <2>1. k \in Nat /\ n = IF o \in P THEN k ELSE 0
    BY <1>2, <1>6
  <2>2. \A x \in P : counter[x] \in Nat
                      /\ after[x] = IF x = o THEN counter[x] + k ELSE counter[x]
    BY <1>5
  <2> HIDE DEF o, k, after
  <2>3. SumOver(after, P) = SumOver(counter, P) + (IF o \in P THEN k ELSE 0)
    BY <1>3, <2>1, <2>2, SumGrows
  <2> QED
    BY <2>1, <2>3 DEF after
<1>10. SumOver(counter', P) = SumOver(g, Queries)
  BY <1>7, <1>8, <1>9
<1> QED
  BY <1>10 DEF g, P, MapExact, Sum

\* A bump loses nothing of what the other tasks have counted.
LEMMA BumpKeepsCounts ==
    ASSUME CountsInv, NEW q \in Queries, Bump(q)
    PROVE  CountsInv'
<1>1. /\ Per("client_queries", Clients) \subseteq Counters
      /\ Per("domain_queries", Domains) \subseteq Counters
      /\ Per("client_blocks", Clients) \subseteq Counters
      /\ Per("domain_blocks", Domains) \subseteq Counters
      /\ Per("blocked_by_source", Sources) \subseteq Counters
  BY DEF Counters
<1>2. MapsExact'
  <2>1. /\ MapExact("client_queries", Clients) /\ MapExact("domain_queries", Domains)
        /\ MapExact("client_blocks", Clients) /\ MapExact("domain_blocks", Domains)
        /\ MapExact("blocked_by_source", Sources)
    BY DEF CountsInv, MapsExact
  <2>2. MapExact("client_queries", Clients)'
    BY <1>1, <2>1, BumpMap, FieldIs, StatsAssumption
  <2>3. MapExact("domain_queries", Domains)'
    BY <1>1, <2>1, BumpMap, FieldIs, StatsAssumption
  <2>4. MapExact("client_blocks", Clients)'
    BY <1>1, <2>1, BumpMap, FieldIs, StatsAssumption
  <2>5. MapExact("domain_blocks", Domains)'
    BY <1>1, <2>1, BumpMap, FieldIs, StatsAssumption
  <2>6. MapExact("blocked_by_source", Sources)'
    BY <1>1, <2>1, BumpMap, FieldIs, StatsAssumption
  <2> QED
    BY <2>2, <2>3, <2>4, <2>5, <2>6 DEF MapsExact
<1>3. TypeOK' /\ BumpsWithin'
  BY BumpTypes, BumpMakes DEF CountsInv
<1> QED
  BY <1>2, <1>3, BumpCounts DEF CountsInv

-----------------------------------------------------------------------------
\* What a report loads.

Loading(p) == UNION Range(p)

LEMMA RangeIs ==
    /\ Loading(<<>>) = {}
    /\ \A A : Loading(<<A>>) = A
    /\ \A A, B : Loading(<<A, B>>) = A \cup B
<1>1. DOMAIN <<>> = {}
  OBVIOUS
<1>2. \A A : DOMAIN <<A>> = {1} /\ <<A>>[1] = A
  OBVIOUS
<1>3. \A A, B : DOMAIN <<A, B>> = {1, 2} /\ <<A, B>>[1] = A /\ <<A, B>>[2] = B
  OBVIOUS
<1>4. Range(<<>>) = {}
  BY <1>1 DEF Range
<1>5. \A A : Range(<<A>>) = {A}
  BY <1>2 DEF Range
<1>6. \A A, B : Range(<<A, B>>) = {A, B}
  BY <1>3 DEF Range
<1> QED
  BY <1>4, <1>5, <1>6 DEF Loading

\* A report loads counters there are, those of an upstream together.
LEMMA PartsAre ==
    ASSUME NEW p \in {<<>>} \cup SnapshotParts \cup DumpParts
    PROVE  /\ Loading(p) \subseteq Counters /\ DOMAIN p \subseteq {1, 2}
           /\ \A u \in Slots : <<"upstream_count", u>> \in Loading(p) =>
                 <<"upstream_total_ms", u>> \in Loading(p)
<1>1. CASE p = <<>>
  BY <1>1, RangeIs
<1>2. CASE p \in SnapshotParts
  <2>1. PICK A, B : /\ p = <<A>> \/ p = <<A, B>>
                    /\ A \cup B \subseteq Counters
                    /\ \A c \in A \cup B : c[1] # "upstream_count"
    <3>1. p = <<{Total, Blocked, Hits}>>
          \/ p = <<Per("client_queries", Clients), Per("client_blocks", Clients)>>
          \/ p = <<Per("domain_queries", Domains), Per("domain_blocks", Domains)>>
      BY <1>2 DEF SnapshotParts
    <3>2. \A field, keys : \A c \in Per(field, keys) : c[1] = field
      BY FieldOfKey
    <3>3. \A c \in {Total, Blocked, Hits} : c[1] # "upstream_count"
      BY DEF Total, Blocked, Hits
    <3>4. /\ {Total, Blocked, Hits} \subseteq Counters
          /\ Per("client_queries", Clients) \cup Per("client_blocks", Clients) \subseteq Counters
          /\ Per("domain_queries", Domains) \cup Per("domain_blocks", Domains) \subseteq Counters
      BY DEF Counters
    <3>5. CASE p = <<{Total, Blocked, Hits}>>
      <4> DEFINE T == {Total, Blocked, Hits}
      <4>1. p = <<T>> /\ T \subseteq Counters /\ \A c \in T : c[1] # "upstream_count"
        BY <3>3, <3>4, <3>5
      <4>2. T \cup {} = T
        OBVIOUS
      <4> HIDE DEF T
      <4> QED
        BY <4>1, <4>2
    <3>6. CASE p = <<Per("client_queries", Clients), Per("client_blocks", Clients)>>
      BY <3>2, <3>4, <3>6
    <3>7. CASE p = <<Per("domain_queries", Domains), Per("domain_blocks", Domains)>>
      BY <3>2, <3>4, <3>7
    <3> QED
      BY <3>1, <3>5, <3>6, <3>7
  <2>2. Loading(p) \subseteq A \cup B /\ DOMAIN p \subseteq {1, 2}
    BY <2>1, RangeIs
  <2>3. \A u : <<"upstream_count", u>> \notin Loading(p)
    BY <2>1, <2>2
  <2> QED
    BY <2>1, <2>2, <2>3
<1>3. CASE p = <<{Blocked} \cup Per("blocked_by_source", Sources)>>
  <2>1. Loading(p) = {Blocked} \cup Per("blocked_by_source", Sources) /\ DOMAIN p = {1}
    BY <1>3, RangeIs
  <2>2. \A c \in Loading(p) : c[1] # "upstream_count"
    BY <2>1 DEF Per, Blocked
  <2>3. \A u : <<"upstream_count", u>> \notin Loading(p)
    BY <2>2
  <2> QED
    BY <2>1, <2>3 DEF Counters
<1>4. ASSUME NEW u \in Slots, p = <<{<<"upstream_total_ms", u>>, <<"upstream_count", u>>}>>
      PROVE  /\ Loading(p) \subseteq Counters /\ DOMAIN p \subseteq {1, 2}
             /\ \A v \in Slots : <<"upstream_count", v>> \in Loading(p) =>
                   <<"upstream_total_ms", v>> \in Loading(p)
  <2>1. Loading(p) = {<<"upstream_total_ms", u>>, <<"upstream_count", u>>} /\ DOMAIN p = {1}
    BY <1>4, RangeIs
  <2> QED
    BY <2>1, CounterTypes
<1> QED
  BY <1>1, <1>2, <1>3, <1>4 DEF DumpParts

LEMMA MulMono ==
    ASSUME NEW m \in Nat, NEW a \in Nat, NEW b \in Nat, a <= b
    PROVE  m * a <= m * b
<1> DEFINE d == b - a
<1>1. d \in Nat /\ b = a + d
  OBVIOUS
<1> HIDE DEF d
<1>2. m * (a + d) = m * a + m * d /\ m * d \in Nat /\ m * a \in Nat
  BY <1>1
<1> QED
  BY <1>1, <1>2

LEMMA SamplingIs ==
    ASSUME TypeOK, BumpsWithin, NEW q \in Queries, NEW u \in Slots
    PROVE  /\ Added(q, <<"upstream_total_ms", u>>) =
                  IF q \in Sampling(u) THEN request[q].ms ELSE 0
           /\ Added(q, <<"upstream_count", u>>) <= IF q \in Sampling(u) THEN 1 ELSE 0
<1> DEFINE r == request[q]
           n == bumped[q]
           at(i) == Bumps(r)[i].of
<1>1. r \in Requests /\ n \in Nat /\ \A i \in 1..n : i \in 1..Len(Bumps(r))
  BY MadeTypes
<1>2. \A i \in 1..n :
          /\ at(i)[1] = "upstream_total_ms" => at(i) = <<"upstream_total_ms", r.upstream>>
          /\ at(i)[1] = "upstream_count" =>
                /\ at(i) = <<"upstream_count", r.upstream>>
                /\ i - 1 \in 1..Len(Bumps(r)) /\ at(i - 1)[1] = "upstream_total_ms"
  BY <1>1, BumpsPlaced DEF Keyed
<1>3. q \in Sampling(u) <=> r.upstream = u /\ \E i \in 1..n : at(i)[1] = "upstream_total_ms"
  BY DEF Sampling
<1>4. \A c : (\E b \in Made(q) : b.of = c) <=> \E i \in 1..n : at(i) = c
  BY DEF Made
<1>5. q \in Sampling(u) <=> \E i \in 1..n : at(i) = <<"upstream_total_ms", u>>
  BY <1>2, <1>3
<1>6. (\E i \in 1..n : at(i) = <<"upstream_count", u>>) => q \in Sampling(u)
  <2> SUFFICES ASSUME NEW i \in 1..n, at(i) = <<"upstream_count", u>>
               PROVE  q \in Sampling(u)
    OBVIOUS
  <2>1. /\ at(i) = <<"upstream_count", r.upstream>> /\ i - 1 \in 1..Len(Bumps(r))
        /\ at(i - 1)[1] = "upstream_total_ms"
    <3>1. at(i)[1] = "upstream_count"
      OBVIOUS
    <3> QED
      BY <1>2, <3>1
  <2>2. r.upstream = u
    <3>1. <<"upstream_count", r.upstream>> = <<"upstream_count", u>>
      BY <2>1
    <3> QED
      BY <3>1
  <2>3. i - 1 \in 1..n
    BY <1>1, <2>1
  <2> QED
    BY <1>3, <2>1, <2>2, <2>3
<1> HIDE DEF at, r, n
<1>7. Added(q, <<"upstream_total_ms", u>>) = IF q \in Sampling(u) THEN request[q].ms ELSE 0
  BY <1>4, <1>5 DEF Added
<1>8. Added(q, <<"upstream_count", u>>) =
          IF \E i \in 1..n : at(i) = <<"upstream_count", u>> THEN 1 ELSE 0
  BY <1>4 DEF Added
<1> QED
  BY <1>6, <1>7, <1>8

\* The two counters of an upstream, by the tasks that record a sample there.
LEMMA SampleCounts ==
    ASSUME CountsInv, NEW u \in Slots, NEW m \in Nat
    PROVE  LET ms == counter[<<"upstream_total_ms", u>>]
               n  == counter[<<"upstream_count", u>>]
               s  == Cardinality(Sampling(u))
           IN  /\ s \in Nat /\ IsFiniteSet(Sampling(u)) /\ n <= s
               /\ (\A q \in Sampling(u) : m <= request[q].ms) => m * s <= ms
               /\ (\A q \in Sampling(u) : request[q].ms <= m) => ms <= m * s
<1> DEFINE ms == <<"upstream_total_ms", u>>
           n  == <<"upstream_count", u>>
           S  == Sampling(u)
           f == [q \in Queries |-> Added(q, ms)]
           g == [q \in Queries |-> Added(q, n)]
           each(k) == [q \in Queries |-> IF q \in S THEN k ELSE 0]
<1>1. S \subseteq Queries /\ IsFiniteSet(Queries)
  BY StatsAssumption DEF Sampling
<1>2. IsFiniteSet(S) /\ Cardinality(S) \in Nat
  BY <1>1, FS_Subset, FS_CardinalityType
<1>3. counter[ms] = SumOver(f, Queries) /\ counter[n] = SumOver(g, Queries)
  BY CounterTypes DEF CountsInv, CountersExact
<1>4. \A q \in Queries :
          /\ f[q] \in Nat /\ g[q] \in Nat
          /\ f[q] = IF q \in S THEN request[q].ms ELSE 0
          /\ g[q] <= IF q \in S THEN 1 ELSE 0
  <2> TAKE q \in Queries
  <2>1. f[q] = Added(q, ms) /\ g[q] = Added(q, n)
    OBVIOUS
  <2>2. Added(q, ms) \in Nat /\ Added(q, n) \in Nat
    BY MadeTypes DEF CountsInv
  <2>3. /\ Added(q, ms) = IF q \in S THEN request[q].ms ELSE 0
        /\ Added(q, n) <= IF q \in S THEN 1 ELSE 0
    BY SamplingIs DEF CountsInv
  <2> HIDE DEF f, g, S
  <2> QED
    BY <2>1, <2>2, <2>3
<1>5. \A k \in Nat : \A q \in Queries : each(k)[q] = IF q \in S THEN k ELSE 0
  OBVIOUS
<1> HIDE DEF f, g, each, S
<1>6. \A k \in Nat : SumOver(each(k), Queries) = k * Cardinality(S)
  BY <1>1, <1>5, SumOfEqual
<1>7. counter[n] <= Cardinality(S)
  <2>1. \A q \in Queries : g[q] \in Nat /\ each(1)[q] \in Nat /\ g[q] <= each(1)[q]
    <3> TAKE q \in Queries
    <3>1. each(1)[q] = IF q \in S THEN 1 ELSE 0
      BY <1>5
    <3> QED
      BY <1>4, <3>1
  <2>2. SumOver(g, Queries) <= SumOver(each(1), Queries)
    BY <1>1, <2>1, SumLess
  <2>3. SumOver(each(1), Queries) = 1 * Cardinality(S)
    BY <1>6
  <2> QED
    BY <1>2, <1>3, <2>2, <2>3
<1>8. ASSUME \A q \in S : m <= request[q].ms
      PROVE  m * Cardinality(S) <= counter[ms]
  <2>1. \A q \in Queries : f[q] \in Nat /\ each(m)[q] \in Nat /\ each(m)[q] <= f[q]
    <3> TAKE q \in Queries
    <3>1. each(m)[q] = IF q \in S THEN m ELSE 0
      BY <1>5
    <3> QED
      BY <1>4, <1>8, <3>1
  <2>2. SumOver(each(m), Queries) <= SumOver(f, Queries)
    BY <1>1, <2>1, SumLess
  <2> QED
    BY <1>3, <1>6, <2>2
<1>9. ASSUME \A q \in S : request[q].ms <= m
      PROVE  counter[ms] <= m * Cardinality(S)
  <2>1. \A q \in Queries : f[q] \in Nat /\ each(m)[q] \in Nat /\ f[q] <= each(m)[q]
    <3> TAKE q \in Queries
    <3>1. each(m)[q] = IF q \in S THEN m ELSE 0
      BY <1>5
    <3> QED
      BY <1>4, <1>9, <3>1
  <2>2. SumOver(f, Queries) <= SumOver(each(m), Queries)
    BY <1>1, <2>1, SumLess
  <2> QED
    BY <1>3, <1>6, <2>2
<1> QED
  BY <1>2, <1>7, <1>8, <1>9 DEF S

\* Counts and report together.
ReportInv == CountsInv /\ LoadedBetween /\ SamplesBefore

\* Counters only grow.
LEMMA CountersGrow ==
    ASSUME CountsInv, NEW q \in Queries, Bump(q)
    PROVE  \A c \in Counters : counter[c] \in Nat /\ counter'[c] \in Nat /\ counter[c] <= counter'[c]
<1>1. PICK b : Bumped(q, b)
  BY BumpMakes DEF CountsInv
<1>2. b.of \in Counters /\ b.by \in Nat /\ counter' = [counter EXCEPT ![b.of] = @ + b.by]
  BY <1>1 DEF Bumped, BumpSet
<1>3. counter \in [Counters -> Nat]
  BY DEF CountsInv, TypeOK
<1> QED
  BY <1>2, <1>3

LEMMA StartTypes ==
    ASSUME TypeOK
    PROVE  /\ DOMAIN start = Loading(part) /\ DOMAIN start \subseteq Counters
           /\ \A c \in DOMAIN start : start[c] \in Nat
           /\ \A c \in DOMAIN seen : c \in DOMAIN start /\ seen[c] \in Nat
           /\ \A c \in Counters : counter[c] \in Nat
<1>1. start \in [Loading(part) -> Nat] /\ part \in {<<>>} \cup SnapshotParts \cup DumpParts
  BY DEF TypeOK, Loading
<1>2. Loading(part) \subseteq Counters
  BY <1>1, PartsAre
<1>3. DOMAIN seen \subseteq DOMAIN start /\ seen \in [DOMAIN seen -> Nat]
  BY DEF TypeOK
<1>4. counter \in [Counters -> Nat]
  BY DEF TypeOK
<1> QED
  BY <1>1, <1>2, <1>3, <1>4

LEMMA BumpKeepsReport ==
    ASSUME ReportInv, NEW q \in Queries, Bump(q)
    PROVE  LoadedBetween' /\ SamplesBefore'
<1>1. \A c \in Counters : counter[c] \in Nat /\ counter'[c] \in Nat /\ counter[c] <= counter'[c]
  BY CountersGrow DEF ReportInv
<1>2. /\ DOMAIN start \subseteq Counters /\ \A c \in DOMAIN start : start[c] \in Nat
      /\ \A c \in DOMAIN seen : c \in DOMAIN start /\ seen[c] \in Nat
  BY StartTypes DEF ReportInv, CountsInv
<1>3. UNCHANGED <<request, part, start, seen>>
  BY DEF Bump
<1>4. LoadedBetween'
  <2>1. /\ \A c \in DOMAIN start : start[c] <= counter[c]
        /\ \A c \in DOMAIN seen : seen[c] \in start[c]..counter[c]
    BY DEF ReportInv, LoadedBetween
  <2>2. \A c \in DOMAIN start : start[c] <= counter'[c]
    <3> TAKE c \in DOMAIN start
    <3>1. /\ start[c] \in Nat /\ counter[c] \in Nat /\ counter'[c] \in Nat
          /\ start[c] <= counter[c] /\ counter[c] <= counter'[c]
      BY <1>1, <1>2, <2>1
    <3> QED
      BY <3>1
  <2>3. \A c \in DOMAIN seen : seen[c] \in start[c]..counter'[c]
    <3> TAKE c \in DOMAIN seen
    <3>1. /\ seen[c] \in Nat /\ start[c] \in Nat /\ counter[c] \in Nat /\ counter'[c] \in Nat
          /\ seen[c] \in start[c]..counter[c] /\ counter[c] <= counter'[c]
      BY <1>1, <1>2, <2>1
    <3> QED
      BY <3>1
  <2> QED
    BY <1>3, <2>2, <2>3 DEF LoadedBetween
<1>5. SamplesBefore'
  <2>1. \A u \in Slots : Sampling(u) \subseteq Sampling(u)'
    <3> TAKE u \in Slots
    <3>1. \A p \in Queries : bumped[p] \in Nat /\ bumped'[p] \in Nat /\ bumped[p] <= bumped'[p]
      <4>1. bumped \in [Queries -> 0..7] /\ bumped' = [bumped EXCEPT ![q] = @ + 1]
        BY DEF ReportInv, CountsInv, TypeOK, Bump
      <4> QED
        BY <4>1
    <3>2. \A p \in Queries : \A i \in 1..bumped[p] : i \in 1..bumped'[p]
      BY <3>1
    <3>3. request' = request
      BY <1>3
    <3> QED
      BY <3>2, <3>3 DEF Sampling
  <2> SUFFICES ASSUME NEW u \in Slots, NEW m \in Nat,
                      <<"upstream_count", u>> \in DOMAIN start,
                      \A p \in Sampling(u)' : m <= request[p].ms
               PROVE  m * start[<<"upstream_count", u>>] <= start[<<"upstream_total_ms", u>>]
    BY <1>3 DEF SamplesBefore
  <2>2. \A p \in Sampling(u) : m <= request[p].ms
    BY <2>1
  <2> QED
    BY <2>2 DEF ReportInv, SamplesBefore
<1> QED
  BY <1>4, <1>5

\* The report counts nothing.
LEMMA CountsStay ==
    ASSUME CountsInv, UNCHANGED <<request, bumped, counter>>
    PROVE  BumpsWithin' /\ CountersExact' /\ MapsExact'
<1>1. \A q : Made(q)' = Made(q)
  BY DEF Made
<1>2. \A q, c : Added(q, c)' = Added(q, c) /\ AddedTo(q, c)' = AddedTo(q, c)
  BY <1>1 DEF Added, AddedTo
<1>3. BumpsWithin'
  BY DEF CountsInv, BumpsWithin
<1>4. CountersExact'
  <2>1. \A c : [q \in Queries |-> Added(q, c)'] = [q \in Queries |-> Added(q, c)]
    BY <1>2
  <2>2. \A c \in Counters : counter[c] = SumOver([q \in Queries |-> Added(q, c)], Queries)
    BY DEF CountsInv, CountersExact
  <2>3. \A c \in Counters : counter'[c] = SumOver([q \in Queries |-> Added(q, c)'], Queries)
    BY <2>1, <2>2
  <2> QED
    BY <2>3 DEF CountersExact
<1>5. \A field, keys : MapExact(field, keys) => MapExact(field, keys)'
  <2> TAKE field, keys
  <2>1. [q \in Queries |-> AddedTo(q, field)'] = [q \in Queries |-> AddedTo(q, field)]
    BY <1>2
  <2> QED
    BY <2>1 DEF MapExact, Sum
<1> QED
  BY <1>3, <1>4, <1>5 DEF CountsInv, MapsExact

\* A report begins: it has loaded nothing, and its counters are as they are.
LEMMA ReportKeeps ==
    ASSUME ReportInv, Report
    PROVE  ReportInv'
<1>1. /\ part' \in SnapshotParts \cup DumpParts
      /\ start' = [c \in Loading(part') |-> counter[c]]
      /\ UNCHANGED <<request, bumped, counter, seen>>
  BY DEF Report, Loading
<1>2. DOMAIN seen = {}
  <2>1. part = <<>>
    BY DEF Report
  <2>2. Loading(part) = {}
    BY <2>1, RangeIs
  <2> QED
    BY <2>2, StartTypes DEF ReportInv, CountsInv
<1>3. /\ Loading(part') \subseteq Counters
      /\ \A u \in Slots : <<"upstream_count", u>> \in Loading(part') =>
            <<"upstream_total_ms", u>> \in Loading(part')
  BY <1>1, PartsAre
<1>4. \A c \in Counters : counter[c] \in Nat
  BY StartTypes DEF ReportInv, CountsInv
<1>5. TypeOK'
  <2>1. start' \in [UNION Range(part') -> Nat]
    BY <1>1, <1>3, <1>4 DEF Loading
  <2>2. seen \in [DOMAIN seen -> Nat]
    BY DEF ReportInv, CountsInv, TypeOK
  <2>3. seen' \in [DOMAIN seen' -> Nat] /\ DOMAIN seen' \subseteq DOMAIN start'
    BY <1>1, <1>2, <2>2
  <2> QED
    BY <1>1, <2>1, <2>3 DEF ReportInv, CountsInv, TypeOK
<1>6. BumpsWithin' /\ CountersExact' /\ MapsExact'
  BY <1>1, CountsStay DEF ReportInv
<1>7. LoadedBetween'
  BY <1>1, <1>2, <1>3, <1>4 DEF LoadedBetween
<1>8. SamplesBefore'
  <2> SUFFICES ASSUME NEW u \in Slots, NEW m \in Nat,
                      <<"upstream_count", u>> \in DOMAIN start',
                      \A q \in Sampling(u) : m <= request[q].ms
               PROVE  m * start'[<<"upstream_count", u>>] <= start'[<<"upstream_total_ms", u>>]
    BY <1>1 DEF SamplesBefore, Sampling
  <2> DEFINE n  == counter[<<"upstream_count", u>>]
             ms == counter[<<"upstream_total_ms", u>>]
             s  == Cardinality(Sampling(u))
  <2>1. start'[<<"upstream_count", u>>] = n /\ start'[<<"upstream_total_ms", u>>] = ms
    BY <1>1, <1>3
  <2>2. s \in Nat /\ n <= s /\ m * s <= ms
    BY SampleCounts DEF ReportInv
  <2>3. n \in Nat /\ ms \in Nat
    BY <1>4, CounterTypes
  <2> HIDE DEF n, ms, s
  <2>4. m * n <= m * s /\ m * n \in Nat /\ m * s \in Nat
    BY <2>2, <2>3, MulMono
  <2> QED
    BY <2>1, <2>2, <2>3, <2>4
<1> QED
  BY <1>5, <1>6, <1>7, <1>8 DEF ReportInv, CountsInv

\* A load takes the value a counter has.
LEMMA LoadKeeps ==
    ASSUME ReportInv, Load
    PROVE  ReportInv'
<1>1. UNCHANGED <<request, bumped, counter, part, start>>
  BY DEF Load
<1>2. PICK c \in part[Min(Unfinished)] \ DOMAIN seen :
          seen' = [d \in DOMAIN seen \cup {c} |-> IF d = c THEN counter[c] ELSE seen[d]]
  BY DEF Load
<1>3. c \in DOMAIN start
  <2>1. Unfinished # {} /\ Unfinished \subseteq DOMAIN part
    BY DEF Load, Unfinished
  <2>2. DOMAIN part \subseteq {1, 2}
    BY PartsAre DEF ReportInv, CountsInv, TypeOK
  <2>3. Min(Unfinished) \in DOMAIN part
    <3>1. Unfinished \in SUBSET Nat
      BY <2>1, <2>2
    <3> QED
      BY <2>1, <3>1, LeastOfNat
  <2>4. c \in Loading(part)
    BY <2>3 DEF Loading, Range
  <2> QED
    BY <2>4, StartTypes DEF ReportInv, CountsInv
<1>4. counter[c] \in Nat /\ start[c] \in Nat /\ start[c] <= counter[c]
  BY <1>3, StartTypes DEF ReportInv, CountsInv, LoadedBetween
<1>5. DOMAIN seen' = DOMAIN seen \cup {c} /\ seen'[c] = counter[c]
      /\ \A d \in DOMAIN seen \ {c} : seen'[d] = seen[d]
  BY <1>2
<1>6. TypeOK'
  <2>1. \A d \in DOMAIN seen : d \in DOMAIN start /\ seen[d] \in Nat
    BY StartTypes DEF ReportInv, CountsInv
  <2>2. DOMAIN seen' \subseteq DOMAIN start' /\ seen' \in [DOMAIN seen' -> Nat]
    BY <1>1, <1>2, <1>3, <1>4, <2>1
  <2> QED
    BY <1>1, <2>2 DEF ReportInv, CountsInv, TypeOK
<1>7. BumpsWithin' /\ CountersExact' /\ MapsExact'
  BY <1>1, CountsStay DEF ReportInv
<1>8. LoadedBetween'
  <2>1. \A d \in DOMAIN seen : seen[d] \in start[d]..counter[d]
    BY DEF ReportInv, LoadedBetween
  <2>2. \A d \in DOMAIN seen' : seen'[d] \in start[d]..counter[d]
    <3>1. counter[c] \in start[c]..counter[c]
      BY <1>4
    <3> QED
      BY <1>5, <2>1, <3>1
  <2> QED
    BY <1>1, <2>2 DEF ReportInv, LoadedBetween
<1>9. SamplesBefore'
  BY <1>1 DEF ReportInv, SamplesBefore, Sampling
<1> QED
  BY <1>6, <1>7, <1>8, <1>9 DEF ReportInv, CountsInv

-----------------------------------------------------------------------------
\* What the counters say together.

LEMMA CountedAll ==
    ASSUME CountsInv
    PROVE  AllCounted
<1> DEFINE total   == [q \in Queries |-> Added(q, Total)]
           blocked == [q \in Queries |-> Added(q, Blocked)]
           hits    == [q \in Queries |-> Added(q, Hits)]
           in(field) == [q \in Queries |-> AddedTo(q, field)]
           clients == Sum(counter, "client_queries", Clients)
           domains == Sum(counter, "domain_queries", Domains)
           sources == Sum(counter, "blocked_by_source", Sources)
<1>1. /\ counter[Total] = SumOver(total, Queries)
      /\ counter[Blocked] = SumOver(blocked, Queries)
      /\ counter[Hits] = SumOver(hits, Queries)
  BY CounterTypes DEF CountsInv, CountersExact
<1>2. /\ clients = SumOver(in("client_queries"), Queries)
      /\ domains = SumOver(in("domain_queries"), Queries)
      /\ sources = SumOver(in("blocked_by_source"), Queries)
      /\ Sum(counter, "client_blocks", Clients) = SumOver(in("client_blocks"), Queries)
      /\ Sum(counter, "domain_blocks", Domains) = SumOver(in("domain_blocks"), Queries)
  BY DEF CountsInv, MapsExact, MapExact
<1>3. \A q \in Queries :
          LET r == request[q]
              n == bumped[q]
          IN  /\ total[q] = IF n >= 1 THEN 1 ELSE 0
              /\ in("client_queries")[q] = IF n >= 2 THEN 1 ELSE 0
              /\ in("domain_queries")[q] = IF n >= 3 THEN 1 ELSE 0
              /\ blocked[q] = IF r.outcome = "blocked" /\ n >= 4 THEN 1 ELSE 0
              /\ hits[q] = IF r.outcome \in {"cached", "stale"} /\ n >= 4 THEN 1 ELSE 0
              /\ in("blocked_by_source")[q] = IF r.outcome = "blocked" /\ n >= 5 THEN 1 ELSE 0
              /\ in("client_blocks")[q] = IF r.outcome = "blocked" /\ n >= 6 THEN 1 ELSE 0
              /\ in("domain_blocks")[q] = IF r.outcome = "blocked" /\ n >= 7 THEN 1 ELSE 0
  BY AddedByPlace DEF CountsInv
<1>4. IsFiniteSet(Queries) /\ \A q \in Queries : bumped[q] \in Nat /\ request[q] \in Requests
  BY StatsAssumption, MadeTypes DEF CountsInv
<1> HIDE DEF total, blocked, hits, in, clients, domains, sources
<1>5. SumOver(in("client_queries"), Queries) <= SumOver(total, Queries)
  <2>1. \A q \in Queries : /\ in("client_queries")[q] \in Nat /\ total[q] \in Nat
                           /\ in("client_queries")[q] <= total[q]
    BY <1>3, <1>4
  <2> QED
    BY <1>4, <2>1, SumLess
<1>6. SumOver(in("domain_queries"), Queries) <= SumOver(in("client_queries"), Queries)
  <2>1. \A q \in Queries : /\ in("client_queries")[q] \in Nat /\ in("domain_queries")[q] \in Nat
                           /\ in("domain_queries")[q] <= in("client_queries")[q]
    BY <1>3, <1>4
  <2> QED
    BY <1>4, <2>1, SumLess
<1>7. SumOver(blocked, Queries) + SumOver(hits, Queries) <= SumOver(in("domain_queries"), Queries)
  <2>1. \A q \in Queries : /\ blocked[q] \in Nat /\ hits[q] \in Nat
                           /\ in("domain_queries")[q] \in Nat
                           /\ blocked[q] + hits[q] <= in("domain_queries")[q]
    BY <1>3, <1>4
  <2> QED
    BY <1>4, <2>1, SumMono
<1>8. SumOver(in("blocked_by_source"), Queries) <= SumOver(blocked, Queries)
  <2>1. \A q \in Queries : /\ in("blocked_by_source")[q] \in Nat /\ blocked[q] \in Nat
                           /\ in("blocked_by_source")[q] <= blocked[q]
    BY <1>3, <1>4
  <2> QED
    BY <1>4, <2>1, SumLess
<1>9. ASSUME Quiet
      PROVE  /\ SumOver(in("client_queries"), Queries) = SumOver(total, Queries)
             /\ SumOver(in("domain_queries"), Queries)
                    = SumOver(in("client_queries"), Queries) - Cardinality(Unasked)
             /\ SumOver(in("blocked_by_source"), Queries) = SumOver(blocked, Queries)
             /\ SumOver(in("client_blocks"), Queries) = SumOver(in("blocked_by_source"), Queries)
             /\ SumOver(in("domain_blocks"), Queries) = SumOver(in("blocked_by_source"), Queries)
  <2>1. \A q \in Queries :
            /\ bumped[q] >= 2 /\ (bumped[q] >= 3 <=> request[q].outcome # "empty")
            /\ request[q].outcome = "blocked" => bumped[q] = 7
    <3> TAKE q \in Queries
    <3>1. bumped[q] = Len(Bumps(request[q]))
      BY <1>9 DEF Quiet
    <3>2. /\ request[q].outcome = "empty" => Len(Bumps(request[q])) = 2
          /\ request[q].outcome # "empty" => Len(Bumps(request[q])) >= 3
          /\ request[q].outcome = "blocked" => Len(Bumps(request[q])) = 7
      BY <1>4, BumpsPlaced
    <3>3. bumped[q] \in Nat
      BY <1>4
    <3>4. CASE request[q].outcome = "empty"
      <4>1. bumped[q] = 2
        BY <3>1, <3>2, <3>4
      <4>2. bumped[q] >= 2 /\ ~(bumped[q] >= 3)
        BY <4>1
      <4>3. request[q].outcome # "blocked"
        BY <3>4
      <4> QED
        BY <3>4, <4>2, <4>3
    <3>5. CASE request[q].outcome # "empty"
      <4>1. bumped[q] >= 3
        BY <3>1, <3>2, <3>5
      <4>2. bumped[q] >= 2
        BY <3>3, <4>1
      <4> QED
        BY <3>1, <3>2, <3>5, <4>1, <4>2
    <3> QED
      BY <3>4, <3>5
  <2>2. \A q \in Queries : total[q] = 1 /\ in("client_queries")[q] = 1
    BY <1>3, <1>4, <2>1
  <2>3. \A q \in Queries :
            LET one == IF request[q].outcome = "blocked" THEN 1 ELSE 0
            IN  /\ blocked[q] = one /\ in("blocked_by_source")[q] = one
                /\ in("client_blocks")[q] = one /\ in("domain_blocks")[q] = one
    BY <1>3, <1>4, <2>1
  <2>4. SumOver(in("client_queries"), Queries) = SumOver(total, Queries)
    BY <1>4, <2>2, SumSame
  <2>5. SumOver(in("domain_queries"), Queries)
            = SumOver(in("client_queries"), Queries) - Cardinality(Unasked)
    <3>1. Unasked \in SUBSET Queries /\ Queries \ Unasked \in SUBSET Queries
      BY DEF Unasked
    <3>2. \A q \in Queries : in("domain_queries")[q] = IF q \in Queries \ Unasked THEN 1 ELSE 0
      BY <1>3, <1>4, <2>1 DEF Unasked
    <3>3. SumOver(in("domain_queries"), Queries) = 1 * Cardinality(Queries \ Unasked)
      BY <1>4, <3>1, <3>2, SumOfEqual
    <3>4. SumOver(in("client_queries"), Queries) = 1 * Cardinality(Queries)
      <4>1. \A q \in Queries : in("client_queries")[q] = IF q \in Queries THEN 1 ELSE 0
        BY <2>2
      <4> QED
        BY <1>4, <4>1, SumOfEqual
    <3>5. /\ Cardinality(Queries \ Unasked) = Cardinality(Queries) - Cardinality(Unasked)
          /\ Cardinality(Queries) \in Nat /\ Cardinality(Queries \ Unasked) \in Nat
      <4>1. Queries \cap Unasked = Unasked
        BY <3>1
      <4>2. Cardinality(Queries \ Unasked) = Cardinality(Queries) - Cardinality(Queries \cap Unasked)
        BY <1>4, FS_Difference
      <4>3. IsFiniteSet(Queries \ Unasked)
        BY <1>4, <3>1, FS_Subset
      <4> QED
        BY <1>4, <4>1, <4>2, <4>3, FS_CardinalityType
    <3> QED
      BY <3>3, <3>4, <3>5
  <2>6. SumOver(in("blocked_by_source"), Queries) = SumOver(blocked, Queries)
    BY <1>4, <2>3, SumSame
  <2>7. SumOver(in("client_blocks"), Queries) = SumOver(in("blocked_by_source"), Queries)
    BY <1>4, <2>3, SumSame
  <2>8. SumOver(in("domain_blocks"), Queries) = SumOver(in("blocked_by_source"), Queries)
    BY <1>4, <2>3, SumSame
  <2> QED
    BY <2>4, <2>5, <2>6, <2>7, <2>8
<1>10. /\ counter[Total] \in Nat /\ counter[Blocked] \in Nat /\ counter[Hits] \in Nat
       /\ \A field \in {"client_queries", "domain_queries", "blocked_by_source"} :
             SumOver(in(field), Queries) \in Nat
  <2>1. /\ \A q \in Queries : in("client_queries")[q] \in Nat /\ in("domain_queries")[q] \in Nat
        /\ \A q \in Queries : in("blocked_by_source")[q] \in Nat
    BY <1>3, <1>4
  <2>2. /\ SumOver(in("client_queries"), Queries) \in Nat
        /\ SumOver(in("domain_queries"), Queries) \in Nat
        /\ SumOver(in("blocked_by_source"), Queries) \in Nat
    BY <1>4, <2>1, SumType
  <2> QED
    BY <2>2, CounterTypes, StartTypes DEF CountsInv
<1>11. /\ counter[Total] >= clients /\ clients >= domains
       /\ domains >= counter[Blocked] + counter[Hits]
       /\ counter[Blocked] >= sources
  <2>1. /\ clients \in Nat /\ domains \in Nat /\ sources \in Nat
    BY <1>2, <1>10
  <2> QED
    BY <1>1, <1>2, <1>5, <1>6, <1>7, <1>8, <1>10, <2>1
<1>12. Quiet => /\ clients = counter[Total]
                /\ domains = clients - Cardinality(Unasked)
                /\ sources = counter[Blocked]
                /\ Sum(counter, "client_blocks", Clients) = sources
                /\ Sum(counter, "domain_blocks", Domains) = sources
  BY <1>1, <1>2, <1>9
<1> QED
  BY <1>11, <1>12 DEF AllCounted, clients, domains, sources

LEMMA InitCounts ==
    ASSUME Init
    PROVE  ReportInv
<1>1. /\ request \in [Queries -> Requests] /\ bumped = [q \in Queries |-> 0]
      /\ counter = [c \in Counters |-> 0]
      /\ part = <<>> /\ DOMAIN start = {} /\ DOMAIN seen = {}
      /\ start = [c \in {} |-> 0] /\ seen = [c \in {} |-> 0]
  BY DEF Init
<1>2. TypeOK
  <2>1. UNION Range(part) = {}
    BY <1>1, RangeIs DEF Loading
  <2>2. start \in [{} -> Nat] /\ seen \in [DOMAIN seen -> Nat]
    BY <1>1
  <2> QED
    BY <1>1, <2>1, <2>2 DEF TypeOK
<1>3. \A q \in Queries : Made(q) = {}
  BY <1>1 DEF Made
<1>4. \A q \in Queries : \A c : Added(q, c) = 0 /\ AddedTo(q, c) = 0
  BY <1>3 DEF Added, AddedTo
<1>5. BumpsWithin
  <2> SUFFICES ASSUME NEW q \in Queries
               PROVE  bumped[q] <= Len(Bumps(request[q]))
    BY DEF BumpsWithin
  <2>1. Len(Bumps(request[q])) \in 2..7
    BY <1>1, BumpsAre
  <2> QED
    BY <1>1, <2>1
<1>6. \A S, f : IsFiniteSet(S) /\ (\A x \in S : f[x] = 0) => SumOver(f, S) = 0
  <2> SUFFICES ASSUME NEW S, NEW f, IsFiniteSet(S), \A x \in S : f[x] = 0
               PROVE  SumOver(f, S) = 0
    OBVIOUS
  <2>1. \A x \in S : f[x] = IF x \in {} THEN 0 ELSE 0
    OBVIOUS
  <2>2. SumOver(f, S) = 0 * Cardinality({})
    BY <2>1, SumOfEqual
  <2>3. Cardinality({}) = 0
    BY FS_EmptySet
  <2> QED
    BY <2>2, <2>3
<1>7. IsFiniteSet(Queries)
  BY StatsAssumption
<1>8. CountersExact
  <2> SUFFICES ASSUME NEW c \in Counters
               PROVE  counter[c] = SumOver([q \in Queries |-> Added(q, c)], Queries)
    BY DEF CountersExact
  <2> DEFINE f == [q \in Queries |-> Added(q, c)]
  <2>1. \A q \in Queries : f[q] = 0
    BY <1>4
  <2> HIDE DEF f
  <2>2. SumOver(f, Queries) = 0
    BY <1>6, <1>7, <2>1
  <2> QED
    BY <1>1, <2>2 DEF f
<1>9. ASSUME NEW field, NEW keys, IsFiniteSet(keys), Per(field, keys) \subseteq Counters
      PROVE  MapExact(field, keys)
  <2> DEFINE f == [q \in Queries |-> AddedTo(q, field)]
  <2>1. \A q \in Queries : f[q] = 0
    BY <1>4
  <2> HIDE DEF f
  <2>2. SumOver(f, Queries) = 0
    BY <1>6, <1>7, <2>1
  <2>3. IsFiniteSet(Per(field, keys)) /\ \A c \in Per(field, keys) : counter[c] = 0
    BY <1>1, <1>9, FinitePer
  <2>4. SumOver(counter, Per(field, keys)) = 0
    BY <1>6, <2>3
  <2> QED
    BY <2>2, <2>4 DEF f, MapExact, Sum
<1>10. MapsExact
  <2>1. /\ Per("client_queries", Clients) \subseteq Counters
        /\ Per("domain_queries", Domains) \subseteq Counters
        /\ Per("client_blocks", Clients) \subseteq Counters
        /\ Per("domain_blocks", Domains) \subseteq Counters
        /\ Per("blocked_by_source", Sources) \subseteq Counters
    BY DEF Counters
  <2> QED
    BY <1>9, <2>1, StatsAssumption DEF MapsExact
<1>11. LoadedBetween /\ SamplesBefore
  BY <1>1 DEF LoadedBetween, SamplesBefore
<1> QED
  BY <1>2, <1>5, <1>8, <1>10, <1>11 DEF ReportInv, CountsInv

LEMMA StepKeeps ==
    ASSUME ReportInv, [Next]_vars
    PROVE  ReportInv'
<1>1. ASSUME NEW q \in Queries, Bump(q)
      PROVE  ReportInv'
  <2>1. CountsInv'
    BY <1>1, BumpKeepsCounts DEF ReportInv
  <2>2. LoadedBetween' /\ SamplesBefore'
    BY <1>1, BumpKeepsReport
  <2> QED
    BY <2>1, <2>2 DEF ReportInv
<1>2. CASE UNCHANGED vars
  <2>1. UNCHANGED <<request, bumped, counter>>
    BY <1>2 DEF vars
  <2>2. BumpsWithin' /\ CountersExact' /\ MapsExact'
    BY <2>1, CountsStay DEF ReportInv
  <2> QED
    BY <1>2, <2>2 DEF vars, ReportInv, CountsInv, TypeOK, LoadedBetween, SamplesBefore, Sampling
<1>3. CASE Done
  BY <1>2, <1>3 DEF Done
<1> QED
  BY <1>1, <1>2, <1>3, ReportKeeps, LoadKeeps DEF Next

LEMMA ReportInvariant == Spec => []ReportInv
<1>1. Init => ReportInv
  BY InitCounts
<1>2. ReportInv /\ [Next]_vars => ReportInv'
  BY StepKeeps
<1> QED
  BY <1>1, <1>2, PTL DEF Spec

\* However the bumps of the tasks interleave with each other and with the loads
\* of a report, the types hold, a report shows values its counters had while it
\* was made, and the counters agree: never more clients counted than queries,
\* more domains than clients, more blocks and hits than domains or more blocks
\* of lists than blocks.  When the tasks are done or dead, no difference is left
\* but for the packets without a question, which get no domain.
THEOREM StatsInvariant == Spec => []StatsInv
<1>1. ReportInv => StatsInv
  BY CountedAll DEF ReportInv, CountsInv, StatsInv
<1> QED
  BY <1>1, ReportInvariant, PTL

\* No bump is lost or made twice: at every moment each counter is the sum of
\* what the tasks have added to it, and each map holds what was added to it.
THEOREM CountersAreExact == Spec => [](CountersExact /\ MapsExact)
<1>1. ReportInv => CountersExact /\ MapsExact
  BY DEF ReportInv, CountsInv
<1> QED
  BY <1>1, ReportInvariant, PTL

-----------------------------------------------------------------------------
\* What a report shows.

\* No client and no domain has more blocks than queries.
LEMMA BlocksUnderQueries ==
    ASSUME CountsInv
    PROVE  /\ \A k \in Clients :
                 counter[<<"client_blocks", k>>] <= counter[<<"client_queries", k>>]
           /\ \A k \in Domains :
                 counter[<<"domain_blocks", k>>] <= counter[<<"domain_queries", k>>]
<1>1. ASSUME NEW q \in Queries, NEW k
      PROVE  /\ Added(q, <<"client_blocks", k>>) <= Added(q, <<"client_queries", k>>)
             /\ Added(q, <<"domain_blocks", k>>) <= Added(q, <<"domain_queries", k>>)
  <2> DEFINE r == request[q]
             n == bumped[q]
             at(i) == Bumps(r)[i].of
  <2>1. /\ n \in Nat /\ r \in Requests
        /\ \A i \in 1..n : Placed(r, i, at(i)) /\ Keyed(r, at(i))
    BY MadeTypes, BumpsPlaced DEF CountsInv
  <2>2. \A c : (\E b \in Made(q) : b.of = c) <=> \E i \in 1..n : at(i) = c
    BY DEF Made
  <2> HIDE DEF at, r, n
  <2>3. \A c : c[1] # "upstream_total_ms" =>
                  Added(q, c) = IF \E i \in 1..n : at(i) = c THEN 1 ELSE 0
    BY <2>2 DEF Added
  <2>4. \A i \in 1..n : 1 \in 1..n /\ (i > 2 => 2 \in 1..n) /\ (i > 3 => 3 \in 1..n)
    BY <2>1
  <2>5. ASSUME NEW i \in 1..n, at(i) = <<"client_blocks", k>>
        PROVE  at(2) = <<"client_queries", k>> /\ 2 \in 1..n
    <3>1. at(i)[1] = "client_blocks"
      BY <2>5
    <3>2. i = 6
      BY <2>1, <3>1 DEF Placed
    <3>3. 2 \in 1..n
      BY <2>4, <3>2
    <3>4. at(2)[1] = "client_queries"
      BY <2>1, <3>3 DEF Placed
    <3>5. at(i) = <<"client_blocks", r.client>> /\ at(2) = <<"client_queries", r.client>>
      BY <2>1, <3>1, <3>3, <3>4 DEF Keyed
    <3>6. <<"client_blocks", r.client>> = <<"client_blocks", k>>
      BY <2>5, <3>5
    <3>7. r.client = k
      BY <3>6
    <3> QED
      BY <3>3, <3>5, <3>7
  <2>6. ASSUME NEW i \in 1..n, at(i) = <<"domain_blocks", k>>
        PROVE  at(3) = <<"domain_queries", k>> /\ 3 \in 1..n
    <3>1. at(i)[1] = "domain_blocks"
      BY <2>6
    <3>2. i = 7
      BY <2>1, <3>1 DEF Placed
    <3>3. 3 \in 1..n
      BY <2>4, <3>2
    <3>4. at(3)[1] = "domain_queries"
      BY <2>1, <3>3 DEF Placed
    <3>5. at(i) = <<"domain_blocks", r.domain>> /\ at(3) = <<"domain_queries", r.domain>>
      BY <2>1, <3>1, <3>3, <3>4 DEF Keyed
    <3>6. <<"domain_blocks", r.domain>> = <<"domain_blocks", k>>
      BY <2>6, <3>5
    <3>7. r.domain = k
      BY <3>6
    <3> QED
      BY <3>3, <3>5, <3>7
  <2>7. /\ Added(q, <<"client_blocks", k>>) =
              IF \E i \in 1..n : at(i) = <<"client_blocks", k>> THEN 1 ELSE 0
        /\ Added(q, <<"client_queries", k>>) =
              IF \E i \in 1..n : at(i) = <<"client_queries", k>> THEN 1 ELSE 0
        /\ Added(q, <<"domain_blocks", k>>) =
              IF \E i \in 1..n : at(i) = <<"domain_blocks", k>> THEN 1 ELSE 0
        /\ Added(q, <<"domain_queries", k>>) =
              IF \E i \in 1..n : at(i) = <<"domain_queries", k>> THEN 1 ELSE 0
    BY <2>3
  <2> QED
    BY <2>5, <2>6, <2>7
<1>2. ASSUME NEW c \in Counters, NEW d \in Counters,
             \A q \in Queries : Added(q, c) <= Added(q, d)
      PROVE  counter[c] <= counter[d]
  <2> DEFINE f == [q \in Queries |-> Added(q, c)]
             g == [q \in Queries |-> Added(q, d)]
  <2>1. \A q \in Queries : f[q] \in Nat /\ g[q] \in Nat /\ f[q] <= g[q]
    BY <1>2, MadeTypes DEF CountsInv
  <2>2. counter[c] = SumOver(f, Queries) /\ counter[d] = SumOver(g, Queries)
    BY DEF CountsInv, CountersExact
  <2> HIDE DEF f, g
  <2>3. SumOver(f, Queries) <= SumOver(g, Queries)
    BY <2>1, SumLess, StatsAssumption
  <2> QED
    BY <2>2, <2>3
<1> QED
  BY <1>1, <1>2, CounterTypes

\* A counter that was loaded had its value between the start and now.
LEMMA LoadedTypes ==
    ASSUME ReportInv, NEW c \in DOMAIN seen
    PROVE  /\ c \in Counters /\ seen[c] \in Nat /\ start[c] \in Nat /\ counter[c] \in Nat
           /\ start[c] <= seen[c] /\ seen[c] <= counter[c]
<1>1. /\ c \in Counters /\ seen[c] \in Nat /\ start[c] \in Nat /\ counter[c] \in Nat
  BY StartTypes DEF ReportInv, CountsInv
<1>2. seen[c] \in start[c]..counter[c]
  BY DEF ReportInv, LoadedBetween
<1> QED
  BY <1>1, <1>2

LEMMA SnapshotIsBounded ==
    ASSUME ReportInv
    PROVE  SnapshotBounded
<1>1. ASSUME NEW c \in DOMAIN seen, NEW d \in DOMAIN seen, counter[c] <= counter[d]
      PROVE  seen[c] <= seen[d] + Meanwhile(d)
  <2>1. /\ seen[c] \in Nat /\ counter[c] \in Nat /\ seen[c] <= counter[c]
        /\ seen[d] \in Nat /\ start[d] \in Nat /\ counter[d] \in Nat /\ start[d] <= seen[d]
    BY LoadedTypes
  <2> QED
    BY <1>1, <2>1 DEF Meanwhile
<1>2. ASSUME Reported({Total, Blocked, Hits})
      PROVE  seen[Blocked] + seen[Hits] <= seen[Total] + Meanwhile(Total)
  <2>1. Total \in DOMAIN seen /\ Blocked \in DOMAIN seen /\ Hits \in DOMAIN seen
    BY <1>2 DEF Reported
  <2>2. /\ seen[Blocked] \in Nat /\ counter[Blocked] \in Nat /\ seen[Blocked] <= counter[Blocked]
        /\ seen[Hits] \in Nat /\ counter[Hits] \in Nat /\ seen[Hits] <= counter[Hits]
        /\ seen[Total] \in Nat /\ start[Total] \in Nat /\ counter[Total] \in Nat
        /\ start[Total] <= seen[Total]
    BY <2>1, LoadedTypes
  <2>3. PICK clients, domains :
            /\ clients \in Nat /\ domains \in Nat
            /\ counter[Total] >= clients /\ clients >= domains
            /\ domains >= counter[Blocked] + counter[Hits]
    <3>1. ASSUME NEW field, NEW keys, IsFiniteSet(keys), Per(field, keys) \subseteq Counters
          PROVE  Sum(counter, field, keys) \in Nat
      <4>1. IsFiniteSet(Per(field, keys)) /\ \A c \in Per(field, keys) : counter[c] \in Nat
        BY <3>1, FinitePer, StartTypes DEF ReportInv, CountsInv
      <4> QED
        BY <4>1, SumType DEF Sum
    <3>2. /\ Per("client_queries", Clients) \subseteq Counters
          /\ Per("domain_queries", Domains) \subseteq Counters
      BY DEF Counters
    <3>3. /\ Sum(counter, "client_queries", Clients) \in Nat
          /\ Sum(counter, "domain_queries", Domains) \in Nat
      BY <3>1, <3>2, StatsAssumption
    <3>4. AllCounted
      BY CountedAll DEF ReportInv
    <3> QED
      BY <3>3, <3>4 DEF AllCounted
  <2> HIDE DEF Total, Blocked, Hits
  <2>4. counter[Blocked] + counter[Hits] <= counter[Total]
    BY <2>2, <2>3
  <2> QED
    BY <2>2, <2>4 DEF Meanwhile
<1>3. ASSUME NEW k \in Clients, Reported({<<"client_queries", k>>, <<"client_blocks", k>>})
      PROVE  seen[<<"client_blocks", k>>] <=
                 seen[<<"client_queries", k>>] + Meanwhile(<<"client_queries", k>>)
  <2>1. <<"client_queries", k>> \in DOMAIN seen /\ <<"client_blocks", k>> \in DOMAIN seen
    BY <1>3 DEF Reported
  <2>2. counter[<<"client_blocks", k>>] <= counter[<<"client_queries", k>>]
    BY BlocksUnderQueries DEF ReportInv
  <2> QED
    BY <1>1, <2>1, <2>2
<1>4. ASSUME NEW k \in Domains, Reported({<<"domain_queries", k>>, <<"domain_blocks", k>>})
      PROVE  seen[<<"domain_blocks", k>>] <=
                 seen[<<"domain_queries", k>>] + Meanwhile(<<"domain_queries", k>>)
  <2>1. <<"domain_queries", k>> \in DOMAIN seen /\ <<"domain_blocks", k>> \in DOMAIN seen
    BY <1>4 DEF Reported
  <2>2. counter[<<"domain_blocks", k>>] <= counter[<<"domain_queries", k>>]
    BY BlocksUnderQueries DEF ReportInv
  <2> QED
    BY <1>1, <2>1, <2>2
<1> QED
  BY <1>2, <1>3, <1>4 DEF SnapshotBounded

LEMMA SharesAreBounded ==
    ASSUME ReportInv
    PROVE  SharesBounded
<1> DEFINE P == Per("blocked_by_source", Sources)
           shares == SumOver(seen, P)
           before == SumOver(start, P)
           now == SumOver(counter, P)
<1> SUFFICES ASSUME Reported({Blocked} \cup P)
             PROVE  /\ shares <= seen[Blocked] + Meanwhile(Blocked)
                    /\ seen[Blocked] <= shares + Meanwhile(Blocked) + (start[Blocked] - before)
  BY DEF SharesBounded, Sum
<1>1. Blocked \in DOMAIN seen /\ P \subseteq DOMAIN seen
  BY DEF Reported
<1>2. IsFiniteSet(P)
  BY FinitePer, StatsAssumption
<1>3. \A c \in P : /\ seen[c] \in Nat /\ start[c] \in Nat /\ counter[c] \in Nat
                   /\ start[c] <= seen[c] /\ seen[c] <= counter[c]
  <2> HIDE DEF P
  <2> QED
    BY <1>1, LoadedTypes
<1>4. now <= counter[Blocked]
  <2>1. AllCounted
    BY CountedAll DEF ReportInv
  <2>2. counter[Blocked] >= now
    BY <2>1 DEF AllCounted, Sum
  <2>3. counter[Blocked] \in Nat
    BY <1>1, LoadedTypes
  <2>4. now \in Nat
    <3> HIDE DEF P
    <3> QED
      BY <1>2, <1>3, SumType
  <2> HIDE DEF now
  <2> QED
    BY <2>2, <2>3, <2>4
<1>5. /\ seen[Blocked] \in Nat /\ start[Blocked] \in Nat /\ counter[Blocked] \in Nat
      /\ start[Blocked] <= seen[Blocked] /\ seen[Blocked] <= counter[Blocked]
  BY <1>1, LoadedTypes
<1> HIDE DEF P
<1>6. before <= shares /\ shares <= now
  BY <1>2, <1>3, SumLess
<1>7. before \in Nat /\ shares \in Nat /\ now \in Nat
  BY <1>2, <1>3, SumType
<1> HIDE DEF before, shares, now
<1> QED
  BY <1>4, <1>5, <1>6, <1>7 DEF Meanwhile

LEMMA TopIsListed ==
    ASSUME ReportInv
    PROVE  TopListed
<1>1. ASSUME NEW field, NEW keys, IsFiniteSet(keys), Reported(Per(field, keys)),
             NEW listed \in TopKeys(field, keys), NEW j \in keys, j \notin listed,
             start[<<field, j>>] > 0
      PROVE  /\ Cardinality(listed) = TopK
             /\ \A k \in listed : start[<<field, j>>] <= seen[<<field, k>>]
  <2> DEFINE I == {key \in keys : seen[<<field, key>>] > 0}
             items == [k \in I |-> seen[<<field, k>>]]
             size == IF Cardinality(I) < TopK THEN Cardinality(I) ELSE TopK
  <2>1. \A k \in keys : <<field, k>> \in DOMAIN seen
    BY <1>1 DEF Reported, Per
  <2>2. \A k \in keys : /\ seen[<<field, k>>] \in Nat /\ start[<<field, k>>] \in Nat
                        /\ start[<<field, k>>] <= seen[<<field, k>>]
    BY <2>1, LoadedTypes
  <2>3. j \in I
    BY <1>1, <2>2
  <2>4. listed \in kSubset(size, I) /\ Ranked(listed, I \ listed, items)
    BY <1>1 DEF TopKeys
  <2>5. listed \subseteq I /\ Cardinality(listed) = size
    BY <2>4 DEF kSubset
  <2>6. IsFiniteSet(I) /\ TopK \in Nat /\ Cardinality(I) \in Nat
    BY <1>1, FS_Subset, FS_CardinalityType, StatsAssumption
  <2>7. Cardinality(listed) = TopK
    <3> SUFFICES ASSUME Cardinality(listed) # TopK PROVE FALSE
      OBVIOUS
    <3>1. Cardinality(listed) = Cardinality(I)
      BY <2>5
    <3> HIDE DEF I
    <3>2. listed = I
      BY <2>5, <2>6, <3>1, FS_Subset
    <3> QED
      BY <1>1, <2>3, <3>2
  <2>8. \A k \in listed : start[<<field, j>>] <= seen[<<field, k>>]
    <3> TAKE k \in listed
    <3>1. items[k] >= items[j]
      BY <1>1, <2>3, <2>4 DEF Ranked
    <3>2. k \in I
      BY <2>5
    <3>3. items[k] = seen[<<field, k>>] /\ items[j] = seen[<<field, j>>]
      BY <2>3, <3>2
    <3>4. k \in keys
      BY <3>2
    <3> HIDE DEF items
    <3> QED
      BY <2>2, <3>1, <3>3, <3>4
  <2> QED
    BY <2>7, <2>8
<1>2. ASSUME NEW field, NEW keys, IsFiniteSet(keys), Reported(Per(field, keys))
      PROVE  \A listed \in TopKeys(field, keys), j \in keys :
                 j \notin listed /\ start[<<field, j>>] > 0 =>
                     /\ Cardinality(listed) = TopK
                     /\ \A k \in listed : start[<<field, j>>] <= seen[<<field, k>>]
  BY <1>1, <1>2
<1> SUFFICES ASSUME NEW map \in {<<"client_queries", Clients>>, <<"domain_queries", Domains>>},
                    Reported(Per(map[1], map[2]))
             PROVE  \A listed \in TopKeys(map[1], map[2]), j \in map[2] :
                        j \notin listed /\ start[<<map[1], j>>] > 0 =>
                            /\ Cardinality(listed) = TopK
                            /\ \A k \in listed :
                                  start[<<map[1], j>>] <= seen[<<map[1], k>>]
  BY DEF TopListed
<1> DEFINE field == map[1]
           keys  == map[2]
<1>3. IsFiniteSet(keys) /\ Reported(Per(field, keys))
  BY StatsAssumption
<1> HIDE DEF field, keys
<1>4. \A listed \in TopKeys(field, keys), j \in keys :
          j \notin listed /\ start[<<field, j>>] > 0 =>
              /\ Cardinality(listed) = TopK
              /\ \A k \in listed : start[<<field, j>>] <= seen[<<field, k>>]
  BY <1>2, <1>3
<1> QED
  BY <1>4 DEF field, keys

LEMMA LatencyIsKept ==
    ASSUME ReportInv
    PROVE  LatencyKept
<1> SUFFICES ASSUME NEW u \in Slots,
                    Reported({<<"upstream_total_ms", u>>, <<"upstream_count", u>>}),
                    seen[<<"upstream_count", u>>] > 0
             PROVE  LET ms == <<"upstream_total_ms", u>>
                        n  == <<"upstream_count", u>>
                        samples == {request[q].ms : q \in Sampling(u)}
                        overlap == Cardinality(Sampling(u)) - start[n]
                    IN  /\ samples # {}
                        /\ seen[ms] <= Max(samples) * (seen[n] + overlap)
                        /\ seen[ms] >= Min(samples) * (seen[n] - overlap)
  BY DEF LatencyKept
<1> DEFINE ms == <<"upstream_total_ms", u>>
           n  == <<"upstream_count", u>>
           S  == Sampling(u)
           samples == {request[q].ms : q \in S}
           least == Min(samples)
           most  == Max(samples)
           s == Cardinality(S)
<1>1. /\ ms \in DOMAIN seen /\ n \in DOMAIN seen
  BY DEF Reported
<1>2. /\ seen[ms] \in Nat /\ start[ms] \in Nat /\ counter[ms] \in Nat
      /\ start[ms] <= seen[ms] /\ seen[ms] <= counter[ms]
      /\ seen[n] \in Nat /\ start[n] \in Nat /\ counter[n] \in Nat
      /\ start[n] <= seen[n] /\ seen[n] <= counter[n]
  BY <1>1, LoadedTypes
<1>3. /\ s \in Nat /\ IsFiniteSet(S) /\ counter[n] <= s
      /\ \A m \in Nat : (\A q \in S : request[q].ms <= m) => counter[ms] <= m * s
  BY SampleCounts DEF ReportInv
<1>4. S # {}
  <2> SUFFICES ASSUME S = {} PROVE FALSE
    OBVIOUS
  <2>1. s = 0
    BY FS_EmptySet
  <2> HIDE DEF s
  <2> QED
    BY <1>2, <1>3, <2>1
<1>5. \A q \in S : request[q].ms \in Nat
  <2> TAKE q \in S
  <2>1. q \in Queries
    BY DEF Sampling
  <2>2. request[q] \in Requests
    BY <2>1, MadeTypes DEF ReportInv, CountsInv
  <2> QED
    BY <2>2, RequestTypes
<1>6. samples # {} /\ samples \in SUBSET Nat /\ IsFiniteSet(samples)
  <2> DEFINE f == [q \in S |-> request[q].ms]
  <2>1. IsFiniteSet({f[q] : q \in S})
    <3> HIDE DEF f, S
    <3> QED
      BY <1>3, FiniteImage
  <2>2. {f[q] : q \in S} = samples
    OBVIOUS
  <2> QED
    BY <1>4, <1>5, <2>1, <2>2
<1> HIDE DEF S
<1>7. /\ least \in Nat /\ most \in Nat
      /\ \A q \in S : least <= request[q].ms /\ request[q].ms <= most
  <2>1. least \in samples /\ \A x \in samples : least <= x
    BY <1>6, LeastOfNat
  <2>2. most \in samples /\ \A x \in samples : x <= most
    BY <1>6, GreatestOfFinite
  <2> HIDE DEF least, most
  <2>3. \A q \in S : request[q].ms \in samples
    OBVIOUS
  <2> QED
    BY <1>6, <2>1, <2>2, <2>3
<1>8. least * start[n] <= start[ms]
  <2>1. n \in DOMAIN start
    BY <1>1, StartTypes DEF ReportInv, CountsInv
  <2> HIDE DEF least
  <2> QED
    BY <1>7, <2>1 DEF ReportInv, SamplesBefore, S
<1> HIDE DEF least, most, s, samples
<1>9. seen[ms] <= most * (seen[n] + (s - start[n]))
  <2> DEFINE x == seen[n] + (s - start[n])
  <2>1. x \in Nat /\ s <= x
    BY <1>2, <1>3
  <2>2. counter[ms] <= most * s
    BY <1>3, <1>7
  <2> HIDE DEF x
  <2>3. most * s <= most * x /\ most * s \in Nat /\ most * x \in Nat
    BY <1>3, <1>7, <2>1, MulMono
  <2>4. seen[ms] <= most * x
    BY <1>2, <2>2, <2>3
  <2> QED
    BY <2>4 DEF x
<1>10. seen[ms] >= least * (seen[n] - (s - start[n]))
  <2> DEFINE d == s - seen[n]
             a == start[n]
             x == seen[n] - (s - start[n])
  <2>1. d \in Nat /\ a \in Nat /\ x = a - d
    BY <1>2, <1>3
  <2> HIDE DEF d, a, x
  <2>2. least * (a - d) = least * a - least * d
    BY <1>7, <2>1
  <2>3. least * d \in Nat /\ least * a \in Nat
    BY <1>7, <2>1
  <2>4. least * a <= start[ms]
    BY <1>8 DEF a
  <2>5. seen[ms] >= least * x
    BY <1>2, <2>1, <2>2, <2>3, <2>4
  <2> QED
    BY <2>5 DEF x
<1> QED
  BY <1>6, <1>9, <1>10 DEF samples, least, most, s, S

\* A snapshot taken in the middle of the traffic shows, of all queries, of a
\* client's and of a domain's, no more blocks (and hits) than it shows queries
\* and the queries that arrived while it was taken.
THEOREM SnapshotsBounded == Spec => []SnapshotBounded
  BY ReportInvariant, SnapshotIsBounded, PTL

\* The blocks a dump lists by source add up to its total, give or take the
\* blocks of the meantime and those that were between their two counters.
THEOREM SharesAddUp == Spec => []SharesBounded
  BY ReportInvariant, SharesAreBounded, PTL

\* The top lists of a snapshot leave out no client and no domain that had more
\* queries when it began than one they list is shown with.
THEOREM TopListsOmitNobody == Spec => []TopListed
  BY ReportInvariant, TopIsListed, PTL

\* The average latency a dump prints for an upstream lies between that of its
\* fastest and of its slowest answer, up to the samples that were being
\* recorded: the milliseconds of a sample are added before it is counted.
THEOREM LatenciesKept == Spec => []LatencyKept
  BY ReportInvariant, LatencyIsKept, PTL
=============================================================================
