---------------------------- MODULE ResolverProofs ----------------------------
(***************************************************************************)
(* Every resolution policy implements ResolverSpec, returns within its     *)
(* timeouts and files latencies under the right names, for any number of   *)
(* upstreams and of concurrent calls.                                      *)
(***************************************************************************)
EXTENDS Resolver, FiniteSetTheorems, TLAPS

\* The place k behind s in a vector of n, gone round at its end.
LEMMA RoundIndex ==
    ASSUME NEW n \in Nat \ {0}, NEW s \in 0..(n - 1), NEW k \in 0..(n - 1)
    PROVE  (s + k) % n = IF s + k < n THEN s + k ELSE s + k - n
<1>1. CASE s + k < n
  BY <1>1
<1>2. CASE s + k >= n
  BY <1>2
<1> QED
  BY <1>1, <1>2

LEMMA VectorSize ==
    ASSUME upstreams \in Created
    PROVE  /\ upstreams \in [1..Size -> 1..Configured]
           /\ \A i, j \in 1..Size : i < j => upstreams[i] < upstreams[j]
           /\ Size \in 1..Configured /\ Size \in Nat \ {0}
           /\ Indices # {} /\ IsFiniteSet(Indices) /\ Cardinality(Indices) = Size
<1>1. PICK n \in 1..Configured :
         /\ upstreams \in [1..n -> 1..Configured]
         /\ \A i, j \in 1..n : i < j => upstreams[i] < upstreams[j]
  BY DEF Created
<1>2. n \in Nat \ {0}
  BY ResolverAssumption
<1>3. Size = n
  BY <1>1, <1>2 DEF Size
<1>4. IsFiniteSet(0..(n - 1)) /\ Cardinality(0..(n - 1)) = n /\ 0 \in 0..(n - 1)
  BY <1>2, FS_Interval
<1> QED
  BY <1>1, <1>2, <1>3, <1>4 DEF Indices

LEMMA OrderedType ==
    ASSUME TypeOK, NEW c \in Calls, NEW k \in Nat
    PROVE  Ordered(c, k) \in Indices
<1>1. Size \in Nat \ {0}
  BY VectorSize DEF TypeOK
<1>2. starts[c] \in 0..(Size - 1)
  BY DEF TypeOK, Indices
<1> HIDE DEF Size
<1>3. (starts[c] + k) % Size \in 0..(Size - 1)
  BY <1>1, <1>2
<1> QED
  BY <1>3 DEF Ordered, Indices

\* A call in order comes to no upstream twice.
LEMMA OrderedDiffer ==
    ASSUME TypeOK, NEW c \in Calls, NEW j \in Indices, NEW k \in Indices, j < k
    PROVE  Ordered(c, j) # Ordered(c, k)
<1>1. Size \in Nat \ {0}
  BY VectorSize DEF TypeOK
<1>2. /\ starts[c] \in 0..(Size - 1)
      /\ j \in 0..(Size - 1) /\ k \in 0..(Size - 1)
  BY DEF TypeOK, Indices
<1> HIDE DEF Size
<1>3. /\ Ordered(c, j) = IF starts[c] + j < Size THEN starts[c] + j
                                                ELSE starts[c] + j - Size
      /\ Ordered(c, k) = IF starts[c] + k < Size THEN starts[c] + k
                                                ELSE starts[c] + k - Size
  BY <1>1, <1>2, RoundIndex DEF Ordered
<1> QED
  BY <1>1, <1>2, <1>3

\* Failed upstreams can be counted, and all have failed when they are Size.
LEMMA FailedCount ==
    ASSUME TypeOK, NEW S \in SUBSET Indices
    PROVE  /\ IsFiniteSet(S) /\ Cardinality(S) \in 0..Size
           /\ Cardinality(S) = Size <=> S = Indices
<1>1. /\ Size \in Nat /\ IsFiniteSet(Indices) /\ Cardinality(Indices) = Size
  BY VectorSize DEF TypeOK
<1>2. /\ IsFiniteSet(S) /\ Cardinality(S) <= Cardinality(Indices)
      /\ Cardinality(Indices) = Cardinality(S) => Indices = S
  BY <1>1, FS_Subset
<1>3. Cardinality(S) \in Nat
  BY <1>2, FS_CardinalityType
<1> QED
  BY <1>1, <1>2, <1>3

\* The vector and the policy are those of the start.
LEMMA VectorFixed ==
    ASSUME [Next]_vars
    PROVE  /\ upstreams' = upstreams /\ policy' = policy
           /\ Size' = Size /\ Indices' = Indices /\ Policy' = Policy
<1>1. upstreams' = upstreams /\ policy' = policy
  BY DEF Next, Begin, Lookup, LookupAnswers, LookupFails, Tick, Rest, vars
<1> QED
  BY <1>1 DEF Size, Indices, Policy

-----------------------------------------------------------------------------
LEMMA InvInit == Init => ResolverInv
<1> SUFFICES ASSUME Init PROVE ResolverInv
  OBVIOUS
<1>1. /\ upstreams \in Created /\ Size \in Nat \ {0} /\ 0 \in Indices
      /\ 0 \in 0..MaxTime /\ 0 \in 0..(CounterWidth - 1)
  BY VectorSize, ResolverAssumption DEF Init, Indices
<1>2. TypeOK
  BY <1>1 DEF Init, TypeOK
<1>3. \A c \in Calls : result[c] = Idle /\ failed[c] = {} /\ asking[c] = {}
  BY DEF Init
<1>4. Idle # Pending /\ \A i \in Indices : i # Idle
  BY <1>1 DEF Indices, Idle, Pending
<1>5. \A c \in Calls : {Ordered(c, j) : j \in 0..(0 - 1)} = {}
  OBVIOUS
<1>6. AsksInOrder
  BY <1>3, <1>4, <1>5, FS_EmptySet DEF AsksInOrder
<1>7. AsksOnce /\ LookupsOnTime /\ PreferredFirst
  BY <1>3, <1>4 DEF AsksOnce, LookupsOnTime, PreferredFirst, Answered
<1> QED
  BY <1>2, <1>6, <1>7 DEF ResolverInv, SamplesTraced, Init

\* Whatever is asked after a failure is an upstream of the vector.
LEMMA FollowingType ==
    ASSUME TypeOK, NEW c \in Calls, NEW done \in SUBSET Indices,
           NEW rest \in SUBSET Indices
    PROVE  Following(c, done, rest) \in SUBSET Indices
<1>1. Cardinality(done) \in Nat
  BY VectorSize, FailedCount DEF TypeOK
<1>2. Ordered(c, Cardinality(done)) \in Indices
  BY <1>1, OrderedType
<1> QED
  BY <1>2 DEF Following

LEMMA TypeStep ==
    ASSUME ResolverInv, [Next]_vars
    PROVE  TypeOK'
<1> USE ResolverAssumption DEF ResolverInv, TypeOK
<1>1. /\ upstreams' = upstreams /\ policy' = policy
      /\ Size' = Size /\ Indices' = Indices
  BY VectorFixed
<1>2. Size \in Nat \ {0} /\ Size \in 1..Configured
  BY VectorSize
<1>3. ASSUME NEW c \in Calls, Begin(c)
      PROVE  TypeOK'
  <2>1. current % Size \in Indices /\ (current + 1) % CounterWidth \in 0..(CounterWidth - 1)
    BY <1>2 DEF Indices
  <2>2. starts' \in [Calls -> Indices] /\ current' \in 0..(CounterWidth - 1)
    BY <1>3, <2>1 DEF Begin, Claim
  <2>3. asking' \in [Calls -> SUBSET Indices]
    BY <1>3, <2>2 DEF Begin
  <2>4. result' \in [Calls -> {Idle, Pending, Error} \cup Indices]
    BY <1>3 DEF Begin
  <2> QED
    BY <1>1, <1>3, <2>2, <2>3, <2>4 DEF Begin
<1>4. ASSUME NEW c \in Calls, NEW i \in Indices, LookupAnswers(c, i)
      PROVE  TypeOK'
  <2>1. result[c] = Pending
    BY <1>4 DEF LookupAnswers
  <2>2. now - begun[c] \in 0..MaxTime /\ now - askedAt[c] \in 0..MaxTime
    <3>1. now - askedAt[c] >= 0 /\ askedAt[c] - begun[c] >= 0
      BY <2>1 DEF LookupsOnTime
    <3>2. now \in 0..MaxTime /\ begun[c] \in 0..MaxTime /\ askedAt[c] \in 0..MaxTime
      OBVIOUS
    <3> QED
      BY <3>1, <3>2
  <2>3. upstreams[i + 1] \in 1..Configured /\ i + 1 \in 1..Size
    BY <1>2, VectorSize DEF Indices
  <2>4. Sample(c, i) \in [name : 1..Size, upstream : 1..Configured,
                          latency : 0..MaxTime, own : 0..MaxTime]
    BY <2>2, <2>3 DEF Sample
  <2> QED
    BY <1>1, <1>4, <2>4 DEF LookupAnswers
<1>5. ASSUME NEW c \in Calls, NEW i \in Indices, LookupFails(c, i)
      PROVE  TypeOK'
  <2> DEFINE done == failed[c] \cup {i}
             next == Following(c, done, asking[c] \ {i})
  <2>1. done \in SUBSET Indices /\ next \in SUBSET Indices
    BY FollowingType
  <2> QED
    BY <1>1, <1>5, <2>1 DEF LookupFails
<1>6. CASE Tick
  BY <1>1, <1>6 DEF Tick
<1>7. CASE Rest \/ UNCHANGED vars
  BY <1>1, <1>7 DEF Rest, vars
<1> QED
  BY <1>3, <1>4, <1>5, <1>6, <1>7 DEF Next, Lookup

\* Where the values of a result lie apart.
LEMMA ResultsDiffer ==
    ASSUME TypeOK
    PROVE  /\ Idle # Pending /\ Idle # Error /\ Pending # Error
           /\ Idle \notin Indices /\ Pending \notin Indices /\ Error \notin Indices
  BY VectorSize DEF Idle, Pending, Error, TypeOK, Indices

\* A failure of a call in order is the failure of the next in its order.
LEMMA FailsInOrder ==
    ASSUME ResolverInv, Policy # "parallel", NEW c \in Calls, NEW i \in Indices,
           LookupFails(c, i)
    PROVE  LET k == Cardinality(failed[c])
           IN  /\ k \in 0..(Size - 1) /\ i = Ordered(c, k) /\ asking[c] = {i}
               /\ Cardinality(failed[c] \cup {i}) = k + 1
               /\ failed[c] \cup {i} = {Ordered(c, j) : j \in 0..((k + 1) - 1)}
<1> DEFINE k == Cardinality(failed[c])
<1>1. result[c] = Pending /\ i \in asking[c]
  BY DEF LookupFails
<1>2. /\ failed[c] = {Ordered(c, j) : j \in 0..(k - 1)}
      /\ k < Size /\ asking[c] = {Ordered(c, k)}
  BY <1>1 DEF ResolverInv, AsksInOrder
<1>3. IsFiniteSet(failed[c]) /\ k \in 0..Size /\ Size \in Nat
  BY FailedCount, VectorSize DEF ResolverInv, TypeOK
<1>4. i \notin failed[c] /\ i = Ordered(c, k) /\ asking[c] = {i}
  BY <1>1, <1>2 DEF ResolverInv, AsksOnce
<1>5. Cardinality(failed[c] \cup {i}) = k + 1
  BY <1>3, <1>4, FS_AddElement
<1> HIDE DEF k
<1>6. failed[c] \cup {i} = {Ordered(c, j) : j \in 0..((k + 1) - 1)}
  <2>1. 0..((k + 1) - 1) = 0..(k - 1) \cup {k}
    BY <1>3
  <2> QED
    BY <1>2, <1>4, <2>1
<1> QED
  BY <1>2, <1>3, <1>4, <1>5, <1>6 DEF k

\* The place k behind place s.
Place(s, k) == (s + k) % Size

LEMMA OrderStep ==
    ASSUME ResolverInv, [Next]_vars
    PROVE  AsksInOrder'
<1> SUFFICES ASSUME Policy # "parallel", NEW d \in Calls
             PROVE  LET k == Cardinality(failed'[d])
                    IN  /\ failed'[d] = {Place(starts'[d], j) : j \in 0..(k - 1)}
                        /\ result'[d] = Pending =>
                              k < Size /\ asking'[d] = {Place(starts'[d], k)}
                        /\ result'[d] \in Indices =>
                              k < Size /\ result'[d] = Place(starts'[d], k)
  BY VectorFixed DEF AsksInOrder, Ordered, Place
<1> DEFINE Goal ==
              LET k == Cardinality(failed'[d])
              IN  /\ failed'[d] = {Place(starts'[d], j) : j \in 0..(k - 1)}
                  /\ result'[d] = Pending =>
                        k < Size /\ asking'[d] = {Place(starts'[d], k)}
                  /\ result'[d] \in Indices =>
                        k < Size /\ result'[d] = Place(starts'[d], k)
<1> USE DEF ResolverInv
<1>1. Size' = Size /\ Indices' = Indices
  BY VectorFixed
<1>2. Size \in Nat \ {0}
  BY VectorSize DEF TypeOK
<1>3. LET k == Cardinality(failed[d])
      IN  /\ failed[d] = {Ordered(d, j) : j \in 0..(k - 1)}
          /\ result[d] = Pending => k < Size /\ asking[d] = {Ordered(d, k)}
          /\ result[d] \in Indices => k < Size /\ result[d] = Ordered(d, k)
  BY DEF AsksInOrder
<1>4. CASE /\ failed'[d] = failed[d] /\ result'[d] = result[d]
           /\ asking'[d] = asking[d] /\ starts'[d] = starts[d]
  <2>1. \A j : Place(starts'[d], j) = Ordered(d, j)
    BY <1>4 DEF Ordered, Place
  <2> QED
    BY <1>3, <1>4, <2>1
<1>5. CASE Begin(d)
  <2>1. /\ failed'[d] = {} /\ result'[d] = Pending /\ asking'[d] = {starts'[d]}
    BY <1>5 DEF Begin, AsksOnce, TypeOK
  <2>2. starts'[d] \in 0..(Size - 1)
    BY <1>1, TypeStep DEF TypeOK, Indices
  <2>3. Place(starts'[d], 0) = starts'[d]
    BY <1>2, <2>2 DEF Place
  <2>4. Cardinality(failed'[d]) = 0 /\ 0 < Size
    BY <1>2, <2>1, FS_EmptySet
  <2>5. {Place(starts'[d], j) : j \in 0..(0 - 1)} = {}
    OBVIOUS
  <2> QED
    BY <2>1, <2>3, <2>4, <2>5, ResultsDiffer
<1>6. ASSUME NEW i \in Indices, LookupAnswers(d, i)
      PROVE  Goal
  <2>1. /\ failed'[d] = failed[d] /\ result'[d] = i /\ result[d] = Pending
        /\ i \in asking[d]
    BY <1>6 DEF LookupAnswers, TypeOK
  <2>2. \A j : Place(starts'[d], j) = Ordered(d, j)
    BY <1>6 DEF Ordered, Place, LookupAnswers
  <2>3. result'[d] # Pending
    BY <2>1, ResultsDiffer
  <2> QED
    BY <1>3, <2>1, <2>2, <2>3
<1>7. ASSUME NEW i \in Indices, LookupFails(d, i)
      PROVE  Goal
  <2> DEFINE k == Cardinality(failed[d])
             done == failed[d] \cup {i}
  <2>1. /\ k \in 0..(Size - 1) /\ Cardinality(done) = k + 1
        /\ done = {Ordered(d, j) : j \in 0..((k + 1) - 1)}
    BY <1>7, FailsInOrder
  <2>2. \A j : Place(starts'[d], j) = Ordered(d, j)
    BY <1>7 DEF Ordered, Place, LookupFails
  <2>3. /\ failed'[d] = done
        /\ asking'[d] = Following(d, done, asking[d] \ {i})
        /\ result'[d] = IF asking'[d] = {} THEN Error ELSE Pending
    BY <1>7 DEF LookupFails, TypeOK
  <2>4. asking'[d] = IF k + 1 = Size THEN {} ELSE {Ordered(d, k + 1)}
    BY <2>1, <2>3 DEF Following
  <2> HIDE DEF k, done
  <2>5. result'[d] \notin Indices /\ (result'[d] = Pending => k + 1 # Size)
    BY <2>3, <2>4, ResultsDiffer
  <2>6. Cardinality(failed'[d]) = k + 1
    BY <2>1, <2>3
  <2>7. failed'[d] = {Place(starts'[d], j) : j \in 0..((k + 1) - 1)}
    BY <2>1, <2>2, <2>3
  <2>8. result'[d] = Pending =>
           k + 1 < Size /\ asking'[d] = {Place(starts'[d], k + 1)}
    BY <1>2, <2>1, <2>2, <2>4, <2>5
  <2> QED
    BY <2>5, <2>6, <2>7, <2>8
<1> QED
  <2>1. ASSUME NEW c \in Calls, c # d, Begin(c) \/ Lookup(c)
        PROVE  /\ failed'[d] = failed[d] /\ result'[d] = result[d]
               /\ asking'[d] = asking[d] /\ starts'[d] = starts[d]
    BY <2>1 DEF Begin, Claim, Lookup, LookupAnswers, LookupFails, TypeOK
  <2> QED
    BY <1>4, <1>5, <1>6, <1>7, <2>1 DEF Next, Lookup, Tick, Rest, vars

\* A step of one call leaves every other call alone.
LEMMA OthersKept ==
    ASSUME ResolverInv, [Next]_vars, NEW d \in Calls,
           ~Begin(d), \A i \in Indices : ~LookupAnswers(d, i) /\ ~LookupFails(d, i)
    PROVE  /\ failed'[d] = failed[d] /\ result'[d] = result[d]
           /\ asking'[d] = asking[d] /\ begun'[d] = begun[d]
           /\ askedAt'[d] = askedAt[d] /\ starts'[d] = starts[d]
<1> DEFINE Kept == /\ failed'[d] = failed[d] /\ result'[d] = result[d]
                   /\ asking'[d] = asking[d] /\ begun'[d] = begun[d]
                   /\ askedAt'[d] = askedAt[d] /\ starts'[d] = starts[d]
<1> USE DEF ResolverInv, TypeOK
<1>1. ASSUME NEW c \in Calls, c # d, Begin(c)
      PROVE  Kept
  BY <1>1 DEF Begin, Claim
<1>2. ASSUME NEW c \in Calls, c # d, NEW i \in Indices, LookupAnswers(c, i)
      PROVE  Kept
  BY <1>2 DEF LookupAnswers
<1>3. ASSUME NEW c \in Calls, c # d, NEW i \in Indices, LookupFails(c, i)
      PROVE  Kept
  BY <1>3 DEF LookupFails
<1>4. CASE Tick \/ Rest \/ UNCHANGED vars
  BY <1>4 DEF Tick, Rest, vars
<1> QED
  BY <1>1, <1>2, <1>3, <1>4 DEF Next, Lookup

LEMMA OnceStep ==
    ASSUME ResolverInv, [Next]_vars
    PROVE  AsksOnce'
<1> DEFINE Once(d) ==
              /\ result'[d] = Idle => failed'[d] = {}
              /\ result'[d] = Pending <=> asking'[d] # {}
              /\ asking'[d] \cap failed'[d] = {}
              /\ Policy = "parallel" /\ result'[d] = Pending =>
                    asking'[d] \cup failed'[d] = Indices
<1> SUFFICES ASSUME NEW d \in Calls PROVE Once(d)
  BY VectorFixed DEF AsksOnce
<1> USE DEF ResolverInv
<1>1. /\ result[d] = Idle => failed[d] = {}
      /\ result[d] = Pending <=> asking[d] # {}
      /\ asking[d] \cap failed[d] = {}
      /\ Policy = "parallel" /\ result[d] = Pending =>
            asking[d] \cup failed[d] = Indices
  BY DEF AsksOnce
<1>2. CASE Begin(d)
  <2>1. /\ failed'[d] = {} /\ result'[d] = Pending
        /\ asking'[d] = IF Policy = "parallel" THEN Indices ELSE {starts'[d]}
    BY <1>1, <1>2 DEF Begin, TypeOK
  <2> QED
    BY <2>1, VectorSize, ResultsDiffer DEF TypeOK
<1>3. ASSUME NEW i \in Indices, LookupAnswers(d, i)
      PROVE  Once(d)
  <2>1. /\ failed'[d] = failed[d] /\ result'[d] = i /\ asking'[d] = {}
    BY <1>3 DEF LookupAnswers, TypeOK
  <2> QED
    BY <2>1, ResultsDiffer
<1>4. ASSUME NEW i \in Indices, LookupFails(d, i)
      PROVE  Once(d)
  <2> DEFINE done == failed[d] \cup {i}
             next == Following(d, done, asking[d] \ {i})
  <2>1. /\ failed'[d] = done /\ asking'[d] = next /\ i \in asking[d]
        /\ result[d] = Pending
        /\ result'[d] = IF next = {} THEN Error ELSE Pending
    BY <1>4 DEF LookupFails, TypeOK
  <2>2. CASE Policy = "parallel"
    <3>1. next = asking[d] \ {i}
      BY <2>2 DEF Following
    <3>2. next \cap done = {} /\ next \cup done = Indices
      BY <1>1, <2>1, <2>2, <3>1
    <3> QED
      BY <2>1, <3>2, ResultsDiffer
  <2>3. CASE Policy # "parallel"
    <3> DEFINE k == Cardinality(failed[d])
    <3>1. /\ k \in 0..(Size - 1) /\ Cardinality(done) = k + 1
          /\ done = {Ordered(d, j) : j \in 0..((k + 1) - 1)}
      BY <1>4, <2>3, FailsInOrder
    <3>2. next = IF k + 1 = Size THEN {} ELSE {Ordered(d, k + 1)}
      BY <2>3, <3>1 DEF Following
    <3>3. k + 1 # Size => Ordered(d, k + 1) \notin done
      <4>1. ASSUME k + 1 # Size, NEW j \in 0..((k + 1) - 1)
            PROVE  Ordered(d, j) # Ordered(d, k + 1)
        <5> HIDE DEF k, done
        <5>0. Size \in Nat
          BY VectorSize DEF TypeOK
        <5>1. /\ k + 1 \in Indices /\ j \in Indices /\ j < k + 1
          BY <3>1, <4>1, <5>0 DEF Indices
        <5> QED
          BY <5>1, OrderedDiffer
      <4> QED
        BY <3>1, <4>1
    <3>4. next \cap done = {}
      BY <3>2, <3>3
    <3> QED
      BY <2>1, <2>3, <3>4, ResultsDiffer
  <2> QED
    BY <2>2, <2>3
<1> QED
  BY <1>1, <1>2, <1>3, <1>4, OthersKept

\* Timeouts of calls that ask one upstream after the other add up.
LEMMA TimesMore ==
    ASSUME NEW t \in Nat, NEW k \in Nat, NEW n \in Nat, k < n
    PROVE  t * (k + 1) = t * k + t /\ t * k + t <= t * n /\ t * k \in Nat
<1>1. t * (k + 1) = t * k + t
  OBVIOUS
<1>2. PICK m \in Nat : n = k + 1 + m
  <2>1. n - (k + 1) \in Nat /\ n = k + 1 + (n - (k + 1))
    OBVIOUS
  <2> QED
    BY <2>1
<1>3. t * n = t * (k + 1) + t * m /\ t * m \in Nat /\ t * k \in Nat
  BY <1>2
<1>4. \A a, b \in Nat : a <= a + b
  OBVIOUS
<1> QED
  BY <1>1, <1>3, <1>4

LEMMA TimeStep ==
    ASSUME ResolverInv, [Next]_vars
    PROVE  LookupsOnTime'
<1> DEFINE Grace(n) == IF Policy = "parallel" THEN 0 ELSE Timeout * n
           OnTime(d) ==
              result'[d] = Pending =>
                 /\ now' - askedAt'[d] \in 0..Timeout
                 /\ askedAt'[d] - begun'[d] \in 0..Grace(Cardinality(failed'[d]))
<1> SUFFICES ASSUME NEW d \in Calls PROVE OnTime(d)
  BY VectorFixed DEF LookupsOnTime
<1> USE ResolverAssumption DEF ResolverInv
<1>1. /\ now \in Nat /\ askedAt[d] \in Nat /\ begun[d] \in Nat
      /\ Cardinality(failed[d]) \in Nat
  BY FailedCount, VectorSize DEF TypeOK
<1>2. result[d] = Pending =>
         /\ now - askedAt[d] \in 0..Timeout
         /\ askedAt[d] - begun[d] \in 0..Grace(Cardinality(failed[d]))
  BY DEF LookupsOnTime
<1>3. \A n \in Nat : Grace(n) \in Nat
  OBVIOUS
<1>4. CASE Begin(d)
  <2>1. /\ now' = now /\ askedAt'[d] = now /\ begun'[d] = now
        /\ failed'[d] = failed[d]
    BY <1>4 DEF Begin, TypeOK
  <2>2. now - now = 0 /\ 0 \in 0..Timeout
    BY <1>1
  <2>3. 0 \in 0..Grace(Cardinality(failed[d]))
    BY <1>1, <1>3
  <2> QED
    BY <2>1, <2>2, <2>3
<1>5. ASSUME NEW i \in Indices, LookupAnswers(d, i)
      PROVE  OnTime(d)
  BY <1>5, ResultsDiffer DEF LookupAnswers, TypeOK
<1>6. ASSUME NEW i \in Indices, LookupFails(d, i)
      PROVE  OnTime(d)
  <2> DEFINE k == Cardinality(failed[d])
  <2>1. /\ now' = now /\ begun'[d] = begun[d] /\ result[d] = Pending
        /\ failed'[d] = failed[d] \cup {i}
        /\ askedAt'[d] = IF Policy = "parallel" THEN askedAt[d] ELSE now
    BY <1>6 DEF LookupFails, TypeOK
  <2>2. CASE Policy = "parallel"
    BY <1>2, <2>1, <2>2
  <2>3. CASE Policy # "parallel"
    <3>1. Cardinality(failed'[d]) = k + 1
      BY <1>6, <2>1, <2>3, FailsInOrder
    <3>2. /\ now - askedAt[d] \in 0..Timeout
          /\ askedAt[d] - begun[d] \in 0..(Timeout * k)
      BY <1>2, <2>1, <2>3
    <3>3. Timeout * (k + 1) = Timeout * k + Timeout /\ Timeout * k \in Nat
      BY <1>1, TimesMore
    <3>4. now - begun[d] \in 0..(Timeout * (k + 1)) /\ now - now \in 0..Timeout
      <4> HIDE DEF k
      <4>1. now - begun[d] = (now - askedAt[d]) + (askedAt[d] - begun[d])
        BY <1>1
      <4>2. \A a \in 0..Timeout, b \in 0..(Timeout * k) :
               a + b \in 0..(Timeout * k + Timeout)
        BY <3>3
      <4>3. now - begun[d] \in 0..(Timeout * k + Timeout)
        BY <3>2, <4>1, <4>2
      <4>4. now - now \in 0..Timeout
        BY <1>1
      <4> QED
        BY <3>3, <4>3, <4>4
    <3> QED
      BY <2>1, <2>3, <3>1, <3>4
  <2> QED
    BY <2>2, <2>3
<1>7. CASE Tick
  <2>1. /\ now' = now + 1 /\ askedAt' = askedAt /\ begun' = begun
        /\ failed' = failed /\ result' = result
    BY <1>7 DEF Tick
  <2>2. result[d] = Pending => now < askedAt[d] + Timeout
    BY <1>7 DEF Tick, AsksOnce
  <2>3. result[d] = Pending => now + 1 - askedAt[d] \in 0..Timeout
    BY <1>1, <1>2, <2>2
  <2>4. Cardinality(failed'[d]) = Cardinality(failed[d])
    BY <2>1
  <2>5. result'[d] = Pending =>
           askedAt'[d] - begun'[d] \in 0..Grace(Cardinality(failed'[d]))
    <3> HIDE DEF Grace
    <3> QED
      BY <1>2, <2>1, <2>4
  <2>6. result'[d] = Pending => now' - askedAt'[d] \in 0..Timeout
    <3>1. askedAt'[d] = askedAt[d] /\ result'[d] = result[d] /\ now' = now + 1
      BY <2>1
    <3> QED
      BY <1>1, <2>3, <3>1
  <2> HIDE DEF Grace
  <2> QED
    BY <2>5, <2>6
<1> QED
  <2>1. ~Tick => now' = now
    BY DEF Next, Begin, Lookup, LookupAnswers, LookupFails, Rest, vars
  <2> QED
    BY <1>2, <1>4, <1>5, <1>6, <1>7, <2>1, OthersKept

LEMMA TracedStep ==
    ASSUME ResolverInv, [Next]_vars
    PROVE  SamplesTraced'
<1> USE DEF ResolverInv
<1>1. upstreams' = upstreams
  BY VectorFixed
<1>2. ASSUME NEW c \in Calls, NEW i \in Indices, LookupAnswers(c, i)
      PROVE  SamplesTraced'
  <2>1. samples' = samples \cup {Sample(c, i)} /\ result[c] = Pending
    BY <1>2 DEF LookupAnswers
  <2>2. now - askedAt[c] <= now - begun[c]
    <3>1. askedAt[c] - begun[c] >= 0
      BY <2>1 DEF LookupsOnTime
    <3>2. now \in Int /\ askedAt[c] \in Int /\ begun[c] \in Int
      BY DEF TypeOK
    <3> QED
      BY <3>1, <3>2
  <2>3. Sample(c, i).upstream = upstreams[Sample(c, i).name]
        /\ Sample(c, i).own <= Sample(c, i).latency
    BY <2>2 DEF Sample
  <2> QED
    BY <1>1, <2>1, <2>3 DEF SamplesTraced
<1> QED
  BY <1>1, <1>2 DEF SamplesTraced, Next, Begin, Lookup, LookupFails, Tick, Rest, vars

\* The order in which upstreams are preferred follows from the order of asking.
LEMMA OrderPrefers ==
    ASSUME TypeOK, AsksInOrder
    PROVE  PreferredFirst
<1> SUFFICES ASSUME Policy # "parallel", NEW c \in Answered
             PROVE  \E k \in Indices :
                       /\ Ordered(c, k) = result[c]
                       /\ failed[c] = {Ordered(c, j) : j \in 0..(k - 1)}
  BY DEF PreferredFirst
<1> DEFINE k == Cardinality(failed[c])
<1>1. c \in Calls /\ result[c] \in Indices
  BY DEF Answered
<1>2. /\ k < Size /\ result[c] = Ordered(c, k)
      /\ failed[c] = {Ordered(c, j) : j \in 0..(k - 1)}
  BY <1>1 DEF AsksInOrder
<1>3. k \in Indices
  <2>1. Size \in Nat /\ k \in 0..Size
    BY <1>1, FailedCount, VectorSize DEF TypeOK
  <2> HIDE DEF k
  <2> QED
    BY <1>2, <2>1 DEF Indices
<1> QED
  BY <1>2, <1>3

\* The inductive invariant of the resolvers: types, the order in which a call
\* asks, that it asks nobody twice, the time its lookups have, and what is
\* filed of the answers.
THEOREM ResolverInvariant == Spec => []ResolverInv
<1>1. ASSUME ResolverInv, [Next]_vars
      PROVE  ResolverInv'
  <2>1. /\ TypeOK' /\ AsksInOrder' /\ AsksOnce' /\ LookupsOnTime' /\ SamplesTraced'
    BY <1>1, TypeStep, OrderStep, OnceStep, TimeStep, TracedStep
  <2>2. (TypeOK /\ AsksInOrder => PreferredFirst)'
    BY OrderPrefers, PTL
  <2> QED
    BY <2>1, <2>2 DEF ResolverInv
<1> QED
  BY <1>1, InvInit, PTL DEF Spec

\* A call is over after one timeout, or after one for each upstream: in every
\* state it is still within that time.
THEOREM CallsInTime == Spec => []ReturnsInTime
<1>1. ResolverInv => ReturnsInTime
  <2> SUFFICES ASSUME ResolverInv, NEW c \in Calls, result[c] = Pending
               PROVE  now - begun[c] <=
                         IF Policy = "parallel" THEN Timeout ELSE Timeout * Size
    BY DEF ReturnsInTime
  <2> USE DEF ResolverInv
  <2> DEFINE k == Cardinality(failed[c])
  <2>1. now \in Int /\ begun[c] \in Int /\ askedAt[c] \in Int
    BY DEF TypeOK
  <2>2. Size \in Nat /\ k \in Nat /\ Timeout \in Nat
    BY FailedCount, VectorSize, ResolverAssumption DEF TypeOK
  <2>3. /\ now - askedAt[c] \in 0..Timeout
        /\ askedAt[c] - begun[c] \in
              0..(IF Policy = "parallel" THEN 0 ELSE Timeout * k)
    BY DEF LookupsOnTime
  <2>4. CASE Policy = "parallel"
    BY <2>1, <2>2, <2>3, <2>4
  <2>5. CASE Policy # "parallel"
    <3>1. k < Size
      BY <2>5 DEF AsksInOrder
    <3> HIDE DEF k
    <3>2. Timeout * k + Timeout <= Timeout * Size /\ Timeout * k \in Nat
      BY <2>2, <3>1, TimesMore
    <3>3. Timeout * Size \in Nat
      BY <2>2
    <3>4. askedAt[c] - begun[c] <= Timeout * k
      BY <2>3, <2>5, <3>2
    <3>5. now - begun[c] <= Timeout * Size
      <4>1. ASSUME NEW a \in Nat, NEW b \in Nat, a + Timeout <= b,
                   askedAt[c] - begun[c] <= a
            PROVE  now - begun[c] <= b
        BY <2>1, <2>2, <2>3, <4>1
      <4> QED
        BY <3>2, <3>3, <3>4, <4>1
    <3> QED
      BY <2>5, <3>5
  <2> QED
    BY <2>4, <2>5
<1> QED
  BY <1>1, ResolverInvariant, PTL

\* In an increasing vector that lacks no name up to the one at place p, that
\* name is p: there are as many places up to p as there are names.
LEMMA PlaceOfName ==
    ASSUME upstreams \in Created, NEW p \in 1..Size,
           1..upstreams[p] \subseteq {upstreams[i] : i \in 1..Size}
    PROVE  upstreams[p] = p
<1> DEFINE u == upstreams[p]
           f == [q \in 1..p |-> upstreams[q]]
<1>1. /\ upstreams \in [1..Size -> 1..Configured] /\ Size \in Nat
      /\ \A i, j \in 1..Size : i < j => upstreams[i] < upstreams[j]
  BY VectorSize
<1>2. u \in Nat /\ p \in Nat /\ \A i \in 1..Size : upstreams[i] \in Nat
  BY <1>1, ResolverAssumption
<1> HIDE DEF u
<1>3. \A q \in 1..p : upstreams[q] \in 1..u
  <2> SUFFICES ASSUME NEW q \in 1..p PROVE upstreams[q] \in 1..u
    OBVIOUS
  <2>1. q \in 1..Size /\ (q < p \/ q = p)
    BY <1>1
  <2>2. upstreams[q] \in 1..Configured
    BY <1>1, <2>1
  <2>3. q < p => upstreams[q] < u
    BY <1>1, <2>1 DEF u
  <2>4. q = p => upstreams[q] = u
    BY DEF u
  <2> QED
    BY <1>2, <2>1, <2>2, <2>3, <2>4, ResolverAssumption
<1>4. \A x \in 1..u : \E q \in 1..p : upstreams[q] = x
  <2> SUFFICES ASSUME NEW x \in 1..u PROVE \E q \in 1..p : upstreams[q] = x
    OBVIOUS
  <2>1. PICK i \in 1..Size : upstreams[i] = x
    BY DEF u
  <2>2. ~(p < i)
    <3> SUFFICES ASSUME p < i PROVE FALSE
      OBVIOUS
    <3>1. u < x
      BY <1>1, <2>1 DEF u
    <3> QED
      BY <1>2, <3>1
  <2>3. i \in 1..p
    BY <1>1, <2>2
  <2> QED
    BY <2>1, <2>3
<1>5. \A q, r \in 1..p : upstreams[q] = upstreams[r] => q = r
  <2> SUFFICES ASSUME NEW q \in 1..p, NEW r \in 1..p, q < r
               PROVE  upstreams[q] # upstreams[r]
    BY <1>2
  <2>1. q \in 1..Size /\ r \in 1..Size
    BY <1>1
  <2>2. upstreams[q] < upstreams[r] /\ upstreams[q] \in Nat /\ upstreams[r] \in Nat
    BY <1>1, <1>2, <2>1
  <2> QED
    BY <2>2
<1>6. f \in Bijection(1..p, 1..u)
  BY <1>3, <1>4, <1>5 DEF Bijection, Injection, Surjection, IsInjective
<1>7. Cardinality(1..u) = p
  BY <1>2, <1>6, FS_CountingElements DEF ExistsBijection
<1>8. Cardinality(1..u) = u
  BY <1>2, FS_Interval
<1> QED
  BY <1>7, <1>8 DEF u

\* A latency is filed under the name of the upstream that answered, unless one
\* of the upstreams before it could not be created.
THEOREM LatenciesNamed == Spec => []SamplesNamed
<1>1. ResolverInv => SamplesNamed
  <2> SUFFICES ASSUME ResolverInv, NEW s \in samples,
                      1..s.upstream \subseteq {upstreams[i] : i \in 1..Size}
               PROVE  s.name = s.upstream
    BY DEF SamplesNamed
  <2>1. s.name \in 1..Size /\ s.upstream = upstreams[s.name] /\ upstreams \in Created
    BY DEF ResolverInv, TypeOK, SamplesTraced
  <2> QED
    BY <2>1, PlaceOfName
<1> QED
  BY <1>1, ResolverInvariant, PTL

\* Nothing is asked after a failure exactly if every upstream has now failed.
LEMMA NothingFollows ==
    ASSUME ResolverInv, NEW c \in Calls, NEW i \in Indices, LookupFails(c, i)
    PROVE  LET done == failed[c] \cup {i}
           IN  Following(c, done, asking[c] \ {i}) = {} <=> done = Indices
<1> DEFINE done == failed[c] \cup {i}
<1>1. result[c] = Pending /\ i \in asking[c] /\ done \in SUBSET Indices
  BY DEF LookupFails, ResolverInv, TypeOK
<1>2. CASE Policy = "parallel"
  <2>1. asking[c] \cap failed[c] = {} /\ asking[c] \cup failed[c] = Indices
    BY <1>1, <1>2 DEF ResolverInv, AsksOnce
  <2> QED
    BY <1>1, <1>2, <2>1 DEF Following
<1>3. CASE Policy # "parallel"
  <2>1. Cardinality(done) = Size <=> done = Indices
    BY <1>1, FailedCount DEF ResolverInv
  <2> QED
    BY <1>3, <2>1 DEF Following
<1> QED
  BY <1>2, <1>3

\* The answer that ResolverSpec sees.
SpecResult == [c \in Calls |-> IF result[c] = Idle THEN Pending ELSE result[c]]

LEMMA ImplementsInit == Init => Abstract!Init
<1> SUFFICES ASSUME Init PROVE Abstract!Init
  OBVIOUS
<1>1. Indices \in SUBSET Nat /\ Indices # {}
  BY VectorSize DEF Init, Indices
<1>2. SpecResult = [c \in Calls |-> Abstract!Pending]
  BY DEF SpecResult, Init, Pending, Abstract!Pending
<1> QED
  BY <1>1, <1>2 DEF Abstract!Init, Init, SpecResult

LEMMA ImplementsStep ==
    ASSUME ResolverInv, [Next]_vars
    PROVE  [Abstract!Next]_<<Indices, failed, SpecResult>>
<1> USE DEF ResolverInv
<1>1. Indices' = Indices
  BY VectorFixed
<1>2. /\ Pending = Abstract!Pending /\ Error = Abstract!Error
      /\ Idle # Pending /\ Idle # Error /\ Idle \notin Indices
  BY ResultsDiffer DEF Pending, Error, Abstract!Pending, Abstract!Error
<1>3. ASSUME NEW c \in Calls, Begin(c)
      PROVE  UNCHANGED <<Indices, failed, SpecResult>>
  <2>1. SpecResult' = SpecResult
    BY <1>2, <1>3 DEF Begin, TypeOK, SpecResult
  <2> QED
    BY <1>1, <1>3, <2>1 DEF Begin
<1>4. ASSUME NEW c \in Calls, NEW i \in Indices, LookupAnswers(c, i)
      PROVE  Abstract!Next
  <2>1. /\ SpecResult[c] = Pending /\ i \notin failed[c] /\ failed' = failed
    BY <1>2, <1>4 DEF LookupAnswers, AsksOnce, SpecResult
  <2>2. SpecResult' = [SpecResult EXCEPT ![c] = i]
    BY <1>2, <1>4 DEF LookupAnswers, TypeOK, SpecResult
  <2>3. Abstract!Answer(c, i)
    BY <1>2, <2>1, <2>2 DEF Abstract!Answer, SpecResult
  <2> QED
    BY <1>1, <2>3 DEF Abstract!Next
<1>5. ASSUME NEW c \in Calls, NEW i \in Indices, LookupFails(c, i)
      PROVE  Abstract!Next
  <2> DEFINE done == failed[c] \cup {i}
  <2>1. /\ SpecResult[c] = Pending /\ i \notin failed[c] /\ result[c] = Pending
        /\ failed' = [failed EXCEPT ![c] = @ \cup {i}]
    BY <1>2, <1>5 DEF LookupFails, AsksOnce, SpecResult
  <2>2. result' = [result EXCEPT ![c] = IF done = Indices THEN Error ELSE @]
    BY <1>5, NothingFollows DEF LookupFails
  <2>3. SpecResult' =
           [SpecResult EXCEPT ![c] = IF done = Indices THEN Error ELSE @]
    BY <1>2, <2>1, <2>2 DEF TypeOK, SpecResult
  <2>4. Abstract!Fail(c, i)
    BY <1>2, <2>1, <2>3 DEF Abstract!Fail, SpecResult
  <2> QED
    BY <1>1, <2>4 DEF Abstract!Next
<1>6. CASE Tick \/ Rest \/ UNCHANGED vars
  BY <1>1, <1>6 DEF Tick, Rest, vars, SpecResult
<1> QED
  BY <1>3, <1>4, <1>5, <1>6 DEF Next, Lookup

\* Every policy implements ResolverSpec: an error means that every upstream was
\* asked and failed, an answer comes from one that did not.
THEOREM PoliciesImplementSpec == Spec => Implements
<1>1. Init => Abstract!Init
  BY ImplementsInit
<1>2. ResolverInv /\ [Next]_vars => [Abstract!Next]_<<Indices, failed, SpecResult>>
  BY ImplementsStep
<1> QED
  BY <1>1, <1>2, ResolverInvariant, PTL
     DEF Spec, Implements, Abstract!Spec, SpecResult

-----------------------------------------------------------------------------
\* The counter has gone round the vector q times and is at place r of it, and
\* so have the calls.
TurnsInv ==
    Policy = "round-robin" =>
        /\ current = Cardinality(Begun)
        /\ \E q \in Nat, r \in Indices :
              /\ current % Size = r
              /\ \A i \in Indices : StartingAt(i) = IF i < r THEN q + 1 ELSE q

LEMMA RoundNext ==
    ASSUME NEW n \in Nat, NEW size \in Nat \ {0}
    PROVE  (n + 1) % size = IF (n % size) + 1 = size THEN 0 ELSE (n % size) + 1
<1> DEFINE q == n \div size
           r == n % size
<1>1. q \in Nat /\ r \in 0..(size - 1) /\ n = size * q + r
  OBVIOUS
<1> HIDE DEF q, r
<1>2. CASE r + 1 = size
  <2>1. n + 1 = size * (q + 1)
    BY <1>1, <1>2
  <2>2. (size * (q + 1)) % size = 0
    BY <1>1
  <2> QED
    BY <1>2, <2>1, <2>2 DEF r
<1>3. CASE r + 1 # size
  <2>1. r + 1 \in 0..(size - 1) /\ n + 1 = size * q + (r + 1)
    BY <1>1, <1>3
  <2>2. (size * q + (r + 1)) % size = r + 1
    BY <1>1, <2>1
  <2> QED
    BY <1>3, <2>1, <2>2 DEF r
<1> QED
  BY <1>2, <1>3

\* A call that begins takes the place the counter is at, and the next one.
LEMMA TurnTaken ==
    ASSUME ResolverInv, IsFiniteSet(Calls), Policy = "round-robin",
           NEW c \in Calls, Begin(c)
    PROVE  /\ Cardinality(Begun') = Cardinality(Begun) + 1
           /\ Cardinality(Begun') <= Cardinality(Calls)
           /\ Cardinality(Begun) \in Nat /\ Cardinality(Calls) \in Nat
           /\ \A i \in Indices :
                 StartingAt(i)' = IF i = current % Size THEN StartingAt(i) + 1
                                                        ELSE StartingAt(i)
<1> USE DEF ResolverInv
<1>1. /\ c \notin Begun /\ Begun' = Begun \cup {c} /\ Begun \subseteq Calls
      /\ Begun' \subseteq Calls
  BY ResultsDiffer DEF Begin, Begun, TypeOK
<1>2. IsFiniteSet(Begun) /\ IsFiniteSet(Begun')
  BY <1>1, FS_Subset
<1>3. /\ Cardinality(Begun') = Cardinality(Begun) + 1
      /\ Cardinality(Begun') <= Cardinality(Calls)
  BY <1>1, <1>2, FS_AddElement, FS_Subset
<1>4. Cardinality(Begun) \in Nat /\ Cardinality(Calls) \in Nat
  BY <1>2, FS_CardinalityType
<1>5. ASSUME NEW i \in Indices
      PROVE  StartingAt(i)' = IF i = current % Size THEN StartingAt(i) + 1
                                                    ELSE StartingAt(i)
  <2> DEFINE S == {d \in Begun : starts[d] = i}
             T == {d \in Begun' : starts'[d] = i}
  <2>1. starts' = [starts EXCEPT ![c] = current % Size] /\ starts \in [Calls -> Indices]
    BY DEF Begin, Claim, TypeOK
  <2>2. T = IF i = current % Size THEN S \cup {c} ELSE S
    BY <1>1, <2>1
  <2>3. IsFiniteSet(S) /\ c \notin S
    BY <1>1, <1>2, FS_Subset
  <2>4. Cardinality(S \cup {c}) = Cardinality(S) + 1
    BY <2>3, FS_AddElement
  <2>5. StartingAt(i) = Cardinality(S) /\ StartingAt(i)' = Cardinality(T)
    BY DEF StartingAt
  <2> QED
    BY <2>2, <2>4, <2>5
<1> QED
  BY <1>3, <1>4, <1>5

LEMMA TurnsStep ==
    ASSUME ResolverInv, TurnsInv, [Next]_vars,
           IsFiniteSet(Calls), Cardinality(Calls) < CounterWidth
    PROVE  TurnsInv'
<1> SUFFICES ASSUME Policy = "round-robin" PROVE TurnsInv'
  BY VectorFixed DEF TurnsInv
<1> USE DEF ResolverInv
<1>1. Size' = Size /\ Indices' = Indices /\ Policy' = Policy
  BY VectorFixed
<1>2. Size \in Nat \ {0} /\ CounterWidth \in Nat
  BY VectorSize, ResolverAssumption DEF TypeOK
<1>3. CASE UNCHANGED <<current, starts>> /\ Begun' = Begun
  <2>1. \A i : StartingAt(i)' = StartingAt(i)
    BY <1>3 DEF StartingAt
  <2> QED
    BY <1>1, <1>3, <2>1 DEF TurnsInv
<1>4. ASSUME NEW c \in Calls, Begin(c)
      PROVE  TurnsInv'
  <2>1. PICK q \in Nat, r \in Indices :
           /\ current % Size = r
           /\ \A i \in Indices : StartingAt(i) = IF i < r THEN q + 1 ELSE q
    BY DEF TurnsInv
  <2>2. current = Cardinality(Begun) /\ current \in Nat
    BY <1>4, TurnTaken DEF TurnsInv
  <2>3. current' = (current + 1) % CounterWidth
    BY <1>4 DEF Begin, Claim
  <2>4. current' = current + 1 /\ current' = Cardinality(Begun')
    <3>1. current + 1 = Cardinality(Begun') /\ current + 1 < CounterWidth
      BY <1>2, <1>4, <2>2, TurnTaken
    <3> QED
      BY <1>2, <2>2, <2>3, <3>1
  <2>5. \A i \in Indices :
           StartingAt(i)' = IF i = r THEN StartingAt(i) + 1 ELSE StartingAt(i)
    BY <1>4, <2>1, TurnTaken
  <2>6. current' % Size = IF r + 1 = Size THEN 0 ELSE r + 1
    BY <1>2, <2>1, <2>2, <2>4, RoundNext
  <2>7. r \in 0..(Size - 1) /\ \A i \in Indices : i \in 0..(Size - 1)
    BY DEF Indices
  <2>8. CASE r + 1 = Size
    <3>1. \A i \in Indices : StartingAt(i)' = IF i < 0 THEN (q + 1) + 1 ELSE q + 1
      BY <1>2, <2>1, <2>5, <2>7, <2>8
    <3>2. 0 \in Indices /\ q + 1 \in Nat
      BY <1>2 DEF Indices
    <3> QED
      BY <1>1, <2>4, <2>6, <2>8, <3>1, <3>2 DEF TurnsInv
  <2>9. CASE r + 1 # Size
    <3>1. \A i \in Indices : StartingAt(i)' = IF i < r + 1 THEN q + 1 ELSE q
      BY <1>2, <2>1, <2>5, <2>7, <2>9
    <3>2. r + 1 \in Indices
      BY <1>2, <2>7, <2>9 DEF Indices
    <3> QED
      BY <1>1, <2>4, <2>6, <2>9, <3>1, <3>2 DEF TurnsInv
  <2> QED
    BY <2>8, <2>9
<1>5. ASSUME NEW c \in Calls, Lookup(c)
      PROVE  UNCHANGED <<current, starts>> /\ Begun' = Begun
  BY <1>5, ResultsDiffer DEF Lookup, LookupAnswers, LookupFails, Begun, TypeOK
<1>6. CASE Tick \/ Rest \/ UNCHANGED vars
  BY <1>3, <1>6 DEF Tick, Rest, vars, Begun
<1> QED
  BY <1>3, <1>4, <1>5, <1>6 DEF Next

\* Round-robin gives calls to the upstreams in turn, as long as the counter
\* does not wrap: 2^64 calls are more than any process makes.
THEOREM FirstTurnsBalanced ==
    ASSUME IsFiniteSet(Calls), Cardinality(Calls) < CounterWidth
    PROVE  Spec => []TurnsBalanced
<1>1. Init => TurnsInv
  <2> SUFFICES ASSUME Init PROVE TurnsInv
    OBVIOUS
  <2>1. Begun = {} /\ \A i : {c \in Begun : starts[c] = i} = {}
    BY DEF Init, Begun
  <2>2. /\ current = Cardinality(Begun) /\ current = 0
        /\ \A i \in Indices : StartingAt(i) = 0
    BY <2>1, FS_EmptySet DEF Init, StartingAt
  <2>3. Size \in Nat \ {0} /\ 0 \in Indices
    BY VectorSize DEF Init, Indices
  <2>4. 0 % Size = 0 /\ \A i \in Indices : ~(i < 0)
    BY <2>3 DEF Indices
  <2> QED
    BY <2>2, <2>3, <2>4 DEF TurnsInv
<1>2. ResolverInv /\ TurnsInv /\ [Next]_vars => TurnsInv'
  BY TurnsStep
<1>3. TurnsInv => TurnsBalanced
  <2> SUFFICES ASSUME TurnsInv, Policy = "round-robin",
                      NEW i \in Indices, NEW j \in Indices
               PROVE  StartingAt(i) - StartingAt(j) <= 1
    BY DEF TurnsBalanced
  <2>1. PICK q \in Nat, r \in Indices :
           \A k \in Indices : StartingAt(k) = IF k < r THEN q + 1 ELSE q
    BY DEF TurnsInv
  <2>2. StartingAt(i) \in {q, q + 1} /\ StartingAt(j) \in {q, q + 1}
    BY <2>1
  <2> QED
    BY <2>2
<1> QED
  BY <1>1, <1>2, <1>3, ResolverInvariant, PTL DEF Spec
=============================================================================
