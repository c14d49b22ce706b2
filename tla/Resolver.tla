------------------------------- MODULE Resolver -------------------------------
(***************************************************************************)
(* The resolvers of src/resolver: single, sequential, round-robin and      *)
(* parallel, under concurrent calls, with the latency each answer records. *)
(*                                                                         *)
(* An upstream is named by its place in config.upstream_servers, from 1.   *)
(* One whose host cannot be bootstrapped or whose URL does not parse is    *)
(* left out of the resolver's vector; the statistics keep the full list of *)
(* names.  A place in the vector is an index from 0.                       *)
(***************************************************************************)
EXTENDS Integers, Sequences, FiniteSets

CONSTANTS
    Calls,         \* concurrent calls of resolve
    Configured,    \* length of config.upstream_servers, or 1 for an empty one
    MaySkip,       \* whether an upstream may be left out
    CounterWidth,  \* the round-robin counter wraps here (2^64)
    Timeout,       \* longest lookup of one upstream, with all its attempts
    MaxTime        \* bound on the clock

ASSUME ResolverAssumption ==
    /\ Configured \in Nat \ {0}
    /\ MaySkip \in BOOLEAN
    /\ CounterWidth \in Nat \ {0}
    /\ Timeout \in Nat /\ MaxTime \in Nat

VARIABLES
    now,
    policy,     \* config.resolution_policy
    upstreams,  \* the vector: configured places, in their order
    current,    \* RoundRobinResolver.current
    starts,     \* the index at which each call starts
    begun,      \* `start` of each call, an Instant
    asking,     \* indices each call has a lookup under way for
    askedAt,    \* when the newest lookup of each call began
    failed,     \* indices that failed each call
    result,     \* Idle, Pending, Error or the index that answered
    samples     \* latencies recorded, see Sample

vars == <<now, policy, upstreams, current, starts, begun, asking, askedAt,
          failed, result, samples>>

Idle    == -3   \* the call has not been made
Pending == -1
Error   == -2

Policies == {"sequential", "round-robin", "parallel"}

\* create_configured_upstreams pushes the ones it could create, in order: the
\* vectors it may return, of at least one upstream.  (For an empty
\* upstream_servers it is the default upstream alone.)
Created ==
    UNION {{v \in [1..n -> 1..Configured] :
               \A i, j \in 1..n : i < j => v[i] < v[j]} : n \in 1..Configured}

Size == Len(upstreams)
Indices == 0..(Size - 1)

\* Mutant of Sample: filed by the place among the lookups still under way,
\* as select_all returns it.
SampleByPosition(c, i) ==
    [name |-> Cardinality({j \in asking[c] : j <= i}), upstream |-> upstreams[i + 1],
     latency |-> now - begun[c], own |-> now - askedAt[c]]

\* A sample: the name it is filed under, the upstream that gave the answer,
\* the latency filed and the time that upstream itself took.
Sample(c, i) == [name |-> i + 1, upstream |-> upstreams[i + 1],
                 latency |-> now - begun[c], own |-> now - askedAt[c]]

Init ==
    /\ now = 0
    /\ policy \in Policies
    /\ upstreams \in Created
    /\ MaySkip \/ Size = Configured
    /\ current = 0
    /\ starts = [c \in Calls |-> 0]
    /\ begun = [c \in Calls |-> 0]
    /\ asking = [c \in Calls |-> {}]
    /\ askedAt = [c \in Calls |-> 0]
    /\ failed = [c \in Calls |-> {}]
    /\ result = [c \in Calls |-> Idle]
    /\ samples = {}

-----------------------------------------------------------------------------
\* With one upstream create_resolver ignores the policy.
Policy == IF Size = 1 THEN "single" ELSE policy

\* The k-th index a call tries, when it tries one after the other.
Ordered(c, k) == (starts[c] + k) % Size

\* Mutant of Claim: the counter is loaded and not advanced.
ClaimLoad(c) ==
    IF Policy = "round-robin"
    THEN /\ starts' = [starts EXCEPT ![c] = current % Size]
         /\ current' = current
    ELSE UNCHANGED <<starts, current>>

\* fetch_add, modulo the number of upstreams.
Claim(c) ==
    IF Policy = "round-robin"
    THEN /\ starts' = [starts EXCEPT ![c] = current % Size]
         /\ current' = (current + 1) % CounterWidth
    ELSE UNCHANGED <<starts, current>>

Begin(c) ==
    /\ result[c] = Idle
    /\ result' = [result EXCEPT ![c] = Pending]
    /\ begun' = [begun EXCEPT ![c] = now]
    /\ askedAt' = [askedAt EXCEPT ![c] = now]
    /\ Claim(c)
    /\ asking' = [asking EXCEPT
                     ![c] = IF Policy = "parallel" THEN Indices ELSE {starts'[c]}]
    /\ UNCHANGED <<now, policy, upstreams, failed, samples>>

\* Records, or "no records found", which counts as an answer.  The other
\* lookups of a parallel call are dropped.
LookupAnswers(c, i) ==
    /\ result[c] = Pending /\ i \in asking[c]
    /\ result' = [result EXCEPT ![c] = i]
    /\ asking' = [asking EXCEPT ![c] = {}]
    /\ samples' = samples \cup {Sample(c, i)}
    /\ UNCHANGED <<now, policy, upstreams, current, starts, begun, askedAt, failed>>

\* Mutants of Following: every call goes on with the first of the vector; the
\* last upstream is not tried; the failed one is asked again; the vector is
\* gone round without an end.
FollowingFromFirst(c, done, rest) ==
    IF Policy = "parallel" THEN rest
    ELSE IF done = Indices THEN {}
    ELSE {CHOOSE i \in Indices \ done : \A j \in Indices \ done : i <= j}
FollowingShort(c, done, rest) ==
    IF Policy = "parallel" THEN rest
    ELSE IF Cardinality(done) + 1 >= Size THEN {}
    ELSE {Ordered(c, Cardinality(done))}
FollowingRetry(c, done, rest) ==
    IF Policy = "parallel" THEN rest
    ELSE {Ordered(c, Cardinality(done))}

FollowingForever(c, done, rest) ==
    IF Policy = "parallel" THEN rest ELSE {(i + 1) % Size : i \in asking[c]}

\* What is asked after the upstreams in `done` have failed, of a call that
\* was asking `rest` beside the last of them.
Following(c, done, rest) ==
    IF Policy = "parallel" THEN rest
    ELSE IF Cardinality(done) = Size THEN {}
    ELSE {Ordered(c, Cardinality(done))}

LookupFails(c, i) ==
    LET done == failed[c] \cup {i}
        next == Following(c, done, asking[c] \ {i})
    IN  /\ result[c] = Pending /\ i \in asking[c]
        /\ failed' = [failed EXCEPT ![c] = done]
        /\ asking' = [asking EXCEPT ![c] = next]
        /\ askedAt' = [askedAt EXCEPT ![c] = IF Policy = "parallel" THEN @ ELSE now]
        /\ result' = [result EXCEPT ![c] = IF next = {} THEN Error ELSE @]
        /\ UNCHANGED <<now, policy, upstreams, current, starts, begun, samples>>

\* opts.timeout bounds an attempt and hickory makes a few of them: a lookup
\* ends within Timeout, their product, of which upstream_timeout_ms is a part.
Tick ==
    /\ now < MaxTime
    /\ \A c \in Calls : asking[c] # {} => now < askedAt[c] + Timeout
    /\ now' = now + 1
    /\ UNCHANGED <<policy, upstreams, current, starts, begun, asking, askedAt,
                   failed, result, samples>>

\* All calls have returned and the clock is at its bound.
Rest ==
    /\ now = MaxTime
    /\ \A c \in Calls : result[c] \notin {Idle, Pending}
    /\ UNCHANGED vars

Lookup(c) == \E i \in Indices : LookupAnswers(c, i) \/ LookupFails(c, i)

Next == (\E c \in Calls : Begin(c) \/ Lookup(c)) \/ Tick \/ Rest

Spec == Init /\ [][Next]_vars /\ \A c \in Calls : WF_vars(Lookup(c))

-----------------------------------------------------------------------------
TypeOK ==
    /\ now \in 0..MaxTime
    /\ policy \in Policies
    /\ upstreams \in Created
    /\ current \in 0..(CounterWidth - 1)
    /\ starts \in [Calls -> Indices]
    /\ begun \in [Calls -> 0..MaxTime] /\ askedAt \in [Calls -> 0..MaxTime]
    /\ asking \in [Calls -> SUBSET Indices]
    /\ failed \in [Calls -> SUBSET Indices]
    /\ result \in [Calls -> {Idle, Pending, Error} \cup Indices]
    /\ samples \subseteq [name : 1..Size, upstream : 1..Configured,
                            latency : 0..MaxTime, own : 0..MaxTime]

\* Every policy implements ResolverSpec: an error means that every upstream
\* was asked and failed, an answer comes from one that did not.
Abstract ==
    INSTANCE ResolverSpec WITH
        upstreams <- Indices,
        result <- [c \in Calls |-> IF result[c] = Idle THEN Pending ELSE result[c]]
Implements == Abstract!Spec

Answered == {c \in Calls : result[c] \in Indices}

\* Sequential and round-robin calls prefer the order of the configuration,
\* from where they start: an upstream answers only after all before it
\* failed, with every call keeping its own place among concurrent ones.
PreferredFirst ==
    Policy # "parallel" =>
        \A c \in Answered :
            \E k \in Indices : /\ Ordered(c, k) = result[c]
                               /\ failed[c] = {Ordered(c, j) : j \in 0..(k - 1)}

\* Such a call is asking the next upstream after those that failed it.
AsksInOrder ==
    Policy # "parallel" =>
        \A c \in Calls :
            LET k == Cardinality(failed[c])
            IN  /\ failed[c] = {Ordered(c, j) : j \in 0..(k - 1)}
                /\ result[c] = Pending => k < Size /\ asking[c] = {Ordered(c, k)}
                /\ result[c] \in Indices => k < Size /\ result[c] = Ordered(c, k)

\* A call is asking exactly while it is under way, and no upstream twice; a
\* parallel call has asked them all.
AsksOnce ==
    \A c \in Calls :
        /\ result[c] = Idle => failed[c] = {}
        /\ result[c] = Pending <=> asking[c] # {}
        /\ asking[c] \cap failed[c] = {}
        /\ Policy = "parallel" /\ result[c] = Pending =>
              asking[c] \cup failed[c] = Indices

\* A lookup is within its timeout, and began when the ones before it were over.
LookupsOnTime ==
    \A c \in Calls : result[c] = Pending =>
        /\ now - askedAt[c] \in 0..Timeout
        /\ askedAt[c] - begun[c] \in
              0..(IF Policy = "parallel" THEN 0 ELSE Timeout * Cardinality(failed[c]))

\* A sample is of the upstream at the place it is filed under, and of no
\* shorter time than that upstream took.
SamplesTraced ==
    \A s \in samples : s.upstream = upstreams[s.name] /\ s.own <= s.latency

\* What every step keeps of the calls.
ResolverInv ==
    /\ TypeOK /\ AsksInOrder /\ AsksOnce /\ LookupsOnTime /\ SamplesTraced
    /\ PreferredFirst

Begun == {c \in Calls : result[c] # Idle}
StartingAt(i) == Cardinality({c \in Begun : starts[c] = i})

\* Round-robin gives concurrent calls to the upstreams in turn: no upstream
\* is the first of two calls more than another.
TurnsBalanced ==
    Policy = "round-robin" =>
        \A i, j \in Indices : StartingAt(i) - StartingAt(j) <= 1

\* A call is over after one timeout (parallel) or one for each upstream; the
\* query handler's FetchTime rests on this.
ReturnsInTime ==
    \A c \in Calls : result[c] = Pending =>
        now - begun[c] <= IF Policy = "parallel" THEN Timeout ELSE Timeout * Size

\* Every call that was made returns.
CallsReturn == \A c \in Calls : result[c] = Pending ~> result[c] # Pending

\* A latency is filed under the name of the upstream that answered, whatever
\* order the upstreams of concurrent calls answered or failed in; only behind
\* an upstream that could not be created are the names one place off.
SamplesNamed ==
    \A s \in samples :
        1..s.upstream \subseteq {upstreams[i] : i \in 1..Size} => s.name = s.upstream
=============================================================================
