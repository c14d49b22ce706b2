-------------------------------- MODULE Stats --------------------------------
(***************************************************************************)
(* StatsCollector (stats.rs): tasks bump relaxed atomics and DashMap       *)
(* entries one at a time, in the order of the handler's calls, while a     *)
(* report (`get_snapshot` for the API, `dump_stats` for the log) loads     *)
(* them one at a time too.  Relaxed loads come in any order.               *)
(*                                                                         *)
(* Loads change nothing, so one report stands for all, and of it the model *)
(* follows one group of counters that are read to be compared.             *)
(***************************************************************************)
EXTENDS Integers, Sequences, FiniteSets, FiniteSetsExt, Functions

CONSTANTS
    Queries,        \* the tasks: one query each, with the refresh it spawns
    Requests,       \* what they ask and what comes of it, records
    Clients, Domains,
    Sources,        \* source ids, u8
    UpstreamSlots,  \* length of upstream_total_ms and upstream_count
    TopK            \* length of the top lists of a snapshot

\* What becomes of a query; "empty" is a packet without a question.
Outcomes == {"local", "ipv6", "blocked", "cached", "stale", "forwarded", "empty"}

ASSUME StatsAssumption ==
    /\ IsFiniteSet(Queries) /\ IsFiniteSet(Clients) /\ IsFiniteSet(Domains)
    /\ IsFiniteSet(Sources)
    /\ UpstreamSlots \in Nat \ {0} /\ TopK \in Nat \ {0}
    /\ Requests \subseteq [client : Clients, domain : Domains, outcome : Outcomes,
                           source : Sources, upstream : Nat, ms : Nat]

VARIABLES
    request,  \* what each task is about
    bumped,   \* how many of its bumps a task has made
    counter,  \* every counter, by the field and its key; 0 is a key not in its map
    part,     \* the counters the report compares, in the order of its loads
    start,    \* what they were when the report began
    seen      \* what it has loaded so far

vars == <<request, bumped, counter, part, start, seen>>

Total   == <<"total_queries", 0>>
Blocked == <<"blocked_queries", 0>>
Hits    == <<"cache_hits", 0>>

Per(field, keys) == {<<field, key>> : key \in keys}
Slots == 0..(UpstreamSlots - 1)
Counters ==
    {Total, Blocked, Hits} \cup Per("blocked_by_source", Sources)
    \cup Per("client_queries", Clients) \cup Per("client_blocks", Clients)
    \cup Per("domain_queries", Domains) \cup Per("domain_blocks", Domains)
    \cup Per("upstream_total_ms", Slots) \cup Per("upstream_count", Slots)

SumOver(f, set) == MapThenSumSet(LAMBDA x : f[x], set)
Sum(values, field, keys) == SumOver(values, Per(field, keys))

-----------------------------------------------------------------------------
\* Mutant of SlotOf: the index wraps.
SlotWraps(u) == {u % UpstreamSlots}

\* The slot of an upstream; those past the last have none.
SlotOf(u) == IF u < UpstreamSlots THEN {u} ELSE {}

\* record_upstream_latency: the milliseconds, then the count.
Sampled(r) ==
    IF SlotOf(r.upstream) = {} THEN <<>>
    ELSE LET slot == Max(SlotOf(r.upstream))
         IN  <<[of |-> <<"upstream_total_ms", slot>>, by |-> r.ms],
               [of |-> <<"upstream_count", slot>>, by |-> 1]>>

One(field, key) == [of |-> <<field, key>>, by |-> 1]

\* get_query_info stands between the client and the domain: on a packet
\* without a question its `expect` ends the task.
Received(r) ==
    IF r.outcome = "empty"
    THEN <<One("total_queries", 0), One("client_queries", r.client)>>
    ELSE <<One("total_queries", 0), One("client_queries", r.client),
           One("domain_queries", r.domain)>>

\* Mutant of Outcome: the source is counted before the block.
OutcomeSourceFirst(r) ==
    CASE r.outcome = "blocked" ->
            <<One("blocked_by_source", r.source), One("blocked_queries", 0),
              One("client_blocks", r.client), One("domain_blocks", r.domain)>>
      [] r.outcome = "cached" -> <<One("cache_hits", 0)>>
      [] r.outcome = "stale" -> <<One("cache_hits", 0)>> \o Sampled(r)
      [] r.outcome = "forwarded" -> Sampled(r)
      [] OTHER -> <<>>

Outcome(r) ==
    CASE r.outcome = "blocked" ->
            <<One("blocked_queries", 0), One("blocked_by_source", r.source),
              One("client_blocks", r.client), One("domain_blocks", r.domain)>>
      [] r.outcome = "cached" -> <<One("cache_hits", 0)>>
      [] r.outcome = "stale" -> <<One("cache_hits", 0)>> \o Sampled(r)
      [] r.outcome = "forwarded" -> Sampled(r)
      [] OTHER -> <<>>

\* Mutants of Bumps: the query is counted when it is answered; the domain of
\* a block is counted only as a query.
BumpsLate(r) == Outcome(r) \o Received(r)
BumpsNoDomain(r) ==
    Received(r) \o SelectSeq(Outcome(r), LAMBDA b : b.of[1] # "domain_blocks")

\* Every counter a query bumps, in the order of the code.
Bumps(r) == Received(r) \o Outcome(r)

Init ==
    /\ request \in [Queries -> Requests]
    /\ bumped = [q \in Queries |-> 0]
    /\ counter = [c \in Counters |-> 0]
    /\ part = <<>> /\ start = [c \in {} |-> 0] /\ seen = [c \in {} |-> 0]

\* fetch_add, or `entry(key).or_insert(0) += 1`.
Bump(q) ==
    LET bumps == Bumps(request[q])
    IN  /\ bumped[q] < Len(bumps)
        /\ bumped' = [bumped EXCEPT ![q] = @ + 1]
        /\ LET b == bumps[bumped[q] + 1] IN counter' = [counter EXCEPT ![b.of] = @ + b.by]
        /\ UNCHANGED <<request, part, start, seen>>

\* What is compared in a snapshot: the totals, or the queries and then the
\* blocks of the clients or of the domains.  (The locks of the maps keep the
\* order of the two walks; a walk sees the keys in any order.)
SnapshotParts ==
    {<<{Total, Blocked, Hits}>>,
     <<Per("client_queries", Clients), Per("client_blocks", Clients)>>,
     <<Per("domain_queries", Domains), Per("domain_blocks", Domains)>>}

\* In a dump: the blocks by source, or the two counters of an upstream.
DumpParts ==
    {<<{Blocked} \cup Per("blocked_by_source", Sources)>>}
    \cup {<<{<<"upstream_total_ms", u>>, <<"upstream_count", u>>}>> : u \in Slots}

Report ==
    /\ part = <<>>
    /\ part' \in SnapshotParts \cup DumpParts
    /\ start' = [c \in UNION Range(part') |-> counter[c]]
    /\ UNCHANGED <<request, bumped, counter, seen>>

Unfinished == {i \in DOMAIN part : ~ part[i] \subseteq DOMAIN seen}

Load ==
    /\ Unfinished # {}
    /\ \E c \in part[Min(Unfinished)] \ DOMAIN seen :
          seen' = [d \in DOMAIN seen \cup {c} |-> IF d = c THEN counter[c] ELSE seen[d]]
    /\ UNCHANGED <<request, bumped, counter, part, start>>

Quiet == \A q \in Queries : bumped[q] = Len(Bumps(request[q]))

Done == Quiet /\ part # <<>> /\ Unfinished = {} /\ UNCHANGED vars

Next == (\E q \in Queries : Bump(q)) \/ Report \/ Load \/ Done

Spec == Init /\ [][Next]_vars

\* Mutant of Ranked: the sort is ascending.
RankedAscending(listed, omitted, items) ==
    \A k \in listed, j \in omitted : items[k] <= items[j]

\* What the sort and `take` see to: nothing omitted exceeds what is listed.
Ranked(listed, omitted, items) ==
    \A k \in listed, j \in omitted : items[k] >= items[j]

\* get_top_k: the sets of keys it may return, of those it has seen.
TopKeys(field, keys) ==
    LET items == [k \in {key \in keys : seen[<<field, key>>] > 0} |-> seen[<<field, k>>]]
        size == IF Cardinality(DOMAIN items) < TopK THEN Cardinality(DOMAIN items) ELSE TopK
    IN  {listed \in kSubset(size, DOMAIN items) :
            Ranked(listed, DOMAIN items \ listed, items)}

-----------------------------------------------------------------------------
TypeOK ==
    /\ request \in [Queries -> Requests]
    /\ bumped \in [Queries -> 0..7]
    /\ part \in {<<>>} \cup SnapshotParts \cup DumpParts
    /\ counter \in [Counters -> Nat]
    /\ start \in [UNION Range(part) -> Nat]
    /\ DOMAIN seen \subseteq DOMAIN start /\ seen \in [DOMAIN seen -> Nat]

\* The report has loaded everything in all of these counters.
Reported(counters) == counters # {} /\ counters \subseteq DOMAIN seen

\* How far a counter got while the report was under way.
Meanwhile(c) == counter[c] - start[c]

\* A snapshot is torn, but no further than the queries that arrived while it
\* was taken: blocks and hits together exceed the queries by at most their
\* number, and so do the blocks of a client or a domain.
SnapshotBounded ==
    /\ Reported({Total, Blocked, Hits}) =>
          seen[Blocked] + seen[Hits] <= seen[Total] + Meanwhile(Total)
    /\ \A c \in Clients :
          Reported({<<"client_queries", c>>, <<"client_blocks", c>>}) =>
              seen[<<"client_blocks", c>>] <=
                  seen[<<"client_queries", c>>] + Meanwhile(<<"client_queries", c>>)
    /\ \A d \in Domains :
          Reported({<<"domain_queries", d>>, <<"domain_blocks", d>>}) =>
              seen[<<"domain_blocks", d>>] <=
                  seen[<<"domain_queries", d>>] + Meanwhile(<<"domain_queries", d>>)

\* The shares of the lists in a dump add up to all blocks, give or take those
\* of the meantime and those that were between their two counters before it.
SharesBounded ==
    Reported({Blocked} \cup Per("blocked_by_source", Sources)) =>
        LET shares  == Sum(seen, "blocked_by_source", Sources)
            between == start[Blocked] - Sum(start, "blocked_by_source", Sources)
        IN  /\ shares <= seen[Blocked] + Meanwhile(Blocked)
            /\ seen[Blocked] <= shares + Meanwhile(Blocked) + between

\* The packets without a question.
Unasked == {q \in Queries : request[q].outcome = "empty"}

\* At every moment a query is counted for its client after the total and for
\* its domain after its client, and blocked or a hit after that; when the
\* tasks are done, or have died of a packet without a question, the maps add up
\* to the totals but for those packets, which have a client and no domain.
AllCounted ==
    LET of(field, keys) == Sum(counter, field, keys)
        clients == of("client_queries", Clients)
        domains == of("domain_queries", Domains)
        sources == of("blocked_by_source", Sources)
    IN  /\ counter[Total] >= clients /\ clients >= domains
        /\ domains >= counter[Blocked] + counter[Hits]
        /\ counter[Blocked] >= sources
        /\ Quiet =>
              /\ clients = counter[Total]
              /\ domains = clients - Cardinality(Unasked)
              /\ sources = counter[Blocked]
              /\ of("client_blocks", Clients) = sources
              /\ of("domain_blocks", Domains) = sources

\* A value in a report is one its counter had while the report was made.
LoadedBetween ==
    /\ \A c \in DOMAIN start : start[c] <= counter[c]
    /\ \A c \in DOMAIN seen : seen[c] \in start[c]..counter[c]

\* What every step keeps, of the counters by themselves and of a report.
StatsInv == TypeOK /\ LoadedBetween /\ AllCounted

\* A snapshot omits no client or domain in favour of a quieter one: a key that
\* is left out had, when the snapshot began, no more than each listed one is
\* shown with; and none is left out as long as there is room.
TopListed ==
    \A map \in {<<"client_queries", Clients>>, <<"domain_queries", Domains>>} :
        Reported(Per(map[1], map[2])) =>
            \A listed \in TopKeys(map[1], map[2]), j \in map[2] :
                j \notin listed /\ start[<<map[1], j>>] > 0 =>
                    /\ Cardinality(listed) = TopK
                    /\ \A k \in listed :
                          start[<<map[1], j>>] <= seen[<<map[1], k>>]

\* The tasks with a sample of upstream u that has added its milliseconds.
Sampling(u) ==
    {q \in Queries : request[q].upstream = u /\ \E i \in 1..bumped[q] :
        Bumps(request[q])[i].of[1] = "upstream_total_ms"}

\* The average a dump prints for an upstream lies between the fastest and the
\* slowest sample of that upstream and no other, up to the samples that were
\* being recorded during the dump.
LatencyKept ==
    \A u \in Slots :
        LET ms == <<"upstream_total_ms", u>>
            n  == <<"upstream_count", u>>
            samples == {request[q].ms : q \in Sampling(u)}
            overlap == Cardinality(Sampling(u)) - start[n]
        IN  Reported({ms, n}) /\ seen[n] > 0 =>
                /\ samples # {}
                /\ seen[ms] <= Max(samples) * (seen[n] + overlap)
                /\ seen[ms] >= Min(samples) * (seen[n] - overlap)
=============================================================================
