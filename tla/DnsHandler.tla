------------------------------ MODULE DnsHandler ------------------------------
(***************************************************************************)
(* The life of DNS queries inside server/dns_request_handler.rs.           *)
(*                                                                         *)
(* Every query is a task of its own that runs `handle_request`; a stale    *)
(* cache hit spawns a second task that refreshes the entry.  The tasks     *)
(* share the cache, the blocklist (an ArcSwap), the pause deadline (an     *)
(* RwLock) and the counters.  One action is one stretch of code between    *)
(* two points where another thread can be observed: an await, or a read    *)
(* or write of a shared object.                                            *)
(*                                                                         *)
(* Time is a counter of ticks.  A task may be delayed between any two of   *)
(* its actions; only a resolver call is bounded, by FetchTime, because     *)
(* the resolver has a timeout for each of its attempts.                    *)
(***************************************************************************)
EXTENDS Integers, FiniteSets, FiniteSetsExt

CONSTANTS
    Queries,        \* the queries that clients send, one task each
    Names,          \* domain names, as spelled on the wire or in the config
    Lower,          \* [Names -> Names], ASCII lower case and no final dot
    QTypes,         \* query types
    RecordTypes,    \* types of the records upstreams return
    LocalRecords,   \* config.local_records: some names -> "A" or "AAAA"
    DisableIpv6,    \* config.disable_ipv6
    LoggingEnable,  \* config.logging.enable
    MinTtl,         \* config.cache.min_ttl
    GracePeriod,    \* config.cache.grace_period_sec
    Capacity,       \* config.cache.capacity
    Sources,        \* ids of blocklists
    NoSource,       \* `None` of BlocklistMatcher::check
    Matchers,       \* the matchers refreshes install, [Names -> id or none]
    Replies,        \* the record sets an upstream may return
    FetchTime,      \* longest resolver call, all its attempts included
    PauseTimes,     \* durations given to POST /api/pause
    MaxTime         \* bound on the clock

Record   == [rtype : RecordTypes, ttl : Nat]
Question == [name : Names, qtype : QTypes]

ASSUME HandlerAssumption ==
    /\ IsFiniteSet(Queries)
    /\ Lower \in [Names -> Names]
    /\ \A n \in Names : Lower[Lower[n]] = Lower[n]
    /\ {"A", "AAAA"} \subseteq RecordTypes
    /\ DOMAIN LocalRecords \subseteq Names
    /\ \A n \in DOMAIN LocalRecords : LocalRecords[n] \in {"A", "AAAA"}
    /\ DisableIpv6 \in BOOLEAN /\ LoggingEnable \in BOOLEAN
    /\ MinTtl \in Nat /\ GracePeriod \in Nat /\ Capacity \in Nat
    /\ FetchTime \in Nat /\ MaxTime \in Nat
    /\ PauseTimes \subseteq Nat
    /\ NoSource \notin Sources
    /\ Matchers \subseteq [Names -> Sources \cup {NoSource}]
    /\ Matchers # {}
    /\ Replies \subseteq SUBSET Record
    /\ \A reply \in Replies : IsFiniteSet(reply)

VARIABLES
    now,          \* Instant::now()
    pausedUntil,  \* AppState.blocking_paused_until, 0 for None
    blocklist,    \* the matcher the ArcSwap holds
    request,      \* the question each client sends
    pc,           \* where the task of each query is
    response,     \* what each query is answered with, once decided
    cache,        \* the set of cached entries
    fetch,        \* state of each call of resolve_and_cache
    askedAt,      \* when that call asked the upstream
    fetched,      \* the entry it is about to insert
    stats,        \* StatsCollector
    log           \* entries given to QueryLogger::log

tables == <<pausedUntil, blocklist>>
fetches == <<fetch, askedAt, fetched>>
vars == <<now, tables, request, pc, response, cache, fetches, stats, log>>

-----------------------------------------------------------------------------
(* Data.                                                                   *)

\* A call of resolve_and_cache: by the query itself, or by the refresh that
\* a stale hit of the query spawned.
Tasks == Queries \X {"serve", "refresh"}

Entry == [key : Names \X QTypes, question : Question, recs : SUBSET Record,
          askedAt : Nat, validUntil : Nat, staleUntil : Nat]

NoEntry == [key |-> <<>>]

Origins == {"none", "ipv6", "local", "blocked", "cached", "stale", "upstream",
            "error"}

Response == [from : Origins, rcode : {"NoError", "NXDomain", "ServFail"},
             recs : SUBSET Record, question : Question, askedAt : Nat,
             at : Nat, source : Sources \cup {NoSource}]

PcStates == {"arriving", "received", "blocklist", "cache", "resolving",
             "sending", "logging", "done", "panicked"}

\* get_query_info: the name in lower case, without the final dot.
QueryInfo(q) == [name |-> Lower[request[q].name], qtype |-> request[q].qtype]

\* Mutant of CacheKey: the query type is forgotten.
CacheKeyNameOnly(question) == <<question.name, "A">>

\* The key under which resolve_and_cache inserts and check_cache looks up.
CacheKey(question) == <<question.name, question.qtype>>

Larger(a, b) == IF a < b THEN b ELSE a

\* Mutant of EffectiveTtl: the longest TTL of the answer counts.
EffectiveTtlLongest(recs) ==
    IF recs = {} THEN MinTtl
                 ELSE Larger(Max({r.ttl : r \in recs}), MinTtl)

\* An empty answer is kept for min_ttl, any other for its shortest TTL, but
\* at least min_ttl.
EffectiveTtl(recs) ==
    IF recs = {} THEN MinTtl
                 ELSE Larger(Min({r.ttl : r \in recs}), MinTtl)

\* Mutant of Retained: the filter only runs on answers of one record.
RetainedSingle(reply) ==
    IF DisableIpv6 /\ Cardinality(reply) = 1
    THEN {r \in reply : r.rtype # "AAAA"} ELSE reply

\* `records.retain(..)` of resolve_and_cache.
Retained(reply) ==
    IF DisableIpv6 THEN {r \in reply : r.rtype # "AAAA"} ELSE reply

MakeEntry(question, reply, asked) ==
    LET recs  == Retained(reply)
        valid == now + EffectiveTtl(recs)
    IN  [key |-> CacheKey(question), question |-> question, recs |-> recs,
         askedAt |-> asked, validUntil |-> valid,
         staleUntil |-> valid + GracePeriod]

\* Mutant of Inserted: a refreshed entry is added beside the old one.
InsertedBeside(e) == cache \cup {e}

\* cache.insert: the key's entry, if any, is replaced.
Inserted(e) == {old \in cache : old.key # e.key} \cup {e}

CachedFor(question) == {e \in cache : e.key = CacheKey(question)}
IsFresh(e) == now < e.validUntil
IsStale(e) == ~IsFresh(e) /\ now < e.staleUntil

\* is_blocking_active and check_blocklist.
BlockingActive == ~(now < pausedUntil)
IsListed(name) == blocklist[name] # NoSource

\* A decided answer: its records were obtained by asking `question` at time
\* `asked`.
Answer(from, rcode, recs, question, asked, source) ==
    [from |-> from, rcode |-> rcode, recs |-> recs, question |-> question,
     askedAt |-> asked, at |-> now, source |-> source]

OwnAnswer(q, from, rcode, recs, source) ==
    Answer(from, rcode, recs, QueryInfo(q), now, source)

EntryAnswer(from, e) ==
    Answer(from, "NoError", e.recs, e.question, e.askedAt, NoSource)

\* The counters of StatsCollector, one atomic each.
IncQueries == [stats EXCEPT !.queries = @ + 1]
IncCacheHit == [stats EXCEPT !.cacheHits = @ + 1]
IncBlockedBySource(source) == [stats EXCEPT !.blocked[source] = @ + 1]

Goto(q, label) == pc' = [pc EXCEPT ![q] = label]

\* A response has been chosen for q; sending it is the next step.
Decide(q, resp) == response' = [response EXCEPT ![q] = resp] /\ Goto(q, "sending")

-----------------------------------------------------------------------------
Init ==
    /\ now = 0
    /\ pausedUntil = 0
    /\ blocklist \in Matchers
    /\ request \in [Queries -> Question]
    /\ pc = [q \in Queries |-> "arriving"]
    /\ response = [q \in Queries |-> OwnAnswer(q, "none", "NoError", {}, NoSource)]
    /\ cache = {}
    /\ fetch = [t \in Tasks |-> "idle"]
    /\ askedAt = [t \in Tasks |-> 0]
    /\ fetched = [t \in Tasks |-> NoEntry]
    /\ stats = [queries |-> 0, cacheHits |-> 0, blocked |-> [s \in Sources |-> 0]]
    /\ log = {}

-----------------------------------------------------------------------------
(* handle_request, one step after the other.                               *)

Receive(q) ==
    /\ pc[q] = "arriving"
    /\ stats' = IncQueries
    /\ Goto(q, "received")
    /\ UNCHANGED <<now, tables, request, response, cache, fetches, log>>

\* get_query_info's `expect("No query in request")`: a packet without a
\* question kills its task, which has been counted and is never answered.
QuestionMissing(q) ==
    /\ pc[q] = "arriving"
    /\ stats' = IncQueries
    /\ Goto(q, "panicked")
    /\ UNCHANGED <<now, tables, request, response, cache, fetches, log>>

RefusedAsIpv6(q) == DisableIpv6 /\ QueryInfo(q).qtype = "AAAA"

\* A local record answers only its own type; any other query falls through.
HasLocalRecord(q) ==
    /\ QueryInfo(q).name \in DOMAIN LocalRecords
    /\ LocalRecords[QueryInfo(q).name] = QueryInfo(q).qtype

RefuseIpv6(q) ==
    /\ pc[q] = "received"
    /\ RefusedAsIpv6(q)
    /\ Decide(q, OwnAnswer(q, "ipv6", "NoError", {}, NoSource))
    /\ UNCHANGED <<now, tables, request, cache, fetches, stats, log>>

ServeLocal(q) ==
    /\ pc[q] = "received"
    /\ ~RefusedAsIpv6(q)
    /\ HasLocalRecord(q)
    /\ LET rec == [rtype |-> LocalRecords[QueryInfo(q).name], ttl |-> MinTtl]
       IN  Decide(q, OwnAnswer(q, "local", "NoError", {rec}, NoSource))
    /\ UNCHANGED <<now, tables, request, cache, fetches, stats, log>>

\* Mutant of CheckPause: the cache is asked before the blocklist.
CheckPauseSkipsCached(q) ==
    /\ pc[q] = "received"
    /\ ~RefusedAsIpv6(q)
    /\ ~HasLocalRecord(q)
    /\ Goto(q, IF BlockingActive /\ CachedFor(QueryInfo(q)) = {}
               THEN "blocklist" ELSE "cache")
    /\ UNCHANGED <<now, tables, request, response, cache, fetches, stats, log>>

\* Mutant of CheckPause: a paused handler still asks the blocklist.
CheckPauseIgnored(q) ==
    /\ pc[q] = "received"
    /\ ~RefusedAsIpv6(q)
    /\ ~HasLocalRecord(q)
    /\ Goto(q, "blocklist")
    /\ UNCHANGED <<now, tables, request, response, cache, fetches, stats, log>>

\* handle_blocked_request reads the pause deadline first ...
CheckPause(q) ==
    /\ pc[q] = "received"
    /\ ~RefusedAsIpv6(q)
    /\ ~HasLocalRecord(q)
    /\ Goto(q, IF BlockingActive THEN "blocklist" ELSE "cache")
    /\ UNCHANGED <<now, tables, request, response, cache, fetches, stats, log>>

\* ... and the blocklist in a second, separate read.
NullRecords(qtype) ==
    IF qtype \in {"A", "AAAA"} THEN {[rtype |-> qtype, ttl |-> 60]} ELSE {}

\* Mutant of ServeBlocked: a block is charged to one and the same list,
\* whichever of them has the name.
ServeBlockedSameSource(q) ==
    LET name == QueryInfo(q).name
        recs == NullRecords(QueryInfo(q).qtype)
        list == CHOOSE s \in Sources : TRUE
    IN  /\ pc[q] = "blocklist"
        /\ IsListed(name)
        /\ stats' = IncBlockedBySource(list)
        /\ Decide(q, OwnAnswer(q, "blocked",
                               IF recs = {} THEN "NXDomain" ELSE "NoError",
                               recs, list))
        /\ UNCHANGED <<now, tables, request, cache, fetches, log>>

ServeBlocked(q) ==
    LET name == QueryInfo(q).name
        recs == NullRecords(QueryInfo(q).qtype)
    IN  /\ pc[q] = "blocklist"
        /\ IsListed(name)
        /\ stats' = IncBlockedBySource(blocklist[name])
        /\ Decide(q, OwnAnswer(q, "blocked",
                               IF recs = {} THEN "NXDomain" ELSE "NoError",
                               recs, blocklist[name]))
        /\ UNCHANGED <<now, tables, request, cache, fetches, log>>

PassBlocklist(q) ==
    /\ pc[q] = "blocklist"
    /\ ~IsListed(QueryInfo(q).name)
    /\ Goto(q, "cache")
    /\ UNCHANGED <<now, tables, request, response, cache, fetches, stats, log>>

ServeFresh(q) ==
    /\ pc[q] = "cache"
    /\ \E e \in CachedFor(QueryInfo(q)) :
          IsFresh(e) /\ Decide(q, EntryAnswer("cached", e))
    /\ stats' = IncCacheHit
    /\ UNCHANGED <<now, tables, request, cache, fetches, log>>

\* Mutant of ServeStale: the refresh is lost.
ServeStaleOnly(q) ==
    /\ pc[q] = "cache"
    /\ \E e \in CachedFor(QueryInfo(q)) :
          IsStale(e) /\ Decide(q, EntryAnswer("stale", e))
    /\ stats' = IncCacheHit
    /\ UNCHANGED <<now, tables, request, cache, fetches, log>>

\* A stale hit is served at once and spawns a refresh.
ServeStale(q) ==
    /\ pc[q] = "cache"
    /\ \E e \in CachedFor(QueryInfo(q)) :
          IsStale(e) /\ Decide(q, EntryAnswer("stale", e))
    /\ stats' = IncCacheHit
    /\ fetch' = [fetch EXCEPT ![<<q, "refresh">>] = "spawned"]
    /\ UNCHANGED <<now, tables, request, cache, askedAt, fetched, log>>

MissCache(q) ==
    /\ pc[q] = "cache"
    /\ \A e \in CachedFor(QueryInfo(q)) : ~IsFresh(e) /\ ~IsStale(e)
    /\ Goto(q, "resolving")
    /\ fetch' = [fetch EXCEPT ![<<q, "serve">>] = "spawned"]
    /\ UNCHANGED <<now, tables, request, response, cache, askedAt, fetched, stats,
                   log>>

-----------------------------------------------------------------------------
(* resolve_and_cache, called by the query's task or by a refresh.          *)

AskUpstream(t) ==
    /\ fetch[t] = "spawned"
    /\ fetch' = [fetch EXCEPT ![t] = "asking"]
    /\ askedAt' = [askedAt EXCEPT ![t] = now]
    /\ UNCHANGED <<now, tables, request, pc, response, cache, fetched, stats, log>>

\* The upstream answered: the entry and its two deadlines are computed now,
\* and inserted in a later step.
FetchReply(t) ==
    /\ fetch[t] = "asking"
    /\ \E reply \in Replies :
          fetched' = [fetched EXCEPT
                         ![t] = MakeEntry(QueryInfo(t[1]), reply, askedAt[t])]
    /\ fetch' = [fetch EXCEPT ![t] = "inserting"]
    /\ UNCHANGED <<now, tables, request, pc, response, cache, askedAt, stats, log>>

\* The call ends: its local variables are gone.
Settle(t) ==
    /\ fetch' = [fetch EXCEPT ![t] = "ended"]
    /\ askedAt' = [askedAt EXCEPT ![t] = 0]
    /\ fetched' = [fetched EXCEPT ![t] = NoEntry]

StoreForeground(q) ==
    LET t == <<q, "serve">>
    IN  /\ fetch[t] = "inserting"
        /\ cache' = Inserted(fetched[t])
        /\ Decide(q, EntryAnswer("upstream", fetched[t]))
        /\ Settle(t)
        /\ UNCHANGED <<now, tables, request, stats, log>>

StoreBackground(q) ==
    LET t == <<q, "refresh">>
    IN  /\ fetch[t] = "inserting"
        /\ cache' = Inserted(fetched[t])
        /\ Settle(t)
        /\ UNCHANGED <<now, tables, request, pc, response, stats, log>>

\* Mutant of FailBackground: a failed refresh drops the entry.
FailBackgroundDrops(q) ==
    LET t == <<q, "refresh">>
    IN  /\ fetch[t] = "asking"
        /\ Settle(t)
        /\ cache' = cache \ CachedFor(QueryInfo(q))
        /\ UNCHANGED <<now, tables, request, pc, response, stats, log>>

\* Mutant of FailForeground: the error path returns without an answer.
FailForegroundSilent(q) ==
    LET t == <<q, "serve">>
    IN  /\ fetch[t] = "asking"
        /\ Settle(t)
        /\ UNCHANGED <<now, tables, request, pc, response, cache, stats, log>>

\* No upstream answered.  The query gets ServFail; a refresh only logs it,
\* and the old entry stays.
FailForeground(q) ==
    LET t == <<q, "serve">>
    IN  /\ fetch[t] = "asking"
        /\ Decide(q, OwnAnswer(q, "error", "ServFail", {}, NoSource))
        /\ Settle(t)
        /\ UNCHANGED <<now, tables, request, cache, stats, log>>

FailBackground(q) ==
    LET t == <<q, "refresh">>
    IN  /\ fetch[t] = "asking"
        /\ Settle(t)
        /\ UNCHANGED <<now, tables, request, pc, response, cache, stats, log>>

-----------------------------------------------------------------------------
(* The end of serve_records, serve_blocked and resolve_and_serve.          *)

\* Mutant of Send: the NXDomain branch of serve_blocked forgets to log.
SendForgetsNxDomain(q) ==
    /\ pc[q] = "sending"
    /\ Goto(q, IF LoggingEnable /\ response[q].rcode # "NXDomain"
               THEN "logging" ELSE "done")
    /\ UNCHANGED <<now, tables, request, response, cache, fetches, stats, log>>

Send(q) ==
    /\ pc[q] = "sending"
    /\ Goto(q, IF LoggingEnable THEN "logging" ELSE "done")
    /\ UNCHANGED <<now, tables, request, response, cache, fetches, stats, log>>

\* `expect("Failed to send response")`: the task dies.
SendPanics(q) ==
    /\ pc[q] = "sending"
    /\ Goto(q, "panicked")
    /\ UNCHANGED <<now, tables, request, response, cache, fetches, stats, log>>

\* Mutant of LogAction: a stale answer is logged as forwarded.
LogActionStaleForwarded(from) ==
    CASE from \in {"blocked", "ipv6"}             -> "Blocked"
      [] from = "local"                           -> "Local"
      [] from = "cached"                          -> "Cached"
      [] from \in {"stale", "upstream", "error"}  -> "Forwarded"

LogAction(from) ==
    CASE from \in {"blocked", "ipv6"}     -> "Blocked"
      [] from = "local"                   -> "Local"
      [] from \in {"cached", "stale"}     -> "Cached"
      [] from \in {"upstream", "error"}   -> "Forwarded"

LogEntry(q) == [query |-> q, action |-> LogAction(response[q].from),
                source |-> response[q].source]

Log(q) ==
    /\ pc[q] = "logging"
    /\ log' = log \cup {LogEntry(q)}
    /\ Goto(q, "done")
    /\ UNCHANGED <<now, tables, request, response, cache, fetches, stats>>

-----------------------------------------------------------------------------
(* What happens around the queries.                                        *)

\* moka drops any entry it likes once the cache is over its capacity.
Evict ==
    /\ Cardinality(cache) > Capacity
    /\ \E e \in cache : cache' = cache \ {e}
    /\ UNCHANGED <<now, tables, request, pc, response, fetches, stats, log>>

Pause ==
    /\ \E d \in PauseTimes : pausedUntil' = now + d
    /\ UNCHANGED <<now, blocklist, request, pc, response, cache, fetches, stats, log>>

Resume ==
    /\ pausedUntil' = 0
    /\ UNCHANGED <<now, blocklist, request, pc, response, cache, fetches, stats, log>>

UpdateBlocklist ==
    /\ blocklist' \in Matchers
    /\ UNCHANGED <<now, pausedUntil, request, pc, response, cache, fetches, stats, log>>

\* The resolver gives up on a call after FetchTime: upstream_timeout_ms is
\* the timeout of one attempt, and hickory makes a few.
Tick ==
    /\ now < MaxTime
    /\ \A t \in Tasks : fetch[t] = "asking" => now < askedAt[t] + FetchTime
    /\ now' = now + 1
    /\ UNCHANGED <<tables, request, pc, response, cache, fetches, stats, log>>

-----------------------------------------------------------------------------
Handle(q) ==
    \/ Receive(q) \/ QuestionMissing(q) \/ RefuseIpv6(q) \/ ServeLocal(q)
    \/ CheckPause(q) \/ ServeBlocked(q) \/ PassBlocklist(q)
    \/ ServeFresh(q) \/ ServeStale(q) \/ MissCache(q)
    \/ Send(q) \/ SendPanics(q) \/ Log(q)

Resolve(q) ==
    \/ AskUpstream(<<q, "serve">>) \/ FetchReply(<<q, "serve">>)
    \/ StoreForeground(q) \/ FailForeground(q)

Refresh(q) ==
    \/ AskUpstream(<<q, "refresh">>) \/ FetchReply(<<q, "refresh">>)
    \/ StoreBackground(q) \/ FailBackground(q)

Next ==
    \/ \E q \in Queries : Handle(q) \/ Resolve(q) \/ Refresh(q)
    \/ Evict \/ Pause \/ Resume \/ UpdateBlocklist \/ Tick

Spec == Init /\ [][Next]_vars

\* The runtime polls every task that is ready, and a resolver call returns:
\* with an answer or, at its timeout, with an error.
Fairness ==
    \A q \in Queries : WF_vars(Handle(q)) /\ WF_vars(Resolve(q)) /\ WF_vars(Refresh(q))
-----------------------------------------------------------------------------
(* Properties.                                                             *)

\* Every variable keeps its type.
TypeOK ==
    /\ now \in Nat /\ pausedUntil \in Nat
    /\ blocklist \in Matchers
    /\ request \in [Queries -> Question]
    /\ pc \in [Queries -> PcStates]
    /\ response \in [Queries -> Response]
    /\ cache \subseteq Entry
    /\ fetch \in [Tasks -> {"idle", "spawned", "asking", "inserting", "ended"}]
    /\ askedAt \in [Tasks -> Nat]
    /\ fetched \in [Tasks -> Entry \cup {NoEntry}]
    /\ \A t \in Tasks : fetch[t] = "inserting" => fetched[t] \in Entry
    /\ stats \in [queries : Nat, cacheHits : Nat, blocked : [Sources -> Nat]]
    /\ log \subseteq [query : Queries, source : Sources \cup {NoSource},
                      action : {"Blocked", "Local", "Cached", "Forwarded"}]

\* With disable_ipv6 no client ever gets an AAAA record: not from a local
\* record, not as the null answer of a blocked name, not from an upstream
\* answer to another query type, and not from an entry cached earlier.
NoIpv6Leak ==
    DisableIpv6 => \A q \in Queries : \A r \in response[q].recs : r.rtype # "AAAA"

\* The records sent to a client were obtained for the name (in lower case)
\* and the type it asked, by whichever task fetched them.
AnswersOwnQuestion ==
    \A q \in Queries : response[q].question = QueryInfo(q)

\* The cache is a map: a refresh and a miss that finish in any order leave
\* one entry for their key.
OneEntryPerKey ==
    \A e, f \in cache : e.key = f.key => e = f

\* Longest time the cache may keep recs when no grace is given.
Lifetime(recs) ==
    IF recs = {} THEN {MinTtl} ELSE {Larger(r.ttl, MinTtl) : r \in recs}

\* An answer served from the cache was asked of the upstream less than one
\* resolver call plus the lifetime of its shortest-lived record ago (and
\* the grace period, when served stale), whatever fetches overlapped.
AnswerAge ==
    \A q \in Queries : \A life \in Lifetime(response[q].recs) :
        LET age == response[q].at - response[q].askedAt
        IN  /\ response[q].from = "cached" => age < FetchTime + life
            /\ response[q].from = "stale" => age < FetchTime + life + GracePeriod

Decided(origins) == {q \in Queries : response[q].from \in origins}

\* With logging on, the log holds exactly one line for each query answered
\* to the end, with a blocklist source exactly when a list blocked it.  (The
\* log is a set: a second line that repeats the first would not show in it,
\* but no task writes twice, since Log takes it to its end.)
AuditTrail ==
    /\ {l.query : l \in log} =
          IF LoggingEnable THEN {q \in Queries : pc[q] = "done"} ELSE {}
    /\ \A l, m \in log : l.query = m.query => l = m
    /\ \A l \in log :
          (l.source # NoSource) <=> (l.query \in Decided({"blocked"}))

\* The two ledgers.  The SQLite statistics count log lines, the in-memory
\* ones the counters: once no query is under way, they differ exactly by the
\* tasks that died between the two and by the AAAA queries that disable_ipv6
\* refused, which are lines of action Blocked but no blocked queries.
LedgersAgree ==
    LET lines(action) == {l \in log : l.action = action}
        died(origins) == {q \in Decided(origins) : pc[q] = "panicked"}
    IN  LoggingEnable /\ (\A q \in Queries : pc[q] \in {"arriving", "done", "panicked"}) =>
            /\ stats.cacheHits =
                  Cardinality(lines("Cached")) + Cardinality(died({"cached", "stale"}))
            /\ \A s \in Sources : stats.blocked[s] =
                  Cardinality({l \in lines("Blocked") : l.source = s})
                  + Cardinality({q \in died({"blocked"}) : response[q].source = s})
            /\ {l.query : l \in {m \in lines("Blocked") : m.source = NoSource}}
                  = Decided({"ipv6"}) \ died({"ipv6"})

\* Serve-stale survives an upstream outage: an entry leaves the cache only
\* for a newer one of its key or because the cache is over its capacity.
EntriesKept ==
    [][\A e \in cache \ cache' :
          \/ \E f \in cache' : f.key = e.key
          \/ Cardinality(cache) > Capacity]_vars

\* Every query whose question was read is answered and logged, or its task
\* dies while sending; no wait for an upstream lasts for ever.
EveryQueryEnds ==
    \A q \in Queries : pc[q] = "received" ~> pc[q] \in {"done", "panicked"}

\* Every stale answer is followed by a refresh that runs to its end, even
\* when the query's own task dies first.
StaleRefreshed ==
    \A q \in Queries :
        response[q].from = "stale" ~> fetch[<<q, "refresh">>] = "ended"
-----------------------------------------------------------------------------
(* The inductive invariant behind the safety properties.                   *)

\* An entry, cached or about to be, is filed under the question it answers,
\* went through the IPv6 filter, and its deadlines were computed from its
\* TTLs no later than FetchTime after the upstream was asked.
SoundEntry(e) ==
    /\ e.key = CacheKey(e.question)
    /\ DisableIpv6 => \A r \in e.recs : r.rtype # "AAAA"
    /\ \A life \in Lifetime(e.recs) :
          e.validUntil <= e.askedAt + FetchTime + life
    /\ e.staleUntil = e.validUntil + GracePeriod

SoundEntries ==
    /\ \A e \in cache : SoundEntry(e)
    /\ \A t \in Tasks : fetch[t] = "inserting" =>
          SoundEntry(fetched[t]) /\ fetched[t].question = QueryInfo(t[1])

\* The resolver returns within FetchTime.
FetchesOnTime ==
    \A t \in Tasks : fetch[t] = "asking" => now <= askedAt[t] + FetchTime

\* A query at the blocklist is not one that disable_ipv6 refuses.
PastIpv6Check == \A q \in Queries : pc[q] = "blocklist" => ~RefusedAsIpv6(q)

SendsDecided ==
    \A q \in Queries : pc[q] \in {"sending", "logging"} => response[q].from # "none"

\* A query is decided once, when it leaves the cache or resolve_and_cache for
\* a send, and names the source of its verdict only when it was blocked.  (A
\* task that died was decided or not.)
DecidedOnce ==
    \A q \in Queries :
        /\ pc[q] \in {"arriving", "received", "blocklist", "cache", "resolving"} =>
              response[q].from = "none"
        /\ pc[q] \in {"sending", "logging", "done"} => response[q].from # "none"
        /\ fetch[<<q, "serve">>] \in {"spawned", "asking", "inserting"} <=>
              pc[q] = "resolving"
        /\ response[q].source # NoSource <=> response[q].from = "blocked"

\* The log is what the finished queries had to say of their last decision.
LoggedWhenDone ==
    /\ log = IF LoggingEnable THEN {LogEntry(q) : q \in {p \in Queries : pc[p] = "done"}}
                              ELSE {}
    /\ \A q \in Queries : pc[q] = "logging" => LoggingEnable

\* Every hit and every block is counted in the step that decides it.
CountedWhenDecided ==
    /\ stats.cacheHits = Cardinality(Decided({"cached", "stale"}))
    /\ \A s \in Sources : stats.blocked[s] =
          Cardinality({q \in Decided({"blocked"}) : response[q].source = s})

\* Everything the safety properties rest on, kept by every step.
HandlerInv ==
    /\ TypeOK
    /\ SoundEntries
    /\ FetchesOnTime
    /\ PastIpv6Check
    /\ SendsDecided
    /\ DecidedOnce
    /\ LoggedWhenDone
    /\ CountedWhenDecided
    /\ OneEntryPerKey
    /\ AnswersOwnQuestion
    /\ NoIpv6Leak
    /\ AnswerAge
=============================================================================
