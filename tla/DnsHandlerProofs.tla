--------------------------- MODULE DnsHandlerProofs ---------------------------
(***************************************************************************)
(* Safety of the query handler, for every set of queries and names, every  *)
(* configuration and every bound.                                          *)
(***************************************************************************)
EXTENDS PolicyHistory, FiniteLemmas

\* How long resolve_and_cache keeps an answer: no longer than any of its
\* records may be kept.
LEMMA EffectiveTtlBound ==
    ASSUME NEW recs \in SUBSET Record
    PROVE  /\ EffectiveTtl(recs) \in Nat
           /\ \A life \in Lifetime(recs) : life \in Nat /\ EffectiveTtl(recs) <= life
<1>1. CASE recs = {}
  BY <1>1, HandlerAssumption DEF EffectiveTtl, Lifetime
<1>2. CASE recs # {}
  <2> DEFINE ttls == {r.ttl : r \in recs}
  <2>1. ttls \in SUBSET Nat /\ ttls # {}
    BY <1>2 DEF Record
  <2>2. Min(ttls) \in Nat /\ \A r \in recs : Min(ttls) <= r.ttl /\ r.ttl \in Nat
    BY <2>1, LeastOfNat DEF Record
  <2>3. EffectiveTtl(recs) = Larger(Min(ttls), MinTtl)
    BY <1>2 DEF EffectiveTtl
  <2> HIDE DEF ttls
  <2>4. Lifetime(recs) = {Larger(r.ttl, MinTtl) : r \in recs}
    BY <1>2 DEF Lifetime
  <2>5. \A r \in recs : /\ Larger(r.ttl, MinTtl) \in Nat
                         /\ Larger(Min(ttls), MinTtl) <= Larger(r.ttl, MinTtl)
    BY <2>2, HandlerAssumption DEF Larger
  <2>6. Larger(Min(ttls), MinTtl) \in Nat
    BY <2>2, HandlerAssumption DEF Larger
  <2> QED
    BY <2>3, <2>4, <2>5, <2>6
<1> QED
  BY <1>1, <1>2

LEMMA RetainedRecords ==
    ASSUME NEW reply \in Replies
    PROVE  /\ Retained(reply) \in SUBSET Record
           /\ DisableIpv6 => \A r \in Retained(reply) : r.rtype # "AAAA"
  BY HandlerAssumption DEF Retained

LEMMA QueryInfoType ==
    ASSUME TypeOK, NEW q \in Queries
    PROVE  QueryInfo(q) \in Question
  BY HandlerAssumption DEF TypeOK, QueryInfo, Question

\* What FetchReply files is a well-formed and sound entry.
LEMMA MadeEntry ==
    ASSUME NEW question \in Question, NEW reply \in Replies, NEW asked \in Nat,
           now \in Nat
    PROVE  LET e == MakeEntry(question, reply, asked)
           IN  /\ e \in Entry
               /\ e.question = question
               /\ now <= asked + FetchTime => SoundEntry(e)
<1> DEFINE recs == Retained(reply)
           e == MakeEntry(question, reply, asked)
<1>1. recs \in SUBSET Record /\ (DisableIpv6 => \A r \in recs : r.rtype # "AAAA")
  BY RetainedRecords
<1>2. /\ EffectiveTtl(recs) \in Nat
      /\ \A life \in Lifetime(recs) : life \in Nat /\ EffectiveTtl(recs) <= life
  BY <1>1, EffectiveTtlBound
<1>3. CacheKey(question) \in Names \X QTypes
  BY DEF CacheKey, Question
<1>4. e = [key |-> CacheKey(question), question |-> question, recs |-> recs,
           askedAt |-> asked, validUntil |-> now + EffectiveTtl(recs),
           staleUntil |-> now + EffectiveTtl(recs) + GracePeriod]
  BY DEF MakeEntry
<1> HIDE DEF recs, e
<1>5. e \in Entry
  BY <1>1, <1>2, <1>3, <1>4, HandlerAssumption DEF Entry
<1>6. now <= asked + FetchTime => SoundEntry(e)
  BY <1>1, <1>2, <1>4, HandlerAssumption DEF SoundEntry
<1> QED
  BY <1>4, <1>5, <1>6 DEF e
-----------------------------------------------------------------------------
(* Type correctness.                                                       *)

LEMMA TypeInit == Init => TypeOK /\ SendsDecided
<1> SUFFICES ASSUME Init PROVE TypeOK /\ SendsDecided
  OBVIOUS
<1> USE HandlerAssumption
<1>1. \A q \in Queries : QueryInfo(q) \in Question
  BY DEF Init, QueryInfo, Question
<1>2. response \in [Queries -> Response]
  BY <1>1 DEF Init, OwnAnswer, Answer, Response, Origins
<1>3. stats \in [queries : Nat, cacheHits : Nat, blocked : [Sources -> Nat]]
  BY DEF Init
<1> QED
  BY <1>2, <1>3 DEF Init, TypeOK, SendsDecided, PcStates

\* The answers a query can be given are responses, and are not "none".
LEMMA DecideType ==
    ASSUME TypeOK, SendsDecided, NEW q \in Queries, NEW resp \in Response,
           resp.from # "none", Decide(q, resp)
    PROVE  /\ response' \in [Queries -> Response]
           /\ pc' \in [Queries -> PcStates]
           /\ \A p \in Queries : pc'[p] \in {"sending", "logging"} =>
                                   response'[p].from # "none"
  BY DEF TypeOK, SendsDecided, Decide, Goto, PcStates

LEMMA OwnAnswerType ==
    ASSUME TypeOK, NEW q \in Queries, NEW from \in Origins,
           NEW rcode \in {"NoError", "NXDomain", "ServFail"},
           NEW recs \in SUBSET Record, NEW source \in Sources \cup {NoSource}
    PROVE  /\ OwnAnswer(q, from, rcode, recs, source) \in Response
           /\ OwnAnswer(q, from, rcode, recs, source).from = from
  BY QueryInfoType DEF TypeOK, OwnAnswer, Answer, Response

LEMMA EntryAnswerType ==
    ASSUME TypeOK, NEW e \in Entry, NEW from \in Origins
    PROVE  EntryAnswer(from, e) \in Response /\ EntryAnswer(from, e).from = from
  BY DEF TypeOK, EntryAnswer, Answer, Response, Entry

LEMMA SettleType ==
    ASSUME TypeOK, NEW t \in Tasks, Settle(t)
    PROVE  /\ fetch' \in [Tasks -> {"idle", "spawned", "asking", "inserting", "ended"}]
           /\ askedAt' \in [Tasks -> Nat]
           /\ fetched' \in [Tasks -> Entry \cup {NoEntry}]
           /\ \A u \in Tasks : fetch'[u] = "inserting" => fetched'[u] \in Entry
  BY DEF TypeOK, Settle

LEMMA TypeStep == TypeOK /\ SendsDecided /\ [Next]_vars => TypeOK' /\ SendsDecided'
<1> SUFFICES ASSUME TypeOK, SendsDecided, [Next]_vars
             PROVE  TypeOK' /\ SendsDecided'
  OBVIOUS
<1> USE HandlerAssumption
<1>1. ASSUME NEW q \in Queries, Receive(q) \/ QuestionMissing(q)
      PROVE  TypeOK' /\ SendsDecided'
  BY <1>1 DEF Receive, QuestionMissing, IncQueries, TypeOK, SendsDecided, tables, fetches,
              Goto, PcStates
<1>2. ASSUME NEW q \in Queries, RefuseIpv6(q)
      PROVE  TypeOK' /\ SendsDecided'
  <2>1. {} \in SUBSET Record /\ NoSource \in Sources \cup {NoSource}
        /\ "ipv6" \in Origins
    BY DEF Origins
  <2> QED
    BY <1>2, <2>1, OwnAnswerType, DecideType
    DEF RefuseIpv6, TypeOK, SendsDecided, tables, fetches
<1>3. ASSUME NEW q \in Queries, ServeLocal(q)
      PROVE  TypeOK' /\ SendsDecided'
  <2> DEFINE rec == [rtype |-> LocalRecords[QueryInfo(q).name], ttl |-> MinTtl]
  <2>1. rec \in Record
    BY <1>3 DEF ServeLocal, HasLocalRecord, Record
  <2>2. {rec} \in SUBSET Record /\ NoSource \in Sources \cup {NoSource}
        /\ "local" \in Origins
    BY <2>1 DEF Origins
  <2> QED
    BY <1>3, <2>2, OwnAnswerType, DecideType
    DEF ServeLocal, TypeOK, SendsDecided, tables, fetches
<1>4. ASSUME NEW q \in Queries, CheckPause(q)
      PROVE  TypeOK' /\ SendsDecided'
  BY <1>4 DEF CheckPause, TypeOK, SendsDecided, tables, fetches, Goto, PcStates
<1>5. ASSUME NEW q \in Queries, ServeBlocked(q)
      PROVE  TypeOK' /\ SendsDecided'
  <2> DEFINE recs == NullRecords(QueryInfo(q).qtype)
             rcode == IF recs = {} THEN "NXDomain" ELSE "NoError"
             source == blocklist[QueryInfo(q).name]
  <2>1. recs \in SUBSET Record
    BY DEF NullRecords, Record
  <2>2. source \in Sources
    BY <1>5, QueryInfoType DEF ServeBlocked, IsListed, TypeOK, Question
  <2>3. rcode \in {"NoError", "NXDomain", "ServFail"} /\ "blocked" \in Origins
    BY DEF Origins
  <2>4. stats' \in [queries : Nat, cacheHits : Nat, blocked : [Sources -> Nat]]
    BY <1>5, <2>2 DEF ServeBlocked, IncBlockedBySource, TypeOK
  <2>5. Decide(q, OwnAnswer(q, "blocked", rcode, recs, source))
    BY <1>5 DEF ServeBlocked
  <2> HIDE DEF recs, rcode, source
  <2>6. /\ OwnAnswer(q, "blocked", rcode, recs, source) \in Response
        /\ OwnAnswer(q, "blocked", rcode, recs, source).from = "blocked"
    BY <2>1, <2>2, <2>3, OwnAnswerType
  <2> QED
    BY <1>5, <2>4, <2>5, <2>6, DecideType
    DEF ServeBlocked, TypeOK, SendsDecided, tables, fetches
<1>6. ASSUME NEW q \in Queries, PassBlocklist(q)
      PROVE  TypeOK' /\ SendsDecided'
  BY <1>6 DEF PassBlocklist, TypeOK, SendsDecided, tables, fetches, Goto, PcStates
<1>7. ASSUME NEW q \in Queries, ServeFresh(q)
      PROVE  TypeOK' /\ SendsDecided'
  <2>1. PICK e \in cache : Decide(q, EntryAnswer("cached", e))
    BY <1>7 DEF ServeFresh, CachedFor
  <2>2. e \in Entry /\ "cached" \in Origins
    BY DEF TypeOK, Origins
  <2>3. stats' \in [queries : Nat, cacheHits : Nat, blocked : [Sources -> Nat]]
    BY <1>7 DEF ServeFresh, IncCacheHit, TypeOK
  <2> QED
    BY <1>7, <2>1, <2>2, <2>3, EntryAnswerType, DecideType
    DEF ServeFresh, TypeOK, SendsDecided, tables, fetches
<1>8. ASSUME NEW q \in Queries, ServeStale(q)
      PROVE  TypeOK' /\ SendsDecided'
  <2>1. PICK e \in cache : Decide(q, EntryAnswer("stale", e))
    BY <1>8 DEF ServeStale, CachedFor
  <2>2. e \in Entry /\ "stale" \in Origins
    BY DEF TypeOK, Origins
  <2>3. stats' \in [queries : Nat, cacheHits : Nat, blocked : [Sources -> Nat]]
    BY <1>8 DEF ServeStale, IncCacheHit, TypeOK
  <2>4. /\ fetch' \in [Tasks -> {"idle", "spawned", "asking", "inserting", "ended"}]
        /\ \A t \in Tasks : fetch'[t] = "inserting" => fetched'[t] \in Entry
    BY <1>8 DEF ServeStale, TypeOK, Tasks
  <2> QED
    BY <1>8, <2>1, <2>2, <2>3, <2>4, EntryAnswerType, DecideType
    DEF ServeStale, TypeOK, SendsDecided, tables, fetches
<1>9. ASSUME NEW q \in Queries, MissCache(q)
      PROVE  TypeOK' /\ SendsDecided'
  BY <1>9 DEF MissCache, TypeOK, SendsDecided, tables, fetches, Goto, PcStates, Tasks
<1>10. ASSUME NEW t \in Tasks, AskUpstream(t)
       PROVE  TypeOK' /\ SendsDecided'
  BY <1>10 DEF AskUpstream, TypeOK, SendsDecided, tables, fetches
<1>11. ASSUME NEW t \in Tasks, FetchReply(t)
       PROVE  TypeOK' /\ SendsDecided'
  <2>1. PICK reply \in Replies :
           fetched' = [fetched EXCEPT ![t] =
                          MakeEntry(QueryInfo(t[1]), reply, askedAt[t])]
    BY <1>11 DEF FetchReply
  <2>2. QueryInfo(t[1]) \in Question /\ askedAt[t] \in Nat /\ now \in Nat
    BY QueryInfoType DEF TypeOK, Tasks
  <2>3. MakeEntry(QueryInfo(t[1]), reply, askedAt[t]) \in Entry
    BY <2>2, MadeEntry
  <2> QED
    BY <1>11, <2>1, <2>3 DEF FetchReply, TypeOK, SendsDecided, tables
<1>12. ASSUME NEW q \in Queries, StoreForeground(q)
       PROVE  TypeOK' /\ SendsDecided'
  <2> DEFINE t == <<q, "serve">>
  <2>1. t \in Tasks /\ fetched[t] \in Entry /\ "upstream" \in Origins
    BY <1>12 DEF StoreForeground, TypeOK, Tasks, Origins
  <2>2. cache' \subseteq Entry
    BY <1>12, <2>1 DEF StoreForeground, Inserted, TypeOK
  <2>3. Decide(q, EntryAnswer("upstream", fetched[t])) /\ Settle(t)
    BY <1>12 DEF StoreForeground
  <2> HIDE DEF t
  <2> QED
    BY <1>12, <2>1, <2>2, <2>3, EntryAnswerType, DecideType, SettleType
    DEF StoreForeground, TypeOK, SendsDecided, tables
<1>13. ASSUME NEW q \in Queries, StoreBackground(q)
       PROVE  TypeOK' /\ SendsDecided'
  <2> DEFINE t == <<q, "refresh">>
  <2>1. t \in Tasks /\ fetched[t] \in Entry
    BY <1>13 DEF StoreBackground, TypeOK, Tasks
  <2>2. cache' \subseteq Entry
    BY <1>13, <2>1 DEF StoreBackground, Inserted, TypeOK
  <2>3. Settle(t)
    BY <1>13 DEF StoreBackground
  <2> HIDE DEF t
  <2> QED
    BY <1>13, <2>1, <2>2, <2>3, SettleType
    DEF StoreBackground, TypeOK, SendsDecided, tables
<1>14. ASSUME NEW q \in Queries, FailForeground(q)
       PROVE  TypeOK' /\ SendsDecided'
  <2> DEFINE t == <<q, "serve">>
  <2>1. t \in Tasks /\ {} \in SUBSET Record /\ "error" \in Origins
    BY DEF Tasks, Origins
  <2>2. Decide(q, OwnAnswer(q, "error", "ServFail", {}, NoSource)) /\ Settle(t)
    BY <1>14 DEF FailForeground
  <2>3. /\ OwnAnswer(q, "error", "ServFail", {}, NoSource) \in Response
        /\ OwnAnswer(q, "error", "ServFail", {}, NoSource).from = "error"
    BY <2>1, OwnAnswerType
  <2> HIDE DEF t
  <2> QED
    BY <1>14, <2>1, <2>2, <2>3, DecideType, SettleType
    DEF FailForeground, TypeOK, SendsDecided, tables
<1>15. ASSUME NEW q \in Queries, FailBackground(q)
       PROVE  TypeOK' /\ SendsDecided'
  <2> DEFINE t == <<q, "refresh">>
  <2>1. t \in Tasks /\ Settle(t)
    BY <1>15 DEF FailBackground, Tasks
  <2> HIDE DEF t
  <2> QED
    BY <1>15, <2>1, SettleType DEF FailBackground, TypeOK, SendsDecided, tables
<1>16. ASSUME NEW q \in Queries, Send(q) \/ SendPanics(q)
       PROVE  TypeOK' /\ SendsDecided'
  BY <1>16 DEF Send, SendPanics, TypeOK, SendsDecided, tables, fetches, Goto, PcStates
<1>17. ASSUME NEW q \in Queries, Log(q)
       PROVE  TypeOK' /\ SendsDecided'
  <2>1. response[q] \in Response /\ response[q].from # "none"
    BY <1>17 DEF Log, TypeOK, SendsDecided
  <2>2. /\ response[q].source \in Sources \cup {NoSource}
        /\ LogAction(response[q].from) \in {"Blocked", "Local", "Cached", "Forwarded"}
    BY <2>1 DEF LogAction, Response, Origins
  <2> QED
    BY <1>17, <2>2 DEF Log, LogEntry, TypeOK, SendsDecided, tables, fetches, Goto, PcStates
<1>18. ASSUME Evict \/ Pause \/ Resume \/ UpdateBlocklist \/ Tick
       PROVE  TypeOK' /\ SendsDecided'
  BY <1>18 DEF Evict, Pause, Resume, UpdateBlocklist, Tick, TypeOK, SendsDecided,
               tables, fetches
<1>19. CASE UNCHANGED vars
  BY <1>19 DEF vars, tables, fetches, TypeOK, SendsDecided
<1>20. \A q \in Queries : <<q, "serve">> \in Tasks /\ <<q, "refresh">> \in Tasks
  BY DEF Tasks
<1> QED
  BY <1>1, <1>2, <1>3, <1>4, <1>5, <1>6, <1>7, <1>8, <1>9, <1>10, <1>11, <1>12,
     <1>13, <1>14, <1>15, <1>16, <1>17, <1>18, <1>19, <1>20
  DEF Next, Handle, Resolve, Refresh

\* Every reachable state of the handler is well typed, whatever the clients
\* ask, the upstreams answer and the API and the updater do meanwhile.
THEOREM TypeCorrect == Spec => []TypeOK
<1>1. Init => TypeOK /\ SendsDecided
  BY TypeInit
<1>2. (TypeOK /\ SendsDecided) /\ [Next]_vars => (TypeOK /\ SendsDecided)'
  BY TypeStep
<1> QED
  BY <1>1, <1>2, PTL DEF Spec

-----------------------------------------------------------------------------
(* The parts of HandlerInv, each kept by every step.                       *)

LEMMA RequestsKept == [Next]_vars => \A q \in Queries : QueryInfo(q)' = QueryInfo(q)
<1> SUFFICES ASSUME [Next]_vars PROVE request' = request
  BY DEF QueryInfo
<1> QED
  BY DEF Next, Handle, Resolve, Refresh, Receive, QuestionMissing, RefuseIpv6,
         ServeLocal, CheckPause, ServeBlocked, PassBlocklist, ServeFresh, ServeStale,
         MissCache, AskUpstream, FetchReply, StoreForeground, StoreBackground,
         FailForeground, FailBackground, Send, SendPanics, Log, Evict, Pause, Resume,
         UpdateBlocklist, Tick, vars

\* Steps that neither insert into the cache nor move a resolver call.
LEMMA EntriesUndisturbed ==
    ASSUME SoundEntries, FetchesOnTime, OneEntryPerKey, [Next]_vars,
           cache' \subseteq cache, fetched' = fetched, askedAt' = askedAt, now' = now,
           \A t \in Tasks : fetch'[t] \in {"asking", "inserting"} => fetch'[t] = fetch[t]
    PROVE  SoundEntries' /\ FetchesOnTime' /\ OneEntryPerKey'
<1>1. FetchesOnTime' /\ OneEntryPerKey'
  BY DEF FetchesOnTime, OneEntryPerKey
<1>2. \A t \in Tasks : QueryInfo(t[1])' = QueryInfo(t[1])
  BY RequestsKept DEF Tasks
<1> QED
  BY <1>1, <1>2 DEF SoundEntries

LEMMA EntriesStored ==
    ASSUME TypeOK, SoundEntries, FetchesOnTime, OneEntryPerKey, [Next]_vars,
           NEW t \in Tasks, fetch[t] = "inserting", cache' = Inserted(fetched[t]),
           Settle(t), now' = now
    PROVE  SoundEntries' /\ FetchesOnTime' /\ OneEntryPerKey'
<1>1. OneEntryPerKey'
  BY DEF OneEntryPerKey, Inserted
<1>2. \A e \in cache' : SoundEntry(e)
  BY DEF SoundEntries, Inserted
<1>3. \A u \in Tasks : /\ QueryInfo(u[1])' = QueryInfo(u[1])
                       /\ fetch'[u] \in {"asking", "inserting"} =>
                             /\ fetch'[u] = fetch[u]
                             /\ fetched'[u] = fetched[u]
                             /\ askedAt'[u] = askedAt[u]
  BY RequestsKept DEF Tasks, Settle, TypeOK
<1>4. FetchesOnTime'
  BY <1>3 DEF FetchesOnTime
<1>5. SoundEntries'
  BY <1>2, <1>3 DEF SoundEntries
<1> QED
  BY <1>1, <1>4, <1>5

LEMMA EntriesStep ==
    ASSUME TypeOK, SoundEntries, FetchesOnTime, OneEntryPerKey, [Next]_vars
    PROVE  SoundEntries' /\ FetchesOnTime' /\ OneEntryPerKey'
<1> USE HandlerAssumption
<1>1. ASSUME NEW q \in Queries, Handle(q)
      PROVE  SoundEntries' /\ FetchesOnTime' /\ OneEntryPerKey'
  <2>1. cache' = cache /\ fetched' = fetched /\ askedAt' = askedAt /\ now' = now
    BY <1>1 DEF Handle, Receive, QuestionMissing, RefuseIpv6, ServeLocal, CheckPause,
                ServeBlocked, PassBlocklist, ServeFresh, ServeStale, MissCache, Send,
                SendPanics, Log, fetches
  <2>2. \A t \in Tasks : fetch'[t] \in {"asking", "inserting"} => fetch'[t] = fetch[t]
    BY <1>1 DEF Handle, Receive, QuestionMissing, RefuseIpv6, ServeLocal, CheckPause,
                ServeBlocked, PassBlocklist, ServeFresh, ServeStale, MissCache, Send,
                SendPanics, Log, fetches, TypeOK
  <2> QED
    BY <2>1, <2>2, EntriesUndisturbed
<1>2. ASSUME NEW t \in Tasks, AskUpstream(t)
      PROVE  SoundEntries' /\ FetchesOnTime' /\ OneEntryPerKey'
  <2>1. cache' = cache /\ fetched' = fetched /\ now' = now
    BY <1>2 DEF AskUpstream
  <2>2. OneEntryPerKey'
    BY <2>1 DEF OneEntryPerKey
  <2>3. FetchesOnTime'
    BY <1>2, <2>1 DEF FetchesOnTime, AskUpstream, TypeOK
  <2>4. \A u \in Tasks : /\ QueryInfo(u[1])' = QueryInfo(u[1])
                         /\ fetch'[u] = "inserting" => fetch[u] = "inserting"
    BY <1>2, RequestsKept DEF Tasks, AskUpstream, TypeOK
  <2> QED
    BY <2>1, <2>2, <2>3, <2>4 DEF SoundEntries
<1>3. ASSUME NEW t \in Tasks, FetchReply(t)
      PROVE  SoundEntries' /\ FetchesOnTime' /\ OneEntryPerKey'
  <2>1. cache' = cache /\ askedAt' = askedAt /\ now' = now
    BY <1>3 DEF FetchReply
  <2>2. OneEntryPerKey'
    BY <2>1 DEF OneEntryPerKey
  <2>3. FetchesOnTime'
    BY <1>3, <2>1 DEF FetchesOnTime, FetchReply, TypeOK
  <2>4. PICK reply \in Replies :
           fetched' = [fetched EXCEPT ![t] =
                          MakeEntry(QueryInfo(t[1]), reply, askedAt[t])]
    BY <1>3 DEF FetchReply
  <2>5. QueryInfo(t[1]) \in Question /\ askedAt[t] \in Nat /\ now \in Nat
    BY QueryInfoType DEF TypeOK, Tasks
  <2>6. now <= askedAt[t] + FetchTime
    BY <1>3 DEF FetchReply, FetchesOnTime
  <2>7. SoundEntry(fetched'[t]) /\ fetched'[t].question = QueryInfo(t[1])
    BY <2>4, <2>5, <2>6, MadeEntry DEF TypeOK
  <2>8. \A u \in Tasks : /\ QueryInfo(u[1])' = QueryInfo(u[1])
                         /\ u # t => fetched'[u] = fetched[u] /\ fetch'[u] = fetch[u]
    BY <1>3, <2>4, RequestsKept DEF Tasks, FetchReply, TypeOK
  <2> QED
    BY <2>1, <2>2, <2>3, <2>7, <2>8 DEF SoundEntries
<1>4. ASSUME NEW q \in Queries, StoreForeground(q) \/ StoreBackground(q)
      PROVE  SoundEntries' /\ FetchesOnTime' /\ OneEntryPerKey'
  <2>1. PICK t \in Tasks : /\ fetch[t] = "inserting" /\ cache' = Inserted(fetched[t])
                          /\ Settle(t) /\ now' = now
    BY <1>4 DEF StoreForeground, StoreBackground, Tasks
  <2> QED
    BY <2>1, EntriesStored
<1>5. ASSUME NEW q \in Queries, FailForeground(q) \/ FailBackground(q)
      PROVE  SoundEntries' /\ FetchesOnTime' /\ OneEntryPerKey'
  <2>1. PICK t \in Tasks : Settle(t) /\ cache' = cache /\ now' = now
    BY <1>5 DEF FailForeground, FailBackground, Tasks
  <2>2. \A u \in Tasks : /\ QueryInfo(u[1])' = QueryInfo(u[1])
                         /\ fetch'[u] \in {"asking", "inserting"} =>
                               /\ fetch'[u] = fetch[u]
                               /\ fetched'[u] = fetched[u]
                               /\ askedAt'[u] = askedAt[u]
    BY <2>1, RequestsKept DEF Tasks, Settle, TypeOK
  <2>3. FetchesOnTime' /\ OneEntryPerKey'
    BY <2>1, <2>2 DEF FetchesOnTime, OneEntryPerKey
  <2> QED
    BY <2>1, <2>2, <2>3 DEF SoundEntries
<1>6. CASE Evict \/ Pause \/ Resume \/ UpdateBlocklist
  BY <1>6, EntriesUndisturbed DEF Evict, Pause, Resume, UpdateBlocklist, fetches
<1>7. CASE Tick
  <2>1. cache' = cache /\ fetch' = fetch /\ fetched' = fetched /\ askedAt' = askedAt
    BY <1>7 DEF Tick, fetches
  <2>2. FetchesOnTime'
    BY <1>7, <2>1 DEF Tick, FetchesOnTime, TypeOK
  <2>3. \A t \in Tasks : QueryInfo(t[1])' = QueryInfo(t[1])
    BY RequestsKept DEF Tasks
  <2> QED
    BY <2>1, <2>2, <2>3 DEF SoundEntries, OneEntryPerKey
<1>8. CASE UNCHANGED vars
  BY <1>8, EntriesUndisturbed DEF vars, fetches
<1>9. \A q \in Queries : <<q, "serve">> \in Tasks /\ <<q, "refresh">> \in Tasks
  BY DEF Tasks
<1> QED
  BY <1>1, <1>2, <1>3, <1>4, <1>5, <1>6, <1>7, <1>8, <1>9 DEF Next, Resolve, Refresh

LEMMA PastIpv6Step ==
    ASSUME TypeOK, PastIpv6Check, [Next]_vars
    PROVE  PastIpv6Check'
<1>1. \A q \in Queries : RefusedAsIpv6(q)' <=> RefusedAsIpv6(q)
  BY RequestsKept DEF RefusedAsIpv6
<1>2. \A q \in Queries : pc'[q] = "blocklist" =>
          pc[q] = "blocklist" \/ ~RefusedAsIpv6(q)
  BY DEF TypeOK, Next, Handle, Resolve, Refresh, Receive, QuestionMissing, RefuseIpv6,
         ServeLocal, CheckPause, ServeBlocked, PassBlocklist, ServeFresh, ServeStale, MissCache,
         AskUpstream, FetchReply, StoreForeground, StoreBackground, FailForeground,
         FailBackground, Send, SendPanics, Log, Evict, Pause, Resume,
         UpdateBlocklist, Tick, vars, Decide, Goto
<1> QED
  BY <1>1, <1>2 DEF PastIpv6Check

\* What the three properties of answers ask of one answer.
SoundAnswer(q, resp) ==
    /\ resp.question = QueryInfo(q)
    /\ DisableIpv6 => \A r \in resp.recs : r.rtype # "AAAA"
    /\ \A life \in Lifetime(resp.recs) :
          LET age == resp.at - resp.askedAt
          IN  /\ resp.from = "cached" => age < FetchTime + life
              /\ resp.from = "stale" => age < FetchTime + life + GracePeriod

SoundAnswers == \A q \in Queries : SoundAnswer(q, response[q])

LEMMA SoundAnswersMeaning ==
    SoundAnswers <=> AnswersOwnQuestion /\ NoIpv6Leak /\ AnswerAge
  BY DEF SoundAnswers, SoundAnswer, AnswersOwnQuestion, NoIpv6Leak, AnswerAge

LEMMA OwnAnswerSound ==
    ASSUME NEW q \in Queries, NEW from, from \notin {"cached", "stale"}, NEW rcode,
           NEW recs, DisableIpv6 => \A r \in recs : r.rtype # "AAAA", NEW source
    PROVE  SoundAnswer(q, OwnAnswer(q, from, rcode, recs, source))
  BY DEF SoundAnswer, OwnAnswer, Answer

\* An entry found under the key of a question answers that question.
LEMMA FoundEntryAnswers ==
    ASSUME TypeOK, SoundEntries, NEW q \in Queries, NEW e \in CachedFor(QueryInfo(q))
    PROVE  e \in Entry /\ SoundEntry(e) /\ e.question = QueryInfo(q)
<1>1. e \in Entry /\ SoundEntry(e) /\ e.key = CacheKey(QueryInfo(q))
  BY DEF CachedFor, TypeOK, SoundEntries
<1>2. QueryInfo(q) \in Question /\ e.question \in Question
  BY <1>1, QueryInfoType DEF Entry
<1>3. /\ e.question.name = QueryInfo(q).name
      /\ e.question.qtype = QueryInfo(q).qtype
  BY <1>1 DEF SoundEntry, CacheKey
<1>4. e.question = QueryInfo(q)
  BY <1>2, <1>3 DEF Question
<1> QED
  BY <1>1, <1>4

LEMMA EntryAnswerSound ==
    ASSUME TypeOK, NEW q \in Queries, NEW e \in Entry, SoundEntry(e),
           e.question = QueryInfo(q), NEW from,
           from = "cached" => IsFresh(e), from = "stale" => IsStale(e)
    PROVE  SoundAnswer(q, EntryAnswer(from, e))
<1> DEFINE resp == EntryAnswer(from, e)
<1>1. /\ resp.question = e.question /\ resp.recs = e.recs /\ resp.from = from
      /\ resp.askedAt = e.askedAt /\ resp.at = now
  BY DEF EntryAnswer, Answer
<1>2. \A life \in Lifetime(e.recs) : life \in Nat
  BY EffectiveTtlBound DEF Entry
<1>3. now \in Nat /\ e.askedAt \in Nat /\ e.validUntil \in Nat /\ e.staleUntil \in Nat
  BY DEF TypeOK, Entry
<1>4. ASSUME NEW life \in Lifetime(e.recs)
      PROVE  /\ from = "cached" => now - e.askedAt < FetchTime + life
             /\ from = "stale" => now - e.askedAt < FetchTime + life + GracePeriod
  BY <1>2, <1>3, HandlerAssumption DEF SoundEntry, IsFresh, IsStale
<1> HIDE DEF resp
<1> QED
  BY <1>1, <1>4 DEF SoundAnswer, SoundEntry, resp

LEMMA DecideSound ==
    ASSUME TypeOK, SoundAnswers, [Next]_vars, NEW q \in Queries, NEW resp,
           SoundAnswer(q, resp), Decide(q, resp)
    PROVE  SoundAnswers'
<1>1. \A p \in Queries : response'[p] = IF p = q THEN resp ELSE response[p]
  BY DEF Decide, TypeOK
<1>2. \A p \in Queries : SoundAnswer(p, response'[p])
  BY <1>1 DEF SoundAnswers
<1> QED
  BY <1>2, RequestsKept DEF SoundAnswers, SoundAnswer

LEMMA AnswersStep ==
    ASSUME TypeOK, SoundEntries, PastIpv6Check, SoundAnswers, [Next]_vars
    PROVE  SoundAnswers'
<1>1. ASSUME response' = response
      PROVE  SoundAnswers'
  BY <1>1, RequestsKept DEF SoundAnswers, SoundAnswer
<1>2. ASSUME NEW q \in Queries, RefuseIpv6(q) \/ FailForeground(q)
      PROVE  SoundAnswers'
  <2>1. PICK from \in {"ipv6", "error"}, rcode \in {"NoError", "ServFail"} :
           Decide(q, OwnAnswer(q, from, rcode, {}, NoSource))
    BY <1>2 DEF RefuseIpv6, FailForeground
  <2>2. SoundAnswer(q, OwnAnswer(q, from, rcode, {}, NoSource))
    BY OwnAnswerSound
  <2> QED
    BY <2>1, <2>2, DecideSound
<1>3. ASSUME NEW q \in Queries, ServeLocal(q)
      PROVE  SoundAnswers'
  <2> DEFINE rec == [rtype |-> LocalRecords[QueryInfo(q).name], ttl |-> MinTtl]
  <2>1. DisableIpv6 => \A r \in {rec} : r.rtype # "AAAA"
    BY <1>3 DEF ServeLocal, HasLocalRecord, RefusedAsIpv6
  <2>2. Decide(q, OwnAnswer(q, "local", "NoError", {rec}, NoSource))
    BY <1>3 DEF ServeLocal
  <2> HIDE DEF rec
  <2>3. SoundAnswer(q, OwnAnswer(q, "local", "NoError", {rec}, NoSource))
    BY <2>1, OwnAnswerSound
  <2> QED
    BY <2>2, <2>3, DecideSound
<1>4. ASSUME NEW q \in Queries, ServeBlocked(q)
      PROVE  SoundAnswers'
  <2> DEFINE recs == NullRecords(QueryInfo(q).qtype)
             rcode == IF recs = {} THEN "NXDomain" ELSE "NoError"
             source == blocklist[QueryInfo(q).name]
  <2>1. DisableIpv6 => \A r \in recs : r.rtype # "AAAA"
    BY <1>4 DEF ServeBlocked, PastIpv6Check, RefusedAsIpv6, NullRecords
  <2>2. Decide(q, OwnAnswer(q, "blocked", rcode, recs, source))
    BY <1>4 DEF ServeBlocked
  <2> HIDE DEF recs, rcode, source
  <2>3. SoundAnswer(q, OwnAnswer(q, "blocked", rcode, recs, source))
    BY <2>1, OwnAnswerSound
  <2> QED
    BY <2>2, <2>3, DecideSound
<1>5. ASSUME NEW q \in Queries, ServeFresh(q) \/ ServeStale(q)
      PROVE  SoundAnswers'
  <2>1. PICK e \in CachedFor(QueryInfo(q)), from \in {"cached", "stale"} :
           /\ Decide(q, EntryAnswer(from, e))
           /\ from = "cached" => IsFresh(e)
           /\ from = "stale" => IsStale(e)
    BY <1>5 DEF ServeFresh, ServeStale
  <2>2. SoundAnswer(q, EntryAnswer(from, e))
    BY <2>1, FoundEntryAnswers, EntryAnswerSound
  <2> QED
    BY <2>1, <2>2, DecideSound
<1>6. ASSUME NEW q \in Queries, StoreForeground(q)
      PROVE  SoundAnswers'
  <2> DEFINE t == <<q, "serve">>
  <2>1. /\ t \in Tasks /\ t[1] = q /\ fetch[t] = "inserting"
        /\ Decide(q, EntryAnswer("upstream", fetched[t]))
    BY <1>6 DEF StoreForeground, Tasks
  <2> HIDE DEF t
  <2>2. /\ fetched[t] \in Entry /\ SoundEntry(fetched[t])
        /\ fetched[t].question = QueryInfo(q)
    BY <2>1 DEF TypeOK, SoundEntries
  <2>3. SoundAnswer(q, EntryAnswer("upstream", fetched[t]))
    BY <2>2, EntryAnswerSound
  <2> QED
    BY <2>1, <2>3, DecideSound
<1>7. \/ \E q \in Queries : \/ RefuseIpv6(q) \/ FailForeground(q) \/ ServeLocal(q)
                            \/ ServeBlocked(q) \/ ServeFresh(q) \/ ServeStale(q)
                            \/ StoreForeground(q)
      \/ response' = response
  BY DEF Next, Handle, Resolve, Refresh, Receive, QuestionMissing, CheckPause,
         PassBlocklist, MissCache, AskUpstream, FetchReply, StoreBackground, FailBackground, Send, SendPanics,
         Log, Evict, Pause, Resume, UpdateBlocklist, Tick, vars
<1> QED
  BY <1>1, <1>2, <1>3, <1>4, <1>5, <1>6, <1>7

-----------------------------------------------------------------------------
(* One decision for each query, counted and logged once.                   *)

Active == {"spawned", "asking", "inserting"}

Counted(resp) ==
    CASE resp.from \in {"cached", "stale"} -> IncCacheHit
      [] resp.from = "blocked"             -> IncBlockedBySource(resp.source)
      [] OTHER                             -> stats

\* What a step does that decides the response to q.
Decision(q, resp) ==
    /\ Decide(q, resp)
    /\ pc[q] \in {"received", "blocklist", "cache", "resolving"}
    /\ resp \in Response /\ resp.from # "none"
    /\ resp.source # NoSource <=> resp.from = "blocked"
    /\ stats' = Counted(resp)
    /\ log' = log
    /\ fetch'[<<q, "serve">>] \notin Active
    /\ \A p \in Queries \ {q} : fetch'[<<p, "serve">>] = fetch[<<p, "serve">>]

\* What any other step leaves alone.
NoDecision ==
    /\ response' = response
    /\ stats'.cacheHits = stats.cacheHits
    /\ stats'.blocked = stats.blocked

LEMMA ServeTasks == \A q \in Queries : /\ <<q, "serve">> \in Tasks
                                       /\ <<q, "refresh">> \in Tasks
  BY DEF Tasks

\* A decision of handle_request itself: no resolver call of q is open.
LEMMA HandlerDecides ==
    ASSUME TypeOK, DecidedOnce, NEW q \in Queries,
           RefuseIpv6(q) \/ ServeLocal(q) \/ ServeBlocked(q) \/ ServeFresh(q)
           \/ ServeStale(q)
    PROVE  \E resp : Decision(q, resp)
<1>1. /\ log' = log
      /\ pc[q] \in {"received", "blocklist", "cache"}
      /\ \A p \in Queries : fetch'[<<p, "serve">>] = fetch[<<p, "serve">>]
  BY ServeTasks DEF RefuseIpv6, ServeLocal, ServeBlocked, ServeFresh, ServeStale, TypeOK,
                    fetches
<1>2. fetch'[<<q, "serve">>] \notin Active
  BY <1>1 DEF DecidedOnce, Active
<1>3. \E resp \in Response : /\ Decide(q, resp) /\ resp.from # "none"
                             /\ resp.source # NoSource <=> resp.from = "blocked"
                             /\ stats' = Counted(resp)
  <2>1. CASE RefuseIpv6(q)
    <3> DEFINE resp == OwnAnswer(q, "ipv6", "NoError", {}, NoSource)
    <3>1. {} \in SUBSET Record /\ NoSource \in Sources \cup {NoSource}
          /\ "ipv6" \in Origins
      BY DEF Origins
    <3>2. resp \in Response /\ resp.from = "ipv6"
      BY <3>1, OwnAnswerType
    <3>3. resp.source = NoSource
      BY DEF OwnAnswer, Answer
    <3>4. Decide(q, resp) /\ stats' = stats
      BY <2>1 DEF RefuseIpv6
    <3> HIDE DEF resp
    <3> QED
      BY <3>2, <3>3, <3>4 DEF Counted
  <2>2. CASE ServeLocal(q)
    <3> DEFINE rec == [rtype |-> LocalRecords[QueryInfo(q).name], ttl |-> MinTtl]
               resp == OwnAnswer(q, "local", "NoError", {rec}, NoSource)
    <3>1. rec \in Record
      BY <2>2, HandlerAssumption DEF ServeLocal, HasLocalRecord, Record
    <3>2. {rec} \in SUBSET Record /\ NoSource \in Sources \cup {NoSource}
          /\ "local" \in Origins
      BY <3>1 DEF Origins
    <3>3. Decide(q, resp) /\ stats' = stats
      BY <2>2 DEF ServeLocal
    <3> HIDE DEF rec
    <3>4. resp \in Response /\ resp.from = "local"
      BY <3>2, OwnAnswerType
    <3>5. resp.source = NoSource
      BY DEF OwnAnswer, Answer
    <3> HIDE DEF resp
    <3> QED
      BY <3>3, <3>4, <3>5 DEF Counted
  <2>3. CASE ServeBlocked(q)
    <3> DEFINE recs == NullRecords(QueryInfo(q).qtype)
               rcode == IF recs = {} THEN "NXDomain" ELSE "NoError"
               source == blocklist[QueryInfo(q).name]
               resp == OwnAnswer(q, "blocked", rcode, recs, source)
    <3>1. recs \in SUBSET Record
      BY HandlerAssumption DEF NullRecords, Record
    <3>2. source # NoSource /\ source \in Sources
      BY <2>3, QueryInfoType, HandlerAssumption
      DEF ServeBlocked, IsListed, TypeOK, Question
    <3>3. rcode \in {"NoError", "NXDomain", "ServFail"} /\ "blocked" \in Origins
      BY DEF Origins
    <3>4. Decide(q, resp) /\ stats' = IncBlockedBySource(source)
      BY <2>3 DEF ServeBlocked
    <3> HIDE DEF recs, rcode, source
    <3>5. resp \in Response /\ resp.from = "blocked"
      BY <3>1, <3>2, <3>3, OwnAnswerType
    <3>6. resp.source = source
      BY DEF OwnAnswer, Answer
    <3> HIDE DEF resp
    <3> QED
      BY <3>2, <3>4, <3>5, <3>6 DEF Counted
  <2>4. CASE ServeFresh(q) \/ ServeStale(q)
    <3>1. PICK e \in cache, from \in {"cached", "stale"} :
             Decide(q, EntryAnswer(from, e)) /\ stats' = IncCacheHit
      BY <2>4 DEF ServeFresh, ServeStale, CachedFor
    <3> DEFINE resp == EntryAnswer(from, e)
    <3>2. e \in Entry /\ from \in Origins
      BY DEF TypeOK, Origins
    <3>3. resp \in Response /\ resp.from = from
      BY <3>2, EntryAnswerType
    <3>4. resp.source = NoSource
      BY DEF EntryAnswer, Answer
    <3>5. Decide(q, resp)
      BY <3>1
    <3> HIDE DEF resp
    <3> QED
      BY <3>1, <3>3, <3>4, <3>5 DEF Counted
  <2> QED
    BY <2>1, <2>2, <2>3, <2>4
<1> QED
  BY <1>1, <1>2, <1>3 DEF Decision

\* A decision of resolve_and_serve: the call it waited for has ended.
LEMMA ResolverDecides ==
    ASSUME TypeOK, DecidedOnce, NEW q \in Queries,
           StoreForeground(q) \/ FailForeground(q)
    PROVE  \E resp : Decision(q, resp)
<1> DEFINE t == <<q, "serve">>
<1>1. /\ t \in Tasks /\ fetch[t] \in {"asking", "inserting"} /\ Settle(t)
      /\ log' = log /\ stats' = stats
  BY ServeTasks DEF StoreForeground, FailForeground
<1>2. pc[q] = "resolving"
  BY <1>1 DEF DecidedOnce
<1>3. /\ fetch'[t] \notin Active
      /\ \A p \in Queries \ {q} : fetch'[<<p, "serve">>] = fetch[<<p, "serve">>]
  BY <1>1, ServeTasks DEF Settle, TypeOK, Active
<1>4. \E resp \in Response : /\ Decide(q, resp) /\ resp.from \in {"upstream", "error"}
                             /\ resp.source = NoSource
  <2>1. CASE StoreForeground(q)
    <3>1. fetched[t] \in Entry /\ "upstream" \in Origins
      BY <2>1, ServeTasks DEF StoreForeground, TypeOK, Origins
    <3>2. Decide(q, EntryAnswer("upstream", fetched[t]))
      BY <2>1 DEF StoreForeground
    <3> HIDE DEF t
    <3>3. /\ EntryAnswer("upstream", fetched[t]) \in Response
          /\ EntryAnswer("upstream", fetched[t]).from = "upstream"
      BY <3>1, EntryAnswerType
    <3>4. EntryAnswer("upstream", fetched[t]).source = NoSource
      BY DEF EntryAnswer, Answer
    <3> QED
      BY <3>2, <3>3, <3>4
  <2>2. CASE FailForeground(q)
    <3>1. {} \in SUBSET Record /\ "error" \in Origins
      BY DEF Origins
    <3>2. /\ OwnAnswer(q, "error", "ServFail", {}, NoSource) \in Response
          /\ OwnAnswer(q, "error", "ServFail", {}, NoSource).from = "error"
      BY <3>1, OwnAnswerType
    <3>3. OwnAnswer(q, "error", "ServFail", {}, NoSource).source = NoSource
      BY DEF OwnAnswer, Answer
    <3> QED
      BY <2>2, <3>2, <3>3 DEF FailForeground
  <2> QED
    BY <2>1, <2>2
<1> QED
  BY <1>1, <1>2, <1>3, <1>4 DEF Decision, Counted

\* The steps that decide nothing, and whether they move a query between the
\* undecided places, the log and the end.
LEMMA StepsThatDecideNothing ==
    ASSUME TypeOK, DecidedOnce, LoggedWhenDone, [Next]_vars,
           ~ \E q \in Queries : \E resp : Decision(q, resp)
    PROVE  NoDecision /\ DecidedOnce' /\ LoggedWhenDone'
<1>1. ASSUME response' = response,
             NEW q \in Queries, NEW to, Goto(q, to), pc[q] # "done", to # "done",
             log' = log, to = "logging" => LoggingEnable
      PROVE  LoggedWhenDone'
  BY <1>1 DEF LoggedWhenDone, LogEntry, Goto, TypeOK
<1>2. ASSUME response' = response, pc' = pc, log' = log
      PROVE  LoggedWhenDone'
  BY <1>2 DEF LoggedWhenDone, LogEntry
<1>3. ASSUME response' = response, pc' = pc,
             \A p \in Queries : fetch'[<<p, "serve">>] \in Active <=>
                                fetch[<<p, "serve">>] \in Active
      PROVE  DecidedOnce'
  BY <1>3 DEF DecidedOnce, Active
<1>4. ASSUME NEW q \in Queries,
             Receive(q) \/ QuestionMissing(q) \/ CheckPause(q) \/ PassBlocklist(q)
      PROVE  NoDecision /\ DecidedOnce' /\ LoggedWhenDone'
  <2>1. PICK to \in {"received", "panicked", "blocklist", "cache"} : Goto(q, to)
    BY <1>4 DEF Receive, QuestionMissing, CheckPause, PassBlocklist
  <2>2. /\ response' = response /\ log' = log /\ fetch' = fetch
        /\ pc[q] \in {"arriving", "received", "blocklist"}
        /\ NoDecision
    BY <1>4 DEF Receive, QuestionMissing, CheckPause, PassBlocklist, fetches, IncQueries,
                NoDecision, TypeOK
  <2>3. DecidedOnce'
    BY <2>1, <2>2 DEF DecidedOnce, Goto, TypeOK
  <2> QED
    BY <1>1, <2>1, <2>2, <2>3
<1>5. ASSUME NEW q \in Queries, MissCache(q)
      PROVE  NoDecision /\ DecidedOnce' /\ LoggedWhenDone'
  <2>1. /\ response' = response /\ log' = log /\ pc[q] = "cache" /\ NoDecision
        /\ Goto(q, "resolving")
    BY <1>5 DEF MissCache, NoDecision
  <2>2. /\ fetch'[<<q, "serve">>] = "spawned"
        /\ \A p \in Queries \ {q} : fetch'[<<p, "serve">>] = fetch[<<p, "serve">>]
    BY <1>5, ServeTasks DEF MissCache, TypeOK
  <2>3. DecidedOnce'
    BY <2>1, <2>2 DEF DecidedOnce, Goto, TypeOK
  <2> QED
    BY <1>1, <2>1, <2>3
<1>6. ASSUME NEW q \in Queries, Send(q) \/ SendPanics(q)
      PROVE  NoDecision /\ DecidedOnce' /\ LoggedWhenDone'
  <2>1. /\ response' = response /\ log' = log /\ fetch' = fetch /\ pc[q] = "sending"
        /\ NoDecision
    BY <1>6 DEF Send, SendPanics, fetches, NoDecision
  <2>2. PICK to \in {"logging", "done", "panicked"} :
           /\ Goto(q, to)
           /\ to = "logging" => LoggingEnable
           /\ to = "done" => ~LoggingEnable
    BY <1>6 DEF Send, SendPanics
  <2>3. DecidedOnce'
    BY <2>1, <2>2 DEF DecidedOnce, Goto, TypeOK
  <2>4. CASE to = "done"
    BY <2>1, <2>2, <2>3, <2>4 DEF LoggedWhenDone, Goto, TypeOK
  <2> QED
    BY <1>1, <2>1, <2>2, <2>3, <2>4
<1>7. ASSUME NEW q \in Queries, Log(q)
      PROVE  NoDecision /\ DecidedOnce' /\ LoggedWhenDone'
  <2>1. /\ response' = response /\ fetch' = fetch /\ pc[q] = "logging" /\ NoDecision
        /\ log' = log \cup {LogEntry(q)} /\ Goto(q, "done") /\ LoggingEnable
    BY <1>7 DEF Log, fetches, NoDecision, LoggedWhenDone
  <2>2. DecidedOnce'
    BY <2>1 DEF DecidedOnce, Goto, TypeOK
  <2>3. {p \in Queries : pc'[p] = "done"} = {p \in Queries : pc[p] = "done"} \cup {q}
    BY <2>1 DEF Goto, TypeOK
  <2>4. log' = {LogEntry(p) : p \in {r \in Queries : pc'[r] = "done"}}
    BY <2>1, <2>3 DEF LoggedWhenDone
  <2>5. \A p \in Queries : LogEntry(p)' = LogEntry(p)
    BY <2>1 DEF LogEntry
  <2>6. \A p \in Queries : pc'[p] = "logging" => LoggingEnable
    BY <2>1
  <2> QED
    BY <2>1, <2>2, <2>4, <2>5, <2>6 DEF LoggedWhenDone
<1>8. ASSUME NEW t \in Tasks, AskUpstream(t) \/ FetchReply(t)
      PROVE  NoDecision /\ DecidedOnce' /\ LoggedWhenDone'
  <2>1. /\ response' = response /\ pc' = pc /\ log' = log /\ NoDecision
    BY <1>8 DEF AskUpstream, FetchReply, NoDecision
  <2>2. \A p \in Queries : fetch'[<<p, "serve">>] \in Active <=>
                           fetch[<<p, "serve">>] \in Active
    BY <1>8, ServeTasks DEF AskUpstream, FetchReply, Active, TypeOK
  <2> QED
    BY <1>2, <1>3, <2>1, <2>2
<1>9. ASSUME NEW q \in Queries, StoreBackground(q) \/ FailBackground(q)
      PROVE  NoDecision /\ DecidedOnce' /\ LoggedWhenDone'
  <2>1. /\ response' = response /\ pc' = pc /\ log' = log /\ NoDecision
    BY <1>9 DEF StoreBackground, FailBackground, NoDecision
  <2>2. \A p \in Queries : fetch'[<<p, "serve">>] = fetch[<<p, "serve">>]
    BY <1>9, ServeTasks DEF StoreBackground, FailBackground, Settle, TypeOK
  <2> QED
    BY <1>2, <1>3, <2>1, <2>2
<1>10. ASSUME Evict \/ Pause \/ Resume \/ UpdateBlocklist \/ Tick \/ UNCHANGED vars
       PROVE  NoDecision /\ DecidedOnce' /\ LoggedWhenDone'
  <2>1. /\ response' = response /\ pc' = pc /\ log' = log /\ NoDecision
        /\ fetch' = fetch
    BY <1>10 DEF Evict, Pause, Resume, UpdateBlocklist, Tick, vars, fetches, NoDecision
  <2> QED
    BY <1>2, <1>3, <2>1
<1>11. \A q \in Queries : ~ (\/ RefuseIpv6(q) \/ ServeLocal(q) \/ ServeBlocked(q)
                             \/ ServeFresh(q) \/ ServeStale(q)
                             \/ StoreForeground(q) \/ FailForeground(q))
  BY HandlerDecides, ResolverDecides
<1> QED
  BY <1>4, <1>5, <1>6, <1>7, <1>8, <1>9, <1>10, <1>11, ServeTasks
  DEF Next, Handle, Resolve, Refresh

\* A decision keeps the log and the places of the other queries.
LEMMA DecisionsKeepTrail ==
    ASSUME TypeOK, DecidedOnce, LoggedWhenDone, NEW q \in Queries, NEW resp,
           Decision(q, resp)
    PROVE  DecidedOnce' /\ LoggedWhenDone'
<1>1. /\ pc[q] \in {"received", "blocklist", "cache", "resolving"}
      /\ log' = log /\ resp.from # "none"
      /\ resp.source # NoSource <=> resp.from = "blocked"
      /\ fetch'[<<q, "serve">>] \notin Active
      /\ \A p \in Queries \ {q} : fetch'[<<p, "serve">>] = fetch[<<p, "serve">>]
  BY DEF Decision
<1>2. \A p \in Queries :
         /\ response'[p] = IF p = q THEN resp ELSE response[p]
         /\ pc'[p] = IF p = q THEN "sending" ELSE pc[p]
  BY DEF Decision, Decide, Goto, TypeOK
<1>3. DecidedOnce'
  <2>1. ASSUME NEW p \in Queries \ {q}
        PROVE  /\ response'[p] = response[p] /\ pc'[p] = pc[p]
               /\ fetch'[<<p, "serve">>] = fetch[<<p, "serve">>]
    BY <1>1, <1>2
  <2>2. /\ response'[q].from # "none" /\ pc'[q] = "sending"
        /\ fetch'[<<q, "serve">>] \notin {"spawned", "asking", "inserting"}
        /\ response'[q].source # NoSource <=> response'[q].from = "blocked"
    BY <1>1, <1>2 DEF Active
  <2>3. SUFFICES ASSUME NEW p \in Queries
                 PROVE  /\ pc'[p] \in {"arriving", "received", "blocklist", "cache",
                                       "resolving"} => response'[p].from = "none"
                        /\ pc'[p] \in {"sending", "logging", "done"} =>
                              response'[p].from # "none"
                        /\ fetch'[<<p, "serve">>] \in {"spawned", "asking", "inserting"}
                              <=> pc'[p] = "resolving"
                        /\ response'[p].source # NoSource <=> response'[p].from = "blocked"
    BY DEF DecidedOnce
  <2>4. CASE p = q
    BY <2>2, <2>4
  <2>5. CASE p # q
    BY <2>1, <2>5 DEF DecidedOnce
  <2> QED
    BY <2>4, <2>5
<1>4. {p \in Queries : pc'[p] = "done"} = {p \in Queries : pc[p] = "done"}
  BY <1>1, <1>2
<1>5. \A p \in {r \in Queries : pc[r] = "done"} : LogEntry(p)' = LogEntry(p)
  BY <1>1, <1>2 DEF LogEntry
<1>6. {LogEntry(p)' : p \in {r \in Queries : pc'[r] = "done"}}
         = {LogEntry(p) : p \in {r \in Queries : pc[r] = "done"}}
  BY <1>4, <1>5
<1>7. \A p \in Queries : pc'[p] = "logging" => LoggingEnable
  BY <1>2 DEF LoggedWhenDone
<1> QED
  BY <1>1, <1>3, <1>6, <1>7 DEF LoggedWhenDone

LEMMA DecidedFinite ==
    \A origins, s : /\ IsFiniteSet(Decided(origins))
                    /\ IsFiniteSet({q \in Decided(origins) : response[q].source = s})
<1>1. \A S : S \subseteq Queries => IsFiniteSet(S)
  BY HandlerAssumption, FS_Subset
<1>2. \A origins, s : /\ Decided(origins) \subseteq Queries
                      /\ {q \in Decided(origins) : response[q].source = s} \subseteq Queries
  BY DEF Decided
<1> QED
  BY <1>1, <1>2

\* A decision makes q a member of the one set it is counted for, which it
\* was not in before.
LEMMA DecisionsCounted ==
    ASSUME TypeOK, DecidedOnce, CountedWhenDecided, NEW q \in Queries, NEW resp,
           Decision(q, resp)
    PROVE  CountedWhenDecided'
<1> DEFINE Hits(r) == {p \in Queries : r[p].from \in {"cached", "stale"}}
           Blocks(r, s) == {p \in Queries : r[p].from = "blocked" /\ r[p].source = s}
<1>1. /\ response[q].from = "none"
      /\ \A p \in Queries : response'[p] = IF p = q THEN resp ELSE response[p]
      /\ resp \in Response
      /\ stats' = Counted(resp)
      /\ resp.source # NoSource <=> resp.from = "blocked"
  BY DEF Decision, DecidedOnce, Decide, TypeOK
<1>2. /\ stats.cacheHits = Cardinality(Hits(response))
      /\ \A s \in Sources : stats.blocked[s] = Cardinality(Blocks(response, s))
  <2>1. Hits(response) = Decided({"cached", "stale"})
    BY DEF Decided
  <2>2. \A s \in Sources :
           Blocks(response, s) = {p \in Decided({"blocked"}) : response[p].source = s}
    BY DEF Decided
  <2> HIDE DEF Hits, Blocks
  <2> QED
    BY <2>1, <2>2 DEF CountedWhenDecided
<1>3. SUFFICES /\ stats'.cacheHits = Cardinality(Hits(response'))
               /\ \A s \in Sources : stats'.blocked[s] = Cardinality(Blocks(response', s))
  <2>1. Hits(response') = Decided({"cached", "stale"})'
    BY DEF Decided
  <2>2. \A s \in Sources :
           Blocks(response', s) = {p \in Decided({"blocked"})' : response'[p].source = s}
    BY DEF Decided
  <2> HIDE DEF Hits, Blocks
  <2> QED
    BY <1>3, <2>1, <2>2 DEF CountedWhenDecided
<1>4. /\ IsFiniteSet(Hits(response)) /\ q \notin Hits(response)
      /\ \A s \in Sources :
            IsFiniteSet(Blocks(response, s)) /\ q \notin Blocks(response, s)
  <2>1. \A S : S \subseteq Queries => IsFiniteSet(S)
    BY HandlerAssumption, FS_Subset
  <2> QED
    BY <1>1, <2>1
<1>5. /\ stats.cacheHits \in Nat
      /\ stats \in [queries : Nat, cacheHits : Nat, blocked : [Sources -> Nat]]
  BY DEF TypeOK
<1>6. CASE resp.from \in {"cached", "stale"}
  <2>1. Hits(response') = Hits(response) \cup {q}
    BY <1>1, <1>6
  <2>2. \A s \in Sources : Blocks(response', s) = Blocks(response, s)
    BY <1>1, <1>6
  <2>3. stats' = IncCacheHit
    BY <1>1, <1>6 DEF Counted
  <2> HIDE DEF Hits, Blocks
  <2>4. stats'.cacheHits = stats.cacheHits + 1 /\ stats'.blocked = stats.blocked
    BY <2>3, <1>5 DEF IncCacheHit
  <2>5. Cardinality(Hits(response) \cup {q}) = Cardinality(Hits(response)) + 1
    BY <1>4, FS_AddElement
  <2> QED
    BY <1>2, <2>1, <2>2, <2>4, <2>5
<1>7. CASE resp.from = "blocked"
  <2> DEFINE list == resp.source
  <2>1. list \in Sources
    BY <1>1, <1>7 DEF Response
  <2>2. /\ Hits(response') = Hits(response)
        /\ Blocks(response', list) = Blocks(response, list) \cup {q}
        /\ \A s \in Sources \ {list} : Blocks(response', s) = Blocks(response, s)
    BY <1>1, <1>7
  <2>3. stats' = IncBlockedBySource(list)
    BY <1>1, <1>7 DEF Counted
  <2> HIDE DEF Hits, Blocks, list
  <2>4. /\ stats'.cacheHits = stats.cacheHits
        /\ stats'.blocked[list] = stats.blocked[list] + 1
        /\ \A s \in Sources \ {list} : stats'.blocked[s] = stats.blocked[s]
    BY <2>1, <2>3, <1>5 DEF IncBlockedBySource
  <2>5. Cardinality(Blocks(response, list) \cup {q}) = Cardinality(Blocks(response, list)) + 1
    BY <2>1, <1>4, FS_AddElement
  <2> QED
    BY <1>2, <2>1, <2>2, <2>4, <2>5
<1>8. CASE resp.from \notin {"cached", "stale", "blocked"}
  <2>1. Hits(response') = Hits(response)
    BY <1>1, <1>8
  <2>2. \A s \in Sources : Blocks(response', s) = Blocks(response, s)
    BY <1>1, <1>8
  <2>3. stats' = stats
    BY <1>1, <1>8 DEF Counted
  <2> HIDE DEF Hits, Blocks
  <2> QED
    BY <1>2, <2>1, <2>2, <2>3
<1> QED
  BY <1>6, <1>7, <1>8

LEMMA AuditStep ==
    ASSUME TypeOK, DecidedOnce, LoggedWhenDone, CountedWhenDecided, [Next]_vars
    PROVE  DecidedOnce' /\ LoggedWhenDone' /\ CountedWhenDecided'
<1>1. CASE \E q \in Queries : \E resp : Decision(q, resp)
  BY <1>1, DecisionsKeepTrail, DecisionsCounted
<1>2. CASE ~ \E q \in Queries : \E resp : Decision(q, resp)
  <2>1. NoDecision /\ DecidedOnce' /\ LoggedWhenDone'
    BY <1>2, StepsThatDecideNothing
  <2>2. CountedWhenDecided'
    BY <2>1 DEF NoDecision, CountedWhenDecided, Decided
  <2> QED
    BY <2>1, <2>2
<1> QED
  BY <1>1, <1>2

LEMMA HandlerInvInit == Init => HandlerInv
<1> SUFFICES ASSUME Init PROVE HandlerInv
  OBVIOUS
<1>1. SoundAnswers
  BY OwnAnswerSound DEF Init, SoundAnswers
<1>2. /\ SoundEntries /\ FetchesOnTime /\ PastIpv6Check /\ OneEntryPerKey
  BY DEF Init, SoundEntries, FetchesOnTime, PastIpv6Check, OneEntryPerKey
<1>3. \A q \in Queries : response[q].from = "none" /\ response[q].source = NoSource
  BY DEF Init, OwnAnswer, Answer
<1>4. DecidedOnce
  BY <1>3, ServeTasks DEF Init, DecidedOnce
<1>5. LoggedWhenDone
  BY DEF Init, LoggedWhenDone
<1>6. CountedWhenDecided
  <2>1. /\ Decided({"cached", "stale"}) = {}
        /\ \A s \in Sources : {q \in Decided({"blocked"}) : response[q].source = s} = {}
    BY <1>3 DEF Decided
  <2> QED
    BY <2>1, FS_EmptySet DEF Init, CountedWhenDecided
<1> QED
  BY <1>1, <1>2, <1>4, <1>5, <1>6, TypeInit, SoundAnswersMeaning DEF HandlerInv

LEMMA HandlerInvStep == HandlerInv /\ [Next]_vars => HandlerInv'
<1> SUFFICES ASSUME HandlerInv, [Next]_vars PROVE HandlerInv'
  OBVIOUS
<1> USE DEF HandlerInv
<1>1. TypeOK' /\ SendsDecided'
  BY TypeStep
<1>2. SoundEntries' /\ FetchesOnTime' /\ OneEntryPerKey'
  BY EntriesStep
<1>3. PastIpv6Check'
  BY PastIpv6Step
<1>4. SoundAnswers
  BY SoundAnswersMeaning
<1>5. SoundAnswers'
  BY <1>4, AnswersStep
<1>6. (AnswersOwnQuestion /\ NoIpv6Leak /\ AnswerAge)'
  BY <1>5 DEF SoundAnswers, SoundAnswer, AnswersOwnQuestion, NoIpv6Leak, AnswerAge
<1>7. DecidedOnce' /\ LoggedWhenDone' /\ CountedWhenDecided'
  BY AuditStep
<1> QED
  BY <1>1, <1>2, <1>3, <1>6, <1>7

-----------------------------------------------------------------------------
(* What every run of the handler guarantees.                               *)

\* The inductive invariant holds in every reachable state.
THEOREM HandlerInvariant == Spec => []HandlerInv
  BY HandlerInvInit, HandlerInvStep, PTL DEF Spec

\* disable_ipv6 keeps AAAA records from every client, by whatever path and
\* in whatever order entries were fetched, cached and served.
THEOREM Ipv6NeverLeaks == Spec => []NoIpv6Leak
  BY HandlerInvariant, PTL DEF HandlerInv

\* No client is served records that were fetched for another question.
THEOREM AnswersMatchQuestions == Spec => []AnswersOwnQuestion
  BY HandlerInvariant, PTL DEF HandlerInv

\* Cached answers are never older than their TTL, the grace period and one
\* resolver call allow, however many fetches of the key overlap.
THEOREM AnswersAreRecent == Spec => []AnswerAge
  BY HandlerInvariant, PTL DEF HandlerInv

\* Overlapping misses and refreshes leave one entry for each key.
THEOREM CacheIsAMap == Spec => []OneEntryPerKey
  BY HandlerInvariant, PTL DEF HandlerInv

\* A failed refresh, or any other step, takes an entry out of the cache only
\* to put a newer one in its place or because the cache is over capacity.
THEOREM ServeStaleSurvives == Spec => EntriesKept
<1>1. [Next]_vars => [\A e \in cache \ cache' :
                        \/ \E f \in cache' : f.key = e.key
                        \/ Cardinality(cache) > Capacity]_vars
  BY DEF Next, Handle, Resolve, Refresh, Receive, QuestionMissing, RefuseIpv6,
         ServeLocal, CheckPause, ServeBlocked, PassBlocklist, ServeFresh, ServeStale,
         MissCache, AskUpstream, FetchReply, StoreForeground, StoreBackground,
         FailForeground, FailBackground, Send, SendPanics, Log, Evict, Pause, Resume,
         UpdateBlocklist, Tick, vars, Inserted
<1> QED
  BY <1>1, PTL DEF Spec, EntriesKept

\* What the log says of the queries in D: one line each.
LEMMA LinesOf ==
    ASSUME NEW D \in SUBSET Queries
    PROVE  Cardinality({LogEntry(q) : q \in D}) = Cardinality(D)
<1> DEFINE lines == {LogEntry(q) : q \in D}
           f == [q \in D |-> LogEntry(q)]
<1>1. IsFiniteSet(D)
  BY HandlerAssumption, FS_Subset
<1>2. \A p, q \in D : LogEntry(p) = LogEntry(q) => p = q
  BY DEF LogEntry
<1>3. f \in Bijection(D, lines)
  BY <1>2 DEF Bijection, Injection, Surjection, IsInjective
<1>4. ExistsBijection(D, lines)
  BY <1>3 DEF ExistsBijection
<1> HIDE DEF lines, f
<1>5. Cardinality(lines) = Cardinality(D)
  BY <1>1, <1>4, FS_Bijection
<1> QED
  BY <1>5 DEF lines

\* The queries with these origins that were answered to the end, and the
\* others, whose task died: together they are all of them.
LEMMA DoneOrDied ==
    ASSUME DecidedOnce, \A q \in Queries : pc[q] \in {"arriving", "done", "panicked"},
           NEW D \in SUBSET Queries, \A q \in D : response[q].from # "none"
    PROVE  Cardinality(D) = Cardinality({q \in D : pc[q] = "done"})
                            + Cardinality({q \in D : pc[q] = "panicked"})
<1> DEFINE done == {q \in D : pc[q] = "done"}
           died == {q \in D : pc[q] = "panicked"}
<1>1. D = done \cup died /\ done \cap died = {}
  BY DEF DecidedOnce
<1>2. IsFiniteSet(done) /\ IsFiniteSet(died)
  BY HandlerAssumption, FS_Subset
<1> HIDE DEF done, died
<1>3. /\ Cardinality(done \cup died)
            = Cardinality(done) + Cardinality(died) - Cardinality(done \cap died)
      /\ Cardinality(done \cap died) = 0
      /\ Cardinality(done) \in Nat /\ Cardinality(died) \in Nat
  BY <1>1, <1>2, FS_Union, FS_EmptySet, FS_CardinalityType
<1>4. Cardinality(D) = Cardinality(done) + Cardinality(died)
  BY <1>1, <1>3
<1> QED
  BY <1>4 DEF done, died

LEMMA LedgersBalance == HandlerInv => LedgersAgree
<1> DEFINE lines(action) == {l \in log : l.action = action}
           died(origins) == {q \in Decided(origins) : pc[q] = "panicked"}
<1> SUFFICES ASSUME HandlerInv, LoggingEnable,
                    \A q \in Queries : pc[q] \in {"arriving", "done", "panicked"}
             PROVE  /\ stats.cacheHits = Cardinality(lines("Cached"))
                                         + Cardinality(died({"cached", "stale"}))
                    /\ \A s \in Sources : stats.blocked[s] =
                          Cardinality({l \in lines("Blocked") : l.source = s})
                          + Cardinality({q \in died({"blocked"}) : response[q].source = s})
                    /\ {l.query : l \in {m \in lines("Blocked") : m.source = NoSource}}
                          = Decided({"ipv6"}) \ died({"ipv6"})
  BY DEF LedgersAgree
<1>1. /\ DecidedOnce /\ TypeOK /\ CountedWhenDecided
      /\ log = {LogEntry(q) : q \in {p \in Queries : pc[p] = "done"}}
  BY DEF HandlerInv, LoggedWhenDone
<1>2. \A q \in Queries : pc[q] = "done" =>
         /\ LogEntry(q).action = "Cached" <=> response[q].from \in {"cached", "stale"}
         /\ LogEntry(q).action = "Blocked" <=> response[q].from \in {"blocked", "ipv6"}
         /\ LogEntry(q).source = response[q].source
         /\ LogEntry(q).query = q
  <2>1. TAKE q \in Queries
  <2>2. response[q].from \in Origins
    BY <1>1 DEF TypeOK, Response
  <2>3. pc[q] = "done" => response[q].from # "none"
    BY <1>1 DEF DecidedOnce
  <2> QED
    BY <2>2, <2>3 DEF LogEntry, LogAction, Origins
<1>3. stats.cacheHits = Cardinality(lines("Cached"))
                        + Cardinality(died({"cached", "stale"}))
  <2> DEFINE D == Decided({"cached", "stale"})
             done == {q \in D : pc[q] = "done"}
  <2>1. lines("Cached") = {LogEntry(q) : q \in done}
    BY <1>1, <1>2 DEF Decided
  <2>2. D \in SUBSET Queries /\ \A q \in D : response[q].from # "none"
    BY DEF Decided
  <2>3. stats.cacheHits = Cardinality(D)
    BY <1>1 DEF CountedWhenDecided
  <2>4. done \in SUBSET Queries
    BY <2>2
  <2> HIDE DEF D
  <2>5. Cardinality(D) = Cardinality(done) + Cardinality({q \in D : pc[q] = "panicked"})
    BY <1>1, <2>2, DoneOrDied
  <2> HIDE DEF done
  <2>6. Cardinality({LogEntry(q) : q \in done}) = Cardinality(done)
    BY <2>4, LinesOf
  <2> QED
    BY <2>1, <2>3, <2>5, <2>6 DEF D
<1>4. ASSUME NEW s \in Sources
      PROVE  stats.blocked[s] =
                Cardinality({l \in lines("Blocked") : l.source = s})
                + Cardinality({q \in died({"blocked"}) : response[q].source = s})
  <2> DEFINE D == {q \in Decided({"blocked"}) : response[q].source = s}
             done == {q \in D : pc[q] = "done"}
  <2>1. s # NoSource
    BY HandlerAssumption
  <2>2. {l \in lines("Blocked") : l.source = s} = {LogEntry(q) : q \in done}
    <3>1. \A q \in Queries : pc[q] = "done" =>
             ((LogEntry(q).action = "Blocked" /\ LogEntry(q).source = s) <=> q \in D)
      <4>1. TAKE q \in Queries
      <4>2. response[q].source # NoSource <=> response[q].from = "blocked"
        BY <1>1 DEF DecidedOnce
      <4> QED
        BY <1>2, <2>1, <4>2 DEF Decided
    <3>2. D \subseteq Queries
      BY DEF Decided
    <3> HIDE DEF D
    <3> QED
      BY <1>1, <3>1, <3>2
  <2>3. D \in SUBSET Queries /\ \A q \in D : response[q].from # "none"
    BY DEF Decided
  <2>4. stats.blocked[s] = Cardinality(D)
    BY <1>1 DEF CountedWhenDecided
  <2>5. done \in SUBSET Queries
    BY <2>3
  <2>6. {q \in died({"blocked"}) : response[q].source = s} = {q \in D : pc[q] = "panicked"}
    OBVIOUS
  <2> HIDE DEF D
  <2>7. Cardinality(D) = Cardinality(done) + Cardinality({q \in D : pc[q] = "panicked"})
    BY <1>1, <2>3, DoneOrDied
  <2> HIDE DEF done
  <2>8. Cardinality({LogEntry(q) : q \in done}) = Cardinality(done)
    BY <2>5, LinesOf
  <2> QED
    BY <2>2, <2>4, <2>6, <2>7, <2>8
<1>5. {l.query : l \in {m \in lines("Blocked") : m.source = NoSource}}
         = Decided({"ipv6"}) \ died({"ipv6"})
  <2>1. {m \in lines("Blocked") : m.source = NoSource}
           = {LogEntry(q) : q \in {p \in Decided({"ipv6"}) : pc[p] = "done"}}
    <3>1. \A q \in Queries : pc[q] = "done" =>
             ((LogEntry(q).action = "Blocked" /\ LogEntry(q).source = NoSource)
                 <=> q \in Decided({"ipv6"}))
      <4>1. TAKE q \in Queries
      <4>2. response[q].source # NoSource <=> response[q].from = "blocked"
        BY <1>1 DEF DecidedOnce
      <4> QED
        BY <1>2, <4>2 DEF Decided
    <3>2. Decided({"ipv6"}) \subseteq Queries
      BY DEF Decided
    <3> QED
      BY <1>1, <3>1, <3>2
  <2>2. \A q \in Decided({"ipv6"}) : pc[q] \in {"done", "panicked"}
    BY <1>1 DEF Decided, DecidedOnce
  <2>3. \A q \in Decided({"ipv6"}) : q \notin died({"ipv6"}) <=> pc[q] = "done"
    BY <2>2
  <2>4. \A q \in Queries : LogEntry(q).query = q
    BY DEF LogEntry
  <2>5. Decided({"ipv6"}) \subseteq Queries
    BY DEF Decided
  <2> QED
    BY <2>1, <2>3, <2>4, <2>5
<1> QED
  BY <1>3, <1>4, <1>5

LEMMA TrailComplete == HandlerInv => AuditTrail
<1> SUFFICES ASSUME HandlerInv PROVE AuditTrail
  OBVIOUS
<1>1. DecidedOnce /\ LoggedWhenDone
  BY DEF HandlerInv
<1>2. \A q \in Queries : LogEntry(q).query = q /\ LogEntry(q).source = response[q].source
  BY DEF LogEntry
<1>3. \A l \in log : \E q \in Queries : l = LogEntry(q)
  BY <1>1 DEF LoggedWhenDone
<1>4. {l.query : l \in log} = IF LoggingEnable THEN {q \in Queries : pc[q] = "done"} ELSE {}
  BY <1>1, <1>2 DEF LoggedWhenDone
<1>5. \A l, m \in log : l.query = m.query => l = m
  BY <1>2, <1>3
<1>6. \A l \in log : (l.source # NoSource) <=> (l.query \in Decided({"blocked"}))
  <2>1. \A q \in Queries : response[q].source # NoSource <=> q \in Decided({"blocked"})
    BY <1>1 DEF DecidedOnce, Decided
  <2> QED
    BY <1>2, <1>3, <2>1
<1> QED
  BY <1>4, <1>5, <1>6 DEF AuditTrail

\* With logging on, every query answered to the end has exactly one line in
\* the log and no other query has one; the line names a blocklist exactly
\* when handle_blocked_request answered.
THEOREM EveryAnswerIsLogged == Spec => []AuditTrail
  BY HandlerInvariant, TrailComplete, PTL

\* The SQLite statistics, which count log lines, and the counters of
\* StatsCollector differ by the tasks that died between the two and by the
\* queries disable_ipv6 refused, and by nothing else.
THEOREM LedgersAlwaysAgree == Spec => []LedgersAgree
  BY HandlerInvariant, LedgersBalance, PTL

-----------------------------------------------------------------------------
\* The two-read blocking check of handle_blocked_request is right at some
\* moment of every query, for every interleaving with pause, resume, the clock
\* and list updates.

\* The state at hand has been witnessed by every query that was received.
Witnessed ==
    \A q \in Received :
        /\ ~MustBlock(QueryInfo(q).name) => q \in sawOpen
        /\ BlockingActive => q \in sawActive
        /\ IsListed(QueryInfo(q).name) => blocklist[QueryInfo(q).name] \in sawListed[q]

\* What a query has read so far it has read truly.
ReadsTrue ==
    \A q \in Queries :
        /\ pc[q] \in {"cache", "resolving"} => q \in sawOpen
        /\ pc[q] = "blocklist" => q \in sawActive

PolicyInv ==
    /\ TypeOK /\ SendsDecided
    /\ Witnessed
    /\ ReadsTrue
    /\ ForwardedOnlyWhenOpen
    /\ BlockedOnlyWhenActive

LEMMA PolicyInvInit == PolicyInit => PolicyInv
<1> SUFFICES ASSUME PolicyInit PROVE PolicyInv
  OBVIOUS
<1>1. Init
  BY DEF PolicyInit
<1>2. \A q \in Queries : response[q].from = "none" /\ pc[q] = "arriving"
                         /\ fetch[<<q, "serve">>] = "idle"
                         /\ fetch[<<q, "refresh">>] = "idle"
  BY <1>1 DEF Init, OwnAnswer, Answer, Tasks
<1> QED
  BY <1>1, <1>2, TypeInit
  DEF PolicyInv, Witnessed, Received, ReadsTrue, ForwardedOnlyWhenOpen, Forwarded,
      BlockedOnlyWhenActive

\* A step takes a query past a check only in a state in which it passes it.
LEMMA ChecksHonest ==
    ASSUME TypeOK, SendsDecided, Next, NEW q \in Queries
    PROVE  /\ pc'[q] \in {"cache", "resolving"} =>
                 \/ pc[q] \in {"cache", "resolving"}
                 \/ q \in Received /\ ~MustBlock(QueryInfo(q).name)
           /\ pc'[q] = "blocklist" =>
                 \/ pc[q] = "blocklist"
                 \/ q \in Received /\ BlockingActive
           /\ Forwarded(q)' => Forwarded(q) \/ pc[q] = "cache"
           /\ response'[q].from = "blocked" =>
                 \/ response'[q] = response[q]
                 \/ /\ pc[q] = "blocklist" /\ q \in Received
                    /\ IsListed(QueryInfo(q).name)
                    /\ response'[q].source = blocklist[QueryInfo(q).name]
<1> USE HandlerAssumption
<1>1. ASSUME NEW p \in Queries, Handle(p)
      PROVE  /\ \A r \in Queries : r # p => pc'[r] = pc[r] /\ response'[r] = response[r]
             /\ pc'[p] = "cache" => /\ pc[p] \in {"received", "blocklist"}
                                    /\ ~MustBlock(QueryInfo(p).name)
             /\ pc'[p] = "resolving" => pc[p] = "cache"
             /\ pc'[p] = "blocklist" => pc[p] = "received" /\ BlockingActive
             /\ response'[p] # response[p] =>
                  \/ response'[p].from \in {"ipv6", "local"}
                  \/ response'[p].from \in {"cached", "stale"} /\ pc[p] = "cache"
                  \/ /\ response'[p].from = "blocked" /\ pc[p] = "blocklist"
                     /\ IsListed(QueryInfo(p).name)
                     /\ response'[p].source = blocklist[QueryInfo(p).name]
             /\ \A t \in Tasks : fetch'[t] # fetch[t] => t[1] = p /\ pc[p] = "cache"
  <2>1. CASE Receive(p) \/ QuestionMissing(p) \/ CheckPause(p) \/ PassBlocklist(p)
    BY <2>1 DEF Receive, QuestionMissing, CheckPause, PassBlocklist, Goto, TypeOK, fetches, MustBlock
  <2>2. CASE RefuseIpv6(p) \/ ServeLocal(p) \/ ServeBlocked(p)
    BY <2>2 DEF RefuseIpv6, ServeLocal, ServeBlocked, Decide, Goto, TypeOK, fetches,
                OwnAnswer, Answer
  <2>3. CASE ServeFresh(p) \/ ServeStale(p)
    BY <2>3 DEF ServeFresh, ServeStale, Decide, Goto, TypeOK, fetches, EntryAnswer,
                Answer, Tasks
  <2>4. CASE MissCache(p)
    BY <2>4 DEF MissCache, Goto, TypeOK, Tasks
  <2>5. CASE Send(p) \/ SendPanics(p) \/ Log(p)
    BY <2>5 DEF Send, SendPanics, Log, Goto, TypeOK, fetches
  <2> QED
    BY <1>1, <2>1, <2>2, <2>3, <2>4, <2>5 DEF Handle
<1>2. CASE \E p \in Queries : Handle(p)
  <2>1. PICK p \in Queries : Handle(p)
    BY <1>2
  <2>2. <<q, "serve">> \in Tasks /\ <<q, "refresh">> \in Tasks
        /\ <<q, "serve">>[1] = q /\ <<q, "refresh">>[1] = q
    BY DEF Tasks
  <2>3. CASE p = q
    <3>1. pc[q] \in {"received", "blocklist"} => q \in Received
      BY DEF Received
    <3>2. Forwarded(q)' => Forwarded(q) \/ pc[q] = "cache"
      BY <1>1, <2>1, <2>2, <2>3 DEF Forwarded
    <3> QED
      BY <1>1, <2>1, <2>3, <3>1, <3>2
  <2>4. CASE p # q
    BY <1>1, <2>1, <2>2, <2>4 DEF Received, Forwarded
  <2> QED
    BY <2>3, <2>4
<1>3. ASSUME NEW t \in Tasks,
             fetch[t] # "idle", \A u \in Tasks : u # t => fetch'[u] = fetch[u],
             NEW r \in Queries, r = t[1],
             \A p \in Queries : p # r => pc'[p] = pc[p] /\ response'[p] = response[p],
             \/ pc' = pc /\ response' = response
             \/ pc'[r] = "sending" /\ response'[r].from \in {"upstream", "error"}
      PROVE  /\ pc'[q] \in {"cache", "resolving", "blocklist"} => pc'[q] = pc[q]
             /\ Forwarded(q)' => Forwarded(q)
             /\ response'[q].from = "blocked" => response'[q] = response[q]
  <2>1. t = <<r, "serve">> \/ t = <<r, "refresh">>
    BY <1>3 DEF Tasks
  <2>2. Forwarded(r)
    BY <1>3, <2>1 DEF Forwarded
  <2>3. CASE q = r
    BY <1>3, <2>2, <2>3
  <2>4. CASE q # r
    <3>1. \A mode \in {"serve", "refresh"} : <<q, mode>> \in Tasks /\ <<q, mode>> # t
      BY <2>1, <2>4 DEF Tasks
    <3> QED
      BY <1>3, <2>4, <3>1 DEF Forwarded
  <2> QED
    BY <2>3, <2>4
<1>4. CASE \E p \in Queries : Resolve(p) \/ Refresh(p)
  <2>1. PICK p \in Queries : Resolve(p) \/ Refresh(p)
    BY <1>4
  <2>2. PICK t \in Tasks : /\ p = t[1]
                          /\ fetch[t] # "idle"
                          /\ \A u \in Tasks : u # t => fetch'[u] = fetch[u]
    <3> DEFINE Moves(t) == /\ fetch[t] # "idle"
                           /\ \A u \in Tasks : u # t => fetch'[u] = fetch[u]
    <3>1. <<p, "serve">> \in Tasks /\ <<p, "refresh">> \in Tasks
      BY DEF Tasks
    <3>2. Resolve(p) => Moves(<<p, "serve">>)
      BY <3>1 DEF Resolve, AskUpstream, FetchReply, StoreForeground, FailForeground,
                  Settle, TypeOK
    <3>3. Refresh(p) => Moves(<<p, "refresh">>)
      BY <3>1 DEF Refresh, AskUpstream, FetchReply, StoreBackground, FailBackground,
                  Settle, TypeOK
    <3> QED
      BY <2>1, <3>1, <3>2, <3>3
  <2>3. \A r \in Queries : r # p => pc'[r] = pc[r] /\ response'[r] = response[r]
    BY <2>1 DEF Resolve, Refresh, AskUpstream, FetchReply, StoreForeground,
                StoreBackground, FailForeground, FailBackground, Decide, Goto, TypeOK
  <2>4. \/ pc' = pc /\ response' = response
        \/ pc'[p] = "sending" /\ response'[p].from \in {"upstream", "error"}
    BY <2>1 DEF Resolve, Refresh, AskUpstream, FetchReply, StoreForeground,
                StoreBackground, FailForeground, FailBackground, Decide, Goto, TypeOK,
                OwnAnswer, EntryAnswer, Answer
  <2>5. /\ pc'[q] \in {"cache", "resolving", "blocklist"} => pc'[q] = pc[q]
        /\ Forwarded(q)' => Forwarded(q)
        /\ response'[q].from = "blocked" => response'[q] = response[q]
    BY <1>3, <2>2, <2>3, <2>4
  <2> QED
    BY <2>5
<1>5. CASE Evict \/ Pause \/ Resume \/ UpdateBlocklist \/ Tick
  BY <1>5 DEF Evict, Pause, Resume, UpdateBlocklist, Tick, fetches, Forwarded
<1> QED
  BY <1>2, <1>4, <1>5 DEF Next

LEMMA PolicyInvStep == PolicyInv /\ [Next /\ Witness]_hvars => PolicyInv'
<1> SUFFICES ASSUME PolicyInv, [Next /\ Witness]_hvars PROVE PolicyInv'
  OBVIOUS
<1> USE DEF PolicyInv
<1>1. CASE Next /\ Witness
  <2>1. TypeOK' /\ SendsDecided'
    BY <1>1, TypeStep
  <2>2. \A q \in Received' :
          /\ ~MustBlock(QueryInfo(q).name)' => q \in sawOpen'
          /\ BlockingActive' => q \in sawActive'
          /\ IsListed(QueryInfo(q).name)' =>
                (blocklist[QueryInfo(q).name])' \in sawListed'[q]
    BY <1>1 DEF Witness, ListedBy, IsListed, Received
  <2>3. Witnessed'
    BY <2>2 DEF Witnessed
  <2>4. sawOpen \subseteq sawOpen' /\ sawActive \subseteq sawActive'
        /\ \A q \in Queries : sawListed[q] \subseteq sawListed'[q]
    BY <1>1 DEF Witness
  <2>5. ReadsTrue'
    BY <1>1, <2>4, ChecksHonest DEF ReadsTrue, Witnessed
  <2>6. ForwardedOnlyWhenOpen'
    BY <1>1, <2>4, ChecksHonest DEF ForwardedOnlyWhenOpen, ReadsTrue
  <2>7. BlockedOnlyWhenActive'
    BY <1>1, <2>4, ChecksHonest DEF BlockedOnlyWhenActive, ReadsTrue, Witnessed
  <2> QED
    BY <2>1, <2>3, <2>5, <2>6, <2>7
<1>2. CASE UNCHANGED hvars
  <2>1. TypeOK' /\ SendsDecided'
    BY <1>2, TypeStep DEF hvars
  <2> QED
    BY <1>2, <2>1
    DEF hvars, vars, tables, fetches, history, Witnessed, Received, MustBlock,
        BlockingActive, IsListed, QueryInfo, ReadsTrue, ForwardedOnlyWhenOpen,
        Forwarded, BlockedOnlyWhenActive
<1> QED
  BY <1>1, <1>2

\* What a query has seen of the policy fits the checks its task has passed, in
\* every state of every behaviour.
THEOREM PolicyInvariant == PolicySpec => []PolicyInv
  BY PolicyInvInit, PolicyInvStep, PTL DEF PolicySpec

\* A name blocked from the arrival of its query to its end never reaches an
\* upstream on its behalf and is never answered from the cache.
THEOREM BlockedNamesStayBlocked == PolicySpec => []ForwardedOnlyWhenOpen
  BY PolicyInvariant, PTL DEF PolicyInv

\* Nothing is blocked during a pause that spans the whole query, and a block
\* is charged only to a list that had the name while the query lived.
THEOREM BlocksAreJustified == PolicySpec => []BlockedOnlyWhenActive
  BY PolicyInvariant, PTL DEF PolicyInv
=============================================================================
