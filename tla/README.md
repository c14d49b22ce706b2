# A formal model of AdNope

TLA+ modules, TLC configurations and TLAPS proofs for the DNS ad blocker in
this repository. Source paths below are relative to the crate's `src/`.

Run a check with `tlc -config <run>.cfg <module>` and a proof with
`tlapm <module>.tla`; `PROJECT.json` lists the runs, the source lines each
definition translates, the hazards the properties are aimed at, and for every
property a mutation of the model that it must catch.

## 1. The system and its hazards

| Component | State | Operations | Who calls it |
|---|---|---|---|
| Query handler (`server/dns_request_handler.rs`) | the cache, the blocklist (ArcSwap), local records; per query: its task | `handle_request`, `resolve_and_cache`, `update_blocklist` | hickory-server, one task for each query; the updater; itself, in spawned refreshes |
| Pause state (`engine/state.rs`) | a deadline behind an `RwLock` | `is_blocking_active`, `pause_blocking`, `resume_blocking`, `get_pause_remaining_secs` | every query; the HTTP API |
| Domain matcher (`engine/domain_matcher.rs`) | immutable maps | `new`, `check` | blocklist manager; query handler |
| Blocklist manager (`engine/blocklist_manager.rs`) | none between refreshes | `refresh`: concurrent downloads, then a merge | `main` at start, the updater |
| Updater (`main.rs`) | an interval, a channel of one place | a `select` loop: tick or trigger, refresh, install | spawned once |
| HTTP API (`api/`) | the channel's sender, the data source | pause, resume, status, refresh, stats, logs, config | web UI |
| Resolvers (`resolver/`) | a vector of upstreams, a round-robin counter | `create_resolver`, `resolve` under four policies | query handler |
| Statistics (`stats.rs`) | atomics and concurrent maps | `inc_*`, `record_upstream_latency`, `get_snapshot`, a periodic dump | handler, resolvers, API |
| Query logger (`logger/`) | a channel of 1000 places for each sink, a ring buffer, a writer thread | `log`, the sinks | handler; API reads the ring |
| SQLite store (`db.rs`) | one table, two connections | `insert_log`, `prune_logs`, `get_stats`, `get_logs` | writer thread; API |
| Configuration and wiring (`config.rs`, `init.rs`, `main.rs`) | read-only after start | | everything |

How they interact: a query task reads the pause deadline, then the blocklist,
then the cache, then calls a resolver; between any two of these another query,
a spawned refresh, an API call, the clock or the updater may act. The updater
owns the receiving end of the trigger channel and replaces the blocklist
while queries are under way. The API server owns the only sender.

What is hard here, and what each component must therefore guarantee:

* **Handler.** The policy is read in two steps while it changes; fetches of
  one key overlap; a stale hit's refresh outlives its query; a task may die
  while sending. Must hold: a blocked name is not forwarded, a block is
  justified, answers belong to their question and are not too old, the cache
  is a map and loses entries only by replacement or eviction, no AAAA record
  leaks when IPv6 is off, counters and log agree with what was decided, every
  query ends, every stale answer is followed by a refresh.
* **Pause state.** A lock that can be poisoned, arithmetic that overflows, a
  status composed of two reads. Must hold: blocking comes back by itself,
  pauses do not add up, status answers are torn only by a real change.
* **Matcher.** A loop with slicing. Must hold: it computes the longest listed
  suffix on every name, and ends.
* **Manager.** Concurrent downloads that fail or break. Must hold: the merge
  has what was downloaded, charged to a list that has it; a bound on
  concurrency; the refresh ends.
* **Updater.** Interval, triggers, long refreshes. Must hold: no trigger is
  lost, updates stay regular, a forced update postpones the scheduled one.
* **Resolvers.** Concurrent calls share a counter and an index space. Must
  hold: each policy is an instance of "ask until one answers", in its order,
  in bounded time, and files latencies under the right upstream.
* **Statistics.** Tasks bump relaxed atomics and map entries one at a time,
  a report loads them one at a time. Must hold: what a report shows wrongly is
  bounded by what happened while it was made; the maps account for the totals; a
  top list omits nobody for a quieter one; samples stay with their upstream.
* **Query logger.** Bounded channels that drop, sinks that come up or not. Must
  hold: a full channel costs only its own sink, order is kept, the API is given
  a source that some sink writes, everything sent reaches its end.
* **SQLite store.** Two connections without transactions, a cleanup that
  follows inserts, restarts. Must hold: figures of one call contradict each
  other by no more than the inserts of the meantime; rows go by age only, and
  go in time.

## 2. Modules

| Module | Models | Used by |
|---|---|---|
| `DnsHandler` | the life of queries in the handler, with cache, blocklist, deadline, counters and log | `PolicyHistory`, `MCDnsHandler` |
| `PolicyHistory` | `DnsHandler` plus what each query could have seen of the policy | `DnsHandlerProofs`, `MCPolicyHistory` |
| `DomainNames` | names as label sequences; the verdict as a definition | `DomainMatcher` |
| `DomainMatcher` | `HashedMatcher::new` and the loop of `check` | `Blocking`, `MCDomainMatcher` |
| `AppState` | the pause deadline under its lock, and the API calls that use it | `AppStateProofs`, `MCAppState` |
| `BlocklistManager` | one `refresh` | `Blocking` |
| `Blocking` | `BlocklistManager` and `DomainMatcher` composed: from the list servers to a verdict | `BlockingProofs`, `MCBlocking` |
| `Updater` | the update loop, the trigger channel, the API server's sender | `UpdaterProofs`, `MCUpdater` |
| `ResolverSpec` | what callers of `resolve` rely on | `Resolver` |
| `Resolver` | the four policies, shown to implement `ResolverSpec` | `ResolverProofs`, `MCResolver` |
| `Stats` | `StatsCollector`: the bumps of queries against a snapshot or a dump | `StatsProofs`, `MCStats` |
| `SqliteStore` | the table, the writer thread, `get_stats`, restarts | `QueryLogger` |
| `QueryLogger` | `SqliteStore` behind the logger, its channels and sinks, with the API's `get_logs` | `QueryLoggerProofs`, `MCQueryLogger` |
| `FiniteLemmas` | no code: minima, maxima, images of and induction over finite sets | `DnsHandlerProofs`, `BlockingProofs`, `QueryLoggerProofs`, `StatsProofs` |

Each module with actions has one invariant named for it (`HandlerInv`,
`BlockingInv`, `StateInv`, `UpdaterInv`, `ResolverInv`, `StatsInv`,
`LoggerInv`): the type invariant, facts that strengthen it towards an inductive
one, and safety properties that rest on them. The runs check it; where there is
a proof module the theorem is about the same definition. (The invariants of
`PolicyHistory` and of the loop of `DomainMatcher` are in the proof modules.
So are three that strengthen `StatsInv`: `CountersExact`, `MapsExact` and
`SamplesBefore`. They sum over tasks and keys, which is too slow for the run of
three queries; TLC has agreed to them on two.)

### DnsHandler

Every query is one task; an action is the code between two points at which
another thread can be observed. `pc[q]` walks through `handle_request`:
`Receive` (479-483) or, for a packet without a question, `QuestionMissing` (the
`expect` of `get_query_info`, 166), `RefuseIpv6` (486-502), `ServeLocal` (323-351),
`CheckPause` and `ServeBlocked`/`PassBlocklist` (353-373, two separate reads),
`ServeFresh`/`ServeStale`/`MissCache` (375-416), then `resolve_and_serve`.
`fetch[t]` is the state of a call of `resolve_and_cache`, made by the query
(`<<q, "serve">>`) or by the refresh its stale hit spawned
(`<<q, "refresh">>`): `AskUpstream`, `FetchReply` (filter, TTL and deadlines),
then `StoreForeground`/`StoreBackground` (the insert, an await of its own) or
`FailForeground`/`FailBackground`. `Send` and `SendPanics` are the two
outcomes of `send_response(..).expect(..)`, `Log` the call of the logger.
`Pause`, `Resume`, `UpdateBlocklist`, `Evict` and `Tick` are the environment.
`Tick` cannot pass a call's `FetchTime`, which rests on the resolvers'
timeouts (`ReturnsInTime` of `Resolver`). `log` is a set, in which a line that
repeats another would not show; that no query is logged twice is the shape of
`Log`, which takes its task to `done`, and that its one line is the right one is
what `AuditTrail` says. `DecidedOnce`, `LoggedWhenDone` and
`CountedWhenDecided` tie the counters and the log to the place each task has
reached; `AuditTrail` and `LedgersAgree` follow from them.

Abstracted: the text of names (`Lower` is the conversion of `get_query_info`),
rdata, the counters by client and by domain (they are in `Stats`), and the TTL
on the wire. The
variables `askedAt` and the field `at` of an answer exist to state its age.

### PolicyHistory

`Witness` runs beside every step and records, for each query in progress,
whether the policy allowed its name and whether blocking was active in some
state of its life, and the ids of the lists that had its name in one. A block
must be charged to one of these ids. The stronger statement, that a
blocked query was active *and* listed in one and the same state, is false of
this code: the deadline and the list are two reads. A pause may start and a
list arrive between them. `BlockedOnlyWhenActive` says what does hold.

### DomainNames and DomainMatcher

A name is a sequence of labels, `"a.b."` being `<<"a", "b", "">>`. The state
machine keeps the index of the slice `part`; `LeavesLabel` is the pair of the
two exits of the `match` (no dot; nothing behind it). The allowlist is kept as
spelled, the lists are lowered by `parse_line`, the query by the handler. When
lists share a domain any of their ids may be the one kept (`Attributions`);
`BlocklistManager` says which.

### AppState

Widths are scaled: seconds are taken modulo `SecondsWidth` for the u64 product
of `duration_minutes * 60` (release builds wrap; a debug build panics before
it takes the lock), and the last `Instant` is `MaxInstant`. `PauseOverflows`
is the panic of `Instant + Duration` with the write guard held, which poisons
the lock; `UnwrapPoisoned` is what every later `unwrap` does. `disturbed`
remembers the status calls under which the answer changed.

### BlocklistManager

`Start` is `buffer_unordered` taking the next future in order; `Connect`,
`FetchFails`, `ReadAll` and `ReadBreaks` are one download, read to its end or
to a broken line; `Collect` and `Merge` build the map in the order of
`results`. Lists are numbered from 1 in the order of `get_blocklists_sorted`.

### Blocking

The map that `Merge` leaves is handed to `HashedMatcher::new`, and a name is
looked up in it. `DomainMatcher` by itself starts from any `Attributions` of
any lines; `HandOver` says that what a refresh leaves is one of them, whatever
failed, so what is proved of the matcher applies to it. `ListedIsBlocked` is
the promise end to end: a list read to its end blocks what is under its
domains, also when the other lists failed, and the block is charged to the
number of a list that has the domain (the last number for the lists past it). `QueryWaits` says that no name
is looked up before the refresh is done, as at startup.

### Updater

`deadline` is tokio's Interval with its default burst behaviour: a tick moves
it by one period, `interval.reset()` moves it to now plus a period. `Begin` is
the refresh, which `RefreshDone` ends, and `Install` the swap of the matcher.
`ApiBindFails` drops the sender; `ReceiveTrigger` is enabled by a message or
by the closed channel, since the pattern `_ = refresh_rx.recv()` also matches
`None`. Time 0 is when the loop starts. The refresh of startup began up to
`LongStart` before it (`main.rs:53`; it is awaited, and the resolvers are created
after it), so `begun` starts in the past, and the first scheduled refresh comes a
period after the loop started, not after that refresh began. `StartupIsOver`
and `DeadlineWithinPeriod` say that `begun` is in the past of 0 only until the
first refresh of the loop, and that the next tick is due no later than a period
after the last refresh, or the loop, began.

### Resolver and ResolverSpec

`Created` leaves out upstreams that cannot be created: the vectors are the
strictly increasing ones of configured places, and an index counts in the
vector that is left. An empty `upstream_servers` is the case of one upstream, the
default one. `Timeout` is the longest whole lookup of one upstream, not
`upstream_timeout_ms`: that is hickory's timeout for one attempt, and its
default makes a few. One action is the end of one lookup. `Following` is what
each policy asks next. `Idle` calls are mapped to pending ones of
`ResolverSpec`; `Implements` checks the refinement in every run of the model.

### Stats

`Bumps` is what one query adds to which counter, in the order of the calls in
`handle_request` and `resolve_and_cache`; `Bump` is one `fetch_add` or one map
entry. A packet without a question (outcome `"empty"`) bumps the total and its
client and then dies in `get_query_info`, before its domain is counted
(`dns_request_handler.rs:480-483`). When no task is under way the client map
therefore adds up to the total, and the domain map to the total less these
packets (`Unasked`). `counter` has all counters there could be; zero stands for a key that
is not in its map. A report (`get_snapshot`, or the dump) loads one group of counters that
a reader would compare: the totals; the queries and blocks of the clients or of
the domains; the blocks with their sources; the sum and the count of an
upstream. Loads change nothing, so following one group at a time loses no
behaviour, and the relaxed loads of a group come in any order, except that the
two walks over maps keep theirs because each shard has its lock. `SlotOf` is
the bound of the 16 upstream slots, `TopKeys` the sort and `take`. `start` is
what the counters of the group were when the report began; `LoadedBetween` says
that the report takes each at a value between that and the present one.

The stronger statements one would expect are false of this code: a snapshot may
show more blocks than queries, and a dump shares that exceed 100 percent.
`SnapshotBounded` and `SharesBounded` say by how much.

### SqliteStore and QueryLogger

`Built` is what `init.rs`, `logger/mod.rs` and `main.rs` make of the
configuration and of the two things that can fail, opening the database
(`opened`) and its second connection (`haveWriter`); `sinks` is the vector of
this process. `TrySend` is one step of
the loop in `QueryLogger::log`, `Deliver` one entry through a sink's task;
`pipe` is the unbounded channel to the SQLite thread. `Insert`/`InsertFails`
and then one of `NoCleanup`, `Prune`, `PruneFails` are one turn of
`run_sqlite_writer`; a row is stamped with the second of its insert, and an
entry, being one call of `log`, has at most one row. `GetStats`
and `Select` are the statements of `get_stats` on the API's connection, one at
a time; `GetLogs` is the set of lists `get_logs` may return, `Recent` of the
ring or `Selected` from the table, sorted by whole seconds. `Restart` ends the process at any
moment: the table stays, everything on its way is lost, and the database may
open this time or not.

`StoreInv` is what the store keeps for `FiguresBounded`: the statements of a
`get_stats` come in order (`StatementsInOrder`), and what each has read is
behind the table by no more than the inserts since (`CountsBehind`,
`ClientsBehind`, `SpanBehind`); `PrunedSinceCleanup` carries `RetentionKept`.
`LoggerInv` adds what the sinks keep of the log: `SinkGaps`, `SentOnce`,
`InOrder`, `Printed` and `TableFollowsPipe`. `ApiServesLog` compares the API's
source with what the console sinks together have taken.

## 3. Runs

| Run | What it asks | Instance |
|---|---|---|
| `handler_cache` | `HandlerInv` with one entry per key and no AAAA leak; answers match questions; age of answers; entries kept | 2 queries, 2 spellings, a name with a local record that is also listed, pauses, 3 types, answers `{}` and TTLs 0 and 2 around `min_ttl` 1, grace 1, capacity 1, 4 instants |
| `handler_policy` | no forwarding of blocked names, justified blocks, one log line for each answered query, counters against log, no AAAA leak; every query ends, every stale answer is refreshed | 2 queries, pause of 1, 3 matchers (the name on neither or on one of two lists), answers with both families, failures, dying tasks, `disable_ipv6`, 2 instants |
| `blocking_path` | `BlockingInv` (bound on downloads, justified sources, nothing forgotten, the hand-over), the loop against the definition, listed names are blocked, a verdict is reached | 3 lists, 2 at a time, ids up to 1, failures and cuts at every line; all names of up to 3 labels over 4 labels (empty and capital included), 3 allowlists |
| `matcher_allowlist` | violated: see below | the names above, all pairs of 10 entries |
| `state_pause` | `StateInv` (pauses do not add up), torn status, blocking comes back | 3 callers, 4 durations (one wraps to zero, one overflows), 7 instants |
| `state_overflow` | violated | one overflowing duration |
| `updater_loop` | `UpdaterInv` (no trigger lost), regular updates, forced resets, triggers served | 3 triggers, period 2, a startup of 0 to 4, refreshes of 0 to 3, 9 instants |
| `updater_stalled` | violated | a list server that may stall |
| `updater_port_taken` | violated | a bind that may fail |
| `resolver_policies` | refinement of `ResolverSpec`, `ResolverInv` (order), balance, time, names of latencies, return | 2 calls, vectors of 1 to 3 of 3 upstreams, all policies |
| `stats_snapshot` | `StatsInv` (maps add up to totals but for packets without a question), bounds on torn snapshots and dumps, top lists, latencies | 3 queries of 7 kinds, 2 clients, 2 domains, 2 sources, 1 slot for 2 upstreams, top lists of 1 |
| `log_store` | `LoggerInv` (gaps of a sink's own, order), figures, the API's source and order, retention, rows go by age, everything drains | 3 entries of 2 clients, console or SQLite sink with every outcome of opening the database, channels of 1, ring and limit of 2, retention 1, 3 instants, 1 restart |

Why these bounds are enough to be interesting. Two queries are the smallest
number at which one fills the cache and another hits it, at which a refresh
overlaps a miss, and at which two fetches of one key finish in either order.
The clock of `handler_cache` is long enough for a fetch, a TTL, the grace period
and one tick beyond; that of `handler_policy` for the end of a pause and a stale
hit, while ages and expiry are left to the former. Capacity 1 makes eviction happen with two keys. Three
labels give the loop a first, a middle and a last step, and the empty label in
each place. Three lists at two downloads make one list wait; `MaxSource = 1`
makes the third share an id. Three triggers give one that is being
received, one in the channel and one that waits. Refreshes longer than the
period cause the bursts of missed ticks, and a startup longer than the period
makes the first cycle the longest. Two list ids tell a block charged to the
wrong list from one charged to the right one. Three upstreams distinguish the next
from the first and the last. A second upstream without a slot shows what
becomes of its samples; a top list of one has to leave a client out. Three
entries overfill a channel of one place and a ring of two, and are two of a
second and one of another; an interval of zero makes a cleanup due one second
after the last. Clocks stop at `MaxTime`; where that would
deadlock, `Idle`, `Rest` or `Done` name the state in which nothing is left to
do, and TLC's deadlock check stays on everywhere.

`handler_cache` and `stats_snapshot` use symmetry over their queries, which
nothing tells apart but what they ask; they check invariants and one action
property that does not name a query. No other run uses symmetry: most check
liveness, for which it is not sound.

### Fairness

* `Fairness` of `DnsHandler`, in `LivePolicySpec`: weak fairness of each
  query's task, of its resolver call and of its refresh. The runtime polls every
  ready task, no lock is held over an await, and a lookup ends when its last
  attempt times out.
  The clock is not fair.
* `AppState`: time passes and every task is polled.
* `Updater!Spec`: the loop is polled, time passes, a task that waits to send
  proceeds. `AnsweringSpec` adds that a refresh ends, which the code does not
  guarantee: `updater_stalled` shows what happens without it. `BlockingSpec`
  makes the same assumption. What `TriggersServed` and `VerdictReached` say is
  therefore conditional on list servers that end their answers.
* `Resolver`: every lookup ends (`opts.timeout`, for each of hickory's attempts).
* `QueryLogger!Spec`: the loop of `log` goes on, a sink's task receives, the
  SQLite thread takes its next step; nothing is promised of the clock, of
  restarts or of the API.
* `DomainMatcher` and `Stats` have safety properties only.

## 4. Where the code and its documentation disagree

Four runs are expected to be violated; `PROJECT.json` quotes the sentences.

* `matcher_allowlist`: an allowlist entry spelled with a capital letter never
  matches (`domain_matcher.rs:23` keeps the spelling).
* `state_overflow`: one pause with a duration too long for an `Instant`
  poisons the lock; from then on every query that reaches the pause check, and
  every pause, resume and status call, panics (`state.rs:30`).
* `updater_stalled`: the HTTP client has no timeout, so one server that never
  ends its answer stops all later updates (`blocklist_manager.rs:28`, 63).
* `updater_port_taken`: when port 8080 is taken the closed channel is read as
  a stream of triggers, and the lists are fetched without a pause
  (`main.rs:151`).

Met while modelling, and not made into runs: `cache.enable` (`config.rs:85`)
is read by no code; an upstream that cannot be created shifts the names under
which latencies are filed (the hypothesis of `SamplesNamed`); sequential and
round-robin latencies include the time of the upstreams that failed before
(`begun` against `askedAt` in `Sample`); `interval_hours = 0` panics in the
spawned updater; a packet without a question panics its task (`QuestionMissing`;
that hickory hands one on is assumed); `concurrent_downloads = 0` never starts a download; the first
refresh is awaited before the DNS socket is bound. `config.rs:161` says
"Retention period for SQLite logs in hours.", but a process that is restarted
more often than once an hour, or that logs nothing, never prunes: the hypothesis
of `RetentionKept` is a process that has been up for longer than the interval,
and it speaks of the moments after an entry. `stats.enable` (`config.rs:169`)
is read by no code. `log_all_queries` is "(allowed & blocked)"
(`config.rs:129`), but the console prints blocked queries by `log_blocked`
alone (`ShouldLog`). When the database opens and its second connection fails,
the API serves a table that nobody writes (the exception in `ApiServesLog`).

## 5. Proofs

`tlapm` checks all of them for every value of the constants, under the named
assumption of each module:

* `HandlerAssumption`, `UpdaterAssumption`, `MatcherAssumption`: the types of the
  configuration, an idempotent `Lower`, finite sets of queries, records and
  triggers, numbers for the times and a positive period.
* `StateAssumption`: durations, widths and the last instant are numbers, and
  `None` is not one.
* `ResolverAssumption`: at least one upstream, a positive counter width, times
  that are numbers.
* `BlockingAssumption` with `ManagerAssumption`: at least one list and one
  download at a time (with zero the code never starts one), contents that are
  sequences of lines, and domains that `parse_line` can yield, non-empty
  and in lower case.
* `LoggerAssumption` with `StoreAssumption`: positive capacities, a retention and
  an interval that are numbers, configurations that are lists of sink names.
* `StatsAssumption`: finitely many queries, clients, domains and list ids (the
  ids are bytes, addresses and names have bounded lengths, and up to any moment
  there were finitely many queries), at least one slot, and top lists of at
  least one key.

Two theorems have a hypothesis besides. `FirstTurnsBalanced` is about fewer calls
than `CounterWidth` (2^64 in the code), because the turn is not balanced where
the counter wraps. `RefreshesRegularly` is about servers that end their answers;
`updater_stalled` shows that it is false without. Its bound is a period or the
longest refresh, and until the loop's first refresh a period and the longest
startup, since the interval is created after the refresh of startup.

* `DnsHandlerProofs`: `TypeCorrect`, `HandlerInvariant`, and from it
  `Ipv6NeverLeaks`, `AnswersMatchQuestions`, `AnswersAreRecent`,
  `CacheIsAMap`, `ServeStaleSurvives`. None of the safety properties is
  inductive alone: an answer's age and question come from an entry, which was
  put together in an earlier step of another task. `HandlerInv` therefore
  says of every entry, cached or about to be (`SoundEntries`), that it is
  filed under its question, is free of AAAA records if it must be, and got its
  deadlines within `FetchTime` of being asked for; that calls under way are in
  time (`FetchesOnTime`); that a task at the blocklist is past the IPv6 check;
  and that what is being sent was decided. The proof has one lemma for each
  part (`EntriesStep`, `PastIpv6Step`, `AnswersStep`) and one step for each
  action. `EveryAnswerIsLogged` and `LedgersAlwaysAgree` rest on three more parts
  that make each counter the number of tasks past a place: `DecidedOnce`,
  `LoggedWhenDone`, `CountedWhenDecided`.
* `DnsHandlerProofs`, of `PolicyHistory`: `PolicyInvariant`,
  `BlockedNamesStayBlocked`, `BlocksAreJustified`. The invariant adds that the
  present state, with the list that has the name in it, has been witnessed by
  every query in progress, and that a task past a check has
  passed it truly (`ReadsTrue`).
* `UpdaterProofs`: `UpdaterInvariant`, `TypeCorrect`, `TriggersKept`,
  `ForcedUpdatesReset`, `RefreshesRegularly`. That a scheduled refresh is a period
  behind a forced one needs the deadline to be a period behind it
  (`DeadlineAfterForced`), which `interval.reset()` establishes and every tick
  keeps; that none is late needs the other bound (`DeadlineWithinPeriod`), which
  counts from the loop's start as long as the last refresh is that of startup
  (`StartupIsOver`).
* `BlockingProofs`, of the matcher alone: `CheckComputesVerdict`,
  `ListedDomainsBlock`. The invariant says that every suffix the loop has stripped past is unlisted and
  that the slice it is at may be looked at.
* `BlockingProofs`, of the path: `BlockingInvariant`, `DownloadedVerdict`,
  `ListedNamesAreBlocked`. `RefreshInv` is kept by every step of the downloads,
  failures and cuts included; at the hand-over it makes the merged map one of
  `Attributions`, from which point the invariant of the loop (`LoopInv`, proved
  with the matcher) takes over. `PathInv` is the two together. The verdict then
  names a list, and completeness of the lists read to their end
  gives `ListedIsBlocked`.
* `AppStateProofs`: `StateInvariant`, `OnePauseAtATime`, `StatusTornOnlyByChange`.
  The status call reads twice; the invariant says that the first answer still
  holds at the second read unless the call is in `disturbed`.
* `ResolverProofs`: `ResolverInvariant`, `CallsInTime`, `LatenciesNamed`,
  `FirstTurnsBalanced`, and `PoliciesImplementSpec`, the refinement of
  `ResolverSpec`: every step of every policy is one of its steps or a stutter.
  `TurnsInv` says that round-robin's counter is the number of calls begun, and
  that the upstreams up to its remainder have had one turn more than the others.
* `QueryLoggerProofs`: `LoggerInvariant`, `StatsWithinInserts`, `SourceServesLog`,
  `ApiListsNewestFirst`, `OnlyOldRowsLeave`, `RetentionHolds`. A channel is a
  window on what it accepted, and what is behind it (ring, console, pipe, table)
  is a part of the rest, in its order. `TrySendStep`, `DeliverStep`,
  `InsertStep` and `RestartMoves` are the steps that move entries;
  `SinksBuilt` says that at most one sink writes the table and at most one the
  ring, for every configuration and every failure at startup. `SelectedIs` and
  `RecentIs` describe what `GetLogs` returns; `LeastOfNat` and `GreatestUpTo`
  give the minimum and maximum of timestamps that `get_stats` reads.
* `StatsProofs`: `StatsInvariant`, `CountersAreExact`, `SnapshotsBounded`,
  `SharesAddUp`, `TopListsOmitNobody`, `LatenciesKept`. That the maps agree with
  the totals is not inductive: it follows from every counter being the sum of
  what each task has added to it so far (`CountersExact`), and a map the sum of
  what the tasks have added under any of its keys (`MapsExact`).
  `BumpsAre` lists what a query bumps and `BumpsOnce` says that no field comes
  twice, so one bump changes one term of a sum (`SumGrows`).
  `AddedByPlace` turns sums into comparisons of how far each task is, from
  which `AllCounted` follows task by task, with the packets without a question
  counted apart, and so does every client and domain
  having at most as many blocks as queries (`BlocksUnderQueries`).
  `LoadedBetween` then bounds what is shown. `LatencyKept` needs one
  more invariant, `SamplesBefore`: no report began at which the samples counted
  for an upstream were more than its milliseconds account for. Sums are folds,
  about which the library has no first-order theorem; `AddsExists` shows that
  the fold is defined on every finite set, and the laws of sums are proved by
  `SubsetInduction`, an induction over the subsets of a finite set with a set in
  the place of a predicate.

Checked by TLC only is liveness:
`EveryQueryEnds`, `StaleRefreshed`, `VerdictReached`, `BlockingComesBack`,
`TriggersServed`, `CallsReturn`, `LogsDrain`. Liveness under fairness and
`ENABLED` are out of the prover's reach, and so is what a recursive definition
computes for every input; no module here declares a `RECURSIVE` operator.

## 6. What is not modelled

* The order of startup, `ctrl_c`, and the sockets of hickory-server.
* Bootstrapping of upstream hosts and the protocols of upstreams: the outcome
  is the set of upstreams left out and the end of each lookup.
* `config.rs` deserialization and defaults, `build.rs`, `setup_logging`, the
  web UI: data or layout without state.
* The inside of moka, tokio, reqwest and SQLite, which are modelled by what
  the code sees of them.
* Of statistics: the times of a snapshot and the wording of a dump; counters at
  the end of 64 bits.
* Of logging: the text of console lines; the source id, which `get_logs` loses
  on its way through the table. An entry in the hands of a sink's task counts as
  one still in its channel. A configuration with both console and SQLite is not
  in TLC's instance; `QueryLoggerProofs` covers every list of sinks.
* Of SQLite: migrations, panics of `prepare(..).unwrap()` and the mutex they
  poison, a wall clock that is set back, and the time between the stamp of a row
  and its commit, which is at most `busy_timeout`.
* The lists of domains in `get_stats`, which are those of the clients over
  another column, and the `LIMIT 5` that ends them.

## 7. Plan

Done, in this order: `DnsHandler` and its proofs, `PolicyHistory` and its
proofs, `DomainMatcher` and its proofs, `AppState`, `BlocklistManager`,
`Updater` and its proofs, `Resolver`, `Blocking`, `Stats`, `SqliteStore`,
`QueryLogger`; then the proofs of `AppState`, `Resolver`, `Blocking` and
`QueryLogger`, those of the handler's ledgers and of regular updates, and those
of `Stats`. Every safety property that a run checks and expects to hold is now
also the statement of a theorem.

Compositions left: the updater with the manager's refresh in place of
`RefreshDone`, and the handler's log entries into the logger.
