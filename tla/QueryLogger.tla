----------------------------- MODULE QueryLogger -----------------------------
(***************************************************************************)
(* QueryLogger (logger/mod.rs) and its sinks, as init.rs and main.rs put   *)
(* them together with the API's data source: tasks hand their entries to   *)
(* one bounded channel per sink with try_send, a task per sink passes them *)
(* on to the console, the ring buffer or the SQLite thread.                *)
(***************************************************************************)
EXTENDS SqliteStore

CONSTANTS
    Configs,      \* values of config.logging.query_log_sinks
    ChannelCap,   \* 1000
    RingCap,      \* capacity of the MemoryLogSink, 100
    Limit,        \* number of logs the API asks for, 100
    LogBlocked,   \* config.logging.log_blocked
    LogAll,       \* config.logging.log_all_queries
    MaxRestarts   \* bound on the number of restarts

ASSUME LoggerAssumption ==
    /\ StoreAssumption
    /\ ChannelCap \in Nat \ {0} /\ RingCap \in Nat \ {0} /\ Limit \in Nat
    /\ Configs \subseteq Seq(STRING) /\ MaxRestarts \in Nat

VARIABLES
    config,    \* config.logging.query_log_sinks
    opened,    \* init_sqlite_db returned a client
    haveWriter,\* create_log_writer succeeded
    sinks,     \* the kind of each of QueryLogger.sinks
    at,        \* the sink to which the `log` call of an entry sends next, or
               \* Cut when the process ended after its first send
    queue,     \* the channel of each sink
    ring,      \* the buffer of the MemoryLogSink, oldest first
    printed,   \* entries the ConsoleLogSink let through
    accepted,  \* history: what each sink's channel has taken in this run
    restarts   \* history, for the bound

wiring == <<config, opened, haveWriter, sinks>>
vars == <<storeVars, wiring, at, queue, ring, printed, accepted, restarts>>

-----------------------------------------------------------------------------
\* Mutant of MemorySink: it depends on the configuration, not on
\* what became of the database.
MemorySinkByConfig == IF "sqlite" \in Range(config) THEN <<>> ELSE <<"memory">>

\* create_memory_source: only when there is no database to serve the API from.
MemorySink == IF opened THEN <<>> ELSE <<"memory">>

\* The writer is taken by the first "sqlite"; unknown names are skipped.
Kept(i) ==
    \/ config[i] = "console"
    \/ config[i] = "sqlite" /\ haveWriter /\ \A j \in 1..(i - 1) : config[j] # "sqlite"

Enumerations(S) ==
    {p \in UNION {[1..n -> S] : n \in 0..Cardinality(S)} :
        Range(p) = S /\ \A i, j \in DOMAIN p : i < j => p[i] < p[j]}

\* QueryLogger::new: the sinks that are kept, in the order of the configuration,
\* and the extra one.
Built ==
    {[k \in DOMAIN p |-> config[p[k]]] \o MemorySink :
        p \in Enumerations({i \in DOMAIN config : Kept(i)})}

Smaller(a, b) == IF a < b THEN a ELSE b
Larger(a, b) == IF a > b THEN a ELSE b

SinkIds == 1..Len(sinks)
Source == IF opened THEN "sqlite" ELSE "memory"

\* What opening the database and its second connection may come to.
Wired ==
    /\ opened' \in IF "sqlite" \in Range(config') THEN BOOLEAN ELSE {FALSE}
    /\ haveWriter' \in IF opened' THEN BOOLEAN ELSE {FALSE}
    /\ sinks' \in Built'

Empty == [k \in SinkIds |-> <<>>]

Init ==
    /\ StoreInit
    /\ config \in Configs
    /\ opened \in IF "sqlite" \in Range(config) THEN BOOLEAN ELSE {FALSE}
    /\ haveWriter \in IF opened THEN BOOLEAN ELSE {FALSE}
    /\ sinks \in Built
    /\ at = [e \in Entries |-> 1]
    /\ queue = Empty /\ accepted = Empty
    /\ ring = <<>> /\ printed = {} /\ restarts = 0

Cut == 0

\* Mutant of AfterSend: a full channel ends the loop.
AfterSendBreaks(e) == IF Len(queue[at[e]]) < ChannelCap THEN at[e] + 1 ELSE Len(sinks) + 1
AfterSend(e) == at[e] + 1

\* try_send to the next sink; a full channel drops the entry.
TrySend(e) ==
    /\ at[e] \in SinkIds
    /\ at' = [at EXCEPT ![e] = AfterSend(e)]
    /\ IF Len(queue[at[e]]) < ChannelCap
       THEN /\ queue' = [queue EXCEPT ![at[e]] = Append(@, e)]
            /\ accepted' = [accepted EXCEPT ![at[e]] = Append(@, e)]
       ELSE UNCHANGED <<queue, accepted>>
    /\ UNCHANGED <<storeVars, wiring, ring, printed, restarts>>

ShouldLog(e) == IF Kind[e].action = "Blocked" THEN LogBlocked ELSE LogAll

\* MemoryLogSink::log: the oldest entry makes place.
Pushed(e) == Append(IF Len(ring) >= RingCap THEN Tail(ring) ELSE ring, e)

\* The task of sink k receives an entry and logs it: an entry in its hands
\* counts as one still in the channel.
Deliver(k) ==
    /\ queue[k] # <<>>
    /\ queue' = [queue EXCEPT ![k] = Tail(@)]
    /\ LET e == Head(queue[k])
       IN  /\ ring' = IF sinks[k] = "memory" THEN Pushed(e) ELSE ring
           /\ printed' = printed \cup {x \in {e} : sinks[k] = "console" /\ ShouldLog(e)}
           /\ pipe' = IF sinks[k] = "sqlite" THEN Append(pipe, e) ELSE pipe
    /\ UNCHANGED <<now, rows, writer, lastCleanup, booted, gone, pruneFailed,
                   reading, inserted, wiring, at, accepted, restarts>>

StoreStep ==
    /\ opened
    /\ (haveWriter /\ WriterStep) \/ GetStats \/ Select
    /\ UNCHANGED <<wiring, at, queue, ring, printed, accepted, restarts>>

\* Only the database and its thread look at the clock.
Clock == opened /\ Tick /\ UNCHANGED <<wiring, at, queue, ring, printed, accepted, restarts>>

\* The database may open this time, or fail to.
Restart ==
    /\ restarts < MaxRestarts
    /\ restarts' = restarts + 1
    /\ StoreRestart
    /\ config' = config /\ Wired
    /\ at' = [e \in Entries |-> IF at[e] = 1 THEN 1 ELSE Cut]
    /\ queue' = Empty' /\ accepted' = Empty'
    /\ ring' = <<>> /\ printed' = {}

Stored == {row.entry : row \in rows}

Pending ==
    \/ \E e \in Entries : at[e] \in SinkIds
    \/ \E k \in SinkIds : queue[k] # <<>>
    \/ pipe # <<>> \/ writer # "recv"

Idle == ~Pending /\ UNCHANGED vars

Next ==
    \/ \E e \in Entries : TrySend(e)
    \/ \E k \in SinkIds : Deliver(k)
    \/ StoreStep \/ Clock \/ Restart \/ Idle

\* The tasks and the thread go on as long as they have something to do.
Spec ==
    /\ Init /\ [][Next]_vars
    /\ WF_vars(\E e \in Entries : TrySend(e))
    /\ WF_vars(\E k \in SinkIds : Deliver(k))
    /\ WF_vars(StoreStep /\ WriterStep)

-----------------------------------------------------------------------------
\* The memory source reads the buffer from its end.
Recent == {SubSeq(Reverse(ring), 1, Smaller(Limit, Len(ring)))}

\* The database sorts by the second and leaves the order within one open.
NewerFirst(t) == \A i, j \in DOMAIN t : i < j => t[i].timestamp >= t[j].timestamp

Latests == {ids \in kSubset(Smaller(Limit, Cardinality(rows)), rows) :
               \A r \in ids, s \in rows \ ids : r.timestamp >= s.timestamp}

Selected == {[i \in DOMAIN t |-> t[i].entry] :
                t \in {t \in UNION {SetToSeqs(ids) : ids \in Latests} : NewerFirst(t)}}

\* What get_logs may return, by the source the API was given.
GetLogs == IF Source = "memory" THEN Recent ELSE Selected

-----------------------------------------------------------------------------
TypeOK ==
    /\ config \in Configs /\ opened \in BOOLEAN /\ haveWriter \in BOOLEAN
    /\ sinks \in Built
    /\ at \in [Entries -> 0..(Len(sinks) + 1)]
    /\ queue \in [SinkIds -> Seq(Entries)] /\ accepted \in [SinkIds -> Seq(Entries)]
    /\ \A k \in SinkIds : Len(queue[k]) <= ChannelCap
    /\ ring \in Seq(Entries) /\ Len(ring) <= RingCap
    /\ printed \subseteq Entries /\ restarts \in 0..MaxRestarts

\* No writer without a database, no database that was not configured.
WiringOK == (haveWriter => opened) /\ (opened => "sqlite" \in Range(config))

\* Every sink gets every entry of its run, unless its own channel filled up:
\* what one sink misses the others still get.
SinkGaps ==
    \A e \in Entries, k \in SinkIds :
        at[e] > k /\ e \notin Range(accepted[k]) => Len(accepted[k]) >= ChannelCap

\* A sink's channel takes an entry once, when its turn has come.
SentOnce ==
    \A k \in SinkIds : \A i, j \in DOMAIN accepted[k] :
        at[accepted[k][i]] > k /\ (accepted[k][i] = accepted[k][j] => i = j)

\* The entries a buffer of RingCap places keeps of those it was given.
Newest(given) == SubSeq(given, Larger(1, Len(given) - RingCap + 1), Len(given))

\* What has come out of the channel of sink k, and of the pipe behind it.
Delivered(k) == Len(accepted[k]) - Len(queue[k])
Handled(k) == Delivered(k) - Len(pipe)
IsSqlite(k) == k \in SinkIds /\ sinks[k] = "sqlite"

\* A channel delivers in order and once; the buffer holds the last of what came
\* out of its channel, and the pipe what the thread has not taken yet.
InOrder ==
    \A k \in SinkIds :
        /\ Len(queue[k]) <= Len(accepted[k])
        /\ queue[k] = SubSeq(accepted[k], Delivered(k) + 1, Len(accepted[k]))
        /\ sinks[k] = "memory" => ring = Newest(SubSeq(accepted[k], 1, Delivered(k)))
        /\ IsSqlite(k) => /\ Len(pipe) <= Delivered(k)
                          /\ pipe = SubSeq(accepted[k], Handled(k) + 1, Delivered(k))

\* The console shows what was delivered to a console sink and its switches let
\* through.
Printed ==
    printed = {e \in UNION {{accepted[k][i] : i \in 1..Delivered(k)} :
                               k \in {i \in SinkIds : sinks[i] = "console"}} : ShouldLog(e)}

\* A row is of an earlier run or of an entry the thread has handled, and an
\* entry has one; what was handled has its row, unless that failed or was
\* pruned, and rows of entries handled later are not older.
TableFollowsPipe ==
    /\ \A row \in rows : \/ at[row.entry] = Cut
                         \/ \E k \in SinkIds : /\ IsSqlite(k)
                                               /\ \E i \in 1..Handled(k) : accepted[k][i] = row.entry
    /\ \A r, s \in rows : r.entry = s.entry => r = s
    /\ \A k \in SinkIds : IsSqlite(k) =>
          /\ \A i \in 1..Handled(k) : accepted[k][i] \in gone \cup Stored
          /\ \A r, s \in rows : \A i, j \in 1..Handled(k) :
                i < j /\ r.entry = accepted[k][i] /\ s.entry = accepted[k][j]
                    => r.timestamp <= s.timestamp

\* What every step of the logger keeps.
LoggerInv ==
    /\ TypeOK
    /\ WiringOK
    /\ SinkGaps
    /\ SentOnce
    /\ InOrder
    /\ Printed
    /\ TableFollowsPipe
    /\ StoreInv

\* Whatever the database did at startup, the API's source shows what a sink
\* writes: once nothing is under way, the buffer holds the last entries of its
\* channel, and the table each entry of its own that neither failed to be
\* inserted nor was pruned.  (Without a writer nothing is written.)  The
\* console has the entries its two switches let through.
ApiServesLog ==
    ~Pending =>
        /\ \/ Source = "sqlite" /\ ~haveWriter
           \/ \E k \in SinkIds :
                 /\ sinks[k] = Source
                 /\ Source = "memory" =>
                       ring = Newest(accepted[k])
                 /\ Source = "sqlite" =>
                       Range(accepted[k]) \subseteq gone \cup Stored
        /\ printed = {e \in UNION {Range(accepted[k]) : k \in {i \in SinkIds :
                             sinks[i] = "console"}} : ShouldLog(e)}

\* The entries that the source holds, and the seconds of an entry's rows.
Held == IF Source = "memory" THEN Range(ring) ELSE Stored
Seconds(e) == {row.timestamp : row \in {r \in rows : r.entry = e}}

\* The order of a channel survives the task, the thread, the table and its
\* ORDER BY: of two entries of one sink the API never lists the older one
\* without the newer one before it, except rows written in the same second.
NewestFirst ==
    \A k \in SinkIds, list \in GetLogs :
        sinks[k] = Source =>
            \A a, b \in DOMAIN accepted[k], i \in DOMAIN list :
                a < b /\ list[i] = accepted[k][a] /\ accepted[k][b] \in Held =>
                    \/ \E j \in 1..(i - 1) : list[j] = accepted[k][b]
                    \/ Source = "sqlite" /\ Seconds(accepted[k][a]) = Seconds(accepted[k][b])

\* What was sent reaches its end, and the thread is ready for more: no failed
\* insert or cleanup stops it.
LogsDrain == <>[]~Pending
=============================================================================
