----------------------------- MODULE SqliteStore -----------------------------
(***************************************************************************)
(* The query_logs table (db.rs), the thread that writes and prunes it      *)
(* (logger/sqlite_sink.rs) and the API's get_stats, which runs one SELECT  *)
(* after the other on a connection of its own, outside a transaction.      *)
(*                                                                         *)
(* Each statement is atomic.  Rows outlive the process; the pipe to the    *)
(* thread and the time of its last cleanup do not.  The clock counts whole *)
(* seconds in the code and never goes back here.                           *)
(***************************************************************************)
EXTENDS Integers, Sequences, FiniteSets, FiniteSetsExt, SequencesExt

CONSTANTS
    Entries,       \* the log entries
    Kind,          \* [Entries -> [client, action]]
    Retention,     \* config.logging.sqlite_retention_hours
    CleanupEvery,  \* 3600 s
    MaxTime

Actions == {"Blocked", "Local", "Cached", "Forwarded"}

StoreAssumption ==
    /\ Retention \in Nat /\ CleanupEvery \in Nat /\ MaxTime \in Nat \ {0}
    /\ \A e \in Entries : Kind[e].action \in Actions

VARIABLES
    now,          \* the wall clock
    pipe,         \* std::sync::mpsc channel to the thread, unbounded
    rows,         \* the table, a set of [entry, timestamp]: an entry is one call
                  \* of log and has one row
    writer,       \* the thread: "recv", "cleanup" (entry handled), "stopped"
    lastCleanup,  \* last_cleanup of run_sqlite_writer
    query,        \* the statements get_stats has still to run
    figures,      \* what it has read, by statement
    \* history:
    booted,       \* when this process started
    gone,         \* entries that failed to be inserted or were pruned
    pruneFailed,  \* a cleanup of this process failed
    inserted      \* rows inserted since get_stats began

store == <<now, pipe, rows, writer, lastCleanup, booted, gone, pruneFailed>>
reading == <<query, figures>>
storeVars == <<store, reading, inserted>>

StoreInit ==
    /\ now = 1 /\ pipe = <<>> /\ rows = {} /\ writer = "recv" /\ lastCleanup = 1
    /\ query = <<>> /\ figures = [s \in {} |-> 0]
    /\ booted = 1 /\ gone = {} /\ pruneFailed = FALSE /\ inserted = 0

-----------------------------------------------------------------------------
Insert ==
    /\ writer = "recv" /\ pipe # <<>>
    /\ rows' = rows \cup {[entry |-> Head(pipe), timestamp |-> now]}
    /\ pipe' = Tail(pipe)
    /\ writer' = "cleanup"
    /\ inserted' = IF query = <<>> THEN inserted ELSE inserted + 1
    /\ UNCHANGED <<now, lastCleanup, reading, booted, gone, pruneFailed>>

\* Mutants of InsertFails: the error ends the thread; the entry is put back.
InsertFailsStops ==
    /\ writer = "recv" /\ pipe # <<>>
    /\ writer' = "stopped"
    /\ UNCHANGED <<now, pipe, rows, lastCleanup, reading, booted, gone,
                   pruneFailed, inserted>>
InsertFailsRequeues ==
    /\ writer = "recv" /\ pipe # <<>>
    /\ pipe' = Append(Tail(pipe), Head(pipe))
    /\ writer' = "cleanup"
    /\ UNCHANGED <<now, rows, lastCleanup, reading, booted, gone,
                   pruneFailed, inserted>>

\* Another connection held the lock for longer than busy_timeout, or the disk
\* is full: the entry is lost.
InsertFails ==
    /\ writer = "recv" /\ pipe # <<>>
    /\ pipe' = Tail(pipe)
    /\ gone' = gone \cup {Head(pipe)}
    /\ writer' = "cleanup"
    /\ UNCHANGED <<now, rows, lastCleanup, reading, booted, pruneFailed,
                   inserted>>

CleanupDue == now - lastCleanup > CleanupEvery

\* The cleanup is considered after every entry, and only then.
CleanUp ==
    /\ writer = "cleanup"
    /\ writer' = "recv"
    /\ UNCHANGED <<now, pipe, reading, booted, inserted>>

NoCleanup ==
    /\ ~CleanupDue /\ CleanUp
    /\ UNCHANGED <<rows, lastCleanup, gone, pruneFailed>>

\* Mutant of Expired: the retention is counted from the last cleanup.
ExpiredBefore(row) == row.timestamp < lastCleanup - Retention

Expired(row) == row.timestamp < now - Retention

\* DELETE ... WHERE timestamp < cutoff.
Prune ==
    /\ CleanupDue /\ CleanUp
    /\ rows' = {row \in rows : ~Expired(row)}
    /\ gone' = gone \cup {row.entry : row \in rows \ rows'}
    /\ lastCleanup' = now
    /\ UNCHANGED pruneFailed

PruneFails ==
    /\ CleanupDue /\ CleanUp
    /\ lastCleanup' = now
    /\ pruneFailed' = TRUE
    /\ UNCHANGED <<rows, gone>>

WriterStep == Insert \/ InsertFails \/ NoCleanup \/ Prune \/ PruneFails

Tick ==
    /\ now < MaxTime
    /\ now' = now + 1
    /\ UNCHANGED <<pipe, rows, writer, lastCleanup, reading, booted, gone,
                   pruneFailed, inserted>>

-----------------------------------------------------------------------------
\* Mutant of Matching: the statement of the hits lost its WHERE.
MatchingAny(action) == rows

Matching(action) == {row \in rows : Kind[row.entry].action = action}

OfClient(matching, c) == {row \in matching : Kind[row.entry].client = c}

\* GROUP BY client_ip, as a function; the client that is missing has no row.
ByClient(matching) ==
    [c \in {Kind[row.entry].client : row \in matching} |->
        Cardinality(OfClient(matching, c))]

Times == {row.timestamp : row \in rows}

\* MIN of no rows is NULL, read as 0, and MAX of no rows as the time.
Earliest == IF rows = {} THEN 0 ELSE Min(Times)
Latest == IF rows = {} THEN now ELSE Max(Times)

Result(statement) ==
    CASE statement = "total_queries"   -> Cardinality(rows)
      [] statement = "blocked_queries" -> Cardinality(Matching("Blocked"))
      [] statement = "cache_hits"      -> Cardinality(Matching("Cached"))
      [] statement = "top_clients"     -> ByClient(rows)
      [] statement = "top_blocked_clients" -> ByClient(Matching("Blocked"))
      [] statement = "started_at" -> Earliest
      [] statement = "updated_at" -> Latest

\* SELECTs change nothing: a call is followed through those of its statements
\* that are compared.  (The lists of domains are those of the clients over
\* another column; LIMIT 5 cuts off their ends.)
StatsParts ==
    {<<"total_queries", "blocked_queries", "cache_hits">>,
     <<"top_clients", "top_blocked_clients">>, <<"started_at", "updated_at">>}

GetStats ==
    /\ query = <<>> /\ figures = [s \in {} |-> 0]
    /\ query' \in StatsParts
    /\ inserted' = 0
    /\ UNCHANGED <<store, figures>>

Select ==
    /\ query # <<>>
    /\ figures' = [s \in DOMAIN figures \cup {Head(query)} |->
                      IF s = Head(query) THEN Result(s) ELSE figures[s]]
    /\ query' = Tail(query)
    /\ UNCHANGED <<store, inserted>>

\* Mutant of Reopened: initialize makes a new table.
ReopenedEmpty == {}

\* CREATE TABLE IF NOT EXISTS: the rows of earlier runs are kept.
Reopened == rows

\* The process ends and starts again; what was on its way is lost.
StoreRestart ==
    /\ rows' = Reopened
    /\ pipe' = <<>> /\ writer' = "recv"
    /\ lastCleanup' = now /\ booted' = now /\ pruneFailed' = FALSE
    /\ query' = <<>> /\ figures' = [s \in {} |-> 0] /\ inserted' = 0
    /\ UNCHANGED <<now, gone>>

-----------------------------------------------------------------------------
StoreTypeOK ==
    /\ now \in 0..MaxTime /\ {lastCleanup, booted} \subseteq 0..now
    /\ pipe \in Seq(Entries) /\ gone \subseteq Entries
    /\ rows \subseteq [entry : Entries, timestamp : 0..now]
    /\ writer \in {"recv", "cleanup"} /\ pruneFailed \in BOOLEAN
    /\ inserted \in Nat
    /\ \A s \in DOMAIN figures :
          IF s \in {"top_clients", "top_blocked_clients"}
          THEN \A c \in DOMAIN figures[s] : figures[s][c] \in Nat
          ELSE figures[s] \in Nat

\* What a list of clients, whose empty rows are missing, says of c.
Share(f, c) == IF c \in DOMAIN f THEN f[c] ELSE 0

\* The figures of one get_stats come from different moments of the table, but
\* what the inserts of the meantime cannot explain is never shown: more blocks
\* and hits than queries, more blocks of a client than queries of it, or a
\* span that ends before it starts, even when the last rows are pruned
\* between its two statements.
FiguresBounded ==
    /\ {"total_queries", "blocked_queries", "cache_hits"} \subseteq DOMAIN figures =>
          figures["blocked_queries"] + figures["cache_hits"]
              <= figures["total_queries"] + inserted
    /\ {"top_clients", "top_blocked_clients"} \subseteq DOMAIN figures =>
          \A c \in DOMAIN figures["top_blocked_clients"] :
              figures["top_blocked_clients"][c]
                  <= Share(figures["top_clients"], c) + inserted
    /\ {"started_at", "updated_at"} \subseteq DOMAIN figures =>
          figures["started_at"] <= figures["updated_at"]

\* get_stats runs its statements in their order.
StatementsInOrder ==
    LET read == DOMAIN figures
    IN  \/ query \in StatsParts \cup {<<>>} /\ read = {}
        \/ query = <<"blocked_queries", "cache_hits">> /\ read = {"total_queries"}
        \/ query = <<"cache_hits">> /\ read = {"total_queries", "blocked_queries"}
        \/ query = <<>> /\ read = {"total_queries", "blocked_queries", "cache_hits"}
        \/ query = <<"top_blocked_clients">> /\ read = {"top_clients"}
        \/ query = <<>> /\ read = {"top_clients", "top_blocked_clients"}
        \/ query = <<"updated_at">> /\ read = {"started_at"}
        \/ query = <<>> /\ read = {"started_at", "updated_at"}

\* What FiguresBounded says at the end of a call holds between its statements
\* of the table as it is now: the rows that have come since the first figure
\* are counted by inserted, and none is older than started_at.
CountsBehind ==
    /\ "total_queries" \in DOMAIN figures /\ "blocked_queries" \notin DOMAIN figures =>
          Cardinality(rows) <= figures["total_queries"] + inserted
    /\ "blocked_queries" \in DOMAIN figures /\ "cache_hits" \notin DOMAIN figures =>
          figures["blocked_queries"] + Cardinality(Matching("Cached"))
              <= figures["total_queries"] + inserted

ClientsBehind ==
    "top_clients" \in DOMAIN figures /\ "top_blocked_clients" \notin DOMAIN figures =>
        \A c \in {Kind[e].client : e \in Entries} :
            Cardinality(OfClient(rows, c)) <= Share(figures["top_clients"], c) + inserted

SpanBehind ==
    "started_at" \in DOMAIN figures =>
        /\ figures["started_at"] <= now
        /\ \A row \in rows : figures["started_at"] <= row.timestamp

\* After a cleanup that succeeded, and until one fails, no row is older than
\* the retention at that time.
PrunedSinceCleanup ==
    ~pruneFailed /\ lastCleanup # booted =>
        \A row \in rows : row.timestamp >= lastCleanup - Retention

\* What the thread and get_stats keep of the table.
StoreInv ==
    /\ StoreTypeOK
    /\ IsFiniteSet(rows)
    /\ StatementsInOrder
    /\ CountsBehind /\ ClientsBehind /\ SpanBehind
    /\ FiguresBounded
    /\ PrunedSinceCleanup

\* As long as its cleanups succeed, a process that has been up for longer than
\* the cleanup interval is left, after each entry, with no row older than the
\* retention and the interval together, whatever earlier runs left behind.
RetentionKept ==
    [][writer = "cleanup" /\ writer' = "recv" /\ ~pruneFailed' /\ now - booted' > CleanupEvery
        => \A row \in rows' : row.timestamp >= now - Retention - CleanupEvery]_storeVars

\* Rows go by age only: no restart, failure or cleanup takes a younger one.
RowsLeaveByAge ==
    [][\A row \in rows : row \in rows' \/ row.timestamp < now - Retention]_rows
=============================================================================
