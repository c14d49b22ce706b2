------------------------------- MODULE AppState -------------------------------
(***************************************************************************)
(* engine/state.rs and the handlers of api/mod.rs that use it: the pause   *)
(* deadline behind an RwLock, written by /api/pause and /api/resume, read  *)
(* by every DNS query and, in two separate reads, by /api/status.          *)
(*                                                                         *)
(* A lock held by a task that panics is poisoned; every later `unwrap` of  *)
(* it panics too.  `Instant::now() + duration` is evaluated with the write *)
(* lock held.  Arithmetic has the width of the code, scaled down: seconds  *)
(* wrap at SecondsWidth (2^64 in a release build) and an Instant ends at   *)
(* MaxInstant (2^63 seconds).                                              *)
(***************************************************************************)
EXTENDS Integers

CONSTANTS
    Callers,       \* tasks that run one API handler or one query each
    Minutes,       \* values of duration_minutes that clients send
    Minute,        \* seconds of a minute
    SecondsWidth,  \* Duration::from_secs takes a number below this
    MaxInstant,    \* the last Instant the platform has
    LastCall,      \* bound: clients make their calls until this moment
    MaxTime,       \* bound on the clock
    None           \* Option::None

ASSUME StateAssumption ==
    /\ Minutes \subseteq Nat
    /\ Minute \in Nat \ {0} /\ SecondsWidth \in Nat \ {0}
    /\ MaxInstant \in Nat /\ MaxTime \in 0..MaxInstant
    /\ LastCall \in 0..MaxTime
    /\ None \notin Nat

VARIABLES
    now,
    pausedUntil,   \* blocking_paused_until
    poisoned,      \* a task panicked while it held the write lock
    call,          \* what each caller does: an operation and its argument
    pc,
    active,        \* what is_blocking_active returned to the caller
    remaining,     \* what get_pause_remaining_secs returned to it
    disturbed      \* callers in whose status call the answer changed

vars == <<now, pausedUntil, poisoned, call, pc, active, remaining, disturbed>>

Calls == [op : {"pause"}, minutes : Minutes] \cup
         [op : {"resume", "status", "query"}]

Init ==
    /\ now = 0
    /\ pausedUntil = None
    /\ poisoned = FALSE
    /\ call \in [Callers -> Calls]
    /\ pc = [c \in Callers |-> "start"]
    /\ active = [c \in Callers |-> TRUE]
    /\ remaining = [c \in Callers |-> None]
    /\ disturbed = {}

\* Mutant of Paused: a pause lasts until it is resumed.
PausedForGood == pausedUntil # None
Paused == pausedUntil # None /\ now < pausedUntil

\* The status callers between their two reads.
MidStatus == {c \in Callers : pc[c] = "second"}

Goto(c, label) == pc' = [pc EXCEPT ![c] = label]

\* Each step notes the status calls it changes the answer under.
Disturb == disturbed' = IF Paused' = Paused THEN disturbed
                                            ELSE disturbed \cup MidStatus

-----------------------------------------------------------------------------
\* Duration::from_secs(payload.duration_minutes * 60), in u64.
DurationOf(minutes) == (minutes * Minute) % SecondsWidth

\* Mutant of Deadline: a second pause extends the first.
DeadlineExtends(minutes) ==
    (IF Paused THEN pausedUntil ELSE now) + DurationOf(minutes)
Deadline(minutes) == now + DurationOf(minutes)

PauseBlocking(c) ==
    /\ pc[c] = "start" /\ call[c].op = "pause"
    /\ ~poisoned
    /\ Deadline(call[c].minutes) <= MaxInstant
    /\ pausedUntil' = Deadline(call[c].minutes)
    /\ Goto(c, "done")
    /\ UNCHANGED <<now, poisoned, call, active, remaining>>
    /\ Disturb

\* The addition overflows: the task panics and poisons the lock it holds.
PauseOverflows(c) ==
    /\ pc[c] = "start" /\ call[c].op = "pause"
    /\ ~poisoned
    /\ Deadline(call[c].minutes) > MaxInstant
    /\ poisoned' = TRUE
    /\ Goto(c, "panicked")
    /\ UNCHANGED <<now, pausedUntil, call, active, remaining, disturbed>>

ResumeBlocking(c) ==
    /\ pc[c] = "start" /\ call[c].op = "resume"
    /\ ~poisoned
    /\ pausedUntil' = None
    /\ Goto(c, "done")
    /\ UNCHANGED <<now, poisoned, call, active, remaining>>
    /\ Disturb

\* Mutant of ActiveNow: the deadline itself still counts as paused.
ActiveAfter == pausedUntil = None \/ now > pausedUntil
ActiveNow == ~Paused

\* is_blocking_active: all a query asks, and the first half of /api/status.
IsBlockingActive(c) ==
    /\ pc[c] = "start" /\ call[c].op \in {"query", "status"}
    /\ ~poisoned
    /\ active' = [active EXCEPT ![c] = ActiveNow]
    /\ Goto(c, IF call[c].op = "query" THEN "done" ELSE "second")
    /\ UNCHANGED <<now, pausedUntil, poisoned, call, remaining, disturbed>>

RemainingNow == IF Paused THEN pausedUntil - now ELSE None

\* get_pause_remaining_secs: the second half, with a read of its own.
GetPauseRemaining(c) ==
    /\ pc[c] = "second"
    /\ ~poisoned
    /\ remaining' = [remaining EXCEPT ![c] = RemainingNow]
    /\ Goto(c, "done")
    /\ UNCHANGED <<now, pausedUntil, poisoned, call, active, disturbed>>

\* `read().unwrap()` or `write().unwrap()` of a poisoned lock.
UnwrapPoisoned(c) ==
    /\ pc[c] \in {"start", "second"}
    /\ poisoned
    /\ Goto(c, "panicked")
    /\ UNCHANGED <<now, pausedUntil, poisoned, call, active, remaining, disturbed>>

Tick ==
    /\ now < MaxTime
    /\ now' = now + 1
    /\ UNCHANGED <<pausedUntil, poisoned, call, pc, active, remaining>>
    /\ Disturb

\* Nothing is left to do: no call is under way and the clock is at its bound.
Idle ==
    /\ \A c \in Callers : pc[c] # "second"
    /\ now = MaxTime
    /\ UNCHANGED vars

Step(c) ==
    /\ pc[c] = "start" => now <= LastCall
    /\ \/ PauseBlocking(c) \/ PauseOverflows(c) \/ ResumeBlocking(c)
       \/ IsBlockingActive(c) \/ GetPauseRemaining(c) \/ UnwrapPoisoned(c)

Next == (\E c \in Callers : Step(c)) \/ Tick \/ Idle

\* Time passes and the runtime polls every task.
Spec == Init /\ [][Next]_vars /\ WF_vars(Tick) /\ \A c \in Callers : WF_vars(Step(c))

-----------------------------------------------------------------------------
TypeOK ==
    /\ now \in 0..MaxTime
    /\ pausedUntil \in (0..MaxInstant) \cup {None}
    /\ poisoned \in BOOLEAN
    /\ call \in [Callers -> Calls]
    /\ pc \in [Callers -> {"start", "second", "done", "panicked"}]
    /\ active \in [Callers -> BOOLEAN]
    /\ remaining \in [Callers -> Nat \cup {None}]
    /\ disturbed \subseteq Callers

\* /api/status contradicts itself (active with time remaining, or paused
\* with none) only if a pause, a resume or the end of a pause came between
\* its two reads; such a contradiction is possible.
TornOnlyByChange ==
    \A c \in Callers :
        /\ call[c].op = "status" /\ pc[c] = "done"
        /\ active[c] <=> (remaining[c] # None)
        => c \in disturbed

\* The pause a status call reports ends no later than the longest pause a
\* client has asked for, counted from now: pauses do not add up.
PausesDoNotAddUp ==
    \A c \in Callers : remaining[c] # None =>
        \E p \in Callers : /\ call[p].op = "pause" /\ pc[p] = "done"
                           /\ remaining[c] <= DurationOf(call[p].minutes)

\* Nothing changed under the first read of these, and both reads agree.
UndisturbedAgree ==
    \A c \in Callers \ disturbed : call[c].op = "status" =>
        /\ pc[c] = "second" => (active[c] <=> ~Paused)
        /\ pc[c] = "done" => (active[c] <=> remaining[c] = None)

\* The deadline is that of a pause some client has asked for.
DeadlineAsked ==
    pausedUntil # None =>
        \E p \in Callers : /\ call[p].op = "pause" /\ pc[p] = "done"
                           /\ pausedUntil <= now + DurationOf(call[p].minutes)

\* What every step keeps of the deadline and of what is read of it.
StateInv == TypeOK /\ UndisturbedAgree /\ DeadlineAsked /\ PausesDoNotAddUp

\* When the clients have made their calls blocking becomes active again, and
\* stays so, without any call that resumes it.
BlockingComesBack == <>[]~Paused

\* README.md:18, "Supports live pausing/resuming of blocking logic via API":
\* no call of the API and no query dies of a pause that was asked for.
PausingIsSafe == \A c \in Callers : pc[c] # "panicked"
=============================================================================
