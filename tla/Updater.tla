-------------------------------- MODULE Updater --------------------------------
(***************************************************************************)
(* The periodic updater of main.rs (spawn_background_tasks), the channel   *)
(* of one place from POST /api/refresh to it, and the API server that owns *)
(* the channel's only sender.                                              *)
(*                                                                         *)
(* tokio's Interval ticks when its deadline has passed and then moves the  *)
(* deadline by one period, so ticks missed during a long refresh follow in *)
(* a burst.  A recv on a channel whose sender is gone returns at once.     *)
(***************************************************************************)
EXTENDS Integers, FiniteSets

CONSTANTS
    Triggers,     \* calls of POST /api/refresh
    Period,       \* interval_hours * 3600
    LongRefresh,  \* bound: the longest refresh that ends, in ticks
    LongStart,    \* bound: the longest startup, from its refresh to the loop
    BindMayFail,  \* whether the API port may be taken
    MayStall,     \* whether a list server may never end its answer
    MaxTime       \* bound on the clock

ASSUME UpdaterAssumption ==
    /\ IsFiniteSet(Triggers)
    /\ Period \in Nat \ {0}
    /\ LongRefresh \in Nat /\ LongStart \in Nat /\ MaxTime \in Nat
    /\ BindMayFail \in BOOLEAN /\ MayStall \in BOOLEAN

VARIABLES
    now,        \* since the updater's loop was started
    deadline,   \* of the interval
    channel,    \* triggers whose message is in the channel
    api,        \* "starting", "up", or "down": the sender was dropped
    caller,     \* state of each call of /api/refresh
    updater,    \* "selecting", "refreshing", "installing"
    cause,      \* of the refresh under way: "tick" or "forced"
    begun,      \* when the last refresh began: before 0, the one of startup
    served,     \* triggers for which a refresh began after they were sent
    forcedAt    \* when the last forced refresh began; -Period at the start

vars == <<now, deadline, channel, api, caller, updater, cause, begun, served,
          forcedAt>>

\* main has awaited the initial refresh, and after it the creation of the
\* resolvers, so that refresh began some time ago.  The first tick of the
\* interval is immediate and taken before the loop.
Init ==
    /\ now = 0
    /\ deadline = Period
    /\ channel = {}
    /\ api = "starting"
    /\ caller = [c \in Triggers |-> "idle"]
    /\ updater = "selecting"
    /\ cause = "tick"
    /\ begun \in -LongStart..0
    /\ served = {}
    /\ forcedAt = -Period

-----------------------------------------------------------------------------
(* start_api_server and trigger_refresh.                                   *)

ApiBinds ==
    /\ api = "starting"
    /\ api' = "up"
    /\ UNCHANGED <<now, deadline, channel, caller, updater, cause, begun, served, forcedAt>>

\* `TcpListener::bind(addr).await.unwrap()` panics: the task is dropped and
\* with it the sender.
ApiBindFails ==
    /\ api = "starting" /\ BindMayFail
    /\ api' = "down"
    /\ UNCHANGED <<now, deadline, channel, caller, updater, cause, begun, served, forcedAt>>

Request(c) ==
    /\ api = "up" /\ caller[c] = "idle"
    /\ caller' = [caller EXCEPT ![c] = "sending"]
    /\ UNCHANGED <<now, deadline, channel, api, updater, cause, begun, served, forcedAt>>

HasPlace == channel = {}

\* Mutant of SendTrigger: try_send, whose error is ignored.
TrySendTrigger(c) ==
    /\ caller[c] = "sending"
    /\ channel' = IF HasPlace THEN {c} ELSE channel
    /\ caller' = [caller EXCEPT ![c] = "triggered"]
    /\ UNCHANGED <<now, deadline, api, updater, cause, begun, served, forcedAt>>

\* `send(()).await` waits while the place is taken; then the client is told.
SendTrigger(c) ==
    /\ caller[c] = "sending"
    /\ HasPlace
    /\ channel' = channel \cup {c}
    /\ caller' = [caller EXCEPT ![c] = "triggered"]
    /\ UNCHANGED <<now, deadline, api, updater, cause, begun, served, forcedAt>>

\* The client goes away while its handler waits to send.
Abandon(c) ==
    /\ caller[c] = "sending"
    /\ caller' = [caller EXCEPT ![c] = "abandoned"]
    /\ UNCHANGED <<now, deadline, channel, api, updater, cause, begun, served, forcedAt>>

-----------------------------------------------------------------------------
(* The loop of the updater.                                                *)

\* A refresh begins: every trigger already sent and taken out of the channel
\* by then has got what it asked for.
Begin(why, taken) ==
    /\ updater' = "refreshing"
    /\ cause' = why
    /\ begun' = now
    /\ served' = served \cup taken

\* Mutant of IntervalTick: a scheduled refresh empties the channel.
IntervalTickDrains ==
    /\ updater = "selecting"
    /\ now >= deadline
    /\ deadline' = deadline + Period
    /\ channel' = {}
    /\ Begin("tick", {})
    /\ UNCHANGED <<now, api, caller, forcedAt>>

IntervalTick ==
    /\ updater = "selecting"
    /\ now >= deadline
    /\ deadline' = deadline + Period
    /\ Begin("tick", {})
    /\ UNCHANGED <<now, channel, api, caller, forcedAt>>

\* Mutants of ResetDeadline: the interval is not reset; a period is added.
KeptDeadline == deadline
LaterDeadline == deadline + Period

ResetDeadline == now + Period

\* recv: a message, or at once `None` when the sender is gone; the select
\* takes both for a trigger.
ReceiveTrigger ==
    /\ updater = "selecting"
    /\ channel # {} \/ api = "down"
    /\ channel' = {}
    /\ deadline' = ResetDeadline
    /\ forcedAt' = now
    /\ Begin("forced", channel)
    /\ UNCHANGED <<now, api, caller>>

RefreshDone ==
    /\ updater = "refreshing"
    /\ updater' = "installing"
    /\ UNCHANGED <<now, deadline, channel, api, caller, cause, begun, served, forcedAt>>

Install ==
    /\ updater = "installing"
    /\ updater' = "selecting"
    /\ UNCHANGED <<now, deadline, channel, api, caller, cause, begun, served, forcedAt>>

\* Unless servers stall, a refresh is over within LongRefresh; the loop
\* polls its channel and its interval without delay.
Prompt ==
    /\ updater = "selecting" => now < deadline /\ channel = {} /\ api # "down"
    /\ updater = "refreshing" => MayStall \/ now < begun + LongRefresh
    /\ updater # "installing"

Tick ==
    /\ now < MaxTime
    /\ Prompt
    /\ now' = now + 1
    /\ UNCHANGED <<deadline, channel, api, caller, updater, cause, begun, served, forcedAt>>

\* The clock is at its bound, or time must not pass.
Rest == now = MaxTime /\ UNCHANGED vars

Loop == IntervalTick \/ ReceiveTrigger \/ Install

Next ==
    \/ ApiBinds \/ ApiBindFails
    \/ \E c \in Triggers : Request(c) \/ SendTrigger(c) \/ Abandon(c)
    \/ Loop \/ RefreshDone \/ Tick \/ Rest

Fairness ==
    /\ WF_vars(Loop) /\ WF_vars(Tick)
    /\ \A c \in Triggers : WF_vars(SendTrigger(c))

\* What the code guarantees by itself: nothing ends a download.
Spec == Init /\ [][Next]_vars /\ Fairness

\* The same with list servers that end their answers.
AnsweringSpec == Spec /\ WF_vars(RefreshDone)

-----------------------------------------------------------------------------
TypeOK ==
    /\ now \in 0..MaxTime
    /\ deadline \in Nat
    /\ channel \subseteq Triggers /\ \A c, d \in channel : c = d
    /\ api \in {"starting", "up", "down"}
    /\ caller \in [Triggers -> {"idle", "sending", "triggered", "abandoned"}]
    /\ updater \in {"selecting", "refreshing", "installing"}
    /\ cause \in {"tick", "forced"}
    /\ begun \in -LongStart..MaxTime
    /\ served \subseteq Triggers
    /\ forcedAt \in -Period..MaxTime

\* A trigger that was acknowledged waits in the channel or has had a refresh
\* that began after it, also when it was sent during a refresh or when its
\* message and a tick were ready together.
NoTriggerLost ==
    \A c \in Triggers : caller[c] = "triggered" => c \in channel \cup served

\* `interval.reset()` keeps the next tick a period behind the last trigger,
\* and ticks only move it further.
DeadlineAfterForced == forcedAt + Period <= deadline

Larger(a, b) == IF a < b THEN b ELSE a

\* A refresh leaves the next tick no further away than a period after its
\* own beginning, the refresh of startup no further than a period after the
\* loop was started; missed ticks leave it nearer.
DeadlineWithinPeriod == deadline <= Larger(begun, 0) + Period

\* The refresh of startup is over when the loop is started.
StartupIsOver == begun < 0 => updater = "selecting"

\* What every step of the loop and of the API's tasks keeps.
UpdaterInv ==
    /\ TypeOK
    /\ DeadlineAfterForced /\ DeadlineWithinPeriod /\ StartupIsOver
    /\ NoTriggerLost

\* config.rs:104, "How often to check for blocklist updates (in hours).": the
\* last refresh never began longer ago than a period, or than a refresh takes;
\* bursts, resets and triggers only make it sooner.  In the first cycle what
\* startup took, its own refresh included, comes on top of the period, which
\* is counted from there.
UpdatesRegularly ==
    now - begun <= IF begun < 0 THEN Period + LongStart
                                ELSE Larger(Period, LongRefresh)

\* A scheduled refresh does not follow a forced one sooner than a period.
ForcedResets ==
    [][updater = "selecting" /\ updater' = "refreshing" /\ cause' = "tick"
          => now - forcedAt >= Period]_vars

\* Every acknowledged trigger gets its refresh, and every call of
\* /api/refresh is answered or given up.
TriggersServed ==
    \A c \in Triggers :
        /\ caller[c] = "triggered" ~> c \in served
        /\ caller[c] = "sending" ~> caller[c] # "sending"

\* config.rs:104 again, without a promise of the list servers: the updater
\* comes back to its select after every refresh.
UpdatesGoOn == []<>(updater = "selecting")

\* main.rs:152, "Forced blocklist update triggered via API...": what the loop
\* takes for a trigger was one.
ForcedByTrigger ==
    [][updater = "selecting" /\ updater' = "refreshing" /\ cause' = "forced"
          => channel # {}]_vars
=============================================================================
