----------------------------- MODULE UpdaterProofs -----------------------------
(***************************************************************************)
(* Safety of the update loop, for any number of triggers, any period and   *)
(* refreshes of any length, also when the API server never comes up.       *)
(***************************************************************************)
EXTENDS Updater, TLAPS

LEMMA UpdaterInvInit == Init => UpdaterInv
  BY UpdaterAssumption
  DEF Init, UpdaterInv, TypeOK, DeadlineAfterForced, DeadlineWithinPeriod,
      StartupIsOver, Larger, NoTriggerLost

LEMMA UpdaterInvStep == UpdaterInv /\ [Next]_vars => UpdaterInv'
<1> SUFFICES ASSUME UpdaterInv, [Next]_vars PROVE UpdaterInv'
  OBVIOUS
<1> USE UpdaterAssumption DEF UpdaterInv, TypeOK, DeadlineAfterForced,
                              DeadlineWithinPeriod, StartupIsOver, Larger
<1>1. CASE ApiBinds \/ ApiBindFails
  BY <1>1 DEF ApiBinds, ApiBindFails, NoTriggerLost
<1>2. ASSUME NEW c \in Triggers, Request(c) \/ Abandon(c)
      PROVE  UpdaterInv'
  BY <1>2 DEF Request, Abandon, NoTriggerLost
<1>3. ASSUME NEW c \in Triggers, SendTrigger(c)
      PROVE  UpdaterInv'
  BY <1>3 DEF SendTrigger, HasPlace, NoTriggerLost
<1>4. CASE IntervalTick
  BY <1>4 DEF IntervalTick, Begin, NoTriggerLost
<1>5. CASE ReceiveTrigger
  BY <1>5 DEF ReceiveTrigger, ResetDeadline, Begin, NoTriggerLost
<1>6. CASE RefreshDone \/ Install
  BY <1>6 DEF RefreshDone, Install, NoTriggerLost
<1>7. CASE Tick
  BY <1>7 DEF Tick, NoTriggerLost
<1>8. CASE UNCHANGED vars
  BY <1>8 DEF vars, NoTriggerLost
<1> QED
  BY <1>1, <1>2, <1>3, <1>4, <1>5, <1>6, <1>7, <1>8 DEF Next, Loop, Rest

\* The inductive invariant, in every reachable state.
THEOREM UpdaterInvariant == Spec => []UpdaterInv
  BY UpdaterInvInit, UpdaterInvStep, PTL DEF Spec

\* Every behaviour keeps the types of the variables, with at most one message
\* in the channel.
THEOREM TypeCorrect == Spec => []TypeOK
<1>1. UpdaterInv => TypeOK
  BY DEF UpdaterInv
<1> QED
  BY <1>1, UpdaterInvariant, PTL

\* A trigger that POST /api/refresh has acknowledged is in the channel or has
\* had a refresh that began after it.
THEOREM TriggersKept == Spec => []NoTriggerLost
<1>1. UpdaterInv => NoTriggerLost
  BY DEF UpdaterInv
<1> QED
  BY <1>1, UpdaterInvariant, PTL

\* A step from a state with the invariant that begins a scheduled refresh is
\* at least a period behind the last forced one.
LEMMA ScheduledStep ==
    UpdaterInv /\ [Next]_vars =>
        (updater = "selecting" /\ updater' = "refreshing" /\ cause' = "tick"
            => now - forcedAt >= Period) \/ UNCHANGED vars
<1> SUFFICES ASSUME UpdaterInv, [Next]_vars, updater = "selecting",
                    updater' = "refreshing", cause' = "tick"
             PROVE  now - forcedAt >= Period
  OBVIOUS
<1>1. IntervalTick
  BY DEF Next, Loop, ApiBinds, ApiBindFails, Request, SendTrigger, Abandon,
         ReceiveTrigger, Begin, RefreshDone, Install, Tick, Rest, vars
<1> QED
  BY <1>1, UpdaterAssumption
  DEF IntervalTick, UpdaterInv, TypeOK, DeadlineAfterForced

\* A scheduled update never follows a forced one sooner than a period, in
\* whatever burst of missed ticks the trigger came.
THEOREM ForcedUpdatesReset == Spec => ForcedResets
  BY UpdaterInvariant, ScheduledStep, PTL DEF Spec, ForcedResets

\* Time passes while the loop waits, up to its deadline, and while it
\* refreshes, up to LongRefresh; nothing else moves the clock, and a refresh
\* that begins starts the count anew.  Until the first one the loop is waiting
\* for a deadline that lies a period after its start.
LEMMA RegularStep ==
    ASSUME ~MayStall, UpdaterInv, UpdatesRegularly, [Next]_vars
    PROVE  UpdatesRegularly'
<1> USE UpdaterAssumption DEF UpdatesRegularly, Larger
<1>1. /\ now \in Nat /\ begun \in Int /\ begun >= -LongStart /\ deadline \in Nat
      /\ updater \in {"selecting", "refreshing", "installing"}
      /\ deadline <= (IF begun < 0 THEN 0 ELSE begun) + Period
      /\ begun < 0 => updater = "selecting"
  BY DEF UpdaterInv, TypeOK, DeadlineWithinPeriod, StartupIsOver
<1>2. CASE Tick
  <2>1. now' = now + 1 /\ begun' = begun /\ updater # "installing"
    BY <1>2 DEF Tick, Prompt
  <2>2. CASE updater = "selecting"
    <3>1. now < deadline
      BY <1>2, <2>2 DEF Tick, Prompt
    <3>2. CASE begun < 0
      <4>1. now + 1 <= Period
        BY <1>1, <3>1, <3>2
      <4>2. now' - begun' <= Period + LongStart
        BY <1>1, <2>1, <4>1
      <4> QED
        BY <2>1, <3>2, <4>2
    <3>3. CASE ~(begun < 0)
      <4>1. now + 1 <= begun + Period
        BY <1>1, <3>1, <3>3
      <4> QED
        BY <1>1, <2>1, <3>3, <4>1
    <3> QED
      BY <3>2, <3>3
  <2>3. CASE updater = "refreshing"
    <3>1. now < begun + LongRefresh
      BY <1>2, <2>3 DEF Tick, Prompt
    <3>2. ~(begun < 0)
      BY <1>1, <2>3
    <3>3. now + 1 <= begun + LongRefresh
      BY <1>1, <3>1
    <3> QED
      BY <1>1, <2>1, <3>2, <3>3
  <2> QED
    BY <1>1, <2>1, <2>2, <2>3
<1>3. CASE now' = now /\ begun' \in {begun, now}
  <2>1. CASE begun' = begun
    BY <1>3, <2>1
  <2>2. CASE begun' = now
    <3>1. now' - begun' = 0 /\ ~(begun' < 0)
      BY <1>1, <1>3, <2>2
    <3> QED
      BY <3>1
  <2> QED
    BY <1>3, <2>1, <2>2
<1>4. Tick \/ (now' = now /\ begun' \in {begun, now})
  BY DEF Next, Loop, ApiBinds, ApiBindFails, Request, SendTrigger, Abandon,
         IntervalTick, ReceiveTrigger, Begin, RefreshDone, Install, Rest, vars
<1> QED
  BY <1>2, <1>3, <1>4

\* With list servers that end their answers, the last refresh never began
\* longer ago than a period or the longest refresh, nor in the first cycle
\* longer than a period and startup, whatever triggers, bursts of missed ticks
\* and failures of the API server there are.
THEOREM RefreshesRegularly ==
    ASSUME ~MayStall
    PROVE  Spec => []UpdatesRegularly
<1>1. Init => UpdatesRegularly
  BY UpdaterAssumption DEF Init, UpdatesRegularly, Larger
<1>2. UpdaterInv /\ UpdatesRegularly /\ [Next]_vars => UpdatesRegularly'
  BY RegularStep
<1> QED
  BY <1>1, <1>2, UpdaterInvariant, PTL DEF Spec
=============================================================================
