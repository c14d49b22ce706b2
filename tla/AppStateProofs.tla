---------------------------- MODULE AppStateProofs ----------------------------
(***************************************************************************)
(* Safety of the pause deadline for any number of API calls and queries,   *)
(* with durations that wrap and deadlines that overflow.                   *)
(***************************************************************************)
EXTENDS AppState, TLAPS

\* Whatever a client sends is a duration in whole seconds.
LEMMA DurationType ==
    ASSUME NEW minutes \in Minutes
    PROVE  DurationOf(minutes) \in Nat
<1>1. minutes * Minute \in Nat
  BY StateAssumption
<1> QED
  BY <1>1, StateAssumption DEF DurationOf

\* The calls never change, and a pause has a number of minutes.
LEMMA CallTypes ==
    ASSUME TypeOK, NEW c \in Callers, call[c].op = "pause"
    PROVE  call[c].minutes \in Minutes
  BY DEF TypeOK, Calls

LEMMA StateInvInit == Init => StateInv
<1> SUFFICES ASSUME Init PROVE StateInv
  OBVIOUS
<1>1. now \in 0..MaxTime /\ disturbed \subseteq Callers
  BY StateAssumption DEF Init
<1>2. active \in [Callers -> BOOLEAN]
  BY DEF Init
<1>3. TypeOK
  BY <1>1, <1>2 DEF Init, TypeOK
<1> QED
  BY <1>3 DEF Init, StateInv, UndisturbedAgree, DeadlineAsked, PausesDoNotAddUp

LEMMA TypeStep ==
    ASSUME StateInv, [Next]_vars
    PROVE  TypeOK'
<1> USE StateAssumption DEF StateInv, TypeOK, Goto, Disturb, MidStatus
<1>1. ASSUME NEW c \in Callers, PauseBlocking(c)
      PROVE  TypeOK'
  <2>1. call[c].minutes \in Minutes
    BY <1>1, CallTypes DEF PauseBlocking
  <2>2. DurationOf(call[c].minutes) \in Nat
    BY <2>1, DurationType
  <2>3. Deadline(call[c].minutes) \in Nat
    BY <2>2 DEF Deadline
  <2>4. Deadline(call[c].minutes) \in 0..MaxInstant
    BY <1>1, <2>3 DEF PauseBlocking
  <2> QED
    BY <1>1, <2>4 DEF PauseBlocking
<1>2. ASSUME NEW c \in Callers, PauseOverflows(c) \/ UnwrapPoisoned(c)
      PROVE  TypeOK'
  BY <1>2 DEF PauseOverflows, UnwrapPoisoned
<1>3. ASSUME NEW c \in Callers, ResumeBlocking(c)
      PROVE  TypeOK'
  BY <1>3 DEF ResumeBlocking
<1>4. ASSUME NEW c \in Callers, IsBlockingActive(c)
      PROVE  TypeOK'
  BY <1>4 DEF IsBlockingActive, ActiveNow, Paused
<1>5. ASSUME NEW c \in Callers, GetPauseRemaining(c)
      PROVE  TypeOK'
  <2>1. RemainingNow \in Nat \cup {None}
    BY DEF RemainingNow, Paused
  <2> QED
    BY <1>5, <2>1 DEF GetPauseRemaining
<1>6. CASE Tick
  BY <1>6 DEF Tick
<1>7. CASE Idle \/ UNCHANGED vars
  BY <1>7 DEF Idle, vars
<1> QED
  BY <1>1, <1>2, <1>3, <1>4, <1>5, <1>6, <1>7 DEF Next, Step

\* A change of the answer marks every status call between its two reads.
LEMMA AgreeStep ==
    ASSUME StateInv, [Next]_vars
    PROVE  UndisturbedAgree'
<1> USE DEF StateInv, TypeOK, Goto, UndisturbedAgree
<1>1. ASSUME NEW c \in Callers, PauseBlocking(c) \/ ResumeBlocking(c)
      PROVE  UndisturbedAgree'
  BY <1>1 DEF PauseBlocking, ResumeBlocking, Disturb, MidStatus
<1>2. ASSUME NEW c \in Callers, PauseOverflows(c) \/ UnwrapPoisoned(c)
      PROVE  UndisturbedAgree'
  BY <1>2 DEF PauseOverflows, UnwrapPoisoned, Paused
<1>3. ASSUME NEW c \in Callers, IsBlockingActive(c)
      PROVE  UndisturbedAgree'
  BY <1>3 DEF IsBlockingActive, ActiveNow, Paused
<1>4. ASSUME NEW c \in Callers, GetPauseRemaining(c)
      PROVE  UndisturbedAgree'
  <2>1. RemainingNow = None <=> ~Paused
    BY StateAssumption DEF RemainingNow, Paused
  <2> QED
    BY <1>4, <2>1 DEF GetPauseRemaining, Paused
<1>5. CASE Tick
  BY <1>5 DEF Tick, Disturb, MidStatus
<1>6. CASE Idle \/ UNCHANGED vars
  BY <1>6 DEF Idle, vars, Paused
<1> QED
  BY <1>1, <1>2, <1>3, <1>4, <1>5, <1>6 DEF Next, Step

\* Only PauseBlocking sets the deadline, and time only brings it nearer.
LEMMA DeadlineStep ==
    ASSUME StateInv, [Next]_vars
    PROVE  DeadlineAsked'
<1> USE StateAssumption DEF StateInv, TypeOK, Goto, DeadlineAsked
<1>1. ASSUME NEW c \in Callers, PauseBlocking(c)
      PROVE  DeadlineAsked'
  <2>1. /\ call'[c].op = "pause" /\ pc'[c] = "done" /\ now' = now
        /\ pausedUntil' = now + DurationOf(call'[c].minutes)
    BY <1>1 DEF PauseBlocking, Deadline
  <2>2. call'[c].minutes \in Minutes
    BY <1>1, CallTypes DEF PauseBlocking
  <2>3. now + DurationOf(call'[c].minutes) \in Nat
    <3>1. DurationOf(call'[c].minutes) \in Nat
      BY <2>2, DurationType
    <3> QED
      BY <3>1
  <2> QED
    BY <2>1, <2>3
<1>2. ASSUME NEW c \in Callers, ResumeBlocking(c)
      PROVE  DeadlineAsked'
  BY <1>2 DEF ResumeBlocking
<1>3. ASSUME NEW c \in Callers,
             PauseOverflows(c) \/ UnwrapPoisoned(c) \/ IsBlockingActive(c)
                \/ GetPauseRemaining(c)
      PROVE  DeadlineAsked'
  BY <1>3 DEF PauseOverflows, UnwrapPoisoned, IsBlockingActive, GetPauseRemaining
<1>4. CASE Tick
  <2> SUFFICES ASSUME pausedUntil' # None
               PROVE  \E p \in Callers :
                         /\ call'[p].op = "pause" /\ pc'[p] = "done"
                         /\ pausedUntil' <= now' + DurationOf(call'[p].minutes)
    OBVIOUS
  <2>1. PICK p \in Callers : /\ call[p].op = "pause" /\ pc[p] = "done"
                             /\ pausedUntil <= now + DurationOf(call[p].minutes)
    BY <1>4 DEF Tick
  <2>2. DurationOf(call[p].minutes) \in Nat
    BY <2>1, CallTypes, DurationType
  <2> QED
    BY <1>4, <2>1, <2>2 DEF Tick
<1>5. CASE Idle \/ UNCHANGED vars
  BY <1>5 DEF Idle, vars
<1> QED
  BY <1>1, <1>2, <1>3, <1>4, <1>5 DEF Next, Step

\* What a status call reads is what is left of the deadline.
LEMMA RemainingStep ==
    ASSUME StateInv, [Next]_vars
    PROVE  PausesDoNotAddUp'
<1> USE StateAssumption DEF StateInv, TypeOK, Goto, PausesDoNotAddUp
<1>1. ASSUME NEW c \in Callers, GetPauseRemaining(c)
      PROVE  PausesDoNotAddUp'
  <2> SUFFICES ASSUME NEW d \in Callers, remaining'[d] # None
               PROVE  \E p \in Callers :
                         /\ call'[p].op = "pause" /\ pc'[p] = "done"
                         /\ remaining'[d] <= DurationOf(call'[p].minutes)
    OBVIOUS
  <2>1. CASE d = c
    <3>1. /\ remaining'[c] = pausedUntil - now /\ pausedUntil # None
          /\ pc' = [pc EXCEPT ![c] = "done"] /\ call' = call
      BY <1>1, <2>1 DEF GetPauseRemaining, RemainingNow, Paused
    <3>2. PICK p \in Callers : /\ call[p].op = "pause" /\ pc[p] = "done"
                               /\ pausedUntil <= now + DurationOf(call[p].minutes)
      BY <3>1 DEF DeadlineAsked
    <3>3. DurationOf(call[p].minutes) \in Nat
      BY <3>2, CallTypes, DurationType
    <3> QED
      BY <2>1, <3>1, <3>2, <3>3
  <2>2. CASE d # c
    BY <1>1, <2>2 DEF GetPauseRemaining
  <2> QED
    BY <2>1, <2>2
<1>2. ASSUME NEW c \in Callers,
             PauseBlocking(c) \/ ResumeBlocking(c) \/ PauseOverflows(c)
                \/ UnwrapPoisoned(c) \/ IsBlockingActive(c)
      PROVE  PausesDoNotAddUp'
  BY <1>2 DEF PauseBlocking, ResumeBlocking, PauseOverflows, UnwrapPoisoned,
              IsBlockingActive
<1>3. CASE Tick \/ Idle \/ UNCHANGED vars
  BY <1>3 DEF Tick, Idle, vars
<1> QED
  BY <1>1, <1>2, <1>3 DEF Next, Step

\* The invariant of the pause state: types, undisturbed status calls agree with
\* themselves, the deadline and every remaining time are those of one pause.
THEOREM StateInvariant == Spec => []StateInv
<1>1. StateInv /\ [Next]_vars => StateInv'
  BY TypeStep, AgreeStep, DeadlineStep, RemainingStep DEF StateInv
<1> QED
  BY <1>1, StateInvInit, PTL DEF Spec

\* GET /api/status contradicts itself only when the answer changed between its
\* two reads of the deadline, for any interleaving of any calls.
THEOREM StatusTornOnlyByChange == Spec => []TornOnlyByChange
<1>1. StateInv => TornOnlyByChange
  BY DEF StateInv, UndisturbedAgree, TornOnlyByChange, TypeOK
<1> QED
  BY <1>1, StateInvariant, PTL

\* No pause lasts longer than the longest one that was asked for.
THEOREM OnePauseAtATime == Spec => []PausesDoNotAddUp
<1>1. StateInv => PausesDoNotAddUp
  BY DEF StateInv
<1> QED
  BY <1>1, StateInvariant, PTL
=============================================================================
