-------------------------- MODULE SchedulerProofs --------------------------
(***************************************************************************)
(* Proofs about SyncScheduler and ClientLifecycle.  The scheduler's        *)
(* invariants are proved for every step it can take, and carried over to   *)
(* ClientLifecycle, whose every step is one of the scheduler's or none.    *)
(***************************************************************************)
EXTENDS ClientLifecycle, TLAPS

\* The inductive strengthening.  A scheduler that is disposed has no timer,
\* since every way to set one asks for disposed first.
SchedulerInv ==
  /\ timerHandle \in {"null", "timeout"} /\ armed \in Nat
  /\ running \in Nat
  /\ callback \in {"none", "succeeded", "failed"}
  /\ OneCycle
  /\ NoStrayTimer
  /\ NeverAsleep
  /\ (disposed => timerHandle = "null")

LEMMA SchedulerStarts == SchedulerInit => SchedulerInv
BY DEF SchedulerInit, SchedulerInv, OneCycle, NoStrayTimer, NeverAsleep

-----------------------------------------------------------------------------
(* The three pieces the actions are made of. *)

\* Clearing the timer clears the only one there is.
LEMMA CancelLeavesNone ==
  ASSUME SchedulerInv
  PROVE  ArmedAfterCancel = 0
BY DEF SchedulerInv, NoStrayTimer, ArmedAfterCancel

LEMMA ScheduleKeepsOne ==
  ASSUME SchedulerInv, ScheduleNext
  PROVE  /\ timerHandle' = IF disposed THEN "null" ELSE "timeout"
         /\ armed' = IF disposed THEN 0 ELSE 1
BY CancelLeavesNone DEF SchedulerInv, ScheduleNext

LEMMA CancelKeepsNone ==
  ASSUME SchedulerInv, CancelTimer
  PROVE  timerHandle' = "null" /\ armed' = 0
BY CancelLeavesNone DEF CancelTimer

\* One step of the scheduler keeps the invariant: one case for each action.
LEMMA SchedulerStep ==
  ASSUME SchedulerInv, [SchedulerNext]_schedulerVars
  PROVE  SchedulerInv'
<1> USE DEF SchedulerInv, OneCycle, NoStrayTimer, NeverAsleep, timerVars,
            cycleVars, backoffVars, listenerVars
<1>1. CASE Start
  BY <1>1, ScheduleKeepsOne DEF Start
<1>2. CASE Stop
  BY <1>2, CancelKeepsNone DEF Stop, CancelAll
<1>3. CASE Dispose
  BY <1>3, CancelKeepsNone DEF Dispose, CancelAll
<1>4. CASE TriggerSync
  BY <1>4, CancelKeepsNone DEF TriggerSync, RunSyncCycle
<1>5. CASE TimerFires
  BY <1>5 DEF TimerFires, RunSyncCycle
<1>6. CASE BackOnline
  BY <1>4, <1>6 DEF BackOnline
<1>7. CASE CycleSucceeds
  BY <1>7 DEF CycleSucceeds
<1>8. CASE CycleFails
  BY <1>8 DEF CycleFails
<1>9. CASE CallbackThrows
  BY <1>9 DEF CallbackThrows
<1>10. CASE EndOfCycle
  BY <1>10, ScheduleKeepsOne DEF EndOfCycle, RunSyncCycle
<1>11. CASE UNCHANGED schedulerVars
  BY <1>11 DEF schedulerVars
<1>12. QED
  BY <1>1, <1>2, <1>3, <1>4, <1>5, <1>6, <1>7, <1>8, <1>9, <1>10, <1>11
     DEF SchedulerNext

\* What a disposed scheduler does, one step at a time.
LEMMA DisposedStep ==
  ASSUME SchedulerInv, [SchedulerNext]_schedulerVars, disposed
  PROVE  running' <= running /\ armed' = 0
<1> USE DEF SchedulerInv, NoStrayTimer, timerVars, cycleVars, backoffVars,
            listenerVars
<1>1. armed = 0
  OBVIOUS
<1>2. CASE Start
  BY <1>2 DEF Start
<1>3. CASE CancelAll
  BY <1>3, CancelKeepsNone DEF CancelAll
<1>4. CASE TriggerSync
  <2>1. running' <= running
    BY <1>4 DEF TriggerSync, RunSyncCycle
  <2>2. armed' = 0
    BY <1>1, <1>4, CancelKeepsNone DEF TriggerSync
  <2>3. QED
    BY <2>1, <2>2
<1>5. CASE TimerFires
  BY <1>1, <1>5 DEF TimerFires
<1>6. CASE CycleSucceeds \/ CycleFails \/ CallbackThrows
  <2>1. armed' = armed
    BY <1>6 DEF CycleSucceeds, CycleFails, CallbackThrows
  <2>2. running' \in {running, running - 1}
    BY <1>6 DEF CycleSucceeds, CycleFails, CallbackThrows
  <2>3. QED
    BY <1>1, <2>1, <2>2
<1>7. CASE EndOfCycle
  <2>1. running' <= running
    BY <1>7 DEF EndOfCycle, RunSyncCycle
  <2>2. armed' = 0
    BY <1>1, <1>7, ScheduleKeepsOne DEF EndOfCycle
  <2>3. QED
    BY <2>1, <2>2
<1>8. CASE UNCHANGED schedulerVars
  BY <1>1, <1>8 DEF schedulerVars
<1>9. QED
  BY <1>2, <1>3, <1>4, <1>5, <1>6, <1>7, <1>8
     DEF SchedulerNext, Stop, Dispose, BackOnline

-----------------------------------------------------------------------------
(* The lifecycle takes the scheduler's steps only. *)

LEMMA LifecycleSteps ==
  ASSUME [Next]_vars
  PROVE  [SchedulerNext]_schedulerVars
BY DEF Next, vars, Shutdown, DisposeNext, DisposeSettles, Complete,
       SchedulerNext

\* At a shutdown of an idle client nothing is left that could start a cycle.
IdleInv ==
  idleThen => /\ shutdown # "no"
              /\ ~syncInProgress /\ running = 0 /\ callback = "none"
              /\ timerHandle = "null" /\ armed = 0
              /\ listeners = 0

LEMMA IdleStep ==
  ASSUME SchedulerInv, IdleInv, [Next]_vars
  PROVE  IdleInv'
<1> USE DEF IdleInv, SchedulerInv, OneCycle, lifecycleVars
<1>1. CASE /\ shutdown = "no"
           /\ Start \/ Stop \/ Dispose \/ TriggerSync
           /\ UNCHANGED lifecycleVars
  BY <1>1
<1>2. CASE /\ \/ TimerFires \/ BackOnline
              \/ CycleSucceeds \/ CycleFails \/ CallbackThrows \/ EndOfCycle
           /\ UNCHANGED lifecycleVars
  BY <1>2 DEF TimerFires, BackOnline, CycleSucceeds, CycleFails,
              CallbackThrows, EndOfCycle
<1>3. CASE Shutdown
  BY <1>3, CancelKeepsNone DEF Shutdown, Stop, CancelAll, cycleVars
<1>4. CASE DisposeNext \/ DisposeSettles \/ Complete
  BY <1>4 DEF DisposeNext, DisposeSettles, Complete, schedulerVars
<1>5. CASE UNCHANGED vars
  BY <1>5 DEF vars, schedulerVars
<1>6. QED
  BY <1>1, <1>2, <1>3, <1>4, <1>5 DEF Next

-----------------------------------------------------------------------------
(* The theorems. *)

LEMMA LifecycleInvariant == Spec => [](SchedulerInv /\ IdleInv)
<1>1. Init => SchedulerInv /\ IdleInv
  BY SchedulerStarts DEF Init, IdleInv
<1>2. (SchedulerInv /\ IdleInv) /\ [Next]_vars => (SchedulerInv /\ IdleInv)'
  BY SchedulerStep, IdleStep, LifecycleSteps
<1>3. QED
  BY <1>1, <1>2, PTL DEF Spec

\* Whatever the intervals and however many listeners: of timers, triggers,
\* connectivity changes and callbacks never two run a cycle (runSyncCycle).
THEOREM SingleCycle == Spec => []OneCycle
<1>1. SchedulerInv => OneCycle
  BY DEF SchedulerInv
<1>2. QED
  BY <1>1, LifecycleInvariant, PTL

\* cancelTimer() reaches every timeout that is set.
THEOREM NoTimerLeft == Spec => []NoStrayTimer
<1>1. SchedulerInv => NoStrayTimer
  BY DEF SchedulerInv
<1>2. QED
  BY <1>1, LifecycleInvariant, PTL

\* A scheduler that was started and not stopped has a timer or a cycle.
THEOREM StaysAwake == Spec => []NeverAsleep
<1>1. SchedulerInv => NeverAsleep
  BY DEF SchedulerInv
<1>2. QED
  BY <1>1, LifecycleInvariant, PTL

\* shutdown() of an idle client is final.
THEOREM IdleShutdown == Spec => []IdleShutdownIsFinal
<1>1. IdleInv => IdleShutdownIsFinal
  BY DEF IdleInv, IdleShutdownIsFinal
<1>2. QED
  BY <1>1, LifecycleInvariant, PTL

\* dispose() is final, in the middle of a cycle too.
THEOREM DisposedIsFinal == Spec => DisposedForGood
<1>1. SchedulerInv /\ [Next]_vars
        => [disposed => running' <= running /\ armed' = 0]_schedulerVars
  BY DisposedStep, LifecycleSteps
<1>2. QED
  BY <1>1, LifecycleInvariant, PTL DEF Spec, DisposedForGood

-----------------------------------------------------------------------------
(* The wait grows with the failures. *)

\* The interval is the backoff of the failures counted, the base after none.
BackoffInv ==
  /\ failures \in 0..MaxFailures
  /\ interval = IF failures = 0 THEN BaseInterval ELSE Backoff(failures)

\* The backoff is at least the wait there was, but for a first failure under a
\* cap that is below the base interval.
Lengthens ==
  failures > 0 \/ BaseInterval <= MaxBackoff => interval' >= interval

LEMMA BackoffGrows ==
  ASSUME NEW n \in 1..MaxFailures
  PROVE  Backoff(n - 1) \in Nat /\ Backoff(n) \in Nat /\ Backoff(n - 1) <= Backoff(n)
<1>1. PICK p, q : p = BackoffMultiplier ^ (n - 1) /\ q = BackoffMultiplier ^ n
  OBVIOUS
<1>2. n \in 0..MaxFailures /\ n - 1 \in 0..MaxFailures
  BY SchedulerConstants
<1>3. p \in Nat /\ q \in Nat /\ p <= q
  BY <1>1, <1>2, PowersAssumption
<1>4. BaseInterval * p \in Nat /\ BaseInterval * q \in Nat
  BY <1>3, SchedulerConstants
<1>5. BaseInterval * p <= BaseInterval * q
  <2>1. PICK d \in Nat : q = p + d
    <3>1. q - p \in Nat /\ q = p + (q - p)
      BY <1>3
    <3>2. QED
      BY <3>1
  <2>2. BaseInterval * q = BaseInterval * p + BaseInterval * d
    BY <1>3, <2>1, SchedulerConstants
  <2>3. BaseInterval * d \in Nat
    BY <2>1, SchedulerConstants
  <2>4. QED
    BY <1>4, <2>2, <2>3
<1>6. /\ Backoff(n - 1) = IF BaseInterval * p < MaxBackoff
                            THEN BaseInterval * p ELSE MaxBackoff
      /\ Backoff(n) = IF BaseInterval * q < MaxBackoff
                        THEN BaseInterval * q ELSE MaxBackoff
  BY <1>1 DEF Backoff
<1>7. QED
  BY <1>4, <1>5, <1>6, SchedulerConstants

\* The base interval is the backoff of no failure, unless the cap cuts it.
LEMMA BackoffStarts ==
  ASSUME BaseInterval <= MaxBackoff PROVE Backoff(0) = BaseInterval
BY PowersAssumption, SchedulerConstants DEF Backoff

LEMMA FailureLengthens ==
  ASSUME BackoffInv, NEW retryable \in BOOLEAN, CountFailure(retryable)
  PROVE  BackoffInv' /\ Lengthens
<1>1. CASE retryable
  <2>1. /\ failures < MaxFailures
        /\ failures' = failures + 1
        /\ interval' = Backoff(failures + 1)
    BY <1>1 DEF CountFailure
  <2>2. PICK n \in 1..MaxFailures : n = failures + 1
    BY <2>1, SchedulerConstants DEF BackoffInv
  <2>3. failures = n - 1 /\ interval' = Backoff(n) /\ failures' = n
    BY <2>1, <2>2, SchedulerConstants DEF BackoffInv
  <2>4. failures > 0 => interval' >= interval
    <3>1. failures > 0 => interval = Backoff(n - 1)
      BY <2>3 DEF BackoffInv
    <3>2. QED
      BY <2>3, <3>1, BackoffGrows
  <2>5. failures = 0 /\ BaseInterval <= MaxBackoff => interval' >= interval
    <3>1. failures = 0 /\ BaseInterval <= MaxBackoff => interval = Backoff(n - 1)
      BY <2>3, BackoffStarts DEF BackoffInv
    <3>2. QED
      BY <2>3, <3>1, BackoffGrows
  <2>6. BackoffInv'
    BY <2>3, SchedulerConstants DEF BackoffInv, Backoff
  <2>7. QED
    BY <2>4, <2>5, <2>6 DEF BackoffInv, Lengthens
<1>2. CASE ~retryable
  <2>1. UNCHANGED <<failures, interval>>
    BY <1>2 DEF CountFailure, backoffVars
  <2>2. interval \in Nat
    <3>1. CASE failures = 0
      BY <3>1, SchedulerConstants DEF BackoffInv
    <3>2. CASE failures # 0
      <4>1. PICK n \in 1..MaxFailures : n = failures
        BY <3>2, SchedulerConstants DEF BackoffInv
      <4>2. QED
        BY <3>2, <4>1, BackoffGrows DEF BackoffInv
    <3>3. QED
      BY <3>1, <3>2
  <2>3. QED
    BY <2>1, <2>2 DEF BackoffInv, Backoff, Lengthens
<1>3. QED
  BY <1>1, <1>2

\* Only a success, or the end of one that throws, touches what was counted.
LEMMA BackoffStep ==
  ASSUME BackoffInv, [SchedulerNext]_schedulerVars
  PROVE  BackoffInv' /\ (callback' # "succeeded" => Lengthens)
<1>1. CASE CycleSucceeds
  <2>1. failures' = 0 /\ interval' = BaseInterval /\ callback' = "succeeded"
    BY <1>1 DEF CycleSucceeds
  <2>2. BackoffInv'
    BY <2>1, SchedulerConstants DEF BackoffInv, Backoff
  <2>3. QED
    BY <2>1, <2>2
<1>2. CASE CycleFails
  BY <1>2, FailureLengthens DEF CycleFails
<1>3. CASE CallbackThrows
  BY <1>3, FailureLengthens DEF CallbackThrows
<1>4. CASE UNCHANGED backoffVars
  BY <1>4, FailureLengthens DEF CountFailure
<1>5. QED
  BY <1>1, <1>2, <1>3, <1>4
     DEF SchedulerNext, Start, Stop, Dispose, CancelAll, TriggerSync, TimerFires,
         BackOnline, EndOfCycle, schedulerVars, backoffVars

\* A failure never shortens the wait before the next cycle, whatever is called
\* in between, and a success that the application's callback turns into a
\* failure does not either (BackoffNeverShortens): for any whole multiplier and
\* any base interval and cap, but for the first failure if the cap is the lower.
THEOREM WaitNeverShrinks == Spec => BackoffNeverShortens
<1>1. Init => BackoffInv
  BY SchedulerConstants DEF Init, SchedulerInit, BackoffInv
<1>2. BackoffInv /\ [Next]_vars => BackoffInv'
  BY LifecycleSteps, BackoffStep
<1>3. BackoffInv /\ [Next]_vars =>
        [callback' # "succeeded" /\ (failures > 0 \/ BaseInterval <= MaxBackoff)
           => interval' >= interval]_schedulerVars
  BY LifecycleSteps, BackoffStep DEF Lengthens
<1>4. QED
  BY <1>1, <1>2, <1>3, PTL DEF Spec, BackoffNeverShortens
=============================================================================
