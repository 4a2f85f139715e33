--------------------------- MODULE SyncScheduler ---------------------------
(***************************************************************************)
(* SyncScheduler: one timer, one sync cycle at a time, triggers coalesced, *)
(* backoff after failures.  JavaScript runs a callback to completion, so a *)
(* step here is what runs between two awaits.  The one exception is the    *)
(* onSyncComplete callback: it is application code called in the middle of *)
(* the end of a cycle, it may call the scheduler, and it is a stop of its  *)
(* own (callback).                                                         *)
(*                                                                         *)
(* A definition whose comment begins with "Wrong:" is not part of the      *)
(* model: it shows that a property would notice a plausible mistake.       *)
(***************************************************************************)
EXTENDS Naturals

CONSTANTS
  BaseInterval, BackoffMultiplier, MaxBackoff,  \* SyncSchedulerOptions
  MaxFailures,   \* bound: consecutive failures
  MaxListeners   \* bound: connectivity listeners registered at a time

VARIABLES
  timerHandle,   \* "null" or "timeout"
  armed,         \* timeouts that will fire
  syncInProgress, pendingTrigger, disposed,
  failures,      \* consecutiveFailures
  interval,      \* currentIntervalMs
  cleanupConnectivity,  \* "null" or "cleanup", of the last listener set up
  listeners,     \* callbacks registered with the ConnectivityDetector
  running,       \* calls of engine.sync() that have not settled
  callback,      \* onSyncComplete is running, after this outcome; or "none"
  active         \* history: start() was called, and stop() not since

schedulerVars == <<timerHandle, armed, syncInProgress, pendingTrigger, disposed,
                   failures, interval, cleanupConnectivity, listeners,
                   running, callback, active>>

timerVars    == <<timerHandle, armed>>
cycleVars    == <<syncInProgress, pendingTrigger, running>>
backoffVars  == <<failures, interval>>
listenerVars == <<cleanupConnectivity, listeners>>

ASSUME SchedulerConstants ==
  /\ BaseInterval \in Nat \ {0} /\ BackoffMultiplier \in Nat \ {0}
  /\ MaxBackoff \in Nat
  /\ MaxFailures \in Nat /\ MaxListeners \in Nat

\* Math.pow of a whole number that is not 0.
ASSUME PowersAssumption ==
  /\ BackoffMultiplier ^ 0 = 1
  /\ \A n \in 0..MaxFailures : BackoffMultiplier ^ n \in Nat
  /\ \A n \in 1..MaxFailures :
       BackoffMultiplier ^ (n - 1) <= BackoffMultiplier ^ n

SchedulerInit ==
  /\ timerHandle = "null" /\ armed = 0
  /\ syncInProgress = FALSE /\ pendingTrigger = FALSE /\ disposed = FALSE
  /\ failures = 0 /\ interval = BaseInterval
  /\ cleanupConnectivity = "null" /\ listeners = 0
  /\ running = 0 /\ callback = "none"
  /\ active = FALSE

-----------------------------------------------------------------------------
(* Timer and listener. *)

\* Timeouts left when the one in timerHandle, if any, has been cleared.
ArmedAfterCancel ==
  IF timerHandle = "timeout" THEN armed - 1 ELSE armed

CancelTimer == timerHandle' = "null" /\ armed' = ArmedAfterCancel

\* Wrong: the timer that is set is not cleared first.
ScheduleAnother ==
  /\ timerHandle' = IF disposed THEN "null" ELSE "timeout"
  /\ armed' = armed + (IF disposed THEN 0 ELSE 1)

ScheduleNext ==
  /\ timerHandle' = IF disposed THEN "null" ELSE "timeout"
  /\ armed' = ArmedAfterCancel + (IF disposed THEN 0 ELSE 1)

\* A second start() forgets the first listener's clean-up.
SetupListener ==
  /\ listeners < MaxListeners
  /\ cleanupConnectivity' = "cleanup"
  /\ listeners' = listeners + 1

TeardownListener ==
  /\ cleanupConnectivity' = "null"
  /\ listeners' = IF cleanupConnectivity = "cleanup" THEN listeners - 1
                                                    ELSE listeners

-----------------------------------------------------------------------------
(* The sync cycle. *)

\* Wrong: nothing keeps a second cycle from starting.
RunAnotherCycle(busy) ==
  IF disposed
    THEN syncInProgress' = busy /\ UNCHANGED <<pendingTrigger, running>>
    ELSE /\ syncInProgress' = TRUE
         /\ pendingTrigger' = FALSE
         /\ running' = running + 1

\* runSyncCycle up to its await, when syncInProgress is busy.
RunSyncCycle(busy) ==
  IF busy \/ disposed
    THEN syncInProgress' = busy /\ UNCHANGED <<pendingTrigger, running>>
    ELSE /\ syncInProgress' = TRUE
         /\ pendingTrigger' = FALSE
         /\ running' = running + 1

\* Wrong: what a server asks for is taken in place of the backoff.
BackoffFixed(n) == BaseInterval - 1

Backoff(n) ==
  LET wait == BaseInterval * BackoffMultiplier ^ n
  IN IF wait < MaxBackoff THEN wait ELSE MaxBackoff

\* onCycleError: TRANSIENT, RATE_LIMITED and UNKNOWN are retryable.
CountFailure(retryable) ==
  IF retryable
    THEN /\ failures < MaxFailures
         /\ failures' = failures + 1
         /\ interval' = Backoff(failures + 1)
    ELSE UNCHANGED backoffVars

CycleSucceeds ==
  /\ running > 0 /\ callback = "none"
  /\ running' = running - 1
  /\ failures' = 0
  /\ interval' = BaseInterval
  /\ callback' = "succeeded"
  /\ UNCHANGED <<timerVars, syncInProgress, pendingTrigger, disposed,
                 listenerVars, active>>

CycleFails ==
  /\ running > 0 /\ callback = "none"
  /\ running' = running - 1
  /\ \E retryable \in BOOLEAN : CountFailure(retryable)
  /\ callback' = "failed"
  /\ UNCHANGED <<timerVars, syncInProgress, pendingTrigger, disposed,
                 listenerVars, active>>

\* onSyncComplete throws after a success: the catch block takes the cycle for
\* failed, with an unknown error, and calls it again.
CallbackThrows ==
  /\ callback = "succeeded"
  /\ CountFailure(TRUE)
  /\ callback' = "failed"
  /\ UNCHANGED <<timerVars, cycleVars, disposed, listenerVars, active>>

\* Wrong: the finally block forgets the trigger and waits for the timer.
EndOfCycleDeaf ==
  /\ callback # "none"
  /\ callback' = "none"
  /\ syncInProgress' = FALSE
  /\ ScheduleNext
  /\ UNCHANGED <<pendingTrigger, running, disposed, backoffVars,
                 listenerVars, active>>

\* Wrong: the finally block leaves the timer to a start() in between.
EndOfCycleUnscheduled ==
  /\ callback # "none"
  /\ callback' = "none"
  /\ IF pendingTrigger
       THEN RunSyncCycle(FALSE)
       ELSE syncInProgress' = FALSE /\ UNCHANGED <<pendingTrigger, running>>
  /\ UNCHANGED <<timerVars, disposed, backoffVars, listenerVars, active>>

\* The finally block, after onSyncComplete returned or threw for good.
EndOfCycle ==
  /\ callback # "none"
  /\ callback' = "none"
  /\ IF pendingTrigger
       THEN RunSyncCycle(FALSE) /\ UNCHANGED timerVars
       ELSE /\ syncInProgress' = FALSE
            /\ ScheduleNext
            /\ UNCHANGED <<pendingTrigger, running>>
  /\ UNCHANGED <<disposed, backoffVars, listenerVars, active>>

-----------------------------------------------------------------------------
(* The public methods, and what calls them. *)

Start ==
  /\ ~disposed
  /\ SetupListener
  /\ ScheduleNext
  /\ active' = TRUE
  /\ UNCHANGED <<cycleVars, disposed, backoffVars, callback>>

CancelAll ==
  /\ CancelTimer
  /\ TeardownListener
  /\ active' = FALSE
  /\ UNCHANGED <<cycleVars, backoffVars, callback>>

Stop == CancelAll /\ UNCHANGED disposed

Dispose == CancelAll /\ disposed' = TRUE

TriggerSync ==
  /\ IF syncInProgress
       THEN /\ pendingTrigger' = TRUE
            /\ UNCHANGED <<timerVars, syncInProgress, running>>
       ELSE CancelTimer /\ RunSyncCycle(syncInProgress)
  /\ UNCHANGED <<disposed, backoffVars, listenerVars, callback, active>>

TimerFires ==
  /\ armed > 0 /\ callback = "none"
  /\ timerHandle' = "null"
  /\ armed' = armed - 1
  /\ RunSyncCycle(syncInProgress)
  /\ UNCHANGED <<disposed, backoffVars, listenerVars, callback, active>>

BackOnline ==
  /\ listeners > 0 /\ callback = "none"
  /\ TriggerSync

SchedulerNext ==
  \/ Start \/ Stop \/ Dispose \/ TriggerSync
  \/ TimerFires \/ BackOnline
  \/ CycleSucceeds \/ CycleFails \/ CallbackThrows \/ EndOfCycle

SchedulerSpec == SchedulerInit /\ [][SchedulerNext]_schedulerVars

-----------------------------------------------------------------------------
(* Properties. *)

SchedulerTypeOK ==
  /\ timerHandle \in {"null", "timeout"} /\ armed \in Nat
  /\ syncInProgress \in BOOLEAN /\ pendingTrigger \in BOOLEAN
  /\ disposed \in BOOLEAN
  /\ failures \in 0..MaxFailures /\ interval \in Nat
  /\ cleanupConnectivity \in {"null", "cleanup"}
  /\ listeners \in 0..MaxListeners
  /\ running \in Nat
  /\ callback \in {"none", "succeeded", "failed"}
  /\ active \in BOOLEAN

\* "The scheduler runs a single sync cycle at a time": of timers, triggers,
\* listeners and callbacks that call back, never two start one.
OneCycle ==
  /\ syncInProgress => (IF callback = "none" THEN running = 1
                                             ELSE running = 0)
  /\ ~syncInProgress => running = 0 /\ callback = "none"

\* No timeout is ever left behind that cancelTimer() cannot reach: it would
\* run cycles of a scheduler that was stopped.
NoStrayTimer == armed = IF timerHandle = "timeout" THEN 1 ELSE 0

\* A scheduler that was started and not stopped never falls asleep: a timer
\* is set or a cycle is running, whatever triggers and callbacks came between.
NeverAsleep == (active /\ ~disposed) => (timerHandle = "timeout" \/ syncInProgress)

\* A disposed scheduler starts no cycle and sets no timer, even when it is
\* disposed in the middle of a cycle, with a trigger remembered or with a
\* listener left behind.
DisposedForGood == [][disposed => running' <= running /\ armed' = 0]_schedulerVars

\* A failure never shortens the wait, and only a success resets it.  Where the
\* cap is below the base interval, which no option forbids, this is so from the
\* second failure in a row.
BackoffNeverShortens ==
  [][callback' # "succeeded" /\ (failures > 0 \/ BaseInterval <= MaxBackoff)
       => interval' >= interval]_schedulerVars

\* The same for any options, of the first failure too.
NoFailureShortens ==
  [][callback' # "succeeded" => interval' >= interval]_schedulerVars

\* A trigger that comes in the middle of a cycle is obeyed after it, unless
\* the scheduler is disposed.
TriggerObeyed == pendingTrigger ~> (~pendingTrigger \/ disposed)

\* Every promise of engine.sync() settles and the callback returns; timeouts
\* fire.  Nothing is assumed of the application.
SchedulerFairness ==
  /\ WF_schedulerVars(CycleSucceeds \/ CycleFails)
  /\ WF_schedulerVars(EndOfCycle)
=============================================================================
