-------------------------- MODULE ClientLifecycle --------------------------
(***************************************************************************)
(* LifecycleManager.shutdown() over a SyncScheduler, a transport and a     *)
(* storage adapter: the scheduler is stopped, then the others are disposed *)
(* of one after the other, each awaited, and the whole races a timeout.    *)
(* The application calls the scheduler until it asks for the shutdown.     *)
(***************************************************************************)
EXTENDS SyncScheduler, Sequences

VARIABLES
  shutdown,   \* shutdownInProgress and shutdownComplete
  disposing,  \* the resource whose dispose() is awaited, or "none"
  remaining,  \* resources that are still to be disposed of, in their order
  closed,     \* resources whose dispose() succeeded
  errors,     \* resources whose dispose() threw
  report,     \* what the call of shutdown() returned as clean, or "none"
  idleThen    \* history: at shutdown() no cycle ran and no listener was left

lifecycleVars ==
  <<shutdown, disposing, remaining, closed, errors, report, idleThen>>

vars == <<schedulerVars, lifecycleVars>>

Resource == {"scheduler", "transport", "storage"}

Init ==
  /\ SchedulerInit
  /\ shutdown = "no" /\ disposing = "none"
  /\ remaining = <<"transport", "storage">>
  /\ closed = {} /\ errors = {} /\ report = "none"
  /\ idleThen = FALSE

\* Wrong: nothing stops the scheduler.
ShutdownUnstopped ==
  /\ shutdown = "no"
  /\ shutdown' = "inProgress"
  /\ closed' = {"scheduler"}
  /\ idleThen' = (~syncInProgress /\ listeners = 0)
  /\ UNCHANGED <<schedulerVars, disposing, remaining, errors, report>>

\* stop() runs before shutdown() first awaits.
Shutdown ==
  /\ shutdown = "no"
  /\ Stop
  /\ shutdown' = "inProgress"
  /\ closed' = {"scheduler"}
  /\ idleThen' = (~syncInProgress /\ listeners' = 0)
  /\ UNCHANGED <<disposing, remaining, errors, report>>

DisposeNext ==
  /\ shutdown # "no" /\ callback = "none"
  /\ disposing = "none" /\ remaining # <<>>
  /\ disposing' = Head(remaining)
  /\ remaining' = Tail(remaining)
  /\ UNCHANGED <<schedulerVars, shutdown, closed, errors, report, idleThen>>

\* The dispose() resolves or throws; it may also never settle.
DisposeSettles ==
  /\ disposing # "none" /\ callback = "none"
  /\ \/ closed' = closed \cup {disposing} /\ UNCHANGED errors
     \/ errors' = errors \cup {disposing} /\ UNCHANGED closed
  /\ disposing' = "none"
  /\ UNCHANGED <<schedulerVars, shutdown, remaining, report, idleThen>>

\* Wrong: shutdown() waits for its resources, however long that takes.
CompleteDisposed ==
  /\ shutdown = "inProgress" /\ callback = "none"
  /\ disposing = "none" /\ remaining = <<>>
  /\ shutdown' = "complete"
  /\ report' = IF errors = {} THEN "clean" ELSE "errors"
  /\ UNCHANGED <<schedulerVars, disposing, remaining, closed, errors,
                 idleThen>>

\* The race is over: the resources are disposed of, or the timeout fires.
Complete ==
  /\ shutdown = "inProgress" /\ callback = "none"
  /\ shutdown' = "complete"
  /\ report' = IF errors = {} THEN "clean" ELSE "errors"
  /\ UNCHANGED <<schedulerVars, disposing, remaining, closed, errors,
                 idleThen>>

Next ==
  \/ /\ shutdown = "no"
     /\ Start \/ Stop \/ Dispose \/ TriggerSync
     /\ UNCHANGED lifecycleVars
  \/ /\ \/ TimerFires \/ BackOnline
        \/ CycleSucceeds \/ CycleFails \/ CallbackThrows \/ EndOfCycle
     /\ UNCHANGED lifecycleVars
  \/ Shutdown \/ DisposeNext \/ DisposeSettles \/ Complete

\* The promises of engine.sync() settle and the event loop comes round to a
\* timeout that is due (strongly fair: callbacks hold it up now and then); a
\* dispose() may hang.
Fairness == SchedulerFairness /\ SF_vars(Complete)

Spec == Init /\ [][Next]_vars /\ Fairness

-----------------------------------------------------------------------------
\* shutdown() on an idle client is final: no timer left behind and no late
\* listener starts a cycle against the closed transport and storage.
IdleShutdownIsFinal == idleThen => running = 0 /\ armed = 0

\* shutdown() stops the scheduler, "no more periodic syncs": once the call
\* has returned, no cycle starts any more, idle or not.
QuietAfterShutdown == [][report # "none" => running' <= running]_vars

\* shutdown() returns, even when a resource never finishes disposing.
ShutdownReturns == shutdown = "inProgress" ~> shutdown = "complete"
=============================================================================
