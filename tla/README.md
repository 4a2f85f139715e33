# OfflineSync in TLA+

Models of the TypeScript packages under `src/packages`: what the clients, the
sync server and the parts around them do, TLC runs that check them on small
instances, and TLAPS proofs that hold for every instance.  `PROJECT.json` maps
every definition to the source lines it models, names the runs and the
theorems, and lists the hazards the properties are for.

## 1. The system

OfflineSync lets an application write to a local store while it is offline.
Every write also queues a *mutation*; a *sync cycle* sends pending mutations to
a server, receives what changed there, and settles each mutation as
acknowledged or as a conflict.

| Part (package) | State it keeps | Operations | Talks to |
|---|---|---|---|
| `SyncServer` (server) | entity store, change log with a retention horizon, tracker of mutation ids | `handleSyncRequest`, `handleSnapshotRequest`, `setMinimumAvailableCursor`, `seedEntity` | clients, by request and reply |
| `Collection`, `MutationRecorder` (core) | entities; the last sequence number of each collection | `create`, `put`, `update`, `delete`, each writing entity and mutation in one transaction | storage, mutation queue |
| `MutationQueue` (core) | mutation records with a status | `enqueue`, `dequeuePending`, `acknowledge`, `markConflict`, `retry`, `resolveConflict` and the sender's `markInFlight`, `markFailed` | storage |
| `SyncEngine` (core) | the cursor, the sync state | `sync()`: incremental or snapshot cycle, automatic conflict resolution | queue, storage, transport, resolver |
| `SyncScheduler`, `LifecycleManager` (core) | timer, in-progress and pending flags, backoff | `start`, `stop`, `triggerSync`, `dispose`, `shutdown` | engine, connectivity detector |
| `MutationSender`, error classifier (core) | retry counts in the queue | `sendPending`, `retryMutation` | queue, a send callback |
| `RecoveryManager`, `IntegrityChecker` (core) | none of their own | reset of in-flight mutations, sequence and orphan reports | storage |
| Conflict strategies (conflict) | none | server wins, client wins, last write wins, field merge, manual, custom | engine |
| Transports (transport-websocket, transport-http) | connection, pending requests, heartbeat, reconnect timer | `sendSync`, `sendSnapshot`, `connect`, `dispose` | server |
| Storage (storage, storage-sqlite) | one SQLite connection, an open transaction | `get`, `put`, `delete`, `transaction`, `close`, query translation | everything on the client |
| Discovery (discovery) | found peers, running flag | `start`, `stop`, `dispose`, peer events | a backend |
| Bindings (react, vue), Electron bridge (electron) | snapshot of a query, refresh in progress; pending IPC requests | refresh, subscribe, IPC requests | collection, engine |

What is hard:

* A cycle is a long chain of awaits. Local writes, another client, a lost
  reply, a timeout with a late request behind it, pruning on the server, or a
  crash may come between any two of them.
* Three numbers must agree: sequence numbers order a client's queue, revisions
  detect conflicts, server sequences are the cursors. Each is read in one step
  and used in a later one.
* The server forgets. Its log and its duplicate check are cut at the same
  horizon while clients below it still retry.
* Promises overlap: timers, triggers, callbacks that call back, a shutdown
  that races a timeout.

What makes each part correct:

* server: at most one application of a mutation in the retained window, no gap
  under a served cursor, snapshot and log agree, no write over a revision its
  author did not name, nothing acknowledged that was not applied;
* client and server together: nothing marked ACKNOWLEDGED that the server
  lacks, a cursor that never runs ahead of the store, equality with the server
  once settled, and every pending write settled in the end;
* scheduler: one cycle at a time, never asleep while started, every trigger
  obeyed, silent once disposed; lifecycle: a shutdown that returns and is final;
* sender: mutations first sent in order, statuses that tell the truth after any
  error or crash, an outcome for every mutation;
* SQLite adapter: a transaction belongs to one call, leaves nothing behind when
  it fails, and never keeps the adapter to itself;
* resolver: a merge keeps the effect of the operation that conflicted, and no
  conflict goes round for ever; bindings and bridge: what a view shows is no
  older than what was announced, and a window's call gets its own answer.

## 2. The modules

| Module | Models | Extends |
|---|---|---|
| `SyncServer` | `server/src`: the server on its own | |
| `SyncContract` | the promise of synchronisation, without cursors, queues or requests | |
| `OfflineSync` | clients (collection, recorder, queue, engine, recovery), the network, the server | `SyncServer`, instance of `SyncContract` |
| `IntegrityChecks` | `integrity-checker.ts` and the reports of `recovery-manager.ts`, over the clients' stored state | `OfflineSync` |
| `ConflictResolution` | `conflict/src` and what engine and queue do with a resolution | |
| `MutationSender` | `mutation-sender.ts`, `error-classifier.ts` and the queue's read-modify-write status changes | |
| `SQLiteStorage` | `storage-sqlite/src`: adapters, transactions, connections on one file | |
| `CollectionViews` | collection and entity controllers of `react/src` and `vue/src`, the hooks that own them, the collection's change events | |
| `ElectronBridge` | `electron/src`: bridge, handlers, renderer clients | |
| `SyncScheduler` | `sync-scheduler.ts` | |
| `ClientLifecycle` | `lifecycle-manager.ts` over a scheduler | `SyncScheduler` |
| `WebSocketTransport` | `ws-transport.ts`, with sockets, timers and the server's messages | |
| `MCSyncServer`, `MCOfflineSync`, `MCMutationSender`, `MCSQLiteStorage`, `MCCollectionViews`, `MCConflictResolution` | requests, entities, errors, placements, managers of the runs | the module they name (`MCOfflineSync`: `IntegrityChecks`) |
| `SyncServerProofs`, `SchedulerProofs`, `TransportProofs` | proofs | `SyncServer`; `ClientLifecycle`; `WebSocketTransport` |
| `AdapterProofs` | proofs about the three adapters to the host | `SQLiteStorage`, `ElectronBridge`, `CollectionViews` |
| `MutationProofs` | proofs: what becomes of a queued mutation | `MutationSender`, `ConflictResolution` |
| `OfflineSyncProofs` | proofs: types, the server inside the system, the stored cursor | `OfflineSync`, `SyncServerProofs` |
| `ContractProofs` | proofs: acknowledgements, the refinement of `SyncContract` | `OfflineSyncProofs` |
| `ConvergenceProofs` | proofs: sequence numbers, conflicts, agreement with the server | `ContractProofs`, `IntegrityChecks` |

Definitions whose comment begins with "Wrong:" belong to no specification.
Each is one definition of the model with a plausible bug, next to the right
one; `PROJECT.json` (`mutants`) says which property then fails.

### SyncServer

State: `store` is the `entities` map; `history` every entry the log was ever
given, the position being its `serverSequence`; `retained` the positions
`ServerChangeLog.entries` still holds after pruning; `minimumCursor` the
horizon; `tracker` the ids `ServerMutationTracker` knows with their sequences.
`job` is the request being handled. The handler is synchronous in the code; it
is split into `BeginSync`, one `ProcessMutation` per mutation (`Deduplicate`,
`DetectConflict` or `Accept`, the three outcomes of `processMutation`) and
`EndSync`, and no other server action is enabled in between.

Data: an entity's data is the set of the writes that show in it. A `set`
replaces it, the other five operations (patch, increment, decrement, add,
remove) add to it. Two entities are then equal exactly when the same writes
show in them, which is all the properties tell apart. A conflict records
whether the server entity in it has timestamps (`dated`), because the client
rejects a response in which one has not.

`setMinimumAvailableCursor` takes any string in the code. The model lets an
operator raise the horizon, at most to the current cursor; lowering it would
serve cursors whose entries are gone.

### OfflineSync

One step is the code between two awaits, as far as another actor could tell
the difference. A cycle of client `c` goes through `pc[c]`:

    idle -> dequeue -> loadBase -> awaitReply -> apply -> saveCursor
         -> settle (-> putResolved -> resolveMutation -> settle)* -> idle
    idle -> awaitReply -> apply -> saveCursor -> finish -> idle   (snapshot)
    awaitReply -> requeue -> awaitReply                  (CURSOR_TOO_OLD)
    any -> recovering -> idle                                     (crash)

* `Dequeue` reads the pending mutations in sequence order (ties of different
  collections in any order) and changes nothing, as `dequeuePending`.
* `LoadBase` reads one base revision at a time, keyed by entity id alone.
* `ReceiveValid` / `ReceiveInvalid` / `ReceiveTooOld` are the three ways a reply
  is taken; an invalid one ends the cycle and leaves `syncState` at SYNCING.
* `ApplyReply` is the one transaction that stores changes, `SaveCursor` the
  write after it, `Acknowledge`, `MarkConflict`, `ReadAndResolve`,
  `PutResolved`, `ResolveMutation` and `Requeue` the writes that settle each
  mutation.
* Local writes: `Create` and `Put` are one transaction; `update()` and
  `delete()` read first (`ReadForEdit`) and write later (`WriteEdit`).
  `RollBackWrite` is a transaction that fails after its sequence number was
  taken.
* `Abandon` loses what was on its way, or leaves a request to arrive later
  (`ServeDelayed`). `TransportError` is the rejected send, `Crash` loses all
  that is volatile and restores sequence numbers as the application must.
* `ForceSnapshot` is `forceSnapshotSync()`, for all collections or some: the
  server's reply holds the entities of those, and the cursor of its whole log.
* `PeerSync` is a client outside the model that writes on the current revision.

`known` and `seen` are history: the position of the log entry an author had
stored when it wrote, and the entry whose state a client last stored.

Assumptions: storage transactions are atomic and other storage calls do not
fail; one cycle at a time (which `ClientLifecycle` shows of the scheduler);
ids are fresh (UUID).

### SyncContract

`log`, `horizon`, `settled`: writes take effect one after the other, a write is
settled only once it is in the log and stays settled, and it may take effect
again only when its first effect lies below the horizon, which only rises.
`OfflineSync` implements it with the log as `history`, the horizon as
`minimumCursor` and the settled writes as all mutations some client has marked
ACKNOWLEDGED.

### IntegrityChecks

`checkSequenceMonotonicity`, `checkMutationDurability`, `checkAtomicWritePairs`
and `checkRevisionTypes`, and recovery's `checkSequenceIntegrity` and
`checkOrphanedMutations`, as operators that return the issues found in a
client's `queue` and `local`. They are evaluated in every state, not only where
the application would call them, since they may be called at any time. The
queue of `OfflineSync` keeps settled mutations, as the code does, so a gap is a
number that no record has.

### ConflictResolution

One entity with a number (`count`), an array (`items`) and a nested object
(`profile`), which is what the operations tell apart. `server`, `local` and
`cursor` are the two sides of it; `mutations` holds each mutation with the edit
it was recorded as, since `resolveConflict` turns its operation into `set` and
keeps its `field`. `Exchange` is a request and the server's answer (the other
modules have what may come between), `Acknowledge`, `AutoResolve` and
`LeaveToApplication` the ways the client takes it. The strategies are operators
from a conflict's context to the set of its possible resolutions (a set because
`LAST_WRITE_WINS` compares timestamps, of which either may be later).
`ConflictResolutionManager` is the set of managers that can be configured: the
built-in strategies, with a simple one as the fallback of the field merge, and
the operation-aware one over those (its constructor takes any object).
`Resolve` is `ConflictResolutionManager.resolve`: the collection's strategy or
the default, then the chain. The manager is chosen at the start from those of
the run, and `SetCollectionStrategy` changes it at any time.

### MutationSender

`calls[s]` is a call of `sendPending()`: the mutations it dequeued and where it
is with the first of them (`putInFlight`, `send`, `putOutcome` and so on). The
queue's methods read a record, wait and write back a changed copy (`Get`, then
`PutInFlight` or `PutOutcome`); that is two steps, so overlapping calls may undo
each other's changes. `SendFails` has an error of the run and whether the peer
took the mutation over all the same; `OutcomeOf` is `handleSendError`, with
`Classify` for the error's class. `StorageFails` is a queue method that rejects,
before the `try` or in the `catch` block too, where the error leaves
`sendPending()`. `Restart` is a crash followed by recovery. `RetryMutation` is
`retryMutation()`, which asks for the pending mutations of an entity with no
name and so never finds one. `ResolveConflict` is one step, of a mutation in
CONFLICT, where `mutation-queue.ts:321-345` reads, awaits and writes and looks at
no status: it is the application's answer to a conflict it was shown, and it
writes PENDING and nothing else.

### SQLiteStorage

`rows` is what is committed, `holder` the adapter whose connection has the write
transaction, `work` the table as it sees it. `inTransaction` is the flag,
`step[t]` where task `t` is in `transaction()`. A task is a chain of awaits; it
makes plain calls (`Get`, `Put`, ...) or, while its callback runs, calls of the
transaction object (`TxGet`, `TxPut`, ...). Both use the connection of the
task's adapter, so a plain call made while another task's transaction is open
joins it: its token is added to what the transaction's call `wrote`.
`BeginFails`, for whatever reason: the flag is set before `BEGIN IMMEDIATE`,
outside the `try`, and stays. `StatementFails` is an error (disk full, I/O) of any
task's plain or transaction statement at which SQLite rolls back the transaction
open on the connection, whosever it is. Its owner is not told: the callback goes
on (`ended`), what it writes then is committed statement by statement, `COMMIT`
fails, and `ROLLBACK` finds nothing, which is ignored. `Throw` is a callback that
rejects, or such a `COMMIT`; it leads to `RollBack`. `Close` may come at any time
and the transaction goes with the connection. SQLite is external: one writer,
readers see what is committed, a crash keeps what is committed. Data is a token
per write. `dead` and `stray` are history: the tokens that failed calls wrote in
their transaction, and after an error had ended it.

### CollectionViews

`store` has a version of each entity, `unannounced` the writes whose change
event is yet to come (the event follows the transaction), `listeners` the change
emitter's list. `controller[k]` is a controller with its view, `reads` the reads
under way in the order made. A listener runs synchronously up to its read, so
`EmitChange` is one step. `view[v]` is a component: its stage, its current
controller and the state its controllers last gave it. For React, `Render` and
`RunEffects` are apart: between them a former controller still writes to the
state. Vue runs setup once, and returns copies of what the state is then, while
the controllers go on to write to refs nobody sees: `Returned` is what a component
is given to show, for either, and `QuietIsCurrent` and `ChangesAreShown` are about
that, for the React hooks: for Vue's they fail (section 3). `Render` takes
every rendering to be committed and `useMemo` to run once for it: a rendering React
discards, or the second one of StrictMode, makes a controller in
`react/use-collection.ts:35-65` that no effect disposes of, and that leak is not in
the model. What the sync engine stores (`ApplyRemote`) is not
announced to collections (the comment at `sync-engine.ts:635` leaves it to the
caller), so views show it with the next change or not at all.

### ElectronBridge

`handlers` is the bridge's table, by channel; `calls[i]` an invocation with its
channel, stage and result; `cycles` the cycles the engine runs, one for each call
in progress. `CreateIPCHandler` registers, once; `RegisterHandler` and
`RemoveHandler` are the application's. A handler it registers may call the engine
as `createIPCHandler`'s do, or answer by itself, with anything the renderer can
be given: a cycle's result too (`AnswerCustom`). `custom` and `ran` are history:
the calls so answered, and those whose cycle completed. `DisposeRegistration`
empties the table and leaves `ipcMain`'s handlers, which go on to call the bridge
and get "no handler". A client's `dispose()` rejects later calls and leaves those
under way; when a window closes, the main process goes on with its calls and
answers nobody.

### SyncScheduler and ClientLifecycle

A step is what runs between two awaits. `armed` counts timeouts that will fire
and `timerHandle` is the one the scheduler can still clear; likewise
`listeners` and `cleanupConnectivity`. `onSyncComplete` is application code
called in the middle of the end of a cycle, so `callback` is a state in which
`start`, `stop`, `triggerSync`, `dispose` and `shutdown` may be called before
`EndOfCycle`, the `finally` block, runs. `ClientLifecycle` stops the scheduler,
disposes of transport and storage, and lets a timeout win the race at any time.
`running` counts unsettled `engine.sync()` calls; the cycle itself is
`OfflineSync`'s. Intervals are whole numbers, and so is the multiplier, at least 1,
where the constructor takes any number; the cap may be above or below the interval,
as in the code.

### WebSocketTransport

`ws` is the socket the transport holds, `attached` the sockets whose events
still reach its handlers: two things, since `closeWs()` takes the handlers off
before the close event of a real WebSocket can come. `readyState` is each
socket's own. `pending` are the keys of `pendingRequests`, `timers` the request
timeouts that will fire, `outcome` how each promise was settled. Actions are
the public methods (`Connect`, `Disconnect`, `Dispose`, `Request`), the timers
(`ReconnectFires`, `SendPing`, `PongTimeout`, `RequestTimeout`), the socket's
events (`SocketOpens`, `SocketCloses`, `SocketClosed`) and the server's messages
(`Response`, `ErrorAbout`, `ConnectionError`, `Pong`). Time is left out: any
timeout that is set may fire next. `heartbeatIntervalMs` is 0 (no heartbeat) or
not. `CreateConnection` may end in `FactoryThrows`, as the default factory does
where there is no WebSocket, or a WebSocket for an invalid URL: CONNECTING is set
by then, nothing takes it back, and `thrown` remembers it. Listeners are assumed not
to call the transport back. A push reaches listeners only.

## 3. The runs

| Run | Checks | Instance | States |
|---|---|---|---|
| `server` | `AtMostOnceInWindow`, `StoreMatchesLog`, `ReplyHasEveryChange`, `AppliedToLatest`, `AcknowledgedIsApplied` | 2 entities, 2 ids, requests of up to 2 mutations with any base revision up to 2 and any cursor, log of 3 (4 when a request ends past it) | 0.26 M |
| `sync_core` | `TypeOK`, `CursorCoversStored`, `ConflictNotApplied`, `NothingToReport` | 1 client, all kinds of writes, forced snapshots, 1 peer write, losses, crashes, conflicts left to the application | 1.7 M |
| `sync_contract` | `SettledMeansEqual`, `ImplementsContract` | 1 client, 2 collections sharing an entity id, a peer write, last-write-wins (either side wins), pruning up to 2, losses, a delayed request, crashes, rolled-back writes | 0.7 M |
| `sync_live` | `PendingEventuallySettles` | 1 client with `put`, a peer write, losses, last-write-wins, fair | 5 k |
| `sync_overwrite` | `NoUnseenOverwrite` (violated) | 1 client, 1 peer write, no failures | |
| `lifecycle` | `OneCycle`, `NoStrayTimer`, `NeverAsleep`, `IdleShutdownIsFinal`, `BackoffNeverShortens`, `TriggerObeyed`, `ShutdownReturns` | base 2, factor 2, cap 6, three failures in a row, two listeners | 3 k |
| `websocket` | `OneSocket`, `WaitingIsTimed`, `ClosedIsQuiet`, `StateIsBacked`, `RequestsSettle`, `ConnectingEnds` | 3 sockets, 2 requests, 2 reconnection attempts, heartbeat on or off, a factory that may throw | 52 k |
| `sender` | `SentInOrder`, `StatusIsTrue`, `ResultsMatchQueue`, `EveryMutationSettles` | 2 mutations, 2 calls, 2 errors, 1 retry, 2 faults among crash, storage error and overlap, 1 resolved conflict | 0.3 M |
| `sqlite` | `TransactionsAreOwned`, `FailedLeavesNothing`, `AdapterIsReleased` | 2 tasks of one adapter, a third of another, 2 keys, 3 writes, 1 crash or close, any failing statements | 0.5 M |
| `views` | `GoneIsGone`, `QuietIsCurrent`, `ChangesAreShown` | a view of each of the four kinds, 3 controllers, 2 entities, a write to each, 3 reads under way | 0.5 M |
| `bridge` | `AnsweredByEngine`, `DisposedStartsNothing`, `CallsSettle` | 2 windows, 2 calls, handlers of the application | 0.5 M |
| `conflict` | `OneConflictIsMerged`, `ConflictsEnd` | 2 clients, 3 edits of a decrement, an add and a patch, 3 managers, one strategy set at run time | 0.2 M |

Bounds. `MaxSequence` 2 and two mutation ids give a client two writes, enough
for a batch with two mutations of one entity, for a write during the cycle that
sends the other, and for a write after a conflict. One peer write is enough to
make a base revision stale before, during and after a cycle, two prunings
enough to overtake a cursor and then a tracked id. One delayed request is enough
to arrive before, between or after its retries. `MaxFailures` 3 reaches the
backoff's cap. The runs differ in which of these they combine because all
together are out of reach; a property of several runs is one that matters under
each combination. Three sockets are one in use and two earlier ones
still closing; two requests are one answered while another waits.

Two mutations are one sent after the other and one overtaken; two calls are the
least that overlap; the two errors differ in what the order of the classifier's
questions decides, and two faults let the handling of one meet another. Two tasks
of one adapter are the owner of a transaction and one that strays into it, the
third of another adapter finds the file locked; three writes are one before, one
in and one after a transaction. One view moves between controllers, so that up
to three of them have reads under way; two views share nothing but the list of
listeners. Two calls are two cycles at once, of one window or of two. Three edits
are a conflict, its resolution and an edit that makes the retry conflict again.

Deadlock is not checked where the system may stop: `lifecycle` (after a
shutdown), `sender` (everything settled), `sqlite` (everything closed), `bridge`
(windows closed, calls used up), `views` (no write left), `conflict` (all edits
applied).

Fairness. `sync_live` assumes that the scheduler starts cycles again and again
and that every promise of the engine resolves (weak fairness of a client's own
steps), and that a request sent over and over gets through and is answered in
time now and then (strong fairness of serving and receiving, for each mutation of
the request too, since a lost reply cuts the handling short for the client).
Nothing is assumed of the application, the peer or the operator. `lifecycle`
assumes that `engine.sync()` settles and callbacks return, and that a timeout
that is due fires (strong fairness: a synchronous callback holds it up); a
`dispose()` may hang for ever. The HTTP transport has no timeout of its own, so
the first assumption is one about the application's `fetch`. `websocket` assumes
that timeouts fire and that closing sockets come to an end, and nothing of the
server. The code has no timeout for connecting: a handshake that is never
answered hangs. `ConnectingEnds` therefore has it as a hypothesis that each
attempt ends (`AttemptsEnd`), besides a limit on attempts, and its exception is a
factory that threw. `RequestsSettle` needs none of that. `sender` assumes that
the application calls `sendPending()` again and again (with a crash in between,
the recovery that comes first) and that its promises settle. `sqlite` assumes
that callbacks of transactions come to an end, by returning or throwing; `views`
that a change is announced after its write, that reads settle and that React runs
the effects of a rendering; `bridge` that the engine's cycles and handlers settle
and that messages of open windows arrive; `conflict` that cycles go on. None of
them assumes anything of the application's edits, closings and disposals.

### Where the code and its documents disagree

`sync_overwrite` is a run of its own: base revisions are read when a batch is
sent. A change received after the write was made raises the stored revision, and
the write passes for based on it: no conflict is reported.

These are stated in the modules and do not hold; TLC finds each when the property
is added to a cfg as told. They are in no run.

* `GivenBackArePending` (`OfflineSync`, with `MaxHorizon` 2): after
  CURSOR_TOO_OLD the engine "re-enqueues" the batch with `retry()`, which sets
  IN_FLIGHT; no cycle sends those mutations until a restart.
* `PendingEventuallySettles` (`sync_live` with `"create"`): `create()` stores
  revision 1. For an entity the server lacks that is a conflict with a
  placeholder without timestamps, which the client's own validation rejects: the
  write never settles, nor does any sent with it. With `"update"`, two
  collections of the same id and last-write-wins a write conflicts for ever.
* `QuietAfterShutdown` (`ClientLifecycle`): a cycle that is under way when
  `stop()` is called sets the next timer in its `finally` block; cycles go on
  after `shutdown()` returned.
* `StaleIsReplaced` (`WebSocketTransport`): a PONG that does not come makes the
  transport close its socket and take the handlers off, so the close event that
  should start the reconnection is never seen; it stays CONNECTED without a
  socket. The tests' mock fires the event inside `close()`.
* `FactoryErrorsAreRetried` (`WebSocketTransport`): when the factory throws
  (`ws-transport.ts:455`, `802`) the state is CONNECTING already (`292-293`, and
  `530-531` from a reconnection timer). No attempt follows, and every later
  `connect()` returns at once, until `disconnect()`.
* `NoneIsApplied` (`SQLiteStorage`): an error of another task's plain statement ends
  the transaction it joined. The owner's callback goes on, its next `tx.put` is
  committed on its own, `COMMIT` fails, the `ROLLBACK` is ignored: `transaction()`
  rejects and part of it is stored. `transaction.ts:8` says "Either all operations
  in the transaction are applied, or none are."
* `ReadsAreCommitted` (`SQLiteStorage`): plain reads of an adapter with an open
  transaction see what it has not committed. A sync cycle may so send a mutation
  that is rolled back afterwards. The adapter contract asks for READ COMMITTED.
* `VueIsCurrent` and `VueShowsChanges` (`CollectionViews`):
  `vue/use-collection.ts:65-70` and `use-entity.ts:58-62` return the values the
  refs have at setup, loading and empty. They stay so for ever, where line 21
  says "A reactive object".
* `NoFailureShortens` (`SyncScheduler`, `lifecycle` with `MaxBackoff` 1): with a cap
  below the base interval the first failure makes the wait shorter. The
  constructor (`sync-scheduler.ts:127-136`) allows it: with a `baseIntervalMs` of
  600000 and the default cap of 300000, a failing server is asked twice as often.
  `BackoffNeverShortens` leaves out just that step.
* `FailedIsRetried` (`MutationSender`, under `RetrySpec`): `retryMutation()` never
  finds the mutation, so what failed for a passing reason stays FAILED. INV-9
  promises retries.
* `SentInOrder` without its condition on overlaps: two calls of `sendPending()`
  send the same mutations, and the second may send one after its successor
  (INV-1). Nothing in the code keeps calls apart.
* `EveryConflictIsMerged` (`ConflictResolution`): a resolved increment is retried
  as a `set` that keeps its `field`. When that conflicts again, the field merge
  finds no operation it knows and falls back to the server's side: the increment
  is lost, where `strategies.ts:238` recommends the strategy for counters.
* `OneConflictIsMerged` with `Bumps = {0, 1}`, that is for edits that raise the
  stored revision: the blind `set` of a retry is then sent with a base revision
  the resolution never saw, and overwrites another client.
* `QuietIsCurrent` with `Ordered = FALSE`: the result of an older read that comes
  last stays on screen. The adapters of the repository answer in order.
* `CursorCoversStored` with two collections and `"forceSnapshot"`: a snapshot of
  one collection saves the cursor of the whole log, and the other's changes
  below it are never fetched. `SettledMeansEqual` fails with it. The theorems
  about both assume `WholeSnapshots`.
* `NothingToReport` with `"rollback"`: a rolled-back write has taken its sequence
  number, and recovery and the integrity checker report a lost mutation.

Met while modelling, without a property of their own. Core: `delete()` queues the
entity's data as a `set`; the server keeps its own `isDeleted`, acknowledges, and
sends the undeleted entity back; a rejected cycle escapes the `catch` of `sync()`
(the promise is returned, not awaited), so the state stays SYNCING; a mutation
whose id was pruned is applied twice when a snapshot has renewed its base
revision, which `AtMostOnceInWindow` and `SyncContract` allow and INV-5 in the
guide does not; two writes of one client to one entity in a batch conflict with
each other, and so does every `update()` of a stored entity, whose revision is
raised locally before it is sent as the base; a late copy of a request makes the
server acknowledge a resolved value it never applied; with two collections that
share an entity id the wrong base revision can make a `put()` of a new entity
fail like `create()`; `shutdown()` reports `clean` when its timeout came first;
`ChangeEmitter.emit` puts back the list it walked, so that a listener that
subscribes or unsubscribes while called is undone; the classifier and
`protocol/src/error.ts` disagree on which codes may be retried, and the comment
of `classify()` says the code is looked at before the status. SQLite: a `BEGIN`
that fails leaves the flag set, and the adapter refuses every later transaction.
Conflicts: `add` pushes a duplicate on the server and not in the resolver,
`patch` is shallow on the server and deep in the resolver; the `localEntity` a
strategy is given already has the reply's changes; `registerStrategy` fills a map
nothing reads. Bindings: React's `useSyncState` never renders again, as
`createEngineSyncStateSource` never calls back. Electron: a second
`createIPCHandler` after `dispose()` throws, since `ipcMain` keeps the first
one's handlers; nothing pushes STATE_CHANGE; two windows run overlapping cycles.

## 4. The proofs

All for arbitrary constants, from the named assumptions of the modules, which
TLC evaluates in the runs; those of `ElectronBridge` need none.
Some theorems have a hypothesis more, named where they are told:
`WholeSnapshots`, `StaysPrompt` and no rollback for `OfflineSync`, `Ordered` for
the views, `EditsKeepRevision` for the conflicts, and the condition on overlaps
that is part of the sender's properties. Each excludes behaviour of the code
under which the property is false, which section 3 tells.

`SyncServerProofs` (of `ServerSpec`: any well-formed requests, prunings, seeds)

* `ServerTypeCorrect`: `ServerTypeOK` is inductive as it stands. The lemmas
  before it give the type of what each operator builds.
* `AtMostOnce`: not inductive: nothing in it says why a duplicate would be
  noticed. `WindowInv` adds that the log holds every entry from the horizon on
  (`WindowKept`) and that the tracker knows every mutation applied from there
  on, by its last position (`WindowTracked`). `AcceptWindow` uses the latter:
  an accepted mutation is untracked, so its earlier entries lie below.
* `ReplyComplete`: needs `WindowKept` and `AdmittedCursor` (the cursor of the
  request being handled is not below the horizon, which does not move under it).
* `SnapshotMatchesLog`, `NoBlindOverwrite`: `LogInv` joins the two. That a
  mutation extends the newest entry for its entity follows from the store being
  that entry's state.
* `AcknowledgesApplied`: needs `TrackedIsApplied`, since a duplicate is
  acknowledged on the tracker's word.

`OfflineSyncProofs` (of `OfflineSync`'s `Spec`, for any clients, entities, ids,
write kinds, strategies and failures)

* `TypeCorrect`: `TypeInv` adds `Control` to `TypeOK`: what a client holds at
  each label of its cycle (an empty batch outside one, a reply where it is
  applied, a next mutation to settle). Messages have the type of what the engine
  and the server build (`SyncReplies`, `SnapshotReplies`, `SyncRequests`).
* `ServerImplemented`: every step of the system is one of `ServerNext` or leaves
  the server alone, so all theorems of `SyncServerProofs` hold in the system.
  `SystemInv` joins their invariants to `TypeInv`; the proofs below start there.
  `Others` says once for all what a step of one client leaves to another.
* `CursorCovers` from `CursorInv`: a reply to a sync request holds every position
  from the client's cursor to its own, the cursor does not move while a request,
  its handling or its reply is under way, a snapshot shows for each entity what
  the log leaves up to its cursor, and before `SaveCursor` everything up to the
  reply's cursor is stored. It assumes `WholeSnapshots`: `forceSnapshotSync()`
  is called for all collections, or not at all. Without it the code fails
  (section 3).

`ContractProofs`

* `AcknowledgedApplied` from `AckedInv`: an id is in the log from the moment the
  server puts it in `acknowledged`, in the job, the reply on its way, the reply
  the client holds and its list of what is left to settle. It uses
  `AcknowledgesApplied` of the server.
* `ContractImplemented`, the refinement of `SyncContract`. The contract's log is
  the server's without its bookkeeping, its `settled` the acknowledged mutations.
  Steps of clients map to a settling of mutations in the log, or to a stutter;
  steps of the server to an append, a raised horizon or a stutter. That an append
  repeats nothing remembered is `AcceptWindow`. That settled mutations stay
  settled is the hard part: two cycles after a crash, a late answer and a
  resolution all write statuses. It needs `SessionInv`: the batch, what is sent
  and what is reported are the client's own mutations, each at most once and
  either acknowledged or conflicting; what an open cycle sends, and what is left
  of a reply to requeue or to show as a conflict, is not settled (`Unsettled`),
  so that neither `retry`, `markConflict` nor `resolveConflict` meets an
  acknowledged one.

`ConvergenceProofs`

* `NumbersAreUnique` from `NumberInv` (no number of a queue is above the last one
  given out), with rollbacks and restarts.
* `StoreIsHealthy` adds `DenseInv`: every number given out is in the queue. That
  holds only where no write is rolled back, which the theorem assumes.
* `ConflictsAreOpen` from `OwnerInv` (an id in a queue belongs to one client, and
  whatever the server handles or has logged under it is that client's write to
  that entity) and `ConflictInv` (a mutation the server calls conflicting is
  neither logged nor still to be handled, from the job to the client's queue). It
  assumes `StaysPrompt`: no request is handled after its client gave up on it,
  and the operator does not raise the horizon. Otherwise a mutation applied
  once can meet itself as a conflict (a forgotten id, or two copies of it), and
  TLC finds the trace.
* `SettledClientsAgree` from `ConvergeInv`: each entity of a client is what the
  log says at the last position stored for it, or some unacknowledged mutation
  of its own is why not (`Held`); that mutation the server has not applied, or
  applied after that position. `Explained` and `Brings` carry this through the
  cycle: when the server acknowledges the one mutation that explains an entity,
  its reply brings a change of that entity, so applying it makes the entity clean
  before the acknowledgement is written; a conflicting one is unapplied at the
  reply's cursor, so marking or resolving it leaves it an explanation. Both rest
  on the order of `ApplyReply`, `SaveCursor` and the statuses; a reply whose
  client crashed in between only makes the client fetch again. `Stays` says what
  all other steps must keep. With `CursorInv` and `StoreMatchesLog` a settled
  client stores the server's entities. Assumes `WholeSnapshots`.

`SchedulerProofs` (of `ClientLifecycle`'s `Spec`)

* `SingleCycle`, `NoTimerLeft`, `StaysAwake`, `DisposedIsFinal` come from
  `SchedulerInv`, which adds that a disposed scheduler has no timer set.
  `LifecycleSteps` shows that every step of the lifecycle is one of the
  scheduler's or leaves it alone.
* `IdleShutdown` needs `IdleInv`: after a shutdown of an idle client without a
  leaked listener there is no cycle, timer, callback or listener left.
* `WaitNeverShrinks`, an action property, for any base interval and cap and any
  whole multiplier of at least 1; where the cap is below the base interval it
  leaves out the first failure, which does shorten the wait (section 3). By
  `BackoffInv` the interval is always the backoff of the failures counted, also
  after a success whose callback throws, and the backoff grows with them
  (`BackoffGrows`, `Lengthens`). The provers know nothing of powers, so what is
  needed of them (they are natural numbers and grow with the exponent, up to the
  bound on failures) is `PowersAssumption`.

`TransportProofs` (of `TransportSpec`, for any number of sockets, requests and
attempts)

* `OneConnection` and `NeverStuckConnecting` from `ConnectionInv`, which adds
  `Attachment`: the only socket whose events are heard is the current one, and
  its state agrees with the transport's. Without it a late close event could
  take the next socket away. It also says that `thrown` goes with CONNECTING and
  no socket at all, the one state in which CONNECTING promises nothing, until
  `disconnect()` or `dispose()`.
* `EveryWaitIsTimed` and `ClosedForGood` from `RequestInv` (no request waits
  after a disconnect, no id is settled before it is used) on top of it;
  `TransportTyped` from both.

`AdapterProofs`, of `SQLiteStorage`'s `Spec`, for any adapters, tasks and keys:

* `OwnedTransactions` from `CallInv`, whose first part makes it inductive: a call
  under way has set its adapter's flag and is the only one of that adapter. It
  is what lets the end of one call clear flag and connection without asking. If an
  error has ended its transaction (`ended`), the connection has none until the call
  is over, since a second `Begin` is refused by the flag.
* `FailureLeavesNothing` needs `TokenInv` besides: what a call under way wrote is
  in no committed row, and in the working table only while its own adapter
  holds the connection, the plain writes of other tasks that joined it included.
  When it fails, or an error of any statement ends it, nothing of it is left to be
  committed; tokens are fresh (`TypeInv`), so nothing can come back. What the
  callback writes after such an error is not meant: it is committed (section 3).

of `ElectronBridge`'s `BridgeSpec`, for any windows and calls, without
assumptions:

* `EveryCallItsAnswer` from `CycleHasCall` (cycles and running calls are the same)
  and `ToldWhatRan` (what a reply says agrees with what the cycle did, at the
  main process, under way and in the window). A call that a handler of the
  application answers ran no cycle, whatever it is told.
* `NothingStartsDisposed`, an action property, from `HandlersWithBridge`: without a
  live bridge no channel has an engine's handler.

of `CollectionViews`' `ViewsSpec`, for any views, controllers, entities and reads:

* `NothingOutlivesItsView` from `GoneInv`: the controllers that are not disposed
  of are those of the views, each of one view (`LiveIsOwned`) and with one
  listener (`ListenerOfEach`). So a step of a controller finds a view to write
  to, or is of a disposed one and writes nothing.
* `QuietViewsAreCurrent` from `QuietInv`, for React's hooks; what Vue's return is
  not current (section 3). The last read under way of a live
  controller has found what was announced last (`LastReadIsNew`): a change
  makes every live controller read again, and reads made before it are not the
  last. Between a rendering and its effects a former controller still reads and
  still writes to the view; it does no harm since its listener comes first in
  the list (`OldIsPassed`), so that a read of the current one always follows
  (`OldReadIsNotLast`). It assumes `Ordered`: reads are answered in the order
  made. Otherwise an older one may come last (section 3).

`MutationProofs`, of `MutationSender`'s `Spec`, for any mutations, calls, errors,
batch sizes and faults:

* `EveryStatusIsTrue` from `SenderInv`, which joins `StatusInv` and `AloneInv`. The
  former holds even when calls overlap: what is IN_FLIGHT, or marked a conflict,
  is of a call that has it first, or was refused, before any record says so
  (`ConflictIsReported`). That an acknowledged value is one the peer has does not:
  two calls can overwrite each other's records.
* `AloneInv` is what holds while calls do not overlap. The copies a call holds
  are those of the queue, and a record it has read has not changed until it is
  written back (`TodoIsCurrent`), so a conflict resolved in between cannot be
  taken for answered (`OutcomeIsDelivered`).
* `SendsInOrder`: `SentFirst` alone is not inductive. A call passes over nothing
  but what was sent or has failed (`NothingSkipped`), and what was not sent waits,
  has failed, or is about to be (`UnsentWaits`), which carries it over crashes
  and the calls that come after.
* `ResultsAreTrue`, an action property: the results of what a call is done with
  stand, and the last one matches the outcome it is about to write
  (`ResultsStand`). Where storage fails in between, a result of failure goes with
  FAILED in the queue, or the error leaves `sendPending()` without results.

of `ConflictResolution`'s `ResolutionSpec`, for any clients, edits, numbers of them,
managers and changes of strategy:

* `OneConflictMerges`, an action property. `ResolveFaithful` says of every
  strategy and every chain that an outcome tells what was done: SERVER_WINS took
  the server's data, MERGED applied a field operation to it, which is what the
  server would do (`MergeIsReapplied`, but for an item that is there). `MergeInv`
  carries that to the moment the server accepts the retry: an unresolved
  mutation is what the application recorded (`UntouchedIsEdit`); the entity of a
  reply is the server's as long as the revisions agree (`ReplyIsServer`); and a
  retry waits under the revision its resolution was made of, first in its
  client's queue, so that neither a fetch nor another mutation's reply can raise
  that revision before it is sent (`RetryStands`). Either the server has moved on
  and reports another conflict, or nothing has happened since. It assumes
  `EditsKeepRevision`: an edit of the application does not raise the stored
  revision (section 3).

Only model-checked: all liveness, which with ENABLED is out of the prover's reach
(`PendingEventuallySettles`, `EveryMutationSettles`, `AdapterIsReleased`,
`ChangesAreShown`, `CallsSettle`, `ConflictsEnd`, `ShutdownReturns`,
`RequestsSettle`, `ConnectingEnds`, `TriggerObeyed`). Every invariant and every
action property of a passing run has a theorem.

## 5. Not modelled, and the plan

Not modelled:

* Discovery: one service with a flag and a map of peers that a backend feeds; no
  other package uses it. The hazard it has (`stop()` while `start()` awaits the
  backend) is listed.
* The HTTP transport: one request, one reply, no state. Its outcomes are among
  those `OfflineSync` gives a transport.
* The in-memory adapter and the query builder; the translation of queries to SQL,
  abstracted to the rows it reads.
* `useSyncState` and `useOfflineSync` (they hand on a value), custom conflict
  strategies (the application's code), formatting, logging, wording, the order of
  reported issues, handshake types that no code exchanges.
* Overlapping `sync()` calls inside `OfflineSync`: the bridge shows that two
  windows can make them (`StartCycle` asks for nothing), the scheduler that it
  does not; a model of two cycles over one queue and cursor is left.
* Listeners of the transport and of collections that call back into them.
* Renderings that React discards or repeats (StrictMode), and the controllers and
  listeners they leak.

Left of the plan: two cycles of one engine over one queue and cursor, and what
custom strategies may do to the merge.
