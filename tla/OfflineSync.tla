----------------------------- MODULE OfflineSync -----------------------------
(***************************************************************************)
(* Clients with a local store, a mutation queue and a sync engine, the     *)
(* transport between them and the server, and the server (SyncServer).     *)
(*                                                                         *)
(* Every await of SyncEngine.sync() at which another actor can matter ends *)
(* a step: local writes, the server, other clients, a failing transport or *)
(* a crash may come in between.  A client runs one cycle at a time.        *)
(* Storage transactions are atomic and storage calls do not fail, except   *)
(* that the transaction of a local write may be rolled back.               *)
(*                                                                         *)
(* As in SyncServer, a definition whose comment begins with "Wrong:" is    *)
(* not part of the model.                                                  *)
(***************************************************************************)
EXTENDS SyncServer

CONSTANTS
  Client,
  Collection, EntityId,  \* Entity \subseteq Collection \X EntityId
  Task,          \* concurrent update() / delete() calls of one application
  NoDraft,       \* a task that is not between its read and its transaction
  Nobody,        \* the caller of a request whose client stopped waiting
  BatchSize,     \* SyncEngineOptions.batchSize
  Resolver,      \* the configured strategy, or "none"
  WriteKinds,    \* which operations the application uses: of Collection,
                 \* and "forceSnapshot" of SyncEngine
  PeerMutation,  \* mutations that clients outside Client send
  Failures,      \* which of "loss", "delay", "crash", "rollback" occur
  MaxSequence,   \* bound: local sequence numbers
  MaxDelayed,    \* bound: requests overtaken by their client's timeout
  MaxHorizon     \* bound: the highest retention horizon the operator sets

VARIABLES
  local,     \* client -> entity -> the stored entity
  queue,     \* client -> mutation id -> its record; ids never enqueued absent
  cursor,    \* client -> the stored cursor
  sequence,  \* client -> collection -> last number SequenceTracker gave out
  drafts,    \* client -> task -> an update() or delete() after its read
  pc,        \* client -> where the engine is
  batch,     \* client -> mutations of this cycle, as dequeuePending read them
  base,      \* client -> entity id -> loaded base revision; Unloaded
  reply,     \* client -> the reply being applied, what is left of it
  todo,      \* client -> mutations still to be passed to retry()
  resolved,  \* client -> resolvedData of the conflict being resolved
  syncState, \* client -> SyncEngine.currentSyncState
  channel,   \* client -> the request or reply under way
  delayed,   \* requests under way that nobody waits for any more
  caller,    \* the client whose request the server is handling
  seen       \* history: client -> entity -> position of the log entry whose
             \* state the client last stored

stored  == <<local, queue, cursor, seen>>
engine  == <<pc, batch, base, reply, todo, resolved, syncState>>
network == <<channel, delayed, caller>>
app     == <<sequence, drafts>>
vars    == <<serverVars, stored, engine, network, app>>

-----------------------------------------------------------------------------
ASSUME SyncConstants ==
  /\ Entity \subseteq Collection \X EntityId
  /\ Nobody \notin Client
  /\ PeerMutation \subseteq MutationId
  /\ BatchSize \in Nat \ {0}
  /\ MaxSequence \in Nat /\ MaxDelayed \in Nat /\ MaxHorizon \in Nat

CollectionOf(e) == e[1]
IdOf(e) == e[2]

Unloaded == -1
Empty == [kind |-> "empty"]
SnapshotRequest(collections) ==
  [kind |-> "snapshotRequest", collections |-> collections]

Status == {"PENDING", "IN_FLIGHT", "ACKNOWLEDGED", "CONFLICT"}

\* known: the position of the newest entry for the entity that the author had
\* stored when it made or resolved the write.  It is not in the code.  The
\* operation is always 'set' for Collection's writes, delete() among them.
QueueRecord == [status: Status, entity: Entity, value: Data,
                sequence: 1..MaxSequence, known: Nat]

Draft == [kind: {"update", "delete"}, entity: Entity, read: EntityState,
          known: Nat]

Init ==
  /\ ServerInit
  /\ local = [c \in Client |-> [e \in Entity |-> NoEntity]]
  /\ queue = [c \in Client |-> <<>>]
  /\ cursor = [c \in Client |-> NoCursor]
  /\ sequence = [c \in Client |-> [col \in Collection |-> 0]]
  /\ drafts = [c \in Client |-> [t \in Task |-> NoDraft]]
  /\ pc = [c \in Client |-> "idle"]
  /\ batch = [c \in Client |-> <<>>]
  /\ base = [c \in Client |-> [i \in EntityId |-> Unloaded]]
  /\ reply = [c \in Client |-> Empty]
  /\ todo = [c \in Client |-> <<>>]
  /\ resolved = [c \in Client |-> {}]
  /\ syncState = [c \in Client |-> "LOCAL_ONLY"]
  /\ channel = [c \in Client |-> Empty]
  /\ delayed = {}
  /\ caller = Nobody
  /\ seen = [c \in Client |-> [e \in Entity |-> 0]]

-----------------------------------------------------------------------------
(* The mutation queue. *)

Insert(f, x, r) == [y \in DOMAIN f \cup {x} |-> IF y = x THEN r ELSE f[y]]

Enqueue(c, m, r) == queue' = [queue EXCEPT ![c] = Insert(@, m, r)]

SetStatus(c, m, status) == queue' = [queue EXCEPT ![c][m].status = status]

WithStatus(c, status) ==
  {m \in DOMAIN queue[c] : queue[c][m].status = status}

\* loadAllMutations sorts by sequence; numbers of different collections may
\* tie, and then storage order decides.
SortedBySequence(c, S) ==
  {s \in [1..Cardinality(S) -> S] :
     \A i, j \in DOMAIN s :
       i < j => /\ s[i] # s[j]
                /\ queue[c][s[i]].sequence <= queue[c][s[j]].sequence}

-----------------------------------------------------------------------------
(* Local writes: Collection with mutation tracking. *)

\* A new UUID.
Fresh(m) ==
  /\ m \notin PeerMutation
  /\ \A c \in Client : m \notin DOMAIN queue[c]

\* recordMutation takes the next number before the transaction starts.
NextSequence(c, e) == sequence[c][CollectionOf(e)] + 1

TakeSequence(c, e) ==
  /\ NextSequence(c, e) <= MaxSequence
  /\ sequence' = [sequence EXCEPT ![c][CollectionOf(e)] = @ + 1]

\* The transaction of atomicWrite and atomicPut: entity and mutation.
WriteAtomically(c, m, e, state, known) ==
  /\ TakeSequence(c, e)
  /\ local' = [local EXCEPT ![c][e] = state]
  /\ Enqueue(c, m, [status |-> "PENDING", entity |-> e, value |-> state.data,
                    sequence |-> NextSequence(c, e), known |-> known])
  /\ UNCHANGED <<serverVars, cursor, seen, engine, network>>

Create(c, m, e) ==
  /\ "create" \in WriteKinds
  /\ Fresh(m)
  /\ local[c][e] = NoEntity
  /\ WriteAtomically(c, m, e,
       [data |-> {m}, revision |-> 1, isDeleted |-> FALSE], seen[c][e])
  /\ UNCHANGED drafts

\* put() stores the revision its caller passes: here that of the stored
\* entity, or 0 for an entity the caller makes up.
Put(c, m, e) ==
  /\ "put" \in WriteKinds
  /\ Fresh(m)
  /\ WriteAtomically(c, m, e,
       [data |-> {m},
        revision |-> IF local[c][e] = NoEntity THEN 0
                                               ELSE local[c][e].revision,
        isDeleted |-> FALSE], seen[c][e])
  /\ UNCHANGED drafts

\* update() and delete() read the entity outside the transaction ...
ReadForEdit(c, t, e, kind) ==
  /\ kind \in WriteKinds
  /\ drafts[c][t] = NoDraft
  /\ local[c][e] # NoEntity
  /\ drafts' = [drafts EXCEPT ![c][t] =
       [kind |-> kind, entity |-> e, read |-> local[c][e],
        known |-> seen[c][e]]]
  /\ UNCHANGED <<serverVars, stored, engine, network, sequence>>

\* ... and write what they derived from it.
WriteEdit(c, t, m) ==
  LET d == drafts[c][t]
      isDelete == d.kind = "delete"
  IN /\ d # NoDraft
     /\ Fresh(m)
     /\ WriteAtomically(c, m, d.entity,
          [data |-> IF isDelete THEN d.read.data ELSE d.read.data \cup {m},
           revision |-> d.read.revision + 1,
           isDeleted |-> isDelete \/ d.read.isDeleted],
          d.known)
     /\ drafts' = [drafts EXCEPT ![c][t] = NoDraft]

\* A transaction that is rolled back: create() of an entity that exists, or
\* a storage error.  The sequence number is gone.
RollBackWrite(c, e) ==
  /\ "rollback" \in Failures
  /\ TakeSequence(c, e)
  /\ UNCHANGED <<serverVars, stored, engine, network, drafts>>

\* The application settles a conflict, with the value it has now or the one
\* stored for the entity, and calls resolveConflict.
ResolveByApplication(c, m) ==
  LET r == queue[c][m]
  IN /\ m \in WithStatus(c, "CONFLICT")
     /\ \E v \in {r.value} \cup
                 (IF local[c][r.entity] = NoEntity THEN {}
                  ELSE {local[c][r.entity].data}) :
          queue' = [queue EXCEPT ![c][m].status = "PENDING",
                                 ![c][m].value = v,
                                 ![c][m].known = seen[c][r.entity]]
     /\ UNCHANGED <<serverVars, local, cursor, seen, engine, network, app>>

-----------------------------------------------------------------------------
(* The sync cycle: sync(), performIncrementalSync, performSnapshotSync. *)

Goto(c, label) == pc' = [pc EXCEPT ![c] = label]

Send(c, message) == channel' = [channel EXCEPT ![c] = message]

SetSyncState(c, s) == syncState' = [syncState EXCEPT ![c] = s]

\* The cycle's local variables go with it, however it ends.
EndCycle(c) ==
  /\ Goto(c, "idle")
  /\ batch' = [batch EXCEPT ![c] = <<>>]
  /\ base' = [base EXCEPT ![c] = [i \in EntityId |-> Unloaded]]
  /\ reply' = [reply EXCEPT ![c] = Empty]
  /\ todo' = [todo EXCEPT ![c] = <<>>]
  /\ resolved' = [resolved EXCEPT ![c] = {}]

\* sync() loads the cursor, which only a cycle of this client writes.
StartSync(c) ==
  /\ pc[c] = "idle"
  /\ SetSyncState(c, "SYNCING")
  /\ IF cursor[c] = NoCursor
       THEN Goto(c, "awaitReply") /\ Send(c, SnapshotRequest(Collection))
       ELSE Goto(c, "dequeue") /\ UNCHANGED channel
  /\ UNCHANGED <<serverVars, stored, batch, base, reply, todo, resolved,
                 delayed, caller, app>>

\* forceSnapshotSync(): a snapshot whatever the cursor, of all collections or
\* of some; the cursor it brings is that of the whole log all the same.
ForceSnapshot(c) ==
  /\ "forceSnapshot" \in WriteKinds
  /\ pc[c] = "idle"
  /\ SetSyncState(c, "SYNCING")
  /\ \E collections \in (SUBSET Collection) \ {{}} :
       Send(c, SnapshotRequest(collections))
  /\ Goto(c, "awaitReply")
  /\ UNCHANGED <<serverVars, stored, batch, base, reply, todo, resolved,
                 delayed, caller, app>>

\* dequeuePending reads the queue and changes nothing in it.
Dequeue(c) ==
  /\ pc[c] = "dequeue"
  /\ \E s \in SortedBySequence(c, WithStatus(c, "PENDING")) :
       batch' = [batch EXCEPT ![c] =
         [i \in 1..(IF Len(s) < BatchSize THEN Len(s) ELSE BatchSize) |->
            [id |-> s[i], entity |-> queue[c][s[i]].entity,
             value |-> queue[c][s[i]].value]]]
  /\ Goto(c, "loadBase")
  /\ UNCHANGED <<serverVars, stored, base, reply, todo, resolved, syncState,
                 network, app>>

\* Indices of the first mutation of each entity id without a base revision.
ToLoad(c) ==
  {i \in DOMAIN batch[c] : base[c][IdOf(batch[c][i].entity)] = Unloaded}

\* One turn of loadBaseRevisions: the current revision of the entity of the
\* first mutation with that entity id, whatever the collections of others.
LoadBase(c) ==
  /\ pc[c] = "loadBase"
  /\ \E i \in ToLoad(c) :
       /\ \A j \in ToLoad(c) : i <= j
       /\ LET e == batch[c][i].entity
          IN base' = [base EXCEPT ![c][IdOf(e)] =
               IF local[c][e] = NoEntity THEN 0 ELSE local[c][e].revision]
  /\ UNCHANGED <<serverVars, stored, pc, batch, reply, todo, resolved,
                 syncState, network, app>>

\* buildSyncRequest
BuildRequest(c) ==
  [kind |-> "syncRequest", cursor |-> cursor[c],
   mutations |-> [i \in DOMAIN batch[c] |->
     [id |-> batch[c][i].id, entity |-> batch[c][i].entity,
      operation |-> "set", value |-> batch[c][i].value,
      baseRevision |-> base[c][IdOf(batch[c][i].entity)]]]]

SendRequest(c) ==
  /\ pc[c] = "loadBase"
  /\ ToLoad(c) = {}
  /\ Send(c, BuildRequest(c))
  /\ Goto(c, "awaitReply")
  /\ UNCHANGED <<serverVars, stored, batch, base, reply, todo, resolved,
                 syncState, delayed, caller, app>>

\* isSyncResponse rejects a conflict whose server entity has no timestamps.
IsValid(r) == r.kind = "sync" => \A k \in DOMAIN r.conflicts : r.conflicts[k].dated

BatchIds(c) == [i \in DOMAIN batch[c] |-> batch[c][i].id]

Answered(r) ==
  {r.acknowledged[k] : k \in DOMAIN r.acknowledged} \cup
  {r.conflicts[k].id : k \in DOMAIN r.conflicts}

\* CURSOR_TOO_OLD: give the batch back, then take a snapshot.
ReceiveTooOld(c) ==
  /\ pc[c] = "awaitReply"
  /\ channel[c].kind = "tooOld"
  /\ Send(c, Empty)
  /\ todo' = [todo EXCEPT ![c] = BatchIds(c)]
  /\ Goto(c, "requeue")
  /\ UNCHANGED <<serverVars, stored, batch, base, reply, resolved, syncState,
                 delayed, caller, app>>

\* The ids of the batch that a reply says nothing of, in the batch's order.
Unanswered(c, r) ==
  LET S == {i \in DOMAIN batch[c] : batch[c][i].id \notin Answered(r)}
  IN {[k \in DOMAIN s |-> batch[c][s[k]].id] :
        s \in {f \in [1..Cardinality(S) -> S] :
                \A i, j \in DOMAIN f : i < j => f[i] < f[j]}}

ReceiveValid(c) ==
  LET r == channel[c]
  IN /\ pc[c] = "awaitReply"
     /\ r.kind \in {"sync", "snapshot"}
     /\ IsValid(r)
     /\ Send(c, Empty)
     /\ reply' = [reply EXCEPT ![c] = r]
     /\ \E ids \in IF r.kind = "sync" THEN Unanswered(c, r) ELSE {<<>>} :
          todo' = [todo EXCEPT ![c] = ids]
     /\ Goto(c, "apply")
     /\ UNCHANGED <<serverVars, stored, batch, base, resolved, syncState,
                    delayed, caller, app>>

\* The validation throws.  sync() returns the promise of the cycle without
\* awaiting it, so its catch block does not run: the state stays SYNCING.
ReceiveInvalid(c) ==
  /\ pc[c] = "awaitReply"
  /\ channel[c].kind \in {"sync", "snapshot"}
  /\ ~IsValid(channel[c])
  /\ Send(c, Empty)
  /\ EndCycle(c)
  /\ UNCHANGED <<serverVars, stored, syncState, delayed, caller, app>>

\* retry() of one mutation given back.
Requeue(c) ==
  /\ \/ pc[c] = "requeue"
     \/ /\ pc[c] = "settle"
        /\ reply[c].acknowledged = <<>>
        /\ reply[c].conflicts = <<>>
  /\ todo[c] # <<>>
  /\ SetStatus(c, Head(todo[c]), "IN_FLIGHT")
  /\ todo' = [todo EXCEPT ![c] = Tail(@)]
  /\ UNCHANGED <<serverVars, local, cursor, seen, pc, batch, base, reply,
                 resolved, syncState, network, app>>

RequestSnapshot(c) ==
  /\ pc[c] = "requeue"
  /\ todo[c] = <<>>
  /\ Send(c, SnapshotRequest(Collection))
  /\ Goto(c, "awaitReply")
  /\ UNCHANGED <<serverVars, stored, batch, base, reply, todo, resolved,
                 syncState, delayed, caller, app>>

\* Wrong: the changes of a reply are kept by entity id alone.
NewestById(e, S) ==
  LET N == {n \in S : IdOf(history[n].entity) = IdOf(e)}
  IN IF N = {} THEN 0 ELSE CHOOSE n \in N : \A i \in N : i <= n

\* The position of the newest entry for e among those numbered in S; 0: none.
Newest(e, S) ==
  LET N == {n \in S : history[n].entity = e}
  IN IF N = {} THEN 0 ELSE CHOOSE n \in N : \A i \in N : i <= n

\* applySyncResponse and applySnapshotResponse: one transaction that puts
\* every entity received and deletes none.
ApplyReply(c) ==
  LET r == reply[c]
      isSync == r.kind = "sync"
      received(e) == isSync \/ r.entities[e] # NoEntity
      newest(e) == IF ~received(e) THEN 0
                   ELSE Newest(e, IF isSync THEN r.changes ELSE 1..r.cursor)
  IN /\ pc[c] = "apply"
     /\ local' = [local EXCEPT ![c] = [e \in Entity |->
          IF newest(e) = 0 THEN @[e]
          ELSE IF isSync THEN history[newest(e)].state ELSE r.entities[e]]]
     /\ seen' = [seen EXCEPT ![c] = [e \in Entity |->
          IF newest(e) = 0 THEN @[e] ELSE newest(e)]]
     /\ Goto(c, "saveCursor")
     /\ UNCHANGED <<serverVars, queue, cursor, batch, base, reply, todo,
                    resolved, syncState, network, app>>

\* saveCursor, a write of its own after the transaction (INV-3).
SaveCursor(c) ==
  /\ pc[c] = "saveCursor"
  /\ cursor' = [cursor EXCEPT ![c] = reply[c].cursor]
  /\ Goto(c, IF reply[c].kind = "sync" THEN "settle" ELSE "finish")
  /\ UNCHANGED <<serverVars, local, queue, seen, batch, base, reply, todo,
                 resolved, syncState, network, app>>

Acknowledge(c) ==
  /\ pc[c] = "settle"
  /\ reply[c].acknowledged # <<>>
  /\ SetStatus(c, Head(reply[c].acknowledged), "ACKNOWLEDGED")
  /\ reply' = [reply EXCEPT ![c].acknowledged = Tail(@)]
  /\ UNCHANGED <<serverVars, local, cursor, seen, pc, batch, base, todo,
                 resolved, syncState, network, app>>

AtConflict(c) ==
  /\ pc[c] = "settle"
  /\ reply[c].acknowledged = <<>>
  /\ reply[c].conflicts # <<>>

\* The data each strategy resolves a conflicting `set' to; last-write-wins
\* compares two wall clocks, so either side may win.
Resolutions(c, k, value) ==
  LET clientWins == IF local[c][k.entity] = NoEntity
                      THEN value ELSE local[c][k.entity].data
      serverWins == k.serverEntity.data
  IN CASE Resolver = "SERVER_WINS"     -> {serverWins}
       [] Resolver = "CLIENT_WINS"     -> {clientWins}
       [] Resolver = "LAST_WRITE_WINS" -> {clientWins, serverWins}
       [] OTHER                        -> {}

\* No resolver, or a strategy that leaves the conflict to the application.
MarkConflict(c) ==
  LET k == Head(reply[c].conflicts)
  IN /\ AtConflict(c)
     /\ Resolver \in {"none", "MANUAL"}
     /\ SetStatus(c, k.id, "CONFLICT")
     /\ reply' = [reply EXCEPT ![c].conflicts = Tail(@)]
     /\ UNCHANGED <<serverVars, local, cursor, seen, pc, batch, base, todo,
                    resolved, syncState, network, app>>

\* attemptAutoResolve reads the local entity and resolves; ...
ReadAndResolve(c) ==
  LET k == Head(reply[c].conflicts)
  IN /\ AtConflict(c)
     /\ \E i \in DOMAIN batch[c] :
          /\ batch[c][i].id = k.id
          /\ \E d \in Resolutions(c, k, batch[c][i].value) :
               resolved' = [resolved EXCEPT ![c] = d]
     /\ Goto(c, "putResolved")
     /\ UNCHANGED <<serverVars, stored, batch, base, reply, todo, syncState,
                    network, app>>

\* ... stores the result under the server's revision; ...
PutResolved(c) ==
  LET k == Head(reply[c].conflicts)
  IN /\ pc[c] = "putResolved"
     /\ local' = [local EXCEPT ![c][k.entity] =
          [data |-> resolved[c], revision |-> k.serverRevision,
           isDeleted |-> k.serverEntity.isDeleted]]
     /\ Goto(c, "resolveMutation")
     /\ UNCHANGED <<serverVars, queue, cursor, seen, batch, base, reply, todo,
                    resolved, syncState, network, app>>

\* ... and re-enqueues the mutation with it, under the id it has.
ResolveMutation(c) ==
  LET k == Head(reply[c].conflicts)
  IN /\ pc[c] = "resolveMutation"
     /\ queue' = [queue EXCEPT ![c][k.id].status = "PENDING",
                               ![c][k.id].value = resolved[c],
                               ![c][k.id].known = seen[c][k.entity]]
     /\ reply' = [reply EXCEPT ![c].conflicts = Tail(@)]
     /\ resolved' = [resolved EXCEPT ![c] = {}]
     /\ Goto(c, "settle")
     /\ UNCHANGED <<serverVars, local, cursor, seen, batch, base, todo,
                    syncState, network, app>>

Finish(c) ==
  /\ \/ pc[c] = "finish"
     \/ /\ pc[c] = "settle"
        /\ reply[c].acknowledged = <<>>
        /\ reply[c].conflicts = <<>>
        /\ todo[c] = <<>>
  /\ SetSyncState(c, "SYNCED")
  /\ EndCycle(c)
  /\ UNCHANGED <<serverVars, stored, network, app>>

Cycle(c) ==
  \/ StartSync(c) \/ Dequeue(c) \/ LoadBase(c) \/ SendRequest(c)
  \/ ReceiveTooOld(c) \/ ReceiveValid(c) \/ ReceiveInvalid(c)
  \/ Requeue(c) \/ RequestSnapshot(c)
  \/ ApplyReply(c) \/ SaveCursor(c) \/ Acknowledge(c)
  \/ MarkConflict(c) \/ ReadAndResolve(c) \/ PutResolved(c)
  \/ ResolveMutation(c) \/ Finish(c)

-----------------------------------------------------------------------------
(* The transport and the server. *)

\* What the server reads of a request.
Payload(request) ==
  [cursor |-> request.cursor, mutations |-> request.mutations]

Serve(c) ==
  /\ channel[c].kind = "syncRequest"
  /\ ~job.busy
  /\ IF Refused(channel[c])
       THEN /\ Send(c, CursorTooOldReply)
            /\ UNCHANGED <<serverVars, caller>>
       ELSE /\ BeginSync(Payload(channel[c]))
            /\ Send(c, Empty)
            /\ caller' = c
  /\ UNCHANGED <<stored, engine, delayed, app>>

ServeSnapshot(c) ==
  /\ channel[c].kind = "snapshotRequest"
  /\ ~job.busy
  /\ Send(c, [SnapshotReply EXCEPT !.entities = [e \in Entity |->
       IF CollectionOf(e) \in channel[c].collections THEN @[e] ELSE NoEntity]])
  /\ UNCHANGED <<serverVars, stored, engine, delayed, caller, app>>

\* A request whose client gave up is handled all the same.
ServeDelayed ==
  /\ ~job.busy
  /\ \E request \in delayed :
       /\ delayed' = delayed \ {request}
       /\ IF Refused(request) THEN UNCHANGED serverVars
                              ELSE BeginSync(Payload(request))
  /\ caller' = Nobody
  /\ UNCHANGED <<stored, engine, channel, app>>

\* Another client writes: one mutation based on the current revision.
PeerSync(m, e) ==
  /\ m \in PeerMutation
  /\ \A i \in 1..CurrentCursor : history[i].id # m
  /\ BeginSync([cursor |-> CurrentCursor, mutations |->
       <<[id |-> m, entity |-> e, operation |-> "set", value |-> {m},
          baseRevision |-> CurrentRevision(e)]>>])
  /\ caller' = Nobody
  /\ UNCHANGED <<stored, engine, channel, delayed, app>>

Handle ==
  /\ ProcessMutation
  /\ UNCHANGED <<stored, engine, network, app>>

Answer ==
  /\ EndSync
  /\ IF caller = Nobody THEN UNCHANGED channel ELSE Send(caller, SyncReply)
  /\ caller' = Nobody
  /\ UNCHANGED <<stored, engine, delayed, app>>

Prune ==
  /\ \E n \in (minimumCursor + 1)..MaxHorizon : SetMinimumAvailableCursor(n)
  /\ UNCHANGED <<stored, engine, network, app>>

\* The client no longer waits: what was on its way is lost, except that a
\* request may still reach the server later, and one being handled is.
Abandon(c) ==
  /\ Send(c, Empty)
  /\ caller' = IF caller = c THEN Nobody ELSE caller
  /\ \/ UNCHANGED delayed
     \/ /\ "delay" \in Failures
        /\ channel[c].kind = "syncRequest"
        /\ Cardinality(delayed) < MaxDelayed
        /\ delayed' = delayed \cup {channel[c]}

\* The send rejects: network error, timeout, disconnect.  As in
\* ReceiveInvalid the sync state stays SYNCING.
TransportError(c) ==
  /\ "loss" \in Failures
  /\ pc[c] = "awaitReply"
  /\ Abandon(c)
  /\ EndCycle(c)
  /\ UNCHANGED <<serverVars, stored, syncState, app>>

-----------------------------------------------------------------------------
(* Crash, restart, recovery. *)

\* Wrong: only the mutations that wait to be sent are looked at.
HighestPendingSequence(c, col) ==
  LET S == {queue[c][m].sequence : m \in
              {n \in WithStatus(c, "PENDING") :
                 CollectionOf(queue[c][n].entity) = col}}
  IN IF S = {} THEN 0 ELSE CHOOSE n \in S : \A i \in S : i <= n

HighestSequence(c, col) ==
  LET S == {queue[c][m].sequence : m \in
              {n \in DOMAIN queue[c] : CollectionOf(queue[c][n].entity) = col}}
  IN IF S = {} THEN 0 ELSE CHOOSE n \in S : \A i \in S : i <= n

\* Everything volatile is gone.  On restart the application passes
\* getMaxSequence() to initializeSequence() and runs the RecoveryManager.
Crash(c) ==
  /\ "crash" \in Failures
  /\ Abandon(c)
  /\ batch' = [batch EXCEPT ![c] = <<>>]
  /\ base' = [base EXCEPT ![c] = [i \in EntityId |-> Unloaded]]
  /\ reply' = [reply EXCEPT ![c] = Empty]
  /\ todo' = [todo EXCEPT ![c] = <<>>]
  /\ resolved' = [resolved EXCEPT ![c] = {}]
  /\ Goto(c, "recovering")
  /\ SetSyncState(c, "LOCAL_ONLY")
  /\ drafts' = [drafts EXCEPT ![c] = [t \in Task |-> NoDraft]]
  /\ sequence' = [sequence EXCEPT ![c] =
       [col \in Collection |-> HighestSequence(c, col)]]
  /\ UNCHANGED <<serverVars, stored>>

\* resetInFlightMutations
RecoverMutation(c) ==
  /\ pc[c] = "recovering"
  /\ \E m \in WithStatus(c, "IN_FLIGHT") : SetStatus(c, m, "PENDING")
  /\ UNCHANGED <<serverVars, local, cursor, seen, engine, network, app>>

EndRecovery(c) ==
  /\ pc[c] = "recovering"
  /\ WithStatus(c, "IN_FLIGHT") = {}
  /\ Goto(c, "idle")
  /\ UNCHANGED <<serverVars, stored, batch, base, reply, todo, resolved,
                 syncState, network, app>>

-----------------------------------------------------------------------------
Application(c) ==
  \/ \E m \in MutationId, e \in Entity : Create(c, m, e) \/ Put(c, m, e)
  \/ \E t \in Task, e \in Entity, kind \in {"update", "delete"} :
       ReadForEdit(c, t, e, kind)
  \/ \E t \in Task, m \in MutationId : WriteEdit(c, t, m)
  \/ \E e \in Entity : RollBackWrite(c, e)
  \/ \E m \in MutationId : ResolveByApplication(c, m)
  \/ ForceSnapshot(c)

Server ==
  \/ \E c \in Client : Serve(c) \/ ServeSnapshot(c)
  \/ ServeDelayed \/ Handle \/ Answer \/ Prune
  \/ \E m \in MutationId, e \in Entity : PeerSync(m, e)

Next ==
  \/ \E c \in Client :
       \/ Application(c) \/ Cycle(c) \/ TransportError(c)
       \/ Crash(c) \/ RecoverMutation(c) \/ EndRecovery(c)
  \/ Server

Spec == Init /\ [][Next]_vars

-----------------------------------------------------------------------------
(* Properties. *)

SyncReplies ==
  [kind: {"sync"}, changes: SUBSET (1..CurrentCursor),
   acknowledged: Seq(MutationId), conflicts: Seq(Conflict),
   cursor: 0..CurrentCursor]

SnapshotReplies ==
  [kind: {"snapshot"}, entities: [Entity -> EntityState \cup {NoEntity}],
   cursor: 0..CurrentCursor]

Replies == {Empty, CursorTooOldReply} \cup SyncReplies \cup SnapshotReplies

SyncRequests ==
  [kind: {"syncRequest"}, cursor: 0..CurrentCursor, mutations: Seq(Mutation)]

Requests ==
  {SnapshotRequest(cols) : cols \in SUBSET Collection} \cup SyncRequests

IsQueue(q) ==
  /\ DOMAIN q \subseteq MutationId /\ IsFiniteSet(DOMAIN q)
  /\ q \in [DOMAIN q -> QueueRecord]

BatchEntry == [id: MutationId, entity: Entity, value: Data]

Labels == {"idle", "dequeue", "loadBase", "awaitReply", "requeue", "apply",
           "saveCursor", "settle", "putResolved", "resolveMutation",
           "finish", "recovering"}

TypeOK ==
  /\ ServerTypeOK
  /\ local \in [Client -> [Entity -> EntityState \cup {NoEntity}]]
  /\ queue = [c \in Client |-> queue[c]]
  /\ \A c \in Client : IsQueue(queue[c])
  /\ cursor \in [Client -> {NoCursor} \cup 0..CurrentCursor]
  /\ sequence \in [Client -> [Collection -> 0..MaxSequence]]
  /\ drafts \in [Client -> [Task -> Draft \cup {NoDraft}]]
  /\ pc \in [Client -> Labels]
  /\ batch \in [Client -> Seq(BatchEntry)]
  /\ base \in [Client -> [EntityId -> Nat \cup {Unloaded}]]
  /\ reply \in [Client -> Replies]
  /\ todo \in [Client -> Seq(MutationId)]
  /\ resolved \in [Client -> Data]
  /\ syncState \in [Client -> {"LOCAL_ONLY", "SYNCING", "SYNCED", "ERROR"}]
  /\ channel \in [Client -> Requests \cup Replies]
  /\ delayed \subseteq SyncRequests
  /\ caller \in Client \cup {Nobody}
  /\ seen \in [Client -> [Entity -> 0..CurrentCursor]]

Applied(m) == \E i \in 1..CurrentCursor : history[i].id = m

\* A client marks a mutation ACKNOWLEDGED, and so never sends it again, only
\* when the server has applied it: whatever is lost, delayed, repeated,
\* resolved or crashes, no write is dropped as "done" (INV-4, INV-5).
AcknowledgedOnlyIfApplied ==
  \A c \in Client : \A m \in WithStatus(c, "ACKNOWLEDGED") : Applied(m)

\* Everything the stored cursor claims to have been received has been stored:
\* no crash between the transaction and saveCursor, no repeated or abandoned
\* cycle moves the cursor past a change the client has not applied (INV-3).
CursorCoversStored ==
  \A c \in Client : \A i \in 1..cursor[c] :
    seen[c][history[i].entity] >= i

Settled(c) ==
  /\ pc[c] = "idle"
  /\ cursor[c] = CurrentCursor
  /\ \A t \in Task : drafts[c][t] = NoDraft
  /\ \A m \in DOMAIN queue[c] : queue[c][m].status = "ACKNOWLEDGED"

\* A client with nothing left to send that has caught up with the server's
\* log stores exactly the server's entities: local writes, remote changes,
\* resolutions and retries leave no divergence behind.
SettledMeansEqual ==
  \A c \in Client : Settled(c) => local[c] = store

\* A mutation settled as CONFLICT was not applied: the application is never
\* asked to decide again about a write that took effect.
ConflictNotApplied ==
  \A c \in Client : \A m \in WithStatus(c, "CONFLICT") : ~Applied(m)

\* retry() is for mutations that go back to the queue: the engine says
\* "Re-enqueue any dequeued mutations back to PENDING".
GivenBackArePending ==
  \A c \in Client : pc[c] = "idle" => WithStatus(c, "IN_FLIGHT") = {}

\* No mutation is applied over another client's change its author had not
\* seen: such a pair must be reported as a conflict (INV-6).
NoUnseenOverwrite ==
  \A c \in Client : \A m \in DOMAIN queue[c] :
    \A j \in 1..CurrentCursor : history[j].id = m =>
      \A i \in (queue[c][m].known + 1)..(j - 1) :
        history[i].entity = history[j].entity
          => history[i].id \in DOMAIN queue[c]

\* Sequence numbers of a collection are never given out twice, across
\* restarts too (INV-1).
SequenceUnique ==
  \A c \in Client : \A m, n \in DOMAIN queue[c] :
    (/\ CollectionOf(queue[c][m].entity) = CollectionOf(queue[c][n].entity)
     /\ queue[c][m].sequence = queue[c][n].sequence) => m = n

AllAcknowledged ==
  {m \in MutationId : \E c \in Client : m \in WithStatus(c, "ACKNOWLEDGED")}

Contract == INSTANCE SyncContract WITH
  Write <- MutationId, Key <- Entity, Unnamed <- NoMutation,
  log <- [i \in 1..CurrentCursor |->
            [write |-> history[i].id, key |-> history[i].entity]],
  horizon <- minimumCursor,
  settled <- AllAcknowledged

\* The system implements the contract: what clients consider settled is in
\* the server's log and stays so, and the log repeats no remembered write.
ImplementsContract == Contract!Spec

-----------------------------------------------------------------------------
(* Fairness.  The scheduler starts cycles again and again and every promise  *)
(* of the engine and the server's handler resolves; a request that is sent   *)
(* over and over gets through and is answered in time now and then.  Nothing *)
(* is assumed of the application, of other clients or of the operator.       *)

ClientSteps(c) ==
  \/ Cycle(c) \/ RecoverMutation(c) \/ EndRecovery(c)

Fairness ==
  /\ \A c \in Client :
       /\ WF_vars(ClientSteps(c))
       /\ SF_vars(Serve(c))
       /\ SF_vars(ServeSnapshot(c))
       /\ \A n \in 1..BatchSize :
            SF_vars(Handle /\ caller = c /\ job.next = n)
       /\ SF_vars(Answer /\ caller = c)
       /\ SF_vars(ReceiveTooOld(c) \/ ReceiveValid(c) \/ ReceiveInvalid(c))
  /\ WF_vars(Handle)
  /\ WF_vars(Answer)

FairSpec == Spec /\ Fairness

\* A write that waits to be sent is eventually acknowledged or handed to the
\* application as a conflict (INV-2, INV-4).
PendingEventuallySettles ==
  \A c \in Client, m \in MutationId :
    m \in WithStatus(c, "PENDING") ~>
      m \in WithStatus(c, "ACKNOWLEDGED") \cup WithStatus(c, "CONFLICT")
=============================================================================
