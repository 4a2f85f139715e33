----------------------------- MODULE SyncServer -----------------------------
(***************************************************************************)
(* The sync server of packages/server: the entity store, the change log,   *)
(* the tracker of mutation ids, and the handlers of incremental and        *)
(* snapshot requests.                                                      *)
(*                                                                         *)
(* A request handler runs to completion in the code.  Here it takes one    *)
(* step to admit a sync request, one per mutation of the request and one   *)
(* to answer; nothing else touches the server while `job' is busy, so the  *)
(* grouping of the code is kept and every step stays simple enough to      *)
(* prove about.                                                            *)
(*                                                                         *)
(* Entity data is abstracted to the set of writes (named by the ids of     *)
(* their mutations) that show in it.  A `set' replaces the data by the     *)
(* value it carries; every other operation edits what is there.            *)
(*                                                                         *)
(* A definition whose comment begins with "Wrong:" is not part of the      *)
(* model.  It is what the definition after it would be with a plausible    *)
(* bug; PROJECT.json names the property that notices.                      *)
(***************************************************************************)
EXTENDS Integers, Sequences, FiniteSets

CONSTANTS
  Entity,      \* keys of the store: a collection name and an entity id
  MutationId,  \* the ids clients give their mutations
  NoEntity,    \* "the Map has no such key"
  NoMutation   \* the author of a log entry that seedEntity appended

VARIABLES
  store,          \* SyncServer.entities
  history,        \* every entry ever appended; position = serverSequence
  retained,       \* the positions ServerChangeLog.entries still holds
  minimumCursor,  \* ServerChangeLog._minimumAvailableCursor
  tracker,        \* ServerMutationTracker.mutations; 0 = not tracked
  job             \* the sync request being handled

serverVars == <<store, history, retained, minimumCursor, tracker, job>>

-----------------------------------------------------------------------------
Data == SUBSET MutationId

EntityState == [data: Data, revision: Nat, isDeleted: BOOLEAN]

ASSUME ServerConstants ==
  /\ NoEntity \notin EntityState
  /\ NoMutation \notin MutationId

\* "set", and "edit" for patch, increment, decrement, add and remove.
Operation == {"set", "edit"}

\* The empty cursor string of a client that never synced.
NoCursor == -1

Mutation == [id: MutationId, entity: Entity, operation: Operation,
             value: Data, baseRevision: Nat]

SyncRequest == [cursor: Nat \cup {NoCursor}, mutations: Seq(Mutation)]

\* base is the revision the entry was built on.  The log of the code keeps
\* neither base nor id; the tracker holds the id.
LogEntry == [id: MutationId \cup {NoMutation}, entity: Entity,
             base: Nat, state: EntityState]

\* dated is false when the reported server entity has empty timestamps.
Conflict == [id: MutationId, entity: Entity, clientRevision: Nat,
             serverRevision: Nat, serverEntity: EntityState, dated: BOOLEAN]

Job == [busy: BOOLEAN, request: SyncRequest, next: Nat \ {0},
        acknowledged: Seq(MutationId), conflicts: Seq(Conflict)]

IdleJob == [busy |-> FALSE, request |-> [cursor |-> 0, mutations |-> <<>>],
            next |-> 1, acknowledged |-> <<>>, conflicts |-> <<>>]

\* The serverSequence of the last entry: the value of currentCursor.
CurrentCursor == Len(history)

ServerInit ==
  /\ store = [e \in Entity |-> NoEntity]
  /\ history = <<>>
  /\ retained = {}
  /\ minimumCursor = 0
  /\ tracker = [m \in MutationId |-> 0]
  /\ job = IdleJob

-----------------------------------------------------------------------------
(* The change log. *)

AppendEntry(entry) ==
  /\ history' = Append(history, entry)
  /\ retained' = retained \cup {Len(history) + 1}

\* Wrong: the first change after the cursor is skipped.
ChangesSinceNext(cursor) == {n \in retained : n > cursor + 1}

ChangesSince(cursor) == {n \in retained : n > cursor}

IsCursorTooOld(cursor) == cursor < minimumCursor

-----------------------------------------------------------------------------
(* processMutation: one mutation of the request being handled. *)

\* The entity an absent key stands for, in conflicts and as the base on which
\* a first mutation is applied.
BlankEntity(deleted) == [data |-> {}, revision |-> 0, isDeleted |-> deleted]

CurrentRevision(e) == IF store[e] = NoEntity THEN 0 ELSE store[e].revision

\* applyMutation: isDeleted is carried over, whatever the operation.
ApplyMutation(state, m) ==
  [data      |-> IF m.operation = "set" THEN m.value
                                        ELSE state.data \cup m.value,
   revision  |-> state.revision + 1,
   isDeleted |-> state.isDeleted]

ConflictWith(m) ==
  [id             |-> m.id,
   entity         |-> m.entity,
   clientRevision |-> m.baseRevision,
   serverRevision |-> CurrentRevision(m.entity),
   serverEntity   |-> IF store[m.entity] = NoEntity THEN BlankEntity(TRUE)
                                                    ELSE store[m.entity],
   dated          |-> store[m.entity] # NoEntity]

Pending == job.busy /\ job.next <= Len(job.request.mutations)

NextMutation == job.request.mutations[job.next]

\* Wrong: no duplicate check.
NeverTracked(m) == FALSE

Tracked(m) == tracker[m.id] # 0

\* Wrong: only a client that is behind is in conflict.
Behind(m) == m.baseRevision < CurrentRevision(m.entity)

Stale(m) == m.baseRevision # CurrentRevision(m.entity)

\* Wrong: a duplicate is passed over in silence.
DeduplicateSilently ==
  /\ Pending
  /\ Tracked(NextMutation)
  /\ job' = [job EXCEPT !.next = @ + 1]
  /\ UNCHANGED <<store, history, retained, minimumCursor, tracker>>

Deduplicate ==
  /\ Pending
  /\ Tracked(NextMutation)
  /\ job' = [job EXCEPT !.next = @ + 1,
                        !.acknowledged = Append(@, NextMutation.id)]
  /\ UNCHANGED <<store, history, retained, minimumCursor, tracker>>

\* Wrong: the conflicting mutation is acknowledged as well.
DetectAndAcknowledge ==
  /\ Pending
  /\ ~Tracked(NextMutation)
  /\ Stale(NextMutation)
  /\ job' = [job EXCEPT !.next = @ + 1,
                        !.acknowledged = Append(@, NextMutation.id),
                        !.conflicts = Append(@, ConflictWith(NextMutation))]
  /\ UNCHANGED <<store, history, retained, minimumCursor, tracker>>

DetectConflict ==
  /\ Pending
  /\ ~Tracked(NextMutation)
  /\ Stale(NextMutation)
  /\ job' = [job EXCEPT !.next = @ + 1,
                        !.conflicts = Append(@, ConflictWith(NextMutation))]
  /\ UNCHANGED <<store, history, retained, minimumCursor, tracker>>

Accept ==
  LET m == NextMutation
      existing == IF store[m.entity] = NoEntity THEN BlankEntity(FALSE)
                                                ELSE store[m.entity]
      applied == ApplyMutation(existing, m)
  IN /\ Pending
     /\ ~Tracked(m)
     /\ ~Stale(m)
     /\ store' = [store EXCEPT ![m.entity] = applied]
     /\ AppendEntry([id |-> m.id, entity |-> m.entity,
                     base |-> m.baseRevision, state |-> applied])
     /\ tracker' = [tracker EXCEPT ![m.id] = Len(history) + 1]
     /\ job' = [job EXCEPT !.next = @ + 1,
                           !.acknowledged = Append(@, m.id)]
     /\ UNCHANGED minimumCursor

ProcessMutation == Deduplicate \/ DetectConflict \/ Accept

-----------------------------------------------------------------------------
(* The request handlers. *)

\* Wrong: every cursor is served.
NeverRefused(request) == FALSE

\* handleSyncRequest refuses a cursor below the retention horizon before it
\* looks at any mutation.
Refused(request) ==
  request.cursor # NoCursor /\ IsCursorTooOld(request.cursor)

BeginSync(request) ==
  /\ ~job.busy
  /\ ~Refused(request)
  /\ job' = [busy |-> TRUE, request |-> request, next |-> 1,
              acknowledged |-> <<>>, conflicts |-> <<>>]
  /\ UNCHANGED <<store, history, retained, minimumCursor, tracker>>

ReplyReady == job.busy /\ job.next > Len(job.request.mutations)

\* Changes are named by their sequence numbers: log entries never change.
SyncReply ==
  [kind         |-> "sync",
   changes      |-> ChangesSince(IF job.request.cursor = NoCursor
                                   THEN 0 ELSE job.request.cursor),
   acknowledged |-> job.acknowledged,
   conflicts    |-> job.conflicts,
   cursor       |-> CurrentCursor]

EndSync ==
  /\ ReplyReady
  /\ job' = IdleJob
  /\ UNCHANGED <<store, history, retained, minimumCursor, tracker>>

CursorTooOldReply == [kind |-> "tooOld"]

\* Wrong: the next sequence number instead of the last.
SnapshotReplyNext == [kind |-> "snapshot", entities |-> store,
                      cursor |-> CurrentCursor + 1]

SnapshotReply == [kind |-> "snapshot", entities |-> store,
                  cursor |-> CurrentCursor]

-----------------------------------------------------------------------------
(* Administration. *)

\* Wrong: the tracker forgets the entry at the horizon, which the log keeps.
PruneTrackerTooFar(cursor) ==
  /\ ~job.busy
  /\ cursor \in minimumCursor..CurrentCursor
  /\ minimumCursor' = cursor
  /\ retained' = {n \in retained : n >= cursor}
  /\ tracker' = [m \in MutationId |->
                   IF tracker[m] <= cursor THEN 0 ELSE tracker[m]]
  /\ UNCHANGED <<store, history, job>>

\* setMinimumAvailableCursor of the server, the log and the tracker.  The
\* code accepts any value; an operator's retention job raises the horizon,
\* at most to the current cursor.
SetMinimumAvailableCursor(cursor) ==
  /\ ~job.busy
  /\ cursor \in minimumCursor..CurrentCursor
  /\ minimumCursor' = cursor
  /\ retained' = {n \in retained : n >= cursor}
  /\ tracker' = [m \in MutationId |->
                   IF tracker[m] < cursor THEN 0 ELSE tracker[m]]
  /\ UNCHANGED <<store, history, job>>

\* Wrong: the seed is logged but not stored.
SeedLogOnly(e, state) ==
  /\ ~job.busy
  /\ AppendEntry([id |-> NoMutation, entity |-> e,
                  base |-> CurrentRevision(e), state |-> state])
  /\ UNCHANGED <<store, minimumCursor, tracker, job>>

SeedEntity(e, state) ==
  /\ ~job.busy
  /\ store' = [store EXCEPT ![e] = state]
  /\ AppendEntry([id |-> NoMutation, entity |-> e,
                  base |-> CurrentRevision(e), state |-> state])
  /\ UNCHANGED <<minimumCursor, tracker, job>>

-----------------------------------------------------------------------------
\* The server on its own: any well-formed request may arrive.
ServerNext ==
  \/ \E request \in SyncRequest : BeginSync(request)
  \/ ProcessMutation
  \/ EndSync
  \/ \E cursor \in Nat : SetMinimumAvailableCursor(cursor)
  \/ \E e \in Entity, state \in EntityState : SeedEntity(e, state)

ServerSpec == ServerInit /\ [][ServerNext]_serverVars

-----------------------------------------------------------------------------
(* Properties. *)

ServerTypeOK ==
  /\ store \in [Entity -> EntityState \cup {NoEntity}]
  /\ history \in Seq(LogEntry)
  /\ retained \in SUBSET (1..CurrentCursor)
  /\ minimumCursor \in 0..CurrentCursor
  /\ tracker \in [MutationId -> 0..CurrentCursor]
  /\ job \in Job

\* An id appears twice in the log only when its first application lies below
\* the retention horizon: within the window every mutation is applied at most
\* once, however often its request is repeated (INV-2, INV-5).
AtMostOnceInWindow ==
  \A i, j \in 1..CurrentCursor :
    (i < j /\ history[i].id = history[j].id /\ history[i].id # NoMutation)
      => i < minimumCursor

\* What a snapshot shows of an entity is what the last log entry for it says,
\* so a client that replays the log and one that takes a snapshot agree.
StoreMatchesLog ==
  \A e \in Entity :
    \/ /\ store[e] = NoEntity
       /\ \A i \in 1..CurrentCursor : history[i].entity # e
    \/ \E i \in 1..CurrentCursor :
         /\ history[i].entity = e
         /\ history[i].state = store[e]
         /\ \A j \in (i + 1)..CurrentCursor : history[j].entity # e

\* The reply to an admitted request lists every entry after the client's
\* cursor: pruning never opens a gap under a cursor the server still serves.
\* (The engine never sends the empty cursor: it takes a snapshot instead.)
ReplyHasEveryChange ==
  (ReplyReady /\ job.request.cursor # NoCursor) =>
    SyncReply.changes = (job.request.cursor + 1)..SyncReply.cursor

\* Every mutation was applied to the state left by the previous entry for its
\* entity, and raised that entry's revision by exactly one: two mutations
\* based on the same revision are never both applied (INV-6).
AppliedToLatest ==
  \A j \in 1..CurrentCursor :
    history[j].id # NoMutation =>
      /\ history[j].state.revision = history[j].base + 1
      /\ \/ \A i \in 1..(j - 1) : history[i].entity # history[j].entity
         \/ \E i \in 1..(j - 1) :
              /\ history[i].entity = history[j].entity
              /\ history[i].state.revision = history[j].base
              /\ \A k \in (i + 1)..(j - 1) :
                   history[k].entity # history[j].entity

\* A mutation reported as acknowledged is in the log: the server never tells
\* a client to forget a write it did not apply.
AcknowledgedIsApplied ==
  \A k \in 1..Len(job.acknowledged) :
    \E i \in 1..CurrentCursor : history[i].id = job.acknowledged[k]
=============================================================================
