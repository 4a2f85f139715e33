-------------------------- MODULE OfflineSyncProofs --------------------------
(***************************************************************************)
(* Theorems about OfflineSync, for any clients, entities and batch size,   *)
(* any strategy, and any losses, delays, crashes and prunings:             *)
(*   - types, and what each place of the sync cycle may rely on;           *)
(*   - the server's theorems, which hold of the composed system too;       *)
(*   - the stored cursor covers what it claims;                            *)
(*   - what a client considers settled is in the server's log, and the     *)
(*     system implements SyncContract.                                     *)
(***************************************************************************)
EXTENDS OfflineSync, SyncServerProofs, FiniteSetTheorems,
        WellFoundedInduction

(* Types.  TypeOK is cut along the tuples of variables of OfflineSync.     *)

QueueOK ==
  /\ queue = [c \in Client |-> queue[c]]
  /\ \A c \in Client : IsQueue(queue[c])

StoredOK ==
  /\ local \in [Client -> [Entity -> EntityState \cup {NoEntity}]]
  /\ QueueOK
  /\ cursor \in [Client -> {NoCursor} \cup 0..CurrentCursor]
  /\ seen \in [Client -> [Entity -> 0..CurrentCursor]]

EngineOK ==
  /\ pc \in [Client -> Labels]
  /\ batch \in [Client -> Seq(BatchEntry)]
  /\ base \in [Client -> [EntityId -> Nat \cup {Unloaded}]]
  /\ reply \in [Client -> Replies]
  /\ todo \in [Client -> Seq(MutationId)]
  /\ resolved \in [Client -> Data]
  /\ syncState \in [Client -> {"LOCAL_ONLY", "SYNCING", "SYNCED", "ERROR"}]

NetworkOK ==
  /\ channel \in [Client -> Requests \cup Replies]
  /\ delayed \subseteq SyncRequests
  /\ caller \in Client \cup {Nobody}

AppOK ==
  /\ sequence \in [Client -> [Collection -> 0..MaxSequence]]
  /\ drafts \in [Client -> [Task -> Draft \cup {NoDraft}]]

LEMMA TypeParts ==
  /\ TypeOK <=> ServerTypeOK /\ StoredOK /\ EngineOK /\ NetworkOK /\ AppOK
  /\ TypeOK' <=> ServerTypeOK' /\ StoredOK' /\ EngineOK' /\ NetworkOK' /\ AppOK'
  BY DEF TypeOK, StoredOK, QueueOK, EngineOK, NetworkOK, AppOK

\* What the engine relies on at each of its awaits: one request or reply at
\* most is under way, and only for a client that awaits it; the reply is of
\* the kind the place it is handled at expects.
Control ==
  \A c \in Client :
    /\ channel[c].kind # "empty" => pc[c] = "awaitReply"
    /\ caller = c =>
         pc[c] = "awaitReply" /\ channel[c].kind = "empty" /\ job.busy
    /\ pc[c] \in {"dequeue", "loadBase"} => cursor[c] # NoCursor
    /\ pc[c] \in {"apply", "saveCursor"} =>
         reply[c].kind \in {"sync", "snapshot"}
    /\ pc[c] \in {"settle", "putResolved", "resolveMutation"} =>
         reply[c].kind = "sync"
    /\ pc[c] \in {"putResolved", "resolveMutation"} =>
         reply[c].acknowledged = <<>> /\ reply[c].conflicts # <<>>

TypeInv == TypeOK /\ Control

-----------------------------------------------------------------------------
(* Requests and replies. *)

\* A message is told by its kind.
LEMMA MessageShape ==
  ASSUME NEW r \in Requests \cup Replies
  PROVE  /\ r.kind \in {"snapshotRequest", "syncRequest", "empty", "tooOld",
                        "sync", "snapshot"}
         /\ r.kind = "syncRequest" => r \in SyncRequests
         /\ r.kind = "snapshotRequest" => r.collections \in SUBSET Collection
         /\ r.kind \in {"empty", "tooOld", "sync", "snapshot"} => r \in Replies
         /\ r.kind = "sync" => r \in SyncReplies
         /\ r.kind = "snapshot" => r \in SnapshotReplies
<1>1. CASE r \in SyncRequests
  BY <1>1 DEF SyncRequests
<1>2. CASE r \in SyncReplies
  BY <1>2 DEF SyncReplies, Replies
<1>3. CASE r \in SnapshotReplies
  BY <1>3 DEF SnapshotReplies, Replies
<1>4. CASE r \in {Empty, CursorTooOldReply}
  BY <1>4 DEF Replies, Empty, CursorTooOldReply
<1>5. CASE \E cols \in SUBSET Collection : r = SnapshotRequest(cols)
  BY <1>5 DEF SnapshotRequest
<1> QED
  BY <1>1, <1>2, <1>3, <1>4, <1>5 DEF Requests, Replies

LEMMA SyncReplyShape ==
  ASSUME NEW r \in SyncReplies
  PROVE  /\ r.kind = "sync"
         /\ r.changes \in SUBSET (1..CurrentCursor)
         /\ r.acknowledged \in Seq(MutationId)
         /\ r.conflicts \in Seq(Conflict)
         /\ r.cursor \in 0..CurrentCursor
  BY DEF SyncReplies

LEMMA SnapshotReplyShape ==
  ASSUME NEW r \in SnapshotReplies
  PROVE  /\ r.kind = "snapshot"
         /\ r.entities \in [Entity -> EntityState \cup {NoEntity}]
         /\ r.cursor \in 0..CurrentCursor
  BY DEF SnapshotReplies

LEMMA SyncRequestShape ==
  ASSUME NEW r \in SyncRequests
  PROVE  /\ r.kind = "syncRequest"
         /\ r.cursor \in 0..CurrentCursor
         /\ r.mutations \in Seq(Mutation)
         /\ Payload(r) \in SyncRequest
         /\ Payload(r).cursor = r.cursor
         /\ Payload(r).mutations = r.mutations
<1>1. r.kind = "syncRequest" /\ r.cursor \in 0..CurrentCursor
      /\ r.mutations \in Seq(Mutation)
  BY DEF SyncRequests
<1>2. Payload(r) \in SyncRequest
  BY <1>1 DEF Payload, SyncRequest
<1> QED
  BY <1>1, <1>2 DEF Payload

\* Messages stay well formed as the log grows.
LEMMA MessagesGrow ==
  ASSUME CurrentCursor \in Nat, CurrentCursor' \in Nat,
         CurrentCursor <= CurrentCursor'
  PROVE  /\ Replies \subseteq Replies'
         /\ SyncRequests \subseteq SyncRequests'
         /\ Requests \subseteq Requests'
<1>1. 0..CurrentCursor \subseteq 0..CurrentCursor'
      /\ SUBSET (1..CurrentCursor) \subseteq SUBSET (1..CurrentCursor')
  OBVIOUS
<1>2. SyncReplies \subseteq SyncReplies'
  BY <1>1 DEF SyncReplies
<1>3. SnapshotReplies \subseteq SnapshotReplies'
  BY <1>1 DEF SnapshotReplies
<1>4. SyncRequests \subseteq SyncRequests'
  BY <1>1 DEF SyncRequests
<1> QED
  BY <1>2, <1>3, <1>4 DEF Replies, Requests

LEMMA EmptyReply == Empty \in Replies /\ CursorTooOldReply \in Replies
  BY DEF Replies

-----------------------------------------------------------------------------
(* Steps that leave the server alone. *)

LEMMA ServerIdle ==
  ASSUME TypeOK, UNCHANGED serverVars
  PROVE  /\ ServerTypeOK'
         /\ CurrentCursor \in Nat /\ CurrentCursor' = CurrentCursor
         /\ Replies' = Replies /\ Requests' = Requests
         /\ SyncRequests' = SyncRequests
<1>1. history' = history /\ history \in Seq(LogEntry)
  BY DEF serverVars, TypeOK, ServerTypeOK
<1>2. CurrentCursor \in Nat /\ CurrentCursor' = CurrentCursor
  BY <1>1 DEF CurrentCursor
<1>3. ServerTypeOK'
  BY <1>2 DEF serverVars, TypeOK, ServerTypeOK
<1>4. SyncReplies' = SyncReplies /\ SnapshotReplies' = SnapshotReplies
      /\ SyncRequests' = SyncRequests
  BY <1>2 DEF SyncReplies, SnapshotReplies, SyncRequests
<1> QED
  BY <1>2, <1>3, <1>4 DEF Replies, Requests

LEMMA PartsIdle ==
  ASSUME TypeOK, UNCHANGED serverVars
  PROVE  /\ UNCHANGED stored => StoredOK'
         /\ UNCHANGED engine => EngineOK'
         /\ UNCHANGED network => NetworkOK'
         /\ UNCHANGED app => AppOK'
<1>0. /\ StoredOK /\ EngineOK /\ NetworkOK /\ AppOK
      /\ CurrentCursor' = CurrentCursor
      /\ Replies' = Replies /\ Requests' = Requests
      /\ SyncRequests' = SyncRequests
  BY TypeParts, ServerIdle
<1>1. UNCHANGED stored => StoredOK'
  BY <1>0 DEF stored, StoredOK, QueueOK
<1>2. UNCHANGED engine => EngineOK'
  BY <1>0 DEF engine, EngineOK
<1>3. UNCHANGED network => NetworkOK'
  BY <1>0 DEF network, NetworkOK
<1>4. UNCHANGED app => AppOK'
  BY <1>0 DEF app, AppOK
<1> QED
  BY <1>1, <1>2, <1>3, <1>4

-----------------------------------------------------------------------------
(* The queue. *)

LEMMA QueueUpdate ==
  ASSUME QueueOK, NEW c \in Client, NEW q, IsQueue(q),
         queue' = [queue EXCEPT ![c] = q]
  PROVE  QueueOK'
<1>1. \A d \in Client : queue'[d] = IF d = c THEN q ELSE queue[d]
  BY DEF QueueOK
<1>2. queue' = [d \in Client |-> queue'[d]]
  BY DEF QueueOK
<1> QED
  BY <1>1, <1>2 DEF QueueOK, IsQueue

LEMMA InsertIsQueue ==
  ASSUME NEW q, IsQueue(q), NEW m \in MutationId, NEW r \in QueueRecord
  PROVE  IsQueue(Insert(q, m, r))
  BY FS_AddElement DEF IsQueue, Insert

LEMMA StatusIsQueue ==
  ASSUME NEW q, IsQueue(q), NEW m, NEW s \in Status
  PROVE  IsQueue([q EXCEPT ![m].status = s])
  BY DEF IsQueue, QueueRecord

LEMMA ResolvedIsQueue ==
  ASSUME NEW q, IsQueue(q), NEW m, NEW s \in Status, NEW v \in Data,
         NEW n \in Nat
  PROVE  IsQueue([q EXCEPT ![m].status = s, ![m].value = v, ![m].known = n])
<1> DEFINE q1 == [q EXCEPT ![m].status = s]
           q2 == [q1 EXCEPT ![m].value = v]
           q3 == [q2 EXCEPT ![m].known = n]
<1>1. IsQueue(q1)
  BY StatusIsQueue
<1> HIDE DEF q1
<1>2. IsQueue(q2)
  BY <1>1 DEF IsQueue, QueueRecord
<1> HIDE DEF q2
<1>3. IsQueue(q3)
  BY <1>2 DEF IsQueue, QueueRecord
<1>4. [q EXCEPT ![m].status = s, ![m].value = v, ![m].known = n] = q3
  BY DEF q1, q2
<1> QED
  BY <1>3, <1>4

\* SetStatus keeps the queue typed, for any id and status.
LEMMA SetStatusType ==
  ASSUME QueueOK, NEW c \in Client, NEW m, NEW s \in Status, SetStatus(c, m, s)
  PROVE  QueueOK'
<1>1. queue' = [queue EXCEPT ![c] = [queue[c] EXCEPT ![m].status = s]]
  BY DEF SetStatus, QueueOK
<1>2. IsQueue(queue[c])
  BY DEF QueueOK
<1> QED
  BY <1>1, <1>2, QueueUpdate, StatusIsQueue

-----------------------------------------------------------------------------
(* Types: what the application does. *)

LEMMA EntityParts ==
  ASSUME NEW e \in Entity
  PROVE  CollectionOf(e) \in Collection /\ IdOf(e) \in EntityId
  BY SyncConstants DEF CollectionOf, IdOf

\* Control speaks of the engine, the network, the cursors and the job only.
LEMMA ControlIdle ==
  ASSUME Control, UNCHANGED <<serverVars, cursor, engine, network>>
  PROVE  Control'
  BY DEF Control, serverVars, engine, network

LEMMA TakeSequenceType ==
  ASSUME AppOK, NEW c \in Client, NEW e \in Entity, TakeSequence(c, e)
  PROVE  /\ sequence' \in [Client -> [Collection -> 0..MaxSequence]]
         /\ NextSequence(c, e) \in 1..MaxSequence
<1>1. CollectionOf(e) \in Collection /\ MaxSequence \in Nat
  BY EntityParts, SyncConstants
<1>2. sequence[c][CollectionOf(e)] \in 0..MaxSequence
  BY <1>1 DEF AppOK
<1>3. sequence[c][CollectionOf(e)] + 1 \in 1..MaxSequence
  BY <1>1, <1>2 DEF TakeSequence, NextSequence
<1>4. sequence' = [sequence EXCEPT ![c] =
                    [sequence[c] EXCEPT ![CollectionOf(e)] = @ + 1]]
  BY DEF TakeSequence, AppOK
<1>5. [sequence[c] EXCEPT ![CollectionOf(e)] = @ + 1]
        \in [Collection -> 0..MaxSequence]
  BY <1>1, <1>3 DEF AppOK
<1> QED
  BY <1>1, <1>3, <1>4, <1>5 DEF AppOK, NextSequence

LEMMA WriteType ==
  ASSUME TypeInv, NEW c \in Client, NEW m \in MutationId, NEW e \in Entity,
         NEW state \in EntityState, NEW known \in Nat,
         WriteAtomically(c, m, e, state, known)
  PROVE  /\ ServerTypeOK' /\ StoredOK' /\ EngineOK' /\ NetworkOK' /\ Control'
         /\ sequence' \in [Client -> [Collection -> 0..MaxSequence]]
<1>0. StoredOK /\ AppOK /\ TakeSequence(c, e)
  BY TypeParts DEF TypeInv, WriteAtomically
<1>1. /\ UNCHANGED <<serverVars, cursor, seen, engine, network>>
      /\ local' = [local EXCEPT ![c][e] = state]
  BY DEF WriteAtomically
<1>2. /\ ServerTypeOK' /\ EngineOK' /\ NetworkOK' /\ Control'
      /\ CurrentCursor' = CurrentCursor
  BY <1>1, ServerIdle, PartsIdle, ControlIdle DEF TypeInv
<1> DEFINE r == [status |-> "PENDING", entity |-> e, value |-> state.data,
                 sequence |-> NextSequence(c, e), known |-> known]
<1>3. r \in QueueRecord
  BY <1>0, TakeSequenceType DEF QueueRecord, Status, EntityState
<1>4. queue' = [queue EXCEPT ![c] = Insert(queue[c], m, r)]
  BY <1>0 DEF WriteAtomically, Enqueue, StoredOK, QueueOK
<1> HIDE DEF r
<1>5. QueueOK'
  BY <1>0, <1>3, <1>4, InsertIsQueue, QueueUpdate DEF StoredOK, QueueOK
<1>6. local' \in [Client -> [Entity -> EntityState \cup {NoEntity}]]
  BY <1>0, <1>1 DEF StoredOK
<1> QED
  BY <1>0, <1>1, <1>2, <1>5, <1>6, TakeSequenceType DEF StoredOK

LEMMA CreateType ==
  ASSUME TypeInv, NEW c \in Client, NEW m \in MutationId, NEW e \in Entity,
         Create(c, m, e)
  PROVE  TypeInv'
<1>1. [data |-> {m}, revision |-> 1, isDeleted |-> FALSE] \in EntityState
      /\ seen[c][e] \in Nat
  BY ServerIdle, TypeParts DEF TypeInv, EntityState, Data, StoredOK
<1>2. drafts' = drafts
  BY DEF Create
<1> QED
  BY <1>1, <1>2, WriteType, TypeParts DEF Create, TypeInv, AppOK

LEMMA PutType ==
  ASSUME TypeInv, NEW c \in Client, NEW m \in MutationId, NEW e \in Entity,
         Put(c, m, e)
  PROVE  TypeInv'
<1> DEFINE revision == IF local[c][e] = NoEntity THEN 0
                                                 ELSE local[c][e].revision
<1>1. local[c][e] # NoEntity => local[c][e] \in EntityState
  BY TypeParts DEF TypeInv, StoredOK
<1>2. revision \in Nat /\ seen[c][e] \in Nat
  BY <1>1, TypeParts DEF TypeInv, EntityState, StoredOK
<1> HIDE DEF revision
<1>3. [data |-> {m}, revision |-> revision, isDeleted |-> FALSE]
        \in EntityState
  BY <1>2 DEF EntityState, Data
<1>4. drafts' = drafts /\ WriteAtomically(c, m, e,
        [data |-> {m}, revision |-> revision, isDeleted |-> FALSE], seen[c][e])
  BY DEF Put, revision
<1> QED
  BY <1>2, <1>3, <1>4, WriteType, TypeParts DEF TypeInv, AppOK

LEMMA ReadForEditType ==
  ASSUME TypeInv, NEW c \in Client, NEW t \in Task, NEW e \in Entity,
         NEW kind \in {"update", "delete"}, ReadForEdit(c, t, e, kind)
  PROVE  TypeInv'
<1> DEFINE d == [kind |-> kind, entity |-> e, read |-> local[c][e],
                 known |-> seen[c][e]]
<1>1. local[c][e] \in EntityState /\ seen[c][e] \in Nat
  BY TypeParts DEF TypeInv, StoredOK, ReadForEdit
<1>2. d \in Draft
  BY <1>1 DEF Draft
<1>3. drafts' = [drafts EXCEPT ![c][t] = d]
      /\ UNCHANGED <<serverVars, stored, engine, network, sequence>>
  BY DEF ReadForEdit
<1> HIDE DEF d
<1>4. AppOK'
  BY <1>2, <1>3, TypeParts DEF TypeInv, AppOK
<1>5. ServerTypeOK' /\ StoredOK' /\ EngineOK' /\ NetworkOK'
  BY <1>3, ServerIdle, PartsIdle DEF TypeInv
<1> QED
  BY <1>3, <1>4, <1>5, ControlIdle, TypeParts DEF TypeInv, stored

LEMMA WriteEditType ==
  ASSUME TypeInv, NEW c \in Client, NEW t \in Task, NEW m \in MutationId,
         WriteEdit(c, t, m)
  PROVE  TypeInv'
<1> DEFINE d == drafts[c][t]
           isDelete == d.kind = "delete"
           state == [data |-> IF isDelete THEN d.read.data
                                          ELSE d.read.data \cup {m},
                     revision |-> d.read.revision + 1,
                     isDeleted |-> isDelete \/ d.read.isDeleted]
<1>1. d \in Draft
  BY TypeParts DEF TypeInv, AppOK, WriteEdit
<1>2. d.entity \in Entity /\ d.read \in EntityState /\ d.known \in Nat
  BY <1>1 DEF Draft
<1>3. /\ WriteAtomically(c, m, d.entity, state, d.known)
      /\ drafts' = [drafts EXCEPT ![c][t] = NoDraft]
  BY DEF WriteEdit
<1>4. state \in EntityState
  <2>1. d.read.data \in Data /\ d.read.revision \in Nat
        /\ d.read.isDeleted \in BOOLEAN
    BY <1>2 DEF EntityState
  <2>2. d.read.data \cup {m} \in Data /\ d.read.revision + 1 \in Nat
    BY <2>1 DEF Data
  <2>3. (isDelete \/ d.read.isDeleted) \in BOOLEAN
    OBVIOUS
  <2> QED
    BY <2>1, <2>2, <2>3 DEF EntityState
<1> HIDE DEF state
<1>5. drafts' \in [Client -> [Task -> Draft \cup {NoDraft}]]
  BY <1>3, TypeParts DEF TypeInv, AppOK
<1> QED
  BY <1>2, <1>3, <1>4, <1>5, WriteType, TypeParts DEF TypeInv, AppOK

LEMMA RollBackType ==
  ASSUME TypeInv, NEW c \in Client, NEW e \in Entity, RollBackWrite(c, e)
  PROVE  TypeInv'
<1>1. UNCHANGED <<serverVars, stored, engine, network, drafts>>
  BY DEF RollBackWrite
<1>2. AppOK'
  BY <1>1, TakeSequenceType, TypeParts DEF TypeInv, RollBackWrite, AppOK
<1> QED
  BY <1>1, <1>2, ServerIdle, PartsIdle, ControlIdle, TypeParts
     DEF TypeInv, stored

LEMMA ResolveByApplicationType ==
  ASSUME TypeInv, NEW c \in Client, NEW m \in MutationId,
         ResolveByApplication(c, m)
  PROVE  TypeInv'
<1> DEFINE r == queue[c][m]
<1>0. StoredOK /\ IsQueue(queue[c])
  BY TypeParts DEF TypeInv, StoredOK, QueueOK
<1>1. r \in QueueRecord
  BY <1>0 DEF ResolveByApplication, WithStatus, IsQueue
<1>2. r.entity \in Entity /\ r.value \in Data
  BY <1>1 DEF QueueRecord
<1>3. PICK v \in {r.value} \cup
                 (IF local[c][r.entity] = NoEntity THEN {}
                  ELSE {local[c][r.entity].data}) :
        queue' = [queue EXCEPT ![c][m].status = "PENDING",
                               ![c][m].value = v,
                               ![c][m].known = seen[c][r.entity]]
  BY DEF ResolveByApplication
<1>4. v \in Data /\ seen[c][r.entity] \in Nat
  BY <1>0, <1>2, <1>3 DEF StoredOK, EntityState
<1>5. queue' = [queue EXCEPT ![c] =
        [queue[c] EXCEPT ![m].status = "PENDING", ![m].value = v,
                         ![m].known = seen[c][r.entity]]]
  BY <1>0, <1>3 DEF StoredOK, QueueOK
<1>6. QueueOK'
  <2>1. IsQueue([queue[c] EXCEPT ![m].status = "PENDING", ![m].value = v,
                                 ![m].known = seen[c][r.entity]])
    BY <1>0, <1>4, ResolvedIsQueue DEF Status
  <2> QED
    BY <1>0, <1>5, <2>1, QueueUpdate DEF StoredOK
<1>7. UNCHANGED <<serverVars, local, cursor, seen, engine, network, app>>
  BY DEF ResolveByApplication
<1>8. StoredOK'
  BY <1>0, <1>6, <1>7, ServerIdle DEF TypeInv, StoredOK
<1> QED
  BY <1>7, <1>8, ServerIdle, PartsIdle, ControlIdle, TypeParts DEF TypeInv

LEMMA ForceSnapshotType ==
  ASSUME TypeInv, NEW c \in Client, ForceSnapshot(c)
  PROVE  TypeInv'
<1>1. PICK cols \in SUBSET Collection :
        channel' = [channel EXCEPT ![c] = SnapshotRequest(cols)]
  BY DEF ForceSnapshot, Send
<1>2. /\ pc[c] = "idle" /\ pc' = [pc EXCEPT ![c] = "awaitReply"]
      /\ syncState' = [syncState EXCEPT ![c] = "SYNCING"]
      /\ UNCHANGED <<serverVars, stored, batch, base, reply, todo, resolved,
                     delayed, caller, app>>
  BY DEF ForceSnapshot, Goto, SetSyncState
<1>3. SnapshotRequest(cols) \in Requests
  BY DEF Requests
<1>4. EngineOK'
  BY <1>2, ServerIdle, TypeParts DEF TypeInv, EngineOK, Labels
<1>5. NetworkOK'
  BY <1>1, <1>2, <1>3, ServerIdle, TypeParts DEF TypeInv, NetworkOK
<1>6. Control'
  BY <1>1, <1>2, TypeParts
     DEF TypeInv, Control, EngineOK, NetworkOK, serverVars, stored
<1> QED
  BY <1>2, <1>4, <1>5, <1>6, ServerIdle, PartsIdle, TypeParts DEF TypeInv

-----------------------------------------------------------------------------
(* Types: the sync cycle. *)

\* EndCycle leaves nothing of the cycle behind.
LEMMA EndCycleType ==
  ASSUME TypeOK, UNCHANGED <<serverVars, syncState>>, NEW c \in Client,
         EndCycle(c)
  PROVE  EngineOK'
<1>1. EngineOK /\ Replies' = Replies
  BY ServerIdle, TypeParts
<1> QED
  BY <1>1, EmptyReply DEF EndCycle, Goto, EngineOK, Labels, Data

LEMMA StartSyncType ==
  ASSUME TypeInv, NEW c \in Client, StartSync(c)
  PROVE  TypeInv'
<1>1. /\ pc[c] = "idle"
      /\ syncState' = [syncState EXCEPT ![c] = "SYNCING"]
      /\ \/ /\ pc' = [pc EXCEPT ![c] = "awaitReply"]
            /\ channel' = [channel EXCEPT ![c] = SnapshotRequest(Collection)]
         \/ /\ pc' = [pc EXCEPT ![c] = "dequeue"]
            /\ cursor[c] # NoCursor
            /\ UNCHANGED channel
      /\ UNCHANGED <<serverVars, stored, batch, base, reply, todo, resolved,
                     delayed, caller, app>>
  BY DEF StartSync, Goto, SetSyncState, Send
<1>2. SnapshotRequest(Collection) \in Requests
  BY DEF Requests
<1>3. EngineOK'
  BY <1>1, ServerIdle, TypeParts DEF TypeInv, EngineOK, Labels
<1>4. NetworkOK'
  BY <1>1, <1>2, ServerIdle, TypeParts DEF TypeInv, NetworkOK
<1>5. Control'
  BY <1>1, TypeParts
     DEF TypeInv, Control, EngineOK, NetworkOK, serverVars, stored
<1> QED
  BY <1>1, <1>3, <1>4, <1>5, ServerIdle, PartsIdle, TypeParts DEF TypeInv

\* A queue sorted by sequence number: an enumeration of the ids asked for.
LEMMA SortedShape ==
  ASSUME QueueOK, NEW c \in Client, NEW status,
         NEW s \in SortedBySequence(c, WithStatus(c, status))
  PROVE  /\ Len(s) \in Nat
         /\ s \in Seq(WithStatus(c, status))
         /\ \A i, j \in 1..Len(s) : i < j => s[i] # s[j]
<1> DEFINE S == WithStatus(c, status)
<1>1. IsFiniteSet(S)
  BY FS_Subset DEF QueueOK, IsQueue, WithStatus
<1>2. Cardinality(S) \in Nat
  BY <1>1, FS_CardinalityType
<1>3. s \in [1..Cardinality(S) -> S]
      /\ \A i, j \in DOMAIN s : i < j => s[i] # s[j]
  BY DEF SortedBySequence
<1> HIDE DEF S
<1> QED
  BY <1>2, <1>3 DEF S

\* What Dequeue takes: the first ids of such an enumeration.
LEMMA DequeueShape ==
  ASSUME TypeInv, NEW c \in Client, Dequeue(c)
  PROVE  \E s \in SortedBySequence(c, WithStatus(c, "PENDING")), n \in Nat :
           /\ n <= Len(s)
           /\ batch' = [batch EXCEPT ![c] = [i \in 1..n |->
                [id |-> s[i], entity |-> queue[c][s[i]].entity,
                 value |-> queue[c][s[i]].value]]]
<1>1. PICK s \in SortedBySequence(c, WithStatus(c, "PENDING")) :
        batch' = [batch EXCEPT ![c] =
          [i \in 1..(IF Len(s) < BatchSize THEN Len(s) ELSE BatchSize) |->
             [id |-> s[i], entity |-> queue[c][s[i]].entity,
              value |-> queue[c][s[i]].value]]]
  BY DEF Dequeue
<1>2. Len(s) \in Nat /\ BatchSize \in Nat
  BY <1>1, SortedShape, SyncConstants, TypeParts DEF TypeInv, StoredOK
<1> DEFINE n == IF Len(s) < BatchSize THEN Len(s) ELSE BatchSize
<1>3. n \in Nat /\ n <= Len(s)
  BY <1>2
<1> QED
  BY <1>1, <1>3

LEMMA DequeueType ==
  ASSUME TypeInv, NEW c \in Client, Dequeue(c)
  PROVE  TypeInv'
<1>1. PICK s \in SortedBySequence(c, WithStatus(c, "PENDING")), n \in Nat :
        /\ n <= Len(s)
        /\ batch' = [batch EXCEPT ![c] = [i \in 1..n |->
             [id |-> s[i], entity |-> queue[c][s[i]].entity,
              value |-> queue[c][s[i]].value]]]
  BY DequeueShape
<1> DEFINE b == [i \in 1..n |-> [id |-> s[i], entity |-> queue[c][s[i]].entity,
                                 value |-> queue[c][s[i]].value]]
<1>2. b \in Seq(BatchEntry)
  <2>1. QueueOK
    BY TypeParts DEF TypeInv, StoredOK
  <2>2. Len(s) \in Nat /\ s \in Seq(WithStatus(c, "PENDING"))
    BY <2>1, SortedShape
  <2>3. ASSUME NEW i \in 1..n PROVE b[i] \in BatchEntry
    <3>1. s[i] \in WithStatus(c, "PENDING")
      BY <1>1, <2>2
    <3>2. s[i] \in MutationId /\ queue[c][s[i]] \in QueueRecord
      BY <2>1, <3>1 DEF WithStatus, QueueOK, IsQueue
    <3>3. queue[c][s[i]].entity \in Entity /\ queue[c][s[i]].value \in Data
      BY <3>2 DEF QueueRecord
    <3> QED
      BY <3>2, <3>3 DEF BatchEntry
  <2> QED
    BY <2>3
<1>3. /\ pc[c] = "dequeue" /\ pc' = [pc EXCEPT ![c] = "loadBase"]
      /\ UNCHANGED <<serverVars, stored, base, reply, todo, resolved,
                     syncState, network, app>>
  BY DEF Dequeue, Goto
<1> HIDE DEF b
<1>4. EngineOK'
  BY <1>1, <1>2, <1>3, ServerIdle, TypeParts DEF TypeInv, EngineOK, Labels, b
<1>5. Control'
  BY <1>3, TypeParts
     DEF TypeInv, Control, EngineOK, NetworkOK, serverVars, stored, network
<1> QED
  BY <1>3, <1>4, <1>5, ServerIdle, PartsIdle, TypeParts DEF TypeInv

\* The entries of a batch.
LEMMA BatchShape ==
  ASSUME EngineOK, NEW c \in Client, NEW i \in DOMAIN batch[c]
  PROVE  /\ batch[c] \in Seq(BatchEntry)
         /\ batch[c][i].id \in MutationId
         /\ batch[c][i].entity \in Entity
         /\ batch[c][i].value \in Data
<1>1. batch[c] \in Seq(BatchEntry)
  BY DEF EngineOK
<1>2. batch[c][i] \in BatchEntry
  BY <1>1
<1> QED
  BY <1>1, <1>2 DEF BatchEntry

LEMMA LoadBaseType ==
  ASSUME TypeInv, NEW c \in Client, LoadBase(c)
  PROVE  TypeInv'
<1>0. StoredOK /\ EngineOK
  BY TypeParts DEF TypeInv
<1>1. PICK i \in DOMAIN batch[c] :
        base' = [base EXCEPT ![c][IdOf(batch[c][i].entity)] =
          IF local[c][batch[c][i].entity] = NoEntity THEN 0
          ELSE local[c][batch[c][i].entity].revision]
  BY DEF LoadBase, ToLoad
<1> DEFINE e == batch[c][i].entity
           n == IF local[c][e] = NoEntity THEN 0 ELSE local[c][e].revision
<1>2. e \in Entity /\ IdOf(e) \in EntityId
  BY <1>0, BatchShape, EntityParts
<1>3. local[c][e] # NoEntity => local[c][e] \in EntityState
  BY <1>0, <1>2 DEF StoredOK
<1>4. n \in Nat
  BY <1>3 DEF EntityState
<1>5. UNCHANGED <<serverVars, stored, pc, batch, reply, todo, resolved,
                  syncState, network, app>>
  BY DEF LoadBase
<1> HIDE DEF n
<1>6. base' = [base EXCEPT ![c] = [base[c] EXCEPT ![IdOf(e)] = n]]
  BY <1>0, <1>1 DEF n, EngineOK
<1>7. [base[c] EXCEPT ![IdOf(e)] = n] \in [EntityId -> Nat \cup {Unloaded}]
  BY <1>0, <1>2, <1>4 DEF EngineOK
<1>8. EngineOK'
  BY <1>0, <1>5, <1>6, <1>7, ServerIdle DEF TypeInv, EngineOK
<1>9. Control'
  BY <1>5 DEF TypeInv, Control, serverVars, stored, network
<1> QED
  BY <1>5, <1>8, <1>9, ServerIdle, PartsIdle, TypeParts DEF TypeInv

\* buildSyncRequest, once every base revision is loaded.
LEMMA RequestType ==
  ASSUME TypeInv, NEW c \in Client, pc[c] = "loadBase", ToLoad(c) = {}
  PROVE  BuildRequest(c) \in SyncRequests
<1>0. StoredOK /\ EngineOK
  BY TypeParts DEF TypeInv
<1>1. cursor[c] \in 0..CurrentCursor
  BY <1>0 DEF TypeInv, Control, StoredOK
<1> DEFINE m(i) == [id |-> batch[c][i].id, entity |-> batch[c][i].entity,
                    operation |-> "set", value |-> batch[c][i].value,
                    baseRevision |-> base[c][IdOf(batch[c][i].entity)]]
<1>2. ASSUME NEW i \in DOMAIN batch[c] PROVE m(i) \in Mutation
  <2>1. /\ batch[c][i].id \in MutationId /\ batch[c][i].entity \in Entity
        /\ batch[c][i].value \in Data
    BY <1>0, BatchShape
  <2>2. base[c][IdOf(batch[c][i].entity)] \in Nat
    BY <1>0, <2>1, EntityParts DEF ToLoad, EngineOK
  <2> QED
    BY <2>1, <2>2 DEF Mutation, Operation
<1>3. batch[c] \in Seq(BatchEntry)
  BY <1>0 DEF EngineOK
<1> DEFINE ms == [i \in DOMAIN batch[c] |-> m(i)]
<1>4. ms \in Seq(Mutation)
  <2>1. DOMAIN batch[c] = 1..Len(batch[c]) /\ Len(batch[c]) \in Nat
    BY <1>3
  <2>2. \A i \in 1..Len(batch[c]) : ms[i] \in Mutation
    BY <1>2, <2>1
  <2>3. ms = [i \in 1..Len(batch[c]) |-> ms[i]]
    BY <2>1
  <2> HIDE DEF ms
  <2> QED
    BY <2>1, <2>2, <2>3
<1>5. BuildRequest(c) = [kind |-> "syncRequest", cursor |-> cursor[c],
                         mutations |-> ms]
  BY DEF BuildRequest
<1> HIDE DEF ms
<1> QED
  BY <1>1, <1>4, <1>5 DEF SyncRequests

LEMMA SendRequestType ==
  ASSUME TypeInv, NEW c \in Client, SendRequest(c)
  PROVE  TypeInv'
<1>1. /\ pc[c] = "loadBase" /\ pc' = [pc EXCEPT ![c] = "awaitReply"]
      /\ channel' = [channel EXCEPT ![c] = BuildRequest(c)]
      /\ UNCHANGED <<serverVars, stored, batch, base, reply, todo, resolved,
                     syncState, delayed, caller, app>>
  BY DEF SendRequest, Goto, Send
<1>2. BuildRequest(c) \in Requests
  BY RequestType DEF SendRequest, Requests
<1>3. EngineOK'
  BY <1>1, ServerIdle, TypeParts DEF TypeInv, EngineOK, Labels
<1>4. NetworkOK'
  BY <1>1, <1>2, ServerIdle, TypeParts DEF TypeInv, NetworkOK
<1>5. Control'
  BY <1>1, TypeParts
     DEF TypeInv, Control, EngineOK, NetworkOK, serverVars, stored
<1> QED
  BY <1>1, <1>3, <1>4, <1>5, ServerIdle, PartsIdle, TypeParts DEF TypeInv

-----------------------------------------------------------------------------
(* Types: the reply. *)

\* The reply of a client, received or being applied.
LEMMA ClientMessages ==
  ASSUME TypeInv, NEW c \in Client
  PROVE  /\ channel[c] \in Requests \cup Replies
         /\ channel[c].kind = "sync" => channel[c] \in SyncReplies
         /\ channel[c].kind = "snapshot" => channel[c] \in SnapshotReplies
         /\ reply[c].kind = "sync" => reply[c] \in SyncReplies
         /\ reply[c].kind = "snapshot" => reply[c] \in SnapshotReplies
<1>1. channel[c] \in Requests \cup Replies /\ reply[c] \in Requests \cup Replies
  BY TypeParts DEF TypeInv, NetworkOK, EngineOK
<1> QED
  BY <1>1, MessageShape

LEMMA SnapshotIsWhole == SnapshotRequest(Collection) \in Requests
  BY DEF Requests

LEMMA ReceiveTooOldType ==
  ASSUME TypeInv, NEW c \in Client, ReceiveTooOld(c)
  PROVE  TypeInv'
<1>0. EngineOK
  BY TypeParts DEF TypeInv
<1>1. /\ pc[c] = "awaitReply" /\ pc' = [pc EXCEPT ![c] = "requeue"]
      /\ channel[c].kind = "tooOld"
      /\ channel' = [channel EXCEPT ![c] = Empty]
      /\ todo' = [todo EXCEPT ![c] = BatchIds(c)]
      /\ UNCHANGED <<serverVars, stored, batch, base, reply, resolved,
                     syncState, delayed, caller, app>>
  BY DEF ReceiveTooOld, Send, Goto
<1>2. BatchIds(c) \in Seq(MutationId)
  <2> DEFINE n == Len(batch[c])
  <2>1. n \in Nat /\ DOMAIN batch[c] = 1..n
    BY <1>0 DEF EngineOK
  <2>2. BatchIds(c) = [i \in 1..n |-> BatchIds(c)[i]]
    BY <2>1 DEF BatchIds
  <2>3. \A i \in 1..n : BatchIds(c)[i] \in MutationId
    BY <1>0, <2>1, BatchShape DEF BatchIds
  <2> HIDE DEF n
  <2> QED
    BY <2>1, <2>2, <2>3
<1>3. EngineOK'
  BY <1>1, <1>2, ServerIdle, TypeParts DEF TypeInv, EngineOK, Labels
<1>4. NetworkOK'
  BY <1>1, EmptyReply, ServerIdle, TypeParts DEF TypeInv, NetworkOK
<1>5. Control'
  BY <1>1, TypeParts
     DEF TypeInv, Control, EngineOK, NetworkOK, serverVars, stored, Empty
<1> QED
  BY <1>1, <1>3, <1>4, <1>5, ServerIdle, PartsIdle, TypeParts DEF TypeInv

\* The ids of the batch a reply is silent about: each is the id at some place
\* of the batch, and none is answered.
LEMMA UnansweredShape ==
  ASSUME EngineOK, NEW c \in Client, NEW r, NEW ids \in Unanswered(c, r)
  PROVE  /\ ids \in Seq(MutationId)
         /\ \A k \in DOMAIN ids :
              /\ ids[k] \notin Answered(r)
              /\ \E i \in DOMAIN batch[c] : ids[k] = batch[c][i].id
<1> DEFINE S == {i \in DOMAIN batch[c] : batch[c][i].id \notin Answered(r)}
<1>1. PICK s \in [1..Cardinality(S) -> S] :
        ids = [k \in DOMAIN s |-> batch[c][s[k]].id]
  BY DEF Unanswered
<1>2. Cardinality(S) \in Nat
  <2>1. DOMAIN batch[c] = 1..Len(batch[c]) /\ Len(batch[c]) \in Nat
    BY DEF EngineOK
  <2>2. IsFiniteSet(DOMAIN batch[c])
    BY <2>1, FS_Interval
  <2>3. IsFiniteSet(S)
    BY <2>2, FS_Subset
  <2> QED
    BY <2>3, FS_CardinalityType
<1> DEFINE n == Cardinality(S)
<1>3. ids = [k \in 1..n |-> ids[k]]
  BY <1>1
<1>4. ASSUME NEW k \in 1..n
      PROVE  /\ ids[k] \in MutationId /\ ids[k] \notin Answered(r)
             /\ \E i \in DOMAIN batch[c] : ids[k] = batch[c][i].id
  <2>1. s[k] \in S /\ ids[k] = batch[c][s[k]].id
    BY <1>1
  <2> QED
    BY <2>1, BatchShape
<1>5. DOMAIN ids = 1..n /\ n \in Nat
  BY <1>2, <1>3
<1> HIDE DEF n, S
<1> QED
  BY <1>3, <1>4, <1>5

LEMMA ReceiveValidShape ==
  ASSUME EngineOK, NEW c \in Client, ReceiveValid(c)
  PROVE  \E ids \in Seq(MutationId) :
           /\ todo' = [todo EXCEPT ![c] = ids]
           /\ \A k \in DOMAIN ids :
                /\ channel[c].kind = "sync" => ids[k] \notin Answered(channel[c])
                /\ \E i \in DOMAIN batch[c] : ids[k] = batch[c][i].id
<1>1. PICK ids \in (IF channel[c].kind = "sync" THEN Unanswered(c, channel[c])
                                                ELSE {<<>>}) :
        todo' = [todo EXCEPT ![c] = ids]
  BY DEF ReceiveValid
<1>2. CASE channel[c].kind = "sync"
  <2>1. ids \in Unanswered(c, channel[c])
    BY <1>1, <1>2
  <2>2. ids \in Seq(MutationId)
    BY <2>1, UnansweredShape
  <2>3. \A k \in DOMAIN ids :
          /\ ids[k] \notin Answered(channel[c])
          /\ \E i \in DOMAIN batch[c] : ids[k] = batch[c][i].id
    BY <2>1, UnansweredShape
  <2> QED
    BY <1>1, <2>2, <2>3
<1>3. CASE channel[c].kind # "sync"
  <2>1. ids = <<>>
    BY <1>1, <1>3
  <2>2. ids \in Seq(MutationId) /\ DOMAIN ids = {}
    BY <2>1
  <2> QED
    BY <1>1, <1>3, <2>2
<1> QED
  BY <1>2, <1>3

LEMMA ReceiveValidType ==
  ASSUME TypeInv, NEW c \in Client, ReceiveValid(c)
  PROVE  TypeInv'
<1>0. EngineOK
  BY TypeParts DEF TypeInv
<1>1. /\ pc[c] = "awaitReply" /\ pc' = [pc EXCEPT ![c] = "apply"]
      /\ channel[c].kind \in {"sync", "snapshot"}
      /\ channel' = [channel EXCEPT ![c] = Empty]
      /\ reply' = [reply EXCEPT ![c] = channel[c]]
      /\ UNCHANGED <<serverVars, stored, batch, base, resolved, syncState,
                     delayed, caller, app>>
  BY DEF ReceiveValid, Send, Goto
<1>2. PICK ids \in Seq(MutationId) : todo' = [todo EXCEPT ![c] = ids]
  BY <1>0, ReceiveValidShape
<1>3. channel[c] \in Replies
  BY <1>1, ClientMessages, MessageShape
<1>4. EngineOK'
  BY <1>1, <1>2, <1>3, ServerIdle, TypeParts DEF TypeInv, EngineOK, Labels
<1>5. NetworkOK'
  BY <1>1, EmptyReply, ServerIdle, TypeParts DEF TypeInv, NetworkOK
<1>6. Control'
  BY <1>1, TypeParts
     DEF TypeInv, Control, EngineOK, NetworkOK, serverVars, stored, Empty
<1> QED
  BY <1>1, <1>4, <1>5, <1>6, ServerIdle, PartsIdle, TypeParts DEF TypeInv

LEMMA ReceiveInvalidType ==
  ASSUME TypeInv, NEW c \in Client, ReceiveInvalid(c)
  PROVE  TypeInv'
<1>1. /\ pc' = [pc EXCEPT ![c] = "idle"]
      /\ pc[c] = "awaitReply" /\ channel[c].kind # "empty"
      /\ channel' = [channel EXCEPT ![c] = Empty]
      /\ reply' = [reply EXCEPT ![c] = Empty]
      /\ UNCHANGED <<serverVars, stored, syncState, delayed, caller, app>>
  BY DEF ReceiveInvalid, Send, EndCycle, Goto
<1>2. EngineOK'
  BY <1>1, EndCycleType DEF TypeInv, ReceiveInvalid
<1>3. NetworkOK'
  BY <1>1, EmptyReply, ServerIdle, TypeParts DEF TypeInv, NetworkOK
<1>4. Control'
  BY <1>1, TypeParts
     DEF TypeInv, Control, EngineOK, NetworkOK, serverVars, stored, Empty
<1> QED
  BY <1>1, <1>2, <1>3, <1>4, ServerIdle, PartsIdle, TypeParts DEF TypeInv

LEMMA RequeueType ==
  ASSUME TypeInv, NEW c \in Client, Requeue(c)
  PROVE  TypeInv'
<1>0. StoredOK /\ EngineOK
  BY TypeParts DEF TypeInv
<1>1. /\ SetStatus(c, Head(todo[c]), "IN_FLIGHT")
      /\ todo' = [todo EXCEPT ![c] = Tail(todo[c])]
      /\ UNCHANGED <<serverVars, local, cursor, seen, pc, batch, base, reply,
                     resolved, syncState, network, app>>
  BY <1>0 DEF Requeue, EngineOK
<1>2. QueueOK'
  BY <1>0, <1>1, SetStatusType DEF StoredOK, Status
<1>3. todo[c] \in Seq(MutationId) /\ todo[c] # <<>>
  BY <1>0 DEF Requeue, EngineOK
<1>4. Tail(todo[c]) \in Seq(MutationId)
  BY <1>3
<1>5. StoredOK'
  BY <1>0, <1>1, <1>2, ServerIdle DEF TypeInv, StoredOK
<1>6. EngineOK'
  BY <1>0, <1>1, <1>4, ServerIdle DEF TypeInv, EngineOK
<1>7. Control'
  BY <1>1 DEF TypeInv, Control, serverVars, network
<1> QED
  BY <1>1, <1>5, <1>6, <1>7, ServerIdle, PartsIdle, TypeParts DEF TypeInv

LEMMA RequestSnapshotType ==
  ASSUME TypeInv, NEW c \in Client, RequestSnapshot(c)
  PROVE  TypeInv'
<1>1. /\ pc[c] = "requeue" /\ pc' = [pc EXCEPT ![c] = "awaitReply"]
      /\ channel' = [channel EXCEPT ![c] = SnapshotRequest(Collection)]
      /\ UNCHANGED <<serverVars, stored, batch, base, reply, todo, resolved,
                     syncState, delayed, caller, app>>
  BY DEF RequestSnapshot, Goto, Send
<1>2. EngineOK'
  BY <1>1, ServerIdle, TypeParts DEF TypeInv, EngineOK, Labels
<1>3. NetworkOK'
  BY <1>1, SnapshotIsWhole, ServerIdle, TypeParts DEF TypeInv, NetworkOK
<1>4. Control'
  BY <1>1, TypeParts
     DEF TypeInv, Control, EngineOK, NetworkOK, serverVars, stored
<1> QED
  BY <1>1, <1>2, <1>3, <1>4, ServerIdle, PartsIdle, TypeParts DEF TypeInv

-----------------------------------------------------------------------------
(* Least and greatest elements. *)

LEMMA LeastOf ==
  ASSUME NEW T \in SUBSET Nat, T # {}
  PROVE  \E x \in T : \A y \in T : x <= y
<1>1. IsWellFoundedOn(OpToRel(<, Nat), Nat)
  BY NatLessThanWellFounded
<1>2. PICK x \in T : \A y \in T : ~(<<y, x>> \in OpToRel(<, Nat))
  BY <1>1, WFMin
<1>3. \A y \in T : ~(y < x)
  BY <1>2 DEF OpToRel
<1> QED
  BY <1>3

LEMMA GreatestOf ==
  ASSUME NEW n \in Nat, NEW S \in SUBSET (0..n), S # {}
  PROVE  \E x \in S : \A y \in S : y <= x
<1> DEFINE T == {n - i : i \in S}
<1>1. \A i \in S : i \in Int /\ n - i \in Nat
  OBVIOUS
<1>2. T \in SUBSET Nat /\ T # {}
  BY <1>1
<1>3. PICK t \in T : \A y \in T : t <= y
  BY <1>2, LeastOf
<1>4. PICK x \in S : t = n - x
  BY <1>3
<1>5. ASSUME NEW y \in S PROVE y <= x
  <2>1. n - y \in T
    OBVIOUS
  <2>2. n - x <= n - y
    BY <1>3, <1>4, <2>1
  <2> QED
    BY <1>1, <2>2
<1> QED
  BY <1>5

\* Newest finds the last entry for an entity among some, or that there is
\* none.
LEMMA NewestShape ==
  ASSUME CurrentCursor \in Nat, NEW e, NEW S \in SUBSET (1..CurrentCursor)
  PROVE  \/ /\ Newest(e, S) = 0
            /\ \A i \in S : history[i].entity # e
         \/ /\ Newest(e, S) \in S
            /\ history[Newest(e, S)].entity = e
            /\ \A i \in S : history[i].entity = e => i <= Newest(e, S)
<1> DEFINE N == {n \in S : history[n].entity = e}
<1>1. CASE N = {}
  <2>1. Newest(e, S) = 0
    BY <1>1 DEF Newest
  <2> QED
    BY <1>1, <2>1
<1>2. CASE N # {}
  <2>1. N \in SUBSET (0..CurrentCursor)
    <3>1. \A i \in 1..CurrentCursor : i \in 0..CurrentCursor
      OBVIOUS
    <3> QED
      BY <3>1
  <2>2. \E n \in N : \A i \in N : i <= n
    BY <1>2, <2>1, GreatestOf
  <2>3. Newest(e, S) = CHOOSE n \in N : \A i \in N : i <= n
    BY <1>2 DEF Newest
  <2>4. Newest(e, S) \in N /\ \A i \in N : i <= Newest(e, S)
    BY <2>2, <2>3
  <2> QED
    BY <2>4
<1> QED
  BY <1>1, <1>2

\* getMaxSequence finds the highest number of a collection, or 0.
LEMMA HighestShape ==
  ASSUME QueueOK, NEW c \in Client, NEW col
  PROVE  /\ HighestSequence(c, col) \in 0..MaxSequence
         /\ \A m \in DOMAIN queue[c] :
              CollectionOf(queue[c][m].entity) = col
                => queue[c][m].sequence <= HighestSequence(c, col)
         /\ HighestSequence(c, col) # 0 =>
              \E m \in DOMAIN queue[c] :
                /\ CollectionOf(queue[c][m].entity) = col
                /\ queue[c][m].sequence = HighestSequence(c, col)
<1> DEFINE D == {n \in DOMAIN queue[c] : CollectionOf(queue[c][n].entity) = col}
           S == {queue[c][m].sequence : m \in D}
           h == CHOOSE n \in S : \A i \in S : i <= n
<1>1. HighestSequence(c, col) = IF S = {} THEN 0 ELSE h
  BY DEF HighestSequence
<1>2. \A m \in DOMAIN queue[c] : queue[c][m].sequence \in 1..MaxSequence
  BY DEF QueueOK, IsQueue, QueueRecord
<1>3. MaxSequence \in Nat
  BY SyncConstants
<1>4. CASE S = {}
  BY <1>1, <1>3, <1>4
<1>5. CASE S # {}
  <2>1. S \in SUBSET (0..MaxSequence)
    BY <1>2, <1>3
  <2> HIDE DEF S
  <2>2. \E n \in S : \A i \in S : i <= n
    BY <1>3, <1>5, <2>1, GreatestOf
  <2>3. h \in S /\ \A i \in S : i <= h
    BY <2>2
  <2> HIDE DEF h
  <2>4. HighestSequence(c, col) = h
    BY <1>1, <1>5
  <2> QED
    BY <2>1, <2>3, <2>4 DEF S
<1> QED
  BY <1>4, <1>5

-----------------------------------------------------------------------------
(* Types: applying a reply. *)

LEMMA ApplyReplyType ==
  ASSUME TypeInv, NEW c \in Client, ApplyReply(c)
  PROVE  TypeInv'
<1> DEFINE r == reply[c]
           isSync == r.kind = "sync"
           received(e) == isSync \/ r.entities[e] # NoEntity
           newest(e) == IF ~received(e) THEN 0
                        ELSE Newest(e, IF isSync THEN r.changes
                                                 ELSE 1..r.cursor)
           state(e) == IF newest(e) = 0 THEN local[c][e]
                       ELSE IF isSync THEN history[newest(e)].state
                                      ELSE r.entities[e]
<1>0. StoredOK /\ EngineOK /\ ServerTypeOK /\ CurrentCursor \in Nat
  BY TypeParts DEF TypeInv, ServerTypeOK, CurrentCursor
<1>1. pc[c] = "apply" /\ pc' = [pc EXCEPT ![c] = "saveCursor"]
      /\ UNCHANGED <<serverVars, queue, cursor, batch, base, reply, todo,
                     resolved, syncState, network, app>>
  BY DEF ApplyReply, Goto
<1>2. local' = [local EXCEPT ![c] = [e \in Entity |-> state(e)]]
  BY <1>0 DEF ApplyReply, StoredOK
<1>3. seen' = [seen EXCEPT ![c] = [e \in Entity |->
                IF newest(e) = 0 THEN seen[c][e] ELSE newest(e)]]
  BY <1>0 DEF ApplyReply, StoredOK
<1>4. r \in SyncReplies \/ r \in SnapshotReplies
  BY <1>1, ClientMessages DEF TypeInv, Control
<1>5. ASSUME NEW e \in Entity
      PROVE  newest(e) \in 0..CurrentCursor
  <2> DEFINE S == IF isSync THEN r.changes ELSE 1..r.cursor
  <2>1. S \in SUBSET (1..CurrentCursor)
    BY <1>0, <1>4, SyncReplyShape, SnapshotReplyShape
  <2> HIDE DEF S
  <2>2. Newest(e, S) = 0 \/ Newest(e, S) \in 1..CurrentCursor
    BY <1>0, <2>1, NewestShape
  <2> QED
    BY <1>0, <2>2 DEF S
<1>6. ASSUME NEW e \in Entity
      PROVE  state(e) \in EntityState \cup {NoEntity}
  <2>1. CASE newest(e) = 0
    BY <1>0, <2>1 DEF StoredOK
  <2>2. CASE newest(e) # 0 /\ isSync
    <3>1. newest(e) \in 1..CurrentCursor
      BY <1>0, <1>5, <2>2
    <3> HIDE DEF newest
    <3> QED
      BY <1>0, <2>2, <3>1, EntryType
  <2>3. CASE newest(e) # 0 /\ ~isSync
    BY <1>4, <2>3, SyncReplyShape, SnapshotReplyShape
  <2> QED
    BY <2>1, <2>2, <2>3
<1> HIDE DEF newest, state
<1>7. StoredOK'
  BY <1>0, <1>1, <1>2, <1>3, <1>5, <1>6, ServerIdle
     DEF TypeInv, StoredOK, QueueOK
<1>8. EngineOK'
  BY <1>0, <1>1, ServerIdle DEF TypeInv, EngineOK, Labels
<1>9. Control'
  BY <1>0, <1>1 DEF TypeInv, Control, EngineOK, serverVars, network
<1> QED
  BY <1>1, <1>7, <1>8, <1>9, ServerIdle, PartsIdle, TypeParts DEF TypeInv

LEMMA SaveCursorType ==
  ASSUME TypeInv, NEW c \in Client, SaveCursor(c)
  PROVE  TypeInv'
<1>0. StoredOK /\ EngineOK
  BY TypeParts DEF TypeInv
<1>1. /\ pc[c] = "saveCursor"
      /\ pc' = [pc EXCEPT ![c] = IF reply[c].kind = "sync" THEN "settle"
                                                           ELSE "finish"]
      /\ cursor' = [cursor EXCEPT ![c] = reply[c].cursor]
      /\ UNCHANGED <<serverVars, local, queue, seen, batch, base, reply, todo,
                     resolved, syncState, network, app>>
  BY DEF SaveCursor, Goto
<1>2. reply[c].cursor \in 0..CurrentCursor
  BY <1>1, ClientMessages, SyncReplyShape, SnapshotReplyShape
     DEF TypeInv, Control
<1>3. StoredOK'
  BY <1>0, <1>1, <1>2, ServerIdle DEF TypeInv, StoredOK, QueueOK
<1>4. EngineOK'
  BY <1>0, <1>1, ServerIdle DEF TypeInv, EngineOK, Labels
<1>5. NoCursor \notin 0..CurrentCursor
  BY ServerIdle DEF NoCursor
<1>6. Control'
  BY <1>0, <1>1, <1>2, <1>5
     DEF TypeInv, Control, StoredOK, EngineOK, serverVars, network
<1> QED
  BY <1>1, <1>3, <1>4, <1>6, ServerIdle, PartsIdle, TypeParts DEF TypeInv

-----------------------------------------------------------------------------
(* Types: settling the outcomes. *)

LEMMA AcknowledgedTail ==
  ASSUME NEW r \in SyncReplies, r.acknowledged # <<>>
  PROVE  /\ Head(r.acknowledged) \in MutationId
         /\ Tail(r.acknowledged) \in Seq(MutationId)
         /\ [r EXCEPT !.acknowledged = Tail(@)] \in SyncReplies
<1>1. r.acknowledged \in Seq(MutationId)
  BY SyncReplyShape
<1>2. Head(r.acknowledged) \in MutationId
      /\ Tail(r.acknowledged) \in Seq(MutationId)
  BY <1>1
<1> QED
  BY <1>2 DEF SyncReplies

LEMMA ConflictsTail ==
  ASSUME NEW r \in SyncReplies, r.conflicts # <<>>
  PROVE  /\ Head(r.conflicts) \in Conflict
         /\ Tail(r.conflicts) \in Seq(Conflict)
         /\ [r EXCEPT !.conflicts = Tail(@)] \in SyncReplies
<1>1. r.conflicts \in Seq(Conflict)
  BY SyncReplyShape
<1>2. Head(r.conflicts) \in Conflict /\ Tail(r.conflicts) \in Seq(Conflict)
  BY <1>1
<1> QED
  BY <1>2 DEF SyncReplies

LEMMA ConflictShape ==
  ASSUME NEW k \in Conflict
  PROVE  /\ k.id \in MutationId /\ k.entity \in Entity
         /\ k.serverRevision \in Nat
         /\ k.serverEntity \in EntityState
         /\ k.serverEntity.data \in Data
         /\ k.serverEntity.isDeleted \in BOOLEAN
  BY DEF Conflict, EntityState

LEMMA AcknowledgeType ==
  ASSUME TypeInv, NEW c \in Client, Acknowledge(c)
  PROVE  TypeInv'
<1>0. StoredOK /\ EngineOK
  BY TypeParts DEF TypeInv
<1>1. /\ pc[c] = "settle" /\ reply[c].acknowledged # <<>>
      /\ SetStatus(c, Head(reply[c].acknowledged), "ACKNOWLEDGED")
      /\ UNCHANGED <<serverVars, local, cursor, seen, pc, batch, base, todo,
                     resolved, syncState, network, app>>
  BY DEF Acknowledge
<1>2. reply[c] \in SyncReplies
  BY <1>1, ClientMessages DEF TypeInv, Control
<1> DEFINE r == [reply[c] EXCEPT !.acknowledged = Tail(@)]
<1>3. reply' = [reply EXCEPT ![c] = r]
  BY <1>0 DEF Acknowledge, EngineOK
<1>4. r \in SyncReplies
  BY <1>1, <1>2, AcknowledgedTail
<1> HIDE DEF r
<1>5. QueueOK'
  BY <1>0, <1>1, SetStatusType DEF StoredOK, Status
<1>6. StoredOK'
  BY <1>0, <1>1, <1>5, ServerIdle DEF TypeInv, StoredOK
<1>7. EngineOK'
  BY <1>0, <1>1, <1>3, <1>4, ServerIdle DEF TypeInv, EngineOK, Replies
<1>8. Control'
  BY <1>0, <1>1, <1>3, <1>4, SyncReplyShape
     DEF TypeInv, Control, EngineOK, serverVars, network
<1> QED
  BY <1>1, <1>6, <1>7, <1>8, ServerIdle, PartsIdle, TypeParts DEF TypeInv

\* A conflict is there to be handled.
LEMMA AtConflictShape ==
  ASSUME TypeInv, NEW c \in Client,
         \/ AtConflict(c)
         \/ pc[c] \in {"putResolved", "resolveMutation"}
  PROVE  /\ reply[c] \in SyncReplies
         /\ reply[c].acknowledged = <<>> /\ reply[c].conflicts # <<>>
         /\ Head(reply[c].conflicts) \in Conflict
<1>1. /\ reply[c].kind = "sync" /\ reply[c].acknowledged = <<>>
      /\ reply[c].conflicts # <<>>
  BY DEF TypeInv, Control, AtConflict
<1>2. reply[c] \in SyncReplies
  BY <1>1, ClientMessages
<1> QED
  BY <1>1, <1>2, ConflictsTail

LEMMA MarkConflictType ==
  ASSUME TypeInv, NEW c \in Client, MarkConflict(c)
  PROVE  TypeInv'
<1>0. StoredOK /\ EngineOK
  BY TypeParts DEF TypeInv
<1>1. /\ AtConflict(c) /\ pc[c] = "settle"
      /\ SetStatus(c, Head(reply[c].conflicts).id, "CONFLICT")
      /\ UNCHANGED <<serverVars, local, cursor, seen, pc, batch, base, todo,
                     resolved, syncState, network, app>>
  BY DEF MarkConflict, AtConflict
<1>2. reply[c] \in SyncReplies /\ reply[c].conflicts # <<>>
  BY <1>1, AtConflictShape
<1> DEFINE r == [reply[c] EXCEPT !.conflicts = Tail(@)]
<1>3. reply' = [reply EXCEPT ![c] = r]
  BY <1>0 DEF MarkConflict, EngineOK
<1>4. r \in SyncReplies
  BY <1>2, ConflictsTail
<1> HIDE DEF r
<1>5. QueueOK'
  BY <1>0, <1>1, SetStatusType DEF StoredOK, Status
<1>6. StoredOK'
  BY <1>0, <1>1, <1>5, ServerIdle DEF TypeInv, StoredOK
<1>7. EngineOK'
  BY <1>0, <1>1, <1>3, <1>4, ServerIdle DEF TypeInv, EngineOK, Replies
<1>8. Control'
  BY <1>0, <1>1, <1>3, <1>4, SyncReplyShape
     DEF TypeInv, Control, EngineOK, serverVars, network
<1> QED
  BY <1>1, <1>6, <1>7, <1>8, ServerIdle, PartsIdle, TypeParts DEF TypeInv

LEMMA ResolutionType ==
  ASSUME StoredOK, NEW c \in Client, NEW k \in Conflict, NEW value \in Data,
         NEW d \in Resolutions(c, k, value)
  PROVE  d \in Data
<1>1. k.entity \in Entity /\ k.serverEntity.data \in Data
  BY ConflictShape
<1>2. local[c][k.entity] # NoEntity => local[c][k.entity].data \in Data
  BY <1>1 DEF StoredOK, EntityState
<1> QED
  BY <1>1, <1>2 DEF Resolutions

LEMMA ReadAndResolveType ==
  ASSUME TypeInv, NEW c \in Client, ReadAndResolve(c)
  PROVE  TypeInv'
<1>0. StoredOK /\ EngineOK
  BY TypeParts DEF TypeInv
<1>1. PICK i \in DOMAIN batch[c] :
        \E d \in Resolutions(c, Head(reply[c].conflicts), batch[c][i].value) :
          resolved' = [resolved EXCEPT ![c] = d]
  BY DEF ReadAndResolve
<1>2. PICK d \in Resolutions(c, Head(reply[c].conflicts), batch[c][i].value) :
        resolved' = [resolved EXCEPT ![c] = d]
  BY <1>1
<1>3. /\ AtConflict(c) /\ pc[c] = "settle"
      /\ pc' = [pc EXCEPT ![c] = "putResolved"]
      /\ UNCHANGED <<serverVars, stored, batch, base, reply, todo, syncState,
                     network, app>>
  BY DEF ReadAndResolve, AtConflict, Goto
<1>4. d \in Data
  BY <1>0, <1>2, <1>3, AtConflictShape, BatchShape, ResolutionType
<1>5. EngineOK'
  BY <1>0, <1>2, <1>3, <1>4, ServerIdle DEF TypeInv, EngineOK, Labels
<1>6. reply[c].kind = "sync" /\ reply[c].acknowledged = <<>>
      /\ reply[c].conflicts # <<>>
  BY <1>3 DEF TypeInv, Control, AtConflict
<1>7. Control'
  BY <1>0, <1>3, <1>6 DEF TypeInv, Control, EngineOK, serverVars, stored, network
<1> QED
  BY <1>3, <1>5, <1>7, ServerIdle, PartsIdle, TypeParts DEF TypeInv

LEMMA PutResolvedType ==
  ASSUME TypeInv, NEW c \in Client, PutResolved(c)
  PROVE  TypeInv'
<1> DEFINE k == Head(reply[c].conflicts)
           s == [data |-> resolved[c], revision |-> k.serverRevision,
                 isDeleted |-> k.serverEntity.isDeleted]
<1>0. StoredOK /\ EngineOK
  BY TypeParts DEF TypeInv
<1>1. /\ pc[c] = "putResolved" /\ pc' = [pc EXCEPT ![c] = "resolveMutation"]
      /\ local' = [local EXCEPT ![c][k.entity] = s]
      /\ UNCHANGED <<serverVars, queue, cursor, seen, batch, base, reply, todo,
                     resolved, syncState, network, app>>
  BY DEF PutResolved, Goto
<1>2. k \in Conflict
  BY <1>1, AtConflictShape
<1>3. s \in EntityState
  BY <1>0, <1>2, ConflictShape DEF EngineOK, EntityState
<1> HIDE DEF s, k
<1>4. StoredOK'
  BY <1>0, <1>1, <1>3, ServerIdle DEF TypeInv, StoredOK, QueueOK
<1>5. EngineOK'
  BY <1>0, <1>1, ServerIdle DEF TypeInv, EngineOK, Labels
<1>6. Control'
  BY <1>0, <1>1 DEF TypeInv, Control, EngineOK, serverVars, network
<1> QED
  BY <1>1, <1>4, <1>5, <1>6, ServerIdle, PartsIdle, TypeParts DEF TypeInv

LEMMA ResolveMutationType ==
  ASSUME TypeInv, NEW c \in Client, ResolveMutation(c)
  PROVE  TypeInv'
<1> DEFINE k == Head(reply[c].conflicts)
           r == [reply[c] EXCEPT !.conflicts = Tail(@)]
           q == [queue[c] EXCEPT ![k.id].status = "PENDING",
                                 ![k.id].value = resolved[c],
                                 ![k.id].known = seen[c][k.entity]]
<1>0. StoredOK /\ EngineOK
  BY TypeParts DEF TypeInv
<1>1. /\ pc[c] = "resolveMutation" /\ pc' = [pc EXCEPT ![c] = "settle"]
      /\ UNCHANGED <<serverVars, local, cursor, seen, batch, base, todo,
                     syncState, network, app>>
      /\ resolved' = [resolved EXCEPT ![c] = {}]
  BY DEF ResolveMutation, Goto
<1>2. /\ queue' = [queue EXCEPT ![c] = q]
      /\ reply' = [reply EXCEPT ![c] = r]
  BY <1>0 DEF ResolveMutation, StoredOK, QueueOK, EngineOK
<1>3. k \in Conflict /\ reply[c] \in SyncReplies /\ reply[c].conflicts # <<>>
  BY <1>1, AtConflictShape
<1>4. r \in SyncReplies
  BY <1>3, ConflictsTail
<1> HIDE DEF k
<1>5. resolved[c] \in Data /\ seen[c][k.entity] \in Nat
  BY <1>0, <1>3, ConflictShape, ServerIdle DEF TypeInv, EngineOK, StoredOK
<1>6. IsQueue(q)
  BY <1>0, <1>5, ResolvedIsQueue DEF StoredOK, QueueOK, Status
<1> HIDE DEF q, r
<1>7. QueueOK'
  BY <1>0, <1>2, <1>6, QueueUpdate DEF StoredOK
<1>8. StoredOK'
  BY <1>0, <1>1, <1>7, ServerIdle DEF TypeInv, StoredOK
<1>9. EngineOK'
  BY <1>0, <1>1, <1>2, <1>4, ServerIdle
     DEF TypeInv, EngineOK, Labels, Replies, Data
<1>10. Control'
  BY <1>0, <1>1, <1>2, <1>4, SyncReplyShape
     DEF TypeInv, Control, EngineOK, serverVars, network
<1> QED
  BY <1>1, <1>8, <1>9, <1>10, ServerIdle, PartsIdle, TypeParts DEF TypeInv

LEMMA FinishType ==
  ASSUME TypeInv, NEW c \in Client, Finish(c)
  PROVE  TypeInv'
<1>0. EngineOK
  BY TypeParts DEF TypeInv
<1>1. /\ pc[c] \in {"finish", "settle"} /\ pc' = [pc EXCEPT ![c] = "idle"]
      /\ reply' = [reply EXCEPT ![c] = Empty]
      /\ UNCHANGED <<serverVars, stored, network, app>>
  BY DEF Finish, EndCycle, Goto
<1>2. EngineOK'
  <2>1. /\ syncState' = [syncState EXCEPT ![c] = "SYNCED"]
        /\ batch' = [batch EXCEPT ![c] = <<>>]
        /\ base' = [base EXCEPT ![c] = [i \in EntityId |-> Unloaded]]
        /\ todo' = [todo EXCEPT ![c] = <<>>]
        /\ resolved' = [resolved EXCEPT ![c] = {}]
    BY DEF Finish, EndCycle, SetSyncState
  <2> QED
    BY <1>0, <1>1, <2>1, EmptyReply, ServerIdle
       DEF TypeInv, EngineOK, Labels, Data
<1>3. Control'
  BY <1>0, <1>1 DEF TypeInv, Control, EngineOK, serverVars, stored, network
<1> QED
  BY <1>1, <1>2, <1>3, ServerIdle, PartsIdle, TypeParts DEF TypeInv

-----------------------------------------------------------------------------
(* The server inside the system. *)

LEMMA PeerRequest ==
  ASSUME ServerTypeOK, NEW m \in MutationId, NEW e \in Entity
  PROVE  [cursor |-> CurrentCursor, mutations |->
           <<[id |-> m, entity |-> e, operation |-> "set", value |-> {m},
              baseRevision |-> CurrentRevision(e)]>>] \in SyncRequest
<1> DEFINE w == [id |-> m, entity |-> e, operation |-> "set", value |-> {m},
                 baseRevision |-> CurrentRevision(e)]
<1>1. CurrentRevision(e) \in Nat /\ CurrentCursor \in Nat
  BY DEF CurrentRevision, ServerTypeOK, EntityState, CurrentCursor
<1>2. w \in Mutation
  BY <1>1 DEF Mutation, Operation, Data
<1> HIDE DEF w
<1>3. <<w>> \in Seq(Mutation)
  BY <1>2
<1>4. [cursor |-> CurrentCursor, mutations |-> <<w>>] \in SyncRequest
  BY <1>1, <1>3 DEF SyncRequest
<1> QED
  BY <1>4 DEF w

LEMMA ChannelPayload ==
  ASSUME TypeInv, NEW c \in Client, channel[c].kind = "syncRequest"
  PROVE  channel[c] \in SyncRequests /\ Payload(channel[c]) \in SyncRequest
<1>1. channel[c] \in SyncRequests
  BY ClientMessages, MessageShape
<1> QED
  BY <1>1, SyncRequestShape

\* A step of a client.
ClientStep(c) ==
  \/ Application(c) \/ Cycle(c) \/ TransportError(c)
  \/ Crash(c) \/ RecoverMutation(c) \/ EndRecovery(c)

LEMMA ClientLeavesServer ==
  ASSUME NEW c \in Client, ClientStep(c)
  PROVE  UNCHANGED serverVars
<1>1. ASSUME Application(c) PROVE UNCHANGED serverVars
  BY <1>1 DEF Application, Create, Put, ReadForEdit, WriteEdit, RollBackWrite,
              ResolveByApplication, ForceSnapshot, WriteAtomically
<1>2. ASSUME Cycle(c) PROVE UNCHANGED serverVars
  <2>1. CASE \/ StartSync(c) \/ Dequeue(c) \/ LoadBase(c) \/ SendRequest(c)
             \/ ReceiveTooOld(c) \/ ReceiveValid(c) \/ ReceiveInvalid(c)
             \/ Requeue(c) \/ RequestSnapshot(c)
    BY <2>1 DEF StartSync, Dequeue, LoadBase, SendRequest, ReceiveTooOld,
                ReceiveValid, ReceiveInvalid, Requeue, RequestSnapshot
  <2>2. CASE \/ ApplyReply(c) \/ SaveCursor(c) \/ Acknowledge(c)
             \/ MarkConflict(c) \/ ReadAndResolve(c) \/ PutResolved(c)
             \/ ResolveMutation(c) \/ Finish(c)
    BY <2>2 DEF ApplyReply, SaveCursor, Acknowledge, MarkConflict,
                ReadAndResolve, PutResolved, ResolveMutation, Finish
  <2> QED
    BY <1>2, <2>1, <2>2 DEF Cycle
<1>3. ASSUME TransportError(c) \/ Crash(c) \/ RecoverMutation(c) \/ EndRecovery(c)
      PROVE  UNCHANGED serverVars
  BY <1>3 DEF TransportError, Crash, RecoverMutation, EndRecovery
<1> QED
  BY <1>1, <1>2, <1>3 DEF ClientStep

\* What a step of the system does to the server: nothing, or a step of the
\* server's own specification.
LEMMA ServerRefined ==
  ASSUME TypeInv, Next
  PROVE  [ServerNext]_serverVars
<1>1. ASSUME NEW c \in Client, Serve(c) PROVE [ServerNext]_serverVars
  <2>1. UNCHANGED serverVars \/ BeginSync(Payload(channel[c]))
    BY <1>1 DEF Serve
  <2>2. Payload(channel[c]) \in SyncRequest
    BY <1>1, ChannelPayload DEF Serve
  <2> QED
    BY <2>1, <2>2 DEF ServerNext
<1>2. CASE ServeDelayed
  <2>1. PICK request \in delayed :
          UNCHANGED serverVars \/ BeginSync(Payload(request))
    BY <1>2 DEF ServeDelayed
  <2>2. request \in SyncRequests
    BY TypeParts DEF TypeInv, NetworkOK
  <2>3. Payload(request) \in SyncRequest
    BY <2>2, SyncRequestShape
  <2> QED
    BY <2>1, <2>3 DEF ServerNext
<1>3. ASSUME NEW m \in MutationId, NEW e \in Entity, PeerSync(m, e)
      PROVE  [ServerNext]_serverVars
  BY <1>3, PeerRequest, TypeParts DEF TypeInv, PeerSync, ServerNext
<1>4. CASE Handle
  BY <1>4 DEF Handle, ServerNext
<1>5. CASE Answer
  BY <1>5 DEF Answer, ServerNext
<1>6. CASE Prune
  <2>1. PICK n \in (minimumCursor + 1)..MaxHorizon : SetMinimumAvailableCursor(n)
    BY <1>6 DEF Prune
  <2>2. n \in Nat
    BY TypeParts, SyncConstants DEF TypeInv, ServerTypeOK
  <2> QED
    BY <2>1, <2>2 DEF ServerNext
<1>7. ASSUME NEW c \in Client, ServeSnapshot(c) PROVE UNCHANGED serverVars
  BY <1>7 DEF ServeSnapshot
<1> QED
  BY <1>1, <1>2, <1>3, <1>4, <1>5, <1>6, <1>7, ClientLeavesServer
     DEF Next, ClientStep, Server

\* The log only grows.
LEMMA LogGrows ==
  ASSUME ServerTypeOK, [ServerNext]_serverVars
  PROVE  /\ CurrentCursor \in Nat /\ CurrentCursor' \in Nat
         /\ CurrentCursor <= CurrentCursor'
         /\ \A i \in 1..CurrentCursor :
              i \in 1..CurrentCursor' /\ history'[i] = history[i]
<1>1. CASE UNCHANGED <<store, history>>
  BY <1>1 DEF ServerTypeOK, CurrentCursor
<1>2. CASE \E entry \in LogEntry : Records(entry)
  BY <1>2, AppendEntryType DEF Records
<1> QED
  BY <1>1, <1>2, LogStep

\* A step of the server leaves well formed what it does not touch.
LEMMA PartsGrow ==
  ASSUME TypeOK, [ServerNext]_serverVars
  PROVE  /\ ServerTypeOK'
         /\ Replies \subseteq Replies' /\ Requests \subseteq Requests'
         /\ SyncRequests \subseteq SyncRequests'
         /\ UNCHANGED stored => StoredOK'
         /\ UNCHANGED engine => EngineOK'
         /\ UNCHANGED app => AppOK'
<1>0. ServerTypeOK /\ StoredOK /\ EngineOK /\ AppOK
  BY TypeParts
<1>1. ServerTypeOK'
  BY <1>0, ServerTypeStep
<1>2. /\ CurrentCursor \in Nat /\ CurrentCursor' \in Nat
      /\ CurrentCursor <= CurrentCursor'
  BY <1>0, LogGrows
<1>3. /\ Replies \subseteq Replies' /\ Requests \subseteq Requests'
      /\ SyncRequests \subseteq SyncRequests'
  BY <1>2, MessagesGrow
<1>4. 0..CurrentCursor \subseteq 0..CurrentCursor'
  BY <1>2
<1>5. UNCHANGED stored => StoredOK'
  <2>1. cursor \in [Client -> {NoCursor} \cup 0..CurrentCursor']
    BY <1>0, <1>4 DEF StoredOK
  <2>2. seen \in [Client -> [Entity -> 0..CurrentCursor']]
    BY <1>0, <1>4 DEF StoredOK
  <2> QED
    BY <1>0, <2>1, <2>2 DEF stored, StoredOK, QueueOK
<1>6. UNCHANGED engine => EngineOK'
  BY <1>0, <1>3 DEF engine, EngineOK
<1>7. UNCHANGED app => AppOK'
  BY <1>0 DEF app, AppOK
<1> QED
  BY <1>1, <1>3, <1>5, <1>6, <1>7

LEMMA SyncReplyType ==
  ASSUME ServerTypeOK
  PROVE  SyncReply \in SyncReplies
<1>1. job.acknowledged \in Seq(MutationId) /\ job.conflicts \in Seq(Conflict)
  BY DEF ServerTypeOK, Job
<1>2. SyncReply.changes \in SUBSET (1..CurrentCursor)
  BY DEF ServerTypeOK, SyncReply, ChangesSince
<1>3. CurrentCursor \in 0..CurrentCursor
  BY DEF ServerTypeOK, CurrentCursor
<1> QED
  BY <1>1, <1>2, <1>3 DEF SyncReply, SyncReplies

LEMMA PartialSnapshotType ==
  ASSUME ServerTypeOK, NEW cols
  PROVE  [SnapshotReply EXCEPT !.entities = [e \in Entity |->
            IF CollectionOf(e) \in cols THEN @[e] ELSE NoEntity]]
           \in SnapshotReplies
<1>1. CurrentCursor \in 0..CurrentCursor
  BY DEF ServerTypeOK, CurrentCursor
<1>2. [e \in Entity |-> IF CollectionOf(e) \in cols THEN store[e] ELSE NoEntity]
        \in [Entity -> EntityState \cup {NoEntity}]
  BY DEF ServerTypeOK
<1>3. SnapshotReply = [kind |-> "snapshot", entities |-> store,
                       cursor |-> CurrentCursor]
  BY DEF SnapshotReply
<1> QED
  BY <1>1, <1>2, <1>3 DEF SnapshotReplies

-----------------------------------------------------------------------------
(* Types: the transport and the server. *)

LEMMA ServeType ==
  ASSUME TypeInv, NEW c \in Client, Serve(c), [ServerNext]_serverVars
  PROVE  TypeInv'
<1>1. /\ channel[c].kind = "syncRequest" /\ ~job.busy
      /\ UNCHANGED <<stored, engine, delayed, app>>
      /\ \/ /\ channel' = [channel EXCEPT ![c] = CursorTooOldReply]
            /\ caller' = caller /\ job' = job
         \/ /\ channel' = [channel EXCEPT ![c] = Empty]
            /\ caller' = c /\ job'.busy
  BY DEF Serve, Send, BeginSync, serverVars
<1>2. NetworkOK'
  <2>1. channel' \in [Client -> Requests' \cup Replies']
    BY <1>1, EmptyReply, PartsGrow, TypeParts DEF TypeInv, NetworkOK
  <2> QED
    BY <1>1, <2>1, PartsGrow, TypeParts DEF TypeInv, NetworkOK
<1>3. Control'
  <2>1. channel \in [Client -> Requests \cup Replies]
    BY TypeParts DEF TypeInv, NetworkOK
  <2>2. caller # c
    BY <1>1 DEF TypeInv, Control
  <2> QED
    BY <1>1, <2>1, <2>2
       DEF TypeInv, Control, stored, engine, Empty, CursorTooOldReply
<1> QED
  BY <1>1, <1>2, <1>3, PartsGrow, TypeParts DEF TypeInv

LEMMA ServeSnapshotType ==
  ASSUME TypeInv, NEW c \in Client, ServeSnapshot(c)
  PROVE  TypeInv'
<1> DEFINE r == [SnapshotReply EXCEPT !.entities = [e \in Entity |->
                   IF CollectionOf(e) \in channel[c].collections
                   THEN @[e] ELSE NoEntity]]
<1>1. /\ channel[c].kind = "snapshotRequest"
      /\ channel' = [channel EXCEPT ![c] = r]
      /\ UNCHANGED <<serverVars, stored, engine, delayed, caller, app>>
  BY DEF ServeSnapshot, Send
<1>2. r \in SnapshotReplies
  BY PartialSnapshotType, TypeParts DEF TypeInv
<1> HIDE DEF r
<1>3. NetworkOK'
  BY <1>1, <1>2, ServerIdle, TypeParts DEF TypeInv, NetworkOK, Replies
<1>4. Control'
  <2>1. r.kind # "empty"
    BY <1>2, SnapshotReplyShape
  <2> QED
    BY <1>1, <2>1, TypeParts
       DEF TypeInv, Control, NetworkOK, serverVars, stored, engine
<1> QED
  BY <1>1, <1>3, <1>4, ServerIdle, PartsIdle, TypeParts DEF TypeInv

LEMMA NobodyIsNoClient == \A c \in Client : c # Nobody
  BY SyncConstants

LEMMA ServeDelayedType ==
  ASSUME TypeInv, ServeDelayed, [ServerNext]_serverVars
  PROVE  TypeInv'
<1>1. /\ ~job.busy /\ delayed' \subseteq delayed /\ caller' = Nobody
      /\ UNCHANGED <<stored, engine, channel, app>>
  BY DEF ServeDelayed
<1>2. NetworkOK'
  BY <1>1, PartsGrow, TypeParts DEF TypeInv, NetworkOK
<1>3. Control'
  BY <1>1, NobodyIsNoClient DEF TypeInv, Control, stored, engine
<1> QED
  BY <1>1, <1>2, <1>3, PartsGrow, TypeParts DEF TypeInv

LEMMA PeerSyncType ==
  ASSUME TypeInv, NEW m \in MutationId, NEW e \in Entity, PeerSync(m, e),
         [ServerNext]_serverVars
  PROVE  TypeInv'
<1>1. caller' = Nobody /\ UNCHANGED <<stored, engine, channel, delayed, app>>
  BY DEF PeerSync
<1>2. NetworkOK'
  BY <1>1, PartsGrow, TypeParts DEF TypeInv, NetworkOK
<1>3. Control'
  BY <1>1, NobodyIsNoClient DEF TypeInv, Control, stored, engine
<1> QED
  BY <1>1, <1>2, <1>3, PartsGrow, TypeParts DEF TypeInv

LEMMA HandleType ==
  ASSUME TypeInv, Handle, [ServerNext]_serverVars
  PROVE  TypeInv'
<1>1. UNCHANGED <<stored, engine, network, app>> /\ job'.busy = job.busy
  BY ProcessKeepsRequest, TypeParts DEF TypeInv, Handle
<1>2. NetworkOK'
  BY <1>1, PartsGrow, TypeParts DEF TypeInv, NetworkOK, network
<1>3. Control'
  BY <1>1 DEF TypeInv, Control, stored, engine, network
<1> QED
  BY <1>1, <1>2, <1>3, PartsGrow, TypeParts DEF TypeInv

LEMMA AnswerType ==
  ASSUME TypeInv, Answer, [ServerNext]_serverVars
  PROVE  TypeInv'
<1>1. /\ UNCHANGED <<stored, engine, delayed, app>> /\ caller' = Nobody
      /\ \/ caller = Nobody /\ UNCHANGED channel
         \/ channel' = [channel EXCEPT ![caller] = SyncReply]
  BY DEF Answer, Send
<1>2. SyncReply \in SyncReplies /\ SyncReply.kind = "sync"
  BY SyncReplyType, TypeParts DEF TypeInv, SyncReply
<1>3. NetworkOK'
  BY <1>1, <1>2, PartsGrow, TypeParts DEF TypeInv, NetworkOK, Replies
<1>4. Control'
  BY <1>1, <1>2, NobodyIsNoClient, TypeParts
     DEF TypeInv, Control, NetworkOK, stored, engine
<1> QED
  BY <1>1, <1>3, <1>4, PartsGrow, TypeParts DEF TypeInv

LEMMA PruneKeepsJob == Prune => UNCHANGED <<job, stored, engine, network, app>>
  BY DEF Prune, SetMinimumAvailableCursor

LEMMA RetentionType ==
  ASSUME TypeInv, Prune, [ServerNext]_serverVars
  PROVE  TypeInv'
<1>1. UNCHANGED <<job, stored, engine, network, app>>
  BY PruneKeepsJob
<1>2. NetworkOK'
  BY <1>1, PartsGrow, TypeParts DEF TypeInv, NetworkOK, network
<1>3. Control'
  BY <1>1 DEF TypeInv, Control, stored, engine, network
<1> QED
  BY <1>1, <1>2, <1>3, PartsGrow, TypeParts DEF TypeInv

\* A client that stops waiting.
LEMMA AbandonType ==
  ASSUME TypeInv, NEW c \in Client, Abandon(c), UNCHANGED serverVars
  PROVE  /\ NetworkOK'
         /\ channel' = [channel EXCEPT ![c] = Empty]
         /\ caller' = IF caller = c THEN Nobody ELSE caller
<1>1. /\ channel' = [channel EXCEPT ![c] = Empty]
      /\ caller' = IF caller = c THEN Nobody ELSE caller
      /\ \/ delayed' = delayed
         \/ /\ channel[c].kind = "syncRequest"
            /\ delayed' = delayed \cup {channel[c]}
  BY DEF Abandon, Send
<1>2. delayed' \subseteq SyncRequests
  BY <1>1, ChannelPayload, TypeParts DEF TypeInv, NetworkOK
<1>3. NetworkOK'
  BY <1>1, <1>2, EmptyReply, ServerIdle, TypeParts DEF TypeInv, NetworkOK
<1> QED
  BY <1>1, <1>3

LEMMA TransportErrorType ==
  ASSUME TypeInv, NEW c \in Client, TransportError(c)
  PROVE  TypeInv'
<1>1. /\ Abandon(c) /\ EndCycle(c) /\ pc' = [pc EXCEPT ![c] = "idle"]
      /\ reply' = [reply EXCEPT ![c] = Empty]
      /\ UNCHANGED <<serverVars, stored, syncState, app>>
  BY DEF TransportError, EndCycle, Goto
<1>2. EngineOK'
  BY <1>1, EndCycleType DEF TypeInv
<1>3. NetworkOK'
      /\ channel' = [channel EXCEPT ![c] = Empty]
      /\ caller' = IF caller = c THEN Nobody ELSE caller
  BY <1>1, AbandonType DEF serverVars
<1>4. Control'
  BY <1>1, <1>3, NobodyIsNoClient, TypeParts
     DEF TypeInv, Control, EngineOK, NetworkOK, serverVars, stored, Empty
<1> QED
  BY <1>1, <1>2, <1>3, <1>4, ServerIdle, PartsIdle, TypeParts DEF TypeInv

-----------------------------------------------------------------------------
(* Types: crash and recovery. *)

LEMMA CrashType ==
  ASSUME TypeInv, NEW c \in Client, Crash(c)
  PROVE  TypeInv'
<1>0. StoredOK /\ EngineOK /\ NetworkOK /\ AppOK
  BY TypeParts DEF TypeInv
<1>1. /\ Abandon(c) /\ pc' = [pc EXCEPT ![c] = "recovering"]
      /\ reply' = [reply EXCEPT ![c] = Empty]
      /\ UNCHANGED <<serverVars, stored>>
  BY DEF Crash, Goto
<1>2. EngineOK'
  <2>1. /\ syncState' = [syncState EXCEPT ![c] = "LOCAL_ONLY"]
        /\ batch' = [batch EXCEPT ![c] = <<>>]
        /\ base' = [base EXCEPT ![c] = [i \in EntityId |-> Unloaded]]
        /\ todo' = [todo EXCEPT ![c] = <<>>]
        /\ resolved' = [resolved EXCEPT ![c] = {}]
    BY DEF Crash, SetSyncState
  <2> QED
    BY <1>0, <1>1, <2>1, EmptyReply, ServerIdle
       DEF TypeInv, EngineOK, Labels, Data
<1>3. NetworkOK'
      /\ channel' = [channel EXCEPT ![c] = Empty]
      /\ caller' = IF caller = c THEN Nobody ELSE caller
  BY <1>1, AbandonType DEF serverVars
<1>4. AppOK'
  <2>1. drafts' \in [Client -> [Task -> Draft \cup {NoDraft}]]
    BY <1>0 DEF Crash, AppOK
  <2>2. sequence' = [sequence EXCEPT ![c] =
          [col \in Collection |-> HighestSequence(c, col)]]
    BY DEF Crash
  <2>3. [col \in Collection |-> HighestSequence(c, col)]
          \in [Collection -> 0..MaxSequence]
    BY <1>0, HighestShape DEF StoredOK
  <2> QED
    BY <1>0, <2>1, <2>2, <2>3 DEF AppOK
<1>5. Control'
  BY <1>0, <1>1, <1>3, NobodyIsNoClient
     DEF TypeInv, Control, EngineOK, NetworkOK, serverVars, stored, Empty
<1> QED
  BY <1>1, <1>2, <1>3, <1>4, <1>5, ServerIdle, PartsIdle, TypeParts DEF TypeInv

LEMMA RecoverMutationType ==
  ASSUME TypeInv, NEW c \in Client, RecoverMutation(c)
  PROVE  TypeInv'
<1>0. StoredOK
  BY TypeParts DEF TypeInv
<1>1. PICK m : SetStatus(c, m, "PENDING")
  BY DEF RecoverMutation
<1>2. UNCHANGED <<serverVars, local, cursor, seen, engine, network, app>>
  BY DEF RecoverMutation
<1>3. QueueOK'
  BY <1>0, <1>1, SetStatusType DEF StoredOK, Status
<1>4. StoredOK'
  BY <1>0, <1>2, <1>3, ServerIdle DEF TypeInv, StoredOK
<1> QED
  BY <1>2, <1>4, ControlIdle, ServerIdle, PartsIdle, TypeParts DEF TypeInv

LEMMA EndRecoveryType ==
  ASSUME TypeInv, NEW c \in Client, EndRecovery(c)
  PROVE  TypeInv'
<1>0. EngineOK
  BY TypeParts DEF TypeInv
<1>1. /\ pc[c] = "recovering" /\ pc' = [pc EXCEPT ![c] = "idle"]
      /\ UNCHANGED <<serverVars, stored, batch, base, reply, todo, resolved,
                     syncState, network, app>>
  BY DEF EndRecovery, Goto
<1>2. EngineOK'
  BY <1>0, <1>1, ServerIdle DEF TypeInv, EngineOK, Labels
<1>3. Control'
  BY <1>0, <1>1 DEF TypeInv, Control, EngineOK, serverVars, stored, network
<1> QED
  BY <1>1, <1>2, <1>3, ServerIdle, PartsIdle, TypeParts DEF TypeInv

-----------------------------------------------------------------------------
(* Types: all together. *)

LEMMA ApplicationType ==
  ASSUME TypeInv, NEW c \in Client, Application(c)
  PROVE  TypeInv'
  BY CreateType, PutType, ReadForEditType, WriteEditType, RollBackType,
     ResolveByApplicationType, ForceSnapshotType DEF Application

LEMMA CycleType ==
  ASSUME TypeInv, NEW c \in Client, Cycle(c)
  PROVE  TypeInv'
  BY StartSyncType, DequeueType, LoadBaseType, SendRequestType,
     ReceiveTooOldType, ReceiveValidType, ReceiveInvalidType, RequeueType,
     RequestSnapshotType, ApplyReplyType, SaveCursorType, AcknowledgeType,
     MarkConflictType, ReadAndResolveType, PutResolvedType,
     ResolveMutationType, FinishType DEF Cycle

LEMMA TypeStep == TypeInv /\ [Next]_vars => TypeInv'
<1>1. ASSUME TypeInv, Next PROVE TypeInv'
  <2>0. [ServerNext]_serverVars
    BY <1>1, ServerRefined
  <2>1. ASSUME Server PROVE TypeInv'
    BY <1>1, <2>0, <2>1, ServeType, ServeSnapshotType, ServeDelayedType,
       PeerSyncType, HandleType, AnswerType, RetentionType DEF Server
  <2> QED
    BY <1>1, <2>1, ApplicationType, CycleType, TransportErrorType, CrashType,
       RecoverMutationType, EndRecoveryType DEF Next
<1>2. ASSUME TypeInv, UNCHANGED vars PROVE TypeInv'
  <2>1. UNCHANGED <<serverVars, stored, engine, network, app>>
    BY <1>2 DEF vars
  <2> QED
    BY <1>2, <2>1, ControlIdle, ServerIdle, PartsIdle, TypeParts
       DEF TypeInv, stored
<1> QED
  BY <1>1, <1>2

LEMMA TypeInit == Init => TypeInv
<1> SUFFICES ASSUME Init PROVE TypeInv
  OBVIOUS
<1>1. ServerTypeOK /\ CurrentCursor = 0 /\ ~job.busy
  BY WindowInit DEF Init, WindowInv, ServerInit, CurrentCursor, IdleJob
<1>2. IsQueue(<<>>)
  BY FS_EmptySet DEF IsQueue
<1>3. StoredOK
  BY <1>1, <1>2 DEF Init, StoredOK, QueueOK
<1>4. EngineOK
  BY EmptyReply DEF Init, EngineOK, Labels, Data
<1>5. NetworkOK
  BY EmptyReply DEF Init, NetworkOK
<1>6. AppOK
  BY SyncConstants DEF Init, AppOK
<1>7. Control
  BY NobodyIsNoClient DEF Init, Control, Empty
<1> QED
  BY <1>1, <1>3, <1>4, <1>5, <1>6, <1>7, TypeParts DEF TypeInv

LEMMA TypeInvAlways == Spec => []TypeInv
  BY TypeInit, TypeStep, PTL DEF Spec

\* The state of clients, transport and server stays well formed: cursors and
\* remembered positions lie within the log, a message is a request or a reply
\* the engine expects, numbers stay within their bound across restarts
\* (sync-engine.ts, mutation-queue.ts, sync-server.ts).
THEOREM TypeCorrect == Spec => []TypeOK
<1>1. TypeInv => TypeOK
  BY DEF TypeInv
<1> QED
  BY <1>1, TypeInvAlways, PTL

-----------------------------------------------------------------------------
(* What a step leaves alone. *)

\* All that is kept for one client.
Own(c) == <<local[c], queue[c], cursor[c], seen[c], pc[c], batch[c], base[c],
            reply[c], todo[c], resolved[c], channel[c], sequence[c], drafts[c]>>

LEMMA OwnOf ==
  ASSUME NEW d \in Client,
         UNCHANGED <<local[d], queue[d], cursor[d], seen[d]>>,
         UNCHANGED <<pc[d], batch[d], base[d], reply[d], todo[d], resolved[d]>>,
         UNCHANGED <<channel[d], sequence[d], drafts[d]>>
  PROVE  UNCHANGED Own(d)
  BY DEF Own

LEMMA OwnKept ==
  ASSUME NEW d \in Client, UNCHANGED <<stored, engine, network, app>>
  PROVE  UNCHANGED Own(d)
  BY DEF Own, stored, engine, network, app

\* A step of one client leaves the server and the other clients alone.
LEMMA OthersApplication ==
  ASSUME TypeInv, NEW c \in Client, Application(c), NEW d \in Client, d # c
  PROVE  UNCHANGED Own(d) /\ caller' = caller
<1>0. /\ local \in [Client -> [Entity -> EntityState \cup {NoEntity}]]
      /\ queue = [k \in Client |-> queue[k]]
      /\ sequence \in [Client -> [Collection -> 0..MaxSequence]]
      /\ drafts \in [Client -> [Task -> Draft \cup {NoDraft}]]
      /\ pc \in [Client -> Labels]
      /\ channel \in [Client -> Requests \cup Replies]
  BY DEF TypeInv, TypeOK
<1>1. ASSUME NEW m, NEW e, NEW s, NEW k, WriteAtomically(c, m, e, s, k)
      PROVE  /\ UNCHANGED <<local[d], queue[d], sequence[d]>>
             /\ UNCHANGED <<cursor, seen, engine, network>>
  BY <1>0, <1>1 DEF WriteAtomically, TakeSequence, Enqueue
<1>2. ASSUME NEW m, NEW e, Create(c, m, e) \/ Put(c, m, e)
      PROVE  UNCHANGED Own(d) /\ caller' = caller
  BY <1>1, <1>2 DEF Create, Put, Own, engine, network
<1>3. ASSUME NEW t, NEW e, NEW kind, ReadForEdit(c, t, e, kind)
      PROVE  UNCHANGED Own(d) /\ caller' = caller
  BY <1>0, <1>3 DEF ReadForEdit, Own, stored, engine, network
<1>4. ASSUME NEW t, NEW m, WriteEdit(c, t, m)
      PROVE  UNCHANGED Own(d) /\ caller' = caller
  <2>1. drafts'[d] = drafts[d]
    BY <1>0, <1>4 DEF WriteEdit
  <2> QED
    BY <1>1, <1>4, <2>1 DEF WriteEdit, Own, engine, network
<1>5. ASSUME NEW e, RollBackWrite(c, e)
      PROVE  UNCHANGED Own(d) /\ caller' = caller
  BY <1>0, <1>5 DEF RollBackWrite, TakeSequence, Own, stored, engine, network
<1>6. ASSUME NEW m, ResolveByApplication(c, m)
      PROVE  UNCHANGED Own(d) /\ caller' = caller
  <2>1. queue'[d] = queue[d]
    BY <1>0, <1>6 DEF ResolveByApplication
  <2> QED
    BY <1>6, <2>1 DEF ResolveByApplication, Own, engine, network, app
<1>7. CASE ForceSnapshot(c)
  <2>1. channel'[d] = channel[d] /\ pc'[d] = pc[d]
    BY <1>0, <1>7 DEF ForceSnapshot, Send, Goto
  <2> QED
    BY <1>7, <2>1 DEF ForceSnapshot, Own, stored, app
<1> QED
  BY <1>2, <1>3, <1>4, <1>5, <1>6, <1>7 DEF Application

LEMMA OthersEndCycle ==
  ASSUME EngineOK, NEW c \in Client, EndCycle(c), NEW d \in Client, d # c
  PROVE  UNCHANGED <<pc[d], batch[d], base[d], reply[d], todo[d], resolved[d]>>
  BY DEF EngineOK, EndCycle, Goto

LEMMA OthersCycle ==
  ASSUME TypeInv, NEW c \in Client, Cycle(c), NEW d \in Client, d # c
  PROVE  UNCHANGED Own(d) /\ caller' = caller
<1>0. StoredOK /\ EngineOK /\ NetworkOK
  BY TypeParts DEF TypeInv
<1>1. CASE StartSync(c) \/ SendRequest(c) \/ RequestSnapshot(c)
  <2>1. channel'[d] = channel[d] /\ pc'[d] = pc[d]
    BY <1>0, <1>1 DEF StartSync, SendRequest, RequestSnapshot, Send, Goto,
                      NetworkOK, EngineOK
  <2> QED
    BY <1>1, <2>1 DEF StartSync, SendRequest, RequestSnapshot, Own, stored, app
<1>2. CASE Dequeue(c)
  <2>1. pc'[d] = pc[d] /\ batch'[d] = batch[d]
    BY <1>0, <1>2 DEF Dequeue, Goto, EngineOK
  <2> QED
    BY <1>2, <2>1 DEF Dequeue, Own, stored, network, app
<1>3. CASE LoadBase(c)
  <2>1. base'[d] = base[d]
    BY <1>0, <1>3 DEF LoadBase, EngineOK
  <2> QED
    BY <1>3, <2>1 DEF LoadBase, Own, stored, network, app
<1>4. CASE ReceiveTooOld(c)
  <2>1. pc'[d] = pc[d] /\ channel'[d] = channel[d] /\ todo'[d] = todo[d]
    BY <1>0, <1>4 DEF ReceiveTooOld, Goto, Send, NetworkOK, EngineOK
  <2> QED
    BY <1>4, <2>1 DEF ReceiveTooOld, Own, stored, app
<1>5. CASE ReceiveValid(c)
  <2>1. /\ pc'[d] = pc[d] /\ channel'[d] = channel[d]
        /\ todo'[d] = todo[d] /\ reply'[d] = reply[d]
    BY <1>0, <1>5 DEF ReceiveValid, Goto, Send, NetworkOK, EngineOK
  <2> QED
    BY <1>5, <2>1 DEF ReceiveValid, Own, stored, app
<1>6. CASE ReceiveInvalid(c)
  <2>1. channel'[d] = channel[d]
    BY <1>0, <1>6 DEF ReceiveInvalid, Send, NetworkOK
  <2> QED
    BY <1>0, <1>6, <2>1, OthersEndCycle, OwnOf DEF ReceiveInvalid, stored, app
<1>7. CASE Requeue(c)
  <2>1. queue'[d] = queue[d] /\ todo'[d] = todo[d]
    BY <1>0, <1>7 DEF Requeue, SetStatus, StoredOK, QueueOK, EngineOK
  <2> QED
    BY <1>7, <2>1 DEF Requeue, Own, network, app
<1>8. CASE ApplyReply(c)
  <2>1. local'[d] = local[d] /\ seen'[d] = seen[d] /\ pc'[d] = pc[d]
    BY <1>0, <1>8 DEF ApplyReply, Goto, StoredOK, EngineOK
  <2> QED
    BY <1>8, <2>1 DEF ApplyReply, Own, network, app
<1>9. CASE SaveCursor(c)
  <2>1. cursor'[d] = cursor[d] /\ pc'[d] = pc[d]
    BY <1>0, <1>9 DEF SaveCursor, Goto, StoredOK, EngineOK
  <2> QED
    BY <1>9, <2>1 DEF SaveCursor, Own, network, app
<1>10. CASE Acknowledge(c) \/ MarkConflict(c)
  <2>1. queue'[d] = queue[d] /\ reply'[d] = reply[d]
    BY <1>0, <1>10
       DEF Acknowledge, MarkConflict, SetStatus, StoredOK, QueueOK, EngineOK
  <2> QED
    BY <1>10, <2>1 DEF Acknowledge, MarkConflict, Own, network, app
<1>11. CASE ReadAndResolve(c)
  <2>1. resolved'[d] = resolved[d] /\ pc'[d] = pc[d]
    BY <1>0, <1>11 DEF ReadAndResolve, Goto, EngineOK
  <2> QED
    BY <1>11, <2>1 DEF ReadAndResolve, Own, stored, network, app
<1>12. CASE PutResolved(c)
  <2>1. local'[d] = local[d] /\ pc'[d] = pc[d]
    BY <1>0, <1>12 DEF PutResolved, Goto, StoredOK, EngineOK
  <2> QED
    BY <1>12, <2>1 DEF PutResolved, Own, network, app
<1>13. CASE ResolveMutation(c)
  <2>1. /\ queue'[d] = queue[d] /\ reply'[d] = reply[d]
        /\ resolved'[d] = resolved[d] /\ pc'[d] = pc[d]
    BY <1>0, <1>13 DEF ResolveMutation, Goto, StoredOK, QueueOK, EngineOK
  <2> QED
    BY <1>13, <2>1 DEF ResolveMutation, Own, network, app
<1>14. CASE Finish(c)
  BY <1>0, <1>14, OthersEndCycle, OwnOf DEF Finish, stored, network, app
<1> QED
  BY <1>1, <1>2, <1>3, <1>4, <1>5, <1>6, <1>7, <1>8, <1>9, <1>10, <1>11,
     <1>12, <1>13, <1>14 DEF Cycle

LEMMA OthersFailure ==
  ASSUME TypeInv, NEW c \in Client,
         TransportError(c) \/ Crash(c) \/ RecoverMutation(c) \/ EndRecovery(c),
         NEW d \in Client, d # c
  PROVE  UNCHANGED Own(d) /\ (caller' = d => caller = d)
<1>0. StoredOK /\ EngineOK /\ NetworkOK /\ AppOK
  BY TypeParts DEF TypeInv
<1>1. ASSUME Abandon(c)
      PROVE  channel'[d] = channel[d] /\ (caller' = d => caller = d)
  BY <1>0, <1>1, NobodyIsNoClient DEF Abandon, Send, NetworkOK
<1>2. CASE TransportError(c)
  BY <1>0, <1>1, <1>2, OthersEndCycle, OwnOf DEF TransportError, stored, app
<1>3. CASE Crash(c)
  <2>1. UNCHANGED <<pc[d], batch[d], base[d], reply[d], todo[d], resolved[d]>>
    BY <1>0, <1>3 DEF Crash, Goto, EngineOK
  <2>2. UNCHANGED <<sequence[d], drafts[d]>>
    BY <1>0, <1>3 DEF Crash, AppOK
  <2> QED
    BY <1>1, <1>3, <2>1, <2>2, OwnOf DEF Crash, stored
<1>4. CASE RecoverMutation(c)
  <2>1. queue'[d] = queue[d]
    BY <1>0, <1>4 DEF RecoverMutation, SetStatus, StoredOK, QueueOK
  <2> QED
    BY <1>4, <2>1 DEF RecoverMutation, Own, engine, network, app
<1>5. CASE EndRecovery(c)
  <2>1. pc'[d] = pc[d]
    BY <1>0, <1>5 DEF EndRecovery, Goto, EngineOK
  <2> QED
    BY <1>5, <2>1 DEF EndRecovery, Own, stored, network, app
<1> QED
  BY <1>2, <1>3, <1>4, <1>5

LEMMA Others ==
  ASSUME TypeInv, NEW c \in Client, ClientStep(c), NEW d \in Client, d # c
  PROVE  UNCHANGED Own(d) /\ (caller' = d => caller = d)
  BY OthersApplication, OthersCycle, OthersFailure DEF ClientStep

-----------------------------------------------------------------------------
(* The server's theorems hold of the system.                               *)

LEMMA ServerStep ==
  ASSUME TypeInv, [Next]_vars
  PROVE  [ServerNext]_serverVars
  BY ServerRefined DEF vars

\* What clients, lost requests and crashes do to the server is what its own
\* specification allows: the system implements ServerSpec, and everything
\* proved of the server alone holds behind the transport (handleSyncRequest is
\* only ever given requests the engine builds).
THEOREM ServerImplemented == Spec => ServerSpec
<1>1. Init => ServerInit
  BY DEF Init
<1>2. TypeInv /\ [Next]_vars => [ServerNext]_serverVars
  BY ServerStep
<1> QED
  BY <1>1, <1>2, TypeInvAlways, PTL DEF Spec, ServerSpec

SystemInv == TypeInv /\ WindowInv /\ AdmittedCursor /\ LogInv /\ AckInv

LEMMA SystemStep == SystemInv /\ [Next]_vars => SystemInv'
  BY TypeStep, ServerStep, WindowStep, AdmittedStep, LogInvStep, AckInvStep
     DEF SystemInv, WindowInv

LEMMA SystemInit == Init => SystemInv
<1> SUFFICES ASSUME Init PROVE SystemInv
  OBVIOUS
<1>1. TypeInv /\ WindowInv
  BY TypeInit, WindowInit DEF Init
<1>2. /\ CurrentCursor = 0 /\ job = IdleJob
      /\ \A e \in Entity : store[e] = NoEntity
      /\ \A m \in MutationId : tracker[m] = 0
  BY DEF Init, ServerInit, CurrentCursor
<1>3. job.acknowledged = <<>> /\ ~job.busy
  BY <1>2 DEF IdleJob
<1>4. LogInv
  BY <1>1, <1>2 DEF WindowInv, LogInv, StoreMatchesLog, AppliedToLatest
<1>5. AckInv
  BY <1>1, <1>2, <1>3 DEF WindowInv, AckInv, TrackedIsApplied, AcknowledgedIsApplied
<1>6. AdmittedCursor
  BY <1>3 DEF AdmittedCursor
<1> QED
  BY <1>1, <1>4, <1>5, <1>6 DEF SystemInv

LEMMA SystemAlways == Spec => []SystemInv
  BY SystemInit, SystemStep, PTL DEF Spec

\* What SystemInv says of a state, in the words the proofs below use.
LEMMA SystemTypes ==
  ASSUME SystemInv
  PROVE  /\ TypeInv /\ Control /\ TypeOK
         /\ ServerTypeOK /\ StoredOK /\ EngineOK /\ NetworkOK /\ AppOK
         /\ CurrentCursor \in Nat
  BY TypeParts DEF SystemInv, TypeInv, ServerTypeOK, CurrentCursor

-----------------------------------------------------------------------------
(* The stored cursor.  A client may trust its cursor because a reply to a   *)
(* sync request continues at the cursor it was asked for, that cursor does  *)
(* not move while the request is under way, and a snapshot shows the whole  *)
(* store.                                                                   *)

\* The client has stored all entries up to n, or newer ones.
Covers(c, n) == \A i \in 1..n : seen[c][history[i].entity] >= i

\* The entities are those the first n entries of the log leave.
SnapshotAt(entities, n) ==
  \A e \in Entity :
    \/ entities[e] = NoEntity /\ \A i \in 1..n : history[i].entity # e
    \/ \E i \in 1..n : /\ history[i].entity = e
                       /\ history[i].state = entities[e]
                       /\ \A j \in (i + 1)..n : history[j].entity # e

\* A reply the client can apply: what it lacks from its cursor on, or all.
ReplyFits(c, r) ==
  /\ r.kind = "sync" =>
       r.changes = (cursor[c] + 1)..r.cursor /\ cursor[c] # NoCursor
  /\ r.kind = "snapshot" => SnapshotAt(r.entities, r.cursor)
  /\ r.kind \in {"sync", "snapshot"} =>
       \A e \in Entity : seen[c][e] <= r.cursor

CursorOf(c) ==
  /\ \A e \in Entity : seen[c][e] # 0 => history[seen[c][e]].entity = e
  /\ Covers(c, cursor[c])
  /\ channel[c].kind = "syncRequest" =>
       channel[c].cursor = cursor[c] /\ cursor[c] # NoCursor
  /\ channel[c].kind = "snapshotRequest" => channel[c].collections = Collection
  /\ caller = c => job.request.cursor = cursor[c] /\ cursor[c] # NoCursor
  /\ ReplyFits(c, channel[c])
  /\ pc[c] = "apply" => ReplyFits(c, reply[c])
  /\ pc[c] = "saveCursor" => Covers(c, reply[c].cursor)

\* A forced snapshot is one of all collections.  The engine stores the cursor
\* of whatever snapshot it takes, so this is what forceSnapshotSync() relies
\* on when it is given collections.
WholeSnapshots ==
  "forceSnapshot" \in WriteKinds => \A a, b \in Collection : a = b

CursorInv == \A c \in Client : CursorOf(c)

\* Statements about the past of the log stay true as it grows.
LEMMA CoversStable ==
  ASSUME SystemInv, [ServerNext]_serverVars, NEW c \in Client,
         seen'[c] = seen[c], NEW n \in {NoCursor} \cup 0..CurrentCursor,
         Covers(c, n)
  PROVE  Covers(c, n)'
<1>1. n \in Int /\ n <= CurrentCursor /\ CurrentCursor \in Nat
  BY SystemTypes DEF NoCursor
<1>2. \A i \in 1..n : i \in 1..CurrentCursor
  BY <1>1
<1>3. \A i \in 1..n : history'[i] = history[i]
  BY <1>2, SystemTypes, LogGrows
<1> QED
  BY <1>3 DEF Covers

LEMMA SnapshotStable ==
  ASSUME SystemInv, [ServerNext]_serverVars, NEW n \in 0..CurrentCursor,
         NEW entities, SnapshotAt(entities, n)
  PROVE  SnapshotAt(entities, n)'
<1>1. \A i \in 1..n : i \in 1..CurrentCursor /\ \A j \in (i + 1)..n : j \in 1..n
  BY SystemTypes
<1>2. \A i \in 1..n : history'[i] = history[i]
  BY <1>1, SystemTypes, LogGrows
<1> QED
  BY <1>1, <1>2 DEF SnapshotAt

LEMMA ReplyFitsStable ==
  ASSUME SystemInv, [ServerNext]_serverVars, NEW c \in Client,
         seen'[c] = seen[c], cursor'[c] = cursor[c],
         NEW r \in Requests \cup Replies, ReplyFits(c, r)
  PROVE  ReplyFits(c, r)'
<1>1. r.kind = "snapshot" => r \in SnapshotReplies
  BY MessageShape
<1>2. r.kind = "snapshot" => r.cursor \in 0..CurrentCursor
  BY <1>1, SnapshotReplyShape
<1>3. r.kind = "snapshot" => SnapshotAt(r.entities, r.cursor)'
  BY <1>2, SnapshotStable DEF ReplyFits
<1> QED
  BY <1>3 DEF ReplyFits

\* A step that leaves the client's cursor and entities alone: what it sends,
\* what it is sent and what it starts to handle fits its cursor.
LEMMA CursorKept ==
  ASSUME SystemInv, [ServerNext]_serverVars, NEW c \in Client, CursorOf(c),
         UNCHANGED <<seen[c], cursor[c]>>,
         \/ channel'[c] = channel[c]
         \/ /\ channel'[c] \in Requests \cup Replies
            /\ ReplyFits(c, channel'[c])
            /\ channel'[c].kind = "syncRequest" =>
                 channel'[c].cursor = cursor[c] /\ cursor[c] # NoCursor
            /\ channel'[c].kind = "snapshotRequest" =>
                 channel'[c].collections = Collection,
         caller' = c =>
           \/ caller = c /\ job'.request = job.request
           \/ job'.request.cursor = cursor[c] /\ cursor[c] # NoCursor,
         \/ pc'[c] \notin {"apply", "saveCursor"}
         \/ pc'[c] = pc[c] /\ reply'[c] = reply[c]
         \/ pc'[c] = "apply" /\ reply'[c] = channel[c]
  PROVE  CursorOf(c)'
<1>1. /\ seen[c] \in [Entity -> 0..CurrentCursor]
      /\ cursor[c] \in {NoCursor} \cup 0..CurrentCursor
      /\ channel[c] \in Requests \cup Replies
      /\ reply[c] \in Requests \cup Replies
  BY SystemTypes DEF StoredOK, NetworkOK, EngineOK
<1>2. \A e \in Entity : seen'[c][e] # 0 => history'[seen'[c][e]].entity = e
  <2> SUFFICES ASSUME NEW e \in Entity, seen[c][e] # 0
               PROVE  history'[seen[c][e]].entity = e
    OBVIOUS
  <2>1. seen[c][e] \in 1..CurrentCursor
    BY <1>1, SystemTypes
  <2> QED
    BY <2>1, SystemTypes, LogGrows DEF CursorOf
<1>3. Covers(c, cursor[c])'
  <2>1. Covers(c, cursor[c]) /\ cursor'[c] = cursor[c]
    BY DEF CursorOf
  <2> QED
    BY <1>1, <2>1, CoversStable
<1>4. ReplyFits(c, channel[c])'
  <2>1. channel'[c] \in Requests \cup Replies /\ ReplyFits(c, channel'[c])
    BY <1>1 DEF CursorOf
  <2>2. \A r \in Requests \cup Replies : ReplyFits(c, r) => ReplyFits(c, r)'
    BY ReplyFitsStable
  <2> QED
    BY <2>1, <2>2
<1>5. pc'[c] = "apply" => ReplyFits(c, reply[c])'
  <2> SUFFICES ASSUME pc'[c] = "apply" PROVE ReplyFits(c, reply[c])'
    OBVIOUS
  <2>1. \A r \in Requests \cup Replies : ReplyFits(c, r) => ReplyFits(c, r)'
    BY ReplyFitsStable
  <2>2. ReplyFits(c, channel[c]) /\ (pc[c] = "apply" => ReplyFits(c, reply[c]))
    BY DEF CursorOf
  <2>3. \/ reply'[c] = reply[c] /\ pc[c] = "apply"
        \/ reply'[c] = channel[c]
    OBVIOUS
  <2> QED
    BY <1>1, <2>1, <2>2, <2>3
<1>6. pc'[c] = "saveCursor" => Covers(c, reply[c].cursor)'
  <2> SUFFICES ASSUME pc'[c] = "saveCursor" PROVE Covers(c, reply[c].cursor)'
    OBVIOUS
  <2>1. pc[c] = "saveCursor" /\ reply'[c] = reply[c]
        /\ Covers(c, reply[c].cursor)
    BY DEF CursorOf
  <2>2. reply[c].cursor \in 0..CurrentCursor
    BY <2>1, SystemTypes, ClientMessages, SyncReplyShape, SnapshotReplyShape
       DEF Control
  <2> QED
    BY <2>1, <2>2, CoversStable
<1>7. /\ channel'[c].kind = "syncRequest" =>
           channel'[c].cursor = cursor'[c] /\ cursor'[c] # NoCursor
      /\ channel'[c].kind = "snapshotRequest" =>
           channel'[c].collections = Collection
      /\ caller' = c => job'.request.cursor = cursor'[c] /\ cursor'[c] # NoCursor
  BY DEF CursorOf
<1> QED
  BY <1>2, <1>3, <1>4, <1>5, <1>6, <1>7 DEF CursorOf

\* Nothing that matters to the cursor happens to the client.
LEMMA CursorOther ==
  ASSUME SystemInv, [ServerNext]_serverVars, NEW c \in Client, CursorOf(c),
         UNCHANGED Own(c), caller' = c => caller = c /\ job'.request = job.request
  PROVE  CursorOf(c)'
  BY CursorKept DEF Own

\* Requests and empty channels carry no reply.
LEMMA NoReplyFits ==
  ASSUME NEW c, NEW r, r.kind \notin {"sync", "snapshot"}
  PROVE  ReplyFits(c, r)
  BY DEF ReplyFits

LEMMA CursorApplication ==
  ASSUME SystemInv, [ServerNext]_serverVars, WholeSnapshots,
         NEW c \in Client, CursorOf(c), Application(c)
  PROVE  CursorOf(c)'
<1>1. CASE ForceSnapshot(c)
  <2>1. PICK cols \in (SUBSET Collection) \ {{}} :
          channel' = [channel EXCEPT ![c] = SnapshotRequest(cols)]
    BY <1>1 DEF ForceSnapshot, Send
  <2>2. cols = Collection
    <3>0. "forceSnapshot" \in WriteKinds
      BY <1>1 DEF ForceSnapshot
    <3>1. \A a, b \in Collection : a = b
      BY <3>0 DEF WholeSnapshots
    <3>2. cols # {} /\ cols \subseteq Collection
      BY <2>1
    <3> QED
      BY <3>1, <3>2
  <2>0. NetworkOK /\ EngineOK
    BY SystemTypes
  <2>3. channel'[c] = SnapshotRequest(Collection)
    BY <2>0, <2>1, <2>2 DEF NetworkOK
  <2>4. /\ UNCHANGED <<serverVars, stored, reply, caller>>
        /\ pc'[c] = "awaitReply"
    BY <1>1, <2>0 DEF ForceSnapshot, Goto, EngineOK
  <2>5. channel'[c].kind = "snapshotRequest"
        /\ channel'[c].collections = Collection
        /\ channel'[c] \in Requests \cup Replies
    BY <2>3, SnapshotIsWhole DEF SnapshotRequest
  <2> QED
    BY <2>4, <2>5, CursorKept, NoReplyFits DEF stored, serverVars
<1>2. CASE Application(c) /\ ~ForceSnapshot(c)
  <2>1. UNCHANGED <<serverVars, cursor, seen, engine, network>>
    BY <1>2 DEF Application, Create, Put, ReadForEdit, WriteEdit,
                RollBackWrite, ResolveByApplication, WriteAtomically, stored
  <2> QED
    BY <2>1, CursorKept DEF engine, network, serverVars
<1> QED
  BY <1>1, <1>2

\* The actions of a cycle that neither send nor apply anything.
LEMMA CursorSilent ==
  ASSUME SystemInv, [ServerNext]_serverVars, NEW c \in Client, CursorOf(c),
         \/ Dequeue(c) \/ LoadBase(c) \/ ReceiveTooOld(c) \/ ReceiveValid(c)
         \/ ReceiveInvalid(c) \/ Requeue(c) \/ Acknowledge(c)
         \/ MarkConflict(c) \/ ReadAndResolve(c) \/ PutResolved(c)
         \/ ResolveMutation(c) \/ Finish(c)
  PROVE  CursorOf(c)'
<1>0. EngineOK /\ NetworkOK /\ Control
  BY SystemTypes
<1>1. channel[c].kind # "empty" => caller # c
  BY <1>0 DEF Control
<1>2. Empty \in Requests \cup Replies /\ ReplyFits(c, Empty)
      /\ Empty.kind = "empty"
  BY EmptyReply, NoReplyFits DEF Empty
<1>3. CASE ReceiveTooOld(c) \/ ReceiveValid(c) \/ ReceiveInvalid(c)
  <2>1. /\ UNCHANGED <<serverVars, stored, caller>>
        /\ channel'[c] = Empty
        /\ \/ pc'[c] \in {"idle", "requeue"}
           \/ pc'[c] = "apply" /\ reply'[c] = channel[c]
    BY <1>0, <1>3 DEF ReceiveTooOld, ReceiveValid, ReceiveInvalid, Send, Goto,
                      EndCycle, EngineOK, NetworkOK
  <2> QED
    BY <1>2, <2>1, CursorKept DEF stored, serverVars
<1>4. CASE \/ Dequeue(c) \/ ReadAndResolve(c) \/ PutResolved(c)
           \/ ResolveMutation(c) \/ Finish(c)
  <2>1. /\ UNCHANGED <<serverVars, cursor, seen, network>>
        /\ pc'[c] \notin {"apply", "saveCursor"}
    BY <1>0, <1>4 DEF Dequeue, ReadAndResolve, PutResolved, ResolveMutation,
                      Finish, Goto, EndCycle, EngineOK, stored
  <2> QED
    BY <2>1, CursorKept DEF network, serverVars
<1>5. CASE \/ LoadBase(c) \/ Requeue(c)
  <2>1. UNCHANGED <<serverVars, cursor, seen, network, pc, reply>>
    BY <1>5 DEF LoadBase, Requeue, stored
  <2> QED
    BY <2>1, CursorKept DEF network, serverVars
<1>6. CASE Acknowledge(c) \/ MarkConflict(c)
  <2>1. /\ UNCHANGED <<serverVars, cursor, seen, network, pc>>
        /\ pc[c] = "settle"
    BY <1>6 DEF Acknowledge, MarkConflict, AtConflict
  <2> QED
    BY <2>1, CursorKept DEF network, serverVars
<1> QED
  BY <1>3, <1>4, <1>5, <1>6

LEMMA CursorRequest ==
  ASSUME SystemInv, [ServerNext]_serverVars, NEW c \in Client, CursorOf(c),
         StartSync(c) \/ RequestSnapshot(c) \/ SendRequest(c)
  PROVE  CursorOf(c)'
<1>0. EngineOK /\ NetworkOK /\ Control /\ TypeInv
  BY SystemTypes
<1>1. /\ UNCHANGED <<serverVars, stored, reply, caller>>
      /\ pc'[c] \in {"dequeue", "awaitReply"}
  BY <1>0 DEF StartSync, RequestSnapshot, SendRequest, Goto, EngineOK
<1>2. \/ channel'[c] = channel[c]
      \/ channel'[c] = SnapshotRequest(Collection)
      \/ channel'[c] = BuildRequest(c) /\ SendRequest(c)
  BY <1>0 DEF StartSync, RequestSnapshot, SendRequest, Send, NetworkOK
<1>3. CASE channel'[c] = channel[c]
  BY <1>1, <1>3, CursorKept DEF stored, serverVars
<1>4. CASE channel'[c] = SnapshotRequest(Collection)
  <2>1. channel'[c].kind = "snapshotRequest"
        /\ channel'[c].collections = Collection
        /\ channel'[c] \in Requests \cup Replies
    BY <1>4, SnapshotIsWhole DEF SnapshotRequest
  <2> QED
    BY <1>1, <2>1, CursorKept, NoReplyFits DEF stored, serverVars
<1>5. CASE channel'[c] = BuildRequest(c) /\ SendRequest(c)
  <2>1. channel'[c] \in Requests \cup Replies
        /\ channel'[c].kind = "syncRequest" /\ channel'[c].cursor = cursor[c]
    BY <1>0, <1>5, RequestType DEF SendRequest, Requests, BuildRequest
  <2>2. cursor[c] # NoCursor
    BY <1>0, <1>5 DEF SendRequest, Control
  <2> QED
    BY <1>1, <2>1, <2>2, CursorKept, NoReplyFits DEF stored, serverVars
<1> QED
  BY <1>2, <1>3, <1>4, <1>5

\* Some entry in from+1..to is for e.
ChangedAfter(e, from, to) == \E i \in (from + 1)..to : history[i].entity = e

\* What applying a reply that fits does to one entity: it is left as it is
\* and no newer entry was received, or it becomes what the newest entry says.
LEMMA ApplyShape ==
  ASSUME SystemInv, NEW c \in Client, CursorOf(c), ApplyReply(c),
         NEW e \in Entity
  PROVE  /\ reply[c].cursor \in 0..CurrentCursor
         /\ seen'[c][e] \in 0..reply[c].cursor
         /\ seen[c][e] <= seen'[c][e]
         /\ seen'[c][e] # 0 => history[seen'[c][e]].entity = e
         /\ \A i \in 1..reply[c].cursor :
              history[i].entity = e => i <= seen'[c][e]
         /\ \/ /\ seen'[c][e] = seen[c][e] /\ local'[c][e] = local[c][e]
               /\ reply[c].kind = "sync" =>
                    ~ChangedAfter(e, cursor[c], reply[c].cursor)
            \/ /\ seen'[c][e] # 0
               /\ local'[c][e] = history[seen'[c][e]].state
<1> DEFINE r == reply[c]
           isSync == r.kind = "sync"
           received == isSync \/ r.entities[e] # NoEntity
           S == IF isSync THEN r.changes ELSE 1..r.cursor
           newest == IF ~received THEN 0 ELSE Newest(e, S)
<1>0. StoredOK /\ EngineOK /\ Control /\ CurrentCursor \in Nat
  BY SystemTypes
<1>1. /\ local'[c][e] = IF newest = 0 THEN local[c][e]
                        ELSE IF isSync THEN history[newest].state
                                       ELSE r.entities[e]
      /\ seen'[c][e] = IF newest = 0 THEN seen[c][e] ELSE newest
      /\ pc[c] = "apply"
  BY <1>0 DEF ApplyReply, StoredOK
<1>2. /\ \/ isSync /\ r \in SyncReplies
         \/ ~isSync /\ r.kind = "snapshot" /\ r \in SnapshotReplies
      /\ r.cursor \in 0..CurrentCursor
  BY <1>0, <1>1, SystemTypes, ClientMessages, SyncReplyShape, SnapshotReplyShape
     DEF Control
<1>3. /\ isSync => r.changes = (cursor[c] + 1)..r.cursor /\ cursor[c] # NoCursor
      /\ ~isSync => SnapshotAt(r.entities, r.cursor)
      /\ seen[c][e] <= r.cursor
      /\ seen[c][e] # 0 => history[seen[c][e]].entity = e
      /\ Covers(c, cursor[c])
  BY <1>1, <1>2 DEF CursorOf, ReplyFits
<1>4. /\ cursor[c] \in {NoCursor} \cup 0..CurrentCursor
      /\ seen[c][e] \in 0..CurrentCursor
  BY <1>0 DEF StoredOK
<1> HIDE DEF r
<1>5. S \in SUBSET (1..CurrentCursor)
  <2>1. isSync => r.changes \in SUBSET (1..CurrentCursor)
    BY <1>2, SyncReplyShape
  <2>2. 1..r.cursor \in SUBSET (1..CurrentCursor)
    BY <1>0, <1>2
  <2> QED
    BY <2>1, <2>2
<1>6. CASE newest = 0
  <2>1. \A i \in S : history[i].entity # e
    <3>1. CASE received
      <4>1. Newest(e, S) = 0
        BY <1>6, <3>1
      <4>2. 0 \notin S
        BY <1>5
      <4> HIDE DEF S
      <4> QED
        BY <1>0, <1>5, <4>1, <4>2, NewestShape
    <3>2. CASE ~received
      <4>1. SnapshotAt(r.entities, r.cursor) /\ r.entities[e] = NoEntity
        BY <1>3, <3>2
      <4>2. \A i \in 1..r.cursor : history[i].state # NoEntity
        BY <1>0, <1>2, EntryType, SystemTypes, ServerConstants
      <4>3. \A i \in 1..r.cursor : history[i].entity # e
        BY <4>1, <4>2 DEF SnapshotAt
      <4> QED
        BY <3>2, <4>3
    <3> QED
      BY <3>1, <3>2
  <2>2. isSync => ~ChangedAfter(e, cursor[c], r.cursor)
    BY <1>3, <2>1 DEF ChangedAfter
  <2>3. ASSUME NEW i \in 1..r.cursor, history[i].entity = e
        PROVE  i <= seen[c][e]
    <3>1. isSync
      BY <2>1, <2>3
    <3>2. i \notin (cursor[c] + 1)..r.cursor
      BY <1>3, <2>1, <2>3, <3>1
    <3>3. i \in 1..cursor[c]
      BY <1>2, <1>3, <1>4, <3>1, <3>2
    <3> QED
      BY <1>3, <1>4, <2>3, <3>3 DEF Covers
  <2> QED
    BY <1>1, <1>2, <1>3, <1>4, <1>6, <2>2, <2>3 DEF r
<1>7. CASE newest # 0
  <2>1. newest = Newest(e, S) /\ received
    BY <1>7
  <2>2. /\ newest \in S /\ history[newest].entity = e
        /\ \A i \in S : history[i].entity = e => i <= newest
    <3> HIDE DEF S
    <3> QED
      BY <1>0, <1>5, <1>7, <2>1, NewestShape
  <2> HIDE DEF newest
  <2>3. newest \in 1..r.cursor
    BY <1>2, <1>3, <1>4, <1>5, <2>2
  <2>4. ASSUME NEW i \in 1..r.cursor, history[i].entity = e
        PROVE  i <= newest
    <3>1. CASE i \in S
      BY <2>2, <2>4, <3>1
    <3>2. CASE i \notin S
      <4>1. isSync /\ S = (cursor[c] + 1)..r.cursor
        BY <1>3, <3>2
      <4> QED
        BY <1>2, <1>3, <1>4, <2>2, <3>2, <4>1
    <3> QED
      BY <3>1, <3>2
  <2>5. seen[c][e] <= newest
    BY <1>2, <1>3, <1>4, <2>3, <2>4
  <2>6. local'[c][e] = history[newest].state
    <3>1. CASE isSync
      BY <1>1, <1>7, <3>1
    <3>2. CASE ~isSync
      <4>1. local'[c][e] = r.entities[e] /\ SnapshotAt(r.entities, r.cursor)
        BY <1>1, <1>3, <1>7, <3>2
      <4>2. PICK i \in 1..r.cursor :
              /\ history[i].entity = e /\ history[i].state = r.entities[e]
              /\ \A j \in (i + 1)..r.cursor : history[j].entity # e
        BY <2>1, <3>2, <4>1 DEF SnapshotAt
      <4>3. i <= newest
        BY <2>4, <4>2
      <4>4. ~(i < newest)
        BY <1>2, <2>2, <2>3, <4>2
      <4>5. i = newest
        BY <1>2, <2>3, <4>3, <4>4
      <4> QED
        BY <4>1, <4>2, <4>5
    <3> QED
      BY <3>1, <3>2
  <2> QED
    BY <1>1, <1>2, <1>7, <2>2, <2>3, <2>4, <2>5, <2>6 DEF r
<1> QED
  BY <1>6, <1>7

LEMMA CursorApply ==
  ASSUME SystemInv, NEW c \in Client, CursorOf(c), ApplyReply(c)
  PROVE  CursorOf(c)'
<1>0. EngineOK /\ Control /\ StoredOK
  BY SystemTypes
<1>1. /\ pc[c] = "apply" /\ pc'[c] = "saveCursor"
      /\ UNCHANGED <<serverVars, cursor, reply, network>>
  BY <1>0 DEF ApplyReply, Goto, EngineOK
<1>2. channel[c].kind = "empty" /\ caller # c
  BY <1>0, <1>1 DEF Control
<1>3. history' = history /\ CurrentCursor \in Nat
  BY <1>1, SystemTypes DEF serverVars
<1>4. \A e \in Entity : seen'[c][e] # 0 => history'[seen'[c][e]].entity = e
  BY <1>3, ApplyShape
<1>5. \A i \in 1..reply[c].cursor : i \in 1..CurrentCursor
  BY <1>3, ApplyShape, <1>0, <1>1, SystemTypes, ClientMessages, SyncReplyShape,
     SnapshotReplyShape DEF Control
<1>6. ASSUME NEW i \in 1..reply[c].cursor
      PROVE  seen'[c][history[i].entity] >= i
  <2>1. history[i].entity \in Entity
    BY <1>5, SystemTypes, EntryType
  <2>2. i <= seen'[c][history[i].entity]
    BY <2>1, ApplyShape
  <2>3. seen'[c][history[i].entity] \in 0..reply[c].cursor
    BY <2>1, ApplyShape
  <2> QED
    BY <2>2, <2>3
<1>7. Covers(c, reply[c].cursor)'
  BY <1>1, <1>3, <1>6 DEF Covers
<1>8. Covers(c, cursor[c])'
  <2> SUFFICES ASSUME NEW i \in 1..cursor[c]
               PROVE  seen'[c][history[i].entity] >= i
    BY <1>1, <1>3 DEF Covers
  <2>1. cursor[c] \in 0..CurrentCursor
    BY <1>0 DEF StoredOK, NoCursor
  <2>2. history[i].entity \in Entity
    BY <1>3, <2>1, SystemTypes, EntryType
  <2>3. seen[c][history[i].entity] >= i
    BY DEF CursorOf, Covers
  <2>4. seen[c][history[i].entity] <= seen'[c][history[i].entity]
        /\ seen'[c][history[i].entity] \in 0..reply[c].cursor
        /\ reply[c].cursor \in 0..CurrentCursor
    BY <2>2, ApplyShape
  <2>5. seen[c][history[i].entity] \in 0..CurrentCursor
    BY <1>0, <2>2 DEF StoredOK
  <2> QED
    BY <1>3, <2>1, <2>3, <2>4, <2>5
<1>9. UNCHANGED <<channel, caller, cursor, reply>>
  BY <1>1 DEF network
<1> QED
  BY <1>1, <1>2, <1>4, <1>7, <1>8, <1>9 DEF CursorOf, ReplyFits

LEMMA CursorSave ==
  ASSUME SystemInv, NEW c \in Client, CursorOf(c), SaveCursor(c)
  PROVE  CursorOf(c)'
<1>0. EngineOK /\ Control /\ StoredOK
  BY SystemTypes
<1>1. /\ pc[c] = "saveCursor" /\ pc'[c] \in {"settle", "finish"}
      /\ cursor'[c] = reply[c].cursor
      /\ UNCHANGED <<serverVars, seen, reply, channel, caller>>
  BY <1>0 DEF SaveCursor, Goto, EngineOK, StoredOK, network
<1>2. channel[c].kind = "empty" /\ caller # c
  BY <1>0, <1>1 DEF Control
<1>3. Covers(c, reply[c].cursor) /\ history' = history
  BY <1>1 DEF CursorOf, serverVars
<1>4. Covers(c, cursor[c])'
  BY <1>1, <1>3 DEF Covers
<1>5. \A e \in Entity : seen'[c][e] # 0 => history'[seen'[c][e]].entity = e
  BY <1>1, <1>3 DEF CursorOf
<1> QED
  BY <1>1, <1>2, <1>4, <1>5 DEF CursorOf, ReplyFits

LEMMA CursorCycle ==
  ASSUME SystemInv, [ServerNext]_serverVars, NEW c \in Client, CursorOf(c),
         Cycle(c)
  PROVE  CursorOf(c)'
  BY CursorSilent, CursorRequest, CursorApply, CursorSave DEF Cycle

LEMMA CursorFailure ==
  ASSUME SystemInv, [ServerNext]_serverVars, NEW c \in Client, CursorOf(c),
         TransportError(c) \/ Crash(c) \/ RecoverMutation(c) \/ EndRecovery(c)
  PROVE  CursorOf(c)'
<1>0. EngineOK /\ NetworkOK
  BY SystemTypes
<1>1. CASE TransportError(c) \/ Crash(c)
  <2>1. /\ UNCHANGED <<serverVars, stored>>
        /\ pc'[c] \in {"idle", "recovering"}
        /\ Abandon(c)
    BY <1>0, <1>1 DEF TransportError, Crash, EndCycle, Goto, EngineOK
  <2>2. channel'[c] = Empty /\ ~(caller' = c)
    BY <1>0, <2>1, NobodyIsNoClient DEF Abandon, Send, NetworkOK
  <2>3. Empty \in Requests \cup Replies /\ ReplyFits(c, Empty)
        /\ Empty.kind = "empty"
    BY EmptyReply, NoReplyFits DEF Empty
  <2> QED
    BY <2>1, <2>2, <2>3, CursorKept DEF stored
<1>2. CASE RecoverMutation(c)
  BY <1>2, CursorKept DEF RecoverMutation, engine, network, serverVars
<1>3. CASE EndRecovery(c)
  <2>1. /\ UNCHANGED <<serverVars, stored, network>> /\ pc'[c] = "idle"
    BY <1>0, <1>3 DEF EndRecovery, Goto, EngineOK
  <2> QED
    BY <2>1, CursorKept DEF stored, network, serverVars
<1> QED
  BY <1>1, <1>2, <1>3

\* What the server sends a client fits its cursor.
LEMMA AnswerFits ==
  ASSUME SystemInv, NEW c \in Client, CursorOf(c), caller = c, ReplyReady
  PROVE  ReplyFits(c, SyncReply)
<1>1. job.request.cursor = cursor[c] /\ cursor[c] # NoCursor
  BY DEF CursorOf
<1>2. SyncReply.kind = "sync" /\ SyncReply.cursor = CurrentCursor
  BY DEF SyncReply
<1>3. SyncReply.changes = (cursor[c] + 1)..SyncReply.cursor
  BY <1>1, EveryChange DEF SystemInv, ReplyHasEveryChange
<1>4. \A e \in Entity : seen[c][e] <= CurrentCursor
  BY SystemTypes DEF StoredOK
<1> QED
  BY <1>1, <1>2, <1>3, <1>4 DEF ReplyFits

LEMMA SnapshotFits ==
  ASSUME SystemInv, NEW c \in Client, CursorOf(c),
         channel[c].kind = "snapshotRequest"
  PROVE  ReplyFits(c, [SnapshotReply EXCEPT !.entities = [e \in Entity |->
           IF CollectionOf(e) \in channel[c].collections THEN @[e]
                                                         ELSE NoEntity]])
<1> DEFINE entities == [e \in Entity |->
             IF CollectionOf(e) \in channel[c].collections THEN store[e]
                                                           ELSE NoEntity]
           r == [kind |-> "snapshot", entities |-> entities,
                 cursor |-> CurrentCursor]
<1>1. channel[c].collections = Collection
  BY DEF CursorOf
<1>2. entities = [e \in Entity |-> store[e]]
  BY <1>1, EntityParts
<1> HIDE DEF entities
<1>3. SnapshotAt(entities, CurrentCursor)
  BY <1>2 DEF SystemInv, LogInv, StoreMatchesLog, SnapshotAt
<1>4. \A e \in Entity : seen[c][e] <= CurrentCursor
  BY SystemTypes DEF StoredOK
<1>5. ReplyFits(c, r)
  BY <1>3, <1>4 DEF ReplyFits
<1>6. [SnapshotReply EXCEPT !.entities = [e \in Entity |->
         IF CollectionOf(e) \in channel[c].collections THEN @[e]
                                                       ELSE NoEntity]] = r
  BY DEF SnapshotReply, entities
<1> QED
  BY <1>5, <1>6

LEMMA CursorServer ==
  ASSUME SystemInv, [ServerNext]_serverVars, CursorInv, Server,
         NEW c \in Client
  PROVE  CursorOf(c)'
<1>0. CursorOf(c) /\ NetworkOK /\ ServerTypeOK /\ Control
  BY SystemTypes DEF CursorInv
<1>1. ASSUME UNCHANGED <<stored, engine, channel>>,
             caller' = c => caller = c /\ job'.request = job.request
      PROVE  CursorOf(c)'
  BY <1>0, <1>1, CursorKept DEF stored, engine
<1>2. ASSUME NEW d \in Client, Serve(d) PROVE CursorOf(c)'
  <2>1. /\ UNCHANGED <<stored, engine>> /\ channel[d].kind = "syncRequest"
        /\ \/ /\ channel' = [channel EXCEPT ![d] = CursorTooOldReply]
              /\ caller' = caller /\ job' = job
           \/ /\ channel' = [channel EXCEPT ![d] = Empty]
              /\ caller' = d /\ job'.request = Payload(channel[d])
    BY <1>2 DEF Serve, Send, BeginSync, serverVars
  <2>2. \/ channel'[c] = channel[c]
        \/ channel'[c] \in {Empty, CursorTooOldReply}
    BY <1>0, <2>1 DEF NetworkOK
  <2>3. ASSUME NEW r \in {Empty, CursorTooOldReply}
        PROVE  /\ r \in Requests \cup Replies /\ ReplyFits(c, r)
               /\ r.kind \in {"empty", "tooOld"}
    BY EmptyReply, NoReplyFits DEF Empty, CursorTooOldReply
  <2>4. ASSUME caller' = c
        PROVE  \/ caller = c /\ job'.request = job.request
               \/ job'.request.cursor = cursor[c] /\ cursor[c] # NoCursor
    BY <1>0, <2>1, <2>4 DEF CursorOf, Payload
  <2> QED
    BY <1>0, <2>1, <2>2, <2>3, <2>4, CursorKept DEF stored, engine
<1>3. ASSUME NEW d \in Client, ServeSnapshot(d) PROVE CursorOf(c)'
  <2> DEFINE r == [SnapshotReply EXCEPT !.entities = [e \in Entity |->
                     IF CollectionOf(e) \in channel[d].collections
                     THEN @[e] ELSE NoEntity]]
  <2>1. /\ UNCHANGED <<serverVars, stored, engine, caller>>
        /\ channel[d].kind = "snapshotRequest"
        /\ channel' = [channel EXCEPT ![d] = r]
    BY <1>3 DEF ServeSnapshot, Send
  <2>2. r \in SnapshotReplies
    BY <1>0, PartialSnapshotType
  <2>3. ReplyFits(d, r)
    BY <2>1, SnapshotFits DEF CursorInv
  <2> HIDE DEF r
  <2>4. r.kind = "snapshot" /\ r \in Requests \cup Replies
    BY <2>2, SnapshotReplyShape DEF Replies
  <2>5. channel'[c] = channel[c] \/ (d = c /\ channel'[c] = r)
    BY <1>0, <2>1 DEF NetworkOK
  <2> QED
    BY <1>0, <2>1, <2>3, <2>4, <2>5, CursorKept DEF stored, engine, serverVars
<1>4. CASE ServeDelayed
  <2>1. ~(caller' = c) /\ UNCHANGED <<stored, engine, channel>>
    BY <1>4, NobodyIsNoClient DEF ServeDelayed
  <2> QED
    BY <1>1, <2>1
<1>5. ASSUME NEW m \in MutationId, NEW e \in Entity, PeerSync(m, e)
      PROVE  CursorOf(c)'
  <2>1. ~(caller' = c) /\ UNCHANGED <<stored, engine, channel>>
    BY <1>5, NobodyIsNoClient DEF PeerSync
  <2> QED
    BY <1>1, <2>1
<1>6. CASE Handle
  <2>1. UNCHANGED <<stored, engine, channel, caller>>
        /\ job'.request = job.request
    BY <1>0, <1>6, ProcessKeepsRequest DEF Handle, network
  <2> QED
    BY <1>1, <2>1
<1>7. CASE Answer
  <2>1. /\ UNCHANGED <<stored, engine>> /\ ~(caller' = c) /\ ReplyReady
        /\ \/ UNCHANGED channel
           \/ channel' = [channel EXCEPT ![caller] = SyncReply]
    BY <1>7, NobodyIsNoClient DEF Answer, Send, EndSync
  <2>2. channel'[c] = channel[c] \/ (caller = c /\ channel'[c] = SyncReply)
    BY <1>0, <2>1 DEF NetworkOK
  <2>3. caller = c => ReplyFits(c, SyncReply)
    BY <1>0, <2>1, AnswerFits
  <2>4. SyncReply \in Requests \cup Replies /\ SyncReply.kind = "sync"
    BY <1>0, SyncReplyType DEF Replies, SyncReply
  <2> QED
    BY <1>0, <2>1, <2>2, <2>3, <2>4, CursorKept DEF stored, engine
<1>8. CASE Prune
  BY <1>1, <1>8, PruneKeepsJob DEF network
<1> QED
  BY <1>2, <1>3, <1>4, <1>5, <1>6, <1>7, <1>8 DEF Server

LEMMA CursorStep ==
  ASSUME WholeSnapshots, SystemInv, CursorInv, [Next]_vars
  PROVE  CursorInv'
<1>0. [ServerNext]_serverVars
  BY ServerStep DEF SystemInv
<1> SUFFICES ASSUME NEW c \in Client PROVE CursorOf(c)'
  BY DEF CursorInv
<1>1. CursorOf(c)
  BY DEF CursorInv
<1>2. CASE Server
  BY <1>0, <1>2, CursorServer
<1>3. ASSUME NEW d \in Client, ClientStep(d) PROVE CursorOf(c)'
  <2>1. CASE d = c
    BY <1>0, <1>1, <1>3, <2>1, CursorApplication, CursorCycle, CursorFailure
       DEF ClientStep
  <2>2. CASE d # c
    <3>1. UNCHANGED serverVars
      BY <1>3, ClientLeavesServer
    <3> QED
      BY <1>0, <1>1, <1>3, <2>2, <3>1, CursorOther, Others, SystemTypes
         DEF serverVars
  <2> QED
    BY <2>1, <2>2
<1>4. CASE UNCHANGED vars
  <2>1. UNCHANGED Own(c) /\ caller' = caller /\ job' = job
    BY <1>4, OwnKept DEF vars, network, serverVars
  <2> QED
    BY <1>0, <1>1, <2>1, CursorOther
<1> QED
  BY <1>2, <1>3, <1>4 DEF Next, ClientStep

LEMMA CursorAlways ==
  ASSUME WholeSnapshots
  PROVE  Spec => []CursorInv
<1>1. Init => CursorInv
  <2> SUFFICES ASSUME Init, NEW c \in Client PROVE CursorOf(c)
    BY DEF CursorInv
  <2>1. /\ cursor[c] = NoCursor /\ caller = Nobody /\ channel[c] = Empty
        /\ pc[c] = "idle" /\ \A e \in Entity : seen[c][e] = 0
    BY DEF Init
  <2>2. 1..NoCursor = {}
    BY DEF NoCursor
  <2> QED
    BY <2>1, <2>2, NobodyIsNoClient DEF CursorOf, Covers, ReplyFits, Empty
<1>2. SystemInv /\ CursorInv /\ [Next]_vars => CursorInv'
  BY CursorStep
<1> QED
  BY <1>1, <1>2, SystemAlways, PTL DEF Spec

\* No crash between the transaction and saveCursor, no lost, repeated or
\* abandoned cycle moves the stored cursor past a change the client has not
\* applied (applySyncResponse, applySnapshotResponse and saveCursor; INV-3),
\* as long as forced snapshots are taken of all collections.
THEOREM CursorCovers ==
  ASSUME WholeSnapshots
  PROVE  Spec => []CursorCoversStored
<1>1. CursorInv => CursorCoversStored
  BY DEF CursorInv, CursorOf, Covers, CursorCoversStored
<1> QED
  BY <1>1, CursorAlways, PTL

=============================================================================
