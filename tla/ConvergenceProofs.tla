------------------------- MODULE ConvergenceProofs -------------------------
(***************************************************************************)
(* Proofs about the store of a client: the sequence numbers of its queue,  *)
(* the conflicts it shows the application, and its agreement with the      *)
(* server once it has nothing left to send.                                *)
(***************************************************************************)
EXTENDS ContractProofs, IntegrityChecks

(* Sequence numbers.  No number is above the last one given out, none is    *)
(* used twice and every mutation has its entity; unless a write is rolled   *)
(* back, every number given out is that of a mutation.                      *)

NumbersOf(c) ==
  \A m \in DOMAIN queue[c] :
    LET col == CollectionOf(queue[c][m].entity)
    IN /\ Exists(c, m)
       /\ queue[c][m].sequence <= sequence[c][col]
       /\ \A n \in DOMAIN queue[c] :
            (/\ CollectionOf(queue[c][n].entity) = col
             /\ queue[c][n].sequence = queue[c][m].sequence) => m = n

DenseOf(c) ==
  \A col \in Collection : \A i \in 1..sequence[c][col] :
    \E m \in OfCollection(c, col) : queue[c][m].sequence = i

NumberInv == \A c \in Client : NumbersOf(c)

DenseInv == \A c \in Client : DenseOf(c)

\* No mutation changes its entity or its number, and no entity is removed.
RecordsKept(c) ==
  /\ DOMAIN queue'[c] = DOMAIN queue[c]
  /\ \A m \in DOMAIN queue[c] :
       /\ queue'[c][m].entity = queue[c][m].entity
       /\ queue'[c][m].sequence = queue[c][m].sequence
  /\ \A e \in Entity : local'[c][e] = NoEntity => local[c][e] = NoEntity

LEMMA QueueRecordShape ==
  ASSUME QueueOK, NEW c \in Client, NEW m \in DOMAIN queue[c]
  PROVE  /\ queue[c][m].entity \in Entity
         /\ queue[c][m].sequence \in 1..MaxSequence
         /\ queue[c][m].status \in Status
         /\ CollectionOf(queue[c][m].entity) \in Collection
<1>1. queue[c][m] \in QueueRecord
  BY DEF QueueOK, IsQueue
<1>2. /\ queue[c][m].entity \in Entity
      /\ queue[c][m].sequence \in 1..MaxSequence
      /\ queue[c][m].status \in Status
  BY <1>1 DEF QueueRecord
<1> QED
  BY <1>2, EntityParts

LEMMA NumbersKept ==
  ASSUME QueueOK, NEW c \in Client, RecordsKept(c)
  PROVE  /\ NumbersOf(c) /\ sequence'[c] = sequence[c] => NumbersOf(c)'
         /\ DenseOf(c) /\ sequence'[c] = sequence[c] => DenseOf(c)'
<1>1. ASSUME NumbersOf(c), sequence'[c] = sequence[c]
      PROVE  NumbersOf(c)'
  BY <1>1, QueueRecordShape DEF NumbersOf, RecordsKept, Exists
<1>2. ASSUME DenseOf(c), sequence'[c] = sequence[c]
      PROVE  DenseOf(c)'
  BY <1>2 DEF DenseOf, RecordsKept, OfCollection
<1> QED
  BY <1>1, <1>2

LEMMA QuietRecords ==
  ASSUME NEW c \in Client, queue'[c] = queue[c], local'[c] = local[c]
  PROVE  RecordsKept(c)
BY DEF RecordsKept

LEMMA StatusRecords ==
  ASSUME QueueOK, NEW c \in Client, NEW m, NEW s, SetStatus(c, m, s),
         local' = local
  PROVE  RecordsKept(c)
<1>1. queue'[c] = [queue[c] EXCEPT ![m].status = s] /\ IsQueue(queue[c])
  BY DEF SetStatus, QueueOK
<1>2. ASSUME NEW k \in DOMAIN queue[c]
      PROVE  /\ queue'[c][k].entity = queue[c][k].entity
             /\ queue'[c][k].sequence = queue[c][k].sequence
  BY <1>1 DEF IsQueue, QueueRecord
<1> QED
  BY <1>1, <1>2 DEF RecordsKept

LEMMA ResolvedRecords ==
  ASSUME QueueOK, NEW c \in Client, NEW m, NEW v, NEW n, ResolvedTo(c, m, v, n),
         local' = local
  PROVE  RecordsKept(c)
<1>1. IsQueue(queue[c])
  BY DEF QueueOK
<1>2. ASSUME NEW k \in DOMAIN queue[c]
      PROVE  /\ queue'[c][k].entity = queue[c][k].entity
             /\ queue'[c][k].sequence = queue[c][k].sequence
  BY <1>1, <1>2 DEF IsQueue, QueueRecord, ResolvedTo
<1>3. DOMAIN queue'[c] = DOMAIN queue[c]
  BY DEF ResolvedTo
<1> QED
  BY <1>2, <1>3 DEF RecordsKept

\* What a local write does to the store of its client: a record with the next
\* number of the collection, and the entity it is about.
WriteOf(c, m, e, r) ==
  /\ Fresh(m)
  /\ e \in Entity /\ r.entity = e /\ r.status = "PENDING"
  /\ r.sequence = sequence[c][CollectionOf(e)] + 1
  /\ queue'[c] = Insert(queue[c], m, r)
  /\ sequence'[c] = [sequence[c] EXCEPT ![CollectionOf(e)] = @ + 1]
  /\ local'[c][e] # NoEntity
  /\ \A i \in Entity : i # e => local'[c][i] = local[c][i]

LEMMA WriteStores ==
  ASSUME TypeInv, NEW c \in Client, NEW m, NEW e \in Entity,
         NEW state \in EntityState, NEW known, Fresh(m),
         WriteAtomically(c, m, e, state, known)
  PROVE  \E r : WriteOf(c, m, e, r)
<1> DEFINE r == [status |-> "PENDING", entity |-> e, value |-> state.data,
                 sequence |-> NextSequence(c, e), known |-> known]
<1>0. StoredOK /\ QueueOK /\ AppOK
  BY TypeParts DEF TypeInv, StoredOK
<1>1. queue' = [queue EXCEPT ![c] = Insert(queue[c], m, r)]
  BY <1>0 DEF WriteAtomically, Enqueue, QueueOK
<1>2. /\ r.entity = e /\ r.status = "PENDING"
      /\ r.sequence = sequence[c][CollectionOf(e)] + 1
  BY DEF NextSequence
<1> HIDE DEF r
<1>3. queue'[c] = Insert(queue[c], m, r)
  BY <1>0, <1>1 DEF QueueOK
<1>4. sequence'[c] = [sequence[c] EXCEPT ![CollectionOf(e)] = @ + 1]
  BY <1>0 DEF WriteAtomically, TakeSequence, AppOK
<1>5. local' = [local EXCEPT ![c][e] = state]
  BY DEF WriteAtomically
<1>6. state # NoEntity
  BY ServerConstants
<1>7. /\ local'[c][e] # NoEntity
      /\ \A i \in Entity : i # e => local'[c][i] = local[c][i]
  BY <1>0, <1>5, <1>6 DEF StoredOK
<1> QED
  BY <1>2, <1>3, <1>4, <1>7 DEF WriteOf

LEMMA WriteNumbers ==
  ASSUME TypeInv, NEW c \in Client, NEW m, NEW e, NEW r, WriteOf(c, m, e, r)
  PROVE  /\ NumbersOf(c) => NumbersOf(c)'
         /\ DenseOf(c) => DenseOf(c)'
<1>0. QueueOK /\ AppOK
  BY TypeParts DEF TypeInv, StoredOK
<1> DEFINE last == CollectionOf(e)
<1>1. /\ DOMAIN queue'[c] = DOMAIN queue[c] \cup {m}
      /\ queue'[c][m] = r
      /\ \A k \in DOMAIN queue[c] : queue'[c][k] = queue[c][k]
  BY DEF WriteOf, Insert, Fresh
<1>2. e \in Entity /\ last \in Collection
  BY EntityParts DEF WriteOf
<1>3. sequence[c] \in [Collection -> Nat]
  BY <1>0 DEF AppOK
<1>4. /\ sequence'[c][last] = sequence[c][last] + 1
      /\ \A col \in Collection \ {last} : sequence'[c][col] = sequence[c][col]
  BY <1>2, <1>3 DEF WriteOf
<1>5. \A k \in DOMAIN queue[c] :
        /\ queue[c][k].entity \in Entity
        /\ queue[c][k].sequence \in Nat
        /\ CollectionOf(queue[c][k].entity) \in Collection
  BY <1>0, QueueRecordShape
<1>6. m \notin DOMAIN queue[c] /\ r.entity = e
        /\ r.sequence = sequence[c][last] + 1
        /\ local'[c][e] # NoEntity
        /\ \A i \in Entity : i # e => local'[c][i] = local[c][i]
  BY DEF WriteOf, Fresh
<1> HIDE DEF last
<1>7. ASSUME NumbersOf(c)
      PROVE  NumbersOf(c)'
  <2>1. \A k \in DOMAIN queue'[c] : local'[c][queue'[c][k].entity] # NoEntity
    BY <1>1, <1>5, <1>6, <1>7 DEF NumbersOf, Exists
  <2>2. \A k \in DOMAIN queue'[c] :
          queue'[c][k].sequence <= sequence'[c][CollectionOf(queue'[c][k].entity)]
    BY <1>1, <1>2, <1>3, <1>4, <1>5, <1>6, <1>7 DEF NumbersOf, last
  <2>3. ASSUME NEW k \in DOMAIN queue[c],
               CollectionOf(queue[c][k].entity) = last
        PROVE  queue[c][k].sequence # sequence[c][last] + 1
    BY <1>2, <1>3, <1>5, <1>7, <2>3 DEF NumbersOf
  <2>4. ASSUME NEW k \in DOMAIN queue'[c], NEW n \in DOMAIN queue'[c],
               CollectionOf(queue'[c][n].entity) = CollectionOf(queue'[c][k].entity),
               queue'[c][n].sequence = queue'[c][k].sequence
        PROVE  k = n
    <3>1. CASE k = m \/ n = m
      BY <1>1, <1>6, <2>3, <2>4, <3>1 DEF last
    <3>2. CASE k # m /\ n # m
      BY <1>1, <1>7, <2>4, <3>2 DEF NumbersOf
    <3> QED
      BY <3>1, <3>2
  <2> QED
    BY <2>1, <2>2, <2>4 DEF NumbersOf, Exists
<1>8. ASSUME DenseOf(c)
      PROVE  DenseOf(c)'
  <2> SUFFICES ASSUME NEW col \in Collection, NEW i \in 1..sequence'[c][col]
               PROVE  \E k \in DOMAIN queue'[c] :
                        /\ CollectionOf(queue'[c][k].entity) = col
                        /\ queue'[c][k].sequence = i
    BY DEF DenseOf, OfCollection
  <2>1. CASE col = last /\ i = sequence[c][last] + 1
    BY <1>1, <1>6, <2>1 DEF last
  <2>2. CASE ~(col = last /\ i = sequence[c][last] + 1)
    <3>1. i \in 1..sequence[c][col]
      BY <1>3, <1>4, <2>2
    <3>2. PICK k \in DOMAIN queue[c] :
            CollectionOf(queue[c][k].entity) = col /\ queue[c][k].sequence = i
      BY <1>8, <3>1 DEF DenseOf, OfCollection
    <3> QED
      BY <1>1, <3>2
  <2> QED
    BY <2>1, <2>2
<1> QED
  BY <1>7, <1>8

LEMMA LocalWrites ==
  ASSUME TypeInv, NEW c \in Client,
         \/ \E m \in MutationId, e \in Entity : Create(c, m, e) \/ Put(c, m, e)
         \/ \E t \in Task, m \in MutationId : WriteEdit(c, t, m)
  PROVE  \E m, e, r : WriteOf(c, m, e, r)
<1>0. StoredOK /\ AppOK
  BY TypeParts DEF TypeInv
<1>1. ASSUME NEW m \in MutationId, NEW e \in Entity, Create(c, m, e) \/ Put(c, m, e)
      PROVE  \E r : WriteOf(c, m, e, r)
  <2>1. PICK rev \in Nat :
          WriteAtomically(c, m, e,
            [data |-> {m}, revision |-> rev, isDeleted |-> FALSE], seen[c][e])
    <3>1. local[c][e] # NoEntity => local[c][e].revision \in Nat
      BY <1>0 DEF StoredOK, EntityState
    <3> QED
      BY <1>1, <3>1 DEF Create, Put
  <2>2. [data |-> {m}, revision |-> rev, isDeleted |-> FALSE] \in EntityState
    BY DEF EntityState, Data
  <2>3. Fresh(m)
    BY <1>1 DEF Create, Put
  <2> QED
    BY <2>1, <2>2, <2>3, WriteStores
<1>2. ASSUME NEW t \in Task, NEW m \in MutationId, WriteEdit(c, t, m)
      PROVE  \E e, r : WriteOf(c, m, e, r)
  <2> DEFINE d == drafts[c][t]
             state == [data |-> IF d.kind = "delete" THEN d.read.data
                                                   ELSE d.read.data \cup {m},
                       revision |-> d.read.revision + 1,
                       isDeleted |-> d.kind = "delete" \/ d.read.isDeleted]
  <2>1. d \in Draft
    BY <1>0, <1>2 DEF AppOK, WriteEdit
  <2>2. d.entity \in Entity /\ d.read \in EntityState /\ d.known \in Nat
    BY <2>1 DEF Draft
  <2>3. d.read.data \in Data /\ d.read.revision \in Nat
          /\ d.read.isDeleted \in BOOLEAN
    BY <2>2 DEF EntityState
  <2>4. state \in EntityState
    BY <2>3 DEF EntityState, Data
  <2>5. WriteAtomically(c, m, d.entity, state, d.known) /\ Fresh(m)
    BY <1>2 DEF WriteEdit
  <2> HIDE DEF d, state
  <2> QED
    BY <2>2, <2>4, <2>5, WriteStores
<1> QED
  BY <1>1, <1>2

LEMMA ApplicationRecords ==
  ASSUME TypeInv, NEW c \in Client, Application(c)
  PROVE  \/ RecordsKept(c) /\ sequence'[c] = sequence[c]
         \/ \E m, e, r : WriteOf(c, m, e, r)
         \/ \E e \in Entity : /\ RollBackWrite(c, e)
                              /\ UNCHANGED <<queue, local>>
<1>0. QueueOK /\ StoredOK /\ AppOK
  BY TypeParts DEF TypeInv, StoredOK
<1>1. CASE \/ \E m \in MutationId, e \in Entity : Create(c, m, e) \/ Put(c, m, e)
           \/ \E t \in Task, m \in MutationId : WriteEdit(c, t, m)
  BY <1>1, LocalWrites
<1>3. ASSUME NEW m, ResolveByApplication(c, m)
      PROVE  RecordsKept(c) /\ sequence'[c] = sequence[c]
  <2>1. PICK v : queue' = [queue EXCEPT ![c][m].status = "PENDING",
                                  ![c][m].value = v,
                                  ![c][m].known = seen[c][queue[c][m].entity]]
    BY <1>3 DEF ResolveByApplication
  <2>2. ResolvedTo(c, m, v, seen[c][queue[c][m].entity])
    BY <1>0, <2>1 DEF QueueOK, ResolvedTo
  <2>3. local' = local /\ sequence' = sequence
    BY <1>3 DEF ResolveByApplication, app
  <2> QED
    BY <1>0, <2>2, <2>3, ResolvedRecords
<1>4. ASSUME \/ \E t, e, kind : ReadForEdit(c, t, e, kind)
             \/ ForceSnapshot(c)
      PROVE  RecordsKept(c) /\ sequence'[c] = sequence[c]
  <2>1. UNCHANGED <<queue, local, sequence>>
    BY <1>4 DEF ReadForEdit, ForceSnapshot, stored, app
  <2> QED
    BY <2>1, QuietRecords
<1>5. ASSUME NEW e \in Entity, RollBackWrite(c, e)
      PROVE  UNCHANGED <<queue, local>>
  BY <1>5 DEF RollBackWrite, stored
<1> QED
  BY <1>1, <1>3, <1>4, <1>5 DEF Application

LEMMA RollBackNumbers ==
  ASSUME TypeInv, NEW c \in Client, NEW e \in Entity, RollBackWrite(c, e),
         UNCHANGED <<queue, local>>, NumbersOf(c)
  PROVE  NumbersOf(c)'
<1>0. QueueOK /\ AppOK
  BY TypeParts DEF TypeInv, StoredOK
<1>1. CollectionOf(e) \in Collection
  BY EntityParts
<1>2. sequence[c] \in [Collection -> Nat]
  BY <1>0 DEF AppOK
<1>3. sequence'[c] = [sequence[c] EXCEPT ![CollectionOf(e)] = @ + 1]
  BY <1>0 DEF RollBackWrite, TakeSequence, AppOK
<1>4. \A col \in Collection : sequence[c][col] <= sequence'[c][col]
  BY <1>1, <1>2, <1>3
<1>5. ASSUME NEW m \in DOMAIN queue[c]
      PROVE  queue[c][m].sequence <= sequence'[c][CollectionOf(queue[c][m].entity)]
  <2>1. /\ queue[c][m].sequence \in Nat
        /\ CollectionOf(queue[c][m].entity) \in Collection
    BY <1>0, QueueRecordShape
  <2>2. queue[c][m].sequence <= sequence[c][CollectionOf(queue[c][m].entity)]
    BY DEF NumbersOf
  <2>3. sequence[c][CollectionOf(queue[c][m].entity)] \in Nat
          /\ sequence'[c][CollectionOf(queue[c][m].entity)] \in Nat
    BY <1>1, <1>2, <1>3, <2>1
  <2> QED
    BY <1>4, <2>1, <2>2, <2>3
<1> QED
  BY <1>5 DEF NumbersOf, Exists

LEMMA CycleRecords ==
  ASSUME TypeInv, NEW c \in Client, Cycle(c)
  PROVE  RecordsKept(c) /\ sequence'[c] = sequence[c]
<1>0. QueueOK /\ StoredOK
  BY TypeParts DEF TypeInv, StoredOK
<1>1. sequence' = sequence
  BY DEF Cycle, StartSync, Dequeue, LoadBase, SendRequest, ReceiveTooOld,
         ReceiveValid, ReceiveInvalid, Requeue, RequestSnapshot, ApplyReply,
         SaveCursor, Acknowledge, MarkConflict, ReadAndResolve, PutResolved,
         ResolveMutation, Finish, app
<1>2. CASE \/ StartSync(c) \/ Dequeue(c) \/ LoadBase(c) \/ SendRequest(c)
           \/ ReceiveTooOld(c) \/ ReceiveValid(c) \/ ReceiveInvalid(c)
           \/ RequestSnapshot(c) \/ SaveCursor(c) \/ ReadAndResolve(c)
           \/ Finish(c)
  <2>1. UNCHANGED <<queue, local>>
    BY <1>2 DEF StartSync, Dequeue, LoadBase, SendRequest, ReceiveTooOld,
                ReceiveValid, ReceiveInvalid, RequestSnapshot, SaveCursor,
                ReadAndResolve, Finish, stored
  <2> QED
    BY <1>1, <2>1, QuietRecords
<1>3. CASE ApplyReply(c)
  <2>1. queue' = queue
    BY <1>3, QuietCycle
  <2>2. ASSUME NEW e \in Entity, local[c][e] # NoEntity
        PROVE  local'[c][e] # NoEntity
    <3> DEFINE r == reply[c]
               newest == IF ~(r.kind = "sync" \/ r.entities[e] # NoEntity) THEN 0
                         ELSE Newest(e, IF r.kind = "sync" THEN r.changes
                                                           ELSE 1..r.cursor)
    <3>1. local'[c][e] = IF newest = 0 THEN local[c][e]
                         ELSE IF r.kind = "sync" THEN history[newest].state
                                                 ELSE r.entities[e]
      BY <1>0, <1>3 DEF ApplyReply, StoredOK
    <3>2. CASE r.kind = "sync" /\ newest # 0
      <4>1. r \in SyncReplies
        BY <3>2, ClientMessages
      <4>2. r.changes \in SUBSET (1..CurrentCursor)
        BY <4>1, SyncReplyShape
      <4>3. CurrentCursor \in Nat /\ history \in Seq(LogEntry)
        BY DEF TypeInv, TypeOK, ServerTypeOK, CurrentCursor
      <4>4. newest \in 1..CurrentCursor
        BY <3>2, <4>2, <4>3, NewestShape
      <4>5. history[newest] \in LogEntry
        BY <4>3, <4>4 DEF CurrentCursor
      <4>6. history[newest].state \in EntityState
        BY <4>5 DEF LogEntry
      <4> QED
        BY <3>1, <3>2, <4>6, ServerConstants
    <3>3. CASE ~(r.kind = "sync" /\ newest # 0)
      BY <2>2, <3>1, <3>3
    <3> QED
      BY <3>2, <3>3
  <2> QED
    BY <1>1, <2>1, <2>2 DEF RecordsKept
<1>4. CASE Requeue(c) \/ Acknowledge(c) \/ MarkConflict(c)
  <2>1. local' = local /\ \E m, s : SetStatus(c, m, s)
    BY <1>4 DEF Requeue, Acknowledge, MarkConflict
  <2> QED
    BY <1>0, <1>1, <2>1, StatusRecords
<1>5. CASE PutResolved(c)
  <2>1. queue' = queue
    BY <1>5, QuietCycle
  <2>2. PICK e, s : /\ local' = [local EXCEPT ![c][e] = s]
                    /\ s \in EntityState
    <3> DEFINE k == Head(reply[c].conflicts)
               s == [data |-> resolved[c], revision |-> k.serverRevision,
                     isDeleted |-> k.serverEntity.isDeleted]
    <3>1. k \in Conflict
      BY <1>5, AtConflictShape DEF PutResolved
    <3>2. k.serverRevision \in Nat /\ k.serverEntity.isDeleted \in BOOLEAN
      BY <3>1, ConflictShape
    <3>3. resolved[c] \in Data
      BY DEF TypeInv, TypeOK
    <3>4. s \in EntityState
      BY <3>2, <3>3 DEF EntityState
    <3>5. local' = [local EXCEPT ![c][k.entity] = s]
      BY <1>5 DEF PutResolved
    <3> QED
      BY <3>4, <3>5
  <2>3. \A i \in Entity : local'[c][i] = NoEntity => local[c][i] = NoEntity
    BY <1>0, <2>2, ServerConstants DEF StoredOK
  <2> QED
    BY <1>1, <2>1, <2>3 DEF RecordsKept
<1>6. CASE ResolveMutation(c)
  <2> DEFINE k == Head(reply[c].conflicts)
  <2>1. ResolvedTo(c, k.id, resolved[c], seen[c][k.entity])
    BY <1>0, <1>6 DEF ResolveMutation, QueueOK, ResolvedTo
  <2>2. local' = local
    BY <1>6 DEF ResolveMutation
  <2> QED
    BY <1>0, <1>1, <2>1, <2>2, ResolvedRecords
<1> QED
  BY <1>2, <1>3, <1>4, <1>5, <1>6 DEF Cycle

\* A restart takes up the numbers where the queue left them.
LEMMA RestartNumbers ==
  ASSUME TypeInv, NEW c \in Client, Crash(c), NumbersOf(c)
  PROVE  /\ NumbersOf(c)'
         /\ DenseOf(c) => sequence'[c] = sequence[c]
<1>0. QueueOK /\ AppOK
  BY TypeParts DEF TypeInv, StoredOK
<1>1. UNCHANGED <<queue, local>>
  BY DEF Crash, stored
<1>2. sequence'[c] = [col \in Collection |-> HighestSequence(c, col)]
  BY <1>0 DEF Crash, AppOK
<1>3. \A col \in Collection : sequence'[c][col] = HighestSequence(c, col)
  BY <1>2
<1>4. \A m \in DOMAIN queue[c] :
        queue[c][m].sequence <= sequence'[c][CollectionOf(queue[c][m].entity)]
  BY <1>0, <1>3, QueueRecordShape, HighestShape
<1>5. NumbersOf(c)'
  BY <1>1, <1>4 DEF NumbersOf, Exists
<1>6. ASSUME DenseOf(c)
      PROVE  sequence'[c] = sequence[c]
  <2>1. sequence[c] \in [Collection -> Nat]
    BY <1>0 DEF AppOK
  <2>2. ASSUME NEW col \in Collection
        PROVE  HighestSequence(c, col) = sequence[c][col]
    <3>1. HighestSequence(c, col) \in Nat
      BY <1>0, HighestShape
    <3>2. HighestSequence(c, col) <= sequence[c][col]
      <4>1. CASE HighestSequence(c, col) = 0
        BY <2>1, <4>1
      <4>2. CASE HighestSequence(c, col) # 0
        BY <1>0, <4>2, HighestShape DEF NumbersOf
      <4> QED
        BY <4>1, <4>2
    <3>3. sequence[c][col] <= HighestSequence(c, col)
      <4>1. CASE sequence[c][col] = 0
        BY <3>1, <4>1
      <4>2. CASE sequence[c][col] # 0
        <5>1. sequence[c][col] \in 1..sequence[c][col]
          BY <2>1, <4>2
        <5>2. \E m \in OfCollection(c, col) :
                queue[c][m].sequence = sequence[c][col]
          BY <1>6, <5>1 DEF DenseOf
        <5> QED
          BY <1>0, <5>2, HighestShape DEF OfCollection
      <4> QED
        BY <4>1, <4>2
    <3> QED
      BY <2>1, <3>1, <3>2, <3>3
  <2> QED
    BY <1>2, <2>1, <2>2
<1> QED
  BY <1>5, <1>6

LEMMA ClientNumbers ==
  ASSUME TypeInv, NEW c \in Client, ClientStep(c), NumbersOf(c)
  PROVE  /\ NumbersOf(c)'
         /\ "rollback" \notin Failures /\ DenseOf(c) => DenseOf(c)'
<1>0. QueueOK
  BY TypeParts DEF TypeInv, StoredOK
<1>1. ASSUME RecordsKept(c), sequence'[c] = sequence[c]
      PROVE  NumbersOf(c)' /\ (DenseOf(c) => DenseOf(c)')
  BY <1>0, <1>1, NumbersKept
<1>2. CASE Application(c)
  <2>1. CASE \E m, e, r : WriteOf(c, m, e, r)
    BY <2>1, WriteNumbers
  <2>2. CASE \E e \in Entity : RollBackWrite(c, e) /\ UNCHANGED <<queue, local>>
    <3>1. "rollback" \in Failures
      BY <2>2 DEF RollBackWrite
    <3> QED
      BY <2>2, <3>1, RollBackNumbers
  <2> QED
    BY <1>1, <1>2, <2>1, <2>2, ApplicationRecords
<1>3. CASE Cycle(c)
  BY <1>1, <1>3, CycleRecords
<1>4. CASE Crash(c)
  <2>1. UNCHANGED <<queue, local>>
    BY <1>4 DEF Crash, stored
  <2> QED
    BY <1>1, <1>4, <2>1, QuietRecords, RestartNumbers
<1>5. CASE TransportError(c) \/ EndRecovery(c)
  <2>1. UNCHANGED <<queue, local, sequence>>
    BY <1>5 DEF TransportError, EndRecovery, stored, app
  <2> QED
    BY <1>1, <2>1, QuietRecords
<1>6. CASE RecoverMutation(c)
  <2>1. /\ local' = local /\ sequence' = sequence
        /\ \E m : SetStatus(c, m, "PENDING")
    BY <1>6 DEF RecoverMutation, app
  <2> QED
    BY <1>0, <1>1, <2>1, StatusRecords
<1> QED
  BY <1>2, <1>3, <1>4, <1>5, <1>6 DEF ClientStep

LEMMA NumberStep ==
  ASSUME TypeInv, NumberInv, [Next]_vars
  PROVE  /\ NumberInv'
         /\ "rollback" \notin Failures /\ DenseInv => DenseInv'
<1> SUFFICES ASSUME NEW d \in Client
             PROVE  /\ NumbersOf(d)'
                    /\ "rollback" \notin Failures /\ DenseOf(d) => DenseOf(d)'
  BY DEF NumberInv, DenseInv
<1>0. QueueOK /\ NumbersOf(d)
  BY TypeParts DEF TypeInv, StoredOK, NumberInv
<1>1. ASSUME UNCHANGED <<queue[d], local[d], sequence[d]>>
      PROVE  NumbersOf(d)' /\ (DenseOf(d) => DenseOf(d)')
  BY <1>0, <1>1, QuietRecords, NumbersKept
<1>2. CASE UNCHANGED vars
  BY <1>1, <1>2 DEF vars, stored, app
<1>3. CASE Server
  <2>1. UNCHANGED <<stored, app>>
    BY <1>3 DEF Server, Serve, ServeSnapshot, ServeDelayed, Handle, Answer,
                Prune, PeerSync
  <2> QED
    BY <1>1, <2>1 DEF stored, app
<1>4. ASSUME NEW c \in Client, ClientStep(c)
      PROVE  /\ NumbersOf(d)'
             /\ "rollback" \notin Failures /\ DenseOf(d) => DenseOf(d)'
  <2>1. CASE c = d
    BY <1>0, <1>4, <2>1, ClientNumbers
  <2>2. CASE c # d
    <3>1. UNCHANGED Own(d)
      BY <1>4, <2>2, Others
    <3> QED
      BY <1>1, <3>1 DEF Own
  <2> QED
    BY <2>1, <2>2
<1> QED
  BY <1>2, <1>3, <1>4 DEF Next, ClientStep

LEMMA NumberInit == Init => NumberInv /\ DenseInv
<1> SUFFICES ASSUME Init, NEW c \in Client
             PROVE  NumbersOf(c) /\ DenseOf(c)
  BY DEF NumberInv, DenseInv
<1>1. DOMAIN queue[c] = {}
  BY DEF Init
<1>2. \A col \in Collection : sequence[c][col] = 0
  BY DEF Init
<1> QED
  BY <1>1, <1>2 DEF NumbersOf, DenseOf

LEMMA NumberAlways == Spec => []NumberInv
<1>1. TypeInv /\ NumberInv /\ [Next]_vars => NumberInv'
  BY NumberStep
<1> QED
  BY <1>1, NumberInit, TypeInvAlways, PTL DEF Spec

\* No two mutations of a collection share a sequence number: whatever fails,
\* is rolled back or crashes, a restart that takes the highest number in the
\* queue never gives out one again (INV-1).
THEOREM NumbersAreUnique == Spec => []SequenceUnique
<1>1. NumberInv => SequenceUnique
  BY DEF NumberInv, NumbersOf, SequenceUnique
<1> QED
  BY <1>1, NumberAlways, PTL

LEMMA NumbersAreHealthy ==
  ASSUME TypeInv, NumberInv, DenseInv
  PROVE  NothingToReport
<1> SUFFICES ASSUME NEW c \in Client
             PROVE  IntegrityIssues(c) = {} /\ RecoveryWarnings(c) = {}
  BY DEF NothingToReport
<1>0. QueueOK /\ StoredOK /\ AppOK /\ NumbersOf(c) /\ DenseOf(c)
  BY TypeParts DEF TypeInv, StoredOK, NumberInv, DenseInv
<1>1. sequence[c] \in [Collection -> Nat]
  BY <1>0 DEF AppOK
<1>2. ASSUME NEW col \in Collection, NEW m \in OfCollection(c, col)
      PROVE  ~AfterGap(c, col, queue[c][m].sequence)
  <2> DEFINE numbers == {queue[c][k].sequence : k \in OfCollection(c, col)}
             n == queue[c][m].sequence
  <2>1. \A i \in numbers : i \in 1..sequence[c][col]
    BY <1>0, <1>1, QueueRecordShape DEF NumbersOf, OfCollection
  <2>2. \A i \in 1..sequence[c][col] : i \in numbers
    BY <1>0 DEF DenseOf
  <2>3. n \in numbers
    OBVIOUS
  <2>4. n - 1 \in numbers \/ \A i \in numbers : ~(i < n)
    <3> HIDE DEF numbers, n
    <3>1. n \in 1..sequence[c][col] /\ sequence[c][col] \in Nat
      BY <1>1, <2>1, <2>3
    <3>2. CASE n = 1
      BY <2>1, <3>2
    <3>3. CASE n # 1
      BY <2>2, <3>1, <3>3
    <3> QED
      BY <3>2, <3>3
  <2> QED
    BY <2>4 DEF AfterGap
<1>3. \A col \in Collection : \A m, n \in OfCollection(c, col) :
        queue[c][m].sequence = queue[c][n].sequence => m = n
  BY <1>0 DEF NumbersOf, OfCollection
<1>4. SequenceIssues(c) = {}
  BY <1>2, <1>3 DEF SequenceIssues
<1>5. DurabilityIssues(c) = {}
  BY <1>0, QueueRecordShape DEF DurabilityIssues
<1>6. AtomicPairIssues(c) = {}
  BY <1>0 DEF AtomicPairIssues, WithStatus, NumbersOf
<1>7. RevisionIssues(c) = {}
  <2>1. \A e \in Entity : local[c][e] # NoEntity => local[c][e].revision \in Nat
    BY <1>0 DEF StoredOK, EntityState
  <2> QED
    BY <2>1 DEF RevisionIssues
<1>8. GapWarnings(c) = {}
  <2>1. \A m \in DOMAIN queue[c] :
          /\ CollectionOf(queue[c][m].entity) \in Collection
          /\ m \in OfCollection(c, CollectionOf(queue[c][m].entity))
    BY <1>0, QueueRecordShape DEF OfCollection
  <2> QED
    BY <1>2, <2>1 DEF GapWarnings
<1>9. OrphanWarnings(c) = {}
  BY <1>0 DEF OrphanWarnings, NumbersOf
<1> QED
  BY <1>4, <1>5, <1>6, <1>7, <1>8, <1>9 DEF IntegrityIssues, RecoveryWarnings

\* Where no write is rolled back, the integrity checker and the recovery
\* manager find nothing to report in any client, between any two steps of a
\* cycle and after a crash at any of them.  A rolled back write loses its
\* number, and both report the gap.
THEOREM StoreIsHealthy ==
  ASSUME "rollback" \notin Failures
  PROVE  Spec => []NothingToReport
<1>1. TypeInv /\ NumberInv /\ DenseInv /\ [Next]_vars => DenseInv'
  BY NumberStep
<1>2. TypeInv /\ NumberInv /\ DenseInv => NothingToReport
  BY NumbersAreHealthy
<1> QED
  BY <1>1, <1>2, NumberInit, NumberAlways, TypeInvAlways, PTL DEF Spec

-----------------------------------------------------------------------------
(* Authors.  Every mutation in a queue belongs to one client, and every id   *)
(* the server handles or has logged is that of a write to that entity by a   *)
(* peer or by the client that has it in its queue.                           *)

Authored(m, e) ==
  \/ m \in PeerMutation
  \/ \E c \in Client : m \in DOMAIN queue[c] /\ queue[c][m].entity = e

AllAuthored(s) == \A k \in DOMAIN s : Authored(s[k].id, s[k].entity)

OwnerInv ==
  /\ \A c, d \in Client : \A m \in DOMAIN queue[c] :
       m \notin PeerMutation /\ (m \in DOMAIN queue[d] => c = d)
  /\ \A r \in delayed : AllAuthored(r.mutations)
  /\ job.busy => AllAuthored(job.request.mutations)
  /\ AllAuthored(history)

LEMMA OwnWrite ==
  ASSUME OwnerInv, NEW c \in Client, NEW m \in DOMAIN queue[c], NEW e,
         Authored(m, e)
  PROVE  queue[c][m].entity = e
BY DEF OwnerInv, Authored

\* A step of a client keeps its records, or adds one.
LEMMA ClientRecords ==
  ASSUME TypeInv, NEW c \in Client, ClientStep(c)
  PROVE  RecordsKept(c) \/ \E m, e, r : WriteOf(c, m, e, r)
<1>0. QueueOK
  BY TypeParts DEF TypeInv, StoredOK
<1>1. CASE Application(c)
  <2>1. CASE UNCHANGED <<queue, local>>
    BY <2>1, QuietRecords
  <2> QED
    BY <1>1, <2>1, ApplicationRecords
<1>2. CASE Cycle(c)
  BY <1>2, CycleRecords
<1>3. CASE Crash(c) \/ TransportError(c) \/ EndRecovery(c)
  <2>1. UNCHANGED <<queue, local>>
    BY <1>3 DEF Crash, TransportError, EndRecovery, stored
  <2> QED
    BY <2>1, QuietRecords
<1>4. CASE RecoverMutation(c)
  <2>1. local' = local /\ \E m : SetStatus(c, m, "PENDING")
    BY <1>4 DEF RecoverMutation
  <2> QED
    BY <1>0, <2>1, StatusRecords
<1> QED
  BY <1>1, <1>2, <1>3, <1>4 DEF ClientStep

LEMMA EntitiesKept ==
  ASSUME TypeInv, NEW c \in Client, ClientStep(c), NEW d \in Client
  PROVE  \A m \in DOMAIN queue[d] :
           m \in DOMAIN queue'[d] /\ queue'[d][m].entity = queue[d][m].entity
<1>1. CASE d # c
  BY <1>1, Others DEF Own
<1>2. CASE d = c
  <2>1. CASE RecordsKept(c)
    BY <1>2, <2>1 DEF RecordsKept
  <2>2. ASSUME NEW m, NEW e, NEW r, WriteOf(c, m, e, r)
        PROVE  \A k \in DOMAIN queue[c] : k \in DOMAIN queue'[c]
                                            /\ queue'[c][k] = queue[c][k]
    <3>1. queue'[c] = Insert(queue[c], m, r) /\ m \notin DOMAIN queue[c]
      BY <2>2 DEF WriteOf, Fresh
    <3> QED
      BY <3>1 DEF Insert
  <2> QED
    BY <1>2, <2>1, <2>2, ClientRecords
<1> QED
  BY <1>1, <1>2

LEMMA AuthoredKept ==
  ASSUME \A d \in Client : \A m \in DOMAIN queue[d] :
           m \in DOMAIN queue'[d] /\ queue'[d][m].entity = queue[d][m].entity
  PROVE  \A s : AllAuthored(s) => AllAuthored(s)'
BY DEF AllAuthored, Authored

\* What a client has on its way are writes of its own.
LEMMA SentIsAuthored ==
  ASSUME NEW c \in Client, SessionOf(c), channel[c].kind = "syncRequest"
  PROVE  AllAuthored(channel[c].mutations)
BY DEF SessionOf, BatchOf, SentOf, SameWrites, AllAuthored, Authored

LEMMA OnlyFailuresDelay ==
  ASSUME NEW c \in Client, ClientStep(c)
  PROVE  \/ delayed' = delayed
         \/ /\ "delay" \in Failures /\ channel[c].kind = "syncRequest"
            /\ delayed' = delayed \cup {channel[c]}
<1>1. CASE Application(c)
  BY <1>1 DEF Application, Create, Put, ReadForEdit, WriteEdit, RollBackWrite,
              ResolveByApplication, ForceSnapshot, WriteAtomically, network
<1>2. CASE Cycle(c)
  BY <1>2 DEF Cycle, StartSync, Dequeue, LoadBase, SendRequest, ReceiveTooOld,
              ReceiveValid, ReceiveInvalid, Requeue, RequestSnapshot,
              ApplyReply, SaveCursor, Acknowledge, MarkConflict,
              ReadAndResolve, PutResolved, ResolveMutation, Finish, network
<1>3. CASE RecoverMutation(c) \/ EndRecovery(c)
  BY <1>3 DEF RecoverMutation, EndRecovery, network
<1>4. CASE TransportError(c) \/ Crash(c)
  BY <1>4 DEF TransportError, Crash, Abandon
<1> QED
  BY <1>1, <1>2, <1>3, <1>4 DEF ClientStep

LEMMA OwnerClient ==
  ASSUME SystemInv, SessionInv, OwnerInv, NEW c \in Client, ClientStep(c)
  PROVE  OwnerInv'
<1>0. TypeInv /\ SessionOf(c)
  BY SystemTypes DEF SessionInv
<1>1. \A d \in Client : \A m \in DOMAIN queue[d] :
        m \in DOMAIN queue'[d] /\ queue'[d][m].entity = queue[d][m].entity
  BY <1>0, EntitiesKept
<1>2. \A s : AllAuthored(s) => AllAuthored(s)'
  BY <1>1, AuthoredKept
<1>3. UNCHANGED <<job, history>>
  BY ClientLeavesServer DEF serverVars
<1>4. ASSUME NEW r \in delayed'
      PROVE  AllAuthored(r.mutations)'
  <2>1. AllAuthored(r.mutations)
    BY <1>0, <1>4, OnlyFailuresDelay, SentIsAuthored DEF OwnerInv
  <2> QED
    BY <1>2, <2>1
<1>5. job'.busy => AllAuthored(job.request.mutations)'
  <2>1. CASE ~job.busy
    BY <1>3, <2>1
  <2>2. CASE job.busy
    <3>1. AllAuthored(job.request.mutations)
      BY <2>2 DEF OwnerInv
    <3> QED
      BY <1>2, <1>3, <3>1
  <2> QED
    BY <2>1, <2>2
<1>7. AllAuthored(history)'
  <2>1. AllAuthored(history)
    BY DEF OwnerInv
  <2> QED
    BY <1>2, <1>3, <2>1
<1>8. \A d \in Client : \A m \in DOMAIN queue'[d] :
        \/ m \in DOMAIN queue[d]
        \/ Fresh(m) /\ d = c
  <2>1. ASSUME NEW d \in Client, d # c
        PROVE  queue'[d] = queue[d]
    BY <1>0, <2>1, Others DEF Own
  <2>2. CASE RecordsKept(c)
    BY <2>1, <2>2 DEF RecordsKept
  <2>3. ASSUME NEW m, NEW e, NEW r, WriteOf(c, m, e, r)
        PROVE  Fresh(m) /\ DOMAIN queue'[c] = DOMAIN queue[c] \cup {m}
    BY <2>3 DEF WriteOf, Insert
  <2> QED
    BY <1>0, <2>1, <2>2, <2>3, ClientRecords
<1>9. \A a, b \in Client : \A m \in DOMAIN queue'[a] :
        m \notin PeerMutation /\ (m \in DOMAIN queue'[b] => a = b)
  BY <1>8 DEF OwnerInv, Fresh
<1> QED
  BY <1>4, <1>5, <1>7, <1>9 DEF OwnerInv

\* The server admits these mutations.
Admits(s) ==
  /\ history' = history
  /\ job'.busy /\ job'.next = 1 /\ job'.request.mutations = s
  /\ job'.acknowledged = <<>> /\ job'.conflicts = <<>>

\* The server handles the next mutation, and applies it or not.
Handles ==
  LET m == NextMutation
  IN /\ job.busy /\ job.next \in DOMAIN job.request.mutations
     /\ m = job.request.mutations[job.next] /\ m \in Mutation
     /\ job'.busy /\ job'.request = job.request /\ job'.next = job.next + 1
     /\ \/ history' = history
        \/ \E entry : /\ entry.id = m.id /\ entry.entity = m.entity
                      /\ history' = Append(history, entry)

LEMMA JobShape ==
  ASSUME ServerTypeOK
  PROVE  /\ job.busy \in BOOLEAN /\ job.next \in Nat \ {0}
         /\ job.request.mutations \in Seq(Mutation)
         /\ job.acknowledged \in Seq(MutationId)
         /\ job.conflicts \in Seq(Conflict)
BY DEF ServerTypeOK, Job, SyncRequest

LEMMA HandleHandles ==
  ASSUME SystemInv, Handle
  PROVE  Handles /\ UNCHANGED <<stored, engine, network, app>>
<1>0. ServerTypeOK
  BY SystemTypes
<1>1. Pending /\ job \in Job
  BY <1>0, HandleShape DEF Handle
<1>2. job.busy /\ job.next \in DOMAIN job.request.mutations
  BY <1>0, <1>1, JobShape DEF Pending
<1>3. NextMutation \in Mutation
  BY <1>0, <1>2, JobShape DEF NextMutation
<1>4. /\ job'.request = job.request /\ job'.next = job.next + 1
      /\ job'.busy = job.busy
  BY <1>1 DEF Handle, ProcessMutation, Deduplicate, DetectConflict, Accept, Job
<1>5. \/ history' = history
      \/ \E entry : /\ entry.id = NextMutation.id
                    /\ entry.entity = NextMutation.entity
                    /\ history' = Append(history, entry)
  <2>1. CASE Accept
    <3> DEFINE m == NextMutation
               applied == ApplyMutation(IF store[m.entity] = NoEntity
                                          THEN BlankEntity(FALSE)
                                          ELSE store[m.entity], m)
               entry == [id |-> m.id, entity |-> m.entity,
                         base |-> m.baseRevision, state |-> applied]
    <3>1. history' = Append(history, entry)
      BY <2>1 DEF Accept, AppendEntry
    <3>2. entry.id = m.id /\ entry.entity = m.entity
      OBVIOUS
    <3> HIDE DEF entry, m
    <3> QED
      BY <3>1, <3>2 DEF m
  <2>2. CASE Deduplicate \/ DetectConflict
    BY <2>2 DEF Deduplicate, DetectConflict
  <2> QED
    BY <2>1, <2>2 DEF Handle, ProcessMutation
<1> QED
  BY <1>2, <1>3, <1>4, <1>5 DEF Handles, Handle, NextMutation

\* Steps of the server, by what they do to the job, the log and the network.
Turns(c) ==
  /\ UNCHANGED <<job, history, caller>>
  /\ channel[c].kind \in {"syncRequest", "snapshotRequest"}
  /\ channel' = [channel EXCEPT ![c] = channel'[c]]
  /\ channel'[c].kind \in {"tooOld", "snapshot"}

Takes(c) ==
  /\ channel[c].kind = "syncRequest" /\ Admits(channel[c].mutations)
  /\ channel' = [channel EXCEPT ![c] = Empty] /\ caller' = c

TakesLate(r) ==
  /\ UNCHANGED channel /\ caller' = Nobody
  /\ UNCHANGED <<job, history>> \/ Admits(r.mutations)

TakesPeer(m) ==
  /\ m \in PeerMutation /\ UNCHANGED channel /\ caller' = Nobody
  /\ \E w : w.id = m /\ Admits(<<w>>)

Answers ==
  /\ job.busy /\ job' = IdleJob /\ history' = history /\ caller' = Nobody
  /\ caller = Nobody => channel' = channel
  /\ caller # Nobody => channel' = [channel EXCEPT ![caller] = SyncReply]

Rests == UNCHANGED <<job, history, channel, caller>>

LEMMA ServerMoves ==
  ASSUME SystemInv, Server
  PROVE  /\ UNCHANGED <<stored, engine, app>> /\ delayed' \subseteq delayed
         /\ \/ \E c \in Client : Turns(c) \/ Takes(c)
            \/ \E r \in delayed : TakesLate(r)
            \/ \E m \in MutationId : TakesPeer(m)
            \/ Handle /\ Handles /\ UNCHANGED network
            \/ Answers
            \/ Rests
<1>0. TypeInv /\ NetworkOK
  BY SystemTypes
<1>1. ASSUME NEW c \in Client, Serve(c)
      PROVE  /\ UNCHANGED <<stored, engine, app, delayed>>
             /\ Turns(c) \/ Takes(c)
  <2>1. UNCHANGED <<stored, engine, app, delayed>> /\ channel[c].kind = "syncRequest"
    BY <1>1 DEF Serve
  <2>2. CASE Refused(channel[c])
    <3>1. /\ UNCHANGED <<serverVars, caller>>
          /\ channel' = [channel EXCEPT ![c] = CursorTooOldReply]
      BY <1>1, <2>2 DEF Serve, Send
    <3>2. channel'[c] = CursorTooOldReply
      BY <1>0, <3>1 DEF NetworkOK
    <3>3. channel'[c].kind = "tooOld"
      BY <3>2 DEF CursorTooOldReply
    <3>4. channel' = [channel EXCEPT ![c] = channel'[c]]
      BY <3>1, <3>2
    <3>5. Turns(c)
      BY <2>1, <3>1, <3>3, <3>4 DEF serverVars, Turns
    <3> QED
      BY <2>1, <3>5
  <2>3. CASE ~Refused(channel[c])
    <3>1. /\ BeginSync(Payload(channel[c])) /\ caller' = c
          /\ channel' = [channel EXCEPT ![c] = Empty]
      BY <1>1, <2>3 DEF Serve, Send
    <3>2. Payload(channel[c]).mutations = channel[c].mutations
      BY DEF Payload
    <3>3. Admits(channel[c].mutations)
      BY <3>1, <3>2 DEF BeginSync, Admits
    <3> QED
      BY <2>1, <3>1, <3>3 DEF Takes
  <2> QED
    BY <2>2, <2>3
<1>2. ASSUME NEW c \in Client, ServeSnapshot(c)
      PROVE  /\ UNCHANGED <<stored, engine, app, delayed>>
             /\ Turns(c)
  <2>1. PICK s : channel' = [channel EXCEPT ![c] = [SnapshotReply EXCEPT !.entities = s]]
    BY <1>2 DEF ServeSnapshot, Send
  <2>2. channel'[c] = [SnapshotReply EXCEPT !.entities = s]
    BY <1>0, <2>1 DEF NetworkOK
  <2>3. channel'[c].kind = "snapshot"
    BY <2>2 DEF SnapshotReply
  <2> QED
    BY <1>2, <2>1, <2>2, <2>3 DEF ServeSnapshot, serverVars, Turns
<1>3. ASSUME ServeDelayed
      PROVE  /\ UNCHANGED <<stored, engine, app>> /\ delayed' \subseteq delayed
             /\ \E r \in delayed : TakesLate(r)
  <2>1. PICK r \in delayed :
          /\ delayed' = delayed \ {r}
          /\ IF Refused(r) THEN UNCHANGED serverVars ELSE BeginSync(Payload(r))
    BY <1>3 DEF ServeDelayed
  <2>2. Payload(r).mutations = r.mutations
    BY DEF Payload
  <2>3. UNCHANGED <<job, history>> \/ Admits(r.mutations)
    BY <2>1, <2>2 DEF serverVars, BeginSync, Admits
  <2> QED
    BY <1>3, <2>1, <2>3 DEF ServeDelayed, TakesLate
<1>4. ASSUME NEW m \in MutationId, NEW e \in Entity, PeerSync(m, e)
      PROVE  UNCHANGED <<stored, engine, app, delayed>> /\ TakesPeer(m)
  <2> DEFINE w == [id |-> m, entity |-> e, operation |-> "set", value |-> {m},
                   baseRevision |-> CurrentRevision(e)]
  <2>1. BeginSync([cursor |-> CurrentCursor, mutations |-> <<w>>])
    BY <1>4 DEF PeerSync
  <2>2. w.id = m
    OBVIOUS
  <2> HIDE DEF w
  <2>3. Admits(<<w>>)
    BY <2>1 DEF BeginSync, Admits
  <2> QED
    BY <1>4, <2>2, <2>3 DEF PeerSync, TakesPeer
<1>5. ASSUME Handle
      PROVE  Handles /\ UNCHANGED <<stored, engine, network, app>>
  BY <1>5, HandleHandles
<1>6. ASSUME Answer
      PROVE  UNCHANGED <<stored, engine, app, delayed>> /\ Answers
  BY <1>6 DEF Answer, EndSync, ReplyReady, Send, Answers
<1>7. ASSUME Prune
      PROVE  UNCHANGED <<stored, engine, app, delayed>> /\ Rests
  BY <1>7 DEF Prune, SetMinimumAvailableCursor, network, Rests
<1>8. UNCHANGED network => UNCHANGED delayed
  BY DEF network
<1> QED
  BY <1>1, <1>2, <1>3, <1>4, <1>5, <1>6, <1>7, <1>8 DEF Server

LEMMA OwnerServer ==
  ASSUME SystemInv, SessionInv, OwnerInv, Server
  PROVE  OwnerInv'
<1>0. ServerTypeOK /\ TypeInv
  BY SystemTypes
<1>1. UNCHANGED <<queue>> /\ delayed' \subseteq delayed
  BY ServerMoves DEF stored
<1>2. \A s : AllAuthored(s) => AllAuthored(s)'
  <2>1. \A d \in Client : \A m \in DOMAIN queue[d] :
          m \in DOMAIN queue'[d] /\ queue'[d][m].entity = queue[d][m].entity
    BY <1>1
  <2> QED
    BY <2>1, AuthoredKept
<1>3. AllAuthored(history)
  BY DEF OwnerInv
<1>4. job.busy => AllAuthored(job.request.mutations)
  BY DEF OwnerInv
<1>5. ASSUME NEW r \in delayed'
      PROVE  AllAuthored(r.mutations)'
  <2>1. AllAuthored(r.mutations)
    BY <1>1, <1>5 DEF OwnerInv
  <2> QED
    BY <1>2, <2>1
<1>6. \A c, d \in Client : \A m \in DOMAIN queue'[c] :
        m \notin PeerMutation /\ (m \in DOMAIN queue'[d] => c = d)
  BY <1>1 DEF OwnerInv
<1>7. ASSUME NEW s, AllAuthored(s), Admits(s)
      PROVE  AllAuthored(history)' /\ AllAuthored(job.request.mutations)'
  <2>1. history' = history /\ job'.request.mutations = s
    BY <1>7 DEF Admits
  <2> QED
    BY <1>2, <1>3, <1>7, <2>1
<1>8. ASSUME UNCHANGED <<job, history>>
      PROVE  /\ AllAuthored(history)'
             /\ job'.busy => AllAuthored(job.request.mutations)'
  <2>1. AllAuthored(history)'
    BY <1>2, <1>3, <1>8
  <2>2. CASE job.busy
    BY <1>2, <1>4, <1>8, <2>1, <2>2
  <2>3. CASE ~job.busy
    BY <1>8, <2>1, <2>3
  <2> QED
    BY <2>2, <2>3
<1>9. AllAuthored(history)' /\ (job'.busy => AllAuthored(job.request.mutations)')
  <2>1. ASSUME NEW c \in Client, Turns(c) \/ Rests
        PROVE  UNCHANGED <<job, history>>
    BY <2>1 DEF Turns, Rests
  <2>2. ASSUME NEW c \in Client, Takes(c)
        PROVE  AllAuthored(channel[c].mutations) /\ Admits(channel[c].mutations)
    BY <2>2, SentIsAuthored DEF Takes, SessionInv
  <2>3. ASSUME NEW r \in delayed, TakesLate(r)
        PROVE  UNCHANGED <<job, history>> \/ Admits(r.mutations)
    BY <2>3 DEF TakesLate
  <2>4. ASSUME NEW r \in delayed
        PROVE  AllAuthored(r.mutations)
    BY DEF OwnerInv
  <2>5. ASSUME NEW m \in MutationId, TakesPeer(m)
        PROVE  \E s : AllAuthored(s) /\ Admits(s)
    <3>1. PICK w : w.id = m /\ m \in PeerMutation /\ Admits(<<w>>)
      BY <2>5 DEF TakesPeer
    <3>2. AllAuthored(<<w>>)
      BY <3>1 DEF AllAuthored, Authored
    <3> QED
      BY <3>1, <3>2
  <2>6. CASE Handles
    <3>1. /\ job.busy /\ job'.request = job.request
          /\ Authored(NextMutation.id, NextMutation.entity)
      BY <1>4, <2>6 DEF Handles, AllAuthored
    <3>2. AllAuthored(job.request.mutations)'
      BY <1>2, <1>4, <3>1
    <3>3. CASE history' = history
      BY <1>2, <1>3, <3>2, <3>3
    <3>4. ASSUME NEW entry, entry.id = NextMutation.id,
                 entry.entity = NextMutation.entity,
                 history' = Append(history, entry)
          PROVE  AllAuthored(history)'
      <4>1. history \in Seq(LogEntry)
        BY <1>0 DEF ServerTypeOK
      <4>2. \A k \in DOMAIN history' :
              (k \in DOMAIN history /\ history'[k] = history[k])
                \/ history'[k] = entry
        BY <3>4, <4>1
      <4>3. \A k \in DOMAIN history' :
              Authored(history'[k].id, history'[k].entity)
        BY <1>3, <3>1, <3>4, <4>2 DEF AllAuthored
      <4>4. AllAuthored(history')
        BY <4>3 DEF AllAuthored
      <4> QED
        BY <1>2, <4>4
    <3> QED
      BY <2>6, <3>2, <3>3, <3>4 DEF Handles
  <2>7. CASE Answers
    <3>1. ~job'.busy /\ history' = history
      BY <2>7 DEF Answers, IdleJob
    <3> QED
      BY <1>2, <1>3, <3>1
  <2>8. CASE Rests
    BY <1>8, <2>8 DEF Rests
  <2> QED
    BY <1>7, <1>8, <2>1, <2>2, <2>3, <2>4, <2>5, <2>6, <2>7, <2>8, ServerMoves
<1> QED
  BY <1>5, <1>6, <1>9 DEF OwnerInv

LEMMA OwnerStep ==
  ASSUME SystemInv, SessionInv, OwnerInv, [Next]_vars
  PROVE  OwnerInv'
<1>1. CASE UNCHANGED vars
  <2>1. UNCHANGED <<queue, delayed, job, history>>
    BY <1>1 DEF vars, stored, network, serverVars
  <2> QED
    BY <2>1 DEF OwnerInv, AllAuthored, Authored
<1> QED
  BY <1>1, OwnerClient, OwnerServer DEF Next, ClientStep

LEMMA OwnerInit == Init => OwnerInv
<1> SUFFICES ASSUME Init PROVE OwnerInv
  OBVIOUS
<1>1. \A c \in Client : DOMAIN queue[c] = {}
  BY DEF Init
<1>2. delayed = {} /\ ~job.busy /\ DOMAIN history = {}
  BY DEF Init, ServerInit, IdleJob
<1> QED
  BY <1>1, <1>2 DEF OwnerInv, AllAuthored

LEMMA OwnerAlways == Spec => []OwnerInv
<1>1. SystemInv /\ SessionInv /\ OwnerInv /\ [Next]_vars => OwnerInv'
  BY OwnerStep
<1> QED
  BY <1>1, OwnerInit, SystemAlways, SessionAlways, PTL DEF Spec

-----------------------------------------------------------------------------
(* Conflicts.  A mutation reported as a conflict is neither in the log nor   *)
(* in what is left of the request being handled: as long as no request       *)
(* arrives after its client gave up on it and the server forgets no id, it   *)
(* can only be applied once it is sent again.                                *)

Remaining ==
  IF job.busy
    THEN {job.request.mutations[k].id : k \in job.next..Len(job.request.mutations)}
    ELSE {}

Untouched(m) == ~Applied(m) /\ m \notin Remaining

AllUntouched(S) == \A m \in S : Untouched(m)

ConflictOf(c) ==
  /\ AllUntouched(WithStatus(c, "CONFLICT"))
  /\ channel[c].kind = "sync" => AllUntouched(IdsOf(channel[c].conflicts))
  /\ reply[c].kind = "sync" => AllUntouched(IdsOf(reply[c].conflicts))
  /\ caller = c => AllUntouched(IdsOf(job.conflicts))
  /\ \A m \in Remaining \cap DOMAIN queue[c] :
       Unsettled(c, m) /\ channel[c].kind # "sync" /\ reply[c].kind # "sync"

ConflictInv == \A c \in Client : ConflictOf(c)

Prompt == delayed = {} /\ minimumCursor = 0

LEMMA ConflictKept ==
  ASSUME NEW c \in Client, ConflictOf(c), UNCHANGED <<job, history>>,
         AllUntouched(WithStatus(c, "CONFLICT")'),
         channel'[c].kind = "sync" => channel'[c] = channel[c],
         reply'[c].kind = "sync" =>
           \/ reply'[c] = channel[c]
           \/ /\ reply[c].kind = "sync"
              /\ IdsOf(reply'[c].conflicts) \subseteq IdsOf(reply[c].conflicts),
         caller' = c => caller = c,
         \A m \in Remaining : m \in DOMAIN queue'[c] =>
           m \in DOMAIN queue[c] /\ Unsettled(c, m)'
  PROVE  ConflictOf(c)'
<1>1. Remaining' = Remaining
  BY DEF Remaining
<1>2. \A m : Untouched(m) => Untouched(m)'
  BY <1>1 DEF Untouched, Applied, CurrentCursor
<1>3. \A S : AllUntouched(S) => AllUntouched(S)'
  BY <1>2 DEF AllUntouched
<1>4. AllUntouched(WithStatus(c, "CONFLICT"))'
  BY <1>3
<1>5. channel'[c].kind = "sync" => AllUntouched(IdsOf(channel[c].conflicts))'
  <2>1. CASE channel'[c].kind = "sync"
    <3>1. channel'[c] = channel[c] /\ AllUntouched(IdsOf(channel[c].conflicts))
      BY <2>1 DEF ConflictOf
    <3>2. IdsOf(channel[c].conflicts)' = IdsOf(channel[c].conflicts)
      BY <3>1 DEF IdsOf
    <3> QED
      BY <1>3, <3>1, <3>2
  <2> QED
    BY <2>1
<1>6. reply'[c].kind = "sync" => AllUntouched(IdsOf(reply[c].conflicts))'
  <2>1. CASE reply'[c].kind = "sync"
    <3>1. AllUntouched(IdsOf(reply'[c].conflicts))
      BY <2>1 DEF ConflictOf, AllUntouched
    <3>2. IdsOf(reply[c].conflicts)' = IdsOf(reply'[c].conflicts)
      BY DEF IdsOf
    <3> QED
      BY <1>3, <3>1, <3>2
  <2> QED
    BY <2>1
<1>7. caller' = c => AllUntouched(IdsOf(job.conflicts))'
  <2>1. IdsOf(job.conflicts)' = IdsOf(job.conflicts)
    BY DEF IdsOf
  <2> QED
    BY <1>3, <2>1 DEF ConflictOf
<1>8. \A m \in Remaining' \cap DOMAIN queue'[c] :
        Unsettled(c, m)' /\ channel'[c].kind # "sync" /\ reply'[c].kind # "sync"
  BY <1>1 DEF ConflictOf
<1> QED
  BY <1>4, <1>5, <1>6, <1>7, <1>8 DEF ConflictOf

LEMMA RemainingAuthored ==
  ASSUME ServerTypeOK, OwnerInv, NEW m, Fresh(m)
  PROVE  m \notin Remaining
<1>1. ASSUME m \in Remaining
      PROVE  FALSE
  <2>1. job.busy
    BY <1>1 DEF Remaining
  <2>2. PICK k \in job.next..Len(job.request.mutations) :
          m = job.request.mutations[k].id
    BY <1>1, <2>1 DEF Remaining
  <2>3. k \in DOMAIN job.request.mutations
    BY <2>2, JobShape
  <2>4. AllAuthored(job.request.mutations)
    BY <2>1 DEF OwnerInv
  <2>5. Authored(m, job.request.mutations[k].entity)
    BY <2>2, <2>3, <2>4 DEF AllAuthored
  <2> QED
    BY <2>5 DEF Authored, Fresh
<1> QED
  BY <1>1

\* What a step of a client does to its messages: no client makes a reply, and
\* what is left of one only shrinks.
LEMMA ClientReplies ==
  ASSUME SystemInv, NEW c \in Client, ClientStep(c)
  PROVE  /\ channel'[c].kind = "sync" => channel'[c] = channel[c]
         /\ reply'[c].kind = "sync" =>
              \/ reply'[c] = channel[c]
              \/ /\ reply[c].kind = "sync"
                 /\ IdsOf(reply'[c].conflicts) \subseteq IdsOf(reply[c].conflicts)
         /\ caller' = c => caller = c
<1>0. TypeInv /\ EngineOK /\ NetworkOK /\ Control
  BY SystemTypes
<1>1. CASE Application(c)
  <2>1. CASE ForceSnapshot(c)
    <3>1. /\ reply' = reply /\ caller' = caller
          /\ \E cols : channel' = [channel EXCEPT ![c] = SnapshotRequest(cols)]
      BY <2>1 DEF ForceSnapshot, Send
    <3>2. channel'[c].kind = "snapshotRequest"
      BY <1>0, <3>1 DEF NetworkOK, SnapshotRequest
    <3> QED
      BY <3>1, <3>2
  <2>2. CASE ~ForceSnapshot(c)
    BY <1>1, <2>2 DEF Application, Create, Put, ReadForEdit, WriteEdit,
           RollBackWrite, ResolveByApplication, WriteAtomically, engine, network
  <2> QED
    BY <2>1, <2>2
<1>2. CASE Cycle(c)
  <2>1. channel'[c] = channel[c]
        \/ channel'[c] \in {Empty, SnapshotRequest(Collection), BuildRequest(c)}
    BY <1>0, <1>2, CycleMessages
  <2>2. channel'[c].kind = "sync" => channel'[c] = channel[c]
    BY <2>1, RequestKinds
  <2>3. caller' = caller
    BY <1>2 DEF Cycle, StartSync, Dequeue, LoadBase, SendRequest, ReceiveTooOld,
                ReceiveValid, ReceiveInvalid, Requeue, RequestSnapshot,
                ApplyReply, SaveCursor, Acknowledge, MarkConflict,
                ReadAndResolve, PutResolved, ResolveMutation, Finish, network
  <2>4. ASSUME reply'[c].kind = "sync", reply'[c] # channel[c]
        PROVE  /\ reply[c].kind = "sync"
               /\ IdsOf(reply'[c].conflicts) \subseteq IdsOf(reply[c].conflicts)
    <3>1. CASE reply'[c] = reply[c]
      BY <2>4, <3>1
    <3>2. CASE /\ Acknowledge(c)
               /\ reply'[c] = [reply[c] EXCEPT !.acknowledged = Tail(@)]
      <4>1. /\ pc[c] = "settle" /\ reply[c].acknowledged # <<>>
        BY <3>2 DEF Acknowledge
      <4>2. reply[c].kind = "sync" /\ reply[c] \in SyncReplies
        BY <1>0, <4>1, ClientMessages DEF Control
      <4>3. reply'[c].conflicts = reply[c].conflicts
        BY <3>2, <4>2 DEF SyncReplies
      <4> QED
        BY <4>2, <4>3
    <3>3. CASE /\ MarkConflict(c) \/ ResolveMutation(c)
               /\ reply'[c] = [reply[c] EXCEPT !.conflicts = Tail(@)]
      <4>1. reply[c] \in SyncReplies /\ reply[c].conflicts # <<>>
        BY <1>0, <3>3, AtConflictShape DEF MarkConflict, ResolveMutation
      <4>2. /\ reply'[c].conflicts = Tail(reply[c].conflicts)
            /\ reply[c].kind = "sync" /\ reply[c].conflicts \in Seq(Conflict)
        BY <3>3, <4>1 DEF SyncReplies
      <4> QED
        BY <4>1, <4>2, TailItems
    <3>4. reply'[c] # Empty
      BY <2>4 DEF Empty
    <3> QED
      BY <1>0, <1>2, <2>4, <3>1, <3>2, <3>3, <3>4, CycleMessages
  <2> QED
    BY <2>2, <2>3, <2>4
<1>3. CASE TransportError(c) \/ Crash(c)
  <2>1. channel'[c] = Empty /\ caller' # c
    BY <1>0, <1>3, AbandonType, NobodyIsNoClient, ClientLeavesServer
       DEF TransportError, Crash, NetworkOK, ClientStep
  <2>2. reply'[c] = Empty
    BY <1>0, <1>3 DEF TransportError, Crash, EndCycle, EngineOK
  <2> QED
    BY <2>1, <2>2 DEF Empty
<1>4. CASE RecoverMutation(c) \/ EndRecovery(c)
  BY <1>4 DEF RecoverMutation, EndRecovery, engine, network
<1> QED
  BY <1>1, <1>2, <1>3, <1>4 DEF ClientStep

\* What a step of a client does to its queue, settling apart.
LEMMA ClientStatuses ==
  ASSUME SystemInv, NEW c \in Client, ClientStep(c)
  PROVE  \/ /\ QueueKept(c)
            /\ WithStatus(c, "CONFLICT")' \subseteq WithStatus(c, "CONFLICT")
            /\ \A m \in DOMAIN queue'[c] : m \in DOMAIN queue[c] \/ Fresh(m)
         \/ Acknowledge(c) \/ MarkConflict(c)
<1>0. TypeInv /\ QueueOK
  BY SystemTypes DEF StoredOK
<1>1. CASE queue'[c] = queue[c]
  BY <1>1 DEF QueueKept, WithStatus, Unsettled
<1>2. ASSUME NEW m, NEW r, Fresh(m), r.status = "PENDING",
             queue'[c] = Insert(queue[c], m, r)
      PROVE  /\ QueueKept(c)
             /\ WithStatus(c, "CONFLICT")' \subseteq WithStatus(c, "CONFLICT")
             /\ \A k \in DOMAIN queue'[c] : k \in DOMAIN queue[c] \/ Fresh(k)
  BY <1>2 DEF QueueKept, WithStatus, Unsettled, Insert, Fresh
<1>3. ASSUME NEW m, NEW v, NEW n, ResolvedTo(c, m, v, n)
      PROVE  /\ QueueKept(c)
             /\ WithStatus(c, "CONFLICT")' \subseteq WithStatus(c, "CONFLICT")
             /\ \A k \in DOMAIN queue'[c] : k \in DOMAIN queue[c]
  BY <1>0, <1>3, ResolvedKept DEF WithStatus
<1>4. ASSUME NEW m, NEW s \in {"PENDING", "IN_FLIGHT"}, SetStatus(c, m, s)
      PROVE  /\ QueueKept(c)
             /\ WithStatus(c, "CONFLICT")' \subseteq WithStatus(c, "CONFLICT")
             /\ \A k \in DOMAIN queue'[c] : k \in DOMAIN queue[c]
  <2>1. DOMAIN queue'[c] = DOMAIN queue[c]
    BY <1>0, <1>4 DEF SetStatus, QueueOK
  <2> QED
    BY <1>0, <1>4, <2>1, StatusKept DEF WithStatus
<1>5. CASE Application(c)
  BY <1>0, <1>1, <1>2, <1>3, <1>5, ApplicationQueue
<1>6. CASE Cycle(c)
  <2>1. CASE Requeue(c)
    BY <1>4, <2>1 DEF Requeue
  <2>2. CASE ResolveMutation(c)
    <3> DEFINE k == Head(reply[c].conflicts)
    <3>1. ResolvedTo(c, k.id, resolved[c], seen[c][k.entity])
      BY <1>0, <2>2 DEF ResolveMutation, QueueOK, ResolvedTo
    <3> QED
      BY <1>3, <3>1
  <2> QED
    BY <1>1, <1>6, <2>1, <2>2, QuietCycle DEF Cycle
<1>7. CASE TransportError(c) \/ Crash(c) \/ EndRecovery(c)
  BY <1>1, <1>7 DEF TransportError, Crash, EndRecovery, stored
<1>8. CASE RecoverMutation(c)
  BY <1>4, <1>8 DEF RecoverMutation
<1> QED
  BY <1>5, <1>6, <1>7, <1>8 DEF ClientStep

LEMMA ConflictClient ==
  ASSUME SystemInv, SessionInv, OwnerInv, NEW c \in Client, ConflictOf(c),
         ClientStep(c)
  PROVE  ConflictOf(c)'
<1>0. TypeInv /\ ServerTypeOK /\ QueueOK /\ Control
  BY SystemTypes DEF StoredOK
<1>1. UNCHANGED <<job, history>>
  BY ClientLeavesServer DEF serverVars
<1>2. ASSUME AllUntouched(WithStatus(c, "CONFLICT")'),
             \A m \in Remaining : m \in DOMAIN queue'[c] =>
               m \in DOMAIN queue[c] /\ Unsettled(c, m)'
      PROVE  ConflictOf(c)'
  BY <1>1, <1>2, ClientReplies, ConflictKept
<1>3. CASE /\ QueueKept(c)
           /\ WithStatus(c, "CONFLICT")' \subseteq WithStatus(c, "CONFLICT")
           /\ \A m \in DOMAIN queue'[c] : m \in DOMAIN queue[c] \/ Fresh(m)
  <2>1. AllUntouched(WithStatus(c, "CONFLICT")')
    BY <1>3 DEF ConflictOf, AllUntouched
  <2>2. ASSUME NEW m \in Remaining, m \in DOMAIN queue'[c]
        PROVE  m \in DOMAIN queue[c] /\ Unsettled(c, m)'
    <3>1. m \in DOMAIN queue[c]
      BY <1>0, <1>3, <2>2, RemainingAuthored
    <3>2. Unsettled(c, m)
      BY <2>2, <3>1 DEF ConflictOf
    <3> QED
      BY <1>3, <3>1, <3>2, UnsettledKept
  <2> QED
    BY <1>2, <2>1, <2>2
<1>4. ASSUME NEW h, NEW s, SetStatus(c, h, s), reply[c].kind = "sync",
             s = "CONFLICT" => Untouched(h)
      PROVE  ConflictOf(c)'
  <2>1. DOMAIN queue'[c] = DOMAIN queue[c]
    BY <1>0, <1>4 DEF SetStatus, QueueOK
  <2>2. WithStatus(c, "CONFLICT")' \subseteq
          WithStatus(c, "CONFLICT") \cup (IF s = "CONFLICT" THEN {h} ELSE {})
    BY <1>0, <1>4, <2>1, StatusKept DEF WithStatus
  <2>3. AllUntouched(WithStatus(c, "CONFLICT")')
    BY <1>4, <2>2 DEF ConflictOf, AllUntouched
  <2>4. \A m \in Remaining : m \notin DOMAIN queue'[c]
    BY <1>4, <2>1 DEF ConflictOf
  <2> QED
    BY <1>2, <2>3, <2>4
<1>5. CASE Acknowledge(c)
  <2>1. reply[c].kind = "sync"
    BY <1>0, <1>5 DEF Acknowledge, Control
  <2> QED
    BY <1>4, <1>5, <2>1 DEF Acknowledge
<1>6. CASE MarkConflict(c)
  <2>1. reply[c] \in SyncReplies /\ reply[c].conflicts # <<>>
    BY <1>0, <1>6, AtConflictShape DEF MarkConflict
  <2>2. reply[c].kind = "sync" /\ reply[c].conflicts \in Seq(Conflict)
    BY <2>1, SyncReplyShape
  <2>3. Head(reply[c].conflicts).id \in IdsOf(reply[c].conflicts)
    BY <2>1, <2>2, TailItems
  <2>4. Untouched(Head(reply[c].conflicts).id)
    BY <2>2, <2>3 DEF ConflictOf, AllUntouched
  <2> QED
    BY <1>4, <1>6, <2>2, <2>4 DEF MarkConflict
<1> QED
  BY <1>3, <1>5, <1>6, ClientStatuses

\* The mutations a client was told are in conflict, or is about to be.
Reported(c) ==
  WithStatus(c, "CONFLICT")
    \cup (IF channel[c].kind = "sync" THEN IdsOf(channel[c].conflicts) ELSE {})
    \cup (IF reply[c].kind = "sync" THEN IdsOf(reply[c].conflicts) ELSE {})

LEMMA ReportedIsOwn ==
  ASSUME NEW c \in Client, SessionOf(c)
  PROVE  /\ Reported(c) \subseteq DOMAIN queue[c]
         /\ caller = c => IdsOf(job.conflicts) \subseteq DOMAIN queue[c]
         /\ IdsOf(batch[c]) \subseteq DOMAIN queue[c]
<1>1. IdsOf(batch[c]) \subseteq DOMAIN queue[c]
  BY DEF SessionOf, BatchOf, IdsOf
<1>2. \A a, k : Outcomes(c, a, k) => IdsOf(k) \subseteq DOMAIN queue[c]
  BY <1>1 DEF Outcomes
<1>3. channel[c].kind = "sync" => Outcomes(c, channel[c].acknowledged, channel[c].conflicts)
  BY DEF SessionOf, SentOf
<1>4. reply[c].kind = "sync" => Outcomes(c, reply[c].acknowledged, reply[c].conflicts)
  BY DEF SessionOf, SettleOf
<1>5. caller = c => Outcomes(c, job.acknowledged, job.conflicts)
  BY DEF SessionOf, SentOf
<1> QED
  BY <1>1, <1>2, <1>3, <1>4, <1>5 DEF Reported, WithStatus

LEMMA ConflictServed ==
  ASSUME NEW c \in Client, UNCHANGED <<queue, reply>>,
         \A m \in Reported(c) : Untouched(m)',
         \/ channel'[c] = channel[c]
         \/ channel'[c].kind # "sync"
         \/ \A m \in IdsOf(channel'[c].conflicts) : Untouched(m)',
         caller' = c => \A m \in IdsOf(job'.conflicts) : Untouched(m)',
         \A m \in Remaining' \cap DOMAIN queue[c] :
           Unsettled(c, m) /\ channel'[c].kind # "sync" /\ reply[c].kind # "sync"
  PROVE  ConflictOf(c)'
<1>1. \A s : IdsOf(s)' = IdsOf(s)
  BY DEF IdsOf
<1>2. AllUntouched(WithStatus(c, "CONFLICT"))'
  BY DEF AllUntouched, Reported, WithStatus
<1>3. channel'[c].kind = "sync" => AllUntouched(IdsOf(channel[c].conflicts))'
  <2>1. CASE channel'[c] = channel[c]
    <3>1. IdsOf(channel[c].conflicts)' = IdsOf(channel[c].conflicts)
      BY <2>1 DEF IdsOf
    <3> QED
      BY <2>1, <3>1 DEF AllUntouched, Reported
  <2>2. CASE \A m \in IdsOf(channel'[c].conflicts) : Untouched(m)'
    <3>1. IdsOf(channel[c].conflicts)' = IdsOf(channel'[c].conflicts)
      BY DEF IdsOf
    <3> QED
      BY <2>2, <3>1 DEF AllUntouched
  <2> QED
    BY <2>1, <2>2
<1>4. reply'[c].kind = "sync" => AllUntouched(IdsOf(reply[c].conflicts))'
  <2>1. IdsOf(reply[c].conflicts)' = IdsOf(reply[c].conflicts)
    BY DEF IdsOf
  <2> QED
    BY <2>1 DEF AllUntouched, Reported
<1>5. caller' = c => AllUntouched(IdsOf(job.conflicts))'
  <2>1. IdsOf(job.conflicts)' = IdsOf(job'.conflicts)
    BY DEF IdsOf
  <2> QED
    BY <2>1 DEF AllUntouched
<1>6. \A m \in Remaining' \cap DOMAIN queue'[c] :
        Unsettled(c, m)' /\ channel'[c].kind # "sync" /\ reply'[c].kind # "sync"
  BY DEF Unsettled
<1> QED
  BY <1>2, <1>3, <1>4, <1>5, <1>6 DEF ConflictOf

LEMMA AdmitsRemaining ==
  ASSUME NEW S, NEW s \in Seq(S), Admits(s)
  PROVE  /\ Remaining' = IdsOf(s)
         /\ \A m : ~Applied(m) => ~Applied(m)'
         /\ job'.conflicts = <<>>
<1>1. Remaining' = {s[k].id : k \in 1..Len(s)}
  BY DEF Admits, Remaining
<1>2. DOMAIN s = 1..Len(s)
  OBVIOUS
<1>3. \A m : ~Applied(m) => ~Applied(m)'
  BY DEF Admits, Applied, CurrentCursor
<1> QED
  BY <1>1, <1>2, <1>3 DEF IdsOf, Admits

LEMMA ConflictAdmits ==
  ASSUME SystemInv, SessionInv, OwnerInv, NEW c \in Client, Takes(c),
         UNCHANGED <<queue, reply>>, NEW d \in Client, ConflictOf(d)
  PROVE  ConflictOf(d)'
<1>0. TypeInv /\ Control /\ NetworkOK
  BY SystemTypes
<1>1. /\ channel[c].kind = "syncRequest" /\ Admits(channel[c].mutations)
      /\ channel' = [channel EXCEPT ![c] = Empty] /\ caller' = c
  BY DEF Takes
<1>2. channel[c].mutations \in Seq(Mutation)
  BY <1>0, <1>1, ChannelPayload, SyncRequestShape
<1>3. /\ Remaining' = IdsOf(channel[c].mutations)
      /\ \A m : ~Applied(m) => ~Applied(m)'
      /\ job'.conflicts = <<>>
  BY <1>1, <1>2, AdmitsRemaining
<1>4. SessionOf(c) /\ SessionOf(d)
  BY DEF SessionInv
<1>5. pc[c] = "awaitReply"
  BY <1>0, <1>1 DEF Control
<1>6. /\ Remaining' = IdsOf(batch[c])
      /\ \A m \in IdsOf(batch[c]) : Unsettled(c, m)
  <2>1. SameWrites(c, channel[c].mutations)
    BY <1>1, <1>4 DEF SessionOf, SentOf
  <2>2. IdsOf(channel[c].mutations) = IdsOf(batch[c])
    BY <2>1 DEF SameWrites, IdsOf
  <2> QED
    BY <1>3, <1>4, <1>5, <2>2 DEF SessionOf, BatchOf, OpenCycle
<1>7. reply[c].kind # "sync"
  BY <1>4, <1>5 DEF SessionOf, SettleOf, Settling
<1>8. \A m \in Reported(d) : m \notin Remaining'
  <2>1. CASE d = c
    <3>1. Reported(c) = WithStatus(c, "CONFLICT")
      BY <1>1, <1>7 DEF Reported
    <3> QED
      BY <1>6, <2>1, <3>1 DEF WithStatus, Unsettled
  <2>2. CASE d # c
    BY <1>4, <1>6, <2>2, ReportedIsOwn DEF OwnerInv
  <2> QED
    BY <2>1, <2>2
<1>9. \A m \in Reported(d) : Untouched(m)'
  <2>1. \A m \in Reported(d) : Untouched(m)
    BY DEF Reported, ConflictOf, AllUntouched
  <2> QED
    BY <1>3, <1>8, <2>1 DEF Untouched
<1>10. channel'[d] = channel[d] \/ channel'[d].kind # "sync"
  BY <1>0, <1>1 DEF NetworkOK, Empty
<1>11. caller' = d => \A m \in IdsOf(job'.conflicts) : Untouched(m)'
  BY <1>3, NoItems
<1>12. ASSUME NEW m \in Remaining' \cap DOMAIN queue[d]
       PROVE  /\ Unsettled(d, m) /\ channel'[d].kind # "sync"
              /\ reply[d].kind # "sync"
  <2>1. d = c
    BY <1>4, <1>6, ReportedIsOwn DEF OwnerInv
  <2>2. channel'[c].kind = "empty"
    BY <1>0, <1>1 DEF NetworkOK, Empty
  <2> QED
    BY <1>6, <1>7, <2>1, <2>2
<1> QED
  BY <1>9, <1>10, <1>11, <1>12, ConflictServed

LEMMA HandlesRemaining ==
  ASSUME ServerTypeOK, Handles
  PROVE  /\ NextMutation.id \in Remaining /\ Remaining' \subseteq Remaining
         /\ \A m : Untouched(m) => Untouched(m)'
         /\ \A m \in Remaining' : \E k \in DOMAIN job.request.mutations :
              m = job.request.mutations[k].id /\ k # job.next
<1>1. /\ job.next \in 1..Len(job.request.mutations)
      /\ DOMAIN job.request.mutations = 1..Len(job.request.mutations)
      /\ Len(job.request.mutations) \in Nat
  BY JobShape DEF Handles
<1>2. Remaining = {job.request.mutations[k].id :
                     k \in job.next..Len(job.request.mutations)}
  BY DEF Handles, Remaining
<1>3. Remaining' = {job.request.mutations[k].id :
                      k \in (job.next + 1)..Len(job.request.mutations)}
  BY DEF Handles, Remaining
<1>4. NextMutation.id \in Remaining
  BY <1>1, <1>2 DEF NextMutation
<1>5. Remaining' \subseteq Remaining
  BY <1>1, <1>2, <1>3
<1>6. \A m : Applied(m)' => Applied(m) \/ m = NextMutation.id
  <2>1. CASE history' = history
    BY <2>1 DEF Applied, CurrentCursor
  <2>2. ASSUME NEW entry, entry.id = NextMutation.id,
               history' = Append(history, entry)
        PROVE  \A m : Applied(m)' => Applied(m) \/ m = NextMutation.id
    <3>1. history \in Seq(LogEntry)
      BY DEF ServerTypeOK
    <3>2. /\ Len(history') = Len(history) + 1
          /\ \A i \in 1..Len(history') :
               (i \in 1..Len(history) /\ history'[i] = history[i])
                 \/ history'[i] = entry
      BY <2>2, <3>1
    <3> QED
      BY <2>2, <3>2 DEF Applied, CurrentCursor
  <2> QED
    BY <2>1, <2>2 DEF Handles
<1>7. \A m : Untouched(m) => Untouched(m)'
  BY <1>4, <1>5, <1>6 DEF Untouched
<1>8. \A m \in Remaining' : \E k \in DOMAIN job.request.mutations :
        m = job.request.mutations[k].id /\ k # job.next
  BY <1>1, <1>3
<1> QED
  BY <1>4, <1>5, <1>7, <1>8

\* While the server forgets nothing, what it does not remember is not logged.
LEMMA UntrackedIsNotApplied ==
  ASSUME SystemInv, minimumCursor = 0, NEW m \in MutationId, tracker[m] = 0
  PROVE  ~Applied(m)
<1>0. ServerTypeOK /\ WindowTracked /\ CurrentCursor \in Nat
  BY SystemTypes DEF SystemInv, WindowInv
<1>1. ASSUME NEW i \in 1..CurrentCursor, history[i].id = m
      PROVE  FALSE
  <2>1. m # NoMutation
    BY ServerConstants
  <2>2. tracker[m] >= i
    BY <1>0, <1>1, <2>1 DEF WindowTracked
  <2> QED
    BY <1>0, <2>2
<1> QED
  BY <1>1 DEF Applied

LEMMA ConflictHandles ==
  ASSUME SystemInv, SessionInv, OwnerInv, Prompt, Handle, Handles,
         UNCHANGED <<queue, reply, network>>, NEW d \in Client, ConflictOf(d)
  PROVE  ConflictOf(d)'
<1>0. TypeInv /\ ServerTypeOK /\ SessionOf(d)
  BY SystemTypes DEF SessionInv
<1>1. /\ Remaining' \subseteq Remaining
      /\ \A m : Untouched(m) => Untouched(m)'
      /\ \A m \in Remaining' : \E k \in DOMAIN job.request.mutations :
           m = job.request.mutations[k].id /\ k # job.next
  BY <1>0, HandlesRemaining
<1>2. UNCHANGED <<channel, caller>>
  BY DEF network
<1>3. \A m \in Reported(d) : Untouched(m)'
  BY <1>1 DEF Reported, ConflictOf, AllUntouched
<1>4. ASSUME caller' = d, NEW m \in IdsOf(job'.conflicts)
      PROVE  Untouched(m)'
  <2> DEFINE n == NextMutation
  <2>1. caller = d
    BY <1>2, <1>4
  <2>2. \A k \in IdsOf(job.conflicts) : Untouched(k)'
    BY <1>1, <2>1 DEF ConflictOf, AllUntouched
  <2>3. CASE job'.conflicts = job.conflicts
    BY <1>4, <2>2, <2>3
  <2>4. CASE /\ DetectConflict /\ ConflictWith(n) \in Conflict
             /\ job'.conflicts = Append(job.conflicts, ConflictWith(n))
    <3>1. m \in IdsOf(job.conflicts) \/ m = n.id
      <4>1. job.conflicts \in Seq(Conflict)
        BY <1>0, JobShape
      <4>2. IdsOf(job'.conflicts) = IdsOf(job.conflicts) \cup {ConflictWith(n).id}
        BY <2>4, <4>1, AppendItems
      <4>3. ConflictWith(n).id = n.id
        BY DEF ConflictWith
      <4> QED
        BY <1>4, <4>2, <4>3
    <3>2. n.id \notin Remaining'
      <4>1. SameWrites(d, job.request.mutations) /\ Distinct(batch[d])
        BY <1>0, <2>1 DEF SessionOf, SentOf, BatchOf
      <4>2. \A i, j \in DOMAIN job.request.mutations :
              job.request.mutations[i].id = job.request.mutations[j].id => i = j
        BY <4>1 DEF SameWrites, Distinct
      <4>3. /\ job.next \in DOMAIN job.request.mutations
            /\ n.id = job.request.mutations[job.next].id
        BY DEF Handles
      <4> QED
        BY <1>1, <4>2, <4>3
    <3>3. \A k : k = n.id => ~Applied(k)'
      <4>1. ~Tracked(n) /\ history' = history
        BY <2>4 DEF DetectConflict
      <4>2. n.id \in MutationId
        BY DEF Handles, Mutation
      <4>3. ~Applied(n.id)
        BY <4>1, <4>2, UntrackedIsNotApplied DEF Tracked, Prompt
      <4>4. \A k : ~Applied(k) => ~Applied(k)'
        BY <4>1 DEF Applied, CurrentCursor
      <4> QED
        BY <4>3, <4>4
    <3> HIDE DEF n
    <3> QED
      BY <2>2, <3>1, <3>2, <3>3 DEF Untouched
  <2> QED
    BY <1>0, <2>3, <2>4, HandleShape DEF Handle
<1>5. \A m \in Remaining' \cap DOMAIN queue[d] :
        /\ Unsettled(d, m) /\ channel'[d].kind # "sync"
        /\ reply[d].kind # "sync"
  BY <1>1, <1>2 DEF ConflictOf
<1> QED
  BY <1>2, <1>3, <1>4, <1>5, ConflictServed

LEMMA ConflictAnswers ==
  ASSUME SystemInv, SessionInv, Answers, UNCHANGED <<queue, reply>>,
         NEW d \in Client, ConflictOf(d)
  PROVE  ConflictOf(d)'
<1>0. NetworkOK /\ SessionOf(d)
  BY SystemTypes DEF SessionInv
<1>1. Remaining' = {}
  BY DEF Answers, IdleJob, Remaining
<1>2. \A m : ~Applied(m) => ~Applied(m)'
  BY DEF Answers, Applied, CurrentCursor
<1>3. \A m : Untouched(m) => Untouched(m)'
  BY <1>1, <1>2 DEF Untouched
<1>4. \A m \in Reported(d) : Untouched(m)'
  BY <1>3 DEF Reported, ConflictOf, AllUntouched
<1>5. \/ channel'[d] = channel[d]
      \/ channel'[d].kind # "sync"
      \/ \A m \in IdsOf(channel'[d].conflicts) : Untouched(m)'
  <2>1. CASE caller = d
    <3>1. channel'[d] = SyncReply
      BY <1>0, <2>1, NobodyIsNoClient DEF Answers, NetworkOK
    <3>2. channel'[d].conflicts = job.conflicts
      BY <3>1 DEF SyncReply
    <3> QED
      BY <1>3, <2>1, <3>2 DEF ConflictOf, AllUntouched
  <2>2. CASE caller # d
    BY <1>0, <2>2 DEF Answers, NetworkOK
  <2> QED
    BY <2>1, <2>2
<1>6. caller' # d
  BY NobodyIsNoClient DEF Answers
<1> QED
  BY <1>1, <1>4, <1>5, <1>6, ConflictServed

LEMMA ConflictServer ==
  ASSUME SystemInv, SessionInv, OwnerInv, Prompt, Server,
         NEW d \in Client, ConflictOf(d)
  PROVE  ConflictOf(d)'
<1>0. NetworkOK /\ SessionOf(d)
  BY SystemTypes DEF SessionInv
<1>1. UNCHANGED <<queue, reply>>
  BY ServerMoves DEF stored, engine
<1>2. ASSUME UNCHANGED <<job, history>>,
             channel'[d] = channel[d] \/ channel'[d].kind # "sync",
             caller' = d => caller = d
      PROVE  ConflictOf(d)'
  <2>1. Remaining' = Remaining
    BY <1>2 DEF Remaining
  <2>2. \A m : Untouched(m) => Untouched(m)'
    BY <1>2, <2>1 DEF Untouched, Applied, CurrentCursor
  <2>3. \A m \in Reported(d) : Untouched(m)'
    BY <2>2 DEF Reported, ConflictOf, AllUntouched
  <2>4. caller' = d => \A m \in IdsOf(job'.conflicts) : Untouched(m)'
    BY <1>2, <2>2 DEF ConflictOf, AllUntouched
  <2> QED
    BY <1>1, <1>2, <2>1, <2>3, <2>4, ConflictServed DEF ConflictOf
<1>3. ASSUME NEW c \in Client, Turns(c)
      PROVE  ConflictOf(d)'
  BY <1>0, <1>2, <1>3 DEF Turns, NetworkOK
<1>4. ASSUME NEW m \in MutationId, TakesPeer(m)
      PROVE  ConflictOf(d)'
  <2>1. PICK w : w.id = m /\ Admits(<<w>>)
    BY <1>4 DEF TakesPeer
  <2>2. /\ m \in PeerMutation /\ channel' = channel /\ caller' = Nobody
    BY <1>4 DEF TakesPeer
  <2>3. /\ Remaining' = IdsOf(<<w>>)
        /\ \A k : ~Applied(k) => ~Applied(k)'
    <3>1. <<w>> \in Seq({w})
      OBVIOUS
    <3> QED
      BY <2>1, <3>1, AdmitsRemaining
  <2>4. Remaining' = {m}
    BY <2>1, <2>3 DEF IdsOf
  <2>5. m \notin DOMAIN queue[d]
    BY <2>2 DEF OwnerInv
  <2>6. \A k \in Reported(d) : Untouched(k)'
    <3>1. \A k \in Reported(d) : Untouched(k) /\ k # m
      BY <1>0, <2>5, ReportedIsOwn DEF Reported, ConflictOf, AllUntouched
    <3> QED
      BY <2>3, <2>4, <3>1 DEF Untouched
  <2>7. caller' # d
    BY <2>2, NobodyIsNoClient
  <2> QED
    BY <1>1, <2>2, <2>4, <2>5, <2>6, <2>7, ConflictServed
<1>5. CASE Rests
  BY <1>2, <1>5 DEF Rests
<1> QED
  BY <1>1, <1>3, <1>4, <1>5, ServerMoves, ConflictAdmits, ConflictHandles,
     ConflictAnswers DEF Prompt

LEMMA ConflictStep ==
  ASSUME SystemInv, SessionInv, OwnerInv, Prompt, ConflictInv, [Next]_vars
  PROVE  ConflictInv'
<1> SUFFICES ASSUME NEW d \in Client
             PROVE  ConflictOf(d)'
  BY DEF ConflictInv
<1>0. TypeInv /\ ConflictOf(d)
  BY SystemTypes DEF ConflictInv
<1>1. ASSUME UNCHANGED <<job, history, queue[d], channel[d], reply[d]>>,
             caller' = d => caller = d
      PROVE  ConflictOf(d)'
  BY <1>0, <1>1, ConflictKept DEF ConflictOf, WithStatus, Unsettled
<1>2. CASE UNCHANGED vars
  BY <1>1, <1>2 DEF vars, serverVars, stored, engine, network
<1>3. ASSUME NEW c \in Client, ClientStep(c)
      PROVE  ConflictOf(d)'
  <2>1. CASE c = d
    BY <1>0, <1>3, <2>1, ConflictClient
  <2>2. CASE c # d
    <3>1. UNCHANGED Own(d) /\ (caller' = d => caller = d)
      BY <1>0, <1>3, <2>2, Others
    <3>2. UNCHANGED <<job, history>>
      BY <1>3, ClientLeavesServer DEF serverVars
    <3> QED
      BY <1>1, <3>1, <3>2 DEF Own
  <2> QED
    BY <2>1, <2>2
<1> QED
  BY <1>0, <1>2, <1>3, ConflictServer DEF Next, ClientStep

LEMMA ConflictInit == Init => ConflictInv /\ Prompt
<1> SUFFICES ASSUME Init PROVE ConflictInv /\ Prompt
  OBVIOUS
<1>1. Remaining = {} /\ caller = Nobody
  BY DEF Init, ServerInit, IdleJob, Remaining
<1>2. \A c \in Client :
        /\ WithStatus(c, "CONFLICT") = {}
        /\ channel[c].kind # "sync" /\ reply[c].kind # "sync"
  BY DEF Init, WithStatus, Empty
<1>3. Prompt
  BY DEF Prompt, Init, ServerInit
<1> QED
  BY <1>1, <1>2, <1>3, NobodyIsNoClient DEF ConflictInv, ConflictOf, AllUntouched

\* No request overtakes its client and no id is forgotten.
StaysPrompt == "delay" \notin Failures /\ MaxHorizon = 0

LEMMA PromptStep ==
  ASSUME StaysPrompt, SystemInv, Prompt, [Next]_vars
  PROVE  Prompt'
<1>1. CASE UNCHANGED vars
  BY <1>1 DEF Prompt, vars, serverVars, network
<1>2. ASSUME NEW c \in Client, ClientStep(c)
      PROVE  Prompt'
  BY <1>2, OnlyFailuresDelay, ClientLeavesServer
     DEF Prompt, StaysPrompt, serverVars
<1>3. CASE Server
  <2>1. delayed' = {}
    BY <1>3, ServerMoves DEF Prompt
  <2>2. ~Prune
    <3>1. minimumCursor = 0 /\ MaxHorizon = 0
      BY DEF Prompt, StaysPrompt
    <3>2. ~\E n \in (0 + 1)..0 : TRUE
      OBVIOUS
    <3> QED
      BY <3>1, <3>2 DEF Prune
  <2>3. minimumCursor' = minimumCursor
    BY <1>3, <2>2 DEF Server, Serve, ServeSnapshot, ServeDelayed, PeerSync,
           Handle, Answer, BeginSync, EndSync, ProcessMutation, Deduplicate,
           DetectConflict, Accept, serverVars
  <2> QED
    BY <2>1, <2>3 DEF Prompt
<1> QED
  BY <1>1, <1>2, <1>3 DEF Next, ClientStep

\* Where no request overtakes its client and the retention horizon stays at
\* the start of the log, the application is never asked to decide about a
\* write that took effect: a mutation settled as CONFLICT is not in the log.
\* A request handled after its client gave up on it, or an id the server
\* forgot, breaks this: the write sent again meets its own first application.
THEOREM ConflictsAreOpen ==
  ASSUME StaysPrompt
  PROVE  Spec => []ConflictNotApplied
<1>1. SystemInv /\ Prompt /\ [Next]_vars => Prompt'
  BY PromptStep
<1>2. SystemInv /\ SessionInv /\ OwnerInv /\ Prompt /\ ConflictInv /\ [Next]_vars
        => ConflictInv'
  BY ConflictStep
<1>3. ConflictInv => ConflictNotApplied
  BY DEF ConflictInv, ConflictOf, ConflictNotApplied, AllUntouched, Untouched
<1> QED
  BY <1>1, <1>2, <1>3, ConflictInit, SystemAlways, SessionAlways, OwnerAlways,
     PTL DEF Spec

-----------------------------------------------------------------------------
(* Convergence.  An entity of a client is what it last stored of the log, or *)
(* a mutation of its own says why not: one that is not acknowledged, and     *)
(* that the server has not applied or applied after what the client stored.  *)
(* A reply that acknowledges it brings a change of the entity.               *)

Clean(c, e) ==
  local[c][e] = IF seen[c][e] = 0 THEN NoEntity ELSE history[seen[c][e]].state

Unseen(c, e, m) ==
  /\ m \in DOMAIN queue[c]
  /\ queue[c][m].entity = e /\ queue[c][m].status # "ACKNOWLEDGED"
  /\ tracker[m] = 0 \/ tracker[m] > seen[c][e]

\* Once the mutations of A are acknowledged, with no change to store ...
Held(c, A) ==
  \A e \in Entity : Clean(c, e) \/ \E m : Unseen(c, e, m) /\ m \notin A

\* ... or with the changes up to n.
Explained(c, A, n) ==
  \A e \in Entity :
    \/ Clean(c, e)
    \/ \E m : Unseen(c, e, m) /\ (m \in A => ChangedAfter(e, cursor[c], n))

\* A conflicting mutation is not applied by the point a reply tells of.
OpenAt(conflicts, n) ==
  \A m \in IdsOf(conflicts) : tracker[m] = 0 \/ tracker[m] > n

Brings(c, r) ==
  /\ Explained(c, ItemsOf(r.acknowledged), r.cursor)
  /\ OpenAt(r.conflicts, r.cursor)

\* What is left of a reply once its changes are stored.
Leaves(c, r) ==
  /\ Held(c, ItemsOf(r.acknowledged))
  /\ OpenAt(r.conflicts, r.cursor)
  /\ \A e \in Entity : seen[c][e] <= r.cursor

ConvergeOf(c) ==
  /\ Held(c, {})
  /\ caller = c => /\ Explained(c, ItemsOf(job.acknowledged), CurrentCursor)
                   /\ \A m \in IdsOf(job.conflicts) : tracker[m] = 0
  /\ channel[c].kind = "sync" => Brings(c, channel[c])
  /\ reply[c].kind = "sync" =>
       IF pc[c] = "apply" THEN Brings(c, reply[c]) ELSE Leaves(c, reply[c])

ConvergeInv == \A c \in Client : ConvergeOf(c)

\* The mutations a reply may tell of.
LEMMA OutcomeSets ==
  ASSUME NEW c \in Client, SessionOf(c)
  PROVE  /\ caller = c =>
              /\ ItemsOf(job.acknowledged) \subseteq DOMAIN queue[c]
              /\ IdsOf(job.conflicts) \subseteq DOMAIN queue[c]
         /\ \A r \in {channel[c], reply[c]} : r.kind = "sync" =>
              /\ ItemsOf(r.acknowledged) \subseteq DOMAIN queue[c]
              /\ IdsOf(r.conflicts) \subseteq DOMAIN queue[c]
<1>1. \A a, k : Outcomes(c, a, k) =>
        ItemsOf(a) \subseteq DOMAIN queue[c] /\ IdsOf(k) \subseteq DOMAIN queue[c]
  BY ReportedIsOwn DEF Outcomes
<1>2. channel[c].kind = "sync" => Outcomes(c, channel[c].acknowledged, channel[c].conflicts)
  BY DEF SessionOf, SentOf
<1>3. reply[c].kind = "sync" => Outcomes(c, reply[c].acknowledged, reply[c].conflicts)
  BY DEF SessionOf, SettleOf
<1>4. caller = c => Outcomes(c, job.acknowledged, job.conflicts)
  BY DEF SessionOf, SentOf
<1> QED
  BY <1>1, <1>2, <1>3, <1>4

\* An id is forgotten or its mutation applied now; otherwise its entry stays.
LEMMA TrackerMoves ==
  ASSUME ServerTypeOK, [ServerNext]_serverVars, NEW m \in MutationId
  PROVE  tracker'[m] \in {tracker[m], 0, CurrentCursor + 1}
<1>0. tracker \in [MutationId -> 0..CurrentCursor]
  BY DEF ServerTypeOK
<1>1. CASE UNCHANGED tracker
  BY <1>1
<1>2. CASE Accept
  BY <1>0, <1>2 DEF Accept, CurrentCursor
<1>3. ASSUME NEW n \in Nat, SetMinimumAvailableCursor(n)
      PROVE  tracker'[m] \in {tracker[m], 0}
  BY <1>3 DEF SetMinimumAvailableCursor
<1>4. ASSUME NEW r, BeginSync(r)
      PROVE  UNCHANGED tracker
  BY <1>4 DEF BeginSync
<1>5. ASSUME NEW e, NEW s, SeedEntity(e, s)
      PROVE  UNCHANGED tracker
  BY <1>5 DEF SeedEntity
<1> QED
  BY <1>1, <1>2, <1>3, <1>4, <1>5 DEF ServerNext, ProcessMutation, Deduplicate,
     DetectConflict, EndSync, serverVars

LEMMA NotYetApplied ==
  ASSUME SystemInv, [ServerNext]_serverVars, NEW m \in MutationId,
         NEW n \in 0..CurrentCursor, tracker[m] = 0 \/ tracker[m] > n
  PROVE  tracker'[m] = 0 \/ tracker'[m] > n
<1>1. ServerTypeOK /\ CurrentCursor \in Nat
  BY SystemTypes
<1>2. tracker'[m] \in {tracker[m], 0, CurrentCursor + 1}
  BY <1>1, TrackerMoves
<1> QED
  BY <1>1, <1>2

\* No record is lost or acknowledged.
NoneAcknowledged(c) ==
  \A m \in DOMAIN queue[c] :
    /\ m \in DOMAIN queue'[c] /\ queue'[c][m].entity = queue[c][m].entity
    /\ queue[c][m].status # "ACKNOWLEDGED" => queue'[c][m].status # "ACKNOWLEDGED"

\* What explained the entities of a client still does, or a write made now.
Stays(c) ==
  /\ \A e \in Entity : \A m : Unseen(c, e, m) => Unseen(c, e, m)'
  /\ \A e \in Entity : Clean(c, e) =>
       Clean(c, e)' \/ \E m : Unseen(c, e, m)' /\ m \notin DOMAIN queue[c]

LEMMA UnseenKept ==
  ASSUME SystemInv, [ServerNext]_serverVars, NEW c \in Client,
         NoneAcknowledged(c), NEW e \in Entity, seen'[c][e] = seen[c][e],
         NEW m, Unseen(c, e, m)
  PROVE  Unseen(c, e, m)'
<1>1. m \in MutationId /\ seen[c][e] \in 0..CurrentCursor
  BY SystemTypes DEF Unseen, StoredOK, QueueOK, IsQueue
<1>2. tracker'[m] = 0 \/ tracker'[m] > seen[c][e]
  BY <1>1, NotYetApplied DEF Unseen
<1> QED
  BY <1>2 DEF Unseen, NoneAcknowledged

LEMMA CleanKept ==
  ASSUME SystemInv, [ServerNext]_serverVars, NEW c \in Client,
         NEW e \in Entity, seen'[c][e] = seen[c][e],
         local'[c][e] = local[c][e], Clean(c, e)
  PROVE  Clean(c, e)'
<1>1. seen[c][e] \in 0..CurrentCursor /\ CurrentCursor \in Nat /\ ServerTypeOK
  BY SystemTypes DEF StoredOK
<1>2. seen[c][e] # 0 => history'[seen[c][e]] = history[seen[c][e]]
  BY <1>1, LogGrows
<1> QED
  BY <1>2 DEF Clean

LEMMA StaysSo ==
  ASSUME SystemInv, [ServerNext]_serverVars, NEW c \in Client,
         NoneAcknowledged(c), seen'[c] = seen[c],
         \A e \in Entity :
           \/ local'[c][e] = local[c][e]
           \/ \E m : Unseen(c, e, m)' /\ m \notin DOMAIN queue[c]
  PROVE  Stays(c)
<1>1. \A e \in Entity : \A m : Unseen(c, e, m) => Unseen(c, e, m)'
  BY UnseenKept
<1>2. \A e \in Entity : Clean(c, e) /\ local'[c][e] = local[c][e] => Clean(c, e)'
  BY CleanKept
<1> QED
  BY <1>1, <1>2 DEF Stays

LEMMA HeldKept ==
  ASSUME NEW c \in Client, Stays(c), NEW A \in SUBSET DOMAIN queue[c], Held(c, A)
  PROVE  Held(c, A)'
BY DEF Held, Stays

LEMMA ExplainedKept ==
  ASSUME SystemInv, [ServerNext]_serverVars, NEW c \in Client, Stays(c),
         cursor'[c] = cursor[c], cursor[c] # NoCursor,
         NEW A \in SUBSET DOMAIN queue[c], NEW n \in 0..CurrentCursor,
         Explained(c, A, n)
  PROVE  Explained(c, A, n)'
<1> SUFFICES ASSUME NEW e \in Entity
             PROVE  \/ Clean(c, e)'
                    \/ \E m : /\ Unseen(c, e, m)'
                              /\ m \in A => ChangedAfter(e, cursor[c], n)'
  BY DEF Explained
<1>1. CASE Clean(c, e)
  BY <1>1 DEF Stays
<1>2. CASE ~Clean(c, e)
  <2>1. PICK m : Unseen(c, e, m) /\ (m \in A => ChangedAfter(e, cursor[c], n))
    BY <1>2 DEF Explained
  <2>2. /\ cursor[c] \in 0..CurrentCursor /\ CurrentCursor \in Nat
        /\ ServerTypeOK
    BY SystemTypes DEF StoredOK
  <2>3. \A i \in (cursor[c] + 1)..n : history'[i] = history[i]
    BY <2>2, LogGrows
  <2>4. ChangedAfter(e, cursor[c], n) => ChangedAfter(e, cursor[c], n)'
    BY <2>3 DEF ChangedAfter
  <2> QED
    BY <2>1, <2>4 DEF Stays
<1> QED
  BY <1>1, <1>2

LEMMA OpenKept ==
  ASSUME SystemInv, [ServerNext]_serverVars, NEW c \in Client, NEW k,
         IdsOf(k) \subseteq DOMAIN queue[c], NEW n \in 0..CurrentCursor,
         OpenAt(k, n)
  PROVE  OpenAt(k, n)'
<1>1. \A m \in IdsOf(k) : m \in MutationId
  BY SystemTypes DEF StoredOK, QueueOK, IsQueue
<1>2. \A m \in IdsOf(k) : tracker'[m] = 0 \/ tracker'[m] > n
  BY <1>1, NotYetApplied DEF OpenAt
<1> QED
  BY <1>2 DEF OpenAt, IdsOf

LEMMA BringsKept ==
  ASSUME SystemInv, [ServerNext]_serverVars, NEW c \in Client, Stays(c),
         cursor'[c] = cursor[c], cursor[c] # NoCursor,
         NEW r, r.cursor \in 0..CurrentCursor,
         ItemsOf(r.acknowledged) \subseteq DOMAIN queue[c],
         IdsOf(r.conflicts) \subseteq DOMAIN queue[c],
         Brings(c, r)
  PROVE  Brings(c, r)'
<1>1. \A A : ItemsOf(r.acknowledged) = A => Explained(c, A, r.cursor)'
  BY ExplainedKept DEF Brings
<1>2. OpenAt(r.conflicts, r.cursor)'
  BY OpenKept DEF Brings
<1> QED
  BY <1>1, <1>2 DEF Brings, ItemsOf

LEMMA LeavesKept ==
  ASSUME SystemInv, [ServerNext]_serverVars, NEW c \in Client, Stays(c),
         seen'[c] = seen[c], NEW r, NEW s, s.cursor = r.cursor,
         r.cursor \in 0..CurrentCursor,
         ItemsOf(r.acknowledged) \subseteq DOMAIN queue[c],
         IdsOf(r.conflicts) \subseteq DOMAIN queue[c],
         ItemsOf(s.acknowledged) \subseteq ItemsOf(r.acknowledged),
         IdsOf(s.conflicts) \subseteq IdsOf(r.conflicts),
         Leaves(c, r)
  PROVE  Leaves(c, s)'
<1>1. \A A \in SUBSET DOMAIN queue[c] : Held(c, A) => Held(c, A)'
  BY HeldKept
<1>2. Held(c, ItemsOf(s.acknowledged))
  BY DEF Leaves, Held
<1>3. Held(c, ItemsOf(s.acknowledged))'
  <2>1. \A A : A = ItemsOf(s.acknowledged) => Held(c, A)'
    BY <1>1, <1>2
  <2> QED
    BY <2>1 DEF ItemsOf
<1>4. OpenAt(s.conflicts, s.cursor)'
  <2>1. OpenAt(s.conflicts, s.cursor)
    BY DEF Leaves, OpenAt
  <2> QED
    BY <2>1, OpenKept
<1> QED
  BY <1>3, <1>4 DEF Leaves

\* What the step leaves of a reply is part of one the client had, or the one
\* it received.
Carries(c) ==
  reply'[c].kind = "sync" =>
    \/ pc'[c] = "apply" /\ pc[c] = "apply" /\ reply'[c] = reply[c]
    \/ pc'[c] = "apply" /\ reply'[c] = channel[c]
    \/ /\ pc'[c] # "apply" /\ pc[c] # "apply" /\ reply[c].kind = "sync"
       /\ reply'[c].cursor = reply[c].cursor
       /\ ItemsOf(reply'[c].acknowledged) \subseteq ItemsOf(reply[c].acknowledged)
       /\ IdsOf(reply'[c].conflicts) \subseteq IdsOf(reply[c].conflicts)

\* A step that leaves what a client has received alone.
LEMMA ConvergeKept ==
  ASSUME SystemInv, [ServerNext]_serverVars, NEW c \in Client,
         SessionOf(c), CursorOf(c), ConvergeOf(c), Stays(c),
         UNCHANGED <<seen[c], cursor[c]>>,
         \/ channel'[c].kind = "sync" => channel'[c] = channel[c]
         \/ Brings(c, channel[c])',
         caller' = c =>
           /\ Explained(c, ItemsOf(job.acknowledged), CurrentCursor)'
           /\ \A m \in IdsOf(job'.conflicts) : tracker'[m] = 0,
         Carries(c)
  PROVE  ConvergeOf(c)'
<1>1. \A r \in {channel[c], reply[c]} : r.kind = "sync" =>
        /\ r.cursor \in 0..CurrentCursor
        /\ ItemsOf(r.acknowledged) \subseteq DOMAIN queue[c]
        /\ IdsOf(r.conflicts) \subseteq DOMAIN queue[c]
  BY SystemTypes, OutcomeSets, ClientMessages, SyncReplyShape
<1>2. /\ channel[c].kind = "sync" => cursor[c] # NoCursor
      /\ pc[c] = "apply" /\ reply[c].kind = "sync" => cursor[c] # NoCursor
  BY DEF CursorOf, ReplyFits
<1>3. \A r : /\ r \in {channel[c], reply[c]} /\ r.kind = "sync"
             /\ cursor[c] # NoCursor /\ Brings(c, r)
             => Brings(c, r)'
  BY <1>1, BringsKept
<1>4. \A r, s : /\ r = reply[c] /\ r.kind = "sync" /\ s.cursor = r.cursor
                /\ ItemsOf(s.acknowledged) \subseteq ItemsOf(r.acknowledged)
                /\ IdsOf(s.conflicts) \subseteq IdsOf(r.conflicts)
                /\ Leaves(c, r)
                => Leaves(c, s)'
  BY <1>1, LeavesKept
<1>5. Held(c, {})'
  BY HeldKept DEF ConvergeOf
<1>6. channel'[c].kind = "sync" => Brings(c, channel[c])'
  <2>1. channel[c].kind = "sync" => \A r : r = channel[c] => Brings(c, r)'
    BY <1>2, <1>3 DEF ConvergeOf
  <2> QED
    BY <2>1
<1>7. ASSUME reply'[c].kind = "sync"
      PROVE  IF pc'[c] = "apply" THEN Brings(c, reply[c])' ELSE Leaves(c, reply[c])'
  <2>1. CASE pc'[c] = "apply"
    <3>1. /\ reply'[c] = channel[c] => Brings(c, channel[c])
          /\ reply'[c] # channel[c] => reply'[c] = reply[c] /\ Brings(c, reply[c])
      BY <1>7, <2>1 DEF ConvergeOf, Carries
    <3>2. \A r : r = reply'[c] => Brings(c, r)'
      BY <1>2, <1>3, <1>7, <2>1, <3>1 DEF Carries
    <3> QED
      BY <2>1, <3>2
  <2>2. CASE pc'[c] # "apply"
    <3>1. \A s : s = reply'[c] => Leaves(c, s)'
      BY <1>4, <1>7, <2>2 DEF ConvergeOf, Carries
    <3> QED
      BY <2>2, <3>1
  <2> QED
    BY <2>1, <2>2
<1> QED
  BY <1>5, <1>6, <1>7 DEF ConvergeOf

\* Only Acknowledge acknowledges.
LEMMA NoneIsAcknowledged ==
  ASSUME SystemInv, NEW c \in Client, ClientStep(c), ~Acknowledge(c)
  PROVE  NoneAcknowledged(c)
<1>0. TypeInv /\ QueueOK
  BY SystemTypes DEF StoredOK
<1>1. \A m \in DOMAIN queue[c] :
        m \in DOMAIN queue'[c] /\ queue'[c][m].entity = queue[c][m].entity
  BY <1>0, EntitiesKept
<1>2. ASSUME NEW m, NEW r, Fresh(m), queue'[c] = Insert(queue[c], m, r)
      PROVE  \A k \in DOMAIN queue[c] : queue'[c][k] = queue[c][k]
  BY <1>2 DEF Fresh, Insert
<1>3. ASSUME NEW m, NEW v, NEW n, ResolvedTo(c, m, v, n)
      PROVE  \A k \in DOMAIN queue[c] :
               queue'[c][k] = queue[c][k] \/ queue'[c][k].status = "PENDING"
  BY <1>0, <1>3, ResolvedKept
<1>4. ASSUME NEW m, NEW s, SetStatus(c, m, s)
      PROVE  \A k \in DOMAIN queue[c] :
               queue'[c][k] = queue[c][k] \/ queue'[c][k].status = s
  BY <1>0, <1>4, StatusKept
<1>5. CASE Application(c)
  BY <1>0, <1>1, <1>2, <1>3, <1>5, ApplicationQueue DEF NoneAcknowledged
<1>6. CASE Cycle(c)
  <2>1. CASE Requeue(c) \/ MarkConflict(c)
    BY <1>1, <1>4, <2>1 DEF Requeue, MarkConflict, NoneAcknowledged
  <2>2. CASE ResolveMutation(c)
    <3> DEFINE k == Head(reply[c].conflicts)
    <3>1. ResolvedTo(c, k.id, resolved[c], seen[c][k.entity])
      BY <1>0, <2>2 DEF ResolveMutation, QueueOK, ResolvedTo
    <3> QED
      BY <1>1, <1>3, <3>1 DEF NoneAcknowledged
  <2> QED
    BY <1>6, <2>1, <2>2, QuietCycle DEF Cycle, NoneAcknowledged
<1>7. CASE TransportError(c) \/ Crash(c) \/ EndRecovery(c)
  BY <1>7 DEF TransportError, Crash, EndRecovery, stored, NoneAcknowledged
<1>8. CASE RecoverMutation(c)
  BY <1>1, <1>4, <1>8 DEF RecoverMutation, NoneAcknowledged
<1> QED
  BY <1>5, <1>6, <1>7, <1>8 DEF ClientStep

\* A new write is not applied.
LEMMA WriteIsUnseen ==
  ASSUME SystemInv, OwnerInv, NEW c \in Client, ClientStep(c),
         NEW m, NEW e, NEW r, WriteOf(c, m, e, r)
  PROVE  Unseen(c, e, m)' /\ m \notin DOMAIN queue[c]
<1>1. UNCHANGED serverVars
  BY ClientLeavesServer
<1>2. m \in DOMAIN queue'[c] /\ queue'[c][m] = r /\ m \notin DOMAIN queue[c]
  BY DEF WriteOf, Insert, Fresh
<1>3. m \in MutationId
  <2>1. TypeInv'
    BY SystemTypes, TypeStep DEF Next, ClientStep
  <2>2. IsQueue(queue[c])'
    BY <2>1, TypeParts DEF TypeInv, StoredOK, QueueOK
  <2> QED
    BY <1>2, <2>2 DEF IsQueue
<1>4. ASSUME tracker[m] # 0
      PROVE  FALSE
  <2>1. tracker[m] \in DOMAIN history /\ history[tracker[m]].id = m
    BY <1>3, <1>4, SystemTypes
       DEF SystemInv, AckInv, TrackedIsApplied, ServerTypeOK, CurrentCursor
  <2>2. Authored(m, history[tracker[m]].entity)
    BY <2>1 DEF OwnerInv, AllAuthored
  <2> QED
    BY <2>2 DEF Authored, WriteOf, Fresh
<1> QED
  BY <1>1, <1>2, <1>4 DEF Unseen, WriteOf, serverVars

\* The steps that change an entity without a new write, or the cursor.
Receives(c) == ApplyReply(c) \/ SaveCursor(c) \/ PutResolved(c)

LEMMA EntitiesStay ==
  ASSUME SystemInv, OwnerInv, NEW c \in Client, ClientStep(c), ~Receives(c)
  PROVE  /\ UNCHANGED <<seen, cursor>>
         /\ \A e \in Entity :
              \/ local'[c][e] = local[c][e]
              \/ \E m : Unseen(c, e, m)' /\ m \notin DOMAIN queue[c]
<1>0. TypeInv
  BY SystemTypes
<1>1. CASE Application(c)
  <2>1. UNCHANGED <<seen, cursor>>
    BY <1>1 DEF Application, Create, Put, ReadForEdit, WriteEdit, RollBackWrite,
                ResolveByApplication, ForceSnapshot, WriteAtomically, stored
  <2>2. ASSUME NEW m, NEW e, NEW r, WriteOf(c, m, e, r), NEW i \in Entity
        PROVE  \/ local'[c][i] = local[c][i]
               \/ \E k : Unseen(c, i, k)' /\ k \notin DOMAIN queue[c]
    <3>1. CASE i = e
      <4>1. Unseen(c, e, m)' /\ m \notin DOMAIN queue[c]
        BY <2>2, WriteIsUnseen
      <4> QED
        BY <3>1, <4>1
    <3>2. CASE i # e
      BY <2>2, <3>2 DEF WriteOf
    <3> QED
      BY <3>1, <3>2
  <2>3. local'[c] = local[c] \/ \E m, e, r : WriteOf(c, m, e, r)
    <3>1. CASE \E t, e, kind : ReadForEdit(c, t, e, kind)
      BY <3>1 DEF ReadForEdit, stored
    <3>2. CASE ForceSnapshot(c) \/ \E e : RollBackWrite(c, e)
      BY <3>2 DEF ForceSnapshot, RollBackWrite, stored
    <3>3. CASE \E m : ResolveByApplication(c, m)
      BY <3>3 DEF ResolveByApplication
    <3>4. CASE \/ \E m \in MutationId, e \in Entity : Create(c, m, e) \/ Put(c, m, e)
               \/ \E t \in Task, m \in MutationId : WriteEdit(c, t, m)
      BY <1>0, <3>4, LocalWrites
    <3> QED
      BY <1>1, <3>1, <3>2, <3>3, <3>4 DEF Application
  <2> QED
    BY <2>1, <2>2, <2>3
<1>2. CASE Cycle(c)
  BY <1>2 DEF Receives, Cycle, StartSync, Dequeue, LoadBase, SendRequest,
              ReceiveTooOld, ReceiveValid, ReceiveInvalid, Requeue,
              RequestSnapshot, Acknowledge, MarkConflict, ReadAndResolve,
              ResolveMutation, Finish, stored
<1>3. CASE TransportError(c) \/ Crash(c) \/ RecoverMutation(c) \/ EndRecovery(c)
  BY <1>3 DEF TransportError, Crash, RecoverMutation, EndRecovery, stored
<1> QED
  BY <1>1, <1>2, <1>3 DEF ClientStep

\* A step other than ApplyReply carries on the reply of its client.
LEMMA ReplyCarried ==
  ASSUME SystemInv, NEW c \in Client, ClientStep(c), ~ApplyReply(c)
  PROVE  Carries(c)
<1>0. TypeInv /\ EngineOK /\ Control
  BY SystemTypes
<1>1. ASSUME reply'[c] = reply[c], pc'[c] # "apply", pc[c] # "apply"
      PROVE  Carries(c)
  BY <1>1 DEF Carries
<1>2. CASE Application(c)
  <2>1. UNCHANGED <<pc, reply>> \/ (reply' = reply /\ pc[c] = "idle" /\ pc'[c] = "awaitReply")
    BY <1>0, <1>2 DEF Application, Create, Put, ReadForEdit, WriteEdit,
         RollBackWrite, ResolveByApplication, ForceSnapshot, WriteAtomically,
         engine, Goto, EngineOK
  <2> QED
    BY <1>1, <2>1 DEF Carries
<1>3. CASE StartSync(c) \/ Dequeue(c) \/ LoadBase(c) \/ SendRequest(c)
           \/ ReceiveTooOld(c) \/ RequestSnapshot(c) \/ Requeue(c)
           \/ SaveCursor(c) \/ ReadAndResolve(c) \/ PutResolved(c)
  BY <1>0, <1>1, <1>3 DEF StartSync, Dequeue, LoadBase, SendRequest,
       ReceiveTooOld, RequestSnapshot, Requeue, SaveCursor, ReadAndResolve,
       AtConflict, PutResolved, Goto, EngineOK
<1>4. CASE ReceiveValid(c)
  BY <1>0, <1>4 DEF ReceiveValid, Goto, EngineOK, Carries
<1>5. CASE ReceiveInvalid(c) \/ Finish(c) \/ TransportError(c) \/ Crash(c)
  <2>1. reply'[c] = Empty
    BY <1>0, <1>5 DEF ReceiveInvalid, Finish, TransportError, Crash, EndCycle,
                      EngineOK
  <2> QED
    BY <2>1 DEF Carries, Empty
<1>6. CASE RecoverMutation(c) \/ EndRecovery(c)
  BY <1>0, <1>1, <1>6 DEF RecoverMutation, EndRecovery, engine, Goto, EngineOK
<1>7. CASE Acknowledge(c)
  <2>1. /\ pc[c] = "settle" /\ pc'[c] = "settle" /\ reply[c].acknowledged # <<>>
        /\ reply'[c] = [reply[c] EXCEPT !.acknowledged = Tail(@)]
    BY <1>0, <1>7 DEF Acknowledge, EngineOK
  <2>2. /\ reply[c] \in SyncReplies /\ reply[c].kind = "sync"
        /\ reply[c].acknowledged \in Seq(MutationId)
    BY <1>0, <2>1, ClientMessages, SyncReplyShape DEF Control
  <2>3. /\ reply'[c].acknowledged = Tail(reply[c].acknowledged)
        /\ reply'[c].conflicts = reply[c].conflicts
        /\ reply'[c].cursor = reply[c].cursor
    BY <2>1, <2>2 DEF SyncReplies
  <2> QED
    BY <2>1, <2>2, <2>3, TailItems DEF Carries
<1>8. CASE MarkConflict(c) \/ ResolveMutation(c)
  <2>1. /\ pc[c] # "apply" /\ pc'[c] # "apply"
        /\ reply'[c] = [reply[c] EXCEPT !.conflicts = Tail(@)]
        /\ reply[c] \in SyncReplies /\ reply[c].conflicts # <<>>
    BY <1>0, <1>8, AtConflictShape
       DEF MarkConflict, ResolveMutation, AtConflict, Goto, EngineOK
  <2>2. reply[c].kind = "sync" /\ reply[c].conflicts \in Seq(Conflict)
    BY <2>1, SyncReplyShape
  <2>3. /\ reply'[c].conflicts = Tail(reply[c].conflicts)
        /\ reply'[c].acknowledged = reply[c].acknowledged
        /\ reply'[c].cursor = reply[c].cursor
    BY <2>1, <2>2 DEF SyncReplies
  <2> QED
    BY <2>1, <2>2, <2>3, TailItems DEF Carries
<1> QED
  BY <1>2, <1>3, <1>4, <1>5, <1>6, <1>7, <1>8 DEF ClientStep, Cycle

LEMMA ConvergeSteady ==
  ASSUME SystemInv, SessionInv, CursorInv, OwnerInv, NEW c \in Client,
         ConvergeOf(c), ClientStep(c), ~Receives(c), ~Acknowledge(c)
  PROVE  ConvergeOf(c)'
<1>0. SessionOf(c) /\ CursorOf(c) /\ CurrentCursor \in Nat
  BY SystemTypes DEF SessionInv, CursorInv
<1>1. UNCHANGED serverVars /\ [ServerNext]_serverVars
  BY ClientLeavesServer
<1>2. UNCHANGED <<seen, cursor>> /\ Stays(c)
  BY <1>1, EntitiesStay, NoneIsAcknowledged, StaysSo
<1>3. /\ channel'[c].kind = "sync" => channel'[c] = channel[c]
      /\ caller' = c => caller = c
  BY ClientReplies
<1>4. Carries(c)
  BY ReplyCarried DEF Receives
<1>5. ASSUME caller = c
      PROVE  /\ Explained(c, ItemsOf(job.acknowledged), CurrentCursor)'
             /\ \A m \in IdsOf(job'.conflicts) : tracker'[m] = 0
  <2>1. \A A \in SUBSET DOMAIN queue[c] : \A n \in 0..CurrentCursor :
          Explained(c, A, n) => Explained(c, A, n)'
    BY <1>0, <1>1, <1>2, <1>5, ExplainedKept DEF CursorOf
  <2>2. \A A, n : /\ A = ItemsOf(job.acknowledged) /\ n = CurrentCursor
                  => Explained(c, A, n)'
    BY <1>0, <1>5, <2>1, OutcomeSets DEF ConvergeOf
  <2>3. job' = job /\ history' = history /\ tracker' = tracker
    BY <1>1 DEF serverVars
  <2>4. ItemsOf(job'.acknowledged) = ItemsOf(job.acknowledged)
        /\ Len(history') = CurrentCursor
    BY <2>3 DEF CurrentCursor
  <2>5. Explained(c, ItemsOf(job.acknowledged), CurrentCursor)'
    BY <2>2, <2>4 DEF ItemsOf, CurrentCursor
  <2> QED
    BY <1>5, <2>3, <2>5 DEF ConvergeOf
<1> QED
  BY <1>0, <1>1, <1>2, <1>3, <1>4, <1>5, ConvergeKept

\* While a reply is worked on no other is on its way.
LEMMA ConvergeWorking ==
  ASSUME SystemInv, NEW c \in Client, pc[c] # "awaitReply",
         UNCHANGED network, pc'[c] # "apply", Held(c, {})',
         reply'[c].kind = "sync" => Leaves(c, reply[c])'
  PROVE  ConvergeOf(c)'
<1>1. channel'[c].kind = "empty" /\ caller' # c
  BY SystemTypes DEF Control, network
<1> QED
  BY <1>1 DEF ConvergeOf

LEMMA ConvergeAcknowledge ==
  ASSUME SystemInv, NEW c \in Client, ConvergeOf(c), Acknowledge(c)
  PROVE  ConvergeOf(c)'
<1> DEFINE r == reply[c]
           a == Head(r.acknowledged)
<1>0. TypeInv /\ QueueOK /\ EngineOK /\ Control
  BY SystemTypes DEF StoredOK
<1>1. /\ pc[c] = "settle" /\ pc'[c] = "settle" /\ r.acknowledged # <<>>
      /\ reply'[c] = [r EXCEPT !.acknowledged = Tail(@)]
      /\ SetStatus(c, a, "ACKNOWLEDGED")
      /\ UNCHANGED <<serverVars, local, seen, network>>
  BY <1>0 DEF Acknowledge, EngineOK
<1>2. /\ r \in SyncReplies /\ r.kind = "sync"
      /\ r.acknowledged \in Seq(MutationId)
  BY <1>0, <1>1, ClientMessages, SyncReplyShape DEF Control
<1>3. /\ reply'[c].acknowledged = Tail(r.acknowledged)
      /\ reply'[c].conflicts = r.conflicts
      /\ reply'[c].cursor = r.cursor
  BY <1>1, <1>2 DEF SyncReplies
<1>4. /\ a \in ItemsOf(r.acknowledged)
      /\ ItemsOf(reply'[c].acknowledged) \subseteq ItemsOf(r.acknowledged)
  BY <1>1, <1>2, <1>3, TailItems
<1>5. Leaves(c, r)
  BY <1>1, <1>2 DEF ConvergeOf
<1>6. \A m \in DOMAIN queue[c] \ {a} :
        m \in DOMAIN queue'[c] /\ queue'[c][m] = queue[c][m]
  BY <1>0, <1>1, StatusKept
<1>7. \A e \in Entity : \A m : Unseen(c, e, m) /\ m # a => Unseen(c, e, m)'
  BY <1>1, <1>6 DEF Unseen, serverVars
<1>8. \A e \in Entity : Clean(c, e) => Clean(c, e)'
  BY <1>1 DEF Clean, serverVars
<1>9. \A e \in Entity : \/ Clean(c, e)'
                        \/ \E m : Unseen(c, e, m)' /\ m \notin ItemsOf(r.acknowledged)
  BY <1>4, <1>5, <1>7, <1>8 DEF Leaves, Held
<1>10. \A A : A \subseteq ItemsOf(r.acknowledged) => Held(c, A)'
  BY <1>9 DEF Held
<1>11. Held(c, {})' /\ Held(c, ItemsOf(reply[c].acknowledged))'
  <2>1. \A A : A = ItemsOf(reply'[c].acknowledged) => Held(c, A)'
    BY <1>4, <1>10
  <2> QED
    BY <1>10, <2>1 DEF ItemsOf
<1>12. OpenAt(reply[c].conflicts, reply[c].cursor)'
  BY <1>1, <1>3, <1>5 DEF Leaves, OpenAt, IdsOf, serverVars
<1>13. \A e \in Entity : seen'[c][e] <= reply'[c].cursor
  BY <1>1, <1>3, <1>5 DEF Leaves
<1>14. Leaves(c, reply[c])'
  BY <1>11, <1>12, <1>13 DEF Leaves
<1> QED
  BY <1>1, <1>11, <1>14, ConvergeWorking

LEMMA ConvergeApply ==
  ASSUME SystemInv, NEW c \in Client, CursorOf(c), ConvergeOf(c), ApplyReply(c)
  PROVE  ConvergeOf(c)'
<1> DEFINE r == reply[c]
<1>0. EngineOK /\ Control /\ CurrentCursor \in Nat
  BY SystemTypes
<1>1. /\ pc[c] = "apply" /\ pc'[c] = "saveCursor"
      /\ UNCHANGED <<serverVars, queue, reply, network>>
  BY <1>0 DEF ApplyReply, Goto, EngineOK
<1>2. \A e \in Entity :
        \/ Clean(c, e)'
        \/ /\ seen'[c][e] = seen[c][e] /\ local'[c][e] = local[c][e]
           /\ r.kind = "sync" => ~ChangedAfter(e, cursor[c], r.cursor)
  BY <1>1, ApplyShape DEF Clean, serverVars
<1>3. ASSUME NEW e \in Entity, seen'[c][e] = seen[c][e],
             local'[c][e] = local[c][e]
      PROVE  /\ Clean(c, e) => Clean(c, e)'
             /\ \A m : Unseen(c, e, m) => Unseen(c, e, m)'
  BY <1>1, <1>3 DEF Clean, Unseen, serverVars
<1>4. Held(c, {})'
  BY <1>2, <1>3 DEF ConvergeOf, Held
<1>5. ASSUME r.kind = "sync"
      PROVE  Leaves(c, reply[c])'
  <2>1. Brings(c, r)
    BY <1>1, <1>5 DEF ConvergeOf
  <2>2. Held(c, ItemsOf(r.acknowledged))'
    <3>1. \A A : Explained(c, A, r.cursor) => Held(c, A)'
      BY <1>2, <1>3, <1>5 DEF Explained, Held
    <3>2. \A A : A = ItemsOf(r.acknowledged) => Held(c, A)'
      BY <2>1, <3>1 DEF Brings
    <3> QED
      BY <1>1, <3>2 DEF ItemsOf
  <2>3. OpenAt(r.conflicts, r.cursor)'
    BY <1>1, <2>1 DEF Brings, OpenAt, IdsOf, serverVars
  <2>4. \A e \in Entity : seen'[c][e] <= r.cursor
    BY ApplyShape
  <2> QED
    BY <1>1, <2>2, <2>3, <2>4 DEF Leaves
<1> QED
  BY <1>1, <1>4, <1>5, ConvergeWorking

LEMMA ConvergeSave ==
  ASSUME SystemInv, NEW c \in Client, ConvergeOf(c), SaveCursor(c)
  PROVE  ConvergeOf(c)'
<1>0. EngineOK
  BY SystemTypes
<1>1. /\ pc[c] = "saveCursor" /\ pc'[c] \in {"settle", "finish"}
      /\ UNCHANGED <<serverVars, local, queue, seen, reply, network>>
  BY <1>0 DEF SaveCursor, Goto, EngineOK
<1>2. \A e \in Entity :
        /\ Clean(c, e) => Clean(c, e)'
        /\ \A m : Unseen(c, e, m) => Unseen(c, e, m)'
  BY <1>1 DEF Clean, Unseen, serverVars
<1>3. \A A : Held(c, A) => Held(c, A)'
  BY <1>2 DEF Held
<1>4. ASSUME reply[c].kind = "sync"
      PROVE  Leaves(c, reply[c])'
  <2>1. Leaves(c, reply[c])
    BY <1>1, <1>4 DEF ConvergeOf
  <2>2. Held(c, ItemsOf(reply[c].acknowledged))'
    <3>1. \A A : A = ItemsOf(reply[c].acknowledged) => Held(c, A)'
      BY <1>3, <2>1 DEF Leaves
    <3> QED
      BY <1>1, <3>1 DEF ItemsOf
  <2> QED
    BY <1>1, <2>1, <2>2 DEF Leaves, OpenAt, IdsOf, serverVars
<1> QED
  BY <1>1, <1>3, <1>4, ConvergeWorking DEF ConvergeOf

\* The mutation in conflict explains the entity it was resolved to.
LEMMA ConvergeResolved ==
  ASSUME SystemInv, NEW c \in Client, SessionOf(c), ConvergeOf(c),
         PutResolved(c)
  PROVE  ConvergeOf(c)'
<1> DEFINE r == reply[c]
           k == Head(r.conflicts)
<1>0. TypeInv /\ EngineOK /\ StoredOK /\ CurrentCursor \in Nat
  BY SystemTypes
<1>1. /\ pc[c] = "putResolved" /\ pc'[c] = "resolveMutation"
      /\ \E s : local' = [local EXCEPT ![c][k.entity] = s]
      /\ UNCHANGED <<serverVars, queue, seen, reply, network>>
  BY <1>0 DEF PutResolved, Goto, EngineOK
<1>2. /\ r \in SyncReplies /\ r.kind = "sync" /\ r.acknowledged = <<>>
      /\ r.conflicts # <<>> /\ r.conflicts \in Seq(Conflict)
      /\ r.cursor \in 0..CurrentCursor /\ k.entity \in Entity
      /\ k.id \in MutationId
  BY <1>0, <1>1, AtConflictShape, SyncReplyShape, ConflictShape
<1>3. k.id \in IdsOf(r.conflicts)
  BY <1>2, TailItems
<1>4. Unsettled(c, k.id) /\ k.entity = queue[c][k.id].entity
  <2>1. 1 \in DOMAIN r.conflicts /\ k = r.conflicts[1]
    BY <1>2
  <2> QED
    BY <1>2, <1>3, <2>1 DEF SessionOf, SettleOf, Outcomes
<1>5. Leaves(c, r)
  BY <1>1, <1>2 DEF ConvergeOf
<1>6. Unseen(c, k.entity, k.id)
  <2>1. /\ tracker[k.id] = 0 \/ tracker[k.id] > r.cursor
        /\ seen[c][k.entity] <= r.cursor
    BY <1>2, <1>3, <1>5 DEF Leaves, OpenAt
  <2>2. seen[c][k.entity] \in 0..CurrentCursor /\ tracker[k.id] \in 0..CurrentCursor
    BY <1>0, <1>2, SystemTypes DEF StoredOK, ServerTypeOK
  <2>3. tracker[k.id] = 0 \/ tracker[k.id] > seen[c][k.entity]
    BY <1>0, <1>2, <2>1, <2>2
  <2> QED
    BY <1>4, <2>3 DEF Unseen, Unsettled
<1>7. \A e \in Entity :
        /\ e # k.entity => (Clean(c, e) => Clean(c, e)')
        /\ \A m : Unseen(c, e, m) => Unseen(c, e, m)'
  <2>1. \A e \in Entity : e # k.entity => local'[c][e] = local[c][e]
    BY <1>0, <1>1 DEF StoredOK
  <2> QED
    BY <1>1, <2>1 DEF Clean, Unseen, serverVars
<1>8. \A e \in Entity : Clean(c, e)' \/ \E m : Unseen(c, e, m)'
  BY <1>2, <1>6, <1>7 DEF ConvergeOf, Held
<1>9. Held(c, {})'
  BY <1>8 DEF Held
<1>10. Leaves(c, reply[c])'
  <2>1. Held(c, ItemsOf(reply[c].acknowledged))'
    BY <1>1, <1>2, <1>9, NoItems DEF ItemsOf
  <2> QED
    BY <1>1, <1>5, <2>1 DEF Leaves, OpenAt, IdsOf, serverVars
<1> QED
  BY <1>1, <1>9, <1>10, ConvergeWorking

LEMMA ConvergeClient ==
  ASSUME SystemInv, SessionInv, CursorInv, OwnerInv, NEW c \in Client,
         ConvergeOf(c), ClientStep(c)
  PROVE  ConvergeOf(c)'
<1>1. SessionOf(c) /\ CursorOf(c)
  BY DEF SessionInv, CursorInv
<1> QED
  BY <1>1, ConvergeSteady, ConvergeAcknowledge, ConvergeApply, ConvergeSave,
     ConvergeResolved DEF Receives

\* A mutation the server acknowledges brings its client a change of the
\* entity, if it still explains it.
LEMMA HandledChange ==
  ASSUME SystemInv, OwnerInv, [ServerNext]_serverVars, NEW d \in Client,
         SessionOf(d), CursorOf(d), caller = d, UNCHANGED cursor,
         Deduplicate \/ Accept,
         NEW e \in Entity, Unseen(d, e, NextMutation.id)
  PROVE  ChangedAfter(e, cursor[d], CurrentCursor)'
<1> DEFINE m == NextMutation
<1>0. /\ ServerTypeOK /\ CurrentCursor \in Nat /\ Pending
      /\ cursor[d] \in 0..CurrentCursor
  BY SystemTypes DEF CursorOf, StoredOK, Deduplicate, Accept
<1>1. /\ m \in Mutation /\ m.id \in MutationId /\ m.entity = e
      /\ m.id \in DOMAIN queue[d] /\ queue[d][m.id].entity = e
  BY <1>0, NextIsOwn DEF Unseen, Mutation
<1>2. CASE Deduplicate
  <2> DEFINE t == tracker[m.id]
  <2>1. t \in 1..CurrentCursor /\ history[t].id = m.id /\ history' = history
    BY <1>0, <1>1, <1>2 DEF Deduplicate, Tracked, ServerTypeOK, SystemInv,
                            AckInv, TrackedIsApplied
  <2>2. history[t].entity = e
    <3>1. Authored(m.id, history[t].entity)
      BY <2>1 DEF OwnerInv, AllAuthored, CurrentCursor
    <3> HIDE DEF m, t
    <3> QED
      BY <1>1, <3>1, OwnWrite
  <2>3. seen[d][e] \in 0..CurrentCursor /\ t > seen[d][e]
    BY <2>1, SystemTypes DEF Unseen, StoredOK
  <2>4. t \notin 1..cursor[d]
    BY <2>1, <2>2, <2>3 DEF CursorOf, Covers
  <2>5. t \in (cursor[d] + 1)..CurrentCursor
    BY <1>0, <2>1, <2>4
  <2> QED
    BY <2>1, <2>2, <2>5 DEF ChangedAfter, CurrentCursor
<1>3. CASE Accept
  <2>1. PICK entry \in LogEntry : AppendEntry(entry) /\ entry.entity = m.entity
    BY <1>0, <1>3, AcceptedEntry
  <2>2. /\ CurrentCursor' = CurrentCursor + 1
        /\ history'[CurrentCursor + 1] = entry
    BY <1>0, <2>1 DEF AppendEntry, CurrentCursor, ServerTypeOK
  <2>3. CurrentCursor + 1 \in (cursor[d] + 1)..CurrentCursor'
    BY <1>0, <2>2
  <2> QED
    BY <1>1, <2>1, <2>2, <2>3 DEF ChangedAfter
<1> QED
  BY <1>2, <1>3

\* A change stays one as the log grows.
LEMMA ChangedGrows ==
  ASSUME SystemInv, [ServerNext]_serverVars, NEW d \in Client,
         cursor[d] \in 0..CurrentCursor, UNCHANGED cursor,
         NEW n \in 0..CurrentCursor, NEW e, ChangedAfter(e, cursor[d], n)
  PROVE  ChangedAfter(e, cursor[d], CurrentCursor)'
<1>1. /\ CurrentCursor \in Nat /\ CurrentCursor' \in Nat
      /\ CurrentCursor <= CurrentCursor'
      /\ \A i \in 1..CurrentCursor : history'[i] = history[i]
  BY SystemTypes, LogGrows
<1>2. (cursor[d] + 1)..n \subseteq (cursor[d] + 1)..CurrentCursor'
      /\ (cursor[d] + 1)..n \subseteq 1..CurrentCursor
  BY <1>1
<1> QED
  BY <1>1, <1>2 DEF ChangedAfter

\* What a request has brought so far once one more mutation is handled.
LEMMA ConvergeHandled ==
  ASSUME SystemInv, OwnerInv, [ServerNext]_serverVars, NEW d \in Client,
         SessionOf(d), CursorOf(d), ConvergeOf(d), Stays(d),
         UNCHANGED stored, caller = d, ProcessMutation
  PROVE  /\ Explained(d, ItemsOf(job.acknowledged), CurrentCursor)'
         /\ \A k \in IdsOf(job'.conflicts) : tracker'[k] = 0
<1> DEFINE m == NextMutation
           A == ItemsOf(job.acknowledged)
<1>0. /\ ServerTypeOK /\ CurrentCursor \in Nat /\ CurrentCursor' \in Nat
      /\ CurrentCursor <= CurrentCursor'
      /\ cursor[d] \in 0..CurrentCursor /\ cursor[d] # NoCursor
      /\ UNCHANGED <<seen, cursor, queue, local>>
  <2>1. ServerTypeOK /\ StoredOK
    BY SystemTypes
  <2>2. cursor[d] # NoCursor
    BY DEF CursorOf
  <2> QED
    BY <2>1, <2>2, LogGrows DEF StoredOK, stored
<1>1. Pending /\ job \in Job
  BY <1>0, HandleShape
<1>2. /\ job.acknowledged \in Seq(MutationId) /\ job.conflicts \in Seq(Conflict)
      /\ m \in Mutation /\ m.id \in MutationId /\ m.id \in DOMAIN queue[d]
      /\ m.id \notin Processed
  BY <1>1, NextIsOwn DEF Job, Mutation
<1>3. /\ A \subseteq DOMAIN queue[d] /\ IdsOf(job.conflicts) \subseteq Processed
      /\ Explained(d, A, CurrentCursor)
      /\ \A k \in IdsOf(job.conflicts) : tracker[k] = 0
  BY OutcomeSets DEF SessionOf, SentOf, ConvergeOf
<1>4. \A e \in Entity : ChangedAfter(e, cursor[d], CurrentCursor)
        => ChangedAfter(e, cursor[d], CurrentCursor)'
  BY <1>0, ChangedGrows
<1>5. ASSUME Deduplicate \/ Accept
      PROVE  \A x : x = m.id => \A e \in Entity :
               Unseen(d, e, x) => ChangedAfter(e, cursor[d], CurrentCursor)'
  BY <1>0, <1>5, HandledChange
<1> HIDE DEF A, m
<1>6. ASSUME NEW B, NEW x, x = m.id,
             B = A \/ (B = A \cup {x} /\ (Deduplicate \/ Accept))
      PROVE  Explained(d, B, CurrentCursor)'
  <2> SUFFICES ASSUME NEW e \in Entity
               PROVE  \/ Clean(d, e)'
                      \/ \E k : /\ Unseen(d, e, k)'
                                /\ k \in B => ChangedAfter(e, cursor[d], CurrentCursor)'
    BY DEF Explained
  <2>1. CASE Clean(d, e)
    <3>1. B \subseteq DOMAIN queue[d]
      BY <1>2, <1>3, <1>6
    <3> QED
      BY <2>1, <3>1 DEF Stays
  <2>2. CASE ~Clean(d, e)
    <3>1. PICK k : /\ Unseen(d, e, k)
                   /\ k \in A => ChangedAfter(e, cursor[d], CurrentCursor)
      BY <1>3, <2>2 DEF Explained
    <3>2. Unseen(d, e, k)'
      BY <3>1 DEF Stays
    <3>3. k \in B => ChangedAfter(e, cursor[d], CurrentCursor)'
      BY <1>4, <1>5, <1>6, <3>1
    <3> QED
      BY <3>2, <3>3
  <2> QED
    BY <2>1, <2>2
<1>7. \/ job'.acknowledged = job.acknowledged
      \/ /\ Deduplicate \/ Accept
         /\ job'.acknowledged = Append(job.acknowledged, m.id)
  BY <1>1 DEF ProcessMutation, Deduplicate, Accept, DetectConflict, Job, m
<1>8. Explained(d, ItemsOf(job.acknowledged), CurrentCursor)'
  <2>1. \/ ItemsOf(job'.acknowledged) = A
        \/ /\ Deduplicate \/ Accept
           /\ ItemsOf(job'.acknowledged) = A \cup {m.id}
    <3>1. ItemsOf(Append(job.acknowledged, m.id)) = ItemsOf(job.acknowledged) \cup {m.id}
      BY <1>2, AppendItems
    <3> QED
      BY <1>7, <3>1 DEF A
  <2>2. \A B : B = ItemsOf(job'.acknowledged) => Explained(d, B, CurrentCursor)'
    BY <1>6, <2>1
  <2> QED
    BY <2>2 DEF ItemsOf
<1>9. ASSUME NEW k \in IdsOf(job'.conflicts)
      PROVE  tracker'[k] = 0
  <2>1. CASE DetectConflict
    <3>1. job'.conflicts = Append(job.conflicts, ConflictWith(m))
          /\ tracker' = tracker /\ tracker[m.id] = 0
          /\ ConflictWith(m) \in Conflict
      BY <1>0, <1>1, <1>2, <2>1, ConflictType DEF DetectConflict, Job, Tracked, m
    <3>2. ConflictWith(m).id = m.id
      BY DEF ConflictWith
    <3>3. k \in IdsOf(job.conflicts) \cup {m.id}
      BY <1>2, <1>9, <3>1, <3>2, AppendItems
    <3> QED
      BY <1>3, <3>1, <3>3
  <2>2. CASE Deduplicate \/ Accept
    <3>1. job'.conflicts = job.conflicts
      BY <1>1, <2>2 DEF Deduplicate, Accept, Job
    <3>2. \A x \in MutationId : x # m.id => tracker'[x] = tracker[x]
      <4>1. tracker' = tracker \/ \E t : tracker' = [tracker EXCEPT ![m.id] = t]
        BY <2>2 DEF Deduplicate, Accept, m
      <4>2. tracker \in [MutationId -> 0..CurrentCursor]
        BY <1>0 DEF ServerTypeOK
      <4>3. ASSUME NEW x \in MutationId, x # m.id
            PROVE  tracker'[x] = tracker[x]
        BY <4>1, <4>2, <4>3
      <4> QED
        BY <4>3
    <3>3. k \in IdsOf(job.conflicts) /\ k # m.id /\ k \in MutationId
      <4>1. IdsOf(job.conflicts) \subseteq MutationId
        <5>1. \A i \in DOMAIN job.conflicts : job.conflicts[i] \in Conflict
          BY <1>2
        <5> QED
          BY <5>1, ConflictShape DEF IdsOf
      <4> QED
        BY <1>2, <1>3, <1>9, <3>1, <4>1
    <3> QED
      BY <1>3, <3>2, <3>3
  <2> QED
    BY <2>1, <2>2 DEF ProcessMutation
<1> QED
  BY <1>8, <1>9

\* With an unchanged log, what a client waits to be told stays as it is.
LEMMA ConvergeWaits ==
  ASSUME SystemInv, [ServerNext]_serverVars, NEW d \in Client,
         SessionOf(d), CursorOf(d), ConvergeOf(d), Stays(d),
         UNCHANGED <<cursor[d], job, history>>, caller = d
  PROVE  /\ Explained(d, ItemsOf(job.acknowledged), CurrentCursor)'
         /\ \A m \in IdsOf(job'.conflicts) : tracker'[m] = 0
<1>0. /\ ServerTypeOK /\ ServerTypeOK' /\ CurrentCursor \in Nat
      /\ cursor[d] # NoCursor /\ QueueOK
  BY SystemTypes, ServerTypeStep DEF CursorOf, StoredOK
<1>1. \A A, n : A = ItemsOf(job.acknowledged) /\ n = CurrentCursor
        => Explained(d, A, n)'
  <2>1. ItemsOf(job.acknowledged) \subseteq DOMAIN queue[d]
    BY OutcomeSets
  <2>2. \A A \in SUBSET DOMAIN queue[d] : \A n \in 0..CurrentCursor :
          Explained(d, A, n) => Explained(d, A, n)'
    BY <1>0, ExplainedKept
  <2> QED
    BY <1>0, <2>1, <2>2 DEF ConvergeOf
<1>2. Explained(d, ItemsOf(job.acknowledged), CurrentCursor)'
  BY <1>1 DEF ItemsOf, CurrentCursor
<1>3. ASSUME NEW m \in IdsOf(job.conflicts)
      PROVE  tracker'[m] = 0
  <2>1. m \in MutationId /\ tracker[m] = 0
    BY <1>0, <1>3, OutcomeSets DEF ConvergeOf, QueueOK, IsQueue
  <2>2. tracker'[m] \in {0, CurrentCursor + 1}
    BY <1>0, <2>1, TrackerMoves
  <2>3. tracker'[m] \in 0..CurrentCursor
    BY <1>0, <2>1 DEF ServerTypeOK, CurrentCursor
  <2> QED
    BY <1>0, <2>2, <2>3
<1>4. IdsOf(job'.conflicts) = IdsOf(job.conflicts)
  BY DEF IdsOf
<1> QED
  BY <1>2, <1>3, <1>4

LEMMA ConvergeAnswers ==
  ASSUME SystemInv, [ServerNext]_serverVars, NEW d \in Client,
         SessionOf(d), CursorOf(d), ConvergeOf(d), Stays(d),
         UNCHANGED cursor, caller = d, Answers
  PROVE  \A r : r = SyncReply => Brings(d, r)'
<1>0. CurrentCursor \in Nat /\ cursor[d] # NoCursor
  BY SystemTypes DEF CursorOf
<1>1. Brings(d, SyncReply)
  <2>1. OpenAt(job.conflicts, CurrentCursor)
    BY DEF ConvergeOf, OpenAt
  <2> QED
    BY <2>1 DEF ConvergeOf, Brings, SyncReply
<1>2. /\ SyncReply.cursor \in 0..CurrentCursor
      /\ ItemsOf(SyncReply.acknowledged) \subseteq DOMAIN queue[d]
      /\ IdsOf(SyncReply.conflicts) \subseteq DOMAIN queue[d]
  BY <1>0, OutcomeSets DEF SyncReply
<1> QED
  BY <1>0, <1>1, <1>2, BringsKept

LEMMA ConvergeServer ==
  ASSUME SystemInv, SessionInv, CursorInv, OwnerInv, Server,
         NEW d \in Client, ConvergeOf(d)
  PROVE  ConvergeOf(d)'
<1>0. /\ SessionOf(d) /\ CursorOf(d) /\ NetworkOK
      /\ UNCHANGED <<stored, engine>> /\ [ServerNext]_serverVars
  BY SystemTypes, ServerMoves, ServerStep DEF SessionInv, CursorInv, Next
<1>1. /\ UNCHANGED <<local, queue, cursor, seen, pc, reply>>
      /\ UNCHANGED <<seen[d], cursor[d]>>
  BY <1>0 DEF stored, engine
<1>2. Stays(d) /\ Carries(d)
  <2>1. NoneAcknowledged(d) /\ Carries(d)
    BY <1>1 DEF NoneAcknowledged, Carries
  <2> QED
    BY <1>0, <1>1, <2>1, StaysSo
<1>3. ASSUME channel'[d].kind = "sync" => channel'[d] = channel[d], caller' # d
      PROVE  ConvergeOf(d)'
  BY <1>0, <1>1, <1>2, <1>3, ConvergeKept
<1>4. ASSUME channel'[d].kind = "sync" => channel'[d] = channel[d],
             UNCHANGED <<job, history>>, caller' = d => caller = d
      PROVE  ConvergeOf(d)'
  BY <1>0, <1>1, <1>2, <1>4, ConvergeKept, ConvergeWaits
<1>5. ASSUME NEW c \in Client, Turns(c)
      PROVE  ConvergeOf(d)'
  BY <1>0, <1>4, <1>5 DEF Turns, NetworkOK
<1>6. ASSUME NEW c \in Client, Takes(c)
      PROVE  ConvergeOf(d)'
  <2>1. channel'[d].kind = "sync" => channel'[d] = channel[d]
    BY <1>0, <1>6 DEF Takes, NetworkOK, Empty
  <2>2. CASE c # d
    BY <1>3, <1>6, <2>1, <2>2 DEF Takes
  <2>3. CASE c = d
    <3>1. job'.acknowledged = <<>> /\ job'.conflicts = <<>>
      BY <1>6 DEF Takes, Admits
    <3>2. Held(d, {})'
      BY <1>2, HeldKept DEF ConvergeOf
    <3>3. Explained(d, ItemsOf(job.acknowledged), CurrentCursor)'
      <4>1. \A A : A = {} => Explained(d, A, CurrentCursor)'
        BY <3>2 DEF Held, Explained
      <4>2. ItemsOf(job'.acknowledged) = {}
        BY <3>1, NoItems
      <4> QED
        BY <4>1, <4>2 DEF ItemsOf
    <3>4. IdsOf(job'.conflicts) = {}
      BY <3>1, NoItems
    <3> QED
      BY <1>0, <1>1, <1>2, <2>1, <3>3, <3>4, ConvergeKept
  <2> QED
    BY <2>2, <2>3
<1>7. ASSUME \/ \E r : TakesLate(r)
             \/ \E m : TakesPeer(m)
      PROVE  ConvergeOf(d)'
  BY <1>3, <1>7, NobodyIsNoClient DEF TakesLate, TakesPeer
<1>8. ASSUME Handle, UNCHANGED network
      PROVE  ConvergeOf(d)'
  <2>1. UNCHANGED <<channel, caller>> /\ ProcessMutation
    BY <1>8 DEF network, Handle
  <2>2. CASE caller # d
    BY <1>3, <2>1, <2>2
  <2>3. CASE caller = d
    BY <1>0, <1>1, <1>2, <2>1, <2>3, ConvergeKept, ConvergeHandled
  <2> QED
    BY <2>2, <2>3
<1>9. ASSUME Answers
      PROVE  ConvergeOf(d)'
  <2>1. caller' # d
    BY <1>9, NobodyIsNoClient DEF Answers
  <2>2. CASE caller # d
    <3>1. channel'[d] = channel[d]
      BY <1>0, <1>9, <2>2 DEF Answers, NetworkOK
    <3> QED
      BY <1>3, <2>1, <3>1
  <2>3. CASE caller = d
    <3>1. channel'[d] = SyncReply
      BY <1>0, <1>9, <2>3, NobodyIsNoClient DEF Answers, NetworkOK
    <3>2. \A r : r = SyncReply => Brings(d, r)'
      BY <1>0, <1>1, <1>2, <1>9, <2>3, ConvergeAnswers
    <3>3. Brings(d, channel[d])'
      BY <3>1, <3>2
    <3> QED
      BY <1>0, <1>1, <1>2, <2>1, <3>3, ConvergeKept
  <2> QED
    BY <2>2, <2>3
<1>10. CASE Rests
  BY <1>4, <1>10 DEF Rests
<1> QED
  BY <1>5, <1>6, <1>7, <1>8, <1>9, <1>10, ServerMoves

\* A step that leaves all that is kept for a client alone, and the server.
LEMMA ConvergeOther ==
  ASSUME SystemInv, SessionInv, CursorInv, [Next]_vars,
         NEW d \in Client, ConvergeOf(d),
         UNCHANGED Own(d), UNCHANGED <<job, history>>, caller' = d => caller = d
  PROVE  ConvergeOf(d)'
<1>0. SessionOf(d) /\ CursorOf(d) /\ [ServerNext]_serverVars
  BY SystemTypes, ServerStep DEF SessionInv, CursorInv
<1>1. UNCHANGED <<local[d], queue[d], cursor[d], seen[d], pc[d], reply[d], channel[d]>>
  BY DEF Own
<1>2. Stays(d) /\ Carries(d)
  <2>1. NoneAcknowledged(d) /\ Carries(d)
    BY <1>1 DEF NoneAcknowledged, Carries
  <2> QED
    BY <1>0, <1>1, <2>1, StaysSo
<1> QED
  BY <1>0, <1>1, <1>2, ConvergeKept, ConvergeWaits

LEMMA ConvergeStep ==
  ASSUME SystemInv, SessionInv, CursorInv, OwnerInv, ConvergeInv, [Next]_vars
  PROVE  ConvergeInv'
<1> SUFFICES ASSUME NEW d \in Client
             PROVE  ConvergeOf(d)'
  BY DEF ConvergeInv
<1>0. TypeInv /\ ConvergeOf(d)
  BY SystemTypes DEF ConvergeInv
<1>1. CASE UNCHANGED vars
  <2>1. UNCHANGED Own(d) /\ UNCHANGED <<job, history, caller>>
    BY <1>1, OwnKept DEF vars, network, serverVars
  <2> QED
    BY <1>0, <2>1, ConvergeOther
<1>2. ASSUME NEW c \in Client, ClientStep(c)
      PROVE  ConvergeOf(d)'
  <2>1. CASE c = d
    BY <1>0, <1>2, <2>1, ConvergeClient
  <2>2. CASE c # d
    <3>1. UNCHANGED Own(d) /\ (caller' = d => caller = d)
      BY <1>0, <1>2, <2>2, Others
    <3>2. UNCHANGED <<job, history>>
      BY <1>2, ClientLeavesServer DEF serverVars
    <3> QED
      BY <1>0, <3>1, <3>2, ConvergeOther
  <2> QED
    BY <2>1, <2>2
<1> QED
  BY <1>0, <1>1, <1>2, ConvergeServer DEF Next, ClientStep

LEMMA ConvergeInit == Init => ConvergeInv
<1> SUFFICES ASSUME Init, NEW c \in Client
             PROVE  ConvergeOf(c)
  BY DEF ConvergeInv
<1>1. \A e \in Entity : Clean(c, e)
  BY DEF Init, Clean
<1>2. caller # c /\ channel[c].kind # "sync" /\ reply[c].kind # "sync"
  BY NobodyIsNoClient DEF Init, Empty
<1> QED
  BY <1>1, <1>2 DEF ConvergeOf, Held

\* A client that has stored the whole log and has nothing of its own to tell
\* stores what the server does.
LEMMA CaughtUp ==
  ASSUME SystemInv, NEW c \in Client, CursorOf(c), ConvergeOf(c), Settled(c)
  PROVE  local[c] = store
<1>0. /\ local[c] \in [Entity -> EntityState \cup {NoEntity}]
      /\ store \in [Entity -> EntityState \cup {NoEntity}]
      /\ CurrentCursor \in Nat /\ seen[c] \in [Entity -> 0..CurrentCursor]
  BY SystemTypes DEF TypeOK, ServerTypeOK, StoredOK
<1>1. SUFFICES ASSUME NEW e \in Entity
               PROVE  local[c][e] = store[e]
  BY <1>0
<1>2. Clean(c, e)
  BY DEF ConvergeOf, Held, Unseen, Settled
<1>3. /\ seen[c][e] # 0 => history[seen[c][e]].entity = e
      /\ \A i \in 1..CurrentCursor : history[i].entity = e => seen[c][e] >= i
  BY DEF CursorOf, Covers, Settled
<1>4. CASE store[e] = NoEntity /\ \A i \in 1..CurrentCursor : history[i].entity # e
  <2>1. seen[c][e] = 0
    BY <1>0, <1>3, <1>4
  <2> QED
    BY <1>2, <1>4, <2>1 DEF Clean
<1>5. ASSUME NEW i \in 1..CurrentCursor,
             history[i].entity = e, history[i].state = store[e],
             \A j \in (i + 1)..CurrentCursor : history[j].entity # e
      PROVE  local[c][e] = store[e]
  <2>1. seen[c][e] = i
    <3>1. seen[c][e] \in 0..CurrentCursor /\ seen[c][e] >= i
      BY <1>0, <1>3, <1>5
    <3> QED
      BY <1>0, <1>3, <1>5, <3>1
  <2> QED
    BY <1>2, <1>5, <2>1 DEF Clean
<1> QED
  BY <1>4, <1>5 DEF SystemInv, LogInv, StoreMatchesLog

\* A client with nothing left to send that has caught up with the server's log
\* stores exactly the server's entities: no interleaving of local writes,
\* remote changes, resolutions, retries, lost or late replies and crashes
\* leaves the two apart (applySyncResponse, applySyncResults and
\* markAcknowledged), as long as forced snapshots are taken of all
\* collections.
THEOREM SettledClientsAgree ==
  ASSUME WholeSnapshots
  PROVE  Spec => []SettledMeansEqual
<1>1. /\ SystemInv /\ SessionInv /\ CursorInv /\ OwnerInv /\ ConvergeInv
      /\ [Next]_vars
      => ConvergeInv'
  BY ConvergeStep
<1>2. SystemInv /\ CursorInv /\ ConvergeInv => SettledMeansEqual
  BY CaughtUp DEF CursorInv, ConvergeInv, SettledMeansEqual
<1> QED
  BY <1>1, <1>2, ConvergeInit, SystemAlways, SessionAlways, CursorAlways,
     OwnerAlways, PTL DEF Spec

=============================================================================
