--------------------------- MODULE ContractProofs ---------------------------
(***************************************************************************)
(* Proofs about what a client is told of its writes: a mutation is marked  *)
(* ACKNOWLEDGED only when the server's log holds it, it stays so, and the  *)
(* system implements SyncContract.                                         *)
(***************************************************************************)
EXTENDS OfflineSyncProofs

(* Acknowledgements.  An id the server acknowledges is in the log, which    *)
(* only grows; the reply and the client carry it from there.                *)

ItemsOf(s) == {s[k] : k \in DOMAIN s}

AckOf(c) ==
  /\ WithStatus(c, "ACKNOWLEDGED") \subseteq LoggedIds
  /\ channel[c].kind = "sync" => ItemsOf(channel[c].acknowledged) \subseteq LoggedIds
  /\ reply[c].kind = "sync" => ItemsOf(reply[c].acknowledged) \subseteq LoggedIds

AckedInv == \A c \in Client : AckOf(c)

LEMMA LoggedGrows ==
  ASSUME ServerTypeOK, [ServerNext]_serverVars
  PROVE  LoggedIds \subseteq LoggedIds'
<1>1. \A i \in 1..CurrentCursor :
        i \in 1..CurrentCursor' /\ history'[i] = history[i]
  BY LogGrows
<1> QED
  BY <1>1 DEF LoggedIds

\* A step that acknowledges nothing but what is in the log, and carries on
\* the reply.
LEMMA AckKept ==
  ASSUME SystemInv, [ServerNext]_serverVars, NEW c \in Client, AckOf(c),
         WithStatus(c, "ACKNOWLEDGED")'
           \subseteq WithStatus(c, "ACKNOWLEDGED") \cup LoggedIds,
         \/ channel'[c] = channel[c]
         \/ channel'[c].kind = "sync" =>
              ItemsOf(channel'[c].acknowledged) \subseteq LoggedIds,
         \/ reply'[c] \in {reply[c], channel[c]}
         \/ reply'[c].kind = "sync" =>
              ItemsOf(reply'[c].acknowledged) \subseteq LoggedIds
  PROVE  AckOf(c)'
<1>1. LoggedIds \subseteq LoggedIds'
  BY LoggedGrows, SystemTypes
<1>2. /\ WithStatus(c, "ACKNOWLEDGED")' \subseteq LoggedIds
      /\ channel'[c].kind = "sync" =>
           ItemsOf(channel'[c].acknowledged) \subseteq LoggedIds
      /\ reply'[c].kind = "sync" =>
           ItemsOf(reply'[c].acknowledged) \subseteq LoggedIds
  BY DEF AckOf
<1>3. \A s : ItemsOf(s)' = ItemsOf(s)
  BY DEF ItemsOf
<1> QED
  BY <1>1, <1>2, <1>3 DEF AckOf, ItemsOf

\* A mutation gets a status other than ACKNOWLEDGED.
LEMMA StatusSettles ==
  ASSUME QueueOK, NEW c \in Client, NEW m, NEW s, SetStatus(c, m, s)
  PROVE  /\ s # "ACKNOWLEDGED" =>
              WithStatus(c, "ACKNOWLEDGED")' \subseteq WithStatus(c, "ACKNOWLEDGED")
         /\ WithStatus(c, "ACKNOWLEDGED")'
              \subseteq WithStatus(c, "ACKNOWLEDGED") \cup {m}
<1>1. queue'[c] = [queue[c] EXCEPT ![m].status = s] /\ IsQueue(queue[c])
  BY DEF SetStatus, QueueOK
<1> QED
  BY <1>1 DEF WithStatus, IsQueue, QueueRecord

\* What a local write does to the queue: a record under a new id.
LEMMA WriteEnqueues ==
  ASSUME QueueOK, NEW c \in Client, NEW m, NEW e, NEW state, NEW known,
         WriteAtomically(c, m, e, state, known)
  PROVE  \E r : r.status = "PENDING" /\ queue'[c] = Insert(queue[c], m, r)
<1> DEFINE r == [status |-> "PENDING", entity |-> e, value |-> state.data,
                 sequence |-> NextSequence(c, e), known |-> known]
<1>1. queue' = [queue EXCEPT ![c] = Insert(queue[c], m, r)]
  BY DEF WriteAtomically, Enqueue, QueueOK
<1> HIDE DEF r
<1>2. queue'[c] = Insert(queue[c], m, r)
  BY <1>1 DEF QueueOK
<1>3. r.status = "PENDING"
  BY DEF r
<1> QED
  BY <1>2, <1>3

\* A record waits again, with another value.
ResolvedTo(c, m, v, n) ==
  queue'[c] = [queue[c] EXCEPT ![m].status = "PENDING", ![m].value = v,
                               ![m].known = n]

Unsettled(c, m) ==
  m \in DOMAIN queue[c] /\ queue[c][m].status \in {"PENDING", "IN_FLIGHT"}

\* No record is lost or settled, and none changes its entity.
QueueKept(c) ==
  \A m \in DOMAIN queue[c] :
    /\ m \in DOMAIN queue'[c]
    /\ queue'[c][m].entity = queue[c][m].entity
    /\ Unsettled(c, m) => queue'[c][m].status \in {"PENDING", "IN_FLIGHT"}

LEMMA StatusKept ==
  ASSUME QueueOK, NEW c \in Client, NEW m, NEW s, SetStatus(c, m, s)
  PROVE  /\ \A k \in DOMAIN queue[c] :
              /\ k \in DOMAIN queue'[c]
              /\ queue'[c][k].entity = queue[c][k].entity
              /\ k # m => queue'[c][k] = queue[c][k]
              /\ k = m => queue'[c][k].status = s
         /\ s \in {"PENDING", "IN_FLIGHT"} => QueueKept(c)
<1>1. queue'[c] = [queue[c] EXCEPT ![m].status = s] /\ IsQueue(queue[c])
  BY DEF SetStatus, QueueOK
<1>2. ASSUME NEW k \in DOMAIN queue[c]
      PROVE  /\ k \in DOMAIN queue'[c]
             /\ queue'[c][k].entity = queue[c][k].entity
             /\ k # m => queue'[c][k] = queue[c][k]
             /\ k = m => queue'[c][k].status = s
  BY <1>1 DEF IsQueue, QueueRecord
<1> QED
  BY <1>2 DEF QueueKept, Unsettled

LEMMA ResolvedKept ==
  ASSUME QueueOK, NEW c \in Client, NEW m, NEW v, NEW n, ResolvedTo(c, m, v, n)
  PROVE  /\ DOMAIN queue'[c] = DOMAIN queue[c]
         /\ \A k \in DOMAIN queue[c] :
              /\ queue'[c][k].entity = queue[c][k].entity
              /\ k # m => queue'[c][k] = queue[c][k]
              /\ k = m => queue'[c][k].status = "PENDING"
         /\ QueueKept(c)
<1>1. IsQueue(queue[c])
  BY DEF QueueOK
<1>2. ASSUME NEW k \in DOMAIN queue[c], k # m
      PROVE  queue'[c][k] = queue[c][k]
  BY <1>2 DEF ResolvedTo
<1>3. ASSUME m \in DOMAIN queue[c]
      PROVE  /\ queue'[c][m].entity = queue[c][m].entity
             /\ queue'[c][m].status = "PENDING"
  BY <1>1, <1>3 DEF IsQueue, QueueRecord, ResolvedTo
<1>4. DOMAIN queue'[c] = DOMAIN queue[c]
  BY DEF ResolvedTo
<1> QED
  BY <1>2, <1>3, <1>4 DEF QueueKept, Unsettled

\* What the application does to the queue of its client.
LEMMA ApplicationQueue ==
  ASSUME TypeInv, NEW c \in Client, Application(c)
  PROVE  \/ queue'[c] = queue[c]
         \/ \E m, r : /\ Fresh(m) /\ r.status = "PENDING"
                      /\ queue'[c] = Insert(queue[c], m, r)
         \/ \E m, v, n :
              /\ m \in WithStatus(c, "CONFLICT")
              /\ ResolvedTo(c, m, v, n)
<1>0. QueueOK
  BY TypeParts DEF TypeInv, StoredOK
<1>1. ASSUME NEW m, NEW e, Create(c, m, e) \/ Put(c, m, e)
      PROVE  \E r : /\ Fresh(m) /\ r.status = "PENDING"
                    /\ queue'[c] = Insert(queue[c], m, r)
  BY <1>0, <1>1, WriteEnqueues DEF Create, Put
<1>2. ASSUME NEW t, NEW m, WriteEdit(c, t, m)
      PROVE  \E r : /\ Fresh(m) /\ r.status = "PENDING"
                    /\ queue'[c] = Insert(queue[c], m, r)
  BY <1>0, <1>2, WriteEnqueues DEF WriteEdit
<1>3. ASSUME NEW m, ResolveByApplication(c, m)
      PROVE  \E v, n :
               /\ m \in WithStatus(c, "CONFLICT")
               /\ ResolvedTo(c, m, v, n)
  <2>1. PICK v : queue' = [queue EXCEPT ![c][m].status = "PENDING",
                                  ![c][m].value = v,
                                  ![c][m].known = seen[c][queue[c][m].entity]]
    BY <1>3 DEF ResolveByApplication
  <2>2. ResolvedTo(c, m, v, seen[c][queue[c][m].entity])
    BY <1>0, <2>1 DEF QueueOK, ResolvedTo
  <2> QED
    BY <1>3, <2>2 DEF ResolveByApplication
<1>4. ASSUME \/ \E t, e, kind : ReadForEdit(c, t, e, kind)
             \/ \E e : RollBackWrite(c, e)
             \/ ForceSnapshot(c)
      PROVE  queue'[c] = queue[c]
  BY <1>4 DEF ReadForEdit, RollBackWrite, ForceSnapshot, stored
<1> QED
  BY <1>1, <1>2, <1>3, <1>4 DEF Application

\* The steps of a cycle that leave the queue alone.
LEMMA QuietCycle ==
  ASSUME NEW c \in Client,
         \/ StartSync(c) \/ Dequeue(c) \/ LoadBase(c) \/ SendRequest(c)
         \/ ReceiveTooOld(c) \/ ReceiveValid(c) \/ ReceiveInvalid(c)
         \/ RequestSnapshot(c) \/ ApplyReply(c) \/ SaveCursor(c)
         \/ ReadAndResolve(c) \/ PutResolved(c) \/ Finish(c)
  PROVE  queue' = queue
  BY DEF StartSync, Dequeue, LoadBase, SendRequest, ReceiveTooOld, ReceiveValid,
         ReceiveInvalid, RequestSnapshot, ApplyReply, SaveCursor, ReadAndResolve,
         PutResolved, Finish, stored

\* What a cycle does to the channel and the reply of its client.
LEMMA CycleMessages ==
  ASSUME TypeInv, NEW c \in Client, Cycle(c)
  PROVE  /\ \/ channel'[c] = channel[c]
            \/ channel'[c] \in {Empty, SnapshotRequest(Collection)}
            \/ SendRequest(c) /\ channel'[c] = BuildRequest(c)
         /\ \/ reply'[c] = reply[c]
            \/ ReceiveValid(c) /\ reply'[c] = channel[c]
            \/ reply'[c] = Empty
            \/ Acknowledge(c)
               /\ reply'[c] = [reply[c] EXCEPT !.acknowledged = Tail(@)]
            \/ (MarkConflict(c) \/ ResolveMutation(c))
               /\ reply'[c] = [reply[c] EXCEPT !.conflicts = Tail(@)]
<1>0. EngineOK /\ NetworkOK
  BY TypeParts DEF TypeInv
<1>1. CASE StartSync(c) \/ SendRequest(c) \/ RequestSnapshot(c)
  BY <1>0, <1>1 DEF StartSync, SendRequest, RequestSnapshot, Send, NetworkOK
<1>2. CASE ReceiveTooOld(c) \/ ReceiveValid(c) \/ ReceiveInvalid(c)
  BY <1>0, <1>2 DEF ReceiveTooOld, ReceiveValid, ReceiveInvalid, Send, EndCycle,
                    NetworkOK, EngineOK
<1>3. CASE Dequeue(c) \/ LoadBase(c) \/ Requeue(c) \/ ApplyReply(c)
           \/ SaveCursor(c) \/ ReadAndResolve(c) \/ PutResolved(c)
  BY <1>3 DEF Dequeue, LoadBase, Requeue, ApplyReply, SaveCursor,
              ReadAndResolve, PutResolved, network
<1>4. CASE Acknowledge(c)
  BY <1>0, <1>4 DEF Acknowledge, EngineOK, network
<1>5. CASE MarkConflict(c) \/ ResolveMutation(c)
  BY <1>0, <1>5 DEF MarkConflict, ResolveMutation, EngineOK, network
<1>6. CASE Finish(c)
  BY <1>0, <1>6 DEF Finish, EndCycle, EngineOK, network
<1> QED
  BY <1>1, <1>2, <1>3, <1>4, <1>5, <1>6 DEF Cycle

LEMMA RequestKinds ==
  ASSUME NEW c
  PROVE  /\ Empty.kind = "empty" /\ CursorTooOldReply.kind = "tooOld"
         /\ \A cols : SnapshotRequest(cols).kind = "snapshotRequest"
         /\ BuildRequest(c).kind = "syncRequest"
         /\ SyncReply.kind = "sync"
  BY DEF Empty, CursorTooOldReply, SnapshotRequest, BuildRequest, SyncReply

LEMMA AckApplication ==
  ASSUME SystemInv, [ServerNext]_serverVars, NEW c \in Client, AckOf(c),
         Application(c)
  PROVE  AckOf(c)'
<1>0. QueueOK /\ NetworkOK /\ TypeInv
  BY SystemTypes DEF StoredOK
<1>1. WithStatus(c, "ACKNOWLEDGED")' \subseteq WithStatus(c, "ACKNOWLEDGED")
  <2>1. IsQueue(queue[c])
    BY <1>0 DEF QueueOK
  <2>2. CASE queue'[c] = queue[c]
    BY <2>2 DEF WithStatus
  <2>3. CASE \E m, r : /\ Fresh(m) /\ r.status = "PENDING"
                       /\ queue'[c] = Insert(queue[c], m, r)
    BY <2>3 DEF WithStatus, Insert
  <2>4. CASE \E m, v, n :
               /\ m \in WithStatus(c, "CONFLICT")
               /\ ResolvedTo(c, m, v, n)
    <3>1. PICK m, v, n :
            m \in WithStatus(c, "CONFLICT") /\ ResolvedTo(c, m, v, n)
      BY <2>4
    <3> QED
      BY <1>0, <3>1, ResolvedKept DEF WithStatus
  <2> QED
    BY <1>0, <2>2, <2>3, <2>4, ApplicationQueue
<1>2. /\ reply' = reply
      /\ channel'[c] = channel[c] \/ channel'[c].kind # "sync"
  <2>1. ASSUME ForceSnapshot(c)
        PROVE  reply' = reply /\ channel'[c].kind # "sync"
    BY <1>0, <2>1 DEF ForceSnapshot, Send, NetworkOK, SnapshotRequest
  <2>2. Application(c) /\ ~ForceSnapshot(c) => UNCHANGED <<reply, channel>>
    BY DEF Application, Create, Put, ReadForEdit, WriteEdit, RollBackWrite,
           ResolveByApplication, WriteAtomically, engine, network
  <2> QED
    BY <2>1, <2>2
<1> QED
  BY <1>1, <1>2, AckKept

LEMMA AckCycle ==
  ASSUME SystemInv, [ServerNext]_serverVars, NEW c \in Client, AckOf(c),
         Cycle(c)
  PROVE  AckOf(c)'
<1>0. QueueOK /\ TypeInv /\ Control
  BY SystemTypes DEF StoredOK
<1>1. WithStatus(c, "ACKNOWLEDGED")'
        \subseteq WithStatus(c, "ACKNOWLEDGED") \cup LoggedIds
  <2>1. CASE \/ StartSync(c) \/ Dequeue(c) \/ LoadBase(c) \/ SendRequest(c)
             \/ ReceiveTooOld(c) \/ ReceiveValid(c) \/ ReceiveInvalid(c)
             \/ RequestSnapshot(c) \/ ApplyReply(c) \/ SaveCursor(c)
             \/ ReadAndResolve(c) \/ PutResolved(c) \/ Finish(c)
    BY <2>1, QuietCycle DEF WithStatus
  <2>2. CASE Requeue(c) \/ MarkConflict(c)
    BY <1>0, <2>2, StatusSettles DEF Requeue, MarkConflict
  <2>3. CASE Acknowledge(c)
    <3>1. /\ SetStatus(c, Head(reply[c].acknowledged), "ACKNOWLEDGED")
          /\ pc[c] = "settle" /\ reply[c].acknowledged # <<>>
      BY <2>3 DEF Acknowledge
    <3>2. reply[c].kind = "sync" /\ reply[c] \in SyncReplies
      BY <1>0, <3>1, ClientMessages DEF Control
    <3>3. Head(reply[c].acknowledged) \in ItemsOf(reply[c].acknowledged)
      BY <3>1, <3>2, SyncReplyShape DEF ItemsOf
    <3> QED
      BY <1>0, <3>1, <3>2, <3>3, StatusSettles DEF AckOf
  <2>4. CASE ResolveMutation(c)
    <3> DEFINE m == Head(reply[c].conflicts).id
               n == seen[c][Head(reply[c].conflicts).entity]
    <3>1. ResolvedTo(c, m, resolved[c], n)
      BY <1>0, <2>4 DEF ResolveMutation, QueueOK, ResolvedTo
    <3> HIDE DEF m, n
    <3> QED
      BY <1>0, <3>1, ResolvedKept DEF WithStatus
  <2> QED
    BY <2>1, <2>2, <2>3, <2>4 DEF Cycle
<1>2. channel'[c] = channel[c] \/ channel'[c].kind # "sync"
  <2>1. channel'[c] = channel[c]
        \/ channel'[c] \in {Empty, SnapshotRequest(Collection), BuildRequest(c)}
    BY <1>0, CycleMessages
  <2> QED
    BY <2>1, RequestKinds
<1>3. \/ reply'[c] \in {reply[c], channel[c]}
      \/ reply'[c].kind = "sync" =>
           ItemsOf(reply'[c].acknowledged) \subseteq LoggedIds
  <2>1. CASE \/ reply'[c] = reply[c] \/ reply'[c] = channel[c]
             \/ reply'[c] = Empty
    BY <2>1 DEF Empty
  <2>2. CASE /\ Acknowledge(c)
             /\ reply'[c] = [reply[c] EXCEPT !.acknowledged = Tail(@)]
    <3>1. /\ pc[c] = "settle" /\ reply[c].acknowledged # <<>>
      BY <2>2 DEF Acknowledge
    <3>2. reply[c].kind = "sync" /\ reply[c] \in SyncReplies
      BY <1>0, <3>1, ClientMessages DEF Control
    <3>3. reply[c].acknowledged \in Seq(MutationId)
      BY <3>2, SyncReplyShape
    <3>4. ItemsOf(Tail(reply[c].acknowledged)) \subseteq ItemsOf(reply[c].acknowledged)
      BY <3>1, <3>3 DEF ItemsOf
    <3>5. reply'[c].acknowledged = Tail(reply[c].acknowledged)
      BY <2>2, <3>2 DEF SyncReplies
    <3> QED
      BY <3>2, <3>4, <3>5 DEF AckOf
  <2>3. CASE /\ MarkConflict(c) \/ ResolveMutation(c)
             /\ reply'[c] = [reply[c] EXCEPT !.conflicts = Tail(@)]
    <3>1. reply[c] \in SyncReplies
      BY <1>0, <2>3, AtConflictShape DEF MarkConflict, ResolveMutation
    <3>2. /\ reply'[c].acknowledged = reply[c].acknowledged
          /\ reply[c].kind = "sync"
      BY <2>3, <3>1 DEF SyncReplies
    <3> QED
      BY <3>2 DEF AckOf
  <2> QED
    BY <1>0, <2>1, <2>2, <2>3, CycleMessages
<1> QED
  BY <1>1, <1>2, <1>3, AckKept

LEMMA AckFailure ==
  ASSUME SystemInv, [ServerNext]_serverVars, NEW c \in Client, AckOf(c),
         TransportError(c) \/ Crash(c) \/ RecoverMutation(c) \/ EndRecovery(c)
  PROVE  AckOf(c)'
<1>0. QueueOK /\ NetworkOK /\ EngineOK
  BY SystemTypes DEF StoredOK
<1>1. CASE TransportError(c) \/ Crash(c)
  <2>1. queue' = queue /\ channel'[c] = Empty /\ reply'[c] = Empty
    BY <1>0, <1>1 DEF TransportError, Crash, Abandon, Send, EndCycle, stored,
                      NetworkOK, EngineOK
  <2>2. WithStatus(c, "ACKNOWLEDGED")' = WithStatus(c, "ACKNOWLEDGED")
    BY <2>1 DEF WithStatus
  <2> QED
    BY <2>1, <2>2, AckKept DEF Empty
<1>2. CASE RecoverMutation(c)
  <2>1. PICK m : SetStatus(c, m, "PENDING")
    BY <1>2 DEF RecoverMutation
  <2>2. UNCHANGED <<channel, reply>>
    BY <1>2 DEF RecoverMutation, network, engine
  <2> QED
    BY <1>0, <2>1, <2>2, StatusSettles, AckKept
<1>3. CASE EndRecovery(c)
  <2>1. UNCHANGED <<queue, channel, reply>>
    BY <1>3 DEF EndRecovery, network, stored
  <2>2. WithStatus(c, "ACKNOWLEDGED")' = WithStatus(c, "ACKNOWLEDGED")
    BY <2>1 DEF WithStatus
  <2> QED
    BY <2>1, <2>2, AckKept
<1> QED
  BY <1>1, <1>2, <1>3

\* The server: only its answer acknowledges, and only what is in the log.
LEMMA AckServer ==
  ASSUME SystemInv, [ServerNext]_serverVars, NEW c \in Client, AckOf(c), Server
  PROVE  AckOf(c)'
<1>0. NetworkOK /\ ServerTypeOK
  BY SystemTypes
<1>1. UNCHANGED <<queue, reply>>
  BY DEF Server, Serve, ServeSnapshot, ServeDelayed, Handle, Answer, Prune,
         PeerSync, stored, engine
<1>2. WithStatus(c, "ACKNOWLEDGED")' = WithStatus(c, "ACKNOWLEDGED")
  BY <1>1 DEF WithStatus
<1>3. CASE Answer
  <2>1. channel' = channel \/ channel' = [channel EXCEPT ![caller] = SyncReply]
    BY <1>3 DEF Answer, Send
  <2>2. SyncReply.acknowledged = job.acknowledged
    BY DEF SyncReply
  <2>3. ItemsOf(job.acknowledged) \subseteq LoggedIds
    <3>1. job.acknowledged \in Seq(MutationId)
      BY <1>0 DEF ServerTypeOK, Job
    <3> QED
      BY <3>1 DEF SystemInv, AckInv, AcknowledgedIsApplied, ItemsOf, LoggedIds
  <2>4. channel'[c] \in {channel[c], SyncReply}
    BY <1>0, <2>1 DEF NetworkOK
  <2> QED
    BY <1>1, <1>2, <2>2, <2>3, <2>4, AckKept
<1>4. ASSUME NEW d \in Client, Serve(d) \/ ServeSnapshot(d)
      PROVE  channel'[c] = channel[c] \/ channel'[c].kind # "sync"
  <2>1. CASE Serve(d)
    BY <1>0, <2>1 DEF Serve, Send, NetworkOK, CursorTooOldReply, Empty
  <2>2. CASE ServeSnapshot(d)
    <3> DEFINE r == [SnapshotReply EXCEPT !.entities = [e \in Entity |->
                       IF CollectionOf(e) \in channel[d].collections
                       THEN @[e] ELSE NoEntity]]
    <3>1. channel' = [channel EXCEPT ![d] = r]
      BY <2>2 DEF ServeSnapshot, Send
    <3>2. r.kind = "snapshot"
      BY DEF SnapshotReply
    <3> HIDE DEF r
    <3> QED
      BY <1>0, <3>1, <3>2 DEF NetworkOK
  <2> QED
    BY <1>4, <2>1, <2>2
<1>5. CASE ServeDelayed \/ Handle \/ Prune
           \/ \E m \in MutationId, e \in Entity : PeerSync(m, e)
  <2>1. channel' = channel
    BY <1>5 DEF ServeDelayed, Handle, Prune, PeerSync, network
  <2> QED
    BY <1>1, <1>2, <2>1, AckKept
<1> QED
  BY <1>1, <1>2, <1>3, <1>4, <1>5, AckKept DEF Server

LEMMA AckStep ==
  ASSUME SystemInv, AckedInv, [Next]_vars
  PROVE  AckedInv'
<1>0. [ServerNext]_serverVars
  BY ServerStep DEF SystemInv
<1> SUFFICES ASSUME NEW c \in Client PROVE AckOf(c)'
  BY DEF AckedInv
<1>1. AckOf(c)
  BY DEF AckedInv
<1>2. CASE Server
  BY <1>0, <1>1, <1>2, AckServer
<1>3. ASSUME UNCHANGED Own(c) PROVE AckOf(c)'
  <2>1. UNCHANGED <<queue[c], channel[c], reply[c]>>
    BY <1>3 DEF Own
  <2>2. WithStatus(c, "ACKNOWLEDGED")' = WithStatus(c, "ACKNOWLEDGED")
    BY <2>1 DEF WithStatus
  <2> QED
    BY <1>0, <1>1, <2>1, <2>2, AckKept
<1>4. ASSUME NEW d \in Client, ClientStep(d) PROVE AckOf(c)'
  <2>1. CASE d = c
    BY <1>0, <1>1, <1>4, <2>1, AckApplication, AckCycle, AckFailure
       DEF ClientStep
  <2>2. CASE d # c
    BY <1>3, <1>4, <2>2, Others, SystemTypes
  <2> QED
    BY <2>1, <2>2
<1>5. CASE UNCHANGED vars
  BY <1>3, <1>5, OwnKept DEF vars
<1> QED
  BY <1>2, <1>4, <1>5 DEF Next, ClientStep

LEMMA AckedAlways == Spec => []AckedInv
<1>1. Init => AckedInv
  <2> SUFFICES ASSUME Init, NEW c \in Client PROVE AckOf(c)
    BY DEF AckedInv
  <2>1. queue[c] = <<>> /\ channel[c] = Empty /\ reply[c] = Empty
    BY DEF Init
  <2> QED
    BY <2>1 DEF AckOf, WithStatus, Empty
<1>2. SystemInv /\ AckedInv /\ [Next]_vars => AckedInv'
  BY AckStep
<1> QED
  BY <1>1, <1>2, SystemAlways, PTL DEF Spec

\* Whatever is lost, delayed, repeated or resolved and whoever crashes, a
\* client never marks a mutation ACKNOWLEDGED (mutationQueue.acknowledge, after
\* saveCursor) that the server has not applied (INV-4, INV-5).
THEOREM AcknowledgedApplied == Spec => []AcknowledgedOnlyIfApplied
<1>1. AckedInv => AcknowledgedOnlyIfApplied
  BY DEF AckedInv, AckOf, AcknowledgedOnlyIfApplied, Applied, LoggedIds
<1> QED
  BY <1>1, AckedAlways, PTL

-----------------------------------------------------------------------------
(* Sequences of ids and of records with ids.                                *)

IdsOf(s) == {s[k].id : k \in DOMAIN s}

Distinct(s) == \A i, j \in DOMAIN s : s[i].id = s[j].id => i = j

LEMMA NoItems == ItemsOf(<<>>) = {} /\ IdsOf(<<>>) = {} /\ Distinct(<<>>)
  BY DEF ItemsOf, IdsOf, Distinct

LEMMA AppendItems ==
  ASSUME NEW S, NEW s \in Seq(S), NEW x \in S
  PROVE  /\ ItemsOf(Append(s, x)) = ItemsOf(s) \cup {x}
         /\ IdsOf(Append(s, x)) = IdsOf(s) \cup {x.id}
         /\ Distinct(s) /\ x.id \notin IdsOf(s) => Distinct(Append(s, x))
         /\ \A k \in DOMAIN Append(s, x) :
              (k \in DOMAIN s /\ Append(s, x)[k] = s[k]) \/ Append(s, x)[k] = x
<1> DEFINE a == Append(s, x)
<1>1. /\ Len(s) \in Nat /\ DOMAIN s = 1..Len(s) /\ DOMAIN a = 1..(Len(s) + 1)
      /\ a[Len(s) + 1] = x
      /\ \A k \in 1..Len(s) : a[k] = s[k]
  OBVIOUS
<1> HIDE DEF a
<1>2. \A k \in DOMAIN a : (k \in DOMAIN s /\ a[k] = s[k]) \/ k = Len(s) + 1
  BY <1>1
<1>3. DOMAIN s \subseteq DOMAIN a /\ Len(s) + 1 \in DOMAIN a
  BY <1>1
<1>4. ItemsOf(a) = ItemsOf(s) \cup {x}
  BY <1>1, <1>2, <1>3 DEF ItemsOf
<1>5. IdsOf(a) = IdsOf(s) \cup {x.id}
  BY <1>1, <1>2, <1>3 DEF IdsOf
<1>6. Distinct(s) /\ x.id \notin IdsOf(s) => Distinct(a)
  <2> SUFFICES ASSUME Distinct(s), x.id \notin IdsOf(s),
                      NEW i \in DOMAIN a, NEW j \in DOMAIN a, a[i].id = a[j].id
               PROVE  i = j
    BY DEF Distinct
  <2>1. \A k \in DOMAIN s : s[k].id # x.id
    BY DEF IdsOf
  <2> QED
    BY <1>1, <1>2, <2>1 DEF Distinct
<1> QED
  BY <1>1, <1>2, <1>4, <1>5, <1>6 DEF a

LEMMA TailItems ==
  ASSUME NEW S, NEW s \in Seq(S), s # <<>>
  PROVE  /\ ItemsOf(Tail(s)) \subseteq ItemsOf(s) /\ Head(s) \in ItemsOf(s)
         /\ IdsOf(Tail(s)) \subseteq IdsOf(s) /\ Head(s).id \in IdsOf(s)
         /\ Distinct(s) => Distinct(Tail(s)) /\ Head(s).id \notin IdsOf(Tail(s))
         /\ \A k \in DOMAIN Tail(s) : Tail(s)[k] = s[k + 1] /\ k + 1 \in DOMAIN s
<1> DEFINE t == Tail(s)
<1>1. /\ Len(s) \in Nat \ {0} /\ DOMAIN s = 1..Len(s)
      /\ Head(s) = s[1] /\ DOMAIN t = 1..(Len(s) - 1)
      /\ \A k \in 1..(Len(s) - 1) : t[k] = s[k + 1]
  OBVIOUS
<1> HIDE DEF t
<1>2. \A k \in DOMAIN t : t[k] = s[k + 1] /\ k + 1 \in DOMAIN s /\ k + 1 # 1
  BY <1>1
<1>3. 1 \in DOMAIN s
  BY <1>1
<1>4. ItemsOf(t) \subseteq ItemsOf(s) /\ Head(s) \in ItemsOf(s)
  BY <1>1, <1>2, <1>3 DEF ItemsOf
<1>5. IdsOf(t) \subseteq IdsOf(s) /\ Head(s).id \in IdsOf(s)
  BY <1>1, <1>2, <1>3 DEF IdsOf
<1>6. ASSUME Distinct(s) PROVE Distinct(t) /\ Head(s).id \notin IdsOf(t)
  <2>1. Distinct(t)
    <3> SUFFICES ASSUME NEW i \in DOMAIN t, NEW j \in DOMAIN t, t[i].id = t[j].id
                 PROVE  i = j
      BY DEF Distinct
    <3>1. i + 1 = j + 1
      BY <1>2, <1>6 DEF Distinct
    <3> QED
      BY <1>1, <3>1
  <2>2. ASSUME NEW k \in DOMAIN t, Head(s).id = t[k].id PROVE FALSE
    BY <1>1, <1>2, <1>3, <1>6, <2>2 DEF Distinct
  <2> QED
    BY <2>1, <2>2 DEF IdsOf
<1> QED
  BY <1>2, <1>4, <1>5, <1>6 DEF t

-----------------------------------------------------------------------------
(* Sessions.  A cycle settles each mutation of its batch at most once: the  *)
(* ids of the batch are distinct and wait to be settled while the request   *)
(* is under way, the server reports each at most once, and what it does not *)
(* report is given back.                                                    *)

OpenCycle == {"loadBase", "awaitReply", "requeue", "apply", "saveCursor"}

Settling == {"apply", "saveCursor", "settle", "putResolved", "resolveMutation"}

BatchOf(c) ==
  /\ pc[c] \in {"idle", "recovering"} => batch[c] = <<>>
  /\ Distinct(batch[c])
  /\ \A k \in DOMAIN batch[c] :
       /\ batch[c][k].id \in DOMAIN queue[c]
       /\ batch[c][k].entity = queue[c][batch[c][k].id].entity
  /\ pc[c] \in OpenCycle => \A m \in IdsOf(batch[c]) : Unsettled(c, m)

\* The mutations are those of the batch.
SameWrites(c, s) ==
  /\ DOMAIN s = DOMAIN batch[c]
  /\ \A k \in DOMAIN s :
       s[k].id = batch[c][k].id /\ s[k].entity = batch[c][k].entity

\* Reported at most once, and of the batch.
Outcomes(c, acknowledged, conflicts) ==
  /\ ItemsOf(acknowledged) \subseteq IdsOf(batch[c])
  /\ IdsOf(conflicts) \subseteq IdsOf(batch[c])
  /\ ItemsOf(acknowledged) \cap IdsOf(conflicts) = {}
  /\ Distinct(conflicts)
  /\ \A k \in DOMAIN conflicts :
       conflicts[k].entity = queue[c][conflicts[k].id].entity

Processed == {job.request.mutations[k].id : k \in 1..(job.next - 1)}

SentOf(c) ==
  /\ channel[c].kind = "syncRequest" => SameWrites(c, channel[c].mutations)
  /\ caller = c =>
       /\ SameWrites(c, job.request.mutations)
       /\ Outcomes(c, job.acknowledged, job.conflicts)
       /\ ItemsOf(job.acknowledged) \cup IdsOf(job.conflicts) \subseteq Processed
  /\ channel[c].kind = "sync" =>
       Outcomes(c, channel[c].acknowledged, channel[c].conflicts)

SettleOf(c) ==
  /\ reply[c].kind = "sync" =>
       /\ pc[c] \in Settling
       /\ Outcomes(c, reply[c].acknowledged, reply[c].conflicts)
       /\ ItemsOf(todo[c]) \cap
            (ItemsOf(reply[c].acknowledged) \cup IdsOf(reply[c].conflicts)) = {}
       /\ \A m \in IdsOf(reply[c].conflicts) : Unsettled(c, m)
  /\ \A m \in ItemsOf(todo[c]) : Unsettled(c, m)

SessionOf(c) == BatchOf(c) /\ SentOf(c) /\ SettleOf(c)

SessionInv == \A c \in Client : SessionOf(c)

LEMMA UnsettledKept ==
  ASSUME NEW c \in Client, QueueKept(c)
  PROVE  \A m : Unsettled(c, m) => Unsettled(c, m)'
  BY DEF QueueKept, Unsettled

LEMMA OutcomesKept ==
  ASSUME NEW c \in Client, QueueKept(c), BatchOf(c), batch'[c] = batch[c]
  PROVE  \A a, k : Outcomes(c, a, k) => Outcomes(c, a, k)'
<1> SUFFICES ASSUME NEW a, NEW k, Outcomes(c, a, k) PROVE Outcomes(c, a, k)'
  OBVIOUS
<1>1. IdsOf(batch[c])' = IdsOf(batch[c])
  BY DEF IdsOf
<1>2. ASSUME NEW i \in DOMAIN k
      PROVE  k[i].entity = queue'[c][k[i].id].entity
  <2>1. k[i].id \in IdsOf(batch[c])
    BY DEF Outcomes, IdsOf
  <2>2. k[i].id \in DOMAIN queue[c]
    BY <2>1 DEF BatchOf, IdsOf
  <2> QED
    BY <2>2 DEF Outcomes, QueueKept
<1> QED
  BY <1>1, <1>2 DEF Outcomes, ItemsOf, IdsOf, Distinct

LEMMA SameWritesKept ==
  ASSUME NEW c \in Client, batch'[c] = batch[c]
  PROVE  \A s : SameWrites(c, s)' = SameWrites(c, s)
  BY DEF SameWrites

LEMMA BatchKept ==
  ASSUME NEW c \in Client, BatchOf(c), QueueKept(c), batch'[c] = batch[c],
         pc'[c] \in OpenCycle => pc[c] \in OpenCycle \/ batch[c] = <<>>,
         pc'[c] \in {"idle", "recovering"} =>
           pc[c] \in {"idle", "recovering"} \/ batch[c] = <<>>
  PROVE  BatchOf(c)'
<1>1. \A k \in DOMAIN batch[c] :
        /\ batch[c][k].id \in DOMAIN queue'[c]
        /\ batch[c][k].entity = queue'[c][batch[c][k].id].entity
  BY DEF BatchOf, QueueKept
<1>2. pc'[c] \in OpenCycle => \A m \in IdsOf(batch[c]) : Unsettled(c, m)'
  BY UnsettledKept, NoItems DEF BatchOf
<1>3. IdsOf(batch[c])' = IdsOf(batch[c]) /\ Distinct(batch[c])' = Distinct(batch[c])
  BY DEF IdsOf, Distinct
<1> QED
  BY <1>1, <1>2, <1>3 DEF BatchOf, OpenCycle

\* What is under way for the client stays with its batch: a step leaves it,
\* drops it, or passes it on.
LEMMA SentKept ==
  ASSUME NEW c \in Client, BatchOf(c), SentOf(c), QueueKept(c),
         batch'[c] = batch[c],
         \/ channel'[c] = channel[c]
         \/ channel'[c].kind \notin {"syncRequest", "sync"}
         \/ /\ channel'[c].kind = "syncRequest"
            /\ SameWrites(c, channel'[c].mutations)
         \/ /\ channel'[c].kind = "sync" /\ caller = c
            /\ channel'[c].acknowledged = job.acknowledged
            /\ channel'[c].conflicts = job.conflicts,
         caller' = c =>
           \/ caller = c /\ job' = job
           \/ /\ SameWrites(c, job'.request.mutations)
              /\ job'.acknowledged = <<>> /\ job'.conflicts = <<>>
  PROVE  SentOf(c)'
<1>1. \A s : SameWrites(c, s) => SameWrites(c, s)'
  BY SameWritesKept
<1>2. \A a, k : Outcomes(c, a, k) => Outcomes(c, a, k)'
  BY OutcomesKept
<1>3. channel'[c].kind = "syncRequest" => SameWrites(c, channel[c].mutations)'
  <2>1. channel'[c].kind = "syncRequest" => SameWrites(c, channel'[c].mutations)
    BY DEF SentOf
  <2> QED
    BY <1>1, <2>1
<1>4. channel'[c].kind = "sync" =>
        Outcomes(c, channel[c].acknowledged, channel[c].conflicts)'
  <2>1. channel'[c].kind = "sync" =>
          Outcomes(c, channel'[c].acknowledged, channel'[c].conflicts)
    BY DEF SentOf
  <2> QED
    BY <1>2, <2>1
<1>5. Outcomes(c, <<>>, <<>>)
  BY NoItems DEF Outcomes
<1>6. caller' = c =>
        /\ SameWrites(c, job.request.mutations)'
        /\ Outcomes(c, job.acknowledged, job.conflicts)'
        /\ (ItemsOf(job.acknowledged) \cup IdsOf(job.conflicts) \subseteq Processed)'
  <2> SUFFICES ASSUME caller' = c
               PROVE  /\ SameWrites(c, job.request.mutations)'
                      /\ Outcomes(c, job.acknowledged, job.conflicts)'
                      /\ (ItemsOf(job.acknowledged) \cup IdsOf(job.conflicts)
                            \subseteq Processed)'
    OBVIOUS
  <2>1. CASE caller = c /\ job' = job
    <3>1. /\ SameWrites(c, job'.request.mutations)
          /\ Outcomes(c, job'.acknowledged, job'.conflicts)
      BY <2>1 DEF SentOf
    <3>2. (ItemsOf(job.acknowledged) \cup IdsOf(job.conflicts) \subseteq Processed)'
      <4>1. /\ ItemsOf(job.acknowledged)' = ItemsOf(job.acknowledged)
            /\ IdsOf(job.conflicts)' = IdsOf(job.conflicts)
            /\ Processed' = Processed
        BY <2>1 DEF ItemsOf, IdsOf, Processed
      <4> QED
        BY <2>1, <4>1 DEF SentOf
    <3> QED
      BY <1>1, <1>2, <3>1, <3>2
  <2>2. CASE /\ SameWrites(c, job'.request.mutations)
             /\ job'.acknowledged = <<>> /\ job'.conflicts = <<>>
    <3>1. Outcomes(c, job'.acknowledged, job'.conflicts)
      BY <1>5, <2>2
    <3>2. ItemsOf(job.acknowledged)' = {} /\ IdsOf(job.conflicts)' = {}
      BY <2>2 DEF ItemsOf, IdsOf
    <3> QED
      BY <1>1, <1>2, <2>2, <3>1, <3>2
  <2> QED
    BY <2>1, <2>2
<1> QED
  BY <1>3, <1>4, <1>6 DEF SentOf

LEMMA SettleKept ==
  ASSUME NEW c \in Client, BatchOf(c), SettleOf(c), QueueKept(c),
         batch'[c] = batch[c], reply'[c] = reply[c],
         ItemsOf(todo'[c]) \subseteq ItemsOf(todo[c]),
         reply[c].kind = "sync" => pc'[c] \in Settling
  PROVE  SettleOf(c)'
<1>1. \A a, k : Outcomes(c, a, k) => Outcomes(c, a, k)'
  BY OutcomesKept
<1>2. \A m : Unsettled(c, m) => Unsettled(c, m)'
  BY UnsettledKept
<1>3. ItemsOf(todo[c])' \subseteq ItemsOf(todo[c])
  BY DEF ItemsOf
<1>4. /\ IdsOf(reply[c].conflicts)' = IdsOf(reply[c].conflicts)
      /\ ItemsOf(reply[c].acknowledged)' = ItemsOf(reply[c].acknowledged)
  BY DEF IdsOf, ItemsOf
<1>5. reply'[c].kind = "sync" =>
        Outcomes(c, reply[c].acknowledged, reply[c].conflicts)'
  <2>1. reply'[c].kind = "sync" =>
          Outcomes(c, reply'[c].acknowledged, reply'[c].conflicts)
    BY DEF SettleOf
  <2> QED
    BY <1>1, <2>1
<1>6. /\ \A m \in ItemsOf(todo[c])' : Unsettled(c, m)'
      /\ reply'[c].kind = "sync" =>
           \A m \in IdsOf(reply[c].conflicts)' : Unsettled(c, m)'
  BY <1>2, <1>3, <1>4 DEF SettleOf
<1>7. reply'[c].kind = "sync" =>
        ItemsOf(todo[c])' \cap (ItemsOf(reply[c].acknowledged)'
                                  \cup IdsOf(reply[c].conflicts)') = {}
  BY <1>3, <1>4 DEF SettleOf
<1>8. reply'[c].kind = "sync" => pc'[c] \in Settling
  OBVIOUS
<1> QED
  BY <1>5, <1>6, <1>7, <1>8 DEF SettleOf, Settling

\* A session that is over, or not begun.
LEMMA NoSession ==
  ASSUME NEW c \in Client,
         batch'[c] = <<>>, todo'[c] = <<>>, reply'[c] = Empty,
         channel'[c].kind \notin {"syncRequest", "sync"}, caller' # c
  PROVE  SessionOf(c)'
<1>1. BatchOf(c)'
  BY NoItems DEF BatchOf, IdsOf, Distinct
<1>2. SentOf(c)'
  BY DEF SentOf
<1>3. SettleOf(c)'
  BY NoItems DEF SettleOf, ItemsOf, Empty
<1> QED
  BY <1>1, <1>2, <1>3 DEF SessionOf

LEMMA ApplicationKeepsQueue ==
  ASSUME TypeInv, NEW c \in Client, Application(c)
  PROVE  QueueKept(c)
<1>0. QueueOK
  BY TypeParts DEF TypeInv, StoredOK
<1>1. CASE queue'[c] = queue[c]
  BY <1>1 DEF QueueKept, Unsettled
<1>2. CASE \E m, r : /\ Fresh(m) /\ r.status = "PENDING"
                     /\ queue'[c] = Insert(queue[c], m, r)
  BY <1>2 DEF QueueKept, Unsettled, Insert, Fresh
<1>3. CASE \E m, v, n :
             /\ m \in WithStatus(c, "CONFLICT")
             /\ ResolvedTo(c, m, v, n)
  BY <1>0, <1>3, ResolvedKept
<1> QED
  BY <1>1, <1>2, <1>3, ApplicationQueue

LEMMA SessionApplication ==
  ASSUME SystemInv, NEW c \in Client, SessionOf(c), Application(c)
  PROVE  SessionOf(c)'
<1>0. EngineOK /\ NetworkOK /\ TypeInv
  BY SystemTypes
<1>1. QueueKept(c)
  BY <1>0, ApplicationKeepsQueue
<1>2. /\ UNCHANGED <<batch, reply, todo, caller, job>>
      /\ \/ UNCHANGED <<pc, channel>>
         \/ /\ pc[c] = "idle" /\ pc'[c] = "awaitReply"
            /\ channel'[c].kind = "snapshotRequest"
  <2>1. ASSUME ForceSnapshot(c)
        PROVE  /\ UNCHANGED <<batch, reply, todo, caller, job>>
               /\ pc[c] = "idle" /\ pc'[c] = "awaitReply"
               /\ channel'[c].kind = "snapshotRequest"
    BY <1>0, <2>1 DEF ForceSnapshot, Send, Goto, NetworkOK, EngineOK,
                      SnapshotRequest, serverVars
  <2>2. Application(c) /\ ~ForceSnapshot(c)
          => UNCHANGED <<engine, network, serverVars>>
    BY DEF Application, Create, Put, ReadForEdit, WriteEdit, RollBackWrite,
           ResolveByApplication, WriteAtomically
  <2> QED
    BY <2>1, <2>2 DEF engine, network, serverVars
<1>3. BatchOf(c)'
  BY <1>1, <1>2, BatchKept DEF SessionOf, BatchOf
<1>4. SentOf(c)'
  BY <1>1, <1>2, SentKept DEF SessionOf
<1>5. SettleOf(c)'
  BY <1>1, <1>2, SettleKept DEF SessionOf, SettleOf, Settling
<1> QED
  BY <1>3, <1>4, <1>5 DEF SessionOf

\* The steps of a cycle that neither take a batch nor settle anything.
LEMMA SessionQuiet ==
  ASSUME SystemInv, NEW c \in Client, SessionOf(c),
         \/ StartSync(c) \/ LoadBase(c) \/ SendRequest(c) \/ RequestSnapshot(c)
         \/ ApplyReply(c) \/ SaveCursor(c) \/ ReadAndResolve(c)
         \/ PutResolved(c)
  PROVE  SessionOf(c)'
<1>0. EngineOK /\ NetworkOK /\ Control /\ TypeInv
  BY SystemTypes
<1>1. QueueKept(c)
  BY QuietCycle DEF QueueKept, Unsettled
<1>2. UNCHANGED <<batch, reply, todo, caller, job>>
  BY DEF StartSync, LoadBase, SendRequest, RequestSnapshot, ApplyReply,
         SaveCursor, ReadAndResolve, PutResolved, network, serverVars
<1>3. /\ pc'[c] \in OpenCycle => pc[c] \in OpenCycle \/ pc[c] = "idle"
      /\ pc'[c] \notin {"idle", "recovering"}
      /\ pc[c] \in Settling =>
           \/ pc'[c] \in Settling
           \/ pc[c] = "saveCursor" /\ reply[c].kind # "sync"
  <2>1. CASE StartSync(c) \/ LoadBase(c) \/ SendRequest(c) \/ RequestSnapshot(c)
    <3>1. \/ pc[c] = "idle" /\ pc'[c] \in {"awaitReply", "dequeue"}
          \/ pc[c] = "loadBase" /\ pc'[c] \in {"loadBase", "awaitReply"}
          \/ pc[c] = "requeue" /\ pc'[c] = "awaitReply"
      BY <1>0, <2>1 DEF StartSync, LoadBase, SendRequest, RequestSnapshot,
                        Goto, EngineOK
    <3> QED
      BY <3>1 DEF OpenCycle, Settling
  <2>2. CASE ApplyReply(c) \/ SaveCursor(c)
    <3>1. \/ pc[c] = "apply" /\ pc'[c] = "saveCursor"
          \/ /\ pc[c] = "saveCursor"
             /\ pc'[c] = IF reply[c].kind = "sync" THEN "settle" ELSE "finish"
      BY <1>0, <2>2 DEF ApplyReply, SaveCursor, Goto, EngineOK
    <3> QED
      BY <3>1 DEF OpenCycle, Settling
  <2>3. CASE ReadAndResolve(c) \/ PutResolved(c)
    <3>1. \/ pc[c] = "settle" /\ pc'[c] = "putResolved"
          \/ pc[c] = "putResolved" /\ pc'[c] = "resolveMutation"
      BY <1>0, <2>3 DEF ReadAndResolve, PutResolved, AtConflict, Goto, EngineOK
    <3> QED
      BY <3>1 DEF OpenCycle, Settling
  <2> QED
    BY <2>1, <2>2, <2>3
<1>4. BatchOf(c)'
  BY <1>1, <1>2, <1>3, BatchKept DEF SessionOf, BatchOf
<1>5. SettleOf(c)'
  <2>1. reply[c].kind = "sync" => pc'[c] \in Settling
    BY <1>3 DEF SessionOf, SettleOf
  <2> QED
    BY <1>1, <1>2, <2>1, SettleKept DEF SessionOf
<1>6. SentOf(c)'
  <2>1. \/ channel'[c] = channel[c]
        \/ channel'[c] \in {Empty, SnapshotRequest(Collection)}
        \/ channel'[c] = BuildRequest(c)
    BY <1>0, CycleMessages DEF Cycle
  <2>2. SameWrites(c, BuildRequest(c).mutations)
    BY DEF SameWrites, BuildRequest
  <2>3. \/ channel'[c] = channel[c]
        \/ channel'[c].kind \notin {"syncRequest", "sync"}
        \/ /\ channel'[c].kind = "syncRequest"
           /\ SameWrites(c, channel'[c].mutations)
    BY <2>1, <2>2, RequestKinds
  <2> QED
    BY <1>1, <1>2, <2>3, SentKept DEF SessionOf
<1> QED
  BY <1>4, <1>5, <1>6 DEF SessionOf

LEMMA SessionEnd ==
  ASSUME SystemInv, NEW c \in Client,
         ReceiveInvalid(c) \/ Finish(c) \/ TransportError(c) \/ Crash(c)
  PROVE  SessionOf(c)'
<1>0. EngineOK /\ NetworkOK /\ Control
  BY SystemTypes
<1>1. batch'[c] = <<>> /\ todo'[c] = <<>> /\ reply'[c] = Empty
  BY <1>0 DEF ReceiveInvalid, Finish, TransportError, Crash, EndCycle, EngineOK
<1>2. channel'[c].kind \notin {"syncRequest", "sync"} /\ caller' # c
  <2>1. CASE Finish(c)
    <3>1. pc[c] # "awaitReply" /\ UNCHANGED <<channel, caller>>
      BY <2>1 DEF Finish, network
    <3> QED
      BY <1>0, <3>1 DEF Control
  <2>2. CASE ReceiveInvalid(c)
    <3>1. channel[c].kind # "empty" /\ channel'[c] = Empty /\ caller' = caller
      BY <1>0, <2>2 DEF ReceiveInvalid, Send, NetworkOK
    <3> QED
      BY <1>0, <3>1, RequestKinds DEF Control
  <2>3. CASE TransportError(c) \/ Crash(c)
    <3>1. Abandon(c)
      BY <2>3 DEF TransportError, Crash
    <3>2. channel'[c] = Empty /\ caller' # c
      BY <1>0, <3>1, NobodyIsNoClient DEF Abandon, Send, NetworkOK
    <3> QED
      BY <3>2, RequestKinds
  <2> QED
    BY <2>1, <2>2, <2>3
<1> QED
  BY <1>1, <1>2, NoSession

LEMMA NothingSent ==
  ASSUME NEW c \in Client,
         channel'[c].kind \notin {"syncRequest", "sync"}, caller' # c
  PROVE  SentOf(c)'
  BY DEF SentOf

\* Nothing is under way for a client that is not awaiting a reply.
LEMMA NoneUnderWay ==
  ASSUME TypeInv, NEW c \in Client, pc[c] # "awaitReply"
  PROVE  channel[c].kind = "empty" /\ caller # c
  BY DEF TypeInv, Control

LEMMA SessionDequeue ==
  ASSUME SystemInv, NEW c \in Client, SessionOf(c), Dequeue(c)
  PROVE  SessionOf(c)'
<1>0. EngineOK /\ QueueOK /\ TypeInv
  BY SystemTypes DEF StoredOK
<1>1. PICK s \in SortedBySequence(c, WithStatus(c, "PENDING")), n \in Nat :
        /\ n <= Len(s)
        /\ batch' = [batch EXCEPT ![c] = [i \in 1..n |->
             [id |-> s[i], entity |-> queue[c][s[i]].entity,
              value |-> queue[c][s[i]].value]]]
  BY <1>0, DequeueShape
<1>2. /\ pc[c] = "dequeue" /\ pc'[c] = "loadBase"
      /\ UNCHANGED <<queue, reply, todo, channel, caller>>
  BY <1>0 DEF Dequeue, Goto, EngineOK, stored, network
<1>3. /\ Len(s) \in Nat /\ s \in Seq(WithStatus(c, "PENDING"))
      /\ \A i, j \in 1..Len(s) : i < j => s[i] # s[j]
  BY <1>0, SortedShape
<1> DEFINE b == [i \in 1..n |-> [id |-> s[i], entity |-> queue[c][s[i]].entity,
                                 value |-> queue[c][s[i]].value]]
<1>4. batch'[c] = b
  BY <1>0, <1>1 DEF EngineOK
<1>5. /\ DOMAIN b = 1..n
      /\ \A i \in 1..n : b[i].id = s[i] /\ b[i].entity = queue[c][s[i]].entity
  OBVIOUS
<1> HIDE DEF b
<1>6. ASSUME NEW i \in 1..n, NEW j \in 1..n, s[i] = s[j] PROVE i = j
  <2>1. i \in 1..Len(s) /\ j \in 1..Len(s)
    BY <1>1, <1>3
  <2>2. ~(i < j) /\ ~(j < i)
    BY <1>3, <1>6, <2>1
  <2> QED
    BY <2>2
<1>7. ASSUME NEW i \in 1..n PROVE s[i] \in DOMAIN queue[c] /\ Unsettled(c, s[i])
  <2>1. i \in 1..Len(s)
    BY <1>1, <1>3
  <2>2. s[i] \in WithStatus(c, "PENDING")
    BY <1>3, <2>1
  <2> QED
    BY <2>2 DEF WithStatus, Unsettled
<1>8. \A m \in IdsOf(b) : Unsettled(c, m)
  BY <1>5, <1>7 DEF IdsOf
<1>9. BatchOf(c)'
  <2>1. Distinct(b)
    BY <1>5, <1>6 DEF Distinct
  <2>2. IdsOf(batch[c])' = IdsOf(b) /\ (Distinct(batch[c])' <=> Distinct(b))
    BY <1>4 DEF IdsOf, Distinct
  <2>3. \A m : Unsettled(c, m)' = Unsettled(c, m)
    BY <1>2 DEF Unsettled
  <2>4. \A k \in DOMAIN b : /\ b[k].id \in DOMAIN queue[c]
                            /\ b[k].entity = queue[c][b[k].id].entity
    BY <1>5, <1>7
  <2> QED
    BY <1>2, <1>4, <1>8, <2>1, <2>2, <2>3, <2>4 DEF BatchOf
<1>10. SentOf(c)'
  BY <1>0, <1>2, NoneUnderWay, NothingSent
<1>11. SettleOf(c)'
  BY <1>2 DEF SessionOf, SettleOf, Settling, ItemsOf, Unsettled
<1> QED
  BY <1>9, <1>10, <1>11 DEF SessionOf

LEMMA SessionTooOld ==
  ASSUME SystemInv, NEW c \in Client, SessionOf(c), ReceiveTooOld(c)
  PROVE  SessionOf(c)'
<1>0. EngineOK /\ NetworkOK /\ Control
  BY SystemTypes
<1>1. /\ pc[c] = "awaitReply" /\ pc'[c] = "requeue"
      /\ channel[c].kind = "tooOld" /\ channel'[c] = Empty
      /\ todo'[c] = BatchIds(c)
      /\ UNCHANGED <<queue, batch, reply, caller>>
  BY <1>0 DEF ReceiveTooOld, Send, Goto, EngineOK, NetworkOK, stored
<1>2. BatchOf(c)'
  BY <1>1, BatchKept DEF SessionOf, OpenCycle, QueueKept, Unsettled
<1>3. SentOf(c)'
  BY <1>0, <1>1, NothingSent, RequestKinds DEF Control
<1>4. \A m \in ItemsOf(todo[c])' : Unsettled(c, m)'
  <2>1. ItemsOf(todo[c])' = IdsOf(batch[c])
    BY <1>1 DEF ItemsOf, IdsOf, BatchIds
  <2> QED
    BY <1>1, <2>1 DEF SessionOf, BatchOf, OpenCycle, Unsettled
<1>5. reply'[c].kind # "sync"
  BY <1>1 DEF SessionOf, SettleOf, Settling
<1> QED
  BY <1>2, <1>3, <1>4, <1>5 DEF SessionOf, SettleOf

LEMMA SessionReceive ==
  ASSUME SystemInv, NEW c \in Client, SessionOf(c), ReceiveValid(c)
  PROVE  SessionOf(c)'
<1>0. EngineOK /\ NetworkOK /\ Control
  BY SystemTypes
<1>1. /\ pc[c] = "awaitReply" /\ pc'[c] = "apply"
      /\ channel[c].kind \in {"sync", "snapshot"} /\ channel'[c] = Empty
      /\ reply'[c] = channel[c]
      /\ UNCHANGED <<queue, batch, caller>>
  BY <1>0 DEF ReceiveValid, Send, Goto, EngineOK, NetworkOK, stored
<1>2. PICK ids \in Seq(MutationId) :
        /\ todo' = [todo EXCEPT ![c] = ids]
        /\ \A k \in DOMAIN ids :
             /\ channel[c].kind = "sync" => ids[k] \notin Answered(channel[c])
             /\ \E i \in DOMAIN batch[c] : ids[k] = batch[c][i].id
  BY <1>0, ReceiveValidShape
<1>3. todo'[c] = ids
  BY <1>0, <1>2 DEF EngineOK
<1>4. QueueKept(c)
  BY <1>1 DEF QueueKept, Unsettled
<1>5. BatchOf(c)'
  BY <1>1, <1>4, BatchKept DEF SessionOf, OpenCycle
<1>6. SentOf(c)'
  BY <1>0, <1>1, NothingSent, RequestKinds DEF Control
<1>7. \A m \in IdsOf(batch[c]) : Unsettled(c, m)'
  BY <1>1, <1>4, UnsettledKept DEF SessionOf, BatchOf, OpenCycle
<1>8. ItemsOf(todo[c])' = ItemsOf(ids) /\ ItemsOf(ids) \subseteq IdsOf(batch[c])
  BY <1>2, <1>3 DEF ItemsOf, IdsOf
<1>9. ASSUME channel[c].kind = "sync"
      PROVE  /\ Outcomes(c, reply[c].acknowledged, reply[c].conflicts)'
             /\ ItemsOf(ids) \cap (ItemsOf(reply[c].acknowledged)'
                                     \cup IdsOf(reply[c].conflicts)') = {}
             /\ IdsOf(reply[c].conflicts)' \subseteq IdsOf(batch[c])
  <2>1. Outcomes(c, reply'[c].acknowledged, reply'[c].conflicts)
    BY <1>1, <1>9 DEF SessionOf, SentOf
  <2>2. Outcomes(c, reply[c].acknowledged, reply[c].conflicts)'
    <3>1. \A a, k : Outcomes(c, a, k) => Outcomes(c, a, k)'
      BY <1>1, <1>4, OutcomesKept DEF SessionOf
    <3> QED
      BY <2>1, <3>1
  <2>3. ItemsOf(reply[c].acknowledged)' \cup IdsOf(reply[c].conflicts)'
          = Answered(channel[c])
    BY <1>1 DEF ItemsOf, IdsOf, Answered
  <2>4. ItemsOf(ids) \cap Answered(channel[c]) = {}
    BY <1>2, <1>9 DEF ItemsOf
  <2>5. IdsOf(reply[c].conflicts)' = IdsOf(reply'[c].conflicts)
    BY DEF IdsOf
  <2> QED
    BY <2>1, <2>2, <2>3, <2>4, <2>5 DEF Outcomes
<1> QED
  BY <1>1, <1>5, <1>6, <1>7, <1>8, <1>9 DEF SessionOf, SettleOf, Settling

LEMMA SessionRequeue ==
  ASSUME SystemInv, NEW c \in Client, SessionOf(c), Requeue(c)
  PROVE  SessionOf(c)'
<1>0. EngineOK /\ NetworkOK /\ QueueOK /\ TypeInv
  BY SystemTypes DEF StoredOK
<1>1. /\ SetStatus(c, Head(todo[c]), "IN_FLIGHT") /\ todo[c] # <<>>
      /\ todo'[c] = Tail(todo[c]) /\ todo[c] \in Seq(MutationId)
      /\ pc[c] # "awaitReply"
      /\ UNCHANGED <<pc, batch, reply, channel, caller>>
  BY <1>0 DEF Requeue, EngineOK, network
<1>2. QueueKept(c)
  BY <1>0, <1>1, StatusKept
<1>3. ItemsOf(todo'[c]) \subseteq ItemsOf(todo[c])
  BY <1>1, TailItems
<1>4. BatchOf(c)'
  BY <1>1, <1>2, BatchKept DEF SessionOf
<1>5. SentOf(c)'
  BY <1>0, <1>1, NoneUnderWay, NothingSent
<1>6. SettleOf(c)'
  BY <1>1, <1>2, <1>3, SettleKept DEF SessionOf, SettleOf
<1> QED
  BY <1>4, <1>5, <1>6 DEF SessionOf

\* One outcome h of the reply is settled; a and k are what is left of it.
LEMMA SettleOne ==
  ASSUME NEW c \in Client, BatchOf(c), SettleOf(c), reply[c].kind = "sync",
         NEW h, NEW a, NEW k,
         \A m \in DOMAIN queue[c] :
           /\ m \in DOMAIN queue'[c]
           /\ queue'[c][m].entity = queue[c][m].entity
           /\ m # h => queue'[c][m] = queue[c][m],
         UNCHANGED <<batch[c], todo[c]>>, pc'[c] = "settle",
         reply'[c].kind = "sync", reply'[c].acknowledged = a,
         reply'[c].conflicts = k,
         ItemsOf(a) \subseteq ItemsOf(reply[c].acknowledged),
         IdsOf(k) \subseteq IdsOf(reply[c].conflicts), Distinct(k),
         \A i \in DOMAIN k : \E j \in DOMAIN reply[c].conflicts :
           k[i] = reply[c].conflicts[j],
         h \notin IdsOf(k), h \notin ItemsOf(todo[c])
  PROVE  BatchOf(c)' /\ SettleOf(c)'
<1>1. \A m : m # h /\ Unsettled(c, m) => Unsettled(c, m)'
  BY DEF Unsettled
<1>2. BatchOf(c)'
  <2>1. \A i \in DOMAIN batch[c] :
          /\ batch[c][i].id \in DOMAIN queue'[c]
          /\ batch[c][i].entity = queue'[c][batch[c][i].id].entity
    BY DEF BatchOf
  <2>2. Distinct(batch[c])' = Distinct(batch[c])
    BY DEF Distinct
  <2> QED
    BY <2>1, <2>2 DEF BatchOf, OpenCycle
<1>3. Outcomes(c, a, k)
  <2>1. Outcomes(c, reply[c].acknowledged, reply[c].conflicts)
    BY DEF SettleOf
  <2>2. \A i \in DOMAIN k : k[i].entity = queue[c][k[i].id].entity
    BY <2>1 DEF Outcomes
  <2> QED
    BY <2>1, <2>2 DEF Outcomes
<1>4. Outcomes(c, a, k)'
  <2>1. IdsOf(batch[c])' = IdsOf(batch[c])
    BY DEF IdsOf
  <2>2. ASSUME NEW i \in DOMAIN k PROVE k[i].entity = queue'[c][k[i].id].entity
    <3>1. k[i].id \in IdsOf(batch[c])
      BY <1>3 DEF Outcomes, IdsOf
    <3>2. k[i].id \in DOMAIN queue[c]
      BY <3>1 DEF BatchOf, IdsOf
    <3> QED
      BY <1>3, <3>2 DEF Outcomes
  <2> QED
    BY <1>3, <2>1, <2>2 DEF Outcomes, ItemsOf, IdsOf, Distinct
<1>5. Outcomes(c, reply[c].acknowledged, reply[c].conflicts)'
  <2>1. \A x, y : x = a /\ y = k => Outcomes(c, x, y)'
    BY <1>4
  <2> QED
    BY <2>1
<1>6. /\ ItemsOf(reply[c].acknowledged)' = ItemsOf(a)
      /\ IdsOf(reply[c].conflicts)' = IdsOf(k)
      /\ ItemsOf(todo[c])' = ItemsOf(todo[c])
  BY DEF ItemsOf, IdsOf
<1>7. \A m \in ItemsOf(todo[c]) \cup IdsOf(k) : Unsettled(c, m)'
  BY <1>1 DEF SettleOf
<1> QED
  BY <1>2, <1>5, <1>6, <1>7 DEF SettleOf, Settling

LEMMA SessionAcknowledge ==
  ASSUME SystemInv, NEW c \in Client, SessionOf(c), Acknowledge(c)
  PROVE  SessionOf(c)'
<1>0. EngineOK /\ Control /\ QueueOK /\ TypeInv
  BY SystemTypes DEF StoredOK
<1> DEFINE h == Head(reply[c].acknowledged)
           a == Tail(reply[c].acknowledged)
           k == reply[c].conflicts
<1>1. /\ pc[c] = "settle" /\ reply[c].acknowledged # <<>>
      /\ SetStatus(c, h, "ACKNOWLEDGED")
      /\ UNCHANGED <<pc, batch, todo, channel, caller>>
  BY DEF Acknowledge, network
<1>2. reply[c].kind = "sync" /\ reply[c] \in SyncReplies
  BY <1>0, <1>1, ClientMessages DEF Control
<1>3. reply'[c].kind = "sync" /\ reply'[c].acknowledged = a
      /\ reply'[c].conflicts = k
  <2>1. reply'[c] = [reply[c] EXCEPT !.acknowledged = Tail(@)]
    BY <1>0 DEF Acknowledge, EngineOK
  <2> QED
    BY <1>2, <2>1 DEF SyncReplies
<1>4. ItemsOf(a) \subseteq ItemsOf(reply[c].acknowledged)
      /\ h \in ItemsOf(reply[c].acknowledged)
  <2>1. reply[c].acknowledged \in Seq(MutationId)
    BY <1>2, SyncReplyShape
  <2> QED
    BY <1>1, <2>1, TailItems
<1>5. \A m \in DOMAIN queue[c] :
        /\ m \in DOMAIN queue'[c]
        /\ queue'[c][m].entity = queue[c][m].entity
        /\ m # h => queue'[c][m] = queue[c][m]
  BY <1>0, <1>1, StatusKept
<1>6. h \notin IdsOf(k) /\ h \notin ItemsOf(todo[c]) /\ Distinct(k)
  BY <1>2, <1>4 DEF SessionOf, SettleOf, Outcomes
<1> HIDE DEF h, a, k
<1>7. k = reply[c].conflicts
  BY DEF k
<1>8. BatchOf(c)' /\ SettleOf(c)'
  BY <1>1, <1>2, <1>3, <1>4, <1>5, <1>6, <1>7, SettleOne DEF SessionOf
<1>9. SentOf(c)'
  BY <1>0, <1>1, NoneUnderWay, NothingSent
<1> QED
  BY <1>8, <1>9 DEF SessionOf

\* A conflict is left to the application, or resolved.
LEMMA SessionConflict ==
  ASSUME SystemInv, NEW c \in Client, SessionOf(c),
         MarkConflict(c) \/ ResolveMutation(c)
  PROVE  SessionOf(c)'
<1>0. EngineOK /\ Control /\ QueueOK /\ TypeInv
  BY SystemTypes DEF StoredOK
<1> DEFINE x == Head(reply[c].conflicts)
           a == reply[c].acknowledged
           k == Tail(reply[c].conflicts)
<1>1. /\ pc[c] \in {"settle", "resolveMutation"} /\ pc'[c] = "settle"
      /\ UNCHANGED <<batch, todo, channel, caller>>
  BY <1>0 DEF MarkConflict, ResolveMutation, AtConflict, Goto, EngineOK, network
<1>2. reply[c] \in SyncReplies /\ reply[c].conflicts # <<>>
  BY <1>0, AtConflictShape DEF MarkConflict, ResolveMutation
<1>3. /\ reply[c].kind = "sync" /\ reply[c].conflicts \in Seq(Conflict)
  BY <1>2, SyncReplyShape DEF SyncReplies
<1>4. reply'[c].kind = "sync" /\ reply'[c].acknowledged = a
      /\ reply'[c].conflicts = k
  <2>1. reply'[c] = [reply[c] EXCEPT !.conflicts = Tail(@)]
    BY <1>0 DEF MarkConflict, ResolveMutation, EngineOK
  <2> QED
    BY <1>2, <2>1 DEF SyncReplies
<1>5. /\ IdsOf(k) \subseteq IdsOf(reply[c].conflicts)
      /\ x.id \in IdsOf(reply[c].conflicts)
      /\ Distinct(k) /\ x.id \notin IdsOf(k)
      /\ \A i \in DOMAIN k : \E j \in DOMAIN reply[c].conflicts :
           k[i] = reply[c].conflicts[j]
  <2>1. Distinct(reply[c].conflicts)
    BY <1>3 DEF SessionOf, SettleOf, Outcomes
  <2> QED
    BY <1>2, <1>3, <2>1, TailItems
<1>6. \A m \in DOMAIN queue[c] :
        /\ m \in DOMAIN queue'[c]
        /\ queue'[c][m].entity = queue[c][m].entity
        /\ m # x.id => queue'[c][m] = queue[c][m]
  <2>1. CASE MarkConflict(c)
    BY <1>0, <2>1, StatusKept DEF MarkConflict
  <2>2. CASE ResolveMutation(c)
    <3>1. ResolvedTo(c, x.id, resolved[c], seen[c][x.entity])
      BY <1>0, <2>2 DEF ResolveMutation, QueueOK, ResolvedTo
    <3> QED
      BY <1>0, <3>1, ResolvedKept
  <2> QED
    BY <2>1, <2>2
<1>7. x.id \notin ItemsOf(todo[c])
  BY <1>3, <1>5 DEF SessionOf, SettleOf
<1> HIDE DEF x, a, k
<1>8. a = reply[c].acknowledged
  BY DEF a
<1>9. BatchOf(c)' /\ SettleOf(c)'
  BY <1>1, <1>3, <1>4, <1>5, <1>6, <1>7, <1>8, SettleOne DEF SessionOf
<1>10. SentOf(c)'
  BY <1>0, <1>1, NoneUnderWay, NothingSent
<1> QED
  BY <1>9, <1>10 DEF SessionOf

LEMMA SessionCycle ==
  ASSUME SystemInv, NEW c \in Client, SessionOf(c), Cycle(c)
  PROVE  SessionOf(c)'
  BY SessionQuiet, SessionEnd, SessionDequeue, SessionTooOld, SessionReceive,
     SessionRequeue, SessionAcknowledge, SessionConflict DEF Cycle

LEMMA SessionFailure ==
  ASSUME SystemInv, NEW c \in Client, SessionOf(c),
         TransportError(c) \/ Crash(c) \/ RecoverMutation(c) \/ EndRecovery(c)
  PROVE  SessionOf(c)'
<1>0. EngineOK /\ QueueOK /\ TypeInv
  BY SystemTypes DEF StoredOK
<1>1. CASE RecoverMutation(c) \/ EndRecovery(c)
  <2>1. QueueKept(c)
    <3>1. CASE RecoverMutation(c)
      BY <1>0, <3>1, StatusKept DEF RecoverMutation
    <3>2. CASE EndRecovery(c)
      BY <3>2 DEF EndRecovery, stored, QueueKept, Unsettled
    <3> QED
      BY <1>1, <3>1, <3>2
  <2>2. /\ pc[c] = "recovering" /\ pc'[c] \in {"recovering", "idle"}
        /\ UNCHANGED <<batch, reply, todo, channel, caller>>
    BY <1>0, <1>1 DEF RecoverMutation, EndRecovery, Goto, EngineOK, engine, network
  <2>3. BatchOf(c)'
    BY <2>1, <2>2, BatchKept DEF SessionOf, OpenCycle
  <2>4. SentOf(c)'
    BY <1>0, <2>2, NoneUnderWay, NothingSent
  <2>5. SettleOf(c)'
    BY <2>1, <2>2, SettleKept DEF SessionOf, SettleOf, Settling
  <2> QED
    BY <2>3, <2>4, <2>5 DEF SessionOf
<1> QED
  BY <1>1, SessionEnd

\* A mutation of the request is handled: one outcome more, or none is needed.
LEMMA HandleShape ==
  ASSUME ServerTypeOK, ProcessMutation
  PROVE  LET m == NextMutation IN
         /\ Pending /\ m \in Mutation /\ job \in Job
         /\ job'.request = job.request /\ job'.next = job.next + 1
         /\ \/ /\ job'.acknowledged = Append(job.acknowledged, m.id)
               /\ job'.conflicts = job.conflicts
            \/ /\ DetectConflict /\ ConflictWith(m) \in Conflict
               /\ job'.acknowledged = job.acknowledged
               /\ job'.conflicts = Append(job.conflicts, ConflictWith(m))
<1>1. Pending /\ job \in Job
  BY DEF ProcessMutation, Deduplicate, DetectConflict, Accept, ServerTypeOK
<1>2. NextMutation \in Mutation
  BY <1>1, NextMutationType
<1>3. CASE DetectConflict
  <2>1. ConflictWith(NextMutation) \in Conflict
    BY <1>2, ConflictType
  <2>2. job' = [job EXCEPT !.next = @ + 1,
                           !.conflicts = Append(@, ConflictWith(NextMutation))]
    BY <1>3 DEF DetectConflict
  <2> QED
    BY <1>1, <1>2, <1>3, <2>1, <2>2 DEF Job
<1>4. CASE Deduplicate \/ Accept
  <2>1. job' = [job EXCEPT !.next = @ + 1,
                           !.acknowledged = Append(@, NextMutation.id)]
    BY <1>4 DEF Deduplicate, Accept
  <2> QED
    BY <1>1, <1>2, <2>1 DEF Job
<1> QED
  BY <1>3, <1>4 DEF ProcessMutation

\* The mutation the server handles next for a client is one of its batch that
\* it has not reported on.
LEMMA NextIsOwn ==
  ASSUME SystemInv, NEW c \in Client, SessionOf(c), caller = c, Pending
  PROVE  LET m == NextMutation IN
         /\ m \in Mutation /\ m.id \in IdsOf(batch[c])
         /\ m.id \in DOMAIN queue[c] /\ m.entity = queue[c][m.id].entity
         /\ m.id \notin Processed
<1> DEFINE m == NextMutation
           ms == job.request.mutations
<1>1. m \in Mutation /\ job \in Job
  BY SystemTypes, NextMutationType DEF ServerTypeOK
<1>2. ms \in Seq(Mutation) /\ job.next \in Nat \ {0} /\ m = ms[job.next]
  BY <1>1 DEF Job, SyncRequest, NextMutation
<1>3. SameWrites(c, ms) /\ BatchOf(c)
  BY DEF SessionOf, SentOf
<1>4. job.next \in DOMAIN ms /\ \A k \in 1..(job.next - 1) : k \in DOMAIN ms /\ k # job.next
  BY <1>2 DEF Pending
<1>5. /\ m.id = batch[c][job.next].id /\ job.next \in DOMAIN batch[c]
      /\ m.entity = batch[c][job.next].entity
      /\ \A k \in DOMAIN ms : ms[k].id = batch[c][k].id /\ k \in DOMAIN batch[c]
  BY <1>2, <1>3, <1>4 DEF SameWrites
<1>6. /\ m.id \in IdsOf(batch[c]) /\ m.entity = queue[c][m.id].entity
      /\ m.id \in DOMAIN queue[c]
  BY <1>3, <1>5 DEF IdsOf, BatchOf
<1>7. m.id \notin Processed
  <2> SUFFICES ASSUME NEW k \in 1..(job.next - 1), ms[k].id = m.id PROVE FALSE
    BY DEF Processed
  <2> QED
    BY <1>3, <1>4, <1>5 DEF BatchOf, Distinct
<1> QED
  BY <1>1, <1>6, <1>7

\* Within one request the server reports each mutation once.
LEMMA HandleOutcomes ==
  ASSUME SystemInv, NEW c \in Client, SessionOf(c), caller = c, ProcessMutation
  PROVE  LET ack == job'.acknowledged
             conf == job'.conflicts
         IN /\ SameWrites(c, job'.request.mutations)
            /\ Outcomes(c, ack, conf)
            /\ (ItemsOf(ack) \cup IdsOf(conf) \subseteq Processed')
<1> DEFINE m == NextMutation
           ms == job.request.mutations
           ack == job.acknowledged
           conf == job.conflicts
<1>0. ServerTypeOK /\ EngineOK
  BY SystemTypes
<1>1. /\ Pending /\ m \in Mutation /\ job \in Job
      /\ job'.request = job.request /\ job'.next = job.next + 1
      /\ \/ /\ job'.acknowledged = Append(ack, m.id) /\ job'.conflicts = conf
         \/ /\ ConflictWith(m) \in Conflict /\ job'.acknowledged = ack
            /\ job'.conflicts = Append(conf, ConflictWith(m))
  BY <1>0, HandleShape
<1>2. /\ ack \in Seq(MutationId) /\ conf \in Seq(Conflict)
      /\ ms \in Seq(Mutation) /\ job.next \in Nat \ {0}
      /\ m.id \in MutationId /\ m = ms[job.next]
  BY <1>1 DEF Job, SyncRequest, Mutation, NextMutation
<1>3. /\ SameWrites(c, ms) /\ Outcomes(c, ack, conf)
      /\ ItemsOf(ack) \cup IdsOf(conf) \subseteq Processed
      /\ BatchOf(c)
  BY DEF SessionOf, SentOf
<1>6. /\ m.id \in IdsOf(batch[c]) /\ m.entity = queue[c][m.id].entity
      /\ m.id \notin Processed
  BY <1>1, NextIsOwn
<1>8. Processed' = Processed \cup {m.id}
  <2>1. Processed' = {ms[k].id : k \in 1..job.next}
    BY <1>1, <1>2 DEF Processed
  <2>2. \A k : k \in 1..job.next <=> k \in 1..(job.next - 1) \/ k = job.next
    BY <1>2
  <2> QED
    BY <1>2, <2>1, <2>2 DEF Processed
<1>9. SameWrites(c, job'.request.mutations)
  BY <1>1, <1>3
<1> HIDE DEF m, ms, ack, conf
<1>10. ASSUME NEW a, NEW k,
              ItemsOf(a) \subseteq ItemsOf(ack) \cup {m.id}, k = conf,
              job'.acknowledged = a, job'.conflicts = k
       PROVE  Outcomes(c, a, k) /\ ItemsOf(a) \cup IdsOf(k) \subseteq Processed'
  BY <1>3, <1>6, <1>8, <1>10 DEF Outcomes
<1>11. CASE job'.acknowledged = Append(ack, m.id) /\ job'.conflicts = conf
  <2>1. ItemsOf(Append(ack, m.id)) = ItemsOf(ack) \cup {m.id}
    BY <1>2, AppendItems
  <2> QED
    BY <1>9, <1>10, <1>11, <2>1
<1>12. CASE /\ ConflictWith(m) \in Conflict /\ job'.acknowledged = ack
            /\ job'.conflicts = Append(conf, ConflictWith(m))
  <2> DEFINE x == ConflictWith(m)
  <2>1. x.id = m.id /\ x.entity = m.entity
    BY DEF ConflictWith
  <2> HIDE DEF x
  <2>2. x.id \notin IdsOf(conf) /\ Distinct(conf)
    BY <1>3, <1>6, <2>1 DEF Outcomes
  <2>3. /\ IdsOf(Append(conf, x)) = IdsOf(conf) \cup {x.id}
        /\ Distinct(Append(conf, x))
        /\ \A k \in DOMAIN Append(conf, x) :
             \/ k \in DOMAIN conf /\ Append(conf, x)[k] = conf[k]
             \/ Append(conf, x)[k] = x
    <3>1. x \in Conflict /\ conf \in Seq(Conflict)
      BY <1>2, <1>12 DEF x
    <3> QED
      BY <2>2, <3>1, AppendItems
  <2>4. \A k \in DOMAIN Append(conf, x) :
          Append(conf, x)[k].entity = queue[c][Append(conf, x)[k].id].entity
    BY <1>3, <1>6, <2>1, <2>3 DEF Outcomes
  <2>5. Outcomes(c, ack, Append(conf, x))
    BY <1>3, <1>6, <2>1, <2>3, <2>4 DEF Outcomes
  <2>6. ItemsOf(ack) \cup IdsOf(Append(conf, x)) \subseteq Processed'
    BY <1>3, <1>8, <2>1, <2>3
  <2> QED
    BY <1>9, <1>12, <2>5, <2>6 DEF x
<1> QED
  BY <1>1, <1>11, <1>12

LEMMA SessionServer ==
  ASSUME SystemInv, NEW c \in Client, SessionOf(c), Server
  PROVE  SessionOf(c)'
<1>0. NetworkOK /\ ServerTypeOK /\ Control
  BY SystemTypes
<1>1. UNCHANGED <<queue, batch, reply, todo, pc>>
  BY DEF Server, Serve, ServeSnapshot, ServeDelayed, Handle, Answer, Prune,
         PeerSync, stored, engine
<1>2. QueueKept(c)
  BY <1>1 DEF QueueKept, Unsettled
<1>3. BatchOf(c)'
  BY <1>1, <1>2, BatchKept DEF SessionOf
<1>4. SettleOf(c)'
  BY <1>1, <1>2, SettleKept DEF SessionOf, SettleOf
<1> SUFFICES SentOf(c)'
  BY <1>3, <1>4 DEF SessionOf
<1>5. CASE Handle
  <2>1. UNCHANGED <<channel, caller>> /\ ProcessMutation
    BY <1>5 DEF Handle, network
  <2>2. CASE caller # c
    BY <1>1, <1>2, <2>1, <2>2, SentKept DEF SessionOf
  <2>3. CASE caller = c
    <3>1. channel'[c].kind = "empty"
      BY <1>0, <2>1, <2>3 DEF Control
    <3>2. /\ SameWrites(c, job'.request.mutations)
          /\ Outcomes(c, job'.acknowledged, job'.conflicts)
          /\ ItemsOf(job'.acknowledged) \cup IdsOf(job'.conflicts) \subseteq Processed'
      BY <2>1, <2>3, HandleOutcomes
    <3>3. SameWrites(c, job.request.mutations)'
      <4>1. \A s : SameWrites(c, s) => SameWrites(c, s)'
        BY <1>1, SameWritesKept
      <4> QED
        BY <3>2, <4>1
    <3>4. Outcomes(c, job.acknowledged, job.conflicts)'
      <4>1. \A a, k : Outcomes(c, a, k) => Outcomes(c, a, k)'
        BY <1>1, <1>2, OutcomesKept DEF SessionOf
      <4> QED
        BY <3>2, <4>1
    <3>5. (ItemsOf(job.acknowledged) \cup IdsOf(job.conflicts) \subseteq Processed)'
      BY <3>2 DEF ItemsOf, IdsOf
    <3> QED
      BY <3>1, <3>3, <3>4, <3>5 DEF SentOf
  <2> QED
    BY <2>2, <2>3
<1>6. CASE Answer
  <2>1. /\ channel' = channel \/ channel' = [channel EXCEPT ![caller] = SyncReply]
        /\ caller' # c
    BY <1>6, NobodyIsNoClient DEF Answer, Send
  <2>2. \/ channel'[c] = channel[c]
        \/ caller = c /\ channel'[c] = SyncReply
    BY <1>0, <2>1 DEF NetworkOK
  <2>3. /\ SyncReply.kind = "sync" /\ SyncReply.acknowledged = job.acknowledged
        /\ SyncReply.conflicts = job.conflicts
    BY DEF SyncReply
  <2> QED
    BY <1>1, <1>2, <2>1, <2>2, <2>3, SentKept DEF SessionOf
<1>7. ASSUME NEW d \in Client, Serve(d) PROVE SentOf(c)'
  <2>1. /\ channel[d].kind = "syncRequest"
        /\ \/ /\ channel' = [channel EXCEPT ![d] = CursorTooOldReply]
              /\ caller' = caller /\ job' = job
           \/ /\ channel' = [channel EXCEPT ![d] = Empty]
              /\ caller' = d /\ job'.request = Payload(channel[d])
              /\ job'.acknowledged = <<>> /\ job'.conflicts = <<>>
    BY <1>7 DEF Serve, Send, BeginSync, serverVars
  <2>2. \/ channel'[c] = channel[c]
        \/ channel'[c].kind \notin {"syncRequest", "sync"}
    BY <1>0, <2>1, RequestKinds DEF NetworkOK
  <2>3. ASSUME caller' = c
        PROVE  \/ caller = c /\ job' = job
               \/ /\ SameWrites(c, job'.request.mutations)
                  /\ job'.acknowledged = <<>> /\ job'.conflicts = <<>>
    BY <2>1, <2>3 DEF SessionOf, SentOf, Payload
  <2> QED
    BY <1>1, <1>2, <2>2, <2>3, SentKept DEF SessionOf
<1>8. ASSUME NEW d \in Client, ServeSnapshot(d) PROVE SentOf(c)'
  <2> DEFINE r == [SnapshotReply EXCEPT !.entities = [e \in Entity |->
                     IF CollectionOf(e) \in channel[d].collections
                     THEN @[e] ELSE NoEntity]]
  <2>1. channel' = [channel EXCEPT ![d] = r] /\ UNCHANGED <<caller, job>>
    BY <1>8 DEF ServeSnapshot, Send, serverVars
  <2>2. r.kind = "snapshot"
    BY DEF SnapshotReply
  <2> HIDE DEF r
  <2>3. channel'[c] = channel[c] \/ channel'[c].kind \notin {"syncRequest", "sync"}
    BY <1>0, <2>1, <2>2 DEF NetworkOK
  <2> QED
    BY <1>1, <1>2, <2>1, <2>3, SentKept DEF SessionOf
<1>9. CASE ServeDelayed \/ Prune
           \/ \E m \in MutationId, e \in Entity : PeerSync(m, e)
  <2>1. channel' = channel /\ (caller' = c => caller = c /\ job' = job)
    BY <1>9, NobodyIsNoClient, PruneKeepsJob
       DEF ServeDelayed, Prune, PeerSync, network
  <2> QED
    BY <1>1, <1>2, <2>1, SentKept DEF SessionOf
<1> QED
  BY <1>5, <1>6, <1>7, <1>8, <1>9 DEF Server

LEMMA SessionStep ==
  ASSUME SystemInv, SessionInv, [Next]_vars
  PROVE  SessionInv'
<1> SUFFICES ASSUME NEW c \in Client PROVE SessionOf(c)'
  BY DEF SessionInv
<1>1. SessionOf(c)
  BY DEF SessionInv
<1>2. CASE Server
  BY <1>1, <1>2, SessionServer
<1>3. ASSUME UNCHANGED Own(c), caller' = c => caller = c, job' = job
      PROVE  SessionOf(c)'
  <2>1. UNCHANGED <<queue[c], pc[c], batch[c], reply[c], todo[c], channel[c]>>
    BY <1>3 DEF Own
  <2>2. QueueKept(c)
    BY <2>1 DEF QueueKept, Unsettled
  <2>3. BatchOf(c)'
    BY <1>1, <2>1, <2>2, BatchKept DEF SessionOf
  <2>4. SentOf(c)'
    BY <1>1, <1>3, <2>1, <2>2, SentKept DEF SessionOf
  <2>5. SettleOf(c)'
    BY <1>1, <2>1, <2>2, SettleKept DEF SessionOf, SettleOf
  <2> QED
    BY <2>3, <2>4, <2>5 DEF SessionOf
<1>4. ASSUME NEW d \in Client, ClientStep(d) PROVE SessionOf(c)'
  <2>1. CASE d = c
    BY <1>1, <1>4, <2>1, SessionApplication, SessionCycle, SessionFailure
       DEF ClientStep
  <2>2. CASE d # c
    BY <1>3, <1>4, <2>2, Others, ClientLeavesServer, SystemTypes DEF serverVars
  <2> QED
    BY <2>1, <2>2
<1>5. CASE UNCHANGED vars
  BY <1>3, <1>5, OwnKept DEF vars, network, serverVars
<1> QED
  BY <1>2, <1>4, <1>5 DEF Next, ClientStep

LEMMA SessionInit == Init => SessionInv
<1> SUFFICES ASSUME Init, NEW c \in Client PROVE SessionOf(c)
  BY DEF SessionInv
<1>1. /\ batch[c] = <<>> /\ todo[c] = <<>> /\ reply[c] = Empty
      /\ channel[c] = Empty /\ caller = Nobody /\ pc[c] = "idle"
  BY DEF Init
<1>2. caller # c /\ channel[c].kind = "empty" /\ reply[c].kind = "empty"
  BY <1>1, NobodyIsNoClient, RequestKinds
<1> QED
  BY <1>1, <1>2, NoItems
     DEF SessionOf, BatchOf, SentOf, SettleOf, OpenCycle

LEMMA SessionAlways == Spec => []SessionInv
  BY SessionInit, SessionStep, SystemAlways, PTL DEF Spec

-----------------------------------------------------------------------------
(* The contract.  The log of SyncContract is the server's history, its      *)
(* horizon the retention horizon, and a write is settled when a client has  *)
(* marked it ACKNOWLEDGED.                                                  *)

ContractLog == [i \in 1..CurrentCursor |->
                  [write |-> history[i].id, key |-> history[i].entity]]

\* A step of the server in the contract's terms.
LEMMA ContractServer ==
  ASSUME SystemInv, [ServerNext]_serverVars, AllAcknowledged' = AllAcknowledged
  PROVE  [Contract!Next]_<<ContractLog, minimumCursor, AllAcknowledged>>
<1>0. ServerTypeOK /\ CurrentCursor \in Nat /\ WindowTracked
  BY SystemTypes DEF SystemInv, WindowInv
<1>1. ASSUME NEW entry \in LogEntry, AppendEntry(entry)
      PROVE  ContractLog' = Append(ContractLog,
                              [write |-> entry.id, key |-> entry.entity])
  <2>1. /\ CurrentCursor' = CurrentCursor + 1
        /\ history'[CurrentCursor'] = entry
        /\ \A i \in 1..CurrentCursor : history'[i] = history[i]
    BY <1>0, <1>1, AppendEntryType
  <2> DEFINE n == CurrentCursor
             T == [write: MutationId \cup {NoMutation}, key: Entity]
             x == [write |-> entry.id, key |-> entry.entity]
             next == [i \in 1..(n + 1) |->
                        [write |-> history'[i].id, key |-> history'[i].entity]]
  <2>2. ContractLog \in Seq(T) /\ x \in T /\ Len(ContractLog) = n
    <3>1. \A i \in 1..n : ContractLog[i] \in T
      BY <1>0, EntryType DEF ContractLog
    <3>2. DOMAIN ContractLog = 1..n
          /\ ContractLog = [i \in 1..n |-> ContractLog[i]]
      BY DEF ContractLog
    <3>3. x \in T
      BY DEF LogEntry
    <3> HIDE DEF T
    <3> QED
      BY <1>0, <3>1, <3>2, <3>3
  <2>3. ContractLog' = next
    BY <2>1 DEF ContractLog
  <2>4. DOMAIN Append(ContractLog, x) = 1..(n + 1)
    BY <1>0, <2>2
  <2>5. ASSUME NEW i \in 1..(n + 1) PROVE Append(ContractLog, x)[i] = next[i]
    <3>1. CASE i = n + 1
      BY <1>0, <2>1, <2>2, <3>1
    <3>2. CASE i # n + 1
      <4>1. i \in 1..n
        BY <1>0, <3>2
      <4>2. Append(ContractLog, x)[i] = ContractLog[i]
        BY <2>2, <4>1
      <4> QED
        BY <2>1, <4>1, <4>2 DEF ContractLog
    <3> QED
      BY <3>1, <3>2
  <2>6. Append(ContractLog, x) = next
    <3>1. Append(ContractLog, x) = [i \in 1..(n + 1) |-> Append(ContractLog, x)[i]]
      BY <2>2, <2>4
    <3> HIDE DEF x
    <3> QED
      BY <2>5, <3>1
  <2> QED
    BY <2>3, <2>6
<1>2. UNCHANGED <<history>> => ContractLog' = ContractLog
  BY DEF ContractLog, CurrentCursor
<1>3. CASE Accept
  <2>1. PICK entry \in LogEntry :
          /\ AppendEntry(entry)
          /\ entry.id = NextMutation.id /\ entry.entity = NextMutation.entity
    BY <1>0, <1>3, AcceptedEntry
  <2>2. NextMutation.id \in MutationId /\ NextMutation.entity \in Entity
        /\ tracker[NextMutation.id] = 0
    BY <1>0, <1>3, NextMutationType DEF Accept, Mutation, Tracked
  <2>3. ~\E i \in DOMAIN ContractLog :
           ContractLog[i].write = entry.id /\ i >= minimumCursor
    <3> SUFFICES ASSUME NEW i \in 1..CurrentCursor, history[i].id = entry.id,
                        i >= minimumCursor
                 PROVE  FALSE
      BY DEF ContractLog
    <3>1. tracker[entry.id] >= i
      BY <1>0, <2>1, <2>2, ServerConstants DEF WindowTracked
    <3> QED
      BY <1>0, <2>1, <2>2, <3>1
  <2>4. minimumCursor' = minimumCursor
    BY <1>3 DEF Accept
  <2>5. Contract!TakeEffect(entry.id, entry.entity)
    BY <1>1, <2>1, <2>3, <2>4 DEF Contract!TakeEffect, Contract!Remembered, ContractLog
  <2> QED
    BY <2>1, <2>2, <2>5 DEF Contract!Next
<1>4. CASE \E n \in Nat : SetMinimumAvailableCursor(n)
  <2>1. minimumCursor' \in minimumCursor..CurrentCursor /\ history' = history
    BY <1>4 DEF SetMinimumAvailableCursor
  <2>2. Len(ContractLog) = CurrentCursor
    BY <1>0 DEF ContractLog
  <2>3. Contract!Forget
    BY <1>2, <2>1, <2>2 DEF Contract!Forget, ContractLog
  <2> QED
    BY <2>3 DEF Contract!Next
<1>5. ASSUME NEW e \in Entity, NEW state \in EntityState, SeedEntity(e, state)
      PROVE  Contract!Next
  <2> DEFINE entry == [id |-> NoMutation, entity |-> e,
                       base |-> CurrentRevision(e), state |-> state]
  <2>1. CurrentRevision(e) \in Nat
    BY <1>0 DEF CurrentRevision, ServerTypeOK, EntityState
  <2>2. entry \in LogEntry /\ entry.id = NoMutation /\ entry.entity = e
    BY <2>1 DEF LogEntry
  <2>3. AppendEntry(entry) /\ minimumCursor' = minimumCursor
    BY <1>5 DEF SeedEntity
  <2> HIDE DEF entry
  <2>4. Contract!Seed(e)
    BY <1>1, <2>2, <2>3 DEF Contract!Seed, ContractLog
  <2> QED
    BY <2>4 DEF Contract!Next
<1>6. CASE \/ \E request \in SyncRequest : BeginSync(request)
           \/ Deduplicate \/ DetectConflict \/ EndSync \/ UNCHANGED serverVars
  <2>1. UNCHANGED <<history, minimumCursor>>
    BY <1>6 DEF BeginSync, Deduplicate, DetectConflict, EndSync, serverVars
  <2> QED
    BY <1>2, <2>1
<1> QED
  BY <1>3, <1>4, <1>5, <1>6 DEF ServerNext, ProcessMutation

\* What a client's step does to the writes it calls settled: only the handling
\* of an acknowledgement adds one, and none is taken back.
LEMMA ClientAcks ==
  ASSUME SystemInv, SessionInv, NEW c \in Client, ClientStep(c)
  PROVE  \/ WithStatus(c, "ACKNOWLEDGED")' = WithStatus(c, "ACKNOWLEDGED")
         \/ /\ Acknowledge(c)
            /\ WithStatus(c, "ACKNOWLEDGED")' =
                 WithStatus(c, "ACKNOWLEDGED")
                   \cup {Head(reply[c].acknowledged)}
<1>0. QueueOK /\ EngineOK /\ Control /\ TypeInv /\ SessionOf(c)
      /\ IsQueue(queue[c])
  BY SystemTypes DEF StoredOK, QueueOK, SessionInv
<1>1. CASE queue'[c] = queue[c]
  BY <1>1 DEF WithStatus
<1>2. ASSUME NEW m, NEW r, Fresh(m), r.status = "PENDING",
             queue'[c] = Insert(queue[c], m, r)
      PROVE  WithStatus(c, "ACKNOWLEDGED")' = WithStatus(c, "ACKNOWLEDGED")
  BY <1>2 DEF WithStatus, Insert, Fresh
<1>3. ASSUME NEW m, NEW v, NEW n, Unsettled(c, m) \/ m \in WithStatus(c, "CONFLICT"),
             ResolvedTo(c, m, v, n)
      PROVE  WithStatus(c, "ACKNOWLEDGED")' = WithStatus(c, "ACKNOWLEDGED")
  BY <1>0, <1>3, ResolvedKept DEF WithStatus, Unsettled
<1>4. ASSUME NEW m, NEW s, s # "ACKNOWLEDGED", SetStatus(c, m, s),
             \/ Unsettled(c, m)
             \/ m \in WithStatus(c, "IN_FLIGHT")
      PROVE  WithStatus(c, "ACKNOWLEDGED")' = WithStatus(c, "ACKNOWLEDGED")
  <2>1. DOMAIN queue'[c] = DOMAIN queue[c]
    BY <1>0, <1>4 DEF SetStatus, QueueOK
  <2> QED
    BY <1>0, <1>4, <2>1, StatusKept DEF WithStatus, Unsettled
<1>5. CASE Application(c)
  BY <1>0, <1>1, <1>2, <1>3, <1>5, ApplicationQueue
<1>6. CASE Requeue(c)
  <2>1. /\ SetStatus(c, Head(todo[c]), "IN_FLIGHT") /\ todo[c] # <<>>
        /\ todo[c] \in Seq(MutationId)
    BY <1>0, <1>6 DEF Requeue, EngineOK
  <2>2. Unsettled(c, Head(todo[c]))
    BY <1>0, <2>1, TailItems DEF SessionOf, SettleOf
  <2> QED
    BY <1>4, <2>1, <2>2
<1>7. CASE MarkConflict(c) \/ ResolveMutation(c)
  <2> DEFINE k == Head(reply[c].conflicts)
  <2>1. reply[c] \in SyncReplies /\ reply[c].conflicts # <<>>
    BY <1>0, <1>7, AtConflictShape DEF MarkConflict, ResolveMutation
  <2>2. reply[c].kind = "sync" /\ reply[c].conflicts \in Seq(Conflict)
    BY <2>1, SyncReplyShape DEF SyncReplies
  <2>3. Unsettled(c, k.id)
    BY <1>0, <2>1, <2>2, TailItems DEF SessionOf, SettleOf
  <2>4. CASE MarkConflict(c)
    BY <1>4, <2>3, <2>4 DEF MarkConflict
  <2>5. CASE ResolveMutation(c)
    <3>1. ResolvedTo(c, k.id, resolved[c], seen[c][k.entity])
      BY <1>0, <2>5 DEF ResolveMutation, QueueOK, ResolvedTo
    <3> HIDE DEF k
    <3> QED
      BY <1>3, <2>3, <3>1
  <2> QED
    BY <1>7, <2>4, <2>5
<1>8. CASE Acknowledge(c)
  <2> DEFINE h == Head(reply[c].acknowledged)
  <2>1. /\ pc[c] = "settle" /\ reply[c].acknowledged # <<>>
        /\ SetStatus(c, h, "ACKNOWLEDGED")
    BY <1>8 DEF Acknowledge
  <2>2. reply[c].kind = "sync" /\ reply[c] \in SyncReplies
    BY <1>0, <2>1, ClientMessages DEF Control
  <2>3. h \in IdsOf(batch[c])
    <3>1. h \in ItemsOf(reply[c].acknowledged)
      BY <2>1, <2>2, SyncReplyShape, TailItems
    <3> QED
      BY <1>0, <2>2, <3>1 DEF SessionOf, SettleOf, Outcomes
  <2>4. h \in DOMAIN queue[c]
    BY <1>0, <2>3 DEF SessionOf, BatchOf, IdsOf
  <2>5. DOMAIN queue'[c] = DOMAIN queue[c]
    BY <1>0, <2>1 DEF SetStatus, QueueOK
  <2> HIDE DEF h
  <2>6. WithStatus(c, "ACKNOWLEDGED")' = WithStatus(c, "ACKNOWLEDGED") \cup {h}
    BY <1>0, <2>1, <2>4, <2>5, StatusKept DEF WithStatus
  <2> QED
    BY <1>8, <2>6 DEF h
<1>9. CASE \/ StartSync(c) \/ Dequeue(c) \/ LoadBase(c) \/ SendRequest(c)
           \/ ReceiveTooOld(c) \/ ReceiveValid(c) \/ ReceiveInvalid(c)
           \/ RequestSnapshot(c) \/ ApplyReply(c) \/ SaveCursor(c)
           \/ ReadAndResolve(c) \/ PutResolved(c) \/ Finish(c)
  BY <1>1, <1>9, QuietCycle
<1>10. CASE TransportError(c) \/ Crash(c) \/ EndRecovery(c)
  BY <1>1, <1>10 DEF TransportError, Crash, EndRecovery, stored
<1>11. CASE RecoverMutation(c)
  <2>1. PICK m : m \in WithStatus(c, "IN_FLIGHT") /\ SetStatus(c, m, "PENDING")
    BY <1>11 DEF RecoverMutation
  <2> QED
    BY <1>4, <2>1
<1> QED
  BY <1>5, <1>6, <1>7, <1>8, <1>9, <1>10, <1>11 DEF ClientStep, Cycle

LEMMA ContractClient ==
  ASSUME SystemInv, SessionInv, AckedInv, NEW c \in Client, ClientStep(c)
  PROVE  [Contract!Next]_<<ContractLog, minimumCursor, AllAcknowledged>>
<1>0. EngineOK /\ Control /\ TypeInv /\ CurrentCursor \in Nat /\ QueueOK
  BY SystemTypes DEF StoredOK
<1>1. ContractLog' = ContractLog /\ minimumCursor' = minimumCursor
  BY ClientLeavesServer DEF serverVars, ContractLog, CurrentCursor
<1>2. \A d \in Client : d # c =>
        WithStatus(d, "ACKNOWLEDGED")' = WithStatus(d, "ACKNOWLEDGED")
  BY <1>0, Others DEF Own, WithStatus
<1>3. CASE WithStatus(c, "ACKNOWLEDGED")' = WithStatus(c, "ACKNOWLEDGED")
  <2>1. AllAcknowledged' = AllAcknowledged
    BY <1>2, <1>3 DEF AllAcknowledged
  <2> QED
    BY <1>1, <2>1
<1>4. CASE /\ Acknowledge(c)
           /\ WithStatus(c, "ACKNOWLEDGED")' =
                WithStatus(c, "ACKNOWLEDGED") \cup {Head(reply[c].acknowledged)}
  <2> DEFINE w == Head(reply[c].acknowledged)
  <2>1. /\ pc[c] = "settle" /\ reply[c].acknowledged # <<>>
    BY <1>4 DEF Acknowledge
  <2>2. reply[c].kind = "sync" /\ reply[c] \in SyncReplies
    BY <1>0, <2>1, ClientMessages DEF Control
  <2>3. w \in ItemsOf(reply[c].acknowledged) /\ w \in MutationId
    BY <2>1, <2>2, SyncReplyShape, TailItems
  <2>4. w \in LoggedIds
    BY <2>2, <2>3 DEF AckedInv, AckOf
  <2> HIDE DEF w
  <2>5. \E i \in DOMAIN ContractLog : ContractLog[i].write = w
    BY <2>4 DEF LoggedIds, ContractLog
  <2>6. AllAcknowledged' = AllAcknowledged \cup {w}
    <3>1. WithStatus(c, "ACKNOWLEDGED")' = WithStatus(c, "ACKNOWLEDGED") \cup {w}
      BY <1>4 DEF w
    <3> QED
      BY <1>2, <2>3, <3>1 DEF AllAcknowledged
  <2>7. Contract!Settle(w)
    BY <1>1, <2>5, <2>6 DEF Contract!Settle, ContractLog
  <2> QED
    BY <2>3, <2>7 DEF Contract!Next
<1> QED
  BY <1>3, <1>4, ClientAcks

LEMMA ContractStep ==
  ASSUME SystemInv, SessionInv, AckedInv, [Next]_vars
  PROVE  [Contract!Next]_<<ContractLog, minimumCursor, AllAcknowledged>>
<1>1. ASSUME UNCHANGED queue
      PROVE  [Contract!Next]_<<ContractLog, minimumCursor, AllAcknowledged>>
  <2>1. AllAcknowledged' = AllAcknowledged
    BY <1>1 DEF AllAcknowledged, WithStatus
  <2> QED
    BY <2>1, ContractServer, ServerStep DEF SystemInv
<1>2. CASE Server
  <2>1. UNCHANGED queue
    BY <1>2 DEF Server, Serve, ServeSnapshot, ServeDelayed, Handle, Answer,
                Prune, PeerSync, stored
  <2> QED
    BY <1>1, <2>1
<1>3. CASE UNCHANGED vars
  BY <1>1, <1>3 DEF vars, stored
<1> QED
  BY <1>2, <1>3, ContractClient DEF Next, ClientStep

\* The system implements SyncContract: behind lost and late requests, repeated
\* cycles, crashes, conflict resolution and pruning, the writes that clients
\* consider settled are in the server's log and stay settled, and no write
\* takes effect again while the server still remembers it.
THEOREM ContractImplemented == Spec => ImplementsContract
<1>1. Init => Contract!Init
  <2> SUFFICES ASSUME Init PROVE Contract!Init
    OBVIOUS
  <2>1. CurrentCursor = 0 /\ minimumCursor = 0
    BY DEF Init, ServerInit, CurrentCursor
  <2>2. AllAcknowledged = {}
    <3>1. \A c \in Client : queue[c] = <<>>
      BY DEF Init
    <3> QED
      BY <3>1 DEF AllAcknowledged, WithStatus
  <2>3. ContractLog = <<>>
    BY <2>1 DEF ContractLog
  <2> QED
    BY <2>1, <2>2, <2>3 DEF Contract!Init, ContractLog
<1>2. SystemInv /\ SessionInv /\ AckedInv /\ [Next]_vars
        => [Contract!Next]_Contract!contractVars
  BY ContractStep DEF Contract!contractVars, ContractLog
<1> QED
  BY <1>1, <1>2, SystemAlways, SessionAlways, AckedAlways, PTL
     DEF Spec, ImplementsContract, Contract!Spec

=============================================================================
