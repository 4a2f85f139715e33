-------------------------- MODULE SyncServerProofs --------------------------
(***************************************************************************)
(* Theorems about SyncServer, for every set of entities and mutation ids,  *)
(* every request and every sequence of prunings and seeds.                 *)
(***************************************************************************)
EXTENDS SyncServer, TLAPS

(* The strengthening.  ServerTypeOK alone is inductive; the window and the *)
(* tracker carry AtMostOnceInWindow, the window and the admitted cursor    *)
(* carry ReplyHasEveryChange.                                              *)

\* The log holds every entry from the horizon on.
WindowKept == \A i \in 1..CurrentCursor : i >= minimumCursor => i \in retained

\* The tracker knows every mutation applied from the horizon on, by the
\* position of its last application.
WindowTracked ==
  \A i \in 1..CurrentCursor :
    (i >= minimumCursor /\ history[i].id # NoMutation)
      => tracker[history[i].id] >= i

\* A request being handled was admitted, and the horizon does not move
\* under it.
AdmittedCursor ==
  (job.busy /\ job.request.cursor # NoCursor)
    => job.request.cursor >= minimumCursor

-----------------------------------------------------------------------------
\* What Append does to a log: its length, its new last entry and, unchanged,
\* the entries before it.
LEMMA AppendFacts ==
  ASSUME NEW S, NEW s \in Seq(S), NEW x \in S
  PROVE  /\ Append(s, x) \in Seq(S)
         /\ Len(s) \in Nat
         /\ Len(Append(s, x)) = Len(s) + 1
         /\ \A i \in 1..Len(s) : Append(s, x)[i] = s[i]
         /\ Append(s, x)[Len(s) + 1] = x
  OBVIOUS

\* A mutation of the request being handled is well formed.
LEMMA NextMutationType ==
  ASSUME ServerTypeOK, Pending
  PROVE  NextMutation \in Mutation
  BY DEF ServerTypeOK, Pending, NextMutation, Job, SyncRequest

\* The entity a mutation is applied to, and the entity it produces.
LEMMA AppliedType ==
  ASSUME ServerTypeOK, NEW m \in Mutation,
         NEW d \in BOOLEAN
  PROVE  /\ BlankEntity(d) \in EntityState
         /\ CurrentRevision(m.entity) \in Nat
         /\ ApplyMutation(IF store[m.entity] = NoEntity THEN BlankEntity(d)
                            ELSE store[m.entity], m) \in EntityState
<1>1. BlankEntity(d) \in EntityState
  BY DEF BlankEntity, EntityState, Data
<1>2. m.entity \in Entity /\ m.value \in Data
  BY DEF Mutation
<1>3. store[m.entity] # NoEntity => store[m.entity] \in EntityState
  BY <1>2 DEF ServerTypeOK
<1>4. CurrentRevision(m.entity) \in Nat
  BY <1>3 DEF CurrentRevision, EntityState
<1>5. ASSUME NEW state \in EntityState
      PROVE  ApplyMutation(state, m) \in EntityState
  <2>1. state.data \in Data /\ state.revision \in Nat
        /\ state.isDeleted \in BOOLEAN
    BY <1>5 DEF EntityState
  <2>2. state.data \cup m.value \in Data
    BY <2>1, <1>2 DEF Data
  <2> QED
    BY <2>1, <2>2, <1>2 DEF ApplyMutation, EntityState
<1> QED
  BY <1>1, <1>3, <1>4, <1>5

\* The entry Accept appends and the conflict DetectConflict reports.
LEMMA ConflictType ==
  ASSUME ServerTypeOK, NEW m \in Mutation
  PROVE  ConflictWith(m) \in Conflict
<1>1. m.entity \in Entity /\ m.id \in MutationId /\ m.baseRevision \in Nat
  BY DEF Mutation
<1>2. (IF store[m.entity] = NoEntity THEN BlankEntity(TRUE)
                                     ELSE store[m.entity]) \in EntityState
  BY <1>1, AppliedType DEF ServerTypeOK
<1>3. CurrentRevision(m.entity) \in Nat
  BY AppliedType
<1> QED
  BY <1>1, <1>2, <1>3 DEF ConflictWith, Conflict

-----------------------------------------------------------------------------
(* Type correctness. *)

\* Progress on a request: one more mutation done, one more id acknowledged or
\* one more conflict reported.
LEMMA JobStep ==
  ASSUME NEW j \in Job, NEW id \in MutationId, NEW k \in Conflict
  PROVE  /\ [j EXCEPT !.next = @ + 1, !.acknowledged = Append(@, id)] \in Job
         /\ [j EXCEPT !.next = @ + 1, !.conflicts = Append(@, k)] \in Job
<1> DEFINE N == Nat \ {0}
           A == Seq(MutationId)
           K == Seq(Conflict)
           Jobs == [busy: BOOLEAN, request: SyncRequest, next: N,
                    acknowledged: A, conflicts: K]
<1>1. j.next + 1 \in N /\ Append(j.acknowledged, id) \in A
      /\ Append(j.conflicts, k) \in K
  BY DEF Job
<1>2. Job = Jobs
  BY DEF Job
<1> HIDE DEF N, A, K
<1> QED
  BY <1>1, <1>2

\* The two ways a handler starts from: nothing to do, and a new request.
LEMMA NewJobType ==
  /\ IdleJob \in Job
  /\ \A request \in SyncRequest :
       [busy |-> TRUE, request |-> request, next |-> 1,
        acknowledged |-> <<>>, conflicts |-> <<>>] \in Job
<1>1. <<>> \in Seq(MutationId) /\ <<>> \in Seq(Conflict)
      /\ <<>> \in Seq(Mutation)
  OBVIOUS
<1>2. [cursor |-> 0, mutations |-> <<>>] \in SyncRequest
  BY <1>1 DEF SyncRequest
<1>3. ASSUME NEW b \in BOOLEAN, NEW request \in SyncRequest,
             NEW a \in Seq(MutationId), NEW k \in Seq(Conflict)
      PROVE  [busy |-> b, request |-> request, next |-> 1,
              acknowledged |-> a, conflicts |-> k] \in Job
  BY DEF Job
<1> QED
  BY <1>1, <1>2, <1>3, Zenon DEF IdleJob

\* Appending a well-formed entry keeps the log and what refers into it typed.
LEMMA AppendEntryType ==
  ASSUME ServerTypeOK, NEW entry \in LogEntry, AppendEntry(entry)
  PROVE  /\ history' \in Seq(LogEntry)
         /\ CurrentCursor \in Nat
         /\ CurrentCursor' = CurrentCursor + 1
         /\ history'[CurrentCursor'] = entry
         /\ \A i \in 1..CurrentCursor : history'[i] = history[i]
         /\ retained' \in SUBSET (1..CurrentCursor')
         /\ retained' = retained \cup {CurrentCursor'}
<1>1. history \in Seq(LogEntry) /\ retained \in SUBSET (1..CurrentCursor)
  BY DEF ServerTypeOK
<1>2. history' = Append(history, entry)
  BY DEF AppendEntry
<1>3. /\ history' \in Seq(LogEntry)
      /\ Len(history) \in Nat
      /\ Len(history') = Len(history) + 1
      /\ \A i \in 1..Len(history) : history'[i] = history[i]
      /\ history'[Len(history) + 1] = entry
  BY <1>1, <1>2, AppendFacts
<1>4. retained' = retained \cup {CurrentCursor'}
  BY <1>3 DEF AppendEntry, CurrentCursor
<1>5. CurrentCursor \in Nat /\ CurrentCursor' = CurrentCursor + 1
  BY <1>3 DEF CurrentCursor
<1>6. retained' \in SUBSET (1..CurrentCursor')
  BY <1>1, <1>4, <1>5
<1> QED
  BY <1>3, <1>4, <1>5, <1>6 DEF CurrentCursor

\* What Accept appends: the mutation, based on the entity's current revision.
LEMMA AcceptedEntry ==
  ASSUME ServerTypeOK, Accept
  PROVE  \E entry \in LogEntry :
           /\ AppendEntry(entry)
           /\ entry.id = NextMutation.id
           /\ entry.entity = NextMutation.entity
           /\ entry.base = CurrentRevision(NextMutation.entity)
           /\ entry.state.revision = entry.base + 1
           /\ store' = [store EXCEPT ![NextMutation.entity] = entry.state]
<1> DEFINE m == NextMutation
           existing == IF store[m.entity] = NoEntity THEN BlankEntity(FALSE)
                                                     ELSE store[m.entity]
           applied == ApplyMutation(existing, m)
           entry == [id |-> m.id, entity |-> m.entity,
                     base |-> m.baseRevision, state |-> applied]
<1>1. m \in Mutation
  BY NextMutationType DEF Accept
<1>2. applied \in EntityState
  BY <1>1, AppliedType
<1>3. entry \in LogEntry
  BY <1>1, <1>2 DEF LogEntry, Mutation
<1>4. AppendEntry(entry) /\ m.baseRevision = CurrentRevision(m.entity)
      /\ store' = [store EXCEPT ![m.entity] = entry.state]
  BY DEF Accept, Stale
<1>5. existing.revision = CurrentRevision(m.entity)
  BY DEF CurrentRevision, BlankEntity
<1>6. entry.state.revision = entry.base + 1
  BY <1>4, <1>5 DEF ApplyMutation
<1> HIDE DEF entry
<1>7. entry.id = m.id /\ entry.entity = m.entity
      /\ entry.base = CurrentRevision(m.entity)
  BY <1>4 DEF entry
<1> QED
  BY <1>3, <1>4, <1>6, <1>7

LEMMA DeduplicateType == ServerTypeOK /\ Deduplicate => ServerTypeOK'
<1> SUFFICES ASSUME ServerTypeOK, Deduplicate PROVE ServerTypeOK'
  OBVIOUS
<1>1. NextMutation.id \in MutationId
  BY NextMutationType DEF Deduplicate, Mutation
<1>2. job' \in Job
  BY <1>1, JobStep, ConflictType, NextMutationType
     DEF Deduplicate, ServerTypeOK
<1> QED
  BY <1>2 DEF Deduplicate, ServerTypeOK, CurrentCursor

LEMMA DetectConflictType == ServerTypeOK /\ DetectConflict => ServerTypeOK'
<1> SUFFICES ASSUME ServerTypeOK, DetectConflict PROVE ServerTypeOK'
  OBVIOUS
<1>1. ConflictWith(NextMutation) \in Conflict
  BY NextMutationType, ConflictType DEF DetectConflict
<1>2. job' \in Job
  BY <1>1, JobStep, NextMutationType DEF DetectConflict, ServerTypeOK, Mutation
<1> QED
  BY <1>2 DEF DetectConflict, ServerTypeOK, CurrentCursor

LEMMA AcceptType == ServerTypeOK /\ Accept => ServerTypeOK'
<1> SUFFICES ASSUME ServerTypeOK, Accept PROVE ServerTypeOK'
  OBVIOUS
<1>1. PICK entry \in LogEntry :
        /\ AppendEntry(entry)
        /\ store' = [store EXCEPT ![NextMutation.entity] = entry.state]
  BY AcceptedEntry
<1>2. NextMutation.id \in MutationId
  BY NextMutationType DEF Accept, Mutation
<1>3. store' \in [Entity -> EntityState \cup {NoEntity}]
  BY <1>1 DEF ServerTypeOK, LogEntry
<1>4. tracker' \in [MutationId -> 0..CurrentCursor']
  <2>1. tracker' = [tracker EXCEPT ![NextMutation.id] = CurrentCursor']
    BY <1>1, AppendEntryType DEF Accept, CurrentCursor
  <2>2. CurrentCursor' \in 0..CurrentCursor'
        /\ \A i \in 0..CurrentCursor : i \in 0..CurrentCursor'
    BY <1>1, AppendEntryType
  <2>3. tracker \in [MutationId -> 0..CurrentCursor']
    BY <2>2 DEF ServerTypeOK
  <2> QED
    BY <2>1, <2>2, <2>3
<1>5. job' \in Job
  BY <1>2, JobStep, ConflictType, NextMutationType DEF Accept, ServerTypeOK
<1>6. minimumCursor' \in 0..CurrentCursor'
  BY <1>1, AppendEntryType DEF Accept, ServerTypeOK
<1> QED
  BY <1>1, <1>3, <1>4, <1>5, <1>6, AppendEntryType DEF ServerTypeOK

LEMMA BeginSyncType ==
  ASSUME ServerTypeOK, NEW request \in SyncRequest, BeginSync(request)
  PROVE  ServerTypeOK'
<1>1. job' \in Job
  BY NewJobType DEF BeginSync
<1> QED
  BY <1>1 DEF BeginSync, ServerTypeOK, CurrentCursor

LEMMA EndSyncType == ServerTypeOK /\ EndSync => ServerTypeOK'
<1> SUFFICES ASSUME ServerTypeOK, EndSync PROVE ServerTypeOK'
  OBVIOUS
<1>1. job' \in Job
  BY NewJobType DEF EndSync
<1> QED
  BY <1>1 DEF EndSync, ServerTypeOK, CurrentCursor

LEMMA PruneType ==
  ASSUME ServerTypeOK, NEW cursor \in Nat, SetMinimumAvailableCursor(cursor)
  PROVE  ServerTypeOK'
<1>1. CurrentCursor' = CurrentCursor /\ CurrentCursor \in Nat
  BY DEF SetMinimumAvailableCursor, ServerTypeOK, CurrentCursor
<1>2. minimumCursor' \in 0..CurrentCursor'
  BY <1>1 DEF SetMinimumAvailableCursor, ServerTypeOK
<1>3. tracker' \in [MutationId -> 0..CurrentCursor']
  BY <1>1 DEF SetMinimumAvailableCursor, ServerTypeOK
<1> QED
  BY <1>1, <1>2, <1>3 DEF SetMinimumAvailableCursor, ServerTypeOK

LEMMA SeedType ==
  ASSUME ServerTypeOK, NEW e \in Entity, NEW state \in EntityState,
         SeedEntity(e, state)
  PROVE  ServerTypeOK'
<1> DEFINE entry == [id |-> NoMutation, entity |-> e,
                     base |-> CurrentRevision(e), state |-> state]
<1>1. CurrentRevision(e) \in Nat
  BY DEF CurrentRevision, ServerTypeOK, EntityState
<1>2. entry \in LogEntry
  BY <1>1 DEF LogEntry
<1>3. AppendEntry(entry)
  BY DEF SeedEntity
<1> HIDE DEF entry
<1>4. store' \in [Entity -> EntityState \cup {NoEntity}]
  BY DEF SeedEntity, ServerTypeOK
<1>5. UNCHANGED <<minimumCursor, tracker, job>>
  BY DEF SeedEntity
<1> QED
  BY <1>2, <1>3, <1>4, <1>5, AppendEntryType DEF ServerTypeOK

\* Every step of the server keeps its state well formed.
LEMMA ServerTypeStep == ServerTypeOK /\ [ServerNext]_serverVars => ServerTypeOK'
<1> SUFFICES ASSUME ServerTypeOK, [ServerNext]_serverVars PROVE ServerTypeOK'
  OBVIOUS
<1>1. CASE \E request \in SyncRequest : BeginSync(request)
  BY <1>1, BeginSyncType
<1>2. CASE ProcessMutation
  BY <1>2, DeduplicateType, DetectConflictType, AcceptType
     DEF ProcessMutation
<1>3. CASE EndSync
  BY <1>3, EndSyncType
<1>4. CASE \E cursor \in Nat : SetMinimumAvailableCursor(cursor)
  BY <1>4, PruneType
<1>5. CASE \E e \in Entity, state \in EntityState : SeedEntity(e, state)
  BY <1>5, SeedType
<1>6. CASE UNCHANGED serverVars
  BY <1>6 DEF serverVars, ServerTypeOK, CurrentCursor
<1> QED
  BY <1>1, <1>2, <1>3, <1>4, <1>5, <1>6 DEF ServerNext

\* The server's state stays well formed, whatever requests arrive: cursors
\* and tracked positions never point past the end of the log.
THEOREM ServerTypeCorrect == ServerSpec => []ServerTypeOK
<1>1. ServerInit => ServerTypeOK
  BY NewJobType DEF ServerInit, ServerTypeOK, CurrentCursor
<1> QED
  BY <1>1, ServerTypeStep, PTL DEF ServerSpec

-----------------------------------------------------------------------------
(* The window: what was applied from the retention horizon on is retained,  *)
(* tracked, and applied once.                                               *)

WindowInv ==
  ServerTypeOK /\ WindowKept /\ WindowTracked /\ AtMostOnceInWindow

\* Every entry of the log is well formed.
LEMMA EntryType ==
  ASSUME ServerTypeOK, NEW i \in 1..CurrentCursor
  PROVE  /\ history[i] \in LogEntry
         /\ history[i].id \in MutationId \cup {NoMutation}
         /\ history[i].entity \in Entity
         /\ history[i].base \in Nat
         /\ history[i].state \in EntityState
<1>1. history[i] \in LogEntry
  BY DEF ServerTypeOK, CurrentCursor
<1> QED
  BY <1>1 DEF LogEntry

\* The actions that leave the log, the horizon and the tracker alone.
WindowUnchanged == UNCHANGED <<history, retained, minimumCursor, tracker>>

LEMMA WindowUnchangedStep ==
  ASSUME WindowInv, WindowUnchanged
  PROVE  WindowKept' /\ WindowTracked' /\ AtMostOnceInWindow'
  BY DEF WindowInv, WindowUnchanged, WindowKept, WindowTracked,
         AtMostOnceInWindow, CurrentCursor

LEMMA AcceptWindow ==
  ASSUME WindowInv, Accept
  PROVE  WindowKept' /\ WindowTracked' /\ AtMostOnceInWindow'
<1>0. ServerTypeOK
  BY DEF WindowInv
<1>1. PICK entry \in LogEntry : AppendEntry(entry) /\ entry.id = NextMutation.id
  BY <1>0, AcceptedEntry
<1> DEFINE n == CurrentCursor
           id == NextMutation.id
<1>2. /\ n \in Nat /\ CurrentCursor' = n + 1
      /\ history'[n + 1] = entry
      /\ \A i \in 1..n : history'[i] = history[i]
      /\ retained' = retained \cup {n + 1}
  BY <1>0, <1>1, AppendEntryType
<1>3. /\ id \in MutationId /\ tracker[id] = 0
      /\ minimumCursor' = minimumCursor
      /\ tracker' = [tracker EXCEPT ![id] = n + 1]
  BY <1>0, NextMutationType
     DEF Accept, Tracked, Mutation, CurrentCursor
<1>4. minimumCursor \in 0..n /\ tracker \in [MutationId -> 0..n]
      /\ \A i \in 1..n : history[i].id \in MutationId \cup {NoMutation}
  BY <1>0, EntryType DEF ServerTypeOK
<1>5. \A i \in 1..(n + 1) : i \in 1..n \/ i = n + 1
  BY <1>2
<1>6. WindowKept'
  BY <1>2, <1>3, <1>5 DEF WindowInv, WindowKept
<1>7. WindowTracked'
  <2> SUFFICES ASSUME NEW i \in 1..(n + 1), i >= minimumCursor,
                      history'[i].id # NoMutation
               PROVE  tracker'[history'[i].id] >= i
    BY <1>2, <1>3 DEF WindowTracked
  <2>1. CASE i = n + 1
    BY <1>1, <1>2, <1>3, <1>4, <2>1
  <2>2. CASE i \in 1..n
    <3>1. history'[i] = history[i] /\ tracker[history[i].id] >= i
          /\ history[i].id \in MutationId
      BY <1>2, <1>4, <2>2 DEF WindowInv, WindowTracked
    <3>2. CASE history[i].id = id
      BY <1>2, <1>3, <1>4, <2>2, <3>1, <3>2
    <3>3. CASE history[i].id # id
      BY <1>3, <1>4, <3>1, <3>3
    <3> QED
      BY <3>2, <3>3
  <2> QED
    BY <1>5, <2>1, <2>2
<1>8. \A i \in 1..n : history[i].id = id => i < minimumCursor
  <2> SUFFICES ASSUME NEW i \in 1..n, history[i].id = id, i >= minimumCursor
               PROVE  FALSE
    BY <1>2, <1>4
  <2>1. tracker[id] >= i
    BY <1>3, ServerConstants DEF WindowInv, WindowTracked
  <2> QED
    BY <1>2, <1>3, <2>1
<1>9. AtMostOnceInWindow'
  <2> SUFFICES ASSUME NEW i \in 1..(n + 1), NEW j \in 1..(n + 1), i < j,
                      history'[i].id = history'[j].id,
                      history'[i].id # NoMutation
               PROVE  i < minimumCursor
    BY <1>2, <1>3 DEF AtMostOnceInWindow
  <2>1. i \in 1..n
    BY <1>2
  <2>2. CASE j = n + 1
    BY <1>1, <1>2, <1>8, <2>1, <2>2
  <2>3. CASE j \in 1..n
    BY <1>2, <2>1, <2>3 DEF WindowInv, AtMostOnceInWindow
  <2> QED
    BY <1>5, <2>2, <2>3
<1> QED
  BY <1>6, <1>7, <1>9

LEMMA PruneWindow ==
  ASSUME WindowInv, NEW cursor \in Nat, SetMinimumAvailableCursor(cursor)
  PROVE  WindowKept' /\ WindowTracked' /\ AtMostOnceInWindow'
<1>1. /\ history' = history /\ CurrentCursor' = CurrentCursor
      /\ CurrentCursor \in Nat
      /\ minimumCursor' = cursor /\ cursor >= minimumCursor
      /\ minimumCursor \in Nat
  BY DEF SetMinimumAvailableCursor, CurrentCursor, WindowInv, ServerTypeOK
<1>2. WindowKept'
  BY <1>1 DEF WindowInv, WindowKept, SetMinimumAvailableCursor
<1>3. WindowTracked'
  <2> SUFFICES ASSUME NEW i \in 1..CurrentCursor, i >= cursor,
                      history[i].id # NoMutation
               PROVE  tracker'[history[i].id] >= i
    BY <1>1 DEF WindowTracked
  <2>1. history[i].id \in MutationId
        /\ tracker \in [MutationId -> 0..CurrentCursor]
    BY EntryType DEF WindowInv, ServerTypeOK
  <2>2. tracker[history[i].id] >= i
    BY <1>1 DEF WindowInv, WindowTracked
  <2>3. ~(tracker[history[i].id] < cursor)
    BY <1>1, <2>1, <2>2
  <2> QED
    BY <2>1, <2>2, <2>3 DEF SetMinimumAvailableCursor
<1>4. AtMostOnceInWindow'
  BY <1>1 DEF WindowInv, AtMostOnceInWindow
<1> QED
  BY <1>2, <1>3, <1>4

LEMMA SeedWindow ==
  ASSUME WindowInv, NEW e \in Entity, NEW state \in EntityState,
         SeedEntity(e, state)
  PROVE  WindowKept' /\ WindowTracked' /\ AtMostOnceInWindow'
<1> DEFINE n == CurrentCursor
           entry == [id |-> NoMutation, entity |-> e,
                     base |-> CurrentRevision(e), state |-> state]
<1>0. ServerTypeOK /\ entry \in LogEntry /\ entry.id = NoMutation
  BY AppliedType DEF WindowInv, LogEntry, CurrentRevision, ServerTypeOK,
                     EntityState
<1>1. AppendEntry(entry) /\ minimumCursor' = minimumCursor
      /\ tracker' = tracker
  BY DEF SeedEntity
<1> HIDE DEF entry
<1>2. /\ n \in Nat /\ CurrentCursor' = n + 1
      /\ history'[n + 1] = entry
      /\ \A i \in 1..n : history'[i] = history[i]
      /\ retained' = retained \cup {n + 1}
  BY <1>0, <1>1, AppendEntryType
<1>3. \A i \in 1..(n + 1) : i \in 1..n \/ i = n + 1
  BY <1>2
<1>4. WindowKept'
  BY <1>1, <1>2, <1>3 DEF WindowInv, WindowKept
<1>5. WindowTracked'
  BY <1>0, <1>1, <1>2, <1>3 DEF WindowInv, WindowTracked
<1>6. AtMostOnceInWindow'
  <2> SUFFICES ASSUME NEW i \in 1..(n + 1), NEW j \in 1..(n + 1), i < j,
                      history'[i].id = history'[j].id,
                      history'[i].id # NoMutation
               PROVE  i < minimumCursor
    BY <1>1, <1>2 DEF AtMostOnceInWindow
  <2>1. i \in 1..n /\ j \in 1..n
    BY <1>0, <1>2, <1>3
  <2> QED
    BY <1>2, <2>1 DEF WindowInv, AtMostOnceInWindow
<1> QED
  BY <1>4, <1>5, <1>6

LEMMA WindowStep == WindowInv /\ [ServerNext]_serverVars => WindowInv'
<1> SUFFICES ASSUME WindowInv, [ServerNext]_serverVars PROVE WindowInv'
  OBVIOUS
<1>0. ServerTypeOK'
  BY ServerTypeStep DEF WindowInv
<1> SUFFICES WindowKept' /\ WindowTracked' /\ AtMostOnceInWindow'
  BY <1>0 DEF WindowInv
<1>1. CASE \E request \in SyncRequest : BeginSync(request)
  BY <1>1, WindowUnchangedStep DEF BeginSync, WindowUnchanged
<1>2. CASE ProcessMutation
  BY <1>2, WindowUnchangedStep, AcceptWindow
     DEF ProcessMutation, Deduplicate, DetectConflict, WindowUnchanged
<1>3. CASE EndSync
  BY <1>3, WindowUnchangedStep DEF EndSync, WindowUnchanged
<1>4. CASE \E cursor \in Nat : SetMinimumAvailableCursor(cursor)
  BY <1>4, PruneWindow
<1>5. CASE \E e \in Entity, state \in EntityState : SeedEntity(e, state)
  BY <1>5, SeedWindow
<1>6. CASE UNCHANGED serverVars
  BY <1>6, WindowUnchangedStep DEF serverVars, WindowUnchanged
<1> QED
  BY <1>1, <1>2, <1>3, <1>4, <1>5, <1>6 DEF ServerNext

LEMMA WindowInit == ServerInit => WindowInv
<1> SUFFICES ASSUME ServerInit PROVE WindowInv
  OBVIOUS
<1>1. CurrentCursor = 0
  BY DEF ServerInit, CurrentCursor
<1>2. ServerTypeOK
  BY <1>1, NewJobType DEF ServerInit, ServerTypeOK
<1> QED
  BY <1>1, <1>2 DEF WindowInv, WindowKept, WindowTracked, AtMostOnceInWindow

LEMMA WindowAlways == ServerSpec => []WindowInv
  BY WindowInit, WindowStep, PTL DEF ServerSpec

\* The server applies a mutation again only when its first application lies
\* below the retention horizon, however often requests are repeated and
\* whatever is pruned (handleSyncRequest's duplicate check, pruneBelowSequence).
THEOREM AtMostOnce == ServerSpec => []AtMostOnceInWindow
<1>1. WindowInv => AtMostOnceInWindow
  BY DEF WindowInv
<1> QED
  BY <1>1, WindowAlways, PTL

-----------------------------------------------------------------------------
(* Replies: the horizon cannot pass the cursor of an admitted request.      *)

\* Handling a mutation changes neither the request nor the horizon.
LEMMA ProcessKeepsRequest ==
  ASSUME ServerTypeOK, ProcessMutation
  PROVE  /\ job'.busy = job.busy
         /\ job'.request = job.request
         /\ minimumCursor' = minimumCursor
<1>1. job \in Job
  BY DEF ServerTypeOK
<1>2. ASSUME NEW n, NEW a
      PROVE  /\ [job EXCEPT !.next = n, !.acknowledged = a].busy = job.busy
             /\ [job EXCEPT !.next = n, !.acknowledged = a].request = job.request
             /\ [job EXCEPT !.next = n, !.conflicts = a].busy = job.busy
             /\ [job EXCEPT !.next = n, !.conflicts = a].request = job.request
  BY <1>1 DEF Job
<1>3. CASE Deduplicate
  BY <1>2, <1>3 DEF Deduplicate
<1>4. CASE DetectConflict
  BY <1>2, <1>4 DEF DetectConflict
<1>5. CASE Accept
  BY <1>2, <1>5 DEF Accept
<1> QED
  BY <1>3, <1>4, <1>5 DEF ProcessMutation

LEMMA AdmittedStep ==
  ASSUME ServerTypeOK, AdmittedCursor, [ServerNext]_serverVars
  PROVE  AdmittedCursor'
<1>1. ASSUME NEW request \in SyncRequest, BeginSync(request)
      PROVE  AdmittedCursor'
  <2>1. job'.request = request /\ minimumCursor' = minimumCursor
    BY <1>1 DEF BeginSync
  <2>2. request.cursor \in Nat \cup {NoCursor} /\ minimumCursor \in Nat
    BY DEF SyncRequest, ServerTypeOK, CurrentCursor
  <2>3. request.cursor # NoCursor => ~(request.cursor < minimumCursor)
    BY <1>1 DEF BeginSync, Refused, IsCursorTooOld
  <2> QED
    BY <2>1, <2>2, <2>3 DEF AdmittedCursor, NoCursor
<1>2. CASE ProcessMutation
  BY <1>2, ProcessKeepsRequest DEF AdmittedCursor
<1>3. CASE EndSync
  BY <1>3 DEF EndSync, IdleJob, AdmittedCursor
<1>4. ASSUME NEW cursor \in Nat, SetMinimumAvailableCursor(cursor)
      PROVE  AdmittedCursor'
  BY <1>4 DEF SetMinimumAvailableCursor, AdmittedCursor
<1>5. ASSUME NEW e \in Entity, NEW state \in EntityState, SeedEntity(e, state)
      PROVE  AdmittedCursor'
  BY <1>5 DEF SeedEntity, AdmittedCursor
<1>6. CASE UNCHANGED serverVars
  BY <1>6 DEF serverVars, AdmittedCursor
<1> QED
  BY <1>1, <1>2, <1>3, <1>4, <1>5, <1>6 DEF ServerNext

LEMMA EveryChange == WindowInv /\ AdmittedCursor => ReplyHasEveryChange
<1> SUFFICES ASSUME WindowInv, AdmittedCursor, ReplyReady,
                    job.request.cursor # NoCursor
             PROVE  SyncReply.changes
                      = (job.request.cursor + 1)..SyncReply.cursor
  BY DEF ReplyHasEveryChange
<1>1. /\ SyncReply.changes = {n \in retained : n > job.request.cursor}
      /\ SyncReply.cursor = CurrentCursor
  BY DEF SyncReply, ChangesSince
<1>2. /\ job.request.cursor \in Nat
      /\ job.request.cursor >= minimumCursor
  BY DEF AdmittedCursor, ReplyReady, WindowInv, ServerTypeOK, Job,
         SyncRequest
<1>3. /\ CurrentCursor \in Nat /\ minimumCursor \in Nat
      /\ retained \in SUBSET (1..CurrentCursor)
  BY DEF WindowInv, ServerTypeOK, CurrentCursor
<1>4. ASSUME NEW n \in (job.request.cursor + 1)..CurrentCursor
      PROVE  n \in retained /\ n > job.request.cursor
  BY <1>2, <1>3 DEF WindowInv, WindowKept
<1>5. ASSUME NEW n \in retained, n > job.request.cursor
      PROVE  n \in (job.request.cursor + 1)..CurrentCursor
  BY <1>2, <1>3, <1>5
<1> QED
  BY <1>1, <1>4, <1>5

\* The reply to an admitted request lists every entry after the client's
\* cursor: pruning opens no gap under a cursor the server still serves
\* (handleSyncRequest, getChangesSince).
THEOREM ReplyComplete == ServerSpec => []ReplyHasEveryChange
<1>1. ServerInit => AdmittedCursor
  BY DEF ServerInit, IdleJob, AdmittedCursor
<1>2. WindowInv => ServerTypeOK
  BY DEF WindowInv
<1> QED
  BY <1>1, <1>2, EveryChange, AdmittedStep, WindowAlways, PTL DEF ServerSpec

-----------------------------------------------------------------------------
(* The log and the store.                                                   *)

\* An entry that is appended and stored: a seed, or a mutation based on the
\* current revision of its entity.
Records(entry) ==
  /\ AppendEntry(entry)
  /\ store' = [store EXCEPT ![entry.entity] = entry.state]
  /\ \/ entry.id = NoMutation
     \/ /\ entry.base = CurrentRevision(entry.entity)
        /\ entry.state.revision = entry.base + 1

\* Every step records one entry or leaves log and store alone.
LEMMA LogStep ==
  ASSUME ServerTypeOK, [ServerNext]_serverVars
  PROVE  \/ UNCHANGED <<store, history>>
         \/ \E entry \in LogEntry : Records(entry)
<1>1. CASE \E request \in SyncRequest : BeginSync(request)
  BY <1>1 DEF BeginSync
<1>2. CASE Deduplicate \/ DetectConflict
  BY <1>2 DEF Deduplicate, DetectConflict
<1>3. CASE Accept
  BY <1>3, AcceptedEntry DEF Records
<1>4. CASE EndSync
  BY <1>4 DEF EndSync
<1>5. CASE \E cursor \in Nat : SetMinimumAvailableCursor(cursor)
  BY <1>5 DEF SetMinimumAvailableCursor
<1>6. ASSUME NEW e \in Entity, NEW state \in EntityState, SeedEntity(e, state)
      PROVE  \E entry \in LogEntry : Records(entry)
  <2> DEFINE entry == [id |-> NoMutation, entity |-> e,
                       base |-> CurrentRevision(e), state |-> state]
  <2>1. CurrentRevision(e) \in Nat
    BY DEF CurrentRevision, ServerTypeOK, EntityState
  <2>2. entry \in LogEntry
    BY <2>1 DEF LogEntry
  <2>3. Records(entry)
    BY <1>6 DEF SeedEntity, Records
  <2> HIDE DEF entry
  <2> QED
    BY <2>2, <2>3
<1>7. CASE UNCHANGED serverVars
  BY <1>7 DEF serverVars
<1> QED
  BY <1>1, <1>2, <1>3, <1>4, <1>5, <1>6, <1>7 DEF ServerNext, ProcessMutation

LEMMA RecordsStoreMatchesLog ==
  ASSUME ServerTypeOK, StoreMatchesLog, NEW entry \in LogEntry, Records(entry)
  PROVE  StoreMatchesLog'
<1> DEFINE n == CurrentCursor
<1>1. /\ n \in Nat /\ CurrentCursor' = n + 1
      /\ history'[n + 1] = entry
      /\ \A i \in 1..n : history'[i] = history[i]
  BY AppendEntryType DEF Records
<1>2. /\ store' = [store EXCEPT ![entry.entity] = entry.state]
      /\ DOMAIN store = Entity
      /\ entry.entity \in Entity
  BY DEF Records, ServerTypeOK, LogEntry
<1> SUFFICES ASSUME NEW e \in Entity
    PROVE  \/ /\ store'[e] = NoEntity
              /\ \A i \in 1..(n + 1) : history'[i].entity # e
           \/ \E i \in 1..(n + 1) :
                /\ history'[i].entity = e
                /\ history'[i].state = store'[e]
                /\ \A j \in (i + 1)..(n + 1) : history'[j].entity # e
  BY <1>1 DEF StoreMatchesLog
<1>3. CASE e = entry.entity
  <2>1. n + 1 \in 1..(n + 1) /\ (n + 1 + 1)..(n + 1) = {}
    BY <1>1
  <2>2. history'[n + 1].entity = e /\ history'[n + 1].state = store'[e]
    BY <1>1, <1>2, <1>3
  <2> QED
    BY <2>1, <2>2
<1>4. CASE e # entry.entity
  <2>1. store'[e] = store[e]
    BY <1>2, <1>4
  <2>2. \A i \in 1..(n + 1) : i \in 1..n \/ i = n + 1
    BY <1>1
  <2>3. CASE store[e] = NoEntity /\ \A i \in 1..n : history[i].entity # e
    BY <1>1, <1>4, <2>1, <2>2, <2>3
  <2>4. CASE \E i \in 1..n : /\ history[i].entity = e
                            /\ history[i].state = store[e]
                            /\ \A j \in (i + 1)..n : history[j].entity # e
    <3>1. PICK i \in 1..n : /\ history[i].entity = e
                            /\ history[i].state = store[e]
                            /\ \A j \in (i + 1)..n : history[j].entity # e
      BY <2>4
    <3>2. i \in 1..(n + 1) /\ history'[i] = history[i]
      BY <1>1
    <3>3. ASSUME NEW j \in (i + 1)..(n + 1)
          PROVE  history'[j].entity # e
      <4>1. CASE j = n + 1
        BY <1>1, <1>4, <4>1
      <4>2. CASE j # n + 1
        <5>1. j \in (i + 1)..n /\ j \in 1..n
          BY <1>1, <4>2
        <5> QED
          BY <1>1, <3>1, <5>1
      <4> QED
        BY <4>1, <4>2
    <3> QED
      BY <2>1, <3>1, <3>2, <3>3
  <2> QED
    BY <2>3, <2>4 DEF StoreMatchesLog
<1> QED
  BY <1>3, <1>4

LEMMA RecordsAppliedToLatest ==
  ASSUME ServerTypeOK, StoreMatchesLog, AppliedToLatest,
         NEW entry \in LogEntry, Records(entry)
  PROVE  AppliedToLatest'
<1> DEFINE n == CurrentCursor
<1>1. /\ n \in Nat /\ CurrentCursor' = n + 1
      /\ history'[n + 1] = entry
      /\ \A i \in 1..n : history'[i] = history[i]
  BY AppendEntryType DEF Records
<1> SUFFICES ASSUME NEW j \in 1..(n + 1), history'[j].id # NoMutation
    PROVE  /\ history'[j].state.revision = history'[j].base + 1
           /\ \/ \A i \in 1..(j - 1) : history'[i].entity # history'[j].entity
              \/ \E i \in 1..(j - 1) :
                   /\ history'[i].entity = history'[j].entity
                   /\ history'[i].state.revision = history'[j].base
                   /\ \A k \in (i + 1)..(j - 1) :
                        history'[k].entity # history'[j].entity
  BY <1>1 DEF AppliedToLatest
<1>2. CASE j = n + 1
  <2> DEFINE e == entry.entity
  <2>1. /\ entry.base = CurrentRevision(e)
        /\ entry.state.revision = entry.base + 1
        /\ e \in Entity
    BY <1>1, <1>2 DEF Records, LogEntry
  <2>2. j - 1 = n
    BY <1>1, <1>2
  <2>3. CASE \A i \in 1..n : history[i].entity # e
    BY <1>1, <1>2, <2>1, <2>2, <2>3
  <2>4. CASE \E i \in 1..n : /\ history[i].entity = e
                            /\ history[i].state = store[e]
                            /\ \A k \in (i + 1)..n : history[k].entity # e
    <3>1. PICK i \in 1..n : /\ history[i].entity = e
                            /\ history[i].state = store[e]
                            /\ \A k \in (i + 1)..n : history[k].entity # e
      BY <2>4
    <3>2. store[e] # NoEntity
      BY <3>1, EntryType, ServerConstants
    <3>3. history[i].state.revision = entry.base
      BY <2>1, <3>1, <3>2 DEF CurrentRevision
    <3>4. \A k \in (i + 1)..n : k \in 1..n
      BY <1>1
    <3> QED
      BY <1>1, <1>2, <2>1, <2>2, <3>1, <3>3, <3>4
  <2> QED
    BY <2>1, <2>3, <2>4 DEF StoreMatchesLog
<1>3. CASE j \in 1..n
  <2>1. \A i \in 1..j : i \in 1..n /\ history'[i] = history[i]
    BY <1>1, <1>3
  <2>2. \A i \in 1..(j - 1) : i \in 1..j /\ \A k \in (i + 1)..(j - 1) : k \in 1..j
    BY <1>1, <1>3
  <2>3. j \in 1..j
    BY <1>1, <1>3
  <2> QED
    BY <1>3, <2>1, <2>2, <2>3 DEF AppliedToLatest
<1> QED
  BY <1>1, <1>2, <1>3

LogInv == ServerTypeOK /\ StoreMatchesLog /\ AppliedToLatest

LEMMA LogInvStep == LogInv /\ [ServerNext]_serverVars => LogInv'
<1> SUFFICES ASSUME LogInv, [ServerNext]_serverVars PROVE LogInv'
  OBVIOUS
<1>1. ServerTypeOK'
  BY ServerTypeStep DEF LogInv
<1>2. CASE UNCHANGED <<store, history>>
  BY <1>1, <1>2 DEF LogInv, StoreMatchesLog, AppliedToLatest, CurrentCursor
<1>3. CASE \E entry \in LogEntry : Records(entry)
  BY <1>1, <1>3, RecordsStoreMatchesLog, RecordsAppliedToLatest DEF LogInv
<1> QED
  BY <1>2, <1>3, LogStep DEF LogInv

LEMMA LogInvAlways == ServerSpec => []LogInv
<1>1. ServerInit => LogInv
  <2> SUFFICES ASSUME ServerInit PROVE LogInv
    OBVIOUS
  <2>1. CurrentCursor = 0 /\ \A e \in Entity : store[e] = NoEntity
    BY DEF ServerInit, CurrentCursor
  <2>2. ServerTypeOK
    BY <2>1, NewJobType DEF ServerInit, ServerTypeOK
  <2> QED
    BY <2>1, <2>2 DEF LogInv, StoreMatchesLog, AppliedToLatest
<1> QED
  BY <1>1, LogInvStep, PTL DEF ServerSpec

\* Replaying the log and taking a snapshot give a client the same entities
\* (change-log append and entities.set in processMutation and seedEntity).
THEOREM SnapshotMatchesLog == ServerSpec => []StoreMatchesLog
<1>1. LogInv => StoreMatchesLog
  BY DEF LogInv
<1> QED
  BY <1>1, LogInvAlways, PTL

\* Two mutations based on the same revision of an entity are never both
\* applied: each was applied to the state its author's base revision names
\* (the revision check of processMutation).
THEOREM NoBlindOverwrite == ServerSpec => []AppliedToLatest
<1>1. LogInv => AppliedToLatest
  BY DEF LogInv
<1> QED
  BY <1>1, LogInvAlways, PTL

-----------------------------------------------------------------------------
(* Acknowledgements.                                                        *)

\* What the tracker knows is in the log, where the tracker says it is.
TrackedIsApplied ==
  \A m \in MutationId : tracker[m] # 0 => history[tracker[m]].id = m

AckInv == ServerTypeOK /\ TrackedIsApplied /\ AcknowledgedIsApplied

\* Appending to the log takes nothing from it: what was acknowledged or
\* tracked still is in it.
LEMMA AppendKeepsIds ==
  ASSUME ServerTypeOK, NEW entry \in LogEntry, AppendEntry(entry)
  PROVE  /\ CurrentCursor' \in 1..CurrentCursor'
         /\ history'[CurrentCursor'] = entry
         /\ \A i \in 1..CurrentCursor : i \in 1..CurrentCursor' /\ history'[i] = history[i]
  BY AppendEntryType

\* What a step may add to the acknowledged ids: one id that is in the log.
LEMMA AckAppend ==
  ASSUME NEW j \in Job, NEW id \in MutationId, NEW H,
         \A k \in 1..Len(j.acknowledged) : j.acknowledged[k] \in H,
         id \in H
  PROVE  LET next == [j EXCEPT !.next = @ + 1, !.acknowledged = Append(@, id)]
         IN \A k \in 1..Len(next.acknowledged) : next.acknowledged[k] \in H
<1> DEFINE a == j.acknowledged
           b == Append(a, id)
<1>1. a \in Seq(MutationId)
  BY DEF Job
<1>2. /\ Len(a) \in Nat
      /\ Len(b) = Len(a) + 1
      /\ \A k \in 1..Len(a) : b[k] = a[k]
      /\ b[Len(a) + 1] = id
  BY <1>1, AppendFacts
<1>3. \A k \in 1..Len(b) : b[k] \in H
  <2> SUFFICES ASSUME NEW k \in 1..Len(b) PROVE b[k] \in H
    OBVIOUS
  <2>1. CASE k = Len(a) + 1
    BY <1>2, <2>1
  <2>2. CASE k # Len(a) + 1
    <3>1. k \in 1..Len(a)
      BY <1>2, <2>2
    <3> QED
      BY <1>2, <3>1
  <2> QED
    BY <2>1, <2>2
<1> HIDE DEF b
<1>4. [j EXCEPT !.next = @ + 1, !.acknowledged = b].acknowledged = b
  BY DEF Job
<1> QED
  BY <1>3, <1>4 DEF b

LoggedIds == {history[i].id : i \in 1..CurrentCursor}

LEMMA AckInvStep == AckInv /\ [ServerNext]_serverVars => AckInv'
<1> SUFFICES ASSUME AckInv, [ServerNext]_serverVars PROVE AckInv'
  OBVIOUS
<1>0. ServerTypeOK /\ ServerTypeOK' /\ job \in Job
  BY ServerTypeStep DEF AckInv, ServerTypeOK
<1>1. \A k \in 1..Len(job.acknowledged) : job.acknowledged[k] \in LoggedIds
  BY DEF AckInv, AcknowledgedIsApplied, LoggedIds
<1>2. (\A k \in 1..Len(job'.acknowledged) : job'.acknowledged[k] \in LoggedIds')
        => AcknowledgedIsApplied'
  BY DEF AcknowledgedIsApplied, LoggedIds
<1>3. ASSUME NEW entry \in LogEntry, AppendEntry(entry)
      PROVE  LoggedIds \subseteq LoggedIds' /\ entry.id \in LoggedIds'
  BY <1>0, <1>3, AppendKeepsIds DEF LoggedIds
<1>4. CASE \E request \in SyncRequest : BeginSync(request)
  <2>1. job'.acknowledged = <<>> /\ UNCHANGED <<history, tracker>>
    BY <1>4 DEF BeginSync
  <2> QED
    BY <1>0, <1>2, <2>1 DEF AckInv, TrackedIsApplied
<1>5. CASE Deduplicate
  <2>1. UNCHANGED <<history, tracker>> /\ LoggedIds' = LoggedIds
    BY <1>5 DEF Deduplicate, LoggedIds, CurrentCursor
  <2>2. NextMutation.id \in MutationId /\ NextMutation.id \in LoggedIds
    <3>1. NextMutation.id \in MutationId
      BY <1>0, <1>5, NextMutationType DEF Deduplicate, Mutation
    <3>2. tracker[NextMutation.id] \in 1..CurrentCursor
      BY <1>0, <1>5, <3>1 DEF Deduplicate, Tracked, ServerTypeOK, CurrentCursor
    <3> QED
      BY <1>5, <3>1, <3>2
         DEF AckInv, TrackedIsApplied, Deduplicate, Tracked, LoggedIds
  <2>3. AcknowledgedIsApplied'
    BY <1>0, <1>1, <1>2, <1>5, <2>1, <2>2, AckAppend DEF Deduplicate
  <2> QED
    BY <1>0, <2>1, <2>3 DEF AckInv, TrackedIsApplied
<1>6. CASE DetectConflict
  <2>1. UNCHANGED <<history, tracker>> /\ LoggedIds' = LoggedIds
    BY <1>6 DEF DetectConflict, LoggedIds, CurrentCursor
  <2>2. job'.acknowledged = job.acknowledged
    BY <1>0, <1>6 DEF DetectConflict, Job
  <2> QED
    BY <1>0, <1>1, <1>2, <2>1, <2>2 DEF AckInv, TrackedIsApplied
<1>7. CASE Accept
  <2>1. PICK entry \in LogEntry :
          AppendEntry(entry) /\ entry.id = NextMutation.id
    BY <1>0, <1>7, AcceptedEntry
  <2>2. LoggedIds \subseteq LoggedIds' /\ NextMutation.id \in LoggedIds'
    BY <1>3, <2>1
  <2>3. NextMutation.id \in MutationId
    BY <1>0, <1>7, NextMutationType DEF Accept, Mutation
  <2>4. AcknowledgedIsApplied'
    <3>1. \A k \in 1..Len(job.acknowledged) :
            job.acknowledged[k] \in LoggedIds'
      BY <1>1, <2>2
    <3> QED
      BY <1>0, <1>2, <1>7, <2>2, <2>3, <3>1, AckAppend DEF Accept
  <2>5. TrackedIsApplied'
    <3>1. tracker' = [tracker EXCEPT ![NextMutation.id] = CurrentCursor']
      BY <1>0, <1>7, <2>1, AppendEntryType DEF Accept, CurrentCursor
    <3>2. tracker \in [MutationId -> 0..CurrentCursor] /\ CurrentCursor \in Nat
      BY <1>0 DEF ServerTypeOK, CurrentCursor
    <3> SUFFICES ASSUME NEW m \in MutationId, tracker'[m] # 0
                 PROVE  history'[tracker'[m]].id = m
      BY DEF TrackedIsApplied
    <3>3. CASE m = NextMutation.id
      BY <1>0, <2>1, <3>1, <3>2, <3>3, AppendKeepsIds
    <3>4. CASE m # NextMutation.id
      <4>1. tracker'[m] = tracker[m] /\ tracker[m] \in 1..CurrentCursor
        BY <3>1, <3>2, <3>4
      <4>2. history'[tracker[m]] = history[tracker[m]]
        BY <1>0, <2>1, <4>1, AppendKeepsIds
      <4> QED
        BY <4>1, <4>2 DEF AckInv, TrackedIsApplied
    <3> QED
      BY <3>3, <3>4
  <2> QED
    BY <1>0, <2>4, <2>5 DEF AckInv
<1>8. CASE EndSync
  <2>1. job'.acknowledged = <<>> /\ UNCHANGED <<history, tracker>>
    BY <1>8 DEF EndSync, IdleJob
  <2> QED
    BY <1>0, <1>2, <2>1 DEF AckInv, TrackedIsApplied
<1>9. CASE \E cursor \in Nat : SetMinimumAvailableCursor(cursor)
  <2>1. /\ UNCHANGED <<history, job>>
        /\ \A m \in MutationId : tracker'[m] = 0 \/ tracker'[m] = tracker[m]
    BY <1>9 DEF SetMinimumAvailableCursor
  <2>2. LoggedIds' = LoggedIds
    BY <2>1 DEF LoggedIds, CurrentCursor
  <2> QED
    BY <1>0, <1>1, <1>2, <2>1, <2>2 DEF AckInv, TrackedIsApplied
<1>10. ASSUME NEW e \in Entity, NEW state \in EntityState, SeedEntity(e, state)
       PROVE  AckInv'
  <2>1. PICK entry \in LogEntry : AppendEntry(entry)
    <3>1. CurrentRevision(e) \in Nat
      BY <1>0 DEF CurrentRevision, ServerTypeOK, EntityState
    <3> QED
      BY <1>10, <3>1 DEF SeedEntity, LogEntry
  <2>2. job' = job /\ tracker' = tracker
    BY <1>10 DEF SeedEntity
  <2>3. AcknowledgedIsApplied'
    BY <1>1, <1>2, <1>3, <2>1, <2>2
  <2>4. TrackedIsApplied'
    <3> SUFFICES ASSUME NEW m \in MutationId, tracker[m] # 0
                 PROVE  history'[tracker[m]].id = m
      BY <2>2 DEF TrackedIsApplied
    <3>1. tracker[m] \in 1..CurrentCursor
      BY <1>0 DEF ServerTypeOK, CurrentCursor
    <3> QED
      BY <1>0, <2>1, <3>1, AppendKeepsIds DEF AckInv, TrackedIsApplied
  <2> QED
    BY <1>0, <2>3, <2>4 DEF AckInv
<1>11. CASE UNCHANGED serverVars
  <2>1. LoggedIds' = LoggedIds /\ UNCHANGED <<history, tracker, job>>
    BY <1>11 DEF serverVars, LoggedIds, CurrentCursor
  <2> QED
    BY <1>0, <1>1, <1>2, <2>1 DEF AckInv, TrackedIsApplied
<1> QED
  BY <1>4, <1>5, <1>6, <1>7, <1>8, <1>9, <1>10, <1>11
     DEF ServerNext, ProcessMutation

\* The server acknowledges only what its log holds, for a mutation applied
\* now and for one it recognises (handleSyncRequest, processMutation).
THEOREM AcknowledgesApplied == ServerSpec => []AcknowledgedIsApplied
<1>1. ServerInit => AckInv
  <2> SUFFICES ASSUME ServerInit PROVE AckInv
    OBVIOUS
  <2>1. CurrentCursor = 0 /\ job.acknowledged = <<>>
        /\ \A m \in MutationId : tracker[m] = 0
    BY DEF ServerInit, CurrentCursor, IdleJob
  <2>2. ServerTypeOK
    BY <2>1, NewJobType DEF ServerInit, ServerTypeOK
  <2> QED
    BY <2>1, <2>2 DEF AckInv, TrackedIsApplied, AcknowledgedIsApplied
<1>2. AckInv => AcknowledgedIsApplied
  BY DEF AckInv
<1> QED
  BY <1>1, <1>2, AckInvStep, PTL DEF ServerSpec
=============================================================================
