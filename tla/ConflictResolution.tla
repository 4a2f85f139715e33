------------------------- MODULE ConflictResolution -------------------------
(***************************************************************************)
(* The strategies of packages/conflict, the manager that picks one, and    *)
(* what the sync engine does with a resolution: store it under the         *)
(* server's revision and send the mutation again as a `set' of the whole   *)
(* entity.  Clients edit one entity with every operation MutationRecorder  *)
(* knows; OfflineSync has the same cycle in its single steps, for the      *)
(* `set's of Collection only.                                              *)
(*                                                                         *)
(* A definition whose comment begins with "Wrong:" is not part of the      *)
(* model.                                                                  *)
(***************************************************************************)
EXTENDS Integers, SequencesExt

CONSTANTS
  Client,
  Edits,       \* the operations the application records
  Managers,    \* the ConflictResolutionManagers the application may configure
  Overrides,   \* strategies given to setCollectionStrategy
  NoStrategy,  \* the collection has no strategy of its own
  NoReply,
  Bumps,       \* what an edit may add to the revision of the stored entity
  MaxEdits,    \* bound: mutations recorded
  MaxChanges   \* bound: calls of setCollectionStrategy

VARIABLES
  server,     \* the server's entity: data and revision
  local,      \* client -> the stored entity
  cursor,     \* client -> the log position it has received
  mutations,  \* the mutations recorded, oldest first
  reply,      \* client -> the reply under way
  manager,    \* the resolver of every client
  changes     \* number of strategies set so far

resolutionVars == <<server, local, cursor, mutations, reply, manager, changes>>

FieldOperation == {"increment", "decrement", "add", "remove"}

Operation == {"set", "patch"} \cup FieldOperation

\* Data is an object; which fields it has is left open.
IsData(d) == d = [field \in DOMAIN d |-> d[field]]

ASSUME EditsAssumption ==
  \A edit \in Edits :
    /\ edit.operation \in Operation
    /\ edit.operation = "set" => IsData(edit.value)

\* The strategies of the package, configured with one another.
SimpleStrategy ==
  [kind : {"SERVER_WINS", "CLIENT_WINS", "LAST_WRITE_WINS", "MANUAL"}]

BasicStrategy ==
  SimpleStrategy \cup [kind : {"FIELD_MERGE"}, fallback : SimpleStrategy]

Strategy ==
  BasicStrategy \cup [kind : {"OPERATION_AWARE"}, commutative : BasicStrategy,
                      nonCommutative : BasicStrategy]

ConflictResolutionManager ==
  [default : Strategy, collection : Strategy \cup {NoStrategy},
   chain : Seq(Strategy)]

ASSUME ManagersAssumption ==
  Managers \subseteq ConflictResolutionManager /\ Overrides \subseteq Strategy

ASSUME BumpsAssumption == Bumps \subseteq Nat

-----------------------------------------------------------------------------
(* Entity data: a number, an array and a nested object. *)

\* applyMutation of the server.  `add' pushes, `patch' replaces the fields it
\* names, nested objects as a whole.
ServerApply(data, m) ==
  CASE m.operation = "set"       -> m.value
    [] m.operation = "patch"     -> [data EXCEPT !.profile = m.value]
    [] m.operation = "increment" -> [data EXCEPT !.count = @ + m.value]
    [] m.operation = "decrement" -> [data EXCEPT !.count = @ - m.value]
    [] m.operation = "add"       -> [data EXCEPT !.items = Append(@, m.value)]
    [] m.operation = "remove"    ->
         [data EXCEPT !.items = SelectSeq(@, LAMBDA i : i # m.value)]

\* Wrong: `decrement' shares the branch of `increment'.
ApplyFieldUnsigned(data, m) ==
  CASE m.operation \in {"increment", "decrement"} ->
         [data EXCEPT !.count = @ + m.value]
    [] m.operation = "add"       ->
         [data EXCEPT !.items =
            IF Contains(@, m.value) THEN @ ELSE Append(@, m.value)]
    [] m.operation = "remove"    ->
         [data EXCEPT !.items = SelectSeq(@, LAMBDA i : i # m.value)]
    [] OTHER                     -> data

\* applyFieldOperation of the strategies: `add' leaves a present item alone.
ApplyFieldOperation(data, m) ==
  CASE m.operation = "increment" -> [data EXCEPT !.count = @ + m.value]
    [] m.operation = "decrement" -> [data EXCEPT !.count = @ - m.value]
    [] m.operation = "add"       ->
         [data EXCEPT !.items =
            IF Contains(@, m.value) THEN @ ELSE Append(@, m.value)]
    [] m.operation = "remove"    ->
         [data EXCEPT !.items = SelectSeq(@, LAMBDA i : i # m.value)]
    [] OTHER                     -> data

\* mergeDeep: the fields of the patch win, nested fields it lacks stay.
MergeDeep(data, patch) == [data EXCEPT !.profile = patch @@ @]

-----------------------------------------------------------------------------
(* The strategies: the resolutions a strategy may come to. *)

Resolution(outcome, data) ==
  {[resolved |-> TRUE, outcome |-> outcome, data |-> data]}

Unresolved == {[resolved |-> FALSE, outcome |-> "MANUAL"]}

ServerWins(k) == Resolution("SERVER_WINS", k.server.data)

\* resolveConflict keeps `field', so a mutation that was resolved before is a
\* `set' that names one.
ClientWins(k) ==
  LET m == k.mutation
  IN Resolution("CLIENT_WINS",
       CASE m.operation = "set"   -> k.local.data
         [] m.operation = "patch" -> MergeDeep(k.server.data, m.value)
         [] OTHER                 -> ApplyFieldOperation(k.server.data, m))

\* Two wall clocks are compared.
LastWriteWins(k) == ClientWins(k) \cup ServerWins(k)

Simple(strategy, k) ==
  CASE strategy.kind = "SERVER_WINS"     -> ServerWins(k)
    [] strategy.kind = "CLIENT_WINS"     -> ClientWins(k)
    [] strategy.kind = "LAST_WRITE_WINS" -> LastWriteWins(k)
    [] strategy.kind = "MANUAL"          -> Unresolved

FieldMerge(strategy, k) ==
  IF k.mutation.operation \in FieldOperation
    THEN Resolution("MERGED", ApplyFieldOperation(k.server.data, k.mutation))
    ELSE Simple(strategy.fallback, k)

Basic(strategy, k) ==
  IF strategy.kind = "FIELD_MERGE" THEN FieldMerge(strategy, k)
                                   ELSE Simple(strategy, k)

\* Its fallback is for operations that do not exist.
OperationAware(strategy, k) ==
  Basic(IF k.mutation.operation \in FieldOperation
          THEN strategy.commutative ELSE strategy.nonCommutative, k)

StrategyResolutions(strategy, k) ==
  IF strategy.kind = "OPERATION_AWARE" THEN OperationAware(strategy, k)
                                       ELSE Basic(strategy, k)

\* ConflictResolutionManager.resolve: the strategy of the collection, or the
\* default, then the first of the chain that resolves.
Resolve(k) ==
  LET primary == StrategyResolutions(IF manager.collection = NoStrategy
                                       THEN manager.default
                                       ELSE manager.collection, k)
      attempts(i) == StrategyResolutions(manager.chain[i], k)
      resolving == {i \in DOMAIN manager.chain : attempts(i) # Unresolved}
  IN IF primary = Unresolved /\ resolving # {}
       THEN attempts(CHOOSE i \in resolving : \A j \in resolving : i <= j)
       ELSE primary

SetCollectionStrategy(strategy) ==
  /\ changes < MaxChanges
  /\ manager' = [manager EXCEPT !.collection = strategy]
  /\ changes' = changes + 1
  /\ UNCHANGED <<server, local, cursor, mutations, reply>>

-----------------------------------------------------------------------------
(* Clients and the server. *)

FirstData == [count |-> 0, items |-> <<"i">>, profile |-> [a |-> 1, b |-> 1]]

\* Everybody starts with the entity in its first revision.
ResolutionInit ==
  /\ server = [data |-> FirstData, revision |-> 1]
  /\ local = [c \in Client |-> server]
  /\ cursor = [c \in Client |-> 1]
  /\ mutations = <<>>
  /\ reply = [c \in Client |-> NoReply]
  /\ manager \in Managers
  /\ changes = 0

\* MutationRecorder: the mutation of one edit.  conflicts, outcome and edit
\* are history: how often it was reported, how that was last settled, and
\* the operation it was recorded with.
NewMutation(c, edit) ==
  [author |-> c, operation |-> edit.operation, value |-> edit.value,
   status |-> "PENDING", conflicts |-> 0, outcome |-> "NONE", edit |-> edit]

\* One transaction enqueues the mutation and stores the entity the application
\* made of it, under the revision the application gives it: the one it had
\* (0), or the next one (1), as update() of Collection does for its `set's.
RecordEdit(c, edit) ==
  /\ Len(mutations) < MaxEdits
  /\ mutations' = Append(mutations, NewMutation(c, edit))
  /\ \E bump \in Bumps :
       local' = [local EXCEPT ![c] =
         [data |-> ServerApply(@.data, edit), revision |-> @.revision + bump]]
  /\ UNCHANGED <<server, cursor, reply, manager, changes>>

PendingOf(c) ==
  {i \in DOMAIN mutations :
     mutations[i].author = c /\ mutations[i].status = "PENDING"}

\* A cycle with a batch of one up to the server's answer.  The base revision
\* is that of the stored entity.  The server applies the mutation or reports
\* a conflict, and sends the entity if it changed since the cursor.
Exchange(c) ==
  /\ reply[c] = NoReply
  /\ \E i \in PendingOf(c) :
       /\ \A j \in PendingOf(c) : i <= j
       /\ LET accepted == local[c].revision = server.revision
              next == IF accepted
                        THEN [data |-> ServerApply(server.data, mutations[i]),
                              revision |-> server.revision + 1]
                        ELSE server
          IN /\ server' = next
             /\ reply' = [reply EXCEPT ![c] =
                  [mutation |-> i, accepted |-> accepted, server |-> next]]
  /\ UNCHANGED <<local, cursor, mutations, manager, changes>>

\* A cycle with nothing to send.
Fetch(c) ==
  /\ reply[c] = NoReply
  /\ PendingOf(c) = {}
  /\ server.revision > cursor[c]
  /\ local' = [local EXCEPT ![c] = server]
  /\ cursor' = [cursor EXCEPT ![c] = server.revision]
  /\ UNCHANGED <<server, mutations, reply, manager, changes>>

\* The stored entity once the changes of the reply are applied.
Received(c) ==
  IF reply[c].server.revision > cursor[c] THEN reply[c].server ELSE local[c]

EndExchange(c) ==
  /\ cursor' = [cursor EXCEPT ![c] = reply[c].server.revision]
  /\ reply' = [reply EXCEPT ![c] = NoReply]
  /\ UNCHANGED <<server, manager, changes>>

Acknowledge(c) ==
  /\ reply[c] # NoReply
  /\ reply[c].accepted
  /\ local' = [local EXCEPT ![c] = Received(c)]
  /\ mutations' = [mutations EXCEPT ![reply[c].mutation].status =
                                       "ACKNOWLEDGED"]
  /\ EndExchange(c)

\* The history distinguishes none, one and several conflicts.
OneMore(n) == IF n < 2 THEN n + 1 ELSE n

\* The mutation as the request carried it, the entity as the changes left it.
ConflictContext(c) ==
  [mutation |-> mutations[reply[c].mutation], local |-> Received(c),
   server |-> reply[c].server]

\* resolveConflict: what is left of m once it is resolved to r.
Retried(m, r) ==
  [m EXCEPT !.operation = "set", !.value = r.data,
            !.conflicts = OneMore(@), !.outcome = r.outcome]

\* Wrong: the resolution is stored under the revision the client had.
AutoResolveUnderOwn(c) ==
  /\ reply[c] # NoReply
  /\ ~reply[c].accepted
  /\ \E r \in Resolve(ConflictContext(c)) :
       /\ r.resolved
       /\ local' = [local EXCEPT ![c].data = r.data]
       /\ mutations' = [mutations EXCEPT ![reply[c].mutation] =
                                          Retried(@, r)]
  /\ EndExchange(c)

\* attemptAutoResolve.
AutoResolve(c) ==
  /\ reply[c] # NoReply
  /\ ~reply[c].accepted
  /\ \E r \in Resolve(ConflictContext(c)) :
       /\ r.resolved
       /\ local' = [local EXCEPT ![c] =
            [data |-> r.data, revision |-> reply[c].server.revision]]
       /\ mutations' = [mutations EXCEPT ![reply[c].mutation] =
                                          Retried(@, r)]
  /\ EndExchange(c)

\* markConflict.
MarkedConflict(m) ==
  [m EXCEPT !.status = "CONFLICT", !.conflicts = OneMore(@)]

LeaveToApplication(c) ==
  /\ reply[c] # NoReply
  /\ ~reply[c].accepted
  /\ Resolve(ConflictContext(c)) = Unresolved
  /\ local' = [local EXCEPT ![c] = Received(c)]
  /\ mutations' = [mutations EXCEPT ![reply[c].mutation] = MarkedConflict(@)]
  /\ EndExchange(c)

Cycle(c) ==
  \/ Exchange(c) \/ Acknowledge(c) \/ AutoResolve(c) \/ LeaveToApplication(c)

ResolutionNext ==
  \/ \E c \in Client : Cycle(c) \/ Fetch(c)
  \/ \E c \in Client, edit \in Edits : RecordEdit(c, edit)
  \/ \E strategy \in Overrides : SetCollectionStrategy(strategy)

ResolutionSpec == ResolutionInit /\ [][ResolutionNext]_resolutionVars

\* The scheduler runs cycles for ever and their calls return.
ResolutionFairSpec == ResolutionSpec /\ \A c \in Client : WF_resolutionVars(Cycle(c))

-----------------------------------------------------------------------------
(* Properties. *)

\* What the server's data becomes when the edit of m comes to it now.  The
\* strategies do not push an item that is there.
Reapplied(m) ==
  IF m.edit.operation = "add" /\ Contains(server.data.items, m.edit.value)
    THEN server.data ELSE ServerApply(server.data, m.edit)

\* The retry of a resolved conflict is a `set' of the whole entity, computed
\* from an earlier reply; other clients and the client's own writes go on in
\* between.  When the server accepts it after one conflict, it still changes
\* exactly what its outcome says: nothing for SERVER_WINS, the recorded field
\* operation and no more for MERGED.
OneConflictIsMerged ==
  [][\A c \in Client :
       (reply'[c] # reply[c] /\ reply'[c] # NoReply /\ reply'[c].accepted) =>
         LET m == mutations[reply'[c].mutation]
         IN m.conflicts = 1 =>
              /\ m.outcome = "SERVER_WINS" => server'.data = server.data
              /\ m.outcome = "MERGED" => server'.data = Reapplied(m)]_resolutionVars

\* No resolution is a dead end: a mutation is applied in the end, or left to
\* the application because no configured strategy resolves it (INV-2).
ConflictsEnd ==
  \A i \in 1..MaxEdits :
    (i \in DOMAIN mutations /\ mutations[i].status = "PENDING") ~>
      (i \in DOMAIN mutations /\ mutations[i].status # "PENDING")

\* What the comments of the strategies promise: that every conflict, however
\* many there were, leaves the effect of a field operation in the entity.
EveryConflictIsMerged ==
  [][\A c \in Client :
       (reply'[c] # reply[c] /\ reply'[c] # NoReply /\ reply'[c].accepted) =>
         LET m == mutations[reply'[c].mutation]
         IN (m.conflicts > 0 /\ m.edit.operation \in FieldOperation)
              => server'.data = Reapplied(m)]_resolutionVars
=============================================================================
