---------------------------- MODULE MCSyncServer ----------------------------
(***************************************************************************)
(* SyncServer on its own for TLC: requests of at most two mutations, small *)
(* revisions, two seeds, a bounded log.                                    *)
(***************************************************************************)
EXTENDS SyncServer, TLC

CONSTANTS MaxLog, MaxBase

MCMutations ==
  {[id |-> m, entity |-> e, operation |-> o, value |-> {m},
    baseRevision |-> b] :
     m \in MutationId, e \in Entity, o \in Operation, b \in 0..MaxBase}

MCRequests ==
  [cursor: -1..CurrentCursor,
   mutations: UNION {[1..n -> MCMutations] : n \in 0..2}]

MCSeeds == {[data |-> {}, revision |-> r, isDeleted |-> FALSE] : r \in {0, 1}}

MCNext ==
  \/ /\ Len(history) < MaxLog
     /\ \E request \in MCRequests : BeginSync(request)
  \/ ProcessMutation
  \/ EndSync
  \/ \E cursor \in 0..MaxLog : SetMinimumAvailableCursor(cursor)
  \/ /\ Len(history) < MaxLog
     /\ \E e \in Entity, state \in MCSeeds : SeedEntity(e, state)

MCSpec == ServerInit /\ [][MCNext]_serverVars

Symmetry == Permutations(MutationId) \cup Permutations(Entity)
=============================================================================
