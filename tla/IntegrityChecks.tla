-------------------------- MODULE IntegrityChecks --------------------------
(***************************************************************************)
(* What IntegrityChecker.check() and RecoveryManager.recover() look for in *)
(* the store of a client of OfflineSync, and the promise that they find    *)
(* nothing.  Both only read, apart from resetInFlightMutations, which is   *)
(* RecoverMutation of OfflineSync.                                         *)
(*                                                                         *)
(* An issue is named by what it is about, not by its wording: of mutations *)
(* that share a number the code reports all but the one storage lists      *)
(* first, the model each of them.  Every collection of the model is one of *)
(* the applicationCollections; "__mutations__" and "__sync_meta__" are not *)
(* entities of it.                                                         *)
(***************************************************************************)
EXTENDS OfflineSync

Issue(invariant, severity, subject) ==
  [invariant |-> invariant, severity |-> severity, subject |-> subject]

OfCollection(c, col) ==
  {m \in DOMAIN queue[c] : CollectionOf(queue[c][m].entity) = col}

Exists(c, m) == local[c][queue[c][m].entity] # NoEntity

\* n follows a smaller number of its collection, but not the one before it.
AfterGap(c, col, n) ==
  LET numbers == {queue[c][m].sequence : m \in OfCollection(c, col)}
  IN n \in numbers /\ n - 1 \notin numbers /\ \E i \in numbers : i < n

-----------------------------------------------------------------------------
(* IntegrityChecker *)

\* checkSequenceMonotonicity
SequenceIssues(c) ==
  UNION {
    {Issue("INV-1", "critical", m) : m \in
       {k \in OfCollection(c, col) : \E i \in OfCollection(c, col) \ {k} :
          queue[c][k].sequence = queue[c][i].sequence}}
    \cup
    {Issue("INV-1", "high", m) : m \in
       {k \in OfCollection(c, col) : AfterGap(c, col, queue[c][k].sequence)}}
    : col \in Collection}

\* checkMutationDurability.  An enqueued record lacks none of its fields.
DurabilityIssues(c) ==
  {Issue("INV-4", "high", m) : m \in
     {k \in DOMAIN queue[c] : queue[c][k].status \notin Status \cup {"FAILED"}}}

\* checkAtomicWritePairs.  No write of Collection has a null value.
AtomicPairIssues(c) ==
  {Issue("INV-8", "high", m) : m \in
     {k \in WithStatus(c, "PENDING") : ~Exists(c, k)}}

\* checkRevisionTypes
RevisionIssues(c) ==
  {Issue("INV-6", "medium", e) : e \in
     {i \in Entity : local[c][i] # NoEntity /\ local[c][i].revision < 0}}

\* check()
IntegrityIssues(c) ==
  SequenceIssues(c) \cup DurabilityIssues(c) \cup AtomicPairIssues(c)
    \cup RevisionIssues(c)

-----------------------------------------------------------------------------
(* RecoveryManager *)

\* checkSequenceIntegrity
GapWarnings(c) ==
  {Issue("INV-1", "high", m) : m \in
     {k \in DOMAIN queue[c] :
        AfterGap(c, CollectionOf(queue[c][k].entity), queue[c][k].sequence)}}

\* checkOrphanedMutations
OrphanWarnings(c) ==
  {Issue("INV-4", "medium", m) : m \in
     {k \in DOMAIN queue[c] :
        queue[c][k].status \in {"PENDING", "FAILED"} /\ ~Exists(c, k)}}

\* recover(), once the mutations IN_FLIGHT are reset
RecoveryWarnings(c) == GapWarnings(c) \cup OrphanWarnings(c)

-----------------------------------------------------------------------------
\* Whenever they are run - between any two steps of a cycle, after a crash at
\* any of them - the two find a healthy store: numbers follow one another
\* without a gap or a repetition across restarts, and no mutation waits
\* without the entity it was stored with (INV-1, INV-8).  A write that is
\* rolled back breaks this: its number is gone, and both report a gap.
NothingToReport ==
  \A c \in Client : IntegrityIssues(c) = {} /\ RecoveryWarnings(c) = {}
=============================================================================
