---------------------------- MODULE AdapterProofs ----------------------------
(***************************************************************************)
(* Proofs about the adapters to the host, each for any values of its       *)
(* constants.                                                              *)
(*                                                                         *)
(* SQLiteStorage: transactions belong to their calls, and nothing a failed *)
(* one wrote is ever stored.  The invariant has three parts: types, the    *)
(* calls of transaction() with the flags and the connection that go with   *)
(* them, and the tokens in the tables.                                     *)
(*                                                                         *)
(* ElectronBridge: every call gets the answer of its own cycle, and after  *)
(* dispose() none starts one.                                              *)
(*                                                                         *)
(* CollectionViews: a view that is gone leaves no listener and is not      *)
(* written to, and a view whose reads are in shows what was announced.     *)
(* The invariants are who owns which controller, and what the last read of *)
(* a controller has found.                                                 *)
(***************************************************************************)
EXTENDS SQLiteStorage, ElectronBridge, CollectionViews, FiniteSetTheorems, TLAPS

-----------------------------------------------------------------------------
(* SQLiteStorage: calls of transaction(), and what the tables hold.         *)

\* Types, with the tokens below the next one to be given out.
TypeInv ==
  /\ rows \in [Key -> (1..writes) \cup {NoRow}]
  /\ work \in [Key -> (1..writes) \cup {NoRow}]
  /\ holder \in Adapter \cup {NoAdapter}
  /\ holder = NoAdapter => work = rows
  /\ closed \subseteq Adapter
  /\ inTransaction \subseteq Adapter
  /\ step \in [Task -> {"idle", "callback", "failed"}]
  /\ wrote \in [Task -> SUBSET (1..writes)]
  /\ \A t \in Task : step[t] = "idle" => wrote[t] = {}
  /\ answer \subseteq 1..writes
  /\ writes \in 0..MaxWrites
  /\ events \in 0..MaxEvents
  /\ dead \subseteq 1..writes /\ stray \subseteq 1..writes
  /\ ended \subseteq {t \in Task : step[t] # "idle"}
  /\ refused \subseteq Adapter

\* A call under way has set the flag of its adapter and is the only one of it.
CallHasFlag ==
  \A t \in Task : step[t] # "idle" =>
    /\ AdapterOf[t] \in inTransaction
    /\ \A u \in Task : (u # t /\ AdapterOf[u] = AdapterOf[t]) => step[u] = "idle"

CallbackHolds ==
  \A t \in Task :
    /\ step[t] = "callback" =>
         AdapterOf[t] \in closed \/ t \in ended \/ holder = AdapterOf[t]
    /\ t \in ended => holder # AdapterOf[t]

CallInv == CallHasFlag /\ CallbackHolds /\ NoOrphanTransaction /\ FlagMeansCall

\* What failed is in neither table; what a call under way has written is not
\* committed, and not in the work of another connection either, as long as its
\* transaction has not been ended.  This is why the rollback of one call can
\* do without looking at any other.
TokenInv ==
  \A k \in Key :
    /\ rows[k] \notin dead /\ work[k] \notin dead
    /\ \A t \in Task \ ended :
         /\ rows[k] \notin wrote[t]
         /\ holder # AdapterOf[t] => work[k] \notin wrote[t]

StorageInv == TypeInv /\ CallInv /\ TokenInv

-----------------------------------------------------------------------------
LEMMA StorageStarts == Init => StorageInv
<1> SUFFICES ASSUME Init PROVE StorageInv
  OBVIOUS
<1>1. TypeInv
  BY StorageConstants DEF Init, TypeInv, NoAnswer
<1>2. CallInv
  BY DEF Init, CallInv, CallHasFlag, CallbackHolds, NoOrphanTransaction,
         FlagMeansCall
<1>3. TokenInv
  BY DEF Init, TokenInv
<1> QED
  BY <1>1, <1>2, <1>3 DEF StorageInv

\* Reading changes nothing; what it returns is in a table.
LEMMA ReadStep == ASSUME StorageInv, Read PROVE StorageInv'
<1>1. UNCHANGED state
  BY DEF Read, Query, TxQuery, Get, TxGet, Select
<1>2. answer' \subseteq 1..writes
  <2>1. PICK t \in Task, keys \in SUBSET Key :
          answer' = {RowsSeen(AdapterOf[t])[k] : k \in keys} \ (wrote[t] \cup {NoRow})
    BY DEF Read, Query, TxQuery, Get, TxGet, Select
  <2>2. \A k \in Key : RowsSeen(AdapterOf[t])[k] \in (1..writes) \cup {NoRow}
    BY DEF RowsSeen, StorageInv, TypeInv
  <2> QED
    BY <2>1, <2>2
<1>3. TypeInv'
  BY <1>1, <1>2
     DEF StorageInv, TypeInv, state, database, adapters, history
<1>4. CallInv'
  BY <1>1
     DEF StorageInv, CallInv, CallHasFlag, CallbackHolds, NoOrphanTransaction,
         FlagMeansCall, TasksOf, state, database, adapters, history
<1>5. TokenInv'
  BY <1>1 DEF StorageInv, TokenInv, state, database, adapters, history
<1> QED
  BY <1>3, <1>4, <1>5 DEF StorageInv

\* The transaction of the one call of the adapter ends, and what was written
\* in it is gone.
LEMMA StatementFailsStep ==
  ASSUME StorageInv, NEW t \in Task, StatementFails(t), answer' = NoAnswer
  PROVE  StorageInv'
<1> DEFINE a == AdapterOf[t]
<1>1. /\ holder = a /\ holder' = NoAdapter /\ work' = rows
      /\ dead' = dead \cup UNION {wrote[u] : u \in Calling(a)}
      /\ wrote' = [u \in Task |-> IF u \in Calling(a) THEN {} ELSE wrote[u]]
      /\ ended' = ended \cup Calling(a)
      /\ UNCHANGED <<rows, closed, inTransaction, step, writes, events, stray,
                     refused>>
  BY DEF StatementFails, Discard, adapters
<1>2. \A u \in Task :
        /\ u \in Calling(a) <=> AdapterOf[u] = a /\ step[u] # "idle"
        /\ u \in Calling(a) => u \notin ended
  BY <1>1 DEF Calling, TasksOf, StorageInv, CallInv, CallbackHolds
<1>3. \A d \in dead' : d \in dead \/ \E u \in Task \ ended : d \in wrote[u]
  BY <1>1, <1>2 DEF Calling, TasksOf
<1>4. TypeInv'
  <2>1. wrote' \in [Task -> SUBSET (1..writes)]
    BY <1>1 DEF StorageInv, TypeInv
  <2>2. dead' \subseteq 1..writes
    BY <1>3 DEF StorageInv, TypeInv
  <2>3. ended' \subseteq {u \in Task : step'[u] # "idle"}
    BY <1>1 DEF StorageInv, TypeInv, Calling, TasksOf
  <2> QED
    BY <1>1, <2>1, <2>2, <2>3, StorageConstants DEF StorageInv, TypeInv, NoAnswer
<1>5. CallInv'
  <2>1. CallHasFlag' /\ FlagMeansCall'
    BY <1>1 DEF StorageInv, CallInv, CallHasFlag, FlagMeansCall, TasksOf
  <2>2. CallbackHolds'
    BY <1>1, <1>2, StorageConstants DEF StorageInv, CallInv, CallbackHolds
  <2>3. NoOrphanTransaction'
    BY <1>1 DEF NoOrphanTransaction
  <2> QED
    BY <2>1, <2>2, <2>3 DEF CallInv
<1>6. TokenInv'
  BY <1>1, <1>3 DEF StorageInv, TokenInv
<1> QED
  BY <1>4, <1>5, <1>6 DEF StorageInv

\* Statements have nothing to do with flags and calls.
LEMMA WriteKeepsCalls == ASSUME CallInv, Write PROVE CallInv'
<1>1. UNCHANGED <<holder, adapters, step, ended, refused>>
  BY DEF Write, Put, TxPut, Delete, TxDelete, Upsert, DeleteRow, history
<1> QED
  BY <1>1
     DEF CallInv, CallHasFlag, CallbackHolds, NoOrphanTransaction,
         FlagMeansCall, TasksOf, adapters

\* A statement writes to the table its connection sees, which is the
\* committed one unless it has a transaction open.
LEMMA ChangeTypes ==
  ASSUME NEW a, NEW table, Change(a, table)
  PROVE  /\ work' = table
         /\ rows' = IF holder = a THEN rows ELSE table
BY DEF Change

\* A token goes to the call whose transaction it is written in, if any; to a
\* call whose transaction was ended, it goes without one.
LEMMA UpsertStep ==
  ASSUME StorageInv, NEW t \in Task, NEW k \in Key, Upsert(t, k),
         Outside(t) \/ Inside(t), answer' = NoAnswer
  PROVE  TypeInv' /\ TokenInv'
<1> DEFINE a == AdapterOf[t]
           table == [RowsSeen(a) EXCEPT ![k] = writes']
<1>1. /\ writes' = writes + 1 /\ writes + 1 \in 1..MaxWrites
      /\ writes \in 0..MaxWrites
      /\ holder \in {a, NoAdapter}
      /\ work' = table
      /\ rows' = IF holder = a THEN rows ELSE table
      /\ UNCHANGED <<holder, closed, inTransaction, step, events, dead, stray,
                     ended, refused>>
  BY StorageConstants, ChangeTypes
     DEF Upsert, StorageInv, TypeInv, Busy, adapters, history
<1>2. /\ RowsSeen(a) \in [Key -> (1..writes) \cup {NoRow}]
      /\ rows \in [Key -> (1..writes) \cup {NoRow}]
      /\ 1..writes \subseteq 1..writes'
      /\ writes' \in 1..writes' /\ writes' \notin 1..writes
  BY <1>1 DEF RowsSeen, StorageInv, TypeInv
<1>3. /\ table \in [Key -> (1..writes') \cup {NoRow}]
      /\ \A j \in Key : table[j] = IF j = k THEN writes' ELSE RowsSeen(a)[j]
  BY <1>2
<1>4. /\ DOMAIN wrote' = Task /\ wrote' = [u \in Task |-> wrote'[u]]
      /\ \A u \in Task :
           /\ wrote'[u] \subseteq wrote[u] \cup {writes'}
           /\ wrote'[u] # wrote[u] =>
                step[u] # "idle" /\ AdapterOf[u] = a /\ (u = t \/ holder = a)
  BY DEF Upsert, Calling, TasksOf
<1>5. \A u \in Task \ ended : writes' \in wrote'[u] =>
         AdapterOf[u] = a /\ holder = a
  <2> SUFFICES ASSUME NEW u \in Task, u \notin ended, writes' \in wrote'[u]
               PROVE  AdapterOf[u] = a /\ holder = a
    OBVIOUS
  <2>1. writes' \notin wrote[u]
    BY <1>2 DEF StorageInv, TypeInv
  <2>2. step[u] # "idle" /\ AdapterOf[u] = a /\ (u = t \/ holder = a)
    BY <1>4, <2>1
  <2> QED
    BY <2>2 DEF Outside, Inside, StorageInv, CallInv, CallbackHolds
<1>6. TypeInv'
  <2>1. holder' = NoAdapter => work' = rows'
    BY <1>1, StorageConstants
  <2>2. /\ \A u \in Task : wrote'[u] \in SUBSET (1..writes')
        /\ \A u \in Task : step[u] = "idle" => wrote'[u] = {}
    BY <1>2, <1>4 DEF StorageInv, TypeInv
  <2>3. wrote' \in [Task -> SUBSET (1..writes')]
    BY <1>4, <2>2
  <2>4. rows' \in [Key -> (1..writes') \cup {NoRow}]
    BY <1>1, <1>2, <1>3
  <2>5. dead' \subseteq 1..writes' /\ stray' \subseteq 1..writes'
    BY <1>1, <1>2 DEF StorageInv, TypeInv
  <2>6. /\ work' \in [Key -> (1..writes') \cup {NoRow}]
        /\ holder' \in Adapter \cup {NoAdapter}
        /\ answer' \subseteq 1..writes'
        /\ writes' \in 0..MaxWrites
    <3> HIDE DEF table
    <3> QED
      BY <1>1, <1>3 DEF StorageInv, TypeInv, NoAnswer
  <2> HIDE DEF table
  <2> QED
    BY <1>1, <2>1, <2>2, <2>3, <2>4, <2>5, <2>6 DEF StorageInv, TypeInv
<1>7. TokenInv'
  <2> SUFFICES ASSUME NEW j \in Key
               PROVE  /\ rows'[j] \notin dead' /\ work'[j] \notin dead'
                      /\ \A u \in Task \ ended' :
                           /\ rows'[j] \notin wrote'[u]
                           /\ holder' # AdapterOf[u] => work'[j] \notin wrote'[u]
    BY DEF TokenInv
  <2>1. writes' \notin dead
    BY <1>2 DEF StorageInv, TypeInv
  <2>2. RowsSeen(a)[j] \in {rows[j], work[j]}
    BY DEF RowsSeen
  <2>3. rows[j] # writes' /\ work[j] # writes'
    BY <1>1, <1>2, StorageConstants DEF StorageInv, TypeInv
  <2>4. rows'[j] \notin dead' /\ work'[j] \notin dead'
    BY <1>1, <1>3, <2>1, <2>2 DEF StorageInv, TokenInv
  <2>5. ASSUME NEW u \in Task \ ended
        PROVE  /\ rows'[j] \notin wrote'[u]
               /\ holder' # AdapterOf[u] => work'[j] \notin wrote'[u]
    <3>1. CASE holder = a
      <4>1. rows'[j] = rows[j] /\ rows[j] \notin wrote'[u]
        BY <3>1, <1>1, <1>4, <2>3 DEF StorageInv, TokenInv
      <4>2. holder # AdapterOf[u] => wrote'[u] = wrote[u]
        BY <3>1, <1>4
      <4>3. holder # AdapterOf[u] => writes' \notin wrote'[u]
        BY <3>1, <1>5
      <4> QED
        BY <3>1, <4>1, <4>2, <4>3, <1>1, <1>3
           DEF RowsSeen, StorageInv, TokenInv
    <3>2. CASE holder # a
      <4>1. writes' \notin wrote'[u]
        BY <3>2, <1>5
      <4>2. rows[j] \notin wrote'[u]
        BY <1>4, <2>3 DEF StorageInv, TokenInv
      <4> QED
        BY <3>2, <4>1, <4>2, <1>1, <1>3 DEF RowsSeen, StorageInv, TypeInv
    <3> QED
      BY <3>1, <3>2
  <2> QED
    BY <1>1, <2>4, <2>5
<1> QED
  BY <1>6, <1>7

LEMMA DeleteStep ==
  ASSUME StorageInv, NEW t \in Task, NEW k \in Key, DeleteRow(t, k),
         wrote' = wrote, answer' = NoAnswer
  PROVE  TypeInv' /\ TokenInv'
<1> DEFINE a == AdapterOf[t]
           table == [RowsSeen(a) EXCEPT ![k] = NoRow]
<1>1. /\ holder \in {a, NoAdapter}
      /\ work' = table
      /\ rows' = IF holder = a THEN rows ELSE table
      /\ UNCHANGED <<holder, closed, inTransaction, step, writes, events, dead,
                     stray, ended, refused>>
  BY ChangeTypes DEF DeleteRow, StorageInv, TypeInv, Busy, adapters, history
<1>2. /\ RowsSeen(a) \in [Key -> (1..writes) \cup {NoRow}]
      /\ NoRow \notin 1..writes
  BY StorageConstants DEF RowsSeen, StorageInv, TypeInv
<1>3. /\ table \in [Key -> (1..writes) \cup {NoRow}]
      /\ \A j \in Key : table[j] = IF j = k THEN NoRow ELSE RowsSeen(a)[j]
  BY <1>2
<1>4. TypeInv'
  <2> HIDE DEF table
  <2> QED
    BY <1>1, <1>3, StorageConstants DEF StorageInv, TypeInv, NoAnswer
<1>5. TokenInv'
  <2>1. /\ NoRow \notin dead
        /\ \A u \in Task : NoRow \notin wrote[u]
    BY <1>2 DEF StorageInv, TypeInv
  <2> QED
    BY <1>1, <1>3, <2>1 DEF RowsSeen, StorageInv, TokenInv
<1> QED
  BY <1>4, <1>5

LEMMA WriteStep == ASSUME StorageInv, Write, answer' = NoAnswer PROVE StorageInv'
<1>1. CallInv'
  BY WriteKeepsCalls DEF StorageInv
<1>2. PICK t \in Task, k \in Key :
        Put(t, k) \/ TxPut(t, k) \/ Delete(t, k) \/ TxDelete(t, k)
  BY DEF Write
<1>3. CASE Put(t, k) \/ TxPut(t, k)
  BY <1>1, <1>3, UpsertStep DEF Put, TxPut, StorageInv
<1>4. CASE Delete(t, k) \/ TxDelete(t, k)
  BY <1>1, <1>4, DeleteStep DEF Delete, TxDelete, DeleteRow, StorageInv
<1> QED
  BY <1>2, <1>3, <1>4

-----------------------------------------------------------------------------
(* transaction(), close() and crashes, one action at a time. *)

LEMMA BeginStep ==
  ASSUME StorageInv, NEW t \in Task, Begin(t), answer' = NoAnswer
  PROVE  StorageInv'
<1>1. AdapterOf[t] \in Adapter
  BY StorageConstants
<1>2. TypeInv'
  BY <1>1, StorageConstants
     DEF Begin, StorageInv, TypeInv, NoAnswer, history
<1>3. CallInv'
  <2>1. \A u \in Task : AdapterOf[u] = AdapterOf[t] => step[u] = "idle"
    BY DEF Begin, StorageInv, CallInv, CallHasFlag
  <2>2. CallHasFlag'
    BY <2>1 DEF Begin, StorageInv, TypeInv, CallInv, CallHasFlag
  <2>3. CallbackHolds'
    <3>1. \A u \in ended : AdapterOf[u] # AdapterOf[t]
      BY <2>1 DEF StorageInv, TypeInv
    <3> QED
      BY <3>1, StorageConstants
         DEF Begin, StorageInv, TypeInv, CallInv, CallbackHolds, history
  <2>4. NoOrphanTransaction' /\ FlagMeansCall'
    BY StorageConstants
       DEF Begin, StorageInv, TypeInv, CallInv, NoOrphanTransaction,
           FlagMeansCall, TasksOf, history
  <2> QED
    BY <2>2, <2>3, <2>4 DEF CallInv
<1>4. TokenInv'
  BY DEF Begin, StorageInv, TypeInv, TokenInv, history
<1> QED
  BY <1>2, <1>3, <1>4 DEF StorageInv

\* The flag of a refused adapter is set for good, and excused.
LEMMA BeginFailsStep ==
  ASSUME StorageInv, NEW t \in Task, BeginFails(t), answer' = NoAnswer
  PROVE  StorageInv'
<1>1. AdapterOf[t] \in Adapter
  BY StorageConstants
<1>2. TypeInv'
  BY <1>1 DEF BeginFails, StorageInv, TypeInv, NoAnswer, database
<1>3. CallInv'
  BY DEF BeginFails, StorageInv, CallInv, CallHasFlag, CallbackHolds,
         NoOrphanTransaction, FlagMeansCall, TasksOf, database
<1>4. TokenInv'
  BY DEF BeginFails, StorageInv, TokenInv, database
<1> QED
  BY <1>2, <1>3, <1>4 DEF StorageInv

\* No other call of the adapter is under way, so what others have written is
\* not in the work that is committed.
LEMMA CommitStep ==
  ASSUME StorageInv, NEW t \in Task, Commit(t), answer' = NoAnswer
  PROVE  StorageInv'
<1>1. \A u \in Task : (u # t /\ AdapterOf[u] = AdapterOf[t]) => step[u] = "idle"
  BY DEF Commit, StorageInv, CallInv, CallHasFlag
<1>2. t \notin ended
  BY DEF Commit, StorageInv, CallInv, CallbackHolds
<1>3. TypeInv'
  BY <1>2 DEF Commit, StorageInv, TypeInv, NoAnswer, history
<1>4. CallInv'
  <2>1. CallHasFlag'
    BY <1>1 DEF Commit, StorageInv, TypeInv, CallInv, CallHasFlag
  <2>2. CallbackHolds'
    BY <1>1, StorageConstants
       DEF Commit, StorageInv, TypeInv, CallInv, CallbackHolds, history
  <2>3. NoOrphanTransaction' /\ FlagMeansCall'
    BY <1>1
       DEF Commit, StorageInv, TypeInv, CallInv, NoOrphanTransaction,
           FlagMeansCall, TasksOf, history
  <2> QED
    BY <2>1, <2>2, <2>3 DEF CallInv
<1>5. TokenInv'
  BY <1>1 DEF Commit, StorageInv, TypeInv, TokenInv, history
<1> QED
  BY <1>3, <1>4, <1>5 DEF StorageInv

\* A connection gives up its transaction, if it has one: no token appears.
LEMMA Discarded ==
  ASSUME StorageInv, NEW a \in Adapter, Discard(a)
  PROVE  /\ holder' = IF holder = a THEN NoAdapter ELSE holder
         /\ work' = IF holder = a THEN rows ELSE work
BY DEF Discard

LEMMA ThrowStep ==
  ASSUME StorageInv, NEW t \in Task, Throw(t), answer' = NoAnswer
  PROVE  StorageInv'
<1>1. /\ step[t] = "callback"
      /\ step' = [step EXCEPT ![t] = "failed"]
      /\ UNCHANGED <<rows, holder, work, closed, inTransaction, wrote, writes,
                     events, dead, stray, ended, refused>>
  BY DEF Throw, database, adapters, history
<1>2. TypeInv'
  BY <1>1 DEF StorageInv, TypeInv, NoAnswer
<1>3. CallInv'
  <2>1. CallHasFlag'
    BY <1>1 DEF StorageInv, TypeInv, CallInv, CallHasFlag
  <2>2. CallbackHolds'
    BY <1>1 DEF StorageInv, TypeInv, CallInv, CallbackHolds
  <2>3. NoOrphanTransaction' /\ FlagMeansCall'
    BY <1>1
       DEF StorageInv, TypeInv, CallInv, NoOrphanTransaction, FlagMeansCall,
           TasksOf
  <2> QED
    BY <2>1, <2>2, <2>3 DEF CallInv
<1>4. TokenInv'
  BY <1>1 DEF StorageInv, TokenInv
<1> QED
  BY <1>2, <1>3, <1>4 DEF StorageInv

LEMMA RollBackStep ==
  ASSUME StorageInv, NEW t \in Task, RollBack(t), answer' = NoAnswer
  PROVE  StorageInv'
<1>1. /\ step[t] = "failed"
      /\ step' = [step EXCEPT ![t] = "idle"]
      /\ wrote' = [wrote EXCEPT ![t] = {}]
      /\ dead' = IF t \in ended THEN dead ELSE dead \cup wrote[t]
      /\ stray' = IF t \in ended THEN stray \cup wrote[t] ELSE stray
      /\ ended' = ended \ {t}
      /\ inTransaction' = inTransaction \ {AdapterOf[t]}
      /\ UNCHANGED <<rows, closed, writes, events, refused>>
      /\ holder' = IF holder = AdapterOf[t] THEN NoAdapter ELSE holder
      /\ work' = IF holder = AdapterOf[t] THEN rows ELSE work
  BY Discarded, StorageConstants DEF RollBack, CallIsLost
<1>2. \A u \in Task : (u # t /\ AdapterOf[u] = AdapterOf[t]) => step[u] = "idle"
  BY <1>1 DEF StorageInv, CallInv, CallHasFlag
<1>3. TypeInv'
  BY <1>1, StorageConstants DEF StorageInv, TypeInv, NoAnswer
<1>4. CallInv'
  <2>1. CallHasFlag'
    BY <1>1, <1>2 DEF StorageInv, TypeInv, CallInv, CallHasFlag
  <2>2. CallbackHolds'
    <3>1. \A u \in Task : holder' = AdapterOf[u] => holder = AdapterOf[u]
      BY <1>1, StorageConstants
    <3> QED
      BY <1>1, <1>2, <3>1 DEF StorageInv, TypeInv, CallInv, CallbackHolds
  <2>3. NoOrphanTransaction' /\ FlagMeansCall'
    BY <1>1, StorageConstants
       DEF StorageInv, TypeInv, CallInv, NoOrphanTransaction, FlagMeansCall,
           TasksOf
  <2> QED
    BY <2>1, <2>2, <2>3 DEF CallInv
<1>5. TokenInv'
  BY <1>1, <1>2 DEF StorageInv, TypeInv, TokenInv
<1> QED
  BY <1>3, <1>4, <1>5 DEF StorageInv

LEMMA CloseStep ==
  ASSUME StorageInv, NEW a \in Adapter, Close(a), answer' = NoAnswer
  PROVE  StorageInv'
<1>1. /\ closed' = closed \cup {a}
      /\ events' = events + 1 /\ events < MaxEvents
      /\ UNCHANGED <<rows, inTransaction, step, wrote, writes, dead, stray, ended,
                     refused>>
      /\ holder' = IF holder = a THEN NoAdapter ELSE holder
      /\ work' = IF holder = a THEN rows ELSE work
  BY Discarded DEF Close, history
<1>2. TypeInv'
  BY <1>1, StorageConstants DEF StorageInv, TypeInv, NoAnswer
<1>3. CallInv'
  BY <1>1, StorageConstants
     DEF StorageInv, CallInv, CallHasFlag, CallbackHolds, NoOrphanTransaction,
         FlagMeansCall, TasksOf
<1>4. TokenInv'
  BY <1>1 DEF StorageInv, TokenInv
<1> QED
  BY <1>2, <1>3, <1>4 DEF StorageInv

LEMMA CrashStep ==
  ASSUME StorageInv, NEW a \in Adapter, Crash(a), answer' = NoAnswer
  PROVE  StorageInv'
<1>1. /\ closed' = closed \ {a}
      /\ inTransaction' = inTransaction \ {a}
      /\ refused' = refused \ {a}
      /\ events' = events + 1 /\ events < MaxEvents
      /\ UNCHANGED <<rows, writes>>
      /\ holder' = IF holder = a THEN NoAdapter ELSE holder
      /\ work' = IF holder = a THEN rows ELSE work
  BY Discarded DEF Crash
<1>2. \A u \in Task :
        /\ AdapterOf[u] = a => step'[u] = "idle" /\ wrote'[u] = {}
        /\ AdapterOf[u] # a => step'[u] = step[u] /\ wrote'[u] = wrote[u]
  BY DEF Crash, TasksOf
<1>3. /\ \A d \in dead' :
           d \in dead \/ \E u \in Task \ ended : AdapterOf[u] = a /\ d \in wrote[u]
      /\ \A d \in stray' : d \in stray \/ \E u \in Task : d \in wrote[u]
  BY DEF Crash, TasksOf, Calling
<1>4. \A u \in Task : u \in ended' <=> u \in ended /\ AdapterOf[u] # a
  BY DEF Crash, TasksOf, Calling, StorageInv, TypeInv
<1>5. TypeInv'
  <2>1. /\ step' \in [Task -> {"idle", "callback", "failed"}]
        /\ wrote' \in [Task -> SUBSET (1..writes)]
    BY DEF Crash, StorageInv, TypeInv
  <2>2. dead' \subseteq 1..writes /\ stray' \subseteq 1..writes
    BY <1>3 DEF StorageInv, TypeInv
  <2>3. ended' \subseteq {u \in Task : step'[u] # "idle"}
    BY <1>2, <1>4 DEF Crash, StorageInv, TypeInv
  <2> QED
    BY <1>1, <1>2, <2>1, <2>2, <2>3, StorageConstants
       DEF StorageInv, TypeInv, NoAnswer
<1>6. CallInv'
  <2>1. CallHasFlag'
    BY <1>1, <1>2 DEF StorageInv, CallInv, CallHasFlag
  <2>2. CallbackHolds'
    <3> SUFFICES ASSUME NEW u \in Task
                 PROVE  /\ step'[u] = "callback" =>
                             \/ AdapterOf[u] \in closed' \/ u \in ended'
                             \/ holder' = AdapterOf[u]
                        /\ u \in ended' => holder' # AdapterOf[u]
      BY DEF CallbackHolds
    <3> QED
      BY <1>1, <1>2, <1>4, StorageConstants
         DEF StorageInv, CallInv, CallbackHolds
  <2>3. NoOrphanTransaction'
    BY <1>1, <1>2 DEF StorageInv, CallInv, NoOrphanTransaction, TasksOf
  <2>4. FlagMeansCall'
    BY <1>1, <1>2 DEF StorageInv, CallInv, FlagMeansCall, TasksOf
  <2> QED
    BY <2>1, <2>2, <2>3, <2>4 DEF CallInv
<1>7. TokenInv'
  BY <1>1, <1>2, <1>3, <1>4 DEF StorageInv, TypeInv, TokenInv
<1> QED
  BY <1>5, <1>6, <1>7 DEF StorageInv

-----------------------------------------------------------------------------
LEMMA StorageStep == ASSUME StorageInv, [Next]_vars PROVE StorageInv'
<1>1. CASE Read
  BY <1>1, ReadStep
<1>2. CASE Write /\ answer' = NoAnswer
  BY <1>2, WriteStep
<1>3. ASSUME NEW t \in Task, Transaction(t), answer' = NoAnswer
      PROVE  StorageInv'
  <2>1. CASE Reject(t)
    BY <1>3, <2>1
       DEF Reject, state, database, adapters, history, StorageInv, TypeInv,
           CallInv, CallHasFlag, CallbackHolds, NoOrphanTransaction,
           FlagMeansCall, TasksOf, TokenInv, NoAnswer
  <2> QED
    BY <1>3, <2>1, BeginStep, BeginFailsStep, CommitStep, ThrowStep,
       RollBackStep DEF Transaction
<1>4. ASSUME NEW a \in Adapter, Close(a) \/ Crash(a), answer' = NoAnswer
      PROVE  StorageInv'
  BY <1>4, CloseStep, CrashStep
<1>5. ASSUME NEW t \in Task, StatementFails(t), answer' = NoAnswer
      PROVE  StorageInv'
  BY <1>5, StatementFailsStep
<1>6. CASE UNCHANGED vars
  BY <1>6
     DEF vars, state, database, adapters, history, StorageInv, TypeInv,
         CallInv, CallHasFlag, CallbackHolds, NoOrphanTransaction,
         FlagMeansCall, TasksOf, TokenInv
<1> QED
  BY <1>1, <1>2, <1>3, <1>4, <1>5, <1>6 DEF Next

LEMMA StorageKeeps == Spec => []StorageInv
<1>1. Init => StorageInv
  BY StorageStarts
<1>2. StorageInv /\ [Next]_vars => StorageInv'
  BY StorageStep
<1> QED
  BY <1>1, <1>2, PTL DEF Spec

\* transaction() and close(), with an error of SQLite at any statement of any
\* task: a transaction is open only while the one call that began it runs, and
\* just as long unless such an error has ended it; the flag is set no longer,
\* unless a BEGIN has failed.
THEOREM OwnedTransactions == Spec => []TransactionsAreOwned
<1>1. StorageInv => TransactionsAreOwned
  <2> SUFFICES ASSUME StorageInv PROVE TransactionsAreOwned
    OBVIOUS
  <2>1. TypeOK
    <3>1. writes \in 0..MaxWrites /\ MaxWrites \in Nat
      BY StorageConstants DEF StorageInv, TypeInv
    <3>2. 1..writes \subseteq 1..MaxWrites /\ 1..writes \subseteq 0..MaxWrites
      BY <3>1
    <3> QED
      BY <3>1, <3>2 DEF StorageInv, TypeInv, TypeOK, Table
  <2>2. TransactionIsOwn
    BY DEF StorageInv, CallInv, CallHasFlag, CallbackHolds, TransactionIsOwn,
           TasksOf
  <2> QED
    BY <2>1, <2>2 DEF StorageInv, CallInv, TransactionsAreOwned
<1> QED
  BY <1>1, StorageKeeps, PTL

\* The catch block of transaction(): nothing that was written in the
\* transaction of a call that failed, was closed or crashed, by its callback or
\* by plain statements of other tasks, is ever in the committed table, though
\* other calls of the adapter and of other processes go on meanwhile.  What a
\* callback writes after an error has ended its transaction is not meant.
THEOREM FailureLeavesNothing == Spec => []FailedLeavesNothing
<1>1. StorageInv => FailedLeavesNothing
  BY StorageConstants
     DEF StorageInv, TypeInv, TokenInv, FailedLeavesNothing, Tokens
<1> QED
  BY <1>1, StorageKeeps, PTL

-----------------------------------------------------------------------------
(* ElectronBridge: the calls of the windows.                                *)

Results ==
  SyncState \cup {"none", "disposed", "result", "error", "noHandler", "null",
                  "ok", "invalid", "failed"}

MadeCall ==
  [stage: {"sent", "running", "answered", "done"}, channel: Channel,
   result: Results]

BridgeTypes ==
  /\ bridge \in {"none", "live", "disposed"}
  /\ handlers \in [Channel -> Handler]
  /\ engineState \in SyncState
  /\ cycles \subseteq Call
  /\ calls \in [Call -> MadeCall \cup {Made}]
  /\ ran \subseteq Call /\ custom \subseteq Call

\* The handlers createIPCHandler registers live no longer than the bridge.
HandlersWithBridge ==
  bridge # "live" => \A ch \in Channel : handlers[ch] # "engine"

\* A cycle and the call it is run for end together.
CycleHasCall ==
  \A i \in Call :
    /\ i \in cycles <=> calls[i].stage = "running"
    /\ calls[i].stage = "running" => calls[i].channel \in CycleChannel

\* What became of the cycle of a call is what the call is told; one that the
\* application answered has had none.
ToldWhatRan ==
  \A i \in Call :
    /\ calls[i].stage \in {"unused", "sent", "running"} =>
         i \notin ran /\ i \notin custom
    /\ i \in custom => i \notin ran
    /\ i \notin custom /\ calls[i].channel \in CycleChannel =>
         /\ calls[i].stage = "answered" => (calls[i].result = "result" <=> i \in ran)
         /\ calls[i].stage = "done" => (calls[i].result = "ok" <=> i \in ran)

BridgeInv ==
  BridgeTypes /\ HandlersWithBridge /\ CycleHasCall /\ ToldWhatRan

-----------------------------------------------------------------------------
LEMMA MadeIsNoCall == Made.stage = "unused" /\ Made \notin MadeCall
<1>1. Made.stage = "unused"
  BY DEF Made
<1>2. \A c \in MadeCall : c.stage # "unused"
  BY DEF MadeCall
<1> QED
  BY <1>1, <1>2

LEMMA BridgeStarts == BridgeInit => BridgeInv
<1> SUFFICES ASSUME BridgeInit PROVE BridgeInv
  OBVIOUS
<1>1. \A i \in Call : calls[i] = Made /\ calls[i].stage = "unused"
  BY MadeIsNoCall DEF BridgeInit
<1> QED
  BY <1>1
     DEF BridgeInit, BridgeInv, BridgeTypes, HandlersWithBridge, CycleHasCall,
         ToldWhatRan, Handler, SyncState

\* Changing stage and result of a call, field by field.
LEMMA TwoFields ==
  ASSUME NEW c \in MadeCall, NEW stage, NEW result
  PROVE  [c EXCEPT !.stage = stage, !.result = result]
           = [stage |-> stage, channel |-> c.channel, result |-> result]
<1>1. PICK st, ch, re : c = [stage |-> st, channel |-> ch, result |-> re]
  BY DEF MadeCall
<1>2. [c EXCEPT !.stage = stage]
        = [stage |-> stage, channel |-> ch, result |-> re]
  BY <1>1
<1>3. [[stage |-> stage, channel |-> ch, result |-> re] EXCEPT !.result = result]
        = [stage |-> stage, channel |-> ch, result |-> result]
  OBVIOUS
<1>4. [c EXCEPT !.stage = stage, !.result = result]
        = [stage |-> stage, channel |-> ch, result |-> result]
  BY <1>2, <1>3
<1> QED
  BY <1>1, <1>4

\* Answering changes one call, and neither its channel nor another call.
LEMMA ReplyEffect ==
  ASSUME BridgeTypes, NEW i \in Call, calls[i].stage # "unused",
         NEW reply \in Results, Reply(i, reply)
  PROVE  /\ calls' \in [Call -> MadeCall \cup {Made}]
         /\ \A j \in Call : j # i => calls'[j] = calls[j]
         /\ calls'[i].stage = "answered" /\ calls'[i].result = reply
         /\ calls'[i].channel = calls[i].channel
<1> DEFINE c == [stage |-> "answered", channel |-> calls[i].channel,
                 result |-> reply]
<1>1. calls[i] \in MadeCall
  BY MadeIsNoCall DEF BridgeTypes
<1>2. [calls[i] EXCEPT !.stage = "answered", !.result = reply] = c
  BY <1>1, TwoFields
<1>3. calls' = [calls EXCEPT ![i] = c]
  BY <1>2 DEF Reply
<1>4. c \in MadeCall
  BY <1>1 DEF MadeCall
<1> QED
  BY <1>3, <1>4 DEF BridgeTypes

\* The answers that have nothing to do with a cycle.
LEMMA AnswerStep ==
  ASSUME BridgeInv, NEW i \in Call, AtMain(i),
         NEW reply \in Results, Reply(i, reply),
         \/ reply # "result" /\ custom' = custom
         \/ custom' = custom \cup {i},
         UNCHANGED <<main, engine>>
  PROVE  BridgeInv'
<1>1. /\ calls' \in [Call -> MadeCall \cup {Made}]
      /\ \A j \in Call : j # i => calls'[j] = calls[j]
      /\ calls'[i].stage = "answered" /\ calls'[i].result = reply
      /\ i \notin ran /\ i \notin cycles
  BY ReplyEffect DEF AtMain, BridgeInv, CycleHasCall, ToldWhatRan
<1>2. BridgeTypes' /\ HandlersWithBridge'
  BY <1>1 DEF main, engine, BridgeInv, BridgeTypes, HandlersWithBridge
<1>3. CycleHasCall'
  BY <1>1 DEF engine, BridgeInv, CycleHasCall
<1>4. ToldWhatRan'
  BY <1>1 DEF engine, BridgeInv, ToldWhatRan
<1> QED
  BY <1>2, <1>3, <1>4 DEF BridgeInv

LEMMA StartCycleStep ==
  ASSUME BridgeInv, NEW i \in Call, StartCycle(i) PROVE BridgeInv'
<1> DEFINE c == [calls[i] EXCEPT !.stage = "running"]
<1>1. calls[i] \in MadeCall
  BY MadeIsNoCall DEF StartCycle, AtMain, BridgeInv, BridgeTypes
<1>2. /\ c \in MadeCall /\ c.stage = "running" /\ c.channel \in CycleChannel
      /\ calls' = [calls EXCEPT ![i] = c]
  BY <1>1 DEF StartCycle, MadeCall
<1>3. i \notin ran /\ i \notin custom
  BY DEF StartCycle, AtMain, BridgeInv, ToldWhatRan
<1> HIDE DEF c
<1>4. BridgeTypes' /\ HandlersWithBridge'
  BY <1>2 DEF StartCycle, main, BridgeInv, BridgeTypes, HandlersWithBridge, SyncState
<1>5. CycleHasCall'
  BY <1>2 DEF StartCycle, BridgeInv, BridgeTypes, CycleHasCall
<1>6. ToldWhatRan'
  BY <1>2, <1>3 DEF StartCycle, BridgeInv, BridgeTypes, ToldWhatRan
<1> QED
  BY <1>4, <1>5, <1>6 DEF BridgeInv

\* The cycle of another call may end meanwhile; this one's answer is its own.
LEMMA EndCycleStep ==
  ASSUME BridgeInv, NEW i \in Call, EndCycle(i) PROVE BridgeInv'
<1>1. /\ calls[i].stage = "running" /\ calls[i].channel \in CycleChannel
      /\ i \notin ran /\ i \notin custom
  BY DEF EndCycle, BridgeInv, CycleHasCall, ToldWhatRan
<1>2. PICK reply \in {"result", "error"} :
        /\ Reply(i, reply)
        /\ cycles' = cycles \ {i}
        /\ ran' = IF reply = "result" THEN ran \cup {i} ELSE ran
        /\ engineState' \in SyncState
        /\ UNCHANGED <<main, custom>>
  BY DEF EndCycle, BridgeInv, BridgeTypes, SyncState
<1>3. reply \in Results
  BY DEF Results
<1>4. /\ calls' \in [Call -> MadeCall \cup {Made}]
      /\ \A j \in Call : j # i => calls'[j] = calls[j]
      /\ calls'[i].stage = "answered" /\ calls'[i].result = reply
      /\ calls'[i].channel \in CycleChannel
  BY <1>1, <1>2, <1>3, ReplyEffect DEF BridgeInv
<1>5. BridgeTypes' /\ HandlersWithBridge'
  BY <1>2, <1>4 DEF main, BridgeInv, BridgeTypes, HandlersWithBridge
<1>6. CycleHasCall'
  BY <1>2, <1>4 DEF BridgeInv, CycleHasCall
<1>7. ToldWhatRan'
  BY <1>1, <1>2, <1>4 DEF BridgeInv, ToldWhatRan
<1> QED
  BY <1>5, <1>6, <1>7 DEF BridgeInv

LEMMA InvokeStep ==
  ASSUME BridgeInv, NEW r \in Renderer, NEW i \in Call, NEW ch \in Channel,
         Invoke(r, i, ch)
  PROVE  BridgeInv'
<1>1. PICK c \in {[stage |-> "done", channel |-> ch, result |-> "disposed"],
                  [stage |-> "sent", channel |-> ch, result |-> "none"]} :
        calls' = [calls EXCEPT ![i] = c]
  BY DEF Invoke
<1>2. c \in MadeCall /\ c.stage \in {"done", "sent"} /\ c.result # "ok"
  BY DEF MadeCall, Results
<1>3. calls[i].stage = "unused"
  BY MadeIsNoCall DEF Invoke
<1>4. i \notin ran /\ i \notin cycles /\ i \notin custom
  BY <1>3 DEF BridgeInv, CycleHasCall, ToldWhatRan
<1>5. BridgeTypes' /\ HandlersWithBridge'
  BY <1>1, <1>2
     DEF Invoke, main, engine, BridgeInv, BridgeTypes, HandlersWithBridge
<1>6. CycleHasCall'
  BY <1>1, <1>2, <1>4 DEF Invoke, engine, BridgeInv, BridgeTypes, CycleHasCall
<1>7. ToldWhatRan'
  BY <1>1, <1>2, <1>4 DEF Invoke, engine, BridgeInv, BridgeTypes, ToldWhatRan
<1> QED
  BY <1>5, <1>6, <1>7 DEF BridgeInv

\* Checking and converting the reply keeps what it says of the cycle.
LEMMA ReceiveReplyStep ==
  ASSUME BridgeInv, NEW i \in Call, ReceiveReply(i) PROVE BridgeInv'
<1> DEFINE o == OutcomeOf(calls[i])
           c == [stage |-> "done", channel |-> calls[i].channel, result |-> o]
<1>1. calls[i] \in MadeCall /\ calls[i].stage = "answered"
  BY MadeIsNoCall DEF ReceiveReply, BridgeInv, BridgeTypes
<1>2. /\ o \in {"failed", "ok", "invalid"}
      /\ calls[i].channel \in CycleChannel =>
           (o = "ok" <=> calls[i].result = "result")
  BY <1>1 DEF OutcomeOf, MadeCall, Channel, CycleChannel
<1>3. [calls[i] EXCEPT !.stage = "done", !.result = o] = c
  BY <1>1, TwoFields
<1>4. calls' = [calls EXCEPT ![i] = c]
  BY <1>3 DEF ReceiveReply
<1>5. /\ c \in MadeCall /\ c.stage = "done" /\ c.result = o
      /\ c.channel = calls[i].channel
  BY <1>1, <1>2 DEF MadeCall, Results
<1> HIDE DEF c, o
<1>6. BridgeTypes' /\ HandlersWithBridge'
  BY <1>4, <1>5
     DEF ReceiveReply, main, engine, BridgeInv, BridgeTypes, HandlersWithBridge
<1>7. CycleHasCall'
  BY <1>1, <1>4, <1>5
     DEF ReceiveReply, engine, BridgeInv, BridgeTypes, CycleHasCall
<1>8. ToldWhatRan'
  BY <1>1, <1>2, <1>4, <1>5
     DEF ReceiveReply, engine, BridgeInv, BridgeTypes, ToldWhatRan
<1> QED
  BY <1>6, <1>7, <1>8 DEF BridgeInv

\* The registration, and clients that come and go, leave every call alone.
LEMMA RegistrationStep ==
  ASSUME BridgeInv,
         \/ CreateIPCHandler \/ DisposeRegistration
         \/ \E ch \in Channel : RegisterHandler(ch) \/ RemoveHandler(ch)
         \/ \E r \in Renderer :
              CreateClient(r) \/ DisposeClient(r) \/ CloseWindow(r)
         \/ UNCHANGED bridgeVars
  PROVE  BridgeInv'
<1>1. UNCHANGED <<engineState, cycles, calls, ran, custom>>
  BY DEF CreateIPCHandler, DisposeRegistration, RegisterHandler, RemoveHandler,
         CreateClient, DisposeClient, CloseWindow, engine, bridgeVars
<1>2. /\ bridge' \in {"none", "live", "disposed"}
      /\ handlers' \in [Channel -> Handler]
      /\ HandlersWithBridge'
  BY DEF CreateIPCHandler, DisposeRegistration, RegisterHandler, RemoveHandler,
         CreateClient, DisposeClient, CloseWindow, main, bridgeVars, BridgeInv,
         BridgeTypes, HandlersWithBridge, Handler
<1> QED
  BY <1>1, <1>2 DEF BridgeInv, BridgeTypes, CycleHasCall, ToldWhatRan

LEMMA BridgeStep == ASSUME BridgeInv, [BridgeNext]_bridgeVars PROVE BridgeInv'
<1>1. ASSUME NEW i \in Call, MainStep(i) PROVE BridgeInv'
  <2>1. CASE Unhandled(i)
    BY <2>1, AnswerStep DEF Unhandled, Results
  <2>2. CASE AnswerState(i)
    <3>1. engineState \in Results /\ engineState # "result"
      BY DEF BridgeInv, BridgeTypes, Results, SyncState
    <3> QED
      BY <2>2, <3>1, AnswerStep DEF AnswerState
  <2>3. CASE AnswerCustom(i)
    <3>1. PICK reply \in {"result", "SYNCED", "null", "error"} : Reply(i, reply)
      BY <2>3 DEF AnswerCustom
    <3>2. reply \in Results
      BY DEF Results, SyncState
    <3> QED
      BY <2>3, <3>1, <3>2, AnswerStep DEF AnswerCustom
  <2> QED
    BY <1>1, <2>1, <2>2, <2>3, StartCycleStep, EndCycleStep DEF MainStep
<1> QED
  BY <1>1, ReceiveReplyStep, InvokeStep, RegistrationStep DEF BridgeNext

LEMMA BridgeKeeps == BridgeSpec => []BridgeInv
<1>1. BridgeInit => BridgeInv
  BY BridgeStarts
<1>2. BridgeInv /\ [BridgeNext]_bridgeVars => BridgeInv'
  BY BridgeStep
<1> QED
  BY <1>1, <1>2, PTL DEF BridgeSpec

\* The handlers of sync and forceSnapshot: a call resolves with a result just if
\* the cycle that was run for it has completed, however many windows call at
\* once, unless a handler of the application answers it, and then none was run.
THEOREM EveryCallItsAnswer == BridgeSpec => []AnsweredByEngine
<1>1. BridgeInv => AnsweredByEngine
  BY DEF BridgeInv, ToldWhatRan, AnsweredByEngine
<1> QED
  BY <1>1, BridgeKeeps, PTL

\* ElectronSyncBridge.dispose(): no cycle is started from then on.
THEOREM NothingStartsDisposed == BridgeSpec => DisposedStartsNothing
<1>1. ASSUME BridgeInv, [BridgeNext]_bridgeVars
      PROVE  [\A i \in cycles' \ cycles : bridge = "live"]_bridgeVars
  <2>1. ASSUME NEW i \in Call, StartCycle(i) PROVE bridge = "live"
    BY <1>1, <2>1
       DEF StartCycle, HandlerFor, CycleChannel, Channel, BridgeInv,
           HandlersWithBridge
  <2>2. CASE cycles' \subseteq cycles
    BY <2>2
  <2>3. (\E i \in Call : StartCycle(i)) \/ cycles' \subseteq cycles
    BY <1>1
       DEF BridgeNext, MainStep, Unhandled, AnswerState, AnswerCustom, EndCycle,
           ReceiveReply, Invoke, CreateIPCHandler, DisposeRegistration,
           RegisterHandler, RemoveHandler, CreateClient, DisposeClient,
           CloseWindow, engine, bridgeVars
  <2> QED
    BY <2>1, <2>2, <2>3
<1> QED
  BY <1>1, BridgeKeeps, PTL DEF BridgeSpec, DisposedStartsNothing

-----------------------------------------------------------------------------
(* CollectionViews: what a view shows, and the listeners it leaves behind.  *)

\* What can be found in the store for some of the entities.
Found == UNION {[ids -> Nat] : ids \in SUBSET Id}

ShownState ==
  [shown: Found, isLoading: BOOLEAN, error: BOOLEAN, syncState: SyncStates]

MadeController ==
  [view: View \cup {"none"}, live: BOOLEAN, state: ShownState]

MadeView ==
  [stage: {"absent", "rendered", "mounted"},
   current: Controller \cup {NoController},
   old: Controller \cup {NoController}, state: ShownState]

ViewTypes ==
  /\ kind \in [View -> Kind]
  /\ store \in [Id -> Nat]
  /\ announced \in [Id -> Nat]
  /\ syncState \in SyncStates
  /\ listeners \in Seq(Controller)
  /\ controller \in [Controller -> MadeController]
  /\ reads \in Seq([controller: Controller, found: Found])
  /\ view \in [View -> MadeView]

\* The controllers that are not disposed of are those of the views, each of
\* one view.
LiveIsOwned ==
  /\ \A v \in View : \A c \in Owned(v) :
       controller[c].live /\ controller[c].view = v
  /\ \A c \in Controller : controller[c].live =>
       \E v \in View : controller[c].view = v /\ c \in Owned(v)

\* Each of them has one listener, and there is no other.
ListenerOfEach ==
  /\ \A p \in DOMAIN listeners : controller[listeners[p]].live
  /\ \A c \in Controller : controller[c].live =>
       \E p \in DOMAIN listeners : listeners[p] = c
  /\ \A p, q \in DOMAIN listeners : p # q => listeners[p] # listeners[q]

\* The controller of a former rendering waits for the effects only, and is
\* notified before the one that takes its place.
OldIsPassed ==
  \A v \in View :
    /\ view[v].stage = "absent" => view[v] = Absent
    /\ view[v].stage = "mounted" => view[v].old = NoController
    /\ view[v].old # NoController => view[v].old # view[v].current
    /\ \A p, q \in DOMAIN listeners :
         (listeners[p] = view[v].old /\ listeners[q] = view[v].current)
           => p < q

GoneInv == ViewTypes /\ LiveIsOwned /\ ListenerOfEach /\ OldIsPassed

LEMMA NothingIsFound == ASSUME NEW ids \in SUBSET Id
  PROVE  Nothing(ids) \in Found /\ DOMAIN Nothing(ids) = ids
  BY DEF Nothing, Found

LEMMA InitialIsShown == ASSUME NEW ids \in SUBSET Id
  PROVE  /\ InitialState(ids) \in ShownState
         /\ DOMAIN InitialState(ids).shown = ids
  BY NothingIsFound DEF InitialState, ShownState, SyncStates

LEMMA LoadingIsShown == ASSUME NEW s \in ShownState
  PROVE  /\ Loading(s) \in ShownState
         /\ DOMAIN Loading(s).shown = DOMAIN s.shown
  BY DEF Loading, ShownState

LEMMA FoundHasIds == ASSUME NEW f \in Found
  PROVE  DOMAIN f \in SUBSET Id
  BY DEF Found

LEMMA ReadIsFound ==
  ASSUME ViewTypes, NEW c \in Controller, NEW ids \in SUBSET Id
  PROVE  /\ ReadOf(c, ids) \in [controller: Controller, found: Found]
         /\ ReadOf(c, ids).controller = c
         /\ DOMAIN ReadOf(c, ids).found = ids
         /\ \A i \in ids : ReadOf(c, ids).found[i] = store[i]
<1>1. [i \in ids |-> store[i]] \in [ids -> Nat]
  BY DEF ViewTypes
<1>2. [i \in ids |-> store[i]] \in Found
  BY <1>1 DEF Found
<1>3. QED
  BY <1>2 DEF ReadOf

LEMMA IdsOfAreIds == ASSUME ViewTypes, NEW c \in Controller
  PROVE  IdsOf(c) \in SUBSET Id
<1>1. controller[c].state.shown \in Found
  BY DEF ViewTypes, MadeController, ShownState
<1>2. QED
  BY <1>1, FoundHasIds DEF IdsOf

\* filter() keeps the order, and whom it keeps.
LEMMA FilteredListeners ==
  ASSUME listeners \in Seq(Controller), NEW C, NEW S \in ListenersIn(C)
  PROVE  /\ S \in Seq(Controller)
         /\ \A k \in DOMAIN S : S[k] \in C
         /\ \A k \in DOMAIN S : \E p \in DOMAIN listeners : S[k] = listeners[p]
         /\ \A p \in DOMAIN listeners : listeners[p] \in C =>
              \E k \in DOMAIN S : S[k] = listeners[p]
         /\ \A j, k \in DOMAIN S : j < k =>
              \E p, q \in DOMAIN listeners :
                p < q /\ S[j] = listeners[p] /\ S[k] = listeners[q]
<1> DEFINE I == {p \in DOMAIN listeners : listeners[p] \in C}
<1>1. PICK f \in Listings(I) : S = [k \in DOMAIN f |-> listeners[f[k]]]
  BY DEF ListenersIn
<1>2. PICK n \in 0..Len(listeners) : f \in [1..n -> I]
  BY <1>1 DEF Listings
<1>3. /\ \A j, k \in DOMAIN f : j < k => f[j] < f[k]
      /\ \A p \in I : \E k \in DOMAIN f : f[k] = p
  BY <1>1 DEF Listings
<1>4. DOMAIN f = 1..n /\ n \in Nat /\ DOMAIN S = 1..n
  BY <1>1, <1>2
<1>5. \A k \in 1..n : f[k] \in I /\ S[k] = listeners[f[k]]
  BY <1>1, <1>2, <1>4
<1>6. \A p \in I : listeners[p] \in Controller
  OBVIOUS
<1>7. S \in Seq(Controller)
  BY <1>1, <1>4, <1>5, <1>6
<1>8. QED
  BY <1>3, <1>4, <1>5, <1>7

LEMMA FilteredOnce ==
  ASSUME listeners \in Seq(Controller), ListenerOfEach, NEW C,
         NEW S \in ListenersIn(C), NEW j \in DOMAIN S, NEW k \in DOMAIN S,
         j # k
  PROVE  S[j] # S[k]
<1>1. S \in Seq(Controller)
  BY FilteredListeners
<1>2. j < k \/ k < j
  BY <1>1
<1>3. \E p, q \in DOMAIN listeners :
        p # q /\ S[j] = listeners[p] /\ S[k] = listeners[q]
  BY <1>2, FilteredListeners
<1>4. QED
  BY <1>3 DEF ListenerOfEach


\* The controllers that announcements reach are the live ones.
LEMMA AskedAreLive == ASSUME GoneInv, NEW S \in ListenersIn(Asked)
  PROVE  /\ S \in Seq(Controller)
         /\ \A k \in DOMAIN S : controller[S[k]].live
         /\ \A c \in Controller : controller[c].live =>
              \E k \in DOMAIN S : S[k] = c
         /\ \A j, k \in DOMAIN S : j # k => S[j] # S[k]
<1>1. listeners \in Seq(Controller) /\ ListenerOfEach
  BY DEF GoneInv, ViewTypes
<1>2. S \in Seq(Controller) /\ \A k \in DOMAIN S : S[k] \in Asked
  BY <1>1, FilteredListeners
<1>3. \A j, k \in DOMAIN S : j # k => S[j] # S[k]
  BY <1>1, FilteredOnce
<1>4. ASSUME NEW c \in Controller, controller[c].live
      PROVE  \E k \in DOMAIN S : S[k] = c
  <2>1. PICK p \in DOMAIN listeners : listeners[p] = c
    BY <1>1, <1>4 DEF ListenerOfEach
  <2>2. listeners[p] \in Asked
    BY <1>4, <2>1 DEF Asked
  <2>3. QED
    BY <1>1, <2>1, <2>2, FilteredListeners
<1>5. QED
  BY <1>2, <1>3, <1>4 DEF Asked

LEMMA OldIsAskedFirst ==
  ASSUME GoneInv, NEW S \in ListenersIn(Asked), NEW v \in View,
         NEW j \in DOMAIN S, NEW k \in DOMAIN S,
         S[j] = view[v].old, S[k] = view[v].current
  PROVE  j < k
<1>1. S \in Seq(Controller) /\ listeners \in Seq(Controller)
  BY AskedAreLive DEF GoneInv, ViewTypes
<1>2. S[j] # S[k]
  <2>1. S[j] # NoController
    BY <1>1, ViewConstants
  <2>2. QED
    BY <2>1 DEF GoneInv, OldIsPassed
<1>a. j # k /\ j \in Nat /\ k \in Nat
  BY <1>1, <1>2
<1>3. SUFFICES ASSUME k < j PROVE FALSE
  BY <1>a
<1>b. \A a, b \in DOMAIN S : a < b =>
        \E p, q \in DOMAIN listeners :
          p < q /\ S[a] = listeners[p] /\ S[b] = listeners[q]
  BY <1>1, FilteredListeners
<1>4. PICK p \in DOMAIN listeners, q \in DOMAIN listeners :
        p < q /\ S[k] = listeners[p] /\ S[j] = listeners[q]
  BY <1>3, <1>b
<1>5. q < p
  BY <1>4 DEF GoneInv, OldIsPassed
<1>6. p \in Nat /\ q \in Nat
  BY <1>1
<1>7. QED
  BY <1>4, <1>5, <1>6

\* The last to notify a view is its current controller, if it has one.
LEMMA NotifiedIsOwned ==
  ASSUME GoneInv, NEW S \in ListenersIn(Asked), NEW v \in View
  PROVE  /\ Owned(v) = {} => Notified(S, v) = NoController
         /\ Owned(v) # {} => Notified(S, v) \in Owned(v)
         /\ view[v].current # NoController => Notified(S, v) = view[v].current
<1>1. S \in Seq(Controller)
  BY AskedAreLive
<1>2. \A k \in DOMAIN S : controller[S[k]].view = v <=> S[k] \in Owned(v)
  <2>1. TAKE k \in DOMAIN S
  <2>2. controller[S[k]].live /\ S[k] \in Controller
    BY <1>1, AskedAreLive
  <2>3. QED
    BY <2>2 DEF GoneInv, LiveIsOwned
<1>3. \A c \in Owned(v) : \E k \in DOMAIN S : S[k] = c
  <2>1. TAKE c \in Owned(v)
  <2>2. c \in Controller /\ controller[c].live
    BY DEF GoneInv, LiveIsOwned, ViewTypes, MadeView, Owned
  <2>3. QED
    BY <2>2, AskedAreLive
<1>4. \A j, k \in DOMAIN S : j # k => S[j] # S[k]
  BY AskedAreLive
<1>5. CASE Owned(v) = {}
  <2>1. \A k \in DOMAIN S : controller[S[k]].view # v
    BY <1>2, <1>5
  <2>2. view[v].current = NoController
    BY <1>5 DEF Owned
  <2>3. QED
    BY <1>5, <2>1, <2>2 DEF Notified
<1>6. CASE Owned(v) # {}
  <2>1. \E k \in DOMAIN S : /\ IsLastFor(v, S, k)
                            /\ view[v].current # NoController =>
                                 S[k] = view[v].current
    <3>1. CASE view[v].current # NoController
      <4>1. PICK k \in DOMAIN S : S[k] = view[v].current
        BY <1>3, <3>1 DEF Owned
      <4>2. ASSUME NEW j \in DOMAIN S, j > k, controller[S[j]].view = v
            PROVE  FALSE
        <5>1. S[j] \in Owned(v) /\ S[j] # S[k]
          BY <1>1, <1>2, <1>4, <4>2
        <5>2. S[j] = view[v].old
          BY <4>1, <5>1 DEF Owned
        <5>3. j < k
          BY <4>1, <5>2, OldIsAskedFirst
        <5>4. QED
          BY <1>1, <4>2, <5>3
      <4>3. controller[S[k]].view = v
        BY <1>2, <3>1, <4>1 DEF Owned
      <4>4. QED
        BY <4>1, <4>2, <4>3 DEF IsLastFor
    <3>2. CASE view[v].current = NoController
      <4>1. Owned(v) = {view[v].old}
        BY <1>6, <3>2 DEF Owned
      <4>2. PICK k \in DOMAIN S : S[k] = view[v].old
        BY <1>3, <4>1
      <4>3. \A j \in DOMAIN S : j > k => controller[S[j]].view # v
        BY <1>1, <1>2, <1>4, <4>1, <4>2
      <4>4. controller[S[k]].view = v
        BY <1>2, <4>1, <4>2
      <4>5. QED
        BY <3>2, <4>2, <4>3, <4>4 DEF IsLastFor
    <3>3. QED
      BY <3>1, <3>2
  <2>2. \A j, k \in DOMAIN S :
          IsLastFor(v, S, j) /\ IsLastFor(v, S, k) => j = k
    <3>1. TAKE j, k \in DOMAIN S
    <3>2. j \in Nat /\ k \in Nat
      BY <1>1
    <3>3. QED
      BY <3>2 DEF IsLastFor
  <2> DEFINE l == CHOOSE k \in DOMAIN S : IsLastFor(v, S, k)
  <2>3. l \in DOMAIN S /\ IsLastFor(v, S, l)
    BY <2>1
  <2>4. view[v].current # NoController => S[l] = view[v].current
    BY <2>1, <2>2, <2>3
  <2>5. S[l] \in Owned(v)
    BY <1>2, <2>3 DEF IsLastFor
  <2>6. ~ \A k \in DOMAIN S : controller[S[k]].view # v
    BY <2>3 DEF IsLastFor
  <2>7. Notified(S, v) = S[l]
    BY <2>6 DEF Notified
  <2>8. QED
    BY <1>6, <2>4, <2>5, <2>7
<1>7. QED
  BY <1>5, <1>6


\* What an announcement leaves: its listeners load, and have read.
LEMMA AnnounceDoes ==
  ASSUME GoneInv, Announce
  PROVE  /\ kind' = kind /\ listeners' = listeners
         /\ \A c \in Controller :
              controller'[c] =
                IF controller[c].live
                  THEN [controller[c] EXCEPT !.state = Loading(@)]
                  ELSE controller[c]
         /\ controller' \in [Controller -> MadeController]
         /\ \E S \in ListenersIn(Asked) :
              /\ reads' = reads \o [k \in DOMAIN S |-> ReadOf(S[k], IdsOf(S[k]))]
              /\ view' = [v \in View |->
                   LET c == Notified(S, v)
                   IN IF c = NoController THEN view[v]
                      ELSE [view[v] EXCEPT !.state = controller'[c].state]]
<1>1. PICK S \in ListenersIn(Asked) :
        /\ controller' = [c \in Controller |->
             IF c \in ToSet(S) THEN [controller[c] EXCEPT !.state = Loading(@)]
                               ELSE controller[c]]
        /\ reads' = reads \o [k \in DOMAIN S |-> ReadOf(S[k], IdsOf(S[k]))]
        /\ view' = [v \in View |->
             LET c == Notified(S, v)
             IN IF c = NoController THEN view[v]
                ELSE [view[v] EXCEPT !.state = controller'[c].state]]
  BY DEF Announce
<1>2. \A c \in Controller : c \in ToSet(S) <=> controller[c].live
  BY AskedAreLive DEF ToSet
<1>3. \A c \in Controller :
        controller'[c] =
          IF controller[c].live
            THEN [controller[c] EXCEPT !.state = Loading(@)]
            ELSE controller[c]
  BY <1>1, <1>2
<1>4. ASSUME NEW c \in Controller PROVE controller'[c] \in MadeController
  <2>1. controller[c] \in MadeController
    BY DEF GoneInv, ViewTypes
  <2>2. Loading(controller[c].state) \in ShownState
    BY <2>1, LoadingIsShown DEF MadeController
  <2>3. QED
    BY <1>3, <2>1, <2>2 DEF MadeController
<1>5. controller' \in [Controller -> MadeController]
  BY <1>1, <1>4
<1>6. kind' = kind /\ listeners' = listeners
  BY DEF Announce
<1>7. QED
  BY <1>1, <1>3, <1>5, <1>6

LEMMA Joined == ASSUME NEW T, NEW s \in Seq(T), NEW r \in Seq(T)
  PROVE  /\ s \o r \in Seq(T) /\ Len(s \o r) = Len(s) + Len(r)
         /\ DOMAIN (s \o r) = 1..(Len(s) + Len(r))
         /\ DOMAIN s = 1..Len(s) /\ Len(s) \in Nat
         /\ DOMAIN r = 1..Len(r) /\ Len(r) \in Nat
         /\ \A k \in DOMAIN s : (s \o r)[k] = s[k]
         /\ \A k \in DOMAIN r : (s \o r)[Len(s) + k] = r[k]
  OBVIOUS

\* The reads of an announcement come after the ones under way.
LEMMA AnnouncedReads ==
  ASSUME GoneInv, NEW S \in ListenersIn(Asked),
         reads' = reads \o [k \in DOMAIN S |-> ReadOf(S[k], IdsOf(S[k]))]
  PROVE  /\ reads' \in Seq([controller: Controller, found: Found])
         /\ Len(reads') = Len(reads) + Len(S)
         /\ \A k \in DOMAIN reads : reads'[k] = reads[k]
         /\ \A k \in DOMAIN S :
              /\ Len(reads) + k \in DOMAIN reads'
              /\ reads'[Len(reads) + k] = ReadOf(S[k], IdsOf(S[k]))
         /\ \A n \in DOMAIN reads' : n \in DOMAIN reads \/
              \E k \in DOMAIN S : n = Len(reads) + k
<1> DEFINE R == [k \in DOMAIN S |-> ReadOf(S[k], IdsOf(S[k]))]
           Reading == [controller: Controller, found: Found]
<1>1. S \in Seq(Controller)
  BY AskedAreLive
<1>2. \A k \in DOMAIN S : R[k] \in Reading
  <2>1. TAKE k \in DOMAIN S
  <2>2. S[k] \in Controller /\ ViewTypes
    BY <1>1 DEF GoneInv
  <2>3. IdsOf(S[k]) \in SUBSET Id
    BY <2>2, IdsOfAreIds
  <2>4. QED
    BY <2>2, <2>3, ReadIsFound
<1>3. DOMAIN R = 1..Len(S) /\ Len(S) \in Nat
  BY <1>1
<1>4. R \in Seq(Reading) /\ Len(R) = Len(S)
  BY <1>2, <1>3
<1>5. \A k \in DOMAIN S : R[k] = ReadOf(S[k], IdsOf(S[k]))
  OBVIOUS
<1>6. reads' = reads \o R
  OBVIOUS
<1>7. reads \in Seq(Reading)
  BY DEF GoneInv, ViewTypes
<1> HIDE DEF R, Reading
<1>8. /\ reads' \in Seq(Reading)
      /\ Len(reads') = Len(reads) + Len(S)
      /\ DOMAIN reads' = 1..(Len(reads) + Len(S))
      /\ DOMAIN reads = 1..Len(reads) /\ Len(reads) \in Nat
      /\ DOMAIN S = 1..Len(S)
      /\ \A k \in DOMAIN reads : reads'[k] = reads[k]
      /\ \A k \in DOMAIN S : reads'[Len(reads) + k] = R[k]
  <2>1. DOMAIN R = DOMAIN S
    BY <1>1, <1>3
  <2>2. reads \o R \in Seq(Reading)
    BY <1>4, <1>7
  <2>3. Len(reads \o R) = Len(reads) + Len(R)
    BY <1>3, <1>4, <1>7, Joined
  <2>4. DOMAIN (reads \o R) = 1..(Len(reads) + Len(R))
    BY <1>4, <1>7, <2>2, <2>3
  <2>5. /\ DOMAIN reads = 1..Len(reads) /\ Len(reads) \in Nat
        /\ DOMAIN S = 1..Len(S)
    BY <1>1, <1>7
  <2>6. \A k \in DOMAIN reads : (reads \o R)[k] = reads[k]
    BY <1>4, <1>7, Joined
  <2>7. \A k \in DOMAIN R : (reads \o R)[Len(reads) + k] = R[k]
    BY <1>4, <1>7, Joined
  <2>8. QED
    BY <1>4, <1>6, <2>1, <2>2, <2>3, <2>4, <2>5, <2>6, <2>7
<1>9. \A n \in DOMAIN reads' : n \in DOMAIN reads \/
              \E k \in DOMAIN S : n = Len(reads) + k
  <2>1. TAKE n \in DOMAIN reads'
  <2>2. CASE n > Len(reads)
    <3>1. n - Len(reads) \in DOMAIN S /\ n = Len(reads) + (n - Len(reads))
      BY <1>3, <1>8, <2>2
    <3>2. QED
      BY <3>1
  <2>3. CASE ~(n > Len(reads))
    BY <1>8, <2>3
  <2>4. QED
    BY <2>2, <2>3
<1>10. \A k \in DOMAIN S : Len(reads) + k \in DOMAIN reads'
  BY <1>3, <1>8
<1>11. QED
  BY <1>5, <1>8, <1>9, <1>10 DEF Reading

LEMMA AnnouncedViews ==
  ASSUME GoneInv, NEW S \in ListenersIn(Asked),
         controller' \in [Controller -> MadeController],
         view' = [v \in View |->
           LET c == Notified(S, v)
           IN IF c = NoController THEN view[v]
              ELSE [view[v] EXCEPT !.state = controller'[c].state]]
  PROVE  /\ view' \in [View -> MadeView]
         /\ \A v \in View :
              /\ view'[v].stage = view[v].stage
              /\ view'[v].current = view[v].current
              /\ view'[v].old = view[v].old
              /\ Owned(v) = {} => view'[v] = view[v]
              /\ view[v].current # NoController =>
                   view'[v].state = controller'[view[v].current].state
<1> SUFFICES ASSUME NEW v \in View
    PROVE  /\ view'[v] \in MadeView
           /\ view'[v].stage = view[v].stage
           /\ view'[v].current = view[v].current
           /\ view'[v].old = view[v].old
           /\ Owned(v) = {} => view'[v] = view[v]
           /\ view[v].current # NoController =>
                view'[v].state = controller'[view[v].current].state
  OBVIOUS
<1> DEFINE c == Notified(S, v)
<1>1. view'[v] = IF c = NoController THEN view[v]
                 ELSE [view[v] EXCEPT !.state = controller'[c].state]
  OBVIOUS
<1>2. /\ Owned(v) = {} => c = NoController
      /\ Owned(v) # {} => c \in Owned(v)
      /\ view[v].current # NoController => c = view[v].current
  BY NotifiedIsOwned
<1> HIDE DEF c
<1>3. view[v] \in MadeView
  BY DEF GoneInv, ViewTypes
<1>4. c # NoController => c \in Controller
  BY <1>2, <1>3 DEF Owned, MadeView
<1>5. c # NoController => controller'[c].state \in ShownState
  BY <1>4 DEF MadeController
<1>6. QED
  BY <1>1, <1>2, <1>3, <1>5 DEF MadeView

\* An announcement changes neither who is there nor who listens.
LEMMA AnnounceGone ==
  ASSUME GoneInv, Announce, store' \in [Id -> Nat], announced' \in [Id -> Nat],
         syncState' \in SyncStates
  PROVE  GoneInv'
<1>1. PICK S \in ListenersIn(Asked) :
        /\ reads' = reads \o [k \in DOMAIN S |-> ReadOf(S[k], IdsOf(S[k]))]
        /\ view' = [v \in View |->
             LET c == Notified(S, v)
             IN IF c = NoController THEN view[v]
                ELSE [view[v] EXCEPT !.state = controller'[c].state]]
  BY AnnounceDoes
<1>2. controller' \in [Controller -> MadeController]
  BY AnnounceDoes
<1>3. \A c \in Controller : controller'[c].live = controller[c].live
                            /\ controller'[c].view = controller[c].view
  <2>1. TAKE c \in Controller
  <2>2. controller[c] \in MadeController
    BY DEF GoneInv, ViewTypes
  <2>3. QED
    BY <2>2, AnnounceDoes DEF MadeController
<1>4. /\ view' \in [View -> MadeView]
      /\ \A v \in View : /\ view'[v].stage = view[v].stage
                         /\ view'[v].current = view[v].current
                         /\ view'[v].old = view[v].old
                         /\ Owned(v) = {} => view'[v] = view[v]
  BY <1>1, <1>2, AnnouncedViews
<1>5. listeners' = listeners /\ kind' = kind
  BY AnnounceDoes
<1>6. ViewTypes'
  BY <1>1, <1>2, <1>4, <1>5, AnnouncedReads DEF GoneInv, ViewTypes
<1>7. \A v \in View : Owned(v)' = Owned(v)
  BY <1>4 DEF Owned
<1>8. LiveIsOwned'
  <2>1. \A v \in View : Owned(v) \subseteq Controller
    BY DEF Owned, GoneInv, ViewTypes, MadeView
  <2>2. QED
    BY <1>3, <1>7, <2>1 DEF GoneInv, LiveIsOwned
<1>9. ListenerOfEach'
  <2>1. listeners \in Seq(Controller)
    BY DEF GoneInv, ViewTypes
  <2>2. \A p \in DOMAIN listeners : listeners[p] \in Controller
    BY <2>1
  <2>3. QED
    BY <1>3, <1>5, <2>2 DEF GoneInv, ListenerOfEach
<1>10. \A v \in View : view[v].stage = "absent" => Owned(v) = {}
  BY DEF GoneInv, OldIsPassed, Absent, Owned
<1>11. OldIsPassed'
  BY <1>4, <1>5, <1>10 DEF GoneInv, OldIsPassed, Absent
<1>12. QED
  BY <1>6, <1>8, <1>9, <1>11 DEF GoneInv


LEMMA Shortened == ASSUME NEW T, NEW s \in Seq(T), NEW k \in DOMAIN s
  PROVE  /\ RemoveAt(s, k) \in Seq(T)
         /\ Len(RemoveAt(s, k)) = Len(s) - 1
         /\ \A j \in DOMAIN RemoveAt(s, k) :
              RemoveAt(s, k)[j] = IF j < k THEN s[j] ELSE s[j + 1]
<1>1. k \in 1..Len(s) /\ Len(s) \in Nat
  OBVIOUS
<1> DEFINE a == SubSeq(s, 1, k - 1)
           b == SubSeq(s, k + 1, Len(s))
<1>2. /\ a \in Seq(T) /\ Len(a) = k - 1
      /\ \A j \in 1..(k - 1) : a[j] = s[j]
  BY <1>1
<1>3. /\ b \in Seq(T) /\ Len(b) = Len(s) - k
      /\ \A j \in 1..(Len(s) - k) : b[j] = s[k + j]
  BY <1>1
<1>4. RemoveAt(s, k) = a \o b
  BY DEF RemoveAt
<1> HIDE DEF a, b
<1>5. a \o b \in Seq(T) /\ Len(a \o b) = Len(s) - 1
  BY <1>1, <1>2, <1>3
<1>6. ASSUME NEW j \in 1..(Len(s) - 1)
      PROVE  (a \o b)[j] = IF j < k THEN s[j] ELSE s[j + 1]
  <2>1. CASE j < k
    <3>1. (a \o b)[j] = a[j]
      BY <1>1, <1>2, <1>3, <2>1
    <3>2. QED
      BY <1>1, <1>2, <2>1, <3>1
  <2>2. CASE ~(j < k)
    <3>1. (a \o b)[j] = b[j - (k - 1)]
      BY <1>1, <1>2, <1>3, <2>2
    <3>2. j - (k - 1) \in 1..(Len(s) - k) /\ k + (j - (k - 1)) = j + 1
      BY <1>1, <2>2
    <3>3. QED
      BY <1>3, <2>2, <3>1, <3>2
  <2>3. QED
    BY <2>1, <2>2
<1>7. DOMAIN (a \o b) = 1..(Len(s) - 1)
  BY <1>1, <1>5
<1>8. QED
  BY <1>4, <1>5, <1>6, <1>7

LEMMA ReadIsTyped == ASSUME ViewTypes, NEW k \in DOMAIN reads
  PROVE  reads[k].controller \in Controller /\ reads[k].found \in Found
<1> DEFINE Reading == [controller: Controller, found: Found]
<1>1. reads \in Seq(Reading)
  BY DEF ViewTypes
<1>2. reads[k] \in Reading
  <2> HIDE DEF Reading
  <2>1. QED
    BY <1>1
<1>3. QED
  BY <1>2

\* A read that arrives changes what is shown, and only of a live controller.
LEMMA SettleGone ==
  ASSUME GoneInv, NEW k \in DOMAIN reads, NEW left \in ShownState,
         Settle(k, left)
  PROVE  GoneInv'
<1> DEFINE c == reads[k].controller
           Reading == [controller: Controller, found: Found]
<1>1. reads \in Seq(Reading) /\ c \in Controller
  BY ReadIsTyped DEF GoneInv, ViewTypes
<1>2. reads' \in Seq(Reading)
  <2>1. reads' = RemoveAt(reads, k)
    BY DEF Settle
  <2>2. QED
    BY <1>1, <2>1, Shortened
<1>3. CASE ~controller[c].live
  <2>1. /\ UNCHANGED <<controller, view, kind, listeners>>
        /\ UNCHANGED <<store, announced, syncState>>
    BY <1>3 DEF Settle, collection
  <2>2. ViewTypes'
    BY <1>2, <2>1 DEF GoneInv, ViewTypes
  <2>3. LiveIsOwned' /\ ListenerOfEach' /\ OldIsPassed'
    BY <2>1 DEF GoneInv, LiveIsOwned, ListenerOfEach, OldIsPassed, Owned
  <2>4. QED
    BY <2>2, <2>3 DEF GoneInv
<1>4. CASE controller[c].live
  <2> DEFINE v == controller[c].view
  <2>1. v \in View /\ c \in Owned(v)
    BY <1>1, <1>4 DEF GoneInv, LiveIsOwned
  <2>2. /\ controller' = [controller EXCEPT ![c].state = left]
        /\ view' = [view EXCEPT ![v].state = left]
        /\ UNCHANGED <<kind, listeners, store, announced, syncState>>
    BY <1>4 DEF Settle, collection
  <2> HIDE DEF c, v
  <2>3. /\ controller' \in [Controller -> MadeController]
        /\ \A d \in Controller : controller'[d].live = controller[d].live
                                 /\ controller'[d].view = controller[d].view
    BY <1>1, <2>2 DEF GoneInv, ViewTypes, MadeController
  <2>4. /\ view' \in [View -> MadeView]
        /\ \A w \in View : /\ view'[w].stage = view[w].stage
                           /\ view'[w].current = view[w].current
                           /\ view'[w].old = view[w].old
                           /\ w # v => view'[w] = view[w]
    BY <2>1, <2>2 DEF GoneInv, ViewTypes, MadeView
  <2>5. ViewTypes'
    BY <1>2, <2>2, <2>3, <2>4 DEF GoneInv, ViewTypes
  <2>6. \A w \in View : Owned(w)' = Owned(w)
    BY <2>4 DEF Owned
  <2>7. LiveIsOwned'
    <3>1. \A w \in View : Owned(w) \subseteq Controller
      BY DEF Owned, GoneInv, ViewTypes, MadeView
    <3>2. QED
      BY <2>3, <2>6, <3>1 DEF GoneInv, LiveIsOwned
  <2>8. ListenerOfEach'
    <3>1. \A p \in DOMAIN listeners : listeners[p] \in Controller
      BY DEF GoneInv, ViewTypes
    <3>2. QED
      BY <2>2, <2>3, <3>1 DEF GoneInv, ListenerOfEach
  <2>9. view[v].stage # "absent"
    BY <2>1 DEF GoneInv, OldIsPassed, Absent, Owned
  <2>10. OldIsPassed'
    BY <2>2, <2>4, <2>9 DEF GoneInv, OldIsPassed, Absent
  <2>11. QED
    BY <2>5, <2>7, <2>8, <2>10 DEF GoneInv
<1>5. QED
  BY <1>3, <1>4

LEMMA ReadLeavesState ==
  ASSUME GoneInv, NEW k \in DOMAIN reads
  PROVE  /\ Loaded(reads[k].controller, reads[k].found) \in ShownState
         /\ Failed(reads[k].controller) \in ShownState
<1>1. /\ reads[k].controller \in Controller
      /\ reads[k].found \in Found
  BY ReadIsTyped DEF GoneInv
<1>2. controller[reads[k].controller].state \in ShownState
  BY <1>1 DEF GoneInv, ViewTypes, MadeController
<1>3. syncState \in SyncStates
  BY DEF GoneInv, ViewTypes
<1>4. QED
  BY <1>1, <1>2, <1>3 DEF Loaded, Failed, ShownState

LEMMA ReadGone ==
  ASSUME GoneInv, NEW hook, ReadSettles(hook)
  PROVE  GoneInv'
  BY ReadLeavesState, SettleGone DEF ReadSettles


LEMMA Extended == ASSUME NEW T, NEW s \in Seq(T), NEW e \in T
  PROVE  /\ Append(s, e) \in Seq(T)
         /\ DOMAIN s = 1..Len(s) /\ Len(s) \in Nat
         /\ DOMAIN Append(s, e) = 1..(Len(s) + 1)
         /\ Len(Append(s, e)) = Len(s) + 1
         /\ \A k \in DOMAIN s : Append(s, e)[k] = s[k]
         /\ Append(s, e)[Len(s) + 1] = e
  OBVIOUS

\* A new controller: nothing of an earlier use of its number is left.
LEMMA CreateDoes ==
  ASSUME GoneInv, NEW c \in Controller, NEW v \in View, NEW ids \in SUBSET Id,
         CreateController(c, v, ids)
  PROVE  /\ controller' \in [Controller -> MadeController]
         /\ \A d \in Controller : d # c => controller'[d] = controller[d]
         /\ controller'[c].view = v /\ controller'[c].live
         /\ controller'[c].state = Loading(InitialState(ids))
         /\ controller'[c].state \in ShownState
         /\ ~controller[c].live
         /\ \A w \in View : c \notin Owned(w)
         /\ \A k \in DOMAIN reads : reads[k].controller # c
         /\ reads' \in Seq([controller: Controller, found: Found])
         /\ reads' = Append(reads, ReadOf(c, ids))
         /\ listeners' = Append(listeners, c)
<1>1. /\ IsFree(c)
      /\ controller' = [controller EXCEPT ![c] =
           [view |-> v, live |-> TRUE, state |-> Loading(InitialState(ids))]]
      /\ listeners' = Append(listeners, c)
      /\ reads' = Append(reads, ReadOf(c, ids))
  BY DEF CreateController
<1>2. Loading(InitialState(ids)) \in ShownState
  BY InitialIsShown, LoadingIsShown
<1>3. [view |-> v, live |-> TRUE, state |-> Loading(InitialState(ids))]
        \in MadeController
  BY <1>2 DEF MadeController
<1>4. controller \in [Controller -> MadeController]
  BY DEF GoneInv, ViewTypes
<1>5. reads' \in Seq([controller: Controller, found: Found])
  <2>1. ReadOf(c, ids) \in [controller: Controller, found: Found]
    BY ReadIsFound DEF GoneInv
  <2>2. reads \in Seq([controller: Controller, found: Found])
    BY DEF GoneInv, ViewTypes
  <2>3. QED
    BY <1>1, <2>1, <2>2, Extended
<1>6. controller' \in [Controller -> MadeController]
  BY <1>1, <1>3, <1>4
<1>7. /\ controller'[c] =
           [view |-> v, live |-> TRUE, state |-> Loading(InitialState(ids))]
      /\ \A d \in Controller : d # c => controller'[d] = controller[d]
  BY <1>1, <1>4
<1>8. ~controller[c].live /\ \A w \in View : c \notin Owned(w)
  BY <1>1 DEF IsFree, Owned
<1>9. \A k \in DOMAIN reads : reads[k].controller # c
  BY <1>1 DEF IsFree
<1>10. QED
  BY <1>1, <1>2, <1>5, <1>6, <1>7, <1>8, <1>9

\* The view that makes a controller keeps the one it had as the old one.
LEMMA CreateGone ==
  ASSUME GoneInv, NEW c \in Controller, NEW v \in View, NEW ids \in SUBSET Id,
         CreateController(c, v, ids), view[v].stage \in {"absent", "mounted"},
         UNCHANGED <<kind, collection>>,
         view' \in [View -> MadeView],
         \A w \in View : w # v => view'[w] = view[w],
         view'[v].stage \in {"rendered", "mounted"},
         view'[v].current = c, view'[v].old = view[v].current,
         view'[v].stage = "mounted" => view[v].current = NoController
  PROVE  GoneInv'
<1>1. /\ controller' \in [Controller -> MadeController]
      /\ \A d \in Controller : d # c => controller'[d] = controller[d]
      /\ controller'[c].view = v /\ controller'[c].live
      /\ ~controller[c].live
      /\ \A w \in View : c \notin Owned(w)
  BY CreateDoes
<1>2. listeners' = Append(listeners, c) /\ listeners \in Seq(Controller)
  BY CreateDoes DEF GoneInv, ViewTypes
<1>3. /\ listeners' \in Seq(Controller)
      /\ DOMAIN listeners = 1..Len(listeners) /\ Len(listeners) \in Nat
      /\ DOMAIN listeners' = 1..(Len(listeners) + 1)
      /\ \A p \in DOMAIN listeners : listeners'[p] = listeners[p]
      /\ listeners'[Len(listeners) + 1] = c
  BY <1>2, Extended
<1>4. \A p \in DOMAIN listeners : listeners[p] \in Controller /\ listeners[p] # c
  BY <1>1, <1>2 DEF GoneInv, ListenerOfEach
<1>5. \A p \in DOMAIN listeners' :
        \/ p \in DOMAIN listeners /\ listeners'[p] # c
        \/ p = Len(listeners) + 1
  BY <1>3, <1>4
<1>6. ViewTypes'
  <2>1. reads' \in Seq([controller: Controller, found: Found])
    BY CreateDoes
  <2>2. QED
    BY <1>1, <1>3, <2>1 DEF GoneInv, ViewTypes, collection
<1>7. view[v].old = NoController
  BY DEF GoneInv, OldIsPassed, Absent
<1>8. /\ Owned(v) = {view[v].current} \ {NoController}
      /\ Owned(v)' = ({view[v].current} \ {NoController}) \cup {c}
      /\ \A w \in View : w # v => Owned(w)' = Owned(w)
  BY <1>7, ViewConstants DEF Owned
<1>9. \A w \in View : Owned(w) \subseteq Controller
  BY DEF Owned, GoneInv, ViewTypes, MadeView
<1>10. LiveIsOwned'
  <2>1. \A w \in View : \A d \in Owned(w)' :
          controller'[d].live /\ controller'[d].view = w
    BY <1>1, <1>8, <1>9 DEF GoneInv, LiveIsOwned
  <2>2. \A d \in Controller : controller'[d].live =>
          \E w \in View : controller'[d].view = w /\ d \in Owned(w)'
    <3>1. TAKE d \in Controller
    <3>2. CASE d = c
      BY <1>1, <1>8, <3>2
    <3>3. CASE d # c
      BY <1>1, <1>8, <3>3 DEF GoneInv, LiveIsOwned
    <3>4. QED
      BY <3>2, <3>3
  <2>3. QED
    BY <2>1, <2>2 DEF LiveIsOwned
<1>11. ListenerOfEach'
  <2>1. \A p \in DOMAIN listeners' : controller'[listeners'[p]].live
    BY <1>1, <1>3, <1>4, <1>5 DEF GoneInv, ListenerOfEach
  <2>2. \A d \in Controller : controller'[d].live =>
          \E p \in DOMAIN listeners' : listeners'[p] = d
    <3>1. TAKE d \in Controller
    <3>2. CASE d = c
      <4>1. Len(listeners) + 1 \in DOMAIN listeners'
        BY <1>3
      <4>2. QED
        BY <1>3, <3>2, <4>1
    <3>3. CASE d # c
      <4>1. HAVE controller'[d].live
      <4>2. PICK p \in DOMAIN listeners : listeners[p] = d
        BY <1>1, <3>3, <4>1 DEF GoneInv, ListenerOfEach
      <4>3. p \in DOMAIN listeners' /\ listeners'[p] = d
        BY <1>3, <4>2
      <4>4. QED
        BY <4>3
    <3>4. QED
      BY <3>2, <3>3
  <2>3. \A p, q \in DOMAIN listeners' : p # q => listeners'[p] # listeners'[q]
    BY <1>3, <1>5 DEF GoneInv, ListenerOfEach
  <2>4. QED
    BY <2>1, <2>2, <2>3 DEF ListenerOfEach
<1>12. OldIsPassed'
  <2> SUFFICES ASSUME NEW w \in View
      PROVE  /\ view'[w].stage = "absent" => view'[w] = Absent
             /\ view'[w].stage = "mounted" => view'[w].old = NoController
             /\ view'[w].old # NoController => view'[w].old # view'[w].current
             /\ \A p, q \in DOMAIN listeners' :
                  (listeners'[p] = view'[w].old /\ listeners'[q] = view'[w].current)
                    => p < q
    BY DEF OldIsPassed, Absent
  <2>1. CASE w = v
    <3>1. view[v].current # c
      BY <1>1, ViewConstants DEF Owned
    <3>2. \A p, q \in DOMAIN listeners' :
            (listeners'[p] = view[v].current /\ listeners'[q] = c) => p < q
      <4>1. TAKE p, q \in DOMAIN listeners'
      <4>2. HAVE listeners'[p] = view[v].current /\ listeners'[q] = c
      <4>3. p \in DOMAIN listeners /\ q = Len(listeners) + 1
        BY <1>3, <1>5, <3>1, <4>2
      <4>4. QED
        BY <1>3, <4>3
    <3>3. QED
      BY <2>1, <3>1, <3>2
  <2>2. CASE w # v
    <3>1. view'[w] = view[w]
      BY <2>2
    <3>2. c # view[w].old /\ c # view[w].current
      BY <1>1, ViewConstants DEF Owned
    <3>3. \A p \in DOMAIN listeners' :
            listeners'[p] \in {view[w].old, view[w].current} =>
              p \in DOMAIN listeners /\ listeners'[p] = listeners[p]
      BY <1>3, <1>5, <3>2
    <3>4. QED
      BY <3>1, <3>3 DEF GoneInv, OldIsPassed
  <2>3. QED
    BY <2>1, <2>2
<1>13. QED
  BY <1>6, <1>10, <1>11, <1>12 DEF GoneInv


\* dispose() of one controller of a view, or of none.
LEMMA DisposeDoes ==
  ASSUME GoneInv, NEW d \in Controller \cup {NoController}, Dispose({d})
  PROVE  /\ controller' \in [Controller -> MadeController]
         /\ \A c \in Controller : c # d => controller'[c] = controller[c]
         /\ d \in Controller => ~controller'[d].live
         /\ listeners' \in Seq(Controller)
         /\ \A p \in DOMAIN listeners' : listeners'[p] # d
         /\ \A p \in DOMAIN listeners' :
              \E q \in DOMAIN listeners : listeners'[p] = listeners[q]
         /\ \A p \in DOMAIN listeners : listeners[p] # d =>
              \E q \in DOMAIN listeners' : listeners'[q] = listeners[p]
         /\ \A p, q \in DOMAIN listeners' : p < q =>
              \E a, b \in DOMAIN listeners :
                a < b /\ listeners'[p] = listeners[a] /\ listeners'[q] = listeners[b]
         /\ \A p, q \in DOMAIN listeners' : p # q => listeners'[p] # listeners'[q]
<1>1. /\ controller' = [c \in Controller |->
           IF c \in {d} THEN Disposed(c) ELSE controller[c]]
      /\ listeners' \in ListenersIn(Controller \ {d})
  BY DEF Dispose
<1>2. listeners \in Seq(Controller) /\ ListenerOfEach
  BY DEF GoneInv, ViewTypes
<1>3. ASSUME NEW c \in Controller
      PROVE  Disposed(c) \in MadeController /\ ~Disposed(c).live
  <2>1. controller[c] \in MadeController
    BY DEF GoneInv, ViewTypes
  <2>2. InitialState({}) \in ShownState
    BY InitialIsShown
  <2>3. QED
    BY <2>1, <2>2 DEF Disposed, MadeController
<1>4. controller' \in [Controller -> MadeController]
  BY <1>1, <1>3 DEF GoneInv, ViewTypes
<1>5. /\ \A c \in Controller : c # d => controller'[c] = controller[c]
      /\ d \in Controller => ~controller'[d].live
  BY <1>1, <1>3
<1>6. \A L \in ListenersIn(Controller \ {d}) :
        /\ L \in Seq(Controller)
        /\ \A p \in DOMAIN L : L[p] \in Controller \ {d}
        /\ \A p \in DOMAIN L : \E q \in DOMAIN listeners : L[p] = listeners[q]
        /\ \A p \in DOMAIN listeners : listeners[p] \in Controller \ {d} =>
             \E q \in DOMAIN L : L[q] = listeners[p]
        /\ \A p, q \in DOMAIN L : p < q =>
             \E a, b \in DOMAIN listeners :
               a < b /\ L[p] = listeners[a] /\ L[q] = listeners[b]
  BY <1>2, FilteredListeners
<1>7. \A L \in ListenersIn(Controller \ {d}) :
        \A p, q \in DOMAIN L : p # q => L[p] # L[q]
  BY <1>2, FilteredOnce
<1>8. \A p \in DOMAIN listeners : listeners[p] \in Controller
  BY <1>2
<1>9. QED
  BY <1>1, <1>4, <1>5, <1>6, <1>7, <1>8

LEMMA DisposeGone ==
  ASSUME GoneInv, NEW v \in View, NEW d \in Controller \cup {NoController},
         d \in {view[v].current, view[v].old}, Dispose({d}),
         UNCHANGED <<kind, collection, reads>>,
         view' \in [View -> MadeView],
         \A w \in View : w # v => view'[w] = view[w],
         view'[v].stage = "mounted" \/ view'[v] = Absent,
         view'[v].old = NoController,
         Owned(v)' = Owned(v) \ {d}
  PROVE  GoneInv'
<1>1. /\ controller' \in [Controller -> MadeController]
      /\ \A c \in Controller : c # d => controller'[c] = controller[c]
      /\ d \in Controller => ~controller'[d].live
  BY DisposeDoes
<1>2. listeners' \in Seq(Controller) /\ listeners \in Seq(Controller)
  BY DisposeDoes DEF GoneInv, ViewTypes
<1>3. ViewTypes'
  BY <1>1, <1>2 DEF GoneInv, ViewTypes, collection
<1>4. \A w \in View : Owned(w) \subseteq Controller
  BY DEF Owned, GoneInv, ViewTypes, MadeView
<1>5. d # NoController => d \in Owned(v)
  BY DEF Owned
<1>6. \A w \in View : w # v => Owned(w)' = Owned(w)
  BY DEF Owned
<1>7. \A w \in View : w # v => d \notin Owned(w)
  <2>1. \A w \in View : NoController \notin Owned(w)
    BY DEF Owned
  <2>2. QED
    BY <1>5, <2>1 DEF GoneInv, LiveIsOwned
<1>8. LiveIsOwned'
  <2>1. \A w \in View : \A c \in Owned(w)' :
          controller'[c].live /\ controller'[c].view = w
    <3>1. TAKE w \in View
    <3>2. \A c \in Owned(w)' : c \in Owned(w) /\ c # d
      BY <1>6, <1>7
    <3>3. QED
      BY <1>1, <1>4, <3>2 DEF GoneInv, LiveIsOwned
  <2>2. \A c \in Controller : controller'[c].live =>
          \E w \in View : controller'[c].view = w /\ c \in Owned(w)'
    <3>1. TAKE c \in Controller
    <3>2. HAVE controller'[c].live
    <3>3. c # d /\ controller'[c] = controller[c]
      BY <1>1, <3>2
    <3>4. PICK w \in View : controller[c].view = w /\ c \in Owned(w)
      BY <3>2, <3>3 DEF GoneInv, LiveIsOwned
    <3>5. c \in Owned(w)'
      BY <1>6, <3>3, <3>4
    <3>6. QED
      BY <3>3, <3>4, <3>5
  <2>3. QED
    BY <2>1, <2>2 DEF LiveIsOwned
<1>9. ListenerOfEach'
  <2>1. \A p \in DOMAIN listeners' : controller'[listeners'[p]].live
    <3>1. TAKE p \in DOMAIN listeners'
    <3>2. listeners'[p] # d /\ listeners'[p] \in Controller
      BY <1>2, DisposeDoes
    <3>3. PICK q \in DOMAIN listeners : listeners'[p] = listeners[q]
      BY DisposeDoes
    <3>4. controller[listeners[q]].live
      BY DEF GoneInv, ListenerOfEach
    <3>5. QED
      BY <1>1, <3>2, <3>3, <3>4
  <2>2. \A c \in Controller : controller'[c].live =>
          \E p \in DOMAIN listeners' : listeners'[p] = c
    <3>1. TAKE c \in Controller
    <3>2. HAVE controller'[c].live
    <3>3. c # d /\ controller[c].live
      BY <1>1, <3>2
    <3>4. PICK p \in DOMAIN listeners : listeners[p] = c
      BY <3>3 DEF GoneInv, ListenerOfEach
    <3>5. QED
      <4>1. \A a \in DOMAIN listeners : listeners[a] # d =>
              \E q \in DOMAIN listeners' : listeners'[q] = listeners[a]
        BY DisposeDoes
      <4>2. QED
        BY <3>3, <3>4, <4>1
  <2>3. \A p, q \in DOMAIN listeners' : p # q => listeners'[p] # listeners'[q]
    BY DisposeDoes
  <2>4. QED
    BY <2>1, <2>2, <2>3 DEF ListenerOfEach
<1>10. OldIsPassed'
  <2> SUFFICES ASSUME NEW w \in View
      PROVE  /\ view'[w].stage = "absent" => view'[w] = Absent
             /\ view'[w].stage = "mounted" => view'[w].old = NoController
             /\ view'[w].old # NoController => view'[w].old # view'[w].current
             /\ \A p, q \in DOMAIN listeners' :
                  (listeners'[p] = view'[w].old /\ listeners'[q] = view'[w].current)
                    => p < q
    BY DEF OldIsPassed, Absent
  <2>1. \A p \in DOMAIN listeners' : p \in Nat /\ listeners'[p] # NoController
    BY <1>2, ViewConstants
  <2>2. \A p, q \in DOMAIN listeners' : p < q =>
          \E a, b \in DOMAIN listeners :
            a < b /\ listeners'[p] = listeners[a] /\ listeners'[q] = listeners[b]
    BY DisposeDoes
  <2>3. CASE w = v
    BY <2>1, <2>3
  <2>4. CASE w # v
    <3>1. view'[w] = view[w]
      BY <2>4
    <3>2. ASSUME NEW p \in DOMAIN listeners', NEW q \in DOMAIN listeners',
                 listeners'[p] = view[w].old, listeners'[q] = view[w].current,
                 q < p
          PROVE  FALSE
      <4>1. PICK a \in DOMAIN listeners, b \in DOMAIN listeners :
              a < b /\ listeners'[q] = listeners[a] /\ listeners'[p] = listeners[b]
        BY <2>2, <3>2
      <4>2. b < a
        BY <3>2, <4>1 DEF GoneInv, OldIsPassed
      <4>3. a \in Nat /\ b \in Nat
        BY <1>2
      <4>4. QED
        BY <4>1, <4>2, <4>3
    <3>3. ASSUME NEW p \in DOMAIN listeners',
                 listeners'[p] = view[w].old, listeners'[p] = view[w].current
          PROVE  FALSE
      BY <2>1, <3>3 DEF GoneInv, OldIsPassed
    <3>4. \A p, q \in DOMAIN listeners' :
            (listeners'[p] = view[w].old /\ listeners'[q] = view[w].current)
              => p < q
      BY <2>1, <3>2, <3>3
    <3>5. QED
      BY <3>1, <3>4 DEF GoneInv, OldIsPassed
  <2>5. QED
    BY <2>3, <2>4
<1>11. QED
  BY <1>3, <1>8, <1>9, <1>10 DEF GoneInv

LEMMA RunEffectsGone == ASSUME GoneInv, NEW v \in View, RunEffects(v)
  PROVE  GoneInv'
<1>1. /\ view[v].stage = "rendered"
      /\ Dispose({view[v].old})
      /\ view' = [view EXCEPT ![v].stage = "mounted", ![v].old = NoController]
      /\ UNCHANGED <<kind, collection, reads>>
  BY DEF RunEffects
<1>2. view \in [View -> MadeView]
  BY DEF GoneInv, ViewTypes
<1>3. view[v].old \in Controller \cup {NoController}
  BY <1>2 DEF MadeView
<1>4. /\ view' \in [View -> MadeView]
      /\ \A w \in View : w # v => view'[w] = view[w]
      /\ view'[v].stage = "mounted" /\ view'[v].old = NoController
      /\ view'[v].current = view[v].current
  BY <1>1, <1>2 DEF MadeView
<1>5. Owned(v)' = Owned(v) \ {view[v].old}
  BY <1>4 DEF Owned, GoneInv, OldIsPassed
<1>6. QED
  BY <1>1, <1>3, <1>4, <1>5, DisposeGone

LEMMA UnmountGone == ASSUME GoneInv, NEW v \in View, Unmount(v)
  PROVE  GoneInv'
<1>1. /\ view[v].stage = "mounted"
      /\ Dispose({view[v].current})
      /\ view' = [view EXCEPT ![v] = Absent]
      /\ UNCHANGED <<kind, collection, reads>>
  BY DEF Unmount
<1>2. view \in [View -> MadeView]
  BY DEF GoneInv, ViewTypes
<1>3. view[v].current \in Controller \cup {NoController}
  BY <1>2 DEF MadeView
<1>4. Absent \in MadeView /\ Absent.old = NoController
      /\ Absent.current = NoController
  BY InitialIsShown DEF Absent, MadeView
<1>5. /\ view' \in [View -> MadeView]
      /\ \A w \in View : w # v => view'[w] = view[w]
      /\ view'[v] = Absent
  BY <1>1, <1>2, <1>4
<1>6. view[v].old = NoController
  BY <1>1 DEF GoneInv, OldIsPassed
<1>7. Owned(v)' = Owned(v) \ {view[v].current}
  BY <1>4, <1>5, <1>6 DEF Owned
<1>8. QED
  BY <1>1, <1>3, <1>4, <1>5, <1>7, DisposeGone


\* A rendering makes a controller or goes without one.
LEMMA RenderGone ==
  ASSUME GoneInv, NEW v \in View, NEW ids \in SUBSET Id, Render(v, ids)
  PROVE  GoneInv'
<1>1. view \in [View -> MadeView] /\ view[v] \in MadeView
  BY DEF GoneInv, ViewTypes
<1>2. /\ view[v].stage \in {"absent", "mounted"}
      /\ UNCHANGED <<kind, collection>>
      /\ view[v].old = NoController
  <2>1. view[v].stage \in {"absent", "mounted"} /\ UNCHANGED <<kind, collection>>
    BY DEF Render
  <2>2. QED
    BY <2>1 DEF GoneInv, OldIsPassed, Absent
<1>3. CASE /\ view' = [view EXCEPT ![v] =
                [@ EXCEPT !.stage = "rendered", !.old = view[v].current,
                          !.current = NoController]]
           /\ UNCHANGED <<controller, listeners, reads>>
  <2>1. /\ view' \in [View -> MadeView]
        /\ \A w \in View : w # v => view'[w] = view[w]
        /\ view'[v].stage = "rendered" /\ view'[v].old = view[v].current
        /\ view'[v].current = NoController
    BY <1>1, <1>3 DEF MadeView
  <2>2. ViewTypes'
    BY <1>2, <1>3, <2>1 DEF GoneInv, ViewTypes, collection
  <2>3. \A w \in View : Owned(w)' = Owned(w)
    BY <1>2, <2>1 DEF Owned
  <2>4. LiveIsOwned' /\ ListenerOfEach'
    BY <1>3, <2>3 DEF GoneInv, LiveIsOwned, ListenerOfEach
  <2>5. \A p \in DOMAIN listeners : listeners[p] # NoController
    <3>1. listeners \in Seq(Controller)
      BY DEF GoneInv, ViewTypes
    <3>2. QED
      BY <3>1, ViewConstants
  <2>6. OldIsPassed'
    BY <1>3, <2>1, <2>5 DEF GoneInv, OldIsPassed, Absent
  <2>7. QED
    BY <2>2, <2>4, <2>6 DEF GoneInv
<1>4. CASE \E c \in Controller :
             /\ CreateController(c, v, ids)
             /\ view' = [view EXCEPT ![v] =
                  [@ EXCEPT !.stage = "rendered", !.old = view[v].current,
                            !.current = c, !.state = controller'[c].state]]
  <2>1. PICK c \in Controller :
          /\ CreateController(c, v, ids)
          /\ view' = [view EXCEPT ![v] =
               [@ EXCEPT !.stage = "rendered", !.old = view[v].current,
                         !.current = c, !.state = controller'[c].state]]
    BY <1>4
  <2>2. controller'[c].state \in ShownState
    BY <2>1, CreateDoes
  <2>3. /\ view' \in [View -> MadeView]
        /\ \A w \in View : w # v => view'[w] = view[w]
        /\ view'[v].stage = "rendered" /\ view'[v].old = view[v].current
        /\ view'[v].current = c
    BY <1>1, <2>1, <2>2 DEF MadeView
  <2>4. QED
    BY <1>2, <2>1, <2>3, CreateGone
<1>5. QED
  BY <1>3, <1>4 DEF Render

LEMMA SetupGone ==
  ASSUME GoneInv, NEW v \in View, NEW ids \in SUBSET Id, Setup(v, ids)
  PROVE  GoneInv'
<1>1. view \in [View -> MadeView] /\ view[v] \in MadeView
  BY DEF GoneInv, ViewTypes
<1>2. /\ view[v].stage = "absent" /\ UNCHANGED <<kind, collection>>
      /\ view[v].old = NoController /\ view[v].current = NoController
  BY DEF Setup, GoneInv, OldIsPassed, Absent
<1>3. PICK c \in Controller :
        /\ CreateController(c, v, ids)
        /\ view' = [view EXCEPT ![v] =
             [@ EXCEPT !.stage = "mounted", !.current = c,
                       !.state = controller'[c].state]]
  BY DEF Setup
<1>4. controller'[c].state \in ShownState
  BY <1>3, CreateDoes
<1>5. /\ view' \in [View -> MadeView]
      /\ \A w \in View : w # v => view'[w] = view[w]
      /\ view'[v].stage = "mounted" /\ view'[v].old = NoController
      /\ view'[v].current = c
  BY <1>1, <1>2, <1>3, <1>4 DEF MadeView
<1>6. QED
  BY <1>2, <1>3, <1>5, CreateGone

LEMMA StoreGone ==
  ASSUME GoneInv, NEW i \in Id, WriteEntity(i) \/ ApplyRemote(i)
  PROVE  GoneInv'
<1>1. /\ store' = [store EXCEPT ![i] = @ + 1]
      /\ UNCHANGED <<kind, syncState, announced, listeners, controller, reads,
                     view>>
  BY DEF WriteEntity, ApplyRemote
<1>2. store' \in [Id -> Nat]
  BY <1>1 DEF GoneInv, ViewTypes
<1>3. ViewTypes'
  BY <1>1, <1>2 DEF GoneInv, ViewTypes
<1>4. LiveIsOwned' /\ ListenerOfEach' /\ OldIsPassed'
  BY <1>1 DEF GoneInv, LiveIsOwned, ListenerOfEach, OldIsPassed, Owned
<1>5. QED
  BY <1>3, <1>4 DEF GoneInv

LEMMA GoneStarts == ViewsInit => GoneInv
<1> SUFFICES ASSUME ViewsInit PROVE GoneInv
  OBVIOUS
<1>1. InitialState({}) \in ShownState
  BY InitialIsShown
<1>2. Unused \in MadeController /\ ~Unused.live
  BY <1>1 DEF Unused, MadeController
<1>3. Absent \in MadeView
  BY <1>1 DEF Absent, MadeView
<1>4. Nothing(Id) \in [Id -> Nat]
  BY DEF Nothing
<1>5. ViewTypes
  BY <1>2, <1>3, <1>4, ViewConstants DEF ViewsInit, ViewTypes, SyncStates
<1>6. \A v \in View : Owned(v) = {} /\ view[v] = Absent
  BY DEF ViewsInit, Owned, Absent
<1>7. \A c \in Controller : ~controller[c].live
  BY <1>2 DEF ViewsInit
<1>8. LiveIsOwned
  BY <1>6, <1>7 DEF LiveIsOwned
<1>9. listeners = <<>>
  BY DEF ViewsInit
<1>10. ListenerOfEach /\ OldIsPassed
  BY <1>6, <1>7, <1>9 DEF ListenerOfEach, OldIsPassed, Absent
<1>11. QED
  BY <1>5, <1>8, <1>10 DEF GoneInv

LEMMA GoneStep == ASSUME GoneInv, [ViewsNext]_viewsVars PROVE GoneInv'
<1>1. CASE UNCHANGED viewsVars
  BY <1>1 DEF viewsVars, collection, GoneInv, ViewTypes, LiveIsOwned,
              ListenerOfEach, OldIsPassed, Owned
<1>2. ASSUME NEW v \in View,
             UseCollection(v) \/ UseEntity(v) \/ VueUseCollection(v)
               \/ VueUseEntity(v)
      PROVE  GoneInv'
  BY <1>2, RenderGone, SetupGone, RunEffectsGone, UnmountGone
     DEF UseCollection, UseEntity, VueUseCollection, VueUseEntity
<1>3. ASSUME ReadArrives PROVE GoneInv'
  BY <1>3, ReadGone DEF ReadArrives, ReactCollectionRead, ReactEntityRead,
                        VueCollectionRead, VueEntityRead
<1>4. ASSUME NEW i \in Id, WriteEntity(i) \/ ApplyRemote(i) PROVE GoneInv'
  BY <1>4, StoreGone
<1>5. store \in [Id -> Nat] /\ syncState \in SyncStates
  BY DEF GoneInv, ViewTypes
<1>6. ASSUME EmitChange PROVE GoneInv'
  BY <1>5, <1>6, AnnounceGone DEF EmitChange
<1>7. ASSUME NEW s \in SyncStates, SetSyncState(s) PROVE GoneInv'
  BY <1>5, <1>7, AnnounceGone DEF SetSyncState
<1>8. QED
  BY <1>1, <1>2, <1>3, <1>4, <1>6, <1>7 DEF ViewsNext

LEMMA GoneKeeps == ViewsSpec => []GoneInv
<1>1. GoneInv /\ [ViewsNext]_viewsVars => GoneInv'
  BY GoneStep
<1>2. QED
  BY <1>1, GoneStarts, PTL DEF ViewsSpec

\* A view that is gone has no listener left and is never written to again,
\* and every view that is there has exactly the listeners of its controllers,
\* each registered once (dispose() and the effect's cleanup).
THEOREM NothingOutlivesItsView == ViewsSpec => []GoneIsGone
<1>1. GoneInv => GoneIsGone
  <2> SUFFICES ASSUME GoneInv PROVE GoneIsGone
    OBVIOUS
  <2>1. listeners \in Seq(Controller) /\ Len(listeners) \in Nat
        /\ DOMAIN listeners = 1..Len(listeners)
    BY DEF GoneInv, ViewTypes
  <2>2. ToSet(listeners) = UNION {Owned(v) : v \in View}
    <3>1. ASSUME NEW c \in ToSet(listeners)
          PROVE  \E v \in View : c \in Owned(v)
      <4>1. PICK p \in DOMAIN listeners : c = listeners[p]
        BY DEF ToSet
      <4>2. c \in Controller /\ controller[c].live
        BY <2>1, <4>1 DEF GoneInv, ListenerOfEach
      <4>3. QED
        BY <4>2 DEF GoneInv, LiveIsOwned
    <3>2. ASSUME NEW v \in View, NEW c \in Owned(v)
          PROVE  c \in ToSet(listeners)
      <4>1. c \in Controller
        BY DEF Owned, GoneInv, ViewTypes, MadeView
      <4>2. controller[c].live
        BY DEF GoneInv, LiveIsOwned
      <4>3. PICK p \in DOMAIN listeners : c = listeners[p]
        BY <4>1, <4>2 DEF GoneInv, ListenerOfEach
      <4>4. QED
        BY <4>3 DEF ToSet
    <3>3. QED
      BY <3>1, <3>2
  <2>3. Cardinality(ToSet(listeners)) = Len(listeners)
    <3>1. listeners \in [1..Len(listeners) -> ToSet(listeners)]
      BY <2>1 DEF ToSet
    <3>2. \A p, q \in 1..Len(listeners) :
            listeners[p] = listeners[q] => p = q
      BY <2>1 DEF GoneInv, ListenerOfEach
    <3>3. \A c \in ToSet(listeners) : \E p \in 1..Len(listeners) :
            listeners[p] = c
      BY <2>1 DEF ToSet
    <3>4. listeners \in Bijection(1..Len(listeners), ToSet(listeners))
      BY <2>1, <3>1, <3>2, <3>3
         DEF Bijection, Injection, Surjection, IsInjective
    <3>5. ExistsBijection(1..Len(listeners), ToSet(listeners))
      BY <3>4 DEF ExistsBijection
    <3>6. QED
      BY <2>1, <3>5, FS_CountingElements
  <2>4. \A v \in View : view[v].stage = "absent" => view[v] = Absent
    BY DEF GoneInv, OldIsPassed
  <2>5. QED
    BY <2>2, <2>3, <2>4 DEF GoneIsGone
<1>2. QED
  BY <1>1, GoneKeeps, PTL


-----------------------------------------------------------------------------
(* What a view shows once its reads are in.  Reads come back in order.      *)

LaterRead(k, c) == \E j \in DOMAIN reads : j > k /\ reads[j].controller = c

StoreIsAhead == \A i \in Id : store[i] >= announced[i]

\* The last read of a live controller has found what was announced last.
LastReadIsNew ==
  \A k \in DOMAIN reads :
    LET c == reads[k].controller
    IN controller[c].live =>
         /\ DOMAIN reads[k].found = IdsOf(c)
         /\ \/ LaterRead(k, c)
            \/ \A i \in DOMAIN reads[k].found : reads[k].found[i] >= announced[i]

\* After every read of a former controller comes one of the current.
OldReadIsNotLast ==
  \A v \in View, k \in DOMAIN reads :
    (reads[k].controller = view[v].old /\ view[v].current # NoController)
      => LaterRead(k, view[v].current)

\* A view whose current controller waits for nothing shows its state.
QuietShows(v) ==
  LET c == view[v].current
      s == controller[c].state
  IN (c # NoController /\ ~LaterRead(0, c)) =>
       /\ view[v].state = s
       /\ ~s.isLoading
       /\ ~s.error =>
            /\ \A i \in DOMAIN s.shown : s.shown[i] >= announced[i]
            /\ IsCollection(kind[v]) => s.syncState = syncState

QuietInv ==
  /\ GoneInv /\ StoreIsAhead /\ LastReadIsNew /\ OldReadIsNotLast
  /\ \A v \in View : QuietShows(v)

LEMMA ReadPositions == ASSUME ViewTypes
  PROVE  /\ DOMAIN reads = 1..Len(reads) /\ Len(reads) \in Nat
         /\ \A k \in DOMAIN reads : k \in Nat /\ k > 0
         /\ \A k \in DOMAIN reads : reads[k].controller \in Controller
<1>1. DOMAIN reads = 1..Len(reads) /\ Len(reads) \in Nat
  BY DEF ViewTypes
<1>2. QED
  BY <1>1, ReadIsTyped

\* Whoever is current is a live controller of its view.
LEMMA CurrentIsLive ==
  ASSUME GoneInv, NEW v \in View, view[v].current # NoController
  PROVE  /\ view[v].current \in Controller
         /\ controller[view[v].current].live
         /\ controller[view[v].current].view = v
  BY DEF GoneInv, LiveIsOwned, Owned, ViewTypes, MadeView

LEMMA AnnounceQuiet ==
  ASSUME QuietInv, Announce, announced' = store, store' = store,
         syncState' \in SyncStates
  PROVE  QuietInv'
<1>1. GoneInv /\ ViewTypes /\ store \in [Id -> Nat]
  BY DEF QuietInv, GoneInv, ViewTypes
<1>2. GoneInv'
  BY <1>1, AnnounceGone
<1>3. PICK S \in ListenersIn(Asked) :
        /\ reads' = reads \o [k \in DOMAIN S |-> ReadOf(S[k], IdsOf(S[k]))]
        /\ view' = [v \in View |->
             LET c == Notified(S, v)
             IN IF c = NoController THEN view[v]
                ELSE [view[v] EXCEPT !.state = controller'[c].state]]
  BY <1>1, AnnounceDoes
<1>4. \A v \in View : /\ view'[v].current = view[v].current
                      /\ view'[v].old = view[v].old
  <2>1. controller' \in [Controller -> MadeController]
    BY <1>1, AnnounceDoes
  <2>2. QED
    BY <1>1, <1>3, <2>1, AnnouncedViews
<1>5. /\ S \in Seq(Controller) /\ Len(S) \in Nat /\ DOMAIN S = 1..Len(S)
      /\ \A k \in DOMAIN S : S[k] \in Controller
  <2>1. S \in Seq(Controller)
    BY <1>1, AskedAreLive
  <2>2. QED
    BY <2>1
<1>6. \A c \in Controller : controller[c].live => \E k \in DOMAIN S : S[k] = c
  BY <1>1, AskedAreLive
<1>7. \A k \in DOMAIN S : /\ Len(reads) + k \in DOMAIN reads'
                          /\ reads'[Len(reads) + k] = ReadOf(S[k], IdsOf(S[k]))
  BY <1>1, <1>3, AnnouncedReads
<1>8. /\ \A n \in DOMAIN reads' : n \in DOMAIN reads \/
           \E k \in DOMAIN S : n = Len(reads) + k
      /\ \A k \in DOMAIN reads : reads'[k] = reads[k]
  BY <1>1, <1>3, AnnouncedReads
<1>9. DOMAIN reads = 1..Len(reads) /\ Len(reads) \in Nat
  BY <1>1, ReadPositions
<1>10. \A k \in DOMAIN S :
         /\ reads'[Len(reads) + k].controller = S[k]
         /\ DOMAIN reads'[Len(reads) + k].found = IdsOf(S[k])
         /\ \A i \in IdsOf(S[k]) : i \in Id /\
              reads'[Len(reads) + k].found[i] = store[i]
  <2>1. TAKE k \in DOMAIN S
  <2>2. IdsOf(S[k]) \in SUBSET Id
    BY <1>1, <1>5, IdsOfAreIds
  <2>3. QED
    BY <1>1, <1>5, <1>7, <2>2, ReadIsFound
<1>11. \A c \in Controller : /\ controller'[c].live = controller[c].live
                             /\ IdsOf(c)' = IdsOf(c)
  <2>1. TAKE c \in Controller
  <2>2. controller[c] \in MadeController
    BY <1>1 DEF ViewTypes
  <2>3. DOMAIN Loading(controller[c].state).shown = DOMAIN controller[c].state.shown
    BY <2>2, LoadingIsShown DEF MadeController
  <2>4. controller'[c] =
          IF controller[c].live
            THEN [controller[c] EXCEPT !.state = Loading(@)] ELSE controller[c]
    BY <1>1, AnnounceDoes
  <2>5. QED
    BY <2>2, <2>3, <2>4 DEF IdsOf, MadeController
<1>12. ASSUME NEW c \in Controller, controller[c].live, NEW n \in 0..Len(reads)
       PROVE  LaterRead(n, c)'
  <2>1. PICK k \in DOMAIN S : S[k] = c
    BY <1>6, <1>12
  <2>2. /\ Len(reads) + k \in DOMAIN reads' /\ Len(reads) + k > n
        /\ reads'[Len(reads) + k].controller = c
    BY <1>5, <1>7, <1>9, <1>10, <2>1
  <2>3. QED
    BY <2>2 DEF LaterRead
<1>13. StoreIsAhead'
  BY <1>1 DEF StoreIsAhead
<1>14. LastReadIsNew'
  <2> SUFFICES ASSUME NEW n \in DOMAIN reads', NEW c,
                      c = reads'[n].controller, controller'[c].live
      PROVE  /\ DOMAIN reads'[n].found = IdsOf(c)'
             /\ \/ LaterRead(n, c)'
                \/ \A i \in DOMAIN reads'[n].found :
                     reads'[n].found[i] >= announced'[i]
    BY DEF LastReadIsNew
  <2>1. CASE n \in DOMAIN reads
    <3>1. c = reads[n].controller /\ reads'[n] = reads[n] /\ c \in Controller
      BY <1>1, <1>8, <2>1, ReadPositions
    <3>2. controller[c].live
      BY <1>11, <3>1
    <3>3. LaterRead(n, c)'
      BY <1>9, <1>12, <2>1, <3>1, <3>2
    <3>4. DOMAIN reads[n].found = IdsOf(c)
      BY <2>1, <3>1, <3>2 DEF QuietInv, LastReadIsNew
    <3>5. QED
      BY <1>11, <3>1, <3>3, <3>4
  <2>2. ASSUME NEW k \in DOMAIN S, n = Len(reads) + k
        PROVE  /\ DOMAIN reads'[n].found = IdsOf(c)'
               /\ \A i \in DOMAIN reads'[n].found :
                     reads'[n].found[i] >= announced'[i]
    <3>1. c = S[k] /\ c \in Controller
      BY <1>5, <1>10, <2>2
    <3>2. DOMAIN reads'[n].found = IdsOf(c)
      BY <1>10, <2>2, <3>1
    <3>3. \A i \in IdsOf(c) : reads'[n].found[i] = store[i] /\ store[i] \in Nat
      BY <1>1, <1>10, <2>2, <3>1
    <3>4. QED
      BY <1>11, <3>1, <3>2, <3>3
  <2>3. QED
    BY <1>8, <2>1, <2>2
<1>15. OldReadIsNotLast'
  <2> SUFFICES ASSUME NEW v \in View, NEW n \in DOMAIN reads', NEW c,
                      reads'[n].controller = view[v].old,
                      c = view[v].current, c # NoController
      PROVE  LaterRead(n, c)'
    <3>1. \A v \in View, n \in DOMAIN reads' :
            (reads'[n].controller = view'[v].old
               /\ view'[v].current # NoController) =>
              \A c : c = view'[v].current => LaterRead(n, c)'
      BY <1>4
    <3>2. QED
      BY <3>1 DEF OldReadIsNotLast, LaterRead
  <2>1. c \in Controller /\ controller[c].live
    BY <1>1, CurrentIsLive
  <2>2. CASE n \in DOMAIN reads
    BY <1>9, <1>12, <2>1, <2>2
  <2>3. ASSUME NEW k \in DOMAIN S, n = Len(reads) + k
        PROVE  LaterRead(n, c)'
    <3>1. S[k] = view[v].old
      BY <1>10, <2>3
    <3>2. PICK m \in DOMAIN S : S[m] = c
      BY <1>6, <2>1
    <3>3. k < m
      BY <1>1, <3>1, <3>2, OldIsAskedFirst
    <3>4. /\ Len(reads) + m \in DOMAIN reads' /\ Len(reads) + m > n
          /\ reads'[Len(reads) + m].controller = c
      BY <1>5, <1>7, <1>9, <1>10, <2>3, <3>2, <3>3
    <3>5. QED
      BY <3>4 DEF LaterRead
  <2>4. QED
    BY <1>8, <2>2, <2>3
<1>16. ASSUME NEW v \in View PROVE QuietShows(v)'
  <2>1. ASSUME NEW c, c = view[v].current, c # NoController
        PROVE  LaterRead(0, c)'
    <3>1. c \in Controller /\ controller[c].live
      BY <1>1, <2>1, CurrentIsLive
    <3>2. QED
      BY <1>9, <1>12, <3>1
  <2>2. \A c : (c = view'[v].current /\ c # NoController) => LaterRead(0, c)'
    BY <1>4, <2>1
  <2>3. QED
    BY <2>2 DEF QuietShows, LaterRead
<1>17. QED
  BY <1>2, <1>13, <1>14, <1>15, <1>16 DEF QuietInv


LEMMA CreateQuiet ==
  ASSUME QuietInv, NEW c \in Controller, NEW v \in View, NEW ids \in SUBSET Id,
         CreateController(c, v, ids), GoneInv',
         UNCHANGED <<kind, collection>>,
         \A w \in View : w # v => view'[w] = view[w],
         view'[v].current = c, view'[v].old = view[v].current
  PROVE  QuietInv'
<1>1. GoneInv /\ ViewTypes /\ store \in [Id -> Nat] /\ announced \in [Id -> Nat]
  BY DEF QuietInv, GoneInv, ViewTypes
<1>2. /\ store' = store /\ announced' = announced /\ syncState' = syncState
      /\ kind' = kind
  BY DEF collection
<1>3. /\ \A d \in Controller : d # c => controller'[d] = controller[d]
      /\ controller'[c].state = Loading(InitialState(ids))
      /\ \A w \in View : c \notin Owned(w)
      /\ \A k \in DOMAIN reads : reads[k].controller # c
      /\ reads' = Append(reads, ReadOf(c, ids))
  BY <1>1, CreateDoes
<1>4. /\ DOMAIN reads = 1..Len(reads) /\ Len(reads) \in Nat
      /\ \A k \in DOMAIN reads : k \in Nat /\ k > 0
      /\ \A k \in DOMAIN reads : reads[k].controller \in Controller
  BY <1>1, ReadPositions
<1> DEFINE n == Len(reads) + 1
<1>5. /\ DOMAIN reads' = 1..n
      /\ \A k \in DOMAIN reads : reads'[k] = reads[k]
      /\ reads'[n] = ReadOf(c, ids)
  <2>1. reads \in Seq([controller: Controller, found: Found])
    BY <1>1 DEF ViewTypes
  <2>2. ReadOf(c, ids) \in [controller: Controller, found: Found]
    BY <1>1, ReadIsFound
  <2>3. QED
    BY <1>3, <2>1, <2>2, Extended
<1>6. /\ reads'[n].controller = c /\ DOMAIN reads'[n].found = ids
      /\ \A i \in ids : reads'[n].found[i] = store[i]
  BY <1>1, <1>5, ReadIsFound
<1>7. /\ n \in Nat /\ n > 0 /\ n \in DOMAIN reads' /\ n \notin DOMAIN reads
      /\ \A k \in DOMAIN reads : k \in DOMAIN reads'
      /\ \A k \in DOMAIN reads' : k \in DOMAIN reads \/ k = n
      /\ \A k \in DOMAIN reads : k < n
  BY <1>4, <1>5
<1> HIDE DEF n
<1>8. IdsOf(c)' = ids
  <2>1. DOMAIN Loading(InitialState(ids)).shown = ids
    BY InitialIsShown, LoadingIsShown
  <2>2. QED
    BY <1>3, <2>1 DEF IdsOf
<1>9. \A d \in Controller : d # c => IdsOf(d)' = IdsOf(d)
  BY <1>3 DEF IdsOf
<1>10. \A m \in Nat : \A d : LaterRead(m, d) => LaterRead(m, d)'
  BY <1>5, <1>7 DEF LaterRead
<1>11. \A m \in Nat : \A d : d # c /\ LaterRead(m, d)' => LaterRead(m, d)
  BY <1>5, <1>6, <1>7 DEF LaterRead
<1>12. \A m \in Nat : m < n => LaterRead(m, c)'
  BY <1>6, <1>7 DEF LaterRead
<1>13. StoreIsAhead'
  BY <1>2 DEF QuietInv, StoreIsAhead
<1>14. LastReadIsNew'
  <2> SUFFICES ASSUME NEW k \in DOMAIN reads', NEW d,
                      d = reads'[k].controller, controller'[d].live
      PROVE  /\ DOMAIN reads'[k].found = IdsOf(d)'
             /\ \/ LaterRead(k, d)'
                \/ \A i \in DOMAIN reads'[k].found :
                     reads'[k].found[i] >= announced'[i]
    BY DEF LastReadIsNew
  <2>1. CASE k = n
    <3>1. \A i \in ids : store[i] >= announced[i]
      BY DEF QuietInv, StoreIsAhead
    <3>2. QED
      BY <1>2, <1>6, <1>8, <2>1, <3>1
  <2>2. CASE k \in DOMAIN reads
    <3>1. /\ reads'[k] = reads[k] /\ d = reads[k].controller
          /\ d # c /\ d \in Controller /\ k \in Nat
      BY <1>3, <1>4, <1>5, <2>2
    <3>2. controller[d].live
      BY <1>3, <3>1
    <3>3. /\ DOMAIN reads[k].found = IdsOf(d)
          /\ \/ LaterRead(k, d)
             \/ \A i \in DOMAIN reads[k].found : reads[k].found[i] >= announced[i]
      BY <2>2, <3>1, <3>2 DEF QuietInv, LastReadIsNew
    <3>4. QED
      BY <1>2, <1>9, <1>10, <3>1, <3>3
  <2>3. QED
    BY <1>7, <2>1, <2>2
<1>15. \A w \in View : /\ w # v => view'[w].current # c /\ view'[w].old # c
                       /\ view'[v].old # c
  BY <1>3, ViewConstants DEF Owned
<1>16. OldReadIsNotLast'
  <2> SUFFICES ASSUME NEW w \in View, NEW k \in DOMAIN reads', NEW d,
                      reads'[k].controller = view'[w].old,
                      d = view'[w].current, d # NoController
      PROVE  LaterRead(k, d)'
    BY DEF OldReadIsNotLast, LaterRead
  <2>1. k \in DOMAIN reads /\ k \in Nat
    BY <1>4, <1>6, <1>7, <1>15
  <2>2. CASE w = v
    BY <1>7, <1>12, <2>1, <2>2
  <2>3. CASE w # v
    <3>1. reads[k].controller = view[w].old /\ d = view[w].current
      BY <1>5, <2>1, <2>3
    <3>2. LaterRead(k, d)
      BY <2>1, <3>1 DEF QuietInv, OldReadIsNotLast
    <3>3. QED
      BY <1>10, <2>1, <3>2
  <2>4. QED
    BY <2>2, <2>3
<1>17. ASSUME NEW w \in View PROVE QuietShows(w)'
  <2>1. CASE w = v
    <3>1. LaterRead(0, c)'
      BY <1>7, <1>12
    <3>2. \A d : d = view'[w].current => LaterRead(0, d)'
      BY <2>1, <3>1
    <3>3. QED
      BY <3>2 DEF QuietShows, LaterRead
  <2>2. CASE w # v
    <3>1. view'[w] = view[w]
      BY <2>2
    <3>2. ASSUME NEW d, d = view[w].current, d # NoController, ~LaterRead(0, d)'
          PROVE  /\ controller'[d] = controller[d]
                 /\ ~LaterRead(0, d)
      BY <1>1, <1>3, <1>10, <1>15, <2>2, <3>1, <3>2, CurrentIsLive
    <3>3. QED
      BY <1>2, <3>1, <3>2 DEF QuietInv, QuietShows, LaterRead
  <2>3. QED
    BY <2>1, <2>2
<1>18. QED
  BY <1>13, <1>14, <1>16, <1>17 DEF QuietInv

\* A step that makes no controller and no read.
LEMMA OwnersQuiet ==
  ASSUME QuietInv, GoneInv', NEW v \in View,
         UNCHANGED <<kind, collection, reads>>,
         \A w \in View : w # v => view'[w] = view[w],
         view'[v].current # NoController =>
           /\ view'[v].current = view[v].current
           /\ view'[v].state = view[v].state
           /\ view'[v].old \in {view[v].old, NoController},
         \A c \in Controller : controller'[c].live => controller'[c] = controller[c]
  PROVE  QuietInv'
<1>1. GoneInv /\ ViewTypes
  BY DEF QuietInv, GoneInv
<1>2. /\ store' = store /\ announced' = announced /\ syncState' = syncState
      /\ kind' = kind /\ reads' = reads
  BY DEF collection
<1>3. \A k \in DOMAIN reads : reads[k].controller \in Controller
  BY <1>1, ReadPositions
<1>4. \A m, d : LaterRead(m, d)' <=> LaterRead(m, d)
  BY <1>2 DEF LaterRead
<1>5. StoreIsAhead'
  BY <1>2 DEF QuietInv, StoreIsAhead
<1>6. LastReadIsNew'
  BY <1>2, <1>3, <1>4 DEF QuietInv, LastReadIsNew, IdsOf
<1>7. OldReadIsNotLast'
  <2> SUFFICES ASSUME NEW w \in View, NEW k \in DOMAIN reads, NEW d,
                      reads[k].controller = view'[w].old,
                      d = view'[w].current, d # NoController
      PROVE  LaterRead(k, d)
    BY <1>2 DEF OldReadIsNotLast, LaterRead
  <2>1. view'[w].old # NoController
    BY <1>3, ViewConstants
  <2>2. view[w].old = view'[w].old /\ view[w].current = d
    BY <2>1
  <2>3. QED
    BY <2>2 DEF QuietInv, OldReadIsNotLast
<1>8. ASSUME NEW w \in View PROVE QuietShows(w)'
  <2>1. ASSUME NEW d, d = view'[w].current, d # NoController
        PROVE  /\ view[w].current = d /\ view'[w].state = view[w].state
               /\ controller'[d] = controller[d]
    <3>1. view[w].current = d /\ view'[w].state = view[w].state
      BY <2>1
    <3>2. d \in Controller /\ controller'[d].live
      BY <2>1 DEF GoneInv, LiveIsOwned, Owned, ViewTypes, MadeView
    <3>3. QED
      BY <3>1, <3>2
  <2>2. QED
    BY <1>2, <1>4, <2>1 DEF QuietInv, QuietShows
<1>9. QED
  BY <1>5, <1>6, <1>7, <1>8 DEF QuietInv


\* The first read arrives: what it leaves is newer than what was announced,
\* or another read of the controller is still under way.
LEMMA SettleQuiet ==
  ASSUME QuietInv, GoneInv', Ordered, NEW k \in DOMAIN reads, NEW left,
         Settle(k, left),
         \/ left = Loaded(reads[k].controller, reads[k].found)
         \/ left = Failed(reads[k].controller)
  PROVE  QuietInv'
<1>1. GoneInv /\ ViewTypes
  BY DEF QuietInv, GoneInv
<1>2. k = 1
  BY DEF Settle
<1> DEFINE c == reads[1].controller
           found == reads[1].found
<1>3. /\ reads' = RemoveAt(reads, 1)
      /\ store' = store /\ announced' = announced /\ syncState' = syncState
      /\ kind' = kind
  BY <1>2 DEF Settle, collection
<1>4. /\ DOMAIN reads = 1..Len(reads) /\ Len(reads) \in Nat
      /\ \A j \in DOMAIN reads : j \in Nat /\ j > 0
      /\ \A j \in DOMAIN reads : reads[j].controller \in Controller
      /\ c \in Controller /\ 1 \in DOMAIN reads
  BY <1>1, <1>2, ReadPositions
<1>5. /\ \A j \in DOMAIN reads' : j \in Nat /\ j > 0 /\ j + 1 \in DOMAIN reads
                                  /\ reads'[j] = reads[j + 1]
      /\ \A j \in DOMAIN reads : j > 1 => j - 1 \in DOMAIN reads'
  <2>1. reads \in Seq([controller: Controller, found: Found])
    BY <1>1 DEF ViewTypes
  <2>2. /\ reads' \in Seq([controller: Controller, found: Found])
        /\ Len(reads') = Len(reads) - 1
        /\ \A j \in DOMAIN reads' : reads'[j] = IF j < 1 THEN reads[j] ELSE reads[j + 1]
    BY <1>3, <1>4, <2>1, Shortened
  <2>3. DOMAIN reads' = 1..(Len(reads) - 1)
    BY <1>4, <2>2
  <2>4. QED
    BY <1>4, <2>2, <2>3
<1>6. \A m \in Nat : \A d : m > 0 /\ LaterRead(m, d) => LaterRead(m - 1, d)'
  <2> SUFFICES ASSUME NEW m \in Nat, NEW d, m > 0,
                      NEW j \in DOMAIN reads, j > m, reads[j].controller = d
               PROVE  \E i \in DOMAIN reads' : i > m - 1 /\ reads'[i].controller = d
    BY DEF LaterRead
  <2>1. j - 1 \in DOMAIN reads' /\ j - 1 > m - 1 /\ (j - 1) + 1 = j
    BY <1>4, <1>5
  <2>2. reads'[j - 1].controller = d
    BY <1>5, <2>1
  <2>3. QED
    BY <2>1, <2>2
<1>7. \A d \in Controller : /\ d # c => controller'[d] = controller[d]
                            /\ controller'[d].live = controller[d].live
                            /\ IdsOf(d)' = IdsOf(d)
  <2>1. CASE ~controller[c].live
    BY <1>2, <2>1 DEF Settle, IdsOf
  <2>2. CASE controller[c].live
    <3>1. controller' = [controller EXCEPT ![c].state = left]
      BY <1>2, <2>2 DEF Settle
    <3>2. controller \in [Controller -> MadeController]
      BY <1>1 DEF ViewTypes
    <3>3. /\ \A d \in Controller : d # c => controller'[d] = controller[d]
          /\ \A d \in Controller : controller'[d].live = controller[d].live
          /\ controller'[c].state = left
      BY <1>4, <3>1, <3>2 DEF MadeController
    <3>4. DOMAIN left.shown = IdsOf(c)
      <4>1. controller[c].state \in ShownState
        BY <1>4, <3>2 DEF MadeController
      <4>2. DOMAIN found = IdsOf(c)
        BY <1>4, <2>2 DEF QuietInv, LastReadIsNew
      <4>3. CASE left = Loaded(c, found)
        BY <4>1, <4>2, <4>3 DEF Loaded, ShownState
      <4>4. CASE left = Failed(c)
        BY <4>1, <4>4 DEF Failed, ShownState, IdsOf
      <4>5. QED
        BY <1>2, <4>3, <4>4
    <3>5. QED
      BY <3>3, <3>4 DEF IdsOf
  <2>3. QED
    BY <2>1, <2>2
<1>8. \A w \in View : view'[w].current = view[w].current
                       /\ view'[w].old = view[w].old
  <2>1. CASE ~controller[c].live
    BY <1>2, <2>1 DEF Settle
  <2>2. CASE controller[c].live
    <3>1. view' = [view EXCEPT ![controller[c].view].state = left]
      BY <1>2, <2>2 DEF Settle
    <3>2. QED
      BY <1>1, <3>1 DEF ViewTypes, MadeView
  <2>3. QED
    BY <2>1, <2>2
<1>9. StoreIsAhead'
  BY <1>3 DEF QuietInv, StoreIsAhead
<1>10. LastReadIsNew'
  <2> SUFFICES ASSUME NEW j \in DOMAIN reads', NEW d,
                      d = reads'[j].controller, controller'[d].live
      PROVE  /\ DOMAIN reads'[j].found = IdsOf(d)'
             /\ \/ LaterRead(j, d)'
                \/ \A i \in DOMAIN reads'[j].found :
                     reads'[j].found[i] >= announced'[i]
    BY DEF LastReadIsNew
  <2>1. /\ j + 1 \in DOMAIN reads /\ reads'[j] = reads[j + 1]
        /\ j + 1 \in Nat /\ j + 1 > 0 /\ (j + 1) - 1 = j
    BY <1>5
  <2>2. d = reads[j + 1].controller /\ d \in Controller
    BY <1>4, <2>1
  <2>3. /\ DOMAIN reads[j + 1].found = IdsOf(d)
        /\ \/ LaterRead(j + 1, d)
           \/ \A i \in DOMAIN reads[j + 1].found :
                reads[j + 1].found[i] >= announced[i]
    BY <1>7, <2>1, <2>2 DEF QuietInv, LastReadIsNew
  <2>4. LaterRead(j + 1, d) => LaterRead(j, d)'
    <3>1. LaterRead(j + 1, d) => LaterRead((j + 1) - 1, d)'
      BY <1>6, <2>1
    <3>2. QED
      BY <2>1, <3>1
  <2>5. QED
    BY <1>3, <1>7, <2>1, <2>2, <2>3, <2>4
<1>11. OldReadIsNotLast'
  <2> SUFFICES ASSUME NEW w \in View, NEW j \in DOMAIN reads', NEW d,
                      reads'[j].controller = view[w].old,
                      d = view[w].current, d # NoController
      PROVE  LaterRead(j, d)'
    <3>1. \A w \in View, j \in DOMAIN reads' :
            (reads'[j].controller = view'[w].old
               /\ view'[w].current # NoController) =>
              \A d : d = view'[w].current => LaterRead(j, d)'
      BY <1>8
    <3>2. QED
      BY <3>1 DEF OldReadIsNotLast, LaterRead
  <2>1. /\ j + 1 \in DOMAIN reads /\ reads'[j] = reads[j + 1]
        /\ j + 1 \in Nat /\ j + 1 > 0 /\ (j + 1) - 1 = j
    BY <1>5
  <2>2. LaterRead(j + 1, d)
    BY <2>1 DEF QuietInv, OldReadIsNotLast
  <2>3. LaterRead((j + 1) - 1, d)'
    BY <1>6, <2>1, <2>2
  <2>4. QED
    BY <2>1, <2>3
<1>12. ASSUME NEW w \in View PROVE QuietShows(w)'
  <2> SUFFICES ASSUME NEW d, d = view[w].current, d # NoController,
                      ~LaterRead(0, d)'
      PROVE  /\ view'[w].state = controller'[d].state
             /\ ~controller'[d].state.isLoading
             /\ ~controller'[d].state.error =>
                  /\ \A i \in DOMAIN controller'[d].state.shown :
                       controller'[d].state.shown[i] >= announced'[i]
                  /\ IsCollection(kind'[w]) =>
                       controller'[d].state.syncState = syncState'
    <3>1. ASSUME NEW d, d = view'[w].current, d # NoController,
                 ~LaterRead(0, d)'
          PROVE  /\ view'[w].state = controller'[d].state
                 /\ ~controller'[d].state.isLoading
                 /\ ~controller'[d].state.error =>
                      /\ \A i \in DOMAIN controller'[d].state.shown :
                           controller'[d].state.shown[i] >= announced'[i]
                      /\ IsCollection(kind'[w]) =>
                           controller'[d].state.syncState = syncState'
      BY <1>8, <3>1
    <3>2. QED
      BY <3>1 DEF QuietShows, LaterRead
  <2>1. d \in Controller /\ controller[d].live /\ controller[d].view = w
    BY <1>1, CurrentIsLive
  <2>2. ~LaterRead(1, d)
    <3>1. LaterRead(1, d) => LaterRead(1 - 1, d)'
      BY <1>6
    <3>2. QED
      BY <3>1
  <2>3. CASE d = c
    <3>1. /\ controller' = [controller EXCEPT ![c].state = left]
          /\ view' = [view EXCEPT ![w].state = left]
      BY <1>2, <2>1, <2>3 DEF Settle
    <3>2. /\ controller[c].state \in ShownState
          /\ controller'[c].state = left
      BY <1>1, <1>4, <3>1 DEF ViewTypes, MadeController
    <3>3. view'[w].state = left
      BY <1>1, <3>1 DEF ViewTypes, MadeView
    <3>4. CASE left = Failed(c)
      BY <2>3, <3>2, <3>3, <3>4 DEF Failed, ShownState
    <3>5. CASE left = Loaded(c, found)
      <4>1. /\ left.shown = found /\ ~left.isLoading
            /\ IsCollection(kind[w]) => left.syncState = syncState
        BY <2>1, <2>3, <3>2, <3>5 DEF Loaded, ShownState, ViewKind
      <4>2. \A i \in DOMAIN found : found[i] >= announced[i]
        BY <1>4, <2>1, <2>2, <2>3 DEF QuietInv, LastReadIsNew
      <4>3. QED
        BY <1>3, <2>3, <3>2, <3>3, <4>1, <4>2
    <3>6. QED
      BY <1>2, <3>4, <3>5
  <2>4. CASE d # c
    <3>1. ~LaterRead(0, d)
      BY <1>4, <2>2, <2>4 DEF LaterRead
    <3>2. /\ view[w].state = controller[d].state
          /\ ~controller[d].state.isLoading
          /\ ~controller[d].state.error =>
               /\ \A i \in DOMAIN controller[d].state.shown :
                    controller[d].state.shown[i] >= announced[i]
               /\ IsCollection(kind[w]) => controller[d].state.syncState = syncState
      BY <3>1 DEF QuietInv, QuietShows
    <3>3. controller'[d] = controller[d]
      BY <1>7, <2>1, <2>4
    <3>4. view'[w].state = view[w].state
      <4>1. CASE ~controller[c].live
        BY <1>2, <4>1 DEF Settle
      <4>2. CASE controller[c].live /\ controller[c].view = w
        <5>1. c \in Owned(w)
          BY <1>1, <1>4, <4>2 DEF GoneInv, LiveIsOwned
        <5>2. c = view[w].old
          BY <2>4, <5>1 DEF Owned
        <5>3. LaterRead(1, d)
          BY <1>4, <5>2 DEF QuietInv, OldReadIsNotLast
        <5>4. QED
          BY <2>2, <5>3
      <4>3. CASE controller[c].live /\ controller[c].view # w
        <5>1. view' = [view EXCEPT ![controller[c].view].state = left]
          BY <1>2, <4>3 DEF Settle
        <5>2. QED
          BY <1>1, <4>3, <5>1 DEF ViewTypes
      <4>4. QED
        BY <4>1, <4>2, <4>3
    <3>5. QED
      BY <1>3, <3>2, <3>3, <3>4
  <2>5. QED
    BY <2>3, <2>4
<1>13. QED
  BY <1>9, <1>10, <1>11, <1>12 DEF QuietInv


LEMMA StoreQuiet ==
  ASSUME QuietInv, GoneInv', NEW i \in Id, WriteEntity(i) \/ ApplyRemote(i)
  PROVE  QuietInv'
<1>1. /\ store' = [store EXCEPT ![i] = @ + 1]
      /\ UNCHANGED <<kind, syncState, announced, listeners, controller, reads,
                     view>>
  BY DEF WriteEntity, ApplyRemote
<1>2. store \in [Id -> Nat] /\ announced \in [Id -> Nat]
  BY DEF QuietInv, GoneInv, ViewTypes
<1>3. StoreIsAhead'
  <2>1. \A j \in Id : store'[j] >= store[j]
    BY <1>1, <1>2
  <2>2. \A j \in Id : store'[j] \in Nat
    BY <1>1, <1>2
  <2>3. QED
    BY <1>1, <1>2, <2>1, <2>2 DEF QuietInv, StoreIsAhead
<1>4. LastReadIsNew' /\ OldReadIsNotLast'
  BY <1>1 DEF QuietInv, LastReadIsNew, OldReadIsNotLast, LaterRead, IdsOf
<1>5. \A v \in View : QuietShows(v)'
  BY <1>1 DEF QuietInv, QuietShows, LaterRead
<1>6. QED
  BY <1>3, <1>4, <1>5 DEF QuietInv

LEMMA RenderQuiet ==
  ASSUME QuietInv, GoneInv', NEW v \in View, NEW ids \in SUBSET Id,
         Render(v, ids) \/ Setup(v, ids)
  PROVE  QuietInv'
<1>1. view \in [View -> MadeView] /\ view[v] \in MadeView
  BY DEF QuietInv, GoneInv, ViewTypes
<1>2. UNCHANGED <<kind, collection>>
  BY DEF Render, Setup
<1>3. CASE /\ view' = [view EXCEPT ![v] =
                [@ EXCEPT !.stage = "rendered", !.old = view[v].current,
                          !.current = NoController]]
           /\ UNCHANGED <<controller, listeners, reads>>
  <2>1. /\ \A w \in View : w # v => view'[w] = view[w]
        /\ view'[v].current = NoController
    BY <1>1, <1>3 DEF MadeView
  <2>2. QED
    BY <1>2, <1>3, <2>1, OwnersQuiet
<1>4. ASSUME NEW c \in Controller, CreateController(c, v, ids),
             \/ view' = [view EXCEPT ![v] =
                  [@ EXCEPT !.stage = "rendered", !.old = view[v].current,
                            !.current = c, !.state = controller'[c].state]]
             \/ /\ view[v].stage = "absent"
                /\ view' = [view EXCEPT ![v] =
                     [@ EXCEPT !.stage = "mounted", !.current = c,
                               !.state = controller'[c].state]]
      PROVE  QuietInv'
  <2>1. view[v].stage = "absent" => view[v].old = view[v].current
    BY DEF QuietInv, GoneInv, OldIsPassed, Absent
  <2>2. \A w \in View : w # v => view'[w] = view[w]
    BY <1>1, <1>4
  <2>3. view'[v].current = c /\ view'[v].old = view[v].current
    <3>1. CASE view' = [view EXCEPT ![v] =
                 [@ EXCEPT !.stage = "rendered", !.old = view[v].current,
                           !.current = c, !.state = controller'[c].state]]
      BY <1>1, <3>1 DEF MadeView
    <3>2. CASE /\ view[v].stage = "absent"
               /\ view' = [view EXCEPT ![v] =
                    [@ EXCEPT !.stage = "mounted", !.current = c,
                              !.state = controller'[c].state]]
      BY <1>1, <2>1, <3>2 DEF MadeView
    <3>3. QED
      BY <1>4, <3>1, <3>2
  <2>4. QED
    BY <1>2, <1>4, <2>2, <2>3, CreateQuiet
<1>5. QED
  BY <1>3, <1>4 DEF Render, Setup

LEMMA EffectsQuiet ==
  ASSUME QuietInv, GoneInv', NEW v \in View, RunEffects(v) \/ Unmount(v)
  PROVE  QuietInv'
<1>1. view \in [View -> MadeView] /\ GoneInv
  BY DEF QuietInv, GoneInv, ViewTypes
<1>2. /\ UNCHANGED <<kind, collection, reads>>
      /\ \E d \in {view[v].old, view[v].current} : Dispose({d})
  BY DEF RunEffects, Unmount
<1>3. PICK d \in {view[v].old, view[v].current} : Dispose({d})
  BY <1>2
<1>4. d \in Controller \cup {NoController}
  BY <1>1 DEF MadeView
<1>5. /\ \A c \in Controller : c # d => controller'[c] = controller[c]
      /\ d \in Controller => ~controller'[d].live
  BY <1>1, <1>3, <1>4, DisposeDoes
<1>6. CASE RunEffects(v)
  <2>1. /\ \A w \in View : w # v => view'[w] = view[w]
        /\ view'[v].current = view[v].current /\ view'[v].old = NoController
        /\ view'[v].state = view[v].state
    BY <1>1, <1>6 DEF RunEffects, MadeView
  <2>2. QED
    BY <1>2, <1>5, <2>1, OwnersQuiet
<1>7. CASE Unmount(v)
  <2>1. /\ \A w \in View : w # v => view'[w] = view[w]
        /\ view'[v].current = NoController
    BY <1>1, <1>7 DEF Unmount, Absent
  <2>2. QED
    BY <1>2, <1>5, <2>1, OwnersQuiet
<1>8. QED
  BY <1>6, <1>7

LEMMA QuietStarts == ViewsInit => QuietInv
<1> SUFFICES ASSUME ViewsInit PROVE QuietInv
  OBVIOUS
<1>1. GoneInv
  BY GoneStarts
<1>2. /\ StoreIsAhead
  BY DEF ViewsInit, StoreIsAhead, Nothing
<1>3. reads = <<>>
  BY DEF ViewsInit
<1>4. LastReadIsNew /\ OldReadIsNotLast
  BY <1>3 DEF LastReadIsNew, OldReadIsNotLast
<1>5. \A v \in View : view[v].current = NoController
  BY DEF ViewsInit, Absent
<1>6. \A v \in View : QuietShows(v)
  BY <1>5 DEF QuietShows
<1>7. QED
  BY <1>1, <1>2, <1>4, <1>6 DEF QuietInv

LEMMA QuietStep == ASSUME Ordered, QuietInv, [ViewsNext]_viewsVars
                   PROVE  QuietInv'
<1>1. GoneInv /\ GoneInv'
  BY GoneStep DEF QuietInv
<1>2. CASE UNCHANGED viewsVars
  BY <1>1, <1>2
     DEF viewsVars, collection, QuietInv, StoreIsAhead, LastReadIsNew,
         OldReadIsNotLast, QuietShows, LaterRead, IdsOf
<1>3. ASSUME NEW v \in View,
             UseCollection(v) \/ UseEntity(v) \/ VueUseCollection(v)
               \/ VueUseEntity(v)
      PROVE  QuietInv'
  BY <1>1, <1>3, RenderQuiet, EffectsQuiet
     DEF UseCollection, UseEntity, VueUseCollection, VueUseEntity
<1>4. ASSUME NEW hook, ReadSettles(hook) PROVE QuietInv'
  BY <1>1, <1>4, SettleQuiet DEF ReadSettles
<1>5. ASSUME ReadArrives PROVE QuietInv'
  BY <1>4, <1>5 DEF ReadArrives, ReactCollectionRead, ReactEntityRead,
                        VueCollectionRead, VueEntityRead
<1>6. ASSUME NEW i \in Id, WriteEntity(i) \/ ApplyRemote(i) PROVE QuietInv'
  BY <1>1, <1>6, StoreQuiet
<1>7. store \in [Id -> Nat] /\ syncState \in SyncStates
  BY <1>1 DEF GoneInv, ViewTypes
<1>8. ASSUME EmitChange PROVE QuietInv'
  BY <1>7, <1>8, AnnounceQuiet DEF EmitChange
<1>9. ASSUME NEW s \in SyncStates, SetSyncState(s) PROVE QuietInv'
  BY <1>7, <1>9, AnnounceQuiet DEF SetSyncState
<1>10. QED
  BY <1>2, <1>3, <1>5, <1>6, <1>8, <1>9 DEF ViewsNext

\* If reads come back in the order they were made, a mounted React component
\* whose reads are in shows what it was last asked for, nothing older than the
\* last announcement, or an error (refresh() of the controllers, and the effects
\* that dispose of a former one).  Of Vue the proof says this of the refs, which
\* its components do not get.
THEOREM QuietViewsAreCurrent == Ordered => (ViewsSpec => []QuietIsCurrent)
<1>1. ASSUME QuietInv PROVE QuietIsCurrent
  <2> SUFFICES ASSUME NEW v \in View, NEW c, c = view[v].current,
                      view[v].stage = "mounted", c # NoController,
                      ReadsOf(v) = {}, IsReact(kind[v])
      PROVE  LET s == view[v].state
             IN /\ ~s.isLoading
                /\ DOMAIN s.shown = IdsOf(c)
                /\ ~s.error =>
                     /\ \A i \in DOMAIN s.shown : s.shown[i] >= announced[i]
                     /\ IsCollection(kind[v]) => s.syncState = syncState
    BY DEF QuietIsCurrent, Quiet, IsCurrent, Returned
  <2>1. GoneInv
    BY <1>1 DEF QuietInv
  <2>2. controller[c].live /\ controller[c].view = v
    BY <2>1, CurrentIsLive
  <2>3. ~LaterRead(0, c)
    BY <2>2 DEF LaterRead, ReadsOf
  <2>4. QuietShows(v)
    BY <1>1 DEF QuietInv
  <2>5. QED
    BY <2>3, <2>4 DEF QuietShows, IdsOf
<1>2. QuietInv => QuietIsCurrent
  BY <1>1
<1>3. SUFFICES ASSUME Ordered PROVE ViewsSpec => []QuietIsCurrent
  OBVIOUS
<1>4. QuietInv /\ [ViewsNext]_viewsVars => QuietInv'
  BY <1>3, QuietStep
<1>5. QED
  BY <1>2, <1>4, QuietStarts, PTL DEF ViewsSpec
=============================================================================
