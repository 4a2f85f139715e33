---------------------------- MODULE SQLiteStorage ----------------------------
(***************************************************************************)
(* SQLiteStorageAdapter and SQLiteTransaction: adapters, each with one     *)
(* connection, on one database file, and the tasks (chains of awaits) of   *)
(* the application that call them.                                         *)
(*                                                                         *)
(* A statement is synchronous, and every adapter method runs one: between  *)
(* two statements any other task may run.  Nothing ties a statement to the *)
(* transaction it is made in but the connection: get, put, delete and      *)
(* query of any task use the adapter's connection, and so take part in the *)
(* transaction that happens to be open on it.  SQLite itself is external:  *)
(* at most one connection writes, readers see what is committed, an error  *)
(* in any statement may take the open transaction with it, whosever it is, *)
(* and a crash keeps what is committed.                                    *)
(*                                                                         *)
(* Data is a token per write, so that a row tells which write it is from.  *)
(***************************************************************************)
EXTENDS Integers, FiniteSets

CONSTANTS
  Adapter,   \* each is in a process of its own
  Task,      \* of which each has an adapter
  AdapterOf, \* task -> adapter
  Key,       \* collection and id
  NoRow,
  NoAdapter,
  MaxWrites, \* bound: writes in all
  MaxEvents  \* bound: crashes and closes together

VARIABLES
  rows,          \* key -> the committed row
  holder,        \* the adapter whose connection has a transaction open
  work,          \* key -> the row as that connection sees it
  closed,        \* the adapters that are closed
  inTransaction, \* the adapters whose flag is set
  step,          \* task -> where it is in transaction()
  wrote,         \* task -> the tokens its call of transaction() and what
                 \* joined its transaction have written
  answer,        \* what the get() or query() just made has returned, but for
                 \* what its task's own transaction has written
  writes,        \* the tokens given out
  events,        \* bound
  dead,          \* history: tokens written in transactions that failed
  stray,         \* history: tokens failed calls wrote outside a transaction,
                 \* which an error had ended before
  ended,         \* history: the tasks whose call goes on although an error
                 \* has ended its transaction
  refused        \* history: the adapters whose BEGIN has failed

database == <<rows, holder, work>>
adapters == <<closed, inTransaction>>
history  == <<dead, stray, ended, refused>>
state    == <<database, adapters, step, wrote, writes, events, history>>
vars     == <<state, answer>>

NoAnswer == {}

ASSUME StorageConstants ==
  /\ AdapterOf \in [Task -> Adapter]
  /\ NoAdapter \notin Adapter
  /\ NoRow \notin Nat
  /\ MaxWrites \in Nat /\ MaxEvents \in Nat

Init ==
  /\ rows = [k \in Key |-> NoRow]
  /\ holder = NoAdapter
  /\ work = rows
  /\ closed = {}
  /\ inTransaction = {}
  /\ step = [t \in Task |-> "idle"]
  /\ wrote = [t \in Task |-> {}]
  /\ answer = NoAnswer
  /\ writes = 0
  /\ events = 0
  /\ dead = {} /\ stray = {} /\ ended = {}
  /\ refused = {}

-----------------------------------------------------------------------------
(* SQLite. *)

\* What a statement on the connection of a sees.
RowsSeen(a) == IF holder = a THEN work ELSE rows

\* Another connection is writing: the statement fails after busy_timeout.
Busy(a) == holder \notin {a, NoAdapter}

Tokens(table) == {table[k] : k \in Key} \ {NoRow}

\* A statement of a that changes the table.
Change(a, table) ==
  IF holder = a
    THEN work' = table /\ UNCHANGED rows
    ELSE work' = table /\ rows' = table

TasksOf(a) == {t \in Task : AdapterOf[t] = a}

\* The tasks of a that are in transaction(): at most one, says
\* TransactionIsOwn.
Calling(a) == {t \in TasksOf(a) : step[t] # "idle"}

Discard(a) ==
  IF holder = a THEN holder' = NoAdapter /\ work' = rows
                ELSE UNCHANGED <<holder, work>>

-----------------------------------------------------------------------------
(* get, put, delete and query of the adapter, which any task may call, and   *)
(* of a SQLiteTransaction, called by the task whose callback runs.  They are *)
(* the same statements on the same connection.                               *)

\* assertOpen
Outside(t) ==
  /\ step[t] = "idle"
  /\ AdapterOf[t] \notin closed

\* On a closed connection every statement fails: Throw.
Inside(t) ==
  /\ step[t] = "callback"
  /\ AdapterOf[t] \notin closed

Select(t, keys) ==
  /\ answer' = {RowsSeen(AdapterOf[t])[k] : k \in keys} \ (wrote[t] \cup {NoRow})
  /\ UNCHANGED state

Upsert(t, k) ==
  LET a == AdapterOf[t]
  IN /\ ~Busy(a)
     /\ writes < MaxWrites
     /\ writes' = writes + 1
     /\ Change(a, [RowsSeen(a) EXCEPT ![k] = writes'])
     /\ wrote' = [u \in Task |->
          IF u \in Calling(a) /\ (u = t \/ holder = a)
            THEN wrote[u] \cup {writes'} ELSE wrote[u]]
     /\ UNCHANGED <<holder, adapters, step, events, history>>

DeleteRow(t, k) ==
  LET a == AdapterOf[t]
  IN /\ ~Busy(a)
     /\ RowsSeen(a)[k] # NoRow
     /\ Change(a, [RowsSeen(a) EXCEPT ![k] = NoRow])
     /\ UNCHANGED <<holder, adapters, step, wrote, writes, events, history>>

Get(t, k) == Outside(t) /\ Select(t, {k})
TxGet(t, k) == Inside(t) /\ Select(t, {k})

\* The filters of a query are left out: it returns every row.
Query(t) == Outside(t) /\ Select(t, Key)
TxQuery(t) == Inside(t) /\ Select(t, Key)

Put(t, k) == Outside(t) /\ Upsert(t, k)
TxPut(t, k) == Inside(t) /\ Upsert(t, k)

Delete(t, k) == Outside(t) /\ DeleteRow(t, k)
TxDelete(t, k) == Inside(t) /\ DeleteRow(t, k)

\* Any of these statements fails with an error (disk full, I/O, no memory) at
\* which SQLite rolls back the transaction that is open on the connection.
\* The caller is told of its statement; the callback whose transaction it was
\* goes on, and its later statements are committed one by one.  An error
\* that only undoes its own statement changes nothing.
StatementFails(t) ==
  LET a == AdapterOf[t]
  IN /\ Outside(t) \/ Inside(t)
     /\ holder = a
     /\ Discard(a)
     /\ dead' = dead \cup UNION {wrote[u] : u \in Calling(a)}
     /\ wrote' = [u \in Task |-> IF u \in Calling(a) THEN {} ELSE wrote[u]]
     /\ ended' = ended \cup Calling(a)
     /\ UNCHANGED <<rows, adapters, step, writes, events, stray, refused>>

-----------------------------------------------------------------------------
(* transaction(). *)

\* The flag is set and BEGIN IMMEDIATE succeeds.
Begin(t) ==
  LET a == AdapterOf[t]
  IN /\ step[t] = "idle"
     /\ a \notin closed
     /\ a \notin inTransaction
     /\ holder = NoAdapter
     /\ inTransaction' = inTransaction \cup {a}
     /\ holder' = a
     /\ work' = rows
     /\ step' = [step EXCEPT ![t] = "callback"]
     /\ wrote' = [wrote EXCEPT ![t] = {}]
     /\ UNCHANGED <<rows, closed, writes, events, history>>

\* BEGIN fails, as when another connection is writing.  It is made outside
\* the try block: the flag stays set.
BeginFails(t) ==
  LET a == AdapterOf[t]
  IN /\ step[t] = "idle"
     /\ a \notin closed
     /\ a \notin inTransaction
     /\ inTransaction' = inTransaction \cup {a}
     /\ refused' = refused \cup {a}
     /\ UNCHANGED <<database, closed, step, wrote, writes, events, dead, stray,
                    ended>>

\* Wrong: the check is made inside the try block, whose end rolls back and
\* clears the flag.
RejectInside(t) ==
  LET a == AdapterOf[t]
  IN /\ step[t] = "idle"
     /\ a \notin closed
     /\ a \in inTransaction
     /\ Discard(a)
     /\ inTransaction' = inTransaction \ {a}
     /\ UNCHANGED <<rows, closed, step, wrote, writes, events, history>>

\* A second transaction() of the adapter is rejected, before anything is
\* touched.
Reject(t) ==
  /\ step[t] = "idle"
  /\ AdapterOf[t] \notin closed
  /\ AdapterOf[t] \in inTransaction
  /\ UNCHANGED state

\* The callback resolves and COMMIT succeeds.
Commit(t) ==
  LET a == AdapterOf[t]
  IN /\ step[t] = "callback"
     /\ holder = a
     /\ rows' = work
     /\ holder' = NoAdapter
     /\ step' = [step EXCEPT ![t] = "idle"]
     /\ wrote' = [wrote EXCEPT ![t] = {}]
     /\ inTransaction' = inTransaction \ {a}
     /\ UNCHANGED <<work, closed, writes, events, history>>

\* The callback rejects: the caller changed its mind, a statement failed or
\* the adapter was closed; or COMMIT fails, as it does when an error has ended
\* the transaction.
Throw(t) ==
  /\ step[t] = "callback"
  /\ step' = [step EXCEPT ![t] = "failed"]
  /\ UNCHANGED <<database, adapters, wrote, writes, events, history>>

\* What a failed call has written, by whether it was in a transaction.
CallIsLost(t) ==
  /\ dead' = IF t \in ended THEN dead ELSE dead \cup wrote[t]
  /\ stray' = IF t \in ended THEN stray \cup wrote[t] ELSE stray
  /\ ended' = ended \ {t}
  /\ wrote' = [wrote EXCEPT ![t] = {}]
  /\ step' = [step EXCEPT ![t] = "idle"]

\* Wrong: the flag is not cleared when the callback fails.
RollBackOnly(t) ==
  /\ step[t] = "failed"
  /\ Discard(AdapterOf[t])
  /\ CallIsLost(t)
  /\ UNCHANGED <<rows, adapters, writes, events, refused>>

\* Wrong: a failed callback's transaction is committed.
CommitFailed(t) ==
  LET a == AdapterOf[t]
  IN /\ step[t] = "failed"
     /\ holder' = IF holder = a THEN NoAdapter ELSE holder
     /\ rows' = IF holder = a THEN work ELSE rows
     /\ CallIsLost(t)
     /\ inTransaction' = inTransaction \ {a}
     /\ UNCHANGED <<work, closed, writes, events, refused>>

\* The catch and finally blocks.  ROLLBACK may find no transaction, which
\* is ignored.
RollBack(t) ==
  /\ step[t] = "failed"
  /\ Discard(AdapterOf[t])
  /\ CallIsLost(t)
  /\ inTransaction' = inTransaction \ {AdapterOf[t]}
  /\ UNCHANGED <<rows, closed, writes, events, refused>>

-----------------------------------------------------------------------------
\* Closing a connection rolls its transaction back; the callback that was
\* under way fails at its next statement.
Close(a) ==
  /\ events < MaxEvents
  /\ a \notin closed
  /\ closed' = closed \cup {a}
  /\ Discard(a)
  /\ events' = events + 1
  /\ UNCHANGED <<rows, inTransaction, step, wrote, writes, history>>

\* The process of an adapter dies and starts again with a new adapter.
Crash(a) ==
  /\ events < MaxEvents
  /\ Discard(a)
  /\ closed' = closed \ {a}
  /\ inTransaction' = inTransaction \ {a}
  /\ dead' = dead \cup UNION {wrote[t] : t \in Calling(a) \ ended}
  /\ stray' = stray \cup UNION {wrote[t] : t \in Calling(a) \cap ended}
  /\ ended' = ended \ Calling(a)
  /\ step' = [t \in Task |-> IF t \in TasksOf(a) THEN "idle" ELSE step[t]]
  /\ wrote' = [t \in Task |-> IF t \in TasksOf(a) THEN {} ELSE wrote[t]]
  /\ refused' = refused \ {a}
  /\ events' = events + 1
  /\ UNCHANGED <<rows, writes>>

Transaction(t) ==
  \/ Begin(t) \/ BeginFails(t) \/ Reject(t) \/ Commit(t)
  \/ Throw(t) \/ RollBack(t)

Read ==
  \E t \in Task :
    \/ Query(t) \/ TxQuery(t)
    \/ \E k \in Key : Get(t, k) \/ TxGet(t, k)

Write ==
  \E t \in Task, k \in Key :
    Put(t, k) \/ TxPut(t, k) \/ Delete(t, k) \/ TxDelete(t, k)

Next ==
  \/ Read
  \/ /\ \/ Write
        \/ \E t \in Task : StatementFails(t) \/ Transaction(t)
        \/ \E a \in Adapter : Close(a) \/ Crash(a)
     /\ answer' = NoAnswer

Spec == Init /\ [][Next]_vars

-----------------------------------------------------------------------------
(* Properties. *)

Table == [Key -> 0..MaxWrites \cup {NoRow}]

TypeOK ==
  /\ rows \in Table
  /\ work \in Table
  /\ holder \in Adapter \cup {NoAdapter}
  /\ holder = NoAdapter => work = rows
  /\ closed \subseteq Adapter
  /\ inTransaction \subseteq Adapter
  /\ step \in [Task -> {"idle", "callback", "failed"}]
  /\ wrote \in [Task -> SUBSET (1..MaxWrites)]
  /\ \A t \in Task : step[t] = "idle" => wrote[t] = {}
  /\ answer \subseteq 1..MaxWrites
  /\ writes \in 0..MaxWrites
  /\ events \in 0..MaxEvents
  /\ dead \subseteq 1..MaxWrites /\ stray \subseteq 1..MaxWrites
  /\ ended \subseteq {t \in Task : step[t] # "idle"}
  /\ refused \subseteq Adapter

\* A callback that runs on an open adapter runs inside the transaction it
\* began, and no other callback does: rejected, failed and closed calls of
\* other tasks do not end it or leave it open.  If SQLite ended it at an error
\* the callback has none, and never a part in that of another call.
TransactionIsOwn ==
  \A t \in Task : step[t] = "callback" =>
    /\ AdapterOf[t] \in closed \/ t \in ended \/ holder = AdapterOf[t]
    /\ t \in ended => holder # AdapterOf[t]
    /\ \A u \in TasksOf(AdapterOf[t]) : u # t => step[u] = "idle"

\* A connection has a transaction open only while the call that began it is
\* under way: no error path leaves one behind that would swallow the writes
\* to come.
NoOrphanTransaction ==
  holder # NoAdapter => \E t \in TasksOf(holder) : step[t] # "idle"

\* The flag is set only while a call of transaction() is under way, so that
\* the next one is let in, unless a BEGIN has failed.
FlagMeansCall ==
  \A a \in inTransaction \ refused : \E t \in TasksOf(a) : step[t] # "idle"

\* Whatever statement fails, whoever is refused, closes or crashes, the flag,
\* the connection and the calls under way tell the same: a transaction is open
\* only while the one call that began it runs, and unless SQLite itself has
\* ended it, just as long.
TransactionsAreOwned ==
  TypeOK /\ TransactionIsOwn /\ NoOrphanTransaction /\ FlagMeansCall

\* A call of transaction() that fails takes with it whatever was written in its
\* transaction, by its callback or by another task's plain statement that came
\* in between: none of it is ever stored.
FailedLeavesNothing == dead \cap Tokens(rows) = {}

\* "Either all operations in the transaction are applied, or none are": also
\* what the callback wrote after SQLite had ended its transaction.
NoneIsApplied == (dead \cup stray) \cap Tokens(rows) = {}

\* The callbacks come to an end; so does the handling of their errors.
FairSpec ==
  /\ Spec
  /\ \A t \in Task :
       /\ WF_vars((Commit(t) \/ Throw(t)) /\ answer' = NoAnswer)
       /\ WF_vars(RollBack(t) /\ answer' = NoAnswer)

\* An adapter is free for the next transaction again and again, whatever
\* fails in the ones it runs, unless a BEGIN has failed.
AdapterIsReleased ==
  \A a \in Adapter : []<>(a \notin inTransaction \/ a \in refused)

\* "Transaction isolation: at minimum READ COMMITTED": no task reads what the
\* open transaction of another has written.
ReadsAreCommitted == answer \subseteq Tokens(rows)
=============================================================================
