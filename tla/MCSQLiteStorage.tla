--------------------------- MODULE MCSQLiteStorage ---------------------------
(***************************************************************************)
(* SQLiteStorage for TLC: two tasks of one process, a third of another.    *)
(***************************************************************************)
EXTENDS SQLiteStorage, TLC

CONSTANTS a1, a2, t1, t2, t3

Placement == t1 :> a1 @@ t2 :> a1 @@ t3 :> a2
=============================================================================
