---------------------- MODULE MCConflictResolution ----------------------
(***************************************************************************)
(* ConflictResolution for TLC: the edits and the managers of the run.      *)
(***************************************************************************)
EXTENDS ConflictResolution

SomeEdits ==
  {[operation |-> "decrement", value |-> 1],
   [operation |-> "add", value |-> "j"],
   [operation |-> "patch", value |-> [a |-> 2]]}

Manual == [kind |-> "MANUAL"]
Lww == [kind |-> "LAST_WRITE_WINS"]
Merge == [kind |-> "FIELD_MERGE", fallback |-> [kind |-> "SERVER_WINS"]]
Aware == [kind |-> "OPERATION_AWARE", commutative |-> Merge,
          nonCommutative |-> [kind |-> "CLIENT_WINS"]]

SomeManagers ==
  {[default |-> Lww, collection |-> Merge, chain |-> <<>>],
   [default |-> Manual, collection |-> NoStrategy, chain |-> <<Manual, Merge>>],
   [default |-> Aware, collection |-> NoStrategy, chain |-> <<>>]}

SomeOverrides == {Merge, Manual}
=============================================================================
