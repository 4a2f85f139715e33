--------------------------- MODULE MCOfflineSync ---------------------------
(***************************************************************************)
(* OfflineSync for TLC: the sets of entities the runs use.                 *)
(***************************************************************************)
EXTENDS IntegrityChecks, TLC

CONSTANTS notes, tags, x

OneEntity == {<<notes, x>>}
SharedId == {<<notes, x>>, <<tags, x>>}
=============================================================================
