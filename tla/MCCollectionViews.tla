-------------------------- MODULE MCCollectionViews --------------------------
(***************************************************************************)
(* CollectionViews for TLC: one view, of each kind in turn; with the       *)
(* controllers it moves between it has several listeners.                  *)
(***************************************************************************)
EXTENDS CollectionViews, TLC

CONSTANT v1

OneView == [{v1} -> Kind]
=============================================================================
