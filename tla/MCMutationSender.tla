--------------------------- MODULE MCMutationSender ---------------------------
(***************************************************************************)
(* MutationSender for TLC: errors with and without a status and a code.    *)
(***************************************************************************)
EXTENDS MutationSender

Errors == {
  [status |-> 503, code |-> "CONFLICT", words |-> {"network"}],
  [status |-> 0, code |-> "CONFLICT", words |-> {"network"}]}
=============================================================================
