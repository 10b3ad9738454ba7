-------------------------- MODULE MCReconciliation --------------------------
(***************************************************************************)
(* Reconciliation for TLC.                                                 *)
(***************************************************************************)
EXTENDS Reconciliation, TLC

\* For safety runs with several request keys.
RequestSymmetry == Permutations(Requests)
=============================================================================
