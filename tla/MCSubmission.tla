---------------------------- MODULE MCSubmission ----------------------------
(***************************************************************************)
(* Submission for TLC. Request keys are model values, and no action tells  *)
(* two of them apart.                                                      *)
(***************************************************************************)
EXTENDS Submission, TLC

\* For safety runs with several request keys.
RequestSymmetry == Permutations(Requests)
=============================================================================
