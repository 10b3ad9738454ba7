----------------------------- MODULE WorkspaceFate -----------------------------
(***************************************************************************)
(* What the platform promises about the deletion of one workspace: it is   *)
(* announced first and can be called off until the purge starts; a started *)
(* purge is never called off, and nothing disappears but by a purge.       *)
(*                                                                         *)
(* WorkspaceDeletion.tla implements this specification.                    *)
(***************************************************************************)

VARIABLE fate \* "open", "scheduled", "purging" or "gone"

Init == fate = "open"

Becomes(from, to) == fate = from /\ fate' = to

Schedule == Becomes("open", "scheduled")
Cancel   == Becomes("scheduled", "open")
Start    == Becomes("scheduled", "purging")
Finish   == Becomes("purging", "gone")

Next == Schedule \/ Cancel \/ Start \/ Finish

Spec == Init /\ [][Next]_fate
==============================================================================
