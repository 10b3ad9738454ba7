---------------------------- MODULE InvoiceStatus ----------------------------
(***************************************************************************)
(* The invoice row as the submission pipeline sees it, and the pure        *)
(* functions over it: the status machine of internal/invoice/store.go, the *)
(* column writes of applyTransitionTx, and the outcome writes of the four  *)
(* Mark*Tx methods of internal/invoice/actor.go.                           *)
(*                                                                         *)
(* Data kept: status; whether an IRN is stored; whether rejection_reasons  *)
(* is non-empty; failure_kind; whether the kept_as_is triple (on a failed  *)
(* invoice: "resolved outside ASComply") is set.                           *)
(***************************************************************************)

Statuses == {"draft", "validated", "queued", "submitted", "accepted",
             "rejected", "failed"}

NoKind == "null"
FailureKinds == {"payload_not_built", "never_acknowledged",
                 "acknowledged_no_verdict"}

InvoiceRow == [status: Statuses, irn: BOOLEAN, reasons: BOOLEAN,
               kind: FailureKinds \cup {NoKind}, kept: BOOLEAN]

\* The status machine. failed -> queued is deliberately absent: only the
\* re-send rule (requeueFailedTx) takes that edge, outside this table.
LegalTransitions ==
  [s \in Statuses |->
     CASE s = "draft"     -> {"validated"}
       [] s = "validated" -> {"queued", "draft"}
       [] s = "queued"    -> {"submitted", "failed", "accepted", "rejected"}
       [] s = "submitted" -> {"accepted", "rejected", "failed"}
       [] s = "rejected"  -> {"draft"}
       [] OTHER           -> {}]

\* Mutant: a cleared invoice may be reopened like a refused one.
CanTransition_ClearedReopens(from, to) ==
  to \in LegalTransitions[from] \/ (from = "accepted" /\ to = "draft")

CanTransition(from, to) == to \in LegalTransitions[from]

\* Editable: already a draft, or one legal hop away from it.
CanEdit(s) == s = "draft" \/ CanTransition(s, "draft")

\* FailureKind.Resendable: the customer may send the invoice again.
Resendable(kind) == kind \in {"payload_not_built", "never_acknowledged"}

\* applyTransitionTx: the status write and the columns that ride on it.
Moved(row, to) ==
  [row EXCEPT !.status  = to,
              !.reasons = IF to = "accepted" THEN FALSE ELSE @,
              !.kept    = IF to = "validated" THEN FALSE ELSE @,
              !.kind    = IF to = "queued" THEN NoKind ELSE @]

\* markTerminalTx: already at the target is an idempotent no-op that leaves
\* the stored outcome alone; otherwise the outcome is written first and the
\* transition after it. The pair is legal iff CanMark.
CanMark(row, to) == row.status = to \/ CanTransition(row.status, to)

Marked(row, outcome, to) ==
  IF row.status = to THEN row ELSE Moved(outcome, to)

\* Mutants: the acknowledgement is not recorded; giving up counts as a refusal.
MarkSubmitted_Forgotten(row) == row
MarkFailed_AsRejected(row, kind) ==
  Marked(row, [row EXCEPT !.reasons = TRUE], "rejected")

\* A rejection carries at least one reason.
MarkSubmitted(row) == Marked(row, row, "submitted")
MarkAccepted(row)  == Marked(row, [row EXCEPT !.irn = TRUE], "accepted")
MarkRejected(row)  == Marked(row, [row EXCEPT !.reasons = TRUE], "rejected")
MarkFailed(row, kind) == Marked(row, [row EXCEPT !.kind = kind], "failed")
==============================================================================
