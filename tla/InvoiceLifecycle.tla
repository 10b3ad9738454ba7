--------------------------- MODULE InvoiceLifecycle ---------------------------
(***************************************************************************)
(* What the platform promises about one tenant's invoices, with no         *)
(* workers, queues or retries: how a status may change, that an IRN comes  *)
(* with the authority's acceptance and stays, and that a failed invoice    *)
(* goes back to the authority only when no acknowledgement was ever seen   *)
(* and nobody has closed it by hand.                                       *)
(*                                                                         *)
(* Submission.tla implements this specification.                           *)
(***************************************************************************)
EXTENDS InvoiceStatus

CONSTANTS
  Invoices,  \* the tenant's invoices
  Asserted   \* targets an approver may assert by POST /v1/invoices/{id}/transitions

VARIABLE inv \* inv[i]: the invoice row

Set(i, row) == inv' = [inv EXCEPT ![i] = row]

Init == inv = [i \in Invoices |-> [status |-> "draft", irn |-> FALSE, reasons |-> FALSE,
                                   kind |-> NoKind, kept |-> FALSE]]

\* A draft passes its checks; a validated or rejected invoice is reopened.
Promote(i) == /\ inv[i].status = "draft"
              /\ Set(i, Moved(inv[i], "validated"))

Reopen(i) == /\ CanTransition(inv[i].status, "draft")
             /\ Set(i, Moved(inv[i], "draft"))

\* A batch of validated invoices is handed over for transmission.
Send(S) == /\ \A i \in S : inv[i].status = "validated"
           /\ inv' = [i \in Invoices |->
                        IF i \in S THEN Moved(inv[i], "queued") ELSE inv[i]]

\* The authority's answers. An IRN is stored by acceptance only.
Acknowledge(i) == /\ inv[i].status = "queued"
                  /\ Set(i, MarkSubmitted(inv[i]))

Accept(i) == /\ inv[i].status \in {"queued", "submitted"}
             /\ Set(i, MarkAccepted(inv[i]))

Refuse(i) == /\ inv[i].status \in {"queued", "submitted"}
             /\ Set(i, MarkRejected(inv[i]))

\* Delivery is given up. A queued invoice was never acknowledged, a submitted
\* one was; a staff cancel of a queued invoice leaves no kind.
GiveUp(i) ==
  \/ /\ inv[i].status = "queued"
     /\ \E kind \in {"payload_not_built", "never_acknowledged", NoKind} :
          Set(i, MarkFailed(inv[i], kind))
  \/ /\ inv[i].status = "submitted"
     /\ Set(i, MarkFailed(inv[i], "acknowledged_no_verdict"))

\* A failed invoice goes back to the queue under its old key.
Resend(i) == /\ inv[i].status = "failed"
             /\ Resendable(inv[i].kind)
             /\ ~inv[i].kept
             /\ Set(i, Moved(inv[i], "queued"))

\* The kept mark: a draft kept as it is, a failed invoice closed by hand.
Keep(i) == /\ inv[i].status \in {"draft", "failed"}
           /\ \E b \in BOOLEAN : Set(i, [inv[i] EXCEPT !.kept = b])

\* An approver asserts a status along the table.
Assert(i) == \E to \in Asserted : /\ CanTransition(inv[i].status, to)
                                  /\ Set(i, Moved(inv[i], to))

Next == \/ \E i \in Invoices :
             \/ Promote(i) \/ Reopen(i) \/ Acknowledge(i) \/ Accept(i)
             \/ Refuse(i) \/ GiveUp(i) \/ Resend(i) \/ Keep(i) \/ Assert(i)
        \/ \E S \in SUBSET Invoices : Send(S)

Spec == Init /\ [][Next]_inv
==============================================================================
