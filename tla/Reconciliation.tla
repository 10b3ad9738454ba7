---------------------------- MODULE Reconciliation ----------------------------
(***************************************************************************)
(* The reconciliation sweep over one tenant: Scan compares every invoice   *)
(* with its newest submission_jobs row and with River, a lost poll is      *)
(* re-enqueued, everything else is only reported.                          *)
(*                                                                         *)
(* The age thresholds (grace, maximal pending age) are taken as passed in  *)
(* Findings: what is asked of the scan is whether a stalled invoice is     *)
(* reported once it is old enough. The sweep re-arms any set of the lost   *)
(* polls, the ones that are overdue. Reports, the auto_fixed ones included, *)
(* are append-only audit rows nobody reads. The two approval arms of the   *)
(* scan are not part of this module.                                       *)
(***************************************************************************)
EXTENDS Submission

CONSTANT HopCeiling \* attempts above which a pending row is no longer re-armed

ASSUME ReconciliationAssumption == HopCeiling \in Nat

------------------------------------------------------------------------------
\* The newest row of invoice i, if it has any: the scan joins no other.
NewestRow(i) == {k \in RowsOf(i) : Newest(k)}

LiveSubmit(i) == \E r \in SubmitJobs : r.key.inv = i /\ Live(r)
LivePoll(k)   == \E r \in PollJobs : r.key = k /\ Live(r)

\* Mutant: a live poll does not keep the reconciler away.
LostPoll_Eager(k) == /\ Newest(k)
                     /\ inv[k.inv].status = "submitted"
                     /\ job[k].state = "pending"
                     /\ job[k].attempts <= HopCeiling

LostPoll(k) == /\ Newest(k)
               /\ inv[k.inv].status = "submitted"
               /\ job[k].state = "pending"
               /\ job[k].attempts <= HopCeiling
               /\ ~LivePoll(k)

SubmittingOrphan(i) ==
  /\ \E k \in NewestRow(i) : job[k].state = "submitting"
  /\ ~LiveSubmit(i)

\* Mutant: only an invoice without a row counts as never sent.
QueuedNeverSent_NoRow(i) ==
  /\ inv[i].status = "queued"
  /\ RowsOf(i) = {}
  /\ ~LiveSubmit(i)

QueuedNeverSent(i) ==
  /\ inv[i].status = "queued"
  /\ RowsOf(i) = {} \/ \E k \in NewestRow(i) : job[k].state = "queued"
  /\ ~LiveSubmit(i)

\* scanQuery: the drift kinds reported for invoice i.
Findings(i) ==
  {d \in {"lost_poll", "pending_too_many_hops", "pending_too_long", "submitting_orphan",
          "queued_never_sent", "irn_without_accepted", "accepted_without_irn",
          "verdict_not_routed"} :
     CASE d = "lost_poll"             -> \E k \in NewestRow(i) : LostPoll(k)
       [] d = "pending_too_many_hops" ->
            \E k \in NewestRow(i) : job[k].state = "pending" /\ job[k].attempts > HopCeiling
       [] d = "pending_too_long"      -> \E k \in NewestRow(i) : job[k].state = "pending"
       [] d = "submitting_orphan"     -> SubmittingOrphan(i)
       [] d = "queued_never_sent"     -> QueuedNeverSent(i)
       [] d = "irn_without_accepted"  -> inv[i].irn /\ inv[i].status # "accepted"
       [] d = "accepted_without_irn"  -> inv[i].status = "accepted" /\ ~inv[i].irn
       [] d = "verdict_not_routed"    ->
            /\ inv[i].status = "submitted"
            /\ \E k \in NewestRow(i) : job[k].state \in {"accepted", "rejected"}}

------------------------------------------------------------------------------
\* ReArmPoll: the outbox key names the job and its attempts; a taken key
\* enqueues nothing.
ReArmed(rv, K) ==
  [r \in RiverJobs |->
     IF /\ r.kind = "rearm" /\ r.key \in K /\ r.n = job[r.key].attempts
        /\ rv[r].st = "none"
     THEN RowAt("available", 0) ELSE rv[r]]

\* sweepTenant, one transaction.
Sweep ==
  \E K \in (SUBSET {k \in Keys : LostPoll(k)}) \ {{}} :
    /\ \A k \in K : job[k].attempts <= MaxRearm
    /\ river' = ReArmed(river, K)
    /\ UNCHANGED <<db, wrk, app, lock>>

RNext == Next \/ Sweep

RSpec == Init /\ [][RNext]_vars

------------------------------------------------------------------------------
(***************************************************************************)
(* Properties                                                              *)
(***************************************************************************)

\* An invoice handed to the pipeline that no live job will move any more.
Driven(i)  == \E r \in RiverJobs \ marker : r.key.inv = i /\ Live(r)
Stalled(i) == InFlight(i) /\ ~Driven(i)

\* OneDriver, of Submission, is asked of the sweep as well: re-arming never
\* gives an invoice a second driver (the storm guard of the lost_poll arm).

\* Where the scan is blind: it sees the refused row of an earlier key when the
\* job of a resubmission was discarded before it wrote a row of its own, and it
\* asks River by invoice, so a refused send whose end River has not recorded
\* yet passes for the live job of the one that stalled.
Hidden(i) ==
  \/ \E k \in NewestRow(i) : job[k].state = "rejected"
  \/ \E r \in SubmitJobs \cap marker :
       r.key.inv = i /\ Live(r) /\ job[r.key].state = "rejected"

\* reconciliation.go: the sweep "re-arms lost polls through the existing
\* PollWorker path, and flags every other drift". No stalled invoice escapes
\* it, but in the two ways of Hidden.
KnownStallIsFlagged ==
  \A i \in Invoices : Stalled(i) /\ ~Hidden(i) => Findings(i) # {}

==============================================================================
