------------------------------ MODULE Submission ------------------------------
(***************************************************************************)
(* The submission pipeline of one tenant: POST /v1/invoices/submissions    *)
(* puts validated invoices on the River queue, SubmitWorker and PollWorker *)
(* drive each of them to a verdict of the authority, and customers and     *)
(* staff send failed ones again.                                           *)
(*                                                                         *)
(* Every database transaction of the code is one action; what a worker     *)
(* holds in memory between two transactions is in wrk and is lost by a     *)
(* crash. The call to the authority is an action of its own, because the   *)
(* code holds no transaction across it, and so is River's record of a      *)
(* job's result, because River delivers at least once.                     *)
(*                                                                         *)
(* A River job is named by its arguments: a submit job by its idempotency  *)
(* key and the number of the send (1 from the batch endpoint, one more for *)
(* each re-send), a poll job by its key and sequence, "poll" when a worker *)
(* enqueued it and "rearm" when the reconciler did. River jobs and outbox  *)
(* rows (idempotency_keys) are written by one statement pair in one        *)
(* transaction, so an outbox key is taken iff its job was ever created.    *)
(*                                                                         *)
(* app_exchange evidence, audit rows other than the outcome audit, and     *)
(* status history are append-only and read by no operation here; they are  *)
(* left out.                                                               *)
(***************************************************************************)
EXTENDS InvoiceStatus, Naturals, FiniteSets

CONSTANTS
  Invoices,    \* the tenant's invoices
  Requests,    \* request-level idempotency keys of the batch endpoint
  MaxAttempts, \* River attempts per job (8 in the code)
  MaxSends,    \* bound: sends of one key, the first included
  MaxHops,     \* bound: poll hops of one key
  MaxRearm,    \* bound: attempts at which the reconciler re-arms a poll
  Asserted,    \* statuses approvers assert by POST /v1/invoices/{id}/transitions
  Faults,      \* "crash": a worker process may die; "tx": a transaction may fail
  PendingAckLost \* may a worker die between the commit of the authority's
                 \* Pending and River's record that the submit job completed?

ASSUME SubmissionAssumption ==
  /\ MaxAttempts \in Nat \ {0}
  /\ MaxSends \in Nat \ {0}
  /\ MaxHops \in Nat \ {0}
  /\ MaxRearm \in Nat
  /\ Asserted \subseteq Statuses \ {"validated"} \* TransitionHandler refuses it
  /\ Faults \subseteq {"crash", "tx"}
  /\ PendingAckLost \in BOOLEAN
  /\ IsFiniteSet(Requests)

VARIABLES
  inv,      \* inv[i]: the invoices row
  job,      \* job[k]: the submission_jobs row of idempotency key k
  river,    \* river[r]: the river_job row: its state and attempt
  marker,   \* the "job:<id>" rows OncePerJob wrote to idempotency_keys
  wrk,      \* wrk[r]: the memory of the worker executing r
  app,      \* app[k]: what the authority has decided about key k
  outcomes, \* outcomes[k]: submission.{accepted,rejected,failed} audit rows
  lock      \* deletion of the workspace: "open", "closing" once scheduled while
            \* requests that passed the check before may still commit, "locked"

db   == <<inv, job, marker, outcomes>>
vars == <<inv, job, river, marker, wrk, app, outcomes, lock>>

\* deriveBatchSubmitKey: the request key and the invoice id.
Keys == [req: Requests, inv: Invoices]

SubmitJobs == [kind: {"submit"}, key: Keys, n: 1..MaxSends]
PollJobs   == [kind: {"poll"}, key: Keys, n: 1..MaxHops]
                \cup [kind: {"rearm"}, key: Keys, n: 1..MaxRearm]
RiverJobs  == SubmitJobs \cup PollJobs

SubmitJob(k, n) == [kind |-> "submit", key |-> k, n |-> n]
PollJob(k, n)   == [kind |-> "poll", key |-> k, n |-> n]

TerminalJobStates ==
  {"accepted", "rejected", "failed", "dead_lettered", "cancelled"}

\* born orders the rows of one invoice by created_at; send is the number of
\* the submit job that river_job_id points at; ref is poll_ref IS NOT NULL.
JobRow == [state: {"none", "queued", "submitting", "pending"} \cup TerminalJobStates,
           attempts: Nat, ref: BOOLEAN, send: 1..MaxSends, born: Nat]

\* "stopping" is a running job whose cancellation was asked for.
RiverRow == [st: {"none", "available", "running", "stopping", "completed",
                  "cancelled", "discarded", "deleted"},
             attempt: Nat]

\* "unbuilt" is a Transform error: nothing was sent.
Results == {"accepted", "rejected", "pending", "retryable", "unbuilt"}
Returns == {"nil", "err", "cancel", "snooze"}

\* pc "dead" with a running River job is an execution that crashed.
Memory == [pc: {"dead", "tx1", "call", "tx2", "ack"}, att: Nat,
           out: Results \cup Returns \cup {"none"}]

NoRow  == [state |-> "none", attempts |-> 0, ref |-> FALSE, send |-> 1, born |-> 0]
NoJob  == [st |-> "none", attempt |-> 0]
NoWork == [pc |-> "dead", att |-> 0, out |-> "none"]

Init ==
  /\ inv = [i \in Invoices |-> [status |-> "draft", irn |-> FALSE, reasons |-> FALSE,
                                kind |-> NoKind, kept |-> FALSE]]
  /\ job = [k \in Keys |-> NoRow]
  /\ river = [r \in RiverJobs |-> NoJob]
  /\ marker = {}
  /\ wrk = [r \in RiverJobs |-> NoWork]
  /\ app = [k \in Keys |-> "unknown"]
  /\ outcomes = [k \in Keys |-> 0]
  /\ lock = "open"

------------------------------------------------------------------------------
(***************************************************************************)
(* Helpers                                                                 *)
(***************************************************************************)

Executing(r) == river[r].st \in {"running", "stopping"}
Live(r) == river[r].st = "available" \/ Executing(r)

RowsOf(i) == {k \in Keys : k.inv = i /\ job[k].state # "none"}

\* ORDER BY created_at DESC LIMIT 1.
Newest(k) == /\ k \in RowsOf(k.inv)
             /\ \A l \in RowsOf(k.inv) : job[l].born <= job[k].born

SetInv(i, row) == inv' = [inv EXCEPT ![i] = row]
SetJob(k, row) == job' = [job EXCEPT ![k] = row]

\* The handler returns; River has not recorded it yet.
Return(r, ret) == wrk' = [wrk EXCEPT ![r].pc = "ack", ![r].out = ret]

RowAt(st, attempt) == [st |-> st, attempt |-> attempt]

\* A River job becomes available to the workers with a fresh budget.
Inserted(rv, r) == [rv EXCEPT ![r] = RowAt("available", 0)]

\* EnqueueTx of a poll hop: a taken outbox key inserts nothing and the worker
\* does not look at skipped. Beyond MaxHops the bound stops the chain; the
\* authority is not asked to defer a verdict that often.
EnqueuedPoll(rv, k, n) ==
  IF n <= MaxHops /\ rv[PollJob(k, n)].st = "none" THEN Inserted(rv, PollJob(k, n)) ELSE rv

\* Mutant: the marker is written but not consulted.
OncePerJob_Unmarked(r, target, row, after, rv, audited, ret) ==
  /\ CanMark(inv[r.key.inv], target)
  /\ SetJob(r.key, row)
  /\ SetInv(r.key.inv, after)
  /\ river' = rv
  /\ marker' = marker \cup {r}
  /\ outcomes' = [outcomes EXCEPT ![r.key] = @ + audited]
  /\ Return(r, ret)

\* OncePerJob around a terminal or deferring write of r: with the marker
\* present nothing is written; an illegal invoice transition rolls the whole
\* transaction back and the handler returns the error.
OncePerJob(r, target, row, after, rv, audited, ret) ==
  LET k == r.key
      i == k.inv
  IN \/ /\ r \in marker
        /\ Return(r, ret)
        /\ UNCHANGED <<db, river>>
     \/ /\ r \notin marker
        /\ CanMark(inv[i], target)
        /\ SetJob(k, row)
        /\ SetInv(i, after)
        /\ river' = rv
        /\ marker' = marker \cup {r}
        /\ outcomes' = [outcomes EXCEPT ![k] = @ + audited]
        /\ Return(r, ret)
     \/ /\ r \notin marker
        /\ ~CanMark(inv[i], target)
        /\ Return(r, "err")
        /\ UNCHANGED <<db, river>>

------------------------------------------------------------------------------
(***************************************************************************)
(* River                                                                   *)
(***************************************************************************)

Fetch(r) ==
  /\ river[r].st = "available"
  /\ river' = [river EXCEPT ![r] = RowAt("running", @.attempt + 1)]
  /\ wrk' = [wrk EXCEPT ![r] = [pc |-> "tx1", att |-> 0, out |-> "none"]]
  /\ UNCHANGED <<db, app, lock>>

\* An error retries until the budget is spent or a cancellation was asked for.
AfterError(r) ==
  CASE river[r].attempt >= MaxAttempts -> "discarded"
    [] river[r].st = "stopping"        -> "cancelled"
    [] OTHER                           -> "available"

\* A snooze gives the attempt back.
Ack(r) ==
  /\ wrk[r].pc = "ack"
  /\ LET after == CASE wrk[r].out = "nil"    -> "completed"
                    [] wrk[r].out = "cancel" -> "cancelled"
                    [] wrk[r].out = "snooze" /\ river[r].st = "running" -> "available"
                    [] OTHER                 -> AfterError(r)
         spent == river[r].attempt - (IF wrk[r].out = "snooze" THEN 1 ELSE 0)
     IN river' = [river EXCEPT ![r] = RowAt(after, spent)]
  /\ wrk' = [wrk EXCEPT ![r] = NoWork]
  /\ UNCHANGED <<db, app, lock>>

\* The process dies; the River row stays as it is.
Crash(r) ==
  /\ "crash" \in Faults
  /\ wrk[r].pc # "dead"
  /\ (r.kind = "submit" /\ wrk[r].pc = "ack" /\ job[r.key].state = "pending")
       => PendingAckLost
  /\ wrk' = [wrk EXCEPT ![r] = NoWork]
  /\ UNCHANGED <<db, river, app, lock>>

\* Mutant: the rescuer closes the job instead of retrying it.
Rescue_Completes(r) ==
  /\ Executing(r)
  /\ wrk[r].pc = "dead"
  /\ river' = [river EXCEPT ![r] = RowAt("completed", @.attempt)]
  /\ UNCHANGED <<db, wrk, app, lock>>

\* River's rescuer finds it, an hour later.
Rescue(r) ==
  /\ Executing(r)
  /\ wrk[r].pc = "dead"
  /\ river' = [river EXCEPT ![r] = RowAt(AfterError(r), @.attempt)]
  /\ UNCHANGED <<db, wrk, app, lock>>

\* A transaction of the handler fails and rolls back.
TxFails(r) ==
  /\ "tx" \in Faults
  /\ wrk[r].pc \in {"tx1", "tx2"}
  /\ Return(r, "err")
  /\ UNCHANGED <<db, river, app, lock>>

------------------------------------------------------------------------------
(***************************************************************************)
(* SubmitWorker, first transaction: the gates, in the order of the code.   *)
(***************************************************************************)

\* ensureSubmissionJob: the row of the key, inserted unless it exists.
Ensured(r) ==
  IF job[r.key].state # "none" THEN job[r.key]
  ELSE [NoRow EXCEPT !.state = "queued", !.send = r.n,
                     !.born = Cardinality(RowsOf(r.key.inv)) + 1]

Cleared(r) ==
  \/ inv[r.key.inv].irn
  \/ \E k \in RowsOf(r.key.inv) \ {r.key} : job[k].state = "accepted"

\* The transaction commits; the row's attempts are kept for the next one.
Calls(r, n) == wrk' = [wrk EXCEPT ![r] = [pc |-> "call", att |-> n, out |-> "none"]]

AtSubmitTx1(r) == r.kind = "submit" /\ wrk[r].pc = "tx1"

SubmitLocked(r) ==
  /\ AtSubmitTx1(r)
  /\ lock # "open"
  /\ Return(r, "snooze")
  /\ UNCHANGED <<db, river, app, lock>>

SubmitReplayed(r) ==
  /\ AtSubmitTx1(r)
  /\ lock = "open"
  /\ Ensured(r).state \in TerminalJobStates
  /\ Return(r, "nil")
  /\ UNCHANGED <<db, river, app, lock>>

SubmitAlreadyCleared(r) ==
  /\ AtSubmitTx1(r)
  /\ lock = "open"
  /\ Ensured(r).state \notin TerminalJobStates
  /\ Cleared(r)
  /\ SetJob(r.key, [Ensured(r) EXCEPT !.state = "accepted"])
  /\ Return(r, "nil")
  /\ UNCHANGED <<inv, river, marker, app, outcomes, lock>>

MayProceed(r) ==
  /\ AtSubmitTx1(r)
  /\ lock = "open"
  /\ Ensured(r).state \notin TerminalJobStates
  /\ ~Cleared(r)

\* The tenant's one-minute window is used up: any call may be the one denied.
SubmitThrottled(r) ==
  /\ MayProceed(r)
  /\ SetJob(r.key, Ensured(r))
  /\ Return(r, "snooze")
  /\ UNCHANGED <<inv, river, marker, app, outcomes, lock>>

SubmitProceeds(r) ==
  /\ MayProceed(r)
  /\ SetJob(r.key, [Ensured(r) EXCEPT !.state = "submitting"])
  /\ Calls(r, Ensured(r).attempts)
  /\ UNCHANGED <<inv, river, marker, app, outcomes, lock>>

SubmitTx1(r) ==
  \/ SubmitLocked(r) \/ SubmitReplayed(r) \/ SubmitAlreadyCleared(r)
  \/ SubmitThrottled(r) \/ SubmitProceeds(r)

\* PollWorker, first transaction: only a pending row is polled.
PollTx1(r) ==
  /\ r.kind \in {"poll", "rearm"}
  /\ wrk[r].pc = "tx1"
  /\ IF job[r.key].state = "pending"
     THEN Calls(r, job[r.key].attempts)
     ELSE Return(r, "nil")
  /\ UNCHANGED <<db, river, app, lock>>

------------------------------------------------------------------------------
(***************************************************************************)
(* The authority. It decides once per idempotency key and answers a key it *)
(* has decided with that decision; a retryable answer says nothing of what *)
(* it received. It defers a verdict at most MaxHops times.                 *)
(***************************************************************************)

Decided == {"accepted", "rejected"}

\* <<answer, what the authority has then decided>>.
SubmitAnswers(a) ==
  IF a \in Decided THEN {<<a, a>>, <<"retryable", a>>}
  ELSE {<<d, d>> : d \in Decided} \cup {<<"pending", "open">>}
         \cup ({"retryable"} \X ({a, "open"} \cup Decided))

PollAnswers(a, hop) ==
  IF a \in Decided THEN {<<a, a>>, <<"retryable", a>>}
  ELSE {<<d, d>> : d \in Decided}
         \cup (IF hop < MaxHops THEN {<<"pending", a>>} ELSE {})
         \cup ({"retryable"} \X ({a} \cup Decided))

Answered(r, answers) ==
  /\ \E x \in answers : /\ wrk' = [wrk EXCEPT ![r].pc = "tx2", ![r].out = x[1]]
                        /\ app' = [app EXCEPT ![r.key] = x[2]]
  /\ UNCHANGED <<db, river, lock>>

CallSubmit(r) ==
  /\ r.kind = "submit"
  /\ wrk[r].pc = "call"
  /\ Answered(r, SubmitAnswers(app[r.key]))

\* Transform fails before anything is sent.
TransformFails(r) ==
  /\ r.kind = "submit"
  /\ wrk[r].pc = "call"
  /\ Answered(r, {<<"unbuilt", app[r.key]>>})

CallPoll(r) ==
  /\ r.kind \in {"poll", "rearm"}
  /\ wrk[r].pc = "call"
  /\ Answered(r, PollAnswers(app[r.key], r.n))

------------------------------------------------------------------------------
(***************************************************************************)
(* Second transaction of both workers: record what the authority answered. *)
(* No branch looks at the row's state again.                               *)
(***************************************************************************)

Recording(r, out) == wrk[r].pc = "tx2" /\ wrk[r].out = out

\* Mutant: the attempt is refunded.
Attempted_Refunded(r, state) ==
  [job[r.key] EXCEPT !.state = state, !.attempts = wrk[r].att - 1]

\* This attempt reached the wire.
Attempted(r, state) == [job[r.key] EXCEPT !.state = state, !.attempts = wrk[r].att + 1]

\* Mutant: an acknowledgement is taken for a clearance.
RecordAccepted_OnPending(r) ==
  /\ wrk[r].pc = "tx2" /\ wrk[r].out \in {"accepted", "pending"}
  /\ OncePerJob(r, "accepted", Attempted(r, "accepted"),
                MarkAccepted(inv[r.key.inv]), river, 1, "nil")
  /\ UNCHANGED <<app, lock>>

RecordAccepted(r) ==
  /\ Recording(r, "accepted")
  /\ OncePerJob(r, "accepted", Attempted(r, "accepted"),
                MarkAccepted(inv[r.key.inv]), river, 1, "nil")
  /\ UNCHANGED <<app, lock>>

RecordRejected(r) ==
  /\ Recording(r, "rejected")
  /\ OncePerJob(r, "rejected", Attempted(r, "rejected"),
                MarkRejected(inv[r.key.inv]), river, 1, "nil")
  /\ UNCHANGED <<app, lock>>

\* The deferred verdict: the ticket is stored and the first poll enqueued.
RecordPending(r) ==
  /\ r.kind = "submit"
  /\ Recording(r, "pending")
  /\ OncePerJob(r, "submitted", [Attempted(r, "pending") EXCEPT !.ref = TRUE],
                MarkSubmitted(inv[r.key.inv]), EnqueuedPoll(river, r.key, 1), 0, "nil")
  /\ UNCHANGED <<app, lock>>

\* A further deferral leaves the invoice alone, so no target can be illegal.
RecordStillPending(r) ==
  /\ r.kind \in {"poll", "rearm"}
  /\ Recording(r, "pending")
  /\ OncePerJob(r, inv[r.key.inv].status, [Attempted(r, "pending") EXCEPT !.ref = TRUE],
                inv[r.key.inv], EnqueuedPoll(river, r.key, r.n + 1), 0, "nil")
  /\ UNCHANGED <<app, lock>>

\* Mutant: off by one.
Final_OffByOne(r) == river[r].attempt > MaxAttempts

\* The last attempt of River's budget: job.Attempt >= job.MaxAttempts.
Final(r) == river[r].attempt >= MaxAttempts

RecordDeadLetter(r) ==
  /\ Recording(r, "retryable")
  /\ Final(r)
  /\ LET kind == IF r.kind = "submit" THEN "never_acknowledged"
                                      ELSE "acknowledged_no_verdict"
     IN OncePerJob(r, "failed", Attempted(r, "dead_lettered"),
                   MarkFailed(inv[r.key.inv], kind), river, 1, "err")
  /\ UNCHANGED <<app, lock>>

\* With budget left the bookkeeping stays outside OncePerJob: a submit goes
\* back to queued, a poll leaves the state alone.
RecordRetry(r) ==
  /\ Recording(r, "retryable")
  /\ ~Final(r)
  /\ SetJob(r.key, Attempted(r, IF r.kind = "submit" THEN "queued" ELSE job[r.key].state))
  /\ Return(r, "err")
  /\ UNCHANGED <<inv, river, marker, app, outcomes, lock>>

RecordUnbuilt(r) ==
  /\ Recording(r, "unbuilt")
  /\ OncePerJob(r, "failed", [job[r.key] EXCEPT !.state = "failed"],
                MarkFailed(inv[r.key.inv], "payload_not_built"), river, 1, "cancel")
  /\ UNCHANGED <<app, lock>>

Tx2(r) ==
  \/ RecordAccepted(r) \/ RecordRejected(r) \/ RecordPending(r) \/ RecordStillPending(r)
  \/ RecordDeadLetter(r) \/ RecordRetry(r) \/ RecordUnbuilt(r)

------------------------------------------------------------------------------
(***************************************************************************)
(* Requests of the tenant's users. They are refused while the workspace is *)
(* locked; the check and the commit are not serialised with the lock.      *)
(***************************************************************************)

RequestsAllowed == lock # "locked"

Rest == <<job, river, marker, wrk, app, outcomes, lock>> \* all but inv

\* A verdict without blocking violations promotes a draft.
Validate(i) ==
  /\ RequestsAllowed
  /\ inv[i].status = "draft"
  /\ SetInv(i, Moved(inv[i], "validated"))
  /\ UNCHANGED Rest

\* A real content change clears the kept mark and demotes what is not a draft.
Edit(i) ==
  /\ RequestsAllowed
  /\ CanEdit(inv[i].status)
  /\ SetInv(i, Moved([inv[i] EXCEPT !.kept = FALSE], "draft"))
  /\ UNCHANGED Rest

\* A background rule recheck demotes; it runs in locked workspaces as well.
Demote(i) ==
  /\ inv[i].status = "validated"
  /\ SetInv(i, Moved(inv[i], "draft"))
  /\ UNCHANGED Rest

\* KeepAsIs and UnkeepAsIs of a draft, ResolveOutside and UnresolveOutside of
\* a failed invoice stamp and clear the same three columns.
Keep(i) ==
  /\ RequestsAllowed
  /\ inv[i].status \in {"draft", "failed"}
  /\ \E b \in BOOLEAN : SetInv(i, [inv[i] EXCEPT !.kept = b])
  /\ UNCHANGED Rest

\* Mutant: the status is not checked again under the row lock.
Transmittable_AlsoQueued(i) == inv[i].status \in {"validated", "queued"}

Transmittable(i) == inv[i].status = "validated"

\* S: the invoices of the request that may be transmitted. The others get a
\* per-position refusal, and so does one whose outbox key is taken.
BatchSubmit(req, S) ==
  /\ RequestsAllowed
  /\ \A i \in S : Transmittable(i)
  /\ LET First(i) == SubmitJob([req |-> req, inv |-> i], 1)
         fresh    == {i \in S : river[First(i)].st = "none"}
     IN /\ inv' = [i \in Invoices |-> IF i \in fresh THEN Moved(inv[i], "queued") ELSE inv[i]]
        /\ river' = [r \in RiverJobs |->
             IF \E i \in fresh : r = First(i) THEN RowAt("available", 0)
             ELSE river[r]]
  /\ UNCHANGED <<job, marker, wrk, app, outcomes, lock>>

\* The transitions endpoint moves the status and nothing else: asserting
\* queued creates no job.
Transition(i, to) ==
  /\ RequestsAllowed
  /\ to \in Asserted
  /\ CanTransition(inv[i].status, to)
  /\ SetInv(i, Moved(inv[i], to))
  /\ UNCHANGED Rest

\* Mutants: a check of the re-send rule is dropped.
Requeueable_Acknowledged(k) ==
  /\ inv[k.inv].status = "failed" /\ ~inv[k.inv].kept
  /\ ~Executing(SubmitJob(k, job[k].send))
Requeueable_Kept(k) ==
  /\ inv[k.inv].status = "failed" /\ ~job[k].ref
  /\ ~Executing(SubmitJob(k, job[k].send))

\* Failed, not closed by hand, never acknowledged; River has let the job go.
Requeueable(k) ==
  /\ inv[k.inv].status = "failed"
  /\ ~inv[k.inv].kept
  /\ ~job[k].ref
  /\ ~Executing(SubmitJob(k, job[k].send))

\* The tail shared by SendAgain and Redrive: the invoice goes back to queued
\* and a new River job replaces the old one.
Requeued(k) ==
  /\ Requeueable(k)
  /\ job[k].send < MaxSends
  /\ SetInv(k.inv, Moved(inv[k.inv], "queued"))
  /\ SetJob(k, [job[k] EXCEPT !.state = "queued", !.attempts = 0, !.send = @ + 1])
  /\ river' = Inserted([river EXCEPT ![SubmitJob(k, job[k].send)] = RowAt("deleted", 0)],
                       SubmitJob(k, job[k].send + 1))
  /\ UNCHANGED <<marker, wrk, app, outcomes, lock>>

SendAgain(k) ==
  /\ RequestsAllowed
  /\ Newest(k)
  /\ Resendable(inv[k.inv].kind)
  /\ job[k].state = IF inv[k.inv].kind = "payload_not_built" THEN "failed" ELSE "dead_lettered"
  /\ Requeued(k)

------------------------------------------------------------------------------
(***************************************************************************)
(* Staff, and the deletion of the workspace                                *)
(***************************************************************************)

Redrive(k) ==
  /\ RequestsAllowed
  /\ job[k].state = "dead_lettered"
  /\ Requeued(k)

\* A queued job and its queued invoice; a running River job is asked to stop.
StaffCancel(k) ==
  LET r == SubmitJob(k, job[k].send)
  IN /\ job[k].state = "queued"
     /\ inv[k.inv].status = "queued"
     /\ SetJob(k, [job[k] EXCEPT !.state = "cancelled"])
     /\ SetInv(k.inv, Moved(inv[k.inv], "failed"))
     /\ river' = [river EXCEPT ![r] =
          RowAt(CASE @.st = "available" -> "cancelled"
                  [] @.st = "running"   -> "stopping"
                  [] OTHER              -> @.st, @.attempt)]
     /\ UNCHANGED <<marker, wrk, app, outcomes, lock>>

\* Scheduling a deletion, the end of the requests it overtook, cancelling it.
ScheduleDeletion == lock = "open" /\ lock' = "closing"
RequestsDrained  == lock = "closing" /\ lock' = "locked"
CancelDeletion   == lock # "open" /\ lock' = "open"

SetLock == /\ ScheduleDeletion \/ RequestsDrained \/ CancelDeletion
           /\ UNCHANGED <<db, river, wrk, app>>

------------------------------------------------------------------------------
Worker(r) == Fetch(r) \/ SubmitTx1(r) \/ PollTx1(r) \/ CallSubmit(r) \/ TransformFails(r)
               \/ CallPoll(r) \/ Tx2(r) \/ Ack(r) \/ Rescue(r)

Fault(r) == Crash(r) \/ TxFails(r)

Users == \/ \E i \in Invoices : \/ Validate(i) \/ Edit(i) \/ Demote(i) \/ Keep(i)
                                \/ \E to \in Asserted : Transition(i, to)
         \/ \E req \in Requests, S \in SUBSET Invoices : BatchSubmit(req, S)
         \/ \E k \in Keys : SendAgain(k)

Staff == \E k \in Keys : Redrive(k) \/ StaffCancel(k)

Next == (\E r \in RiverJobs : Worker(r) \/ Fault(r)) \/ Users \/ Staff \/ SetLock

Spec == Init /\ [][Next]_vars

\* River runs every job it holds, rescues the ones a dead process left, and the
\* rate window rolls over: a job that is denied again and again is let through.
\* Users, staff and faults are not assumed to do anything.
Fairness == \A r \in RiverJobs : WF_vars(Worker(r)) /\ SF_vars(SubmitProceeds(r))

FairSpec == Spec /\ Fairness

------------------------------------------------------------------------------
(***************************************************************************)
(* Properties                                                              *)
(***************************************************************************)

\* The shape of every table, of the workers' memory and of the authority.
TypeOK ==
  /\ inv \in [Invoices -> InvoiceRow]
  /\ job \in [Keys -> JobRow]
  /\ river \in [RiverJobs -> RiverRow]
  /\ marker \subseteq RiverJobs
  /\ wrk \in [RiverJobs -> Memory]
  /\ app \in [Keys -> {"unknown", "open"} \cup Decided]
  /\ outcomes \in [Keys -> Nat]
  /\ lock \in {"open", "closing", "locked"}

\* An IRN is stored only for an invoice the authority has accepted under one
\* of its keys (MarkAcceptedTx is the only writer), whatever approvers assert.
IrnIsEarned ==
  \A i \in Invoices : inv[i].irn => \E k \in Keys : k.inv = i /\ app[k] = "accepted"

\* An invoice the authority holds or has cleared is never editable: it is not
\* walked back to draft or validated, from where a second key could be sent, and
\* so the authority never clears one invoice under two idempotency keys.
ClearedOnce ==
  /\ \A k \in Keys : app[k] \in {"open", "accepted"}
       => inv[k.inv].status \in {"queued", "submitted", "accepted", "failed"}
  /\ \A k, l \in Keys : (k.inv = l.inv /\ app[k] = "accepted" /\ app[l] = "accepted") => k = l

\* The invoice and the newest submission_jobs row tell the same story
\* (what verdict_not_routed and the other drift arms of the reconciler look for),
\* and a pending row has a poll that will still drive it, unless River gave a
\* poll up: that is the lost_poll the reconciler re-arms.
Story(status, kind, state, ref) ==
  \/ status \in {"draft", "validated"} /\ state \in {"none", "rejected"}
  \/ status = "queued"    /\ state \in {"none", "rejected", "queued", "submitting"}
  \/ status = "submitted" /\ state = "pending"
  \/ status = "accepted"  /\ state = "accepted"
  \/ status = "rejected"  /\ state = "rejected"
  \/ status = "failed"    /\ <<kind, state, ref>> \in
       {<<"payload_not_built", "failed", FALSE>>,
        <<"never_acknowledged", "dead_lettered", FALSE>>,
        <<"acknowledged_no_verdict", "dead_lettered", TRUE>>,
        <<NoKind, "cancelled", FALSE>>}

RowsAgree ==
  /\ \A i \in Invoices :
       \/ RowsOf(i) = {} /\ Story(inv[i].status, inv[i].kind, "none", FALSE)
       \/ \E k \in RowsOf(i) : /\ Newest(k)
                               /\ Story(inv[i].status, inv[i].kind, job[k].state, job[k].ref)
  /\ \A k \in Keys : job[k].state = "pending" =>
       \/ \E r \in PollJobs \ marker : r.key = k /\ Live(r)
       \/ \E r \in PollJobs : r.key = k /\ river[r].st = "discarded"

\* At most one River job can still apply a once-only effect to an invoice:
\* re-deliveries, polls and re-sends never give it two drivers.
OneDriver ==
  \A i \in Invoices : \A r, s \in RiverJobs \ marker :
    (r.key.inv = i /\ s.key.inv = i /\ Live(r) /\ Live(s)) => r = s

\* Every send of a key ends in exactly one outcome audit, and none is written
\* before it ends; a cancelled send has none.
OutcomeAuditedOnce ==
  \A k \in Keys :
    outcomes[k] = CASE job[k].state = "none" -> 0
                    [] job[k].state \in TerminalJobStates \ {"cancelled"} -> job[k].send
                    [] OTHER -> job[k].send - 1

\* The kept columns are set on drafts and failed invoices only: the CHECK
\* constraint invoices_kept_as_is_status never fires.
KeptWhereAllowed == \A i \in Invoices : inv[i].kept => inv[i].status \in {"draft", "failed"}

\* A row with a poll ticket has left the submit worker for good (worker.go's
\* "a fresher hop already advanced this job past pending").
TicketMeansPastSubmit ==
  \A k \in Keys : job[k].ref => job[k].state \in {"pending"} \cup TerminalJobStates

\* An acknowledged key is never presented to the authority again.
AcknowledgedNotSentAgain == [][\A r \in SubmitJobs : CallSubmit(r) => ~job[r.key].ref]_vars

\* A cleared invoice stays accepted with its IRN, whatever approvers assert.
AcceptanceKept == \A i \in Invoices : /\ inv[i].irn => inv'[i].irn
                                      /\ inv[i].status = "accepted" => inv'[i] = inv[i]

AcceptedIsForever == [][AcceptanceKept]_vars

\* Without crashes and failed transactions, and unless the workspace stays
\* locked, an invoice handed to the pipeline gets a verdict or fails: retries,
\* snoozes, re-sends and polls all come to an end.
InFlight(i) == inv[i].status \in {"queued", "submitted"}
Resolved(i) == inv[i].status \in {"accepted", "rejected", "failed"}

InFlightResolves ==
  <>[](lock = "open") => \A i \in Invoices : InFlight(i) ~> Resolved(i)

\* With them, the one exception is a job that could not record its last
\* attempt: River discards it and the reconciler reports the invoice.
GivenUp(i) == \E r \in RiverJobs : r.key.inv = i /\ river[r].st = "discarded"

InFlightIsNotForgotten ==
  <>[](lock = "open") => \A i \in Invoices : InFlight(i) ~> (Resolved(i) \/ GivenUp(i))

Lifecycle == INSTANCE InvoiceLifecycle
               WITH inv <- inv, Invoices <- Invoices, Asserted <- Asserted

\* The pipeline implements the lifecycle it promises.
ImplementsLifecycle == Lifecycle!Spec

==============================================================================
