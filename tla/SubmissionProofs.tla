-------------------------- MODULE SubmissionProofs --------------------------
(***************************************************************************)
(* Theorems about Submission, for every number of invoices, request keys,  *)
(* attempts, sends and hops: first in every environment (whatever          *)
(* approvers assert, whichever faults happen), then who drives an invoice  *)
(* where one kind of crash and one kind of assertion are excluded.         *)
(***************************************************************************)
EXTENDS Submission, FiniteSetTheorems, TLAPS

------------------------------------------------------------------------------
(***************************************************************************)
(* The inductive invariant                                                 *)
(***************************************************************************)

\* Only a job River is running has a worker, and running one spends an attempt.
WorkersRun ==
  \A r \in RiverJobs : /\ wrk[r].pc # "dead" => Executing(r)
                       /\ Executing(r) => river[r].attempt >= 1

\* River knows no send beyond the one the row points at.
NoLaterSend ==
  \A r \in SubmitJobs : r.n > job[r.key].send => river[r].st = "none"

\* The first send belongs to a key without a row.
RowlessSend == \A k \in Keys : job[k].state = "none" => job[k].send = 1

\* A worker about to record a clearance has seen the authority clear the key.
ClearanceSeen ==
  \A r \in RiverJobs : (wrk[r].pc = "tx2" /\ wrk[r].out = "accepted")
                         => app[r.key] = "accepted"

TypeInv == TypeOK /\ WorkersRun /\ NoLaterSend /\ RowlessSend

------------------------------------------------------------------------------
(***************************************************************************)
(* Lemmas: what the functions over rows return                             *)
(***************************************************************************)

\* A status write keeps the shape of an invoice row.
LEMMA MovedType ==
  ASSUME NEW row \in InvoiceRow, NEW to \in Statuses
  PROVE  Moved(row, to) \in InvoiceRow
BY DEF Moved, InvoiceRow

\* So do the outcome writes of the four Mark*Tx methods.
LEMMA MarkType ==
  ASSUME NEW row \in InvoiceRow
  PROVE  /\ MarkSubmitted(row) \in InvoiceRow
         /\ MarkAccepted(row) \in InvoiceRow
         /\ MarkRejected(row) \in InvoiceRow
         /\ \A kind \in FailureKinds : MarkFailed(row, kind) \in InvoiceRow
<1>1. {"submitted", "accepted", "rejected", "failed"} \subseteq Statuses
  BY DEF Statuses
<1>2. /\ [row EXCEPT !.irn = TRUE] \in InvoiceRow
      /\ [row EXCEPT !.reasons = TRUE] \in InvoiceRow
      /\ \A kind \in FailureKinds : [row EXCEPT !.kind = kind] \in InvoiceRow
  BY DEF InvoiceRow
<1> QED
  BY <1>1, <1>2, MovedType
     DEF Marked, MarkSubmitted, MarkAccepted, MarkRejected, MarkFailed

\* The rows of an invoice are as many as its request keys at most.
LEMMA RowsFinite ==
  ASSUME NEW i
  PROVE  Cardinality(RowsOf(i)) \in Nat
<1> DEFINE f == [k \in RowsOf(i) |-> k.req]
<1>1. f \in Injection(RowsOf(i), Requests)
  BY DEF Injection, IsInjective, RowsOf, Keys
<1>2. IsFiniteSet(RowsOf(i))
  BY <1>1, FS_Injection, SubmissionAssumption
<1> QED
  BY <1>2, FS_CardinalityType

\* A River job's key is a key, and its invoice one of the tenant's.
LEMMA JobKey ==
  ASSUME NEW r \in RiverJobs
  PROVE  r.key \in Keys /\ r.key.inv \in Invoices
BY DEF RiverJobs, SubmitJobs, PollJobs, Keys

\* A job's number names its send or its hop.
LEMMA SubmitNumber ==
  ASSUME NEW r \in RiverJobs, r.kind = "submit"
  PROVE  r \in SubmitJobs /\ r.n \in 1..MaxSends
BY DEF RiverJobs, SubmitJobs, PollJobs

\* ensureSubmissionJob returns a row, and the row of an executing job is not
\* behind the job's own send.
LEMMA EnsuredType ==
  ASSUME TypeInv, NEW r \in RiverJobs, AtSubmitTx1(r)
  PROVE  /\ Ensured(r) \in JobRow
         /\ Ensured(r).state # "none"
         /\ Ensured(r).send = job[r.key].send
<1>1. r \in SubmitJobs /\ r.n \in 1..MaxSends /\ r.key \in Keys
  BY SubmitNumber, JobKey DEF AtSubmitTx1
<1>2. CASE job[r.key].state # "none"
  BY <1>1, <1>2 DEF Ensured, TypeInv, TypeOK
<1>3. CASE job[r.key].state = "none"
  <2>1. Executing(r)
    BY DEF AtSubmitTx1, TypeInv, WorkersRun
  <2>2. ~(r.n > job[r.key].send)
    BY <1>1, <2>1 DEF Executing, TypeInv, NoLaterSend
  <2>3. job[r.key].send = 1 /\ r.n = 1
    BY <1>1, <1>3, <2>2, SubmissionAssumption DEF TypeInv, RowlessSend
  <2>4. Cardinality(RowsOf(r.key.inv)) + 1 \in Nat
    BY RowsFinite
  <2> QED
    BY <1>1, <1>3, <2>3, <2>4 DEF Ensured, NoRow, JobRow
<1> QED
  BY <1>2, <1>3

\* The River rows a handler leaves behind: at most one new poll.
RiverAfterHandler ==
  \/ river' = river
  \/ \E p \in PollJobs : /\ river[p].st = "none"
                         /\ river' = Inserted(river, p)

\* A step of r's worker that writes at most its own row, keeping the send and
\* the existence of the row, and enqueues at most a poll preserves TypeInv.
LEMMA WorkerStep ==
  ASSUME TypeInv, NEW r \in RiverJobs, Executing(r),
         NEW m \in Memory, wrk' = [wrk EXCEPT ![r] = m],
         NEW row \in JobRow, job' = [job EXCEPT ![r.key] = row],
         row.send = job[r.key].send,
         row.state = "none" => job[r.key].state = "none",
         inv' \in [Invoices -> InvoiceRow],
         RiverAfterHandler,
         marker' \subseteq RiverJobs,
         app' \in [Keys -> {"unknown", "open"} \cup Decided],
         outcomes' \in [Keys -> Nat],
         lock' = lock
  PROVE  TypeInv'
<1>1. r.key \in Keys /\ PollJobs \subseteq RiverJobs
  BY JobKey DEF RiverJobs
<1>2. river' \in [RiverJobs -> RiverRow]
  <2>1. RowAt("available", 0) \in RiverRow
    BY DEF RiverRow, RowAt
  <2> QED
    BY <1>1, <2>1 DEF TypeInv, TypeOK, RiverAfterHandler, Inserted
<1>3. TypeOK'
  BY <1>1, <1>2 DEF TypeInv, TypeOK
<1>4. \A s \in RiverJobs : river'[s] = river[s]
                            \/ /\ river[s].st = "none"
                               /\ s \in PollJobs
                               /\ river'[s] = RowAt("available", 0)
  BY <1>1 DEF TypeInv, TypeOK, RiverAfterHandler, Inserted
<1>5. WorkersRun'
  <2> SUFFICES ASSUME NEW s \in RiverJobs
               PROVE  /\ wrk'[s].pc # "dead" => Executing(s)'
                      /\ Executing(s)' => river'[s].attempt >= 1
    BY DEF WorkersRun
  <2>1. ~Executing(s) => wrk'[s] = wrk[s]
    BY DEF TypeInv, TypeOK
  <2> QED
    BY <1>4, <2>1 DEF TypeInv, WorkersRun, Executing, RowAt
<1>6. NoLaterSend'
  <2> SUFFICES ASSUME NEW s \in SubmitJobs, s.n > job'[s.key].send
               PROVE  river'[s].st = "none"
    BY DEF NoLaterSend
  <2>1. s \in RiverJobs /\ s \notin PollJobs
    BY DEF RiverJobs, SubmitJobs, PollJobs
  <2>2. job'[s.key].send = job[s.key].send
    BY <1>1, <2>1, JobKey DEF TypeInv, TypeOK
  <2> QED
    BY <1>4, <2>1, <2>2 DEF TypeInv, NoLaterSend
<1>7. RowlessSend'
  BY <1>1 DEF TypeInv, TypeOK, RowlessSend
<1> QED
  BY <1>3, <1>5, <1>6, <1>7 DEF TypeInv

\* Returning from a handler is a change of the worker's memory.
LEMMA ReturnMemory ==
  ASSUME TypeInv, NEW r \in RiverJobs, NEW ret \in Returns, Return(r, ret)
  PROVE  /\ [wrk[r] EXCEPT !.pc = "ack", !.out = ret] \in Memory
         /\ wrk' = [wrk EXCEPT ![r] = [wrk[r] EXCEPT !.pc = "ack", !.out = ret]]
<1>1. wrk[r] \in Memory
  BY DEF TypeInv, TypeOK
<1>2. [wrk[r] EXCEPT !.pc = "ack", !.out = ret] \in Memory
  BY <1>1 DEF Memory
<1>3. wrk' = [wrk EXCEPT ![r] = [wrk[r] EXCEPT !.pc = "ack", !.out = ret]]
  BY <1>1 DEF Return, Memory, TypeInv, TypeOK
<1> QED
  BY <1>2, <1>3
\* A handler that only returns.
LEMMA PureReturn ==
  ASSUME TypeInv, NEW r \in RiverJobs, Executing(r), NEW ret \in Returns,
         Return(r, ret), UNCHANGED <<db, river, app, lock>>
  PROVE  TypeInv'
<1>1. job[r.key] \in JobRow /\ job' = [job EXCEPT ![r.key] = job[r.key]]
  BY JobKey DEF TypeInv, TypeOK, db
<1> QED
  BY <1>1, ReturnMemory, WorkerStep DEF TypeInv, TypeOK, db, RiverAfterHandler

\* OncePerJob around any row, outcome and poll.
LEMMA OncePerJobType ==
  ASSUME TypeInv, NEW r \in RiverJobs, Executing(r), NEW target,
         NEW row \in JobRow, row.send = job[r.key].send,
         row.state = "none" => job[r.key].state = "none",
         NEW after \in InvoiceRow,
         NEW rv, rv = river
                 \/ \E p \in PollJobs : river[p].st = "none" /\ rv = Inserted(river, p),
         NEW audited \in Nat, NEW ret \in Returns,
         OncePerJob(r, target, row, after, rv, audited, ret),
         UNCHANGED <<app, lock>>
  PROVE  TypeInv'
<1>1. r.key \in Keys /\ r.key.inv \in Invoices /\ "err" \in Returns
  BY JobKey DEF Returns
<1>2. CASE UNCHANGED <<db, river>> /\ (Return(r, ret) \/ Return(r, "err"))
  BY <1>1, <1>2, PureReturn
<1>3. CASE /\ SetJob(r.key, row)
           /\ SetInv(r.key.inv, after)
           /\ river' = rv
           /\ marker' = marker \cup {r}
           /\ outcomes' = [outcomes EXCEPT ![r.key] = @ + audited]
           /\ Return(r, ret)
  <2>1. inv' \in [Invoices -> InvoiceRow] /\ outcomes' \in [Keys -> Nat]
    BY <1>1, <1>3 DEF TypeInv, TypeOK, SetInv
  <2>2. marker' \subseteq RiverJobs /\ RiverAfterHandler
    BY <1>3 DEF TypeInv, TypeOK, RiverAfterHandler
  <2> QED
    BY <1>1, <1>3, <2>1, <2>2, ReturnMemory, WorkerStep DEF SetJob, TypeInv, TypeOK
<1> QED
  BY <1>2, <1>3 DEF OncePerJob

\* The bookkeeping of an attempt keeps the row's shape and its send.
LEMMA AttemptedType ==
  ASSUME TypeInv, NEW r \in RiverJobs,
         NEW state \in {"none", "queued", "submitting", "pending"} \cup TerminalJobStates
  PROVE  /\ Attempted(r, state) \in JobRow
         /\ Attempted(r, state).state = state
         /\ Attempted(r, state).send = job[r.key].send
<1>1. job[r.key] \in JobRow /\ wrk[r].att + 1 \in Nat
  BY JobKey DEF TypeInv, TypeOK, Memory
<1>2. ASSUME NEW row \in JobRow, NEW n \in Nat
      PROVE  LET new == [row EXCEPT !.state = state, !.attempts = n]
             IN  new \in JobRow /\ new.state = state /\ new.send = row.send
  BY DEF JobRow
<1> QED
  BY <1>1, <1>2 DEF Attempted

\* EnqueueTx of a hop enqueues that poll or nothing.
LEMMA EnqueuedPollType ==
  ASSUME NEW k \in Keys, NEW n \in Nat \ {0}
  PROVE  \/ EnqueuedPoll(river, k, n) = river
         \/ \E p \in PollJobs : /\ river[p].st = "none"
                                /\ EnqueuedPoll(river, k, n) = Inserted(river, p)
<1>1. n <= MaxHops => PollJob(k, n) \in PollJobs
  BY SubmissionAssumption DEF PollJob, PollJobs
<1> QED
  BY <1>1 DEF EnqueuedPoll
\* The answers of the authority: their shape, that acceptance is answered for a
\* key it has accepted, and that it does not take an acceptance back.
LEMMA AnswersType ==
  ASSUME NEW a \in {"unknown", "open"} \cup Decided, NEW hop,
         NEW x \in SubmitAnswers(a) \cup PollAnswers(a, hop) \cup {<<"unbuilt", a>>}
  PROVE  /\ x[1] \in Results
         /\ x[2] \in {"unknown", "open"} \cup Decided
         /\ x[1] = "accepted" => x[2] = "accepted"
         /\ a = "accepted" => x[2] = "accepted"
<1>1. CASE x \in SubmitAnswers(a)
  BY <1>1 DEF SubmitAnswers, Decided, Results
<1>2. CASE x \in PollAnswers(a, hop)
  BY <1>2 DEF PollAnswers, Decided, Results
<1>3. CASE x = <<"unbuilt", a>>
  BY <1>3 DEF Decided, Results
<1> QED
  BY <1>1, <1>2, <1>3

------------------------------------------------------------------------------
(***************************************************************************)
(* Each action preserves the inductive invariant                           *)
(***************************************************************************)

\* River's own steps.
LEMMA RiverSteps ==
  ASSUME TypeInv, NEW r \in RiverJobs
  PROVE  Fetch(r) \/ Ack(r) \/ Crash(r) \/ Rescue(r) => TypeInv'
<1>1. /\ river[r] \in RiverRow /\ wrk[r] \in Memory /\ MaxAttempts \in Nat \ {0}
      /\ wrk[r].pc # "dead" => Executing(r)
      /\ Executing(r) => river[r].attempt >= 1
  BY SubmissionAssumption DEF TypeInv, TypeOK, WorkersRun
<1>2. ASSUME NEW row \in RiverRow, river' = [river EXCEPT ![r] = row],
             NEW m \in Memory, wrk' = [wrk EXCEPT ![r] = m],
             m.pc # "dead" => row.st \in {"running", "stopping"},
             row.st \in {"running", "stopping"} => row.attempt >= 1,
             river[r].st # "none",
             UNCHANGED <<db, app, lock>>
      PROVE  TypeInv'
  <2>1. TypeOK'
    BY <1>2 DEF TypeInv, TypeOK, db
  <2>2. WorkersRun'
    BY <1>2 DEF TypeInv, TypeOK, WorkersRun, Executing
  <2>3. NoLaterSend' /\ RowlessSend'
    BY <1>2 DEF TypeInv, TypeOK, NoLaterSend, RowlessSend, db, RiverJobs
  <2> QED
    BY <2>1, <2>2, <2>3 DEF TypeInv
<1>3. \A st \in {"running", "completed", "cancelled", "available", "discarded"}, n \in Nat :
        RowAt(st, n) \in RiverRow /\ RowAt(st, n).st = st /\ RowAt(st, n).attempt = n
  BY DEF RiverRow, RowAt
<1>4. NoWork \in Memory /\ NoWork.pc = "dead"
  BY DEF NoWork, Memory
<1>5. AfterError(r) \in {"discarded", "cancelled", "available"} /\ river[r].attempt \in Nat
  BY <1>1 DEF AfterError, RiverRow
<1>6. CASE Fetch(r)
  <2> DEFINE row == RowAt("running", river[r].attempt + 1)
  <2>1. /\ row \in RiverRow /\ row.attempt >= 1
        /\ row.st \in {"running", "stopping"}
    BY <1>3, <1>5
  <2>2. [pc |-> "tx1", att |-> 0, out |-> "none"] \in Memory
    BY DEF Memory
  <2>3. river' = [river EXCEPT ![r] = row] /\ river[r].st # "none"
    BY <1>6 DEF Fetch
  <2> HIDE DEF row
  <2> QED
    BY <1>2, <1>6, <2>1, <2>2, <2>3 DEF Fetch
<1>7. CASE Ack(r)
  <2> DEFINE after == CASE wrk[r].out = "nil"    -> "completed"
                        [] wrk[r].out = "cancel" -> "cancelled"
                        [] wrk[r].out = "snooze" /\ river[r].st = "running" -> "available"
                        [] OTHER                 -> AfterError(r)
             spent == river[r].attempt - (IF wrk[r].out = "snooze" THEN 1 ELSE 0)
             row   == RowAt(after, spent)
  <2>1. river[r].attempt \in Nat \ {0} /\ river[r].st # "none"
    BY <1>1, <1>7 DEF Ack, RiverRow, Executing
  <2>2. after \in {"completed", "cancelled", "available", "discarded"}
    BY <1>5
  <2>3. spent \in Nat
    BY <2>1
  <2>4. river' = [river EXCEPT ![r] = row]
    BY <1>7 DEF Ack
  <2> HIDE DEF after, spent
  <2>5. row \in RiverRow /\ row.st \notin {"running", "stopping"}
    BY <1>3, <2>2, <2>3
  <2> HIDE DEF row
  <2> QED
    BY <1>2, <1>4, <1>7, <2>1, <2>4, <2>5 DEF Ack
<1>8. CASE Crash(r)
  <2>1. river' = [river EXCEPT ![r] = river[r]] /\ river[r].st # "none"
    BY <1>1, <1>8 DEF Crash, Executing, TypeInv, TypeOK
  <2> QED
    BY <1>1, <1>2, <1>4, <1>8, <2>1 DEF Crash, Executing
<1>9. CASE Rescue(r)
  <2> DEFINE row == RowAt(AfterError(r), river[r].attempt)
  <2>1. row \in RiverRow /\ row.st \notin {"running", "stopping"}
    BY <1>3, <1>5
  <2>2. river' = [river EXCEPT ![r] = row]
    BY <1>9 DEF Rescue
  <2>3. wrk' = [wrk EXCEPT ![r] = wrk[r]] /\ river[r].st # "none"
    BY <1>9 DEF Rescue, Executing, TypeInv, TypeOK
  <2> HIDE DEF row
  <2> QED
    BY <1>1, <1>2, <1>9, <2>1, <2>2, <2>3 DEF Rescue
<1> QED
  BY <1>6, <1>7, <1>8, <1>9
\* The first transactions, and a failed one.
LEMMA Tx1Steps ==
  ASSUME TypeInv, NEW r \in RiverJobs
  PROVE  SubmitTx1(r) \/ PollTx1(r) \/ TxFails(r) => TypeInv'
<1>1. {"snooze", "nil", "err"} \subseteq Returns
  BY DEF Returns
<1>2. /\ wrk[r].pc # "dead" => Executing(r)
      /\ r.key \in Keys /\ job[r.key] \in JobRow /\ wrk[r] \in Memory
  BY JobKey DEF TypeInv, TypeOK, WorkersRun
<1>3. AtSubmitTx1(r) => Executing(r)
  BY <1>2 DEF AtSubmitTx1
<1>4. ASSUME AtSubmitTx1(r),
             NEW state \in {Ensured(r).state, "accepted", "submitting"},
             SetJob(r.key, [Ensured(r) EXCEPT !.state = state]),
             NEW m \in Memory, wrk' = [wrk EXCEPT ![r] = m],
             UNCHANGED <<inv, river, marker, app, outcomes, lock>>
      PROVE  TypeInv'
  <2> DEFINE row == [Ensured(r) EXCEPT !.state = state]
  <2>1. ASSUME NEW e \in JobRow, e.state # "none",
               NEW st \in {e.state, "accepted", "submitting"}
        PROVE  LET new == [e EXCEPT !.state = st]
               IN  new \in JobRow /\ new.send = e.send /\ new.state # "none"
    BY <2>1 DEF JobRow, TerminalJobStates
  <2>2. row \in JobRow /\ row.send = job[r.key].send /\ row.state # "none"
    BY <1>4, <2>1, EnsuredType
  <2>3. job' = [job EXCEPT ![r.key] = row]
    BY <1>4 DEF SetJob
  <2>4. /\ inv' \in [Invoices -> InvoiceRow] /\ marker' \subseteq RiverJobs
        /\ app' \in [Keys -> {"unknown", "open"} \cup Decided]
        /\ outcomes' \in [Keys -> Nat] /\ RiverAfterHandler /\ lock' = lock
    BY <1>4 DEF TypeInv, TypeOK, RiverAfterHandler
  <2> HIDE DEF row
  <2> QED
    BY <1>3, <1>4, <2>2, <2>3, <2>4, WorkerStep
<1>5. CASE SubmitLocked(r) \/ SubmitReplayed(r) \/ TxFails(r)
  BY <1>1, <1>2, <1>3, <1>5, PureReturn DEF SubmitLocked, SubmitReplayed, TxFails
<1>6. CASE SubmitAlreadyCleared(r)
  BY <1>1, <1>4, <1>6, ReturnMemory DEF SubmitAlreadyCleared
<1>7. CASE SubmitThrottled(r)
  <2>1. AtSubmitTx1(r) /\ SetJob(r.key, Ensured(r)) /\ Return(r, "snooze")
    BY <1>7 DEF SubmitThrottled, MayProceed
  <2>2. job' = [job EXCEPT ![r.key] = Ensured(r)]
    BY <2>1 DEF SetJob
  <2>3. /\ inv' \in [Invoices -> InvoiceRow] /\ marker' \subseteq RiverJobs
        /\ app' \in [Keys -> {"unknown", "open"} \cup Decided]
        /\ outcomes' \in [Keys -> Nat] /\ RiverAfterHandler /\ lock' = lock
    BY <1>7 DEF SubmitThrottled, TypeInv, TypeOK, RiverAfterHandler
  <2> QED
    BY <1>1, <1>3, <2>1, <2>2, <2>3, EnsuredType, ReturnMemory, WorkerStep
<1>8. CASE SubmitProceeds(r)
  <2>1. AtSubmitTx1(r) /\ Ensured(r) \in JobRow
    BY <1>8, EnsuredType DEF SubmitProceeds, MayProceed
  <2> DEFINE m == [pc |-> "call", att |-> Ensured(r).attempts, out |-> "none"]
  <2>2. m \in Memory
    BY <1>2, <2>1 DEF Memory, JobRow
  <2>3. wrk' = [wrk EXCEPT ![r] = m]
    BY <1>8 DEF SubmitProceeds, Calls
  <2> HIDE DEF m
  <2> QED
    BY <1>4, <1>8, <2>1, <2>2, <2>3 DEF SubmitProceeds
<1>9. CASE PollTx1(r)
  <2>1. CASE job[r.key].state # "pending"
    BY <1>1, <1>2, <1>9, <2>1, PureReturn DEF PollTx1
  <2>2. CASE job[r.key].state = "pending"
    <3> DEFINE m == [pc |-> "call", att |-> job[r.key].attempts, out |-> "none"]
    <3>1. m \in Memory
      BY <1>2 DEF Memory, JobRow
    <3>2. wrk' = [wrk EXCEPT ![r] = m]
      BY <1>9, <2>2 DEF PollTx1, Calls
    <3>3. job' = [job EXCEPT ![r.key] = job[r.key]]
      BY <1>2, <1>9 DEF PollTx1, TypeInv, TypeOK, db
    <3>4. /\ inv' \in [Invoices -> InvoiceRow] /\ marker' \subseteq RiverJobs
          /\ app' \in [Keys -> {"unknown", "open"} \cup Decided]
          /\ outcomes' \in [Keys -> Nat] /\ RiverAfterHandler /\ lock' = lock
      BY <1>9 DEF PollTx1, TypeInv, TypeOK, RiverAfterHandler, db
    <3>5. Executing(r)
      BY <1>2, <1>9 DEF PollTx1
    <3> HIDE DEF m
    <3> QED
      BY <1>2, <3>1, <3>2, <3>3, <3>4, <3>5, WorkerStep
  <2> QED
    BY <2>1, <2>2
<1> QED
  BY <1>5, <1>6, <1>7, <1>8, <1>9 DEF SubmitTx1
\* The calls to the authority: the worker holds the answer, nothing is written.
LEMMA CallSteps ==
  ASSUME TypeInv, NEW r \in RiverJobs
  PROVE  CallSubmit(r) \/ TransformFails(r) \/ CallPoll(r) => TypeInv'
<1>1. /\ wrk[r].pc # "dead" => Executing(r)
      /\ r.key \in Keys /\ job[r.key] \in JobRow /\ wrk[r] \in Memory
      /\ app[r.key] \in {"unknown", "open"} \cup Decided
  BY JobKey DEF TypeInv, TypeOK, WorkersRun
<1>2. ASSUME wrk[r].pc = "call", NEW answers,
             answers \subseteq SubmitAnswers(app[r.key]) \cup PollAnswers(app[r.key], r.n)
                                \cup {<<"unbuilt", app[r.key]>>},
             Answered(r, answers)
      PROVE  TypeInv'
  <2>1. PICK x \in answers : /\ wrk' = [wrk EXCEPT ![r].pc = "tx2", ![r].out = x[1]]
                             /\ app' = [app EXCEPT ![r.key] = x[2]]
    BY <1>2 DEF Answered
  <2>2. x[1] \in Results /\ x[2] \in {"unknown", "open"} \cup Decided
    BY <1>1, <1>2, AnswersType
  <2>3. [wrk[r] EXCEPT !.pc = "tx2", !.out = x[1]] \in Memory
    BY <1>1, <2>2 DEF Memory
  <2>4. wrk' = [wrk EXCEPT ![r] = [wrk[r] EXCEPT !.pc = "tx2", !.out = x[1]]]
    BY <1>1, <2>1 DEF Memory, TypeInv, TypeOK
  <2>5. job' = [job EXCEPT ![r.key] = job[r.key]]
    BY <1>1, <1>2 DEF Answered, db, TypeInv, TypeOK
  <2>6. app' \in [Keys -> {"unknown", "open"} \cup Decided]
    BY <1>1, <2>1, <2>2 DEF TypeInv, TypeOK
  <2>7. /\ inv' \in [Invoices -> InvoiceRow] /\ marker' \subseteq RiverJobs
        /\ outcomes' \in [Keys -> Nat] /\ RiverAfterHandler /\ lock' = lock
    BY <1>2 DEF Answered, db, TypeInv, TypeOK, RiverAfterHandler
  <2>8. Executing(r)
    BY <1>1, <1>2
  <2> QED
    BY <1>1, <2>3, <2>4, <2>5, <2>6, <2>7, <2>8, WorkerStep
<1> QED
  BY <1>2 DEF CallSubmit, TransformFails, CallPoll

\* The second transactions.
LEMMA Tx2Steps ==
  ASSUME TypeInv, NEW r \in RiverJobs
  PROVE  Tx2(r) => TypeInv'
<1> DEFINE i == r.key.inv
<1>1. /\ wrk[r].pc = "tx2" => Executing(r)
      /\ r.key \in Keys /\ i \in Invoices /\ job[r.key] \in JobRow /\ inv[i] \in InvoiceRow
  BY JobKey DEF TypeInv, TypeOK, WorkersRun
<1>2. /\ MarkSubmitted(inv[i]) \in InvoiceRow
      /\ MarkAccepted(inv[i]) \in InvoiceRow
      /\ MarkRejected(inv[i]) \in InvoiceRow
      /\ \A kind \in FailureKinds : MarkFailed(inv[i], kind) \in InvoiceRow
  BY <1>1, MarkType
<1>3. /\ {"nil", "err", "cancel"} \subseteq Returns /\ 0 \in Nat /\ 1 \in Nat
      /\ {"never_acknowledged", "acknowledged_no_verdict", "payload_not_built"}
           \subseteq FailureKinds
  BY DEF Returns, FailureKinds
<1>4. \A state \in {"accepted", "rejected", "pending", "dead_lettered", "failed", "queued"} :
        /\ Attempted(r, state) \in JobRow
        /\ Attempted(r, state).state = state
        /\ Attempted(r, state).send = job[r.key].send
  BY AttemptedType DEF TerminalJobStates
<1>5. ASSUME NEW row \in JobRow
      PROVE  /\ [row EXCEPT !.ref = TRUE] \in JobRow
             /\ [row EXCEPT !.ref = TRUE].state = row.state
             /\ [row EXCEPT !.ref = TRUE].send = row.send
             /\ [row EXCEPT !.state = "failed"] \in JobRow
             /\ [row EXCEPT !.state = "failed"].state = "failed"
             /\ [row EXCEPT !.state = "failed"].send = row.send
  BY DEF JobRow, TerminalJobStates
<1>6. CASE RecordAccepted(r) \/ RecordRejected(r)
  BY <1>1, <1>2, <1>3, <1>4, <1>6, OncePerJobType
     DEF RecordAccepted, RecordRejected, Recording
<1>7. CASE RecordPending(r)
  <2> DEFINE row == [Attempted(r, "pending") EXCEPT !.ref = TRUE]
  <2>1. row \in JobRow /\ row.state = "pending" /\ row.send = job[r.key].send
    BY <1>4, <1>5
  <2>2. OncePerJob(r, "submitted", row, MarkSubmitted(inv[i]), EnqueuedPoll(river, r.key, 1), 0, "nil")
    BY <1>7 DEF RecordPending
  <2>3. Executing(r) /\ UNCHANGED <<app, lock>>
    BY <1>1, <1>7 DEF RecordPending, Recording
  <2> HIDE DEF row
  <2> QED
    BY <1>1, <1>2, <1>3, <2>1, <2>2, <2>3, EnqueuedPollType, OncePerJobType
<1>8. CASE RecordStillPending(r)
  <2> DEFINE row == [Attempted(r, "pending") EXCEPT !.ref = TRUE]
  <2>1. row \in JobRow /\ row.state = "pending" /\ row.send = job[r.key].send
    BY <1>4, <1>5
  <2>2. OncePerJob(r, inv[i].status, row, inv[i], EnqueuedPoll(river, r.key, r.n + 1), 0, "nil")
    BY <1>8 DEF RecordStillPending
  <2>3. Executing(r) /\ UNCHANGED <<app, lock>>
    BY <1>1, <1>8 DEF RecordStillPending, Recording
  <2>4. r.n + 1 \in Nat \ {0}
    BY SubmissionAssumption DEF RiverJobs, SubmitJobs, PollJobs
  <2> HIDE DEF row
  <2> QED
    BY <1>1, <1>3, <2>1, <2>2, <2>3, <2>4, EnqueuedPollType, OncePerJobType
<1>9. CASE RecordDeadLetter(r)
  <2>1. PICK kind \in FailureKinds :
          OncePerJob(r, "failed", Attempted(r, "dead_lettered"), MarkFailed(inv[i], kind), river, 1, "err")
    BY <1>3, <1>9 DEF RecordDeadLetter
  <2> QED
    BY <1>1, <1>2, <1>3, <1>4, <1>9, <2>1, OncePerJobType DEF RecordDeadLetter, Recording
<1>10. CASE RecordRetry(r)
  <2> DEFINE state == IF r.kind = "submit" THEN "queued" ELSE job[r.key].state
             row   == Attempted(r, state)
  <2>1. state \in {"none", "queued", "submitting", "pending"} \cup TerminalJobStates
    BY <1>1 DEF JobRow
  <2>2. row \in JobRow /\ row.state = state /\ row.send = job[r.key].send
    BY <2>1, AttemptedType
  <2>3. job' = [job EXCEPT ![r.key] = row]
    BY <1>10 DEF RecordRetry, SetJob
  <2>4. /\ inv' \in [Invoices -> InvoiceRow] /\ marker' \subseteq RiverJobs
        /\ app' \in [Keys -> {"unknown", "open"} \cup Decided]
        /\ outcomes' \in [Keys -> Nat] /\ RiverAfterHandler /\ lock' = lock
    BY <1>10 DEF RecordRetry, TypeInv, TypeOK, RiverAfterHandler
  <2>5. Executing(r) /\ Return(r, "err")
    BY <1>1, <1>10 DEF RecordRetry, Recording
  <2>6. state = "none" => job[r.key].state = "none"
    OBVIOUS
  <2> HIDE DEF row, state
  <2> QED
    BY <1>3, <2>2, <2>3, <2>4, <2>5, <2>6, ReturnMemory, WorkerStep
<1>11. CASE RecordUnbuilt(r)
  <2> DEFINE row == [job[r.key] EXCEPT !.state = "failed"]
  <2>1. row \in JobRow /\ row.state = "failed" /\ row.send = job[r.key].send
    BY <1>1, <1>5
  <2>2. OncePerJob(r, "failed", row, MarkFailed(inv[i], "payload_not_built"), river, 1, "cancel")
    BY <1>11 DEF RecordUnbuilt
  <2>3. Executing(r) /\ UNCHANGED <<app, lock>>
    BY <1>1, <1>11 DEF RecordUnbuilt, Recording
  <2> HIDE DEF row
  <2> QED
    BY <1>1, <1>2, <1>3, <2>1, <2>2, <2>3, OncePerJobType
<1> QED
  BY <1>6, <1>7, <1>8, <1>9, <1>10, <1>11 DEF Tx2
\* Requests that write one invoice row.
LEMMA InvoiceSteps ==
  ASSUME TypeInv, NEW i \in Invoices
  PROVE  Validate(i) \/ Edit(i) \/ Demote(i) \/ Keep(i)
           \/ (\E to \in Asserted : Transition(i, to)) => TypeInv'
<1>1. inv[i] \in InvoiceRow /\ \A b \in BOOLEAN : [inv[i] EXCEPT !.kept = b] \in InvoiceRow
  BY DEF TypeInv, TypeOK, InvoiceRow
<1>2. Asserted \subseteq Statuses /\ {"validated", "draft"} \subseteq Statuses
  BY SubmissionAssumption DEF Statuses
<1>3. ASSUME NEW row \in InvoiceRow, SetInv(i, row), UNCHANGED Rest
      PROVE  TypeInv'
  <2>1. TypeOK'
    BY <1>3 DEF TypeInv, TypeOK, SetInv, Rest
  <2>2. WorkersRun' /\ NoLaterSend' /\ RowlessSend'
    BY <1>3 DEF TypeInv, WorkersRun, NoLaterSend, RowlessSend, Executing, Rest
  <2> QED
    BY <2>1, <2>2 DEF TypeInv
<1>4. /\ Moved(inv[i], "validated") \in InvoiceRow
      /\ Moved(inv[i], "draft") \in InvoiceRow
      /\ Moved([inv[i] EXCEPT !.kept = FALSE], "draft") \in InvoiceRow
      /\ \A to \in Asserted : Moved(inv[i], to) \in InvoiceRow
  BY <1>1, <1>2, MovedType
<1>5. CASE Validate(i) \/ Edit(i) \/ Demote(i)
  BY <1>3, <1>4, <1>5 DEF Validate, Edit, Demote
<1>6. CASE Keep(i)
  BY <1>1, <1>3, <1>6 DEF Keep
<1>7. CASE \E to \in Asserted : Transition(i, to)
  BY <1>3, <1>4, <1>7 DEF Transition
<1> QED
  BY <1>5, <1>6, <1>7

\* The batch endpoint: first sends whose River job does not exist yet.
LEMMA BatchSteps ==
  ASSUME TypeInv, NEW req \in Requests, NEW S \in SUBSET Invoices, BatchSubmit(req, S)
  PROVE  TypeInv'
<1> DEFINE First(i) == SubmitJob([req |-> req, inv |-> i], 1)
           fresh    == {i \in S : river[First(i)].st = "none"}
<1>1. /\ inv' = [i \in Invoices |-> IF i \in fresh THEN Moved(inv[i], "queued") ELSE inv[i]]
      /\ river' = [r \in RiverJobs |->
           IF \E i \in fresh : r = First(i) THEN RowAt("available", 0) ELSE river[r]]
      /\ UNCHANGED <<job, marker, wrk, app, outcomes, lock>>
  BY DEF BatchSubmit
<1>2. \A r \in RiverJobs : \/ river'[r] = river[r]
                          \/ /\ river[r].st = "none" /\ r.n = 1
                             /\ river'[r] = RowAt("available", 0)
  <2>1. \A i : First(i).n = 1
    BY DEF SubmitJob
  <2>2. \A i \in fresh : river[First(i)].st = "none"
    OBVIOUS
  <2> HIDE DEF First, fresh
  <2> QED
    BY <1>1, <2>1, <2>2
<1>3. inv' \in [Invoices -> InvoiceRow]
  <2>1. \A i \in Invoices : inv[i] \in InvoiceRow /\ Moved(inv[i], "queued") \in InvoiceRow
    BY MovedType DEF TypeInv, TypeOK, Statuses
  <2> QED
    BY <1>1, <2>1
<1>4. river' \in [RiverJobs -> RiverRow]
  <2>1. RowAt("available", 0) \in RiverRow /\ \A r \in RiverJobs : river[r] \in RiverRow
    BY DEF RiverRow, RowAt, TypeInv, TypeOK
  <2> HIDE DEF fresh, First
  <2> QED
    BY <1>1, <2>1
<1> HIDE DEF fresh, First
<1>5. TypeOK'
  BY <1>1, <1>3, <1>4 DEF TypeInv, TypeOK
<1>6. WorkersRun'
  BY <1>1, <1>2 DEF TypeInv, WorkersRun, Executing, RowAt
<1>7. NoLaterSend'
  <2> SUFFICES ASSUME NEW r \in SubmitJobs, r.n > job[r.key].send
               PROVE  river'[r].st = "none"
    BY <1>1 DEF NoLaterSend
  <2>1. r \in RiverJobs /\ r.n # 1
    BY JobKey, SubmissionAssumption DEF RiverJobs, SubmitJobs, TypeInv, TypeOK, JobRow
  <2> QED
    BY <1>2, <2>1 DEF TypeInv, NoLaterSend
<1>8. RowlessSend'
  BY <1>1 DEF TypeInv, RowlessSend
<1> QED
  BY <1>5, <1>6, <1>7, <1>8 DEF TypeInv

\* The tail of a re-send: the old River job goes, the next one comes.
LEMMA RequeuedType ==
  ASSUME TypeInv, NEW k \in Keys, job[k].state # "none", Requeued(k)
  PROVE  TypeInv'
<1> DEFINE n   == job[k].send
           old == SubmitJob(k, n)
           new == SubmitJob(k, n + 1)
           row == [job[k] EXCEPT !.state = "queued", !.attempts = 0, !.send = @ + 1]
<1>1. job[k] \in JobRow /\ n \in 1..MaxSends /\ n < MaxSends /\ MaxSends \in Nat
  BY SubmissionAssumption DEF TypeInv, TypeOK, JobRow, Requeued
<1>2. /\ old \in SubmitJobs /\ old.key = k /\ old.n = n
      /\ new \in SubmitJobs /\ new.key = k /\ new.n = n + 1
  BY <1>1 DEF SubmitJob, SubmitJobs
<1>3. row \in JobRow /\ row.state = "queued" /\ row.send = n + 1
  <2>1. ASSUME NEW e \in JobRow, NEW m \in 1..MaxSends
        PROVE  LET e2 == [e EXCEPT !.state = "queued", !.attempts = 0, !.send = m]
               IN  e2 \in JobRow /\ e2.state = "queued" /\ e2.send = m
    BY DEF JobRow
  <2>2. n + 1 \in 1..MaxSends
    BY <1>1
  <2> QED
    BY <1>1, <2>1, <2>2
<1>4. /\ SetInv(k.inv, Moved(inv[k.inv], "queued"))
      /\ job' = [job EXCEPT ![k] = row]
      /\ river' = [[river EXCEPT ![old] = RowAt("deleted", 0)] EXCEPT ![new] = RowAt("available", 0)]
      /\ ~Executing(old)
      /\ UNCHANGED <<marker, wrk, app, outcomes, lock>>
  BY DEF Requeued, Requeueable, SetJob, Inserted
<1> HIDE DEF row, old, new
<1>5. river[new].st = "none"
  BY <1>1, <1>2 DEF TypeInv, NoLaterSend
<1>6. /\ RowAt("deleted", 0) \in RiverRow /\ RowAt("deleted", 0).st = "deleted"
      /\ RowAt("available", 0) \in RiverRow /\ RowAt("available", 0).st = "available"
  BY DEF RowAt, RiverRow
<1>7. TypeOK'
  <2>1. k.inv \in Invoices /\ Moved(inv[k.inv], "queued") \in InvoiceRow
    BY MovedType DEF Keys, TypeInv, TypeOK, Statuses
  <2> QED
    BY <1>3, <1>4, <1>6, <2>1 DEF TypeInv, TypeOK, SetInv
<1>8. \A r \in RiverJobs :
        \/ river'[r] = river[r] /\ r # old /\ r # new
        \/ (r = old \/ r = new) /\ ~Executing(r) /\ river'[r].st \in {"deleted", "available"}
  BY <1>4, <1>5, <1>6 DEF Executing, TypeInv, TypeOK
<1>9. WorkersRun'
  BY <1>4, <1>8 DEF TypeInv, WorkersRun, Executing
<1>10. NoLaterSend'
  <2> SUFFICES ASSUME NEW r \in SubmitJobs, r.n > job'[r.key].send
               PROVE  river'[r].st = "none"
    BY DEF NoLaterSend
  <2>1. r \in RiverJobs /\ r.key \in Keys /\ r.n \in Nat
    BY <1>1, JobKey DEF RiverJobs, SubmitJobs
  <2>2. r.n > job[r.key].send /\ (r.key = k => r.n > n + 1)
    BY <1>1, <1>3, <1>4, <2>1 DEF TypeInv, TypeOK
  <2>3. r # old /\ r # new
    BY <1>1, <1>2, <2>1, <2>2
  <2> QED
    BY <1>8, <2>1, <2>2, <2>3 DEF TypeInv, NoLaterSend
<1>11. RowlessSend'
  BY <1>3, <1>4 DEF TypeInv, TypeOK, RowlessSend
<1> QED
  BY <1>7, <1>9, <1>10, <1>11 DEF TypeInv

\* Staff cancel: the queued row, its invoice and its River job.
LEMMA StaffCancelType ==
  ASSUME TypeInv, NEW k \in Keys, StaffCancel(k)
  PROVE  TypeInv'
<1> DEFINE r   == SubmitJob(k, job[k].send)
           st  == CASE river[r].st = "available" -> "cancelled"
                    [] river[r].st = "running"   -> "stopping"
                    [] OTHER                     -> river[r].st
           row == [job[k] EXCEPT !.state = "cancelled"]
<1>1. job[k] \in JobRow /\ job[k].state = "queued"
  BY DEF StaffCancel, TypeInv, TypeOK
<1>2. r \in RiverJobs /\ river[r] \in RiverRow
  BY <1>1 DEF SubmitJob, SubmitJobs, RiverJobs, JobRow, TypeInv, TypeOK
<1>3. row \in JobRow /\ row.state = "cancelled" /\ row.send = job[k].send
  BY <1>1 DEF JobRow, TerminalJobStates
<1>4. /\ SetInv(k.inv, Moved(inv[k.inv], "failed"))
      /\ job' = [job EXCEPT ![k] = row]
      /\ river' = [river EXCEPT ![r] = RowAt(st, river[r].attempt)]
      /\ UNCHANGED <<marker, wrk, app, outcomes, lock>>
  BY DEF StaffCancel, SetJob
<1>5. /\ st = "none" <=> river[r].st = "none"
      /\ st \in {"running", "stopping"} <=> river[r].st \in {"running", "stopping"}
      /\ st \in {"none", "available", "running", "stopping", "completed",
                "cancelled", "discarded", "deleted"}
  BY <1>2 DEF RiverRow
<1> HIDE DEF row, r, st
<1>6. /\ RowAt(st, river[r].attempt) \in RiverRow
      /\ RowAt(st, river[r].attempt).st = st
      /\ RowAt(st, river[r].attempt).attempt = river[r].attempt
  BY <1>2, <1>5 DEF RowAt, RiverRow
<1>7. TypeOK'
  <2>1. k.inv \in Invoices /\ Moved(inv[k.inv], "failed") \in InvoiceRow
    BY MovedType DEF Keys, TypeInv, TypeOK, Statuses
  <2> QED
    BY <1>2, <1>3, <1>4, <1>6, <2>1 DEF TypeInv, TypeOK, SetInv
<1>8. WorkersRun'
  BY <1>2, <1>4, <1>5, <1>6 DEF TypeInv, TypeOK, WorkersRun, Executing
<1>9. NoLaterSend'
  <2> SUFFICES ASSUME NEW s \in SubmitJobs, s.n > job'[s.key].send
               PROVE  river'[s].st = "none"
    BY DEF NoLaterSend
  <2>1. s \in RiverJobs /\ s.key \in Keys
    BY JobKey DEF RiverJobs
  <2>2. s.n > job[s.key].send
    BY <1>3, <1>4, <2>1 DEF TypeInv, TypeOK
  <2>3. river[s].st = "none"
    BY <2>2 DEF TypeInv, NoLaterSend
  <2> QED
    BY <1>2, <1>4, <1>5, <1>6, <2>1, <2>3 DEF TypeInv, TypeOK
<1>10. RowlessSend'
  BY <1>3, <1>4 DEF TypeInv, TypeOK, RowlessSend
<1> QED
  BY <1>7, <1>8, <1>9, <1>10 DEF TypeInv
\* Every step preserves the inductive invariant.
LEMMA TypeInvStep ==
  ASSUME TypeInv, [Next]_vars
  PROVE  TypeInv'
<1>1. CASE UNCHANGED vars
  BY <1>1 DEF vars, TypeInv, TypeOK, WorkersRun, NoLaterSend, RowlessSend, Executing
<1>2. ASSUME NEW r \in RiverJobs, Worker(r) \/ Fault(r)
      PROVE  TypeInv'
  BY <1>2, RiverSteps, Tx1Steps, CallSteps, Tx2Steps DEF Worker, Fault
<1>3. CASE Users
  <2>1. ASSUME NEW k \in Keys, SendAgain(k)
        PROVE  TypeInv'
    BY <2>1, RequeuedType DEF SendAgain
  <2> QED
    BY <1>3, <2>1, InvoiceSteps, BatchSteps DEF Users
<1>4. CASE Staff
  <2>1. ASSUME NEW k \in Keys, Redrive(k)
        PROVE  TypeInv'
    BY <2>1, RequeuedType DEF Redrive
  <2> QED
    BY <1>4, <2>1, StaffCancelType DEF Staff
<1>5. CASE SetLock
  BY <1>5 DEF SetLock, ScheduleDeletion, RequestsDrained, CancelDeletion, db,
              TypeInv, TypeOK, WorkersRun, NoLaterSend, RowlessSend, Executing
<1> QED
  BY <1>1, <1>2, <1>3, <1>4, <1>5 DEF Next

------------------------------------------------------------------------------
(***************************************************************************)
(* What a step may do to an invoice row                                    *)
(***************************************************************************)

KeptOK(row) == row.kept => row.status \in {"draft", "failed"}

\* A row stays, or it is not a cleared one and keeps its IRN, or it is cleared
\* by a worker that records an acceptance.
RowStep(i, row, new) ==
  \/ new = row
  \/ /\ row.status # "accepted"
     /\ KeptOK(row) => KeptOK(new)
     /\ \/ new.irn = row.irn
        \/ /\ new.irn
           /\ \E r \in RiverJobs : r.key.inv = i /\ Recording(r, "accepted")

\* The columns a status write changes.
LEMMA MovedColumns ==
  ASSUME NEW row \in InvoiceRow, NEW to \in Statuses
  PROVE  /\ Moved(row, to).status = to
         /\ Moved(row, to).irn = row.irn
         /\ Moved(row, to).kept = IF to = "validated" THEN FALSE ELSE row.kept
BY DEF Moved, InvoiceRow

\* No edge of the status machine leaves accepted, and none carries a kept mark
\* to a status that may not have one.
LEMMA LegalMove ==
  ASSUME NEW row \in InvoiceRow, NEW to \in Statuses, CanTransition(row.status, to),
         NEW outcome \in InvoiceRow, outcome.kept = row.kept
  PROVE  /\ row.status # "accepted"
         /\ KeptOK(row) => KeptOK(Moved(outcome, to))
<1>1. row.status \in Statuses
  BY DEF InvoiceRow
<1>2. Moved(outcome, to).status = to
      /\ Moved(outcome, to).kept = IF to = "validated" THEN FALSE ELSE row.kept
  BY MovedColumns
<1>3. /\ row.status # "accepted"
      /\ row.status # "failed"
      /\ row.status = "draft" => to = "validated"
  BY <1>1 DEF CanTransition, LegalTransitions, Statuses
<1> QED
  BY <1>2, <1>3 DEF KeptOK

\* An outcome write at its target changes nothing and is a legal move otherwise.
LEMMA MarkStep ==
  ASSUME NEW i, NEW row \in InvoiceRow, NEW to \in Statuses, CanMark(row, to),
         NEW outcome \in InvoiceRow, outcome.kept = row.kept,
         \/ outcome.irn = row.irn
         \/ outcome.irn /\ \E r \in RiverJobs : r.key.inv = i /\ Recording(r, "accepted")
  PROVE  RowStep(i, row, Marked(row, outcome, to))
<1>1. CASE row.status = to
  BY <1>1 DEF Marked, RowStep
<1>2. CASE row.status # to
  <2>1. CanTransition(row.status, to) /\ Marked(row, outcome, to) = Moved(outcome, to)
    BY <1>2 DEF CanMark, Marked
  <2>2. row.status # "accepted" /\ (KeptOK(row) => KeptOK(Moved(outcome, to)))
    BY <2>1, LegalMove
  <2>3. Moved(outcome, to).irn = outcome.irn
    BY MovedColumns
  <2> QED
    BY <2>1, <2>2, <2>3 DEF RowStep
<1> QED
  BY <1>1, <1>2
\* OncePerJob writes the row it is given, a legal one, or nothing.
LEMMA OncePerJobRow ==
  ASSUME TypeInv, NEW r \in RiverJobs, NEW target, NEW row, NEW after, NEW rv,
         NEW audited, NEW ret, OncePerJob(r, target, row, after, rv, audited, ret),
         CanMark(inv[r.key.inv], target) => RowStep(r.key.inv, inv[r.key.inv], after)
  PROVE  \A i \in Invoices : RowStep(i, inv[i], inv'[i])
<1>1. r.key.inv \in Invoices
  BY JobKey
<1>2. CASE UNCHANGED inv
  BY <1>2 DEF RowStep
<1>3. CASE CanMark(inv[r.key.inv], target) /\ SetInv(r.key.inv, after)
  <2>1. \A i \in Invoices : inv'[i] = IF i = r.key.inv THEN after ELSE inv[i]
    BY <1>1, <1>3 DEF SetInv, TypeInv, TypeOK
  <2> QED
    BY <1>1, <1>3, <2>1 DEF RowStep
<1> QED
  BY <1>2, <1>3 DEF OncePerJob, db

\* The second transactions.
LEMMA Tx2Rows ==
  ASSUME TypeInv, NEW r \in RiverJobs, Tx2(r)
  PROVE  \A i \in Invoices : RowStep(i, inv[i], inv'[i])
<1> DEFINE i == r.key.inv
           row == inv[i]
<1>1. i \in Invoices /\ row \in InvoiceRow
  BY JobKey DEF TypeInv, TypeOK
<1>2. {"submitted", "accepted", "rejected", "failed"} \subseteq Statuses
  BY DEF Statuses
<1>3. /\ [row EXCEPT !.irn = TRUE] \in InvoiceRow
      /\ [row EXCEPT !.irn = TRUE].irn /\ [row EXCEPT !.irn = TRUE].kept = row.kept
  BY <1>1 DEF InvoiceRow
<1>4. /\ [row EXCEPT !.reasons = TRUE] \in InvoiceRow
      /\ [row EXCEPT !.reasons = TRUE].irn = row.irn
      /\ [row EXCEPT !.reasons = TRUE].kept = row.kept
  BY <1>1 DEF InvoiceRow
<1>5. ASSUME NEW kind \in FailureKinds
      PROVE  /\ [row EXCEPT !.kind = kind] \in InvoiceRow
             /\ [row EXCEPT !.kind = kind].irn = row.irn
             /\ [row EXCEPT !.kind = kind].kept = row.kept
  BY <1>1 DEF InvoiceRow
<1> HIDE DEF row
<1>6. CASE RecordAccepted(r)
  <2>1. CanMark(row, "accepted") => RowStep(i, row, MarkAccepted(row))
    BY <1>1, <1>2, <1>3, <1>6, MarkStep DEF MarkAccepted, RecordAccepted
  <2> QED
    BY <1>6, <2>1, OncePerJobRow DEF RecordAccepted, row
<1>7. CASE RecordRejected(r)
  <2>1. CanMark(row, "rejected") => RowStep(i, row, MarkRejected(row))
    BY <1>1, <1>2, <1>4, MarkStep DEF MarkRejected
  <2> QED
    BY <1>7, <2>1, OncePerJobRow DEF RecordRejected, row
<1>8. CASE RecordPending(r)
  <2>1. CanMark(row, "submitted") => RowStep(i, row, MarkSubmitted(row))
    BY <1>1, <1>2, MarkStep DEF MarkSubmitted
  <2> QED
    BY <1>8, <2>1, OncePerJobRow DEF RecordPending, row
<1>9. CASE RecordStillPending(r)
  <2>1. RowStep(i, row, row)
    BY DEF RowStep
  <2> QED
    BY <1>9, <2>1, OncePerJobRow DEF RecordStillPending, row
<1>10. ASSUME NEW kind \in FailureKinds
       PROVE  CanMark(row, "failed") => RowStep(i, row, MarkFailed(row, kind))
  BY <1>1, <1>2, <1>5, MarkStep DEF MarkFailed
<1>11. CASE RecordDeadLetter(r)
  <2>1. PICK kind \in FailureKinds :
          OncePerJob(r, "failed", Attempted(r, "dead_lettered"), MarkFailed(row, kind), river, 1, "err")
    BY <1>11 DEF RecordDeadLetter, FailureKinds, row
  <2> QED
    BY <1>10, <2>1, OncePerJobRow DEF row
<1>12. CASE RecordUnbuilt(r)
  <2>1. "payload_not_built" \in FailureKinds
    BY DEF FailureKinds
  <2> QED
    BY <1>10, <1>12, <2>1, OncePerJobRow DEF RecordUnbuilt, row
<1>13. CASE RecordRetry(r)
  BY <1>13 DEF RecordRetry, RowStep
<1> QED
  BY <1>6, <1>7, <1>8, <1>9, <1>11, <1>12, <1>13 DEF Tx2

\* The requests of users and staff.
LEMMA UserRows ==
  ASSUME TypeInv, Users \/ Staff
  PROVE  \A i \in Invoices : RowStep(i, inv[i], inv'[i])
<1>1. ASSUME NEW i \in Invoices, NEW new \in InvoiceRow, SetInv(i, new),
             inv[i].status # "accepted", new.irn = inv[i].irn,
             KeptOK(inv[i]) => KeptOK(new)
      PROVE  \A j \in Invoices : RowStep(j, inv[j], inv'[j])
  <2>1. \A j \in Invoices : inv'[j] = IF j = i THEN new ELSE inv[j]
    BY <1>1 DEF SetInv, TypeInv, TypeOK
  <2>2. RowStep(i, inv[i], new) /\ \A j \in Invoices : RowStep(j, inv[j], inv[j])
    BY <1>1 DEF RowStep
  <2> QED
    BY <2>1, <2>2
<1>2. \A i \in Invoices : inv[i] \in InvoiceRow
  BY DEF TypeInv, TypeOK
<1>3. ASSUME NEW i \in Invoices, NEW to \in Statuses, inv[i].status # "accepted",
             ~inv[i].kept \/ to \in {"validated", "draft"}, SetInv(i, Moved(inv[i], to))
      PROVE  \A j \in Invoices : RowStep(j, inv[j], inv'[j])
  <2> DEFINE new == Moved(inv[i], to)
  <2>1. /\ new \in InvoiceRow /\ new.irn = inv[i].irn /\ new.status = to
        /\ new.kept = IF to = "validated" THEN FALSE ELSE inv[i].kept
    BY <1>2, MovedType, MovedColumns
  <2>2. SetInv(i, new)
    BY <1>3
  <2> HIDE DEF new
  <2>3. KeptOK(new)
    BY <1>3, <2>1 DEF KeptOK
  <2> QED
    BY <1>1, <1>3, <2>1, <2>2, <2>3
<1>4. {"draft", "validated", "queued", "failed"} \subseteq Statuses
  BY DEF Statuses
<1>5. ASSUME NEW i \in Invoices, Validate(i) \/ Demote(i)
      PROVE  \A j \in Invoices : RowStep(j, inv[j], inv'[j])
  BY <1>3, <1>4, <1>5 DEF Validate, Demote
<1>6. ASSUME NEW i \in Invoices, Edit(i)
      PROVE  \A j \in Invoices : RowStep(j, inv[j], inv'[j])
  <2>1. /\ [inv[i] EXCEPT !.kept = FALSE] \in InvoiceRow
        /\ [inv[i] EXCEPT !.kept = FALSE].irn = inv[i].irn
    BY <1>2 DEF InvoiceRow
  <2>2. inv[i].status # "accepted"
    BY <1>2, <1>6 DEF Edit, CanEdit, CanTransition, LegalTransitions, Statuses, InvoiceRow
  <2> DEFINE reset == [inv[i] EXCEPT !.kept = FALSE]
             new   == Moved(reset, "draft")
  <2>3. new \in InvoiceRow /\ new.irn = inv[i].irn /\ KeptOK(new)
    <3> HIDE DEF reset
    <3>1. new \in InvoiceRow /\ new.irn = reset.irn /\ new.status = "draft"
      BY <1>4, <2>1, MovedType, MovedColumns DEF reset
    <3> HIDE DEF new
    <3> QED
      BY <2>1, <3>1 DEF KeptOK, reset
  <2>4. SetInv(i, new)
    BY <1>6 DEF Edit
  <2> HIDE DEF new
  <2> QED
    BY <1>1, <2>2, <2>3, <2>4
<1>7. ASSUME NEW i \in Invoices, Keep(i)
      PROVE  \A j \in Invoices : RowStep(j, inv[j], inv'[j])
  <2>1. PICK b \in BOOLEAN : SetInv(i, [inv[i] EXCEPT !.kept = b])
    BY <1>7 DEF Keep
  <2> DEFINE new == [inv[i] EXCEPT !.kept = b]
  <2>2. new \in InvoiceRow /\ new.irn = inv[i].irn /\ new.status = inv[i].status
    BY <1>2 DEF InvoiceRow
  <2> HIDE DEF new
  <2> QED
    BY <1>1, <1>7, <2>1, <2>2 DEF Keep, KeptOK, new
<1>8. ASSUME NEW i \in Invoices, NEW to \in Asserted, Transition(i, to)
      PROVE  \A j \in Invoices : RowStep(j, inv[j], inv'[j])
  <2>1. to \in Statuses /\ CanTransition(inv[i].status, to)
    BY <1>8, SubmissionAssumption DEF Transition
  <2>2. inv[i].status # "accepted" /\ (KeptOK(inv[i]) => KeptOK(Moved(inv[i], to)))
    BY <1>2, <2>1, LegalMove
  <2> QED
    BY <1>1, <1>2, <1>8, <2>1, <2>2, MovedType, MovedColumns DEF Transition
<1>9. ASSUME NEW req \in Requests, NEW S \in SUBSET Invoices, BatchSubmit(req, S)
      PROVE  \A j \in Invoices : RowStep(j, inv[j], inv'[j])
  <2>1. \A j \in Invoices :
          inv'[j] = inv[j] \/ (inv[j].status = "validated" /\ inv'[j] = Moved(inv[j], "queued"))
    BY <1>9 DEF BatchSubmit, Transmittable
  <2>2. \A j \in Invoices : /\ Moved(inv[j], "queued").irn = inv[j].irn
                           /\ Moved(inv[j], "queued").kept = inv[j].kept
    BY <1>2, <1>4, MovedColumns
  <2> QED
    BY <2>1, <2>2 DEF RowStep, KeptOK
<1>10. ASSUME NEW k \in Keys, Requeued(k) \/ StaffCancel(k)
       PROVE  \A j \in Invoices : RowStep(j, inv[j], inv'[j])
  <2>1. k.inv \in Invoices
    BY DEF Keys
  <2>2. CASE Requeued(k)
    BY <1>3, <1>4, <2>1, <2>2 DEF Requeued, Requeueable
  <2>3. CASE StaffCancel(k)
    <3>1. inv[k.inv].status = "queued" /\ SetInv(k.inv, Moved(inv[k.inv], "failed"))
      BY <2>3 DEF StaffCancel
    <3> DEFINE new == Moved(inv[k.inv], "failed")
    <3>2. new \in InvoiceRow /\ new.irn = inv[k.inv].irn /\ new.status = "failed"
      BY <1>2, <1>4, <2>1, MovedType, MovedColumns
    <3> HIDE DEF new
    <3>3. KeptOK(new)
      BY <3>2 DEF KeptOK
    <3> QED
      BY <1>1, <2>1, <3>1, <3>2, <3>3 DEF new
  <2> QED
    BY <1>10, <2>2, <2>3
<1> QED
  BY <1>5, <1>6, <1>7, <1>8, <1>9, <1>10 DEF Users, Staff, SendAgain, Redrive

\* Every step.
LEMMA RowSteps ==
  ASSUME TypeInv, [Next]_vars
  PROVE  \A i \in Invoices : RowStep(i, inv[i], inv'[i])
<1>1. ASSUME NEW r \in RiverJobs, Worker(r) \/ Fault(r)
      PROVE  \A i \in Invoices : RowStep(i, inv[i], inv'[i])
  <2>1. CASE Tx2(r)
    BY <2>1, Tx2Rows
  <2>2. CASE UNCHANGED inv
    BY <2>2 DEF RowStep
  <2> QED
    BY <1>1, <2>1, <2>2
       DEF Worker, Fault, Fetch, SubmitTx1, SubmitLocked, SubmitReplayed, SubmitAlreadyCleared,
           SubmitThrottled, SubmitProceeds, PollTx1, CallSubmit, TransformFails, CallPoll,
           Answered, Ack, Rescue, Crash, TxFails, db
<1>2. CASE UNCHANGED inv
  BY <1>2 DEF RowStep
<1> QED
  BY <1>1, <1>2, UserRows DEF Next, SetLock, vars, db
------------------------------------------------------------------------------
(***************************************************************************)
(* What a step may do to the authority's decisions                         *)
(***************************************************************************)

\* The authority never takes an acceptance back.
LEMMA AcceptanceStands ==
  ASSUME TypeInv, [Next]_vars
  PROVE  \A k \in Keys : app[k] = "accepted" => app'[k] = "accepted"
<1>1. ASSUME NEW r \in RiverJobs, NEW answers,
             answers \subseteq SubmitAnswers(app[r.key]) \cup PollAnswers(app[r.key], r.n)
                                \cup {<<"unbuilt", app[r.key]>>},
             Answered(r, answers)
      PROVE  \A k \in Keys : app[k] = "accepted" => app'[k] = "accepted"
  <2>1. PICK x \in answers : app' = [app EXCEPT ![r.key] = x[2]]
    BY <1>1 DEF Answered
  <2>2. app[r.key] = "accepted" => x[2] = "accepted"
    BY <1>1, AnswersType, JobKey DEF TypeInv, TypeOK
  <2> QED
    BY <2>1, <2>2 DEF TypeInv, TypeOK
<1>2. ASSUME NEW r \in RiverJobs, Worker(r) \/ Fault(r)
      PROVE  app' = app \/ CallSubmit(r) \/ TransformFails(r) \/ CallPoll(r)
  BY <1>2
     DEF Worker, Fault, Fetch, SubmitTx1, SubmitLocked, SubmitReplayed, SubmitAlreadyCleared,
         SubmitThrottled, SubmitProceeds, PollTx1, Tx2, RecordAccepted, RecordRejected,
         RecordPending, RecordStillPending, RecordDeadLetter, RecordRetry, RecordUnbuilt,
         Ack, Rescue, Crash, TxFails
<1>3. (Users \/ Staff \/ SetLock \/ UNCHANGED vars) => app' = app
  BY DEF Users, Staff, SetLock, Validate, Edit, Demote, Keep, Transition, BatchSubmit,
         SendAgain, Redrive, Requeued, StaffCancel, Rest, vars
<1> QED
  BY <1>1, <1>2, <1>3 DEF Next, CallSubmit, TransformFails, CallPoll

\* A worker comes to hold an acceptance only as the answer for its own key.
LEMMA ClearanceSeenStep ==
  ASSUME TypeInv, ClearanceSeen, [Next]_vars
  PROVE  ClearanceSeen'
<1>1. ASSUME NEW r \in RiverJobs, NEW answers,
             answers \subseteq SubmitAnswers(app[r.key]) \cup PollAnswers(app[r.key], r.n)
                                \cup {<<"unbuilt", app[r.key]>>},
             Answered(r, answers)
      PROVE  ClearanceSeen'
  <2>1. PICK x \in answers : /\ wrk' = [wrk EXCEPT ![r].pc = "tx2", ![r].out = x[1]]
                             /\ app' = [app EXCEPT ![r.key] = x[2]]
    BY <1>1 DEF Answered
  <2>2. x[1] = "accepted" => x[2] = "accepted"
    BY <1>1, AnswersType, JobKey DEF TypeInv, TypeOK
  <2>3. r.key \in Keys /\ wrk[r] \in Memory
    BY JobKey DEF TypeInv, TypeOK
  <2>4. wrk'[r].out = x[1] /\ \A s \in RiverJobs : s # r => wrk'[s] = wrk[s]
    BY <2>1, <2>3 DEF TypeInv, TypeOK, Memory
  <2>5. app'[r.key] = x[2]
    BY <2>1, <2>3 DEF TypeInv, TypeOK
  <2> SUFFICES ASSUME NEW s \in RiverJobs, wrk'[s].pc = "tx2", wrk'[s].out = "accepted"
               PROVE  app'[s.key] = "accepted"
    BY DEF ClearanceSeen
  <2>6. CASE s = r
    BY <2>2, <2>4, <2>5, <2>6
  <2>7. CASE s # r
    BY <2>4, <2>7, AcceptanceStands, JobKey DEF ClearanceSeen
  <2> QED
    BY <2>6, <2>7
<1>2. ASSUME NEW r \in RiverJobs, NEW m, m.pc # "tx2", wrk' = [wrk EXCEPT ![r] = m]
      PROVE  ClearanceSeen'
  BY <1>2, AcceptanceStands, JobKey DEF ClearanceSeen, TypeInv, TypeOK
<1>3. CASE UNCHANGED wrk
  BY <1>3, AcceptanceStands, JobKey DEF ClearanceSeen
<1>4. ASSUME NEW r \in RiverJobs, NEW ret, Return(r, ret)
      PROVE  ClearanceSeen'
  <2>1. wrk'[r].pc = "ack" /\ \A s \in RiverJobs : s # r => wrk'[s] = wrk[s]
    BY <1>4 DEF Return, TypeInv, TypeOK, Memory
  <2> QED
    BY <2>1, AcceptanceStands, JobKey DEF ClearanceSeen
<1>5. NoWork.pc # "tx2"
  BY DEF NoWork
<1>6. ASSUME NEW r \in RiverJobs, Fetch(r) \/ Ack(r) \/ Crash(r) \/ Rescue(r)
      PROVE  ClearanceSeen'
  <2>1. CASE Fetch(r)
    <3> DEFINE m == [pc |-> "tx1", att |-> 0, out |-> "none"]
    <3>1. m.pc # "tx2" /\ wrk' = [wrk EXCEPT ![r] = m]
      BY <2>1 DEF Fetch
    <3> HIDE DEF m
    <3> QED
      BY <1>2, <3>1
  <2> QED
    BY <1>2, <1>3, <1>5, <1>6, <2>1 DEF Ack, Crash, Rescue
<1>7. ASSUME NEW r \in RiverJobs, SubmitTx1(r) \/ PollTx1(r) \/ TxFails(r) \/ Tx2(r)
      PROVE  ClearanceSeen'
  <2>1. ASSUME NEW n, Calls(r, n)
        PROVE  ClearanceSeen'
    <3> DEFINE m == [pc |-> "call", att |-> n, out |-> "none"]
    <3>1. m.pc # "tx2" /\ wrk' = [wrk EXCEPT ![r] = m]
      BY <2>1 DEF Calls
    <3> HIDE DEF m
    <3> QED
      BY <1>2, <3>1
  <2> QED
    BY <1>4, <1>7, <2>1
       DEF SubmitTx1, SubmitLocked, SubmitReplayed, SubmitAlreadyCleared, SubmitThrottled,
           SubmitProceeds, PollTx1, TxFails, Tx2, RecordAccepted, RecordRejected, RecordPending,
           RecordStillPending, RecordDeadLetter, RecordRetry, RecordUnbuilt, OncePerJob
<1>8. ASSUME NEW r \in RiverJobs, CallSubmit(r) \/ TransformFails(r) \/ CallPoll(r)
      PROVE  ClearanceSeen'
  BY <1>1, <1>8 DEF CallSubmit, TransformFails, CallPoll
<1>9. (Users \/ Staff \/ SetLock \/ UNCHANGED vars) => UNCHANGED wrk
  BY DEF Users, Staff, SetLock, Validate, Edit, Demote, Keep, Transition, BatchSubmit,
         SendAgain, Redrive, Requeued, StaffCancel, Rest, vars
<1> QED
  BY <1>3, <1>6, <1>7, <1>8, <1>9 DEF Next, Worker, Fault

------------------------------------------------------------------------------
(***************************************************************************)
(* Theorems                                                                *)
(***************************************************************************)

\* Nothing has been written and nobody works when the tenant is created.
LEMMA TypeInvInit == Init => TypeInv
<1> SUFFICES ASSUME Init PROVE TypeInv
  OBVIOUS
<1>1. NoRow \in JobRow /\ NoJob \in RiverRow /\ NoWork \in Memory
  BY SubmissionAssumption DEF NoRow, JobRow, NoJob, RiverRow, NoWork, Memory
<1>2. TypeOK
  BY <1>1 DEF Init, TypeOK, InvoiceRow, Statuses
<1>3. WorkersRun /\ NoLaterSend /\ RowlessSend
  BY DEF Init, WorkersRun, NoLaterSend, RowlessSend, NoWork, NoJob, NoRow, Executing,
         RiverJobs
<1> QED
  BY <1>2, <1>3 DEF TypeInv

\* Type correctness of every table and of the workers' memory. The attempts of
\* a job stay natural numbers because only a running job gives one back, and
\* its sends stay within MaxSends.
THEOREM TypeCorrect == Spec => []TypeOK
<1>1. Init => TypeInv
  BY TypeInvInit
<1>2. TypeInv /\ [Next]_vars => TypeInv'
  BY TypeInvStep
<1>3. TypeInv => TypeOK
  BY DEF TypeInv
<1> QED
  BY <1>1, <1>2, <1>3, PTL DEF Spec

\* Whatever approvers assert and whichever faults happen, a stored IRN comes
\* from an acceptance of the authority: MarkAcceptedTx is the only writer, and
\* the two workers reach it only with the authority's own answer in hand.
THEOREM IrnEarned == Spec => []IrnIsEarned
<1> DEFINE IInv == TypeInv /\ ClearanceSeen /\ IrnIsEarned
<1>1. Init => IInv
  <2>1. Init => ClearanceSeen /\ IrnIsEarned
    BY DEF Init, ClearanceSeen, IrnIsEarned, NoWork
  <2> QED
    BY <2>1, TypeInvInit
<1>2. IInv /\ [Next]_vars => IInv'
  <2> SUFFICES ASSUME TypeInv, ClearanceSeen, IrnIsEarned, [Next]_vars
               PROVE  IrnIsEarned'
    BY TypeInvStep, ClearanceSeenStep
  <2> SUFFICES ASSUME NEW i \in Invoices, inv'[i].irn
               PROVE  \E k \in Keys : k.inv = i /\ app'[k] = "accepted"
    BY DEF IrnIsEarned
  <2>1. CASE inv[i].irn
    BY <2>1, AcceptanceStands DEF IrnIsEarned
  <2>2. CASE \E r \in RiverJobs : r.key.inv = i /\ Recording(r, "accepted")
    BY <2>2, AcceptanceStands, JobKey DEF ClearanceSeen, Recording
  <2>3. inv[i].irn \/ \E r \in RiverJobs : r.key.inv = i /\ Recording(r, "accepted")
    BY RowSteps DEF RowStep
  <2> QED
    BY <2>1, <2>2, <2>3
<1>3. IInv => IrnIsEarned
  OBVIOUS
<1> QED
  BY <1>1, <1>2, <1>3, PTL DEF Spec

\* A cleared invoice is never touched again and never loses its IRN: no edge of
\* the status machine leaves accepted, and no writer by-passes it.
THEOREM AcceptedStays == Spec => AcceptedIsForever
<1>1. Init => TypeInv
  BY TypeInvInit
<1>2. TypeInv /\ [Next]_vars => TypeInv'
  BY TypeInvStep
<1>3. TypeInv /\ [Next]_vars => AcceptanceKept
  BY RowSteps DEF RowStep, AcceptanceKept
<1> QED
  BY <1>1, <1>2, <1>3, PTL DEF Spec, AcceptedIsForever

\* The kept mark is found on drafts and failed invoices only, whoever moves the
\* invoice: the table's CHECK constraint cannot make a transaction fail.
THEOREM KeptAllowed == Spec => []KeptWhereAllowed
<1>1. Init => TypeInv /\ KeptWhereAllowed
  BY TypeInvInit DEF Init, KeptWhereAllowed
<1>2. TypeInv /\ KeptWhereAllowed /\ [Next]_vars => (TypeInv /\ KeptWhereAllowed)'
  BY TypeInvStep, RowSteps DEF RowStep, KeptOK, KeptWhereAllowed
<1> QED
  BY <1>1, <1>2, PTL DEF Spec

------------------------------------------------------------------------------
(***************************************************************************)
(* Who drives an invoice, what its row says of it, and that the pipeline   *)
(* implements InvoiceLifecycle, where no worker dies between the commit of *)
(* a Pending and River's record of it, and approvers assert only what      *)
(* hands an invoice over or takes it back. The assumption is Undisturbed,  *)
(* below.                                                                  *)
(*                                                                         *)
(* The invariant in one sentence: an invoice has at most one row that is   *)
(* neither absent nor rejected, its state and the invoice's status fix     *)
(* each other, and at most one River job whose effect is not marked yet is *)
(* alive, which works for that row.                                        *)
(***************************************************************************)


\* May still apply its effect.
Driver(r) == r \notin marker /\ Live(r)

\* Rejected rows are history.
Active(k) == job[k].state \notin {"none", "rejected"}

\* An invoice that is not failed has no failure kind.
KindOfFailed == \A i \in Invoices : inv[i].status # "failed" => inv[i].kind = NoKind

\* What the state of a row says of its invoice and of its own ticket.
RowStatus(k) ==
  LET row == job[k]  i == inv[k.inv]
  IN /\ row.state \in {"queued", "submitting"} => i.status = "queued"
     /\ row.state = "pending" => i.status = "submitted" /\ row.ref
     /\ row.state = "accepted" => i.status = "accepted"
     /\ row.state \in {"failed", "dead_lettered", "cancelled"} => i.status = "failed"
     /\ row.state \in {"none", "queued", "submitting", "failed", "cancelled"} => ~row.ref
     /\ row.state = "failed" => i.kind = "payload_not_built"
     /\ row.state = "cancelled" => i.kind = NoKind
     /\ row.state = "dead_lettered" =>
          i.kind = IF row.ref THEN "acknowledged_no_verdict" ELSE "never_acknowledged"

\* An invoice has one row that counts.
OneActive ==
  \A k, l \in Keys : k.inv = l.inv /\ Active(k) /\ Active(l) => k = l

\* A driver works for that row, in the state its kind works on. A cancelled
\* row may still have the job that was asked to stop.
DriverAt(r) ==
  Driver(r) =>
    /\ \A l \in Keys : l.inv = r.key.inv /\ Active(l) => l = r.key
    /\ IF r.kind = "submit"
       THEN \/ /\ job[r.key].state \in {"none", "queued", "submitting"}
               /\ inv[r.key.inv].status = "queued"
            \/ job[r.key].state = "cancelled"
       ELSE job[r.key].state = "pending"

\* Only the submit job of the current send is alive, and before it calls the
\* authority and until it has recorded the answer it is the row's driver. Once
\* marked it finds the row finished, or is about to be completed.
SubmitAt(r) ==
  /\ Live(r) => r.n = job[r.key].send
  /\ wrk[r].pc \in {"call", "tx2"} => r \notin marker /\ job[r.key].state = "submitting"
  /\ r \in marker /\ Live(r) =>
       \/ job[r.key].state \in TerminalJobStates
       \/ job[r.key].state = "pending" /\ wrk[r].pc = "ack" /\ wrk[r].out = "nil"

\* River gave a poll of this row up: from here on the sweep may take over.
GaveUp(k) == \E r \in PollJobs : r.key = k /\ river[r].st = "discarded"

\* A poll is never asked to stop, has a hop left when it is deferred, and
\* without its mark returns only errors.
PollAt(r) ==
  /\ river[r].st # "stopping"
  /\ river[r].st # "none" => job[r.key].ref
  /\ wrk[r].pc = "tx2" => wrk[r].out # "unbuilt"
  /\ wrk[r].pc = "tx2" /\ wrk[r].out = "pending" => r.n < MaxHops
  /\ r \notin marker /\ wrk[r].pc = "ack" => wrk[r].out = "err"

\* The sweep re-arms what was given up.
Rearmed == \A r \in PollJobs : r.kind = "rearm" /\ river[r].st # "none" => GaveUp(r.key)

\* No poll is ahead of the one that drives, as long as none was given up.
HopsAhead(r) ==
  Driver(r) => \/ GaveUp(r.key)
               \/ \A m \in 1..MaxHops : m > r.n => river[PollJob(r.key, m)].st = "none"

\* A row was written by a submit job of its key, a mark by a job that ran.
JobsRan ==
  /\ \A k \in Keys : job[k].state # "none" => river[SubmitJob(k, 1)].st # "none"
  /\ \A r \in marker : river[r].st # "none"

\* A status the pipeline wrote has its row.
StatusHasRow ==
  \A i \in Invoices :
    /\ inv[i].status \in {"submitted", "accepted", "failed"} =>
         \E k \in Keys : k.inv = i /\ Active(k)
    /\ inv[i].status = "rejected" => RowsOf(i) # {}
    /\ inv[i].irn => inv[i].status = "accepted"

\* The row that counts is the newest one, and there is a newest one.
RowOrder ==
  /\ \A k \in Keys : job[k].state # "none" => job[k].born <= Cardinality(RowsOf(k.inv))
  /\ \A k \in Keys : Active(k) => Newest(k)
  /\ \A i \in Invoices : RowsOf(i) # {} => \E k \in RowsOf(i) : Newest(k)

\* A pending row has a poll.
Polled ==
  \A k \in Keys : job[k].state = "pending" =>
    \/ \E r \in PollJobs \ marker : r.key = k /\ Live(r)
    \/ GaveUp(k)

\* What the authority holds or has cleared has a row that counts.
HeldHasRow ==
  /\ \A k \in Keys : app[k] \in {"open", "accepted"} => Active(k)
  /\ \A r \in RiverJobs : wrk[r].pc = "tx2" /\ wrk[r].out = "rejected" => app[r.key] = "rejected"
  /\ \A k \in Keys : job[k].state = "rejected" => app[k] = "rejected"

DriverInv ==
  /\ KindOfFailed /\ OneActive /\ OneDriver /\ JobsRan /\ StatusHasRow
  /\ \A k \in Keys : RowStatus(k)
  /\ \A r \in RiverJobs : DriverAt(r)
  /\ \A r \in SubmitJobs : SubmitAt(r)
  /\ \A r \in PollJobs : PollAt(r) /\ HopsAhead(r)
  /\ RowOrder /\ Rearmed /\ Polled /\ HeldHasRow /\ OutcomeAuditedOnce

------------------------------------------------------------------------------
\* The kinds of River jobs are apart.
LEMMA JobKinds ==
  /\ RiverJobs = SubmitJobs \cup PollJobs
  /\ \A r \in SubmitJobs : r.kind = "submit" /\ r = SubmitJob(r.key, r.n) /\ r \notin PollJobs
  /\ \A r \in PollJobs : r.kind # "submit" /\ (r.kind = "poll" => r = PollJob(r.key, r.n))
  /\ \A k \in Keys, n \in 1..MaxSends : SubmitJob(k, n) \in SubmitJobs
  /\ \A k \in Keys, n \in 1..MaxHops : PollJob(k, n) \in PollJobs
<1>1. RiverJobs = SubmitJobs \cup PollJobs
  BY DEF RiverJobs
<1>2. \A r \in SubmitJobs : r.kind = "submit" /\ r = SubmitJob(r.key, r.n)
  BY DEF SubmitJobs, SubmitJob
<1>3. \A r \in PollJobs : r.kind # "submit" /\ (r.kind = "poll" => r = PollJob(r.key, r.n))
  BY DEF PollJobs, PollJob
<1>4. \A k \in Keys, n \in 1..MaxSends : SubmitJob(k, n) \in SubmitJobs
  BY DEF SubmitJobs, SubmitJob
<1>5. \A k \in Keys, n \in 1..MaxHops : PollJob(k, n) \in PollJobs
  BY DEF PollJobs, PollJob
<1> QED BY <1>1, <1>2, <1>3, <1>4, <1>5

\* Nobody drives an invoice to begin with.
LEMMA DriverInit == Init => DriverInv
<1> SUFFICES ASSUME Init PROVE DriverInv
  OBVIOUS
<1> USE DEF Init, NoRow, NoJob, NoWork
<1>1. \A k \in Keys : k.inv \in Invoices /\ job[k] = NoRow /\ ~Active(k)
  BY DEF Keys, Active
<1>2. \A r \in RiverJobs : /\ river[r] = NoJob /\ wrk[r] = NoWork /\ r \notin marker
                           /\ ~Live(r) /\ ~Driver(r) /\ r.key \in Keys
  BY JobKey DEF Live, Executing, Driver
<1>3. KindOfFailed /\ OneActive /\ OneDriver /\ HeldHasRow
  BY <1>1, <1>2 DEF KindOfFailed, OneActive, OneDriver, HeldHasRow
<1>4. \A i \in Invoices : RowsOf(i) = {}
  BY <1>1 DEF RowsOf
<1>5. StatusHasRow /\ RowOrder /\ Polled /\ JobsRan
  BY <1>1, <1>4 DEF StatusHasRow, RowOrder, Polled, JobsRan
<1>6. \A k \in Keys : RowStatus(k)
  BY <1>1 DEF RowStatus
<1>7. \A r \in RiverJobs : DriverAt(r)
  BY <1>2 DEF DriverAt
<1>8. \A r \in SubmitJobs : SubmitAt(r)
  BY <1>2, JobKinds DEF SubmitAt
<1>9. Rearmed /\ \A r \in PollJobs : PollAt(r) /\ HopsAhead(r)
  BY <1>2, JobKinds DEF PollAt, HopsAhead, Rearmed
<1>10. OutcomeAuditedOnce
  BY <1>1 DEF OutcomeAuditedOnce, TerminalJobStates
<1> QED BY <1>3, <1>5, <1>6, <1>7, <1>8, <1>9, <1>10 DEF DriverInv

\* What River gave up stays given up, and only the sweep re-arms.
LEMMA GivenUpStays ==
  ASSUME \A r \in PollJobs : /\ river[r].st = "discarded" => river'[r].st = "discarded"
                             /\ r.kind = "rearm" /\ river[r].st = "none" => river'[r].st = "none"
  PROVE  (\A k : GaveUp(k) => GaveUp(k)') /\ (Rearmed => Rearmed')
<1>1. ASSUME NEW k, GaveUp(k) PROVE GaveUp(k)'
  BY <1>1 DEF GaveUp
<1>2. Rearmed => Rearmed'
  BY <1>1 DEF Rearmed
<1> QED BY <1>1, <1>2

\* A step that writes no table row but r's River job and its worker's memory.
LEMMA MemoryStep ==
  ASSUME TypeInv, DriverInv, NEW r \in RiverJobs, UNCHANGED db,
         \A s \in RiverJobs : s # r => river'[s] = river[s] /\ wrk'[s] = wrk[s],
         river[r].st # "none", river'[r].st # "none",
         Live(r)' => Live(r),
         r \in SubmitJobs => SubmitAt(r)',
         r \in PollJobs => PollAt(r)',
         river[r].st = "discarded" => river'[r].st = "discarded",
         r \in PollJobs /\ Driver(r) => Live(r)' \/ river'[r].st = "discarded",
         HeldHasRow'
  PROVE  DriverInv'
<1> USE DEF db
<1>1. \A s \in RiverJobs : /\ Live(s)' => Live(s)
                           /\ Driver(s)' => Driver(s)
                           /\ river'[s].st = "none" <=> river[s].st = "none"
                           /\ river[s].st = "discarded" => river'[s].st = "discarded"
  BY DEF Live, Executing, Driver
<1>2. \A k \in Keys : Active(k)' = Active(k)
  BY DEF Active
<1>3. KindOfFailed' /\ OneActive' /\ OutcomeAuditedOnce'
  BY <1>2 DEF DriverInv, KindOfFailed, OneActive, OutcomeAuditedOnce
<1>4. OneDriver'
  BY <1>1 DEF DriverInv, OneDriver, Driver
<1>5. StatusHasRow' /\ RowOrder'
  BY <1>2 DEF DriverInv, StatusHasRow, RowOrder, Newest, RowsOf
<1>6. JobsRan'
  <2>1. marker \subseteq RiverJobs /\ \A k \in Keys : SubmitJob(k, 1) \in RiverJobs
    BY SubmissionAssumption, JobKinds DEF TypeInv, TypeOK
  <2> QED BY <1>1, <2>1 DEF DriverInv, JobsRan
<1>7. \A k \in Keys : RowStatus(k)'
  BY DEF DriverInv, RowStatus
<1>8. \A s \in RiverJobs : DriverAt(s)'
  BY <1>1, <1>2 DEF DriverInv, DriverAt
<1>9. \A s \in SubmitJobs : SubmitAt(s)'
  <2> SUFFICES ASSUME NEW s \in SubmitJobs, s # r
               PROVE  SubmitAt(s)'
    OBVIOUS
  <2> QED BY <1>1, JobKinds DEF DriverInv, SubmitAt
<1>10. \A s \in PollJobs : PollAt(s)'
  <2> SUFFICES ASSUME NEW s \in PollJobs, s # r
               PROVE  PollAt(s)'
    OBVIOUS
  <2> QED BY <1>1, JobKinds DEF DriverInv, PollAt
<1>11. Rearmed' /\ \A k : GaveUp(k) => GaveUp(k)'
  BY <1>1, JobKinds, GivenUpStays DEF DriverInv
<1>12. \A s \in PollJobs : HopsAhead(s)'
  <2> SUFFICES ASSUME NEW s \in PollJobs, Driver(s)', ~GaveUp(s.key)',
                      NEW m \in 1..MaxHops, m > s.n
               PROVE  river'[PollJob(s.key, m)].st = "none"
    BY DEF HopsAhead
  <2>1. s \in RiverJobs /\ PollJob(s.key, m) \in RiverJobs
    BY JobKinds, JobKey
  <2>2. Driver(s)
    BY <1>1, <2>1
  <2> QED BY <1>1, <1>11, <2>1, <2>2 DEF DriverInv, HopsAhead
<1>13. Polled'
  <2> SUFFICES ASSUME NEW k \in Keys, job[k].state = "pending"
               PROVE  \/ \E s \in PollJobs \ marker : s.key = k /\ Live(s)'
                      \/ GaveUp(k)'
    BY DEF Polled
  <2>1. \A s \in PollJobs : Driver(s) => Live(s)' \/ river'[s].st = "discarded"
    BY JobKinds DEF Live, Executing, Driver
  <2>2. CASE GaveUp(k)
    BY <1>11, <2>2
  <2>3. CASE ~GaveUp(k)
    <3>1. PICK s \in PollJobs \ marker : s.key = k /\ Live(s)
      BY <2>3 DEF DriverInv, Polled
    <3> QED BY <2>1, <3>1 DEF Driver, GaveUp
  <2> QED BY <2>2, <2>3
<1> QED BY <1>3, <1>4, <1>5, <1>6, <1>7, <1>8, <1>9, <1>10, <1>11, <1>12, <1>13 DEF DriverInv

\* River's own steps.
LEMMA RiverKeeps ==
  ASSUME TypeInv, DriverInv, PendingAckLost = FALSE, NEW r \in RiverJobs,
         Fetch(r) \/ Ack(r) \/ Crash(r) \/ Rescue(r)
  PROVE  DriverInv'
<1>1. /\ UNCHANGED <<db, app>>
      /\ \A s \in RiverJobs : s # r => river'[s] = river[s] /\ wrk'[s] = wrk[s]
  BY DEF Fetch, Ack, Crash, Rescue, TypeInv, TypeOK
<1>2. river[r].st # "none" /\ (wrk[r].pc # "dead" => Executing(r))
  BY DEF Fetch, Ack, Crash, Rescue, TypeInv, WorkersRun, Executing
<1>3. AfterError(r) \in {"available", "cancelled", "discarded"}
  BY DEF AfterError
<1>4. r \in PollJobs => AfterError(r) # "cancelled"
  BY DEF AfterError, DriverInv, PollAt
<1>5. ASSUME NEW st, river'[r].st = st, st \notin {"none", "stopping"},
             st = "discarded" \/ river[r].st # "discarded",
             st \in {"available", "running"} => Live(r) /\ wrk'[r].pc \in {"tx1", "dead"},
             r \in PollJobs /\ Driver(r) => st \in {"available", "running", "discarded"},
             wrk'[r].pc \in {"tx1", "dead"},
             r \in SubmitJobs /\ st \in {"available", "running"}
               => ~(job[r.key].state = "pending" /\ wrk[r].pc = "ack" /\ wrk[r].out = "nil")
      PROVE  DriverInv'
  <2>1. Live(r)' <=> st \in {"available", "running"}
    BY <1>5 DEF Live, Executing
  <2>2. r \in SubmitJobs => SubmitAt(r)'
    BY <1>1, <1>5, <2>1 DEF DriverInv, SubmitAt, db
  <2>3. r \in PollJobs => PollAt(r)'
    BY <1>1, <1>2, <1>5 DEF DriverInv, PollAt, db
  <2>4. HeldHasRow'
    BY <1>1, <1>5 DEF DriverInv, HeldHasRow, Active, db
  <2> QED BY <1>1, <1>2, <1>5, <2>1, <2>2, <2>3, <2>4, MemoryStep
<1>6. CASE Fetch(r)
  <2>1. river'[r].st = "running" /\ wrk'[r].pc = "tx1" /\ Live(r) /\ river[r].st = "available"
    BY <1>6 DEF Fetch, RowAt, TypeInv, TypeOK, Live
  <2>2. wrk[r].pc = "dead"
    BY <1>2, <2>1 DEF Executing
  <2> QED BY <1>5, <2>1, <2>2
<1>7. CASE Crash(r)
  <2>1. river'[r] = river[r] /\ wrk'[r].pc = "dead" /\ Executing(r)
    BY <1>2, <1>7 DEF Crash, NoWork, TypeInv, TypeOK
  <2>2. r \in SubmitJobs => SubmitAt(r)'
    <3>1. r \in SubmitJobs => ~(job[r.key].state = "pending" /\ wrk[r].pc = "ack")
      BY <1>7, JobKinds DEF Crash
    <3> QED BY <1>1, <2>1, <3>1 DEF DriverInv, SubmitAt, Live, Executing, db
  <2>3. r \in PollJobs => PollAt(r)'
    BY <1>1, <2>1 DEF DriverInv, PollAt, db
  <2>4. HeldHasRow'
    BY <1>1, <2>1 DEF DriverInv, HeldHasRow, Active, db
  <2>5. Live(r)' <=> Live(r)
    BY <2>1 DEF Live, Executing
  <2> QED BY <1>1, <1>2, <2>1, <2>2, <2>3, <2>4, <2>5, MemoryStep DEF Driver
<1>8. CASE Rescue(r)
  <2>1. river'[r].st = AfterError(r) /\ wrk'[r].pc = "dead" /\ Live(r) /\ wrk[r].pc = "dead"
    BY <1>8 DEF Rescue, RowAt, TypeInv, TypeOK, Live
  <2>2. river[r].st # "discarded"
    BY <1>8 DEF Rescue, Executing
  <2> QED BY <1>3, <1>4, <1>5, <2>1, <2>2
<1>9. CASE Ack(r)
  <2>1. wrk[r].pc = "ack" /\ Executing(r) /\ wrk'[r].pc = "dead"
    BY <1>2, <1>9 DEF Ack, NoWork, TypeInv, TypeOK
  <2>2. \/ river'[r].st = "completed" /\ wrk[r].out = "nil"
        \/ river'[r].st = "cancelled" /\ wrk[r].out = "cancel"
        \/ river'[r].st = "available" /\ wrk[r].out = "snooze"
        \/ river'[r].st = AfterError(r) /\ wrk[r].out \notin {"nil", "cancel"}
    BY <1>9 DEF Ack, RowAt, TypeInv, TypeOK
  <2>3. r \in PollJobs /\ Driver(r) => wrk[r].out = "err"
    BY <2>1 DEF DriverInv, PollAt, Driver
  <2>4. river[r].st # "discarded" /\ Live(r)
    BY <2>1 DEF Executing, Live
  <2> QED BY <1>3, <1>4, <1>5, <2>1, <2>2, <2>3, <2>4
<1> QED BY <1>6, <1>7, <1>8, <1>9

\* A handler that only returns, with its mark or with an error if it polls.
LEMMA ReturnKeeps ==
  ASSUME TypeInv, DriverInv, NEW r \in RiverJobs, NEW ret, Return(r, ret),
         wrk[r].pc \in {"tx1", "tx2"}, UNCHANGED <<db, river, app>>,
         r \in PollJobs => r \in marker \/ ret = "err"
  PROVE  DriverInv'
<1>1. /\ wrk'[r].pc = "ack" /\ wrk'[r].out = ret
      /\ \A s \in RiverJobs : s # r => wrk'[s] = wrk[s]
  BY DEF Return, TypeInv, TypeOK, Memory
<1>2. Executing(r) /\ river[r].st # "none" /\ Live(r)' = Live(r)
  BY DEF TypeInv, WorkersRun, Executing, Live
<1>3. r \in SubmitJobs => SubmitAt(r)'
  BY <1>1, <1>2 DEF DriverInv, SubmitAt, db
<1>4. r \in PollJobs => PollAt(r)'
  BY <1>1 DEF DriverInv, PollAt, db
<1>5. HeldHasRow'
  BY <1>1 DEF DriverInv, HeldHasRow, Active, db
<1> QED BY <1>1, <1>2, <1>3, <1>4, <1>5, MemoryStep DEF Driver

\* Every transaction that writes nothing.
LEMMA NothingWritten ==
  ASSUME TypeInv, DriverInv, NEW r \in RiverJobs,
         \/ TxFails(r) \/ SubmitLocked(r) \/ SubmitReplayed(r) \/ PollTx1(r)
         \/ /\ wrk[r].pc = "tx2"
            /\ UNCHANGED <<db, river, app>>
            /\ \E ret : Return(r, ret) /\ (r \in marker \/ ret = "err")
  PROVE  DriverInv'
<1>1. CASE TxFails(r)
  BY <1>1, ReturnKeeps DEF TxFails
<1>2. CASE SubmitLocked(r) \/ SubmitReplayed(r)
  BY <1>2, ReturnKeeps, JobKinds DEF SubmitLocked, SubmitReplayed, AtSubmitTx1
<1>3. CASE PollTx1(r)
  <2>1. r \in PollJobs /\ Executing(r) /\ wrk[r].pc = "tx1"
    BY <1>3, JobKinds DEF PollTx1, TypeInv, WorkersRun
  <2>2. CASE job[r.key].state # "pending"
    <3>1. r \in marker
      BY <2>1, <2>2, JobKinds DEF DriverInv, DriverAt, Driver, Live
    <3> QED BY <1>3, <2>1, <2>2, <3>1, ReturnKeeps DEF PollTx1
  <2>3. CASE job[r.key].state = "pending"
    <3>1. /\ UNCHANGED <<db, river, app>>
          /\ wrk'[r].pc = "call" /\ \A s \in RiverJobs : s # r => wrk'[s] = wrk[s]
      BY <1>3, <2>3 DEF PollTx1, Calls, TypeInv, TypeOK
    <3>2. PollAt(r)' /\ river[r].st # "none" /\ Live(r)' = Live(r)
      BY <2>1, <3>1 DEF DriverInv, PollAt, Executing, Live, db
    <3>3. HeldHasRow'
      BY <3>1 DEF DriverInv, HeldHasRow, Active, db
    <3> QED BY <2>1, <3>1, <3>2, <3>3, JobKinds, MemoryStep DEF Driver
  <2> QED BY <2>2, <2>3
<1>4. CASE /\ wrk[r].pc = "tx2"
           /\ UNCHANGED <<db, river, app>>
           /\ \E ret : Return(r, ret) /\ (r \in marker \/ ret = "err")
  BY <1>4, ReturnKeeps
<1> QED BY <1>1, <1>2, <1>3, <1>4

\* The authority decides a key once; a poll is answered, and deferred only
\* while the bound leaves it a hop.
LEMMA AnswersDecide ==
  ASSUME NEW a \in {"unknown", "open"} \cup Decided, NEW hop,
         NEW x \in SubmitAnswers(a) \cup PollAnswers(a, hop) \cup {<<"unbuilt", a>>}
  PROVE  /\ x[1] = "rejected" => x[2] = "rejected"
         /\ a = "rejected" => x[2] = "rejected"
         /\ x \in PollAnswers(a, hop) => x[1] # "unbuilt" /\ (x[1] = "pending" => hop < MaxHops)
<1>1. CASE a \in Decided
  BY <1>1 DEF SubmitAnswers, PollAnswers, Decided
<1>2. CASE a \notin Decided
  BY <1>2 DEF SubmitAnswers, PollAnswers, Decided
<1> QED BY <1>1, <1>2

\* An answer of the authority.
LEMMA AnswerKeeps ==
  ASSUME TypeInv, DriverInv, NEW r \in RiverJobs,
         CallSubmit(r) \/ TransformFails(r) \/ CallPoll(r)
  PROVE  DriverInv'
<1> DEFINE a == app[r.key]
<1>1. /\ wrk[r].pc = "call" /\ Executing(r) /\ UNCHANGED <<db, river>>
      /\ r.key \in Keys /\ a \in {"unknown", "open"} \cup Decided
  BY JobKey DEF CallSubmit, TransformFails, CallPoll, Answered, TypeInv, TypeOK, WorkersRun
<1>2. PICK x \in SubmitAnswers(a) \cup PollAnswers(a, r.n) \cup {<<"unbuilt", a>>} :
        /\ wrk' = [wrk EXCEPT ![r].pc = "tx2", ![r].out = x[1]]
        /\ app' = [app EXCEPT ![r.key] = x[2]]
        /\ r \in PollJobs => x \in PollAnswers(a, r.n)
  BY JobKinds DEF CallSubmit, TransformFails, CallPoll, Answered
<1>3. /\ x[1] = "rejected" => x[2] = "rejected"
      /\ a = "rejected" => x[2] = "rejected"
      /\ r \in PollJobs => x[1] # "unbuilt" /\ (x[1] = "pending" => r.n < MaxHops)
  BY <1>1, <1>2, AnswersDecide
<1>4. /\ wrk'[r].pc = "tx2" /\ wrk'[r].out = x[1]
      /\ \A s \in RiverJobs : s # r => wrk'[s] = wrk[s]
      /\ app'[r.key] = x[2] /\ \A k \in Keys : k # r.key => app'[k] = app[k]
  BY <1>1, <1>2 DEF TypeInv, TypeOK, Memory
<1> HIDE DEF a
<1>5. r \in SubmitJobs => SubmitAt(r)'
  BY <1>1, <1>4 DEF DriverInv, SubmitAt, Live, Executing, db
<1>6. r \in PollJobs => PollAt(r)'
  BY <1>1, <1>3, <1>4 DEF DriverInv, PollAt, db
<1>7. HeldHasRow'
  <2>1. \A k \in Keys : Active(k)' = Active(k)
    BY <1>1 DEF Active, db
  <2>2. Active(r.key) \/ job[r.key].state = "rejected"
    <3>1. CASE r \in SubmitJobs
      BY <1>1, <3>1 DEF DriverInv, SubmitAt, Active
    <3>2. CASE r \in PollJobs
      BY <1>1, <3>2 DEF DriverInv, PollAt, RowStatus, Active, Executing
    <3> QED BY <3>1, <3>2, JobKinds
  <2>3. \A k \in Keys : app'[k] \in {"open", "accepted"} => Active(k)
    BY <1>3, <1>4, <2>2 DEF DriverInv, HeldHasRow, a
  <2>4. \A k \in Keys : app[k] = "rejected" => app'[k] = "rejected"
    BY <1>3, <1>4 DEF a
  <2>5. \A s \in RiverJobs : wrk'[s].pc = "tx2" /\ wrk'[s].out = "rejected" => app'[s.key] = "rejected"
    BY <1>3, <1>4, <2>4, JobKey DEF DriverInv, HeldHasRow
  <2> QED BY <1>1, <2>1, <2>3, <2>4, <2>5 DEF DriverInv, HeldHasRow, db
<1> QED BY <1>1, <1>4, <1>5, <1>6, <1>7, MemoryStep DEF Driver, Live, Executing

\* The rows keep their order while none is written first.
LEMMA OrderKept ==
  ASSUME RowOrder,
         \A l \in Keys : /\ job'[l].born = job[l].born
                         /\ job'[l].state = "none" <=> job[l].state = "none"
                         /\ Active(l)' => Active(l)
  PROVE  RowOrder' /\ \A i : RowsOf(i)' = RowsOf(i)
<1>1. \A i : RowsOf(i)' = RowsOf(i)
  BY DEF RowsOf
<1>2. \A k \in Keys : Newest(k) => Newest(k)'
  BY <1>1 DEF Newest, RowsOf
<1>3. \A k \in Keys : k.inv \in Invoices
  BY DEF Keys
<1> QED BY <1>1, <1>2, <1>3 DEF RowOrder, RowsOf

\* A row that is written first is the newest of its invoice.
LEMMA OrderGrows ==
  ASSUME TypeInv, RowOrder, NEW k \in Keys, job[k].state = "none", job'[k].state # "none",
         \A l \in Keys : l # k => job'[l] = job[l],
         job'[k].born = Cardinality(RowsOf(k.inv)) + 1,
         \A l \in Keys : l.inv = k.inv /\ Active(l) => l = k
  PROVE  RowOrder' /\ \A i : RowsOf(i) \subseteq RowsOf(i)'
<1> DEFINE n == Cardinality(RowsOf(k.inv))
<1>1. RowsOf(k.inv)' = RowsOf(k.inv) \cup {k} /\ k \notin RowsOf(k.inv)
  BY DEF RowsOf
<1>2. \A i : i # k.inv => RowsOf(i)' = RowsOf(i)
  BY DEF RowsOf
<1>3. n \in Nat /\ Cardinality(RowsOf(k.inv)') = n + 1
  <2> DEFINE f == [l \in RowsOf(k.inv) |-> l.req]
  <2>1. f \in Injection(RowsOf(k.inv), Requests)
    BY DEF Injection, IsInjective, RowsOf, Keys
  <2>2. IsFiniteSet(RowsOf(k.inv))
    BY <2>1, FS_Injection, SubmissionAssumption
  <2> QED BY <1>1, <2>2, FS_CardinalityType, FS_AddElement
<1>4. \A l \in Keys : job[l].born \in Nat
  BY DEF TypeInv, TypeOK, JobRow
<1>5. \A l \in RowsOf(k.inv) : job[l].born <= n
  BY DEF RowOrder, RowsOf
<1>6. Newest(k)'
  <2>1. n \in Nat /\ job'[k].born = n + 1
    BY <1>3
  <2>2. ASSUME NEW l \in RowsOf(k.inv)', l # k
        PROVE  job'[l].born <= n + 1
    <3>1. l \in Keys /\ l \in RowsOf(k.inv) /\ job'[l] = job[l]
      BY <1>1, <2>2 DEF RowsOf
    <3>2. job[l].born \in Nat /\ job[l].born <= n
      BY <1>4, <1>5, <3>1
    <3> HIDE DEF n
    <3> QED BY <2>1, <3>1, <3>2
  <2> QED BY <1>1, <2>1, <2>2 DEF Newest
<1>7. \A l \in Keys : l.inv # k.inv /\ Newest(l) => Newest(l)'
  BY <1>2 DEF Newest, RowsOf
<1>8. \A l \in Keys : job'[l].state # "none" => job'[l].born <= Cardinality(RowsOf(l.inv)')
  <2> SUFFICES ASSUME NEW l \in Keys, job'[l].state # "none"
               PROVE  job'[l].born <= Cardinality(RowsOf(l.inv)')
    OBVIOUS
  <2>1. CASE l = k
    BY <1>3, <2>1
  <2>2. CASE l # k /\ l.inv = k.inv
    <3>1. l \in RowsOf(k.inv)
      BY <2>2 DEF RowsOf
    <3> QED BY <1>3, <1>4, <1>5, <2>2, <3>1
  <2>3. CASE l.inv # k.inv
    BY <1>2, <2>3 DEF RowOrder
  <2> QED BY <2>1, <2>2, <2>3
<1>9. \A l \in Keys : Active(l)' => Newest(l)'
  <2> SUFFICES ASSUME NEW l \in Keys, l # k, Active(l)'
               PROVE  Newest(l)'
    BY <1>6
  <2>1. Active(l) /\ l.inv # k.inv
    BY DEF Active
  <2> QED BY <1>7, <2>1 DEF RowOrder
<1>10. \A i \in Invoices : RowsOf(i)' # {} => \E l \in RowsOf(i)' : Newest(l)'
  BY <1>1, <1>2, <1>6, <1>7 DEF RowOrder, RowsOf
<1> QED BY <1>1, <1>2, <1>8, <1>9, <1>10 DEF RowOrder

------------------------------------------------------------------------------
\* A submit job that passes the gate of finished rows drives its invoice, and
\* no key of the invoice has been cleared.
LEMMA AtTheGate ==
  ASSUME TypeInv, DriverInv, NEW r \in RiverJobs, AtSubmitTx1(r),
         Ensured(r).state \notin TerminalJobStates
  PROVE  /\ Driver(r) /\ Executing(r) /\ r \in SubmitJobs
         /\ job[r.key].state \in {"none", "queued", "submitting"}
         /\ inv[r.key.inv].status = "queued"
         /\ ~Cleared(r)
<1>1. r \in SubmitJobs /\ Executing(r) /\ wrk[r].pc = "tx1" /\ Live(r)
  BY JobKinds DEF AtSubmitTx1, TypeInv, WorkersRun, Live
<1>2. job[r.key].state \notin TerminalJobStates
  BY DEF Ensured, TerminalJobStates
<1>3. Driver(r)
  BY <1>1, <1>2 DEF DriverInv, SubmitAt, Driver
<1>4. /\ job[r.key].state \in {"none", "queued", "submitting"}
      /\ inv[r.key.inv].status = "queued"
      /\ \A l \in Keys : l.inv = r.key.inv /\ Active(l) => l = r.key
  BY <1>1, <1>2, <1>3, JobKinds DEF DriverInv, DriverAt, TerminalJobStates
<1>5. ~Cleared(r)
  <2>1. ~inv[r.key.inv].irn
    BY <1>4, JobKey DEF DriverInv, StatusHasRow
  <2>2. \A k \in RowsOf(r.key.inv) \ {r.key} : job[k].state # "accepted"
    BY <1>4 DEF RowsOf, Active
  <2> QED BY <2>1, <2>2 DEF Cleared
<1> QED BY <1>1, <1>3, <1>4, <1>5

\* The driver writes its row on the way to the authority or back to the queue.
LEMMA RowWritten ==
  ASSUME TypeInv, DriverInv, NEW r \in SubmitJobs, Driver(r), Executing(r),
         job[r.key].state \in {"none", "queued", "submitting"},
         inv[r.key.inv].status = "queued",
         NEW row, \A l \in Keys : job'[l] = IF l = r.key THEN row ELSE job[l],
         row.state \in {"queued", "submitting"}, ~row.ref, row.send = job[r.key].send,
         row.born = IF job[r.key].state = "none" THEN Cardinality(RowsOf(r.key.inv)) + 1
                    ELSE job[r.key].born,
         UNCHANGED <<inv, river, marker, app, outcomes>>,
         \A s \in RiverJobs : s # r => wrk'[s] = wrk[s],
         wrk'[r].pc = "ack" \/ (wrk'[r].pc = "call" /\ row.state = "submitting")
  PROVE  DriverInv'
<1> DEFINE k == r.key
<1>1. r \in RiverJobs /\ k \in Keys /\ k.inv \in Invoices
  BY JobKinds, JobKey
<1>2. \A l \in Keys : l.inv = k.inv /\ Active(l) => l = k
  BY <1>1 DEF DriverInv, DriverAt
<1>3. \A s \in RiverJobs : Live(s)' = Live(s) /\ Driver(s)' = Driver(s) /\ Executing(s)' = Executing(s)
  BY DEF Live, Executing, Driver
<1>4. /\ \A l \in Keys : l # k => job'[l] = job[l] /\ Active(l)' = Active(l)
      /\ job'[k] = row /\ Active(k)' /\ job[k].state \in {"none", "queued", "submitting"}
  BY <1>1 DEF Active
<1>5. KindOfFailed' /\ OneDriver'
  BY <1>3 DEF DriverInv, KindOfFailed, OneDriver, Driver
<1>6. OneActive'
  BY <1>2, <1>4 DEF DriverInv, OneActive
<1>7. JobsRan'
  <2>1. r = SubmitJob(k, r.n) /\ r.n = job[k].send
    BY JobKinds DEF DriverInv, SubmitAt, Driver
  <2>2. job[k].state = "none" => r = SubmitJob(k, 1)
    BY <1>1, <2>1 DEF TypeInv, RowlessSend
  <2>3. river[r].st # "none"
    BY DEF Executing
  <2> QED BY <1>4, <2>2, <2>3 DEF DriverInv, JobsRan
<1>8. RowOrder' /\ \A i : RowsOf(i) \subseteq RowsOf(i)'
  <2>1. CASE job[k].state = "none"
    BY <1>1, <1>2, <1>4, <2>1, OrderGrows DEF DriverInv
  <2>2. CASE job[k].state # "none"
    <3>1. \A l \in Keys : /\ job'[l].born = job[l].born
                          /\ job'[l].state = "none" <=> job[l].state = "none"
                          /\ Active(l)' => Active(l)
      BY <1>4, <2>2 DEF Active
    <3> QED BY <3>1, OrderKept DEF DriverInv
  <2> QED BY <2>1, <2>2
<1>9. StatusHasRow'
  BY <1>4, <1>8 DEF DriverInv, StatusHasRow
<1>10. \A l \in Keys : RowStatus(l)'
  BY <1>4 DEF DriverInv, RowStatus
<1>11. \A s \in RiverJobs : DriverAt(s)'
  <2> SUFFICES ASSUME NEW s \in RiverJobs, Driver(s)
               PROVE  DriverAt(s)'
    BY <1>3 DEF DriverAt
  <2>1. CASE s = r
    BY <1>2, <1>4, <2>1, JobKinds DEF DriverAt
  <2>2. CASE s # r
    <3>1. s.key.inv # k.inv /\ s.key \in Keys
      BY <1>1, <2>2, JobKey DEF DriverInv, OneDriver, Driver
    <3> QED BY <1>4, <3>1 DEF DriverInv, DriverAt
  <2> QED BY <2>1, <2>2
<1>12. \A s \in SubmitJobs : SubmitAt(s)'
  <2> SUFFICES ASSUME NEW s \in SubmitJobs
               PROVE  SubmitAt(s)'
    OBVIOUS
  <2>1. s \in RiverJobs /\ s.key \in Keys
    BY JobKinds, JobKey
  <2>2. CASE s = r
    BY <1>1, <1>3, <1>4, <2>2 DEF DriverInv, SubmitAt, Driver
  <2>3. CASE s.key # k
    BY <1>3, <1>4, <2>1, <2>3 DEF DriverInv, SubmitAt
  <2>4. CASE s # r /\ s.key = k
    <3>1. ~Live(s)
      BY <2>4, JobKinds DEF DriverInv, SubmitAt, Driver
    <3>2. wrk'[s].pc = "dead"
      BY <2>1, <2>4, <3>1 DEF TypeInv, WorkersRun, Live
    <3> QED BY <1>3, <2>1, <3>1, <3>2 DEF SubmitAt
  <2> QED BY <2>2, <2>3, <2>4
<1>13. \A s \in PollJobs : PollAt(s)' /\ HopsAhead(s)'
  <2> SUFFICES ASSUME NEW s \in PollJobs
               PROVE  PollAt(s)' /\ HopsAhead(s)'
    OBVIOUS
  <2>1. s \in RiverJobs /\ s.key \in Keys /\ s # r
    BY JobKinds, JobKey
  <2>2. ~job[k].ref
    BY <1>1 DEF DriverInv, RowStatus
  <2>3. GaveUp(s.key) => GaveUp(s.key)'
    BY GivenUpStays
  <2> QED BY <1>3, <1>4, <2>1, <2>2, <2>3 DEF DriverInv, PollAt, HopsAhead
<1>14. Polled' /\ Rearmed'
  <2>1. Rearmed' /\ \A l : GaveUp(l) => GaveUp(l)'
    BY GivenUpStays DEF DriverInv
  <2> QED BY <1>3, <1>4, <2>1, JobKinds DEF DriverInv, Polled
<1>15. HeldHasRow'
  <2>1. wrk'[r].pc # "tx2"
    OBVIOUS
  <2> QED BY <1>4, <2>1 DEF DriverInv, HeldHasRow
<1>16. OutcomeAuditedOnce'
  <2>1. \A l \in Keys : l # k => outcomes'[l] = outcomes[l] /\ job'[l] = job[l]
    BY <1>4
  <2>2. outcomes[k] = row.send - 1
    BY <1>1 DEF DriverInv, OutcomeAuditedOnce, TypeInv, RowlessSend, TerminalJobStates
  <2> QED BY <1>4, <2>1, <2>2 DEF DriverInv, OutcomeAuditedOnce, TerminalJobStates
<1> QED BY <1>5, <1>6, <1>7, <1>8, <1>9, <1>10, <1>11, <1>12, <1>13, <1>14, <1>15, <1>16 DEF DriverInv

\* The gates that write the row.
LEMMA GateKeeps ==
  ASSUME TypeInv, DriverInv, NEW r \in RiverJobs,
         SubmitAlreadyCleared(r) \/ SubmitThrottled(r) \/ SubmitProceeds(r)
  PROVE  DriverInv'
<1>1. AtSubmitTx1(r) /\ Ensured(r).state \notin TerminalJobStates
  BY DEF SubmitAlreadyCleared, SubmitThrottled, SubmitProceeds, MayProceed
<1>2. /\ Driver(r) /\ Executing(r) /\ r \in SubmitJobs
      /\ job[r.key].state \in {"none", "queued", "submitting"}
      /\ inv[r.key.inv].status = "queued"
      /\ ~Cleared(r)
  BY <1>1, AtTheGate
<1>3. r.key \in Keys /\ Ensured(r) \in JobRow /\ Ensured(r).send = job[r.key].send
  BY <1>1, JobKey, EnsuredType
<1>4. /\ Ensured(r).state \in {"queued", "submitting"} /\ ~Ensured(r).ref
      /\ Ensured(r).born = IF job[r.key].state = "none" THEN Cardinality(RowsOf(r.key.inv)) + 1
                           ELSE job[r.key].born
  <2>1. CASE job[r.key].state = "none"
    BY <2>1 DEF Ensured, NoRow
  <2>2. CASE job[r.key].state # "none"
    BY <1>2, <1>3, <2>2 DEF Ensured, DriverInv, RowStatus
  <2> QED BY <2>1, <2>2
<1> DEFINE e == Ensured(r)
           sent == [e EXCEPT !.state = "submitting"]
<1>5. /\ sent.state = "submitting" /\ ~sent.ref /\ sent.send = job[r.key].send
      /\ sent.born = e.born
  BY <1>3, <1>4 DEF JobRow
<1>6. ASSUME NEW row, SetJob(r.key, row)
      PROVE  \A l \in Keys : job'[l] = IF l = r.key THEN row ELSE job[l]
  BY <1>3, <1>6 DEF SetJob, TypeInv, TypeOK
<1>7. CASE SubmitThrottled(r)
  <2>1. SetJob(r.key, e) /\ Return(r, "snooze") /\ UNCHANGED <<inv, river, marker, app, outcomes>>
    BY <1>7 DEF SubmitThrottled
  <2>2. wrk'[r].pc = "ack" /\ \A s \in RiverJobs : s # r => wrk'[s] = wrk[s]
    BY <2>1 DEF Return, TypeInv, TypeOK, Memory
  <2> HIDE DEF e
  <2> QED BY <1>2, <1>3, <1>4, <1>6, <2>1, <2>2, RowWritten DEF e
<1>8. CASE SubmitProceeds(r)
  <2>1. /\ SetJob(r.key, sent) /\ Calls(r, e.attempts)
        /\ UNCHANGED <<inv, river, marker, app, outcomes>>
    BY <1>8 DEF SubmitProceeds
  <2>2. wrk'[r].pc = "call" /\ \A s \in RiverJobs : s # r => wrk'[s] = wrk[s]
    BY <2>1 DEF Calls, TypeInv, TypeOK
  <2>3. \A l \in Keys : job'[l] = IF l = r.key THEN sent ELSE job[l]
    BY <1>6, <2>1
  <2>4. sent.born = IF job[r.key].state = "none" THEN Cardinality(RowsOf(r.key.inv)) + 1
                    ELSE job[r.key].born
    BY <1>4, <1>5
  <2> HIDE DEF sent
  <2> QED BY <1>2, <1>5, <2>1, <2>2, <2>3, <2>4, RowWritten
<1>9. ~SubmitAlreadyCleared(r)
  BY <1>2 DEF SubmitAlreadyCleared
<1> QED BY <1>7, <1>8, <1>9

\* A poll that was not answered notes the attempt.
LEMMA AttemptNoted ==
  ASSUME TypeInv, DriverInv, NEW r \in PollJobs, wrk[r].pc = "tx2", Return(r, "err"),
         NEW row, SetJob(r.key, row), row.state = job[r.key].state, row.ref = job[r.key].ref,
         row.send = job[r.key].send, row.born = job[r.key].born,
         UNCHANGED <<inv, river, marker, app, outcomes>>
  PROVE  DriverInv'
<1>1. r \in RiverJobs /\ r.key \in Keys
  BY JobKinds, JobKey
<1>2. /\ wrk'[r].pc = "ack" /\ wrk'[r].out = "err"
      /\ \A s \in RiverJobs : s # r => wrk'[s] = wrk[s]
  BY <1>1 DEF Return, TypeInv, TypeOK, Memory
<1>3. \A l \in Keys : /\ job'[l].state = job[l].state /\ job'[l].ref = job[l].ref
                      /\ job'[l].send = job[l].send /\ job'[l].born = job[l].born
                      /\ Active(l)' = Active(l)
  BY <1>1 DEF SetJob, TypeInv, TypeOK, Active
<1>4. \A s \in RiverJobs : Live(s)' = Live(s) /\ Driver(s)' = Driver(s) /\ s.key \in Keys
  BY JobKey DEF Live, Executing, Driver
<1>5. KindOfFailed' /\ OneActive' /\ OneDriver'
  BY <1>3, <1>4 DEF DriverInv, KindOfFailed, OneActive, OneDriver, Driver
<1>6. RowOrder' /\ \A i : RowsOf(i)' = RowsOf(i)
  BY <1>3, OrderKept DEF DriverInv
<1>7. StatusHasRow' /\ JobsRan'
  BY <1>3, <1>6 DEF DriverInv, StatusHasRow, JobsRan
<1>8. \A l \in Keys : RowStatus(l)'
  BY <1>3 DEF DriverInv, RowStatus
<1>9. \A s \in RiverJobs : DriverAt(s)'
  BY <1>3, <1>4 DEF DriverInv, DriverAt
<1>10. \A s \in SubmitJobs : SubmitAt(s)'
  <2> SUFFICES ASSUME NEW s \in SubmitJobs
               PROVE  SubmitAt(s)'
    OBVIOUS
  <2>1. s # r /\ s \in RiverJobs
    BY JobKinds
  <2> QED BY <1>2, <1>3, <1>4, <2>1 DEF DriverInv, SubmitAt
<1>11. \A s \in PollJobs : PollAt(s)' /\ HopsAhead(s)'
  <2> SUFFICES ASSUME NEW s \in PollJobs
               PROVE  PollAt(s)' /\ HopsAhead(s)'
    OBVIOUS
  <2>1. s \in RiverJobs
    BY JobKinds
  <2>2. PollAt(s) /\ HopsAhead(s)
    BY DEF DriverInv
  <2>3. GaveUp(s.key) => GaveUp(s.key)'
    BY GivenUpStays
  <2> QED BY <1>2, <1>3, <1>4, <2>1, <2>2, <2>3 DEF PollAt, HopsAhead
<1>12. Polled' /\ Rearmed'
  <2>1. Rearmed' /\ \A l : GaveUp(l) => GaveUp(l)'
    BY GivenUpStays DEF DriverInv
  <2> QED BY <1>3, <1>4, <2>1, JobKinds DEF DriverInv, Polled
<1>13. HeldHasRow'
  BY <1>2, <1>3 DEF DriverInv, HeldHasRow
<1>14. OutcomeAuditedOnce'
  BY <1>3 DEF DriverInv, OutcomeAuditedOnce
<1> QED BY <1>5, <1>6, <1>7, <1>8, <1>9, <1>10, <1>11, <1>12, <1>13, <1>14 DEF DriverInv

\* The bookkeeping of an attempt that will be repeated.
LEMMA RetryKeeps ==
  ASSUME TypeInv, DriverInv, NEW r \in RiverJobs, RecordRetry(r)
  PROVE  DriverInv'
<1>1. /\ wrk[r].pc = "tx2" /\ Return(r, "err") /\ Executing(r) /\ r.key \in Keys
      /\ UNCHANGED <<inv, river, marker, app, outcomes>>
  BY JobKey DEF RecordRetry, Recording, TypeInv, WorkersRun
<1>2. CASE r \in PollJobs
  <2> DEFINE row == Attempted(r, job[r.key].state)
  <2>1. SetJob(r.key, row)
    BY <1>2, JobKinds DEF RecordRetry
  <2>2. /\ row.state = job[r.key].state /\ row.ref = job[r.key].ref
        /\ row.send = job[r.key].send /\ row.born = job[r.key].born
    BY <1>1 DEF Attempted, TypeInv, TypeOK, JobRow
  <2> HIDE DEF row
  <2> QED BY <1>1, <1>2, <2>1, <2>2, AttemptNoted
<1>3. CASE r \in SubmitJobs
  <2> DEFINE row == Attempted(r, "queued")
  <2>1. SetJob(r.key, row)
    BY <1>3, JobKinds DEF RecordRetry
  <2>2. /\ row.state = "queued" /\ row.ref = job[r.key].ref
        /\ row.send = job[r.key].send /\ row.born = job[r.key].born
    BY <1>1 DEF Attempted, TypeInv, TypeOK, JobRow
  <2>3. /\ r \notin marker /\ job[r.key].state = "submitting" /\ Live(r)
        /\ inv[r.key.inv].status = "queued" /\ ~job[r.key].ref
    BY <1>1, <1>3 DEF DriverInv, SubmitAt, RowStatus, Live
  <2>4. \A l \in Keys : job'[l] = IF l = r.key THEN row ELSE job[l]
    BY <1>1, <2>1 DEF SetJob, TypeInv, TypeOK
  <2>5. wrk'[r].pc = "ack" /\ \A s \in RiverJobs : s # r => wrk'[s] = wrk[s]
    BY <1>1 DEF Return, TypeInv, TypeOK, Memory
  <2> HIDE DEF row
  <2> QED BY <1>1, <1>3, <2>2, <2>3, <2>4, <2>5, RowWritten DEF Driver
<1> QED BY <1>2, <1>3, JobKinds

\* The driver records an answer under its mark: the row and the invoice are
\* written together, and a deferral leaves the next poll behind.
LEMMA Recorded ==
  ASSUME TypeInv, DriverInv, NEW r \in RiverJobs, r \notin marker, wrk[r].pc = "tx2",
         NEW row, \A l \in Keys : job'[l] = IF l = r.key THEN row ELSE job[l],
         row.state \in {"accepted", "rejected", "pending", "failed", "dead_lettered"},
         row.send = job[r.key].send, row.born = job[r.key].born, job[r.key].ref => row.ref,
         NEW after, \A i \in Invoices : inv'[i] = IF i = r.key.inv THEN after ELSE inv[i],
         RowStatus(r.key)',
         after.status # "failed" => after.kind = NoKind,
         after.irn => after.status = "accepted",
         row.state = "rejected" => after.status = "rejected" /\ wrk[r].out = "rejected",
         marker' = marker \cup {r},
         \A s \in RiverJobs : s # r => wrk'[s] = wrk[s],
         wrk'[r].pc = "ack", row.state = "pending" => wrk'[r].out = "nil",
         UNCHANGED app,
         outcomes' = [outcomes EXCEPT ![r.key] = @ + IF row.state = "pending" THEN 0 ELSE 1],
         NEW p, p = PollJob(r.key, IF r \in PollJobs THEN r.n + 1 ELSE 1),
         row.state = "pending" =>
           \/ p \in PollJobs /\ river[p].st = "none" /\ river' = Inserted(river, p)
           \/ GaveUp(r.key) /\ river' = river,
         row.state # "pending" => river' = river
  PROVE  DriverInv'
<1> DEFINE k   == r.key
           ins == /\ row.state = "pending" /\ p \in PollJobs /\ river[p].st = "none"
                  /\ river' = Inserted(river, p)
<1>1. /\ k \in Keys /\ k.inv \in Invoices /\ Executing(r) /\ Driver(r)
      /\ p.key = k /\ p.kind = "poll" /\ p # r
  <2>1. Executing(r)
    BY DEF TypeInv, WorkersRun
  <2>2. p # r
    <3>1. CASE r \in PollJobs
      <4>1. r.n \in Nat
        BY <3>1, SubmissionAssumption DEF PollJobs
      <4> QED BY <3>1, <4>1 DEF PollJob
    <3> QED BY <3>1, JobKinds DEF PollJob
  <2> QED BY <2>1, <2>2, JobKey DEF Driver, Live, PollJob
<1>2. /\ job[k].state = IF r \in SubmitJobs THEN "submitting" ELSE "pending"
      /\ \A l \in Keys : l.inv = k.inv /\ Active(l) => l = k
      /\ \A s \in RiverJobs : Driver(s) /\ s.key.inv = k.inv => s = r
  <2>1. \A l \in Keys : l.inv = k.inv /\ Active(l) => l = k
    BY <1>1 DEF DriverInv, DriverAt
  <2>2. \A s \in RiverJobs : Driver(s) /\ s.key.inv = k.inv => s = r
    BY <1>1 DEF DriverInv, OneDriver, Driver
  <2>3. CASE r \in SubmitJobs
    BY <2>1, <2>2, <2>3 DEF DriverInv, SubmitAt
  <2>4. CASE r \in PollJobs
    BY <1>1, <2>1, <2>2, <2>4, JobKinds DEF DriverInv, DriverAt
  <2> QED BY <2>3, <2>4, JobKinds
<1>3. /\ \A l \in Keys : l # k => job'[l] = job[l] /\ Active(l)' = Active(l)
      /\ job'[k] = row /\ Active(k)
      /\ \A l \in Keys : Active(l)' => Active(l)
      /\ \A i \in Invoices : i # k.inv => inv'[i] = inv[i]
      /\ inv'[k.inv] = after
  BY <1>1, <1>2 DEF Active
<1>4. \A s \in RiverJobs :
        /\ s # p => river'[s] = river[s] /\ Live(s)' = Live(s)
        /\ Driver(s)' => s # r /\ (Driver(s) \/ (s = p /\ ins))
        /\ s = p /\ ins =>
             Live(s)' /\ river[s].st = "none" /\ river'[s].st = "available" /\ Driver(s)' /\ s \notin marker
        /\ s = p /\ ~ins => river'[s] = river[s] /\ Live(s)' = Live(s)
  <2>1. CASE ~ins
    <3>1. river' = river
      BY <2>1
    <3> HIDE DEF ins
    <3> QED BY <2>1, <3>1 DEF Live, Executing, Driver
  <2>2. CASE ins
    <3>1. /\ river' = Inserted(river, p) /\ river[p].st = "none"
          /\ \A s \in RiverJobs : s # p => river'[s] = river[s]
          /\ p \in RiverJobs /\ river'[p].st = "available"
      BY <2>2, JobKinds DEF Inserted, RowAt, TypeInv, TypeOK
    <3>2. p \notin marker
      BY <3>1 DEF DriverInv, JobsRan
    <3> HIDE DEF ins
    <3> QED BY <1>1, <2>2, <3>1, <3>2 DEF Live, Executing, Driver
  <2> QED BY <2>1, <2>2
<1>5. /\ Rearmed' /\ \A l : GaveUp(l) => GaveUp(l)'
      /\ row.state = "pending" => ins \/ GaveUp(k)
      /\ ins => row.state = "pending" /\ p \in PollJobs
  <2>1. \A s \in PollJobs : /\ river[s].st = "discarded" => river'[s].st = "discarded"
                            /\ s.kind = "rearm" /\ river[s].st = "none" => river'[s].st = "none"
    <3> HIDE DEF ins
    <3> QED BY <1>1, <1>4, JobKinds
  <2> QED BY <2>1, GivenUpStays DEF DriverInv
<1> HIDE DEF ins
<1>6. KindOfFailed' /\ OneActive'
  BY <1>2, <1>3 DEF DriverInv, KindOfFailed, OneActive
<1>7. \A s \in RiverJobs : Driver(s)' /\ s.key.inv = k.inv => s = p /\ ins
  BY <1>2, <1>4
<1>8. OneDriver'
  <2> SUFFICES ASSUME NEW i \in Invoices, NEW s \in RiverJobs, NEW u \in RiverJobs,
                      Driver(s)', Driver(u)', s.key.inv = i, u.key.inv = i
               PROVE  s = u
    BY DEF OneDriver, Driver
  <2>1. CASE i = k.inv
    BY <1>7, <2>1
  <2>2. CASE i # k.inv
    <3>1. Driver(s) /\ Driver(u)
      BY <1>1, <1>4, <2>2
    <3> QED BY <3>1 DEF DriverInv, OneDriver, Driver
  <2> QED BY <2>1, <2>2
<1>9. JobsRan'
  <2>1. \A s \in RiverJobs : river[s].st # "none" => river'[s].st # "none"
    BY <1>4
  <2>2. marker \subseteq RiverJobs /\ \A l \in Keys : SubmitJob(l, 1) \in RiverJobs
    BY SubmissionAssumption, JobKinds DEF TypeInv, TypeOK
  <2>3. river[r].st # "none" /\ job[k].state # "none"
    BY <1>1, <1>2 DEF Executing
  <2> QED BY <1>3, <2>1, <2>2, <2>3 DEF DriverInv, JobsRan
<1>10. RowOrder' /\ \A i : RowsOf(i)' = RowsOf(i)
  <2>1. \A l \in Keys : /\ job'[l].born = job[l].born
                        /\ job'[l].state = "none" <=> job[l].state = "none"
    BY <1>2, <1>3
  <2> QED BY <1>3, <2>1, OrderKept DEF DriverInv
<1>11. StatusHasRow'
  <2>1. k \in RowsOf(k.inv)
    BY <1>1, <1>2 DEF RowsOf
  <2>2. after.status # "rejected" => Active(k)'
    BY <1>3 DEF Active
  <2> SUFFICES ASSUME NEW i \in Invoices
               PROVE  /\ inv'[i].status \in {"submitted", "accepted", "failed"} =>
                           \E l \in Keys : l.inv = i /\ Active(l)'
                      /\ inv'[i].status = "rejected" => RowsOf(i)' # {}
                      /\ inv'[i].irn => inv'[i].status = "accepted"
    BY DEF StatusHasRow
  <2>3. CASE i = k.inv
    BY <1>1, <1>3, <1>10, <2>1, <2>2, <2>3
  <2>4. CASE i # k.inv
    BY <1>3, <1>10, <2>4 DEF DriverInv, StatusHasRow
  <2> QED BY <2>3, <2>4
<1>12. \A l \in Keys : RowStatus(l)'
  <2> SUFFICES ASSUME NEW l \in Keys, l # k
               PROVE  RowStatus(l)'
    OBVIOUS
  <2>1. l.inv \in Invoices /\ RowStatus(l) /\ job'[l] = job[l]
    BY <1>3 DEF DriverInv, Keys
  <2>2. CASE l.inv = k.inv
    <3>1. job[l].state \in {"none", "rejected"}
      BY <1>2, <2>2 DEF Active
    <3> QED BY <2>1, <3>1 DEF RowStatus
  <2>3. CASE l.inv # k.inv
    BY <1>3, <2>1, <2>3 DEF RowStatus
  <2> QED BY <2>2, <2>3
<1>13. \A s \in RiverJobs : DriverAt(s)'
  <2> SUFFICES ASSUME NEW s \in RiverJobs, Driver(s)'
               PROVE  DriverAt(s)'
    BY DEF DriverAt
  <2>1. CASE s.key.inv = k.inv
    <3>1. s = p /\ row.state = "pending"
      BY <1>7, <1>5, <2>1
    <3> QED BY <1>1, <1>2, <1>3, <3>1 DEF DriverAt
  <2>2. CASE s.key.inv # k.inv
    <3>1. DriverAt(s) /\ Driver(s) /\ s.key \in Keys /\ s.key # k /\ s.key.inv \in Invoices
      BY <1>1, <1>4, <2>2, JobKey DEF DriverInv
    <3> QED BY <1>3, <2>2, <3>1 DEF DriverAt
  <2> QED BY <2>1, <2>2
<1>14. \A s \in SubmitJobs : SubmitAt(s)'
  <2> SUFFICES ASSUME NEW s \in SubmitJobs
               PROVE  SubmitAt(s)'
    OBVIOUS
  <2>1. s \in RiverJobs /\ s.key \in Keys /\ SubmitAt(s) /\ s # p /\ Live(s)' = Live(s)
    BY <1>1, <1>4, JobKinds, JobKey DEF DriverInv
  <2>2. CASE s = r
    BY <1>3, <2>1, <2>2 DEF SubmitAt, TerminalJobStates
  <2>3. CASE s.key # k
    <3>1. wrk'[s] = wrk[s] /\ (s \in marker' <=> s \in marker) /\ job'[s.key] = job[s.key]
      BY <1>3, <2>1, <2>3
    <3> QED BY <2>1, <3>1 DEF SubmitAt
  <2>4. CASE s # r /\ s.key = k
    <3>1. wrk'[s] = wrk[s] /\ (s \in marker' <=> s \in marker)
      BY <2>1, <2>4
    <3>2. CASE r \in SubmitJobs
      <4>1. ~Live(s)
        BY <1>1, <2>1, <2>4, <3>2, JobKinds DEF DriverInv, SubmitAt, Driver
      <4>2. wrk'[s].pc = "dead"
        BY <2>1, <3>1, <4>1 DEF TypeInv, WorkersRun, Live
      <4> QED BY <2>1, <4>1, <4>2 DEF SubmitAt
    <3>3. CASE r \notin SubmitJobs
      BY <1>2, <1>3, <2>1, <2>4, <3>1, <3>3 DEF SubmitAt, TerminalJobStates
    <3> QED BY <3>2, <3>3
  <2> QED BY <2>2, <2>3, <2>4
<1>15. \A s \in PollJobs : PollAt(s)'
  <2> SUFFICES ASSUME NEW s \in PollJobs
               PROVE  PollAt(s)'
    OBVIOUS
  <2>1. /\ s \in RiverJobs /\ s.key \in Keys /\ PollAt(s)
        /\ job[s.key].ref => job'[s.key].ref
    BY <1>3, JobKinds, JobKey DEF DriverInv
  <2>2. CASE s = r
    BY <1>1, <1>4, <2>1, <2>2 DEF PollAt
  <2>3. CASE s = p /\ ins
    <3>1. wrk[s].pc = "dead"
      BY <1>4, <2>1, <2>3 DEF TypeInv, WorkersRun, Executing
    <3>2. job'[k].ref
      BY <1>3, <1>5, <2>3 DEF RowStatus
    <3> QED BY <1>1, <1>4, <2>1, <2>3, <3>1, <3>2 DEF PollAt
  <2>4. CASE s # r /\ ~(s = p /\ ins)
    BY <1>4, <2>1, <2>4 DEF PollAt
  <2> QED BY <2>2, <2>3, <2>4
<1>16. \A s \in PollJobs : HopsAhead(s)'
  <2> SUFFICES ASSUME NEW s \in PollJobs, Driver(s)', ~GaveUp(s.key)',
                      NEW m \in 1..MaxHops, m > s.n
               PROVE  river'[PollJob(s.key, m)].st = "none"
    BY DEF HopsAhead
  <2>1. s \in RiverJobs /\ s.key \in Keys /\ PollJob(s.key, m) \in PollJobs
    BY JobKinds, JobKey
  <2>2. CASE s = p
    <3>1. PollJob(k, m) # p
      BY <2>1, <2>2, JobKinds DEF PollJob
    <3>2. river[PollJob(k, m)].st = "none"
      <4>1. CASE r \in PollJobs
        <5>1. r.n \in Nat /\ p.n = r.n + 1
          BY <4>1, SubmissionAssumption DEF PollJobs, PollJob
        <5>2. m > r.n
          BY <2>2, <5>1
        <5> QED BY <1>1, <1>5, <2>2, <4>1, <5>2 DEF DriverInv, HopsAhead
      <4>2. CASE r \in SubmitJobs
        <5>1. ~job[k].ref
          BY <1>1, <1>2, <4>2 DEF DriverInv, RowStatus
        <5>2. PollJob(k, m).key = k
          BY DEF PollJob
        <5> QED BY <1>1, <2>1, <2>2, <5>1, <5>2 DEF DriverInv, PollAt
      <4> QED BY <4>1, <4>2, JobKinds
    <3> QED BY <1>1, <1>4, <2>1, <2>2, <3>1, <3>2, JobKinds
  <2>3. CASE s # p
    <3>1. Driver(s) /\ s.key # k
      BY <1>1, <1>2, <1>4, <2>1, <2>3
    <3>2. PollJob(s.key, m) # p
      BY <1>1, <3>1 DEF PollJob
    <3> QED BY <1>4, <1>5, <2>1, <3>1, <3>2, JobKinds DEF DriverInv, HopsAhead
  <2> QED BY <2>2, <2>3
<1>17. Polled'
  <2> SUFFICES ASSUME NEW l \in Keys, job'[l].state = "pending", ~GaveUp(l)'
               PROVE  \E s \in PollJobs \ marker' : s.key = l /\ Live(s)'
    BY DEF Polled
  <2>1. ~GaveUp(l)
    BY <1>5
  <2>2. CASE l = k
    <3>1. ins
      BY <1>3, <1>5, <2>1, <2>2
    <3>2. p \in PollJobs /\ p \notin marker' /\ Live(p)'
      BY <1>1, <1>4, <1>5, <3>1, JobKinds
    <3> QED BY <1>1, <2>2, <3>2
  <2>3. CASE l # k
    <3>1. \A s \in PollJobs : s.key = l =>
            /\ s \in marker' <=> s \in marker
            /\ Live(s)' = Live(s) /\ river'[s] = river[s]
      BY <1>1, <1>4, <2>3, JobKinds
    <3>2. job[l].state = "pending"
      BY <1>3, <2>3
    <3> QED BY <2>1, <3>1, <3>2 DEF DriverInv, Polled
  <2> QED BY <2>2, <2>3
<1>18. HeldHasRow'
  <2>1. row.state = "rejected" => app[k] = "rejected"
    BY DEF DriverInv, HeldHasRow
  <2>2. row.state # "rejected" => Active(k)'
    BY <1>3 DEF Active
  <2> QED BY <1>3, <2>1, <2>2 DEF DriverInv, HeldHasRow
<1>19. OutcomeAuditedOnce'
  <2>1. outcomes[k] = job[k].send - 1 /\ job[k].send \in Nat
    BY <1>1, <1>2, SubmissionAssumption
       DEF DriverInv, OutcomeAuditedOnce, TerminalJobStates, TypeInv, TypeOK, JobRow
  <2>2. /\ outcomes'[k] = IF row.state = "pending" THEN row.send - 1 ELSE row.send
        /\ \A l \in Keys : l # k => outcomes'[l] = outcomes[l]
    BY <1>1, <2>1 DEF TypeInv, TypeOK
  <2> QED BY <1>3, <2>2 DEF DriverInv, OutcomeAuditedOnce, TerminalJobStates
<1> QED BY <1>6, <1>8, <1>9, <1>10, <1>11, <1>12, <1>13, <1>14, <1>15, <1>16, <1>17, <1>18, <1>19, <1>5 DEF DriverInv

\* What the outcome writes make of an invoice in flight.
LEMMA MarkColumns ==
  ASSUME NEW row \in InvoiceRow, row.status \in {"queued", "submitted"}
  PROVE  /\ MarkAccepted(row).status = "accepted" /\ MarkAccepted(row).kind = row.kind
         /\ MarkRejected(row).status = "rejected" /\ MarkRejected(row).kind = row.kind
         /\ MarkRejected(row).irn = row.irn
         /\ row.status = "queued" =>
              /\ MarkSubmitted(row).status = "submitted" /\ MarkSubmitted(row).kind = row.kind
              /\ MarkSubmitted(row).irn = row.irn
         /\ \A kind \in FailureKinds :
              /\ MarkFailed(row, kind).status = "failed" /\ MarkFailed(row, kind).kind = kind
              /\ MarkFailed(row, kind).irn = row.irn
BY DEF MarkAccepted, MarkRejected, MarkSubmitted, MarkFailed, Marked, Moved, InvoiceRow

\* The recording transactions.
LEMMA RecordKeeps ==
  ASSUME TypeInv, DriverInv, NEW r \in RiverJobs,
         \/ RecordAccepted(r) \/ RecordRejected(r) \/ RecordPending(r) \/ RecordStillPending(r)
         \/ RecordDeadLetter(r) \/ RecordUnbuilt(r)
  PROVE  DriverInv'
<1> DEFINE k == r.key
           i == k.inv
<1>1. /\ wrk[r].pc = "tx2" /\ Executing(r) /\ UNCHANGED app
      /\ k \in Keys /\ i \in Invoices /\ inv[i] \in InvoiceRow /\ job[k] \in JobRow
  BY JobKey DEF RecordAccepted, RecordRejected, RecordPending, RecordStillPending,
                RecordDeadLetter, RecordUnbuilt, Recording, TypeInv, TypeOK, WorkersRun
<1>2. CASE UNCHANGED <<db, river>> /\ \E ret : Return(r, ret) /\ (r \in marker \/ ret = "err")
  BY <1>1, <1>2, NothingWritten
<1>3. ASSUME r \notin marker
      PROVE  /\ r \in SubmitJobs => job[k].state = "submitting" /\ inv[i].status = "queued" /\ ~job[k].ref
             /\ r \in PollJobs => job[k].state = "pending" /\ inv[i].status = "submitted" /\ job[k].ref
             /\ inv[i].kind = NoKind /\ ~inv[i].irn
  <2>1. Driver(r)
    BY <1>1, <1>3 DEF Driver, Live
  <2>2. r \in SubmitJobs => job[k].state = "submitting" /\ inv[i].status = "queued" /\ ~job[k].ref
    BY <1>1 DEF DriverInv, SubmitAt, RowStatus
  <2>3. r \in PollJobs => job[k].state = "pending" /\ inv[i].status = "submitted" /\ job[k].ref
    BY <1>1, <2>1, JobKinds DEF DriverInv, DriverAt, RowStatus
  <2> QED BY <1>1, <2>2, <2>3, JobKinds DEF DriverInv, KindOfFailed, StatusHasRow
<1>4. ASSUME NEW target, NEW row, NEW after, NEW rv, NEW audited, NEW ret,
             OncePerJob(r, target, row, after, rv, audited, ret)
      PROVE  \/ UNCHANGED <<db, river>> /\ \E x : Return(r, x) /\ (r \in marker \/ x = "err")
             \/ /\ r \notin marker
                /\ \A l \in Keys : job'[l] = IF l = k THEN row ELSE job[l]
                /\ \A j \in Invoices : inv'[j] = IF j = i THEN after ELSE inv[j]
                /\ marker' = marker \cup {r} /\ river' = rv
                /\ \A s \in RiverJobs : s # r => wrk'[s] = wrk[s]
                /\ wrk'[r].pc = "ack" /\ wrk'[r].out = ret
                /\ outcomes' = [outcomes EXCEPT ![k] = @ + audited]
  <2>1. CASE r \in marker \/ ~CanMark(inv[i], target)
    BY <1>4, <2>1 DEF OncePerJob
  <2>2. CASE r \notin marker /\ CanMark(inv[i], target)
    <3>1. /\ SetJob(k, row) /\ SetInv(i, after) /\ Return(r, ret)
          /\ marker' = marker \cup {r} /\ river' = rv
          /\ outcomes' = [outcomes EXCEPT ![k] = @ + audited]
      BY <1>4, <2>2 DEF OncePerJob
    <3> QED BY <2>2, <3>1 DEF SetJob, SetInv, Return, TypeInv, TypeOK, Memory
  <2> QED BY <2>1, <2>2
<1>5. ASSUME NEW state \in {"accepted", "rejected", "failed", "dead_lettered"},
             NEW row, row \in {Attempted(r, state), [job[k] EXCEPT !.state = state]},
             NEW target, NEW after, NEW ret, OncePerJob(r, target, row, after, river, 1, ret),
             r \notin marker =>
               /\ after.status # "failed" => after.kind = NoKind
               /\ after.irn => after.status = "accepted"
               /\ state = "rejected" => after.status = "rejected" /\ wrk[r].out = "rejected"
               /\ state = "accepted" => after.status = "accepted"
               /\ state \in {"failed", "dead_lettered"} => after.status = "failed"
               /\ state = "failed" => after.kind = "payload_not_built" /\ ~job[k].ref
               /\ state = "dead_lettered" =>
                    after.kind = IF job[k].ref THEN "acknowledged_no_verdict" ELSE "never_acknowledged"
      PROVE  DriverInv'
  <2>1. /\ row.state = state /\ row.send = job[k].send /\ row.born = job[k].born
        /\ row.ref = job[k].ref
    BY <1>1, <1>5 DEF Attempted, JobRow
  <2>2. CASE /\ r \notin marker
             /\ \A l \in Keys : job'[l] = IF l = k THEN row ELSE job[l]
             /\ \A j \in Invoices : inv'[j] = IF j = i THEN after ELSE inv[j]
             /\ marker' = marker \cup {r} /\ river' = river
             /\ \A s \in RiverJobs : s # r => wrk'[s] = wrk[s]
             /\ wrk'[r].pc = "ack" /\ wrk'[r].out = ret
             /\ outcomes' = [outcomes EXCEPT ![k] = @ + 1]
    <3>1. job'[k] = row /\ inv'[i] = after
      BY <1>1, <2>2
    <3>2. RowStatus(k)'
      BY <1>5, <2>1, <2>2, <3>1 DEF RowStatus
    <3>3. outcomes' = [outcomes EXCEPT ![k] = @ + IF row.state = "pending" THEN 0 ELSE 1]
      BY <2>1, <2>2
    <3> QED BY <1>1, <1>5, <2>1, <2>2, <3>2, <3>3, Recorded, ZenonT(60)
  <2> HIDE DEF k, i
  <2> QED BY <1>2, <1>4, <1>5, <2>2
<1>6. CASE RecordAccepted(r)
  <2> DEFINE row == Attempted(r, "accepted")  after == MarkAccepted(inv[i])
  <2>1. OncePerJob(r, "accepted", row, after, river, 1, "nil")
    BY <1>6 DEF RecordAccepted
  <2>2. r \notin marker => after.status = "accepted" /\ after.kind = NoKind
    BY <1>1, <1>3, MarkColumns, JobKinds
  <2>3. row \in {Attempted(r, "accepted"), [job[k] EXCEPT !.state = "accepted"]}
    OBVIOUS
  <2> HIDE DEF row, after, k, i
  <2> QED BY <1>5, <2>1, <2>2, <2>3
<1>7. CASE RecordRejected(r)
  <2> DEFINE row == Attempted(r, "rejected")  after == MarkRejected(inv[i])
  <2>1. OncePerJob(r, "rejected", row, after, river, 1, "nil") /\ wrk[r].out = "rejected"
    BY <1>7 DEF RecordRejected, Recording
  <2>2. r \notin marker => after.status = "rejected" /\ after.kind = NoKind /\ ~after.irn
    BY <1>1, <1>3, MarkColumns, JobKinds
  <2>3. row \in {Attempted(r, "rejected"), [job[k] EXCEPT !.state = "rejected"]}
    OBVIOUS
  <2> HIDE DEF row, after, k, i
  <2> QED BY <1>5, <2>1, <2>2, <2>3
<1>8. CASE RecordDeadLetter(r)
  <2> DEFINE kind == IF r.kind = "submit" THEN "never_acknowledged" ELSE "acknowledged_no_verdict"
             row == Attempted(r, "dead_lettered")  after == MarkFailed(inv[i], kind)
  <2>1. OncePerJob(r, "failed", row, after, river, 1, "err")
    BY <1>8 DEF RecordDeadLetter
  <2>2. kind \in FailureKinds
    BY DEF FailureKinds
  <2>3. r \notin marker => /\ after.status = "failed" /\ after.kind = kind /\ ~after.irn
                           /\ kind = IF job[k].ref THEN "acknowledged_no_verdict" ELSE "never_acknowledged"
    <3> HIDE DEF i
    <3> QED BY <1>1, <1>3, <2>2, MarkColumns, JobKinds
  <2>4. row \in {Attempted(r, "dead_lettered"), [job[k] EXCEPT !.state = "dead_lettered"]}
    OBVIOUS
  <2> HIDE DEF row, after, kind, k, i
  <2> QED BY <1>5, <2>1, <2>3, <2>4
<1>9. CASE RecordUnbuilt(r)
  <2> DEFINE row == [job[k] EXCEPT !.state = "failed"]  after == MarkFailed(inv[i], "payload_not_built")
  <2>1. OncePerJob(r, "failed", row, after, river, 1, "cancel") /\ wrk[r].out = "unbuilt"
    BY <1>9 DEF RecordUnbuilt, Recording
  <2>2. r \in SubmitJobs
    BY <1>1, <2>1, JobKinds DEF DriverInv, PollAt
  <2>3. r \notin marker => /\ after.status = "failed" /\ after.kind = "payload_not_built" /\ ~after.irn
                           /\ ~job[k].ref
    BY <1>1, <1>3, <2>2, MarkColumns DEF FailureKinds
  <2>4. row \in {Attempted(r, "failed"), [job[k] EXCEPT !.state = "failed"]}
    OBVIOUS
  <2> HIDE DEF row, after, k, i
  <2> QED BY <1>5, <2>1, <2>3, <2>4
<1>10. ASSUME NEW target, NEW after, NEW n, n = IF r \in PollJobs THEN r.n + 1 ELSE 1,
              OncePerJob(r, target, [Attempted(r, "pending") EXCEPT !.ref = TRUE], after,
                         EnqueuedPoll(river, k, n), 0, "nil"),
              r \in PollJobs => r.n < MaxHops,
              r \notin marker => after.status = "submitted" /\ after.kind = NoKind /\ ~after.irn
       PROVE  DriverInv'
  <2> DEFINE row == [Attempted(r, "pending") EXCEPT !.ref = TRUE]
             p == PollJob(k, n)
  <2>1. row.state = "pending" /\ row.send = job[k].send /\ row.born = job[k].born /\ row.ref
    BY <1>1 DEF Attempted, JobRow
  <2>2. r \notin marker => p \in PollJobs /\ n <= MaxHops /\ (river[p].st = "none" \/ GaveUp(k))
    <3> SUFFICES ASSUME r \notin marker
                 PROVE  p \in PollJobs /\ n <= MaxHops /\ (river[p].st = "none" \/ GaveUp(k))
      OBVIOUS
    <3>1. CASE r \in PollJobs
      <4>1. r.n \in Nat
        BY <3>1, SubmissionAssumption DEF PollJobs
      <4>2. n \in 1..MaxHops /\ n > r.n
        BY <1>10, <3>1, <4>1, SubmissionAssumption
      <4>3. Driver(r)
        BY <1>1 DEF Driver, Live
      <4> QED BY <1>1, <3>1, <4>2, <4>3, JobKinds DEF DriverInv, HopsAhead
    <3>2. CASE r \in SubmitJobs
      <4>1. n \in 1..MaxHops /\ p \in PollJobs /\ p.key = k
        BY <1>1, <1>10, <3>2, JobKinds, SubmissionAssumption DEF PollJob
      <4> QED BY <1>3, <3>2, <4>1 DEF DriverInv, PollAt
    <3> QED BY <3>1, <3>2, JobKinds
  <2>3. r \notin marker =>
          \/ p \in PollJobs /\ river[p].st = "none" /\ EnqueuedPoll(river, k, n) = Inserted(river, p)
          \/ GaveUp(k) /\ EnqueuedPoll(river, k, n) = river
    BY <2>2 DEF EnqueuedPoll
  <2>4. CASE /\ r \notin marker
             /\ \A l \in Keys : job'[l] = IF l = k THEN row ELSE job[l]
             /\ \A j \in Invoices : inv'[j] = IF j = i THEN after ELSE inv[j]
             /\ marker' = marker \cup {r} /\ river' = EnqueuedPoll(river, k, n)
             /\ \A s \in RiverJobs : s # r => wrk'[s] = wrk[s]
             /\ wrk'[r].pc = "ack" /\ wrk'[r].out = "nil"
             /\ outcomes' = [outcomes EXCEPT ![k] = @ + 0]
    <3>1. job'[k] = row /\ inv'[i] = after
      BY <1>1, <2>4
    <3>2. RowStatus(k)'
      BY <1>10, <2>1, <2>4, <3>1 DEF RowStatus
    <3>3. outcomes' = [outcomes EXCEPT ![k] = @ + IF row.state = "pending" THEN 0 ELSE 1]
      BY <2>1, <2>4
    <3>4. p = PollJob(k, IF r \in PollJobs THEN r.n + 1 ELSE 1)
      BY <1>10
    <3>5. \/ p \in PollJobs /\ river[p].st = "none" /\ river' = Inserted(river, p)
          \/ GaveUp(k) /\ river' = river
      BY <2>3, <2>4
    <3>6. /\ after.status # "failed" => after.kind = NoKind
          /\ after.irn => after.status = "accepted"
      BY <1>10, <2>4
    <3>7. /\ row.state \in {"accepted", "rejected", "pending", "failed", "dead_lettered"}
          /\ row.state # "rejected" /\ row.send = job[r.key].send /\ row.born = job[r.key].born
          /\ row.ref /\ row.state = "pending"
      BY <2>1
    <3> HIDE DEF row, p
    <3> HIDE DEF k, i
    <3>8. \A l \in Keys : job'[l] = IF l = r.key THEN row ELSE job[l]
      BY <2>4 DEF k
    <3>9. \A j \in Invoices : inv'[j] = IF j = r.key.inv THEN after ELSE inv[j]
      BY <2>4 DEF k, i
    <3>10. outcomes' = [outcomes EXCEPT ![r.key] = @ + IF row.state = "pending" THEN 0 ELSE 1]
      BY <3>3 DEF k
    <3>11. RowStatus(r.key)' /\ p = PollJob(r.key, IF r \in PollJobs THEN r.n + 1 ELSE 1)
      BY <3>2, <3>4 DEF k
    <3>12. /\ r \notin marker /\ marker' = marker \cup {r}
           /\ \A s \in RiverJobs : s # r => wrk'[s] = wrk[s]
           /\ wrk'[r].pc = "ack" /\ wrk'[r].out = "nil" /\ wrk[r].pc = "tx2" /\ UNCHANGED app
      BY <1>1, <2>4
    <3>13. /\ row.state = "pending" =>
                \/ p \in PollJobs /\ river[p].st = "none" /\ river' = Inserted(river, p)
                \/ GaveUp(r.key) /\ river' = river
           /\ row.state # "pending" => river' = river
           /\ row.state = "pending" => wrk'[r].out = "nil"
           /\ row.state = "rejected" => after.status = "rejected" /\ wrk[r].out = "rejected"
           /\ job[r.key].ref => row.ref
      BY <3>5, <3>7, <3>12 DEF k
    <3> QED BY <3>6, <3>7, <3>8, <3>9, <3>10, <3>11, <3>12, <3>13, Recorded, ZenonT(60)
  <2>5. OncePerJob(r, target, row, after, EnqueuedPoll(river, k, n), 0, "nil")
    BY <1>10
  <2> HIDE DEF row
  <2>6. \/ UNCHANGED <<db, river>> /\ \E x : Return(r, x) /\ (r \in marker \/ x = "err")
        \/ /\ r \notin marker
           /\ \A l \in Keys : job'[l] = IF l = k THEN row ELSE job[l]
           /\ \A j \in Invoices : inv'[j] = IF j = i THEN after ELSE inv[j]
           /\ marker' = marker \cup {r} /\ river' = EnqueuedPoll(river, k, n)
           /\ \A s \in RiverJobs : s # r => wrk'[s] = wrk[s]
           /\ wrk'[r].pc = "ack" /\ wrk'[r].out = "nil"
           /\ outcomes' = [outcomes EXCEPT ![k] = @ + 0]
    <3> HIDE DEF k, i
    <3> QED BY <1>4, <2>5
  <2> HIDE DEF k, i
  <2> QED BY <1>2, <2>4, <2>6
<1>11. CASE RecordPending(r)
  <2> DEFINE after == MarkSubmitted(inv[i])
  <2>1. /\ r \in SubmitJobs /\ r \notin PollJobs
        /\ OncePerJob(r, "submitted", [Attempted(r, "pending") EXCEPT !.ref = TRUE], after,
                      EnqueuedPoll(river, k, 1), 0, "nil")
    BY <1>11, JobKinds DEF RecordPending
  <2>2. r \notin marker => after.status = "submitted" /\ after.kind = NoKind /\ ~after.irn
    BY <1>1, <1>3, <2>1, MarkColumns
  <2> HIDE DEF after, k, i
  <2> QED BY <1>10, <2>1, <2>2
<1>12. CASE RecordStillPending(r)
  <2> DEFINE after == inv[i]  n == r.n + 1
  <2>1. /\ r \in PollJobs /\ r.n < MaxHops
        /\ OncePerJob(r, inv[i].status, [Attempted(r, "pending") EXCEPT !.ref = TRUE], after,
                      EnqueuedPoll(river, k, n), 0, "nil")
    BY <1>12, JobKinds DEF RecordStillPending, Recording, DriverInv, PollAt
  <2>2. r \notin marker => after.status = "submitted" /\ after.kind = NoKind /\ ~after.irn
    BY <1>3, <2>1
  <2> HIDE DEF after, k, i
  <2> QED BY <1>10, <2>1, <2>2
<1> QED BY <1>6, <1>7, <1>8, <1>9, <1>11, <1>12

\* An invoice that is not with the authority has no row that counts and nobody
\* who drives it.
LEMMA IdleInvoice ==
  ASSUME TypeInv, DriverInv, NEW i \in Invoices,
         inv[i].status \in {"draft", "validated", "rejected"}
  PROVE  /\ \A k \in Keys : k.inv = i => ~Active(k)
         /\ \A r \in RiverJobs : r.key.inv = i => ~Driver(r)
         /\ inv[i].kind = NoKind /\ ~inv[i].irn
<1>1. ASSUME NEW k \in Keys, k.inv = i
      PROVE  ~Active(k)
  <2>1. RowStatus(k) /\ job[k] \in JobRow
    BY <1>1 DEF DriverInv, TypeInv, TypeOK
  <2> QED BY <1>1, <2>1 DEF RowStatus, Active, JobRow, TerminalJobStates
<1>2. ASSUME NEW r \in RiverJobs, r.key.inv = i
      PROVE  ~Driver(r)
  <2>1. DriverAt(r) /\ r.key \in Keys
    BY <1>2, JobKey DEF DriverInv
  <2>2. ~Active(r.key)
    BY <1>1, <1>2, <2>1
  <2> QED BY <1>2, <2>1, <2>2 DEF DriverAt, Active
<1> QED BY <1>1, <1>2 DEF DriverInv, KindOfFailed, StatusHasRow

\* A request that writes the invoice and nothing else: it stamps a mark, or
\* moves an invoice nobody drives.
LEMMA InvoiceWritten ==
  ASSUME TypeInv, DriverInv, NEW i \in Invoices, NEW new, SetInv(i, new), UNCHANGED Rest,
         \/ new.status = inv[i].status /\ new.kind = inv[i].kind /\ new.irn = inv[i].irn
         \/ /\ inv[i].status \in {"draft", "validated", "rejected"}
            /\ new.status \in {"draft", "validated", "queued"}
            /\ new.kind = NoKind /\ new.irn = inv[i].irn
  PROVE  DriverInv'
<1> USE DEF Rest
<1>1. \A j \in Invoices : inv'[j] = IF j = i THEN new ELSE inv[j]
  BY DEF SetInv, TypeInv, TypeOK
<1>2. /\ \A k \in Keys : Active(k)' = Active(k)
      /\ \A r \in RiverJobs : Live(r)' = Live(r) /\ Driver(r)' = Driver(r)
      /\ \A j : RowsOf(j)' = RowsOf(j)
  BY DEF Active, Live, Executing, Driver, RowsOf
<1>3. OneActive' /\ OutcomeAuditedOnce' /\ OneDriver' /\ JobsRan' /\ HeldHasRow'
  BY <1>2 DEF DriverInv, OneActive, OutcomeAuditedOnce, OneDriver, JobsRan, HeldHasRow
<1>4. RowOrder' /\ Polled' /\ Rearmed' /\ \A k : GaveUp(k)' = GaveUp(k)
  <2>1. Rearmed' /\ \A k : GaveUp(k)' = GaveUp(k)
    BY GivenUpStays DEF DriverInv, GaveUp
  <2>2. Polled'
    BY <1>2, <2>1, JobKinds DEF DriverInv, Polled
  <2>3. RowOrder'
    BY <1>2, OrderKept DEF DriverInv
  <2> QED BY <2>1, <2>2, <2>3
<1>5. /\ \A r \in SubmitJobs : SubmitAt(r)'
      /\ \A r \in PollJobs : PollAt(r)' /\ HopsAhead(r)'
  BY <1>2, <1>4, JobKinds DEF DriverInv, SubmitAt, PollAt, HopsAhead
<1>6. CASE new.status = inv[i].status /\ new.kind = inv[i].kind /\ new.irn = inv[i].irn
  <2>1. \A j \in Invoices : /\ inv'[j].status = inv[j].status
                            /\ inv'[j].kind = inv[j].kind
                            /\ inv'[j].irn = inv[j].irn
    BY <1>1, <1>6
  <2>2. KindOfFailed'
    BY <2>1 DEF DriverInv, KindOfFailed
  <2>3. StatusHasRow'
    BY <1>2, <2>1 DEF DriverInv, StatusHasRow
  <2>4. ASSUME NEW k \in Keys PROVE RowStatus(k)'
    <3>1. k.inv \in Invoices /\ RowStatus(k)
      BY DEF Keys, DriverInv
    <3> QED BY <2>1, <3>1 DEF RowStatus
  <2>5. ASSUME NEW r \in RiverJobs PROVE DriverAt(r)'
    <3>1. r.key.inv \in Invoices /\ DriverAt(r)
      BY JobKey DEF DriverInv
    <3> QED BY <1>2, <2>1, <3>1 DEF DriverAt
  <2> QED BY <1>3, <1>4, <1>5, <2>2, <2>3, <2>4, <2>5 DEF DriverInv
<1>7. CASE /\ inv[i].status \in {"draft", "validated", "rejected"}
           /\ new.status \in {"draft", "validated", "queued"}
           /\ new.kind = NoKind /\ new.irn = inv[i].irn
  <2>1. /\ \A k \in Keys : k.inv = i => ~Active(k)
        /\ \A r \in RiverJobs : r.key.inv = i => ~Driver(r)
        /\ ~new.irn
    BY <1>7, IdleInvoice
  <2>2. KindOfFailed'
    BY <1>1, <1>7 DEF DriverInv, KindOfFailed
  <2>3. StatusHasRow'
    BY <1>1, <1>2, <1>7, <2>1 DEF DriverInv, StatusHasRow
  <2>4. ASSUME NEW k \in Keys PROVE RowStatus(k)'
    <3>1. k.inv \in Invoices /\ RowStatus(k)
      BY DEF Keys, DriverInv
    <3> QED BY <1>1, <2>1, <3>1 DEF RowStatus, Active
  <2>5. ASSUME NEW r \in RiverJobs PROVE DriverAt(r)'
    <3>1. r.key.inv \in Invoices /\ DriverAt(r)
      BY JobKey DEF DriverInv
    <3> QED BY <1>1, <1>2, <2>1, <3>1 DEF DriverAt
  <2> QED BY <1>3, <1>4, <1>5, <2>2, <2>3, <2>4, <2>5 DEF DriverInv
<1> QED BY <1>6, <1>7

\* The requests of users that write the invoice only.
LEMMA InvoiceKeeps ==
  ASSUME TypeInv, DriverInv, Asserted \subseteq {"draft", "queued"}, NEW i \in Invoices,
         \/ Validate(i) \/ Edit(i) \/ Demote(i) \/ Keep(i)
         \/ \E to \in Asserted : Transition(i, to)
  PROVE  DriverInv'
<1>1. inv[i] \in InvoiceRow
  BY DEF TypeInv, TypeOK
<1>2. ASSUME inv[i].status \in {"draft", "validated", "rejected"}
      PROVE  inv[i].kind = NoKind
  BY <1>2, IdleInvoice
<1>3. \A b \in BOOLEAN, to \in {"draft", "validated", "queued"} :
        LET row == [inv[i] EXCEPT !.kept = b]
        IN /\ row.status = inv[i].status /\ row.kind = inv[i].kind /\ row.irn = inv[i].irn
           /\ Moved(row, to).status = to /\ Moved(row, to).irn = inv[i].irn
           /\ Moved(inv[i], to).status = to /\ Moved(inv[i], to).irn = inv[i].irn
           /\ inv[i].kind = NoKind => Moved(row, to).kind = NoKind /\ Moved(inv[i], to).kind = NoKind
  BY <1>1 DEF Moved, InvoiceRow
<1>4. ASSUME NEW to \in {"draft", "queued"}, CanTransition(inv[i].status, to)
      PROVE  inv[i].status \in {"validated", "rejected"}
  BY <1>1, <1>4 DEF CanTransition, LegalTransitions, InvoiceRow, Statuses
<1>5. CASE Validate(i)
  BY <1>2, <1>3, <1>5, InvoiceWritten DEF Validate
<1>6. CASE Edit(i)
  <2>1. inv[i].status \in {"draft", "validated", "rejected"}
    BY <1>4, <1>6 DEF Edit, CanEdit
  <2> QED BY <1>2, <1>3, <1>6, <2>1, InvoiceWritten DEF Edit
<1>7. CASE Demote(i)
  BY <1>2, <1>3, <1>7, InvoiceWritten DEF Demote
<1>8. CASE Keep(i)
  BY <1>3, <1>8, InvoiceWritten DEF Keep
<1>9. ASSUME NEW to \in Asserted, Transition(i, to)
      PROVE  DriverInv'
  <2>1. to \in {"draft", "queued"} /\ inv[i].status \in {"validated", "rejected"}
    BY <1>4, <1>9 DEF Transition
  <2> QED BY <1>2, <1>3, <1>9, <2>1, InvoiceWritten DEF Transition
<1> QED BY <1>5, <1>6, <1>7, <1>8, <1>9

\* A batch hands idle invoices over: each gets one driver, the submit job of
\* its first send.
LEMMA BatchKeeps ==
  ASSUME TypeInv, DriverInv, NEW req \in Requests, NEW S \in SUBSET Invoices,
         BatchSubmit(req, S)
  PROVE  DriverInv'
<1> DEFINE Key(i)   == [req |-> req, inv |-> i]
           First(i) == SubmitJob(Key(i), 1)
           fresh    == {i \in S : river[First(i)].st = "none"}
           new      == {First(i) : i \in fresh}
<1>1. /\ inv' = [i \in Invoices |-> IF i \in fresh THEN Moved(inv[i], "queued") ELSE inv[i]]
      /\ river' = [r \in RiverJobs |->
           IF \E i \in fresh : r = First(i) THEN RowAt("available", 0) ELSE river[r]]
      /\ UNCHANGED <<job, marker, wrk, app, outcomes, lock>>
      /\ \A i \in S : inv[i].status = "validated"
  BY DEF BatchSubmit, Transmittable
<1>2. ASSUME NEW i \in fresh
      PROVE  /\ i \in Invoices /\ Key(i) \in Keys /\ First(i) \in SubmitJobs
             /\ First(i).key = Key(i) /\ First(i).n = 1
             /\ job[Key(i)].state = "none" /\ job[Key(i)].send = 1
             /\ First(i) \notin marker /\ river[First(i)].st = "none"
  <2>1. i \in Invoices /\ Key(i) \in Keys
    BY DEF Keys
  <2>2. First(i) \in SubmitJobs /\ First(i).key = Key(i) /\ First(i).n = 1
    BY <2>1, SubmissionAssumption, JobKinds DEF SubmitJob
  <2>3. river[First(i)].st = "none"
    OBVIOUS
  <2>4. job[Key(i)].state = "none" /\ First(i) \notin marker
    BY <2>1, <2>3 DEF DriverInv, JobsRan
  <2>5. job[Key(i)].send = 1
    BY <2>1, <2>4 DEF TypeInv, RowlessSend
  <2> QED BY <2>1, <2>2, <2>3, <2>4, <2>5
<1>3. ASSUME NEW i \in fresh
      PROVE  /\ \A k \in Keys : k.inv = i => ~Active(k)
             /\ \A r \in RiverJobs : r.key.inv = i => ~Driver(r)
             /\ inv'[i].status = "queued" /\ inv'[i].kind = NoKind /\ ~inv'[i].irn
  <2>1. i \in Invoices /\ inv[i].status = "validated" /\ inv[i] \in InvoiceRow
    BY <1>1, <1>2 DEF TypeInv, TypeOK
  <2>2. inv'[i] = Moved(inv[i], "queued")
    BY <1>1, <2>1
  <2> QED BY <2>1, <2>2, IdleInvoice DEF Moved, InvoiceRow
<1>4. \A i \in Invoices \ fresh : inv'[i] = inv[i]
  BY <1>1
<1>5. ASSUME NEW r \in RiverJobs
      PROVE  /\ r \in new => r \in SubmitJobs /\ river'[r].st = "available" /\ Live(r)' /\ Driver(r)'
             /\ r \notin new => /\ river'[r] = river[r] /\ Live(r)' = Live(r)
                                /\ Driver(r)' = Driver(r)
  <2>1. CASE r \in new
    <3>1. PICK i \in fresh : r = First(i)
      BY <2>1
    <3>2. river'[r] = RowAt("available", 0) /\ r \notin marker /\ r \in SubmitJobs
      BY <1>1, <1>2, <3>1
    <3> QED BY <1>1, <2>1, <3>2 DEF RowAt, Live, Driver
  <2>2. CASE r \notin new
    <3>1. river'[r] = river[r]
      BY <1>1, <2>2
    <3> QED BY <1>1, <2>2, <3>1 DEF Live, Executing, Driver
  <2> QED BY <2>1, <2>2
<1>6. ASSUME NEW r \in new
      PROVE  /\ r \in SubmitJobs /\ r.key.inv \in fresh /\ r = First(r.key.inv) /\ r.n = 1
             /\ job[r.key].state = "none" /\ job[r.key].send = 1 /\ r \notin marker
  <2>1. PICK i \in fresh : r = First(i)
    OBVIOUS
  <2> QED BY <1>2, <2>1
<1> HIDE DEF fresh, new, First, Key
<1>7. /\ \A k \in Keys : Active(k)' = Active(k)
      /\ \A j : RowsOf(j)' = RowsOf(j)
  BY <1>1 DEF Active, RowsOf
<1>8. OneActive' /\ OutcomeAuditedOnce' /\ HeldHasRow'
  BY <1>1, <1>7 DEF DriverInv, OneActive, OutcomeAuditedOnce, HeldHasRow
<1>9. RowOrder'
  BY <1>1, <1>7, OrderKept DEF DriverInv
<1>10. Polled' /\ Rearmed' /\ \A k : GaveUp(k) => GaveUp(k)'
  <2>1. \A r \in PollJobs : river'[r] = river[r] /\ Live(r)' = Live(r)
    BY <1>5, <1>6, JobKinds
  <2>2. Rearmed' /\ \A k : GaveUp(k) => GaveUp(k)'
    BY <2>1, GivenUpStays DEF DriverInv
  <2> QED BY <1>1, <2>1, <2>2 DEF DriverInv, Polled
<1>11. KindOfFailed'
  BY <1>3, <1>4 DEF DriverInv, KindOfFailed
<1>12. StatusHasRow'
  BY <1>3, <1>4, <1>7 DEF DriverInv, StatusHasRow
<1>13. JobsRan'
  <2>1. marker \subseteq RiverJobs /\ \A k \in Keys : SubmitJob(k, 1) \in RiverJobs
    BY SubmissionAssumption, JobKinds DEF TypeInv, TypeOK
  <2>2. \A r \in RiverJobs : river[r].st # "none" => river'[r].st # "none"
    BY <1>5
  <2> QED BY <1>1, <2>1, <2>2 DEF DriverInv, JobsRan
<1>14. OneDriver'
  <2> SUFFICES ASSUME NEW r \in RiverJobs \ marker, NEW s \in RiverJobs \ marker,
                      r.key.inv = s.key.inv, Driver(r)', Driver(s)'
               PROVE  r = s
    BY <1>1 DEF OneDriver, Driver
  <2>1. CASE r.key.inv \in fresh
    BY <1>3, <1>5, <1>6, <2>1
  <2>2. CASE r.key.inv \notin fresh
    <3>1. Driver(r) /\ Driver(s) /\ r.key.inv \in Invoices
      BY <1>5, <1>6, <2>2, JobKey
    <3> QED BY <3>1 DEF DriverInv, OneDriver, Driver
  <2> QED BY <2>1, <2>2
<1>15. ASSUME NEW k \in Keys PROVE RowStatus(k)'
  <2>1. k.inv \in Invoices /\ RowStatus(k)
    BY DEF Keys, DriverInv
  <2>2. CASE k.inv \in fresh
    BY <1>1, <1>3, <2>1, <2>2 DEF RowStatus, Active
  <2>3. CASE k.inv \notin fresh
    BY <1>1, <1>4, <2>1, <2>3 DEF RowStatus
  <2> QED BY <2>2, <2>3
<1>16. ASSUME NEW r \in RiverJobs PROVE DriverAt(r)'
  <2>1. CASE r \in new
    <3>1. r.kind = "submit" /\ inv'[r.key.inv].status = "queued" /\ job'[r.key].state = "none"
      BY <1>1, <1>3, <1>6, <2>1, JobKinds
    <3> QED BY <1>3, <1>6, <1>7, <2>1, <3>1 DEF DriverAt
  <2>2. CASE r \notin new
    <3>1. DriverAt(r) /\ r.key.inv \in Invoices /\ (Driver(r)' => Driver(r) /\ r.key.inv \notin fresh)
      BY <1>3, <1>5, <2>2, JobKey DEF DriverInv
    <3> QED BY <1>1, <1>4, <1>7, <3>1 DEF DriverAt
  <2> QED BY <2>1, <2>2
<1>17. ASSUME NEW r \in SubmitJobs PROVE SubmitAt(r)'
  <2>1. r \in RiverJobs /\ SubmitAt(r)
    BY JobKinds DEF DriverInv
  <2> QED BY <1>1, <1>5, <1>6, <2>1 DEF SubmitAt
<1>18. ASSUME NEW r \in PollJobs PROVE PollAt(r)' /\ HopsAhead(r)'
  <2>1. r \notin new /\ r \in RiverJobs /\ \A m \in 1..MaxHops : PollJob(r.key, m) \in PollJobs
    BY <1>6, JobKinds, JobKey
  <2>2. \A m \in 1..MaxHops : PollJob(r.key, m) \in RiverJobs /\ PollJob(r.key, m) \notin new
    BY <1>6, <2>1, JobKinds
  <2> QED BY <1>1, <1>5, <1>10, <2>1, <2>2 DEF DriverInv, PollAt, HopsAhead
<1> QED BY <1>8, <1>9, <1>10, <1>11, <1>12, <1>13, <1>14, <1>15, <1>16, <1>17, <1>18 DEF DriverInv

\* A re-send replaces the River job of a failed invoice: the new one is its
\* only driver.
LEMMA RequeuedKeeps ==
  ASSUME TypeInv, DriverInv, NEW k \in Keys, Requeued(k),
         job[k].state \in {"failed", "dead_lettered"}
  PROVE  DriverInv'
<1> DEFINE i   == k.inv
           n   == job[k].send
           old == SubmitJob(k, n)
           new == SubmitJob(k, n + 1)
           row == [job[k] EXCEPT !.state = "queued", !.attempts = 0, !.send = @ + 1]
<1>1. /\ i \in Invoices /\ inv[i].status = "failed" /\ ~inv[i].irn /\ ~job[k].ref
      /\ job[k] \in JobRow /\ inv[i] \in InvoiceRow /\ n \in 1..MaxSends /\ n + 1 \in 1..MaxSends
      /\ SetInv(i, Moved(inv[i], "queued")) /\ SetJob(k, row)
      /\ river' = Inserted([river EXCEPT ![old] = RowAt("deleted", 0)], new)
      /\ UNCHANGED <<marker, wrk, app, outcomes, lock>>
  <2>1. i \in Invoices /\ job[k] \in JobRow /\ inv[i] \in InvoiceRow
    BY DEF Keys, TypeInv, TypeOK
  <2>2. inv[i].status = "failed" /\ ~job[k].ref /\ n < MaxSends
    BY DEF Requeued, Requeueable
  <2>3. n \in 1..MaxSends /\ n + 1 \in 1..MaxSends
    BY <2>1, <2>2, SubmissionAssumption DEF JobRow
  <2>4. ~inv[i].irn
    BY <2>1, <2>2 DEF DriverInv, StatusHasRow
  <2> QED BY <2>1, <2>2, <2>3, <2>4 DEF Requeued
<1>2. row.state = "queued" /\ row.send = n + 1 /\ row.born = job[k].born /\ ~row.ref
  BY <1>1 DEF JobRow
<1>3. /\ old \in SubmitJobs /\ old.key = k /\ old.n = n
      /\ new \in SubmitJobs /\ new.key = k /\ new.n = n + 1 /\ new # old
      /\ old \in RiverJobs /\ new \in RiverJobs
  BY <1>1, JobKinds DEF SubmitJob
<1>4. river[new].st = "none" /\ new \notin marker /\ wrk[new].pc = "dead"
  <2>1. river[new].st = "none"
    BY <1>1, <1>3 DEF TypeInv, NoLaterSend
  <2> QED BY <1>3, <2>1 DEF DriverInv, JobsRan, TypeInv, WorkersRun, Executing
<1>5. /\ \A l \in Keys : job'[l] = IF l = k THEN row ELSE job[l]
      /\ \A j \in Invoices : inv'[j] = IF j = i THEN Moved(inv[i], "queued") ELSE inv[j]
  BY <1>1 DEF SetInv, SetJob, TypeInv, TypeOK
<1>6. Moved(inv[i], "queued").status = "queued" /\ Moved(inv[i], "queued").kind = NoKind
        /\ ~Moved(inv[i], "queued").irn
  BY <1>1 DEF Moved, InvoiceRow
<1>7. ASSUME NEW s \in RiverJobs
      PROVE  /\ s = new => river'[s].st = "available"
             /\ s = old => river'[s].st = "deleted"
             /\ s # new /\ s # old => river'[s] = river[s]
  BY <1>1, <1>3 DEF Inserted, RowAt, TypeInv, TypeOK
<1> HIDE DEF row, old, new, n, i
<1>8. /\ Active(k) /\ \A l \in Keys : Active(l)' = Active(l)
      /\ \A l \in Keys : job'[l].state = "none" <=> job[l].state = "none"
      /\ \A l \in Keys : job'[l].born = job[l].born
      /\ \A l \in Keys : l.inv = i /\ Active(l) => l = k
  <2>1. Active(k) /\ k.inv = i
    BY DEF Active, i
  <2> QED BY <1>2, <1>5, <2>1 DEF Active, DriverInv, OneActive
<1>9. \A s \in RiverJobs : s.key.inv = i => ~Driver(s)
  <2> SUFFICES ASSUME NEW s \in RiverJobs, s.key.inv = i, Driver(s)
               PROVE  FALSE
    OBVIOUS
  <2>1. s.key = k
    BY <1>8 DEF DriverInv, DriverAt, i
  <2> QED BY <2>1 DEF DriverInv, DriverAt
<1>10. ASSUME NEW s \in RiverJobs
       PROVE  /\ s = new => Live(s)' /\ Driver(s)'
              /\ s = old => ~Live(s)' /\ ~Driver(s)'
              /\ s # new /\ s # old => Live(s)' = Live(s) /\ Driver(s)' = Driver(s)
  <2>1. CASE s = new
    BY <1>1, <1>3, <1>4, <1>7, <2>1 DEF Live, Executing, Driver
  <2>2. CASE s = old
    BY <1>3, <1>7, <2>2 DEF Live, Executing, Driver
  <2>3. CASE s # new /\ s # old
    BY <1>1, <1>7, <2>3 DEF Live, Executing, Driver
  <2> QED BY <1>3, <2>1, <2>2, <2>3
<1>11. KindOfFailed'
  BY <1>5, <1>6 DEF DriverInv, KindOfFailed
<1>12. OneActive'
  BY <1>8 DEF DriverInv, OneActive
<1>13. OneDriver'
  <2> SUFFICES ASSUME NEW r \in RiverJobs \ marker, NEW s \in RiverJobs \ marker,
                      r.key.inv = s.key.inv, Driver(r)', Driver(s)'
               PROVE  r = s
    BY <1>1 DEF OneDriver, Driver
  <2>1. r # old /\ s # old
    BY <1>10
  <2>2. CASE r = new \/ s = new
    BY <1>3, <1>9, <1>10, <2>1, <2>2 DEF i
  <2>3. CASE r # new /\ s # new
    <3>1. Driver(r) /\ Driver(s) /\ r.key.inv \in Invoices
      BY <1>10, <2>1, <2>3, JobKey
    <3> QED BY <3>1 DEF DriverInv, OneDriver, Driver
  <2> QED BY <2>2, <2>3
<1>14. JobsRan'
  <2>1. marker \subseteq RiverJobs /\ \A l \in Keys : SubmitJob(l, 1) \in RiverJobs
    BY SubmissionAssumption, JobKinds DEF TypeInv, TypeOK
  <2>2. \A s \in RiverJobs : river[s].st # "none" => river'[s].st # "none"
    BY <1>7
  <2> QED BY <1>1, <1>8, <2>1, <2>2 DEF DriverInv, JobsRan
<1>15. RowOrder' /\ \A j : RowsOf(j)' = RowsOf(j)
  BY <1>8, OrderKept DEF DriverInv
<1>16. StatusHasRow'
  <2> SUFFICES ASSUME NEW j \in Invoices
               PROVE  /\ inv'[j].status \in {"submitted", "accepted", "failed"} =>
                           \E l \in Keys : l.inv = j /\ Active(l)'
                      /\ inv'[j].status = "rejected" => RowsOf(j)' # {}
                      /\ inv'[j].irn => inv'[j].status = "accepted"
    BY DEF StatusHasRow
  <2> QED BY <1>5, <1>6, <1>8, <1>15 DEF DriverInv, StatusHasRow
<1>17. ASSUME NEW l \in Keys PROVE RowStatus(l)'
  <2>1. l.inv \in Invoices /\ RowStatus(l)
    BY DEF Keys, DriverInv
  <2>2. CASE l = k
    <3>1. job'[l] = row /\ inv'[l.inv].status = "queued"
      BY <1>5, <1>6, <2>1, <2>2 DEF i
    <3> QED BY <1>2, <3>1 DEF RowStatus
  <2>3. CASE l # k /\ l.inv = i
    <3>1. ~Active(l) /\ job'[l] = job[l]
      BY <1>5, <1>8, <2>3
    <3> QED BY <2>1, <3>1 DEF RowStatus, Active
  <2>4. CASE l # k /\ l.inv # i
    <3>1. job'[l] = job[l] /\ inv'[l.inv] = inv[l.inv]
      BY <1>5, <2>1, <2>4
    <3> QED BY <2>1, <3>1 DEF RowStatus
  <2> QED BY <2>2, <2>3, <2>4
<1>18. ASSUME NEW s \in RiverJobs PROVE DriverAt(s)'
  <2> SUFFICES ASSUME Driver(s)' PROVE DriverAt(s)'
    BY DEF DriverAt
  <2>1. s # old /\ s.key \in Keys /\ s.key.inv \in Invoices
    BY <1>10, JobKey
  <2>2. CASE s = new
    <3>1. /\ s.kind = "submit" /\ s.key = k /\ job'[k].state = "queued"
          /\ inv'[k.inv].status = "queued"
      BY <1>2, <1>3, <1>5, <1>6, <2>1, <2>2, JobKinds DEF i
    <3> QED BY <1>8, <3>1 DEF DriverAt, i
  <2>3. CASE s # new
    <3>1. Driver(s) /\ s.key.inv # i /\ s.key # k
      BY <1>9, <1>10, <2>1, <2>3 DEF i
    <3>2. job'[s.key] = job[s.key] /\ inv'[s.key.inv] = inv[s.key.inv] /\ DriverAt(s)
      BY <1>5, <2>1, <3>1 DEF DriverInv
    <3> QED BY <1>8, <3>1, <3>2 DEF DriverAt
  <2> QED BY <2>2, <2>3
<1>19. ASSUME NEW s \in SubmitJobs PROVE SubmitAt(s)'
  <2>1. s \in RiverJobs /\ s.key \in Keys /\ SubmitAt(s) /\ s = SubmitJob(s.key, s.n)
    BY JobKinds, JobKey DEF DriverInv
  <2>2. CASE s.key # k
    <3>1. s # old /\ s # new /\ job'[s.key] = job[s.key]
      BY <1>3, <1>5, <2>1, <2>2
    <3> QED BY <1>1, <1>10, <2>1, <3>1 DEF SubmitAt
  <2>3. CASE s.key = k
    <3>1. wrk[s].pc \notin {"call", "tx2"}
      BY <2>1, <2>3 DEF SubmitAt
    <3>2. Live(s)' => s = new
      <4>1. s # old => s.n # n
        BY <2>1, <2>3 DEF old
      <4> QED BY <1>10, <2>1, <2>3, <4>1 DEF SubmitAt, n
    <3> QED BY <1>1, <1>2, <1>3, <1>4, <1>5, <2>3, <3>1, <3>2 DEF SubmitAt
  <2> QED BY <2>2, <2>3
<1>20. ASSUME NEW s \in PollJobs
       PROVE  s \in RiverJobs /\ s.key \in Keys /\ river'[s] = river[s] /\ Live(s)' = Live(s)
              /\ Driver(s)' = Driver(s)
  BY <1>3, <1>7, <1>10, JobKinds, JobKey
<1>21. Rearmed' /\ \A l : GaveUp(l) => GaveUp(l)'
  BY <1>20, GivenUpStays DEF DriverInv
<1>22. ASSUME NEW s \in PollJobs PROVE PollAt(s)' /\ HopsAhead(s)'
  <2>1. \A m \in 1..MaxHops : PollJob(s.key, m) \in PollJobs
    BY <1>20, JobKinds
  <2>2. PollAt(s) /\ HopsAhead(s)
    BY DEF DriverInv
  <2>3. job[s.key].ref => job'[s.key].ref
    BY <1>1, <1>5, <1>20
  <2>4. PollAt(s)'
    BY <1>1, <1>20, <2>2, <2>3 DEF PollAt
  <2>5. HopsAhead(s)'
    BY <1>1, <1>20, <1>21, <2>1, <2>2 DEF HopsAhead
  <2> QED BY <2>4, <2>5
<1>23. Polled'
  <2> SUFFICES ASSUME NEW l \in Keys, job'[l].state = "pending"
               PROVE  \/ \E s \in PollJobs \ marker' : s.key = l /\ Live(s)'
                      \/ GaveUp(l)'
    BY DEF Polled
  <2>1. job[l].state = "pending"
    BY <1>2, <1>5
  <2> QED BY <1>1, <1>20, <1>21, <2>1 DEF DriverInv, Polled
<1>24. HeldHasRow'
  <2>1. job'[k].state # "rejected"
    BY <1>2, <1>5
  <2> QED BY <1>1, <1>5, <1>8, <2>1 DEF DriverInv, HeldHasRow
<1>25. OutcomeAuditedOnce'
  <2>1. outcomes[k] = n
    BY DEF DriverInv, OutcomeAuditedOnce, TerminalJobStates, n
  <2>2. n + 1 - 1 = n
    BY <1>1
  <2>3. job'[k] = row
    BY <1>5
  <2>4. \A l \in Keys : l # k => job'[l] = job[l]
    BY <1>5
  <2> QED BY <1>1, <1>2, <2>1, <2>2, <2>3, <2>4 DEF DriverInv, OutcomeAuditedOnce, TerminalJobStates
<1> QED BY <1>11, <1>12, <1>13, <1>14, <1>15, <1>16, <1>17, <1>18, <1>19, <1>22, <1>23, <1>24, <1>25, <1>21
        DEF DriverInv

\* Staff cancel fails a queued invoice with its row; its submit job may still
\* run, and is the only one that can.
LEMMA CancelKeeps ==
  ASSUME TypeInv, DriverInv, NEW k \in Keys, StaffCancel(k)
  PROVE  DriverInv'
<1> DEFINE i   == k.inv
           r   == SubmitJob(k, job[k].send)
           st  == CASE river[r].st = "available" -> "cancelled"
                    [] river[r].st = "running"   -> "stopping"
                    [] OTHER                     -> river[r].st
           row == [job[k] EXCEPT !.state = "cancelled"]
<1>1. /\ i \in Invoices /\ inv[i].status = "queued" /\ job[k].state = "queued"
      /\ job[k] \in JobRow /\ inv[i] \in InvoiceRow
      /\ SetInv(i, Moved(inv[i], "failed")) /\ SetJob(k, row)
      /\ river' = [river EXCEPT ![r] = RowAt(st, river[r].attempt)]
      /\ UNCHANGED <<marker, wrk, app, outcomes, lock>>
  BY DEF StaffCancel, Keys, TypeInv, TypeOK
<1>2. row.state = "cancelled" /\ row.send = job[k].send /\ row.born = job[k].born /\ row.ref = job[k].ref
  BY <1>1 DEF JobRow
<1>3. r \in SubmitJobs /\ r \in RiverJobs /\ r.key = k
  <2>1. job[k].send \in 1..MaxSends
    BY <1>1 DEF JobRow
  <2> QED BY <2>1, JobKinds DEF SubmitJob
<1>4. /\ \A l \in Keys : job'[l] = IF l = k THEN row ELSE job[l]
      /\ \A j \in Invoices : inv'[j] = IF j = i THEN Moved(inv[i], "failed") ELSE inv[j]
  BY <1>1 DEF SetInv, SetJob, TypeInv, TypeOK
<1>5. ~job[k].ref /\ inv[i].kind = NoKind /\ ~inv[i].irn
  BY <1>1 DEF DriverInv, RowStatus, KindOfFailed, StatusHasRow
<1>6. Moved(inv[i], "failed").status = "failed" /\ Moved(inv[i], "failed").kind = NoKind
        /\ ~Moved(inv[i], "failed").irn
  BY <1>1, <1>5 DEF Moved, InvoiceRow
<1>7. /\ st = "none" <=> river[r].st = "none"
      /\ st \in {"available", "running", "stopping"} => river[r].st \in {"available", "running", "stopping"}
  OBVIOUS
<1>8. \A s \in RiverJobs : IF s = r THEN river'[s].st = st ELSE river'[s] = river[s]
  BY <1>1, <1>3 DEF RowAt, TypeInv, TypeOK
<1> HIDE DEF row, r, st, i
<1>9. ASSUME NEW s \in RiverJobs
      PROVE  /\ Live(s)' => Live(s)
             /\ Driver(s)' => Driver(s)
             /\ river'[s].st = "none" <=> river[s].st = "none"
  <2>1. CASE s = r
    BY <1>1, <1>7, <1>8, <2>1 DEF Live, Executing, Driver
  <2>2. CASE s # r
    BY <1>1, <1>8, <2>2 DEF Live, Executing, Driver
  <2> QED BY <2>1, <2>2
<1>10. /\ Active(k) /\ \A l \in Keys : Active(l)' = Active(l)
       /\ \A l \in Keys : job'[l].state = "none" <=> job[l].state = "none"
       /\ \A l \in Keys : job'[l].born = job[l].born
       /\ \A l \in Keys : l.inv = i /\ Active(l) => l = k
  <2>1. Active(k) /\ k.inv = i
    BY <1>1 DEF Active, i
  <2> QED BY <1>1, <1>2, <1>4, <2>1 DEF Active, DriverInv, OneActive
<1>11. KindOfFailed'
  BY <1>4, <1>6 DEF DriverInv, KindOfFailed
<1>12. OneActive'
  BY <1>10 DEF DriverInv, OneActive
<1>13. OneDriver'
  <2> SUFFICES ASSUME NEW s \in RiverJobs \ marker, NEW t \in RiverJobs \ marker,
                      s.key.inv = t.key.inv, Driver(s)', Driver(t)'
               PROVE  s = t
    BY <1>1 DEF OneDriver, Driver
  <2>1. Driver(s) /\ Driver(t) /\ s.key.inv \in Invoices
    BY <1>9, JobKey
  <2> QED BY <2>1 DEF DriverInv, OneDriver, Driver
<1>14. JobsRan'
  <2>1. marker \subseteq RiverJobs /\ \A l \in Keys : SubmitJob(l, 1) \in RiverJobs
    BY SubmissionAssumption, JobKinds DEF TypeInv, TypeOK
  <2> QED BY <1>1, <1>9, <1>10, <2>1 DEF DriverInv, JobsRan
<1>15. RowOrder' /\ \A j : RowsOf(j)' = RowsOf(j)
  BY <1>10, OrderKept DEF DriverInv
<1>16. StatusHasRow'
  <2> SUFFICES ASSUME NEW j \in Invoices
               PROVE  /\ inv'[j].status \in {"submitted", "accepted", "failed"} =>
                           \E l \in Keys : l.inv = j /\ Active(l)'
                      /\ inv'[j].status = "rejected" => RowsOf(j)' # {}
                      /\ inv'[j].irn => inv'[j].status = "accepted"
    BY DEF StatusHasRow
  <2>1. CASE j = i
    BY <1>4, <1>6, <1>10, <2>1 DEF i
  <2>2. CASE j # i
    BY <1>4, <1>10, <1>15, <2>2 DEF DriverInv, StatusHasRow
  <2> QED BY <2>1, <2>2
<1>17. ASSUME NEW l \in Keys PROVE RowStatus(l)'
  <2>1. l.inv \in Invoices /\ RowStatus(l)
    BY DEF Keys, DriverInv
  <2>2. CASE l = k
    <3>1. job'[l] = row /\ inv'[l.inv].status = "failed" /\ inv'[l.inv].kind = NoKind
      BY <1>4, <1>6, <2>1, <2>2 DEF i
    <3> QED BY <1>2, <1>5, <3>1 DEF RowStatus
  <2>3. CASE l # k /\ l.inv = i
    <3>1. ~Active(l) /\ job'[l] = job[l]
      BY <1>4, <1>10, <2>3
    <3> QED BY <2>1, <3>1 DEF RowStatus, Active
  <2>4. CASE l # k /\ l.inv # i
    <3>1. job'[l] = job[l] /\ inv'[l.inv] = inv[l.inv]
      BY <1>4, <2>1, <2>4
    <3> QED BY <2>1, <3>1 DEF RowStatus
  <2> QED BY <2>2, <2>3, <2>4
<1>18. ASSUME NEW s \in RiverJobs PROVE DriverAt(s)'
  <2> SUFFICES ASSUME Driver(s)' PROVE DriverAt(s)'
    BY DEF DriverAt
  <2>1. Driver(s) /\ DriverAt(s) /\ s.key \in Keys /\ s.key.inv \in Invoices
    BY <1>9, JobKey DEF DriverInv
  <2>2. CASE s.key.inv = i
    <3>1. s.key = k
      BY <1>10, <2>1, <2>2 DEF DriverAt, i
    <3>2. s.kind = "submit" /\ job'[s.key].state = "cancelled"
      BY <1>1, <1>2, <1>4, <2>1, <3>1 DEF DriverAt
    <3> QED BY <1>10, <2>2, <3>1, <3>2 DEF DriverAt
  <2>3. CASE s.key.inv # i
    <3>1. job'[s.key] = job[s.key] /\ inv'[s.key.inv] = inv[s.key.inv]
      BY <1>4, <2>1, <2>3 DEF i
    <3> QED BY <1>10, <2>1, <3>1 DEF DriverAt
  <2> QED BY <2>2, <2>3
<1>19. ASSUME NEW s \in SubmitJobs PROVE SubmitAt(s)'
  <2>1. s \in RiverJobs /\ s.key \in Keys /\ SubmitAt(s) /\ (Live(s)' => Live(s))
    BY <1>9, JobKinds, JobKey DEF DriverInv
  <2>2. CASE s.key # k
    <3>1. job'[s.key] = job[s.key]
      BY <1>4, <2>1, <2>2
    <3> QED BY <1>1, <2>1, <3>1 DEF SubmitAt
  <2>3. CASE s.key = k
    <3>1. wrk[s].pc \notin {"call", "tx2"}
      BY <1>1, <2>1, <2>3 DEF SubmitAt
    <3>2. job'[s.key] = row
      BY <1>4, <2>1, <2>3
    <3> QED BY <1>1, <1>2, <2>1, <2>3, <3>1, <3>2 DEF SubmitAt, TerminalJobStates
  <2> QED BY <2>2, <2>3
<1>20. ASSUME NEW s \in PollJobs
       PROVE  s \in RiverJobs /\ s.key \in Keys /\ river'[s] = river[s] /\ Live(s)' = Live(s)
              /\ Driver(s)' = Driver(s)
  <2>1. s \in RiverJobs /\ s.key \in Keys /\ s # r
    BY <1>3, JobKinds, JobKey
  <2> QED BY <1>1, <1>8, <2>1 DEF Live, Executing, Driver
<1>21. Rearmed' /\ \A l : GaveUp(l) => GaveUp(l)'
  BY <1>20, GivenUpStays DEF DriverInv
<1>22. ASSUME NEW s \in PollJobs PROVE PollAt(s)' /\ HopsAhead(s)'
  <2>1. \A m \in 1..MaxHops : PollJob(s.key, m) \in PollJobs
    BY <1>20, JobKinds
  <2>2. PollAt(s) /\ HopsAhead(s)
    BY DEF DriverInv
  <2>3. job[s.key].ref => job'[s.key].ref
    BY <1>2, <1>4, <1>20
  <2>4. PollAt(s)'
    BY <1>1, <1>20, <2>2, <2>3 DEF PollAt
  <2>5. HopsAhead(s)'
    BY <1>1, <1>20, <1>21, <2>1, <2>2 DEF HopsAhead
  <2> QED BY <2>4, <2>5
<1>23. Polled'
  <2> SUFFICES ASSUME NEW l \in Keys, job'[l].state = "pending"
               PROVE  \/ \E s \in PollJobs \ marker' : s.key = l /\ Live(s)'
                      \/ GaveUp(l)'
    BY DEF Polled
  <2>1. job[l].state = "pending"
    BY <1>2, <1>4
  <2> QED BY <1>1, <1>20, <1>21, <2>1 DEF DriverInv, Polled
<1>24. HeldHasRow'
  <2>1. job'[k].state # "rejected"
    BY <1>2, <1>4
  <2> QED BY <1>1, <1>4, <1>10, <2>1 DEF DriverInv, HeldHasRow
<1>25. OutcomeAuditedOnce'
  <2>1. outcomes[k] = job[k].send - 1
    BY <1>1 DEF DriverInv, OutcomeAuditedOnce, TerminalJobStates
  <2>2. job'[k] = row /\ \A l \in Keys : l # k => job'[l] = job[l]
    BY <1>4
  <2> QED BY <1>1, <1>2, <2>1, <2>2 DEF DriverInv, OutcomeAuditedOnce, TerminalJobStates
<1> QED BY <1>11, <1>12, <1>13, <1>14, <1>15, <1>16, <1>17, <1>18, <1>19, <1>22, <1>23, <1>24, <1>25, <1>21
        DEF DriverInv

\* Steps that leave the pipeline alone.
LEMMA Unmoved ==
  ASSUME DriverInv, UNCHANGED <<inv, job, river, marker, wrk, app, outcomes>>
  PROVE  DriverInv'
<1>1. /\ \A k : Active(k)' = Active(k)
      /\ \A r : Live(r)' = Live(r) /\ Driver(r)' = Driver(r)
      /\ \A i : RowsOf(i)' = RowsOf(i)
  BY DEF Active, Live, Executing, Driver, RowsOf
<1>2. KindOfFailed' /\ OneActive' /\ OneDriver' /\ JobsRan' /\ StatusHasRow' /\ OutcomeAuditedOnce'
  BY <1>1 DEF DriverInv, KindOfFailed, OneActive, OneDriver, JobsRan, StatusHasRow, OutcomeAuditedOnce
<1>3. Polled' /\ HeldHasRow' /\ Rearmed' /\ \A k : GaveUp(k)' = GaveUp(k)
  <2>1. Rearmed' /\ \A k : GaveUp(k)' = GaveUp(k)
    BY GivenUpStays DEF DriverInv, GaveUp
  <2> QED BY <1>1, <2>1 DEF DriverInv, Polled, HeldHasRow
<1>4. RowOrder'
  BY <1>1, OrderKept DEF DriverInv
<1>5. /\ \A k \in Keys : RowStatus(k)'
      /\ \A r \in RiverJobs : DriverAt(r)'
      /\ \A r \in SubmitJobs : SubmitAt(r)'
      /\ \A r \in PollJobs : PollAt(r)' /\ HopsAhead(r)'
  BY <1>1, <1>3 DEF DriverInv, RowStatus, DriverAt, SubmitAt, PollAt, HopsAhead
<1> QED BY <1>2, <1>3, <1>4, <1>5 DEF DriverInv

\* What the theorems below assume of the environment.
Undisturbed == PendingAckLost = FALSE /\ Asserted \subseteq {"draft", "queued"}

\* Every step preserves the invariant.
LEMMA DriverStep ==
  ASSUME TypeInv, DriverInv, Undisturbed, [Next]_vars
  PROVE  DriverInv'
<1>1. ASSUME NEW r \in RiverJobs, Worker(r) \/ Fault(r)
      PROVE  DriverInv'
  <2>1. CASE Fetch(r) \/ Ack(r) \/ Crash(r) \/ Rescue(r)
    BY <2>1, RiverKeeps DEF Undisturbed
  <2>2. CASE SubmitTx1(r)
    BY <2>2, NothingWritten, GateKeeps DEF SubmitTx1
  <2>3. CASE PollTx1(r) \/ TxFails(r)
    BY <2>3, NothingWritten
  <2>4. CASE CallSubmit(r) \/ TransformFails(r) \/ CallPoll(r)
    BY <2>4, AnswerKeeps
  <2>5. CASE Tx2(r)
    BY <2>5, RecordKeeps, RetryKeeps DEF Tx2
  <2> QED BY <1>1, <2>1, <2>2, <2>3, <2>4, <2>5 DEF Worker, Fault
<1>2. ASSUME Users
      PROVE  DriverInv'
  <2>1. ASSUME NEW i \in Invoices,
               \/ Validate(i) \/ Edit(i) \/ Demote(i) \/ Keep(i)
               \/ \E to \in Asserted : Transition(i, to)
        PROVE  DriverInv'
    BY <2>1, InvoiceKeeps DEF Undisturbed
  <2>2. ASSUME NEW req \in Requests, NEW S \in SUBSET Invoices, BatchSubmit(req, S)
        PROVE  DriverInv'
    BY <2>2, BatchKeeps
  <2>3. ASSUME NEW k \in Keys, SendAgain(k)
        PROVE  DriverInv'
    BY <2>3, RequeuedKeeps DEF SendAgain
  <2> QED BY <1>2, <2>1, <2>2, <2>3 DEF Users
<1>3. ASSUME Staff
      PROVE  DriverInv'
  <2>1. ASSUME NEW k \in Keys, Redrive(k)
        PROVE  DriverInv'
    BY <2>1, RequeuedKeeps DEF Redrive
  <2>2. ASSUME NEW k \in Keys, StaffCancel(k)
        PROVE  DriverInv'
    BY <2>2, CancelKeeps
  <2> QED BY <1>3, <2>1, <2>2 DEF Staff
<1>4. CASE SetLock \/ UNCHANGED vars
  BY <1>4, Unmoved DEF SetLock, vars, db
<1> QED BY <1>1, <1>2, <1>3, <1>4 DEF Next

\* The two invariants together hold throughout.
LEMMA DriverInvariant ==
  ASSUME Undisturbed
  PROVE  Spec => [](TypeInv /\ DriverInv)
<1>1. Init => TypeInv /\ DriverInv
  BY TypeInvInit, DriverInit
<1>2. TypeInv /\ DriverInv /\ [Next]_vars => (TypeInv /\ DriverInv)'
  BY TypeInvStep, DriverStep
<1> QED BY <1>1, <1>2, PTL DEF Spec

------------------------------------------------------------------------------
(***************************************************************************)
(* What follows                                                            *)
(***************************************************************************)

\* An invoice never has two River jobs that can still apply a once-only
\* effect, however often jobs are delivered again, polled and sent again.
THEOREM DrivenByOne ==
  ASSUME Undisturbed
  PROVE  Spec => []OneDriver
<1>1. DriverInv => OneDriver
  BY DEF DriverInv
<1> QED BY <1>1, DriverInvariant, PTL

\* Every send that ends is audited once, although the worker may die between
\* its commit and River's record, or be told to stop.
THEOREM AuditedOnce ==
  ASSUME Undisturbed
  PROVE  Spec => []OutcomeAuditedOnce
<1>1. DriverInv => OutcomeAuditedOnce
  BY DEF DriverInv
<1> QED BY <1>1, DriverInvariant, PTL

\* No invoice the authority holds or has cleared can be edited or sent under
\* a second key, so none is cleared twice.
THEOREM ClearsOnce ==
  ASSUME Undisturbed
  PROVE  Spec => []ClearedOnce
<1>1. TypeInv /\ DriverInv => ClearedOnce
  <2> SUFFICES ASSUME TypeInv, DriverInv PROVE ClearedOnce
    OBVIOUS
  <2>1. ASSUME NEW k \in Keys, app[k] \in {"open", "accepted"}
        PROVE  inv[k.inv].status \in {"queued", "submitted", "accepted", "failed"}
    <3>1. Active(k) /\ RowStatus(k) /\ job[k] \in JobRow
      BY <2>1 DEF DriverInv, HeldHasRow, TypeInv, TypeOK
    <3> QED BY <3>1 DEF RowStatus, Active, JobRow, TerminalJobStates
  <2>2. ASSUME NEW k \in Keys, NEW l \in Keys, k.inv = l.inv,
               app[k] = "accepted", app[l] = "accepted"
        PROVE  k = l
    BY <2>2 DEF DriverInv, HeldHasRow, OneActive
  <2> QED BY <2>1, <2>2 DEF ClearedOnce
<1> QED BY <1>1, DriverInvariant, PTL

\* The invoice and its newest row tell the same story, and a pending row has a
\* poll unless River gave it up: whatever the reconciler's drift arms report
\* here comes from outside the pipeline.
THEOREM TablesAgree ==
  ASSUME Undisturbed
  PROVE  Spec => []RowsAgree
<1>1. TypeInv /\ DriverInv => RowsAgree
  <2> SUFFICES ASSUME TypeInv, DriverInv PROVE RowsAgree
    OBVIOUS
  <2>1. ASSUME NEW i \in Invoices
        PROVE  \/ RowsOf(i) = {} /\ Story(inv[i].status, inv[i].kind, "none", FALSE)
               \/ \E k \in RowsOf(i) : /\ Newest(k)
                                       /\ Story(inv[i].status, inv[i].kind, job[k].state, job[k].ref)
    <3>1. inv[i].status \in Statuses
      BY DEF TypeInv, TypeOK, InvoiceRow
    <3>2. CASE \E k \in Keys : k.inv = i /\ Active(k)
      <4>1. PICK k \in Keys : k.inv = i /\ Active(k)
        BY <3>2
      <4>2. RowStatus(k) /\ job[k] \in JobRow /\ Newest(k) /\ k \in RowsOf(i)
        BY <4>1 DEF DriverInv, RowOrder, TypeInv, TypeOK, RowsOf, Active
      <4>3. Story(inv[i].status, inv[i].kind, job[k].state, job[k].ref)
        BY <4>1, <4>2 DEF RowStatus, Active, JobRow, TerminalJobStates, Story
      <4> QED BY <4>2, <4>3
    <3>3. CASE ~\E k \in Keys : k.inv = i /\ Active(k)
      <4>1. /\ inv[i].status \in {"draft", "validated", "queued", "rejected"}
            /\ inv[i].status = "rejected" => RowsOf(i) # {}
        BY <3>1, <3>3 DEF DriverInv, StatusHasRow, Statuses
      <4>2. CASE RowsOf(i) = {}
        BY <4>1, <4>2 DEF Story
      <4>3. CASE RowsOf(i) # {}
        <5>1. PICK k \in RowsOf(i) : Newest(k)
          BY <4>3 DEF DriverInv, RowOrder
        <5>2. job[k].state = "rejected"
          BY <3>3, <5>1 DEF RowsOf, Active
        <5> QED BY <4>1, <5>1, <5>2 DEF Story
      <4> QED BY <4>2, <4>3
    <3> QED BY <3>2, <3>3
  <2> QED BY <2>1 DEF RowsAgree, DriverInv, Polled, GaveUp
<1> QED BY <1>1, DriverInvariant, PTL

\* A submit worker is about to call the authority only for a key without a
\* ticket: what was acknowledged is polled, never presented again.
THEOREM AcknowledgedIsPolled ==
  ASSUME Undisturbed
  PROVE  Spec => AcknowledgedNotSentAgain
<1>1. TypeInv /\ DriverInv => \A r \in SubmitJobs : CallSubmit(r) => ~job[r.key].ref
  <2> SUFFICES ASSUME TypeInv, DriverInv, NEW r \in SubmitJobs, wrk[r].pc = "call"
               PROVE  ~job[r.key].ref
    BY DEF CallSubmit
  <2>1. SubmitAt(r) /\ RowStatus(r.key)
    BY JobKinds, JobKey DEF DriverInv
  <2> QED BY <2>1 DEF SubmitAt, RowStatus
<1> QED BY <1>1, DriverInvariant, PTL DEF AcknowledgedNotSentAgain

\* A row with a poll ticket has left the submit worker for good, as worker.go's
\* comment says ("a fresher hop already advanced this job past pending"). That
\* no worker dies before River records a Pending is needed: without it TLC
\* finds such a row with the submit worker again (ackloss.cfg).
THEOREM TicketPastSubmit ==
  ASSUME Undisturbed
  PROVE  Spec => []TicketMeansPastSubmit
<1>1. TypeInv /\ DriverInv => TicketMeansPastSubmit
  <2> SUFFICES ASSUME TypeInv, DriverInv, NEW k \in Keys, job[k].ref
               PROVE  job[k].state \in {"pending"} \cup TerminalJobStates
    BY DEF TicketMeansPastSubmit
  <2>1. RowStatus(k) /\ job[k] \in JobRow
    BY DEF DriverInv, TypeInv, TypeOK
  <2> QED BY <2>1 DEF RowStatus, JobRow, TerminalJobStates
<1> QED BY <1>1, DriverInvariant, PTL

------------------------------------------------------------------------------
(***************************************************************************)
(* The refinement                                                          *)
(***************************************************************************)

\* The lifecycle speaks of rows with the operators of InvoiceStatus.
LEMMA SameRows ==
  /\ Lifecycle!NoKind = NoKind
  /\ \A row, to : Lifecycle!Moved(row, to) = Moved(row, to)
  /\ \A row : /\ Lifecycle!MarkSubmitted(row) = MarkSubmitted(row)
              /\ Lifecycle!MarkAccepted(row) = MarkAccepted(row)
              /\ Lifecycle!MarkRejected(row) = MarkRejected(row)
  /\ \A row, kind : Lifecycle!MarkFailed(row, kind) = MarkFailed(row, kind)
  /\ \A from, to : Lifecycle!CanTransition(from, to) = CanTransition(from, to)
  /\ \A kind : Lifecycle!Resendable(kind) = Resendable(kind)
<1>1. Lifecycle!NoKind = NoKind
  BY DEF Lifecycle!NoKind, NoKind
<1>2. \A row, to : Lifecycle!Moved(row, to) = Moved(row, to)
  BY <1>1 DEF Lifecycle!Moved, Moved
<1>3. \A row, out, to : Lifecycle!Marked(row, out, to) = Marked(row, out, to)
  BY <1>2 DEF Lifecycle!Marked, Marked
<1>4. Lifecycle!LegalTransitions = LegalTransitions
  BY DEF Lifecycle!LegalTransitions, LegalTransitions, Lifecycle!Statuses, Statuses
<1>5. \A from, to : Lifecycle!CanTransition(from, to) = CanTransition(from, to)
  BY <1>4 DEF Lifecycle!CanTransition, CanTransition
<1>6. /\ \A row : /\ Lifecycle!MarkSubmitted(row) = MarkSubmitted(row)
                  /\ Lifecycle!MarkAccepted(row) = MarkAccepted(row)
                  /\ Lifecycle!MarkRejected(row) = MarkRejected(row)
      /\ \A row, kind : Lifecycle!MarkFailed(row, kind) = MarkFailed(row, kind)
  BY <1>3 DEF Lifecycle!MarkSubmitted, MarkSubmitted, Lifecycle!MarkAccepted, MarkAccepted,
              Lifecycle!MarkRejected, MarkRejected, Lifecycle!MarkFailed, MarkFailed
<1>7. \A kind : Lifecycle!Resendable(kind) = Resendable(kind)
  BY DEF Lifecycle!Resendable, Resendable
<1> QED BY <1>1, <1>2, <1>5, <1>6, <1>7

\* What a worker records is an answer of the lifecycle, or nothing.
LEMMA RecordImplements ==
  ASSUME TypeInv, DriverInv, NEW r \in RiverJobs, Tx2(r)
  PROVE  [Lifecycle!Next]_inv
<1> DEFINE i == r.key.inv
<1>1. /\ wrk[r].pc = "tx2" /\ i \in Invoices /\ r.key \in Keys
  BY JobKey DEF Tx2, RecordAccepted, RecordRejected, RecordPending, RecordStillPending,
                RecordDeadLetter, RecordUnbuilt, RecordRetry, Recording
<1>2. ASSUME r \notin marker
      PROVE  /\ r \in SubmitJobs => inv[i].status = "queued"
             /\ r \in PollJobs => inv[i].status = "submitted"
  <2>1. Driver(r) /\ RowStatus(r.key)
    BY <1>1, <1>2 DEF Driver, Live, TypeInv, WorkersRun, DriverInv
  <2>2. r \in SubmitJobs => job[r.key].state = "submitting"
    BY <1>1 DEF DriverInv, SubmitAt
  <2>3. r \in PollJobs => job[r.key].state = "pending"
    BY <2>1, JobKinds DEF DriverInv, DriverAt
  <2> QED BY <2>1, <2>2, <2>3 DEF RowStatus
<1>3. ASSUME NEW target, NEW row, NEW after, NEW rv, NEW audited, NEW ret,
             OncePerJob(r, target, row, after, rv, audited, ret)
      PROVE  inv' = inv \/ (r \notin marker /\ Lifecycle!Set(i, after))
  BY <1>3 DEF OncePerJob, SetInv, db, Lifecycle!Set
<1>4. r \in SubmitJobs \/ r \in PollJobs
  BY JobKinds
<1>5. CASE RecordAccepted(r)
  <2>1. inv' = inv \/ (r \notin marker /\ Lifecycle!Set(i, MarkAccepted(inv[i])))
    BY <1>3, <1>5 DEF RecordAccepted
  <2>2. inv' = inv \/ Lifecycle!Accept(i)
    BY <1>2, <1>4, <2>1, SameRows DEF Lifecycle!Accept
  <2> QED BY <1>1, <2>2 DEF Lifecycle!Next
<1>6. CASE RecordRejected(r)
  <2>1. inv' = inv \/ (r \notin marker /\ Lifecycle!Set(i, MarkRejected(inv[i])))
    BY <1>3, <1>6 DEF RecordRejected
  <2>2. inv' = inv \/ Lifecycle!Refuse(i)
    BY <1>2, <1>4, <2>1, SameRows DEF Lifecycle!Refuse
  <2> QED BY <1>1, <2>2 DEF Lifecycle!Next
<1>7. CASE RecordPending(r)
  <2>1. inv' = inv \/ (r \notin marker /\ Lifecycle!Set(i, MarkSubmitted(inv[i])))
    BY <1>3, <1>7 DEF RecordPending
  <2>2. r \in SubmitJobs
    BY <1>4, <1>7, JobKinds DEF RecordPending
  <2>3. inv' = inv \/ Lifecycle!Acknowledge(i)
    BY <1>2, <2>1, <2>2, SameRows DEF Lifecycle!Acknowledge
  <2> QED BY <1>1, <2>3 DEF Lifecycle!Next
<1>8. CASE RecordStillPending(r)
  <2>1. inv' = inv \/ (r \notin marker /\ Lifecycle!Set(i, inv[i]))
    BY <1>3, <1>8 DEF RecordStillPending
  <2>2. inv' = inv
    BY <2>1 DEF Lifecycle!Set, TypeInv, TypeOK
  <2> QED BY <2>2
<1>9. CASE RecordDeadLetter(r)
  <2> DEFINE kind == IF r.kind = "submit" THEN "never_acknowledged" ELSE "acknowledged_no_verdict"
  <2>1. inv' = inv \/ (r \notin marker /\ Lifecycle!Set(i, MarkFailed(inv[i], kind)))
    BY <1>3, <1>9 DEF RecordDeadLetter
  <2>2. ASSUME r \notin marker, Lifecycle!Set(i, MarkFailed(inv[i], kind))
        PROVE  Lifecycle!GiveUp(i)
    <3>1. CASE r \in SubmitJobs
      <4>1. inv[i].status = "queued" /\ kind = "never_acknowledged"
        BY <1>2, <2>2, <3>1, JobKinds
      <4> QED BY <2>2, <4>1, SameRows DEF Lifecycle!GiveUp
    <3>2. CASE r \in PollJobs
      <4>1. inv[i].status = "submitted" /\ kind = "acknowledged_no_verdict"
        BY <1>2, <2>2, <3>2, JobKinds
      <4> QED BY <2>2, <4>1, SameRows DEF Lifecycle!GiveUp
    <3> QED BY <1>4, <3>1, <3>2
  <2> QED BY <1>1, <2>1, <2>2 DEF Lifecycle!Next
<1>10. CASE RecordUnbuilt(r)
  <2>1. inv' = inv \/ (r \notin marker /\ Lifecycle!Set(i, MarkFailed(inv[i], "payload_not_built")))
    BY <1>3, <1>10 DEF RecordUnbuilt
  <2>2. r \in SubmitJobs
    BY <1>1, <1>4, <1>10 DEF RecordUnbuilt, Recording, DriverInv, PollAt
  <2>3. inv' = inv \/ Lifecycle!GiveUp(i)
    BY <1>2, <2>1, <2>2, SameRows DEF Lifecycle!GiveUp
  <2> QED BY <1>1, <2>3 DEF Lifecycle!Next
<1>11. CASE RecordRetry(r)
  BY <1>11 DEF RecordRetry
<1> QED BY <1>5, <1>6, <1>7, <1>8, <1>9, <1>10, <1>11 DEF Tx2

\* What a user asks for is a move of the lifecycle. An edit that leaves a draft
\* a draft takes its kept mark off; one that reopens an invoice finds none.
LEMMA UsersImplement ==
  ASSUME TypeInv, DriverInv, KeptWhereAllowed, Users
  PROVE  [Lifecycle!Next]_inv
<1>1. ASSUME NEW i \in Invoices
      PROVE  /\ inv[i] \in InvoiceRow
             /\ inv[i].kept => inv[i].status \in {"draft", "failed"}
  BY DEF TypeInv, TypeOK, KeptWhereAllowed
<1>2. ASSUME NEW i \in Invoices, Validate(i)
      PROVE  Lifecycle!Promote(i)
  BY <1>2, SameRows DEF Validate, SetInv, Lifecycle!Promote, Lifecycle!Set
<1>3. ASSUME NEW i \in Invoices, Edit(i)
      PROVE  Lifecycle!Reopen(i) \/ Lifecycle!Keep(i)
  <2> DEFINE row == [inv[i] EXCEPT !.kept = FALSE]
  <2>1. inv' = [inv EXCEPT ![i] = Moved(row, "draft")] /\ CanEdit(inv[i].status)
    BY <1>3 DEF Edit, SetInv
  <2>2. CASE inv[i].status = "draft"
    <3>1. Moved(row, "draft") = row
      BY <1>1, <2>2 DEF Moved, InvoiceRow
    <3> QED BY <2>1, <2>2, <3>1 DEF Lifecycle!Keep, Lifecycle!Set
  <2>3. CASE inv[i].status # "draft"
    <3>1. CanTransition(inv[i].status, "draft")
      BY <2>1, <2>3 DEF CanEdit
    <3>2. inv[i].status # "failed"
      BY <3>1 DEF CanTransition, LegalTransitions, Statuses
    <3>3. ~inv[i].kept
      BY <1>1, <2>3, <3>2
    <3>4. row = inv[i]
      BY <1>1, <3>3 DEF InvoiceRow
    <3> QED BY <2>1, <3>1, <3>4, SameRows DEF Lifecycle!Reopen, Lifecycle!Set
  <2> QED BY <2>2, <2>3
<1>4. ASSUME NEW i \in Invoices, Demote(i)
      PROVE  Lifecycle!Reopen(i)
  <2>1. CanTransition(inv[i].status, "draft")
    BY <1>4 DEF Demote, CanTransition, LegalTransitions, Statuses
  <2> QED BY <1>4, <2>1, SameRows DEF Demote, SetInv, Lifecycle!Reopen, Lifecycle!Set
<1>5. ASSUME NEW i \in Invoices, Keep(i)
      PROVE  Lifecycle!Keep(i)
  BY <1>5 DEF Keep, SetInv, Lifecycle!Keep, Lifecycle!Set
<1>6. ASSUME NEW i \in Invoices, NEW to \in Asserted, Transition(i, to)
      PROVE  Lifecycle!Assert(i)
  BY <1>6, SameRows DEF Transition, SetInv, Lifecycle!Assert, Lifecycle!Set
<1>7. ASSUME NEW req \in Requests, NEW S \in SUBSET Invoices, BatchSubmit(req, S)
      PROVE  \E F \in SUBSET Invoices : Lifecycle!Send(F)
  <2> DEFINE F == {i \in S : river[SubmitJob([req |-> req, inv |-> i], 1)].st = "none"}
  <2>1. /\ inv' = [i \in Invoices |-> IF i \in F THEN Moved(inv[i], "queued") ELSE inv[i]]
        /\ \A i \in F : inv[i].status = "validated"
    BY <1>7 DEF BatchSubmit, Transmittable
  <2>2. F \in SUBSET Invoices
    OBVIOUS
  <2> HIDE DEF F
  <2>3. Lifecycle!Send(F)
    BY <2>1, SameRows DEF Lifecycle!Send
  <2> QED BY <2>2, <2>3
<1>8. ASSUME NEW k \in Keys, SendAgain(k)
      PROVE  Lifecycle!Resend(k.inv) /\ k.inv \in Invoices
  BY <1>8, SameRows DEF SendAgain, Requeued, Requeueable, SetInv, Lifecycle!Resend, Lifecycle!Set, Keys
<1>9. CASE \E i \in Invoices : \/ Validate(i) \/ Edit(i) \/ Demote(i) \/ Keep(i)
                               \/ \E to \in Asserted : Transition(i, to)
  BY <1>2, <1>3, <1>4, <1>5, <1>6, <1>9 DEF Lifecycle!Next
<1>10. CASE \E req \in Requests, S \in SUBSET Invoices : BatchSubmit(req, S)
  BY <1>7, <1>10 DEF Lifecycle!Next
<1>11. CASE \E k \in Keys : SendAgain(k)
  BY <1>8, <1>11 DEF Lifecycle!Next
<1> QED BY <1>9, <1>10, <1>11 DEF Users

\* What staff do is a re-send of a key nobody acknowledged, or giving up.
LEMMA StaffImplements ==
  ASSUME TypeInv, DriverInv, Staff
  PROVE  [Lifecycle!Next]_inv
<1>1. ASSUME NEW k \in Keys, Redrive(k)
      PROVE  Lifecycle!Resend(k.inv) /\ k.inv \in Invoices
  <2>1. job[k].state = "dead_lettered" /\ ~job[k].ref /\ RowStatus(k)
    BY <1>1 DEF Redrive, Requeued, Requeueable, DriverInv
  <2>2. Resendable(inv[k.inv].kind)
    BY <2>1 DEF RowStatus, Resendable
  <2> QED BY <1>1, <2>2, SameRows
          DEF Redrive, Requeued, Requeueable, SetInv, Lifecycle!Resend, Lifecycle!Set, Keys
<1>2. ASSUME NEW k \in Keys, StaffCancel(k)
      PROVE  Lifecycle!GiveUp(k.inv) /\ k.inv \in Invoices
  <2> DEFINE row == inv[k.inv]
  <2>1. k.inv \in Invoices /\ row \in InvoiceRow /\ row.status = "queued"
        /\ inv' = [inv EXCEPT ![k.inv] = Moved(row, "failed")]
    BY <1>2 DEF StaffCancel, SetInv, Keys, TypeInv, TypeOK
  <2>2. row.kind = NoKind
    BY <2>1 DEF DriverInv, KindOfFailed
  <2>3. [row EXCEPT !.kind = NoKind] = row
    BY <2>1, <2>2 DEF InvoiceRow
  <2>4. MarkFailed(row, NoKind) = Moved(row, "failed")
    BY <2>1, <2>3 DEF MarkFailed, Marked
  <2> QED BY <2>1, <2>4, SameRows DEF Lifecycle!GiveUp, Lifecycle!Set
<1> QED BY <1>1, <1>2 DEF Staff, Lifecycle!Next

\* The pipeline implements the lifecycle: nothing a worker, a user, staff, a
\* crash or a redelivery does changes an invoice in a way the lifecycle does
\* not allow, and a re-send happens only where no acknowledgement was seen.
THEOREM PipelineImplements ==
  ASSUME Undisturbed
  PROVE  Spec => ImplementsLifecycle
<1>1. Init => Lifecycle!Init
  BY SameRows DEF Init, Lifecycle!Init
<1>2. TypeInv /\ DriverInv /\ KeptWhereAllowed /\ [Next]_vars => [Lifecycle!Next]_inv
  <2> SUFFICES ASSUME TypeInv, DriverInv, KeptWhereAllowed, [Next]_vars
               PROVE  [Lifecycle!Next]_inv
    OBVIOUS
  <2>1. ASSUME NEW r \in RiverJobs, Worker(r) \/ Fault(r)
        PROVE  [Lifecycle!Next]_inv
    <3>1. CASE Tx2(r)
      BY <3>1, RecordImplements
    <3>2. CASE ~Tx2(r)
      <4>1. inv' = inv
        BY <2>1, <3>2 DEF Worker, Fault, Fetch, SubmitTx1, SubmitLocked, SubmitReplayed,
             SubmitAlreadyCleared, SubmitThrottled, SubmitProceeds, PollTx1, CallSubmit,
             TransformFails, CallPoll, Answered, Ack, Rescue, Crash, TxFails, db
      <4> QED BY <4>1
    <3> QED BY <3>1, <3>2
  <2>2. CASE SetLock \/ UNCHANGED vars
    BY <2>2 DEF SetLock, vars, db
  <2> QED BY <2>1, <2>2, UsersImplement, StaffImplements DEF Next
<1> QED BY <1>1, <1>2, DriverInvariant, KeptAllowed, PTL
        DEF Spec, ImplementsLifecycle, Lifecycle!Spec
=============================================================================
