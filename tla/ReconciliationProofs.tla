------------------------ MODULE ReconciliationProofs ------------------------
(***************************************************************************)
(* Theorems about Reconciliation: with the sweep running between any two   *)
(* steps of the pipeline the invariant of SubmissionProofs still holds, so *)
(* that re-arming never gives an invoice a second driver, and no stalled   *)
(* invoice escapes the scan but in the two ways of Hidden. The assumption  *)
(* is Undisturbed, of SubmissionProofs.                                    *)
(*                                                                         *)
(* Why the sweep is harmless: a pending row whose polls are all dead was   *)
(* given up by River, so nobody drives its invoice, the re-arm job is its  *)
(* only driver, and a hop that job cannot insert because a poll of that    *)
(* number ran already is again a row River gave up.                        *)
(***************************************************************************)
EXTENDS Reconciliation, SubmissionProofs

\* The River jobs a sweep of K makes available.
Fresh(K) == {r \in PollJobs : /\ r.kind = "rearm" /\ r.key \in K
                              /\ r.n = job[r.key].attempts /\ river[r].st = "none"}

\* ReArmPoll inserts those and leaves every other River row alone.
LEMMA ReArmedRows ==
  ASSUME NEW K \in SUBSET Keys, river' = ReArmed(river, K), NEW r \in RiverJobs
  PROVE  /\ r \in Fresh(K) => river'[r] = RowAt("available", 0) /\ river[r].st = "none"
         /\ r \notin Fresh(K) => river'[r] = river[r]
<1>1. r.kind = "rearm" => r \in PollJobs
  BY JobKinds
<1>2. river'[r] = IF r.kind = "rearm" /\ r.key \in K /\ r.n = job[r.key].attempts /\ river[r].st = "none"
                  THEN RowAt("available", 0) ELSE river[r]
  BY DEF ReArmed
<1> QED BY <1>1, <1>2 DEF Fresh

\* What a lost poll says of its invoice: River gave the row up, nobody drives
\* the invoice, and no other key of it counts.
LEMMA LostPollAlone ==
  ASSUME TypeInv, DriverInv, NEW k \in Keys, LostPoll(k)
  PROVE  /\ job[k].state = "pending" /\ Active(k) /\ job[k].ref /\ GaveUp(k)
         /\ \A l \in Keys : l.inv = k.inv /\ Active(l) => l = k
         /\ \A r \in RiverJobs : r.key.inv = k.inv => ~Driver(r)
<1>1. job[k].state = "pending" /\ Active(k) /\ ~LivePoll(k)
  BY DEF LostPoll, Active
<1>2. job[k].ref
  BY <1>1 DEF DriverInv, RowStatus
<1>3. GaveUp(k)
  BY <1>1 DEF DriverInv, Polled, LivePoll
<1>4. \A l \in Keys : l.inv = k.inv /\ Active(l) => l = k
  BY <1>1 DEF DriverInv, OneActive
<1>5. ASSUME NEW r \in RiverJobs, r.key.inv = k.inv, Driver(r)
      PROVE  FALSE
  <2>1. r.key = k
    BY <1>1, <1>5 DEF DriverInv, DriverAt
  <2>2. r \in PollJobs
    BY <1>1, <1>5, <2>1, JobKinds DEF DriverInv, DriverAt
  <2> QED BY <1>1, <1>5, <2>1, <2>2 DEF LivePoll, Driver
<1> QED BY <1>1, <1>2, <1>3, <1>4, <1>5

\* The sweep keeps the type invariant.
LEMMA SweepTypeKept ==
  ASSUME TypeInv, Sweep
  PROVE  TypeInv'
<1>1. PICK K \in SUBSET Keys : river' = ReArmed(river, K)
  BY DEF Sweep
<1>2. UNCHANGED <<inv, job, marker, outcomes, wrk, app, lock>>
  BY DEF Sweep, db
<1>3. \A r \in RiverJobs :
        /\ r \in Fresh(K) => river'[r] = RowAt("available", 0) /\ river[r].st = "none"
        /\ r \notin Fresh(K) => river'[r] = river[r]
  BY <1>1, ReArmedRows
<1>4. river' \in [RiverJobs -> RiverRow]
  <2>1. RowAt("available", 0) \in RiverRow
    BY DEF RowAt, RiverRow
  <2>2. DOMAIN river' = RiverJobs /\ river' = [r \in RiverJobs |-> river'[r]]
    BY <1>1 DEF ReArmed
  <2> QED BY <1>3, <2>1, <2>2 DEF TypeInv, TypeOK
<1>5. TypeOK'
  BY <1>2, <1>4 DEF TypeInv, TypeOK
<1>6. WorkersRun'
  <2> SUFFICES ASSUME NEW r \in RiverJobs
               PROVE  /\ wrk'[r].pc # "dead" => Executing(r)'
                      /\ Executing(r)' => river'[r].attempt >= 1
    BY DEF WorkersRun
  <2>1. CASE r \in Fresh(K)
    BY <1>2, <1>3, <2>1 DEF TypeInv, WorkersRun, Executing, RowAt
  <2>2. CASE r \notin Fresh(K)
    BY <1>2, <1>3, <2>2 DEF TypeInv, WorkersRun, Executing
  <2> QED BY <2>1, <2>2
<1>7. NoLaterSend'
  BY <1>2, <1>3, JobKinds DEF TypeInv, NoLaterSend, Fresh
<1>8. RowlessSend'
  BY <1>2 DEF TypeInv, RowlessSend
<1> QED BY <1>5, <1>6, <1>7, <1>8 DEF TypeInv

\* The sweep makes the re-arm job of a lost poll the only driver of its
\* invoice.
LEMMA SweepKeeps ==
  ASSUME TypeInv, DriverInv, Sweep
  PROVE  DriverInv'
<1>1. PICK K \in SUBSET {k \in Keys : LostPoll(k)} : river' = ReArmed(river, K)
  BY DEF Sweep
<1>2. UNCHANGED <<inv, job, marker, outcomes, wrk, app, lock>>
  BY DEF Sweep, db
<1>3. \A r \in RiverJobs :
        /\ r \in Fresh(K) => river'[r] = RowAt("available", 0) /\ river[r].st = "none"
        /\ r \notin Fresh(K) => river'[r] = river[r]
  <2>1. K \in SUBSET Keys
    OBVIOUS
  <2> QED BY <1>1, <2>1, ReArmedRows
<1>4. ASSUME NEW r \in Fresh(K)
      PROVE  /\ r \in PollJobs /\ r \in RiverJobs /\ r.kind = "rearm" /\ r.key \in Keys
             /\ r.n = job[r.key].attempts /\ r \notin marker /\ wrk[r].pc = "dead"
             /\ job[r.key].state = "pending" /\ Active(r.key) /\ job[r.key].ref /\ GaveUp(r.key)
             /\ \A l \in Keys : l.inv = r.key.inv /\ Active(l) => l = r.key
             /\ \A s \in RiverJobs : s.key.inv = r.key.inv => ~Driver(s)
  <2>1. /\ r \in PollJobs /\ r \in RiverJobs /\ r.kind = "rearm" /\ r.key \in K
        /\ r.n = job[r.key].attempts /\ river[r].st = "none"
    BY JobKinds DEF Fresh
  <2>2. r \notin marker /\ wrk[r].pc = "dead"
    BY <2>1 DEF DriverInv, JobsRan, TypeInv, WorkersRun, Executing
  <2>3. r.key \in Keys /\ LostPoll(r.key)
    BY <2>1
  <2> QED BY <2>1, <2>2, <2>3, LostPollAlone
<1>5. ASSUME NEW r \in RiverJobs
      PROVE  /\ r \in Fresh(K) => /\ river'[r].st = "available" /\ river[r].st = "none"
                                  /\ Live(r)' /\ Driver(r)'
             /\ r \notin Fresh(K) => Live(r)' = Live(r) /\ Driver(r)' = Driver(r)
  <2>1. CASE r \in Fresh(K)
    BY <1>2, <1>3, <1>4, <2>1 DEF RowAt, Live, Driver
  <2>2. CASE r \notin Fresh(K)
    BY <1>2, <1>3, <2>2 DEF Live, Executing, Driver
  <2> QED BY <2>1, <2>2
<1>6. /\ \A k \in Keys : Active(k)' = Active(k)
      /\ \A i : RowsOf(i)' = RowsOf(i)
      /\ \A r \in RiverJobs : river[r].st # "none" => river'[r] = river[r]
  BY <1>2, <1>3, <1>5 DEF Active, RowsOf
<1>7. \A k : GaveUp(k) => GaveUp(k)'
  BY <1>6, JobKinds DEF GaveUp
<1>8. /\ KindOfFailed' /\ OneActive' /\ StatusHasRow' /\ HeldHasRow' /\ OutcomeAuditedOnce'
      /\ \A k \in Keys : RowStatus(k)'
  BY <1>2, <1>6 DEF DriverInv, KindOfFailed, OneActive, StatusHasRow, HeldHasRow,
                    OutcomeAuditedOnce, RowStatus
<1>9. RowOrder'
  BY <1>2, <1>6, OrderKept DEF DriverInv
<1>10. OneDriver'
  <2> SUFFICES ASSUME NEW r \in RiverJobs, NEW s \in RiverJobs,
                      r.key.inv = s.key.inv, Driver(r)', Driver(s)'
               PROVE  r = s
    BY DEF OneDriver, Driver
  <2>1. r.key \in Keys /\ s.key \in Keys /\ r.key.inv \in Invoices
    BY JobKey
  <2>2. CASE r \in Fresh(K) /\ s \in Fresh(K)
    <3>1. r.key = s.key /\ r.n = s.n /\ r.kind = s.kind
      BY <1>4, <2>1, <2>2
    <3>2. r \in PollJobs /\ s \in PollJobs
      BY <1>4, <2>2
    <3> QED BY <3>1, <3>2 DEF PollJobs
  <2>3. CASE r \notin Fresh(K) /\ s \notin Fresh(K)
    BY <1>5, <2>1, <2>3 DEF DriverInv, OneDriver, Driver
  <2>4. CASE r \in Fresh(K) /\ s \notin Fresh(K)
    BY <1>4, <1>5, <2>4
  <2>5. CASE r \notin Fresh(K) /\ s \in Fresh(K)
    BY <1>4, <1>5, <2>5
  <2> QED BY <2>2, <2>3, <2>4, <2>5
<1>11. JobsRan'
  <2>1. marker \subseteq RiverJobs /\ \A k \in Keys : SubmitJob(k, 1) \in RiverJobs
    BY SubmissionAssumption, JobKinds DEF TypeInv, TypeOK
  <2> QED BY <1>2, <1>6, <2>1 DEF DriverInv, JobsRan
<1>12. ASSUME NEW r \in RiverJobs
       PROVE  DriverAt(r)'
  <2>1. CASE r \in Fresh(K)
    BY <1>2, <1>4, <1>6, <2>1 DEF DriverAt
  <2>2. CASE r \notin Fresh(K)
    BY <1>2, <1>5, <1>6, <2>2 DEF DriverInv, DriverAt
  <2> QED BY <2>1, <2>2
<1>13. ASSUME NEW r \in SubmitJobs
       PROVE  SubmitAt(r)'
  <2>1. r \in RiverJobs /\ r \notin Fresh(K)
    BY JobKinds DEF Fresh
  <2> QED BY <1>2, <1>5, <2>1 DEF DriverInv, SubmitAt
<1>14. ASSUME NEW r \in PollJobs
       PROVE  PollAt(r)'
  <2>1. r \in RiverJobs
    BY JobKinds
  <2>2. CASE r \in Fresh(K)
    BY <1>2, <1>4, <1>5, <2>1, <2>2 DEF PollAt
  <2>3. CASE r \notin Fresh(K)
    BY <1>2, <1>3, <2>1, <2>3 DEF DriverInv, PollAt
  <2> QED BY <2>2, <2>3
<1>15. ASSUME NEW r \in PollJobs
       PROVE  HopsAhead(r)'
  <2> SUFFICES ASSUME Driver(r)', ~GaveUp(r.key)'
               PROVE  \A m \in 1..MaxHops : m > r.n => river'[PollJob(r.key, m)].st = "none"
    BY DEF HopsAhead
  <2>1. r \in RiverJobs /\ r.key \in Keys
    BY JobKinds, JobKey
  <2>2. r \notin Fresh(K) /\ Driver(r) /\ ~GaveUp(r.key)
    BY <1>4, <1>5, <1>7, <2>1
  <2>3. \A m \in 1..MaxHops : PollJob(r.key, m) \in RiverJobs /\ PollJob(r.key, m) \notin Fresh(K)
    BY <2>1, JobKinds DEF Fresh, PollJob
  <2> QED BY <1>3, <2>2, <2>3 DEF DriverInv, HopsAhead
<1>16. Rearmed'
  <2> SUFFICES ASSUME NEW r \in PollJobs, r.kind = "rearm", river'[r].st # "none"
               PROVE  GaveUp(r.key)'
    BY DEF Rearmed
  <2>1. CASE r \in Fresh(K)
    BY <1>4, <1>7, <2>1
  <2>2. CASE r \notin Fresh(K)
    BY <1>3, <1>7, <2>2, JobKinds DEF DriverInv, Rearmed
  <2> QED BY <2>1, <2>2
<1>17. Polled'
  <2> SUFFICES ASSUME NEW k \in Keys, job[k].state = "pending", ~GaveUp(k)'
               PROVE  \E r \in PollJobs \ marker : r.key = k /\ Live(r)'
    BY <1>2 DEF Polled
  <2>1. PICK r \in PollJobs \ marker : r.key = k /\ Live(r)
    BY <1>7 DEF DriverInv, Polled
  <2> QED BY <1>5, <2>1, JobKinds
<1> QED BY <1>8, <1>9, <1>10, <1>11, <1>12, <1>13, <1>14, <1>15, <1>16, <1>17 DEF DriverInv

\* The two invariants hold throughout with the sweep as well.
LEMMA SweptInvariant ==
  ASSUME Undisturbed
  PROVE  RSpec => [](TypeInv /\ DriverInv)
<1>1. Init => TypeInv /\ DriverInv
  BY TypeInvInit, DriverInit
<1>2. TypeInv /\ DriverInv /\ [RNext]_vars => (TypeInv /\ DriverInv)'
  <2> SUFFICES ASSUME TypeInv, DriverInv, [RNext]_vars
               PROVE  TypeInv' /\ DriverInv'
    OBVIOUS
  <2>1. CASE [Next]_vars
    BY <2>1, TypeInvStep, DriverStep
  <2>2. CASE Sweep
    BY <2>2, SweepTypeKept, SweepKeeps
  <2> QED BY <2>1, <2>2 DEF RNext
<1> QED BY <1>1, <1>2, PTL DEF RSpec

------------------------------------------------------------------------------
\* Re-arming a lost poll never gives an invoice a second driver: a poll is
\* re-armed only when none of its row is alive, and a re-armed poll whose next
\* hop was taken already enqueues nothing.
THEOREM SweptByOne ==
  ASSUME Undisturbed
  PROVE  RSpec => []OneDriver
<1>1. DriverInv => OneDriver
  BY DEF DriverInv
<1> QED BY <1>1, SweptInvariant, PTL

\* A verdict reached through a re-armed poll is audited once as well.
THEOREM SweptAuditedOnce ==
  ASSUME Undisturbed
  PROVE  RSpec => []OutcomeAuditedOnce
<1>1. DriverInv => OutcomeAuditedOnce
  BY DEF DriverInv
<1> QED BY <1>1, SweptInvariant, PTL

\* An invoice handed over that no live job will move is reported by the scan,
\* unless a refused earlier key hides it. A submitted one has a pending row; a
\* queued one has no row or a row before its ticket, and the submit jobs River
\* still runs for it have left their mark on a row that is not refused, which
\* would have moved the invoice on.
THEOREM StallFlagged ==
  ASSUME Undisturbed
  PROVE  RSpec => []KnownStallIsFlagged
<1>1. TypeInv /\ DriverInv => KnownStallIsFlagged
  <2> SUFFICES ASSUME TypeInv, DriverInv, NEW i \in Invoices, Stalled(i), ~Hidden(i)
               PROVE  \E d : d \in Findings(i)
    BY DEF KnownStallIsFlagged
  <2>1. inv[i].status \in {"queued", "submitted"}
    BY DEF Stalled, InFlight
  <2>2. CASE inv[i].status = "submitted"
    <3>1. PICK k \in Keys : k.inv = i /\ Active(k)
      BY <2>2 DEF DriverInv, StatusHasRow
    <3>2. RowStatus(k) /\ job[k] \in JobRow /\ Newest(k)
      BY <3>1 DEF DriverInv, RowOrder, TypeInv, TypeOK
    <3>3. job[k].state = "pending"
      BY <2>2, <3>1, <3>2 DEF RowStatus, Active, JobRow, TerminalJobStates
    <3>4. k \in NewestRow(i)
      BY <3>1, <3>2 DEF NewestRow, Newest
    <3>5. "pending_too_long" \in Findings(i)
      BY <3>3, <3>4 DEF Findings
    <3> QED BY <3>5
  <2>3. CASE inv[i].status = "queued"
    <3>1. ASSUME NEW k \in Keys, k.inv = i, job[k].state # "none"
          PROVE  job[k].state \in {"queued", "submitting", "rejected"}
      BY <2>3, <3>1 DEF DriverInv, RowStatus, TypeInv, TypeOK, JobRow, TerminalJobStates
    <3>2. ~LiveSubmit(i)
      <4> SUFFICES ASSUME NEW r \in SubmitJobs, r.key.inv = i, Live(r)
                   PROVE  FALSE
        BY DEF LiveSubmit
      <4>1. r \in RiverJobs /\ r.key \in Keys
        BY JobKinds, JobKey
      <4>2. r \in marker
        BY <4>1 DEF Stalled, Driven
      <4>3. job[r.key].state \in TerminalJobStates \cup {"pending"}
        BY <4>2 DEF DriverInv, SubmitAt
      <4>4. job[r.key].state = "rejected"
        BY <3>1, <4>1, <4>3 DEF TerminalJobStates
      <4> QED BY <4>2, <4>4 DEF Hidden
    <3>3. CASE RowsOf(i) = {}
      <4>1. "queued_never_sent" \in Findings(i)
        BY <2>3, <3>2, <3>3 DEF Findings, QueuedNeverSent
      <4> QED BY <4>1
    <3>4. CASE RowsOf(i) # {}
      <4>1. PICK k \in RowsOf(i) : Newest(k)
        BY <3>4 DEF DriverInv, RowOrder
      <4>2. k \in NewestRow(i) /\ k \in Keys /\ k.inv = i /\ job[k].state # "none"
        BY <4>1 DEF NewestRow, RowsOf
      <4>3. CASE job[k].state = "queued"
        <5>1. "queued_never_sent" \in Findings(i)
          BY <2>3, <3>2, <4>2, <4>3 DEF Findings, QueuedNeverSent
        <5> QED BY <5>1
      <4>4. CASE job[k].state = "submitting"
        <5>1. "submitting_orphan" \in Findings(i)
          BY <3>2, <4>2, <4>4 DEF Findings, SubmittingOrphan
        <5> QED BY <5>1
      <4>5. job[k].state # "rejected"
        BY <4>2 DEF Hidden
      <4> QED BY <3>1, <4>2, <4>3, <4>4, <4>5
    <3> QED BY <3>3, <3>4
  <2> QED BY <2>1, <2>2, <2>3
<1> QED BY <1>1, SweptInvariant, PTL
=============================================================================
