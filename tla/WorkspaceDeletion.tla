-------------------------- MODULE WorkspaceDeletion --------------------------
(***************************************************************************)
(* The deletion of one workspace: administrators or staff schedule and     *)
(* cancel it, staff may start the purge at once, and purge runs erase the  *)
(* members, delete the files and remove the rows.                          *)
(*                                                                         *)
(* A run is the hourly ticker of a worker process or River's execution of  *)
(* the job staff queued. The leader election keeps the tickers apart, but  *)
(* a process that loses its connection overlaps with its successor, so any *)
(* ticker may run here. Each step of a run is one transaction, or one call *)
(* to the object store; the tenant's row is locked FOR UPDATE by every     *)
(* transaction that decides, so these are atomic.                          *)
(*                                                                         *)
(* Audit rows other than workspace.purged, links and mails are append-only *)
(* and decide nothing; a cancel by link is a cancel with one more check.   *)
(***************************************************************************)
EXTENDS Naturals, FiniteSets

CONSTANTS
  Members,    \* people who may belong to the workspace
  Tickers,    \* worker processes that run the hourly purge
  JobRunner,  \* River's execution of the workspace_purge job
  MaxFaults,  \* bound: faults of one behaviour
  Overtaking  \* may a change of members whose check saw no schedule commit after
              \* one?

ASSUME DeletionAssumption ==
  /\ JobRunner \notin Tickers
  /\ MaxFaults \in Nat
  /\ Overtaking \in BOOLEAN

VARIABLES
  ws,        \* the tenants row: is it there, deletion_scheduled_at,
             \* deletion_due_at <= now(), deletion_purge_started_at
  members,   \* memberships not removed
  joining,   \* acceptances that have passed the check for a schedule
  erased,    \* members an erasure is queued for
  files,     \* objects under the tenant's prefix
  job,       \* the workspace_purge job: "none", "available" or "taken"
  pc,        \* pc[r]: where run r is
  held,      \* the run whose session holds the advisory lock, if any
  staffRows, \* workspace.purged rows of staff_audit_log
  faults     \* faults so far

table == <<ws, members, joining, erased, staffRows>>
vars  == <<ws, members, joining, erased, files, job, pc, held, staffRows, faults>>

Runs == Tickers \cup {JobRunner}

\* "stored": uploaded before; "late": a page an extraction job writes now.
Objects == {"stored", "late"}

Open == [exists |-> TRUE, scheduled |-> FALSE, overdue |-> FALSE, started |-> FALSE]
Gone == [Open EXCEPT !.exists = FALSE]

Init ==
  /\ ws = Open
  /\ members \in (SUBSET Members) \ {{}}
  /\ joining = {}
  /\ erased = {}
  /\ files = {"stored"}
  /\ job = "none"
  /\ pc = [r \in Runs |-> "idle"]
  /\ held = {}
  /\ staffRows = 0
  /\ faults = 0

------------------------------------------------------------------------------
(***************************************************************************)
(* The schedule                                                            *)
(***************************************************************************)

\* By an administrator or by staff.
Schedule ==
  /\ ws.exists /\ ~ws.scheduled
  /\ ws' = [ws EXCEPT !.scheduled = TRUE]
  /\ UNCHANGED <<members, joining, erased, files, job, pc, held, staffRows, faults>>

\* The thirty days are over.
DuePasses ==
  /\ ws.scheduled /\ ~ws.overdue
  /\ ws' = [ws EXCEPT !.overdue = TRUE]
  /\ UNCHANGED <<members, joining, erased, files, job, pc, held, staffRows, faults>>

\* clearDeletionSchedule: the trigger derives the due time again, as NULL.
Unscheduled(row) == [row EXCEPT !.scheduled = FALSE, !.overdue = FALSE]

\* Mutant: the trigger looks at nothing.
Cancellable_Always(row) == row.scheduled

\* tenants_purge_guard: a started purge refuses every change of the schedule.
Cancellable(row) == row.scheduled /\ ~row.started

\* By an administrator, with a link, or by staff.
Cancel ==
  /\ Cancellable(ws)
  /\ ws' = Unscheduled(ws)
  /\ UNCHANGED <<members, joining, erased, files, job, pc, held, staffRows, faults>>

\* Staff start the purge of a scheduled workspace before it is due: the marker
\* and the job commit together.
StaffPurge ==
  /\ ws.scheduled /\ ~ws.started
  /\ ws' = [ws EXCEPT !.started = TRUE]
  /\ job' = "available"
  /\ UNCHANGED <<members, joining, erased, files, pc, held, staffRows, faults>>

------------------------------------------------------------------------------
(***************************************************************************)
(* Members. An acceptance reads the schedule, waits for the identity's     *)
(* advisory lock, and inserts.                                             *)
(***************************************************************************)

JoinChecks(m) ==
  /\ ws.exists /\ ~ws.scheduled
  /\ m \in Members \ (members \cup joining)
  /\ joining' = joining \cup {m}
  /\ UNCHANGED <<ws, members, erased, files, job, pc, held, staffRows, faults>>

\* Without the workspace the insert fails.
JoinCommits(m) ==
  /\ m \in joining
  /\ ws.scheduled => Overtaking
  /\ joining' = joining \ {m}
  /\ members' = IF ws.exists THEN members \cup {m} ELSE members
  /\ UNCHANGED <<ws, erased, files, job, pc, held, staffRows, faults>>

\* RemoveMember: never the last administrator.
Leave(m) ==
  /\ ws.exists /\ (ws.scheduled => Overtaking)
  /\ m \in members /\ members # {m}
  /\ members' = members \ {m}
  /\ UNCHANGED <<ws, joining, erased, files, job, pc, held, staffRows, faults>>

------------------------------------------------------------------------------
(***************************************************************************)
(* The purge                                                               *)
(***************************************************************************)

\* Mutant: any schedule counts.
Due_Scheduled == ws.exists /\ ws.scheduled

\* lockDue, and the reader's list of due tenants.
Due == ws.exists /\ (ws.overdue \/ ws.started)

At(r, step) == pc[r] = step
Goto(r, step) == pc' = [pc EXCEPT ![r] = step]

\* Mutant: the advisory lock is kept by a run that stops.
Stops_Locked(r) == Goto(r, "idle") /\ UNCHANGED held

\* The run returns and releases the advisory lock if it holds it.
Stops(r) == Goto(r, "idle") /\ held' = held \ {r}

\* RunOnce lists the due tenants.
Lists(r) ==
  /\ r \in Tickers
  /\ At(r, "idle")
  /\ Due
  /\ Goto(r, "lock")
  /\ UNCHANGED <<table, files, job, held, faults>>

\* River runs the job, once.
JobStarts ==
  /\ At(JobRunner, "idle")
  /\ job = "available"
  /\ job' = "taken"
  /\ Goto(JobRunner, "lock")
  /\ UNCHANGED <<table, files, held, faults>>

\* lockTenant: a workspace another run is purging is skipped.
TriesLock(r) ==
  /\ At(r, "lock")
  /\ \/ held = {} /\ held' = {r} /\ Goto(r, "erase")
     \/ held # {} /\ Stops(r)
  /\ UNCHANGED <<table, files, job, faults>>

\* Mutant: the erasures are queued by the run that sets the marker.
Erases_FirstRunOnly(r) ==
  /\ At(r, "erase")
  /\ \/ /\ Due
        /\ ws' = [ws EXCEPT !.started = TRUE]
        /\ erased' = IF ws.started THEN erased ELSE erased \cup members
        /\ Goto(r, "files")
        /\ UNCHANGED held
     \/ ~Due /\ Stops(r) /\ UNCHANGED <<ws, erased>>
  /\ UNCHANGED <<members, joining, staffRows, files, job, faults>>

\* Mutant: what the list said is not checked again.
Erases_Listed(r) ==
  /\ At(r, "erase")
  /\ erased' = erased \cup members
  /\ ws' = [ws EXCEPT !.started = ws.scheduled]
  /\ Goto(r, "files")
  /\ UNCHANGED <<held, members, joining, staffRows, files, job, faults>>

\* eraseMembers: the marker closes every cancel, in the transaction that
\* queues the erasures.
Erases(r) ==
  /\ At(r, "erase")
  /\ \/ /\ Due
        /\ ws' = [ws EXCEPT !.started = TRUE]
        /\ erased' = erased \cup members
        /\ Goto(r, "files")
        /\ UNCHANGED held
     \/ ~Due /\ Stops(r) /\ UNCHANGED <<ws, erased>>
  /\ UNCHANGED <<members, joining, staffRows, files, job, faults>>

\* DeleteTenantObjects: delete what is listed until nothing is.
Deletes(r) ==
  /\ At(r, "files")
  /\ files # {}
  /\ files' = {}
  /\ UNCHANGED <<table, job, pc, held, faults>>

FindsNone(r) ==
  /\ At(r, "files")
  /\ files = {}
  /\ Goto(r, "rows")
  /\ UNCHANGED <<table, files, job, held, faults>>

\* Mutant: the staff row is written whether or not the tenant is still there.
Purges_Unchecked(r) ==
  /\ At(r, "rows")
  /\ ws' = Gone /\ members' = {} /\ job' = "none" /\ staffRows' = staffRows + 1
  /\ Stops(r)
  /\ UNCHANGED <<joining, erased, files, faults>>

\* purgeRows: the staff row and purge_tenant, which removes the tenant, its
\* members and its River jobs, or nothing.
Purges(r) ==
  /\ At(r, "rows")
  /\ \/ /\ Due
        /\ ws' = Gone /\ members' = {} /\ job' = "none" /\ staffRows' = staffRows + 1
     \/ ~Due /\ UNCHANGED <<ws, members, job, staffRows>>
  /\ Stops(r)
  /\ UNCHANGED <<joining, erased, files, faults>>

Run(r) == TriesLock(r) \/ Erases(r) \/ Deletes(r) \/ FindsNone(r) \/ Purges(r)

------------------------------------------------------------------------------
(***************************************************************************)
(* Faults                                                                  *)
(***************************************************************************)

Fault == faults < MaxFaults /\ faults' = faults + 1

\* A step fails and its transaction rolls back, or the process dies and with
\* it the session that holds the lock. The job has one attempt.
RunFails(r) ==
  /\ Fault
  /\ ~At(r, "idle")
  /\ Stops(r)
  /\ UNCHANGED <<table, files, job>>

\* The connection that holds the advisory lock drops and the run goes on.
LockLost(r) ==
  /\ Fault
  /\ r \in held
  /\ held' = held \ {r}
  /\ UNCHANGED <<table, files, job, pc>>

\* A page of an extraction job that is still running.
LatePage ==
  /\ Fault
  /\ files' = files \cup {"late"}
  /\ UNCHANGED <<table, job, pc, held>>

Next ==
  \/ Schedule \/ DuePasses \/ Cancel \/ StaffPurge \/ JobStarts \/ LatePage
  \/ \E m \in Members : JoinChecks(m) \/ JoinCommits(m) \/ Leave(m)
  \/ \E r \in Runs : Lists(r) \/ Run(r) \/ RunFails(r) \/ LockLost(r)

Spec == Init /\ [][Next]_vars

\* Some ticker keeps ticking, and a run that nothing stops goes on.
Fairness == /\ WF_vars(\E r \in Tickers : Lists(r))
            /\ \A r \in Runs : WF_vars(Run(r))

FairSpec == Spec /\ Fairness

------------------------------------------------------------------------------
(***************************************************************************)
(* Properties                                                              *)
(***************************************************************************)

\* The shape of the tables and of the runs, with the CHECK constraints of the
\* tenants row: it is due, or the purge is started, only when scheduled.
TypeOK ==
  /\ ws \in [exists: BOOLEAN, scheduled: BOOLEAN, overdue: BOOLEAN, started: BOOLEAN]
  /\ ws.overdue \/ ws.started => ws.scheduled
  /\ ws.scheduled => ws.exists
  /\ members \subseteq Members /\ joining \subseteq Members /\ erased \subseteq Members
  /\ files \subseteq Objects
  /\ job \in {"none", "available", "taken"}
  /\ pc \in [Runs -> {"idle", "lock", "erase", "files", "rows"}]
  /\ held \subseteq Runs
  /\ staffRows \in Nat /\ faults \in Nat

\* Nobody is erased and no stored file is deleted before the marker is set,
\* however late a run acts on its list and whatever was cancelled meanwhile.
UntouchedUntilStarted ==
  (ws.exists /\ ~ws.started) => (erased = {} /\ "stored" \in files)

\* A purge starts when the schedule in force is due, or by staff.
StartedWhenDue == ws.started => (ws.overdue \/ job # "none")

\* The workspace is purged once, and once only is it recorded, even when two
\* runs overlap after one lost its lock.
PurgedOnce == staffRows = IF ws.exists THEN 0 ELSE 1

\* The rows go last: every member has an erasure queued, and no file stored
\* before the purge is left, though runs fail and start again in between.
LeavesNothing ==
  [][(ws.exists /\ ~ws'.exists) => (members \subseteq erased /\ "stored" \notin files)]_vars

\* A due or started purge ends, unless it is cancelled while it may be: the
\* ticker takes up what a failed run or the job's only attempt left.
DueIsPurged == Due ~> (~ws.exists \/ ~ws.scheduled)

\* workspace_deletion_test.go: "ALockedWorkspaceTakesNoNewMember".
LockedTakesNoMember == [][ws.scheduled => members' \subseteq members]_vars

fate == CASE ~ws.exists                  -> "gone"
          [] ws.exists /\ ~ws.scheduled -> "open"
          [] ws.scheduled /\ ws.started -> "purging"
          [] OTHER                       -> "scheduled"

Fate == INSTANCE WorkspaceFate WITH fate <- fate

\* The deletion implements the fate it promises: no cancel once the purge has
\* started, no purge of a workspace that is not scheduled.
ImplementsFate == Fate!Spec

==============================================================================
