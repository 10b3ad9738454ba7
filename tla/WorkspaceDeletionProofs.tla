----------------------- MODULE WorkspaceDeletionProofs -----------------------
(***************************************************************************)
(* Theorems about WorkspaceDeletion, for any set of members, any set of    *)
(* tickers and any number of faults.                                       *)
(*                                                                         *)
(* What makes the properties inductive is what a run may rely on in the    *)
(* middle: from the files step on the marker is set unless the workspace   *)
(* is gone, the members it found all have an erasure queued, and from the  *)
(* rows step on no stored file is left.                                    *)
(***************************************************************************)
EXTENDS WorkspaceDeletion, TLAPS

\* A run past the erasures works on a started purge or finds nothing.
RunsAfterMarker ==
  \A r \in Runs : pc[r] \in {"files", "rows"} /\ ws.exists => ws.started

\* Without acceptances that overtake a schedule, the members a run leaves
\* behind all have an erasure queued.
MembersCovered ==
  ~Overtaking =>
    \A r \in Runs : pc[r] \in {"files", "rows"} /\ ws.exists => members \subseteq erased

\* Deleted files do not come back.
FilesCovered == \A r \in Runs : pc[r] = "rows" => "stored" \notin files

Inv ==
  /\ TypeOK
  /\ UntouchedUntilStarted
  /\ StartedWhenDue
  /\ PurgedOnce
  /\ RunsAfterMarker
  /\ MembersCovered
  /\ FilesCovered

------------------------------------------------------------------------------
\* Nothing is purged in the states the specification starts from.
LEMMA InitInv == Init => Inv
BY DEF Init, Inv, TypeOK, UntouchedUntilStarted, StartedWhenDue, PurgedOnce,
       RunsAfterMarker, MembersCovered, FilesCovered, Open, Objects, Runs

\* The schedule, its cancel and the start by staff.
LEMMA ScheduleSteps ==
  ASSUME Inv, Schedule \/ DuePasses \/ Cancel \/ StaffPurge
  PROVE  Inv'
<1> USE DEF Inv, TypeOK, UntouchedUntilStarted, StartedWhenDue, PurgedOnce,
            RunsAfterMarker, MembersCovered, FilesCovered
<1>1. CASE Schedule  BY <1>1 DEF Schedule
<1>2. CASE DuePasses BY <1>2 DEF DuePasses
<1>3. CASE Cancel    BY <1>3 DEF Cancel, Cancellable, Unscheduled
<1>4. CASE StaffPurge BY <1>4 DEF StaffPurge
<1> QED BY <1>1, <1>2, <1>3, <1>4

\* Members come and go.
LEMMA MemberSteps ==
  ASSUME Inv, NEW m \in Members, JoinChecks(m) \/ JoinCommits(m) \/ Leave(m)
  PROVE  Inv'
<1> USE DEF Inv, TypeOK, UntouchedUntilStarted, StartedWhenDue, PurgedOnce,
            RunsAfterMarker, MembersCovered, FilesCovered
<1>1. CASE JoinChecks(m)  BY <1>1 DEF JoinChecks
<1>2. CASE JoinCommits(m) BY <1>2 DEF JoinCommits
<1>3. CASE Leave(m)       BY <1>3 DEF Leave
<1> QED BY <1>1, <1>2, <1>3

\* A run starts, or stops for whatever reason.
LEMMA StartStopSteps ==
  ASSUME Inv, NEW r \in Runs,
         Lists(r) \/ JobStarts \/ TriesLock(r) \/ RunFails(r) \/ LockLost(r)
  PROVE  Inv'
<1> USE DEF Inv, TypeOK, UntouchedUntilStarted, StartedWhenDue, PurgedOnce,
            RunsAfterMarker, MembersCovered, FilesCovered, table, At, Goto, Stops, Fault
<1>1. CASE Lists(r)     BY <1>1 DEF Lists
<1>2. CASE JobStarts    BY <1>2 DEF JobStarts, Runs
<1>3. CASE TriesLock(r) BY <1>3 DEF TriesLock
<1>4. CASE RunFails(r)  BY <1>4 DEF RunFails
<1>5. CASE LockLost(r)  BY <1>5 DEF LockLost
<1> QED BY <1>1, <1>2, <1>3, <1>4, <1>5

\* The row after the purge is unscheduled as well as gone.
LEMMA PurgedRow ==
  /\ Gone \in [exists: BOOLEAN, scheduled: BOOLEAN, overdue: BOOLEAN, started: BOOLEAN]
  /\ ~Gone.exists /\ ~Gone.scheduled /\ ~Gone.overdue /\ ~Gone.started
BY DEF Gone, Open

\* The three steps of a purge, and a page written under it.
LEMMA PurgeSteps ==
  ASSUME Inv, NEW r \in Runs,
         Erases(r) \/ Deletes(r) \/ FindsNone(r) \/ Purges(r) \/ LatePage
  PROVE  Inv'
<1> USE DEF Inv, TypeOK, UntouchedUntilStarted, StartedWhenDue, PurgedOnce,
            RunsAfterMarker, MembersCovered, FilesCovered, table, At, Goto, Stops, Fault
<1>1. CASE Erases(r)    BY <1>1 DEF Erases, Due
<1>2. CASE Deletes(r)   BY <1>2 DEF Deletes
<1>3. CASE FindsNone(r) BY <1>3 DEF FindsNone
<1>4. CASE Purges(r)
  <2>2. CASE Due /\ ws' = Gone /\ members' = {} /\ job' = "none" /\ staffRows' = staffRows + 1
    <3>1. ws.exists /\ staffRows' = 1
      BY <2>2 DEF Due
    <3> QED BY <1>4, <2>2, <3>1, PurgedRow DEF Purges
  <2>3. CASE UNCHANGED <<ws, members, job, staffRows>>
    BY <1>4, <2>3 DEF Purges
  <2> QED BY <1>4, <2>2, <2>3 DEF Purges
<1>5. CASE LatePage     BY <1>5 DEF LatePage, Objects
<1> QED BY <1>1, <1>2, <1>3, <1>4, <1>5

\* Every step of the deletion preserves the invariant.
LEMMA Invariant == Spec => []Inv
<1>1. Inv /\ [Next]_vars => Inv'
  <2> SUFFICES ASSUME Inv, [Next]_vars PROVE Inv'
    OBVIOUS
  <2>1. CASE UNCHANGED vars
    BY <2>1 DEF vars, Inv, TypeOK, UntouchedUntilStarted, StartedWhenDue, PurgedOnce,
                RunsAfterMarker, MembersCovered, FilesCovered
  <2>2. CASE Next
    BY <2>2, ScheduleSteps, MemberSteps, StartStopSteps, PurgeSteps DEF Next, Run, Runs
  <2> QED BY <2>1, <2>2
<1> QED BY <1>1, InitInv, PTL DEF Spec

------------------------------------------------------------------------------
\* The tenants row and the runs keep their shape: it is due, or its purge is
\* started, only when it is scheduled.
THEOREM TypeCorrect == Spec => []TypeOK
BY Invariant, PTL DEF Inv

\* Nobody is erased and no stored file is deleted before the marker, however
\* stale the list a run acts on.
THEOREM Untouched == Spec => []UntouchedUntilStarted
BY Invariant, PTL DEF Inv

\* Only a due schedule or staff start a purge.
THEOREM StartsWhenDue == Spec => []StartedWhenDue
BY Invariant, PTL DEF Inv

\* Overlapping runs purge, and record the purge, once.
THEOREM Once == Spec => []PurgedOnce
BY Invariant, PTL DEF Inv

\* With no acceptance that overtakes a schedule, the rows go last: the members
\* have an erasure queued and the stored files are gone.
THEOREM NothingLeft == ~Overtaking => (Spec => LeavesNothing)
<1> DEFINE Last == (ws.exists /\ ~ws'.exists) => (members \subseteq erased /\ "stored" \notin files)
<1>1. ASSUME ~Overtaking, Inv, [Next]_vars
      PROVE  [Last]_vars
  <2> SUFFICES ASSUME ws.exists, ~ws'.exists
               PROVE  members \subseteq erased /\ "stored" \notin files
    OBVIOUS
  <2>1. PICK r \in Runs : Purges(r)
    <3>1. ws' # ws
      OBVIOUS
    <3>2. ~(Schedule \/ DuePasses \/ Cancel \/ StaffPurge \/ JobStarts \/ LatePage)
      BY <1>1 DEF Schedule, DuePasses, Cancel, Unscheduled, StaffPurge, JobStarts, LatePage,
                  table, Inv, TypeOK
    <3>3. \A m \in Members : ~(JoinChecks(m) \/ JoinCommits(m) \/ Leave(m))
      BY <3>1 DEF JoinChecks, JoinCommits, Leave
    <3>4. \A r \in Runs : ~(Lists(r) \/ TriesLock(r) \/ Deletes(r) \/ FindsNone(r)
                            \/ RunFails(r) \/ LockLost(r))
      BY <3>1 DEF Lists, TriesLock, Deletes, FindsNone, RunFails, LockLost, table
    <3>5. \A r \in Runs : ~Erases(r)
      BY <1>1 DEF Erases, Inv, TypeOK
    <3> QED BY <1>1, <3>1, <3>2, <3>3, <3>4, <3>5 DEF Next, Run, vars
  <2>2. pc[r] = "rows"
    BY <2>1 DEF Purges, At
  <2> QED BY <1>1, <2>2 DEF Inv, MembersCovered, FilesCovered
<1>2. CASE Overtaking
  BY <1>2
<1>3. CASE ~Overtaking
  <2>1. Inv /\ [Next]_vars => [Last]_vars
    BY <1>1, <1>3
  <2> QED BY <2>1, <1>3, Invariant, PTL DEF Spec, LeavesNothing
<1> QED BY <1>2, <1>3

\* The deletion of a workspace is announced, can be called off until the purge
\* starts and not after, and ends in a purge or not at all.
THEOREM FateKept == Spec => ImplementsFate
<1>1. Init => Fate!Init
  BY DEF Init, Fate!Init, fate, Open
<1>2. Inv /\ [Next]_vars => [Fate!Next]_fate
  <2> SUFFICES ASSUME Inv, [Next]_vars
               PROVE  [Fate!Next]_fate
    OBVIOUS
  <2> USE DEF fate
  <2>1. CASE ws' = ws
    BY <2>1
  <2>2. CASE Schedule
    BY <2>2 DEF Schedule, Inv, TypeOK, Fate!Next, Fate!Schedule, Fate!Becomes
  <2>3. CASE DuePasses
    BY <2>3 DEF DuePasses, Inv, TypeOK
  <2>4. CASE Cancel
    BY <2>4 DEF Cancel, Cancellable, Unscheduled, Inv, TypeOK, Fate!Next, Fate!Cancel,
                Fate!Becomes
  <2>5. CASE StaffPurge
    BY <2>5 DEF StaffPurge, Inv, TypeOK, Fate!Next, Fate!Start, Fate!Becomes
  <2>6. ASSUME NEW r \in Runs, Erases(r)
        PROVE  [Fate!Next]_fate
    BY <2>1, <2>6 DEF Erases, Due, Inv, TypeOK, Fate!Next, Fate!Start, Fate!Becomes
  <2>7. ASSUME NEW r \in Runs, Purges(r)
        PROVE  [Fate!Next]_fate
    <3>1. CASE Due /\ ws' = Gone
      <4>1. ws.started
        BY <2>7, <3>1 DEF Purges, At, Due, Inv, RunsAfterMarker
      <4> QED BY <3>1, <4>1, PurgedRow DEF Due, Inv, TypeOK, Fate!Next, Fate!Finish,
                                           Fate!Becomes
    <3> QED BY <2>1, <2>7, <3>1 DEF Purges
  <2>8. CASE UNCHANGED vars
    BY <2>1, <2>8 DEF vars
  <2>9. CASE Next
    BY <2>1, <2>2, <2>3, <2>4, <2>5, <2>6, <2>7, <2>9
       DEF Next, Run, JobStarts, LatePage, JoinChecks, JoinCommits, Leave, Lists, TriesLock,
           Deletes, FindsNone, RunFails, LockLost, table
  <2> QED BY <2>8, <2>9
<1> QED BY <1>1, <1>2, Invariant, PTL DEF Spec, ImplementsFate, Fate!Spec
==============================================================================
