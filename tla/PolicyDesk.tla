----------------------------- MODULE PolicyDesk -----------------------------
(***************************************************************************)
(* The approval policies of the workspace in the browser: the list, and    *)
(* the builder of one of them. The application keeps a copy of the list;   *)
(* the builder is seeded from it when it opens and keeps two policies of   *)
(* its own, the one that is edited and the one the service last answered.  *)
(* A save carries the whole edited policy. A publish carries nothing: it   *)
(* seals the draft the service holds.                                      *)
(*                                                                         *)
(* What a policy says is the set of edits one can see in it.               *)
(***************************************************************************)
EXTENDS Naturals, FiniteSets

CONSTANTS
  MaxEdits,  \* bound: edits made in a builder
  MaxSends,  \* bound: requests sent
  MaxMounts  \* bound: times a builder is opened

VARIABLES
  rows,    \* the policies as stored
  copy,    \* the application's copy of them
  force,   \* the last good answer to "what is in force", or Unknown
  read,    \* the newest read of either; an older one's answer is dropped
  out,     \* requests that were sent and not answered
  builder, \* the policy open, [p, seat, working, server, dirty], or Closed
  saved,   \* edits whose save was reported, by policy
  sealed,  \* edits whose publication was reported, by policy
  crossed, \* policies on which requests were out that know nothing of each other
  edits, sends, mounts \* counters

policy == <<rows, copy, force, read, out, builder, saved, sealed, crossed, edits, sends, mounts>>

PolicyAssumption == MaxEdits \in Nat /\ MaxSends \in Nat /\ MaxMounts \in Nat

Policies == 1..2 \* the second one is created on the way
Content == SUBSET (1..MaxEdits)
\* status "published" says that no draft lies over the version in force.
Row == [there: BOOLEAN, draft: Content, active: Content, status: {"draft", "published"}]
NoRow == [there |-> FALSE, draft |-> {}, active |-> {}, status |-> "draft"]
List == [Policies -> Row]

InForce(rs) == [p \in Policies |-> IF rs[p].there THEN rs[p].active ELSE {}]
Unknown == [p \in Policies |-> {0}]

Closed == [p |-> 0, seat |-> 0, working |-> {}, server |-> NoRow, dirty |-> FALSE]

Requests ==
  [k: {"save", "publish", "create", "delete", "reorder"}, p: 0..2, seat: 0..MaxMounts,
   body: Content, st: {"asked", "served"}, got: List]

Reads == {"policies", "force"}
Idle == [st |-> "idle", got |-> [p \in Policies |-> NoRow]]
Asked == [Idle EXCEPT !.st = "asked"]
Reading == read["policies"].st \in {"asked", "served"}

TypeOK ==
  /\ rows \in List /\ copy \in List
  /\ force = Unknown \/ force \in [Policies -> Content]
  /\ \A l \in Reads : read[l].st \in {"idle", "asked", "served", "failed"} /\ read[l].got \in List
  /\ out \subseteq Requests
  /\ builder.working \in Content /\ builder.server \in Row /\ builder.seat \in 0..MaxMounts
  /\ saved \in [Policies -> Content] /\ sealed \in [Policies -> Content]
  /\ crossed \subseteq Policies

Init ==
  /\ rows = [p \in Policies |-> [NoRow EXCEPT !.there = (p = 1)]]
  /\ copy = [p \in Policies |-> NoRow]
  /\ force = Unknown
  /\ read = [l \in Reads |-> Asked]
  /\ out = {} /\ builder = Closed /\ crossed = {}
  /\ saved = [p \in Policies |-> {}] /\ sealed = [p \in Policies |-> {}]
  /\ edits = 0 /\ sends = 0 /\ mounts = 0

------------------------------------------------------------------------------
(* Reads. *)

ReadServed(l) ==
  /\ read[l].st = "asked"
  /\ read' = [read EXCEPT ![l] = [st |-> "served", got |-> rows]]
  /\ UNCHANGED <<rows, copy, force, out, builder, saved, sealed, crossed, edits, sends, mounts>>

\* The builder is shown while its policy is in the copy.
Kept(list) == IF builder # Closed /\ ~list[builder.p].there THEN Closed ELSE builder

ReadLands(l) ==
  /\ read[l].st = "served"
  /\ read' = [read EXCEPT ![l] = Idle]
  /\ IF l = "policies"
     THEN copy' = read[l].got /\ builder' = Kept(read[l].got) /\ UNCHANGED force
     ELSE force' = InForce(read[l].got) /\ UNCHANGED <<copy, builder>>
  /\ UNCHANGED <<rows, out, saved, sealed, crossed, edits, sends, mounts>>

\* A failed read keeps the list, and makes what is in force unknown.
ReadFails(l) ==
  /\ read[l].st \in {"asked", "served"}
  /\ read' = [read EXCEPT ![l] = [Idle EXCEPT !.st = "failed"]]
  /\ force' = IF l = "force" THEN Unknown ELSE force
  /\ UNCHANGED <<rows, copy, out, builder, saved, sealed, crossed, edits, sends, mounts>>

\* A read that starts meets every write that is out.
Runs(ls, rest) ==
  /\ read' = [l \in Reads |-> IF l \in ls THEN Asked ELSE read[l]]
  /\ crossed' = IF "policies" \in ls THEN crossed \cup ({r.p : r \in rest} \ {0}) ELSE crossed

Retry(l) ==
  /\ read[l].st = "failed" /\ (l = "policies" => builder = Closed)
  /\ Runs({l}, out)
  /\ UNCHANGED <<rows, copy, force, out, builder, saved, sealed, edits, sends, mounts>>

------------------------------------------------------------------------------
(* The builder. *)

Seeded(p, list) ==
  [p |-> p, seat |-> mounts + 1, working |-> list[p].draft, server |-> list[p], dirty |-> FALSE]

\* The rows of the list are there while its read is good, and no builder is open.
Listed == builder = Closed /\ read["policies"].st = "idle"

Open(p) ==
  /\ Listed /\ copy[p].there /\ mounts < MaxMounts
  /\ builder' = Seeded(p, copy) /\ mounts' = mounts + 1
  /\ crossed' = IF \E r \in out : r.p = p THEN crossed \cup {p} ELSE crossed
  /\ UNCHANGED <<rows, copy, force, read, out, saved, sealed, edits, sends>>

\* Leaving is possible at any time; what is not saved is gone.
Close ==
  /\ builder # Closed /\ builder' = Closed
  /\ UNCHANGED <<rows, copy, force, read, out, saved, sealed, crossed, edits, sends, mounts>>

\* Either verb locks the canvas, the inspector and both buttons.
Submitting == \E r \in out : r.k \in {"save", "publish"} /\ r.seat = builder.seat

Edit ==
  /\ builder # Closed /\ ~Submitting /\ edits < MaxEdits
  /\ edits' = edits + 1
  /\ builder' = [builder EXCEPT !.working = @ \cup {edits + 1}, !.dirty = TRUE]
  /\ UNCHANGED <<rows, copy, force, read, out, saved, sealed, crossed, sends, mounts>>

\* Plausible bug, for the mutant.
Blocked_Sealed == builder.server.status = "published"

\* publishBlockedReason: only a saved draft that is not sealed yet.
Blocked == builder.dirty \/ builder.server.status = "published"

Asks(k, p, seat, body) ==
  /\ sends < MaxSends /\ sends' = sends + 1
  /\ out' = out \cup {[k |-> k, p |-> p, seat |-> seat, body |-> body, st |-> "asked", got |-> Idle.got]}
  /\ crossed' = crossed \cup
       (IF k = "reorder" THEN {r.p : r \in out} \ {0}
        ELSE IF Reading \/ \E r \in out : r.p = p \/ r.k = "reorder" THEN {p} ELSE {})
  /\ UNCHANGED <<rows, copy, force, read, builder, saved, sealed, edits, mounts>>

Save ==
  /\ builder # Closed /\ ~Submitting
  /\ Asks("save", builder.p, builder.seat, builder.working)

Publish ==
  /\ builder # Closed /\ ~Submitting /\ ~Blocked
  /\ Asks("publish", builder.p, builder.seat, builder.working)

------------------------------------------------------------------------------
(* The list. *)

Create == builder = Closed /\ ~rows[2].there /\ Asks("create", 2, 0, {})
Delete(p) == Listed /\ copy[p].there /\ Asks("delete", p, 0, {})

\* One at a time, as long as the list stays on the screen.
Reorder ==
  /\ Listed /\ \A r \in out : r.k = "reorder" => r.seat # mounts
  /\ Asks("reorder", 0, mounts, {})

------------------------------------------------------------------------------
(* What the service does, and its answers. *)

Stored(r) ==
  CASE r.k = "save"    -> [rows EXCEPT ![r.p].draft = r.body, ![r.p].status = "draft"]
    [] r.k = "publish" -> [rows EXCEPT ![r.p].active = rows[r.p].draft, ![r.p].status = "published"]
    [] r.k = "create"  -> [rows EXCEPT ![2] = [NoRow EXCEPT !.there = TRUE]]
    [] r.k = "delete"  -> [rows EXCEPT ![r.p] = NoRow]
    [] OTHER           -> rows

Serve(r) ==
  /\ r.st = "asked"
  /\ r.k \in {"save", "publish", "delete"} => rows[r.p].there
  /\ r.k = "create" => ~rows[2].there
  /\ rows' = Stored(r)
  /\ out' = (out \ {r}) \cup {[r EXCEPT !.st = "served", !.got = rows']}
  /\ UNCHANGED <<copy, force, read, builder, saved, sealed, crossed, edits, sends, mounts>>

Here(r) == builder # Closed /\ r.seat = builder.seat

\* The stored row replaces the copy's, and both of the builder that sent it.
SaveAnswered(r) ==
  /\ copy' = IF copy[r.p].there THEN [copy EXCEPT ![r.p] = r.got[r.p]] ELSE copy
  /\ builder' = IF Here(r) THEN [builder EXCEPT !.working = r.got[r.p].draft, !.server = r.got[r.p],
                                                !.dirty = FALSE] ELSE builder
  /\ saved' = [saved EXCEPT ![r.p] = @ \cup r.body]
  /\ Runs({}, {}) /\ UNCHANGED <<sealed, mounts>>

\* A publication changes other policies too, so both lists are read again.
PublishRuns == {"policies", "force"}

PublishAnswered(r) ==
  /\ builder' = IF Here(r) THEN [builder EXCEPT !.working = r.got[r.p].draft, !.server = r.got[r.p]]
                ELSE builder
  /\ sealed' = [sealed EXCEPT ![r.p] = r.got[r.p].active]
  /\ Runs(PublishRuns, out \ {r}) /\ UNCHANGED <<copy, saved, mounts>>

\* A new policy is opened at once, whatever is on the screen by then.
CreateAnswered(r) ==
  /\ mounts < MaxMounts
  /\ copy' = [copy EXCEPT ![2] = r.got[2]]
  /\ builder' = Seeded(2, copy') /\ mounts' = mounts + 1
  /\ Runs({"policies"}, out \ {r}) /\ UNCHANGED <<saved, sealed>>

DeleteAnswered(r) ==
  /\ copy' = [copy EXCEPT ![r.p] = NoRow] /\ builder' = Kept(copy')
  /\ saved' = [saved EXCEPT ![r.p] = {}] /\ sealed' = [sealed EXCEPT ![r.p] = {}]
  /\ Runs({"policies", "force"}, out \ {r}) /\ UNCHANGED mounts

ReorderAnswered(r) ==
  /\ copy' = r.got /\ builder' = Kept(copy')
  /\ Runs({}, {}) /\ UNCHANGED <<saved, sealed, mounts>>

Answer(r) ==
  /\ r.st = "served" /\ out' = out \ {r}
  /\ \/ r.k = "save" /\ SaveAnswered(r)
     \/ r.k = "publish" /\ PublishAnswered(r)
     \/ r.k = "create" /\ CreateAnswered(r)
     \/ r.k = "delete" /\ DeleteAnswered(r)
     \/ r.k = "reorder" /\ ReorderAnswered(r)
  /\ UNCHANGED <<rows, force, edits, sends>>

\* Refused, or the answer is lost: only a reordering reads the list again. A
\* lost answer leaves the copy behind what is stored.
Fails(r) ==
  /\ out' = out \ {r}
  /\ read' = [read EXCEPT !["policies"] = IF r.k = "reorder" THEN Asked ELSE @]
  /\ crossed' = crossed \cup (IF r.st = "served" THEN {r.p} \ {0} ELSE {})
                        \cup (IF r.k = "reorder" THEN {q.p : q \in out} \ {0} ELSE {})
  /\ UNCHANGED <<rows, copy, force, builder, saved, sealed, edits, sends, mounts>>

------------------------------------------------------------------------------
Next ==
  \/ \E l \in Reads : ReadServed(l) \/ ReadLands(l) \/ ReadFails(l) \/ Retry(l)
  \/ \E p \in Policies : Open(p) \/ Delete(p)
  \/ Close \/ Edit \/ Save \/ Publish \/ Create \/ Reorder
  \/ \E r \in out : Serve(r) \/ Answer(r) \/ Fails(r)

Spec == Init /\ [][Next]_policy

------------------------------------------------------------------------------
Quiet(p) == p \notin crossed /\ \A r \in out : r.p # p

\* Once nothing is out, the list shows the policies as they are stored, and
\* what is said to be in force includes every publication that was reported.
SettledIsServed ==
  \A p \in Policies : Quiet(p) =>
    /\ (read["policies"].st = "idle" /\ \A r \in out : r.k # "reorder") => copy[p] = rows[p]
    /\ (read["force"].st = "idle" /\ force # Unknown) => sealed[p] \subseteq force[p]

\* A save that was reported is not undone by a later one, although each
\* carries the whole policy.
NothingUndone == \A p \in Policies \ crossed : rows[p].there => saved[p] \subseteq rows[p].draft

\* Publish seals what the builder showed when it was pressed: it is offered
\* for a saved draft only, and the save it relies on was answered (the
\* exception: a save of an earlier mount whose end nobody saw).
PublishesWhatIsShown ==
  \A r \in out' \ out :
     (r.k = "publish" /\ r.st = "served" /\ r.p \notin crossed)
       => rows'[r.p].active = r.body

==============================================================================
