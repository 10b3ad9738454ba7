------------------------------ MODULE TeamDesk ------------------------------
(***************************************************************************)
(* The team screens of the workspace: people, workflow roles, invitations. *)
(* The application keeps a copy of each list. A write answers with the row *)
(* as it is now stored and the answer is put into the copy; some writes    *)
(* make a list be read again, and what is read replaces the copy. Writes   *)
(* of a role's holders and of a member's clients carry the whole set, made *)
(* up from the copy: what the copy lacks, the write takes away.            *)
(*                                                                         *)
(* What a list holds is the set of this browser's writes one can see in    *)
(* it. Each list has one row, so that all its writes meet.                 *)
(***************************************************************************)
EXTENDS Naturals, FiniteSets

CONSTANTS
  MaxWrites, \* bound: writes sent
  MaxSeats   \* bound: times a screen or a dialog is opened

VARIABLES
  stored,  \* what the service holds of each list
  shown,   \* the copy of each list, Blank while there is none
  read,    \* the newest read of each list; an older one's answer is dropped
  out,     \* the writes that were sent and not answered
  tab,     \* the mount of the screen shown, [name, seat]
  dialog,  \* the dialog over it, [name, seat, seed]
  told,    \* the writes whose success was reported to the user
  crossed, \* lists on which two requests were out that know nothing of each other
  writes, seats \* counters

team == <<stored, shown, read, out, tab, dialog, told, crossed, writes, seats>>

TeamAssumption == MaxWrites \in Nat /\ MaxSeats \in Nat \ {0}

Lists == {"members", "roles", "invites"}
Changes ==
  [members |-> {"status", "access", "demote", "clients", "remove"},
   roles   |-> {"toggle", "rename", "staff", "create", "fill", "delete", "remove"},
   invites |-> {"send", "resend", "revoke"}]
Verbs == UNION {Changes[l] : l \in Lists}
On(v) == {l \in Lists : v \in Changes[l]}

\* Plausible bug, for the mutant.
Rereads_None(v) == {}

\* A removal takes the person's grants along, so the roles are read again;
\* every other answer is put into the copy.
Rereads(v) == IF v = "remove" THEN {"roles"} ELSE {}

\* After a failure: a role that was created and not staffed has to be found,
\* and a refused invitation shows that the lists are out of date.
RereadsOnFailure(v, refused) ==
  CASE v \in {"create", "fill"}     -> {"roles"}
    [] v = "resend" /\ refused      -> {"invites", "members"}
    [] v = "revoke" /\ refused      -> {"members"}
    [] OTHER                        -> {}

\* The writes that carry a whole set, and the set they replace. A role that was
\* just created has no holders yet: to fill it replaces nothing.
Field(v) == IF v \in {"toggle", "staff", "fill"} THEN "holders" ELSE v
Whole(v) == v \in {"toggle", "staff", "clients"}

Writes == [id: 1..MaxWrites, v: Verbs]
Blank == {[id |-> 0, v |-> "blank"]}
Copies == (SUBSET Writes) \cup {Blank}

\* The flag a control waits on while its write is out. Suspending,
\* reactivating and removing have none.
Lock(v) ==
  CASE v = "toggle"               -> "rolePending"
    [] v = "clients"              -> "clientsPending"
    [] v \in {"access", "demote"} -> "accessPending"
    [] v \in {"rename", "staff", "create", "fill", "delete"} -> "submitting"
    [] v = "send"                 -> "sending"
    [] v \in {"resend", "revoke"} -> "busy"
    [] OTHER                      -> "none"

Requests == [w: Writes, seat: 1..MaxSeats, body: Copies, then: {"none", "staff", "fill"},
             st: {"asked", "served", "refused"}, got: Copies]

Idle == [st |-> "idle", got |-> Blank]
Asked == [st |-> "asked", got |-> Blank]
Reading(l) == read[l].st \in {"asked", "served"}

NoDialog == [name |-> "none", seat |-> 0, seed |-> Blank]
Modal == {"role", "newRole", "invite"}

\* Only an administrator's controls are enabled; the copy says who is one.
Admin(sh) == sh["members"] # Blank /\ \A w \in sh["members"] : w.v # "demote"

TypeOK ==
  /\ stored \in [Lists -> SUBSET Writes]
  /\ shown \in [Lists -> Copies]
  /\ \A l \in Lists : read[l].st \in {"idle", "asked", "served", "failed"} /\ read[l].got \in Copies
  /\ out \subseteq Requests
  /\ told \subseteq Writes
  /\ crossed \subseteq Lists
  /\ dialog.seat <= seats /\ tab.seat <= seats

Init ==
  /\ stored = [l \in Lists |-> {}]
  /\ shown = [l \in Lists |-> Blank]
  /\ read = [l \in Lists |-> IF l = "invites" THEN Idle ELSE Asked]
  /\ out = {} /\ told = {} /\ crossed = {} /\ writes = 0
  /\ tab = [name |-> "members", seat |-> 1] /\ dialog = NoDialog /\ seats = 1

------------------------------------------------------------------------------
(* Reads. *)

\* The lists of ls that some request of rs changes.
Met(ls, rs) == {l \in ls : \E r \in rs : l \in On(r.w.v)}

\* The copies and the reads move together: who becomes an administrator on
\* the members' screen asks for the invitations, who stops being one drops them.
Moves(sh, rd) ==
  /\ shown' = sh
  /\ read' = IF Admin(sh) = Admin(shown) \/ tab.name # "members" THEN rd
             ELSE [rd EXCEPT !["invites"] = IF Admin(sh) THEN Asked ELSE Idle]
  /\ crossed' = crossed \cup
       Met({l \in Lists : read'[l].st = "asked" /\ read[l].st # "asked"}, out')

\* A read that starts empties the copy of the roles; the other two are kept.
Emptied(sh, ls) == [l \in Lists |-> IF l \in ls \cap {"roles"} THEN Blank ELSE sh[l]]
Started(rd, ls) == [l \in Lists |-> IF l \in ls THEN Asked ELSE rd[l]]

ReadServed(l) ==
  /\ read[l].st = "asked"
  /\ read' = [read EXCEPT ![l] = [st |-> "served", got |-> stored[l]]]
  /\ UNCHANGED <<stored, shown, out, tab, dialog, told, crossed, writes, seats>>

ReadLands(l) ==
  /\ read[l].st = "served"
  /\ UNCHANGED <<stored, out, tab, dialog, told, writes, seats>>
  /\ Moves([shown EXCEPT ![l] = read[l].got], [read EXCEPT ![l] = Idle])

\* A failed read leaves people and roles without rows, invitations as they were.
ReadFails(l) ==
  /\ Reading(l)
  /\ UNCHANGED <<stored, out, tab, dialog, told, writes, seats>>
  /\ Moves(IF l = "invites" THEN shown ELSE [shown EXCEPT ![l] = Blank],
           [read EXCEPT ![l] = [st |-> "failed", got |-> Blank]])

Retry(l) ==
  /\ read[l].st = "failed"
  /\ l = "invites" => tab.name = "members" /\ Admin(shown)
  /\ UNCHANGED <<stored, out, tab, dialog, told, writes, seats>>
  /\ Moves(Emptied(shown, {l}), Started(read, {l}))

------------------------------------------------------------------------------
(* Screens and dialogs. *)

Opens(name, seed) ==
  /\ dialog = NoDialog /\ seats < MaxSeats
  /\ seats' = seats + 1
  /\ dialog' = [name |-> name, seat |-> seats + 1, seed |-> seed]
  /\ UNCHANGED <<stored, shown, read, out, tab, told, writes>>

Landed == shown["members"] # Blank /\ shown["roles"] # Blank

OpenDrawer == tab.name = "members" /\ Landed /\ Opens("drawer", Blank) /\ UNCHANGED crossed

\* The role's dialog begins with the holders the copy has at that moment.
OpenRole ==
  /\ tab.name = "roles" /\ Landed /\ Admin(shown)
  /\ \/ Opens("role", shown["roles"])
     \/ Opens("newRole", {})
  /\ crossed' = crossed \cup Met({"roles"}, out)

OpenInvite ==
  /\ tab.name = "members" /\ Admin(shown)
  /\ shown["invites"] # Blank /\ read["invites"].st = "idle"
  /\ Opens("invite", Blank) /\ UNCHANGED crossed

\* A modal stays while its write is out; the drawer closes at any time.
Close ==
  /\ dialog # NoDialog
  /\ dialog.name \in Modal => \A r \in out : r.seat # dialog.seat
  /\ dialog' = NoDialog
  /\ UNCHANGED <<stored, shown, read, out, tab, told, crossed, writes, seats>>

\* The invitations live on the members' screen and are asked for when it opens.
SwitchTab ==
  /\ dialog.name \notin Modal /\ seats < MaxSeats
  /\ tab' = [name |-> IF tab.name = "members" THEN "roles" ELSE "members", seat |-> seats + 1]
  /\ seats' = seats + 1
  /\ dialog' = NoDialog
  /\ shown' = [shown EXCEPT !["invites"] = Blank]
  /\ read' = [read EXCEPT !["invites"] = IF tab'.name = "members" /\ Admin(shown) THEN Asked ELSE Idle]
  /\ crossed' = crossed \cup Met({"invites"}, out)
  /\ UNCHANGED <<stored, out, told, writes>>

------------------------------------------------------------------------------
(* Writes. *)

\* Where a write is begun: the row's menu and the drawer's danger zone, the
\* drawer's cards and clients, its role pills, the invitation's row, the dialogs.
OnRow     == tab.name = "members" /\ Landed /\ dialog.name \notin Modal
InDrawer  == dialog.name = "drawer"
OnPills   == dialog.name = "drawer" /\ shown["roles"] # Blank
OnInvite  == tab.name = "members" /\ dialog = NoDialog /\ shown["invites"] # Blank
InRole(v) == dialog.name = "role" /\ (v = "rename" => shown["roles"] # Blank)

Offered(v) ==
  CASE v \in {"status", "remove"}             -> OnRow
    [] v \in {"access", "demote", "clients"}  -> InDrawer
    [] v = "toggle"                           -> OnPills
    [] v \in {"resend", "revoke"}             -> OnInvite
    [] v \in {"rename", "staff", "delete"}    -> InRole(v)
    [] v = "send"                             -> dialog.name = "invite"
    [] v = "create"                           -> dialog.name = "newRole"
    [] OTHER                                  -> FALSE

\* The mount that holds the write's flag.
SeatOf(v) == IF v \in {"status", "remove", "resend", "revoke"} THEN tab.seat ELSE dialog.seat

SameLock(r, v, seat) == Lock(v) # "none" /\ Lock(r.w.v) = Lock(v) /\ r.seat = seat
Held(v) == \E r \in out : SameLock(r, v, SeatOf(v))

\* The set a write carries: of the copy now, or of the dialog when it opened.
Body(v) ==
  CASE v = "staff" -> dialog.seed
    [] v = "toggle"  -> shown["roles"]
    [] v = "clients" -> shown["members"]
    [] OTHER         -> {}

\* What may follow in the same click: a renamed role's holders, a new role's.
Then(v) == CASE v = "rename" -> {"none", "staff"} [] v = "create" -> {"none", "fill"} [] OTHER -> {"none"}

Sent(v, seat, then) ==
  [w |-> [id |-> writes + 1, v |-> v], seat |-> seat, body |-> Body(v), then |-> then,
   st |-> "asked", got |-> Blank]

Begin(v) ==
  /\ writes < MaxWrites
  /\ Offered(v) /\ Admin(shown) /\ ~Held(v)
  /\ \E t \in Then(v) : out' = out \cup {Sent(v, SeatOf(v), t)}
  /\ writes' = writes + 1
  /\ crossed' = crossed \cup Met(On(v), {r \in out : ~SameLock(r, v, SeatOf(v))})
                        \cup {l \in On(v) : Reading(l)}
  /\ UNCHANGED <<stored, shown, read, tab, dialog, told, seats>>

\* The service refuses who is no administrator any more, and holders one of
\* whom was removed.
Refuses(r) ==
  \/ \E w \in stored["members"] : w.v = "demote"
  \/ r.w.v \in {"toggle", "staff"} /\ {w \in stored["roles"] : w.v = "remove"} \ r.body # {}

Replaced(l, r) ==
  {w \in stored[l] : Whole(r.w.v) /\ Field(w.v) = Field(r.w.v)} \ r.body

Serve(r) ==
  /\ r.st = "asked" /\ ~Refuses(r)
  /\ stored' = [l \in Lists |-> IF l \in On(r.w.v) THEN (stored[l] \ Replaced(l, r)) \cup {r.w}
                                ELSE stored[l]]
  /\ out' = (out \ {r}) \cup
       {[r EXCEPT !.st = "served",
                  !.got = stored'[CHOOSE l \in Lists : l \in On(r.w.v) \ Rereads(r.w.v)]]}
  /\ UNCHANGED <<shown, read, tab, dialog, told, crossed, writes, seats>>

Refuse(r) ==
  /\ r.st = "asked"
  /\ out' = (out \ {r}) \cup {[r EXCEPT !.st = "refused"]}
  /\ UNCHANGED <<stored, shown, read, tab, dialog, told, crossed, writes, seats>>

\* The answered row replaces the copy's; an emptied copy has no row to
\* replace, but a new role or invitation is added to it. The invitations of a
\* screen that was left are not kept.
Patch(l, r) ==
  IF \/ l = "invites" /\ r.w.v # "send" /\ r.seat # tab.seat
     \/ shown[l] = Blank /\ r.w.v \notin {"create", "fill", "send", "resend"}
  THEN shown[l] ELSE r.got
Patched(r) ==
  [l \in Lists |-> IF l \in On(r.w.v) \ Rereads(r.w.v) THEN Patch(l, r) ELSE shown[l]]

\* An answer that ends the click closes the dialog it was given in.
DoneIn(r) ==
  IF \/ r.seat = dialog.seat /\ dialog.name \in Modal
     \/ r.w.v = "remove" /\ dialog.name = "drawer"
  THEN NoDialog ELSE dialog

\* The click is over: its writes are reported, and their lists read again.
Over(r, ls, sh) ==
  /\ out' = out \ {r}
  /\ Moves(Emptied(sh, ls), Started(read, ls))

Answer(r) ==
  /\ r.st = "served" /\ r.then = "none"
  /\ Over(r, Rereads(r.w.v), Patched(r))
  /\ told' = told \cup {r.w}
  /\ dialog' = DoneIn(r)
  /\ UNCHANGED <<stored, tab, writes, seats>>

\* The second half of a click: a rename is put into the copy first, a created
\* role is not.
GoesOn(r) ==
  /\ r.st = "served" /\ r.then # "none" /\ writes < MaxWrites
  /\ out' = (out \ {r}) \cup {Sent(r.then, r.seat, "none")}
  /\ shown' = IF r.w.v = "rename" THEN Patched(r) ELSE shown
  /\ writes' = writes + 1
  /\ UNCHANGED <<stored, read, tab, dialog, told, crossed, seats>>

\* Refused, or the answer is lost, whether or not the write was served.
Fails(r) ==
  /\ Over(r, RereadsOnFailure(r.w.v, r.st = "refused"), shown)
  /\ UNCHANGED <<stored, tab, dialog, told, writes, seats>>

------------------------------------------------------------------------------
User == OpenDrawer \/ OpenRole \/ OpenInvite \/ Close \/ SwitchTab
          \/ (\E l \in Lists : Retry(l)) \/ (\E v \in Verbs : Begin(v))
Network ==
  \/ \E l \in Lists : ReadServed(l) \/ ReadLands(l) \/ ReadFails(l)
  \/ \E r \in out : Serve(r) \/ Refuse(r) \/ Answer(r) \/ GoesOn(r) \/ Fails(r)
Next == User \/ Network
Spec == Init /\ [][Next]_team

------------------------------------------------------------------------------
Told(l) == {w \in told : w.v \in Changes[l]}

\* Once nothing is out, a list shows every change of it that was reported as
\* done, unless two of its requests were out that know nothing of each other:
\* then what was read first may land last (App.tsx, the copies and refetches).
SettledIsServed ==
  \A l \in Lists :
    (shown[l] # Blank /\ ~Reading(l) /\ Met({l}, out) = {} /\ l \notin crossed)
      => Told(l) \subseteq shown[l]

\* What was reported as done stays done: no later write of this desk takes it
\* back, although the writes of holders and clients carry whole sets that were
\* made up from the copy (MemberDrawer.tsx toggleWorkflowRole, RoleModal.tsx save).
NothingUndone == \A l \in Lists \ crossed : Told(l) \subseteq stored[l]

==============================================================================
