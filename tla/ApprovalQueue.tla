---------------------------- MODULE ApprovalQueue ----------------------------
(***************************************************************************)
(* The invoices that wait for the user's approval                          *)
(* (frontend/app/src/components/ApprovalsView.tsx, lib/approvals.ts): one  *)
(* page, the rows that are ticked, and the two-click approval that sends   *)
(* one decision after the other. Other approvers decide the same invoices. *)
(* A screen that is left in the middle sends nothing more; the decision    *)
(* that is out settles all the same.                                       *)
(***************************************************************************)
EXTENDS Naturals, FiniteSets, Sequences

CONSTANTS
  Mine,     \* invoices the user may approve
  Refused,  \* invoices the user created: listed, and reported without being sent
  MaxLoads  \* bound: times the page is asked for

QueueAssumption == Mine # {} /\ Mine \cap Refused = {} /\ IsFiniteSet(Mine) /\ MaxLoads \in Nat \ {0}

VARIABLES
  waiting,  \* invoices whose run waits for the user's step
  stored,   \* history: decisions of this user, by invoice
  list,     \* useAsync's run
  loads,    \* times the page was asked for
  selected, phase,
  todo,     \* the ids the run has still to send, in the order of the page
  wire,     \* the decisions out, [id, seat, st]; a seat is one stay on the screen
  report,   \* the outcomes of the run so far
  results,  \* the panel
  armedFor, \* history: what the open prompt counted when it was armed
  seat

queue == <<waiting, stored, list, loads, selected, phase, todo, wire, report, results, armedFor, seat>>

Invoices == Mine \cup Refused
Steps == {"idle", "armed", "submitting"}
Outcome == [id: Invoices, ok: BOOLEAN]

Loading == [st |-> "loading", rows |-> {}]

------------------------------------------------------------------------------
\* The rows are those of a page that is loaded, and none otherwise.
Rows == IF list.st = "ready" THEN list.rows ELSE {}

\* Every row can be ticked; those the user created are reported, not sent.
Approvable(ids) == ids \cap Mine
ToSend == Approvable(selected \cap Rows)
CanApprove == ToSend # {} /\ list.st = "ready" /\ phase # "submitting"

Disarmed == IF phase = "submitting" THEN phase ELSE "idle"

\* Other rows prune the selection and disarm the prompt.
Shows(l) ==
  /\ list' = l
  /\ selected' = IF l.st = "ready" THEN selected \cap l.rows ELSE {}
  /\ phase' = Disarmed /\ armedFor' = IF phase = "submitting" THEN armedFor ELSE {}

Orders(ids) == {s \in [1..Cardinality(ids) -> ids] : {s[k] : k \in DOMAIN s} = ids}

Init ==
  /\ waiting = Invoices /\ stored = [i \in Invoices |-> 0]
  /\ list = Loading /\ loads = 1 /\ selected = {} /\ phase = "idle" /\ armedFor = {}
  /\ todo = <<>> /\ wire = {} /\ report = {} /\ results = {} /\ seat = 1

OthersDecide(i) ==
  /\ i \in waiting /\ waiting' = waiting \ {i}
  /\ UNCHANGED <<stored, list, loads, selected, phase, todo, wire, report, results, armedFor, seat>>

------------------------------------------------------------------------------
(* The page. *)

Serve ==
  /\ list.st = "loading" /\ list' = [st |-> "served", rows |-> waiting]
  /\ UNCHANGED <<waiting, stored, loads, selected, phase, todo, wire, report, results, armedFor, seat>>

Lands ==
  /\ list.st = "served" /\ Shows([list EXCEPT !.st = "ready"])
  /\ UNCHANGED <<waiting, stored, loads, todo, wire, report, results, seat>>

LoadFails ==
  /\ list.st \in {"loading", "served"} /\ Shows([st |-> "error", rows |-> {}])
  /\ UNCHANGED <<waiting, stored, loads, todo, wire, report, results, seat>>

Retry ==
  /\ list.st = "error" /\ loads < MaxLoads /\ loads' = loads + 1 /\ Shows(Loading)
  /\ UNCHANGED <<waiting, stored, todo, wire, report, results, seat>>

\* The pager waits for the page and for the run.
Turn ==
  /\ list.st = "ready" /\ phase # "submitting" /\ loads < MaxLoads
  /\ loads' = loads + 1 /\ Shows(Loading)
  /\ UNCHANGED <<waiting, stored, todo, wire, report, results, seat>>

------------------------------------------------------------------------------
(* Selection. *)

Ticks(s) ==
  /\ list.st = "ready" /\ selected' = s
  /\ phase' = Disarmed /\ armedFor' = IF phase = "submitting" THEN armedFor ELSE {}
  /\ UNCHANGED <<waiting, stored, list, loads, todo, wire, report, results, seat>>

Toggle(i) == i \in Rows /\ Ticks(IF i \in selected THEN selected \ {i} ELSE selected \cup {i})
ToggleAll == Rows # {} /\ Ticks(IF Rows \subseteq selected THEN {} ELSE Rows)
Clear == phase = "idle" /\ selected # {} /\ Ticks({})
Cancel == phase = "armed" /\ Ticks(selected)

Arm ==
  /\ phase = "idle" /\ CanApprove /\ phase' = "armed" /\ armedFor' = ToSend
  /\ UNCHANGED <<waiting, stored, list, loads, selected, todo, wire, report, results, seat>>

------------------------------------------------------------------------------
(* The run: one decision after the other. *)

First(s) == wire' = wire \cup {[id |-> Head(s), seat |-> seat, st |-> "asked"]} /\ todo' = Tail(s)

Confirm ==
  /\ phase = "armed" /\ CanApprove /\ phase' = "submitting" /\ report' = {}
  /\ \E s \in Orders(ToSend) : First(s)
  /\ UNCHANGED <<waiting, stored, list, loads, selected, results, armedFor, seat>>

\* Plausible bug, for the mutant.
Waits_Any(i) == TRUE

\* The approval engine: the step is the user's while the invoice waits for it.
Waits(i) == i \in waiting

Decide(w) ==
  /\ w.st = "asked"
  /\ IF Waits(w.id)
     THEN /\ waiting' = waiting \ {w.id} /\ stored' = [stored EXCEPT ![w.id] = @ + 1]
          /\ wire' = (wire \ {w}) \cup {[w EXCEPT !.st = "done"]}
     ELSE wire' = (wire \ {w}) \cup {[w EXCEPT !.st = "refused"]} /\ UNCHANGED <<waiting, stored>>
  /\ UNCHANGED <<list, loads, selected, phase, todo, report, results, armedFor, seat>>

Here(w) == w.seat = seat /\ phase = "submitting"

\* The next one goes out whatever became of the last; after the last one the
\* panel is written, the selection dropped and the page asked for again.
Settles(w, ok) ==
  /\ report' = report \cup {[id |-> w.id, ok |-> ok]}
  /\ IF todo # <<>>
     THEN /\ wire' = (wire \ {w}) \cup {[id |-> Head(todo), seat |-> seat, st |-> "asked"]}
          /\ todo' = Tail(todo)
          /\ UNCHANGED <<list, loads, selected, phase, results, armedFor>>
     ELSE /\ wire' = wire \ {w} /\ todo' = <<>>
          /\ results' = report' \cup {[id |-> i, ok |-> FALSE] : i \in (selected \cap Rows) \ Mine}
          /\ selected' = {} /\ phase' = "idle" /\ armedFor' = {}
          /\ list' = Loading /\ loads' = loads

Answer(w) ==
  /\ w.st \in {"done", "refused"}
  /\ IF Here(w) THEN Settles(w, w.st = "done")
     ELSE wire' = wire \ {w} /\ UNCHANGED <<list, loads, selected, phase, todo, report, results, armedFor>>
  /\ UNCHANGED <<waiting, stored, seat>>

\* No answer, or one that is lost.
Fails(w) ==
  /\ IF Here(w) THEN Settles(w, FALSE)
     ELSE wire' = wire \ {w} /\ UNCHANGED <<list, loads, selected, phase, todo, report, results, armedFor>>
  /\ UNCHANGED <<waiting, stored, seat>>

\* Leaving aborts the run at the next row, and forgets everything.
Leave ==
  /\ loads < MaxLoads /\ loads' = loads + 1 /\ seat' = seat + 1
  /\ list' = Loading /\ selected' = {} /\ phase' = "idle" /\ armedFor' = {}
  /\ todo' = <<>> /\ report' = {} /\ results' = {}
  /\ UNCHANGED <<waiting, stored, wire>>

Next ==
  \/ \E i \in Invoices : OthersDecide(i) \/ Toggle(i)
  \/ Serve \/ Lands \/ LoadFails \/ Retry \/ Turn
  \/ ToggleAll \/ Clear \/ Cancel \/ Arm \/ Confirm \/ Leave
  \/ \E w \in wire : Decide(w) \/ Answer(w) \/ Fails(w)

Spec == Init /\ [][Next]_queue

------------------------------------------------------------------------------
TypeOK ==
  /\ waiting \subseteq Invoices /\ stored \in [Invoices -> 0..1]
  /\ list.st \in {"loading", "served", "ready", "error"} /\ list.rows \subseteq Invoices
  /\ loads \in 0..MaxLoads /\ seat \in 1..MaxLoads
  /\ selected \subseteq Invoices /\ phase \in Steps /\ armedFor \subseteq Invoices
  /\ \A k \in DOMAIN todo : todo[k] \in Mine
  /\ wire \subseteq [id: Invoices, seat: 1..MaxLoads, st: {"asked", "done", "refused"}]
  /\ report \subseteq Outcome /\ results \subseteq Outcome

\* A decision that goes out is one the confirmed prompt counted, no two go out
\* at once from one screen, and none goes out for a screen that was left.
SendsWhatWasArmed ==
  \A w \in wire' \ wire : w.st = "asked" =>
     /\ w.id \in armedFor /\ w.seat = seat /\ phase' = "submitting"
     /\ ~\E o \in wire' \ {w} : o.seat = seat

\* What the panel reports as approved was approved by this user, and an invoice
\* whose approval was reported is not offered again: the page behind the panel
\* was asked for after the last decision.
NothingOfferedTwice ==
  \A o \in results :
    /\ o.ok => stored[o.id] = 1
    /\ o.ok /\ list.st = "ready" => o.id \notin Rows

==============================================================================
