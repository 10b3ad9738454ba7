------------------------------ MODULE Register ------------------------------
(***************************************************************************)
(* The register of invoices (frontend/app/src/components/InvoicesList.tsx):*)
(* one page under a filter, refreshed every two seconds while one of its   *)
(* rows is with the authority, and the two-click submission of the rows    *)
(* that are ticked, beside whoever else moves the same invoices.           *)
(*                                                                         *)
(* What is on the screen comes from three places: the answer of the last   *)
(* refresh, else the page that was loaded, else the page before it. A      *)
(* refresh counts while no page was loaded since it was sent.              *)
(*                                                                         *)
(* A query is the filter, the search and the page at once. A screen that   *)
(* is left forgets all of it; what it still waits for then goes on like a  *)
(* request of somebody else.                                               *)
(***************************************************************************)
EXTENDS Naturals, FiniteSets

CONSTANTS
  Count,     \* invoices of the company
  MaxOthers  \* bound: changes by others, and narrowings by the user

RegisterAssumption == Count \in Nat \ {0} /\ MaxOthers \in Nat

VARIABLES
  server,   \* status of every invoice
  moves,    \* number of its changes so far
  others,   \* changes by others, so far
  turns,    \* narrowings by the user, so far
  query,    \* the query of the controls
  list,     \* useAsync's run
  held,     \* the last page that was loaded
  live,     \* the rows of the last refresh that counts
  tick,     \* the refresh under way
  selected, phase, send, \* of the bulk submission
  armedFor, \* history: what the open prompt counted when it was armed
  floor     \* history: the newest change this screen was told of

data == <<list, held, live>>
bulk == <<selected, phase, send, armedFor>>
register == <<server, moves, others, turns, query, data, tick, bulk, floor>>

Invoices == 1..Count
Statuses == {"validated", "queued", "accepted", "rejected"}
MaxMoves == 2 * Count + 3 * MaxOthers

Queries == {"all", "attention", "later"}

Page == [query: Queries, rows: [Invoices -> Statuses \cup {"absent"}], ver: 0..MaxMoves]
Nothing == [query |-> "all", rows |-> [i \in Invoices |-> "absent"], ver |-> 0]
None == [Nothing EXCEPT !.query = "later"] \* no answer yet: neither page nor refresh

Loading(q) == [st |-> "loading", query |-> q, got |-> None]

NoTick == [st |-> "none", counts |-> FALSE, got |-> None, query |-> "all"]
NoSend == [st |-> "none", ids |-> {}, query |-> "all", ver |-> 0]

------------------------------------------------------------------------------
(* The server. *)

\* The last invoice is on the next page.
Matches(q, i) ==
  \/ q = "all" /\ (i < Count \/ Count = 1)
  \/ q = "attention" /\ server[i] = "rejected"
  \/ q = "later" /\ i = Count

Answer(q) ==
  [query |-> q, rows |-> [i \in Invoices |-> IF Matches(q, i) THEN server[i] ELSE "absent"],
   ver |-> moves]

\* The authority answers what is queued.
Decided(i) ==
  /\ server[i] = "queued"
  /\ \E s \in {"accepted", "rejected"} : server' = [server EXCEPT ![i] = s]
  /\ moves' = moves + 1
  /\ UNCHANGED <<others, turns, query, data, tick, bulk, floor>>

OthersMove(i) ==
  /\ others < MaxOthers /\ server[i] \in {"validated", "rejected"}
  /\ server' = [server EXCEPT ![i] = IF @ = "validated" THEN "queued" ELSE "validated"]
  /\ moves' = moves + 1 /\ others' = others + 1
  /\ UNCHANGED <<turns, query, data, tick, bulk, floor>>

------------------------------------------------------------------------------
(* Rendering. *)

\* view
Behind(l, h) == IF l.st = "ready" THEN l.got ELSE h
Shown == IF live # None THEN live ELSE Behind(list, held)
ShowRows == list.st = "ready" \/ (list.st \in {"loading", "served"} /\ held # None)

Eligible(page) == {i \in Invoices : page.rows[i] = "validated"}

\* bulkBarView: nothing is offered while the page is being replaced.
Bar == selected \cap Eligible(Shown)
CanSubmit == Bar # {} /\ list.st = "ready" /\ phase # "submitting"

Disarm == /\ phase' = IF phase = "submitting" THEN phase ELSE "idle"
          /\ armedFor' = IF phase = "submitting" THEN armedFor ELSE {}

\* Other rows prune the selection and disarm the prompt.
Renders(page) ==
  IF page = Shown THEN UNCHANGED <<selected, phase, armedFor>>
  ELSE selected' = selected \cap Eligible(page) /\ Disarm

\* The generation moves with every page that is loaded, and when the one loaded
\* is taken away for another: the refresh goes, and one still out does not count.
Forgets(t) == [t EXCEPT !.counts = FALSE]

Asks(q) ==
  /\ list' = Loading(q) /\ held' = held
  /\ IF list.st = "ready" THEN live' = None /\ tick' = Forgets(tick)
     ELSE UNCHANGED <<live, tick>>

Init ==
  /\ server = [i \in Invoices |-> IF i = 1 THEN "queued" ELSE "validated"]
  /\ moves = 0 /\ others = 0 /\ turns = 0
  /\ query = "all" /\ list = Loading("all") /\ held = None /\ live = None /\ tick = NoTick
  /\ selected = {} /\ phase = "idle" /\ send = NoSend /\ armedFor = {} /\ floor = 0

------------------------------------------------------------------------------
(* The page. *)

ListServed ==
  /\ list.st = "loading"
  /\ list' = [list EXCEPT !.st = "served", !.got = Answer(list.query)]
  /\ UNCHANGED <<server, moves, others, turns, query, held, live, tick, bulk, floor>>

ListLands ==
  /\ list.st = "served"
  /\ list' = [list EXCEPT !.st = "ready"] /\ held' = list.got /\ live' = None
  /\ tick' = Forgets(tick)
  /\ selected' = selected \cap Eligible(list.got) /\ Disarm
  /\ UNCHANGED <<server, moves, others, turns, query, send, floor>>

ListFails ==
  /\ list.st \in {"loading", "served"}
  /\ list' = [list EXCEPT !.st = "error", !.got = None]
  /\ UNCHANGED <<server, moves, others, turns, query, held, live, tick, bulk, floor>>

Retry ==
  /\ list.st = "error"
  /\ list' = Loading(query)
  /\ UNCHANGED <<server, moves, others, turns, query, held, live, tick, bulk, floor>>

\* The filter, the search and the pager clear the selection. The pager waits
\* for the page and for the submission.
Narrow(q) ==
  /\ q # query /\ turns < MaxOthers /\ turns' = turns + 1
  /\ "later" \in {q, query} => list.st = "ready" /\ phase # "submitting" /\ {q, query} = {"all", "later"}
  /\ query' = q /\ Asks(q)
  /\ selected' = {} /\ Disarm
  /\ UNCHANGED <<server, moves, others, send, floor>>

------------------------------------------------------------------------------
(* The refresh: one at a time, and while a row shown is with the authority. *)

Tick ==
  /\ tick.st = "none" /\ ShowRows /\ \E i \in Invoices : Shown.rows[i] = "queued"
  /\ tick' = [NoTick EXCEPT !.st = "out", !.counts = TRUE, !.query = query]
  /\ UNCHANGED <<server, moves, others, turns, query, data, bulk, floor>>

TickServed ==
  /\ tick.st = "out"
  /\ tick' = [tick EXCEPT !.st = "served", !.got = Answer(tick.query)]
  /\ UNCHANGED <<server, moves, others, turns, query, data, bulk, floor>>

TickLands ==
  /\ tick.st = "served" /\ tick' = NoTick
  /\ IF tick.counts
     THEN live' = tick.got /\ selected' = selected \cap Eligible(tick.got) /\ Disarm
     ELSE UNCHANGED <<live, selected, phase, armedFor>>
  /\ UNCHANGED <<server, moves, others, turns, query, list, held, send, floor>>

TickFails ==
  /\ tick.st \in {"out", "served"} /\ tick' = NoTick
  /\ UNCHANGED <<server, moves, others, turns, query, data, bulk, floor>>

------------------------------------------------------------------------------
(* Selection and bulk submission. *)

Toggled(s) == selected' = s /\ Disarm

Toggle(i) ==
  /\ ShowRows /\ i \in Eligible(Shown)
  /\ Toggled(IF i \in selected THEN selected \ {i} ELSE selected \cup {i})
  /\ UNCHANGED <<server, moves, others, turns, query, data, tick, send, floor>>

ToggleAll ==
  /\ ShowRows /\ Eligible(Shown) # {}
  /\ Toggled(IF Eligible(Shown) \subseteq selected THEN {} ELSE Eligible(Shown))
  /\ UNCHANGED <<server, moves, others, turns, query, data, tick, send, floor>>

Arm ==
  /\ ShowRows /\ phase = "idle" /\ CanSubmit
  /\ phase' = "armed" /\ armedFor' = Bar
  /\ UNCHANGED <<server, moves, others, turns, query, data, tick, selected, send, floor>>

Cancel ==
  /\ ShowRows /\ phase = "armed" /\ Disarm
  /\ UNCHANGED <<server, moves, others, turns, query, data, tick, selected, send, floor>>

\* submitSelection: the handler keeps the query of its render.
Confirm ==
  /\ ShowRows /\ phase = "armed" /\ CanSubmit /\ send.st = "none"
  /\ phase' = "submitting" /\ armedFor' = {}
  /\ send' = [NoSend EXCEPT !.st = "out", !.ids = Bar, !.query = query]
  /\ UNCHANGED <<server, moves, others, turns, query, data, tick, selected, floor>>

\* The batch endpoint queues what is validated and skips the rest.
SendServed ==
  /\ send.st = "out"
  /\ LET sent == {i \in send.ids : server[i] = "validated"}
     IN /\ server' = [i \in Invoices |-> IF i \in sent THEN "queued" ELSE server[i]]
        /\ moves' = moves + Cardinality(sent)
  /\ send' = [send EXCEPT !.st = "done", !.ver = moves']
  /\ UNCHANGED <<others, turns, query, data, tick, selected, phase, armedFor, floor>>

SendAnswered ==
  /\ send.st = "done" /\ send' = NoSend
  /\ phase' = "idle" /\ armedFor' = {} /\ selected' = {}
  /\ Asks(send.query) /\ floor' = send.ver
  /\ UNCHANGED <<server, moves, others, turns, query>>

\* A failure keeps the selection and reads nothing, whatever was served.
SendFails ==
  /\ send.st \in {"out", "done"} /\ send' = NoSend
  /\ phase' = "idle" /\ armedFor' = {}
  /\ UNCHANGED <<server, moves, others, turns, query, data, tick, selected, floor>>

------------------------------------------------------------------------------
Next ==
  \/ \E i \in Invoices : Decided(i) \/ OthersMove(i) \/ Toggle(i)
  \/ ListServed \/ ListLands \/ ListFails \/ Retry \/ \E q \in Queries : Narrow(q)
  \/ Tick \/ TickServed \/ TickLands \/ TickFails
  \/ ToggleAll \/ Arm \/ Cancel \/ Confirm \/ SendServed \/ SendAnswered \/ SendFails

Spec == Init /\ [][Next]_register

TypeOK ==
  /\ server \in [Invoices -> Statuses] /\ moves \in 0..MaxMoves
  /\ others \in 0..MaxOthers /\ turns \in 0..MaxOthers /\ query \in Queries
  /\ list \in [st: {"loading", "served", "ready", "error"}, query: Queries, got: Page]
  /\ held \in Page /\ live \in Page
  /\ tick \in [st: {"none", "out", "served"}, counts: BOOLEAN, query: Queries, got: Page]
  /\ selected \subseteq Invoices /\ armedFor \subseteq Invoices
  /\ phase \in {"idle", "armed", "submitting"}
  /\ send \in [st: {"none", "out", "done"}, ids: SUBSET Invoices, query: Queries, ver: 0..MaxMoves]
  /\ floor \in 0..MaxMoves

\* A confirmed prompt sends what it counted when it was armed, whatever was
\* loaded or refreshed in between.
SendsWhatWasArmed == send.st = "none" /\ send'.st = "out" => send'.ids = armedFor

\* Once a submission was acknowledged, no page that is loaded offers its
\* invoices as they were before: neither a page nor a refresh asked for
\* earlier may answer into it.
NothingOfferedTwice ==
  list.st = "ready" => Shown.ver >= floor /\ selected \subseteq Eligible(Shown)

==============================================================================
