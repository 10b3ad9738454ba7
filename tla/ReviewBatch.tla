----------------------------- MODULE ReviewBatch -----------------------------
(* The review of an import (frontend/app/src/components/ReviewBatch.tsx,     *)
(* ReviewInvoicesTab.tsx, ReviewRow.tsx): one page of invoices under a       *)
(* filter, the two-click bulk submission and the panel of the expanded row,  *)
(* beside whoever else moves the same invoices.                              *)
(*                                                                           *)
(* The status pill, the rule pill and the search box are all "views": each   *)
(* narrows the list on the server and goes back to the first page.  A tab    *)
(* that is left forgets everything; a request it still waits for goes on     *)
(* like one of somebody else.  The counts above the tabs are only loaded,    *)
(* failed or absent: they decide whether the tab is mounted.                 *)
EXTENDS Naturals, FiniteSets

CONSTANTS
  Count,      \* invoices of the import, numbered in the order of the list
  Already,    \* of those, the ones queued before the review is opened
  PageSize,   \* REVIEW_PAGE_SIZE
  Views,      \* bound: the narrowings the user uses
  MaxChanges  \* bound: changes by others and through the expanded row

ReviewAssumption ==
  /\ Count \in Nat \ {0} /\ PageSize \in Nat \ {0}
  /\ MaxChanges \in Nat /\ Already \subseteq 1..Count
  /\ "all" \in Views /\ Views \subseteq {"all", "needs-fix", "ready", "queued"}

VARIABLES
  server,     \* status of every invoice
  moves,      \* number of its changes so far
  changes,    \* changes by others and through the expanded row, begun so far
  shell,      \* the counts: useAsync's run, and the last ones held
  tab,        \* the open tab
  filter,     \* view and offset
  page,       \* useAsync's run of the page
  shown,      \* the page of the last render
  selected,   \* ticked rows
  phase,      \* of the bulk submission
  send,       \* the submission under way
  edit,       \* the change of the expanded row under way
  armedFor,   \* history: what the open prompt counted when it was armed
  floor       \* history: the newest change this tab was told of

serverVars == <<server, moves>>
screen == <<shell, tab>>
list == <<filter, page, floor>>
bulk == <<shown, selected, phase, armedFor>>
reviewVars == <<serverVars, changes, screen, list, bulk, send, edit>>

Invoices == 1..Count
Statuses == {"draft", "validated", "queued"}
MaxMoves == Count + 2 * MaxChanges
Offsets == {PageSize * k : k \in 0..((Count - 1) \div PageSize)}
Queries == [view : Views, offset : Offsets]
First == [view |-> "all", offset |-> 0]

(* One page as the server answers it; an invoice not on it is "absent". *)
Data == [query : Queries, rows : [Invoices -> Statuses \cup {"absent"}], next : BOOLEAN,
         ver : 0..MaxMoves]
NoData == [query |-> First, rows |-> [i \in Invoices |-> "absent"], next |-> FALSE, ver |-> 0]

Run == [st : {"none", "loading", "served", "ready", "error"}, query : Queries, got : Data]
NoRun == [st |-> "none", query |-> First, got |-> NoData]
Loading(q) == [st |-> "loading", query |-> q, got |-> NoData]

(* A handler keeps the ids and the filter of the render it was started in. *)
Send == [st : {"none", "out", "done"}, ids : SUBSET Invoices, query : Queries, ver : 0..MaxMoves]
NoSend == [st |-> "none", ids |-> {}, query |-> First, ver |-> 0]

Edit == [st : {"none", "out", "done"}, inv : Invoices, op : {"change", "revalidate"},
         query : Queries, ver : 0..MaxMoves]
NoEdit == [st |-> "none", inv |-> 1, op |-> "change", query |-> First, ver |-> 0]

-----------------------------------------------------------------------------
(* The server. *)

(* filterToQuery *)
Matches(v, s) ==
  \/ v = "all"
  \/ v = "needs-fix" /\ s = "draft"
  \/ v = "ready" /\ s = "validated"
  \/ v = "queued" /\ s = "queued"

Answer(q) ==
  LET listed == {i \in Invoices : Matches(q.view, server[i])}
      rank(i) == Cardinality({j \in listed : j < i})
      here == {i \in listed : rank(i) \in q.offset..(q.offset + PageSize - 1)}
  IN [query |-> q, rows |-> [i \in Invoices |-> IF i \in here THEN server[i] ELSE "absent"],
      next |-> q.offset + PageSize < Cardinality(listed), ver |-> moves]

(* Validation, an edit or a submission by somebody else. *)
OthersMove(i) ==
  /\ changes < MaxChanges /\ server[i] # "queued"
  /\ \E s \in Statuses \ {server[i]} : server' = [server EXCEPT ![i] = s]
  /\ moves' = moves + 1 /\ changes' = changes + 1
  /\ UNCHANGED <<screen, list, bulk, send, edit>>

-----------------------------------------------------------------------------
(* Rendering. *)

Mounted == shell.has /\ tab = "invoices"

Eligible(d) == {i \in Invoices : d.rows[i] = "validated"}

(* bulkBarView *)
Bar == selected \cap Eligible(shown)
CanSubmit == Bar # {} /\ page.st \in {"ready", "error"} /\ phase # "submitting"

(* The controls lose the arming unless a submission is under way. *)
Disarm == /\ phase' = IF phase = "submitting" THEN phase ELSE "idle"
          /\ armedFor' = IF phase = "submitting" THEN armedFor ELSE {}

(* Other rows prune the selection and disarm the prompt. *)
Shows(d) == shown' = d /\ selected' = selected \cap Eligible(d) /\ Disarm

(* Rows are kept behind a page that is loading and, until something renders  *)
(* again, behind one that could not be loaded.                               *)
Settle == IF page.st = "error" THEN Shows(NoData) ELSE UNCHANGED bulk

Init ==
  /\ server = [i \in Invoices |-> IF i \in Already THEN "queued" ELSE "validated"]
  /\ moves = 0 /\ changes = 0
  /\ shell = [st |-> "loading", has |-> FALSE] /\ tab = "invoices"
  /\ filter = First /\ page = NoRun /\ shown = NoData
  /\ selected = {} /\ phase = "idle" /\ send = NoSend /\ edit = NoEdit
  /\ armedFor = {} /\ floor = 0

(* A tab that is mounted again starts over. *)
Remounted(run) ==
  /\ filter' = First /\ page' = run /\ floor' = 0
  /\ shown' = NoData /\ selected' = {} /\ phase' = "idle" /\ armedFor' = {}
  /\ send' = NoSend /\ edit' = NoEdit

OpenTab(t) ==
  /\ shell.has /\ tab # t
  /\ tab' = t
  /\ Remounted(IF t = "invoices" THEN Loading(First) ELSE NoRun)
  /\ UNCHANGED <<serverVars, changes, shell>>

-----------------------------------------------------------------------------
(* The counts: the last ones stay while new ones are loaded, and an error   *)
(* takes the place of the whole review.                                      *)

ShellAnswered ==
  /\ shell.st = "loading"
  /\ shell' = [st |-> "ready", has |-> TRUE]
  /\ IF ~shell.has /\ tab = "invoices" THEN Remounted(Loading(First))
                                       ELSE UNCHANGED <<list, bulk, send, edit>>
  /\ UNCHANGED <<serverVars, changes, tab>>

ShellFailed ==
  /\ shell.st = "loading"
  /\ shell' = [st |-> "error", has |-> FALSE]
  /\ Remounted(NoRun)
  /\ UNCHANGED <<serverVars, changes, tab>>

ShellRetry ==
  /\ shell.st = "error"
  /\ shell' = [shell EXCEPT !.st = "loading"]
  /\ UNCHANGED <<serverVars, changes, tab, list, bulk, send, edit>>

-----------------------------------------------------------------------------
(* The page. *)

PageServed ==
  /\ page.st = "loading"
  /\ page' = [page EXCEPT !.st = "served", !.got = Answer(page.query)]
  /\ UNCHANGED <<serverVars, changes, screen, filter, floor, bulk, send, edit>>

PageAnswered ==
  /\ page.st = "served"
  /\ page' = [page EXCEPT !.st = "ready", !.got = NoData]
  /\ Shows(page.got)
  /\ UNCHANGED <<serverVars, changes, screen, filter, floor, send, edit>>

PageFailed ==
  /\ page.st \in {"loading", "served"}
  /\ page' = [page EXCEPT !.st = "error", !.got = NoData]
  /\ UNCHANGED <<serverVars, changes, screen, filter, floor, bulk, send, edit>>

Rerender ==
  /\ page.st = "error" /\ shown # NoData
  /\ Shows(NoData)
  /\ UNCHANGED <<serverVars, changes, screen, list, send, edit>>

PageRetry ==
  /\ Mounted /\ page.st = "error"
  /\ page' = Loading(filter)
  /\ Shows(NoData)
  /\ UNCHANGED <<serverVars, changes, screen, filter, floor, send, edit>>

(* Only a filter whose fields differ is asked for: deps. *)
Refilter(f) ==
  /\ filter' = f
  /\ IF f = filter THEN UNCHANGED page ELSE page' = Loading(f)
  /\ Settle

Narrow(v) ==
  /\ Mounted /\ v # filter.view
  /\ Refilter([view |-> v, offset |-> 0])
  /\ UNCHANGED <<serverVars, changes, screen, floor, send, edit>>

(* pagerNav goes by the page shown, not by the filter. *)
GoTo(offset) ==
  /\ Mounted /\ page.st = "ready" /\ phase # "submitting"
  /\ \/ shown.next /\ offset = shown.query.offset + PageSize
     \/ shown.query.offset = offset + PageSize
  /\ Refilter([filter EXCEPT !.offset = offset])
  /\ UNCHANGED <<serverVars, changes, screen, floor, send, edit>>

-----------------------------------------------------------------------------
(* Selection and bulk submission. *)

Table == Mounted /\ page.st \in {"loading", "served", "ready"}

(* Plausible bug, for the mutant. *)
Toggled_StaysArmed(s) == selected' = s /\ UNCHANGED <<phase, armedFor>>

(* setSelected and disarm *)
Toggled(s) == selected' = s /\ Disarm

Toggle(i) ==
  /\ Table /\ i \in Eligible(shown)
  /\ Toggled(IF i \in selected THEN selected \ {i} ELSE selected \cup {i})
  /\ UNCHANGED <<serverVars, changes, screen, list, shown, send, edit>>

ToggleAll ==
  /\ Table
  /\ Toggled(IF Eligible(shown) \subseteq selected THEN {} ELSE Eligible(shown))
  /\ UNCHANGED <<serverVars, changes, screen, list, shown, send, edit>>

Clear ==
  /\ Table /\ Bar # {} /\ phase = "idle"
  /\ Toggled({})
  /\ UNCHANGED <<serverVars, changes, screen, list, shown, send, edit>>

(* The bar arms what is selected, the button under the table the whole page. *)
Arm(ids) ==
  /\ Table /\ page.st = "ready" /\ phase = "idle" /\ ids # {}
  /\ selected' = ids /\ phase' = "armed" /\ armedFor' = ids
  /\ UNCHANGED <<serverVars, changes, screen, list, shown, send, edit>>

Cancel ==
  /\ Table /\ phase = "armed"
  /\ Disarm
  /\ UNCHANGED <<serverVars, changes, screen, list, shown, selected, send, edit>>

(* submit: the bar stays clickable behind a page that could not be loaded. *)
Confirm ==
  /\ Mounted /\ phase = "armed" /\ CanSubmit
  /\ phase' = "submitting" /\ armedFor' = {}
  /\ send' = [NoSend EXCEPT !.st = "out", !.ids = Bar, !.query = filter]
  /\ IF page.st = "error" THEN shown' = NoData /\ selected' = {}
                          ELSE UNCHANGED <<shown, selected>>
  /\ UNCHANGED <<serverVars, changes, screen, list, edit>>

(* The batch endpoint sends what is validated and skips the rest. *)
Sendable(ids) == {i \in ids : server[i] = "validated"}

SendServed ==
  /\ send.st = "out"
  /\ LET sent == Sendable(send.ids)
     IN /\ server' = [i \in Invoices |-> IF i \in sent THEN "queued" ELSE server[i]]
        /\ moves' = moves + Cardinality(sent)
  /\ send' = [send EXCEPT !.st = "done", !.ver = moves']
  /\ UNCHANGED <<changes, screen, list, bulk, edit>>

Newer(a, b) == IF a > b THEN a ELSE b

(* Plausible bug, for the mutant. *)
Reloads_OnlyIdle(q, v) ==
  /\ page' = IF page.st = "loading" \/ page.st = "served" THEN page ELSE Loading(q)
  /\ floor' = Newer(floor, v)

(* page.run of the render the handler belongs to: its producer closes over   *)
(* the filter of that render.                                                *)
Reloads(q, v) ==
  /\ page' = Loading(q)
  /\ floor' = Newer(floor, v)

(* onSubmitted *)
ShellAgain == shell' = [shell EXCEPT !.st = "loading"]

SendAnswered ==
  /\ send.st = "done"
  /\ send' = NoSend /\ phase' = "idle" /\ armedFor' = {} /\ selected' = {}
  /\ shown' = IF page.st = "error" THEN NoData ELSE shown
  /\ Reloads(send.query, send.ver) /\ ShellAgain
  /\ UNCHANGED <<serverVars, changes, tab, filter, edit>>

(* A failure keeps the selection and reads nothing, whatever was served. *)
SendFailed ==
  /\ send.st \in {"out", "done"}
  /\ send' = NoSend /\ phase' = "idle" /\ armedFor' = {}
  /\ IF page.st = "error" THEN shown' = NoData /\ selected' = {}
                          ELSE UNCHANGED <<shown, selected>>
  /\ UNCHANGED <<serverVars, changes, screen, list, edit>>

-----------------------------------------------------------------------------
(* The expanded row: save, accept and keep-as-is leave a draft, re-validate  *)
(* judges one.                                                               *)

RowOffers(op, s) ==
  \/ op = "change" /\ s \in {"draft", "validated"}
  \/ op = "revalidate" /\ s = "draft"

StartEdit(i, op) ==
  /\ Table /\ edit.st = "none" /\ changes < MaxChanges
  /\ RowOffers(op, shown.rows[i])
  /\ edit' = [st |-> "out", inv |-> i, op |-> op, query |-> filter, ver |-> 0]
  /\ changes' = changes + 1
  /\ UNCHANGED <<serverVars, screen, list, bulk, send>>

EditServed ==
  /\ edit.st = "out"
  /\ \/ /\ edit.op = "change" /\ server[edit.inv] # "queued"
        /\ server' = [server EXCEPT ![edit.inv] = "draft"]
     \/ /\ edit.op = "revalidate" /\ server[edit.inv] = "draft"
        /\ \E s \in {"draft", "validated"} : server' = [server EXCEPT ![edit.inv] = s]
  /\ moves' = moves + 1
  /\ edit' = [edit EXCEPT !.st = "done", !.ver = moves']
  /\ UNCHANGED <<changes, screen, list, bulk, send>>

(* onChanged *)
EditAnswered ==
  /\ edit.st = "done"
  /\ edit' = NoEdit
  /\ Reloads(edit.query, edit.ver) /\ ShellAgain
  /\ Settle
  /\ UNCHANGED <<serverVars, changes, tab, filter, send>>

EditFailed ==
  /\ edit.st \in {"out", "done"}
  /\ edit' = NoEdit
  /\ UNCHANGED <<serverVars, changes, screen, list, bulk, send>>

-----------------------------------------------------------------------------
Loads == \/ ShellAnswered \/ ShellFailed \/ ShellRetry
         \/ PageServed \/ PageAnswered \/ PageFailed \/ PageRetry \/ Rerender

Filters == (\E v \in Views : Narrow(v)) \/ (\E offset \in Offsets : GoTo(offset))

BulkBar == Clear \/ Cancel \/ Confirm \/ \E ids \in {Bar, Eligible(shown)} : Arm(ids)

Rows ==
  \/ ToggleAll
  \/ \E i \in Invoices : Toggle(i)
  \/ \E i \in Invoices, op \in {"change", "revalidate"} : StartEdit(i, op)

Clicks == Filters \/ BulkBar \/ Rows \/ \E t \in {"invoices", "unreadable"} : OpenTab(t)

Requests == SendServed \/ SendAnswered \/ SendFailed \/ EditServed \/ EditAnswered \/ EditFailed

Others == \E i \in Invoices : OthersMove(i)

Next == Loads \/ Clicks \/ Requests \/ Others

Spec == Init /\ [][Next]_reviewVars

-----------------------------------------------------------------------------
(* Properties. *)

TypeOK ==
  /\ server \in [Invoices -> Statuses] /\ moves \in 0..MaxMoves /\ changes \in 0..MaxChanges
  /\ shell \in [st : {"loading", "ready", "error"}, has : BOOLEAN]
  /\ tab \in {"invoices", "unreadable"}
  /\ filter \in Queries /\ page \in Run /\ shown \in Data
  /\ selected \subseteq Invoices /\ armedFor \subseteq Invoices
  /\ phase \in {"idle", "armed", "submitting"}
  /\ send \in Send /\ edit \in Edit
  /\ floor \in 0..MaxMoves

(* What a confirmed prompt sends is what the prompt counted when it was      *)
(* armed, whatever was loaded, toggled, paged or edited in between.          *)
SendsWhatWasArmed == send.st = "none" /\ send'.st = "out" => send'.ids = armedFor

(* A page never offers what was already sent: after an acknowledged          *)
(* submission or row change no page that finished loading is from before it, *)
(* however loads, paging and other changes overlap, and nothing is selected  *)
(* that it does not show as ready.                                           *)
NothingOfferedTwice ==
  /\ page.st = "ready" => shown.ver >= floor
  /\ selected \subseteq Eligible(shown)

(* The rows of a loaded page belong to the filter that is pressed. *)
ShownIsFiltered == page.st = "ready" => shown.query = filter

=============================================================================
