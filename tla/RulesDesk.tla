------------------------------ MODULE RulesDesk ------------------------------
(***************************************************************************)
(* The rules of a company in the browser                                   *)
(* (frontend/app/src/components/RulesView.tsx, CustomRuleEditor.tsx): the  *)
(* golden rules, which are read only, and the custom ones. Two reads fill  *)
(* the page. A switch, a save and a removal are answered with the rule and *)
(* patch the list; the last two read it again as well. An answer that was  *)
(* asked for before the newest write landed is dropped.                    *)
(*                                                                         *)
(* The switch and the editor both send the whole rule: the switch as the   *)
(* list has it, the editor as it was when the editor was opened.           *)
(***************************************************************************)
EXTENDS Naturals, FiniteSets

CONSTANT MaxWrites \* bound: writes begun

RulesAssumption == MaxWrites \in Nat

VARIABLES
  rows,    \* the custom rules as stored
  custom,  \* the list of the page
  golden,  \* the read of the golden rules
  fetch,   \* the read of the custom rules
  current, \* no write landed since it was asked for
  drawer,  \* the rule whose drawer is open, or 0
  editor,  \* the rule being edited as it was opened, or Closed
  busy,    \* rules whose switch waits
  removing,
  out,     \* writes that were sent and not answered
  told,    \* history: how a rule was last reported switched, and its text as last reported saved
  crossed, \* history: rules with two writes that know nothing of each other, or a lost answer
  writes   \* writes begun so far

rules == <<rows, custom, golden, fetch, current, drawer, editor, busy, removing, out, told,
           crossed, writes>>

Ids == 1..2 \* the second one is created on the way
Rule == [there: BOOLEAN, on: BOOLEAN, text: 0..MaxWrites]
Gone == [there |-> FALSE, on |-> FALSE, text |-> 0]
Empty == [i \in Ids |-> Gone]
Unknown == [i \in Ids |-> [Gone EXCEPT !.on = TRUE]] \* null: nothing was read yet

Closed == [id |-> 0, rule |-> Gone, saving |-> FALSE]
Kinds == {"switch", "save", "create", "remove"}
Asked == [st |-> "asked", got |-> Empty]

Init ==
  /\ rows = [Empty EXCEPT ![1] = [there |-> TRUE, on |-> TRUE, text |-> 0]]
  /\ custom = Unknown /\ golden = "asked" /\ fetch = Asked /\ current = TRUE
  /\ drawer = 0 /\ editor = Closed /\ busy = {} /\ removing = FALSE
  /\ out = {} /\ told = rows /\ crossed = {} /\ writes = 0

------------------------------------------------------------------------------
(* The reads. *)

GoldenEnds(st) ==
  /\ golden = "asked" /\ golden' = st
  /\ UNCHANGED <<rows, custom, fetch, current, drawer, editor, busy, removing, out, told, crossed, writes>>

Served ==
  /\ fetch.st = "asked" /\ fetch' = [st |-> "served", got |-> rows]
  /\ UNCHANGED <<rows, custom, golden, current, drawer, editor, busy, removing, out, told, crossed, writes>>

\* fetchedAt === writes
Counts == current

\* A drawer is shown while its rule is listed.
Still(list) == IF drawer # 0 /\ ~list[drawer].there THEN 0 ELSE drawer

Lands ==
  /\ fetch.st = "served" /\ fetch' = [st |-> "idle", got |-> Empty]
  /\ custom' = (IF Counts THEN fetch.got ELSE custom) /\ drawer' = Still(custom')
  /\ UNCHANGED <<rows, golden, current, editor, busy, removing, out, told, crossed, writes>>

FetchFails ==
  /\ fetch.st \in {"asked", "served"} /\ fetch' = [st |-> "failed", got |-> Empty]
  /\ UNCHANGED <<rows, custom, golden, current, drawer, editor, busy, removing, out, told, crossed, writes>>

Refetches == fetch' = Asked /\ current' = TRUE

\* One button for both reads; over a list that is there, for the second alone.
Retry ==
  /\ fetch.st = "failed" \/ (golden = "failed" /\ custom = Unknown)
  /\ golden' = IF golden = "failed" THEN "asked" ELSE golden
  /\ IF fetch.st = "failed" THEN Refetches ELSE UNCHANGED <<fetch, current>>
  /\ UNCHANGED <<rows, custom, drawer, editor, busy, removing, out, told, crossed, writes>>

RetryGolden ==
  /\ golden = "failed" /\ fetch.st # "failed" /\ custom # Unknown /\ golden' = "asked"
  /\ UNCHANGED <<rows, custom, fetch, current, drawer, editor, busy, removing, out, told, crossed, writes>>

------------------------------------------------------------------------------
(* The page: the table, the drawer of a rule over it, the editor over both. *)

Ready == golden = "ready" /\ custom # Unknown
Table == Ready /\ drawer = 0 /\ editor = Closed

OpenRule(i) ==
  /\ Table /\ custom[i].there /\ drawer' = i
  /\ UNCHANGED <<rows, custom, golden, fetch, current, editor, busy, removing, out, told, crossed, writes>>

CloseRule ==
  /\ drawer # 0 /\ editor = Closed /\ drawer' = 0
  /\ UNCHANGED <<rows, custom, golden, fetch, current, editor, busy, removing, out, told, crossed, writes>>

\* A rule being removed cannot be edited. One whose switch waits can.
Edit ==
  /\ drawer # 0 /\ editor = Closed /\ ~removing
  /\ editor' = [id |-> drawer, rule |-> custom[drawer], saving |-> FALSE] /\ drawer' = 0
  /\ crossed' = IF \E w \in out : w.id = drawer THEN crossed \cup {drawer} ELSE crossed
  /\ UNCHANGED <<rows, custom, golden, fetch, current, busy, removing, out, told, writes>>

NewRule ==
  /\ Table /\ ~rows[2].there /\ \A w \in out : w.id # 2
  /\ editor' = [Closed EXCEPT !.id = 2]
  /\ UNCHANGED <<rows, custom, golden, fetch, current, drawer, busy, removing, out, told, crossed, writes>>

CloseEditor ==
  /\ editor # Closed /\ ~editor.saving /\ editor' = Closed
  /\ UNCHANGED <<rows, custom, golden, fetch, current, drawer, busy, removing, out, told, crossed, writes>>

------------------------------------------------------------------------------
(* The writes. *)

Sends(k, i, rule) ==
  /\ writes < MaxWrites /\ writes' = writes + 1
  /\ out' = out \cup {[k |-> k, id |-> i, rule |-> rule, st |-> "asked"]}
  /\ crossed' = IF \E w \in out : w.id = i THEN crossed \cup {i} ELSE crossed

Switch(i) ==
  /\ Table /\ custom[i].there /\ i \notin busy
  /\ Sends("switch", i, [custom[i] EXCEPT !.on = ~@]) /\ busy' = busy \cup {i}
  /\ UNCHANGED <<rows, custom, golden, fetch, current, drawer, editor, removing, told>>

\* Plausible bug, for the mutant.
Body_SwitchedOn == [there |-> TRUE, on |-> TRUE, text |-> writes + 1]

\* A new rule is on; an edited one stays as it was when the editor was opened.
Body == [there |-> TRUE, on |-> (editor.rule = Gone \/ editor.rule.on), text |-> writes + 1]

Save ==
  /\ Ready /\ editor # Closed /\ ~editor.saving
  /\ Sends(IF editor.rule = Gone THEN "create" ELSE "save", editor.id, Body)
  /\ editor' = [editor EXCEPT !.saving = TRUE]
  /\ UNCHANGED <<rows, custom, golden, fetch, current, drawer, busy, removing, told>>

Remove ==
  /\ Ready /\ drawer # 0 /\ editor = Closed /\ ~removing
  /\ Sends("remove", drawer, Gone) /\ removing' = TRUE
  /\ UNCHANGED <<rows, custom, golden, fetch, current, drawer, editor, busy, told>>

Serve(w) ==
  /\ w.st = "asked" /\ (w.k = "create" \/ rows[w.id].there)
  /\ rows' = [rows EXCEPT ![w.id] = w.rule]
  /\ out' = (out \ {w}) \cup {[w EXCEPT !.st = "served"]}
  /\ UNCHANGED <<custom, golden, fetch, current, drawer, editor, busy, removing, told, crossed, writes>>

\* The rule answered takes the place of the listed one, and is appended if new.
Patched(w) ==
  IF custom[w.id].there \/ w.k = "create" THEN [custom EXCEPT ![w.id] = w.rule] ELSE custom

Ends(w) ==
  /\ out' = out \ {w}
  /\ busy' = IF w.k = "switch" THEN busy \ {w.id} ELSE busy
  /\ removing' = IF w.k = "remove" THEN FALSE ELSE removing

\* A removal closes whichever drawer is open.
Answer(w) ==
  /\ w.st = "served" /\ Ends(w)
  /\ custom' = Patched(w)
  /\ told' = [told EXCEPT ![w.id] =
       CASE w.k = "switch" -> [@ EXCEPT !.on = w.rule.on]
         [] w.k = "save"   -> [@ EXCEPT !.text = w.rule.text]
         [] OTHER          -> w.rule]
  /\ editor' = IF w.k \in {"save", "create"} THEN Closed ELSE editor
  /\ drawer' = IF w.k = "remove" THEN 0 ELSE Still(custom')
  /\ IF w.k = "switch" THEN current' = FALSE /\ UNCHANGED fetch ELSE Refetches
  /\ UNCHANGED <<rows, golden, crossed, writes>>

\* Refused, or the answer is lost: nothing is read again.
Fails(w) ==
  /\ Ends(w)
  /\ crossed' = IF w.st = "served" THEN crossed \cup {w.id} ELSE crossed
  /\ editor' = IF w.k \in {"save", "create"} THEN [editor EXCEPT !.saving = FALSE] ELSE editor
  /\ UNCHANGED <<rows, custom, golden, fetch, current, drawer, told, writes>>

Next ==
  \/ \E st \in {"ready", "failed"} : GoldenEnds(st)
  \/ Served \/ Lands \/ FetchFails \/ Retry \/ RetryGolden
  \/ CloseRule \/ Edit \/ NewRule \/ CloseEditor \/ Save \/ Remove
  \/ \E i \in Ids : OpenRule(i) \/ Switch(i)
  \/ \E w \in out : Serve(w) \/ Answer(w) \/ Fails(w)

Spec == Init /\ [][Next]_rules

------------------------------------------------------------------------------
TypeOK ==
  /\ rows \in [Ids -> Rule] /\ custom \in [Ids -> Rule] /\ told \in [Ids -> Rule]
  /\ golden \in {"asked", "ready", "failed"}
  /\ fetch \in [st: {"idle", "asked", "served", "failed"}, got: [Ids -> Rule]]
  /\ current \in BOOLEAN /\ removing \in BOOLEAN /\ drawer \in 0..2
  /\ editor \in [id: 0..2, rule: Rule, saving: BOOLEAN]
  /\ busy \subseteq Ids /\ crossed \subseteq Ids /\ writes \in 0..MaxWrites
  /\ out \subseteq [k: Kinds, id: Ids, rule: Rule, st: {"asked", "served"}]

Quiet(i) == i \notin crossed /\ \A w \in out : w.id # i

\* Once nothing is out, the page lists the rules as they are stored: an answer
\* dropped because a write landed meanwhile is not missed.
SettledIsServed ==
  (custom # Unknown /\ fetch.st = "idle") => \A i \in Ids : Quiet(i) => custom[i] = rows[i]

\* A rule stays as it was last reported switched, and keeps the text last
\* reported saved: although each write carries the whole rule, a switch does
\* not undo a save nor a save a switch (exception: a rule edited while its
\* switch waited).
NothingUndone == \A i \in Ids : Quiet(i) => rows[i] = told[i]

==============================================================================
