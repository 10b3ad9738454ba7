---------------------------- MODULE RuleSetDesk ----------------------------
(*****************************************************************************)
(* The rule sets in the support console: the rail of versions, the rules of  *)
(* the selected one, the kill switch, the draft and its publication. One     *)
(* person edits the draft. A switch and a draft call may be out at the same  *)
(* time, and every answer reads again what was selected when it was asked    *)
(* for. A layer that is open hides what is under it. What a rule says is the *)
(* number of its last edit. The test of a draft writes nothing and is left   *)
(* out, as are the sessions.                                                 *)
(*****************************************************************************)
EXTENDS Integers, Sequences, FiniteSets

CONSTANTS
  Keys,       \* the keys of rules
  FirstRules, \* those in the first version
  MaxTyped,   \* bound: edits in a form
  MaxCalls,   \* bound: switches and draft calls that are sent
  MaxDays     \* bound: midnights that pass

VARIABLES
  sets,      \* what the service holds: the versions, each with its rules
  today,     \* the date
  rail,      \* the states of the versions on the screen
  railAsked, \* they are being read
  selected,  \* the version selected, 0 for the one in force
  list,      \* the rules last read, and of which version
  reading,   \* the state of that read: "loading", "ready" or "error"
  asked,     \* the version it was asked for
  drawer,    \* the drawer: Closed, a rule, or the new rule
  form,      \* what it holds while it is rendered, or Unmounted
  question,  \* the switch that waits for a reason, or NoQuestion
  publish,   \* the publication that waits for a date, or NoPublish
  switch,    \* the switch that is out, or Free
  call,      \* the draft call that is out, or Free
  behind,    \* "rail", "list": not read since a lost answer, a midnight or an error
  typed,     \* edits so far
  calls      \* calls so far

screen == <<rail, railAsked, selected, list, reading, asked>>
layers == <<drawer, form, question, publish>>
counts == <<typed, calls>>
desk == <<sets, today, screen, layers, switch, call, behind, counts>>

RuleSetAssumption ==
  /\ IsFiniteSet(Keys) /\ FirstRules \subseteq Keys /\ FirstRules # {}
  /\ MaxTyped \in Nat /\ MaxCalls \in Nat /\ MaxDays \in Nat

Gone == [text |-> -1, on |-> FALSE]
Rule == [text : 0..MaxTyped, on : BOOLEAN] \cup {Gone}
Rules == [Keys -> Rule]
Versions == 0..(2 + MaxCalls)
Closed == [kind |-> "closed"]
Unmounted == [text |-> -2]
NoQuestion == [key |-> "none"]
NoPublish == [rows |-> "none"]
Free == [kind |-> "free"]
NoList == [version |-> 0, rules |-> [k \in Keys |-> Gone]]
Fresh == [text |-> 0, on |-> TRUE]

\* A draft was opened before.
Init ==
  /\ LET first == [k \in Keys |-> IF k \in FirstRules THEN Fresh ELSE Gone]
     IN sets = <<[sealed |-> TRUE, from |-> 0, rules |-> first], [sealed |-> FALSE, from |-> -1, rules |-> first]>>
  /\ today = 0
  /\ rail = <<>> /\ railAsked = TRUE /\ selected = 0
  /\ list = NoList /\ reading = "loading" /\ asked = 0
  /\ drawer = Closed /\ form = Unmounted /\ question = NoQuestion /\ publish = NoPublish
  /\ switch = Free /\ call = Free /\ behind = {"rail", "list"} /\ typed = 0 /\ calls = 0

TypeOK ==
  /\ \A v \in DOMAIN sets : sets[v] \in [sealed : BOOLEAN, from : -1..MaxDays, rules : Rules]
  /\ today \in 0..MaxDays
  /\ rail \in Seq({"draft", "in_force", "scheduled", "superseded"}) /\ railAsked \in BOOLEAN
  /\ selected \in Versions /\ asked \in Versions /\ reading \in {"loading", "ready", "error"}
  /\ list \in [version : Versions, rules : Rules]
  /\ drawer \in {Closed, [kind |-> "new"]} \cup [kind : {"rule"}, key : Keys]
  /\ form = Unmounted \/ form \in [text : 0..MaxTyped, on : BOOLEAN, base : Rule, aged : BOOLEAN]
  /\ question = NoQuestion \/ question \in [key : Keys, on : BOOLEAN]
  /\ publish = NoPublish \/ publish \in [rows : {"loading", "error", "ready"}, of : Versions, draft : Rules,
                                         force : Rules, moved : BOOLEAN]
  /\ switch = Free \/ switch \in [kind : {"switch"}, key : Keys, on : BOOLEAN, at : Versions]
  /\ call = Free \/ (call.kind \in {"open", "add", "put", "remove", "publish"} /\ call.at \in Versions)
  /\ behind \subseteq {"rail", "list"} /\ typed \in 0..MaxTyped /\ calls \in 0..MaxCalls

------------------------------------------------------------------------------
(* What the service holds. *)

\* The last one that took effect, and of the same day the highest.
InForce ==
  CHOOSE v \in DOMAIN sets :
    /\ sets[v].sealed /\ sets[v].from <= today
    /\ \A w \in DOMAIN sets :
         (sets[w].sealed /\ sets[w].from <= today) =>
           sets[w].from < sets[v].from \/ (sets[w].from = sets[v].from /\ w <= v)

StateOf(v) ==
  CASE ~sets[v].sealed -> "draft"
    [] sets[v].sealed /\ v = InForce -> "in_force"
    [] sets[v].sealed /\ v # InForce /\ sets[v].from > today -> "scheduled"
    [] OTHER -> "superseded"

Drafts == {v \in DOMAIN sets : ~sets[v].sealed}
TheDraft == CHOOSE v \in Drafts : TRUE

\* What each call does to it, unless it is refused.
CanFlip == sets[InForce].rules[switch.key] # Gone /\ sets[InForce].rules[switch.key].on # switch.on
Flips == CanFlip /\ sets' = [sets EXCEPT ![InForce].rules[switch.key].on = switch.on]

CanWrite ==
  CASE call.kind = "open" -> Drafts = {}
    [] call.kind = "add" -> Drafts # {} /\ sets[TheDraft].rules[call.key] = Gone
    [] call.kind \in {"put", "remove"} -> Drafts # {} /\ sets[TheDraft].rules[call.key] # Gone
    [] call.kind = "publish" ->
         Drafts # {} /\ call.from >= today /\ \E k \in Keys : sets[TheDraft].rules[k] # Gone
Writes ==
  /\ CanWrite
  /\ sets' = CASE call.kind = "open" ->
                    Append(sets, [sealed |-> FALSE, from |-> -1, rules |-> sets[InForce].rules])
               [] call.kind \in {"add", "put", "remove"} ->
                    [sets EXCEPT ![TheDraft].rules[call.key] = call.rule]
               [] call.kind = "publish" ->
                    [sets EXCEPT ![TheDraft].sealed = TRUE, ![TheDraft].from = call.from]

Midnight ==
  /\ today < MaxDays /\ today' = today + 1 /\ behind' = {"rail", "list"}
  /\ publish' = IF publish = NoPublish THEN publish ELSE [publish EXCEPT !.moved = TRUE]
  /\ call' = IF call.kind = "publish" THEN [call EXCEPT !.moved = TRUE] ELSE call
  /\ UNCHANGED <<sets, screen, drawer, form, question, switch, counts>>

------------------------------------------------------------------------------
(* What the screen shows of it. *)

\* The last rules that were read stay while others are, and go on an error.
Shown == IF reading = "error" THEN NoList ELSE list
Listed(k) == Shown.rules[k] # Gone

ListState ==
  IF Shown.version \in DOMAIN rail THEN rail[Shown.version]
  ELSE IF selected = 0 /\ Shown.version # 0 THEN "in_force" ELSE "none"
onDraft == ListState = "draft"
switchable == ListState = "in_force"
rulesBusy == switch # Free \/ reading = "loading"

draftVersion == {v \in DOMAIN rail : rail[v] = "draft"}

Rendered ==
  CASE drawer.kind = "rule" -> Listed(drawer.key)
    [] drawer.kind = "new" -> onDraft
    [] OTHER -> FALSE

\* A form is filled from the rule as it is listed when it is first rendered,
\* and is kept while it stays rendered.
Filled ==
  IF drawer.kind = "new" THEN [text |-> 0, on |-> TRUE, base |-> Gone, aged |-> FALSE]
  ELSE LET r == Shown.rules[drawer.key]
       IN [text |-> r.text, on |-> r.on, base |-> r, aged |-> ~onDraft \/ reading # "ready" \/ "list" \in behind]

Renders ==
  form' = IF ~Rendered' THEN Unmounted
          ELSE IF form # Unmounted /\ drawer' = drawer THEN form ELSE Filled'

\* Under no layer, in the drawer, and in the publication.
PublishOpen == publish # NoPublish /\ draftVersion # {}
OnPage == question = NoQuestion /\ ~PublishOpen /\ ~Rendered
InDrawer == question = NoQuestion /\ ~PublishOpen /\ Rendered
InPublish == question = NoQuestion /\ PublishOpen

------------------------------------------------------------------------------
(* The reads. A read that is asked for takes the place of the one before. *)

Asks(v) == reading' = "loading" /\ asked' = v
SelectTo(v) ==
  /\ selected' = v
  /\ IF v = selected THEN UNCHANGED <<reading, asked>> ELSE Asks(v)

RulesRead ==
  /\ reading = "loading"
  /\ \/ LET v == IF asked = 0 THEN InForce ELSE asked
        IN list' = [version |-> v, rules |-> sets[v].rules] /\ reading' = "ready" /\ behind' = behind \ {"list"}
     \/ reading' = "error" /\ UNCHANGED <<list, behind>>
  /\ asked' = 0
  /\ UNCHANGED <<sets, today, rail, railAsked, selected, drawer, question, publish, switch, call, counts>>
  /\ Renders

\* The rail that was read last stays through an error.
VersionsRead ==
  /\ railAsked /\ railAsked' = FALSE
  /\ \/ rail' = [v \in DOMAIN sets |-> StateOf(v)] /\ behind' = behind \ {"rail"}
     \/ behind' = behind \cup {"rail"} /\ UNCHANGED rail
  /\ UNCHANGED <<sets, today, selected, list, reading, asked, drawer, question, publish, switch, call, counts>>
  /\ Renders

Retry ==
  /\ OnPage /\ reading = "error" /\ Asks(selected)
  /\ UNCHANGED <<sets, today, rail, railAsked, selected, list, drawer, question, publish, switch, call, behind, counts>>
  /\ Renders

selectVersion(v) ==
  /\ OnPage /\ v \in DOMAIN rail
  /\ SelectTo(IF rail[v] = "in_force" THEN 0 ELSE v) /\ drawer' = Closed
  /\ UNCHANGED <<sets, today, rail, railAsked, list, question, publish, switch, call, behind, counts>>
  /\ Renders

------------------------------------------------------------------------------
(* The drawer. *)

Opens(d) ==
  /\ drawer' = d
  /\ UNCHANGED <<sets, today, screen, question, publish, switch, call, behind, counts>>
  /\ Renders

OpenRule(k) == OnPage /\ Listed(k) /\ Opens([kind |-> "rule", key |-> k])
AddRule == OnPage /\ onDraft /\ call = Free /\ Opens([kind |-> "new"])
Close == InDrawer /\ Opens(Closed)

\* The box that switches the rule on is left as it is.
Type ==
  /\ InDrawer /\ onDraft /\ typed < MaxTyped /\ typed' = typed + 1
  /\ form' = [form EXCEPT !.text = typed + 1]
  /\ UNCHANGED <<sets, today, screen, drawer, question, publish, switch, call, behind, calls>>

------------------------------------------------------------------------------
(* The switch. *)

Ask(k, b) ==
  /\ Listed(k) /\ ~rulesBusy /\ switchable
  /\ question' = [key |-> k, on |-> b]
  /\ UNCHANGED <<sets, today, screen, drawer, form, publish, switch, call, behind, counts>>
toggleRule(k) == OnPage /\ Ask(k, ~Shown.rules[k].on)
onKill(k) ==
  /\ InDrawer /\ drawer = [kind |-> "rule", key |-> k] /\ ~onDraft /\ Shown.rules[k].on
  /\ Ask(k, FALSE)

Back ==
  /\ question # NoQuestion /\ question' = NoQuestion
  /\ UNCHANGED <<sets, today, screen, drawer, form, publish, switch, call, behind, counts>>

doSwitch ==
  /\ question # NoQuestion /\ ~rulesBusy /\ switchable
  /\ calls < MaxCalls /\ calls' = calls + 1
  /\ switch' = [kind |-> "switch", key |-> question.key, on |-> question.on, at |-> selected]
  /\ UNCHANGED <<sets, today, screen, layers, call, behind, typed>>

\* Whatever diff was read compared with the rules before.
Moves == publish' = IF publish = NoPublish THEN publish ELSE [publish EXCEPT !.moved = TRUE]
CallMoves == call' = IF call.kind = "publish" THEN [call EXCEPT !.moved = TRUE] ELSE call

\* Taken, or refused as it was so already: read again. Any other failure, and
\* a lost answer, leave the question.
SwitchAnswered ==
  /\ switch # Free /\ switch' = Free /\ question' = NoQuestion /\ Asks(switch.at)
  /\ \/ Flips /\ Moves /\ CallMoves
     \/ ~CanFlip /\ UNCHANGED <<sets, publish, call>>
  /\ UNCHANGED <<today, rail, railAsked, selected, list, drawer, behind, counts>>
  /\ Renders

SwitchFails ==
  /\ switch # Free /\ switch' = Free
  /\ \/ Flips /\ Moves /\ CallMoves /\ behind' = behind \cup {"list"}
     \/ UNCHANGED <<sets, publish, call, behind>>
  /\ UNCHANGED <<today, screen, drawer, form, question, counts>>

------------------------------------------------------------------------------
(* The draft. *)

draftCall(c) ==
  /\ call = Free /\ calls < MaxCalls /\ calls' = calls + 1 /\ call' = c
  /\ UNCHANGED <<sets, today, screen, layers, switch, behind, typed>>

newDraft == OnPage /\ draftVersion = {} /\ draftCall([kind |-> "open", at |-> selected])

\* A new rule takes a key the list does not have.
saveDraftRule ==
  /\ InDrawer /\ onDraft
  /\ \E k \in Keys :
       /\ IF drawer.kind = "new" THEN ~Listed(k) ELSE k = drawer.key
       /\ draftCall([kind |-> IF drawer.kind = "new" THEN "add" ELSE "put", at |-> selected, key |-> k,
                     rule |-> [text |-> form.text, on |-> form.on], base |-> form.base, aged |-> form.aged])
removeFromDraft ==
  /\ InDrawer /\ onDraft /\ drawer.kind = "rule"
  /\ draftCall([kind |-> "remove", at |-> selected, key |-> drawer.key, rule |-> Gone,
                base |-> form.base, aged |-> form.aged])

openPublish ==
  /\ OnPage /\ draftVersion # {} /\ call = Free
  /\ \E v \in draftVersion :
       publish' = [rows |-> "loading", of |-> v, draft |-> NoList.rules, force |-> NoList.rules, moved |-> FALSE]
  /\ UNCHANGED <<sets, today, screen, drawer, form, question, switch, call, behind, counts>>

PublishRead ==
  /\ publish.rows = "loading"
  /\ \/ publish' = [publish EXCEPT !.rows = "ready", !.draft = sets[publish.of].rules,
                                   !.force = sets[InForce].rules, !.moved = FALSE]
     \/ publish' = [publish EXCEPT !.rows = "error"]
  /\ UNCHANGED <<sets, today, screen, drawer, form, question, switch, call, behind, counts>>

closePublish ==
  /\ InPublish /\ publish' = NoPublish
  /\ UNCHANGED <<sets, today, screen, drawer, form, question, switch, call, behind, counts>>

confirmPublish(from) ==
  /\ InPublish /\ publish.rows = "ready" /\ from >= today
  /\ draftCall([kind |-> "publish", at |-> selected, from |-> from, of |-> publish.of, draft |-> publish.draft,
                force |-> publish.force, moved |-> publish.moved])

reread == railAsked' = TRUE /\ Asks(call.at)

\* A call that is taken closes the drawer that is open by then, or the
\* publication.
DraftTaken ==
  /\ call # Free /\ call' = Free /\ Writes
  /\ railAsked' = TRUE
  /\ CASE call.kind = "open" -> SelectTo(Len(sets) + 1) /\ UNCHANGED <<drawer, publish>>
       [] call.kind \in {"add", "put", "remove"} ->
            Asks(call.at) /\ drawer' = Closed /\ UNCHANGED <<selected, publish>>
       [] call.kind = "publish" ->
            /\ publish' = NoPublish /\ UNCHANGED drawer
            /\ IF call.at = 0 THEN Asks(0) /\ UNCHANGED selected ELSE SelectTo(0)
  /\ UNCHANGED <<today, rail, list, question, switch, behind, counts>>
  /\ Renders

DraftRefused ==
  /\ call # Free /\ call' = Free /\ ~CanWrite /\ (call.kind = "publish" => call.from >= today) /\ reread
  /\ UNCHANGED <<sets, today, rail, selected, list, drawer, question, publish, switch, behind, counts>>
  /\ Renders

\* A date that has passed, another failure, or a lost answer.
DraftFails ==
  /\ call # Free /\ call' = Free
  /\ \/ /\ Writes /\ behind' = {"rail", "list"}
        /\ form' = IF form = Unmounted THEN form ELSE [form EXCEPT !.aged = TRUE]
     \/ UNCHANGED <<sets, behind, form>>
  /\ UNCHANGED <<today, screen, drawer, question, publish, switch, counts>>

Next ==
  \/ Midnight \/ RulesRead \/ VersionsRead \/ Retry
  \/ \E v \in 1..(2 + MaxCalls) : selectVersion(v)
  \/ \E k \in Keys : OpenRule(k) \/ toggleRule(k) \/ onKill(k)
  \/ AddRule \/ Close \/ Type \/ Back
  \/ doSwitch \/ SwitchAnswered \/ SwitchFails
  \/ newDraft \/ saveDraftRule \/ removeFromDraft
  \/ openPublish \/ PublishRead \/ closePublish
  \/ \E from \in 0..MaxDays : confirmPublish(from)
  \/ DraftTaken \/ DraftRefused \/ DraftFails

Spec == Init /\ [][Next]_desk

------------------------------------------------------------------------------
\* Once nothing is out, the table is the version it is headed with, the rail
\* calls each version what it is, and a form that was filled from the draft as
\* it was then goes over the rule the draft still holds. A call that was taken
\* is no excuse: not after one whose answer was lost, a midnight, or a failed
\* read, until that is read again.
SettledIsServed ==
  /\ (reading = "ready" /\ "list" \notin behind) => list.rules = sets[list.version].rules
  /\ (~railAsked /\ "rail" \notin behind) => rail = [v \in DOMAIN sets |-> StateOf(v)]
  /\ (InDrawer /\ onDraft /\ drawer.kind = "rule" /\ ~form.aged /\ ~railAsked /\ behind = {}) =>
       form.base = sets[TheDraft].rules[drawer.key]

Sealed(v) == v \in DOMAIN sets /\ ~sets[v].sealed /\ sets'[v].sealed

\* A publication seals the draft it named with the rules that were compared,
\* and what it switches back on was compared with the rules in force at that
\* moment. Not when a switch or a midnight came in between.
PublishesWhatIsShown ==
  \A v \in DOMAIN sets :
     Sealed(v) =>
       /\ call.of = v => sets'[v].rules = call.draft
       /\ (call.of = v /\ ~call.moved) => sets[InForce].rules = call.force

\* A switch is asked for on the table of the version in force alone, and a form
\* goes over no rule of the draft but the one it was filled from. Not when the
\* rules or the rail were behind or being read, nor from a form that was filled from another
\* version or while rules were being read, nor after an answer that was lost.
SendsWhatWasArmed ==
  /\ (switch = Free /\ switch' # Free /\ ~railAsked /\ behind = {}) => list.version = InForce
  /\ (call.kind \in {"put", "remove"} /\ ~call.aged /\ sets' # sets /\ call' = Free) =>
       sets[TheDraft].rules[call.key] = call.base
==============================================================================
