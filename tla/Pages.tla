-------------------------------- MODULE Pages --------------------------------
(*****************************************************************************)
(* The pages of the browser that keep a copy of what the service holds and  *)
(* work on it: the review of an import (ReviewBatch), the register of       *)
(* invoices (Register), the invoices waiting for an approval                *)
(* (ApprovalQueue), the team screens (TeamDesk), the approval policies      *)
(* (PolicyDesk), the rules of a company (RulesDesk), the steps of a policy  *)
(* (PolicyTree), the review of a read document (ExtractionDesk), the blog   *)
(* of the support console (BlogDesk), the rule sets of the support console  *)
(* (RuleSetDesk). They share no state, so a behaviour follows one of them   *)
(* and the others stay as they began.                                       *)
(*****************************************************************************)
EXTENDS Naturals, FiniteSets, Sequences

CONSTANTS
  Count, Already, PageSize, Views, MaxChanges, \* of ReviewBatch
  Registered, MaxOthers, \* of Register
  Mine, Refused, MaxLoads, \* of ApprovalQueue
  MaxTeamWrites, MaxSeats, \* of TeamDesk
  MaxEdits, MaxSends, MaxMounts, \* of PolicyDesk
  MaxRuleWrites, \* of RulesDesk
  MaxNodes, \* of PolicyTree
  Fields, Ambiguous, Notes, MaxEntries, MaxVisits, \* of ExtractionDesk
  MaxPosts, MaxDrafts, MaxSignIns, \* of BlogDesk
  Keys, FirstRules, MaxTyped, MaxCalls, MaxDays  \* of RuleSetDesk

VARIABLE flow \* the page a behaviour follows

\* ReviewBatch
VARIABLES reviewServer, reviewMoves, changes, shell, reviewTab, filter, page,
          reviewShown, reviewSelected, reviewPhase, reviewSend, edit,
          reviewArmedFor, reviewFloor

\* Register
VARIABLES regServer, regMoves, others, turns, query, regList, held, live, tick,
          regSelected, regPhase, regSend, regArmedFor, regFloor

\* ApprovalQueue
VARIABLES waiting, queueStored, queueList, loads, queueSelected, queuePhase,
          todo, wire, report, results, queueArmedFor, seat

\* TeamDesk
VARIABLES teamStored, teamShown, teamRead, teamOut, teamTab, dialog, teamTold,
          teamCrossed, teamWrites, seats

\* PolicyDesk
VARIABLES policyRows, copy, force, policyRead, policyOut, builder, saved,
          sealed, policyCrossed, edits, sends, mounts

\* RulesDesk
VARIABLES rulesRows, custom, golden, fetch, current, rulesDrawer, rulesEditor,
          busy, removing, rulesOut, rulesTold, rulesCrossed, rulesWrites

\* PolicyTree
VARIABLES lanes, type, treeSelected, treeArmed, treeDrag, sent

\* ExtractionDesk
VARIABLES extractStored, filed, job, detail, merged, entries, extractRows,
          extractArmed, extractDrag, save, originals, import, made, last, done,
          extractCrossed, extractBehind, visits

\* BlogDesk
VARIABLES posts, blogReading, blogList, blogEditor, dirty, confirm, op, kept,
          me, restored, by, work, blogBehind, blogCrossed, stray, unkept,
          signIns

\* RuleSetDesk
VARIABLES sets, today, rail, railAsked, setsSelected, setsList, setsReading,
          asked, setsDrawer, form, question, publish, switch, call, setsBehind,
          typed, calls

Review == INSTANCE ReviewBatch WITH
          server <- reviewServer, moves <- reviewMoves, tab <- reviewTab,
          shown <- reviewShown, selected <- reviewSelected,
          phase <- reviewPhase, send <- reviewSend, armedFor <- reviewArmedFor,
          floor <- reviewFloor
Reg == INSTANCE Register WITH
          server <- regServer, moves <- regMoves, list <- regList,
          selected <- regSelected, phase <- regPhase, send <- regSend,
          armedFor <- regArmedFor, floor <- regFloor, Count <- Registered
Queue == INSTANCE ApprovalQueue WITH
          stored <- queueStored, list <- queueList, selected <- queueSelected,
          phase <- queuePhase, armedFor <- queueArmedFor
Team == INSTANCE TeamDesk WITH
          stored <- teamStored, shown <- teamShown, read <- teamRead,
          out <- teamOut, tab <- teamTab, told <- teamTold,
          crossed <- teamCrossed, writes <- teamWrites,
          MaxWrites <- MaxTeamWrites
Policy == INSTANCE PolicyDesk WITH
          rows <- policyRows, read <- policyRead, out <- policyOut,
          crossed <- policyCrossed
Rules == INSTANCE RulesDesk WITH
          rows <- rulesRows, drawer <- rulesDrawer, editor <- rulesEditor,
          out <- rulesOut, told <- rulesTold, crossed <- rulesCrossed,
          writes <- rulesWrites, MaxWrites <- MaxRuleWrites
Tree == INSTANCE PolicyTree WITH
          selected <- treeSelected, armed <- treeArmed, drag <- treeDrag
Extract == INSTANCE ExtractionDesk WITH
          stored <- extractStored, rows <- extractRows, armed <- extractArmed,
          drag <- extractDrag, crossed <- extractCrossed,
          behind <- extractBehind
Blog == INSTANCE BlogDesk WITH
          reading <- blogReading, list <- blogList, editor <- blogEditor,
          behind <- blogBehind, crossed <- blogCrossed
Sets == INSTANCE RuleSetDesk WITH
          selected <- setsSelected, list <- setsList, reading <- setsReading,
          drawer <- setsDrawer, behind <- setsBehind

reviewVars == <<reviewServer, reviewMoves, changes, shell, reviewTab, filter,
                page, reviewShown, reviewSelected, reviewPhase, reviewSend,
                edit, reviewArmedFor, reviewFloor>>
regVars == <<regServer, regMoves, others, turns, query, regList, held, live,
             tick, regSelected, regPhase, regSend, regArmedFor, regFloor>>
queueVars == <<waiting, queueStored, queueList, loads, queueSelected,
               queuePhase, todo, wire, report, results, queueArmedFor, seat>>
teamVars == <<teamStored, teamShown, teamRead, teamOut, teamTab, dialog,
              teamTold, teamCrossed, teamWrites, seats>>
policyVars == <<policyRows, copy, force, policyRead, policyOut, builder, saved,
                sealed, policyCrossed, edits, sends, mounts>>
rulesVars == <<rulesRows, custom, golden, fetch, current, rulesDrawer,
               rulesEditor, busy, removing, rulesOut, rulesTold, rulesCrossed,
               rulesWrites>>
treeVars == <<lanes, type, treeSelected, treeArmed, treeDrag, sent>>
extractVars == <<extractStored, filed, job, detail, merged, entries,
                 extractRows, extractArmed, extractDrag, save, originals,
                 import, made, last, done, extractCrossed, extractBehind,
                 visits>>
blogVars == <<posts, blogReading, blogList, blogEditor, dirty, confirm, op,
              kept, me, restored, by, work, blogBehind, blogCrossed, stray,
              unkept, signIns>>
setsVars == <<sets, today, rail, railAsked, setsSelected, setsList, setsReading,
              asked, setsDrawer, form, question, publish, switch, call,
              setsBehind, typed, calls>>
vars == <<flow, reviewVars, regVars, queueVars, teamVars, policyVars, rulesVars,
          treeVars, extractVars, blogVars, setsVars>>

ASSUME PageAssumption ==
  /\ Review!ReviewAssumption
  /\ Reg!RegisterAssumption
  /\ Queue!QueueAssumption
  /\ Team!TeamAssumption
  /\ Policy!PolicyAssumption
  /\ Rules!RulesAssumption
  /\ Tree!TreeAssumption
  /\ Extract!DeskAssumption
  /\ Blog!BlogAssumption
  /\ Sets!RuleSetAssumption

Init ==
  /\ flow \in {"review", "register", "approvals", "team", "policies", "rules",
               "tree", "extraction", "blog", "rulesets"}
  /\ Review!Init
  /\ Reg!Init
  /\ Queue!Init
  /\ Team!Init
  /\ Policy!Init
  /\ Rules!Init
  /\ Tree!Init
  /\ Extract!Init
  /\ Blog!Init
  /\ Sets!Init

ReviewStep ==
  /\ flow = "review" /\ Review!Next
  /\ UNCHANGED <<flow, regVars, queueVars, teamVars, policyVars, rulesVars,
                 treeVars, extractVars, blogVars, setsVars>>

RegStep ==
  /\ flow = "register" /\ Reg!Next
  /\ UNCHANGED <<flow, reviewVars, queueVars, teamVars, policyVars, rulesVars,
                 treeVars, extractVars, blogVars, setsVars>>

QueueStep ==
  /\ flow = "approvals" /\ Queue!Next
  /\ UNCHANGED <<flow, reviewVars, regVars, teamVars, policyVars, rulesVars,
                 treeVars, extractVars, blogVars, setsVars>>

TeamStep ==
  /\ flow = "team" /\ Team!Next
  /\ UNCHANGED <<flow, reviewVars, regVars, queueVars, policyVars, rulesVars,
                 treeVars, extractVars, blogVars, setsVars>>

PolicyStep ==
  /\ flow = "policies" /\ Policy!Next
  /\ UNCHANGED <<flow, reviewVars, regVars, queueVars, teamVars, rulesVars,
                 treeVars, extractVars, blogVars, setsVars>>

RulesStep ==
  /\ flow = "rules" /\ Rules!Next
  /\ UNCHANGED <<flow, reviewVars, regVars, queueVars, teamVars, policyVars,
                 treeVars, extractVars, blogVars, setsVars>>

TreeStep ==
  /\ flow = "tree" /\ Tree!Next
  /\ UNCHANGED <<flow, reviewVars, regVars, queueVars, teamVars, policyVars,
                 rulesVars, extractVars, blogVars, setsVars>>

ExtractStep ==
  /\ flow = "extraction" /\ Extract!Next
  /\ UNCHANGED <<flow, reviewVars, regVars, queueVars, teamVars, policyVars,
                 rulesVars, treeVars, blogVars, setsVars>>

BlogStep ==
  /\ flow = "blog" /\ Blog!Next
  /\ UNCHANGED <<flow, reviewVars, regVars, queueVars, teamVars, policyVars,
                 rulesVars, treeVars, extractVars, setsVars>>

SetsStep ==
  /\ flow = "rulesets" /\ Sets!Next
  /\ UNCHANGED <<flow, reviewVars, regVars, queueVars, teamVars, policyVars,
                 rulesVars, treeVars, extractVars, blogVars>>

Next ==
  \/ ReviewStep
  \/ RegStep
  \/ QueueStep
  \/ TeamStep
  \/ PolicyStep
  \/ RulesStep
  \/ TreeStep
  \/ ExtractStep
  \/ BlogStep
  \/ SetsStep

Spec == Init /\ [][Next]_vars

------------------------------------------------------------------------------
(* The properties: what must hold of a state or of a step of a page is stated *)
(* in its module. *)

\* All of them keep their shape.
TypeOK ==
  /\ flow = "review" => Review!TypeOK
  /\ flow = "register" => Reg!TypeOK
  /\ flow = "approvals" => Queue!TypeOK
  /\ flow = "team" => Team!TypeOK
  /\ flow = "policies" => Policy!TypeOK
  /\ flow = "rules" => Rules!TypeOK
  /\ flow = "tree" => Tree!TypeOK
  /\ flow = "extraction" => Extract!TypeOK
  /\ flow = "blog" => Blog!TypeOK
  /\ flow = "rulesets" => Sets!TypeOK

\* What a page offers once its own action was acknowledged: never what that
\* action has already been done to.
NothingOfferedTwice ==
  /\ flow = "review" => Review!NothingOfferedTwice
  /\ flow = "register" => Reg!NothingOfferedTwice
  /\ flow = "approvals" => Queue!NothingOfferedTwice

\* What a confirmed prompt sends: what it counted when it was armed. Of the
\* screens without one: an answer, a box or a form reaches nothing but what it
\* was begun for.
SendsWhatWasArmed ==
  [][/\ flow = "review" => Review!SendsWhatWasArmed
     /\ flow = "register" => Reg!SendsWhatWasArmed
     /\ flow = "approvals" => Queue!SendsWhatWasArmed
     /\ flow = "extraction" => Extract!SendsWhatWasArmed
     /\ flow = "blog" => Blog!SendsWhatWasArmed
     /\ flow = "rulesets" => Sets!SendsWhatWasArmed]_vars

\* Once nothing is out, the copy on the screen is what the service holds.
SettledIsServed ==
  /\ flow = "team" => Team!SettledIsServed
  /\ flow = "policies" => Policy!SettledIsServed
  /\ flow = "rules" => Rules!SettledIsServed
  /\ flow = "extraction" => Extract!SettledIsServed
  /\ flow = "blog" => Blog!SettledIsServed
  /\ flow = "rulesets" => Sets!SettledIsServed

\* What was reported as done is not taken back by a later write, although each
\* carries more than the user changed.
NothingUndone ==
  /\ flow = "team" => Team!NothingUndone
  /\ flow = "policies" => Policy!NothingUndone
  /\ flow = "rules" => Rules!NothingUndone
  /\ flow = "blog" => Blog!NothingUndone

\* What a publication of a policy, or of a rule set, puts in force.
PublishesWhatIsShown ==
  [][/\ flow = "policies" => Policy!PublishesWhatIsShown
     /\ flow = "rulesets" => Sets!PublishesWhatIsShown]_vars

\* Where a step of a policy lands, and what a placement leaves alone.
PlacedWhereShown == [][flow = "tree" => Tree!PlacedWhereShown]_vars

==============================================================================
