------------------------------ MODULE ImportRun ------------------------------
(***************************************************************************)
(* Creating invoices in the browser (App.tsx, lib/importRun.ts,            *)
(* lib/documentRun.ts): picking files, reading their columns, mapping      *)
(* them, the spreadsheet run that imports file after file, the document    *)
(* run that takes all its files through upload, extraction and import at   *)
(* once, and the form that files one invoice. The user may leave, start    *)
(* again or switch to another client company while any of these is out.    *)
(*                                                                         *)
(* runSeq is not modelled as a number: what the code compares it for is    *)
(* whether an operation was started under the current one, and that is     *)
(* the field fresh. A superseded operation goes on until it is settled.    *)
(***************************************************************************)
EXTENDS Naturals, FiniteSets

CONSTANTS
  Clients, \* the companies of the switcher
  Files    \* the files their users have to pick from: whose, its kind, its place

ImportAssumption ==
  /\ Clients # {}
  /\ Files \subseteq [who: Clients, kind: {"sheet", "doc"}, n: Nat]

VARIABLES
  active,  \* the company of the switcher
  view,    \* "create", "opened" or "other": the screen
  step,    \* createStep
  entity,  \* entityId: whom the import is for
  draftOf, \* the company the form's draft was seeded for
  picked,  \* pickedFiles
  stored,  \* the picked files that have their documentId
  groups,  \* the files the mapping groups speak of
  mapped,  \* every group has a column for invoice_number
  run,     \* the run on show
  batches, \* reviewBatchIds: the files whose imports are under review
  opened,  \* what the opened screen shows: whose it is, and who opened it
  hand,    \* handOffDocumentId: the document entered by hand
  asked,   \* the current lookup of a reading for the form
  lock,    \* reqInFlight and lockBy
  jobs,    \* the asynchronous functions that are under way
  wire,    \* the requests that will create invoices, until they are answered
  tail,    \* a settled run looking up the one invoice it made
  still    \* where the "still working" message stands

flow == <<picked, stored, groups, mapped>>
vars == <<active, view, step, entity, draftOf, flow, run, batches, opened, hand,
          asked, lock, jobs, wire, tail, still>>

NoFile == [who |-> "none", kind |-> "none", n |-> 0]

Steps    == {"upload", "mapping", "documents", "form", "review"}
Outcomes == {"pending", "imported", "failed"}
NoRun    == [status |-> "idle", at |-> <<>>]
NoTail   == [on |-> FALSE, at |-> <<>>]
Nothing  == [who |-> "none", by |-> "none"]
Free     == [op |-> "none", fresh |-> FALSE]

Held       == lock.op # "none"
FilesOf(j) == DOMAIN j.at
Active(r)  == r.status \in {"running", "finished"}

\* A file's outcome in the run: the stages before the answer count as pending.
Outcome(s) == IF s \in {"imported", "failed"} THEN s ELSE "pending"
Imported(at) == {f \in DOMAIN at : at[f] = "imported"}
Settled(at)  == \A f \in DOMAIN at : at[f] \in {"imported", "failed"}

\* runReducer and runStatus: finished when the last file is settled.
RunOf(at) ==
  [status |-> IF Settled(at) THEN "finished" ELSE "running",
   at     |-> [f \in DOMAIN at |-> Outcome(at[f])]]

Init ==
  /\ active = (CHOOSE c \in Clients : TRUE) /\ entity = active /\ draftOf = active
  /\ view = "other" /\ step = "upload"
  /\ picked = {} /\ stored = {} /\ groups = {} /\ mapped = FALSE
  /\ run = NoRun /\ batches = {} /\ opened = Nothing
  /\ hand = NoFile /\ asked = NoFile
  /\ lock = Free /\ jobs = {} /\ wire = {} /\ tail = NoTail /\ still = {}

------------------------------------------------------------------------------
(* Starting over. *)

\* runSeq moves: whatever is out belongs to an older one.
Superseded ==
  /\ jobs' = {[j EXCEPT !.fresh = FALSE] : j \in jobs}
  /\ lock' = [lock EXCEPT !.fresh = FALSE]
  /\ tail' = NoTail

ResetImport(c) ==
  /\ entity' = c
  /\ picked' = {} /\ stored' = {} /\ groups' = {} /\ mapped' = FALSE
  /\ run' = NoRun /\ batches' = {}
  /\ Superseded

\* Mutant: the answer of a reading asked for under another client is awaited.
HandDropped_StillAsked == hand' = NoFile /\ UNCHANGED asked

\* setHandOffDocumentId(null) and handOffReadSeq: a lookup under way is dropped.
HandDropped == hand' = NoFile /\ asked' = NoFile

SwitchClient(c) ==
  /\ c # active
  /\ active' = c /\ view' = "other" /\ opened' = Nothing
  /\ draftOf' = c /\ step' = "form"
  /\ HandDropped
  /\ ResetImport(c)
  /\ still' = {}
  /\ UNCHANGED wire

\* showStillWorking: the form has its own place for the message.
ShownAt(s, r) == IF s = "form" /\ ~Active(r) THEN "filing" ELSE "import"

OpenCreateBusy ==
  /\ Held /\ lock.fresh
  /\ view' = "create" /\ opened' = Nothing
  /\ step' = IF step = "review" /\ ~Active(run)
             THEN IF lock.op = "filing" THEN "form" ELSE "upload"
             ELSE step
  /\ still' = still \cup {ShownAt(step', run)}
  /\ UNCHANGED <<active, entity, draftOf, flow, run, batches, hand,
                 asked, lock, jobs, wire, tail>>

OpenCreate ==
  /\ ~(Held /\ lock.fresh)
  /\ view' = "create" /\ opened' = Nothing /\ step' = "upload" /\ draftOf' = active
  /\ HandDropped
  /\ ResetImport(active)
  /\ still' = {}
  /\ UNCHANGED <<active, wire>>

Restart ==
  /\ view = "create" /\ step = "review" /\ ~Active(run)
  /\ step' = "upload"
  /\ ResetImport(active)
  /\ still' = still \ {"import"}
  /\ UNCHANGED <<active, view, draftOf, opened, hand, asked, wire>>

Leave ==
  /\ view # "other"
  /\ view' = "other" /\ opened' = Nothing
  /\ UNCHANGED <<active, step, entity, draftOf, flow, run, batches, hand,
                 asked, lock, jobs, wire, tail, still>>

\* Back to /create in the browser's history: the entry carries no batches.
Return ==
  /\ view # "create"
  /\ view' = "create" /\ opened' = Nothing /\ batches' = {}
  /\ step' = IF step = "review" THEN "upload" ELSE step
  /\ UNCHANGED <<active, entity, draftOf, flow, run, hand, asked, lock,
                 jobs, wire, tail, still>>

------------------------------------------------------------------------------
(* The steps on screen. ImportProgress replaces them while a run is active. *)

At(s) == view = "create" /\ step \in s /\ ~Active(run)

\* A picked file is a new entry: no job, group or batch speaks of it.
Fresh(f) == f \notin picked \cup groups \cup batches \cup UNION {FilesOf(j) : j \in jobs}
InTurn(f) == \A g \in Files : (g.who = f.who /\ g.kind = f.kind /\ g.n < f.n) => ~Fresh(g)

AddPickedFile(f) ==
  /\ At({"upload", "documents"})
  /\ f.who = active /\ Fresh(f) /\ InTurn(f)
  /\ \A g \in picked : g.kind = f.kind
  /\ picked' = picked \cup {f}
  /\ UNCHANGED <<active, view, step, entity, draftOf, stored, groups, mapped, run,
                 batches, opened, hand, asked, lock, jobs, wire, tail, still>>

RemovePickedFile(f) ==
  /\ At({"upload", "documents"}) /\ f \in picked
  /\ picked' = picked \ {f} /\ stored' = stored \ {f}
  /\ UNCHANGED <<active, view, step, entity, draftOf, groups, mapped, run, batches,
                 opened, hand, asked, lock, jobs, wire, tail, still>>

BackToImport ==
  /\ At({"mapping"})
  /\ step' = "upload"
  /\ UNCHANGED <<active, view, entity, draftOf, flow, run, batches, opened, hand,
                 asked, lock, jobs, wire, tail, still>>

\* The mapping screen: nothing to map without groups.
MapScreen == At({"mapping"}) /\ groups # {}

\* assign: a column given to a field is taken from the one that had it, so
\* placing one may uncover invoice_number as well as cover it.
Assign ==
  /\ MapScreen
  /\ mapped' \in BOOLEAN
  /\ UNCHANGED <<active, view, step, entity, draftOf, picked, stored, groups, run,
                 batches, opened, hand, asked, lock, jobs, wire, tail, still>>

\* unmap, and the return to automatic suggestions, which never place it.
Unmap ==
  /\ MapScreen /\ mapped
  /\ mapped' = FALSE
  /\ UNCHANGED <<active, view, step, entity, draftOf, picked, stored, groups, run,
                 batches, opened, hand, asked, lock, jobs, wire, tail, still>>

SkipUpload ==
  /\ At({"upload", "documents"})
  /\ step' = "form"
  /\ HandDropped
  /\ UNCHANGED <<active, view, entity, draftOf, flow, run, batches, opened, lock,
                 jobs, wire, tail, still>>

\* A document whose run failed, or whose import is under review, has a button.
EnterByHand(f) ==
  /\ f.kind = "doc"
  /\ \/ At({"documents"}) /\ f \in DOMAIN run.at /\ run.at[f] = "failed"
     \/ At({"review"}) /\ f \in batches
  /\ asked' = f
  /\ UNCHANGED <<active, view, step, entity, draftOf, flow, run, batches, opened,
                 hand, lock, jobs, wire, tail, still>>

\* The reading, or the failure to get one, lands in the form.
ReadingLands ==
  /\ asked # NoFile
  /\ step' = "form" /\ hand' = asked /\ asked' = NoFile
  /\ UNCHANGED <<active, view, entity, draftOf, flow, run, batches, opened, lock,
                 jobs, wire, tail, still>>

------------------------------------------------------------------------------
(* The one lock of the four operations that call the server.               *)

\* Mutant: an operation only waits for another of its own kind.
Busy_SameOp(op) == Held /\ lock.op = op /\ lock.fresh

\* lockHeld: reqInFlight, whoever took it.
Busy(op) == Held

\* A click that finds the lock taken by something the user no longer sees.
Refused(op) ==
  /\ Busy(op)
  /\ still' = IF lock.op # op \/ ~lock.fresh THEN still \cup {ShownAt(step, run)} ELSE still
  /\ UNCHANGED <<active, view, step, entity, draftOf, flow, run, batches, opened,
                 hand, asked, lock, jobs, wire, tail>>

Takes(op, at, to) ==
  /\ ~Busy(op)
  /\ lock' = [op |-> op, fresh |-> TRUE]
  /\ jobs' = jobs \cup {[op |-> op, at |-> at, to |-> to, fresh |-> TRUE]}

Released(j) ==
  /\ jobs' = jobs \ {j} /\ lock' = Free
  /\ still' = {}

Stage(j, f, s) == jobs' = (jobs \ {j}) \cup {[j EXCEPT !.at[f] = s]}

\* Spreadsheets are taken one at a time, in the order they were picked;
\* documents go their ways at once.
Turn(j, f) ==
  /\ f \in FilesOf(j)
  /\ \A g \in FilesOf(j) :
       (f.kind = "sheet" /\ g.n < f.n) => j.at[g] \notin {"todo", "unread", "sent"}

------------------------------------------------------------------------------
(* readAllColumns. *)

MayRead == /\ At({"upload", "documents"})
           /\ picked # {} /\ \A f \in picked : f.kind = "sheet"

ReadColumns ==
  /\ MayRead
  /\ \/ Refused("preview")
     \/ /\ Takes("preview", [f \in picked |-> "todo"], entity)
        /\ still' = still \ {"import"}
        /\ UNCHANGED <<active, view, step, entity, draftOf, flow, run, batches,
                       opened, hand, asked, wire, tail>>

Previewed(j, f) ==
  /\ j.op = "preview" /\ Turn(j, f) /\ j.at[f] = "todo"
  /\ Stage(j, f, "read")
  /\ UNCHANGED <<active, view, step, entity, draftOf, flow, run, batches, opened,
                 hand, asked, lock, wire, tail, still>>

PreviewFails(j, f) ==
  /\ j.op = "preview" /\ Turn(j, f) /\ j.at[f] = "todo"
  /\ Released(j)
  /\ UNCHANGED <<active, view, step, entity, draftOf, flow, run, batches, opened,
                 hand, asked, wire, tail>>

\* Mutant: the files of the click are put back.
Attached_Clicked(j) == FilesOf(j)

\* attachDocumentIds: of the files picked by now, those that were read.
Attached(j) == picked \cap FilesOf(j)

PreviewAttaches(j) ==
  /\ j.op = "preview" /\ \A f \in FilesOf(j) : j.at[f] = "read"
  /\ stored' = Attached(j)
  /\ jobs' = (jobs \ {j}) \cup {[j EXCEPT !.at = [f \in FilesOf(j) |-> "stored"]]}
  /\ UNCHANGED <<active, view, step, entity, draftOf, picked, groups, mapped, run,
                 batches, opened, hand, asked, lock, wire, tail, still>>

\* Saved, suggested and doubted columns are in; nothing asks whose they are.
PreviewLands(j) ==
  /\ j.op = "preview" /\ \A f \in FilesOf(j) : j.at[f] = "stored"
  /\ groups' = FilesOf(j) /\ mapped' \in BOOLEAN
  /\ step' = "mapping" /\ run' = NoRun
  /\ Released(j)
  /\ UNCHANGED <<active, view, entity, draftOf, picked, stored, batches, opened,
                 hand, asked, wire, tail>>

------------------------------------------------------------------------------
(* The two runs. *)

\* A file whose columns were not read, or that no group maps, fails in its turn.
StartRun ==
  /\ MapScreen /\ mapped
  /\ \/ Refused("run")
     \/ /\ Takes("run", [f \in picked |-> IF f \in stored \cap groups THEN "todo" ELSE "unread"],
                 entity)
        /\ run' = RunOf([f \in picked |-> "todo"]) /\ tail' = NoTail
        /\ still' = still \ {"import"}
        /\ UNCHANGED <<active, view, step, entity, draftOf, flow, batches, opened,
                       hand, asked, wire>>

StartDocumentRun ==
  /\ At({"upload", "documents"}) /\ picked # {} /\ \A f \in picked : f.kind = "doc"
  /\ \/ Refused("run")
     \/ /\ Takes("run", [f \in picked |-> "upload"], entity)
        /\ run' = RunOf([f \in picked |-> "todo"]) /\ tail' = NoTail
        /\ step' = "documents"
        /\ still' = still \ {"import"}
        /\ UNCHANGED <<active, view, entity, draftOf, flow, batches, opened, hand,
                       asked, wire>>

\* Mutant: the import asks for the company when its turn comes.
SentTo_Now(j) == entity

\* entityId as the run started with it.
SentTo(j) == j.to

Import(f, j) == [file |-> f, whose |-> {f.who}, to |-> SentTo(j)]

Sends(j, f) ==
  /\ j.op = "run" /\ Turn(j, f)
  /\ j.at[f] \in {"todo", "polled"}
  /\ Stage(j, f, "sent")
  /\ wire' = wire \cup {Import(f, j)}
  /\ UNCHANGED <<active, view, step, entity, draftOf, flow, run, batches, opened,
                 hand, asked, lock, tail, still>>

\* show: the run's own state, if it is still the current one. The document
\* run settles its files when all of them are through.
Show(j, f, s) ==
  run' = IF j.fresh /\ f.kind = "sheet" THEN RunOf([j.at EXCEPT ![f] = s]) ELSE run

Answered(j, f, s) ==
  /\ j.op = "run" /\ f \in FilesOf(j) /\ j.at[f] = "sent"
  /\ Stage(j, f, s) /\ Show(j, f, s)
  /\ wire' = {w \in wire : w.file # f}
  /\ UNCHANGED <<active, view, step, entity, draftOf, flow, batches, opened, hand,
                 asked, lock, tail, still>>

FailsUnsent(j, f) ==
  /\ j.op = "run" /\ Turn(j, f) /\ j.at[f] \in {"unread", "upload", "polling"}
  /\ Stage(j, f, "failed") /\ Show(j, f, "failed")
  /\ UNCHANGED <<active, view, step, entity, draftOf, flow, batches, opened, hand,
                 asked, lock, wire, tail, still>>

\* A document is stored, and its extraction is asked for until it ends or the
\* budget is spent; a dead letter and the budget are failures of the file.
DocumentStep(j, f) ==
  /\ j.op = "run" /\ f \in FilesOf(j)
  /\ \/ j.at[f] = "upload" /\ Stage(j, f, "polling")
     \/ j.at[f] = "polling" /\ Stage(j, f, "polled")
  /\ UNCHANGED <<active, view, step, entity, draftOf, flow, run, batches, opened,
                 hand, asked, lock, wire, tail, still>>

RunEnds(j) ==
  /\ j.op = "run" /\ Settled(j.at)
  /\ Released(j)
  /\ IF j.fresh
     THEN run' = RunOf(j.at) /\ tail' = [on |-> TRUE, at |-> j.at]
     ELSE UNCHANGED <<run, tail>>
  /\ UNCHANGED <<active, view, step, entity, draftOf, flow, batches, opened, hand,
                 asked, wire>>

\* Mutant: a run that imported nothing keeps its status.
NothingImported_Stays == run' = run

\* markRunFailed: the steps come back, with the failures named.
NothingImported == run' = [run EXCEPT !.status = "failed"]

\* routeAfterRun and applyRoute, once the one invoice of a one-file run has
\* been looked up: its page if it has exactly one, the review otherwise.
RunLands ==
  /\ tail.on /\ tail' = NoTail
  /\ \/ /\ Imported(tail.at) = {}
        /\ NothingImported
        /\ UNCHANGED <<view, step, opened, batches>>
     \/ /\ Cardinality(DOMAIN tail.at) = 1
        /\ \E f \in Imported(tail.at) : opened' = [who |-> f.who, by |-> "run"]
        /\ view' = "opened" /\ run' = NoRun
        /\ UNCHANGED <<step, batches>>
     \/ /\ Imported(tail.at) # {}
        /\ batches' = Imported(tail.at) /\ step' = "review"
        /\ run' = [run EXCEPT !.status = "idle"]
        /\ UNCHANGED <<view, opened>>
  /\ UNCHANGED <<active, entity, draftOf, flow, hand, asked, lock, jobs, wire, still>>

------------------------------------------------------------------------------
(* The form. *)

Filed == [file |-> hand, to |-> active,
          whose |-> {draftOf} \cup (IF hand = NoFile THEN {} ELSE {hand.who})]

FileDraft ==
  /\ At({"form"})
  /\ \/ Refused("filing")
     \/ /\ Takes("filing", [f \in {hand} \ {NoFile} |-> "sent"], active)
        /\ wire' = wire \cup {Filed}
        /\ still' = still \ {"filing"}
        /\ UNCHANGED <<active, view, step, entity, draftOf, flow, run, batches,
                       opened, hand, asked, tail>>

\* onCreated shows the invoice, whatever company is on screen by now.
FilingAnswered(j) ==
  /\ j.op = "filing"
  /\ Released(j)
  /\ wire' = {w \in wire : w.file \notin FilesOf(j) \cup {NoFile}}
  /\ \/ view' = "opened" /\ opened' = [who |-> j.to, by |-> "filing"]
     \/ UNCHANGED <<view, opened>>
  /\ UNCHANGED <<active, step, entity, draftOf, flow, run, batches, hand, asked, tail>>

------------------------------------------------------------------------------
User ==
  \/ \E c \in Clients : SwitchClient(c)
  \/ OpenCreateBusy \/ OpenCreate \/ Restart \/ Leave \/ Return
  \/ \E f \in Files : AddPickedFile(f) \/ RemovePickedFile(f) \/ EnterByHand(f)
  \/ BackToImport \/ SkipUpload \/ Assign \/ Unmap
  \/ ReadColumns \/ StartRun \/ StartDocumentRun \/ FileDraft

Operation(j) ==
  \/ \E f \in FilesOf(j) :
       \/ Previewed(j, f) \/ PreviewFails(j, f)
       \/ Sends(j, f) \/ DocumentStep(j, f) \/ FailsUnsent(j, f)
       \/ \E s \in {"imported", "failed"} : Answered(j, f, s)
  \/ PreviewAttaches(j) \/ PreviewLands(j) \/ RunEnds(j) \/ FilingAnswered(j)

Next == User \/ ReadingLands \/ RunLands \/ \E j \in jobs : Operation(j)

\* Requests are answered or fail, and polling has a budget; nothing is assumed
\* of the user.
Spec == Init /\ [][Next]_vars /\ WF_vars(\E j \in jobs : Operation(j)) /\ WF_vars(RunLands)

------------------------------------------------------------------------------
(* Properties. *)

Stages == {"todo", "unread", "read", "stored", "upload", "polling", "polled", "sent",
           "imported", "failed"}

TypeOK ==
  /\ active \in Clients /\ entity \in Clients /\ draftOf \in Clients
  /\ view \in {"create", "opened", "other"} /\ step \in Steps
  /\ picked \subseteq Files /\ stored \subseteq picked /\ groups \subseteq Files
  /\ mapped \in BOOLEAN
  /\ run.status \in {"idle", "running", "finished", "failed"}
  /\ DOMAIN run.at \subseteq Files /\ \A f \in DOMAIN run.at : run.at[f] \in Outcomes
  /\ batches \subseteq Files /\ hand \in Files \cup {NoFile} /\ asked \in Files \cup {NoFile}
  /\ lock.op \in {"none", "preview", "run", "filing"}
  /\ \A j \in jobs : \A f \in FilesOf(j) : j.at[f] \in Stages
  /\ still \subseteq {"import", "filing"}

\* Nothing is created for a company that it was not picked, read or typed for,
\* though the user switches companies between the files of a run.
ToTheirClient == \A w \in wire : w.whose = {w.to}

\* All that the flow shows belongs to the company of the switcher: the files,
\* the run and its review, the document entered by hand and what a run opened.
\* The columns of a late preview are the exception the source names, and an
\* invoice filed before the switch opens under the company it was filed for.
OneClientShown ==
  /\ \A f \in picked \cup DOMAIN run.at \cup batches \cup ({hand, asked} \ {NoFile}) :
       f.who = active
  /\ opened.by = "run" => opened.who = active

\* One operation at a time, so none is sent twice by a second click or by the
\* button of another step, and a message about waiting never outlives the wait.
OneOperation ==
  /\ Cardinality(jobs) <= 1
  /\ jobs = {} <=> ~Held
  /\ still # {} => Held

\* The progress screen, which hides every button, goes away.
ProgressEnds == Active(run) ~> ~Active(run)

==============================================================================
