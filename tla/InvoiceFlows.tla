---------------------------- MODULE InvoiceFlows ----------------------------
(***************************************************************************)
(* The two screens on which an invoice is made and worked on, side by      *)
(* side: the import and its form (ImportRun), and the page of one invoice  *)
(* (InvoiceDetail). Both wait for the work of others, and what they        *)
(* promise of it takes fairness. They share no state, so a behaviour       *)
(* follows one of them and the other stays as it began.                    *)
(***************************************************************************)
EXTENDS Naturals, FiniteSets

CONSTANTS
  Clients,    \* the companies of the switcher
  Sheets,     \* bound: spreadsheets the first company has to pick from
  Documents,  \* bound: documents it has to pick from
  MaxVer, MaxOpen, Own \* of InvoiceDetail

VARIABLE flow \* the screen a behaviour follows

\* ImportRun
VARIABLES active, view, step, entity, draftOf, picked, stored, groups, mapped, run,
          batches, opened, hand, asked, lock, jobs, wire, tail, still

\* InvoiceDetail
VARIABLES server, load, data, live, tick, reread, req, armed, form, follow, stale,
          refused, visible, floor, mine, late

\* The first company picks documents beside a spreadsheet, the others spreadsheets.
First == CHOOSE c \in Clients : TRUE
Files == [who: {First}, kind: {"doc"}, n: 1..Documents]
           \cup [who: {First}, kind: {"sheet"}, n: {1}]
           \cup [who: Clients \ {First}, kind: {"sheet"}, n: 1..Sheets]

Import == INSTANCE ImportRun WITH Clients <- Clients, Files <- Files
Invoice == INSTANCE InvoiceDetail WITH MaxVer <- MaxVer, MaxOpen <- MaxOpen, Own <- Own

importVars == <<active, view, step, entity, draftOf, picked, stored, groups, mapped,
                run, batches, opened, hand, asked, lock, jobs, wire, tail, still>>
invoiceVars == <<server, load, data, live, tick, reread, req, armed, form, follow, stale,
                 refused, visible, floor, mine, late>>
vars == <<flow, importVars, invoiceVars>>

ASSUME FlowAssumption ==
  /\ Sheets \in Nat /\ Documents \in Nat
  /\ Import!ImportAssumption /\ Invoice!DetailAssumption

\* The screen that is not followed stays in one of its initial states.
Init ==
  /\ flow \in {"import", "invoice"}
  /\ Import!Init /\ Invoice!Init
  /\ flow = "import" => server.st = "draft" /\ ~server.bad

ImportStep == flow = "import" /\ Import!Next /\ UNCHANGED <<flow, invoiceVars>>
InvoiceStep == flow = "invoice" /\ Invoice!Next /\ UNCHANGED <<flow, importVars>>

Next == ImportStep \/ InvoiceStep

ImportWork ==
  flow = "import" /\ (Import!RunLands \/ \E j \in jobs : Import!Operation(j))
    /\ UNCHANGED <<flow, invoiceVars>>

OnPage(a) == flow = "invoice" /\ a /\ UNCHANGED <<flow, importVars>>

\* The requests of a run end, and so do those of the page's poll, whose clock
\* goes on.
Spec ==
  /\ Init /\ [][Next]_vars
  /\ WF_vars(ImportWork)
  /\ WF_vars(OnPage(Invoice!Tick))
  /\ SF_vars(OnPage(Invoice!TickServed)) /\ SF_vars(OnPage(Invoice!TickAnswered))

------------------------------------------------------------------------------
(* The properties of the two, stated in their modules. *)

\* Both keep their shape.
TypeOK == Import!TypeOK /\ Invoice!TypeOK

\* ImportRun: what is created, and what is shown, is of one company.
ToTheirClient  == Import!ToTheirClient
OneClientShown == Import!OneClientShown

\* ImportRun: the lock of its four operations, and the end of a run.
OneOperation == Import!OneOperation
ProgressEnds == Import!ProgressEnds

\* InvoiceDetail: what the page shows after its own writes, and over time.
ShowsOwnWrites == Invoice!ShowsOwnWrites
OwnEditFlagged == Invoice!OwnEditFlagged
NeverGoesBack  == Invoice!NeverGoesBack
WatchedSettles == Invoice!WatchedSettles

==============================================================================
