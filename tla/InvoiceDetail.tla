--------------------------- MODULE InvoiceDetail ---------------------------
(* One invoice page (frontend/app/src/components/InvoiceDetail.tsx) beside   *)
(* everybody else who moves the same invoice: the load, the two-second poll, *)
(* the re-read after a refused approval, and up to eight kinds of request    *)
(* of the page's own, each of which the server may answer late or never.     *)
(*                                                                           *)
(* "queued" stands for the two statuses in flight.  The timeline, approval,  *)
(* notes and source cards load on their own and no property reads them.      *)
EXTENDS Naturals, FiniteSets

CONSTANTS MaxVer,   \* bound: changes of the invoice
          MaxOpen,  \* bound: requests of the page that wait at a time
          Own       \* bound: the operations the page's user uses

Ops == {"save", "accept", "revalidate", "approve", "reject", "submit", "again",
        "resolve", "undo"}

DetailAssumption ==
  /\ MaxVer \in Nat \ {0} /\ MaxOpen \in Nat /\ Own \subseteq Ops

VARIABLES
  server,   \* the invoice
  load,     \* useAsync's run of the record: a read, "failed" or settled
  data,     \* what that run brought, or NoRec
  live,     \* the overlay, or NoRec
  tick,     \* the poll's read; ok while no handler has bumped gen since
  reread,   \* the read after a 403 of approve; likewise
  req,      \* operation -> the request the page waits for
  armed,    \* the two-click controls that were clicked once
  form,     \* content the open edit form was filled from, or 0
  follow,   \* the save under way re-validates afterwards
  stale,    \* staleSinceEdit
  refused,  \* approveRefused
  visible,  \* the document is
  floor,    \* history: version of the newest acknowledged change of the page
  mine,     \* history: content of the newest acknowledged edit of the page
  late      \* history: a validation older than "mine" was answered after it

reads == <<load, data, live, tick, reread>>
page == <<armed, form, follow, stale, refused>>
ghosts == <<floor, mine, late>>
vars == <<server, reads, req, page, visible, ghosts>>

Statuses == {"draft", "validated", "queued", "accepted", "rejected", "failed"}
Versions == 1..MaxVer

(* ck: the content the verdict is of, bad: the verdict has errors, wait: the *)
(* approval step waits for this user, for others or for nobody.              *)
Rec == [ver : Versions, st : Statuses, ed : 0..MaxVer, ck : 0..MaxVer, bad : BOOLEAN,
        wait : {"no", "mine", "others"}, kept : BOOLEAN]
NoRec == [ver |-> 0, st |-> "draft", ed |-> 0, ck |-> 0, bad |-> FALSE,
          wait |-> "no", kept |-> FALSE]
MaybeRec == Rec \cup {NoRec}

(* passed is history: the re-read of a refused approval landed meanwhile.    *)
Read == [answer : {"none", "out", "served", "failed"}, got : MaybeRec, ok : BOOLEAN,
         passed : BOOLEAN]
Quiet == [answer |-> "none", got |-> NoRec, ok |-> FALSE, passed |-> FALSE]
Asked == [Quiet EXCEPT !.answer = "out", !.ok = TRUE]

Request == [answer : {"none", "out", "done", "refused", "forbidden"}, got : MaybeRec]
NoRequest == [answer |-> "none", got |-> NoRec]

Newer(a, b) == IF a > b THEN a ELSE b

-----------------------------------------------------------------------------
(* The server. *)

Editable(r) == r.st \in {"draft", "validated", "rejected"}

Decidable(r) == r.st = "validated" /\ r.wait # "no"

(* What the record says the page may offer, and what the endpoints admit. *)
May(op, r) ==
  CASE op \in {"save", "accept"} -> Editable(r)
    [] op = "revalidate" -> r.st = "draft"
    [] op \in {"approve", "reject"} -> Decidable(r) /\ r.wait = "mine"
    [] op = "submit" -> r.st = "validated" /\ r.wait = "no"
    [] op = "again" -> r.st = "failed" /\ ~r.kept
    [] OTHER -> r.st = "failed"

Edited(r) == [r EXCEPT !.st = "draft", !.ed = @ + 1, !.wait = "no", !.kept = FALSE]

Validated(r) == {[r EXCEPT !.ck = r.ed, !.bad = TRUE]}
  \cup {[r EXCEPT !.ck = r.ed, !.bad = FALSE, !.st = "validated", !.wait = w] :
          w \in {"no", "mine", "others"}}

Outcomes(op, r) ==
  CASE op \in {"save", "accept"} -> {Edited(r)}
    [] op = "revalidate" -> Validated(r)
    [] op = "approve" -> {[r EXCEPT !.wait = w] : w \in {"no", "mine", "others"}}
    [] op = "reject" -> {[r EXCEPT !.st = "draft", !.wait = "no"]}
    [] op \in {"submit", "again"} -> {[r EXCEPT !.st = "queued"]}
    [] op = "resolve" -> {[r EXCEPT !.kept = TRUE]}
    [] OTHER -> {[r EXCEPT !.kept = FALSE]}

Applies(op) ==
  /\ server.ver < MaxVer
  /\ \E r \in Outcomes(op, server) : server' = [r EXCEPT !.ver = @ + 1]

(* Another member does any of it, on a step that may wait for him. *)
OthersDo(op) ==
  /\ May(op, IF Decidable(server) THEN [server EXCEPT !.wait = "mine"] ELSE server)
  /\ Applies(op)
  /\ UNCHANGED <<reads, req, page, visible, ghosts>>

Verdict ==
  /\ server.st = "queued" /\ server.ver < MaxVer
  /\ \E s \in {"accepted", "rejected", "failed"} :
       server' = [server EXCEPT !.st = s, !.ver = @ + 1]
  /\ UNCHANGED <<reads, req, page, visible, ghosts>>

(* The step the invoice waits on is staffed differently. *)
Restaffed ==
  /\ Decidable(server) /\ server.ver < MaxVer
  /\ server' = [server EXCEPT !.ver = @ + 1, !.wait = IF @ = "mine" THEN "others" ELSE "mine"]
  /\ UNCHANGED <<reads, req, page, visible, ghosts>>

-----------------------------------------------------------------------------
(* The page. *)

Inv == IF live # NoRec THEN live ELSE data
Shown == IF load.answer = "none" THEN Inv ELSE NoRec
Ready == Shown # NoRec
FormOpen == form # 0
Waits(op) == req[op].answer # "none"
InFlight(r) == r # NoRec /\ r.st = "queued"

Init ==
  /\ \E s \in Statuses, b \in BOOLEAN, w \in {"no", "mine", "others"} :
       /\ w = "no" \/ s = "validated"
       /\ b => s = "draft"
       /\ server = [ver |-> 1, st |-> s, ed |-> 1, ck |-> 1, bad |-> b,
                    wait |-> w, kept |-> FALSE]
  /\ load = Asked /\ data = NoRec /\ live = NoRec
  /\ tick = Quiet /\ reread = Quiet
  /\ req = [op \in Ops |-> NoRequest]
  /\ armed = [op \in {"approve", "reject", "submit"} |-> "idle"]
  /\ form = 0 /\ follow = FALSE /\ stale = FALSE /\ refused = FALSE
  /\ visible = TRUE
  /\ floor = 1 /\ mine = 0 /\ late = FALSE

(* A plausible bug, for the mutant. *)
VerdictStale_Derived == Shown.st = "draft" /\ Shown.ck > 0 /\ ~Shown.bad

(* verdictStatus: edited since in this page, or demoted without an error. *)
VerdictStale == stale \/ (Shown.st = "draft" /\ Shown.ck > 0 /\ ~Shown.bad)

(* useAsync: a new run forgets the record and the answer of the run before. *)
LoadServed ==
  /\ load.answer = "out"
  /\ load' = [load EXCEPT !.answer = "served", !.got = server]
  /\ UNCHANGED <<server, data, live, tick, reread, req, page, visible, ghosts>>

(* An open form is mounted again and filled from the record it meets. *)
LoadAnswered ==
  /\ load.answer = "served"
  /\ data' = load.got /\ load' = Quiet
  /\ form' = IF ~FormOpen THEN 0 ELSE IF live # NoRec THEN live.ed ELSE load.got.ed
  /\ UNCHANGED <<server, live, tick, reread, req, armed, follow, stale, refused,
                 visible, ghosts>>

LoadFailed ==
  /\ load.answer \in {"out", "served"}
  /\ load' = [Quiet EXCEPT !.answer = "failed"]
  /\ UNCHANGED <<server, data, live, tick, reread, req, page, visible, ghosts>>

Retry ==
  /\ load.answer = "failed"
  /\ load' = Asked /\ data' = NoRec
  /\ UNCHANGED <<server, live, tick, reread, req, page, visible, ghosts>>

(* The interval runs while the record is in flight and the page visible; a  *)
(* tick that finds the previous one waiting does nothing.                   *)
Tick ==
  /\ InFlight(Inv) /\ visible
  /\ tick.answer = "none"
  /\ tick' = Asked
  /\ UNCHANGED <<server, load, data, live, reread, req, page, visible, ghosts>>

TickServed ==
  /\ tick.answer = "out"
  /\ tick' = [tick EXCEPT !.answer = "served", !.got = server]
  /\ UNCHANGED <<server, load, data, live, reread, req, page, visible, ghosts>>

(* A plausible bug, for the mutant. *)
Overlaid_Any(read) == read.got

(* An answer from before the last bump has no effect. *)
Overlaid(read) == IF read.ok THEN read.got ELSE live

TickAnswered ==
  /\ tick.answer = "served"
  /\ live' = Overlaid(tick) /\ tick' = Quiet
  /\ UNCHANGED <<server, load, data, reread, req, page, visible, ghosts>>

(* A plausible bug, for the mutant. *)
TickLost_Stuck ==
  /\ tick.answer \in {"out", "served"}
  /\ tick' = [tick EXCEPT !.answer = "failed"]
  /\ UNCHANGED <<server, load, data, live, reread, req, page, visible, ghosts>>

TickLost ==
  /\ tick.answer \in {"out", "served"}
  /\ tick' = Quiet
  /\ UNCHANGED <<server, load, data, live, reread, req, page, visible, ghosts>>

RereadServed ==
  /\ reread.answer = "out"
  /\ reread' = [reread EXCEPT !.answer = "served", !.got = server]
  /\ UNCHANGED <<server, load, data, live, tick, req, page, visible, ghosts>>

RereadAnswered ==
  /\ reread.answer = "served"
  /\ live' = reread.got /\ refused' = FALSE /\ reread' = Quiet
  /\ tick' = [tick EXCEPT !.passed = (tick.answer # "none")]
  /\ UNCHANGED <<server, load, data, req, armed, form, follow, stale, visible, ghosts>>

(* Approve stays off. *)
RereadLost ==
  /\ reread.answer \in {"out", "served"}
  /\ reread' = Quiet
  /\ UNCHANGED <<server, load, data, live, tick, req, page, visible, ghosts>>

-----------------------------------------------------------------------------
(* Controls. *)

OpenForm ==
  /\ Ready /\ ~FormOpen /\ Editable(Shown)
  /\ form' = Shown.ed
  /\ UNCHANGED <<server, reads, req, armed, follow, stale, refused, visible, ghosts>>

(* Cancel, or a save that found nothing changed. *)
CloseForm ==
  /\ Ready /\ FormOpen /\ ~Waits("save")
  /\ form' = 0
  /\ UNCHANGED <<server, reads, req, armed, follow, stale, refused, visible, ghosts>>

Arm(op) ==
  /\ Ready /\ ~FormOpen /\ armed[op] = "idle"
  /\ May(op, Shown) /\ (op = "approve" => ~refused)
  /\ armed' = [armed EXCEPT ![op] = "armed"]
  /\ UNCHANGED <<server, reads, req, form, follow, stale, refused, visible, ghosts>>

Disarm(op) ==
  /\ Ready /\ ~FormOpen /\ armed[op] = "armed"
  /\ op = "reject" => ~Waits(op)
  /\ armed' = [armed EXCEPT ![op] = "idle"]
  /\ UNCHANGED <<server, reads, req, form, follow, stale, refused, visible, ghosts>>

(* Which controls the page offers on the record it shows. *)
Offered(op) ==
  CASE op = "save" -> FormOpen
    [] op = "accept" -> /\ May(op, Shown) /\ ~FormOpen /\ ~Waits("revalidate")
                        /\ armed["submit"] # "submitting"
    [] op = "revalidate" -> May(op, Shown) /\ ~FormOpen
    [] op \in {"approve", "reject", "submit"} ->
         May(op, Shown) /\ ~FormOpen /\ armed[op] = "armed"
    [] op = "again" -> May(op, Shown)
    [] op = "resolve" -> May(op, Shown) /\ ~Shown.kept
    [] OTHER -> May(op, Shown) /\ Shown.kept

(* A changed invoice number makes the save re-validate afterwards, unless a *)
(* re-validation waits when the form is sent: the handler remembers it so.   *)
Send(op) ==
  /\ Ready /\ Offered(op) /\ ~Waits(op)
  /\ Cardinality({o \in Ops : Waits(o)}) < MaxOpen
  /\ req' = [req EXCEPT ![op] = [NoRequest EXCEPT !.answer = "out"]]
  /\ armed' = IF op \in {"approve", "submit"} THEN [armed EXCEPT ![op] = "submitting"]
                                              ELSE armed
  /\ IF op = "save" THEN \E renamed \in BOOLEAN : follow' = (renamed /\ ~Waits("revalidate"))
                    ELSE UNCHANGED follow
  /\ UNCHANGED <<server, reads, form, stale, refused, visible, ghosts>>

(* A second confirm while the first request waits only moves the control. *)
ConfirmAgain(op) ==
  /\ Ready /\ Offered(op) /\ Waits(op)
  /\ armed' = [armed EXCEPT ![op] = "submitting"]
  /\ UNCHANGED <<server, reads, req, form, follow, stale, refused, visible, ghosts>>

(* The server serves a request; the batch endpoint of submit answers a skip *)
(* as a success, and the approval ladder refuses a seat with 403.           *)
Served(op) ==
  /\ req[op].answer = "out"
  /\ IF May(op, server)
       THEN /\ Applies(op)
            /\ req' = [req EXCEPT ![op] = [answer |-> "done", got |-> server']]
       ELSE /\ UNCHANGED server
            /\ req' = [req EXCEPT ![op] =
                 CASE op = "submit" -> [answer |-> "done", got |-> server]
                   [] op = "approve" /\ Decidable(server) -> [@ EXCEPT !.answer = "forbidden"]
                   [] OTHER -> [@ EXCEPT !.answer = "refused"]]
  /\ UNCHANGED <<reads, page, visible, ghosts>>

-----------------------------------------------------------------------------
(* Answers. *)

Forgotten(op) == [req EXCEPT ![op] = NoRequest]

(* A plausible bug, for the mutant. *)
Reloaded_LiveKept ==
  /\ tick' = [tick EXCEPT !.ok = FALSE]
  /\ reread' = Quiet
  /\ live' = live
  /\ load' = Asked /\ data' = NoRec

(* gen.current++, setLive(null), detail.run(). *)
Reloaded ==
  /\ tick' = [tick EXCEPT !.ok = FALSE]
  /\ reread' = Quiet
  /\ live' = NoRec
  /\ load' = Asked /\ data' = NoRec

Acknowledged(op) ==
  /\ req[op].answer = "done"
  /\ floor' = Newer(floor, req[op].got.ver)
  /\ Reloaded
  /\ UNCHANGED <<server, visible>>

(* handleSaved *)
Saved(op) ==
  /\ Acknowledged(op)
  /\ form' = 0 /\ stale' = TRUE
  /\ armed' = [armed EXCEPT !["submit"] = "idle"]
  /\ req' = IF op = "save" /\ follow /\ ~Waits("revalidate")
              THEN [Forgotten(op) EXCEPT !["revalidate"] = [NoRequest EXCEPT !.answer = "out"]]
              ELSE Forgotten(op)
  /\ follow' = (follow /\ op # "save")
  /\ mine' = Newer(mine, req[op].got.ed) /\ late' = FALSE
  /\ UNCHANGED refused

Revalidated ==
  /\ Acknowledged("revalidate")
  /\ stale' = FALSE
  /\ armed' = [armed EXCEPT !["submit"] = "idle"]
  /\ req' = Forgotten("revalidate")
  /\ late' = (mine > req["revalidate"].got.ck)
  /\ UNCHANGED <<form, follow, refused, mine>>

Decided(op) ==
  /\ Acknowledged(op)
  /\ armed' = [armed EXCEPT ![op] = "idle"]
  /\ req' = Forgotten(op)
  /\ UNCHANGED <<form, follow, stale, refused, mine, late>>

FailureHandled(op) ==
  /\ Acknowledged(op)
  /\ req' = Forgotten(op)
  /\ UNCHANGED <<page, mine, late>>

(* approve meets a 403: Approve goes off and the record is read again. *)
Refused ==
  /\ req["approve"].answer = "forbidden"
  /\ refused' = TRUE
  /\ tick' = [tick EXCEPT !.ok = FALSE] /\ reread' = Asked
  /\ armed' = [armed EXCEPT !["approve"] = "idle"]
  /\ req' = Forgotten("approve")
  /\ UNCHANGED <<server, load, data, live, form, follow, stale, visible, ghosts>>

(* Refused, lost, or served and its answer lost. *)
Failed(op) ==
  /\ req[op].answer \in {"out", "done", "refused"}
  /\ req' = Forgotten(op)
  /\ armed' = IF op \in {"approve", "submit"} THEN [armed EXCEPT ![op] = "idle"] ELSE armed
  /\ follow' = (follow /\ op # "save")
  /\ IF op = "accept" THEN Reloaded ELSE UNCHANGED reads
  /\ UNCHANGED <<server, form, stale, refused, visible, ghosts>>

LookAway ==
  /\ visible' = ~visible
  /\ UNCHANGED <<server, reads, req, page, ghosts>>

Poll == Tick \/ TickServed \/ TickAnswered \/ TickLost
Reads == LoadServed \/ LoadAnswered \/ LoadFailed \/ RereadServed \/ RereadAnswered \/ RereadLost

Controls ==
  \/ Retry \/ OpenForm \/ CloseForm \/ LookAway
  \/ \E op \in Own :
       \/ Send(op)
       \/ op \in {"approve", "submit"} /\ ConfirmAgain(op)
       \/ op \in {"approve", "reject", "submit"} /\ (Arm(op) \/ Disarm(op))

Answers ==
  \/ Revalidated \/ Refused
  \/ \E op \in Ops :
       \/ Served(op)
       \/ Failed(op)
       \/ op \in {"save", "accept"} /\ Saved(op)
       \/ op \in {"approve", "reject", "submit"} /\ Decided(op)
       \/ op \in {"again", "resolve", "undo"} /\ FailureHandled(op)

World == Verdict \/ Restaffed \/ \E op \in Ops : OthersDo(op)

Next == Poll \/ Reads \/ Controls \/ Answers \/ World

Spec == Init /\ [][Next]_vars

FairSpec == Spec /\ WF_vars(Tick) /\ SF_vars(TickServed) /\ SF_vars(TickAnswered)

-----------------------------------------------------------------------------
(* Properties. *)

TypeOK ==
  /\ server \in Rec
  /\ load \in Read /\ tick \in Read /\ reread \in Read
  /\ data \in MaybeRec /\ live \in MaybeRec
  /\ req \in [Ops -> Request]
  /\ armed \in [{"approve", "reject", "submit"} -> {"idle", "armed", "submitting"}]
  /\ form \in 0..MaxVer /\ mine \in 0..MaxVer /\ floor \in Versions
  /\ {follow, stale, refused, visible, late} \subseteq BOOLEAN

(* Once the server has acknowledged a change of this page (an edit, a        *)
(* decision, a submit, a send-again), the page never renders the record as   *)
(* it was before that change, whatever reads were on the way.                *)
ShowsOwnWrites == Ready => Shown.ver >= floor

(* The page never goes back to an older record than the one it shows: reads  *)
(* overtake one another, but a tick waits for the tick before, a reload      *)
(* disowns the ticks under way and a run of useAsync disowns the run before. *)
(* Only the re-read after a refused approval may, when a reload or a tick    *)
(* overtook it, and a tick that was asked before the re-read landed.         *)
ByReread == refused /\ ~refused'
ByPassedTick == tick.answer = "served" /\ tick.passed /\ tick' = Quiet
NeverGoesBack ==
  [][(Ready /\ Ready') => Shown'.ver >= Shown.ver \/ ByReread \/ ByPassedTick]_vars

(* After an acknowledged edit of this page the verdict of the content before *)
(* it is marked stale, except when the answer of a re-validation that the    *)
(* edit overtook clears the mark.                                            *)
OwnEditFlagged == (Ready /\ mine > Shown.ck) => (VerdictStale \/ late)

(* A record in flight that is watched does not stay on the screen after its  *)
(* verdict, although ticks are dropped, lost or overtaken.                   *)
WatchedSettles ==
  (Ready /\ Shown.st = "queued" /\ server.st # "queued")
    ~> (~Ready \/ Shown.st # "queued" \/ server.st = "queued" \/ ~visible)
=============================================================================
