------------------------- MODULE InvoiceFlowsProofs -------------------------
(***************************************************************************)
(* Theorems about the two screens that InvoiceFlows composes, the page of  *)
(* one invoice (InvoiceDetail) and the import with its form (ImportRun):   *)
(* for every number of changes of the invoice, of requests that wait at a  *)
(* time and of operations the page's user has, and for every number of     *)
(* companies, spreadsheets and documents.                                  *)
(*                                                                         *)
(* The invariant of the page in one sentence: every record it shows or may *)
(* still come to show (the answer of a read that no reload has disowned)   *)
(* is at least as new as the newest change the page was acknowledged, and, *)
(* while the verdict counts as current, was checked no earlier than the    *)
(* newest acknowledged edit.                                               *)
(*                                                                         *)
(* The invariant of the import in one sentence: the import, the draft and  *)
(* everything the flow shows are of the company of the switcher; the lock  *)
(* is free exactly when no operation is under way and otherwise names the  *)
(* one that is; and a run under way has only files of the company it       *)
(* started for, which is the one on screen as long as the run is the       *)
(* current one.                                                            *)
(***************************************************************************)
EXTENDS InvoiceFlows, FiniteSetTheorems, TLAPS

------------------------------------------------------------------------------
(* The page of one invoice. *)

\* Edits and verdicts are dated by the changes of the invoice.
ServerInv ==
  /\ server.ck <= server.ed /\ server.ed <= server.ver
  /\ floor <= server.ver /\ mine <= server.ed
  /\ stale \/ late \/ mine <= server.ck

\* A change the page waits to be told of has happened.
DoneInv ==
  \A op \in Invoice!Ops : req[op].answer = "done" =>
    /\ req[op].got \in Invoice!Rec
    /\ req[op].got.ver <= server.ver /\ req[op].got.ed <= server.ed /\ req[op].got.ck <= server.ck

\* A run of useAsync begins without a record, a tick only beside one; the
\* answer of a read is a record of the server; Approve is off while the
\* re-read is out.
ReadInv ==
  /\ data # Invoice!NoRec => load.answer = "none"
  /\ tick.answer # "none" /\ tick.ok => Invoice!Inv # Invoice!NoRec
  /\ \A read \in {load, tick, reread} : read.answer = "served" => read.got \in Invoice!Rec
  /\ reread.answer # "none" => refused

\* What the page shows or may still come to show.
MayShow(r) ==
  \/ r \in {data, live}
  \/ load.answer = "served" /\ r = load.got
  \/ reread.answer = "served" /\ r = reread.got
  \/ tick.answer = "served" /\ tick.ok /\ r = tick.got

Newest(r) ==
  /\ floor <= r.ver /\ r.ver <= server.ver
  /\ stale \/ late \/ mine <= r.ck

ShownInv == \A r \in Invoice!Rec : MayShow(r) => Newest(r)

\* A tick the re-read has not passed brings nothing older than is shown.
TickInv == tick.answer = "served" /\ tick.ok /\ ~tick.passed => Invoice!Inv.ver <= tick.got.ver

DetailInv == Invoice!TypeOK /\ ServerInv /\ DoneInv /\ ReadInv /\ ShownInv /\ TickInv

------------------------------------------------------------------------------
\* No record is not a record.
LEMMA NoRecApart == Invoice!NoRec \notin Invoice!Rec
BY DEF Invoice!NoRec, Invoice!Rec, Invoice!Versions

\* The empty page.
LEMMA DetailInit == Invoice!Init => DetailInv
<1> SUFFICES ASSUME Invoice!Init PROVE DetailInv
  OBVIOUS
<1> USE FlowAssumption DEF Invoice!DetailAssumption
<1>1. /\ server \in Invoice!Rec /\ server.ver = 1 /\ server.ed = 1 /\ server.ck = 1
  BY DEF Invoice!Init, Invoice!Rec, Invoice!Versions, Invoice!Statuses
<1>2. /\ load = Invoice!Asked /\ tick = Invoice!Quiet /\ reread = Invoice!Quiet
      /\ data = Invoice!NoRec /\ live = Invoice!NoRec
      /\ req = [op \in Invoice!Ops |-> Invoice!NoRequest]
      /\ floor = 1 /\ mine = 0 /\ late = FALSE /\ stale = FALSE
  BY DEF Invoice!Init
<1>3. /\ Invoice!Asked \in Invoice!Read /\ Invoice!Quiet \in Invoice!Read
      /\ Invoice!Asked.answer = "out" /\ Invoice!Quiet.answer = "none"
      /\ Invoice!NoRequest \in Invoice!Request /\ Invoice!NoRequest.answer = "none"
  BY DEF Invoice!Asked, Invoice!Quiet, Invoice!Read, Invoice!MaybeRec, Invoice!NoRequest,
         Invoice!Request
<1>4. Invoice!TypeOK
  <2>1. /\ armed \in [{"approve", "reject", "submit"} -> {"idle", "armed", "submitting"}]
        /\ form = 0 /\ {follow, stale, refused, visible, late} \subseteq BOOLEAN
    BY DEF Invoice!Init
  <2>2. req \in [Invoice!Ops -> Invoice!Request]
    BY <1>2, <1>3
  <2>3. 1 \in Invoice!Versions /\ 0 \in 0..MaxVer
    BY DEF Invoice!Versions
  <2> QED BY <1>1, <1>2, <1>3, <2>1, <2>2, <2>3 DEF Invoice!TypeOK, Invoice!MaybeRec
<1>5. ServerInv
  BY <1>1, <1>2 DEF ServerInv
<1>6. DoneInv
  BY <1>2, <1>3 DEF DoneInv
<1>7. ReadInv
  BY <1>2, <1>3 DEF ReadInv
<1>8. ShownInv
  BY <1>2, <1>3, NoRecApart DEF ShownInv, MayShow
<1>9. TickInv
  BY <1>2, <1>3 DEF TickInv
<1> QED BY <1>4, <1>5, <1>6, <1>7, <1>8, <1>9 DEF DetailInv

\* What happens to the invoice is its next version, and neither its content
\* nor the content its verdict is of grows older.
Grown ==
  /\ server' \in Invoice!Rec
  /\ server'.ck <= server'.ed /\ server'.ed <= server'.ver
  /\ server.ver <= server'.ver /\ server.ed <= server'.ed /\ server.ck <= server'.ck

LEMMA ServerGrows ==
  ASSUME DetailInv, NEW op \in Invoice!Ops, Invoice!Applies(op)
  PROVE  Grown
<1> USE FlowAssumption DEF Invoice!DetailAssumption
<1>1. PICK r \in Invoice!Outcomes(op, server) : server' = [r EXCEPT !.ver = @ + 1]
  BY DEF Invoice!Applies
<1>2. server \in Invoice!Rec /\ server.ver < MaxVer /\ server.ck <= server.ed /\ server.ed <= server.ver
  BY DEF DetailInv, Invoice!TypeOK, ServerInv, Invoice!Applies
<1>3. /\ r = [ver |-> r.ver, st |-> r.st, ed |-> r.ed, ck |-> r.ck, bad |-> r.bad,
              wait |-> r.wait, kept |-> r.kept]
      /\ r.ver = server.ver /\ r.st \in Invoice!Statuses
      /\ r.ed \in {server.ed, server.ed + 1} /\ r.ck \in {server.ck, server.ed}
      /\ r.ck = server.ck \/ r.ed = server.ed
      /\ r.bad \in BOOLEAN /\ r.wait \in {"no", "mine", "others"} /\ r.kept \in BOOLEAN
  <2>1. CASE op \in {"save", "accept"}
    <3>1. r = Invoice!Edited(server)
      BY <1>1, <2>1 DEF Invoice!Outcomes
    <3> QED BY <1>2, <3>1 DEF Invoice!Edited, Invoice!Rec, Invoice!Statuses
  <2>2. CASE op = "revalidate"
    <3>1. r \in Invoice!Validated(server)
      BY <1>1, <2>2 DEF Invoice!Outcomes
    <3>2. CASE r = [server EXCEPT !.ck = server.ed, !.bad = TRUE]
      BY <1>2, <3>2 DEF Invoice!Rec, Invoice!Statuses
    <3>3. CASE \E w \in {"no", "mine", "others"} :
                 r = [server EXCEPT !.ck = server.ed, !.bad = FALSE, !.st = "validated", !.wait = w]
      BY <1>2, <3>3 DEF Invoice!Rec, Invoice!Statuses
    <3> QED BY <3>1, <3>2, <3>3 DEF Invoice!Validated
  <2>3. CASE op = "approve"
    <3>1. PICK w \in {"no", "mine", "others"} : r = [server EXCEPT !.wait = w]
      BY <1>1, <2>3 DEF Invoice!Outcomes
    <3> QED BY <1>2, <3>1 DEF Invoice!Rec, Invoice!Statuses
  <2>4. CASE op \in {"reject", "submit", "again"}
    <3>1. \/ r = [server EXCEPT !.st = "draft", !.wait = "no"]
          \/ r = [server EXCEPT !.st = "queued"]
      BY <1>1, <2>4 DEF Invoice!Outcomes
    <3> QED BY <1>2, <3>1 DEF Invoice!Rec, Invoice!Statuses
  <2>5. CASE op \in {"resolve", "undo"}
    <3>1. r \in {[server EXCEPT !.kept = TRUE], [server EXCEPT !.kept = FALSE]}
      BY <1>1, <2>5 DEF Invoice!Outcomes
    <3> QED BY <1>2, <3>1 DEF Invoice!Rec, Invoice!Statuses
  <2> QED BY <2>1, <2>2, <2>3, <2>4, <2>5 DEF Invoice!Ops
<1>4. server' = [r EXCEPT !.ver = server.ver + 1]
  BY <1>1, <1>3
<1> QED BY <1>2, <1>3, <1>4 DEF Grown, Invoice!Rec, Invoice!Versions

------------------------------------------------------------------------------
(* The reads. *)

LEMMA ReadTypes ==
  /\ Invoice!Quiet \in Invoice!Read /\ Invoice!Quiet.answer = "none" /\ ~Invoice!Quiet.ok
  /\ Invoice!Asked \in Invoice!Read /\ Invoice!Asked.answer = "out"
  /\ [Invoice!Quiet EXCEPT !.answer = "failed"] \in Invoice!Read
  /\ [Invoice!Quiet EXCEPT !.answer = "failed"].answer = "failed"
BY DEF Invoice!Quiet, Invoice!Asked, Invoice!Read, Invoice!MaybeRec

\* The invoice as it is may always be shown.
LEMMA ServerNewest == ASSUME DetailInv PROVE server \in Invoice!Rec /\ Newest(server)
<1> USE FlowAssumption DEF Invoice!DetailAssumption
<1>1. server \in Invoice!Rec /\ floor \in Invoice!Versions
  BY DEF DetailInv, Invoice!TypeOK
<1> QED BY <1>1 DEF DetailInv, ServerInv, Newest, Invoice!Rec, Invoice!Versions

\* A step that only reads keeps the invariant if what it adds to what the page
\* may show is the invoice as it is.
LEMMA OnlyReads ==
  ASSUME DetailInv,
         UNCHANGED <<server, req, stale, floor, mine, late>>,
         Invoice!TypeOK', ReadInv', TickInv',
         \A r \in Invoice!Rec : MayShow(r)' => MayShow(r) \/ r = server
  PROVE  DetailInv'
<1>1. ServerInv'
  BY DEF DetailInv, ServerInv
<1>2. DoneInv'
  BY DEF DetailInv, DoneInv
<1>3. ShownInv'
  BY ServerNewest DEF DetailInv, ShownInv, Newest
<1> QED BY <1>1, <1>2, <1>3 DEF DetailInv

LEMMA LoadSteps ==
  ASSUME DetailInv,
         \/ Invoice!LoadServed \/ Invoice!LoadAnswered \/ Invoice!LoadFailed \/ Invoice!Retry
  PROVE  DetailInv'
<1> USE ReadTypes, NoRecApart
<1>1. /\ Invoice!TypeOK /\ ReadInv /\ TickInv /\ server \in Invoice!Rec
  BY DEF DetailInv, Invoice!TypeOK
<1>2. CASE Invoice!LoadServed
  <2> USE <1>2 DEF Invoice!LoadServed, Invoice!page, Invoice!ghosts
  <2>1. load' \in Invoice!Read /\ load'.answer = "served" /\ load'.got = server
    <3>1. load \in Invoice!Read /\ load' = [load EXCEPT !.answer = "served", !.got = server]
      BY <1>1 DEF Invoice!TypeOK
    <3> QED BY <1>1, <3>1 DEF Invoice!Read, Invoice!MaybeRec
  <2>2. Invoice!TypeOK'
    BY <1>1, <2>1 DEF Invoice!TypeOK
  <2>3. ReadInv'
    BY <1>1, <2>1 DEF ReadInv, Invoice!Inv
  <2>4. TickInv'
    BY <1>1 DEF TickInv, Invoice!Inv
  <2>5. \A r \in Invoice!Rec : MayShow(r)' => MayShow(r) \/ r = server
    BY <2>1 DEF MayShow
  <2> QED BY <2>2, <2>3, <2>4, <2>5, OnlyReads
<1>3. CASE Invoice!LoadAnswered
  <2> USE <1>3 DEF Invoice!LoadAnswered, Invoice!ghosts
  <2>1. /\ load' = Invoice!Quiet /\ data' = load.got /\ load.got \in Invoice!Rec
    BY <1>1 DEF ReadInv
  <2>2. data = Invoice!NoRec
    BY <1>1 DEF ReadInv
  <2>3. form' \in 0..MaxVer
    <3>1. \A r \in Invoice!Rec : r.ed \in 0..MaxVer
      BY DEF Invoice!Rec
    <3> QED BY FlowAssumption, <1>1, <2>1, <3>1
         DEF Invoice!TypeOK, Invoice!MaybeRec, Invoice!DetailAssumption
  <2>4. Invoice!TypeOK'
    BY <1>1, <2>1, <2>3 DEF Invoice!TypeOK, Invoice!MaybeRec
  <2>5. ReadInv'
    BY <1>1, <2>1 DEF ReadInv, Invoice!Inv
  <2>6. TickInv'
    BY <1>1, <2>1, <2>2 DEF TickInv, ReadInv, Invoice!Inv
  <2>7. \A r \in Invoice!Rec : MayShow(r)' => MayShow(r) \/ r = server
    BY <2>1 DEF MayShow
  <2> QED BY <2>4, <2>5, <2>6, <2>7, OnlyReads
<1>4. CASE Invoice!LoadFailed \/ Invoice!Retry
  <2> USE <1>4 DEF Invoice!LoadFailed, Invoice!Retry, Invoice!page, Invoice!ghosts
  <2>1. /\ load' \in Invoice!Read /\ load'.answer # "served"
        /\ data = Invoice!NoRec /\ data' = Invoice!NoRec
    BY <1>1 DEF ReadInv
  <2>2. Invoice!TypeOK'
    BY <1>1, <2>1 DEF Invoice!TypeOK, Invoice!MaybeRec
  <2>3. ReadInv'
    BY <1>1, <2>1 DEF ReadInv, Invoice!Inv
  <2>4. TickInv'
    BY <1>1, <2>1 DEF TickInv, Invoice!Inv
  <2>5. \A r \in Invoice!Rec : MayShow(r)' => MayShow(r) \/ r = server
    BY <2>1 DEF MayShow
  <2> QED BY <2>2, <2>3, <2>4, <2>5, OnlyReads
<1> QED BY <1>2, <1>3, <1>4

LEMMA TickSteps ==
  ASSUME DetailInv, Invoice!Poll
  PROVE  DetailInv'
<1> USE ReadTypes, NoRecApart
<1>1. /\ Invoice!TypeOK /\ ReadInv /\ TickInv /\ ShownInv /\ server \in Invoice!Rec
  BY DEF DetailInv, Invoice!TypeOK
<1>2. CASE Invoice!Tick \/ Invoice!TickLost
  <2> USE <1>2 DEF Invoice!Tick, Invoice!TickLost, Invoice!page, Invoice!ghosts
  <2>1. /\ tick' \in Invoice!Read /\ tick'.answer # "served"
        /\ tick'.answer # "none" => Invoice!Inv # Invoice!NoRec
    BY DEF Invoice!InFlight
  <2>2. Invoice!TypeOK'
    BY <1>1, <2>1 DEF Invoice!TypeOK
  <2>3. ReadInv'
    BY <1>1, <2>1 DEF ReadInv, Invoice!Inv
  <2>4. TickInv'
    BY <2>1 DEF TickInv
  <2>5. \A r \in Invoice!Rec : MayShow(r)' => MayShow(r) \/ r = server
    BY <2>1 DEF MayShow
  <2> QED BY <2>2, <2>3, <2>4, <2>5, OnlyReads
<1>3. CASE Invoice!TickServed
  <2> USE <1>3 DEF Invoice!TickServed, Invoice!page, Invoice!ghosts
  <2>1. /\ tick' \in Invoice!Read /\ tick'.answer = "served" /\ tick'.got = server
        /\ tick'.ok = tick.ok
    <3>1. tick \in Invoice!Read /\ tick' = [tick EXCEPT !.answer = "served", !.got = server]
      BY <1>1 DEF Invoice!TypeOK
    <3> QED BY <1>1, <3>1 DEF Invoice!Read, Invoice!MaybeRec
  <2>2. Invoice!TypeOK'
    BY <1>1, <2>1 DEF Invoice!TypeOK
  <2>3. ReadInv'
    BY <1>1, <2>1 DEF ReadInv, Invoice!Inv
  <2>4. Invoice!Inv # Invoice!NoRec => Invoice!Inv.ver <= server.ver
    <3>1. Invoice!Inv \in {data, live} /\ Invoice!Inv \in Invoice!MaybeRec
      BY <1>1 DEF Invoice!Inv, Invoice!TypeOK
    <3> QED BY <1>1, <3>1 DEF ShownInv, MayShow, Newest, Invoice!MaybeRec
  <2>5. TickInv'
    BY <1>1, <2>1, <2>4 DEF TickInv, ReadInv, Invoice!Inv
  <2>6. \A r \in Invoice!Rec : MayShow(r)' => MayShow(r) \/ r = server
    BY <2>1 DEF MayShow
  <2> QED BY <2>2, <2>3, <2>5, <2>6, OnlyReads
<1>4. CASE Invoice!TickAnswered
  <2> USE <1>4 DEF Invoice!TickAnswered, Invoice!page, Invoice!ghosts
  <2>1. /\ tick' = Invoice!Quiet /\ tick.got \in Invoice!Rec
        /\ live' = IF tick.ok THEN tick.got ELSE live
    BY <1>1 DEF Invoice!Overlaid, ReadInv
  <2>2. Invoice!TypeOK'
    BY <1>1, <2>1 DEF Invoice!TypeOK, Invoice!MaybeRec
  <2>3. ReadInv'
    BY <1>1, <2>1 DEF ReadInv
  <2>4. TickInv'
    BY <2>1 DEF TickInv
  <2>5. \A r \in Invoice!Rec : MayShow(r)' => MayShow(r) \/ r = server
    BY <2>1 DEF MayShow
  <2> QED BY <2>2, <2>3, <2>4, <2>5, OnlyReads
<1> QED BY <1>2, <1>3, <1>4 DEF Invoice!Poll

LEMMA RereadSteps ==
  ASSUME DetailInv, Invoice!RereadServed \/ Invoice!RereadAnswered \/ Invoice!RereadLost
  PROVE  DetailInv'
<1> USE ReadTypes, NoRecApart
<1>1. /\ Invoice!TypeOK /\ ReadInv /\ TickInv /\ server \in Invoice!Rec
  BY DEF DetailInv, Invoice!TypeOK
<1>2. CASE Invoice!RereadServed
  <2> USE <1>2 DEF Invoice!RereadServed, Invoice!page, Invoice!ghosts
  <2>1. reread' \in Invoice!Read /\ reread'.answer = "served" /\ reread'.got = server
    <3>1. reread \in Invoice!Read /\ reread' = [reread EXCEPT !.answer = "served", !.got = server]
      BY <1>1 DEF Invoice!TypeOK
    <3> QED BY <1>1, <3>1 DEF Invoice!Read, Invoice!MaybeRec
  <2>2. Invoice!TypeOK'
    BY <1>1, <2>1 DEF Invoice!TypeOK
  <2>3. ReadInv'
    BY <1>1, <2>1 DEF ReadInv, Invoice!Inv
  <2>4. TickInv'
    BY <1>1 DEF TickInv, Invoice!Inv
  <2>5. \A r \in Invoice!Rec : MayShow(r)' => MayShow(r) \/ r = server
    BY <2>1 DEF MayShow
  <2> QED BY <2>2, <2>3, <2>4, <2>5, OnlyReads
<1>3. CASE Invoice!RereadAnswered
  <2> USE <1>3 DEF Invoice!RereadAnswered, Invoice!ghosts
  <2>1. /\ reread' = Invoice!Quiet /\ live' = reread.got /\ reread.got \in Invoice!Rec
        /\ tick' \in Invoice!Read
        /\ tick'.answer = tick.answer /\ tick'.ok = tick.ok /\ tick'.got = tick.got
        /\ tick'.answer # "none" => tick'.passed
    <3>1. tick \in Invoice!Read /\ tick' = [tick EXCEPT !.passed = (tick.answer # "none")]
      BY <1>1 DEF Invoice!TypeOK
    <3>2. reread' = Invoice!Quiet /\ live' = reread.got /\ reread.got \in Invoice!Rec
      BY <1>1 DEF ReadInv
    <3> QED BY <3>1, <3>2 DEF Invoice!Read
  <2>2. Invoice!TypeOK'
    BY <1>1, <2>1 DEF Invoice!TypeOK, Invoice!MaybeRec
  <2>3. ReadInv'
    BY <1>1, <2>1 DEF ReadInv, Invoice!Inv
  <2>4. TickInv'
    BY <2>1 DEF TickInv
  <2>5. \A r \in Invoice!Rec : MayShow(r)' => MayShow(r) \/ r = server
    BY <2>1 DEF MayShow
  <2> QED BY <2>2, <2>3, <2>4, <2>5, OnlyReads
<1>4. CASE Invoice!RereadLost
  <2> USE <1>4 DEF Invoice!RereadLost, Invoice!page, Invoice!ghosts
  <2>1. Invoice!TypeOK'
    BY <1>1 DEF Invoice!TypeOK
  <2>2. ReadInv'
    BY <1>1 DEF ReadInv, Invoice!Inv
  <2>3. TickInv'
    BY <1>1 DEF TickInv, Invoice!Inv
  <2>4. \A r \in Invoice!Rec : MayShow(r)' => MayShow(r) \/ r = server
    BY DEF MayShow
  <2> QED BY <2>1, <2>2, <2>3, <2>4, OnlyReads
<1> QED BY <1>2, <1>3, <1>4

------------------------------------------------------------------------------
(* The invoice changes, and a request is served. *)

\* Whatever is shown may go on being shown when the invoice alone changes.
LEMMA OnlyGrows ==
  ASSUME DetailInv, Grown,
         UNCHANGED <<load, data, live, tick, reread, armed, form, follow, stale, refused,
                     visible, floor, mine, late>>,
         req' \in [Invoice!Ops -> Invoice!Request], DoneInv'
  PROVE  DetailInv'
<1> USE FlowAssumption DEF Invoice!DetailAssumption
<1>1. Invoice!TypeOK'
  BY DEF DetailInv, Invoice!TypeOK, Grown
<1>2. /\ server \in Invoice!Rec /\ server' \in Invoice!Rec
      /\ floor \in Invoice!Versions /\ mine \in 0..MaxVer
  BY DEF DetailInv, Invoice!TypeOK, Grown
<1>3. ServerInv'
  BY <1>2 DEF DetailInv, ServerInv, Grown, Invoice!Rec, Invoice!Versions
<1>4. ReadInv' /\ TickInv'
  BY DEF DetailInv, ReadInv, TickInv, Invoice!Inv
<1>5. ShownInv'
  <2>1. \A r \in Invoice!Rec : MayShow(r)' => MayShow(r)
    BY DEF MayShow
  <2>2. \A r \in Invoice!Rec : Newest(r) => Newest(r)'
    BY <1>2 DEF Newest, Grown, Invoice!Rec, Invoice!Versions
  <2> QED BY <2>1, <2>2 DEF DetailInv, ShownInv
<1> QED BY <1>1, <1>3, <1>4, <1>5 DEF DetailInv

LEMMA WorldSteps == ASSUME DetailInv, Invoice!World PROVE DetailInv'
<1> USE FlowAssumption DEF Invoice!DetailAssumption
<1>1. /\ server \in Invoice!Rec /\ req \in [Invoice!Ops -> Invoice!Request]
      /\ server.ck <= server.ed /\ server.ed <= server.ver /\ DoneInv
  BY DEF DetailInv, Invoice!TypeOK, ServerInv
<1>2. server = [ver |-> server.ver, st |-> server.st, ed |-> server.ed, ck |-> server.ck,
                bad |-> server.bad, wait |-> server.wait, kept |-> server.kept]
  BY <1>1 DEF Invoice!Rec
<1>3. Grown
  <2>1. CASE Invoice!Verdict
    <3>1. PICK st \in {"accepted", "rejected", "failed"} :
            server' = [server EXCEPT !.st = st, !.ver = @ + 1]
      BY <2>1 DEF Invoice!Verdict
    <3>2. server.ver < MaxVer
      BY <2>1 DEF Invoice!Verdict
    <3>3. server' = [ver |-> server.ver + 1, st |-> st, ed |-> server.ed, ck |-> server.ck,
                     bad |-> server.bad, wait |-> server.wait, kept |-> server.kept]
      BY <1>2, <3>1
    <3>4. server.ver + 1 \in Invoice!Versions
      BY <1>1, <3>2 DEF Invoice!Rec, Invoice!Versions
    <3>5. server' \in Invoice!Rec
      BY <1>1, <3>3, <3>4 DEF Invoice!Rec, Invoice!Statuses
    <3> QED BY <1>1, <3>3, <3>5 DEF Grown, Invoice!Rec, Invoice!Versions
  <2>2. CASE Invoice!Restaffed
    <3>1. PICK w \in {"mine", "others"} : server' = [server EXCEPT !.ver = @ + 1, !.wait = w]
      BY <2>2 DEF Invoice!Restaffed
    <3>2. server.ver < MaxVer
      BY <2>2 DEF Invoice!Restaffed
    <3>3. server' = [ver |-> server.ver + 1, st |-> server.st, ed |-> server.ed,
                     ck |-> server.ck, bad |-> server.bad, wait |-> w, kept |-> server.kept]
      BY <1>2, <3>1
    <3>4. server.ver + 1 \in Invoice!Versions
      BY <1>1, <3>2 DEF Invoice!Rec, Invoice!Versions
    <3>5. server' \in Invoice!Rec
      BY <1>1, <3>3, <3>4 DEF Invoice!Rec
    <3> QED BY <1>1, <3>3, <3>5 DEF Grown, Invoice!Rec, Invoice!Versions
  <2>3. ASSUME NEW op \in Invoice!Ops, Invoice!OthersDo(op) PROVE Grown
    BY <2>3, ServerGrows DEF Invoice!OthersDo
  <2> QED BY <2>1, <2>2, <2>3 DEF Invoice!World
<1>4. UNCHANGED <<load, data, live, tick, reread, armed, form, follow, stale, refused,
                  visible, floor, mine, late, req>>
  BY DEF Invoice!World, Invoice!Verdict, Invoice!Restaffed, Invoice!OthersDo, Invoice!reads,
         Invoice!page, Invoice!ghosts
<1>5. DoneInv'
  <2>1. server' \in Invoice!Rec
    BY <1>3 DEF Grown
  <2>2. SUFFICES ASSUME NEW op \in Invoice!Ops, req[op].answer = "done"
                 PROVE  /\ req[op].got \in Invoice!Rec
                        /\ req[op].got.ver <= server'.ver /\ req[op].got.ed <= server'.ed
                        /\ req[op].got.ck <= server'.ck
    BY <1>4 DEF DoneInv
  <2> QED BY <1>1, <1>3, <2>1, <2>2 DEF DoneInv, Grown, Invoice!Rec, Invoice!Versions
<1> QED BY <1>1, <1>3, <1>4, <1>5, OnlyGrows

LEMMA ServedSteps ==
  ASSUME DetailInv, NEW op \in Invoice!Ops, Invoice!Served(op)
  PROVE  DetailInv'
<1> USE FlowAssumption DEF Invoice!DetailAssumption
<1>1. /\ server \in Invoice!Rec /\ req \in [Invoice!Ops -> Invoice!Request]
      /\ server.ck <= server.ed /\ server.ed <= server.ver /\ DoneInv
  BY DEF DetailInv, Invoice!TypeOK, ServerInv
<1>2. Grown
  <2>1. CASE Invoice!May(op, server)
    BY <2>1, ServerGrows DEF Invoice!Served
  <2>2. CASE server' = server
    BY <1>1, <2>2 DEF Grown, Invoice!Rec, Invoice!Versions
  <2> QED BY <2>1, <2>2 DEF Invoice!Served
<1>3. PICK answer \in Invoice!Request :
        /\ req' = [req EXCEPT ![op] = answer]
        /\ answer.answer = "done" => answer.got = server'
  <2>1. /\ [answer |-> "done", got |-> server'] \in Invoice!Request
        /\ [req[op] EXCEPT !.answer = "forbidden"] \in Invoice!Request
        /\ [req[op] EXCEPT !.answer = "refused"] \in Invoice!Request
        /\ [req[op] EXCEPT !.answer = "forbidden"].answer = "forbidden"
        /\ [req[op] EXCEPT !.answer = "refused"].answer = "refused"
    BY <1>1, <1>2 DEF Invoice!Request, Invoice!MaybeRec, Grown
  <2>2. \/ req' = [req EXCEPT ![op] = [answer |-> "done", got |-> server']]
        \/ req' = [req EXCEPT ![op] = [req[op] EXCEPT !.answer = "forbidden"]]
        \/ req' = [req EXCEPT ![op] = [req[op] EXCEPT !.answer = "refused"]]
    <3>1. CASE Invoice!May(op, server)
      BY <3>1 DEF Invoice!Served
    <3>2. CASE ~Invoice!May(op, server) /\ op = "submit"
      BY <3>2 DEF Invoice!Served
    <3>3. CASE ~Invoice!May(op, server) /\ op = "approve" /\ Invoice!Decidable(server)
      BY <1>1, <3>3 DEF Invoice!Served
    <3>4. CASE ~Invoice!May(op, server) /\ op # "submit"
                 /\ ~(op = "approve" /\ Invoice!Decidable(server))
      BY <1>1, <3>4 DEF Invoice!Served
    <3> QED BY <3>1, <3>2, <3>3, <3>4
  <2> QED BY <2>1, <2>2
<1>4. req' \in [Invoice!Ops -> Invoice!Request]
  BY <1>1, <1>3
<1>5. DoneInv'
  <2>1. server' \in Invoice!Rec
    BY <1>2 DEF Grown
  <2>2. SUFFICES ASSUME NEW o \in Invoice!Ops, req'[o].answer = "done"
                 PROVE  /\ req'[o].got \in Invoice!Rec
                        /\ req'[o].got.ver <= server'.ver /\ req'[o].got.ed <= server'.ed
                        /\ req'[o].got.ck <= server'.ck
    BY DEF DoneInv
  <2>3. CASE o = op
    <3>1. req'[o].got = server'
      BY <1>1, <1>3, <2>2, <2>3
    <3> QED BY <2>1, <3>1 DEF Invoice!Rec, Invoice!Versions
  <2>4. CASE o # op
    <3>1. req'[o] = req[o]
      BY <1>1, <1>3, <2>4
    <3> QED BY <1>1, <1>2, <2>1, <2>2, <3>1 DEF DoneInv, Grown, Invoice!Rec, Invoice!Versions
  <2> QED BY <2>3, <2>4
<1> QED BY <1>2, <1>4, <1>5, OnlyGrows
        DEF Invoice!Served, Invoice!reads, Invoice!page, Invoice!ghosts

------------------------------------------------------------------------------
(* The page's requests: controls and answers. *)

\* What is waited for is forgotten, or asked for.
LEMMA ReqSteps ==
  ASSUME DetailInv, UNCHANGED server,
         req' \in [Invoice!Ops -> Invoice!Request],
         \A op \in Invoice!Ops : req'[op] = req[op] \/ req'[op].answer # "done"
  PROVE  DoneInv'
BY DEF DetailInv, DoneInv

LEMMA Requests ==
  /\ Invoice!NoRequest \in Invoice!Request /\ Invoice!NoRequest.answer # "done"
  /\ [Invoice!NoRequest EXCEPT !.answer = "out"] \in Invoice!Request
  /\ [Invoice!NoRequest EXCEPT !.answer = "out"].answer # "done"
BY DEF Invoice!NoRequest, Invoice!Request, Invoice!MaybeRec

LEMMA ForgottenReq ==
  ASSUME DetailInv, UNCHANGED server, NEW op \in Invoice!Ops, req' = Invoice!Forgotten(op)
  PROVE  req' \in [Invoice!Ops -> Invoice!Request] /\ DoneInv'
<1>1. req \in [Invoice!Ops -> Invoice!Request]
  BY DEF DetailInv, Invoice!TypeOK
<1>2. /\ req' \in [Invoice!Ops -> Invoice!Request]
      /\ \A o \in Invoice!Ops : req'[o] = req[o] \/ req'[o].answer # "done"
  BY <1>1, Requests DEF Invoice!Forgotten
<1> QED BY <1>2, ReqSteps

\* A reload: nothing is shown, and nothing under way will be but what is read
\* after it.
LEMMA AfterReload ==
  ASSUME DetailInv, Invoice!Reloaded,
         server' = server,
         req' \in [Invoice!Ops -> Invoice!Request], DoneInv',
         armed' \in [{"approve", "reject", "submit"} -> {"idle", "armed", "submitting"}],
         form' \in 0..MaxVer, mine' \in 0..MaxVer, floor' \in Invoice!Versions,
         {follow', stale', refused', visible', late'} \subseteq BOOLEAN,
         floor' <= server.ver, mine' <= server.ed, stale' \/ late' \/ mine' <= server.ck
  PROVE  DetailInv'
<1> USE ReadTypes
<1>1. /\ Invoice!TypeOK /\ ReadInv /\ ServerInv
  BY DEF DetailInv
<1>2. /\ load' = Invoice!Asked /\ data' = Invoice!NoRec /\ live' = Invoice!NoRec
      /\ reread' = Invoice!Quiet
  BY DEF Invoice!Reloaded
<1>3. tick' \in Invoice!Read /\ ~tick'.ok /\ tick'.answer = tick.answer /\ tick'.got = tick.got
  <2>1. tick \in Invoice!Read /\ tick' = [tick EXCEPT !.ok = FALSE]
    BY <1>1 DEF Invoice!TypeOK, Invoice!Reloaded
  <2> QED BY <2>1 DEF Invoice!Read
<1>4. Invoice!TypeOK'
  BY <1>1, <1>2, <1>3 DEF Invoice!TypeOK, Invoice!MaybeRec
<1>5. ServerInv'
  BY <1>1 DEF ServerInv
<1>6. ReadInv'
  BY <1>1, <1>2, <1>3 DEF ReadInv
<1>7. ShownInv'
  BY <1>2, <1>3, NoRecApart DEF ShownInv, MayShow
<1>8. TickInv'
  BY <1>3 DEF TickInv
<1> QED BY <1>4, <1>5, <1>6, <1>7, <1>8 DEF DetailInv

\* What an acknowledgement brings: a version and content the invoice has had.
LEMMA Acked ==
  ASSUME DetailInv, NEW op \in Invoice!Ops, Invoice!Acknowledged(op)
  PROVE  /\ floor' \in Invoice!Versions /\ floor' <= server.ver
         /\ req[op].got.ed \in 0..MaxVer /\ req[op].got.ck \in 0..MaxVer
         /\ req[op].got.ed <= server.ed /\ req[op].got.ck <= server.ck
         /\ Invoice!Newer(mine, req[op].got.ed) \in 0..MaxVer
         /\ Invoice!Newer(mine, req[op].got.ed) <= server.ed
         /\ Invoice!Reloaded /\ server' = server /\ visible' = visible
<1> USE FlowAssumption DEF Invoice!DetailAssumption
<1>1. /\ server \in Invoice!Rec /\ floor \in Invoice!Versions /\ mine \in 0..MaxVer
      /\ ServerInv /\ DoneInv
  BY DEF DetailInv, Invoice!TypeOK
<1>2. /\ req[op].got \in Invoice!Rec
      /\ req[op].got.ver <= server.ver /\ req[op].got.ed <= server.ed /\ req[op].got.ck <= server.ck
  BY <1>1 DEF DoneInv, Invoice!Acknowledged
<1>3. floor' = Invoice!Newer(floor, req[op].got.ver)
  BY DEF Invoice!Acknowledged
<1>4. /\ req[op].got.ver \in Invoice!Versions
      /\ req[op].got.ed \in 0..MaxVer /\ req[op].got.ck \in 0..MaxVer
  BY <1>2 DEF Invoice!Rec
<1>5. floor <= server.ver /\ mine <= server.ed
  BY <1>1 DEF ServerInv
<1>6. floor' \in Invoice!Versions /\ floor' <= server.ver
  BY <1>1, <1>2, <1>3, <1>4, <1>5 DEF Invoice!Newer
<1>7. /\ Invoice!Newer(mine, req[op].got.ed) \in 0..MaxVer
      /\ Invoice!Newer(mine, req[op].got.ed) <= server.ed
  BY <1>1, <1>2, <1>4, <1>5 DEF Invoice!Newer
<1> QED BY <1>2, <1>4, <1>6, <1>7 DEF Invoice!Acknowledged

LEMMA AckSteps ==
  ASSUME DetailInv, NEW op \in Invoice!Ops,
         \/ op = "revalidate" /\ Invoice!Revalidated
         \/ op \in {"save", "accept"} /\ Invoice!Saved(op)
         \/ op \in {"approve", "reject", "submit"} /\ Invoice!Decided(op)
         \/ op \in {"again", "resolve", "undo"} /\ Invoice!FailureHandled(op)
  PROVE  DetailInv'
<1> USE FlowAssumption DEF Invoice!DetailAssumption
<1>1. Invoice!Acknowledged(op)
  BY DEF Invoice!Revalidated, Invoice!Saved, Invoice!Decided, Invoice!FailureHandled
<1>2. /\ floor' \in Invoice!Versions /\ floor' <= server.ver
      /\ req[op].got.ed \in 0..MaxVer /\ req[op].got.ck \in 0..MaxVer
      /\ req[op].got.ed <= server.ed /\ req[op].got.ck <= server.ck
      /\ Invoice!Newer(mine, req[op].got.ed) \in 0..MaxVer
      /\ Invoice!Newer(mine, req[op].got.ed) <= server.ed
      /\ Invoice!Reloaded /\ server' = server /\ visible' = visible
  BY <1>1, Acked
<1>3. /\ Invoice!TypeOK /\ ServerInv /\ server.ck \in 0..MaxVer
      /\ req \in [Invoice!Ops -> Invoice!Request]
  BY DEF DetailInv, Invoice!TypeOK, Invoice!Rec
<1>4. /\ armed' \in [{"approve", "reject", "submit"} -> {"idle", "armed", "submitting"}]
      /\ form' \in 0..MaxVer /\ {follow', stale', refused', visible', late'} \subseteq BOOLEAN
  <2>1. CASE op = "revalidate" /\ Invoice!Revalidated
    <3>1. late' \in BOOLEAN /\ stale' \in BOOLEAN
      <4>1. late' = (mine > req["revalidate"].got.ck) /\ stale' = FALSE
        BY <2>1 DEF Invoice!Revalidated
      <4>2. (mine > req["revalidate"].got.ck) \in BOOLEAN
        BY <1>2, <1>3, <2>1 DEF Invoice!TypeOK
      <4> QED BY <4>1, <4>2, Zenon
    <3>2. UNCHANGED <<form, follow, refused>> /\ armed' = [armed EXCEPT !["submit"] = "idle"]
      BY <2>1 DEF Invoice!Revalidated
    <3> QED BY <1>2, <1>3, <3>1, <3>2 DEF Invoice!TypeOK
  <2>2. CASE op \in {"save", "accept"} /\ Invoice!Saved(op)
    <3>1. late' \in BOOLEAN /\ stale' \in BOOLEAN /\ follow' \in BOOLEAN
      BY <2>2 DEF Invoice!Saved
    <3>2. refused' = refused /\ form' = 0 /\ armed' = [armed EXCEPT !["submit"] = "idle"]
      BY <2>2 DEF Invoice!Saved
    <3> QED BY <1>2, <1>3, <3>1, <3>2 DEF Invoice!TypeOK
  <2>3. CASE op \in {"approve", "reject", "submit"} /\ Invoice!Decided(op)
    BY <1>2, <1>3, <2>3 DEF Invoice!TypeOK, Invoice!Decided
  <2>4. CASE op \in {"again", "resolve", "undo"} /\ Invoice!FailureHandled(op)
    BY <1>2, <1>3, <2>4 DEF Invoice!TypeOK, Invoice!FailureHandled, Invoice!page
  <2> QED BY <2>1, <2>2, <2>3, <2>4
<1>5. req' \in [Invoice!Ops -> Invoice!Request] /\ DoneInv'
  <2>1. CASE req' = Invoice!Forgotten(op)
    BY <1>2, <2>1, ForgottenReq
  <2>2. CASE req' = [Invoice!Forgotten(op) EXCEPT !["revalidate"] =
                       [Invoice!NoRequest EXCEPT !.answer = "out"]]
    <3>1. /\ req' \in [Invoice!Ops -> Invoice!Request]
          /\ \A o \in Invoice!Ops : req'[o] = req[o] \/ req'[o].answer # "done"
      BY <1>3, <2>2, Requests DEF Invoice!Forgotten, Invoice!Ops
    <3> QED BY <1>2, <3>1, ReqSteps
  <2> QED BY <2>1, <2>2 DEF Invoice!Revalidated, Invoice!Saved, Invoice!Decided,
                            Invoice!FailureHandled
<1>6. mine' \in 0..MaxVer /\ mine' <= server.ed /\ (stale' \/ late' \/ mine' <= server.ck)
  <2>1. CASE op = "revalidate" /\ Invoice!Revalidated
    <3>1. mine' = mine /\ late' = (mine > req[op].got.ck)
      BY <2>1 DEF Invoice!Revalidated
    <3>2. late' \/ mine <= server.ck
      <4>1. mine \in 0..MaxVer
        BY <1>3 DEF Invoice!TypeOK
      <4>2. mine > req[op].got.ck \/ mine <= server.ck
        BY <1>2, <1>3, <4>1
      <4> QED BY <3>1, <4>2
    <3> QED BY <1>3, <3>1, <3>2 DEF Invoice!TypeOK, ServerInv
  <2>2. CASE op \in {"save", "accept"} /\ Invoice!Saved(op)
    BY <1>2, <2>2 DEF Invoice!Saved
  <2>3. CASE \/ op \in {"approve", "reject", "submit"} /\ Invoice!Decided(op)
             \/ op \in {"again", "resolve", "undo"} /\ Invoice!FailureHandled(op)
    BY <1>3, <2>3 DEF Invoice!Decided, Invoice!FailureHandled, Invoice!page, Invoice!TypeOK,
                      ServerInv
  <2> QED BY <2>1, <2>2, <2>3
<1> QED BY <1>2, <1>4, <1>5, <1>6, AfterReload

\* A control or an answer that leaves the reads alone.
LEMMA OnlyControls ==
  ASSUME DetailInv,
         UNCHANGED <<server, load, data, live, tick, reread, stale, refused, floor, mine, late>>,
         req' \in [Invoice!Ops -> Invoice!Request], DoneInv',
         armed' \in [{"approve", "reject", "submit"} -> {"idle", "armed", "submitting"}],
         form' \in 0..MaxVer, follow' \in BOOLEAN, visible' \in BOOLEAN
  PROVE  DetailInv'
<1>1. Invoice!TypeOK' /\ ServerInv'
  BY DEF DetailInv, Invoice!TypeOK, ServerInv
<1>2. ReadInv' /\ TickInv'
  BY DEF DetailInv, ReadInv, TickInv, Invoice!Inv
<1>3. ShownInv'
  BY DEF DetailInv, ShownInv, MayShow, Newest
<1> QED BY <1>1, <1>2, <1>3 DEF DetailInv

LEMMA ControlSteps == ASSUME DetailInv, Invoice!Controls PROVE DetailInv'
<1> USE FlowAssumption DEF Invoice!DetailAssumption
<1>1. /\ Invoice!TypeOK /\ DoneInv /\ req \in [Invoice!Ops -> Invoice!Request]
      /\ armed \in [{"approve", "reject", "submit"} -> {"idle", "armed", "submitting"}]
      /\ form \in 0..MaxVer /\ follow \in BOOLEAN /\ visible \in BOOLEAN
  BY DEF DetailInv, Invoice!TypeOK
<1>2. ASSUME UNCHANGED <<server, req>> PROVE DoneInv'
  BY <1>1, <1>2 DEF DoneInv
<1>3. CASE Invoice!Retry
  BY <1>3, LoadSteps
<1>4. CASE Invoice!OpenForm
  <2>1. form' \in 0..MaxVer
    <3>1. Invoice!Shown \in Invoice!MaybeRec /\ form' = Invoice!Shown.ed
      BY <1>1, <1>4 DEF Invoice!OpenForm, Invoice!Shown, Invoice!Inv, Invoice!TypeOK,
                        Invoice!MaybeRec
    <3> QED BY <3>1 DEF Invoice!MaybeRec, Invoice!Rec, Invoice!NoRec
  <2> QED BY <1>1, <1>2, <1>4, <2>1, OnlyControls
          DEF Invoice!OpenForm, Invoice!reads, Invoice!ghosts
<1>5. CASE Invoice!CloseForm
  BY <1>1, <1>2, <1>5, OnlyControls DEF Invoice!CloseForm, Invoice!reads, Invoice!ghosts
<1>6. CASE Invoice!LookAway
  <2>1. visible' \in BOOLEAN
    BY <1>6 DEF Invoice!LookAway
  <2> QED BY <1>1, <1>2, <1>6, <2>1, OnlyControls
          DEF Invoice!LookAway, Invoice!reads, Invoice!page, Invoice!ghosts
<1>7. ASSUME NEW op \in Invoice!Ops, Invoice!Send(op) PROVE DetailInv'
  <2>1. req' = [req EXCEPT ![op] = [Invoice!NoRequest EXCEPT !.answer = "out"]]
    BY <1>7 DEF Invoice!Send
  <2>2. /\ req' \in [Invoice!Ops -> Invoice!Request]
        /\ \A o \in Invoice!Ops : req'[o] = req[o] \/ req'[o].answer # "done"
    BY <1>1, <2>1, Requests
  <2>3. server' = server
    BY <1>7 DEF Invoice!Send
  <2>4. DoneInv'
    BY <2>2, <2>3, ReqSteps
  <2>5. armed' \in [{"approve", "reject", "submit"} -> {"idle", "armed", "submitting"}]
    BY <1>1, <1>7 DEF Invoice!Send
  <2>6. follow' \in BOOLEAN
    <3>1. CASE op = "save"
      <4>1. PICK renamed \in BOOLEAN : follow' = (renamed /\ ~Invoice!Waits("revalidate"))
        BY <1>7, <3>1 DEF Invoice!Send
      <4> QED BY <4>1
    <3>2. CASE op # "save"
      BY <1>1, <1>7, <3>2 DEF Invoice!Send
    <3> QED BY <3>1, <3>2
  <2> QED BY <1>1, <1>7, <2>2, <2>4, <2>5, <2>6, OnlyControls
          DEF Invoice!Send, Invoice!reads, Invoice!ghosts
<1>8. ASSUME NEW op \in {"approve", "reject", "submit"},
             Invoice!ConfirmAgain(op) \/ Invoice!Arm(op) \/ Invoice!Disarm(op)
      PROVE  DetailInv'
  <2>1. /\ armed' \in [{"approve", "reject", "submit"} -> {"idle", "armed", "submitting"}]
        /\ UNCHANGED <<server, load, data, live, tick, reread, req, form, follow, stale,
                       refused, visible, floor, mine, late>>
    BY <1>1, <1>8 DEF Invoice!ConfirmAgain, Invoice!Arm, Invoice!Disarm, Invoice!reads,
                      Invoice!ghosts
  <2> QED BY <1>1, <1>2, <2>1, OnlyControls
<1>9. ASSUME NEW op \in Own, op \in {"approve", "submit"} /\ Invoice!ConfirmAgain(op)
      PROVE  DetailInv'
  BY <1>8, <1>9
<1>10. ASSUME NEW op \in Own,
              op \in {"approve", "reject", "submit"} /\ (Invoice!Arm(op) \/ Invoice!Disarm(op))
       PROVE  DetailInv'
  BY <1>8, <1>10
<1> QED BY <1>3, <1>4, <1>5, <1>6, <1>7, <1>9, <1>10 DEF Invoice!Controls

\* A 403 of approve disowns the tick and asks for the record again.
LEMMA RefusedSteps == ASSUME DetailInv, Invoice!Refused PROVE DetailInv'
<1> USE ReadTypes DEF Invoice!Refused, Invoice!ghosts
<1>1. Invoice!TypeOK /\ ReadInv /\ ServerInv /\ ShownInv
  BY DEF DetailInv
<1>2. tick' \in Invoice!Read /\ ~tick'.ok /\ tick'.answer = tick.answer /\ tick'.got = tick.got
  <2>1. tick \in Invoice!Read /\ tick' = [tick EXCEPT !.ok = FALSE]
    BY <1>1 DEF Invoice!TypeOK
  <2> QED BY <2>1 DEF Invoice!Read
<1>3. req' \in [Invoice!Ops -> Invoice!Request] /\ DoneInv'
  BY ForgottenReq DEF Invoice!Ops
<1>4. Invoice!TypeOK'
  BY <1>1, <1>2, <1>3 DEF Invoice!TypeOK
<1>5. ServerInv'
  BY <1>1 DEF ServerInv
<1>6. ReadInv'
  BY <1>1, <1>2 DEF ReadInv
<1>7. ShownInv'
  BY <1>1, <1>2 DEF ShownInv, MayShow, Newest
<1>8. TickInv'
  BY <1>2 DEF TickInv
<1> QED BY <1>3, <1>4, <1>5, <1>6, <1>7, <1>8 DEF DetailInv

LEMMA FailedSteps ==
  ASSUME DetailInv, NEW op \in Invoice!Ops, Invoice!Failed(op)
  PROVE  DetailInv'
<1>1. /\ Invoice!TypeOK /\ ServerInv
      /\ server' = server /\ req' = Invoice!Forgotten(op)
      /\ UNCHANGED <<form, stale, refused, visible, floor, mine, late>>
  BY DEF DetailInv, Invoice!Failed, Invoice!ghosts
<1>2. req' \in [Invoice!Ops -> Invoice!Request] /\ DoneInv'
  BY <1>1, ForgottenReq
<1>3. /\ armed' \in [{"approve", "reject", "submit"} -> {"idle", "armed", "submitting"}]
      /\ form' \in 0..MaxVer /\ mine' \in 0..MaxVer /\ floor' \in Invoice!Versions
  BY <1>1 DEF Invoice!Failed, Invoice!TypeOK
<1>4. follow' \in BOOLEAN /\ visible' \in BOOLEAN
  BY <1>1 DEF Invoice!Failed, Invoice!TypeOK
<1>5. CASE op = "accept"
  <2>1. Invoice!Reloaded
    BY <1>5 DEF Invoice!Failed
  <2>2. {follow', stale', refused', visible', late'} \subseteq BOOLEAN
    BY <1>1, <1>4 DEF Invoice!TypeOK
  <2>3. floor' <= server.ver /\ mine' <= server.ed /\ (stale' \/ late' \/ mine' <= server.ck)
    BY <1>1 DEF ServerInv
  <2> QED BY <1>1, <1>2, <1>3, <2>1, <2>2, <2>3, AfterReload
<1>6. CASE op # "accept"
  BY <1>1, <1>2, <1>3, <1>4, <1>6, OnlyControls DEF Invoice!Failed, Invoice!reads
<1> QED BY <1>5, <1>6

------------------------------------------------------------------------------
(* The page, and the composition. *)

LEMMA DetailNext == ASSUME DetailInv, Invoice!Next PROVE DetailInv'
<1>1. CASE Invoice!Poll
  BY <1>1, TickSteps
<1>2. CASE Invoice!Reads
  BY <1>2, LoadSteps, RereadSteps DEF Invoice!Reads
<1>3. CASE Invoice!Controls
  BY <1>3, ControlSteps
<1>4. CASE Invoice!Answers
  <2>1. CASE Invoice!Revalidated
    BY <2>1, AckSteps DEF Invoice!Ops
  <2>2. CASE Invoice!Refused
    BY <2>2, RefusedSteps
  <2>3. ASSUME NEW op \in Invoice!Ops,
               \/ op \in {"save", "accept"} /\ Invoice!Saved(op)
               \/ op \in {"approve", "reject", "submit"} /\ Invoice!Decided(op)
               \/ op \in {"again", "resolve", "undo"} /\ Invoice!FailureHandled(op)
        PROVE  DetailInv'
    BY <2>3, AckSteps
  <2>4. ASSUME NEW op \in Invoice!Ops, Invoice!Served(op) \/ Invoice!Failed(op)
        PROVE  DetailInv'
    BY <2>4, ServedSteps, FailedSteps
  <2> QED BY <1>4, <2>1, <2>2, <2>3, <2>4 DEF Invoice!Answers
<1>5. CASE Invoice!World
  BY <1>5, WorldSteps
<1> QED BY <1>1, <1>2, <1>3, <1>4, <1>5 DEF Invoice!Next

LEMMA DetailStep == ASSUME DetailInv, [Next]_vars PROVE DetailInv'
<1>1. CASE InvoiceStep
  BY <1>1, DetailNext DEF InvoiceStep
<1>2. CASE UNCHANGED invoiceVars
  <2>1. UNCHANGED <<server, load, data, live, tick, reread, req, armed, form, follow, stale,
                    refused, visible, floor, mine, late>>
    BY <1>2 DEF invoiceVars
  <2>2. DoneInv'
    BY <2>1 DEF DetailInv, DoneInv
  <2> QED BY <2>1, <2>2, OnlyControls DEF DetailInv, Invoice!TypeOK
<1> QED BY <1>1, <1>2 DEF Next, ImportStep, vars

\* The invariant of the page.
LEMMA DetailInvariant == Spec => []DetailInv
<1>1. Init => DetailInv
  BY DetailInit DEF Init
<1>2. DetailInv /\ [Next]_vars => DetailInv'
  BY DetailStep
<1> QED BY <1>1, <1>2, PTL DEF Spec

\* Once a change of this page was acknowledged, every read that can still be
\* shown was served after it: reload() disowns the ticks and the re-read, and
\* useAsync the run before.
THEOREM OwnWritesShown == Spec => []ShowsOwnWrites
<1>1. DetailInv => ShowsOwnWrites
  <2> SUFFICES ASSUME DetailInv, Invoice!Ready PROVE Invoice!Shown.ver >= floor
    BY DEF ShowsOwnWrites, Invoice!ShowsOwnWrites
  <2>1. Invoice!Shown \in Invoice!Rec /\ MayShow(Invoice!Shown)
    BY DEF Invoice!Ready, Invoice!Shown, Invoice!Inv, DetailInv, Invoice!TypeOK,
           Invoice!MaybeRec, MayShow
  <2>2. floor <= Invoice!Shown.ver
    BY <2>1 DEF DetailInv, ShownInv, Newest
  <2>3. floor \in Nat /\ Invoice!Shown.ver \in Nat
    BY <2>1, FlowAssumption
       DEF DetailInv, Invoice!TypeOK, Invoice!Rec, Invoice!Versions, Invoice!DetailAssumption
  <2> QED BY <2>2, <2>3
<1> QED BY <1>1, DetailInvariant, PTL

\* A verdict older than the newest acknowledged edit of this page is marked
\* (staleSinceEdit), unless a re-validation that edit overtook cleared the mark.
THEOREM OwnEditMarked == Spec => []OwnEditFlagged
<1>1. DetailInv => OwnEditFlagged
  <2> SUFFICES ASSUME DetailInv, Invoice!Ready, mine > Invoice!Shown.ck
               PROVE  Invoice!VerdictStale \/ late
    BY DEF OwnEditFlagged, Invoice!OwnEditFlagged
  <2>1. Invoice!Shown \in Invoice!Rec /\ MayShow(Invoice!Shown)
    BY DEF Invoice!Ready, Invoice!Shown, Invoice!Inv, DetailInv, Invoice!TypeOK,
           Invoice!MaybeRec, MayShow
  <2>2. stale \/ late \/ mine <= Invoice!Shown.ck
    BY <2>1 DEF DetailInv, ShownInv, Newest
  <2>3. mine \in 0..MaxVer /\ Invoice!Shown.ck \in 0..MaxVer
    BY <2>1 DEF DetailInv, Invoice!TypeOK, Invoice!Rec
  <2> QED BY <2>2, <2>3 DEF Invoice!VerdictStale
<1> QED BY <1>1, DetailInvariant, PTL

\* The page goes back to an older record only when the re-read after a refused
\* approval lands, and when a tick lands that the re-read passed: generation
\* counter, one tick at a time, and useAsync's own.
THEOREM OnlyForward == Spec => NeverGoesBack
<1> DEFINE Forward ==
      (Invoice!Ready /\ Invoice!Ready') =>
        (Invoice!Shown'.ver >= Invoice!Shown.ver \/ Invoice!ByReread \/ Invoice!ByPassedTick)
<1>1. ASSUME DetailInv, [Next]_vars PROVE [Forward]_(Invoice!vars)
  <2> USE FlowAssumption DEF Invoice!DetailAssumption
  <2>1. SUFFICES ASSUME Invoice!Ready, Invoice!Ready', ~Invoice!ByReread, ~Invoice!ByPassedTick
                 PROVE  Invoice!Shown'.ver >= Invoice!Shown.ver
    OBVIOUS
  <2>2. /\ Invoice!TypeOK /\ ReadInv /\ TickInv
        /\ load.answer = "none" /\ load'.answer = "none"
        /\ Invoice!Inv \in Invoice!Rec
    BY <1>1, <2>1 DEF DetailInv, Invoice!Ready, Invoice!Shown, Invoice!Inv, Invoice!TypeOK,
                      Invoice!MaybeRec
  <2>3. CASE UNCHANGED <<data, live>>
    BY <2>1, <2>2, <2>3 DEF Invoice!Shown, Invoice!Inv, Invoice!Rec, Invoice!Versions
  <2>4. CASE Invoice!TickAnswered
    <3>1. CASE tick.ok /\ ~tick.passed
      <4>1. /\ Invoice!Shown = Invoice!Inv /\ Invoice!Inv.ver <= tick.got.ver
            /\ tick.got \in Invoice!Rec /\ Invoice!Shown' = tick.got
        BY <2>2, <2>4, <3>1, NoRecApart
           DEF Invoice!TickAnswered, Invoice!Overlaid, Invoice!Shown, Invoice!Inv, TickInv, ReadInv
      <4> QED BY <2>2, <4>1 DEF Invoice!Rec, Invoice!Versions
    <3>2. CASE ~tick.ok
      BY <2>3, <2>4, <3>2 DEF Invoice!TickAnswered, Invoice!Overlaid
    <3> QED BY <2>1, <2>4, <3>1, <3>2 DEF Invoice!TickAnswered, Invoice!ByPassedTick
  <2>5. CASE Invoice!RereadAnswered
    BY <2>1, <2>2, <2>5 DEF Invoice!RereadAnswered, Invoice!ByReread, ReadInv
  <2>6. CASE Invoice!Reloaded
    BY <2>2, <2>6, ReadTypes DEF Invoice!Reloaded
  <2>7. CASE Invoice!LoadAnswered \/ Invoice!Retry
    BY <2>2, <2>7 DEF Invoice!LoadAnswered, Invoice!Retry
  <2>8. CASE ImportStep \/ UNCHANGED vars
    BY <2>3, <2>8 DEF ImportStep, vars, invoiceVars
  <2>9. CASE InvoiceStep
    <3>1. CASE Invoice!Poll
      BY <2>3, <2>4, <3>1
         DEF Invoice!Poll, Invoice!Tick, Invoice!TickServed, Invoice!TickLost
    <3>2. CASE Invoice!Reads
      BY <2>3, <2>5, <2>7, <3>2
         DEF Invoice!Reads, Invoice!LoadServed, Invoice!LoadFailed, Invoice!RereadServed,
             Invoice!RereadLost
    <3>3. CASE Invoice!Controls
      BY <2>3, <2>7, <3>3
         DEF Invoice!Controls, Invoice!OpenForm, Invoice!CloseForm, Invoice!LookAway,
             Invoice!Send, Invoice!ConfirmAgain, Invoice!Arm, Invoice!Disarm, Invoice!reads
    <3>4. CASE Invoice!Answers
      <4>1. CASE Invoice!Revalidated \/ Invoice!Refused
        BY <2>3, <2>6, <4>1 DEF Invoice!Revalidated, Invoice!Acknowledged, Invoice!Refused
      <4>2. ASSUME NEW op \in Invoice!Ops,
                   Invoice!Saved(op) \/ Invoice!Decided(op) \/ Invoice!FailureHandled(op)
            PROVE  Invoice!Reloaded
        BY <4>2 DEF Invoice!Saved, Invoice!Decided, Invoice!FailureHandled, Invoice!Acknowledged
      <4>3. ASSUME NEW op \in Invoice!Ops, Invoice!Served(op) \/ Invoice!Failed(op)
            PROVE  Invoice!Reloaded \/ UNCHANGED <<data, live>>
        BY <4>3 DEF Invoice!Served, Invoice!Failed, Invoice!reads
      <4> QED BY <2>3, <2>6, <3>4, <4>1, <4>2, <4>3 DEF Invoice!Answers
    <3>5. CASE Invoice!World
      BY <2>3, <3>5 DEF Invoice!World, Invoice!Verdict, Invoice!Restaffed, Invoice!OthersDo,
                        Invoice!reads
    <3> QED BY <2>9, <3>1, <3>2, <3>3, <3>4, <3>5 DEF InvoiceStep, Invoice!Next
  <2> QED BY <1>1, <2>8, <2>9 DEF Next
<1>2. Spec => [][Forward]_(Invoice!vars)
  BY <1>1, DetailInvariant, PTL DEF Spec
<1> QED BY <1>2 DEF NeverGoesBack, Invoice!NeverGoesBack
------------------------------------------------------------------------------
(* The import and its form. *)

\* The runs there may be on show, and the operations there may be under way.
Run == [status : {"idle", "running", "finished", "failed"},
        at : UNION {[S -> Import!Outcomes] : S \in SUBSET Files}]
Job == [op : {"preview", "run", "filing"},
        at : UNION {[S -> Import!Stages] : S \in SUBSET Files},
        to : Clients, fresh : BOOLEAN]

ScreenInv ==
  view \in {"create", "opened", "other"} /\ step \in Import!Steps /\ mapped \in BOOLEAN

\* What the flow holds, and whose it is.
ShownOfOne ==
  /\ active \in Clients /\ entity = active /\ draftOf = active
  /\ picked \subseteq Files /\ stored \subseteq picked /\ groups \subseteq Files
  /\ batches \subseteq Files /\ hand \in Files \cup {Import!NoFile}
  /\ asked \in Files \cup {Import!NoFile}
  /\ Import!OneClientShown

RunInv ==
  /\ run \in Run
  /\ tail.on => /\ tail.at \in UNION {[S -> Import!Stages] : S \in SUBSET Files}
                /\ \A f \in DOMAIN tail.at : f.who = active

LockInv ==
  /\ still \subseteq {"import", "filing"}
  /\ \/ lock = Import!Free /\ jobs = {} /\ still = {}
     \/ \E j \in Job : jobs = {j} /\ lock = [op |-> j.op, fresh |-> j.fresh]

WorkInv ==
  \A j \in jobs :
    /\ j.op = "run" => \A f \in Import!FilesOf(j) : f.who = j.to
    /\ j.fresh => j.to = active

ImportInv == ScreenInv /\ ShownOfOne /\ RunInv /\ LockInv /\ WorkInv /\ Import!ToTheirClient

------------------------------------------------------------------------------
(* Runs, operations and the lock. *)

LEMMA StageShown ==
  ASSUME NEW st PROVE Import!Outcome(st) \in Import!Outcomes
<1>1. CASE st \in {"imported", "failed"}
  BY <1>1 DEF Import!Outcomes, Import!Outcome
<1>2. CASE st \notin {"imported", "failed"}
  BY <1>2 DEF Import!Outcomes, Import!Outcome
<1> QED BY <1>1, <1>2

\* What is shown of an operation's files is a run.
LEMMA RunOfStages ==
  ASSUME NEW S \in SUBSET Files, NEW at \in [S -> Import!Stages]
  PROVE  Import!RunOf(at) \in Run /\ DOMAIN Import!RunOf(at).at = S
<1>1. [f \in DOMAIN at |-> Import!Outcome(at[f])] \in [S -> Import!Outcomes]
  BY StageShown
<1>2. [f \in DOMAIN at |-> Import!Outcome(at[f])]
        \in UNION {[T -> Import!Outcomes] : T \in SUBSET Files}
  BY <1>1
<1> QED BY <1>1, <1>2 DEF Import!RunOf, Run

\* An operation under way is the only one, and holds the lock.
LEMMA OneJob ==
  ASSUME LockInv, NEW j \in jobs
  PROVE  /\ j \in Job /\ jobs = {j} /\ lock = [op |-> j.op, fresh |-> j.fresh]
BY DEF LockInv

LEMMA HeldIsWork ==
  ASSUME LockInv
  PROVE  Import!Held <=> jobs # {}
BY DEF LockInv, Import!Held, Import!Free, Job

------------------------------------------------------------------------------
(* The empty flow. *)

LEMMA ImportInit == Import!Init => ImportInv
<1> SUFFICES ASSUME Import!Init PROVE ImportInv
  OBVIOUS
<1>1. active \in Clients /\ entity = active /\ draftOf = active
  BY FlowAssumption DEF Import!ImportAssumption, Import!Init
<1>2. DOMAIN run.at = {} /\ run \in Run
  <2>1. run = [status |-> "idle", at |-> <<>>]
    BY DEF Import!Init, Import!NoRun
  <2>2. <<>> \in [{} -> Import!Outcomes]
    OBVIOUS
  <2>3. <<>> \in UNION {[S -> Import!Outcomes] : S \in SUBSET Files}
    BY <2>2
  <2> QED BY <2>1, <2>2, <2>3 DEF Run
<1>3. ScreenInv
  BY DEF Import!Init, ScreenInv, Import!Steps
<1>4. ShownOfOne
  BY <1>1, <1>2 DEF Import!Init, ShownOfOne, Import!OneClientShown, Import!NoFile,
                    Import!Nothing
<1>5. RunInv
  BY <1>2 DEF Import!Init, RunInv, Import!NoTail
<1>6. LockInv /\ WorkInv /\ Import!ToTheirClient
  BY DEF Import!Init, LockInv, WorkInv, Import!ToTheirClient
<1> QED BY <1>3, <1>4, <1>5, <1>6 DEF ImportInv

------------------------------------------------------------------------------
(* What a step may disturb. *)

\* A step on the screens: no operation, run or request is touched.
LEMMA OnlyScreen ==
  ASSUME ImportInv,
         UNCHANGED <<active, run, lock, jobs, wire, tail>>,
         ScreenInv', ShownOfOne',
         still' = still \/ (Import!Held /\ still' \subseteq {"import", "filing"})
  PROVE  ImportInv'
<1>1. RunInv' /\ WorkInv' /\ Import!ToTheirClient'
  BY DEF ImportInv, RunInv, WorkInv, Import!ToTheirClient
<1>2. LockInv'
  BY HeldIsWork DEF ImportInv, LockInv
<1> QED BY <1>1, <1>2 DEF ImportInv

\* A step of the operation under way, which stays as it is but for its files'
\* progress.
LEMMA OnlyStage ==
  ASSUME ImportInv, NEW j \in jobs, NEW f \in Import!FilesOf(j), NEW st \in Import!Stages,
         Import!Stage(j, f, st),
         UNCHANGED <<active, lock, still>>,
         ScreenInv', ShownOfOne', RunInv', Import!ToTheirClient'
  PROVE  ImportInv'
<1>1. j \in Job /\ jobs = {j} /\ lock = [op |-> j.op, fresh |-> j.fresh]
  BY OneJob DEF ImportInv
<1>2. PICK k : k = [j EXCEPT !.at[f] = st]
  OBVIOUS
<1>3. /\ k \in Job /\ k.op = j.op /\ k.to = j.to /\ k.fresh = j.fresh
      /\ Import!FilesOf(k) = Import!FilesOf(j)
  <2>1. PICK S \in SUBSET Files : j.at \in [S -> Import!Stages]
    BY <1>1 DEF Job
  <2>2. [j.at EXCEPT ![f] = st] \in [S -> Import!Stages]
    BY <2>1 DEF Import!FilesOf
  <2>3. [j.at EXCEPT ![f] = st] \in UNION {[T -> Import!Stages] : T \in SUBSET Files}
    BY <2>2
  <2>4. k = [op |-> j.op, at |-> [j.at EXCEPT ![f] = st], to |-> j.to, fresh |-> j.fresh]
    BY <1>1, <1>2 DEF Job
  <2> QED BY <1>1, <2>1, <2>2, <2>3, <2>4 DEF Job, Import!FilesOf
<1>4. jobs' = {k}
  BY <1>1, <1>2 DEF Import!Stage
<1>5. LockInv'
  BY <1>1, <1>3, <1>4 DEF ImportInv, LockInv
<1>6. WorkInv'
  BY <1>1, <1>3, <1>4 DEF ImportInv, WorkInv
<1> QED BY <1>5, <1>6 DEF ImportInv

\* The operation under way ends.
LEMMA OnlyReleased ==
  ASSUME ImportInv, NEW j \in jobs, Import!Released(j),
         ScreenInv', ShownOfOne', RunInv', Import!ToTheirClient'
  PROVE  ImportInv'
<1>1. jobs = {j}
  BY OneJob DEF ImportInv
<1>2. jobs' = {} /\ lock' = Import!Free /\ still' = {}
  BY <1>1 DEF Import!Released
<1> QED BY <1>2 DEF ImportInv, LockInv, WorkInv

\* An operation begins: there was none.
LEMMA OnlyTaken ==
  ASSUME ImportInv, NEW op \in {"preview", "run", "filing"}, NEW at, NEW to \in Clients,
         Import!Takes(op, at, to),
         at \in UNION {[S -> Import!Stages] : S \in SUBSET Files},
         to = active, op = "run" => \A f \in DOMAIN at : f.who = to,
         UNCHANGED active, still' \subseteq still,
         ScreenInv', ShownOfOne', RunInv', Import!ToTheirClient'
  PROVE  ImportInv'
<1>1. jobs = {} /\ still = {}
  BY HeldIsWork DEF ImportInv, LockInv, Import!Takes, Import!Busy
<1>2. PICK j : j = [op |-> op, at |-> at, to |-> to, fresh |-> TRUE]
  OBVIOUS
<1>3. /\ j \in Job /\ j.op = op /\ j.at = at /\ j.to = to /\ j.fresh = TRUE
      /\ jobs' = {j} /\ lock' = [op |-> j.op, fresh |-> j.fresh] /\ still' = {}
  BY <1>1, <1>2 DEF Job, Import!Takes
<1>4. LockInv'
  BY <1>3 DEF LockInv
<1>5. WorkInv'
  BY <1>3 DEF WorkInv, Import!FilesOf
<1> QED BY <1>4, <1>5 DEF ImportInv

\* A click that finds the lock taken.
LEMMA OnlyRefused ==
  ASSUME ImportInv, NEW op, Import!Refused(op)
  PROVE  ImportInv'
<1> USE DEF Import!Refused, Import!flow
<1>1. ScreenInv' /\ ShownOfOne'
  BY DEF ImportInv, ScreenInv, ShownOfOne, Import!OneClientShown
<1>2. Import!ShownAt(step, run) \in {"import", "filing"}
  BY DEF Import!ShownAt
<1>3. Import!Held /\ still' \subseteq {"import", "filing"}
  BY <1>2 DEF ImportInv, LockInv, Import!Busy
<1> QED BY <1>1, <1>3, OnlyScreen

\* Starting over, for the company of the switcher: what is out belongs to an
\* older run from here on, whatever company it is for.
LEMMA OnlyReset ==
  ASSUME ImportInv, Import!ResetImport(active'), active' \in Clients,
         ScreenInv', draftOf' = active',
         hand' \in Files \cup {Import!NoFile} /\ (hand' # Import!NoFile => hand'.who = active'),
         asked' \in Files \cup {Import!NoFile} /\ (asked' # Import!NoFile => asked'.who = active'),
         opened'.by = "run" => opened'.who = active',
         UNCHANGED wire, still' \subseteq still
  PROVE  ImportInv'
<1> USE DEF Import!ResetImport
<1>1. /\ entity' = active' /\ picked' = {} /\ stored' = {} /\ groups' = {}
      /\ run' = Import!NoRun /\ batches' = {} /\ tail' = Import!NoTail
      /\ jobs' = {[j EXCEPT !.fresh = FALSE] : j \in jobs}
      /\ lock' = [lock EXCEPT !.fresh = FALSE]
  BY DEF Import!Superseded
<1>2. DOMAIN run'.at = {} /\ run' \in Run
  <2>1. run' = [status |-> "idle", at |-> <<>>]
    BY <1>1 DEF Import!NoRun
  <2>2. <<>> \in [{} -> Import!Outcomes]
    OBVIOUS
  <2>3. <<>> \in UNION {[S -> Import!Outcomes] : S \in SUBSET Files}
    BY <2>2
  <2> QED BY <2>1, <2>2, <2>3 DEF Run
<1>3. ShownOfOne'
  BY <1>1, <1>2 DEF ShownOfOne, Import!OneClientShown
<1>4. RunInv'
  BY <1>1, <1>2 DEF RunInv, Import!NoTail
<1>5. LockInv' /\ WorkInv'
  <2>1. CASE jobs = {}
    <3>1. lock = Import!Free /\ jobs' = {} /\ still' = {}
      BY <1>1, <2>1 DEF ImportInv, LockInv
    <3>2. lock' = Import!Free
      BY <1>1, <3>1 DEF Import!Free
    <3> QED BY <3>1, <3>2 DEF LockInv, WorkInv
  <2>2. ASSUME NEW j \in jobs PROVE LockInv' /\ WorkInv'
    <3>1. /\ j \in Job /\ jobs = {j} /\ lock = [op |-> j.op, fresh |-> j.fresh]
          /\ WorkInv /\ still \subseteq {"import", "filing"}
      BY OneJob DEF ImportInv, LockInv
    <3>2. PICK k : k = [j EXCEPT !.fresh = FALSE]
      OBVIOUS
    <3>3. k \in Job /\ k.op = j.op /\ k.at = j.at /\ k.to = j.to /\ k.fresh = FALSE
      BY <3>1, <3>2 DEF Job
    <3>4. jobs' = {k} /\ lock' = [op |-> k.op, fresh |-> k.fresh]
      BY <1>1, <3>1, <3>2, <3>3
    <3>5. LockInv'
      BY <3>1, <3>3, <3>4 DEF LockInv
    <3>6. WorkInv'
      BY <3>1, <3>3, <3>4 DEF WorkInv, Import!FilesOf
    <3> QED BY <3>5, <3>6
  <2> QED BY <2>1, <2>2
<1>6. Import!ToTheirClient'
  BY DEF ImportInv, Import!ToTheirClient
<1> QED BY <1>3, <1>4, <1>5, <1>6 DEF ImportInv

------------------------------------------------------------------------------
(* The user. *)

LEMMA StartsOver ==
  ASSUME ImportInv,
         Import!OpenCreate \/ Import!Restart \/ \E c \in Clients : Import!SwitchClient(c)
  PROVE  ImportInv'
<1>1. ScreenInv /\ ShownOfOne /\ active \in Clients /\ still \subseteq {"import", "filing"}
  BY DEF ImportInv, ShownOfOne, LockInv
<1>2. CASE Import!OpenCreate
  <2> USE <1>2 DEF Import!OpenCreate, Import!HandDropped
  <2>1. ScreenInv'
    BY <1>1 DEF ScreenInv, Import!ResetImport, Import!Steps
  <2>2. Import!ResetImport(active') /\ opened' = Import!Nothing /\ still' = {}
    OBVIOUS
  <2> QED BY <1>1, <2>1, <2>2, OnlyReset DEF Import!Nothing
<1>3. CASE Import!Restart
  <2> USE <1>3 DEF Import!Restart
  <2>1. ScreenInv'
    BY <1>1 DEF ScreenInv, Import!ResetImport, Import!Steps
  <2>2. Import!ResetImport(active') /\ still' \subseteq still
    OBVIOUS
  <2> QED BY <1>1, <2>1, <2>2, OnlyReset DEF ShownOfOne, Import!OneClientShown
<1>4. ASSUME NEW c \in Clients, Import!SwitchClient(c) PROVE ImportInv'
  <2> USE <1>4 DEF Import!SwitchClient, Import!HandDropped
  <2>1. ScreenInv'
    BY <1>1 DEF ScreenInv, Import!ResetImport, Import!Steps
  <2>2. Import!ResetImport(active') /\ opened' = Import!Nothing /\ still' = {}
    OBVIOUS
  <2> QED BY <1>1, <2>1, <2>2, OnlyReset DEF Import!Nothing
<1> QED BY <1>2, <1>3, <1>4

LEMMA Moves ==
  ASSUME ImportInv,
         \/ Import!OpenCreateBusy \/ Import!Leave \/ Import!Return
         \/ Import!BackToImport \/ Import!Assign \/ Import!Unmap
         \/ Import!SkipUpload \/ Import!ReadingLands
         \/ \E f \in Files : Import!AddPickedFile(f) \/ Import!RemovePickedFile(f)
                               \/ Import!EnterByHand(f)
  PROVE  ImportInv'
<1>1. ScreenInv /\ ShownOfOne /\ still \subseteq {"import", "filing"}
  BY DEF ImportInv, LockInv
<1> USE <1>1 DEF ScreenInv, ShownOfOne, Import!OneClientShown, Import!flow, Import!Steps
<1>2. CASE Import!OpenCreateBusy
  <2> USE <1>2 DEF Import!OpenCreateBusy, Import!Nothing
  <2>1. ScreenInv' /\ ShownOfOne'
    OBVIOUS
  <2>2. Import!Held /\ still' \subseteq {"import", "filing"}
    <3>1. Import!ShownAt(step', run) \in {"import", "filing"}
      BY DEF Import!ShownAt
    <3> QED BY <3>1
  <2> QED BY <2>1, <2>2, OnlyScreen
<1>3. CASE Import!Leave \/ Import!Return
  <2> USE <1>3 DEF Import!Leave, Import!Return, Import!Nothing
  <2>1. ScreenInv' /\ ShownOfOne'
    OBVIOUS
  <2> QED BY <2>1, OnlyScreen
<1>4. CASE Import!BackToImport \/ Import!Assign \/ Import!Unmap
  <2> USE <1>4 DEF Import!BackToImport, Import!Assign, Import!Unmap
  <2>1. ScreenInv' /\ ShownOfOne'
    OBVIOUS
  <2> QED BY <2>1, OnlyScreen
<1>5. CASE Import!SkipUpload \/ Import!ReadingLands
  <2> USE <1>5 DEF Import!SkipUpload, Import!ReadingLands, Import!HandDropped
  <2>1. ScreenInv' /\ ShownOfOne'
    OBVIOUS
  <2> QED BY <2>1, OnlyScreen
<1>6. ASSUME NEW f \in Files,
             Import!AddPickedFile(f) \/ Import!RemovePickedFile(f) \/ Import!EnterByHand(f)
      PROVE  ImportInv'
  <2> USE <1>6 DEF Import!AddPickedFile, Import!RemovePickedFile, Import!EnterByHand
  <2>1. ScreenInv'
    OBVIOUS
  <2>2. ShownOfOne'
    OBVIOUS
  <2> QED BY <2>1, <2>2, OnlyScreen
<1> QED BY <1>2, <1>3, <1>4, <1>5, <1>6

LEMMA Starts ==
  ASSUME ImportInv,
         \/ Import!ReadColumns \/ Import!StartRun \/ Import!StartDocumentRun \/ Import!FileDraft
  PROVE  ImportInv'
<1>1. /\ ScreenInv /\ ShownOfOne /\ RunInv /\ Import!ToTheirClient
      /\ active \in Clients /\ entity = active /\ draftOf = active /\ picked \in SUBSET Files
  BY DEF ImportInv, ShownOfOne
<1>2. ASSUME NEW op, Import!Refused(op) PROVE ImportInv'
  BY <1>2, OnlyRefused
<1>3. \A f \in picked : f.who = active
  BY <1>1 DEF ShownOfOne, Import!OneClientShown
<1>4. CASE Import!ReadColumns /\ ~Import!Refused("preview")
  <2>1. /\ Import!Takes("preview", [f \in picked |-> "todo"], entity)
        /\ still' = still \ {"import"}
        /\ UNCHANGED <<active, view, step, entity, draftOf, picked, stored, groups, mapped, run,
                       batches, opened, hand, asked, wire, tail>>
    BY <1>4 DEF Import!ReadColumns, Import!flow
  <2>2. /\ ScreenInv' /\ ShownOfOne' /\ RunInv' /\ Import!ToTheirClient'
    BY <1>1, <2>1 DEF ScreenInv, ShownOfOne, RunInv, Import!OneClientShown, Import!ToTheirClient
  <2>3. [f \in picked |-> "todo"] \in [picked -> Import!Stages]
    BY DEF Import!Stages
  <2>4. [f \in picked |-> "todo"] \in UNION {[S -> Import!Stages] : S \in SUBSET Files}
    BY <1>1, <2>3
  <2>5. still' \subseteq still
    BY <2>1
  <2> QED BY <1>1, <2>1, <2>2, <2>4, <2>5, OnlyTaken
<1>5. ASSUME Import!Takes("run", [f \in picked |-> IF f \in stored \cap groups THEN "todo" ELSE "unread"], entity)
               \/ Import!Takes("run", [f \in picked |-> "upload"], entity),
             run' = Import!RunOf([f \in picked |-> "todo"]), tail' = Import!NoTail,
             still' = still \ {"import"}, step' \in Import!Steps,
             UNCHANGED <<active, view, entity, draftOf, picked, stored, groups, mapped, batches,
                         opened, hand, asked, wire>>
      PROVE  ImportInv'
  <2>1. [f \in picked |-> "todo"] \in [picked -> Import!Stages]
    BY DEF Import!Stages
  <2>2. run' \in Run /\ DOMAIN run'.at = picked
    BY <1>1, <1>5, <2>1, RunOfStages
  <2>3. ScreenInv' /\ Import!ToTheirClient'
    BY <1>1, <1>5 DEF ScreenInv, Import!ToTheirClient
  <2>4. ShownOfOne'
    BY <1>1, <1>5, <2>2 DEF ShownOfOne, Import!OneClientShown
  <2>5. RunInv'
    BY <1>5, <2>2 DEF RunInv, Import!NoTail
  <2>6. still' \subseteq still
    BY <1>5
  <2>7. PICK at \in [picked -> Import!Stages] : Import!Takes("run", at, entity)
    <3>1. /\ [f \in picked |-> IF f \in stored \cap groups THEN "todo" ELSE "unread"]
               \in [picked -> Import!Stages]
          /\ [f \in picked |-> "upload"] \in [picked -> Import!Stages]
      BY DEF Import!Stages
    <3> QED BY <1>5, <3>1
  <2>8. at \in UNION {[S -> Import!Stages] : S \in SUBSET Files}
    BY <1>1, <2>7
  <2>9. \A f \in DOMAIN at : f.who = entity
    BY <1>1, <1>3, <2>7
  <2> QED BY <1>1, <1>5, <2>3, <2>4, <2>5, <2>6, <2>7, <2>8, <2>9, OnlyTaken
<1>6. CASE Import!StartRun /\ ~Import!Refused("run")
  <2>1. step' \in Import!Steps
    BY <1>1, <1>6 DEF Import!StartRun, ScreenInv
  <2> QED BY <1>5, <1>6, <2>1 DEF Import!StartRun, Import!flow
<1>7. CASE Import!StartDocumentRun /\ ~Import!Refused("run")
  <2>1. step' \in Import!Steps
    BY <1>7 DEF Import!StartDocumentRun, Import!Steps
  <2> QED BY <1>5, <1>7, <2>1 DEF Import!StartDocumentRun, Import!flow
<1>8. CASE Import!FileDraft /\ ~Import!Refused("filing")
  <2>1. /\ Import!Takes("filing", [f \in {hand} \ {Import!NoFile} |-> "sent"], active)
        /\ wire' = wire \cup {Import!Filed}
        /\ still' = still \ {"filing"}
        /\ UNCHANGED <<active, view, step, entity, draftOf, picked, stored, groups, mapped, run,
                       batches, opened, hand, asked, tail>>
    BY <1>8 DEF Import!FileDraft, Import!flow
  <2>2. ScreenInv' /\ ShownOfOne' /\ RunInv'
    BY <1>1, <2>1 DEF ScreenInv, ShownOfOne, RunInv, Import!OneClientShown
  <2>3. Import!ToTheirClient'
    <3>1. Import!Filed.whose = {Import!Filed.to}
      <4>1. hand = Import!NoFile \/ hand.who = active
        BY <1>1 DEF ShownOfOne, Import!OneClientShown
      <4> QED BY <1>1, <4>1 DEF Import!Filed
    <3> QED BY <1>1, <2>1, <3>1 DEF Import!ToTheirClient
  <2>4. {hand} \ {Import!NoFile} \in SUBSET Files
    BY <1>1 DEF ShownOfOne
  <2>5. [f \in {hand} \ {Import!NoFile} |-> "sent"] \in [{hand} \ {Import!NoFile} -> Import!Stages]
    BY DEF Import!Stages
  <2>6. [f \in {hand} \ {Import!NoFile} |-> "sent"]
          \in UNION {[S -> Import!Stages] : S \in SUBSET Files}
    BY <2>4, <2>5
  <2>7. still' \subseteq still
    BY <2>1
  <2> QED BY <1>1, <2>1, <2>2, <2>3, <2>6, <2>7, OnlyTaken
<1> QED BY <1>2, <1>4, <1>6, <1>7, <1>8
     DEF Import!ReadColumns, Import!StartRun, Import!StartDocumentRun, Import!FileDraft

------------------------------------------------------------------------------
(* The operations under way. *)

\* What an operation shows of its progress is a run of the company on screen.
LEMMA Progress ==
  ASSUME ImportInv, NEW j \in jobs, j.op = "run", NEW at,
         at \in UNION {[S -> Import!Stages] : S \in SUBSET Files},
         DOMAIN at = Import!FilesOf(j), j.fresh,
         run' = Import!RunOf(at)
  PROVE  run' \in Run /\ \A f \in DOMAIN run'.at : f.who = active
<1>1. PICK S \in SUBSET Files : at \in [S -> Import!Stages]
  OBVIOUS
<1>2. run' \in Run /\ DOMAIN run'.at = Import!FilesOf(j)
  BY <1>1, RunOfStages
<1> QED BY <1>2 DEF ImportInv, WorkInv

\* A file's progress in the operation: nothing but its own stage, and what is
\* shown of it, and what is sent for it.
LEMMA FileSteps ==
  ASSUME ImportInv, NEW j \in jobs, NEW f \in Import!FilesOf(j),
         \/ Import!Previewed(j, f) \/ Import!PreviewFails(j, f)
         \/ Import!Sends(j, f) \/ Import!DocumentStep(j, f) \/ Import!FailsUnsent(j, f)
         \/ \E st \in {"imported", "failed"} : Import!Answered(j, f, st)
  PROVE  ImportInv'
<1>1. /\ ScreenInv /\ ShownOfOne /\ RunInv /\ WorkInv /\ Import!ToTheirClient
      /\ j \in Job
  BY OneJob DEF ImportInv
<1>2. CASE Import!Previewed(j, f)
  <2> USE <1>2 DEF Import!Previewed, Import!flow
  <2>1. ScreenInv' /\ ShownOfOne' /\ RunInv' /\ Import!ToTheirClient'
    BY <1>1 DEF ScreenInv, ShownOfOne, RunInv, Import!OneClientShown, Import!ToTheirClient
  <2>2. Import!Stage(j, f, "read") /\ "read" \in Import!Stages
    BY DEF Import!Stages
  <2> QED BY <2>1, <2>2, OnlyStage
<1>3. CASE Import!PreviewFails(j, f)
  <2> USE <1>3 DEF Import!PreviewFails, Import!flow
  <2>1. ScreenInv' /\ ShownOfOne' /\ RunInv' /\ Import!ToTheirClient'
    BY <1>1 DEF ScreenInv, ShownOfOne, RunInv, Import!OneClientShown, Import!ToTheirClient
  <2> QED BY <2>1, OnlyReleased
<1>4. CASE Import!Sends(j, f)
  <2> USE <1>4 DEF Import!Sends, Import!flow
  <2>1. ScreenInv' /\ ShownOfOne' /\ RunInv'
    BY <1>1 DEF ScreenInv, ShownOfOne, RunInv, Import!OneClientShown
  <2>2. Import!ToTheirClient'
    <3>1. Import!Import(f, j).whose = {Import!Import(f, j).to}
      BY <1>1 DEF Import!Import, Import!SentTo, WorkInv
    <3> QED BY <1>1, <3>1 DEF Import!ToTheirClient
  <2>3. Import!Stage(j, f, "sent") /\ "sent" \in Import!Stages
    BY DEF Import!Stages
  <2> QED BY <2>1, <2>2, <2>3, OnlyStage
<1>5. CASE Import!DocumentStep(j, f)
  <2> USE <1>5 DEF Import!DocumentStep, Import!flow
  <2>1. ScreenInv' /\ ShownOfOne' /\ RunInv' /\ Import!ToTheirClient'
    BY <1>1 DEF ScreenInv, ShownOfOne, RunInv, Import!OneClientShown, Import!ToTheirClient
  <2>2. PICK st \in {"polling", "polled"} : Import!Stage(j, f, st)
    OBVIOUS
  <2>3. st \in Import!Stages
    BY DEF Import!Stages
  <2> QED BY <2>1, <2>2, <2>3, OnlyStage
<1>6. ASSUME NEW st \in {"imported", "failed"}, j.op = "run",
             Import!Stage(j, f, st), Import!Show(j, f, st), wire' \subseteq wire,
             UNCHANGED <<active, view, step, entity, draftOf, picked, stored, groups, mapped,
                         batches, opened, hand, asked, lock, tail, still>>
      PROVE  ImportInv'
  <2>1. st \in Import!Stages
    BY DEF Import!Stages
  <2>2. run' \in Run /\ (\A g \in DOMAIN run'.at : g.who = active)
    <3>1. CASE j.fresh /\ f.kind = "sheet"
      <4>1. run' = Import!RunOf([j.at EXCEPT ![f] = st])
        BY <1>6, <3>1 DEF Import!Show
      <4>2. PICK S \in SUBSET Files : j.at \in [S -> Import!Stages]
        BY <1>1 DEF Job
      <4>3. [j.at EXCEPT ![f] = st] \in [S -> Import!Stages]
        BY <2>1, <4>2 DEF Import!FilesOf
      <4>4. /\ [j.at EXCEPT ![f] = st] \in UNION {[T -> Import!Stages] : T \in SUBSET Files}
            /\ DOMAIN [j.at EXCEPT ![f] = st] = Import!FilesOf(j)
        BY <4>2, <4>3 DEF Import!FilesOf
      <4> QED BY <1>6, <3>1, <4>1, <4>4, Progress
    <3>2. CASE run' = run
      BY <1>1, <3>2 DEF RunInv, ShownOfOne, Import!OneClientShown
    <3> QED BY <1>6, <3>1, <3>2 DEF Import!Show
  <2>3. ScreenInv' /\ Import!ToTheirClient'
    BY <1>1, <1>6 DEF ScreenInv, Import!ToTheirClient
  <2>4. ShownOfOne'
    BY <1>1, <1>6, <2>2 DEF ShownOfOne, Import!OneClientShown
  <2>5. RunInv'
    BY <1>1, <1>6, <2>2 DEF RunInv
  <2> QED BY <1>6, <2>1, <2>3, <2>4, <2>5, OnlyStage
<1>7. CASE Import!FailsUnsent(j, f)
  BY <1>6, <1>7 DEF Import!FailsUnsent, Import!flow
<1>8. ASSUME NEW st \in {"imported", "failed"}, Import!Answered(j, f, st) PROVE ImportInv'
  BY <1>6, <1>8 DEF Import!Answered, Import!flow
<1> QED BY <1>2, <1>3, <1>4, <1>5, <1>7, <1>8

LEMMA Ends ==
  ASSUME ImportInv, NEW j \in jobs,
         Import!PreviewLands(j) \/ Import!RunEnds(j) \/ Import!FilingAnswered(j)
  PROVE  ImportInv'
<1>1. /\ ScreenInv /\ ShownOfOne /\ RunInv /\ WorkInv /\ Import!ToTheirClient
      /\ j \in Job
  BY OneJob DEF ImportInv
<1>2. PICK S \in SUBSET Files : j.at \in [S -> Import!Stages] /\ Import!FilesOf(j) = S
  BY <1>1 DEF Job, Import!FilesOf
<1>3. CASE Import!PreviewLands(j)
  <2> USE <1>3 DEF Import!PreviewLands
  <2>1. DOMAIN run'.at = {} /\ run' \in Run
    <3>1. run' = [status |-> "idle", at |-> <<>>]
      BY DEF Import!NoRun
    <3>2. <<>> \in [{} -> Import!Outcomes]
      OBVIOUS
    <3>3. <<>> \in UNION {[T -> Import!Outcomes] : T \in SUBSET Files}
      BY <3>2
    <3> QED BY <3>1, <3>2, <3>3 DEF Run
  <2>2. ScreenInv' /\ Import!ToTheirClient'
    BY <1>1 DEF ScreenInv, Import!Steps, Import!ToTheirClient
  <2>3. ShownOfOne'
    BY <1>1, <1>2, <2>1 DEF ShownOfOne, Import!OneClientShown
  <2>4. RunInv'
    BY <1>1, <2>1 DEF RunInv
  <2> QED BY <2>2, <2>3, <2>4, OnlyReleased
<1>4. CASE Import!RunEnds(j)
  <2> USE <1>4 DEF Import!RunEnds, Import!flow
  <2>1. ScreenInv' /\ Import!ToTheirClient'
    BY <1>1 DEF ScreenInv, Import!ToTheirClient
  <2>2. CASE j.fresh
    <3>1. j.at \in UNION {[T -> Import!Stages] : T \in SUBSET Files}
      BY <1>2
    <3>2. run' = Import!RunOf(j.at) /\ tail' = [on |-> TRUE, at |-> j.at]
      BY <2>2
    <3>3. run' \in Run /\ (\A f \in DOMAIN run'.at : f.who = active)
      BY <2>2, <3>1, <3>2, Progress DEF Import!FilesOf
    <3>4. \A f \in DOMAIN j.at : f.who = active
      BY <1>1, <2>2 DEF WorkInv, Import!FilesOf
    <3>5. ShownOfOne'
      BY <1>1, <3>3 DEF ShownOfOne, Import!OneClientShown
    <3>6. RunInv'
      BY <3>1, <3>2, <3>3, <3>4 DEF RunInv
    <3> QED BY <2>1, <3>5, <3>6, OnlyReleased
  <2>3. CASE ~j.fresh
    <3>1. ShownOfOne' /\ RunInv'
      BY <1>1, <2>3 DEF ShownOfOne, Import!OneClientShown, RunInv
    <3> QED BY <2>1, <3>1, OnlyReleased
  <2> QED BY <2>2, <2>3
<1>5. CASE Import!FilingAnswered(j)
  <2> USE <1>5 DEF Import!FilingAnswered, Import!flow
  <2>1. ScreenInv' /\ Import!ToTheirClient'
    BY <1>1 DEF ScreenInv, Import!ToTheirClient
  <2>2. opened'.by = "run" => opened' = opened
    OBVIOUS
  <2>3. ShownOfOne' /\ RunInv'
    BY <1>1, <2>2 DEF ShownOfOne, Import!OneClientShown, RunInv
  <2> QED BY <2>1, <2>3, OnlyReleased
<1> QED BY <1>3, <1>4, <1>5

\* The documents are attached to the files still picked.
LEMMA Attaches ==
  ASSUME ImportInv, NEW j \in jobs, Import!PreviewAttaches(j)
  PROVE  ImportInv'
<1> USE DEF Import!PreviewAttaches
<1>1. /\ ScreenInv /\ ShownOfOne /\ RunInv /\ WorkInv /\ Import!ToTheirClient
      /\ j \in Job /\ jobs = {j} /\ lock = [op |-> j.op, fresh |-> j.fresh]
      /\ still \subseteq {"import", "filing"}
  BY OneJob DEF ImportInv, LockInv
<1>2. PICK S \in SUBSET Files : j.at \in [S -> Import!Stages] /\ Import!FilesOf(j) = S
  BY <1>1 DEF Job, Import!FilesOf
<1>3. PICK k : k = [j EXCEPT !.at = [f \in Import!FilesOf(j) |-> "stored"]]
  OBVIOUS
<1>4. k \in Job /\ k.op = j.op /\ k.to = j.to /\ k.fresh = j.fresh
  <2>1. [f \in S |-> "stored"] \in [S -> Import!Stages]
    BY DEF Import!Stages
  <2>2. [f \in S |-> "stored"] \in UNION {[T -> Import!Stages] : T \in SUBSET Files}
    BY <2>1
  <2>3. k = [op |-> j.op, at |-> [f \in S |-> "stored"], to |-> j.to, fresh |-> j.fresh]
    BY <1>1, <1>2, <1>3 DEF Job
  <2> QED BY <1>1, <2>2, <2>3 DEF Job
<1>5. jobs' = {k}
  BY <1>1, <1>3
<1>6. LockInv'
  BY <1>1, <1>4, <1>5 DEF LockInv
<1>7. WorkInv'
  <2>1. k.op # "run"
    BY <1>4
  <2> QED BY <1>1, <1>4, <1>5, <2>1 DEF WorkInv
<1>8. ScreenInv' /\ RunInv' /\ Import!ToTheirClient'
  BY <1>1 DEF ScreenInv, RunInv, Import!ToTheirClient
<1>9. ShownOfOne'
  BY <1>1 DEF ShownOfOne, Import!OneClientShown, Import!Attached
<1> QED BY <1>6, <1>7, <1>8, <1>9 DEF ImportInv

\* The run is over, and its one invoice has been looked up.
LEMMA Lands == ASSUME ImportInv, Import!RunLands PROVE ImportInv'
<1> USE DEF Import!RunLands, Import!flow
<1>1. /\ ScreenInv /\ ShownOfOne /\ RunInv /\ WorkInv /\ LockInv /\ Import!ToTheirClient
  BY DEF ImportInv
<1>2. /\ tail' = Import!NoTail
      /\ \A f \in Import!Imported(tail.at) : f \in Files /\ f.who = active
  BY <1>1 DEF RunInv, Import!Imported
<1>3. run' \in Run /\ (\A f \in DOMAIN run'.at : f.who = active)
  <2>1. \A st \in {"idle", "failed"} : [run EXCEPT !.status = st] \in Run
                                       /\ [run EXCEPT !.status = st].at = run.at
    BY <1>1 DEF RunInv, Run
  <2>2. Import!NoRun \in Run /\ DOMAIN Import!NoRun.at = {}
    <3>1. Import!NoRun = [status |-> "idle", at |-> <<>>]
      BY DEF Import!NoRun
    <3>2. <<>> \in [{} -> Import!Outcomes]
      OBVIOUS
    <3>3. <<>> \in UNION {[T -> Import!Outcomes] : T \in SUBSET Files}
      BY <3>2
    <3> QED BY <3>1, <3>2, <3>3 DEF Run
  <2>3. \/ run' = [run EXCEPT !.status = "failed"]
        \/ run' = [run EXCEPT !.status = "idle"]
        \/ run' = Import!NoRun
    BY DEF Import!NothingImported
  <2> QED BY <1>1, <2>1, <2>2, <2>3 DEF ShownOfOne, Import!OneClientShown
<1>4. ScreenInv'
  BY <1>1 DEF ScreenInv, Import!Steps
<1>5. ShownOfOne'
  <2>1. batches' = batches \/ batches' = Import!Imported(tail.at)
    OBVIOUS
  <2>2. opened' = opened \/ \E f \in Import!Imported(tail.at) : opened' = [who |-> f.who, by |-> "run"]
    OBVIOUS
  <2> QED BY <1>1, <1>2, <1>3, <2>1, <2>2 DEF ShownOfOne, Import!OneClientShown
<1>6. RunInv'
  BY <1>2, <1>3 DEF RunInv, Import!NoTail
<1>7. LockInv' /\ WorkInv' /\ Import!ToTheirClient'
  BY <1>1 DEF LockInv, WorkInv, Import!ToTheirClient
<1> QED BY <1>4, <1>5, <1>6, <1>7 DEF ImportInv

------------------------------------------------------------------------------
(* The flow, and the composition. *)

LEMMA ImportNext == ASSUME ImportInv, Import!Next PROVE ImportInv'
<1>1. CASE Import!User
  BY <1>1, StartsOver, Moves, Starts DEF Import!User
<1>2. CASE Import!ReadingLands
  BY <1>2, Moves
<1>3. CASE Import!RunLands
  BY <1>3, Lands
<1>4. ASSUME NEW j \in jobs, Import!Operation(j) PROVE ImportInv'
  <2>1. ASSUME NEW f \in Import!FilesOf(j),
               \/ Import!Previewed(j, f) \/ Import!PreviewFails(j, f)
               \/ Import!Sends(j, f) \/ Import!DocumentStep(j, f) \/ Import!FailsUnsent(j, f)
               \/ \E st \in {"imported", "failed"} : Import!Answered(j, f, st)
        PROVE  ImportInv'
    BY <2>1, FileSteps
  <2>2. CASE Import!PreviewAttaches(j)
    BY <2>2, Attaches
  <2>3. CASE Import!PreviewLands(j) \/ Import!RunEnds(j) \/ Import!FilingAnswered(j)
    BY <2>3, Ends
  <2> QED BY <1>4, <2>1, <2>2, <2>3 DEF Import!Operation
<1> QED BY <1>1, <1>2, <1>3, <1>4 DEF Import!Next

LEMMA ImportStays == ASSUME ImportInv, UNCHANGED importVars PROVE ImportInv'
<1>1. UNCHANGED <<active, view, step, entity, draftOf, picked, stored, groups, mapped, run,
                  batches, opened, hand, asked, lock, jobs, wire, tail, still>>
  BY DEF importVars
<1>2. ScreenInv' /\ ShownOfOne'
  BY <1>1 DEF ImportInv, ScreenInv, ShownOfOne, Import!OneClientShown
<1> QED BY <1>1, <1>2, OnlyScreen

\* The invariant of the flow.
LEMMA ImportInvariant == Spec => []ImportInv
<1>1. Init => ImportInv
  BY ImportInit DEF Init
<1>2. ImportInv /\ [Next]_vars => ImportInv'
  BY ImportNext, ImportStays DEF Next, ImportStep, InvoiceStep, vars
<1> QED BY <1>1, <1>2, PTL DEF Spec

\* The requests that create invoices (the imports of a run, the form's) name
\* the company the files were picked and the draft was typed for, although the
\* user may have switched to another since.
THEOREM CreatedForTheirClient == Spec => []ToTheirClient
<1>1. ImportInv => ToTheirClient
  BY DEF ImportInv, ToTheirClient
<1> QED BY <1>1, ImportInvariant, PTL

\* The files, the run and its review, the document entered by hand and what a
\* run opened are of the company of the switcher: switchClient and resetImport
\* leave nothing of the one before, and runSeq holds back what comes late.
THEOREM ShownOfOneClient == Spec => []OneClientShown
<1>1. ImportInv => OneClientShown
  BY DEF ImportInv, ShownOfOne, OneClientShown
<1> QED BY <1>1, ImportInvariant, PTL

\* The instance speaks of the same cardinality.
LEMMA SameCardinality == ASSUME NEW S PROVE Import!Cardinality(S) = Cardinality(S)
BY DEF Import!Cardinality, Cardinality

\* The four operations that call the server exclude one another, and the
\* message about waiting goes with the wait (lockHeld, releaseLock).
THEOREM OneAtATime == Spec => []OneOperation
<1>1. ImportInv => OneOperation
  <2> SUFFICES ASSUME ImportInv PROVE Import!OneOperation
    BY DEF OneOperation
  <2>1. jobs = {} <=> ~Import!Held
    BY HeldIsWork DEF ImportInv
  <2>2. still # {} => Import!Held
    BY <2>1 DEF ImportInv, LockInv
  <2>3. Cardinality(jobs) <= 1
    <3>1. CASE jobs = {}
      BY <3>1, FS_EmptySet
    <3>2. ASSUME NEW j \in jobs PROVE Cardinality(jobs) <= 1
      <4>1. jobs = {j}
        BY OneJob DEF ImportInv
      <4>2. Cardinality({j}) = 1
        BY FS_Singleton, Zenon
      <4> QED BY <4>1, <4>2
    <3> QED BY <3>1, <3>2
  <2> QED BY <2>1, <2>2, <2>3, SameCardinality DEF Import!OneOperation
<1> QED BY <1>1, ImportInvariant, PTL

\* Both screens keep their shape.
THEOREM TypesKept == Spec => []TypeOK
<1>1. ImportInv => Import!TypeOK
  <2> SUFFICES ASSUME ImportInv PROVE Import!TypeOK
    OBVIOUS
  <2>1. /\ active \in Clients /\ entity \in Clients /\ draftOf \in Clients
        /\ view \in {"create", "opened", "other"} /\ step \in Import!Steps /\ mapped \in BOOLEAN
        /\ picked \subseteq Files /\ stored \subseteq picked /\ groups \subseteq Files
        /\ batches \subseteq Files /\ hand \in Files \cup {Import!NoFile}
        /\ asked \in Files \cup {Import!NoFile} /\ still \subseteq {"import", "filing"}
    BY DEF ImportInv, ShownOfOne, ScreenInv, LockInv
  <2>2. /\ run.status \in {"idle", "running", "finished", "failed"}
        /\ DOMAIN run.at \subseteq Files /\ \A f \in DOMAIN run.at : run.at[f] \in Import!Outcomes
    BY DEF ImportInv, RunInv, Run
  <2>3. /\ lock.op \in {"none", "preview", "run", "filing"}
        /\ \A j \in jobs : \A f \in Import!FilesOf(j) : j.at[f] \in Import!Stages
    <3>1. CASE jobs = {}
      BY <3>1 DEF ImportInv, LockInv, Import!Free, Job
    <3>2. ASSUME NEW j \in jobs
          PROVE  /\ lock.op \in {"none", "preview", "run", "filing"}
                 /\ \A k \in jobs : \A f \in Import!FilesOf(k) : k.at[f] \in Import!Stages
      <4>1. j \in Job /\ jobs = {j} /\ lock = [op |-> j.op, fresh |-> j.fresh]
        BY OneJob DEF ImportInv
      <4>2. lock.op = j.op /\ j.op \in {"preview", "run", "filing"}
        BY <4>1 DEF Job
      <4>3. \A f \in Import!FilesOf(j) : j.at[f] \in Import!Stages
        BY <4>1 DEF Job, Import!FilesOf
      <4> QED BY <4>1, <4>2, <4>3
    <3> QED BY <3>1, <3>2
  <2> QED BY <2>1, <2>2, <2>3 DEF Import!TypeOK
<1>2. DetailInv => Invoice!TypeOK
  BY DEF DetailInv
<1> QED BY <1>1, <1>2, ImportInvariant, DetailInvariant, PTL DEF TypeOK
=============================================================================
