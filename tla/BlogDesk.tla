------------------------------ MODULE BlogDesk ------------------------------
(*****************************************************************************)
(* The blog of the support console: the list of posts and the editor. One    *)
(* action runs at a time. A save writes the post, then its cover, then       *)
(* reads the list again, while the editor stays open and may be typed in,    *)
(* left, or opened anew. A session that ends takes the page with it, and     *)
(* the draft is kept in the browser for its owner. What a post says is the   *)
(* number of its last edit; its status and its pin are left out.             *)
(*****************************************************************************)
EXTENDS Integers, Sequences

CONSTANTS
  MaxPosts,  \* bound: posts that are ever stored
  MaxDrafts, \* bound: edits that are ever made
  MaxSignIns \* bound: sign-ins after the first

VARIABLES
  posts,     \* what the service holds: each post, or NoPost
  reading,   \* the state of the list: "loading", "ready" or "error"
  list,      \* the copy of the posts on the screen
  editor,    \* the draft, or Closed
  dirty,     \* UNSAVED CHANGES
  confirm,   \* the question in the bar: "none", "leave" or "delete"
  op,        \* the action that is out, or Free
  kept,      \* the draft kept in the browser, or NoneKept
  me,        \* who is signed in, or 0
  restored,  \* the kept copy was looked for
  by,        \* who made each edit
  work,      \* the newest edit that was neither given up nor deleted, or 0
  behind,    \* a write was taken and the list was not read after it
  crossed,   \* the editor was opened on a copy that was behind
  stray,     \* a cover was set, or the post deleted, and the answer was lost
  unkept,    \* the session ended on an answer that was not of this editor
  signIns    \* so far

listing == <<reading, list>>
form == <<editor, dirty, confirm>>
session == <<kept, me, restored, signIns>>
notes == <<behind, crossed, stray, unkept>>
blog == <<posts, listing, form, op, session, by, work, notes>>

BlogAssumption ==
  /\ MaxPosts \in Nat \ {0} /\ MaxDrafts \in Nat /\ MaxSignIns \in Nat

Members == {1, 2}
Ids == 1..MaxPosts
\* 0 is what the first post was written as.
Edits == 0..MaxDrafts
NoPost == [text |-> -1, pic |-> -1]
Post == [text : Edits, pic : Edits \cup {-1}] \cup {NoPost}

\* serverHasCover is what the draft knows of the cover the service holds.
Draft == [id : 0..MaxPosts, text : Edits, cover : {"none", "saved", "new"},
          pic : Edits \cup {-1}, serverHasCover : BOOLEAN]
Closed == [id |-> -1]
Blank == [id |-> 0, text |-> 0, cover |-> "none", pic |-> -1, serverHasCover |-> FALSE]
Free == [kind |-> "free"]
NoneKept == [owner |-> 0]
clock == Len(by)

TypeOK ==
  /\ posts \in [Ids -> Post]
  /\ reading \in {"loading", "ready", "error"} /\ list \in [Ids -> Post]
  /\ editor \in Draft \cup {Closed} /\ dirty \in BOOLEAN /\ confirm \in {"none", "leave", "delete"}
  /\ op = Free \/ op \in [kind : {"save", "delete", "pin"}, step : {"write", "cover", "read"}, sent : Draft,
                          mine : BOOLEAN, id : 0..MaxPosts]
  /\ kept = NoneKept \/ kept \in [owner : Members, draft : Draft, stale : BOOLEAN]
  /\ me \in {0} \cup Members /\ restored \in BOOLEAN /\ signIns \in 0..MaxSignIns
  /\ by \in Seq(Members) /\ clock \in Edits /\ work \in [Members -> Edits]
  /\ behind \in BOOLEAN /\ crossed \in BOOLEAN /\ stray \in BOOLEAN /\ unkept \subseteq Members

Init ==
  /\ posts = [q \in Ids |-> IF q = 1 THEN [text |-> 0, pic |-> 0] ELSE NoPost]
  /\ reading = "loading" /\ list = [q \in Ids |-> NoPost]
  /\ editor = Closed /\ dirty = FALSE /\ confirm = "none" /\ op = Free
  /\ kept = NoneKept /\ me = 1 /\ restored = FALSE /\ signIns = 0
  /\ by = <<>> /\ work = [m \in Members |-> 0]
  /\ behind = FALSE /\ crossed = FALSE /\ stray = FALSE /\ unkept = {}

------------------------------------------------------------------------------
(* The session. *)

Dirty == editor # Closed /\ dirty

\* The page leaves; the sign-in that follows reads everything again.
Leaves ==
  /\ editor' = Closed /\ dirty' = FALSE /\ confirm' = "none" /\ op' = Free /\ me' = 0 /\ restored' = FALSE
  /\ reading' = "loading" /\ behind' = FALSE /\ crossed' = FALSE /\ stray' = FALSE
  /\ list' = [q \in Ids |-> NoPost]
  /\ UNCHANGED <<by, signIns>>

\* A draft that waits in the browser is older than what is written now.
Aged == IF kept = NoneKept THEN kept ELSE [kept EXCEPT !.stale = TRUE]
Ages == kept' = Aged

\* The browser keeps one draft: another member's makes way for it.
keepThenExpire(draft, stale) ==
  /\ kept' = IF dirty THEN [owner |-> me, draft |-> draft, stale |-> stale \/ crossed \/ stray]
             ELSE IF stale THEN Aged ELSE kept
  /\ unkept' = unkept \cup IF dirty /\ kept # NoneKept THEN {kept.owner} \ {me} ELSE {}
  /\ Leaves

\* What is typed is not kept when the answer was not the open editor's.
expireOnce ==
  /\ unkept' = unkept \cup IF Dirty /\ (op = Free \/ ~op.mine) THEN {me} ELSE {}
  /\ UNCHANGED kept
  /\ Leaves

SignIn(m) ==
  /\ me = 0 /\ signIns < MaxSignIns /\ me' = m /\ signIns' = signIns + 1
  /\ UNCHANGED <<posts, listing, form, op, kept, restored, by, work, notes>>

------------------------------------------------------------------------------
(* The list. *)

\* A kept draft of a post that is gone opens as a new one.
KeptGone == kept.draft.id # 0 /\ posts[kept.draft.id] = NoPost
KeptDraft ==
  IF ~KeptGone THEN kept.draft
  ELSE [kept.draft EXCEPT !.id = 0, !.serverHasCover = FALSE,
                          !.cover = IF @ = "saved" THEN "none" ELSE @,
                          !.pic = IF kept.draft.cover = "saved" THEN -1 ELSE @]

takeKept ==
  IF ~restored /\ kept # NoneKept /\ kept.owner = me
  THEN /\ editor' = KeptDraft /\ dirty' = TRUE /\ confirm' = "none" /\ kept' = NoneKept
       /\ crossed' = (kept.stale /\ KeptDraft.id # 0) /\ stray' = FALSE
  ELSE UNCHANGED <<form, kept, crossed, stray>>

Refreshed == list' = posts /\ behind' = FALSE

Load ==
  /\ me # 0 /\ reading = "loading"
  /\ \/ reading' = "ready" /\ Refreshed /\ takeKept /\ restored' = TRUE /\ UNCHANGED <<me, signIns, unkept>>
     \/ reading' = "error" /\ UNCHANGED <<list, form, session, notes>>
  /\ UNCHANGED <<posts, op, by, work>>

LoadExpires == me # 0 /\ reading = "loading" /\ expireOnce /\ UNCHANGED <<posts, work>>

Retry ==
  /\ me # 0 /\ reading = "error" /\ reading' = "loading"
  /\ UNCHANGED <<posts, list, form, op, session, by, work, notes>>

\* Opening and closing change openSeq: the answer that is out no longer finds
\* its editor.
Unhand == op' = IF op = Free THEN Free ELSE [op EXCEPT !.mine = FALSE]

Touches(q) ==
  /\ op # Free
  /\ \/ op.kind = "pin"
     \/ q = IF op.id # 0 THEN op.id ELSE op.sent.id

Listed == me # 0 /\ reading = "ready" /\ editor = Closed

Open(q) ==
  /\ Listed /\ list[q] # NoPost
  /\ editor' = [id |-> q, text |-> list[q].text, pic |-> list[q].pic,
                cover |-> IF list[q].pic = -1 THEN "none" ELSE "saved",
                serverHasCover |-> list[q].pic # -1]
  /\ dirty' = FALSE /\ confirm' = "none" /\ Unhand
  /\ crossed' = (behind \/ Touches(q)) /\ stray' = FALSE
  /\ UNCHANGED <<posts, listing, session, by, work, behind, unkept>>

New ==
  /\ Listed /\ editor' = Blank /\ dirty' = FALSE /\ confirm' = "none" /\ Unhand
  /\ crossed' = FALSE /\ stray' = FALSE
  /\ UNCHANGED <<posts, listing, session, by, work, behind, unkept>>

------------------------------------------------------------------------------
(* The editor. It stays open, and is typed in, while an action is out. *)

Editing == me # 0 /\ reading = "ready" /\ editor # Closed

\* Every edit makes a draft of its own. A block edit leaves the question open.
Edit ==
  /\ Editing /\ clock < MaxDrafts
  /\ \E e \in {[editor EXCEPT !.cover = "new", !.pic = clock + 1], editor,
               IF editor.cover # "none" THEN [editor EXCEPT !.cover = "none", !.pic = -1] ELSE editor} :
       editor' = [e EXCEPT !.text = clock + 1]
  /\ confirm' \in {"none", confirm}
  /\ dirty' = TRUE /\ by' = Append(by, me) /\ work' = [work EXCEPT ![me] = clock + 1]
  /\ UNCHANGED <<posts, listing, op, session, notes>>

Ask(q) ==
  /\ Editing /\ confirm' = q
  /\ UNCHANGED <<posts, listing, editor, dirty, op, session, by, work, notes>>
AskDelete == confirm = "none" /\ editor.id # 0 /\ Ask("delete")
CancelConfirm == confirm # "none" /\ Ask("none")

close ==
  /\ editor' = Closed /\ dirty' = FALSE /\ confirm' = "none" /\ crossed' = FALSE /\ stray' = FALSE
Shuts == close /\ Unhand /\ UNCHANGED <<posts, listing, session, by, behind, unkept>>

Back ==
  \/ dirty /\ confirm # "leave" /\ Ask("leave")
  \/ Editing /\ ~dirty /\ Shuts /\ UNCHANGED work
Discard == Editing /\ confirm = "leave" /\ Shuts /\ work' = [work EXCEPT ![me] = 0]

------------------------------------------------------------------------------
(* What is sent. An action asked for while one is out is ignored. *)

Sends(kind, sent, mine) ==
  /\ op = Free
  /\ op' = [kind |-> kind, step |-> "write", sent |-> sent, mine |-> mine, id |-> 0]
  /\ UNCHANGED <<posts, listing, form, session, by, work, notes>>

Save == Editing /\ confirm = "none" /\ Sends("save", editor, TRUE)
Delete == Editing /\ confirm = "delete" /\ Sends("delete", editor, TRUE)
Pin(q) ==
  /\ Listed /\ list[q] # NoPost
  /\ Sends("pin", [Blank EXCEPT !.id = q], FALSE)

Sent(kind, step) == op # Free /\ op.kind = kind /\ op.step = step

------------------------------------------------------------------------------
(* What the service does with it. *)

\* The whole draft is written over the post, whose cover is left alone.
PostWrite(q) ==
  /\ IF op.sent.id = 0 THEN posts[q] = NoPost ELSE q = op.sent.id /\ posts[q] # NoPost
  /\ posts' = [posts EXCEPT ![q] = [text |-> op.sent.text, pic |-> posts[q].pic]]
  /\ work' = [m \in Members |-> IF work[m] = op.sent.text THEN 0 ELSE work[m]]

RemovesCover == op.sent.cover = "none" /\ op.sent.serverHasCover
CoverWrite ==
  /\ op.sent.cover = "new" \/ RemovesCover
  /\ posts' = [posts EXCEPT ![op.id].pic = op.sent.pic] /\ UNCHANGED work

DeleteWrite ==
  /\ posts[op.sent.id] # NoPost /\ posts' = [posts EXCEPT ![op.sent.id] = NoPost]
  /\ UNCHANGED work

\* What is out may be served without an answer that reaches the page.
Served ==
  \/ Sent("save", "write") /\ \E q \in Ids : PostWrite(q)
  \/ Sent("save", "cover") /\ CoverWrite
  \/ Sent("delete", "write") /\ DeleteWrite

------------------------------------------------------------------------------
(* The answers, and the drafts they leave. *)

savedEditor ==
  [editor EXCEPT !.id = op.id, !.cover = IF @ = "none" THEN "none" ELSE "saved",
                 !.serverHasCover = editor.cover # "none"]
partialEditor(held) == [editor EXCEPT !.id = op.id, !.serverHasCover = held]

\* Once the post is written, the cover follows when it changed.
SaveTaken ==
  /\ Sent("save", "write")
  /\ \E q \in Ids :
       /\ PostWrite(q) /\ Ages
       /\ op' = [op EXCEPT !.id = q, !.step = IF op.sent.cover = "new" \/ RemovesCover THEN "cover" ELSE "read"]
  /\ UNCHANGED <<listing, form, me, restored, signIns, by, notes>>

CoverTaken ==
  /\ Sent("save", "cover") /\ CoverWrite /\ Ages /\ op' = [op EXCEPT !.step = "read"]
  /\ UNCHANGED <<listing, form, me, restored, signIns, by, notes>>

\* Refused: by a check, which closes the question, or otherwise. Or the answer
\* is lost, and the service did or did not do it. The list is not read again.
SaveFails ==
  /\ Sent("save", "write") /\ op' = Free
  /\ \/ UNCHANGED <<posts, kept, work, behind>>
     \/ Served /\ Ages /\ behind' = TRUE
  /\ confirm' \in IF op.mine THEN {"none", confirm} ELSE {confirm}
  /\ UNCHANGED <<listing, editor, dirty, me, restored, signIns, by, crossed, stray, unkept>>

\* The post is written and its cover is not: the draft takes the id.
CoverFails ==
  /\ Sent("save", "cover") /\ op' = Free /\ behind' = TRUE
  /\ editor' = IF op.mine THEN partialEditor(editor.serverHasCover) ELSE editor
  /\ \/ UNCHANGED <<posts, kept, work, stray>>
     \/ Served /\ Ages /\ stray' = (stray \/ (op.mine /\ ~RemovesCover /\ ~editor.serverHasCover))
  /\ UNCHANGED <<listing, dirty, confirm, me, restored, signIns, by, crossed, unkept>>

\* A draft that was not touched since is saved; an older save only settles
\* what the service holds.
applySave ==
  IF ~op.mine THEN UNCHANGED form
  ELSE IF editor = op.sent THEN editor' = savedEditor /\ dirty' = FALSE /\ confirm' = "none"
  ELSE editor' = partialEditor(op.sent.cover # "none") /\ UNCHANGED <<dirty, confirm>>

Reread == Refreshed \/ (behind' = TRUE /\ UNCHANGED list)

SaveDone ==
  /\ Sent("save", "read") /\ op' = Free /\ Reread /\ applySave
  /\ UNCHANGED <<posts, reading, session, by, work, crossed, stray, unkept>>

DeleteTaken ==
  /\ Sent("delete", "write") /\ DeleteWrite /\ Ages /\ op' = [op EXCEPT !.step = "read"]
  /\ UNCHANGED <<listing, form, me, restored, signIns, by, notes>>

DeleteFails ==
  /\ Sent("delete", "write") /\ op' = Free
  /\ confirm' = IF op.mine THEN "none" ELSE confirm
  /\ \/ UNCHANGED <<posts, kept, work, behind, stray>>
     \/ Served /\ Ages /\ behind' = TRUE /\ stray' = (stray \/ op.mine)
  /\ UNCHANGED <<listing, editor, dirty, me, restored, signIns, by, crossed, unkept>>

\* What was typed while the deletion was out goes with the post.
DeleteDone ==
  /\ Sent("delete", "read") /\ op' = Free
  /\ \/ Refreshed
     \/ list' = [list EXCEPT ![op.sent.id] = NoPost] /\ UNCHANGED behind
  /\ IF op.mine THEN close /\ work' = [work EXCEPT ![me] = 0] ELSE UNCHANGED <<form, work, crossed, stray>>
  /\ UNCHANGED <<posts, reading, session, by, unkept>>

\* Served or not, the list is read again, and is in error when that fails.
PinAnswered ==
  /\ Sent("pin", "write") /\ op' = [op EXCEPT !.step = "read"]
  /\ UNCHANGED <<posts, listing, form, session, by, work, notes>>

PinDone ==
  /\ Sent("pin", "read") /\ op' = Free
  /\ \/ Refreshed /\ UNCHANGED reading
     \/ reading' = "error" /\ UNCHANGED <<list, behind>>
  /\ UNCHANGED <<posts, form, session, by, work, crossed, stray, unkept>>

Answered ==
  \/ SaveTaken \/ CoverTaken \/ SaveFails \/ CoverFails \/ SaveDone
  \/ DeleteTaken \/ DeleteFails \/ DeleteDone \/ PinAnswered \/ PinDone

------------------------------------------------------------------------------
(* The session ends. *)

SaveExpires ==
  /\ op # Free /\ op.kind \in {"save", "delete"} /\ op.step # "read"
  /\ IF op.mine THEN keepThenExpire(IF op.step = "cover" THEN partialEditor(editor.serverHasCover) ELSE editor, FALSE)
     ELSE expireOnce
  /\ UNCHANGED <<posts, work>>

PinExpires == op # Free /\ op.kind = "pin" /\ expireOnce /\ UNCHANGED <<posts, work>>

\* The read of a saved cover keeps the editor as it is then. The request that
\* was out may still be served.
CoverReadExpires ==
  /\ Editing /\ editor.cover = "saved"
  /\ \/ UNCHANGED <<posts, work>> /\ keepThenExpire(editor, FALSE)
     \/ Served /\ keepThenExpire(editor, TRUE)

Expires == LoadExpires \/ SaveExpires \/ PinExpires \/ CoverReadExpires

Next ==
  \/ \E m \in Members : SignIn(m)
  \/ Load \/ Retry \/ New
  \/ \E q \in Ids : Open(q) \/ Pin(q)
  \/ Edit \/ AskDelete \/ CancelConfirm \/ Back \/ Discard
  \/ Save \/ Delete
  \/ Answered \/ Expires

Spec == Init /\ [][Next]_blog

------------------------------------------------------------------------------
\* What the bar calls saved is what the service holds, the cover as well, and
\* the list is what it lists. Not when the editor was opened on a copy that was
\* behind, nor after a cover or a deletion whose answer was lost.
SettledIsServed ==
  /\ (me # 0 /\ reading = "ready" /\ op = Free /\ ~behind) => list = posts
  /\ (editor # Closed /\ editor.id # 0 /\ ~dirty /\ op = Free /\ ~crossed /\ ~stray) =>
       /\ posts[editor.id] = [text |-> editor.text, pic |-> editor.pic]
       /\ (editor.cover = "none") = (editor.pic = -1)

\* What a member typed and neither gave up nor saw stored is in the editor or
\* is kept for that member, through the end of a session that this editor's
\* own calls found, and nobody else is given it.
NothingUndone ==
  /\ \A m \in Members \ unkept :
       work[m] # 0 => \/ me = m /\ Dirty /\ editor.text = work[m]
                      \/ kept # NoneKept /\ kept.owner = m /\ kept.draft.text = work[m]
  /\ Dirty => by[editor.text] = me

\* The open draft takes the id of a post from its own save alone, whichever
\* answers were out when it was opened.
SendsWhatWasArmed ==
  (editor # Closed /\ editor' # Closed /\ editor'.id # editor.id) =>
     editor.id = 0 /\ op.kind = "save" /\ op.sent.id = 0 /\ op.mine
==============================================================================
