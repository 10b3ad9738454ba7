--------------------------- MODULE ExtractionDesk ---------------------------
(***************************************************************************)
(* The review of a read document: header fields and a set of lines are     *)
(* corrected in a draft, and one Save posts each header correction in the  *)
(* order of the vocabulary, then the lines as a whole, then reads the      *)
(* document again. A missing field may be pointed at with a drag on the    *)
(* page. A note waits until it is filed. The screen stays mounted when the *)
(* address moves to another document, so a save may land on it.            *)
(***************************************************************************)
EXTENDS Naturals, FiniteSets, Sequences

CONSTANTS
  Fields,    \* the header fields, numbered in the order of the vocabulary
  Ambiguous, \* those with several readings: chips instead of an input
  Notes,     \* the documents read as a credit or debit note
  MaxEntries,\* bound: entries that are ever drafted
  MaxVisits  \* bound: moves to the other document

VARIABLES
  stored,    \* what the service holds of each document
  filed,     \* the documents an invoice was made of
  job,       \* the document on the screen
  detail,    \* the read of it, or Unread
  merged,    \* the read after a save, or Unread
  entries,   \* the drafted correction of each field, or NoEntry
  rows,      \* the drafted set of lines, or NoEntry
  armed,     \* the field that waits for a box, or 0
  drag,      \* the field a drag was begun for, or 0
  save,      \* the save that is out, or Idle
  originals, \* whether the document is filed, as far as the screen knows
  import,    \* the note that is being filed, or 0
  made,      \* the document each entry was made on
  last,      \* the newest entry of each field and of the lines on this visit
  done,      \* the entries the service took, or that had nothing to post
  crossed,   \* a save of another document landed on this visit
  behind,    \* the read after a save failed on this visit
  visits     \* moves so far

desk == <<stored, filed, job, detail, merged, entries, rows, armed, drag, save, originals, import,
          made, last, done, crossed, behind, visits>>
unsaved == <<stored, filed, job, detail, merged, save, originals, import, done, crossed, behind, visits>>

DeskAssumption ==
  /\ Fields \subseteq Nat \ {0} /\ Fields # {} /\ IsFiniteSet(Fields)
  /\ Ambiguous \subseteq Fields /\ Notes \subseteq {1, 2} /\ MaxEntries \in Nat /\ MaxVisits \in Nat

Docs == {1, 2}
Unread == [lines |-> 0, of |-> <<>>]
NoEntry == [kind |-> "none", val |-> 0, at |-> 0]
Idle == [job |-> 0]
LineSet == 0
clock == Len(made)

\* 0 is what the extractor read, a blank in a missing field.
Value == 0..MaxEntries
Entry == [kind : {"none", "typed", "pointed", "chosen", "undone", "lines"}, val : Value, at : Value]
Read == [lines : Value, of : [Fields -> Value]]

TypeOK ==
  /\ stored \in [Docs -> Read] /\ filed \subseteq Docs /\ job \in Docs
  /\ detail \in Read \cup {Unread} /\ merged \in Read \cup {Unread}
  /\ entries \in [Fields -> Entry] /\ rows \in Entry
  /\ armed \in (Fields \ Ambiguous) \cup {0} /\ drag \in {0, armed}
  /\ save.job \in Docs \cup {0}
  /\ originals \in {"unread", "failed", "open", "filed"} /\ import \in Notes \cup {0}
  /\ made \in Seq(Docs) /\ clock \in Value /\ last \in [Fields \cup {LineSet} -> Value] /\ done \subseteq 1..clock
  /\ crossed \in BOOLEAN /\ behind \in BOOLEAN /\ visits \in 0..MaxVisits

Init ==
  /\ stored = [d \in Docs |-> [lines |-> 0, of |-> [f \in Fields |-> 0]]]
  /\ filed = Docs \ Notes
  /\ job = 1 /\ detail = Unread /\ merged = Unread
  /\ entries = [f \in Fields |-> NoEntry] /\ rows = NoEntry
  /\ armed = 0 /\ drag = 0 /\ save = Idle /\ originals = "unread" /\ import = 0
  /\ made = <<>> /\ last = [f \in Fields \cup {LineSet} |-> 0] /\ done = {}
  /\ crossed = FALSE /\ behind = FALSE /\ visits = 0

------------------------------------------------------------------------------
\* The read after a save is shown over the first one.
Data == IF merged # Unread THEN merged ELSE detail
Loaded == detail # Unread

Saving == save # Idle

\* applyDraft: an undone field shows what the extractor read.
Shown(f) ==
  IF entries[f] = NoEntry THEN Data.of[f] ELSE IF entries[f].kind = "undone" THEN 0 ELSE entries[f].val

\* What the boundary would refuse, or what decides nothing, is not posted.
Savable(f) ==
  /\ entries[f] # NoEntry
  /\ entries[f].kind = "pointed" => entries[f].val # 0
  /\ entries[f].kind = "typed" => entries[f].val \notin {0, Data.of[f]}
savableCorrections == {f \in Fields : Savable(f)}

LineChanged == rows # NoEntry /\ rows.val # Data.lines
NothingToSave == savableCorrections = {} /\ ~LineChanged

\* A note that no read showed as filed is not corrected, it is filed first.
Held == job \in Notes /\ originals # "filed"

------------------------------------------------------------------------------
(* The draft. It is written while a save is out, too. *)

\* Each entry is an object of its own: at is its identity.
Drafts(f, kind, v) ==
  /\ Loaded /\ clock < MaxEntries /\ made' = Append(made, job)
  /\ entries' = [entries EXCEPT ![f] = [kind |-> kind, val |-> v, at |-> clock + 1]]
  /\ last' = [last EXCEPT ![f] = clock + 1]

\* A new text, a blank one, or the one the service holds. A box that was drawn
\* stays. Focus selects the field, and selecting another one disarms.
Type(f) ==
  /\ Loaded /\ f \notin Ambiguous
  /\ \E v \in {clock + 1, 0, Data.of[f]} :
       Drafts(f, IF entries[f].kind = "pointed" THEN "pointed" ELSE "typed", v)
  /\ armed' = IF armed = f THEN f ELSE 0
  /\ drag' = IF armed = f THEN drag ELSE 0
  /\ UNCHANGED <<rows, unsaved>>

\* One of the readings. The click selects the field as well.
Choose(f) ==
  /\ Loaded /\ f \in Ambiguous /\ \E v \in {clock + 1, Data.of[f]} : Drafts(f, "chosen", v)
  /\ armed' = 0 /\ drag' = 0 /\ UNCHANGED <<rows, unsaved>>

\* Offered on a corrected field; the value it carries is not read.
Undo(f) ==
  /\ Loaded /\ Data.of[f] # 0 /\ entries[f].kind # "undone" /\ Drafts(f, "undone", Data.of[f])
  /\ armed' = IF armed = f THEN f ELSE 0
  /\ drag' = IF armed = f THEN drag ELSE 0
  /\ UNCHANGED <<rows, unsaved>>

\* Edits, adds, removes or remaps rows; the draft is the whole set. Selecting a
\* cell disarms.
EditLines ==
  /\ Loaded /\ clock < MaxEntries /\ made' = Append(made, job)
  /\ \E v \in {clock + 1, Data.lines} : rows' = [kind |-> "lines", val |-> v, at |-> clock + 1]
  /\ last' = [last EXCEPT ![LineSet] = clock + 1]
  /\ armed' = 0 /\ drag' = 0 /\ UNCHANGED <<entries, unsaved>>

\* The effect on the armed field clears a drag that was begun for another.
Arm(f) ==
  /\ Loaded /\ f \notin Ambiguous /\ armed' = f
  /\ drag' = IF armed = f THEN drag ELSE 0
  /\ UNCHANGED <<entries, rows, made, last, unsaved>>

Disarm == armed # 0 /\ armed' = 0 /\ drag' = 0 /\ UNCHANGED <<entries, rows, made, last, unsaved>>

PointDown == armed # 0 /\ drag' = armed /\ UNCHANGED <<entries, rows, armed, made, last, unsaved>>

\* The box says where, the text stays. Too small a box is no box.
PointUp ==
  /\ drag # 0 /\ drag' = 0
  /\ \/ /\ Drafts(armed, "pointed", IF entries[armed] = NoEntry THEN Data.of[armed] ELSE entries[armed].val) /\ armed' = 0
        /\ UNCHANGED <<rows, unsaved>>
     \/ UNCHANGED <<entries, rows, armed, made, last, unsaved>>

------------------------------------------------------------------------------
(* Save. *)

Save ==
  /\ Loaded /\ ~Saving /\ ~NothingToSave /\ ~Held
  /\ save' = [job |-> job, left |-> savableCorrections, took |-> {},
              entries |-> entries, rows |-> rows, lines |-> LineChanged, refused |-> FALSE, lineTook |-> FALSE]
  /\ armed' = 0 /\ drag' = 0
  /\ done' = done \cup {entries[f].at : f \in {g \in Fields : entries[g] # NoEntry /\ ~Savable(g)}}
                  \cup IF rows # NoEntry /\ ~LineChanged THEN {rows.at} ELSE {}
  /\ UNCHANGED <<stored, filed, job, detail, merged, entries, rows, originals, import, made, last,
                 crossed, behind, visits>>

unposted == <<filed, job, detail, merged, entries, rows, armed, drag, originals, import, made, last,
              crossed, behind, visits>>

\* The first that is left. The service applies its own reading to an undone
\* field.
PostField ==
  /\ Saving /\ ~save.refused
  /\ \E f \in save.left :
       /\ \A g \in save.left : f <= g
       /\ LET e == save.entries[f]
              v == IF e.kind = "undone" THEN 0 ELSE e.val
          IN \/ /\ stored' = [stored EXCEPT ![save.job].of[f] = v]
                /\ save' = [save EXCEPT !.left = @ \ {f}, !.took = @ \cup {f}]
                /\ done' = done \cup {e.at}
             \* Refused, or the answer is lost: the rest and the lines are skipped.
             \/ /\ \/ UNCHANGED stored
                   \/ stored' = [stored EXCEPT ![save.job].of[f] = v]
                /\ save' = [save EXCEPT !.refused = TRUE] /\ UNCHANGED done
  /\ UNCHANGED unposted

PostLines ==
  /\ Saving /\ ~save.refused /\ save.left = {} /\ save.lines /\ ~save.lineTook
  /\ \/ /\ stored' = [stored EXCEPT ![save.job].lines = save.rows.val]
        /\ save' = [save EXCEPT !.lineTook = TRUE] /\ done' = done \cup {save.rows.at}
     \/ /\ UNCHANGED stored \/ stored' = [stored EXCEPT ![save.job].lines = save.rows.val]
        /\ save' = [save EXCEPT !.refused = TRUE] /\ UNCHANGED done
  /\ UNCHANGED unposted

Posted == save.refused \/ (save.left = {} /\ (save.lines => save.lineTook))

\* What was posted and not taken stays, and what was drafted since.
Kept(f) == f \in save.left \/ entries[f] # save.entries[f]

\* The document is read again and the save lands, on whatever document the
\* screen shows by now. Its draft is rebuilt under the job of the save, which
\* leaves none on another document; the lines go only with a set that was
\* taken, and stay if they were edited meanwhile.
SaveLands ==
  /\ Saving /\ Posted /\ save' = Idle
  /\ entries' = [f \in Fields |-> IF job = save.job /\ Kept(f) THEN entries[f] ELSE NoEntry]
  /\ rows' = IF save.lineTook /\ (job # save.job \/ rows = save.rows) THEN NoEntry ELSE rows
  /\ \E ok \in BOOLEAN :
       /\ merged' = IF ~ok THEN merged ELSE IF job = save.job THEN stored[job] ELSE Unread
       /\ behind' = IF job = save.job THEN ~ok ELSE behind
  /\ crossed' = (crossed \/ job # save.job)
  /\ UNCHANGED <<stored, filed, job, detail, armed, drag, originals, import, made, last, done, visits>>

------------------------------------------------------------------------------
(* The reads and the note. *)

\* Everything that is tagged with the document goes; the save goes on, and so
\* does the filing of a note.
Visit ==
  /\ visits < MaxVisits /\ visits' = visits + 1
  /\ job' = 3 - job /\ detail' = Unread /\ merged' = Unread
  /\ entries' = [f \in Fields |-> NoEntry] /\ rows' = NoEntry
  /\ armed' = 0 /\ drag' = 0 /\ originals' = "unread"
  /\ last' = [f \in Fields \cup {LineSet} |-> 0] /\ crossed' = FALSE /\ behind' = FALSE
  /\ UNCHANGED <<stored, filed, save, import, made, done>>

unread == <<stored, job, merged, entries, rows, armed, drag, save, made, last, done, crossed, behind, visits>>

\* A failed read is tried again by hand.
ReadAnswers == ~Loaded /\ detail' = stored[job] /\ UNCHANGED <<unread, filed, originals, import>>

\* The read of the originals starts with the verdict; a failed one is tried
\* again by hand.
OriginalsAnswer ==
  /\ Loaded /\ job \in Notes /\ originals \in {"unread", "failed"}
  /\ originals' \in {IF job \in filed THEN "filed" ELSE "open"} \cup (IF originals = "unread" THEN {"failed"} ELSE {})
  /\ UNCHANGED <<unread, filed, detail, import>>

\* The panel is there on a note that was read as open.
Import ==
  /\ Loaded /\ job \in Notes /\ originals = "open" /\ import = 0 /\ import' = job
  /\ UNCHANGED <<unread, filed, detail, originals>>

\* An acceptance reads the originals again; a refusal, or a lost answer, only
\* shows its sentence.
ImportAnswers ==
  /\ import # 0 /\ import' = 0
  /\ \/ /\ filed' = filed \cup {import}
        /\ originals' = IF Loaded /\ job = import THEN "unread" ELSE originals
     \/ filed' \in {filed, filed \cup {import}} /\ UNCHANGED originals
  /\ UNCHANGED <<unread, detail>>

Next ==
  \/ \E f \in Fields : Type(f) \/ Choose(f) \/ Undo(f) \/ Arm(f)
  \/ EditLines \/ Disarm \/ PointDown \/ PointUp
  \/ Save \/ PostField \/ PostLines \/ SaveLands
  \/ Visit \/ ReadAnswers \/ OriginalsAnswer \/ Import \/ ImportAnswers

Spec == Init /\ [][Next]_desk

------------------------------------------------------------------------------
\* The person's typing is not the screen's to discard (ExtractionReview.tsx:229):
\* an entry made on this visit is in the draft until the service took it or a
\* save found nothing to post in it.
Survives ==
  /\ \A f \in Fields : last[f] \notin done \cup {0} => entries[f].at = last[f]
  /\ last[LineSet] \notin done \cup {0} => rows.at = last[LineSet]

\* With no save out, what has been dealt with shows as the service holds it:
\* no entry that was taken, or that no save can post, is laid over a later read.
\* Exceptions: the read after the save failed; a save of another document
\* landed here.
SettledIsServed ==
  /\ ~crossed => Survives
  /\ (Loaded /\ ~Saving /\ ~behind) =>
       \A f \in Fields : last[f] \in done \cup {0} => Shown(f) = stored[job].of[f]

\* A box lands on the field it was begun for, a correction reaches the document
\* it was drafted on, whatever the screen shows by then, and none reaches a note
\* that was never filed.
SendsWhatWasArmed ==
  /\ \A f \in Fields : (entries'[f].kind = "pointed" /\ entries[f].kind # "pointed") => drag = f
  /\ \A d \in Docs : \A v \in {stored'[d].lines} \cup {stored'[d].of[f] : f \in Fields} :
       v # 0 => made[v] = d
  /\ \A d \in Docs : stored'[d] # stored[d] => d \in filed

==============================================================================
