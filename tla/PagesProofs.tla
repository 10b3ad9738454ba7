---------------------------- MODULE PagesProofs ----------------------------
(***************************************************************************)
(* Theorems about the pages of the browser, composed in Pages, for every   *)
(* number of invoices, pages, edits, steps, requests and midnights: here   *)
(* the rule sets and the tree of an approval policy, and at the end all    *)
(* the pages together. The lemmas about the other pages are in             *)
(* InvoiceListsProofs and DesksProofs.                                     *)
(*                                                                         *)
(* Each page has an invariant of two parts: the shapes of its records,     *)
(* with what bounds its counts, and what keeps the copy on the screen      *)
(* abreast of the service. In a sentence each: while the version a         *)
(* publication names is a draft, nothing writes it, and what is in force   *)
(* moves only together with the mark that it moved; what the rail, the     *)
(* table and a form show of the rule sets is stored so until a mark says   *)
(* otherwise; a step of a tree stands in one place, and only what is no    *)
(* condition stands in a branch.                                           *)
(***************************************************************************)
EXTENDS InvoiceListsProofs, DesksProofs, SequenceTheorems

------------------------------------------------------------------------------
(* The rule sets. *)

\* A version is a record, whatever its rules are; a publication and the call
\* that asks for it name one and carry the two sets of rules compared.
SetsRow(R) == [sealed : BOOLEAN, from : Int, rules : R]
SetsShape == \E n \in Nat : \E R : sets \in [1..n -> SetsRow(R)]

SetsTyped ==
  /\ SetsShape /\ today \in Nat
  /\ DOMAIN rail \subseteq DOMAIN sets
  /\ publish = Sets!NoPublish \/
     \E R : publish \in [rows : {"loading", "error", "ready"}, of : DOMAIN sets, draft : R,
                         force : R, moved : BOOLEAN]
  /\ call = Sets!Free \/ call.kind \in {"open", "add", "put", "remove", "publish"}
  /\ call.kind = "publish" =>
     \E A, R : call \in [kind : {"publish"}, at : A, from : Int, of : DOMAIN sets, draft : R,
                         force : R, moved : BOOLEAN]

\* On every day one version is the last that took effect.
Last(t, v) ==
  /\ sets[v].sealed /\ sets[v].from <= t
  /\ \A w \in DOMAIN sets : (sets[w].sealed /\ sets[w].from <= t) =>
       sets[w].from < sets[v].from \/ (sets[w].from = sets[v].from /\ w <= v)
Lasting == \A t \in Nat : \E v \in DOMAIN sets : Last(t, v)

\* While the version named is a draft, what was compared is what would be put
\* in force, and what is in force unless that moved.
Compared(d) ==
  ~sets[d.of].sealed =>
    /\ d.draft = sets[d.of].rules
    /\ ~d.moved => sets[Sets!InForce].rules = d.force

\* There is one draft. A rule of it is written while no publication is open.
SetsAbreast ==
  /\ \A v, w \in DOMAIN sets : (~sets[v].sealed /\ ~sets[w].sealed) => v = w
  /\ publish.rows = "ready" => Compared(publish)
  /\ call.kind = "publish" => Compared(call)
  /\ call.kind \in {"add", "put", "remove"} => publish = Sets!NoPublish

SetsInv == SetsTyped /\ Lasting /\ SetsAbreast

LEMMA SetsInit == Sets!Init => SetsInv
<1> SUFFICES ASSUME Sets!Init PROVE SetsInv
  OBVIOUS
<1>1. PICK first : sets = <<[sealed |-> TRUE, from |-> 0, rules |-> first],
                            [sealed |-> FALSE, from |-> -1, rules |-> first]>>
  BY DEF Sets!Init
<1>2. DOMAIN sets = 1..2 /\ sets[1].sealed /\ ~sets[2].sealed /\ sets[1].from = 0
  BY <1>1
<1>3. SetsShape
  <2>1. sets[1] \in SetsRow({first}) /\ sets[2] \in SetsRow({first})
    BY <1>1 DEF SetsRow
  <2>2. sets \in Seq({sets[1], sets[2]}) /\ Len(sets) = 2
    BY <1>1
  <2>3. sets \in [1..2 -> SetsRow({first})]
    BY <2>1, <2>2
  <2> QED BY <2>3 DEF SetsShape
<1>4. /\ publish = Sets!NoPublish /\ publish.rows = "none" /\ call = Sets!Free
      /\ call.kind = "free" /\ DOMAIN rail = {} /\ today = 0
  BY DEF Sets!Init, Sets!NoPublish, Sets!Free
<1>5. SetsTyped
  BY <1>3, <1>4 DEF SetsTyped
<1>6. SetsAbreast
  BY <1>2, <1>4 DEF SetsAbreast
<1>7. Lasting
  <2>1. \A t \in Nat : Last(t, 1)
    BY <1>2 DEF Last
  <2> QED BY <1>2, <2>1 DEF Lasting
<1> QED BY <1>5, <1>6, <1>7 DEF SetsInv

\* The version in force is the last.
LEMMA SetsForce ==
  ASSUME SetsTyped, Lasting
  PROVE  Sets!InForce \in DOMAIN sets /\ sets[Sets!InForce].sealed
<1>1. \E v \in DOMAIN sets : Last(today, v)
  BY DEF SetsTyped, Lasting
<1> QED BY <1>1 DEF Last, Sets!InForce

\* A step that leaves alone what is stored and compared.
LEMMA SetsSame ==
  ASSUME SetsInv, UNCHANGED <<sets, today, publish>>,
         rail' = rail \/ rail' = [v \in DOMAIN sets |-> Sets!StateOf(v)],
         \/ call' = call
         \/ call' = Sets!Free \/ call'.kind = "open"
         \/ call'.kind \in {"add", "put", "remove"} /\ publish = Sets!NoPublish
  PROVE  SetsInv'
<1>1. Sets!InForce' = Sets!InForce /\ Sets!Free.kind = "free"
  BY DEF Sets!InForce, Sets!Free
<1>2. DOMAIN rail' \subseteq DOMAIN sets
  BY DEF SetsInv, SetsTyped
<1>3. SetsTyped'
  BY <1>1, <1>2 DEF SetsInv, SetsTyped, SetsShape
<1>4. SetsAbreast'
  BY <1>1 DEF SetsInv, SetsAbreast, Compared
<1>5. Lasting'
  BY DEF SetsInv, Lasting, Last
<1> QED BY <1>3, <1>4, <1>5 DEF SetsInv

LEMMA SetsReads ==
  ASSUME SetsInv,
         \/ Sets!RulesRead \/ Sets!VersionsRead \/ Sets!Retry
         \/ \E v \in 1..(2 + MaxCalls) : Sets!selectVersion(v)
  PROVE  SetsInv'
BY SetsSame DEF Sets!RulesRead, Sets!VersionsRead, Sets!Retry, Sets!selectVersion

LEMMA SetsDrawer ==
  ASSUME SetsInv,
         \/ \E k \in Keys : Sets!OpenRule(k) \/ Sets!toggleRule(k) \/ Sets!onKill(k)
         \/ Sets!AddRule \/ Sets!Close \/ Sets!Type \/ Sets!Back \/ Sets!doSwitch
  PROVE  SetsInv'
BY SetsSame DEF Sets!OpenRule, Sets!toggleRule, Sets!onKill, Sets!AddRule, Sets!Close, Sets!Type,
   Sets!Back, Sets!doSwitch, Sets!Opens, Sets!Ask, Sets!screen, Sets!layers

------------------------------------------------------------------------------
\* A version whose rules change stays what it is.
LEMMA SetsRuled ==
  ASSUME SetsShape, NEW v, NEW rules, sets' = [sets EXCEPT ![v].rules = rules]
  PROVE  /\ DOMAIN sets' = DOMAIN sets /\ SetsShape'
         /\ \A w \in DOMAIN sets : /\ sets'[w].sealed = sets[w].sealed
                                   /\ sets'[w].from = sets[w].from
                                   /\ w # v => sets'[w] = sets[w]
<1>0. PICK n \in Nat : \E R : sets \in [1..n -> SetsRow(R)]
  BY DEF SetsShape
<1>1. PICK R : sets \in [1..n -> SetsRow(R)]
  BY <1>0
<1>2. CASE v \in 1..n
  <2>1. PICK row : row = sets[v]
    OBVIOUS
  <2>2. PICK new : new = [row EXCEPT !.rules = rules]
    OBVIOUS
  <2>3. row \in [sealed : BOOLEAN, from : Int, rules : R]
    BY <1>1, <1>2, <2>1 DEF SetsRow
  <2>4. new = [sealed |-> row.sealed, from |-> row.from, rules |-> rules]
    BY <2>2, <2>3
  <2>5. new \in SetsRow(R \cup {rules}) /\ new.sealed = row.sealed /\ new.from = row.from
    BY <2>3, <2>4 DEF SetsRow
  <2>6. \A w \in 1..n : sets[w] \in SetsRow(R \cup {rules})
    BY <1>1 DEF SetsRow
  <2>7. sets' = [sets EXCEPT ![v] = new]
    BY <2>1, <2>2
  <2>8. sets' \in [1..n -> SetsRow(R \cup {rules})]
    BY <1>1, <2>5, <2>6, <2>7
  <2> QED BY <1>1, <1>2, <2>1, <2>5, <2>7, <2>8 DEF SetsShape
<1>3. CASE v \notin 1..n
  <2>1. sets' = sets
    BY <1>1, <1>3
  <2> QED BY <2>1 DEF SetsShape
<1> QED BY <1>2, <1>3

\* Midnight, or a switch that was taken: what is in force moved.
LEMMA SetsMoved ==
  ASSUME SetsInv,
         publish' = IF publish = Sets!NoPublish THEN publish ELSE [publish EXCEPT !.moved = TRUE],
         call' = IF call.kind = "publish" THEN [call EXCEPT !.moved = TRUE] ELSE call,
         UNCHANGED rail, today' \in Nat, DOMAIN sets' = DOMAIN sets, SetsShape',
         \A v \in DOMAIN sets : /\ sets'[v].sealed = sets[v].sealed /\ sets'[v].from = sets[v].from
                                /\ ~sets[v].sealed => sets'[v].rules = sets[v].rules
  PROVE  SetsInv'
<1>1. SetsTyped /\ SetsAbreast /\ Lasting /\ Sets!NoPublish.rows = "none"
  BY DEF SetsInv, Sets!NoPublish
<1>2. /\ publish' = Sets!NoPublish \/
         \E R : publish' \in [rows : {"loading", "error", "ready"}, of : DOMAIN sets, draft : R,
                              force : R, moved : BOOLEAN]
      /\ publish'.rows = "ready" =>
           /\ publish.rows = "ready" /\ publish'.of = publish.of /\ publish'.draft = publish.draft
           /\ publish'.moved /\ publish.of \in DOMAIN sets
      /\ publish = Sets!NoPublish => publish' = Sets!NoPublish
  <2>1. CASE publish = Sets!NoPublish
    BY <1>1, <2>1
  <2>2. CASE publish # Sets!NoPublish
    <3>1. PICK R : publish \in [rows : {"loading", "error", "ready"}, of : DOMAIN sets, draft : R,
                                force : R, moved : BOOLEAN]
      BY <1>1, <2>2 DEF SetsTyped
    <3>2. publish' = [rows |-> publish.rows, of |-> publish.of, draft |-> publish.draft,
                      force |-> publish.force, moved |-> TRUE]
      BY <2>2, <3>1
    <3> QED BY <2>2, <3>1, <3>2
  <2> QED BY <2>1, <2>2
<1>3. /\ call'.kind = call.kind
      /\ call.kind = "publish" =>
           /\ \E A, R : call' \in [kind : {"publish"}, at : A, from : Int, of : DOMAIN sets,
                                   draft : R, force : R, moved : BOOLEAN]
           /\ call'.of = call.of /\ call'.draft = call.draft
           /\ call'.moved /\ call.of \in DOMAIN sets
  <2>1. CASE call.kind = "publish"
    <3>1. PICK A, R : call \in [kind : {"publish"}, at : A, from : Int, of : DOMAIN sets,
                                draft : R, force : R, moved : BOOLEAN]
      BY <1>1, <2>1 DEF SetsTyped
    <3>2. call' = [kind |-> "publish", at |-> call.at, from |-> call.from, of |-> call.of,
                   draft |-> call.draft, force |-> call.force, moved |-> TRUE]
      BY <2>1, <3>1
    <3> QED BY <2>1, <3>1, <3>2
  <2>2. CASE call.kind # "publish"
    BY <2>2
  <2> QED BY <2>1, <2>2
<1>4. SetsTyped'
  <2>1. call.kind # "publish" => call' = call
    OBVIOUS
  <2>2. Sets!Free.kind = "free"
    BY DEF Sets!Free
  <2> QED BY <1>1, <1>2, <1>3, <2>1, <2>2 DEF SetsTyped
<1>5. SetsAbreast'
  BY <1>1, <1>2, <1>3 DEF SetsAbreast, Compared
<1>6. Lasting'
  BY <1>1 DEF Lasting, Last
<1> QED BY <1>4, <1>5, <1>6 DEF SetsInv

LEMMA SetsSwitch ==
  ASSUME SetsInv, Sets!Midnight \/ Sets!SwitchAnswered \/ Sets!SwitchFails
  PROVE  SetsInv'
<1>1. SetsTyped /\ Lasting /\ SetsShape /\ today \in Nat /\ today + 1 \in Nat
  BY DEF SetsInv, SetsTyped
<1>2. CASE Sets!Midnight
  <2>1. SetsShape'
    BY <1>1, <1>2 DEF SetsShape, Sets!Midnight
  <2> QED BY <1>1, <1>2, <2>1, SetsMoved DEF Sets!Midnight, Sets!screen
<1>3. CASE Sets!Flips /\ Sets!Moves /\ Sets!CallMoves /\ UNCHANGED <<rail, today>>
  <2>1. PICK rules : rules = [sets[Sets!InForce].rules EXCEPT ![switch.key].on = switch.on]
    OBVIOUS
  <2>2. sets' = [sets EXCEPT ![Sets!InForce].rules = rules]
    BY <1>3, <2>1 DEF Sets!Flips
  <2>3. sets[Sets!InForce].sealed
    BY <1>1, SetsForce
  <2>4. /\ DOMAIN sets' = DOMAIN sets /\ SetsShape'
        /\ \A w \in DOMAIN sets : /\ sets'[w].sealed = sets[w].sealed
                                  /\ sets'[w].from = sets[w].from
                                  /\ w # Sets!InForce => sets'[w] = sets[w]
    BY <1>1, <2>2, SetsRuled
  <2> QED BY <1>1, <1>3, <2>3, <2>4, SetsMoved DEF Sets!Moves, Sets!CallMoves
<1>4. CASE UNCHANGED <<sets, today, publish, call, rail>>
  BY <1>4, SetsSame
<1> QED BY <1>2, <1>3, <1>4 DEF Sets!SwitchAnswered, Sets!SwitchFails, Sets!screen

------------------------------------------------------------------------------
\* A rule of the draft is written from the drawer, which no publication hides.
LEMMA SetsCalls ==
  ASSUME SetsInv, Sets!newDraft \/ Sets!saveDraftRule \/ Sets!removeFromDraft
  PROVE  SetsInv'
<1>1. CASE Sets!newDraft
  BY <1>1, SetsSame DEF Sets!newDraft, Sets!draftCall, Sets!screen, Sets!layers
<1>2. Sets!InDrawer /\ Sets!onDraft => publish = Sets!NoPublish
  BY DEF Sets!InDrawer, Sets!onDraft, Sets!PublishOpen, Sets!draftVersion, Sets!ListState
<1>3. CASE Sets!saveDraftRule
  BY <1>2, <1>3, SetsSame DEF Sets!saveDraftRule, Sets!draftCall, Sets!screen, Sets!layers
<1>4. CASE Sets!removeFromDraft
  BY <1>2, <1>4, SetsSame DEF Sets!removeFromDraft, Sets!draftCall, Sets!screen, Sets!layers
<1> QED BY <1>1, <1>3, <1>4

\* The publication: opened, read, closed and confirmed.
LEMMA SetsPublish ==
  ASSUME SetsInv,
         \/ Sets!openPublish \/ Sets!PublishRead \/ Sets!closePublish
         \/ \E from \in 0..MaxDays : Sets!confirmPublish(from)
  PROVE  SetsInv'
<1>1. /\ SetsTyped /\ SetsAbreast /\ Lasting
      /\ Sets!NoPublish.rows = "none" /\ Sets!Free.kind = "free"
  BY DEF SetsInv, Sets!NoPublish, Sets!Free
<1>2. CASE Sets!openPublish
  <2>1. PICK v \in Sets!draftVersion :
          publish' = [rows |-> "loading", of |-> v, draft |-> Sets!NoList.rules,
                      force |-> Sets!NoList.rules, moved |-> FALSE]
    BY <1>2 DEF Sets!openPublish
  <2>2. v \in DOMAIN sets /\ call = Sets!Free /\ UNCHANGED <<sets, today, rail, call>>
    BY <1>1, <1>2, <2>1 DEF Sets!openPublish, Sets!draftVersion, Sets!screen, SetsTyped
  <2>3. publish' \in [rows : {"loading", "error", "ready"}, of : DOMAIN sets,
                      draft : {Sets!NoList.rules}, force : {Sets!NoList.rules}, moved : BOOLEAN]
        /\ publish'.rows = "loading"
    BY <2>1, <2>2
  <2>4. SetsTyped'
    BY <1>1, <2>2, <2>3 DEF SetsTyped, SetsShape
  <2>5. SetsAbreast' /\ Lasting'
    BY <1>1, <2>2, <2>3 DEF SetsAbreast, Lasting, Last
  <2> QED BY <2>4, <2>5 DEF SetsInv
<1>3. CASE Sets!PublishRead
  <2>1. PICK R : publish \in [rows : {"loading", "error", "ready"}, of : DOMAIN sets, draft : R,
                              force : R, moved : BOOLEAN]
    BY <1>1, <1>3 DEF Sets!PublishRead, SetsTyped
  <2>2. publish # Sets!NoPublish /\ UNCHANGED <<sets, today, rail, call>>
    BY <1>1, <1>3 DEF Sets!PublishRead, Sets!screen
  <2>3. CASE publish' = [publish EXCEPT !.rows = "error"]
    <3>1. publish' = [rows |-> "error", of |-> publish.of, draft |-> publish.draft,
                      force |-> publish.force, moved |-> publish.moved]
      BY <2>1, <2>3
    <3>2. publish' \in [rows : {"loading", "error", "ready"}, of : DOMAIN sets, draft : R,
                        force : R, moved : BOOLEAN] /\ publish'.rows = "error"
      BY <2>1, <3>1
    <3>3. SetsTyped'
      BY <1>1, <2>2, <3>2 DEF SetsTyped, SetsShape
    <3>4. Sets!InForce' = Sets!InForce
      BY <2>2 DEF Sets!InForce
    <3>5. SetsAbreast' /\ Lasting'
      BY <1>1, <2>2, <3>2, <3>4 DEF SetsAbreast, Lasting, Last, Compared
    <3> QED BY <3>3, <3>5 DEF SetsInv
  <2>4. CASE publish' = [publish EXCEPT !.rows = "ready", !.draft = sets[publish.of].rules,
                                        !.force = sets[Sets!InForce].rules, !.moved = FALSE]
    <3>1. PICK draft, force_ : draft = sets[publish.of].rules /\ force_ = sets[Sets!InForce].rules
      OBVIOUS
    <3>2. publish' = [rows |-> "ready", of |-> publish.of, draft |-> draft, force |-> force_,
                      moved |-> FALSE]
      BY <2>1, <2>4, <3>1
    <3>3. publish' \in [rows : {"loading", "error", "ready"}, of : DOMAIN sets, draft : {draft, force_},
                        force : {draft, force_}, moved : BOOLEAN] /\ publish'.of = publish.of
          /\ publish'.draft = draft /\ publish'.force = force_
      BY <2>1, <3>2
    <3>4. SetsTyped'
      BY <1>1, <2>2, <3>3 DEF SetsTyped, SetsShape
    <3>5. Sets!InForce' = Sets!InForce
      BY <2>2 DEF Sets!InForce
    <3>6. ~(call.kind \in {"add", "put", "remove"})
      BY <1>1, <2>2 DEF SetsAbreast
    <3>7. SetsAbreast' /\ Lasting'
      BY <1>1, <2>2, <3>1, <3>3, <3>5, <3>6 DEF SetsAbreast, Lasting, Last, Compared
    <3> QED BY <3>4, <3>7 DEF SetsInv
  <2> QED BY <1>3, <2>3, <2>4 DEF Sets!PublishRead
<1>4. CASE Sets!closePublish
  <2>1. publish' = Sets!NoPublish /\ UNCHANGED <<sets, today, rail, call>>
    BY <1>4 DEF Sets!closePublish, Sets!screen
  <2>2. SetsTyped'
    BY <1>1, <2>1 DEF SetsTyped, SetsShape
  <2>3. Sets!InForce' = Sets!InForce
    BY <2>1 DEF Sets!InForce
  <2>4. SetsAbreast' /\ Lasting'
    BY <1>1, <2>1, <2>3 DEF SetsAbreast, Lasting, Last, Compared
  <2> QED BY <2>2, <2>4 DEF SetsInv
<1>5. ASSUME NEW from \in 0..MaxDays, Sets!confirmPublish(from) PROVE SetsInv'
  <2>1. /\ call' = [kind |-> "publish", at |-> setsSelected, from |-> from, of |-> publish.of,
                    draft |-> publish.draft, force |-> publish.force, moved |-> publish.moved]
        /\ publish.rows = "ready" /\ UNCHANGED <<sets, today, rail, publish>>
    BY <1>5 DEF Sets!confirmPublish, Sets!draftCall, Sets!screen, Sets!layers
  <2>2. PICK R : publish \in [rows : {"loading", "error", "ready"}, of : DOMAIN sets, draft : R,
                              force : R, moved : BOOLEAN]
    BY <1>1, <2>1 DEF SetsTyped
  <2>3. from \in Int
    OBVIOUS
  <2>4. /\ call' \in [kind : {"publish"}, at : {setsSelected}, from : Int, of : DOMAIN sets,
                      draft : R, force : R, moved : BOOLEAN]
        /\ call'.kind = "publish" /\ call'.of = publish.of /\ call'.draft = publish.draft
        /\ call'.force = publish.force /\ call'.moved = publish.moved
    BY <2>1, <2>2, <2>3
  <2>5. SetsTyped'
    BY <1>1, <2>1, <2>4 DEF SetsTyped, SetsShape
  <2>6. Sets!InForce' = Sets!InForce
    BY <2>1 DEF Sets!InForce
  <2>7. SetsAbreast' /\ Lasting'
    BY <1>1, <2>1, <2>4, <2>6 DEF SetsAbreast, Lasting, Last, Compared
  <2> QED BY <2>5, <2>7 DEF SetsInv
<1> QED BY <1>2, <1>3, <1>4, <1>5

------------------------------------------------------------------------------
\* What a draft call does to the versions: a new one comes after them, a rule
\* of the draft changes, or the draft is sealed.
LEMMA SetsOpened ==
  ASSUME SetsInv, Sets!Writes, call.kind = "open"
  PROVE  /\ SetsShape' /\ (today' = today => Lasting') /\ DOMAIN sets \subseteq DOMAIN sets'
         /\ \A v, w \in DOMAIN sets' : (~sets'[v].sealed /\ ~sets'[w].sealed) => v = w
         /\ \A v \in DOMAIN sets : sets'[v].sealed
<1>0. PICK n \in Nat : \E R : sets \in [1..n -> SetsRow(R)]
  BY DEF SetsInv, SetsTyped, SetsShape
<1>1. PICK R : sets \in [1..n -> SetsRow(R)]
  BY <1>0
<1>2. PICK rules : rules = sets[Sets!InForce].rules
  OBVIOUS
<1>3. PICK new : new = [sealed |-> FALSE, from |-> -1, rules |-> rules]
  OBVIOUS
<1>4. PICK S : S = SetsRow(R \cup {rules})
  OBVIOUS
<1>5. /\ sets' = Append(sets, new) /\ \A v \in DOMAIN sets : sets[v].sealed
      /\ new \in S /\ ~new.sealed /\ \A v \in 1..n : sets[v] \in S
  <2>1. sets' = Append(sets, new) /\ \A v \in DOMAIN sets : sets[v].sealed
    BY <1>2, <1>3 DEF Sets!Writes, Sets!CanWrite, Sets!Drafts
  <2>2. new \in S /\ ~new.sealed
    BY <1>3, <1>4 DEF SetsRow
  <2>3. \A v \in 1..n : sets[v] \in S
    BY <1>1, <1>4 DEF SetsRow
  <2> QED BY <2>1, <2>2, <2>3
<1>6. /\ DOMAIN sets' = 1..(n + 1) /\ sets'[n + 1] = new
      /\ \A v \in 1..n : sets'[v] = sets[v]
      /\ sets' \in [1..(n + 1) -> SetsRow(R \cup {rules})]
  <2>1. sets \in [1..n -> S]
    BY <1>1, <1>5
  <2>2. sets \in Seq(S) /\ Len(sets) = n
    BY <2>1
  <2>3. sets' \in Seq(S) /\ Len(sets') = n + 1 /\ sets'[n + 1] = new
        /\ \A v \in 1..n : sets'[v] = sets[v]
    BY <1>5, <2>2
  <2> QED BY <1>4, <2>3
<1>7. SetsShape'
  BY <1>6 DEF SetsShape
<1>8. Lasting'
  <2> SUFFICES ASSUME NEW t \in Nat PROVE \E v \in DOMAIN sets' : Last(t, v)'
    BY DEF Lasting
  <2>1. PICK v \in 1..n : Last(t, v)
    BY <1>1 DEF SetsInv, Lasting
  <2>2. \A w \in DOMAIN sets' : sets'[w].sealed => w \in 1..n /\ sets'[w] = sets[w]
    BY <1>5, <1>6
  <2>3. Last(t, v)'
    BY <1>1, <1>6, <2>1, <2>2 DEF Last
  <2> QED BY <1>6, <2>3
<1>9. \A v \in DOMAIN sets' : ~sets'[v].sealed => v = n + 1
  BY <1>1, <1>5, <1>6
<1> QED BY <1>1, <1>5, <1>6, <1>7, <1>8, <1>9

LEMMA SetsRuleWritten ==
  ASSUME SetsInv, Sets!Writes, call.kind \in {"add", "put", "remove"}
  PROVE  /\ SetsShape' /\ (today' = today => Lasting') /\ DOMAIN sets' = DOMAIN sets
         /\ \A v \in DOMAIN sets : sets'[v].sealed = sets[v].sealed
<1>1. PICK rules : rules = [sets[Sets!TheDraft].rules EXCEPT ![call.key] = call.rule]
  OBVIOUS
<1>2. sets' = [sets EXCEPT ![Sets!TheDraft].rules = rules]
  BY <1>1 DEF Sets!Writes
<1>3. /\ DOMAIN sets' = DOMAIN sets /\ SetsShape'
      /\ \A w \in DOMAIN sets : sets'[w].sealed = sets[w].sealed /\ sets'[w].from = sets[w].from
  BY <1>2, SetsRuled DEF SetsInv, SetsTyped
<1>4. Lasting'
  BY <1>3 DEF SetsInv, Lasting, Last
<1> QED BY <1>3, <1>4

LEMMA SetsPublished ==
  ASSUME SetsInv, Sets!Writes, call.kind = "publish"
  PROVE  /\ SetsShape' /\ (today' = today => Lasting') /\ DOMAIN sets' = DOMAIN sets
         /\ \A v \in DOMAIN sets : sets'[v].sealed /\ sets'[v].rules = sets[v].rules
<1>0. PICK n \in Nat : \E R : sets \in [1..n -> SetsRow(R)]
  BY DEF SetsInv, SetsTyped, SetsShape
<1>1. PICK R : sets \in [1..n -> SetsRow(R)]
  BY <1>0
<1>2. PICK d : d = Sets!TheDraft
  OBVIOUS
<1>3. d \in 1..n /\ ~sets[d].sealed
  BY <1>1, <1>2 DEF Sets!Writes, Sets!CanWrite, Sets!TheDraft, Sets!Drafts
<1>4. PICK row : row = sets[d]
  OBVIOUS
<1>5. row \in [sealed : BOOLEAN, from : Int, rules : R] /\ call.from \in Int
  BY <1>1, <1>3, <1>4 DEF SetsRow, SetsInv, SetsTyped
<1>6. PICK new : new = [sealed |-> TRUE, from |-> call.from, rules |-> row.rules]
  OBVIOUS
<1>7. new \in SetsRow(R) /\ new.sealed /\ new.from = call.from /\ new.rules = row.rules
  BY <1>5, <1>6 DEF SetsRow
<1>8. sets' = [sets EXCEPT ![d] = new]
  <2>1. PICK first : first = [row EXCEPT !.sealed = TRUE]
    OBVIOUS
  <2>2. first = [sealed |-> TRUE, from |-> row.from, rules |-> row.rules]
    BY <1>5, <2>1
  <2>3. PICK second : second = [first EXCEPT !.from = call.from]
    OBVIOUS
  <2>4. second = new
    <3>1. first \in [sealed : BOOLEAN, from : Int, rules : R]
          /\ first.sealed = TRUE /\ first.rules = row.rules
      BY <1>5, <2>2
    <3>2. second = [sealed |-> first.sealed, from |-> call.from, rules |-> first.rules]
      BY <2>3, <3>1
    <3> QED BY <1>6, <3>1, <3>2
  <2>5. PICK half : half = [sets EXCEPT ![d].sealed = TRUE]
    OBVIOUS
  <2>6. half = [sets EXCEPT ![d] = first]
    BY <1>4, <2>1, <2>5
  <2>7. half[d] = first
    BY <1>1, <1>3, <2>6
  <2>8. sets' = [half EXCEPT ![d].from = call.from]
    BY <1>2, <2>5 DEF Sets!Writes
  <2>9. sets' = [half EXCEPT ![d] = second]
    BY <2>3, <2>7, <2>8
  <2> QED BY <1>1, <1>3, <2>4, <2>6, <2>9
<1>9. /\ sets' \in [1..n -> SetsRow(R)] /\ sets'[d] = new
      /\ \A v \in 1..n : v # d => sets'[v] = sets[v] /\ sets[v].sealed
  BY <1>1, <1>3, <1>7, <1>8 DEF SetsInv, SetsAbreast
<1>10. Lasting'
  <2> SUFFICES ASSUME NEW t \in Nat PROVE \E v \in DOMAIN sets' : Last(t, v)'
    BY DEF Lasting
  <2>1. PICK v \in 1..n : Last(t, v)
    BY <1>1 DEF SetsInv, Lasting
  <2>2. v # d /\ sets'[v] = sets[v]
    BY <1>3, <1>9, <2>1 DEF Last
  <2>3. \A w \in 1..n : sets[w].from \in Int
    BY <1>1 DEF SetsRow
  <2>4. CASE call.from <= t /\ ~(call.from < sets[v].from \/ (call.from = sets[v].from /\ d <= v))
    <3>1. \A w \in 1..n : (sets'[w].sealed /\ sets'[w].from <= t) =>
            sets'[w].from < call.from \/ (sets'[w].from = call.from /\ w <= d)
      <4> SUFFICES ASSUME NEW w \in 1..n, w # d, sets'[w].from <= t
                   PROVE  sets'[w].from < call.from \/ (sets'[w].from = call.from /\ w <= d)
        BY <1>7, <1>9
      <4>1. sets[w].from < sets[v].from \/ (sets[w].from = sets[v].from /\ w <= v)
        BY <1>9, <2>1, <1>1 DEF Last
      <4> QED BY <1>3, <1>5, <1>9, <2>3, <2>4, <4>1
    <3>2. Last(t, d)'
      BY <1>1, <1>3, <1>7, <1>9, <2>4, <3>1 DEF Last
    <3> QED BY <1>3, <1>9, <3>2
  <2>5. CASE ~(call.from <= t) \/ call.from < sets[v].from \/ (call.from = sets[v].from /\ d <= v)
    <3>1. Last(t, v)'
      BY <1>1, <1>3, <1>7, <1>9, <2>1, <2>2, <2>5 DEF Last
    <3> QED BY <1>9, <3>1
  <2> QED BY <2>4, <2>5
<1>11. SetsShape'
  BY <1>9 DEF SetsShape
<1>12. \A v \in DOMAIN sets : sets'[v].sealed /\ sets'[v].rules = sets[v].rules
  BY <1>1, <1>4, <1>7, <1>9
<1> QED BY <1>1, <1>9, <1>10, <1>11, <1>12

LEMMA SetsTakes ==
  ASSUME SetsInv, Sets!Writes, call # Sets!Free, call' = Sets!Free, UNCHANGED <<today, rail>>,
         publish' \in {publish, Sets!NoPublish}
  PROVE  SetsInv'
<1>1. /\ SetsTyped /\ SetsAbreast /\ Lasting /\ DOMAIN rail' \subseteq DOMAIN sets
      /\ Sets!NoPublish.rows = "none" /\ Sets!Free.kind = "free"
      /\ call.kind \in {"open", "add", "put", "remove", "publish"}
  BY DEF SetsInv, SetsTyped, Sets!NoPublish, Sets!Free
<1>2. /\ SetsShape' /\ Lasting' /\ DOMAIN sets \subseteq DOMAIN sets'
      /\ \A v, w \in DOMAIN sets' : (~sets'[v].sealed /\ ~sets'[w].sealed) => v = w
      /\ publish' = Sets!NoPublish \/ \A v \in DOMAIN sets : sets'[v].sealed
  <2>1. CASE call.kind = "open"
    BY <2>1, SetsOpened
  <2>2. CASE call.kind \in {"add", "put", "remove"}
    <3>1. publish' = Sets!NoPublish
      BY <1>1, <2>2 DEF SetsAbreast
    <3>2. /\ SetsShape' /\ Lasting' /\ DOMAIN sets' = DOMAIN sets
          /\ \A v \in DOMAIN sets : sets'[v].sealed = sets[v].sealed
      BY <2>2, SetsRuleWritten
    <3> QED BY <1>1, <3>1, <3>2 DEF SetsAbreast
  <2>3. CASE call.kind = "publish"
    BY <2>3, SetsPublished
  <2> QED BY <1>1, <2>1, <2>2, <2>3
<1>3. publish' = Sets!NoPublish \/
      \E R : publish' \in [rows : {"loading", "error", "ready"}, of : DOMAIN sets', draft : R,
                           force : R, moved : BOOLEAN]
  <2>1. CASE publish' = Sets!NoPublish
    BY <2>1
  <2>2. CASE publish' # Sets!NoPublish
    <3>1. PICK R : publish \in [rows : {"loading", "error", "ready"}, of : DOMAIN sets, draft : R,
                                force : R, moved : BOOLEAN]
      BY <1>1, <2>2 DEF SetsTyped
    <3>2. publish' \in [rows : {"loading", "error", "ready"}, of : DOMAIN sets', draft : R,
                        force : R, moved : BOOLEAN]
      BY <1>2, <2>2, <3>1
    <3> QED BY <3>2
  <2> QED BY <2>1, <2>2
<1>4. SetsTyped'
  BY <1>1, <1>2, <1>3 DEF SetsTyped
<1>5. publish'.rows = "ready" => Compared(publish)'
  <2> SUFFICES ASSUME publish'.rows = "ready" PROVE Compared(publish)'
    OBVIOUS
  <2>1. publish' = publish /\ publish # Sets!NoPublish
    BY <1>1
  <2>2. publish.of \in DOMAIN sets
    BY <1>1, <2>1 DEF SetsTyped
  <2> QED BY <1>1, <1>2, <2>1, <2>2 DEF Compared
<1>6. SetsAbreast'
  BY <1>1, <1>2, <1>5 DEF SetsAbreast
<1> QED BY <1>2, <1>4, <1>6 DEF SetsInv

LEMMA SetsAnswers ==
  ASSUME SetsInv, Sets!DraftTaken \/ Sets!DraftRefused \/ Sets!DraftFails
  PROVE  SetsInv'
<1>1. CASE Sets!DraftTaken
  <2>1. publish' \in {publish, Sets!NoPublish}
    <3>1. call.kind \in {"open", "add", "put", "remove", "publish"}
      BY <1>1 DEF Sets!DraftTaken, SetsInv, SetsTyped
    <3> QED BY <1>1, <3>1 DEF Sets!DraftTaken
  <2> QED BY <1>1, <2>1, SetsTakes DEF Sets!DraftTaken
<1>2. CASE Sets!DraftRefused
  BY <1>2, SetsSame DEF Sets!DraftRefused
<1>3. CASE Sets!DraftFails
  <2>1. CASE Sets!Writes
    BY <1>3, <2>1, SetsTakes DEF Sets!DraftFails, Sets!screen
  <2>2. CASE UNCHANGED sets
    BY <1>3, <2>2, SetsSame DEF Sets!DraftFails, Sets!screen
  <2> QED BY <1>3, <2>1, <2>2 DEF Sets!DraftFails
<1> QED BY <1>1, <1>2, <1>3

LEMMA SetsNext == SetsInv /\ Sets!Next => SetsInv'
<1> SUFFICES ASSUME SetsInv, Sets!Next PROVE SetsInv'
  OBVIOUS
<1> QED BY SetsReads, SetsDrawer, SetsSwitch, SetsCalls, SetsPublish, SetsAnswers DEF Sets!Next

\* What a publication puts in force was compared.
LEMMA SetsPublishes ==
  ASSUME SetsInv, Sets!Next
  PROVE  \A v \in DOMAIN sets : Sets!Sealed(v) =>
           /\ call.of = v => sets'[v].rules = call.draft
           /\ (call.of = v /\ ~call.moved) => sets[Sets!InForce].rules = call.force
<1> SUFFICES ASSUME NEW v \in DOMAIN sets, ~sets[v].sealed, sets'[v].sealed, call.of = v
             PROVE  /\ sets'[v].rules = call.draft
                    /\ ~call.moved => sets[Sets!InForce].rules = call.force
  BY DEF Sets!Sealed
<1>1. SetsTyped /\ Lasting /\ SetsShape
  BY DEF SetsInv, SetsTyped
<1>2. (Sets!Writes /\ call # Sets!Free) \/ Sets!Flips
  <2>1. sets' # sets
    OBVIOUS
  <2> QED BY <2>1 DEF Sets!Next, Sets!Midnight, Sets!RulesRead, Sets!VersionsRead, Sets!Retry,
          Sets!selectVersion, Sets!OpenRule, Sets!toggleRule, Sets!onKill, Sets!Opens, Sets!Ask,
          Sets!AddRule, Sets!Close, Sets!Type, Sets!Back, Sets!doSwitch, Sets!SwitchAnswered,
          Sets!SwitchFails, Sets!newDraft, Sets!saveDraftRule, Sets!removeFromDraft,
          Sets!draftCall, Sets!openPublish, Sets!PublishRead, Sets!closePublish,
          Sets!confirmPublish, Sets!DraftTaken, Sets!DraftRefused, Sets!DraftFails
<1>3. ~Sets!Flips
  <2>1. ASSUME Sets!Flips PROVE FALSE
    <3>1. PICK rules : rules = [sets[Sets!InForce].rules EXCEPT ![switch.key].on = switch.on]
      OBVIOUS
    <3>2. sets' = [sets EXCEPT ![Sets!InForce].rules = rules]
      BY <2>1, <3>1 DEF Sets!Flips
    <3> QED BY <1>1, <3>2, SetsRuled
  <2> QED BY <2>1
<1>4. Sets!Writes /\ call # Sets!Free
  BY <1>2, <1>3
<1>5. call.kind = "publish"
  <2>1. call.kind \in {"open", "add", "put", "remove", "publish"}
    BY <1>1, <1>4 DEF SetsTyped
  <2>2. call.kind # "open"
    BY <1>4 DEF Sets!Writes, Sets!CanWrite, Sets!Drafts
  <2>3. call.kind \notin {"add", "put", "remove"}
    BY <1>4, SetsRuleWritten
  <2> QED BY <2>1, <2>2, <2>3
<1>6. sets'[v].rules = sets[v].rules
  BY <1>4, <1>5, SetsPublished
<1>7. Compared(call)
  BY <1>5 DEF SetsInv, SetsAbreast
<1> QED BY <1>6, <1>7 DEF Compared

------------------------------------------------------------------------------
\* A version that is named is stored, and 0 names the one in force. What was
\* read last is what is stored, until it is read again.
SetsNamed == {0} \cup DOMAIN sets
SetsRead ==
  /\ setsReading \in {"loading", "ready", "error"}
  /\ setsSelected \in SetsNamed /\ asked \in SetsNamed
  /\ switch = Sets!Free \/ switch.at \in SetsNamed
  /\ call = Sets!Free \/ call.at \in SetsNamed
  /\ (~railAsked /\ "rail" \notin setsBehind) => rail = [v \in DOMAIN sets |-> Sets!StateOf(v)]
  /\ setsReading = "ready" => setsList.version \in DOMAIN sets
  /\ (setsReading = "ready" /\ "list" \notin setsBehind) => setsList.rules = sets[setsList.version].rules

\* What the rail calls a draft is no other than the draft there is, and a draft
\* is asked for when the rail has none.
Draftless == \A v \in DOMAIN sets : sets[v].sealed
SetsRail ==
  /\ \A v \in DOMAIN rail, d \in DOMAIN sets : (rail[v] = "draft" /\ ~sets[d].sealed) => v = d
  /\ (call.kind = "open" /\ Draftless) => \A v \in DOMAIN rail : rail[v] # "draft"

\* A form is there while it is rendered. Unless it has aged it was filled from
\* the rule of the draft, and so was the call it sends.
Formed(f) == \E S : f \in [text : S, on : S, base : S, aged : BOOLEAN]
Holds(key, base) == \A d \in DOMAIN sets : ~sets[d].sealed => sets[d].rules[key] = base
SetsForm ==
  /\ ~Sets!Rendered => form = Sets!Unmounted
  /\ Sets!Rendered => Formed(form)
  /\ (Sets!Rendered /\ setsDrawer.kind = "rule" /\ ~form.aged) => Holds(setsDrawer.key, form.base)
  /\ (call.kind = "open" /\ Draftless /\ Sets!Rendered) => form.aged
SetsSent == (call.kind \in {"put", "remove"} /\ ~call.aged) => Holds(call.key, call.base)

SetsArmed == SetsRead /\ SetsRail /\ SetsForm /\ SetsSent

LEMMA SetsArmedInit == Sets!Init => SetsArmed
<1> SUFFICES ASSUME Sets!Init PROVE SetsArmed
  OBVIOUS
<1>1. /\ setsReading = "loading" /\ setsSelected = 0 /\ asked = 0 /\ switch = Sets!Free /\ call = Sets!Free
      /\ railAsked /\ DOMAIN rail = {} /\ setsDrawer = Sets!Closed /\ form = Sets!Unmounted
      /\ call.kind = "free" /\ setsDrawer.kind = "closed"
  BY DEF Sets!Init, Sets!Free, Sets!Closed
<1>2. ~Sets!Rendered
  BY <1>1 DEF Sets!Rendered
<1> QED BY <1>1, <1>2 DEF SetsArmed, SetsRead, SetsRail, SetsForm, SetsSent, SetsNamed

\* No version takes over while each keeps its date.
LEMMA SetsForceKept ==
  ASSUME SetsInv, SetsInv', today' = today, DOMAIN sets' = DOMAIN sets,
         \A v \in DOMAIN sets : sets'[v].sealed = sets[v].sealed /\ sets'[v].from = sets[v].from
  PROVE  /\ Sets!InForce' = Sets!InForce
         /\ \A v \in DOMAIN sets : Sets!StateOf(v)' = Sets!StateOf(v)
<1>1. Sets!InForce \in DOMAIN sets /\ Last(today, Sets!InForce)
  <2>1. \E v \in DOMAIN sets : Last(today, v)
    BY DEF SetsInv, SetsTyped, Lasting
  <2> QED BY <2>1 DEF Last, Sets!InForce
<1>2. Sets!InForce' \in DOMAIN sets' /\ Last(today, Sets!InForce)'
  <2>1. \E v \in DOMAIN sets' : Last(today, v)'
    BY DEF SetsInv, SetsTyped, Lasting
  <2> QED BY <2>1 DEF Last, Sets!InForce
<1>3. PICK n \in Nat : \E R : sets \in [1..n -> SetsRow(R)]
  BY DEF SetsInv, SetsTyped, SetsShape
<1>4. DOMAIN sets = 1..n /\ \A v \in 1..n : sets[v].from \in Int
  BY <1>3 DEF SetsRow
<1>5. PICK v \in 1..n : v = Sets!InForce
  BY <1>1, <1>4
<1>6. PICK w \in 1..n : w = Sets!InForce'
  BY <1>2, <1>4
<1>7. v = w
  <2>1. /\ sets[v].sealed /\ sets[v].from <= today /\ sets[w].sealed /\ sets[w].from <= today
        /\ sets[w].from < sets[v].from \/ (sets[w].from = sets[v].from /\ w <= v)
        /\ sets[v].from < sets[w].from \/ (sets[v].from = sets[w].from /\ v <= w)
    BY <1>1, <1>2, <1>4, <1>5, <1>6 DEF Last
  <2> QED BY <1>4, <2>1
<1>8. \A u \in DOMAIN sets : Sets!StateOf(u)' = Sets!StateOf(u)
  BY <1>5, <1>6, <1>7 DEF Sets!StateOf
<1> QED BY <1>5, <1>6, <1>7, <1>8

\* What is rendered is the drawer over what was read.
LEMMA SetsDrawn ==
  ASSUME UNCHANGED <<rail, setsSelected, setsList, setsReading, setsDrawer>>
  PROVE  Sets!Rendered' = Sets!Rendered
BY DEF Sets!Rendered, Sets!Listed, Sets!Shown, Sets!onDraft, Sets!ListState

LEMMA SetsDraftShown ==
  ASSUME Sets!onDraft
  PROVE  /\ Sets!Shown.version \in DOMAIN rail /\ rail[Sets!Shown.version] = "draft"
         /\ setsReading = "ready" => Sets!Shown = setsList
BY DEF Sets!onDraft, Sets!ListState, Sets!Shown

\* What a step that reads nothing and opens nothing keeps.
LEMMA SetsReadKept ==
  ASSUME SetsInv, SetsInv', SetsRead,
         UNCHANGED <<rail, railAsked, setsSelected, setsList, setsReading, asked>>,
         DOMAIN sets' = DOMAIN sets,
         \A v \in DOMAIN sets : sets'[v].sealed = sets[v].sealed /\ sets'[v].from = sets[v].from,
         (setsReading = "ready" /\ "list" \notin setsBehind') =>
           sets'[setsList.version].rules = sets[setsList.version].rules,
         "rail" \notin setsBehind' => today' = today, setsBehind \subseteq setsBehind',
         switch' = Sets!Free \/ switch' = switch \/ switch'.at = setsSelected,
         call' = Sets!Free \/ call' = call \/ call'.at = setsSelected
         \/ (call # Sets!Free /\ call'.at = call.at)
  PROVE  SetsRead'
<1>1. "rail" \notin setsBehind' => \A v \in DOMAIN sets : Sets!StateOf(v)' = Sets!StateOf(v)
  BY SetsForceKept
<1>2. SetsNamed' = SetsNamed /\ Sets!Free' = Sets!Free
  BY DEF SetsNamed, Sets!Free
<1>3. (~railAsked /\ "rail" \notin setsBehind)' => rail' = [v \in DOMAIN sets' |-> Sets!StateOf(v)']
  BY <1>1 DEF SetsRead
<1> QED BY <1>2, <1>3 DEF SetsRead

LEMMA SetsFormKept ==
  ASSUME SetsRail, SetsForm, SetsSent,
         UNCHANGED <<rail, setsSelected, setsList, setsReading, setsDrawer>>,
         DOMAIN sets' = DOMAIN sets,
         \A v \in DOMAIN sets : /\ sets'[v].sealed = sets[v].sealed
                                /\ ~sets[v].sealed => sets'[v].rules = sets[v].rules,
         form' = form \/ (Sets!Rendered /\ \E t : form' = [form EXCEPT !.text = t]),
         \/ call' = call \/ call'.kind \notin {"open", "put", "remove"}
         \/ call'.kind = "open" /\ ~Sets!Rendered /\ \A v \in DOMAIN rail : rail[v] # "draft"
         \/ /\ call'.kind \in {"put", "remove"} /\ Sets!Rendered /\ setsDrawer.kind = "rule"
            /\ call'.key = setsDrawer.key /\ call'.base = form.base /\ call'.aged = form.aged
  PROVE  SetsRail' /\ SetsForm' /\ SetsSent'
<1>1. Sets!Rendered' = Sets!Rendered
  BY SetsDrawn
<1>2. Draftless' <=> Draftless
  BY DEF Draftless
<1>3. \A k, b : Holds(k, b) => \A d \in DOMAIN sets' : ~sets'[d].sealed => sets'[d].rules[k] = b
  BY DEF Holds
<1>4. /\ ~Sets!Rendered => form' = Sets!Unmounted
      /\ Sets!Rendered => Formed(form') /\ form'.base = form.base /\ form'.aged = form.aged
  <2>1. CASE form' = form
    BY <2>1 DEF SetsForm
  <2>2. ASSUME Sets!Rendered, NEW t, form' = [form EXCEPT !.text = t]
        PROVE  Formed(form') /\ form'.base = form.base /\ form'.aged = form.aged
    <3>1. PICK S : form \in [text : S, on : S, base : S, aged : BOOLEAN]
      BY <2>2 DEF SetsForm, Formed
    <3>2. form' = [text |-> t, on |-> form.on, base |-> form.base, aged |-> form.aged]
      BY <2>2, <3>1
    <3>3. form' \in [text : S \cup {t}, on : S \cup {t}, base : S \cup {t}, aged : BOOLEAN]
      BY <3>1, <3>2
    <3> QED BY <3>2, <3>3 DEF Formed
  <2> QED BY <2>1, <2>2
<1>5. SetsRail'
  BY <1>2 DEF SetsRail
<1>6. (Sets!Rendered' /\ setsDrawer'.kind = "rule" /\ ~form'.aged) =>
        \A d \in DOMAIN sets' : ~sets'[d].sealed => sets'[d].rules[setsDrawer'.key] = form'.base
  BY <1>1, <1>3, <1>4 DEF SetsForm
<1>7. (call'.kind = "open" /\ Draftless' /\ Sets!Rendered') => form'.aged
  BY <1>1, <1>2, <1>4 DEF SetsForm
<1>8. SetsForm'
  BY <1>1, <1>4, <1>6, <1>7 DEF SetsForm, Holds, Formed, Sets!Unmounted
<1>9. (call'.kind \in {"put", "remove"} /\ ~call'.aged) =>
        \A d \in DOMAIN sets' : ~sets'[d].sealed => sets'[d].rules[call'.key] = call'.base
  BY <1>3 DEF SetsSent, SetsForm
<1> QED BY <1>5, <1>8, <1>9 DEF SetsSent, Holds

\* A form is filled from what is listed, or stays as it was.
LEMMA SetsRenders ==
  ASSUME SetsForm, Sets!Renders, SetsRead', SetsRail',
         setsDrawer' = setsDrawer =>
           \/ Sets!Rendered => form.aged
           \/ \A d \in DOMAIN sets' :
                ~sets'[d].sealed => d \in DOMAIN sets /\ ~sets[d].sealed /\ sets'[d].rules = sets[d].rules,
         (call'.kind = "open" /\ Draftless') => call.kind = "open" /\ Draftless
  PROVE  SetsForm'
<1>1. CASE ~Sets!Rendered'
  BY <1>1 DEF Sets!Renders, SetsForm
<1>2. CASE Sets!Rendered' /\ form # Sets!Unmounted /\ setsDrawer' = setsDrawer
  <2>1. form' = form /\ Sets!Rendered
    BY <1>2 DEF Sets!Renders, SetsForm
  <2> QED BY <1>2, <2>1 DEF SetsForm, Holds, Formed
<1>3. CASE Sets!Rendered' /\ ~(form # Sets!Unmounted /\ setsDrawer' = setsDrawer)
  <2>1. form' = Sets!Filled'
    BY <1>3 DEF Sets!Renders
  <2>2. setsDrawer'.kind \in {"rule", "new"} /\ (setsDrawer'.kind = "new" => Sets!onDraft')
    BY <1>3 DEF Sets!Rendered
  <2>3. Sets!onDraft' =>
          /\ Sets!Shown'.version \in DOMAIN rail' /\ rail'[Sets!Shown'.version] = "draft"
          /\ setsReading' = "ready" => Sets!Shown' = setsList'
    BY DEF Sets!onDraft, Sets!ListState, Sets!Shown
  <2>4. (call'.kind = "open" /\ Draftless') => ~Sets!onDraft'
    BY <2>3 DEF SetsRail
  <2>5. CASE setsDrawer'.kind = "new"
    <3>1. form' = [text |-> 0, on |-> TRUE, base |-> Sets!Gone, aged |-> FALSE]
      BY <2>1, <2>5 DEF Sets!Filled, Sets!Gone
    <3>2. form' \in [text : {0, TRUE, Sets!Gone}, on : {0, TRUE, Sets!Gone}, base : {0, TRUE, Sets!Gone},
                     aged : BOOLEAN]
      BY <3>1
    <3>3. Formed(form')
      BY <3>2 DEF Formed
    <3> QED BY <1>3, <2>2, <2>4, <2>5, <3>3 DEF SetsForm, Formed
  <2>6. CASE setsDrawer'.kind = "rule"
    <3>1. PICK r : r = Sets!Shown'.rules[setsDrawer'.key]
      OBVIOUS
    <3>2. PICK aged \in BOOLEAN :
            aged <=> (~Sets!onDraft' \/ setsReading' # "ready" \/ "list" \in setsBehind')
      OBVIOUS
    <3>3. form' = [text |-> r.text, on |-> r.on, base |-> r, aged |-> aged]
      BY <2>1, <2>6, <3>1, <3>2 DEF Sets!Filled
    <3>4. form' \in [text : {r.text, r.on, r}, on : {r.text, r.on, r}, base : {r.text, r.on, r},
                     aged : BOOLEAN]
      BY <3>2, <3>3
    <3>5. Formed(form') /\ form'.base = r /\ form'.aged = aged
      BY <3>3, <3>4 DEF Formed
    <3>6. ASSUME ~aged, NEW d \in DOMAIN sets', ~sets'[d].sealed
          PROVE  sets'[d].rules[setsDrawer'.key] = r
      <4>1. setsReading' = "ready" /\ "list" \notin setsBehind' /\ Sets!onDraft'
        BY <3>2, <3>6
      <4>2. setsList'.version = d
        BY <2>3, <3>6, <4>1 DEF SetsRail
      <4>3. setsList'.rules = sets'[d].rules
        BY <4>1, <4>2 DEF SetsRead
      <4> QED BY <2>3, <3>1, <4>1, <4>3
    <3> QED BY <1>3, <2>4, <2>6, <3>2, <3>5, <3>6 DEF SetsForm, Holds, Formed
  <2> QED BY <2>2, <2>5, <2>6
<1> QED BY <1>1, <1>2, <1>3

\* A switch that is taken changes a version that is no draft.
LEMMA SetsFlipped ==
  ASSUME SetsInv, Sets!Flips
  PROVE  /\ DOMAIN sets' = DOMAIN sets
         /\ \A v \in DOMAIN sets : /\ sets'[v].sealed = sets[v].sealed /\ sets'[v].from = sets[v].from
                                   /\ ~sets[v].sealed => sets'[v].rules = sets[v].rules
<1>1. SetsTyped /\ Lasting /\ SetsShape
  BY DEF SetsInv, SetsTyped
<1>2. PICK rules : rules = [sets[Sets!InForce].rules EXCEPT ![switch.key].on = switch.on]
  OBVIOUS
<1>3. sets' = [sets EXCEPT ![Sets!InForce].rules = rules]
  BY <1>2 DEF Sets!Flips
<1>4. sets[Sets!InForce].sealed
  BY <1>1, SetsForce
<1> QED BY <1>1, <1>3, <1>4, SetsRuled

\* The call that is out keeps what it was sent with.
LEMMA SetsCallMoves ==
  ASSUME SetsInv, Sets!CallMoves
  PROVE  call' = call \/ (call.kind = "publish" /\ call'.kind = "publish" /\ call'.at = call.at /\ call # Sets!Free)
<1>1. CASE call.kind = "publish"
  <2>1. PICK A, R : call \in [kind : {"publish"}, at : A, from : Int, of : DOMAIN sets,
                              draft : R, force : R, moved : BOOLEAN]
    BY <1>1 DEF SetsInv, SetsTyped
  <2>2. call' = [kind |-> "publish", at |-> call.at, from |-> call.from, of |-> call.of,
                 draft |-> call.draft, force |-> call.force, moved |-> TRUE]
    BY <1>1, <2>1 DEF Sets!CallMoves
  <2> QED BY <1>1, <2>2 DEF Sets!Free
<1>2. CASE call.kind # "publish"
  BY <1>2 DEF Sets!CallMoves
<1> QED BY <1>1, <1>2

LEMMA SetsArmedWaits ==
  ASSUME SetsInv, SetsInv', SetsArmed, Sets!Midnight \/ Sets!SwitchFails
  PROVE  SetsArmed'
<1>1. CASE Sets!Midnight
  <2>1. UNCHANGED <<sets, rail, railAsked, setsSelected, setsList, setsReading, asked, setsDrawer, form, switch>>
        /\ setsBehind' = {"rail", "list"}
    BY <1>1 DEF Sets!Midnight, Sets!screen
  <2>2. Sets!CallMoves
    BY <1>1 DEF Sets!Midnight, Sets!CallMoves
  <2>3. call' = call \/ (call.kind = "publish" /\ call'.kind = "publish" /\ call'.at = call.at /\ call # Sets!Free)
    BY <2>2, SetsCallMoves
  <2>4. SetsRead'
    <3>1. SetsNamed' = SetsNamed
      BY <2>1 DEF SetsNamed
    <3> QED BY <2>1, <2>3, <3>1 DEF SetsArmed, SetsRead
  <2>5. SetsRail' /\ SetsForm' /\ SetsSent'
    BY <2>1, <2>3, SetsFormKept DEF SetsArmed
  <2> QED BY <2>4, <2>5 DEF SetsArmed
<1>2. CASE Sets!SwitchFails
  <2>1. UNCHANGED <<today, rail, railAsked, setsSelected, setsList, setsReading, asked, setsDrawer, form>>
        /\ switch' = Sets!Free
    BY <1>2 DEF Sets!SwitchFails, Sets!screen
  <2>2. CASE Sets!Flips /\ Sets!CallMoves /\ setsBehind' = setsBehind \cup {"list"}
    <3>1. call' = call \/ (call.kind = "publish" /\ call'.kind = "publish" /\ call'.at = call.at /\ call # Sets!Free)
      BY <2>2, SetsCallMoves
    <3>2. /\ DOMAIN sets' = DOMAIN sets
          /\ \A v \in DOMAIN sets : /\ sets'[v].sealed = sets[v].sealed /\ sets'[v].from = sets[v].from
                                    /\ ~sets[v].sealed => sets'[v].rules = sets[v].rules
      BY <2>2, SetsFlipped
    <3>3. SetsRead'
      BY <2>1, <2>2, <3>1, <3>2, SetsReadKept DEF SetsArmed
    <3>4. SetsRail' /\ SetsForm' /\ SetsSent'
      BY <2>1, <3>1, <3>2, SetsFormKept DEF SetsArmed
    <3> QED BY <3>3, <3>4 DEF SetsArmed
  <2>3. CASE UNCHANGED <<sets, call, setsBehind>>
    <3>1. SetsRead'
      BY <2>1, <2>3, SetsReadKept DEF SetsArmed
    <3>2. SetsRail' /\ SetsForm' /\ SetsSent'
      BY <2>1, <2>3, SetsFormKept DEF SetsArmed
    <3> QED BY <3>1, <3>2 DEF SetsArmed
  <2> QED BY <1>2, <2>2, <2>3 DEF Sets!SwitchFails
<1> QED BY <1>1, <1>2

\* What is typed, asked and compared, and the switch that is sent.
LEMMA SetsArmedAsks ==
  ASSUME SetsInv, SetsInv', SetsArmed,
         \/ \E k \in Keys : Sets!toggleRule(k) \/ Sets!onKill(k)
         \/ Sets!Type \/ Sets!Back \/ Sets!doSwitch
         \/ Sets!openPublish \/ Sets!PublishRead \/ Sets!closePublish
  PROVE  SetsArmed'
<1>1. /\ UNCHANGED <<sets, today, rail, railAsked, setsSelected, setsList, setsReading, asked, setsDrawer,
                     call, setsBehind>>
      /\ switch' = switch \/ switch'.at = setsSelected
      /\ form' = form \/ (Sets!Rendered /\ \E t : form' = [form EXCEPT !.text = t])
  BY DEF Sets!toggleRule, Sets!onKill, Sets!Ask, Sets!Type, Sets!InDrawer, Sets!Back, Sets!doSwitch,
         Sets!openPublish, Sets!PublishRead, Sets!closePublish, Sets!screen, Sets!layers
<1>2. SetsRead'
  BY <1>1, SetsReadKept DEF SetsArmed
<1>3. SetsRail' /\ SetsForm' /\ SetsSent'
  BY <1>1, SetsFormKept DEF SetsArmed
<1> QED BY <1>2, <1>3 DEF SetsArmed

\* A call is sent with the form as it is, or for a draft the rail has not.
LEMMA SetsArmedCalls ==
  ASSUME SetsInv, SetsInv', SetsArmed,
         \/ Sets!newDraft \/ Sets!saveDraftRule \/ Sets!removeFromDraft
         \/ \E from \in 0..MaxDays : Sets!confirmPublish(from)
  PROVE  SetsArmed'
<1>1. /\ UNCHANGED <<sets, today, rail, railAsked, setsSelected, setsList, setsReading, asked, setsDrawer,
                     form, setsBehind, switch>>
      /\ call'.at = setsSelected
  BY DEF Sets!newDraft, Sets!saveDraftRule, Sets!removeFromDraft, Sets!confirmPublish, Sets!draftCall,
         Sets!screen, Sets!layers
<1>2. \/ call'.kind \notin {"open", "put", "remove"}
      \/ call'.kind = "open" /\ ~Sets!Rendered /\ \A v \in DOMAIN rail : rail[v] # "draft"
      \/ /\ call'.kind \in {"put", "remove"} /\ Sets!Rendered /\ setsDrawer.kind = "rule"
         /\ call'.key = setsDrawer.key /\ call'.base = form.base /\ call'.aged = form.aged
  <2>1. CASE Sets!newDraft
    BY <2>1 DEF Sets!newDraft, Sets!draftCall, Sets!OnPage, Sets!draftVersion
  <2>2. CASE Sets!saveDraftRule
    <3>1. Sets!Rendered /\ setsDrawer.kind \in {"rule", "new"}
      BY <2>2 DEF Sets!saveDraftRule, Sets!InDrawer, Sets!Rendered
    <3> QED BY <2>2, <3>1 DEF Sets!saveDraftRule, Sets!draftCall
  <2>3. CASE Sets!removeFromDraft
    BY <2>3 DEF Sets!removeFromDraft, Sets!draftCall, Sets!InDrawer
  <2>4. CASE \E from \in 0..MaxDays : Sets!confirmPublish(from)
    BY <2>4 DEF Sets!confirmPublish, Sets!draftCall
  <2> QED BY <2>1, <2>2, <2>3, <2>4
<1>3. SetsRead'
  BY <1>1, SetsReadKept DEF SetsArmed
<1>4. SetsRail' /\ SetsForm' /\ SetsSent'
  BY <1>1, <1>2, SetsFormKept DEF SetsArmed
<1> QED BY <1>3, <1>4 DEF SetsArmed

\* Reading, selecting, and what is open in the drawer.
LEMMA SetsArmedReads ==
  ASSUME SetsInv, SetsInv', SetsArmed,
         \/ Sets!RulesRead \/ Sets!VersionsRead \/ Sets!Retry
         \/ \E v \in 1..(2 + MaxCalls) : Sets!selectVersion(v)
         \/ \E k \in Keys : Sets!OpenRule(k)
         \/ Sets!AddRule \/ Sets!Close
  PROVE  SetsArmed'
<1> USE DEF Sets!screen
<1>1. UNCHANGED <<sets, today, switch, call>> /\ Sets!Renders
  BY DEF Sets!RulesRead, Sets!VersionsRead, Sets!Retry, Sets!selectVersion, Sets!OpenRule, Sets!AddRule,
         Sets!Close, Sets!Opens
<1>2. /\ SetsNamed' = SetsNamed /\ (Draftless' <=> Draftless) /\ Sets!InForce' = Sets!InForce
      /\ \A v \in DOMAIN sets : Sets!StateOf(v)' = Sets!StateOf(v)
      /\ \A k, b : Holds(k, b) => \A d \in DOMAIN sets' : ~sets'[d].sealed => sets'[d].rules[k] = b
  BY <1>1 DEF SetsNamed, Draftless, Sets!InForce, Sets!StateOf, Holds
<1>3. Sets!InForce \in DOMAIN sets
  BY SetsForce DEF SetsInv
<1>4. SetsSent'
  BY <1>1, <1>2 DEF SetsArmed, SetsSent, Holds
<1>5. SetsRead' /\ SetsRail'
  <2>1. CASE Sets!RulesRead
    <3>1. UNCHANGED <<rail, railAsked, setsSelected>> /\ asked' = 0
      BY <2>1 DEF Sets!RulesRead
    <3>2. SetsRail'
      BY <1>1, <1>2, <3>1 DEF SetsArmed, SetsRail
    <3>3. CASE setsReading' = "error" /\ UNCHANGED setsBehind
      <4>1. (~railAsked /\ "rail" \notin setsBehind)' => rail' = [v \in DOMAIN sets' |-> Sets!StateOf(v)']
        BY <1>1, <1>2, <3>1, <3>3 DEF SetsArmed, SetsRead
      <4>2. 0 \in SetsNamed
        BY DEF SetsNamed
      <4> QED BY <1>1, <1>2, <3>1, <3>2, <3>3, <4>1, <4>2 DEF SetsArmed, SetsRead
    <3>4. ASSUME setsReading' = "ready", setsBehind' = setsBehind \ {"list"},
                 NEW v \in DOMAIN sets, setsList' = [version |-> v, rules |-> sets[v].rules]
          PROVE  SetsRead'
      BY <1>1, <1>2, <3>1, <3>4 DEF SetsArmed, SetsRead, SetsNamed
    <3>5. PICK v : v = IF asked = 0 THEN Sets!InForce ELSE asked
      OBVIOUS
    <3>6. v \in DOMAIN sets
      BY <1>3, <3>5 DEF SetsArmed, SetsRead, SetsNamed
    <3> QED BY <2>1, <3>2, <3>3, <3>4, <3>5, <3>6 DEF Sets!RulesRead
  <2>2. CASE Sets!VersionsRead
    <3>1. UNCHANGED <<setsSelected, setsList, setsReading, asked>>
      BY <2>2 DEF Sets!VersionsRead
    <3>2. CASE setsBehind' = setsBehind \cup {"rail"} /\ UNCHANGED rail
      BY <1>1, <1>2, <3>1, <3>2 DEF SetsArmed, SetsRead, SetsRail
    <3>3. CASE rail' = [v \in DOMAIN sets |-> Sets!StateOf(v)] /\ setsBehind' = setsBehind \ {"rail"}
      <4>1. \A v \in DOMAIN sets : Sets!StateOf(v) = "draft" => ~sets[v].sealed
        BY DEF Sets!StateOf
      <4>2. DOMAIN rail' = DOMAIN sets /\ \A v \in DOMAIN rail' : rail'[v] = "draft" => ~sets[v].sealed
        BY <3>3, <4>1
      <4>3. SetsRail'
        BY <1>1, <1>2, <4>2 DEF SetsRail, SetsInv, SetsAbreast, Draftless
      <4>4. rail' = [v \in DOMAIN sets' |-> Sets!StateOf(v)']
        BY <1>1, <1>2, <3>3
      <4>5. SetsRead'
        BY <1>1, <1>2, <3>1, <3>3, <4>4 DEF SetsArmed, SetsRead
      <4> QED BY <4>3, <4>5
    <3> QED BY <2>2, <3>2, <3>3 DEF Sets!VersionsRead
  <2>3. CASE \/ Sets!Retry \/ \E v \in 1..(2 + MaxCalls) : Sets!selectVersion(v)
             \/ (\E k \in Keys : Sets!OpenRule(k)) \/ Sets!AddRule \/ Sets!Close
    <3>1. /\ UNCHANGED <<rail, railAsked, setsList, setsBehind>>
          /\ setsSelected' = setsSelected \/ setsSelected' \in {0} \cup DOMAIN rail
          /\ \/ UNCHANGED <<setsReading, asked>>
             \/ setsReading' = "loading" /\ asked' = setsSelected'
      BY <2>3 DEF Sets!Retry, Sets!selectVersion, Sets!OpenRule, Sets!AddRule, Sets!Close, Sets!Opens,
                  Sets!Asks, Sets!SelectTo
    <3>2. setsSelected' \in SetsNamed
      BY <3>1 DEF SetsArmed, SetsRead, SetsNamed, SetsInv, SetsTyped
    <3>3. (~railAsked /\ "rail" \notin setsBehind)' => rail' = [v \in DOMAIN sets' |-> Sets!StateOf(v)']
      BY <1>1, <1>2, <3>1 DEF SetsArmed, SetsRead
    <3>4. SetsRead'
      BY <1>1, <1>2, <3>1, <3>2, <3>3 DEF SetsArmed, SetsRead
    <3>5. SetsRail'
      BY <1>1, <1>2, <3>1 DEF SetsArmed, SetsRail
    <3> QED BY <3>4, <3>5
  <2> QED BY <2>1, <2>2, <2>3
<1>6. SetsForm'
  BY <1>1, <1>2, <1>5, SetsRenders DEF SetsArmed
<1> QED BY <1>4, <1>5, <1>6 DEF SetsArmed

\* A switch that is answered has its version read again.
LEMMA SetsArmedSwitch ==
  ASSUME SetsInv, SetsInv', SetsArmed, Sets!SwitchAnswered
  PROVE  SetsArmed'
<1>1. /\ UNCHANGED <<today, rail, railAsked, setsSelected, setsList, setsDrawer, setsBehind>>
      /\ switch # Sets!Free /\ switch' = Sets!Free /\ Sets!Renders
      /\ setsReading' = "loading" /\ asked' = switch.at
  BY DEF Sets!SwitchAnswered, Sets!Asks
<1>2. call' = call \/ (call.kind = "publish" /\ call'.kind = "publish" /\ call'.at = call.at /\ call # Sets!Free)
  BY SetsCallMoves DEF Sets!SwitchAnswered
<1>3. /\ DOMAIN sets' = DOMAIN sets
      /\ \A v \in DOMAIN sets : /\ sets'[v].sealed = sets[v].sealed /\ sets'[v].from = sets[v].from
                                /\ ~sets[v].sealed => sets'[v].rules = sets[v].rules
  <2>1. CASE sets' = sets
    BY <2>1
  <2>2. CASE Sets!Flips
    BY <2>2, SetsFlipped
  <2> QED BY <2>1, <2>2 DEF Sets!SwitchAnswered
<1>4. /\ SetsNamed' = SetsNamed /\ (Draftless' <=> Draftless)
      /\ \A k, b : Holds(k, b) => \A d \in DOMAIN sets' : ~sets'[d].sealed => sets'[d].rules[k] = b
  BY <1>3 DEF SetsNamed, Draftless, Holds
<1>5. \A v \in DOMAIN sets : Sets!StateOf(v)' = Sets!StateOf(v)
  BY <1>1, <1>3, SetsForceKept
<1>6. (~railAsked /\ "rail" \notin setsBehind)' => rail' = [v \in DOMAIN sets' |-> Sets!StateOf(v)']
  BY <1>1, <1>3, <1>5 DEF SetsArmed, SetsRead
<1>7. SetsRead'
  BY <1>1, <1>2, <1>4, <1>6 DEF SetsArmed, SetsRead
<1>8. SetsRail'
  BY <1>1, <1>2, <1>3, <1>4 DEF SetsArmed, SetsRail
<1>9. SetsForm'
  BY <1>1, <1>2, <1>3, <1>4, <1>7, <1>8, SetsRenders DEF SetsArmed
<1>10. SetsSent'
  BY <1>2, <1>4 DEF SetsArmed, SetsSent, Holds
<1> QED BY <1>7, <1>8, <1>9, <1>10 DEF SetsArmed

------------------------------------------------------------------------------
\* What a draft call leaves of the versions.
LEMMA SetsAppended ==
  ASSUME SetsInv, Sets!Writes, call.kind = "open"
  PROVE  /\ Len(sets) + 1 \in DOMAIN sets'
         /\ \A v \in DOMAIN sets : v \in DOMAIN sets' /\ sets'[v] = sets[v]
<1>0. PICK n \in Nat : \E R : sets \in [1..n -> SetsRow(R)]
  BY DEF SetsInv, SetsTyped, SetsShape
<1>1. PICK R : sets \in [1..n -> SetsRow(R)]
  BY <1>0
<1>2. PICK rules : rules = sets[Sets!InForce].rules
  OBVIOUS
<1>3. PICK new : new = [sealed |-> FALSE, from |-> -1, rules |-> rules]
  OBVIOUS
<1>4. PICK S : S = SetsRow(R) \cup {new}
  OBVIOUS
<1>5. sets' = Append(sets, new)
  BY <1>2, <1>3 DEF Sets!Writes
<1>6. sets \in [1..n -> S] /\ new \in S
  BY <1>1, <1>4
<1>7. sets \in Seq(S) /\ Len(sets) = n
  BY <1>6
<1>8. Len(sets') = n + 1 /\ sets' \in Seq(S) /\ \A v \in 1..n : sets'[v] = sets[v]
  BY <1>5, <1>6, <1>7
<1> QED BY <1>1, <1>7, <1>8

LEMMA SetsWritten ==
  ASSUME SetsInv, SetsRail, SetsForm, Sets!Writes, call # Sets!Free
  PROVE  /\ DOMAIN sets \subseteq DOMAIN sets'
         /\ call.kind \in {"open", "publish"} => \A v \in DOMAIN sets : sets'[v].rules = sets[v].rules
         /\ \A v \in DOMAIN rail, d \in DOMAIN sets' : (rail[v] = "draft" /\ ~sets'[d].sealed) => v = d
         /\ call.kind = "open" => (Sets!Rendered => form.aged)
         /\ call.kind = "publish" => \A d \in DOMAIN sets' : sets'[d].sealed
<1>1. call.kind \in {"open", "add", "put", "remove", "publish"}
  BY DEF SetsInv, SetsTyped
<1>2. CASE call.kind = "open"
  <2>1. Draftless
    BY <1>2 DEF Sets!Writes, Sets!CanWrite, Sets!Drafts, Draftless
  <2>2. \A v \in DOMAIN rail : rail[v] # "draft"
    BY <1>2, <2>1 DEF SetsRail
  <2>3. Sets!Rendered => form.aged
    BY <1>2, <2>1 DEF SetsForm
  <2> QED BY <1>2, <2>2, <2>3, SetsAppended
<1>3. CASE call.kind \in {"add", "put", "remove"}
  BY <1>3, SetsRuleWritten DEF SetsRail
<1>4. CASE call.kind = "publish"
  BY <1>4, SetsPublished
<1> QED BY <1>1, <1>2, <1>3, <1>4

\* A call that is taken, and known to be, has the rail read again.
LEMMA SetsArmedTaken ==
  ASSUME SetsInv, SetsInv', SetsArmed, Sets!DraftTaken
  PROVE  SetsArmed'
<1>1. /\ call # Sets!Free /\ call' = Sets!Free /\ Sets!Writes /\ railAsked'
      /\ UNCHANGED <<today, rail, setsList, switch, setsBehind>> /\ Sets!Renders
  BY DEF Sets!DraftTaken
<1>2. call'.kind = "free"
  BY <1>1 DEF Sets!Free
<1>3. /\ DOMAIN sets \subseteq DOMAIN sets'
      /\ call.kind \in {"open", "publish"} => \A v \in DOMAIN sets : sets'[v].rules = sets[v].rules
      /\ \A v \in DOMAIN rail, d \in DOMAIN sets' : (rail[v] = "draft" /\ ~sets'[d].sealed) => v = d
      /\ call.kind = "open" => (Sets!Rendered => form.aged)
      /\ call.kind = "publish" => \A d \in DOMAIN sets' : sets'[d].sealed
  BY <1>1, SetsWritten DEF SetsArmed
<1>4. call.kind \in {"open", "add", "put", "remove", "publish"}
  BY <1>1 DEF SetsInv, SetsTyped
<1>5. SetsNamed \subseteq SetsNamed' /\ 0 \in SetsNamed'
  BY <1>3 DEF SetsNamed
<1>6. SetsRail'
  BY <1>1, <1>2, <1>3 DEF SetsRail
<1>7. SetsSent'
  BY <1>2 DEF SetsSent
<1>8. /\ setsSelected' \in SetsNamed' /\ asked' \in SetsNamed'
      /\ \/ setsReading' = "loading"
         \/ setsReading' = setsReading /\ call.kind \in {"open", "publish"}
  <2>1. setsSelected \in SetsNamed /\ asked \in SetsNamed /\ call.at \in SetsNamed
    BY <1>1 DEF SetsArmed, SetsRead
  <2>2. CASE call.kind = "open"
    <3>1. Sets!SelectTo(Len(sets) + 1)
      BY <2>2 DEF Sets!DraftTaken
    <3>2. Len(sets) + 1 \in SetsNamed'
      BY <1>1, <2>2, SetsAppended DEF SetsNamed
    <3> QED BY <1>5, <2>1, <2>2, <3>1, <3>2 DEF Sets!SelectTo, Sets!Asks
  <2>3. CASE call.kind \in {"add", "put", "remove"}
    BY <1>5, <2>1, <2>3 DEF Sets!DraftTaken, Sets!Asks
  <2>4. CASE call.kind = "publish"
    BY <1>5, <2>1, <2>4 DEF Sets!DraftTaken, Sets!SelectTo, Sets!Asks
  <2> QED BY <1>4, <2>2, <2>3, <2>4
<1>9. SetsRead'
  <2>1. setsReading' = "ready" => setsList'.version \in DOMAIN sets'
    BY <1>1, <1>3, <1>8 DEF SetsArmed, SetsRead
  <2>2. (setsReading' = "ready" /\ "list" \notin setsBehind') => setsList'.rules = sets'[setsList'.version].rules
    BY <1>1, <1>3, <1>8 DEF SetsArmed, SetsRead
  <2>3. setsReading' \in {"loading", "ready", "error"} /\ (switch' = Sets!Free \/ switch'.at \in SetsNamed')
    BY <1>1, <1>5, <1>8 DEF SetsArmed, SetsRead
  <2> QED BY <1>1, <1>8, <2>1, <2>2, <2>3 DEF SetsRead, Sets!Free
<1>10. CASE call.kind \in {"open", "publish"}
  <2>1. SetsForm'
    BY <1>1, <1>2, <1>3, <1>6, <1>9, <1>10, SetsRenders DEF SetsArmed
  <2> QED BY <1>6, <1>7, <1>9, <2>1 DEF SetsArmed
<1>11. CASE call.kind \in {"add", "put", "remove"}
  <2>1. setsDrawer' = Sets!Closed
    BY <1>11 DEF Sets!DraftTaken
  <2>2. ~Sets!Rendered'
    BY <2>1 DEF Sets!Rendered, Sets!Closed
  <2>3. SetsForm'
    BY <1>1, <2>2 DEF Sets!Renders, SetsForm
  <2> QED BY <1>6, <1>7, <1>9, <2>3 DEF SetsArmed
<1> QED BY <1>4, <1>10, <1>11

\* One that is refused has all of it read again; when the answer is lost the
\* form that is open has aged.
LEMMA SetsArmedFails ==
  ASSUME SetsInv, SetsInv', SetsArmed, Sets!DraftRefused \/ Sets!DraftFails
  PROVE  SetsArmed'
<1>1. call # Sets!Free /\ call' = Sets!Free /\ call'.kind = "free" /\ UNCHANGED <<today, switch, rail>>
  BY DEF Sets!DraftRefused, Sets!DraftFails, Sets!screen, Sets!Free
<1>2. SetsSent'
  BY <1>1 DEF SetsSent
<1>3. CASE Sets!DraftRefused
  <2>1. /\ UNCHANGED <<sets, setsSelected, setsList, setsBehind, setsDrawer>> /\ railAsked'
        /\ setsReading' = "loading" /\ asked' = call.at /\ Sets!Renders
    BY <1>3 DEF Sets!DraftRefused, Sets!reread, Sets!Asks
  <2>2. SetsNamed' = SetsNamed
    BY <2>1 DEF SetsNamed
  <2>3. SetsRead'
    BY <1>1, <2>1, <2>2 DEF SetsArmed, SetsRead, Sets!Free
  <2>4. SetsRail'
    BY <1>1, <2>1 DEF SetsArmed, SetsRail
  <2>5. SetsForm'
    BY <1>1, <2>1, <2>3, <2>4, SetsRenders DEF SetsArmed
  <2> QED BY <1>2, <2>3, <2>4, <2>5 DEF SetsArmed
<1>4. CASE Sets!DraftFails /\ UNCHANGED <<sets, setsBehind, form>>
  <2>1. UNCHANGED <<rail, railAsked, setsSelected, setsList, setsReading, asked, setsDrawer>>
    BY <1>4 DEF Sets!DraftFails, Sets!screen
  <2>2. SetsRead'
    BY <1>1, <1>4, <2>1, SetsReadKept DEF SetsArmed
  <2>3. SetsRail' /\ SetsForm' /\ SetsSent'
    BY <1>1, <1>4, <2>1, SetsFormKept DEF SetsArmed
  <2> QED BY <2>2, <2>3 DEF SetsArmed
<1>5. CASE /\ Sets!DraftFails /\ Sets!Writes /\ setsBehind' = {"rail", "list"}
           /\ form' = IF form = Sets!Unmounted THEN form ELSE [form EXCEPT !.aged = TRUE]
  <2>1. UNCHANGED <<rail, railAsked, setsSelected, setsList, setsReading, asked, setsDrawer>>
    BY <1>5 DEF Sets!DraftFails, Sets!screen
  <2>2. /\ DOMAIN sets \subseteq DOMAIN sets'
        /\ \A v \in DOMAIN rail, d \in DOMAIN sets' : (rail[v] = "draft" /\ ~sets'[d].sealed) => v = d
    BY <1>1, <1>5, SetsWritten DEF SetsArmed
  <2>3. SetsNamed \subseteq SetsNamed'
    BY <2>2 DEF SetsNamed
  <2>4. SetsRead'
    BY <1>1, <1>5, <2>1, <2>2, <2>3 DEF SetsArmed, SetsRead, Sets!Free
  <2>5. SetsRail'
    BY <1>1, <2>2 DEF SetsRail
  <2>6. Sets!Rendered' = Sets!Rendered
    BY <2>1, SetsDrawn
  <2>7. CASE ~Sets!Rendered
    <3>1. form' = Sets!Unmounted
      BY <1>5, <2>7 DEF SetsArmed, SetsForm
    <3> QED BY <1>2, <2>4, <2>5, <2>6, <2>7, <3>1 DEF SetsArmed, SetsForm, Sets!Unmounted
  <2>8. CASE Sets!Rendered
    <3>1. PICK S : form \in [text : S, on : S, base : S, aged : BOOLEAN]
      BY <2>8 DEF SetsArmed, SetsForm, Formed
    <3>2. form = [text |-> form.text, on |-> form.on, base |-> form.base, aged |-> form.aged]
      BY <3>1
    <3>3. form # Sets!Unmounted
      <4>1. DOMAIN form = {"text", "on", "base", "aged"} /\ DOMAIN Sets!Unmounted = {"text"}
        BY <3>1 DEF Sets!Unmounted
      <4> QED BY <4>1
    <3>4. form' = [text |-> form.text, on |-> form.on, base |-> form.base, aged |-> TRUE]
      BY <1>5, <3>1, <3>3
    <3>5. form' \in [text : S, on : S, base : S, aged : BOOLEAN] /\ form'.aged
      BY <3>1, <3>4
    <3>6. Formed(form')
      BY <3>5 DEF Formed
    <3> QED BY <1>2, <2>4, <2>5, <2>6, <2>8, <3>5, <3>6 DEF SetsArmed, SetsForm, Formed
  <2> QED BY <2>7, <2>8
<1> QED BY <1>3, <1>4, <1>5 DEF Sets!DraftFails

LEMMA SetsArms == SetsInv /\ SetsArmed /\ Sets!Next => SetsArmed'
<1> SUFFICES ASSUME SetsInv, SetsArmed, Sets!Next PROVE SetsArmed'
  OBVIOUS
<1>1. SetsInv'
  BY SetsNext
<1> QED BY <1>1, SetsArmedWaits, SetsArmedAsks, SetsArmedCalls, SetsArmedReads, SetsArmedSwitch,
           SetsArmedTaken, SetsArmedFails DEF Sets!Next

LEMMA SetsSends ==
  ASSUME SetsInv, SetsArmed, Sets!Next
  PROVE  Sets!SendsWhatWasArmed
<1>1. ASSUME switch = Sets!Free, switch' # Sets!Free, ~railAsked, setsBehind = {}
      PROVE  setsList.version = Sets!InForce
  <2>1. Sets!doSwitch
    BY <1>1 DEF Sets!Next, Sets!Midnight, Sets!RulesRead, Sets!VersionsRead, Sets!Retry,
          Sets!selectVersion, Sets!OpenRule, Sets!toggleRule, Sets!onKill, Sets!Opens, Sets!Ask,
          Sets!AddRule, Sets!Close, Sets!Type, Sets!Back, Sets!SwitchAnswered,
          Sets!SwitchFails, Sets!newDraft, Sets!saveDraftRule, Sets!removeFromDraft,
          Sets!draftCall, Sets!openPublish, Sets!PublishRead, Sets!closePublish,
          Sets!confirmPublish, Sets!DraftTaken, Sets!DraftRefused, Sets!DraftFails
  <2>2. Sets!ListState = "in_force" /\ setsReading # "loading"
    BY <2>1 DEF Sets!doSwitch, Sets!rulesBusy, Sets!switchable
  <2>3. rail = [v \in DOMAIN sets |-> Sets!StateOf(v)]
    BY <1>1 DEF SetsArmed, SetsRead
  <2>4. PICK n \in Nat : \E R : sets \in [1..n -> SetsRow(R)]
    BY DEF SetsInv, SetsTyped, SetsShape
  <2>5. DOMAIN sets = 1..n
    BY <2>4
  <2>6. setsReading = "ready"
    <3>1. ASSUME setsReading = "error" PROVE FALSE
      <4>1. Sets!Shown.version = 0
        BY <3>1 DEF Sets!Shown, Sets!NoList
      <4>2. 0 \notin DOMAIN rail
        BY <2>3, <2>5
      <4> QED BY <2>2, <4>1, <4>2 DEF Sets!ListState
    <3> QED BY <2>2, <3>1 DEF SetsArmed, SetsRead
  <2>7. Sets!Shown = setsList /\ setsList.version \in DOMAIN sets
    BY <2>6 DEF Sets!Shown, SetsArmed, SetsRead
  <2>8. Sets!StateOf(setsList.version) = "in_force"
    BY <2>2, <2>3, <2>7 DEF Sets!ListState
  <2> QED BY <2>8 DEF Sets!StateOf
<1>2. ASSUME call.kind \in {"put", "remove"}, ~call.aged, sets' # sets, call' = Sets!Free
      PROVE  sets[Sets!TheDraft].rules[call.key] = call.base
  <2>1. Sets!Free.kind = "free"
    BY DEF Sets!Free
  <2>2. Sets!Writes
    <3>1. ~Sets!CallMoves
      BY <1>2, <2>1 DEF Sets!CallMoves
    <3> QED BY <1>2, <2>1, <3>1 DEF Sets!Next, Sets!Midnight, Sets!RulesRead, Sets!VersionsRead, Sets!Retry,
          Sets!selectVersion, Sets!OpenRule, Sets!toggleRule, Sets!onKill, Sets!Opens, Sets!Ask,
          Sets!AddRule, Sets!Close, Sets!Type, Sets!Back, Sets!doSwitch, Sets!SwitchAnswered,
          Sets!SwitchFails, Sets!newDraft, Sets!saveDraftRule, Sets!removeFromDraft,
          Sets!draftCall, Sets!openPublish, Sets!PublishRead, Sets!closePublish,
          Sets!confirmPublish, Sets!DraftTaken, Sets!DraftRefused, Sets!DraftFails
  <2>3. Sets!TheDraft \in DOMAIN sets /\ ~sets[Sets!TheDraft].sealed
    BY <1>2, <2>2 DEF Sets!Writes, Sets!CanWrite, Sets!TheDraft, Sets!Drafts
  <2> QED BY <1>2, <2>3 DEF SetsArmed, SetsSent, Holds
<1> QED BY <1>1, <1>2 DEF Sets!SendsWhatWasArmed

\* The rail and the table are as they were last read, and a form filled from
\* the draft goes over the rule the draft holds.
LEMMA SetsSettles ==
  ASSUME SetsInv, SetsArmed
  PROVE  Sets!SettledIsServed
<1>1. ASSUME Sets!onDraft, Sets!Rendered, setsDrawer.kind = "rule", ~form.aged, ~railAsked, setsBehind = {}
      PROVE  form.base = sets[Sets!TheDraft].rules[setsDrawer.key]
  <2>1. rail = [v \in DOMAIN sets |-> Sets!StateOf(v)]
    BY <1>1 DEF SetsArmed, SetsRead
  <2>2. Sets!Shown.version \in DOMAIN sets /\ Sets!StateOf(Sets!Shown.version) = "draft"
    BY <1>1, <2>1 DEF Sets!onDraft, Sets!ListState
  <2>3. Sets!Shown.version \in Sets!Drafts
    BY <2>2 DEF Sets!StateOf, Sets!Drafts
  <2>4. Sets!TheDraft \in DOMAIN sets /\ ~sets[Sets!TheDraft].sealed
    BY <2>3 DEF Sets!TheDraft, Sets!Drafts
  <2> QED BY <1>1, <2>4 DEF SetsArmed, SetsForm, Holds
<1> QED BY <1>1 DEF Sets!SettledIsServed, Sets!InDrawer, SetsArmed, SetsRead

\* What is stored and shown of the rule sets, at any time: a version for every
\* call that opened one at most, a call that may open one already counted.
SetsHeld == [sealed : BOOLEAN, from : -1..MaxDays, rules : Sets!Rules]
SetsOpening == IF call.kind = "open" THEN 1 ELSE 0
SetsStored ==
  /\ \E n \in Nat : sets \in [1..n -> SetsHeld] /\ n + SetsOpening <= 2 + calls
  /\ today \in 0..MaxDays /\ calls \in 0..MaxCalls /\ typed \in 0..MaxTyped

SetsTable == [version : SetsNamed, rules : Sets!Rules]
SetsSeen ==
  /\ rail \in Seq({"draft", "in_force", "scheduled", "superseded"}) /\ railAsked \in BOOLEAN
  /\ setsList \in SetsTable /\ setsBehind \subseteq {"rail", "list"}

SetsDrawers == {Sets!Closed, [kind |-> "new"]} \cup [kind : {"rule"}, key : Keys]
SetsForms == [text : 0..MaxTyped, on : BOOLEAN, base : Sets!Rule, aged : BOOLEAN]
SetsFilled ==
  /\ setsDrawer \in SetsDrawers
  /\ form = Sets!Unmounted \/ form \in SetsForms
  /\ question = Sets!NoQuestion \/ question \in [key : Keys, on : BOOLEAN]

SetsDiffs == [rows : {"loading", "error", "ready"}, of : DOMAIN sets, draft : Sets!Rules,
              force : Sets!Rules, moved : BOOLEAN]
SetsPublishing == [kind : {"publish"}, at : SetsNamed, from : 0..MaxDays, of : DOMAIN sets,
                   draft : Sets!Rules, force : Sets!Rules, moved : BOOLEAN]
SetsWriting == [kind : {"add", "put", "remove"}, at : SetsNamed, key : Keys, rule : Sets!Rule,
                base : Sets!Rule, aged : BOOLEAN]
SetsOut ==
  /\ publish = Sets!NoPublish \/ publish \in SetsDiffs
  /\ switch = Sets!Free \/ switch \in [kind : {"switch"}, key : Keys, on : BOOLEAN, at : SetsNamed]
  /\ \/ call = Sets!Free \/ call \in [kind : {"open"}, at : SetsNamed]
     \/ call \in SetsWriting \/ call \in SetsPublishing

LEMMA SetsRuleIs ==
  /\ Sets!Gone \in Sets!Rule /\ Sets!Fresh \in Sets!Rule /\ 0 \in 0..MaxTyped
  /\ \A t \in 0..MaxTyped, b \in BOOLEAN : [text |-> t, on |-> b] \in Sets!Rule
  /\ \A r \in Sets!Rule : r # Sets!Gone => r \in [text : 0..MaxTyped, on : BOOLEAN]
  /\ Sets!NoList.rules \in Sets!Rules /\ Sets!NoList \in SetsTable
  /\ MaxTyped \in Nat /\ MaxCalls \in Nat /\ MaxDays \in Nat
<1>1. MaxTyped \in Nat /\ MaxCalls \in Nat /\ MaxDays \in Nat /\ 0 \in 0..MaxTyped
  BY PageAssumption DEF Sets!RuleSetAssumption
<1>2. Sets!Gone \in Sets!Rule /\ Sets!Fresh \in Sets!Rule
  BY <1>1 DEF Sets!Rule, Sets!Fresh
<1>3. \A t \in 0..MaxTyped, b \in BOOLEAN : [text |-> t, on |-> b] \in Sets!Rule
  BY DEF Sets!Rule
<1>4. \A r \in Sets!Rule : r # Sets!Gone => r \in [text : 0..MaxTyped, on : BOOLEAN]
  BY DEF Sets!Rule
<1>5. Sets!NoList.rules \in Sets!Rules /\ Sets!NoList \in SetsTable
  BY <1>2 DEF Sets!NoList, Sets!Rules, SetsTable, SetsNamed
<1> QED BY <1>1, <1>2, <1>3, <1>4, <1>5

LEMMA SetsBegun == Sets!Init => SetsStored /\ SetsSeen /\ SetsFilled /\ SetsOut
<1> SUFFICES ASSUME Sets!Init PROVE SetsStored /\ SetsSeen /\ SetsFilled /\ SetsOut
  OBVIOUS
<1>1. SetsStored
  <2>1. PICK first : /\ first = [k \in Keys |-> IF k \in FirstRules THEN Sets!Fresh ELSE Sets!Gone]
                     /\ sets = <<[sealed |-> TRUE, from |-> 0, rules |-> first],
                                 [sealed |-> FALSE, from |-> -1, rules |-> first]>>
    BY DEF Sets!Init
  <2>2. first \in Sets!Rules
    BY <2>1, SetsRuleIs DEF Sets!Rules
  <2>3. sets[1] \in SetsHeld /\ sets[2] \in SetsHeld
    BY <2>1, <2>2, SetsRuleIs DEF SetsHeld
  <2>4. sets \in Seq({sets[1], sets[2]}) /\ Len(sets) = 2
    BY <2>1
  <2>5. sets \in [1..2 -> SetsHeld]
    BY <2>3, <2>4
  <2>6. today = 0 /\ calls = 0 /\ typed = 0 /\ SetsOpening = 0
    BY DEF Sets!Init, Sets!Free, SetsOpening
  <2>7. 2 + SetsOpening <= 2 + calls
    BY <2>6
  <2> QED BY <2>5, <2>6, <2>7, SetsRuleIs DEF SetsStored
<1>2. SetsSeen
  BY SetsRuleIs DEF Sets!Init, SetsSeen
<1>3. SetsFilled
  BY DEF Sets!Init, SetsFilled, SetsDrawers
<1>4. SetsOut
  BY DEF Sets!Init, SetsOut
<1> QED BY <1>1, <1>2, <1>3, <1>4

LEMMA SetsRoom ==
  ASSUME NEW n \in Nat, NEW a \in Nat, NEW b \in Nat, NEW c \in Nat, NEW d \in Nat,
         n + a <= 2 + c, b <= 1, d = c + 1 \/ (d = c /\ b <= a)
  PROVE  n + b <= 2 + d
OBVIOUS

\* What is stored, while no version is written.
LEMMA SetsStoredWaits ==
  ASSUME SetsStored, UNCHANGED sets, today' \in 0..MaxDays, typed' \in 0..MaxTyped,
         calls' \in 0..MaxCalls,
         (calls' = calls /\ (call'.kind = "open" => call.kind = "open")) \/ calls' = calls + 1
  PROVE  SetsStored'
<1>1. PICK n \in Nat : sets \in [1..n -> SetsHeld] /\ n + SetsOpening <= 2 + calls
  BY DEF SetsStored
<1>2. SetsHeld' = SetsHeld
  BY DEF SetsHeld, Sets!Rules, Sets!Rule, Sets!Gone
<1>3. calls \in Nat /\ calls' \in Nat /\ calls <= calls' /\ n \in Nat
  <2>1. calls \in Nat /\ calls' \in Nat
    BY SetsRuleIs DEF SetsStored
  <2> QED BY <1>1, <2>1
<1>4. n + SetsOpening <= 2 + calls
  BY <1>1
<1>5. PICK a, b : a = SetsOpening /\ b = SetsOpening'
  OBVIOUS
<1>6. a \in Nat /\ b \in Nat /\ b <= 1 /\ (calls' = calls => b <= a)
  <2>1. SetsOpening \in {0, 1} /\ SetsOpening' \in {0, 1}
    BY DEF SetsOpening
  <2>2. CASE call'.kind # "open"
    <3>1. SetsOpening' = 0
      BY <2>2 DEF SetsOpening
    <3> QED BY <1>5, <2>1, <3>1
  <2>3. CASE call'.kind = "open" /\ call.kind = "open"
    <3>1. SetsOpening = SetsOpening'
      BY <2>3 DEF SetsOpening
    <3> QED BY <1>5, <2>1, <3>1
  <2>4. CASE calls' = calls + 1
    BY <1>3, <1>5, <2>1, <2>4
  <2> QED BY <2>2, <2>3, <2>4
<1>7. calls' = calls \/ calls' = calls + 1
  OBVIOUS
<1>8. n + b <= 2 + calls'
  <2>1. n + a <= 2 + calls
    BY <1>4, <1>5
  <2>2. calls' = calls + 1 \/ (calls' = calls /\ b <= a)
    BY <1>6, <1>7
  <2> QED BY <1>3, <1>6, <2>1, <2>2, SetsRoom
<1>9. n + SetsOpening' <= 2 + calls'
  BY <1>5, <1>8
<1> QED BY <1>1, <1>2, <1>9 DEF SetsStored

LEMMA SetsStoredSeen ==
  ASSUME SetsStored,
         \/ Sets!Midnight \/ Sets!RulesRead \/ Sets!VersionsRead \/ Sets!Retry
         \/ \E v \in 1..(2 + MaxCalls) : Sets!selectVersion(v)
         \/ \E k \in Keys : Sets!OpenRule(k) \/ Sets!toggleRule(k) \/ Sets!onKill(k)
         \/ Sets!AddRule \/ Sets!Close \/ Sets!Type \/ Sets!Back \/ Sets!doSwitch
         \/ Sets!newDraft \/ Sets!saveDraftRule \/ Sets!removeFromDraft
         \/ Sets!openPublish \/ Sets!PublishRead \/ Sets!closePublish
         \/ \E from \in 0..MaxDays : Sets!confirmPublish(from)
         \/ Sets!DraftRefused
  PROVE  SetsStored'
<1>1. today \in 0..MaxDays /\ calls \in 0..MaxCalls /\ typed \in 0..MaxTyped
      /\ MaxTyped \in Nat /\ MaxCalls \in Nat /\ MaxDays \in Nat
  BY SetsRuleIs DEF SetsStored
<1>2. CASE Sets!Midnight
  <2>1. UNCHANGED <<sets, typed, calls>> /\ today' \in 0..MaxDays
    BY <1>1, <1>2 DEF Sets!Midnight, Sets!counts
  <2>2. call'.kind = "open" => call.kind = "open"
    <3>1. call.kind = "publish" => call'.kind = call.kind
      BY <1>2 DEF Sets!Midnight
    <3> QED BY <1>2, <3>1 DEF Sets!Midnight
  <2> QED BY <1>1, <2>1, <2>2, SetsStoredWaits
<1>3. CASE Sets!Type
  <2>1. UNCHANGED <<sets, today, calls, call>> /\ typed' \in 0..MaxTyped
    BY <1>1, <1>3 DEF Sets!Type
  <2> QED BY <1>1, <2>1, SetsStoredWaits
<1>4. CASE Sets!doSwitch \/ Sets!newDraft \/ Sets!saveDraftRule \/ Sets!removeFromDraft
           \/ \E from \in 0..MaxDays : Sets!confirmPublish(from)
  <2>1. UNCHANGED <<sets, today, typed>> /\ calls' = calls + 1 /\ calls < MaxCalls
    BY <1>4 DEF Sets!doSwitch, Sets!newDraft, Sets!saveDraftRule, Sets!removeFromDraft,
       Sets!confirmPublish, Sets!draftCall
  <2> QED BY <1>1, <2>1, SetsStoredWaits
<1>5. CASE Sets!DraftRefused
  <2>1. UNCHANGED <<sets, today, typed, calls>> /\ call' = Sets!Free
    BY <1>5 DEF Sets!DraftRefused, Sets!counts
  <2> QED BY <1>1, <2>1, SetsStoredWaits DEF Sets!Free
<1>6. CASE \/ Sets!RulesRead \/ Sets!VersionsRead \/ Sets!Retry
           \/ \E v \in 1..(2 + MaxCalls) : Sets!selectVersion(v)
           \/ \E k \in Keys : Sets!OpenRule(k) \/ Sets!toggleRule(k) \/ Sets!onKill(k)
           \/ Sets!AddRule \/ Sets!Close \/ Sets!Back
           \/ Sets!openPublish \/ Sets!PublishRead \/ Sets!closePublish
  <2>1. UNCHANGED <<sets, today, typed, calls, call>>
    BY <1>6 DEF Sets!RulesRead, Sets!VersionsRead, Sets!Retry, Sets!selectVersion, Sets!OpenRule,
       Sets!toggleRule, Sets!onKill, Sets!Opens, Sets!Ask, Sets!AddRule, Sets!Close, Sets!Back,
       Sets!openPublish, Sets!PublishRead, Sets!closePublish, Sets!counts
  <2> QED BY <1>1, <2>1, SetsStoredWaits
<1> QED BY <1>2, <1>3, <1>4, <1>5, <1>6

\* One rule of a version written.
LEMMA SetsRowWritten ==
  ASSUME NEW n \in Nat, sets \in [1..n -> SetsHeld], NEW v \in 1..n, NEW k \in Keys, NEW r \in Sets!Rule,
         NEW row, row = sets[v],
         sets' = [sets EXCEPT ![v] = [row EXCEPT !.rules = [row.rules EXCEPT ![k] = r]]]
  PROVE  sets' \in [1..n -> SetsHeld]
<1>1. row \in [sealed : BOOLEAN, from : -1..MaxDays, rules : Sets!Rules] /\ row.rules \in [Keys -> Sets!Rule]
  BY DEF SetsHeld, Sets!Rules
<1>2. PICK s : s = [row.rules EXCEPT ![k] = r]
  OBVIOUS
<1>3. s \in Sets!Rules
  BY <1>1, <1>2 DEF Sets!Rules
<1>4. [row EXCEPT !.rules = s] \in SetsHeld
  BY <1>1, <1>3 DEF SetsHeld
<1> QED BY <1>2, <1>4

\* A switch that is taken, and a call that writes.
LEMMA SetsStoredFlips ==
  ASSUME SetsInv, SetsStored, SetsOut, switch # Sets!Free, Sets!Flips, UNCHANGED <<today, Sets!counts>>,
         call' = call \/ Sets!CallMoves
  PROVE  SetsStored'
<1>1. PICK n \in Nat : sets \in [1..n -> SetsHeld] /\ n + SetsOpening <= 2 + calls
  BY DEF SetsStored
<1>2. Sets!InForce \in 1..n
  BY <1>1, SetsForce DEF SetsInv
<1>3. switch.key \in Keys /\ switch.on \in BOOLEAN
  BY DEF SetsOut
<1>4. PICK v, row, old, r : v = Sets!InForce /\ row = sets[v] /\ old = row.rules[switch.key]
                            /\ r = [old EXCEPT !.on = switch.on]
  OBVIOUS
<1>5. old \in Sets!Rule /\ old # Sets!Gone
  <2>1. row.rules \in [Keys -> Sets!Rule]
    BY <1>1, <1>2, <1>4 DEF SetsHeld, Sets!Rules
  <2> QED BY <1>3, <1>4, <2>1 DEF Sets!Flips, Sets!CanFlip
<1>6. old \in [text : 0..MaxTyped, on : BOOLEAN]
  BY <1>5, SetsRuleIs
<1>7. r \in Sets!Rule
  <2>1. r = [text |-> old.text, on |-> switch.on] /\ old.text \in 0..MaxTyped
    BY <1>4, <1>6
  <2> QED BY <1>3, <2>1, SetsRuleIs
<1>8. sets' = [sets EXCEPT ![v] = [row EXCEPT !.rules = [row.rules EXCEPT ![switch.key] = r]]]
  BY <1>4 DEF Sets!Flips
<1>9. sets' \in [1..n -> SetsHeld]
  BY <1>1, <1>2, <1>3, <1>4, <1>7, <1>8, SetsRowWritten
<1>10. SetsOpening' = SetsOpening
  <2>1. call'.kind = call.kind
    <3>1. call.kind = "publish" => [call EXCEPT !.moved = TRUE].kind = call.kind
      OBVIOUS
    <3> QED BY <3>1 DEF Sets!CallMoves
  <2> QED BY <2>1 DEF SetsOpening
<1>11. SetsHeld' = SetsHeld /\ UNCHANGED <<today, typed, calls>>
  BY DEF SetsHeld, Sets!Rules, Sets!Rule, Sets!Gone, Sets!counts
<1>12. n + SetsOpening' <= 2 + calls'
  BY <1>1, <1>10, <1>11
<1>13. SetsHeld' = SetsHeld /\ today' \in 0..MaxDays /\ calls' \in 0..MaxCalls /\ typed' \in 0..MaxTyped
  BY <1>11 DEF SetsStored
<1> QED BY <1>9, <1>12, <1>13 DEF SetsStored

LEMMA SetsStoredWrites ==
  ASSUME SetsInv, SetsStored, SetsOut, call # Sets!Free, call' = Sets!Free, Sets!Writes,
         UNCHANGED <<today, Sets!counts>>
  PROVE  SetsStored'
<1>1. PICK n \in Nat : sets \in [1..n -> SetsHeld] /\ n + SetsOpening <= 2 + calls
  BY DEF SetsStored
<1>2. /\ SetsHeld' = SetsHeld /\ UNCHANGED <<today, typed, calls>> /\ calls \in Nat
      /\ SetsOpening' = 0 /\ SetsOpening \in {0, 1}
  BY SetsRuleIs DEF SetsHeld, Sets!Rules, Sets!Rule, Sets!Gone, Sets!counts, SetsOpening, Sets!Free, SetsStored
<1>3. today' \in 0..MaxDays /\ calls' \in 0..MaxCalls /\ typed' \in 0..MaxTyped
  BY <1>2 DEF SetsStored
<1>4. CASE call.kind = "open"
  <2>1. Sets!InForce \in 1..n
    BY <1>1, SetsForce DEF SetsInv
  <2>2. PICK new : new = [sealed |-> FALSE, from |-> -1, rules |-> sets[Sets!InForce].rules]
    OBVIOUS
  <2>3. sets[Sets!InForce].rules \in Sets!Rules
    BY <1>1, <2>1 DEF SetsHeld
  <2>4. new \in SetsHeld
    BY <2>2, <2>3, SetsRuleIs DEF SetsHeld
  <2>5. sets \in Seq(SetsHeld) /\ Len(sets) = n
    BY <1>1
  <2>6. sets' = Append(sets, new)
    BY <1>4, <2>2 DEF Sets!Writes
  <2>7. sets' \in [1..n + 1 -> SetsHeld]
    <3>1. sets' \in Seq(SetsHeld) /\ Len(sets') = n + 1
      BY <2>4, <2>5, <2>6, AppendProperties
    <3> QED BY <3>1
  <2>8. n + 1 + SetsOpening' <= 2 + calls' /\ n + 1 \in Nat
    <3>1. SetsOpening = 1
      BY <1>4 DEF SetsOpening
    <3> QED BY <1>1, <1>2, <3>1
  <2> QED BY <1>2, <1>3, <2>7, <2>8 DEF SetsStored
<1>5. CASE call.kind # "open"
  <2>1. Sets!TheDraft \in 1..n
    <3>1. Sets!Drafts # {}
      BY <1>5 DEF Sets!Writes, Sets!CanWrite, SetsOut, SetsWriting, SetsPublishing
    <3>2. Sets!TheDraft \in Sets!Drafts
      BY <3>1 DEF Sets!TheDraft
    <3> QED BY <1>1, <3>2 DEF Sets!Drafts
  <2>2. PICK v, row : v = Sets!TheDraft /\ row = sets[v]
    OBVIOUS
  <2>3. row \in SetsHeld
    BY <1>1, <2>1, <2>2
  <2>4. sets' \in [1..n -> SetsHeld]
    <3>1. CASE call.kind \in {"add", "put", "remove"}
      <4>1. call.key \in Keys /\ call.rule \in Sets!Rule
        BY <3>1 DEF SetsOut, SetsWriting, SetsPublishing, Sets!Free
      <4>2. sets' = [sets EXCEPT ![v] = [row EXCEPT !.rules = [row.rules EXCEPT ![call.key] = call.rule]]]
        BY <2>2, <3>1 DEF Sets!Writes
      <4> QED BY <1>1, <2>1, <2>2, <4>1, <4>2, SetsRowWritten
    <3>2. CASE call.kind = "publish"
      <4>1. call.from \in 0..MaxDays
        BY <3>2 DEF SetsOut, SetsWriting, SetsPublishing, Sets!Free
      <4>2. [row EXCEPT !.sealed = TRUE, !.from = call.from] \in SetsHeld
        <5>1. call.from \in -1..MaxDays
          BY <4>1, SetsRuleIs
        <5> QED BY <2>3, <5>1 DEF SetsHeld
      <4>3. sets' = [sets EXCEPT ![v] = [row EXCEPT !.sealed = TRUE, !.from = call.from]]
        BY <2>2, <3>2 DEF Sets!Writes
      <4> QED BY <1>1, <4>2, <4>3
    <3> QED BY <1>5, <3>1, <3>2 DEF SetsOut, SetsWriting, SetsPublishing
  <2>5. n + SetsOpening' <= 2 + calls'
    BY <1>1, <1>2
  <2> QED BY <1>2, <1>3, <2>4, <2>5 DEF SetsStored
<1> QED BY <1>4, <1>5

LEMMA SetsStores == SetsInv /\ SetsStored /\ SetsOut /\ Sets!Next => SetsStored'
<1> SUFFICES ASSUME SetsInv, SetsStored, SetsOut, Sets!Next PROVE SetsStored'
  OBVIOUS
<1>1. ASSUME UNCHANGED <<sets, today, Sets!counts>>, call' = call \/ call' = Sets!Free PROVE SetsStored'
  BY <1>1, SetsStoredWaits DEF SetsStored, Sets!counts, Sets!Free
<1>2. CASE Sets!SwitchAnswered
  <2>1. switch # Sets!Free /\ UNCHANGED <<today, Sets!counts>>
    BY <1>2 DEF Sets!SwitchAnswered
  <2>2. (Sets!Flips /\ Sets!CallMoves) \/ UNCHANGED <<sets, call>>
    BY <1>2 DEF Sets!SwitchAnswered
  <2> QED BY <1>1, <2>1, <2>2, SetsStoredFlips
<1>3. CASE Sets!SwitchFails
  <2>1. switch # Sets!Free /\ UNCHANGED <<today, Sets!counts>>
    BY <1>3 DEF Sets!SwitchFails
  <2>2. (Sets!Flips /\ Sets!CallMoves) \/ UNCHANGED <<sets, call>>
    BY <1>3 DEF Sets!SwitchFails
  <2> QED BY <1>1, <2>1, <2>2, SetsStoredFlips
<1>4. CASE Sets!DraftTaken
  <2>1. call # Sets!Free /\ call' = Sets!Free /\ Sets!Writes /\ UNCHANGED <<today, Sets!counts>>
    BY <1>4 DEF Sets!DraftTaken
  <2> QED BY <2>1, SetsStoredWrites
<1>5. CASE Sets!DraftFails
  <2>1. call # Sets!Free /\ call' = Sets!Free /\ UNCHANGED <<today, Sets!counts>>
        /\ (Sets!Writes \/ UNCHANGED sets)
    BY <1>5 DEF Sets!DraftFails
  <2> QED BY <1>1, <2>1, SetsStoredWrites
<1> QED BY <1>2, <1>3, <1>4, <1>5, SetsStoredSeen DEF Sets!Next

\* Versions are added, and none goes.
LEMMA SetsGrows ==
  ASSUME SetsInv, SetsStored, Sets!Next
  PROVE  DOMAIN sets \subseteq DOMAIN sets' /\ SetsNamed \subseteq SetsNamed'
<1>1. PICK n \in Nat : sets \in [1..n -> SetsHeld] /\ n + SetsOpening <= 2 + calls
  BY DEF SetsStored
<1>2. UNCHANGED sets \/ Sets!Flips \/ (call # Sets!Free /\ Sets!Writes)
  BY DEF Sets!Next, Sets!Midnight, Sets!RulesRead, Sets!VersionsRead, Sets!Retry, Sets!selectVersion,
     Sets!OpenRule, Sets!toggleRule, Sets!onKill, Sets!Opens, Sets!Ask, Sets!AddRule, Sets!Close, Sets!Type,
     Sets!Back, Sets!doSwitch, Sets!SwitchAnswered, Sets!SwitchFails, Sets!newDraft, Sets!saveDraftRule,
     Sets!removeFromDraft, Sets!draftCall, Sets!openPublish, Sets!PublishRead, Sets!closePublish,
     Sets!confirmPublish, Sets!DraftTaken, Sets!DraftRefused, Sets!DraftFails
<1>3. CASE Sets!Flips
  BY <1>3 DEF Sets!Flips, SetsNamed
<1>4. CASE call # Sets!Free /\ Sets!Writes
  <2>1. CASE call.kind = "open"
    <3>1. PICK new : sets' = Append(sets, new)
      BY <1>4, <2>1 DEF Sets!Writes
    <3>2. sets \in Seq(SetsHeld \cup {new}) /\ Len(sets) = n
      <4>1. sets \in [1..n -> SetsHeld \cup {new}]
        BY <1>1
      <4> QED BY <4>1
    <3>3. DOMAIN sets' = 1..n + 1 /\ DOMAIN sets = 1..n
      BY <1>1, <3>1, <3>2, AppendProperties
    <3> QED BY <3>3 DEF SetsNamed
  <2>2. CASE call.kind \in {"add", "put", "remove", "publish"}
    BY <1>4, <2>2 DEF Sets!Writes, SetsNamed
  <2>3. call.kind \in {"open", "add", "put", "remove", "publish"}
    BY <1>4 DEF SetsInv, SetsTyped
  <2> QED BY <2>1, <2>2, <2>3
<1> QED BY <1>2, <1>3, <1>4 DEF SetsNamed

\* What is on the screen: the rail, and the rules that were read last.
LEMMA SetsRailed ==
  ASSUME SetsStored
  PROVE  [v \in DOMAIN sets |-> Sets!StateOf(v)] \in Seq({"draft", "in_force", "scheduled", "superseded"})
<1>1. PICK n \in Nat : sets \in [1..n -> SetsHeld] /\ n + SetsOpening <= 2 + calls
  BY DEF SetsStored
<1>2. \A v \in DOMAIN sets : Sets!StateOf(v) \in {"draft", "in_force", "scheduled", "superseded"}
  BY DEF Sets!StateOf
<1>3. PICK g : g = [v \in DOMAIN sets |-> Sets!StateOf(v)]
  OBVIOUS
<1>4. g \in [1..n -> {"draft", "in_force", "scheduled", "superseded"}]
  BY <1>1, <1>2, <1>3
<1> QED BY <1>3, <1>4

LEMMA SetsSees == SetsInv /\ SetsArmed /\ SetsStored /\ SetsSeen /\ Sets!Next => SetsSeen'
<1> SUFFICES ASSUME SetsInv, SetsArmed, SetsStored, SetsSeen, Sets!Next PROVE SetsSeen'
  OBVIOUS
<1>1. SetsNamed \subseteq SetsNamed' /\ Sets!Rules' = Sets!Rules
  BY SetsGrows DEF Sets!Rules, Sets!Rule, Sets!Gone
<1>2. railAsked' \in BOOLEAN
  BY DEF SetsSeen, Sets!Next, Sets!Midnight, Sets!RulesRead, Sets!VersionsRead, Sets!Retry, Sets!selectVersion,
     Sets!OpenRule, Sets!toggleRule, Sets!onKill, Sets!Opens, Sets!Ask, Sets!AddRule, Sets!Close, Sets!Type,
     Sets!Back, Sets!doSwitch, Sets!SwitchAnswered, Sets!SwitchFails, Sets!newDraft, Sets!saveDraftRule,
     Sets!removeFromDraft, Sets!draftCall, Sets!openPublish, Sets!PublishRead, Sets!closePublish,
     Sets!confirmPublish, Sets!DraftTaken, Sets!DraftRefused, Sets!DraftFails, Sets!reread, Sets!screen
<1>3. rail' = rail \/ rail' = [v \in DOMAIN sets |-> Sets!StateOf(v)]
  BY DEF SetsSeen, Sets!Next, Sets!Midnight, Sets!RulesRead, Sets!VersionsRead, Sets!Retry, Sets!selectVersion,
     Sets!OpenRule, Sets!toggleRule, Sets!onKill, Sets!Opens, Sets!Ask, Sets!AddRule, Sets!Close, Sets!Type,
     Sets!Back, Sets!doSwitch, Sets!SwitchAnswered, Sets!SwitchFails, Sets!newDraft, Sets!saveDraftRule,
     Sets!removeFromDraft, Sets!draftCall, Sets!openPublish, Sets!PublishRead, Sets!closePublish,
     Sets!confirmPublish, Sets!DraftTaken, Sets!DraftRefused, Sets!DraftFails, Sets!screen
<1>4. setsBehind' \subseteq {"rail", "list"}
  BY DEF SetsSeen, Sets!Next, Sets!Midnight, Sets!RulesRead, Sets!VersionsRead, Sets!Retry, Sets!selectVersion,
     Sets!OpenRule, Sets!toggleRule, Sets!onKill, Sets!Opens, Sets!Ask, Sets!AddRule, Sets!Close, Sets!Type,
     Sets!Back, Sets!doSwitch, Sets!SwitchAnswered, Sets!SwitchFails, Sets!newDraft, Sets!saveDraftRule,
     Sets!removeFromDraft, Sets!draftCall, Sets!openPublish, Sets!PublishRead, Sets!closePublish,
     Sets!confirmPublish, Sets!DraftTaken, Sets!DraftRefused, Sets!DraftFails
<1>5. setsList' = setsList \/ Sets!RulesRead
  BY DEF Sets!Next, Sets!Midnight, Sets!VersionsRead, Sets!Retry, Sets!selectVersion,
     Sets!OpenRule, Sets!toggleRule, Sets!onKill, Sets!Opens, Sets!Ask, Sets!AddRule, Sets!Close, Sets!Type,
     Sets!Back, Sets!doSwitch, Sets!SwitchAnswered, Sets!SwitchFails, Sets!newDraft, Sets!saveDraftRule,
     Sets!removeFromDraft, Sets!draftCall, Sets!openPublish, Sets!PublishRead, Sets!closePublish,
     Sets!confirmPublish, Sets!DraftTaken, Sets!DraftRefused, Sets!DraftFails, Sets!screen
<1>6. setsList' \in SetsTable
  <2>1. setsList \in SetsTable
    BY DEF SetsSeen
  <2>2. CASE Sets!RulesRead
    <3>1. PICK v : /\ v = IF asked = 0 THEN Sets!InForce ELSE asked
                   /\ setsList' = setsList \/ setsList' = [version |-> v, rules |-> sets[v].rules]
      BY <2>2 DEF Sets!RulesRead
    <3>2. v \in DOMAIN sets
      BY <3>1, SetsForce DEF SetsInv, SetsArmed, SetsRead, SetsNamed
    <3>3. PICK n \in Nat : sets \in [1..n -> SetsHeld] /\ n + SetsOpening <= 2 + calls
      BY DEF SetsStored
    <3>4. sets[v].rules \in Sets!Rules
      BY <3>2, <3>3 DEF SetsHeld
    <3> QED BY <2>1, <3>1, <3>2, <3>4 DEF SetsTable, SetsNamed
  <2> QED BY <1>5, <2>1, <2>2
<1>7. SetsTable \subseteq SetsTable'
  BY <1>1 DEF SetsTable
<1>8. rail' \in Seq({"draft", "in_force", "scheduled", "superseded"})
  BY <1>3, SetsRailed DEF SetsSeen
<1> QED BY <1>2, <1>4, <1>6, <1>7, <1>8 DEF SetsSeen

\* What the layers hold.
LEMMA SetsFills ==
  ASSUME SetsInv, SetsFilled, setsList' \in SetsTable', setsDrawer' \in SetsDrawers, Sets!Renders
  PROVE  form' = Sets!Unmounted \/ form' \in SetsForms
<1>1. CASE ~Sets!Rendered' \/ (form # Sets!Unmounted /\ setsDrawer' = setsDrawer)
  BY <1>1 DEF Sets!Renders, SetsFilled
<1>2. CASE Sets!Rendered' /\ ~(form # Sets!Unmounted /\ setsDrawer' = setsDrawer)
  <2>1. form' = Sets!Filled'
    BY <1>2 DEF Sets!Renders
  <2>2. CASE setsDrawer'.kind = "new"
    <3>1. form' = [text |-> 0, on |-> TRUE, base |-> Sets!Gone, aged |-> FALSE]
      BY <2>1, <2>2 DEF Sets!Filled, Sets!Gone
    <3> QED BY <3>1, SetsRuleIs DEF SetsForms
  <2>3. CASE setsDrawer'.kind # "new"
    <3>1. setsDrawer'.key \in Keys /\ Sets!Listed(setsDrawer.key)'
      BY <1>2, <2>3 DEF SetsDrawers, Sets!Rendered, Sets!Closed
    <3>2. PICK r : r = Sets!Shown'.rules[setsDrawer'.key]
      OBVIOUS
    <3>3. r # Sets!Gone
      BY <3>1, <3>2 DEF Sets!Listed, Sets!Gone
    <3>4. r \in Sets!Rule
      <4>1. setsList'.rules \in [Keys -> Sets!Rule] /\ Sets!NoList.rules \in [Keys -> Sets!Rule]
        BY SetsRuleIs DEF SetsTable, Sets!Rules, Sets!Rule, Sets!Gone
      <4>2. Sets!Shown' = setsList' \/ Sets!Shown' = Sets!NoList
        BY DEF Sets!Shown, Sets!NoList, Sets!Gone
      <4> QED BY <3>1, <3>2, <4>1, <4>2
    <3>5. r \in [text : 0..MaxTyped, on : BOOLEAN]
      BY <3>3, <3>4, SetsRuleIs
    <3>6. PICK aged \in BOOLEAN :
            aged <=> (~Sets!onDraft' \/ setsReading' # "ready" \/ "list" \in setsBehind')
      OBVIOUS
    <3>7. form' = [text |-> r.text, on |-> r.on, base |-> r, aged |-> aged]
      BY <2>1, <2>3, <3>2, <3>6 DEF Sets!Filled
    <3>8. r.text \in 0..MaxTyped /\ r.on \in BOOLEAN
      BY <3>5
    <3> QED BY <3>4, <3>6, <3>7, <3>8 DEF SetsForms
  <2> QED BY <2>2, <2>3
<1> QED BY <1>1, <1>2

LEMMA SetsLayers ==
  ASSUME SetsInv, SetsArmed, SetsStored, SetsSeen', SetsFilled, Sets!Next
  PROVE  SetsFilled'
<1>0. call # Sets!Free => call.kind \in {"open", "add", "put", "remove", "publish"}
  BY DEF SetsInv, SetsTyped
<1>1. SetsDrawers' = SetsDrawers /\ SetsForms' = SetsForms /\ Sets!Unmounted' = Sets!Unmounted
      /\ Sets!NoQuestion' = Sets!NoQuestion
  BY DEF SetsDrawers, SetsForms, Sets!Unmounted, Sets!Closed, Sets!Rule, Sets!Gone, Sets!NoQuestion
<1>2. setsDrawer' \in SetsDrawers
  <2>1. setsDrawer' = setsDrawer \/ setsDrawer' \in {Sets!Closed, [kind |-> "new"]}
        \/ \E k \in Keys : setsDrawer' = [kind |-> "rule", key |-> k]
    BY <1>0 DEF Sets!Next, Sets!Midnight, Sets!RulesRead, Sets!VersionsRead, Sets!Retry, Sets!selectVersion,
       Sets!OpenRule, Sets!toggleRule, Sets!onKill, Sets!Opens, Sets!Ask, Sets!AddRule, Sets!Close, Sets!Type,
       Sets!Back, Sets!doSwitch, Sets!SwitchAnswered, Sets!SwitchFails, Sets!newDraft, Sets!saveDraftRule,
       Sets!removeFromDraft, Sets!draftCall, Sets!openPublish, Sets!PublishRead, Sets!closePublish,
       Sets!confirmPublish, Sets!DraftTaken, Sets!DraftRefused, Sets!DraftFails, Sets!layers
  <2> QED BY <2>1 DEF SetsFilled, SetsDrawers
<1>3. question' = Sets!NoQuestion \/ question' \in [key : Keys, on : BOOLEAN]
  <2>1. ASSUME NEW k \in Keys, Sets!toggleRule(k) \/ Sets!onKill(k) PROVE question' \in [key : Keys, on : BOOLEAN]
    <3>1. PICK b \in BOOLEAN : question' = [key |-> k, on |-> b]
      BY <2>1 DEF Sets!toggleRule, Sets!onKill, Sets!Ask
    <3> QED BY <3>1
  <2>2. question' \in {question, Sets!NoQuestion} \/ \E k \in Keys : Sets!toggleRule(k) \/ Sets!onKill(k)
    BY DEF Sets!Next, Sets!Midnight, Sets!RulesRead, Sets!VersionsRead, Sets!Retry, Sets!selectVersion,
       Sets!OpenRule, Sets!Opens, Sets!AddRule, Sets!Close, Sets!Type,
       Sets!Back, Sets!doSwitch, Sets!SwitchAnswered, Sets!SwitchFails, Sets!newDraft, Sets!saveDraftRule,
       Sets!removeFromDraft, Sets!draftCall, Sets!openPublish, Sets!PublishRead, Sets!closePublish,
       Sets!confirmPublish, Sets!DraftTaken, Sets!DraftRefused, Sets!DraftFails, Sets!layers
  <2> QED BY <2>1, <2>2 DEF SetsFilled
<1>4. form' = Sets!Unmounted \/ form' \in SetsForms
  <2>1. CASE Sets!Renders
    BY <1>2, <2>1, SetsFills DEF SetsSeen
  <2>2. CASE Sets!Type
    <3>1. Sets!Rendered /\ typed' = typed + 1 /\ typed < MaxTyped
          /\ form' = [form EXCEPT !.text = typed + 1]
      BY <2>2 DEF Sets!Type, Sets!InDrawer
    <3>2. form \in SetsForms
      <4>1. Formed(form)
        BY <3>1 DEF SetsArmed, SetsForm
      <4>2. form # Sets!Unmounted
        <5>1. PICK S : form \in [text : S, on : S, base : S, aged : BOOLEAN]
          BY <4>1 DEF Formed
        <5>2. "aged" \in DOMAIN form /\ "aged" \notin DOMAIN Sets!Unmounted
          BY <5>1 DEF Sets!Unmounted
        <5> QED BY <5>2
      <4> QED BY <4>2 DEF SetsFilled
    <3>3. typed + 1 \in 0..MaxTyped
      BY <3>1, SetsRuleIs DEF SetsStored
    <3> QED BY <3>1, <3>2, <3>3 DEF SetsForms
  <2>3. CASE form' = [form EXCEPT !.aged = TRUE] /\ form # Sets!Unmounted
    BY <2>3 DEF SetsFilled, SetsForms
  <2>4. form' = form \/ Sets!Renders \/ Sets!Type
        \/ (form' = [form EXCEPT !.aged = TRUE] /\ form # Sets!Unmounted)
    BY DEF Sets!Next, Sets!Midnight, Sets!RulesRead, Sets!VersionsRead, Sets!Retry, Sets!selectVersion,
       Sets!OpenRule, Sets!toggleRule, Sets!onKill, Sets!Opens, Sets!Ask, Sets!AddRule, Sets!Close,
       Sets!Back, Sets!doSwitch, Sets!SwitchAnswered, Sets!SwitchFails, Sets!newDraft, Sets!saveDraftRule,
       Sets!removeFromDraft, Sets!draftCall, Sets!openPublish, Sets!PublishRead, Sets!closePublish,
       Sets!confirmPublish, Sets!DraftTaken, Sets!DraftRefused, Sets!DraftFails, Sets!layers
  <2> QED BY <2>1, <2>2, <2>3, <2>4 DEF SetsFilled
<1> QED BY <1>1, <1>2, <1>3, <1>4 DEF SetsFilled

\* What is compared, and what is out.
LEMMA SetsDiffed ==
  ASSUME SetsInv, SetsStored, SetsOut, DOMAIN sets \subseteq DOMAIN sets', Sets!Next
  PROVE  publish' = Sets!NoPublish \/ publish' \in SetsDiffs'
<1>0. call # Sets!Free => call.kind \in {"open", "add", "put", "remove", "publish"}
  BY DEF SetsInv, SetsTyped
<1>1. SetsDiffs \subseteq SetsDiffs' /\ 0 \in 0..MaxTyped
  BY SetsRuleIs DEF SetsDiffs, Sets!Rules, Sets!Rule, Sets!Gone
<1>2. CASE publish' = [publish EXCEPT !.moved = TRUE] /\ publish # Sets!NoPublish
  BY <1>1, <1>2 DEF SetsOut, SetsDiffs
<1>3. CASE Sets!openPublish
  <2>1. PICK v \in DOMAIN rail :
          publish' = [rows |-> "loading", of |-> v, draft |-> Sets!NoList.rules, force |-> Sets!NoList.rules,
                      moved |-> FALSE]
    BY <1>3 DEF Sets!openPublish, Sets!draftVersion
  <2>2. v \in DOMAIN sets
    BY <2>1 DEF SetsInv, SetsTyped
  <2>3. publish' \in SetsDiffs
    BY <2>1, <2>2, SetsRuleIs DEF SetsDiffs
  <2> QED BY <1>1, <2>3
<1>4. CASE Sets!PublishRead
  <2>1. publish \in SetsDiffs
    BY <1>4 DEF Sets!PublishRead, SetsOut, Sets!NoPublish
  <2>2. PICK n \in Nat : sets \in [1..n -> SetsHeld] /\ n + SetsOpening <= 2 + calls
    BY DEF SetsStored
  <2>3. publish.of \in DOMAIN sets /\ Sets!InForce \in DOMAIN sets
    BY <2>1, SetsForce DEF SetsDiffs, SetsInv
  <2>4. PICK d, f : d = sets[publish.of].rules /\ f = sets[Sets!InForce].rules
    OBVIOUS
  <2>5. d \in Sets!Rules /\ f \in Sets!Rules
    BY <2>2, <2>3, <2>4 DEF SetsHeld
  <2>6. \/ publish' = [publish EXCEPT !.rows = "ready", !.draft = d, !.force = f, !.moved = FALSE]
        \/ publish' = [publish EXCEPT !.rows = "error"]
    BY <1>4, <2>4 DEF Sets!PublishRead
  <2>7. publish' \in SetsDiffs
    BY <2>1, <2>5, <2>6 DEF SetsDiffs
  <2> QED BY <1>1, <2>7
<1>5. publish' \in {publish, Sets!NoPublish} \/ Sets!openPublish \/ Sets!PublishRead
      \/ (publish' = [publish EXCEPT !.moved = TRUE] /\ publish # Sets!NoPublish)
  BY <1>0 DEF Sets!Next, Sets!Midnight, Sets!RulesRead, Sets!VersionsRead, Sets!Retry, Sets!selectVersion,
     Sets!OpenRule, Sets!toggleRule, Sets!onKill, Sets!Opens, Sets!Ask, Sets!AddRule, Sets!Close, Sets!Type,
     Sets!Back, Sets!doSwitch, Sets!SwitchAnswered, Sets!SwitchFails, Sets!newDraft, Sets!saveDraftRule,
     Sets!removeFromDraft, Sets!draftCall, Sets!closePublish, Sets!Moves,
     Sets!confirmPublish, Sets!DraftTaken, Sets!DraftRefused, Sets!DraftFails, Sets!layers
<1> QED BY <1>1, <1>2, <1>3, <1>4, <1>5 DEF SetsOut

SetsCall == call = Sets!Free \/ call \in [kind : {"open"}, at : SetsNamed]
            \/ call \in SetsWriting \/ call \in SetsPublishing

\* A call that is sent from the drawer, or from the publication.
LEMMA SetsDrafts ==
  ASSUME SetsInv, SetsArmed, SetsFilled, SetsOut,
         \/ Sets!newDraft \/ Sets!saveDraftRule \/ Sets!removeFromDraft
         \/ \E from \in 0..MaxDays : Sets!confirmPublish(from)
  PROVE  call' \in [kind : {"open"}, at : SetsNamed] \/ call' \in SetsWriting \/ call' \in SetsPublishing
<1>1. setsSelected \in SetsNamed
  BY DEF SetsArmed, SetsRead
<1>2. Sets!Rendered => form \in SetsForms
  <2>1. SUFFICES ASSUME Sets!Rendered PROVE form # Sets!Unmounted
    BY DEF SetsFilled
  <2>2. PICK S : form \in [text : S, on : S, base : S, aged : BOOLEAN]
    BY <2>1 DEF SetsArmed, SetsForm, Formed
  <2>3. "aged" \in DOMAIN form /\ "aged" \notin DOMAIN Sets!Unmounted
    BY <2>2 DEF Sets!Unmounted
  <2> QED BY <2>3
<1>3. CASE Sets!newDraft
  <2>1. call' = [kind |-> "open", at |-> setsSelected]
    BY <1>3 DEF Sets!newDraft, Sets!draftCall
  <2> QED BY <1>1, <2>1
<1>4. CASE Sets!saveDraftRule
  <2>1. form \in SetsForms
    BY <1>2, <1>4 DEF Sets!saveDraftRule, Sets!InDrawer
  <2>2. PICK k \in Keys, w \in {"add", "put"} :
          call' = [kind |-> w, at |-> setsSelected, key |-> k, rule |-> [text |-> form.text, on |-> form.on],
                   base |-> form.base, aged |-> form.aged]
    BY <1>4 DEF Sets!saveDraftRule, Sets!draftCall
  <2>3. PICK r : r = [text |-> form.text, on |-> form.on]
    OBVIOUS
  <2>4. form.text \in 0..MaxTyped /\ form.on \in BOOLEAN /\ form.base \in Sets!Rule /\ form.aged \in BOOLEAN
    BY <2>1 DEF SetsForms
  <2>5. r \in Sets!Rule
    BY <2>3, <2>4, SetsRuleIs
  <2> QED BY <1>1, <2>2, <2>3, <2>4, <2>5 DEF SetsWriting
<1>5. CASE Sets!removeFromDraft
  <2>1. Sets!Rendered /\ setsDrawer.kind = "rule"
        /\ call' = [kind |-> "remove", at |-> setsSelected, key |-> setsDrawer.key, rule |-> Sets!Gone,
                    base |-> form.base, aged |-> form.aged]
    BY <1>5 DEF Sets!removeFromDraft, Sets!draftCall, Sets!InDrawer
  <2>2. form.base \in Sets!Rule /\ form.aged \in BOOLEAN
    BY <1>2, <2>1 DEF SetsForms
  <2>3. setsDrawer.key \in Keys
    BY <2>1 DEF SetsFilled, SetsDrawers, Sets!Closed
  <2> QED BY <1>1, <2>1, <2>2, <2>3, SetsRuleIs DEF SetsWriting
<1>6. ASSUME NEW from \in 0..MaxDays, Sets!confirmPublish(from) PROVE call' \in SetsPublishing
  <2>1. publish.rows = "ready"
        /\ call' = [kind |-> "publish", at |-> setsSelected, from |-> from, of |-> publish.of,
                    draft |-> publish.draft, force |-> publish.force, moved |-> publish.moved]
    BY <1>6 DEF Sets!confirmPublish, Sets!draftCall
  <2>2. publish \in SetsDiffs
    BY <2>1 DEF SetsOut, Sets!NoPublish
  <2>3. publish.of \in DOMAIN sets /\ publish.draft \in Sets!Rules /\ publish.force \in Sets!Rules
        /\ publish.moved \in BOOLEAN
    BY <2>2 DEF SetsDiffs
  <2> QED BY <1>1, <1>6, <2>1, <2>3 DEF SetsPublishing
<1> QED BY <1>3, <1>4, <1>5, <1>6

LEMMA SetsCalled ==
  ASSUME SetsInv, SetsArmed, SetsFilled, SetsOut, DOMAIN sets \subseteq DOMAIN sets', Sets!Next
  PROVE  SetsCall'
<1>1. /\ SetsNamed \subseteq SetsNamed' /\ SetsWriting \subseteq SetsWriting'
      /\ SetsPublishing \subseteq SetsPublishing' /\ Sets!Free' = Sets!Free
  <2>1. SetsNamed \subseteq SetsNamed' /\ Sets!Rule' = Sets!Rule /\ Sets!Rules' = Sets!Rules
    BY DEF SetsNamed, Sets!Rules, Sets!Rule, Sets!Gone
  <2>2. SetsWriting \subseteq SetsWriting'
    BY <2>1 DEF SetsWriting
  <2>3. SetsPublishing \subseteq SetsPublishing'
    BY <2>1 DEF SetsPublishing
  <2> QED BY <2>1, <2>2, <2>3 DEF Sets!Free
<1>2. call.kind = "publish" => call \in SetsPublishing
  BY DEF SetsOut, SetsWriting, Sets!Free
<1>3. CASE Sets!newDraft \/ Sets!saveDraftRule \/ Sets!removeFromDraft
           \/ \E from \in 0..MaxDays : Sets!confirmPublish(from)
  BY <1>1, <1>3, SetsDrafts DEF SetsCall
<1>4. CASE call' = [call EXCEPT !.moved = TRUE] /\ call.kind = "publish"
  <2>1. call' \in SetsPublishing
    BY <1>2, <1>4 DEF SetsPublishing
  <2> QED BY <1>1, <2>1 DEF SetsCall
<1>5. CASE call' = call \/ call' = Sets!Free
  BY <1>1, <1>5 DEF SetsOut, SetsCall
<1>6. \/ call' = call \/ call' = Sets!Free
      \/ Sets!newDraft \/ Sets!saveDraftRule \/ Sets!removeFromDraft
      \/ \E from \in 0..MaxDays : Sets!confirmPublish(from)
      \/ call' = [call EXCEPT !.moved = TRUE] /\ call.kind = "publish"
  BY DEF Sets!Next, Sets!Midnight, Sets!RulesRead, Sets!VersionsRead, Sets!Retry, Sets!selectVersion,
     Sets!OpenRule, Sets!toggleRule, Sets!onKill, Sets!Opens, Sets!Ask, Sets!AddRule, Sets!Close, Sets!Type,
     Sets!Back, Sets!doSwitch, Sets!SwitchAnswered, Sets!SwitchFails, Sets!CallMoves, Sets!openPublish,
     Sets!PublishRead, Sets!closePublish, Sets!DraftTaken, Sets!DraftRefused, Sets!DraftFails
<1> QED BY <1>3, <1>4, <1>5, <1>6

LEMMA SetsSwitched ==
  ASSUME SetsInv, SetsArmed, SetsFilled, SetsOut, DOMAIN sets \subseteq DOMAIN sets', Sets!Next
  PROVE  switch' = Sets!Free \/ switch' \in [kind : {"switch"}, key : Keys, on : BOOLEAN, at : SetsNamed]
<1>1. CASE Sets!doSwitch
  <2>1. question # Sets!NoQuestion
        /\ switch' = [kind |-> "switch", key |-> question.key, on |-> question.on, at |-> setsSelected]
    BY <1>1 DEF Sets!doSwitch
  <2>2. question.key \in Keys /\ question.on \in BOOLEAN
    BY <2>1 DEF SetsFilled
  <2>3. setsSelected \in SetsNamed
    BY DEF SetsArmed, SetsRead
  <2> QED BY <2>1, <2>2, <2>3
<1>2. switch' \in {switch, Sets!Free} \/ Sets!doSwitch
  BY DEF Sets!Next, Sets!Midnight, Sets!RulesRead, Sets!VersionsRead, Sets!Retry, Sets!selectVersion,
     Sets!OpenRule, Sets!toggleRule, Sets!onKill, Sets!Opens, Sets!Ask, Sets!AddRule, Sets!Close, Sets!Type,
     Sets!Back, Sets!SwitchAnswered, Sets!SwitchFails, Sets!newDraft, Sets!saveDraftRule,
     Sets!removeFromDraft, Sets!draftCall, Sets!openPublish, Sets!PublishRead, Sets!closePublish,
     Sets!confirmPublish, Sets!DraftTaken, Sets!DraftRefused, Sets!DraftFails
<1> QED BY <1>1, <1>2 DEF SetsOut

LEMMA SetsGoesOut ==
  ASSUME SetsInv, SetsArmed, SetsStored, SetsFilled, SetsOut, Sets!Next
  PROVE  SetsOut'
<1>1. DOMAIN sets \subseteq DOMAIN sets' /\ SetsNamed \subseteq SetsNamed'
  BY SetsGrows
<1>2. (publish = Sets!NoPublish \/ publish \in SetsDiffs)'
  BY <1>1, SetsDiffed DEF Sets!NoPublish
<1>3. SetsCall'
  BY <1>1, SetsCalled
<1>4. (switch = Sets!Free \/ switch \in [kind : {"switch"}, key : Keys, on : BOOLEAN, at : SetsNamed])'
  BY <1>1, SetsSwitched DEF Sets!Free
<1> QED BY <1>2, <1>3, <1>4 DEF SetsOut, SetsCall

\* All that is held.
SetsHolds == SetsStored /\ SetsSeen /\ SetsFilled /\ SetsOut

LEMMA SetsStarts == Sets!Init => SetsHolds
BY SetsBegun DEF SetsHolds

LEMMA SetsHoldsOn == SetsInv /\ SetsArmed /\ SetsHolds /\ Sets!Next => SetsHolds'
BY SetsStores, SetsSees, SetsLayers, SetsGoesOut DEF SetsHolds

LEMMA SetsHoldsStays == SetsHolds /\ UNCHANGED setsVars => SetsHolds'
<1> SUFFICES ASSUME SetsHolds, UNCHANGED setsVars PROVE SetsHolds'
  OBVIOUS
<1>1. UNCHANGED <<sets, today, rail, railAsked, setsList, setsDrawer, form, question, publish, switch, call,
                  setsBehind, typed, calls>>
  BY DEF setsVars
<1>2. SetsStored'
  BY <1>1 DEF SetsHolds, SetsStored, SetsOpening, SetsHeld, Sets!Rules, Sets!Rule, Sets!Gone
<1>3. SetsSeen'
  BY <1>1 DEF SetsHolds, SetsSeen, SetsTable, SetsNamed, Sets!Rules, Sets!Rule, Sets!Gone
<1>4. SetsFilled'
  BY <1>1 DEF SetsHolds, SetsFilled, SetsDrawers, SetsForms, Sets!Rule, Sets!Gone, Sets!Closed, Sets!Unmounted,
     Sets!NoQuestion
<1>5. SetsOut'
  BY <1>1 DEF SetsHolds, SetsOut, SetsDiffs, SetsWriting, SetsPublishing, SetsNamed, Sets!Rules, Sets!Rule,
     Sets!Gone, Sets!Free, Sets!NoPublish
<1> QED BY <1>2, <1>3, <1>4, <1>5 DEF SetsHolds

LEMMA SetsTypes == SetsArmed /\ SetsHolds => Sets!TypeOK
<1> SUFFICES ASSUME SetsArmed, SetsHolds PROVE Sets!TypeOK
  OBVIOUS
<1>1. PICK n \in Nat : sets \in [1..n -> SetsHeld] /\ n + SetsOpening <= 2 + calls
  BY DEF SetsHolds, SetsStored
<1>2. SetsNamed \subseteq Sets!Versions /\ DOMAIN sets \subseteq Sets!Versions
  <2>1. calls \in Nat /\ calls <= MaxCalls /\ MaxCalls \in Nat
    BY SetsRuleIs DEF SetsHolds, SetsStored
  <2>2. SetsOpening \in Nat
    BY DEF SetsOpening
  <2>3. n <= 2 + MaxCalls
    BY <1>1, <2>1, <2>2
  <2> QED BY <1>1, <2>1, <2>3 DEF SetsNamed, Sets!Versions
<1>3. \A v \in DOMAIN sets : sets[v] \in [sealed : BOOLEAN, from : -1..MaxDays, rules : Sets!Rules]
  BY <1>1 DEF SetsHeld
<1>4. today \in 0..MaxDays /\ typed \in 0..MaxTyped /\ calls \in 0..MaxCalls
  BY DEF SetsHolds, SetsStored
<1>5. /\ rail \in Seq({"draft", "in_force", "scheduled", "superseded"}) /\ railAsked \in BOOLEAN
      /\ setsBehind \subseteq {"rail", "list"}
  BY DEF SetsHolds, SetsSeen
<1>6. setsList \in [version : Sets!Versions, rules : Sets!Rules]
  BY <1>2 DEF SetsHolds, SetsSeen, SetsTable
<1>7. setsSelected \in Sets!Versions /\ asked \in Sets!Versions /\ setsReading \in {"loading", "ready", "error"}
  BY <1>2 DEF SetsArmed, SetsRead
<1>8. /\ setsDrawer \in {Sets!Closed, [kind |-> "new"]} \cup [kind : {"rule"}, key : Keys]
      /\ form = Sets!Unmounted \/ form \in [text : 0..MaxTyped, on : BOOLEAN, base : Sets!Rule, aged : BOOLEAN]
      /\ question = Sets!NoQuestion \/ question \in [key : Keys, on : BOOLEAN]
  BY DEF SetsHolds, SetsFilled, SetsDrawers, SetsForms
<1>9. publish = Sets!NoPublish \/ publish \in [rows : {"loading", "error", "ready"}, of : Sets!Versions,
                                               draft : Sets!Rules, force : Sets!Rules, moved : BOOLEAN]
  BY <1>2 DEF SetsHolds, SetsOut, SetsDiffs
<1>10. switch = Sets!Free \/ switch \in [kind : {"switch"}, key : Keys, on : BOOLEAN, at : Sets!Versions]
  BY <1>2 DEF SetsHolds, SetsOut
<1>11. call = Sets!Free
       \/ (call.kind \in {"open", "add", "put", "remove", "publish"} /\ call.at \in Sets!Versions)
  BY <1>2 DEF SetsHolds, SetsOut, SetsWriting, SetsPublishing
<1> QED BY <1>3, <1>4, <1>5, <1>6, <1>7, <1>8, <1>9, <1>10, <1>11 DEF Sets!TypeOK
------------------------------------------------------------------------------
(* The tree of an approval policy. *)

\* The steps of a lane.
StepsOf(s) == {s[i] : i \in DOMAIN s}
NoneTwice(s) == \A i, j \in DOMAIN s : s[i] = s[j] => i = j

\* A part of a sequence, and sequences put one after the other.
LEMMA Part ==
  ASSUME NEW S, NEW s \in Seq(S), NEW m \in 1..Len(s) + 1, NEW n \in m - 1..Len(s)
  PROVE  /\ SubSeq(s, m, n) \in Seq(S) /\ Len(SubSeq(s, m, n)) = n - m + 1
         /\ \A i \in 1..n - m + 1 : SubSeq(s, m, n)[i] = s[m + i - 1]
<1>1. Len(s) \in Nat /\ m \in Int /\ n \in Int /\ \A i \in 1..Len(s) : s[i] \in S
  BY LenProperties
<1>2. \A i \in m..n : s[i] \in S
  BY <1>1
<1> DEFINE r == SubSeq(s, m, n)
<1>3. /\ r \in Seq(S) /\ Len(r) = (IF m <= n THEN n - m + 1 ELSE 0)
      /\ \A i \in 1..n - m + 1 : r[i] = s[m + i - 1]
  BY <1>1, <1>2, SubSeqProperties
<1> HIDE DEF r
<1>4. Len(r) = n - m + 1
  BY <1>1, <1>3
<1> QED BY <1>3, <1>4 DEF r

LEMMA Joined ==
  ASSUME NEW S, NEW u \in Seq(S), NEW v \in Seq(S)
  PROVE  /\ u \o v \in Seq(S) /\ Len(u \o v) = Len(u) + Len(v)
         /\ \A i \in 1..Len(u) + Len(v) : (u \o v)[i] = IF i <= Len(u) THEN u[i] ELSE v[i - Len(u)]
BY ConcatProperties

LEMMA JoinedBy ==
  ASSUME NEW S, NEW u \in Seq(S), NEW v \in Seq(S), NEW n \in S, NEW r, r = u \o <<n>> \o v
  PROVE  /\ r \in Seq(S) /\ Len(r) = Len(u) + 1 + Len(v)
         /\ \A i \in 1..Len(u) + 1 + Len(v) :
              r[i] = IF i <= Len(u) THEN u[i] ELSE IF i = Len(u) + 1 THEN n ELSE v[i - (Len(u) + 1)]
<1> DEFINE w == u \o <<n>>
<1>1. <<n>> \in Seq(S) /\ Len(<<n>>) = 1 /\ <<n>>[1] = n
  OBVIOUS
<1>2. /\ w \in Seq(S) /\ Len(w) = Len(u) + Len(<<n>>)
      /\ \A i \in 1..Len(u) + Len(<<n>>) : w[i] = IF i <= Len(u) THEN u[i] ELSE <<n>>[i - Len(u)]
  BY <1>1, Joined
<1>3. r = w \o v
  OBVIOUS
<1>4. Len(u) \in Nat /\ Len(v) \in Nat
  BY LenProperties
<1> HIDE DEF w
<1>5. /\ r \in Seq(S) /\ Len(r) = Len(w) + Len(v)
      /\ \A i \in 1..Len(w) + Len(v) : r[i] = IF i <= Len(w) THEN w[i] ELSE v[i - Len(w)]
  BY <1>2, <1>3, Joined
<1>6. Len(w) = Len(u) + 1 /\ w[Len(u) + 1] = n /\ \A i \in 1..Len(u) : w[i] = u[i]
  <2>1. Len(w) = Len(u) + 1
    BY <1>1, <1>2
  <2>2. w[Len(u) + 1] = <<n>>[Len(u) + 1 - Len(u)]
    BY <1>1, <1>2, <1>4
  <2>3. Len(u) + 1 - Len(u) = 1
    BY <1>4
  <2>4. w[Len(u) + 1] = n
    BY <1>1, <2>2, <2>3
  <2>5. ASSUME NEW i \in 1..Len(u) PROVE w[i] = u[i]
    BY <1>1, <1>2, <1>4
  <2> QED BY <2>1, <2>4, <2>5
<1>7. Len(r) = Len(u) + 1 + Len(v)
  BY <1>5, <1>6
<1>8. ASSUME NEW i \in 1..Len(u) + 1 + Len(v)
      PROVE  r[i] = IF i <= Len(u) THEN u[i] ELSE IF i = Len(u) + 1 THEN n ELSE v[i - (Len(u) + 1)]
  <2>1. r[i] = IF i <= Len(u) + 1 THEN w[i] ELSE v[i - (Len(u) + 1)]
    BY <1>5, <1>6
  <2> QED BY <1>4, <1>6, <2>1
<1> QED BY <1>5, <1>7, <1>8

LEMMA LaneTaken ==
  ASSUME NEW S, NEW s \in Seq(S), NEW j \in DOMAIN s, NEW r, r = Tree!RemovedAt(s, j)
  PROVE  /\ r \in Seq(S) /\ Len(r) = Len(s) - 1
         /\ \A i \in 1..Len(r) : r[i] = IF i < j THEN s[i] ELSE s[i + 1]
<1>1. Len(s) \in Nat /\ DOMAIN s = 1..Len(s)
  BY LenProperties
<1> DEFINE a == SubSeq(s, 1, j - 1)  b == SubSeq(s, j + 1, Len(s))
<1>2. /\ a \in Seq(S) /\ Len(a) = j - 1 - 1 + 1
      /\ \A i \in 1..j - 1 - 1 + 1 : a[i] = s[1 + i - 1]
  <2>1. 1 \in 1..Len(s) + 1 /\ j - 1 \in 1 - 1..Len(s)
    BY <1>1
  <2> QED BY <2>1, Part
<1>3. /\ b \in Seq(S) /\ Len(b) = Len(s) - (j + 1) + 1
      /\ \A i \in 1..Len(s) - (j + 1) + 1 : b[i] = s[j + 1 + i - 1]
  <2>1. j + 1 \in 1..Len(s) + 1 /\ Len(s) \in j + 1 - 1..Len(s)
    BY <1>1
  <2> QED BY <2>1, Part
<1>4. r = a \o b
  BY DEF Tree!RemovedAt
<1> HIDE DEF a, b
<1>5. /\ r \in Seq(S) /\ Len(r) = Len(a) + Len(b)
      /\ \A i \in 1..Len(a) + Len(b) : r[i] = IF i <= Len(a) THEN a[i] ELSE b[i - Len(a)]
  <2>1. a \in Seq(S) /\ b \in Seq(S)
    BY <1>2, <1>3
  <2> QED BY <2>1, <1>4, Joined
<1>6. Len(a) = j - 1 /\ Len(b) = Len(s) - j /\ Len(r) = Len(s) - 1 /\ j \in 1..Len(s)
  BY <1>1, <1>2, <1>3, <1>5
<1>7. ASSUME NEW i \in 1..Len(r) PROVE r[i] = IF i < j THEN s[i] ELSE s[i + 1]
  <2>1. CASE i < j
    <3>1. r[i] = a[i] /\ a[i] = s[1 + i - 1] /\ 1 + i - 1 = i
      BY <1>1, <1>2, <1>5, <1>6, <2>1
    <3> QED BY <2>1, <3>1
  <2>2. CASE ~(i < j)
    <3>1. r[i] = b[i - (j - 1)]
      BY <1>1, <1>5, <1>6, <2>2
    <3>2. i - (j - 1) \in 1..Len(s) - (j + 1) + 1 /\ j + 1 + (i - (j - 1)) - 1 = i + 1
      BY <1>1, <1>6, <2>2
    <3>3. b[i - (j - 1)] = s[j + 1 + (i - (j - 1)) - 1]
      BY <1>3, <3>2
    <3> QED BY <2>2, <3>1, <3>2, <3>3
  <2> QED BY <2>1, <2>2
<1> QED BY <1>5, <1>6, <1>7

\* Where a splice puts it.
Gap(s, i) == IF i < Len(s) THEN i ELSE Len(s)
Splices(r, s, at, n) ==
  /\ Len(r) = Len(s) + 1
  /\ \A h \in 1..Len(r) : r[h] = IF h <= at THEN s[h] ELSE IF h = at + 1 THEN n ELSE s[h - 1]

LEMMA LanePut ==
  ASSUME NEW S, NEW s \in Seq(S), NEW i \in Nat, NEW n \in S, NEW r, r = Tree!InsertedAt(s, i, n)
  PROVE  r \in Seq(S) /\ Splices(r, s, Gap(s, i), n)
<1> DEFINE at == Gap(s, i)
<1>1. Len(s) \in Nat /\ at \in 0..Len(s)
  BY LenProperties DEF Gap
<1>0. at = IF i < Len(s) THEN i ELSE Len(s)
  BY DEF Gap
<1> HIDE DEF at
<1> DEFINE a == SubSeq(s, 1, at)  b == SubSeq(s, at + 1, Len(s))
<1>2. /\ a \in Seq(S) /\ Len(a) = at - 1 + 1
      /\ \A h \in 1..at - 1 + 1 : a[h] = s[1 + h - 1]
  <2>1. 1 \in 1..Len(s) + 1 /\ at \in 1 - 1..Len(s)
    BY <1>1
  <2> QED BY <2>1, Part
<1>3. /\ b \in Seq(S) /\ Len(b) = Len(s) - (at + 1) + 1
      /\ \A h \in 1..Len(s) - (at + 1) + 1 : b[h] = s[at + 1 + h - 1]
  <2> DEFINE m == at + 1
  <2>1. m \in 1..Len(s) + 1 /\ Len(s) \in m - 1..Len(s)
    BY <1>1
  <2> HIDE DEF m
  <2>2. /\ SubSeq(s, m, Len(s)) \in Seq(S) /\ Len(SubSeq(s, m, Len(s))) = Len(s) - m + 1
        /\ \A h \in 1..Len(s) - m + 1 : SubSeq(s, m, Len(s))[h] = s[m + h - 1]
    BY <2>1, Part
  <2> QED BY <2>2 DEF m
<1>4. r = a \o <<n>> \o b
  BY <1>0 DEF Tree!InsertedAt
<1> HIDE DEF a, b
<1>5. /\ r \in Seq(S) /\ Len(r) = Len(a) + 1 + Len(b)
      /\ \A h \in 1..Len(a) + 1 + Len(b) :
           r[h] = IF h <= Len(a) THEN a[h] ELSE IF h = Len(a) + 1 THEN n ELSE b[h - (Len(a) + 1)]
  <2>1. a \in Seq(S) /\ b \in Seq(S)
    BY <1>2, <1>3
  <2> QED BY <2>1, <1>4, JoinedBy
<1>6. Len(a) = at /\ Len(b) = Len(s) - at /\ Len(r) = Len(s) + 1
  <2>1. Len(a) = at - 1 + 1 /\ Len(b) = Len(s) - (at + 1) + 1 /\ Len(r) = Len(a) + 1 + Len(b)
    BY <1>2, <1>3, <1>5
  <2>2. at - 1 + 1 = at /\ Len(s) - (at + 1) + 1 = Len(s) - at /\ at + 1 + (Len(s) - at) = Len(s) + 1
    BY <1>1
  <2> QED BY <2>1, <2>2
<1>7. ASSUME NEW h \in 1..Len(r) PROVE r[h] = IF h <= at THEN s[h] ELSE IF h = at + 1 THEN n ELSE s[h - 1]
  <2>1. CASE h <= at
    <3>1. r[h] = a[h] /\ a[h] = s[1 + h - 1] /\ 1 + h - 1 = h
      BY <1>1, <1>2, <1>5, <1>6, <2>1
    <3> QED BY <2>1, <3>1
  <2>2. CASE h = at + 1
    <3>1. h \in 1..Len(a) + 1 + Len(b) /\ h = Len(a) + 1 /\ ~(h <= Len(a))
      BY <1>1, <1>6, <2>2
    <3>2. r[h] = n
      BY <1>5, <3>1
    <3> QED BY <1>1, <2>2, <3>2
  <2>3. CASE h > at + 1
    <3>1. r[h] = b[h - (at + 1)]
      BY <1>1, <1>5, <1>6, <2>3
    <3>2. h - (at + 1) \in 1..Len(s) - (at + 1) + 1 /\ at + 1 + (h - (at + 1)) - 1 = h - 1
      BY <1>1, <1>6, <2>3
    <3>3. b[h - (at + 1)] = s[at + 1 + (h - (at + 1)) - 1]
      BY <1>3, <3>2
    <3> QED BY <1>1, <2>3, <3>1, <3>2, <3>3
  <2> QED BY <1>1, <2>1, <2>2, <2>3
<1>8. Splices(r, s, at, n)
  BY <1>6, <1>7 DEF Splices
<1> QED BY <1>5, <1>8 DEF at

LEMMA StepsTaken ==
  ASSUME NEW S, NEW s \in Seq(S), NEW j \in DOMAIN s, NoneTwice(s), NEW r, r = Tree!RemovedAt(s, j)
  PROVE  r \in Seq(S) /\ NoneTwice(r) /\ StepsOf(r) = StepsOf(s) \ {s[j]}
<1>1. /\ r \in Seq(S) /\ Len(r) = Len(s) - 1 /\ Len(s) \in Nat /\ DOMAIN s = 1..Len(s)
      /\ DOMAIN r = 1..Len(r) /\ j \in 1..Len(s)
      /\ \A i \in 1..Len(r) : r[i] = IF i < j THEN s[i] ELSE s[i + 1]
  <2>1. r \in Seq(S) /\ Len(r) = Len(s) - 1 /\ \A i \in 1..Len(r) : r[i] = IF i < j THEN s[i] ELSE s[i + 1]
    BY LaneTaken
  <2> QED BY <2>1, LenProperties
<1>2. NoneTwice(r)
  <2> SUFFICES ASSUME NEW g \in 1..Len(r), NEW h \in 1..Len(r), r[g] = r[h] PROVE g = h
    BY <1>1 DEF NoneTwice
  <2>1. g < j => g \in DOMAIN s /\ r[g] = s[g]
    BY <1>1
  <2>2. h < j => h \in DOMAIN s /\ r[h] = s[h]
    BY <1>1
  <2>3. g >= j => g + 1 \in DOMAIN s /\ r[g] = s[g + 1]
    BY <1>1
  <2>4. h >= j => h + 1 \in DOMAIN s /\ r[h] = s[h + 1]
    BY <1>1
  <2> DEFINE x == IF g < j THEN g ELSE g + 1  y == IF h < j THEN h ELSE h + 1
  <2>5. x \in DOMAIN s /\ y \in DOMAIN s /\ s[x] = s[y]
    BY <1>1, <2>1, <2>2, <2>3, <2>4
  <2>6. x = y
    BY <2>5 DEF NoneTwice
  <2> QED BY <1>1, <2>6
<1>3. ASSUME NEW i \in 1..Len(r) PROVE r[i] \in StepsOf(s) \ {s[j]}
  <2> DEFINE x == IF i < j THEN i ELSE i + 1
  <2>1. x \in DOMAIN s /\ r[i] = s[x] /\ x # j
    BY <1>1
  <2> HIDE DEF x
  <2> QED BY <2>1 DEF NoneTwice, StepsOf
<1>4. ASSUME NEW i \in 1..Len(s), i # j PROVE s[i] \in StepsOf(r)
  <2>1. CASE i < j
    BY <1>1, <2>1 DEF StepsOf
  <2>2. CASE i > j
    <3>1. i - 1 \in 1..Len(r) /\ r[i - 1] = s[i]
      BY <1>1, <2>2
    <3> QED BY <1>1, <3>1 DEF StepsOf
  <2> QED BY <1>1, <1>4, <2>1, <2>2
<1>5. StepsOf(r) = StepsOf(s) \ {s[j]}
  <2>1. StepsOf(r) \subseteq StepsOf(s) \ {s[j]}
    BY <1>1, <1>3 DEF StepsOf
  <2>2. StepsOf(s) \ {s[j]} \subseteq StepsOf(r)
    BY <1>1, <1>4 DEF StepsOf
  <2> QED BY <2>1, <2>2
<1> QED BY <1>1, <1>2, <1>5

LEMMA StepsPut ==
  ASSUME NEW S, NEW s \in Seq(S), NEW i \in Nat, NEW n \in S, NoneTwice(s), n \notin StepsOf(s),
         NEW r, r = Tree!InsertedAt(s, i, n)
  PROVE  r \in Seq(S) /\ NoneTwice(r) /\ StepsOf(r) = StepsOf(s) \cup {n}
<1> DEFINE at == Gap(s, i)
<1>1. Len(s) \in Nat /\ DOMAIN s = 1..Len(s) /\ at \in 0..Len(s) /\ at \in Nat
  BY LenProperties DEF Gap
<1>2. /\ r \in Seq(S) /\ Len(r) = Len(s) + 1 /\ DOMAIN r = 1..Len(r)
      /\ \A h \in 1..Len(r) : r[h] = IF h <= at THEN s[h] ELSE IF h = at + 1 THEN n ELSE s[h - 1]
  <2>1. r \in Seq(S) /\ Splices(r, s, at, n)
    BY LanePut
  <2> HIDE DEF at
  <2> QED BY <2>1, LenProperties DEF Splices
<1> HIDE DEF at
<1>3. NoneTwice(r)
  <2> SUFFICES ASSUME NEW g \in 1..Len(r), NEW h \in 1..Len(r), r[g] = r[h] PROVE g = h
    BY <1>1, <1>2 DEF NoneTwice
  <2>1. \A x \in 1..Len(r) :
          /\ x <= at => x \in DOMAIN s /\ r[x] = s[x]
          /\ x > at + 1 => x - 1 \in DOMAIN s /\ r[x] = s[x - 1]
          /\ x = at + 1 => r[x] = n
    BY <1>1, <1>2
  <2>2. \A x \in DOMAIN s : s[x] # n
    BY DEF StepsOf
  <2>3. CASE g = at + 1 \/ h = at + 1
    <3>1. ASSUME NEW x \in 1..Len(r), x # at + 1 PROVE r[x] # n
      <4>1. x <= at \/ x > at + 1
        BY <1>1, <3>1
      <4> QED BY <2>1, <2>2, <4>1
    <3> QED BY <2>1, <2>3, <3>1
  <2>4. CASE g # at + 1 /\ h # at + 1
    <3> DEFINE x == IF g <= at THEN g ELSE g - 1  y == IF h <= at THEN h ELSE h - 1
    <3>1. x \in DOMAIN s /\ y \in DOMAIN s /\ s[x] = s[y]
      BY <1>1, <2>1, <2>4
    <3>2. x = y
      BY <3>1 DEF NoneTwice
    <3> QED BY <1>1, <2>4, <3>2
  <2> QED BY <2>3, <2>4
<1>4. ASSUME NEW h \in 1..Len(r) PROVE r[h] \in StepsOf(s) \cup {n}
  <2>1. h <= at => h \in DOMAIN s /\ r[h] = s[h]
    BY <1>1, <1>2
  <2>2. h > at + 1 => h - 1 \in DOMAIN s /\ r[h] = s[h - 1]
    BY <1>1, <1>2
  <2>3. h = at + 1 => r[h] = n
    BY <1>1, <1>2
  <2>4. \A x \in DOMAIN s : s[x] \in StepsOf(s)
    BY DEF StepsOf
  <2> QED BY <1>1, <2>1, <2>2, <2>3, <2>4
<1>5. n \in StepsOf(r)
  <2>1. at + 1 \in DOMAIN r /\ r[at + 1] = n
    BY <1>1, <1>2
  <2> QED BY <2>1 DEF StepsOf
<1>6. ASSUME NEW h \in 1..Len(s) PROVE s[h] \in StepsOf(r)
  <2>1. CASE h <= at
    <3>1. h \in DOMAIN r /\ r[h] = s[h]
      BY <1>1, <1>2, <2>1
    <3> QED BY <3>1 DEF StepsOf
  <2>2. CASE h > at
    <3>1. h + 1 \in DOMAIN r /\ r[h + 1] = s[h]
      BY <1>1, <1>2, <2>2
    <3> QED BY <3>1 DEF StepsOf
  <2> QED BY <1>1, <2>1, <2>2
<1>7. StepsOf(r) = StepsOf(s) \cup {n}
  BY <1>1, <1>2, <1>4, <1>5, <1>6 DEF StepsOf
<1> QED BY <1>2, <1>3, <1>7

IsPart(r, s, m, n) == Len(r) = n - m + 1 /\ \A i \in 1..n - m + 1 : r[i] = s[m + i - 1]
Lacks(r, s, j) == Len(r) = Len(s) - 1 /\ \A i \in 1..Len(r) : r[i] = IF i < j THEN s[i] ELSE s[i + 1]

LEMMA PartIs ==
  ASSUME NEW S, NEW s \in Seq(S), NEW m \in 1..Len(s) + 1, NEW n \in m - 1..Len(s)
  PROVE  SubSeq(s, m, n) \in Seq(S) /\ IsPart(SubSeq(s, m, n), s, m, n)
<1> DEFINE r == SubSeq(s, m, n)
<1>1. /\ r \in Seq(S) /\ Len(r) = n - m + 1
      /\ \A i \in 1..n - m + 1 : r[i] = s[m + i - 1]
  BY Part
<1> HIDE DEF r
<1>2. r \in Seq(S) /\ IsPart(r, s, m, n)
  BY <1>1 DEF IsPart
<1> QED BY <1>2 DEF r

\* A part of a lane has no step the lane has not, and none twice.
LEMMA PartOf ==
  ASSUME NEW S, NEW s \in Seq(S), NEW m \in 1..Len(s) + 1, NEW n \in m - 1..Len(s)
  PROVE  /\ StepsOf(SubSeq(s, m, n)) \subseteq StepsOf(s)
         /\ NoneTwice(s) => NoneTwice(SubSeq(s, m, n))
<1> DEFINE r == SubSeq(s, m, n)
<1> HIDE DEF r
<1>1. r \in Seq(S) /\ IsPart(r, s, m, n)
  BY PartIs DEF r
<1>2. Len(s) \in Nat /\ Len(r) = n - m + 1 /\ DOMAIN r = 1..n - m + 1 /\ DOMAIN s = 1..Len(s)
  BY <1>1, LenProperties DEF IsPart
<1>3. ASSUME NEW i \in 1..n - m + 1 PROVE m + i - 1 \in DOMAIN s /\ r[i] = s[m + i - 1]
  BY <1>1, <1>2 DEF IsPart
<1>4. StepsOf(r) \subseteq StepsOf(s)
  BY <1>2, <1>3 DEF StepsOf
<1>5. NoneTwice(s) => NoneTwice(r)
  <2> SUFFICES ASSUME NoneTwice(s), NEW g \in 1..n - m + 1, NEW h \in 1..n - m + 1, r[g] = r[h] PROVE g = h
    BY <1>2 DEF NoneTwice
  <2>1. m + g - 1 = m + h - 1
    BY <1>3 DEF NoneTwice
  <2> QED BY <2>1, <1>2
<1> QED BY <1>4, <1>5 DEF r

LEMMA WithoutAbsent ==
  ASSUME NEW S, NEW s \in Seq(S), NEW n, n \notin StepsOf(s)
  PROVE  Tree!Without(s, n) = s
BY DEF Tree!Without, StepsOf

LEMMA WithoutThere ==
  ASSUME NEW S, NEW s \in Seq(S), NEW j \in DOMAIN s, NoneTwice(s)
  PROVE  Tree!Without(s, s[j]) = Tree!RemovedAt(s, j)
<1>1. (CHOOSE i \in DOMAIN s : s[i] = s[j]) = j
  BY DEF NoneTwice
<1> QED BY <1>1 DEF Tree!Without

\* A step of another lane, put where it was shown.
LEMMA PutFromAway ==
  ASSUME NEW S, NEW s \in Seq(S), NEW i \in 0..Len(s), NEW n \in S, n \notin StepsOf(s)
  PROVE  Tree!InsertedAt(s, i, n) =
           Tree!Without(SubSeq(s, 1, i), n) \o <<n>> \o Tree!Without(SubSeq(s, i + 1, Len(s)), n)
<1>1. Len(s) \in Nat /\ DOMAIN s = 1..Len(s)
  BY LenProperties
<1>2. (IF i < Len(s) THEN i ELSE Len(s)) = i
  <2>1. i \in Nat /\ Len(s) \in Nat /\ i <= Len(s)
    BY <1>1
  <2> QED BY <2>1
<1>3. Tree!InsertedAt(s, i, n) = SubSeq(s, 1, i) \o <<n>> \o SubSeq(s, i + 1, Len(s))
  BY <1>2 DEF Tree!InsertedAt
<1>4. Tree!Without(SubSeq(s, 1, i), n) = SubSeq(s, 1, i)
  <2>1. 1 \in 1..Len(s) + 1 /\ i \in 1 - 1..Len(s)
    BY <1>1
  <2>2. SubSeq(s, 1, i) \in Seq(S)
    BY <2>1, PartIs
  <2>3. n \notin StepsOf(SubSeq(s, 1, i))
    BY <2>1, PartOf
  <2> QED BY <2>2, <2>3, WithoutAbsent
<1>5. Tree!Without(SubSeq(s, i + 1, Len(s)), n) = SubSeq(s, i + 1, Len(s))
  <2> DEFINE m == i + 1
  <2> HIDE DEF m
  <2>1. m \in 1..Len(s) + 1 /\ Len(s) \in m - 1..Len(s)
    BY <1>1 DEF m
  <2>2. SubSeq(s, m, Len(s)) \in Seq(S)
    BY <2>1, PartIs
  <2>3. n \notin StepsOf(SubSeq(s, m, Len(s)))
    BY <2>1, PartOf
  <2>4. Tree!Without(SubSeq(s, m, Len(s)), n) = SubSeq(s, m, Len(s))
    BY <2>2, <2>3, WithoutAbsent
  <2> QED BY <2>4 DEF m
<1> QED BY <1>3, <1>4, <1>5

LEMMA LaneLacks ==
  ASSUME NEW S, NEW s \in Seq(S), NEW j \in DOMAIN s
  PROVE  Tree!RemovedAt(s, j) \in Seq(S) /\ Lacks(Tree!RemovedAt(s, j), s, j)
<1> DEFINE r == Tree!RemovedAt(s, j)
<1>1. r \in Seq(S) /\ Len(r) = Len(s) - 1 /\ \A i \in 1..Len(r) : r[i] = IF i < j THEN s[i] ELSE s[i + 1]
  BY LaneTaken
<1> HIDE DEF r
<1>2. r \in Seq(S) /\ Lacks(r, s, j)
  BY <1>1 DEF Lacks
<1> QED BY <1>2 DEF r

\* A step of the same lane: the slots after it are one nearer once it is gone.
Nearer(i, j) == IF j <= i THEN i - 1 ELSE i

LEMMA PutFromWithin ==
  ASSUME NEW S, NEW s \in Seq(S), NEW i \in 0..Len(s), NEW j \in DOMAIN s, NEW n \in S, n = s[j],
         NoneTwice(s)
  PROVE  Tree!InsertedAt(Tree!RemovedAt(s, j), Nearer(i, j), n) =
           Tree!Without(SubSeq(s, 1, i), n) \o <<n>> \o Tree!Without(SubSeq(s, i + 1, Len(s)), n)
<1> DEFINE g == Nearer(i, j)  m == i + 1  e == g + 1
           R == Tree!RemovedAt(s, j)  A == SubSeq(s, 1, i)  B == SubSeq(s, m, Len(s))
           C == SubSeq(R, 1, g)  D == SubSeq(R, e, Len(R))
<1> HIDE DEF g, m, e, A, B, C, D, R
<1>1. Len(s) \in Nat /\ DOMAIN s = 1..Len(s) /\ j \in 1..Len(s)
  BY LenProperties
<1>2. R \in Seq(S) /\ Lacks(R, s, j)
  BY LaneLacks DEF R
<1>3. /\ g \in 0..Len(s) - 1 /\ g \in Nat /\ Len(R) = Len(s) - 1
      /\ (j <= i => g = i - 1) /\ (i < j => g = i) /\ m = i + 1 /\ e = g + 1
  BY <1>1, <1>2 DEF g, m, e, Nearer, Lacks
<1>4. Tree!InsertedAt(R, g, n) = C \o <<n>> \o D
  <2>0. g \in Nat /\ Len(R) \in Nat /\ g <= Len(R)
    BY <1>1, <1>3
  <2>1. (IF g < Len(R) THEN g ELSE Len(R)) = g
    BY <2>0
  <2> QED BY <2>1 DEF Tree!InsertedAt, C, D, e
<1>5. /\ A \in Seq(S) /\ Len(A) = i /\ DOMAIN A = 1..i /\ NoneTwice(A)
      /\ \A h \in 1..i : A[h] = s[h]
  <2>1. 1 \in 1..Len(s) + 1 /\ i \in 1 - 1..Len(s)
    BY <1>1
  <2>2. A \in Seq(S) /\ IsPart(A, s, 1, i)
    BY <2>1, PartIs DEF A
  <2>20. NoneTwice(A)
    BY <2>1, PartOf DEF A
  <2>3. Len(A) = i
    BY <1>1, <2>2 DEF IsPart
  <2>4. ASSUME NEW h \in 1..i PROVE A[h] = s[h]
    <3>1. h \in 1..i - 1 + 1 /\ 1 + h - 1 = h
      BY <1>1
    <3> QED BY <2>2, <3>1 DEF IsPart
  <2> QED BY <2>2, <2>20, <2>3, <2>4, LenProperties
<1>6. /\ B \in Seq(S) /\ Len(B) = Len(s) - i /\ DOMAIN B = 1..Len(s) - i /\ NoneTwice(B)
      /\ \A h \in 1..Len(s) - i : B[h] = s[h + i]
  <2>1. m \in 1..Len(s) + 1 /\ Len(s) \in m - 1..Len(s)
    BY <1>1, <1>3
  <2>2. B \in Seq(S) /\ IsPart(B, s, m, Len(s))
    BY <2>1, PartIs DEF B
  <2>20. NoneTwice(B)
    BY <2>1, PartOf DEF B
  <2>3. Len(B) = Len(s) - i
    BY <1>1, <1>3, <2>2 DEF IsPart
  <2>4. ASSUME NEW h \in 1..Len(s) - i PROVE B[h] = s[h + i]
    <3>1. h \in 1..Len(s) - m + 1 /\ m + h - 1 = h + i
      BY <1>1, <1>3
    <3> QED BY <2>2, <3>1 DEF IsPart
  <2> QED BY <2>2, <2>20, <2>3, <2>4, LenProperties
<1>7. C \in Seq(S) /\ Len(C) = g /\ \A h \in 1..g : C[h] = R[h]
  <2>1. 1 \in 1..Len(R) + 1 /\ g \in 1 - 1..Len(R)
    BY <1>1, <1>3
  <2>2. C \in Seq(S) /\ IsPart(C, R, 1, g)
    BY <1>2, <2>1, PartIs DEF C
  <2>3. Len(C) = g
    BY <1>3, <2>2 DEF IsPart
  <2>4. ASSUME NEW h \in 1..g PROVE C[h] = R[h]
    <3>1. h \in 1..g - 1 + 1 /\ 1 + h - 1 = h
      BY <1>3
    <3> QED BY <2>2, <3>1 DEF IsPart
  <2> QED BY <2>2, <2>3, <2>4
<1>8. /\ D \in Seq(S) /\ Len(D) = Len(s) - 1 - g
      /\ \A h \in 1..Len(s) - 1 - g : D[h] = R[h + g]
  <2>1. e \in 1..Len(R) + 1 /\ Len(R) \in e - 1..Len(R)
    BY <1>1, <1>3
  <2>2. D \in Seq(S) /\ IsPart(D, R, e, Len(R))
    BY <1>2, <2>1, PartIs DEF D
  <2>3. Len(D) = Len(s) - 1 - g
    <3>1. Len(D) = Len(R) - e + 1
      BY <2>2 DEF IsPart
    <3> QED BY <1>1, <1>3, <3>1
  <2>4. ASSUME NEW h \in 1..Len(s) - 1 - g PROVE D[h] = R[h + g]
    <3>1. h \in 1..Len(R) - e + 1 /\ e + h - 1 = h + g
      BY <1>1, <1>3
    <3> QED BY <2>2, <3>1 DEF IsPart
  <2> QED BY <2>2, <2>3, <2>4
<1>9. CASE j <= i
  <2>1. g = i - 1 /\ j \in DOMAIN A /\ A[j] = n
    BY <1>1, <1>3, <1>5, <1>9
  <2> DEFINE E == Tree!RemovedAt(A, j)
  <2> HIDE DEF E
  <2>2. Tree!Without(A, n) = E
    BY <1>5, <2>1, WithoutThere DEF E
  <2>3. E \in Seq(S) /\ Lacks(E, A, j)
    BY <1>5, <2>1, LaneLacks DEF E
  <2>30. Len(E) = g
    BY <1>1, <1>5, <2>1, <2>3 DEF Lacks
  <2>4. ASSUME NEW h \in 1..g PROVE C[h] = E[h]
    <3>1. h \in 1..Len(R) /\ h \in 1..Len(E) /\ h \in 1..i /\ h + 1 \in 1..i
      BY <1>1, <1>3, <2>1, <2>30
    <3>2. R[h] = (IF h < j THEN s[h] ELSE s[h + 1]) /\ E[h] = (IF h < j THEN A[h] ELSE A[h + 1])
      BY <1>2, <2>3, <3>1 DEF Lacks
    <3> QED BY <1>5, <1>7, <3>1, <3>2
  <2>5. C = E
    <3>1. Len(C) = Len(E)
      BY <1>7, <2>30
    <3> QED BY <1>7, <2>3, <2>4, <3>1, SeqEqual
  <2>6. ASSUME NEW h \in 1..Len(s) - i PROVE D[h] = B[h]
    <3>1. h \in 1..Len(s) - 1 - g /\ h + g \in 1..Len(R) /\ ~(h + g < j) /\ h + g + 1 = h + i
      BY <1>1, <1>3, <1>9, <2>1
    <3>2. R[h + g] = s[h + g + 1]
      BY <1>2, <3>1 DEF Lacks
    <3> QED BY <1>6, <1>8, <3>1, <3>2
  <2>7. D = B
    <3>1. Len(s) - 1 - g = Len(s) - i
      BY <1>1, <2>1
    <3>2. Len(D) = Len(B) /\ Len(D) = Len(s) - i
      BY <1>6, <1>8, <3>1
    <3> QED BY <1>6, <1>8, <2>6, <3>2, SeqEqual
  <2>8. Tree!Without(B, n) = B
    <3>1. ASSUME NEW h \in 1..Len(s) - i PROVE B[h] # n
      <4>1. h + i \in DOMAIN s /\ h + i # j
        BY <1>1, <1>9
      <4> QED BY <1>6, <4>1 DEF NoneTwice
    <3>2. n \notin StepsOf(B)
      BY <1>6, <3>1 DEF StepsOf
    <3> QED BY <1>6, <3>2, WithoutAbsent
  <2> QED BY <1>4, <2>2, <2>5, <2>7, <2>8 DEF A, B, R, E, g, m
<1>10. CASE i < j
  <2>1. g = i /\ j - i \in DOMAIN B /\ B[j - i] = n
    <3>1. j - i \in 1..Len(s) - i /\ j - i + i = j
      BY <1>1, <1>10
    <3> QED BY <1>1, <1>3, <1>6, <1>10, <3>1
  <2> DEFINE d == j - i  E == Tree!RemovedAt(B, d)
  <2> HIDE DEF d, E
  <2>2. Tree!Without(B, n) = E
    BY <1>6, <2>1, WithoutThere DEF E, d
  <2>3. E \in Seq(S) /\ Lacks(E, B, d)
    BY <1>6, <2>1, LaneLacks DEF E, d
  <2>30. Len(E) = Len(s) - 1 - g /\ d = j - i
    BY <1>1, <1>6, <2>1, <2>3 DEF Lacks, d
  <2>4. ASSUME NEW h \in 1..Len(s) - 1 - g PROVE D[h] = E[h]
    <3>1. /\ h + g \in 1..Len(R) /\ (h + g < j <=> h < d) /\ h \in 1..Len(E)
          /\ h \in 1..Len(s) - i /\ h + 1 \in 1..Len(s) - i /\ h + g + 1 = h + 1 + i /\ h + g = h + i
      BY <1>1, <1>3, <1>10, <2>1, <2>30
    <3>2. /\ R[h + g] = (IF h + g < j THEN s[h + g] ELSE s[h + g + 1])
          /\ E[h] = (IF h < d THEN B[h] ELSE B[h + 1])
      BY <1>2, <2>3, <3>1 DEF Lacks
    <3> QED BY <1>6, <1>8, <3>1, <3>2
  <2>5. D = E
    <3>1. Len(D) = Len(E)
      BY <1>8, <2>30
    <3> QED BY <1>8, <2>3, <2>4, <3>1, SeqEqual
  <2>6. ASSUME NEW h \in 1..i PROVE C[h] = A[h]
    <3>1. h \in 1..g /\ h \in 1..Len(R) /\ h < j
      BY <1>1, <1>3, <1>10, <2>1
    <3>2. R[h] = s[h]
      BY <1>2, <3>1 DEF Lacks
    <3> QED BY <1>5, <1>7, <3>1, <3>2
  <2>7. C = A
    <3>1. Len(C) = Len(A) /\ Len(C) = i
      BY <1>5, <1>7, <2>1
    <3> QED BY <1>5, <1>7, <2>6, <3>1, SeqEqual
  <2>8. Tree!Without(A, n) = A
    <3>1. ASSUME NEW h \in 1..i PROVE A[h] # n
      <4>1. h \in DOMAIN s /\ h # j
        BY <1>1, <1>10
      <4> QED BY <1>5, <4>1 DEF NoneTwice
    <3>2. n \notin StepsOf(A)
      BY <1>5, <3>1 DEF StepsOf
    <3> QED BY <1>5, <3>2, WithoutAbsent
  <2> QED BY <1>4, <2>2, <2>5, <2>7, <2>8 DEF A, B, R, E, g, m
<1> QED BY <1>1, <1>9, <1>10

------------------------------------------------------------------------------
(* The tree of a policy. *)

\* The lanes that are shown, when the steps are of these types.
Under(l, ty) == {Tree!Root} \cup {k \in Tree!Lanes : k # Tree!Root /\ k[1] \in StepsOf(l[Tree!Root]) /\ ty[k[1]] = "condition"}

\* A tree as the builder grows it: no step stands in it twice, none under the
\* root is a condition's equal, and what is not shown is empty.
Laned(l) ==
  /\ l \in [Tree!Lanes -> Seq(Tree!Nodes)]
  /\ \A k \in Tree!Lanes : NoneTwice(l[k])
  /\ \A k, m \in Tree!Lanes : k # m => StepsOf(l[k]) \cap StepsOf(l[m]) = {}
Grown(l, ty) ==
  /\ Laned(l)
  /\ \A k \in Tree!Lanes : \A n \in StepsOf(l[k]) : ty[n] # "none" /\ (k # Tree!Root => ty[n] # "condition")
  /\ \A k \in Tree!Lanes \ Under(l, ty) : StepsOf(l[k]) = {}

LEMMA TreeTypes ==
  /\ MaxNodes \in Nat /\ Tree!Nodes = 1..MaxNodes /\ 0 \notin Tree!Nodes
  /\ Tree!Root \in Tree!Lanes /\ Tree!Root[1] = 0
  /\ \A k \in Tree!Lanes : k = Tree!Root \/ (k[1] \in Tree!Nodes /\ k[1] # 0 /\ k[2] \in {"then", "else"} /\ k = <<k[1], k[2]>>)
  /\ \A n \in Tree!Nodes : <<n, "then">> \in Tree!Lanes /\ <<n, "else">> \in Tree!Lanes
  /\ Tree!Nothing.move = 0 /\ Tree!Nothing.block = "none" /\ Tree!Nothing = [move |-> 0, block |-> "none"]
<1>1. MaxNodes \in Nat
  BY PageAssumption DEF Tree!TreeAssumption
<1> QED BY <1>1 DEF Tree!Nodes, Tree!Lanes, Tree!Root, Tree!Nothing

LEMMA TreeShown ==
  ASSUME NEW l
  PROVE  /\ Tree!Shown(l) = Under(l, type)
         /\ \A n : n \in Tree!Present(l) <=> \E k \in Under(l, type) : n \in StepsOf(l[k])
<1>1. \A n : Tree!OnCanvas(l, n) <=> n \in StepsOf(l[Tree!Root])
  BY DEF Tree!OnCanvas, StepsOf
<1>2. Tree!Shown(l) = Under(l, type)
  BY <1>1, TreeTypes DEF Tree!Shown, Under
<1>3. ASSUME NEW n PROVE n \in Tree!Present(l) <=> \E k \in Under(l, type) : n \in StepsOf(l[k])
  BY <1>2 DEF Tree!Present, StepsOf
<1> QED BY <1>2, <1>3

\* Of a grown tree, what stands in it at all is shown.
LEMMA TreePresent ==
  ASSUME NEW l, Grown(l, type)
  PROVE  /\ \A k \in Tree!Lanes : StepsOf(l[k]) \subseteq Tree!Present(l)
         /\ Tree!Present(l) \subseteq Tree!Nodes
         /\ \A n \in Tree!Present(l) : \E k \in Tree!Lanes : k \in Under(l, type) /\ n \in StepsOf(l[k])
<1>1. Under(l, type) \subseteq Tree!Lanes
  BY TreeTypes DEF Under
<1>2. \A k \in Tree!Lanes : StepsOf(l[k]) \subseteq Tree!Nodes
  <2> SUFFICES ASSUME NEW k \in Tree!Lanes PROVE StepsOf(l[k]) \subseteq Tree!Nodes
    OBVIOUS
  <2>1. l[k] \in Seq(Tree!Nodes)
    BY DEF Grown, Laned
  <2> QED BY <2>1, LenProperties DEF StepsOf
<1>3. \A n : n \in Tree!Present(l) <=> \E k \in Under(l, type) : n \in StepsOf(l[k])
  BY TreeShown
<1>4. \A k \in Tree!Lanes : StepsOf(l[k]) \subseteq Tree!Present(l)
  BY <1>3 DEF Grown
<1>5. \A n \in Tree!Present(l) : \E k \in Under(l, type) : n \in StepsOf(l[k])
  BY <1>3
<1> QED BY <1>1, <1>2, <1>4, <1>5

\* The lanes without the step at a place, and with one more in a gap.
TakenFrom(l, k, j) == [l EXCEPT ![k] = Tree!RemovedAt(l[k], j)]
PutInto(l, k, i, n) == [l EXCEPT ![k] = Tree!InsertedAt(l[k], i, n)]
Loses(r, l, n) == \A m \in Tree!Lanes : StepsOf(r[m]) = StepsOf(l[m]) \ {n}
Gains(r, l, k, n) ==
  /\ StepsOf(r[k]) = StepsOf(l[k]) \cup {n}
  /\ \A m \in Tree!Lanes \ {k} : StepsOf(r[m]) = StepsOf(l[m])

LEMMA TreeTaken ==
  ASSUME NEW l, Laned(l), NEW k \in Tree!Lanes, NEW j \in DOMAIN l[k]
  PROVE  Laned(TakenFrom(l, k, j)) /\ Loses(TakenFrom(l, k, j), l, l[k][j])
<1> DEFINE r == TakenFrom(l, k, j)  n == l[k][j]
<1>1. l[k] \in Seq(Tree!Nodes) /\ NoneTwice(l[k]) /\ n \in StepsOf(l[k])
  BY DEF Laned, StepsOf
<1>2. /\ Tree!RemovedAt(l[k], j) \in Seq(Tree!Nodes) /\ NoneTwice(Tree!RemovedAt(l[k], j))
      /\ StepsOf(Tree!RemovedAt(l[k], j)) = StepsOf(l[k]) \ {n}
  BY <1>1, StepsTaken
<1>3. /\ r \in [Tree!Lanes -> Seq(Tree!Nodes)] /\ r[k] = Tree!RemovedAt(l[k], j)
      /\ \A m \in Tree!Lanes \ {k} : r[m] = l[m]
  BY <1>2 DEF Laned, TakenFrom
<1> HIDE DEF r, n
<1>4. ASSUME NEW m \in Tree!Lanes PROVE StepsOf(r[m]) = StepsOf(l[m]) \ {n}
  <2>1. CASE m = k
    BY <1>2, <1>3, <2>1
  <2>2. CASE m # k
    <3>1. n \notin StepsOf(l[m])
      BY <1>1, <2>2 DEF Laned
    <3> QED BY <1>3, <2>2, <3>1
  <2> QED BY <2>1, <2>2
<1>5. \A m \in Tree!Lanes : NoneTwice(r[m])
  BY <1>2, <1>3 DEF Laned
<1>6. Laned(r)
  BY <1>3, <1>4, <1>5 DEF Laned
<1>7. Laned(r) /\ Loses(r, l, n)
  BY <1>4, <1>6 DEF Loses
<1> QED BY <1>7 DEF r, n

LEMMA TreePut ==
  ASSUME NEW l, Laned(l), NEW k \in Tree!Lanes, NEW i \in Nat, NEW n \in Tree!Nodes,
         \A m \in Tree!Lanes : n \notin StepsOf(l[m])
  PROVE  Laned(PutInto(l, k, i, n)) /\ Gains(PutInto(l, k, i, n), l, k, n)
<1> DEFINE r == PutInto(l, k, i, n)
<1>1. l[k] \in Seq(Tree!Nodes) /\ NoneTwice(l[k]) /\ n \notin StepsOf(l[k])
  BY DEF Laned
<1>2. /\ Tree!InsertedAt(l[k], i, n) \in Seq(Tree!Nodes) /\ NoneTwice(Tree!InsertedAt(l[k], i, n))
      /\ StepsOf(Tree!InsertedAt(l[k], i, n)) = StepsOf(l[k]) \cup {n}
  BY <1>1, StepsPut
<1>3. /\ r \in [Tree!Lanes -> Seq(Tree!Nodes)] /\ r[k] = Tree!InsertedAt(l[k], i, n)
      /\ \A m \in Tree!Lanes \ {k} : r[m] = l[m]
  BY <1>2 DEF Laned, PutInto
<1> HIDE DEF r
<1>4. StepsOf(r[k]) = StepsOf(l[k]) \cup {n} /\ \A m \in Tree!Lanes \ {k} : StepsOf(r[m]) = StepsOf(l[m])
  BY <1>2, <1>3
<1>5. \A m \in Tree!Lanes : NoneTwice(r[m])
  BY <1>2, <1>3 DEF Laned
<1>6. ASSUME NEW p \in Tree!Lanes, NEW q \in Tree!Lanes, p # q PROVE StepsOf(r[p]) \cap StepsOf(r[q]) = {}
  <2>1. StepsOf(l[p]) \cap StepsOf(l[q]) = {} /\ n \notin StepsOf(l[p]) /\ n \notin StepsOf(l[q])
    BY <1>6 DEF Laned
  <2> QED BY <1>4, <1>6, <2>1
<1>7. Laned(r)
  BY <1>3, <1>5, <1>6 DEF Laned
<1>8. Laned(r) /\ Gains(r, l, k, n)
  BY <1>4, <1>7 DEF Gains
<1> QED BY <1>8 DEF r

\* Where a step that is present stands.
LEMMA TreeFinds ==
  ASSUME NEW l, Grown(l, type), NEW n \in Tree!Present(l)
  PROVE  /\ Tree!LaneOf(l, n) \in Tree!Shown(l) /\ Tree!LaneOf(l, n) \in Tree!Lanes
         /\ Tree!IndexOf(l, n) \in DOMAIN l[Tree!LaneOf(l, n)]
         /\ l[Tree!LaneOf(l, n)][Tree!IndexOf(l, n)] = n /\ n \in Tree!Nodes
         /\ \A k \in Tree!Lanes : n \in StepsOf(l[k]) => k = Tree!LaneOf(l, n)
<1>1. PICK m \in Tree!Shown(l) : \E i \in DOMAIN l[m] : l[m][i] = n
  BY TreePresent, TreeShown DEF StepsOf
<1>2. Tree!LaneOf(l, n) \in Tree!Shown(l) /\ \E i \in DOMAIN l[Tree!LaneOf(l, n)] : l[Tree!LaneOf(l, n)][i] = n
  BY <1>1 DEF Tree!LaneOf
<1>3. Tree!IndexOf(l, n) \in DOMAIN l[Tree!LaneOf(l, n)] /\ l[Tree!LaneOf(l, n)][Tree!IndexOf(l, n)] = n
  BY <1>2 DEF Tree!IndexOf
<1>4. Tree!LaneOf(l, n) \in Tree!Lanes /\ n \in Tree!Nodes
  BY <1>2, TreeShown, TreePresent, TreeTypes DEF Under
<1>5. n \in StepsOf(l[Tree!LaneOf(l, n)])
  BY <1>3 DEF StepsOf
<1>6. \A k \in Tree!Lanes : n \in StepsOf(l[k]) => k = Tree!LaneOf(l, n)
  BY <1>4, <1>5 DEF Grown, Laned
<1> QED BY <1>2, <1>3, <1>4, <1>6

LEMMA TreeMoved ==
  ASSUME NEW l, Grown(l, type), NEW n \in Tree!Present(l), NEW k \in Tree!Shown(l),
         NEW i \in 0..Len(l[k]), Tree!CanDrop(type[n], k)
  PROVE  /\ Tree!MoveNode(l, n, k, i) = Tree!InGap(l, n, k, i)
         /\ Grown(Tree!MoveNode(l, n, k, i), type)
         /\ Tree!Present(Tree!MoveNode(l, n, k, i)) = Tree!Present(l)
<1> DEFINE from == Tree!LaneOf(l, n)  j == Tree!IndexOf(l, n)
           r == TakenFrom(l, from, j)
           g == Tree!Target(l, n, k, i)
           t == PutInto(r, k, g, n)
<1> HIDE DEF from, j, r, g, t
<1>1. /\ from \in Tree!Shown(l) /\ from \in Tree!Lanes /\ j \in DOMAIN l[from] /\ l[from][j] = n
      /\ n \in Tree!Nodes /\ \A m \in Tree!Lanes : n \in StepsOf(l[m]) => m = from
  BY TreeFinds DEF from, j
<1>2. k \in Tree!Lanes /\ k \in Under(l, type)
  BY TreeShown, TreeTypes DEF Under
<1>3. Laned(r) /\ \A m \in Tree!Lanes : StepsOf(r[m]) = StepsOf(l[m]) \ {n}
  <2>1. Laned(l) /\ from \in Tree!Lanes /\ j \in DOMAIN l[from] /\ n = l[from][j]
    BY <1>1 DEF Grown
  <2>2. Laned(TakenFrom(l, from, j)) /\ Loses(TakenFrom(l, from, j), l, l[from][j])
    BY <2>1, TreeTaken
  <2> QED BY <2>1, <2>2 DEF r, Loses
<1>4. /\ l \in [Tree!Lanes -> Seq(Tree!Nodes)] /\ l[from] \in Seq(Tree!Nodes) /\ NoneTwice(l[from])
      /\ l[k] \in Seq(Tree!Nodes) /\ Len(l[k]) \in Nat
      /\ r[from] = Tree!RemovedAt(l[from], j) /\ \A m \in Tree!Lanes \ {from} : r[m] = l[m]
  <2>1. l \in [Tree!Lanes -> Seq(Tree!Nodes)] /\ NoneTwice(l[from])
    BY <1>1 DEF Grown, Laned
  <2> QED BY <1>1, <1>2, <2>1, LenProperties DEF r, TakenFrom
<1>5. n \in StepsOf(l[from]) /\ \A m \in Tree!Lanes \ {from} : n \notin StepsOf(l[m])
  BY <1>1 DEF StepsOf
<1>6. k # Tree!Root => type[n] # "condition" /\ k[1] # n
  <2>1. k # Tree!Root => type[n] # "condition" /\ type[k[1]] = "condition"
    BY <1>2 DEF Tree!CanDrop, Under
  <2> QED BY <2>1
<1>7. k \in Tree!Shown(r)
  <2>1. k # Tree!Root => k[1] \in StepsOf(r[Tree!Root]) /\ type[k[1]] = "condition"
    BY <1>2, <1>3, <1>6, TreeTypes DEF Under
  <2> QED BY <1>2, <2>1, TreeShown DEF Under
<1>8. g = (IF from = k /\ j <= i THEN i - 1 ELSE i) /\ g \in Nat
  <2>1. g = IF from = k /\ j <= i THEN i - 1 ELSE i
    BY DEF g, from, j, Tree!Target
  <2>2. from = k => j \in 1..Len(l[k])
    BY <1>1, <1>4, LenProperties
  <2>3. i \in Nat /\ (from = k => j \in Nat /\ 1 <= j)
    BY <1>4, <2>2
  <2> QED BY <2>1, <2>3
<1>9. Tree!MoveNode(l, n, k, i) = t
  <2>1. Tree!WithLane(l, from, Tree!RemovedAt(l[from], j)) = r
    BY <1>1 DEF Tree!WithLane, r, TakenFrom
  <2>2. Tree!GetLane(r, k) = r[k] /\ Tree!WithLane(r, k, Tree!InsertedAt(r[k], g, n)) = t
    BY <1>7 DEF Tree!GetLane, Tree!WithLane, t, PutInto
  <2> QED BY <2>1, <2>2 DEF Tree!MoveNode, from, j, g
<1>10. /\ Laned(t) /\ StepsOf(t[k]) = StepsOf(r[k]) \cup {n}
       /\ \A m \in Tree!Lanes \ {k} : StepsOf(t[m]) = StepsOf(r[m])
  <2>1. \A m \in Tree!Lanes : n \notin StepsOf(r[m])
    BY <1>3
  <2>3. Laned(r) /\ k \in Tree!Lanes /\ g \in Nat /\ n \in Tree!Nodes
    BY <1>1, <1>2, <1>3, <1>8
  <2>4. Laned(PutInto(r, k, g, n)) /\ Gains(PutInto(r, k, g, n), r, k, n)
    BY <2>1, <2>3, TreePut
  <2> QED BY <2>4 DEF t, Gains
<1>11. /\ t \in [Tree!Lanes -> Seq(Tree!Nodes)] /\ t[k] = Tree!InsertedAt(r[k], g, n)
       /\ \A m \in Tree!Lanes \ {k} : t[m] = r[m]
  <2>1. r \in [Tree!Lanes -> Seq(Tree!Nodes)] /\ t \in [Tree!Lanes -> Seq(Tree!Nodes)]
    BY <1>3, <1>10 DEF Laned
  <2> QED BY <1>2, <2>1 DEF t, PutInto
<1>12. t = Tree!InGap(l, n, k, i)
  <2> DEFINE there == Tree!Without(SubSeq(l[k], 1, i), n) \o <<n>> \o Tree!Without(SubSeq(l[k], i + 1, Len(l[k])), n)
  <2> HIDE DEF there
  <2>1. t[k] = there
    <3>1. CASE from = k
      <4>1. j \in DOMAIN l[k] /\ n = l[k][j] /\ NoneTwice(l[k]) /\ n \in Tree!Nodes
        BY <1>1, <1>4, <3>1
      <4>2. Tree!InsertedAt(Tree!RemovedAt(l[k], j), Nearer(i, j), n) = there
        BY <1>4, <4>1, PutFromWithin DEF there
      <4>3. g = Nearer(i, j)
        BY <1>8, <3>1 DEF Nearer
      <4> QED BY <1>4, <1>11, <3>1, <4>2, <4>3
    <3>2. CASE from # k
      <4>1. Tree!InsertedAt(l[k], i, n) = there
        <5>1. l[k] \in Seq(Tree!Nodes) /\ i \in 0..Len(l[k]) /\ n \in Tree!Nodes /\ n \notin StepsOf(l[k])
          BY <1>1, <1>2, <1>4, <1>5, <3>2
        <5> QED BY <5>1, PutFromAway DEF there
      <4> QED BY <1>2, <1>4, <1>8, <1>11, <3>2, <4>1
    <3> QED BY <3>1, <3>2
  <2>2. ASSUME NEW m \in Tree!Lanes, m # k PROVE t[m] = Tree!Without(l[m], n)
    <3>1. CASE m = from
      <4>1. Tree!Without(l[from], n) = Tree!RemovedAt(l[from], j)
        BY <1>1, <1>4, WithoutThere
      <4> QED BY <1>4, <1>11, <2>2, <3>1, <4>1
    <3>2. CASE m # from
      <4>1. l[m] \in Seq(Tree!Nodes) /\ n \notin StepsOf(l[m])
        BY <1>4, <1>5, <3>2
      <4>2. Tree!Without(l[m], n) = l[m]
        BY <4>1, WithoutAbsent
      <4> QED BY <1>4, <1>11, <2>2, <3>2, <4>2
    <3> QED BY <3>1, <3>2
  <2>3. Tree!InGap(l, n, k, i) = [m \in Tree!Lanes |-> IF m = k THEN there ELSE Tree!Without(l[m], n)]
    BY DEF Tree!InGap, there
  <2> QED BY <1>11, <2>1, <2>2, <2>3
<1>13. /\ \A m \in Tree!Lanes \ {k} : StepsOf(t[m]) = StepsOf(l[m]) \ {n}
       /\ StepsOf(t[k]) = (StepsOf(l[k]) \ {n}) \cup {n}
  BY <1>2, <1>3, <1>10
<1>14. type[n] # "none" /\ (k # Tree!Root => type[n] # "condition")
  BY <1>1, <1>5, <1>6 DEF Grown
<1>15. Under(t, type) = Under(l, type)
  <2>1. from # Tree!Root => type[n] # "condition"
    BY <1>1, <1>5 DEF Grown
  <2>2. k # Tree!Root => type[n] # "condition"
    BY <1>6
  <2>3. \A x : x # n => (x \in StepsOf(t[Tree!Root]) <=> x \in StepsOf(l[Tree!Root]))
    BY <1>2, <1>13, TreeTypes
  <2>4. type[n] = "condition" => (n \in StepsOf(t[Tree!Root]) <=> n \in StepsOf(l[Tree!Root]))
    BY <1>5, <1>13, <2>1, <2>2
  <2> QED BY <2>3, <2>4 DEF Under
<1>16. Grown(t, type)
  <2>1. ASSUME NEW m \in Tree!Lanes, NEW x \in StepsOf(t[m])
        PROVE  type[x] # "none" /\ (m # Tree!Root => type[x] # "condition")
    BY <1>2, <1>13, <1>14 DEF Grown
  <2>2. ASSUME NEW m \in Tree!Lanes \ Under(t, type) PROVE StepsOf(t[m]) = {}
    BY <1>2, <1>13, <1>15 DEF Grown
  <2> QED BY <1>10, <2>1, <2>2 DEF Grown
<1>17. Tree!Present(t) = Tree!Present(l)
  <2>1. Tree!Present(t) \subseteq Tree!Present(l)
    BY <1>2, <1>13, <1>16, TreePresent
  <2>2. Tree!Present(l) \subseteq Tree!Present(t)
    BY <1>2, <1>13, <1>16, TreePresent
  <2> QED BY <2>1, <2>2
<1> QED BY <1>9, <1>12, <1>16, <1>17

\* A new step is put into a lane that is shown.
LEMMA TreeGrows ==
  ASSUME NEW l, Grown(l, type), type \in [Tree!Nodes -> Tree!Types \cup {"none"}], NEW n \in Tree!Nodes,
         type[n] = "none", NEW t \in Tree!Types, NEW k \in Tree!Shown(l), Tree!CanDrop(t, k), NEW i \in Nat
  PROVE  /\ Grown(Tree!InsertNode(l, k, i, n, t), [type EXCEPT ![n] = t])
         /\ Tree!Present(l) \subseteq Tree!Present(Tree!InsertNode(l, k, i, n, t))
         /\ i <= Len(l[k]) => Tree!InsertNode(l, k, i, n, t) = Tree!InGap(l, n, k, i)
<1> DEFINE r == PutInto(l, k, i, n)  ty == [type EXCEPT ![n] = t]
<1> HIDE DEF r, ty
<1>1. k \in Tree!Lanes /\ k \in Under(l, type)
  BY TreeShown, TreeTypes DEF Under
<1>2. Tree!InsertNode(l, k, i, n, t) = r
  BY DEF Tree!InsertNode, Tree!GetLane, Tree!WithLane, r, PutInto
<1>3. Laned(l) /\ \A m \in Tree!Lanes : n \notin StepsOf(l[m])
  BY DEF Grown
<1>4. Laned(r) /\ Gains(r, l, k, n)
  BY <1>1, <1>3, TreePut DEF r
<1>5. ty[n] = t /\ \A x \in Tree!Nodes \ {n} : ty[x] = type[x]
  BY DEF ty
<1>6. \A m \in Tree!Lanes : StepsOf(l[m]) \subseteq StepsOf(r[m]) /\ (m # k => StepsOf(r[m]) = StepsOf(l[m]))
  BY <1>4 DEF Gains
<1>7. \A m \in Tree!Lanes : StepsOf(l[m]) \subseteq Tree!Nodes
  BY TreePresent
<1>8. Under(l, type) \subseteq Under(r, ty) /\ Under(l, type) \subseteq Under(r, type)
  <2>1. ASSUME NEW m \in Under(l, type), m # Tree!Root
        PROVE  m \in Tree!Lanes /\ m[1] \in StepsOf(r[Tree!Root]) /\ ty[m[1]] = "condition" /\ type[m[1]] = "condition"
    <3>1. m \in Tree!Lanes /\ m[1] \in StepsOf(l[Tree!Root]) /\ type[m[1]] = "condition"
      BY <2>1 DEF Under
    <3>2. m[1] \in Tree!Nodes \ {n}
      BY <1>3, <1>7, <3>1, TreeTypes
    <3> QED BY <1>5, <1>6, <3>1, <3>2, TreeTypes
  <2> QED BY <2>1 DEF Under
<1>9. ASSUME NEW m \in Tree!Lanes, NEW x \in StepsOf(r[m]) PROVE ty[x] # "none" /\ (m # Tree!Root => ty[x] # "condition")
  <2>1. CASE x = n
    <3>1. m = k
      BY <1>3, <1>6, <2>1
    <3> QED BY <1>5, <2>1, <3>1 DEF Tree!CanDrop, Tree!Types
  <2>2. CASE x # n
    <3>1. x \in StepsOf(l[m])
      BY <1>4, <1>6, <2>2 DEF Gains
    <3>2. ty[x] = type[x]
      BY <1>5, <1>7, <2>2, <3>1
    <3> QED BY <3>1, <3>2 DEF Grown
  <2> QED BY <2>1, <2>2
<1>10. ASSUME NEW m \in Tree!Lanes \ Under(r, ty) PROVE StepsOf(r[m]) = {}
  <2>1. m # k /\ m \in Tree!Lanes \ Under(l, type)
    BY <1>1, <1>8
  <2> QED BY <1>6, <2>1 DEF Grown
<1>11. Grown(r, ty)
  BY <1>4, <1>9, <1>10 DEF Grown
<1>12. Tree!Present(l) \subseteq Tree!Present(r)
  <2>1. ASSUME NEW x \in Tree!Present(l) PROVE x \in Tree!Present(r)
    <3>1. PICK m \in Tree!Lanes : m \in Under(l, type) /\ x \in StepsOf(l[m])
      BY TreePresent
    <3>2. m \in Under(r, type) /\ x \in StepsOf(r[m])
      BY <1>6, <1>8, <3>1
    <3> QED BY <3>2, TreeShown
  <2> QED BY <2>1
<1>13. ASSUME i <= Len(l[k]) PROVE r = Tree!InGap(l, n, k, i)
  <2> DEFINE there == Tree!Without(SubSeq(l[k], 1, i), n) \o <<n>> \o Tree!Without(SubSeq(l[k], i + 1, Len(l[k])), n)
  <2> HIDE DEF there
  <2>1. l \in [Tree!Lanes -> Seq(Tree!Nodes)] /\ r \in [Tree!Lanes -> Seq(Tree!Nodes)]
    BY <1>3, <1>4 DEF Laned
  <2>2. r[k] = Tree!InsertedAt(l[k], i, n) /\ \A m \in Tree!Lanes \ {k} : r[m] = l[m]
    BY <1>1, <2>1 DEF r, PutInto
  <2>3. Tree!InsertedAt(l[k], i, n) = there
    <3>1. l[k] \in Seq(Tree!Nodes) /\ n \notin StepsOf(l[k]) /\ i \in 0..Len(l[k])
      BY <1>1, <1>3, <1>13, <2>1, LenProperties
    <3> QED BY <3>1, PutFromAway DEF there
  <2>4. ASSUME NEW m \in Tree!Lanes, m # k PROVE r[m] = Tree!Without(l[m], n)
    <3>1. l[m] \in Seq(Tree!Nodes) /\ n \notin StepsOf(l[m])
      BY <1>3, <2>1
    <3>2. Tree!Without(l[m], n) = l[m]
      BY <3>1, WithoutAbsent
    <3> QED BY <2>2, <2>4, <3>2
  <2>5. Tree!InGap(l, n, k, i) = [m \in Tree!Lanes |-> IF m = k THEN there ELSE Tree!Without(l[m], n)]
    BY DEF Tree!InGap, there
  <2> QED BY <2>1, <2>2, <2>3, <2>4, <2>5
<1> QED BY <1>2, <1>11, <1>12, <1>13 DEF ty

\* What is under a condition goes with it.
LEMMA TreeCut ==
  ASSUME NEW l, Grown(l, type), NEW n \in Tree!Present(l)
  PROVE  Grown(Tree!DeleteNode(l, n), type)
<1> DEFINE from == Tree!LaneOf(l, n)  j == Tree!IndexOf(l, n)  q == TakenFrom(l, from, j)
           r == [q EXCEPT ![<<n, "then">>] = <<>>, ![<<n, "else">>] = <<>>]
<1> HIDE DEF from, j, q, r
<1>1. /\ from \in Tree!Shown(l) /\ from \in Tree!Lanes /\ j \in DOMAIN l[from] /\ l[from][j] = n
      /\ n \in Tree!Nodes
  BY TreeFinds DEF from, j
<1>2. Laned(q) /\ \A m \in Tree!Lanes : StepsOf(q[m]) = StepsOf(l[m]) \ {n}
  <2>1. Laned(l)
    BY DEF Grown
  <2>2. Laned(q) /\ Loses(q, l, l[from][j])
    BY <1>1, <2>1, TreeTaken DEF q
  <2> QED BY <1>1, <2>2 DEF Loses
<1>3. Tree!DeleteNode(l, n) = r
  <2>1. Tree!WithLane(l, from, Tree!RemovedAt(l[from], j)) = q
    BY <1>1 DEF Tree!WithLane, q, TakenFrom
  <2> QED BY <2>1 DEF Tree!DeleteNode, from, j, r
<1>4. <<>> \in Seq(Tree!Nodes) /\ NoneTwice(<<>>) /\ StepsOf(<<>>) = {}
  BY DEF NoneTwice, StepsOf
<1>5. /\ r \in [Tree!Lanes -> Seq(Tree!Nodes)]
      /\ \A m \in Tree!Lanes : r[m] = IF m \in {<<n, "then">>, <<n, "else">>} THEN <<>> ELSE q[m]
  <2>1. q \in [Tree!Lanes -> Seq(Tree!Nodes)]
    BY <1>2 DEF Laned
  <2> QED BY <1>4, <2>1 DEF r
<1>6. \A m \in Tree!Lanes : StepsOf(r[m]) \subseteq StepsOf(l[m]) /\ NoneTwice(r[m])
  BY <1>2, <1>4, <1>5 DEF Laned
<1>7. Laned(r)
  <2>1. \A p, m \in Tree!Lanes : p # m => StepsOf(l[p]) \cap StepsOf(l[m]) = {}
    BY DEF Grown, Laned
  <2>2. \A p, m \in Tree!Lanes : p # m => StepsOf(r[p]) \cap StepsOf(r[m]) = {}
    BY <1>6, <2>1
  <2> QED BY <1>5, <1>6, <2>2 DEF Laned
<1>8. \A m \in Tree!Lanes : \A x \in StepsOf(r[m]) : type[x] # "none" /\ (m # Tree!Root => type[x] # "condition")
  BY <1>6 DEF Grown
<1>9. ASSUME NEW m \in Tree!Lanes \ Under(r, type) PROVE StepsOf(r[m]) = {}
  <2>1. m # Tree!Root
    BY DEF Under
  <2>2. CASE m[1] = n
    <3>1. m \in {<<n, "then">>, <<n, "else">>}
      BY <2>1, <2>2, TreeTypes
    <3> QED BY <1>4, <1>5, <3>1
  <2>3. CASE m[1] # n
    <3>1. Tree!Root \notin {<<n, "then">>, <<n, "else">>}
      BY <1>1, TreeTypes DEF Tree!Root
    <3>2. r[Tree!Root] = q[Tree!Root]
      BY <1>5, <3>1, TreeTypes
    <3>3. m[1] \in StepsOf(l[Tree!Root]) => m[1] \in StepsOf(r[Tree!Root])
      BY <1>2, <2>3, <3>2, TreeTypes
    <3>4. m \in Tree!Lanes \ Under(l, type)
      BY <2>1, <3>3 DEF Under
    <3>5. StepsOf(l[m]) = {}
      BY <3>4 DEF Grown
    <3> QED BY <1>6, <3>5
  <2> QED BY <2>2, <2>3
<1>10. Grown(r, type)
  BY <1>7, <1>8, <1>9 DEF Grown
<1> QED BY <1>3, <1>10

------------------------------------------------------------------------------
TreeInv ==
  /\ type \in [Tree!Nodes -> Tree!Types \cup {"none"}] /\ Grown(lanes, type)
  /\ treeSelected \in Tree!Nodes \cup {0} /\ treeArmed \in Tree!Nodes \cup {0}
  /\ treeDrag \in [move : Tree!Nodes \cup {0}, block : Tree!Types \cup {"none"}]
  /\ treeDrag # Tree!Nothing => treeArmed = 0 /\ (treeDrag.move = 0 => treeDrag.block \in Tree!Types)
  /\ sent = Tree!Idle
     \/ (Grown(sent, type) /\ Tree!Present(lanes) \subseteq Tree!Present(sent) /\ treeDrag = Tree!Nothing)

LEMMA TreeInit == Tree!Init => TreeInv
<1> SUFFICES ASSUME Tree!Init PROVE TreeInv
  OBVIOUS
<1>1. /\ lanes = [k \in Tree!Lanes |-> <<>>] /\ type = [n \in Tree!Nodes |-> "none"]
      /\ treeSelected = 0 /\ treeArmed = 0 /\ treeDrag = Tree!Nothing /\ sent = Tree!Idle
  BY DEF Tree!Init
<1>2. Grown(lanes, type)
  <2>1. \A k \in Tree!Lanes : lanes[k] = <<>> /\ StepsOf(lanes[k]) = {} /\ NoneTwice(lanes[k])
    BY <1>1 DEF StepsOf, NoneTwice
  <2>2. <<>> \in Seq(Tree!Nodes)
    OBVIOUS
  <2>3. lanes \in [Tree!Lanes -> Seq(Tree!Nodes)]
    BY <1>1, <2>2
  <2> QED BY <2>1, <2>3 DEF Grown, Laned
<1> QED BY <1>1, <1>2, TreeTypes DEF TreeInv

\* A step that was never made.
LEMMA TreeFresh ==
  ASSUME Tree!Unused # {} PROVE Tree!Fresh \in Tree!Nodes /\ type[Tree!Fresh] = "none"
<1>1. Tree!Fresh \in Tree!Unused
  BY DEF Tree!Fresh
<1> QED BY <1>1 DEF Tree!Unused

\* The step a placement leaves behind: what a drop and the click of a slot do.
LEMMA TreePlaced ==
  ASSUME TreeInv, NEW k \in Tree!Lanes, NEW i \in 0..MaxNodes, NEW p, p.move \in Tree!Nodes \cup {0},
         p.move = 0 => p.block \in Tree!Types,
         Tree!Slot(k, i, p), Tree!Place(p, k, i)
  PROVE  /\ type' \in [Tree!Nodes -> Tree!Types \cup {"none"}] /\ Grown(lanes', type')
         /\ treeSelected' \in Tree!Nodes \cup {0}
         /\ Tree!Present(lanes) \subseteq Tree!Present(lanes')
         /\ p.move # 0 => type' = type /\ Tree!Present(lanes') = Tree!Present(lanes)
         /\ p.move \in Tree!Present(lanes) => lanes' = Tree!InGap(lanes, p.move, k, i)
         /\ p.move = 0 => lanes' = Tree!InGap(lanes, Tree!Fresh, k, i)
<1>1. k \in Tree!Shown(lanes) /\ i \in 0..Len(lanes[k]) /\ Tree!CanDrop(Tree!TypeOf(p), k) /\ i \in Nat
  BY TreeTypes DEF Tree!Slot
<1>2. Grown(lanes, type) /\ type \in [Tree!Nodes -> Tree!Types \cup {"none"}]
  BY DEF TreeInv
<1>3. 0 \notin Tree!Present(lanes)
  BY <1>2, TreePresent, TreeTypes
<1>4. CASE p.move # 0 /\ p.move \in Tree!Present(lanes)
  <2>1. Tree!TypeOf(p) = type[p.move]
    BY <1>4 DEF Tree!TypeOf
  <2>2. lanes' = Tree!MoveNode(lanes, p.move, k, i) /\ type' = type /\ treeSelected' = treeSelected
    BY <1>4 DEF Tree!Place
  <2>3. /\ Tree!MoveNode(lanes, p.move, k, i) = Tree!InGap(lanes, p.move, k, i)
        /\ Grown(Tree!MoveNode(lanes, p.move, k, i), type)
        /\ Tree!Present(Tree!MoveNode(lanes, p.move, k, i)) = Tree!Present(lanes)
    BY <1>1, <1>2, <1>4, <2>1, TreeMoved
  <2> QED BY <1>2, <1>4, <2>2, <2>3 DEF TreeInv
<1>5. CASE p.move # 0 /\ p.move \notin Tree!Present(lanes)
  <2>1. lanes' = lanes /\ type' = type /\ treeSelected' = treeSelected
    BY <1>5 DEF Tree!Place, Tree!MoveNode
  <2> QED BY <1>2, <1>5, <2>1 DEF TreeInv
<1>6. CASE p.move = 0
  <2>1. Tree!TypeOf(p) = p.block /\ p.block \in Tree!Types
    BY <1>6 DEF Tree!TypeOf
  <2> DEFINE n == Tree!Fresh
  <2>2. n \in Tree!Nodes /\ type[n] = "none"
    BY <1>6, TreeFresh DEF Tree!Place
  <2> HIDE DEF n
  <2>3. /\ type' = [type EXCEPT ![n] = p.block] /\ lanes' = Tree!InsertNode(lanes, k, i, n, p.block)
        /\ treeSelected' = n
    BY <1>6 DEF Tree!Place, n
  <2>4. /\ Grown(Tree!InsertNode(lanes, k, i, n, p.block), [type EXCEPT ![n] = p.block])
        /\ Tree!Present(lanes) \subseteq Tree!Present(Tree!InsertNode(lanes, k, i, n, p.block))
        /\ Tree!InsertNode(lanes, k, i, n, p.block) = Tree!InGap(lanes, n, k, i)
    <3>1. i <= Len(lanes[k])
      BY <1>1
    <3> QED BY <1>1, <1>2, <2>1, <2>2, <3>1, TreeGrows
  <2>5. lanes' = Tree!InGap(lanes, Tree!Fresh, k, i)
    BY <2>3, <2>4 DEF n
  <2> QED BY <1>2, <1>3, <1>6, <2>1, <2>2, <2>3, <2>4, <2>5
<1> QED BY <1>4, <1>5, <1>6

LEMMA TreeSteps ==
  ASSUME TreeInv, Tree!Next
  PROVE  TreeInv' /\ Tree!PlacedWhereShown
<1>0. /\ type \in [Tree!Nodes -> Tree!Types \cup {"none"}] /\ Grown(lanes, type)
      /\ treeSelected \in Tree!Nodes \cup {0} /\ treeArmed \in Tree!Nodes \cup {0}
      /\ treeDrag \in [move : Tree!Nodes \cup {0}, block : Tree!Types \cup {"none"}]
      /\ Tree!Present(lanes) \subseteq Tree!Nodes /\ 0 \notin Tree!Present(lanes)
  <2>1. /\ type \in [Tree!Nodes -> Tree!Types \cup {"none"}] /\ Grown(lanes, type)
        /\ treeSelected \in Tree!Nodes \cup {0} /\ treeArmed \in Tree!Nodes \cup {0}
        /\ treeDrag \in [move : Tree!Nodes \cup {0}, block : Tree!Types \cup {"none"}]
    BY DEF TreeInv
  <2> QED BY <2>1, TreePresent, TreeTypes
<1>1. ASSUME NEW k \in Tree!Lanes, NEW i \in 0..MaxNodes, Tree!Drop(k, i)
      PROVE  /\ TreeInv' /\ Tree!Present(lanes) \subseteq Tree!Present(lanes')
             /\ treeDrag.move \in Tree!Present(lanes) => lanes' = Tree!InGap(lanes, treeDrag.move, k, i)
             /\ treeDrag.move = 0 => lanes' = Tree!InGap(lanes, Tree!Fresh, k, i)
  <2>1. /\ treeDrag # Tree!Nothing /\ Tree!Slot(k, i, treeDrag) /\ Tree!Place(treeDrag, k, i)
        /\ treeDrag' = Tree!Nothing /\ treeArmed' = treeArmed /\ sent' = sent
    BY <1>1 DEF Tree!Drop
  <2>2. /\ treeDrag.move \in Tree!Nodes \cup {0} /\ (treeDrag.move = 0 => treeDrag.block \in Tree!Types)
        /\ sent = Tree!Idle
    BY <1>0, <2>1 DEF TreeInv
  <2>3. /\ type' \in [Tree!Nodes -> Tree!Types \cup {"none"}] /\ Grown(lanes', type')
        /\ treeSelected' \in Tree!Nodes \cup {0}
        /\ Tree!Present(lanes) \subseteq Tree!Present(lanes')
        /\ treeDrag.move \in Tree!Present(lanes) => lanes' = Tree!InGap(lanes, treeDrag.move, k, i)
        /\ treeDrag.move = 0 => lanes' = Tree!InGap(lanes, Tree!Fresh, k, i)
    BY <2>1, <2>2, TreePlaced
  <2>4. TreeInv'
    BY <1>0, <2>1, <2>2, <2>3, TreeTypes DEF TreeInv
  <2> QED BY <2>3, <2>4
<1>2. ASSUME NEW k \in Tree!Lanes, NEW i \in 0..MaxNodes, Tree!SlotClick(k, i)
      PROVE  /\ TreeInv' /\ Tree!Present(lanes) \subseteq Tree!Present(lanes')
             /\ treeArmed \in Tree!Present(lanes) => lanes' = Tree!InGap(lanes, treeArmed, k, i)
  <2> DEFINE p == [Tree!Nothing EXCEPT !.move = treeArmed]
  <2>1. p.move = treeArmed /\ p.block = "none"
    BY TreeTypes
  <2>2. /\ treeDrag = Tree!Nothing /\ treeArmed # 0 /\ Tree!Slot(k, i, p) /\ Tree!Place(p, k, i)
        /\ treeArmed' = 0 /\ treeDrag' = treeDrag /\ sent' = sent
    BY <1>2 DEF Tree!SlotClick
  <2> HIDE DEF p
  <2>3. /\ type' \in [Tree!Nodes -> Tree!Types \cup {"none"}] /\ Grown(lanes', type')
        /\ treeSelected' \in Tree!Nodes \cup {0}
        /\ Tree!Present(lanes) \subseteq Tree!Present(lanes')
        /\ type' = type /\ Tree!Present(lanes') = Tree!Present(lanes)
        /\ treeArmed \in Tree!Present(lanes) => lanes' = Tree!InGap(lanes, treeArmed, k, i)
    <3>1. p.move \in Tree!Nodes \cup {0} /\ (p.move = 0 => p.block \in Tree!Types)
      BY <1>0, <2>1, <2>2
    <3>2. /\ type' \in [Tree!Nodes -> Tree!Types \cup {"none"}] /\ Grown(lanes', type')
          /\ treeSelected' \in Tree!Nodes \cup {0}
          /\ Tree!Present(lanes) \subseteq Tree!Present(lanes')
          /\ p.move # 0 => type' = type /\ Tree!Present(lanes') = Tree!Present(lanes)
          /\ p.move \in Tree!Present(lanes) => lanes' = Tree!InGap(lanes, p.move, k, i)
      BY <2>2, <3>1, TreePlaced
    <3> QED BY <2>1, <2>2, <3>2
  <2>4. Tree!Present(lanes)' \subseteq Tree!Present(sent)' <=> Tree!Present(lanes') \subseteq Tree!Present(sent)
    BY <2>2, <2>3 DEF Tree!Present, Tree!Shown, Tree!OnCanvas
  <2>5. TreeInv'
    BY <1>0, <2>2, <2>3, <2>4, TreeTypes DEF TreeInv
  <2> QED BY <2>3, <2>5
<1>3. /\ \A k \in Tree!Lanes : \A i \in 0..MaxNodes :
           /\ (Tree!SlotClick(k, i) /\ treeArmed \in Tree!Present(lanes)) => lanes' = Tree!InGap(lanes, treeArmed, k, i)
           /\ (Tree!Drop(k, i) /\ treeDrag.move \in Tree!Present(lanes)) => lanes' = Tree!InGap(lanes, treeDrag.move, k, i)
           /\ (Tree!Drop(k, i) /\ treeDrag.move = 0) => lanes' = Tree!InGap(lanes, Tree!Fresh, k, i)
  BY <1>1, <1>2
<1>4. ASSUME NEW t \in Tree!Types, Tree!AppendBlock(t)
      PROVE  /\ TreeInv' /\ Tree!Present(lanes) \subseteq Tree!Present(lanes')
             /\ lanes' = Tree!InGap(lanes, Tree!Fresh, Tree!Root, Len(lanes[Tree!Root]))
  <2> DEFINE n == Tree!Fresh  i == Len(lanes[Tree!Root])
  <2>1. n \in Tree!Nodes /\ type[n] = "none"
    BY <1>4, TreeFresh DEF Tree!AppendBlock
  <2>2. i \in Nat /\ Tree!Root \in Tree!Shown(lanes) /\ Tree!CanDrop(t, Tree!Root)
    <3>1. lanes[Tree!Root] \in Seq(Tree!Nodes)
      BY <1>0, TreeTypes DEF Grown, Laned
    <3> QED BY <3>1, LenProperties DEF Tree!Shown, Tree!CanDrop
  <2> HIDE DEF n, i
  <2>3. /\ type' = [type EXCEPT ![n] = t] /\ lanes' = Tree!InsertNode(lanes, Tree!Root, i, n, t)
        /\ treeSelected' = n /\ treeArmed' = treeArmed /\ treeDrag' = treeDrag /\ sent' = sent /\ sent = Tree!Idle
        /\ treeDrag = Tree!Nothing
    BY <1>4 DEF Tree!AppendBlock, Tree!Open, Tree!Saving, n, i
  <2>4. /\ Grown(Tree!InsertNode(lanes, Tree!Root, i, n, t), [type EXCEPT ![n] = t])
        /\ Tree!Present(lanes) \subseteq Tree!Present(Tree!InsertNode(lanes, Tree!Root, i, n, t))
        /\ Tree!InsertNode(lanes, Tree!Root, i, n, t) = Tree!InGap(lanes, n, Tree!Root, i)
    <3>1. i <= Len(lanes[Tree!Root])
      BY <2>2 DEF i
    <3> QED BY <1>0, <2>1, <2>2, <3>1, TreeGrows
  <2>5. type' \in [Tree!Nodes -> Tree!Types \cup {"none"}]
    BY <1>0, <2>1, <2>3
  <2>6. TreeInv'
    BY <1>0, <2>1, <2>3, <2>4, <2>5 DEF TreeInv
  <2>7. lanes' = Tree!InGap(lanes, Tree!Fresh, Tree!Root, Len(lanes[Tree!Root]))
    BY <2>3, <2>4 DEF n, i
  <2> QED BY <2>3, <2>4, <2>6, <2>7
<1>5. ASSUME NEW n \in Tree!Nodes, Tree!Select(n) \/ Tree!Arm(n)
      PROVE  TreeInv' /\ lanes' = lanes
  <2>1. /\ UNCHANGED <<lanes, type, treeDrag, sent>> /\ treeDrag = Tree!Nothing /\ sent = Tree!Idle
        /\ treeSelected' \in {treeSelected, n, 0} /\ treeArmed' \in {treeArmed, n, 0}
    BY <1>5 DEF Tree!Select, Tree!Arm, Tree!Open, Tree!Saving
  <2> QED BY <1>0, <2>1 DEF TreeInv
<1>6. ASSUME NEW n \in Tree!Nodes, Tree!Remove(n) PROVE TreeInv'
  <2>1. /\ UNCHANGED <<type, treeDrag, sent>> /\ treeDrag = Tree!Nothing /\ sent = Tree!Idle
        /\ treeSelected' \in {treeSelected, 0} /\ treeArmed' \in {treeArmed, 0}
        /\ n \in Tree!Present(lanes) /\ lanes' = Tree!DeleteNode(lanes, n)
    BY <1>6 DEF Tree!Remove, Tree!Open, Tree!Saving
  <2>2. Grown(Tree!DeleteNode(lanes, n), type)
    BY <1>0, <2>1, TreeCut
  <2> QED BY <1>0, <2>1, <2>2 DEF TreeInv
<1>7. ASSUME Tree!Clear PROVE TreeInv'
  <2>1. /\ UNCHANGED <<type, treeDrag, sent>> /\ treeDrag = Tree!Nothing /\ sent = Tree!Idle
        /\ treeSelected' = 0 /\ treeArmed' = 0 /\ lanes' = [k \in Tree!Lanes |-> <<>>]
    BY <1>7 DEF Tree!Clear, Tree!Open, Tree!Saving
  <2>2. Grown(lanes', type)
    <3>1. <<>> \in Seq(Tree!Nodes) /\ NoneTwice(<<>>) /\ StepsOf(<<>>) = {}
      BY DEF NoneTwice, StepsOf
    <3>2. lanes' \in [Tree!Lanes -> Seq(Tree!Nodes)] /\ \A k \in Tree!Lanes : lanes'[k] = <<>>
      BY <2>1, <3>1
    <3> QED BY <3>1, <3>2 DEF Grown, Laned
  <2> QED BY <1>0, <2>1, <2>2 DEF TreeInv
<1>8. ASSUME Tree!DragStart \/ Tree!DragEnd PROVE TreeInv' /\ lanes' = lanes
  <2>1. UNCHANGED <<lanes, type, treeSelected, sent>>
    BY <1>8 DEF Tree!DragStart, Tree!DragEnd
  <2>2. CASE Tree!DragStart
    <3>1. /\ sent = Tree!Idle /\ treeArmed' = 0
          /\ \/ \E n \in Tree!Present(lanes) : treeDrag' = [Tree!Nothing EXCEPT !.move = n]
             \/ \E t \in Tree!Types : treeDrag' = [Tree!Nothing EXCEPT !.block = t]
      BY <2>2 DEF Tree!DragStart, Tree!Open, Tree!Saving
    <3>2. /\ treeDrag' \in [move : Tree!Nodes \cup {0}, block : Tree!Types \cup {"none"}]
          /\ treeDrag'.move = 0 => treeDrag'.block \in Tree!Types
      <4>1. ASSUME NEW n \in Tree!Present(lanes), treeDrag' = [Tree!Nothing EXCEPT !.move = n]
            PROVE  treeDrag'.move = n /\ treeDrag'.block = "none" /\ n \in Tree!Nodes /\ n # 0
                   /\ treeDrag' \in [move : Tree!Nodes \cup {0}, block : Tree!Types \cup {"none"}]
        BY <1>0, <4>1, TreeTypes
      <4>2. ASSUME NEW t \in Tree!Types, treeDrag' = [Tree!Nothing EXCEPT !.block = t]
            PROVE  treeDrag'.block = t /\ treeDrag' \in [move : Tree!Nodes \cup {0}, block : Tree!Types \cup {"none"}]
        BY <4>2, TreeTypes
      <4> QED BY <3>1, <4>1, <4>2
    <3> QED BY <1>0, <2>1, <3>1, <3>2 DEF TreeInv
  <2>3. CASE Tree!DragEnd
    <3>1. treeDrag' = Tree!Nothing /\ treeArmed' = treeArmed
      BY <2>3 DEF Tree!DragEnd
    <3>2. Tree!Nothing \in [move : Tree!Nodes \cup {0}, block : Tree!Types \cup {"none"}]
      BY TreeTypes
    <3>3. Tree!Present(lanes)' = Tree!Present(lanes) /\ Tree!Present(sent)' = Tree!Present(sent)
      BY <2>1 DEF Tree!Present, Tree!Shown, Tree!OnCanvas
    <3> QED BY <1>0, <2>1, <3>1, <3>2, <3>3 DEF TreeInv
  <2> QED BY <1>8, <2>1, <2>2, <2>3
<1>9. ASSUME Tree!Sends \/ Tree!SaveRefused PROVE TreeInv' /\ lanes' = lanes
  <2>1. /\ UNCHANGED <<lanes, type, treeSelected, treeArmed, treeDrag>>
        /\ sent' \in {sent, Tree!Idle} \/ (sent' = lanes /\ treeDrag = Tree!Nothing)
    BY <1>9 DEF Tree!Sends, Tree!SaveRefused, Tree!Open
  <2>2. sent' = lanes => Tree!Present(lanes)' \subseteq Tree!Present(sent)'
    BY <2>1 DEF Tree!Present, Tree!Shown, Tree!OnCanvas
  <2>3. sent' = sent => Tree!Present(lanes)' = Tree!Present(lanes) /\ Tree!Present(sent)' = Tree!Present(sent)
    BY <2>1 DEF Tree!Present, Tree!Shown, Tree!OnCanvas
  <2> QED BY <1>0, <2>1, <2>2, <2>3 DEF TreeInv
<1>10. ASSUME Tree!Saved \/ Tree!Published
       PROVE  TreeInv' /\ Tree!Present(lanes) \subseteq Tree!Present(lanes')
  <2>1. /\ sent # Tree!Idle /\ lanes' = sent /\ sent' = Tree!Idle /\ type' = type /\ treeDrag' = treeDrag
        /\ treeSelected' \in {treeSelected, 0} /\ treeArmed' \in {treeArmed, 0}
    BY <1>10 DEF Tree!Saved, Tree!Published, Tree!Saving
  <2>2. Grown(sent, type) /\ Tree!Present(lanes) \subseteq Tree!Present(sent) /\ treeDrag = Tree!Nothing
    BY <2>1 DEF TreeInv
  <2> QED BY <1>0, <2>1, <2>2 DEF TreeInv
<1>11. TreeInv' /\ (\/ Tree!Present(lanes) \subseteq Tree!Present(lanes') \/ Tree!Clear
                    \/ \E n \in Tree!Nodes : Tree!Remove(n))
  BY <1>1, <1>2, <1>4, <1>5, <1>6, <1>7, <1>8, <1>9, <1>10 DEF Tree!Next
<1> QED BY <1>3, <1>4, <1>11, TreeTypes DEF Tree!PlacedWhereShown

LEMMA TreeStays ==
  TreeInv /\ UNCHANGED treeVars => TreeInv' /\ Tree!PlacedWhereShown
<1> SUFFICES ASSUME TreeInv, UNCHANGED treeVars PROVE TreeInv' /\ Tree!PlacedWhereShown
  OBVIOUS
<1>1. UNCHANGED <<lanes, type, treeSelected, treeArmed, treeDrag, sent>>
  BY DEF treeVars
<1>2. Tree!Present(lanes)' = Tree!Present(lanes) /\ Tree!Present(sent)' = Tree!Present(sent)
  BY <1>1 DEF Tree!Present, Tree!Shown, Tree!OnCanvas
<1> QED BY <1>1, <1>2 DEF TreeInv, Tree!PlacedWhereShown

LEMMA TreeShape == TreeInv => Tree!TypeOK
<1> SUFFICES ASSUME TreeInv PROVE Tree!TypeOK
  OBVIOUS
<1>1. /\ lanes \in [Tree!Lanes -> Seq(Tree!Nodes)] /\ \A k \in Tree!Lanes : NoneTwice(lanes[k])
      /\ \A k, m \in Tree!Lanes : k # m => StepsOf(lanes[k]) \cap StepsOf(lanes[m]) = {}
      /\ \A k \in Tree!Lanes : \A n \in StepsOf(lanes[k]) : type[n] # "none" /\ (k # Tree!Root => type[n] # "condition")
  BY DEF TreeInv, Grown, Laned
<1>2. \A k \in Tree!Lanes : \A i \in DOMAIN lanes[k] : lanes[k][i] \in Tree!Nodes /\ lanes[k][i] \in StepsOf(lanes[k])
  <2> TAKE k \in Tree!Lanes
  <2>1. lanes[k] \in Seq(Tree!Nodes)
    BY <1>1
  <2> QED BY <2>1, LenProperties DEF StepsOf
<1>3. \A j, k \in Tree!Lanes : \A h \in DOMAIN lanes[j] : \A i \in DOMAIN lanes[k] :
        lanes[j][h] = lanes[k][i] => j = k /\ h = i
  <2> SUFFICES ASSUME NEW j \in Tree!Lanes, NEW k \in Tree!Lanes, NEW h \in DOMAIN lanes[j], NEW i \in DOMAIN lanes[k],
                      lanes[j][h] = lanes[k][i]
               PROVE  j = k /\ h = i
    OBVIOUS
  <2>1. j = k
    BY <1>1, <1>2
  <2> QED BY <1>1, <2>1 DEF NoneTwice
<1>4. sent = Tree!Idle \/ DOMAIN sent = Tree!Lanes
  BY DEF TreeInv, Grown, Laned
<1>5. DOMAIN lanes = Tree!Lanes
  BY <1>1
<1>6. /\ type \in [Tree!Nodes -> Tree!Types \cup {"none"}]
      /\ treeSelected \in Tree!Nodes \cup {0} /\ treeArmed \in Tree!Nodes \cup {0}
      /\ treeDrag.move \in Tree!Nodes \cup {0} /\ treeDrag.block \in Tree!Types \cup {"none"}
      /\ treeDrag # Tree!Nothing => treeArmed = 0
  BY DEF TreeInv
<1> QED BY <1>1, <1>2, <1>3, <1>4, <1>5, <1>6 DEF Tree!TypeOK

------------------------------------------------------------------------------
(* All of them: a behaviour follows one page, and the others stay. *)

LEMMA ReviewNext == ReviewInv /\ Review!Next => ReviewInv'
BY ReviewLoads, ReviewClicks, ReviewRequests DEF Review!Next

LEMMA ReviewStays == ReviewInv /\ UNCHANGED reviewVars => ReviewInv'
BY DEF reviewVars, ReviewInv, ReviewTyped, ReviewAbreast, Review!NothingOfferedTwice, Review!Eligible

LEMMA RegStays == RegInv /\ UNCHANGED regVars => RegInv'
BY DEF regVars, RegInv, RegTyped, RegAbreast, Reg!Shown, Reg!Behind, Reg!Eligible

LEMMA QueueStays == QueueInv /\ UNCHANGED queueVars => QueueInv'
BY DEF queueVars, QueueInv, QueueTyped, QueueAbreast, QueueRun, Queue!ToSend, Queue!Rows, Queue!Approvable

LEMMA ReviewArmedStays == ReviewArmed /\ UNCHANGED reviewVars => ReviewArmed'
BY DEF reviewVars, ReviewArmed, Review!Bar, Review!Eligible

LEMMA RegArmedStays == RegArmed /\ UNCHANGED regVars => RegArmed'
BY DEF regVars, RegArmed, Reg!Bar, Reg!Eligible, Reg!Shown, Reg!Behind

LEMMA SetsStays == SetsInv /\ UNCHANGED setsVars => SetsInv'
BY SetsSame DEF setsVars

LEMMA SetsArmedStays == SetsInv /\ SetsArmed /\ UNCHANGED setsVars => SetsArmed'
<1> SUFFICES ASSUME SetsInv, SetsArmed, UNCHANGED setsVars PROVE SetsArmed'
  OBVIOUS
<1>1. SetsInv'
  BY SetsStays
<1>2. SetsRead' /\ SetsRail' /\ SetsForm' /\ SetsSent'
  BY <1>1, SetsReadKept, SetsFormKept DEF SetsArmed, setsVars
<1> QED BY <1>2 DEF SetsArmed

PagesInv ==
  /\ flow = "review" => ReviewInv /\ ReviewArmed /\ ReviewShape
  /\ flow = "register" => RegInv /\ RegArmed /\ RegShape
  /\ flow = "approvals" => QueueInv /\ QueueShape
  /\ flow = "team" => TeamInv
  /\ flow = "policies" => PolicyInv /\ PolicyTold
  /\ flow = "rules" => RulesInv
  /\ flow = "tree" => TreeInv
  /\ flow = "extraction" => ExtractInv /\ DeskSafe
  /\ flow = "blog" => BlogSafe
  /\ flow = "rulesets" => SetsInv /\ SetsArmed /\ SetsHolds

LEMMA PagesInit == Init => PagesInv
<1>1. Review!Init => ReviewArmed
  BY DEF Review!Init, ReviewArmed
<1>2. Reg!Init => RegArmed
  BY DEF Reg!Init, RegArmed
<1> QED BY <1>1, <1>2, ReviewInit, RegInit, QueueInit, TeamInit, PolicyInit, PolicyToldInit, RulesInit,
           TreeInit, ExtractInit, DeskInit, BlogInit, SetsInit, SetsArmedInit,
           ReviewShaped, RegShaped, QueueShaped, SetsStarts DEF Init, PagesInv

\* Only the page that is followed takes steps.
LEMMA PagesStep ==
  ASSUME [Next]_vars
  PROVE  /\ flow' = flow
         /\ flow = "review" => Review!Next \/ UNCHANGED reviewVars
         /\ flow = "register" => Reg!Next \/ UNCHANGED regVars
         /\ flow = "approvals" => Queue!Next \/ UNCHANGED queueVars
         /\ flow = "team" => Team!Next \/ UNCHANGED teamVars
         /\ flow = "policies" => Policy!Next \/ UNCHANGED policyVars
         /\ flow = "rules" => Rules!Next \/ UNCHANGED rulesVars
         /\ flow = "tree" => Tree!Next \/ UNCHANGED treeVars
         /\ flow = "extraction" => Extract!Next \/ UNCHANGED extractVars
         /\ flow = "blog" => Blog!Next \/ UNCHANGED blogVars
         /\ flow = "rulesets" => Sets!Next \/ UNCHANGED setsVars
BY DEF Next, ReviewStep, RegStep, QueueStep, TeamStep, PolicyStep, RulesStep, TreeStep, ExtractStep,
       BlogStep, SetsStep, vars

LEMMA PagesNext == PagesInv /\ [Next]_vars => PagesInv'
<1> SUFFICES ASSUME PagesInv, [Next]_vars PROVE PagesInv'
  OBVIOUS
<1>1. flow' = flow
  BY PagesStep
<1>2. flow = "review" => (ReviewInv /\ ReviewArmed /\ ReviewShape)'
  BY PagesStep, ReviewNext, ReviewStays, ReviewArms, ReviewArmedStays, ReviewShapes, ReviewShapeStays DEF PagesInv
<1>3. flow = "register" => (RegInv /\ RegArmed /\ RegShape)'
  BY PagesStep, RegNext, RegStays, RegArms, RegArmedStays, RegShapes, RegShapeStays DEF PagesInv
<1>4. flow = "approvals" => (QueueInv /\ QueueShape)'
  BY PagesStep, QueueNext, QueueStays, QueueShapes, QueueShapeStays DEF PagesInv
<1>5. flow = "team" => TeamInv'
  BY PagesStep, TeamNext, TeamStays DEF PagesInv
<1>6. flow = "policies" => (PolicyInv /\ PolicyTold)'
  BY PagesStep, PolicyNext, PolicyStays, PolicyToldNext, PolicyToldStays DEF PagesInv
<1>7. flow = "rules" => RulesInv'
  BY PagesStep, RulesNext, RulesStays DEF PagesInv
<1>8. flow = "extraction" => (ExtractInv /\ DeskSafe)'
  BY PagesStep, ExtractNext, ExtractStays, DeskNext, DeskStays DEF PagesInv
<1>9. flow = "blog" => BlogSafe'
  BY PagesStep, BlogSafeNext, BlogSafeStays DEF PagesInv
<1>10. flow = "rulesets" => (SetsInv /\ SetsArmed /\ SetsHolds)'
  BY PagesStep, SetsNext, SetsStays, SetsArms, SetsArmedStays, SetsHoldsOn, SetsHoldsStays DEF PagesInv
<1>11. flow = "tree" => TreeInv'
  BY PagesStep, TreeSteps, TreeStays DEF PagesInv
<1> QED BY <1>1, <1>2, <1>3, <1>4, <1>5, <1>6, <1>7, <1>8, <1>9, <1>10, <1>11 DEF PagesInv

LEMMA PagesKept == Spec => []PagesInv
<1> QED BY PagesInit, PagesNext, PTL DEF Spec

\* What a page offers once its own action was acknowledged is never what that
\* action has already been done to: the review of an import, the register and
\* the approval queue, whatever is loaded, answered late or decided elsewhere.
THEOREM OfferedOnce == Spec => []NothingOfferedTwice
<1>1. PagesInv => NothingOfferedTwice
  BY RegOffers, QueueOffers DEF PagesInv, NothingOfferedTwice, ReviewInv, ReviewAbreast
<1> QED BY <1>1, PagesKept, PTL

\* A publication puts in force what was shown when it was asked for: of a
\* policy the saved draft of its builder, of the rule sets the draft that was
\* compared with the rules in force, unless these moved.
THEOREM ShownIsPublished == Spec => PublishesWhatIsShown
<1> DEFINE Published ==
      /\ flow = "policies" => Policy!PublishesWhatIsShown
      /\ flow = "rulesets" => Sets!PublishesWhatIsShown
<1>1. PagesInv /\ [Next]_vars => [Published]_vars
  <2> SUFFICES ASSUME PagesInv, Next PROVE Published
    OBVIOUS
  <2>1. flow = "policies" => PolicyInv /\ Policy!Next
    BY DEF PagesInv, Next, ReviewStep, RegStep, QueueStep, TeamStep, PolicyStep, RulesStep,
           TreeStep, ExtractStep, BlogStep, SetsStep
  <2>2. flow = "rulesets" => SetsInv /\ Sets!Next
    BY DEF PagesInv, Next, ReviewStep, RegStep, QueueStep, TeamStep, PolicyStep, RulesStep,
           TreeStep, ExtractStep, BlogStep, SetsStep
  <2>3. flow = "policies" => Policy!PublishesWhatIsShown
    BY <2>1, PolicyPublishes DEF Policy!PublishesWhatIsShown
  <2>4. flow = "rulesets" => Sets!PublishesWhatIsShown
    BY <2>2, SetsPublishes DEF Sets!PublishesWhatIsShown
  <2> QED BY <2>3, <2>4
<1>2. Spec => [][Published]_vars
  BY <1>1, PagesKept, PTL DEF Spec
<1> QED BY <1>2 DEF PublishesWhatIsShown

\* A step of a policy's tree that is dropped or added lands where the line
\* under the pointer was drawn, whatever is above it; no other step changes its
\* place, and none is lost or doubled but those the user deletes.
THEOREM PlacedAsShown == Spec => PlacedWhereShown
<1> DEFINE Placed == flow = "tree" => Tree!PlacedWhereShown
<1>1. PagesInv /\ [Next]_vars => [Placed]_vars
  <2> SUFFICES ASSUME PagesInv, Next, flow = "tree" PROVE Tree!PlacedWhereShown
    OBVIOUS
  <2>1. TreeInv /\ (Tree!Next \/ UNCHANGED treeVars)
    BY PagesStep DEF PagesInv
  <2> QED BY <2>1, TreeSteps, TreeStays
<1>2. Spec => [][Placed]_vars
  BY <1>1, PagesKept, PTL DEF Spec
<1> QED BY <1>2 DEF PlacedWhereShown

\* What is sent is what was armed: a confirmed prompt of the review and of the
\* register sends what it counted, the approval queue one invoice of the prompt
\* at a time, for the person who confirmed it; a box of the extraction review
\* reaches the field it was begun for, and a save the document it was drafted
\* on; the draft of the blog takes the id of its own save's post; a switch is
\* asked for on the version in force, and a form of a rule set goes over the
\* rule it was filled from.
THEOREM SentAsArmed == Spec => SendsWhatWasArmed
<1> DEFINE Sent ==
      /\ flow = "review" => Review!SendsWhatWasArmed
      /\ flow = "register" => Reg!SendsWhatWasArmed
      /\ flow = "approvals" => Queue!SendsWhatWasArmed
      /\ flow = "extraction" => Extract!SendsWhatWasArmed
      /\ flow = "blog" => Blog!SendsWhatWasArmed
      /\ flow = "rulesets" => Sets!SendsWhatWasArmed
<1>1. PagesInv /\ [Next]_vars => [Sent]_vars
  <2> SUFFICES ASSUME PagesInv, Next PROVE Sent
    OBVIOUS
  <2> USE DEF PagesInv, Next, ReviewStep, RegStep, QueueStep, TeamStep, PolicyStep, RulesStep,
              TreeStep, ExtractStep, BlogStep, SetsStep
  <2>1. flow = "review" => Review!SendsWhatWasArmed
    BY ReviewSends
  <2>2. flow = "register" => Reg!SendsWhatWasArmed
    BY RegSends
  <2>3. flow = "approvals" => Queue!SendsWhatWasArmed
    BY QueueSends
  <2>4. flow = "extraction" => Extract!SendsWhatWasArmed
    BY ExtractSends
  <2>5. flow = "blog" => Blog!SendsWhatWasArmed
    BY BlogSends
  <2>6. flow = "rulesets" => Sets!SendsWhatWasArmed
    BY SetsSends
  <2> QED BY <2>1, <2>2, <2>3, <2>4, <2>5, <2>6
<1>2. Spec => [][Sent]_vars
  BY <1>1, PagesKept, PTL DEF Spec
<1> QED BY <1>2 DEF SendsWhatWasArmed

\* Once nothing is out, the copy on the screen is what the service holds: the
\* members and roles hold what was reported of them, the policies and the rules
\* are as stored, a corrected document shows what was taken, the list and the
\* editor of the blog say what the posts say, and so do the table, the rail
\* and the form of the rule sets; unless a mark says that something crossed or
\* was lost.
THEOREM ServedOnceSettled == Spec => []SettledIsServed
<1>1. PagesInv => SettledIsServed
  BY TeamSettles, PolicySettles, RulesSettles, DeskSettles, BlogSettles, SetsSettles
     DEF PagesInv, SettledIsServed
<1> QED BY <1>1, PagesKept, PTL

\* What was reported as done is not taken back by a later write, although each
\* carries more than the user changed: of the team, of the policies and of the
\* rules; and what was typed in the blog is open, or kept for its person.
THEOREM ReportedStays == Spec => []NothingUndone
<1>1. PagesInv => NothingUndone
  BY TeamSettles, PolicySettles, RulesSettles, BlogSettles DEF PagesInv, NothingUndone
<1> QED BY <1>1, PagesKept, PTL

\* Every page holds what its program can hold, however long it is used: a row,
\* a prompt, a form and a request in flight are of the records the page works
\* with, they name what the service has, and what is counted stays within what
\* the invoices, the edits and the requests allow.
THEOREM PagesTyped == Spec => []TypeOK
<1>1. PagesInv => TypeOK
  <2> SUFFICES ASSUME PagesInv PROVE TypeOK
    OBVIOUS
  <2>1. flow = "review" => Review!TypeOK
    BY ReviewTypes DEF PagesInv
  <2>2. flow = "register" => Reg!TypeOK
    BY RegTypes DEF PagesInv
  <2>3. flow = "approvals" => Queue!TypeOK
    BY QueueTypes DEF PagesInv
  <2>4. flow = "team" => Team!TypeOK
    BY TeamSettles DEF PagesInv
  <2>5. flow = "policies" => Policy!TypeOK
    BY PolicySettles DEF PagesInv
  <2>6. flow = "rules" => Rules!TypeOK
    BY DEF PagesInv, RulesInv
  <2>7. flow = "tree" => Tree!TypeOK
    BY TreeShape DEF PagesInv
  <2>8. flow = "extraction" => Extract!TypeOK
    BY DeskSettles DEF PagesInv
  <2>9. flow = "blog" => Blog!TypeOK
    BY BlogSettles DEF PagesInv
  <2>10. flow = "rulesets" => Sets!TypeOK
    BY SetsTypes DEF PagesInv
  <2> QED BY <2>1, <2>2, <2>3, <2>4, <2>5, <2>6, <2>7, <2>8, <2>9, <2>10 DEF TypeOK
<1> QED BY <1>1, PagesKept, PTL
=============================================================================
