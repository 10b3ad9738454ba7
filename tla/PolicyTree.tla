----------------------------- MODULE PolicyTree -----------------------------
(***************************************************************************)
(* The steps of an approval policy while the builder edits them: a tree of *)
(* two levels, lanes of steps under the root and under each of the two     *)
(* branches of a condition. A step is placed by a drag or by arming it and *)
(* clicking a slot, the gap before each step of a lane or after its last.  *)
(* What a step says is left out; whether it is a condition is not.         *)
(***************************************************************************)
EXTENDS Naturals, Sequences

CONSTANT MaxNodes \* bound: steps that are ever made

VARIABLES
  lanes,    \* the steps of each lane, by lane
  type,     \* what each step is, "none" while it was never made
  selected, \* the step in the inspector, or 0
  armed,    \* the step a click places, or 0
  drag,     \* what is dragged: a step, a block of the palette, or Nothing
  sent      \* the tree a save or a publication was pressed over, or Idle

tree == <<lanes, type, selected, armed, drag, sent>>

TreeAssumption == MaxNodes \in Nat

Nodes == 1..MaxNodes
Types == {"approval", "condition"}
Root == <<0, "root">>
Lanes == {Root} \cup (Nodes \X {"then", "else"})

Nothing == [move |-> 0, block |-> "none"]
Idle == <<>>
Saving == sent # Idle

OnCanvas(l, n) == \E i \in DOMAIN l[Root] : l[Root][i] = n
\* The lanes that are on the screen.
Shown(l) == {Root} \cup {k \in Lanes : k[1] # 0 /\ OnCanvas(l, k[1]) /\ type[k[1]] = "condition"}
Present(l) == UNION {{l[k][i] : i \in DOMAIN l[k]} : k \in Shown(l)}

TypeOK ==
  /\ DOMAIN lanes = Lanes
  /\ \A k \in Lanes : \A i \in DOMAIN lanes[k] : lanes[k][i] \in Nodes /\ type[lanes[k][i]] # "none"
  /\ type \in [Nodes -> Types \cup {"none"}]
  /\ selected \in Nodes \cup {0} /\ armed \in Nodes \cup {0}
  /\ drag.move \in Nodes \cup {0} /\ drag.block \in Types \cup {"none"}
  /\ sent = Idle \/ DOMAIN sent = Lanes
  /\ drag # Nothing => armed = 0
  /\ \A j, k \in Lanes : \A h \in DOMAIN lanes[j] : \A i \in DOMAIN lanes[k] :
       lanes[j][h] = lanes[k][i] => j = k /\ h = i
  /\ \A k \in Lanes \ {Root} : \A i \in DOMAIN lanes[k] : type[lanes[k][i]] # "condition"

Init ==
  /\ lanes = [k \in Lanes |-> <<>>]
  /\ type = [n \in Nodes |-> "none"]
  /\ selected = 0 /\ armed = 0 /\ drag = Nothing /\ sent = Idle

------------------------------------------------------------------------------
(* The reducers over the tree. *)

\* A lane that is not there is the root.
GetLane(l, k) == IF k \in Shown(l) THEN l[k] ELSE l[Root]
WithLane(l, k, s) == IF k \in Shown(l) THEN [l EXCEPT ![k] = s] ELSE l

LaneOf(l, n) == CHOOSE k \in Shown(l) : \E i \in DOMAIN l[k] : l[k][i] = n
IndexOf(l, n) == CHOOSE i \in DOMAIN l[LaneOf(l, n)] : l[LaneOf(l, n)][i] = n

CanDrop(t, k) == ~(t = "condition" /\ k # Root)

\* A splice past the end appends.
InsertedAt(s, i, n) ==
  LET at == IF i < Len(s) THEN i ELSE Len(s)
  IN SubSeq(s, 1, at) \o <<n>> \o SubSeq(s, at + 1, Len(s))
RemovedAt(s, i) == SubSeq(s, 1, i - 1) \o SubSeq(s, i + 1, Len(s))

InsertNode(l, k, i, n, t) ==
  IF CanDrop(t, k) THEN WithLane(l, k, InsertedAt(GetLane(l, k), i, n)) ELSE l

\* What is under a condition goes with it.
DeleteNode(l, n) ==
  IF n \notin Present(l) THEN l
  ELSE [WithLane(l, LaneOf(l, n), RemovedAt(l[LaneOf(l, n)], IndexOf(l, n)))
          EXCEPT ![<<n, "then">>] = <<>>, ![<<n, "else">>] = <<>>]

\* Plausible bug, for the mutant: the slot is counted before the step is gone.
Target_Uncorrected(l, n, k, i) == i

\* A step that stood before the slot in the same lane no longer does.
Target(l, n, k, i) == IF LaneOf(l, n) = k /\ IndexOf(l, n) <= i THEN i - 1 ELSE i

MoveNode(l, n, k, i) ==
  IF n \notin Present(l) \/ ~CanDrop(type[n], k) THEN l
  ELSE LET removed == WithLane(l, LaneOf(l, n), RemovedAt(l[LaneOf(l, n)], IndexOf(l, n)))
       IN WithLane(removed, k, InsertedAt(GetLane(removed, k), Target(l, n, k, i), n))

------------------------------------------------------------------------------
(* The controls. A save or a publication locks all of them but the slots, *)
(* which the keyboard still reaches.                                     *)

Unused == {n \in Nodes : type[n] = "none"}
Fresh == CHOOSE n \in Unused : TRUE

\* No click falls in the middle of a drag.
Open == ~Saving /\ drag = Nothing

AppendBlock(t) ==
  /\ Open /\ Unused # {}
  /\ type' = [type EXCEPT ![Fresh] = t]
  /\ lanes' = InsertNode(lanes, Root, Len(lanes[Root]), Fresh, t)
  /\ selected' = Fresh /\ UNCHANGED <<armed, drag, sent>>

Select(n) ==
  /\ Open /\ n \in Present(lanes)
  /\ selected' = IF selected = n THEN 0 ELSE n
  /\ UNCHANGED <<lanes, type, armed, drag, sent>>

Arm(n) ==
  /\ Open /\ n \in Present(lanes)
  /\ armed' = IF armed = n THEN 0 ELSE n
  /\ UNCHANGED <<lanes, type, selected, drag, sent>>

\* From the canvas or from the inspector; what else was armed stays armed.
Remove(n) ==
  /\ Open /\ n \in Present(lanes)
  /\ lanes' = DeleteNode(lanes, n)
  /\ selected' = IF selected = n THEN 0 ELSE selected
  /\ armed' = IF armed = n THEN 0 ELSE armed
  /\ UNCHANGED <<type, drag, sent>>

Clear ==
  /\ Open /\ lanes' = [k \in Lanes |-> <<>>] /\ selected' = 0 /\ armed' = 0
  /\ UNCHANGED <<type, drag, sent>>

DragStart ==
  /\ Open /\ armed' = 0
  /\ \/ \E n \in Present(lanes) : drag' = [Nothing EXCEPT !.move = n]
     \/ \E t \in Types : drag' = [Nothing EXCEPT !.block = t]
  /\ UNCHANGED <<lanes, type, selected, sent>>

DragEnd == drag # Nothing /\ drag' = Nothing /\ UNCHANGED <<lanes, type, selected, armed, sent>>

\* pendingNodeType: a step that is no longer there is of no type.
TypeOf(p) == IF p.move = 0 THEN p.block ELSE IF p.move \in Present(lanes) THEN type[p.move] ELSE "none"

Slot(k, i, p) == k \in Shown(lanes) /\ i \in 0..Len(lanes[k]) /\ CanDrop(TypeOf(p), k)

Place(p, k, i) ==
  IF p.move # 0
  THEN lanes' = MoveNode(lanes, p.move, k, i) /\ UNCHANGED <<type, selected>>
  ELSE /\ Unused # {}
       /\ type' = [type EXCEPT ![Fresh] = p.block]
       /\ lanes' = InsertNode(lanes, k, i, Fresh, p.block)
       /\ selected' = Fresh

Drop(k, i) ==
  /\ drag # Nothing /\ Slot(k, i, drag) /\ Place(drag, k, i)
  /\ drag' = Nothing /\ UNCHANGED <<armed, sent>>

SlotClick(k, i) ==
  /\ drag = Nothing /\ armed # 0 /\ Slot(k, i, [Nothing EXCEPT !.move = armed])
  /\ Place([Nothing EXCEPT !.move = armed], k, i)
  /\ armed' = 0 /\ UNCHANGED <<drag, sent>>

Sends == Open /\ sent' = lanes /\ UNCHANGED <<lanes, type, selected, armed, drag>>

\* Both verbs answer with the tree they were pressed over, and the builder
\* takes the answer. The ids a save answers are new, so what pointed at a step
\* is let go.
Saved ==
  /\ Saving /\ lanes' = sent /\ sent' = Idle /\ selected' = 0 /\ armed' = 0
  /\ UNCHANGED <<type, drag>>
Published == Saving /\ lanes' = sent /\ sent' = Idle /\ UNCHANGED <<type, selected, armed, drag>>
SaveRefused == Saving /\ sent' = Idle /\ UNCHANGED <<lanes, type, selected, armed, drag>>

Next ==
  \/ \E t \in Types : AppendBlock(t)
  \/ \E n \in Nodes : Select(n) \/ Arm(n) \/ Remove(n)
  \/ Clear \/ DragStart \/ DragEnd
  \/ \E k \in Lanes : \E i \in 0..MaxNodes : Drop(k, i) \/ SlotClick(k, i)
  \/ Sends \/ Saved \/ Published \/ SaveRefused

Spec == Init /\ [][Next]_tree

------------------------------------------------------------------------------
\* A step stands in a tree at most once.
Without(s, n) == IF \E i \in DOMAIN s : s[i] = n THEN RemovedAt(s, CHOOSE i \in DOMAIN s : s[i] = n) ELSE s

\* The tree with the step in that gap and everything else in its order.
InGap(l, n, k, i) ==
  [j \in Lanes |->
     IF j = k THEN Without(SubSeq(l[k], 1, i), n) \o <<n>> \o Without(SubSeq(l[k], i + 1, Len(l[k])), n)
     ELSE Without(l[j], n)]

\* A step lands in the slot that was clicked or dropped on, wherever it came
\* from, a new one too, a block that is clicked after the last step of the root,
\* and nothing else moves; and only a removal takes a step away.
PlacedWhereShown ==
  <<lanes, armed, drag>>' # <<lanes, armed, drag>> =>
   /\ Present(lanes) \subseteq Present(lanes') \/ Clear \/ \E n \in Nodes : Remove(n)
   /\ \A k \in Lanes : \A i \in 0..MaxNodes :
        /\ (SlotClick(k, i) /\ armed \in Present(lanes)) => lanes' = InGap(lanes, armed, k, i)
        /\ (Drop(k, i) /\ drag.move \in Present(lanes)) => lanes' = InGap(lanes, drag.move, k, i)
        /\ (Drop(k, i) /\ drag.move = 0) => lanes' = InGap(lanes, Fresh, k, i)
   /\ \A t \in Types : AppendBlock(t) => lanes' = InGap(lanes, Fresh, Root, Len(lanes[Root]))

==============================================================================
