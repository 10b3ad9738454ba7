--------------------------- MODULE BrowserSession ---------------------------
(* What the session record of one browser promises, whatever its tabs do:   *)
(* whose record it is changes only when a hand-off asked for that account   *)
(* completes, or when the record is dropped.  Token renewal, adoption of    *)
(* another tab's tokens and late answers are not visible here.              *)
EXTENDS Naturals, FiniteSets
CONSTANTS Accounts, Tabs, Nobody
VARIABLES who,      \* the account of the stored record, or Nobody
          asked     \* tab -> the account its hand-off is being redeemed for, or Nobody

Init == who = Nobody /\ asked = [t \in Tabs |-> Nobody]

(* A tab starts redeeming a code: a stale record may be dropped on the way. *)
Ask(t, u) == /\ asked[t] = Nobody
             /\ asked' = [asked EXCEPT ![t] = u]
             /\ who' \in {who, Nobody}

(* The redemption completes, for the account it was asked for, or fails. *)
Answered(t) == /\ asked[t] # Nobody
               /\ asked' = [asked EXCEPT ![t] = Nobody]
               /\ who' \in {who, asked[t], Nobody}

Drop == who' = Nobody /\ UNCHANGED asked

Next == \/ Drop
        \/ \E t \in Tabs : Answered(t) \/ \E u \in Accounts : Ask(t, u)

Spec == Init /\ [][Next]_<<who, asked>>
=============================================================================
