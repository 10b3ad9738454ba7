------------------------- MODULE InvoiceListsProofs --------------------------
(***************************************************************************)
(* Lemmas about the pages of the browser that list invoices, of Pages: the *)
(* review of an import, the register of invoices and the approval queue,   *)
(* for every number of invoices, pages, edits, requests and midnights.     *)
(* PagesProofs puts them together with the others.                         *)
(*                                                                         *)
(* Each page has an invariant of two parts: the shapes of its records,     *)
(* with what bounds its counts, and what keeps the rows on the screen      *)
(* abreast of the service. In a sentence each: no page of rows that is     *)
(* shown, or may still come to be shown, is from before the last           *)
(* acknowledged action, and an open prompt counts what it would send; an   *)
(* approval that was reported was stored, so no list read since holds its  *)
(* invoice.                                                                *)
(***************************************************************************)
EXTENDS Pages, Integers, FiniteSetTheorems, TLAPS

------------------------------------------------------------------------------
(* The review of an import. *)

\* What the review holds. A page carries the number of changes it was answered
\* after.
ReviewData ==
  [query : Review!Queries, rows : [Review!Invoices -> Review!Statuses \cup {"absent"}],
   next : BOOLEAN, ver : Nat]

ReviewPage ==
  [st : {"none", "loading", "served", "ready", "error"}, query : Review!Queries, got : ReviewData]
ReviewSend ==
  [st : {"none", "out", "done"}, ids : SUBSET Review!Invoices, query : Review!Queries, ver : Nat]
ReviewEdit ==
  [st : {"none", "out", "done"}, inv : Review!Invoices, op : {"change", "revalidate"},
   query : Review!Queries, ver : Nat]

ReviewTyped ==
  /\ reviewServer \in [Review!Invoices -> Review!Statuses]
  /\ reviewMoves \in Nat /\ reviewFloor \in Nat /\ filter \in Review!Queries
  /\ page \in ReviewPage /\ reviewShown \in ReviewData
  /\ reviewSend \in ReviewSend /\ edit \in ReviewEdit

\* No answer is from after what was served so far, and the answer that waits
\* to be shown is no older than what the screen was told of.
ReviewAbreast ==
  /\ reviewFloor <= reviewMoves
  /\ reviewSend.st = "done" => reviewSend.ver <= reviewMoves
  /\ edit.st = "done" => edit.ver <= reviewMoves
  /\ page.st = "served" => page.got.ver >= reviewFloor
  /\ Review!NothingOfferedTwice

ReviewInv == ReviewTyped /\ ReviewAbreast

LEMMA FirstQuery ==
  Review!First \in Review!Queries /\ Review!NoData \in ReviewData
<1>1. Count \in Nat \ {0} /\ PageSize \in Nat \ {0} /\ "all" \in Views
  BY PageAssumption DEF Review!ReviewAssumption
<1>2. 0 \in 0..((Count - 1) \div PageSize) /\ PageSize * 0 = 0
  BY <1>1
<1>3. 0 \in Review!Offsets
  BY <1>2 DEF Review!Offsets
<1> QED BY <1>1, <1>3 DEF Review!First, Review!Queries, Review!NoData, ReviewData

LEMMA NoRequests ==
  /\ Review!NoSend \in ReviewSend /\ Review!NoSend.st = "none"
  /\ Review!NoEdit \in ReviewEdit /\ Review!NoEdit.st = "none"
<1>1. 1 \in Review!Invoices
  BY PageAssumption DEF Review!ReviewAssumption, Review!Invoices
<1> QED BY <1>1, FirstQuery DEF Review!NoSend, Review!NoEdit, ReviewSend, ReviewEdit

LEMMA ReviewInit == Review!Init => ReviewInv
<1> SUFFICES ASSUME Review!Init PROVE ReviewInv
  OBVIOUS
<1>1. Already \subseteq Review!Invoices
  BY PageAssumption DEF Review!ReviewAssumption, Review!Invoices
<1>2. ReviewTyped
  BY <1>1, FirstQuery, NoRequests DEF Review!Init, ReviewTyped, Review!Statuses, ReviewPage, Review!NoRun
<1>3. ReviewAbreast
  BY <1>1, NoRequests DEF Review!Init, ReviewAbreast, Review!NoRun, Review!NothingOfferedTwice, Review!Eligible
<1> QED BY <1>2, <1>3 DEF ReviewInv

LEMMA ReviewAnswer ==
  ASSUME ReviewTyped, NEW q \in Review!Queries
  PROVE  Review!Answer(q) \in ReviewData /\ Review!Answer(q).ver = reviewMoves
BY DEF Review!Answer, ReviewTyped, ReviewData

LEMMA ReviewSent ==
  ASSUME ReviewTyped
  PROVE  Review!Cardinality(Review!Sendable(reviewSend.ids)) \in Nat
<1>1. IsFiniteSet(1..Count)
  BY FS_Interval, PageAssumption DEF Review!ReviewAssumption
<1>2. Review!Sendable(reviewSend.ids) \subseteq 1..Count
  BY DEF ReviewTyped, ReviewSend, Review!Sendable, Review!Invoices
<1>3. IsFiniteSet(Review!Sendable(reviewSend.ids))
  BY <1>1, <1>2, FS_Subset
<1>4. \A S : Review!Cardinality(S) = Cardinality(S)
  BY DEF Review!Cardinality, Cardinality
<1> QED BY <1>3, <1>4, FS_CardinalityType

\* A step on the rows that are shown: nothing is read, and only what is shown
\* as ready stays selected.
LEMMA OnlyRows ==
  ASSUME ReviewInv, UNCHANGED <<reviewServer, reviewMoves, filter, page, reviewFloor, reviewSend>>,
         reviewShown' = reviewShown \/ (page.st # "ready" /\ reviewShown' = Review!NoData),
         reviewSelected' \subseteq Review!Eligible(reviewShown'),
         edit' = edit \/ (edit' \in ReviewEdit /\ edit'.st # "done")
  PROVE  ReviewInv'
<1>1. ReviewTyped'
  BY FirstQuery DEF ReviewInv, ReviewTyped
<1>2. ReviewAbreast'
  BY DEF ReviewInv, ReviewAbreast, Review!NothingOfferedTwice, Review!Eligible
<1> QED BY <1>1, <1>2 DEF ReviewInv

\* A step that asks for a page, and may have been told of a change that was
\* served before.
LEMMA AsksForPage ==
  ASSUME ReviewInv, UNCHANGED <<reviewServer, reviewMoves>>,
         NEW q \in Review!Queries, page' = Review!Loading(q),
         filter' \in Review!Queries, reviewShown' \in {reviewShown, Review!NoData},
         reviewFloor' \in Nat, reviewFloor' <= reviewMoves,
         reviewSend' \in {reviewSend, Review!NoSend}, edit' \in {edit, Review!NoEdit},
         reviewSelected' \subseteq Review!Eligible(reviewShown')
  PROVE  ReviewInv'
<1>1. /\ Review!Loading(q) \in ReviewPage /\ Review!Loading(q).st = "loading"
      /\ Review!NoSend \in ReviewSend /\ Review!NoSend.st = "none"
      /\ Review!NoEdit \in ReviewEdit /\ Review!NoEdit.st = "none"
  BY FirstQuery, NoRequests DEF Review!Loading, ReviewPage
<1>2. ReviewTyped'
  BY <1>1, FirstQuery DEF ReviewInv, ReviewTyped
<1>3. ReviewAbreast'
  BY <1>1 DEF ReviewInv, ReviewAbreast, Review!NothingOfferedTwice, Review!Eligible
<1> QED BY <1>2, <1>3 DEF ReviewInv

\* A tab that is mounted again, or goes.
LEMMA Mounts ==
  ASSUME ReviewInv, UNCHANGED <<reviewServer, reviewMoves>>,
         NEW run \in {Review!NoRun, Review!Loading(Review!First)}, Review!Remounted(run)
  PROVE  ReviewInv'
<1>1. /\ run \in ReviewPage /\ run.st \in {"none", "loading"}
      /\ Review!NoSend \in ReviewSend /\ Review!NoSend.st = "none"
      /\ Review!NoEdit \in ReviewEdit /\ Review!NoEdit.st = "none"
  BY FirstQuery, NoRequests DEF Review!Loading, Review!NoRun, ReviewPage
<1>2. ReviewTyped'
  BY <1>1, FirstQuery DEF ReviewInv, ReviewTyped, Review!Remounted
<1>3. ReviewAbreast'
  BY <1>1 DEF ReviewInv, ReviewAbreast, ReviewTyped, Review!NothingOfferedTwice, Review!Eligible, Review!Remounted
<1> QED BY <1>2, <1>3 DEF ReviewInv

\* The service moved on, and may have answered a submission or a row change.
LEMMA ServiceMoves ==
  ASSUME ReviewInv, UNCHANGED <<filter, page, reviewFloor, reviewShown, reviewSelected>>,
         reviewServer' \in [Review!Invoices -> Review!Statuses],
         reviewMoves' \in Nat, reviewMoves <= reviewMoves',
         reviewSend' = reviewSend
           \/ (reviewSend' \in ReviewSend /\ reviewSend'.ver = reviewMoves'),
         edit' = edit \/ (edit' \in ReviewEdit /\ edit'.ver = reviewMoves')
  PROVE  ReviewInv'
<1>1. ReviewTyped'
  BY DEF ReviewInv, ReviewTyped
<1>2. ReviewAbreast'
  BY DEF ReviewInv, ReviewAbreast, ReviewTyped, ReviewSend, ReviewEdit,
         Review!NothingOfferedTwice, Review!Eligible
<1> QED BY <1>1, <1>2 DEF ReviewInv

LEMMA ReviewLoads == ReviewInv /\ Review!Loads => ReviewInv'
<1> SUFFICES ASSUME ReviewInv, Review!Loads PROVE ReviewInv'
  OBVIOUS
<1> USE DEF Review!screen, Review!list, Review!bulk, Review!serverVars
<1>1. CASE Review!ShellAnswered
  <2>1. CASE ~shell.has /\ reviewTab = "invoices"
    BY <1>1, <2>1, Mounts DEF Review!ShellAnswered
  <2>2. CASE ~(~shell.has /\ reviewTab = "invoices")
    BY <1>1, <2>2, OnlyRows DEF Review!ShellAnswered, ReviewInv, ReviewAbreast,
       Review!NothingOfferedTwice
  <2> QED BY <2>1, <2>2
<1>2. CASE Review!ShellFailed
  BY <1>2, Mounts DEF Review!ShellFailed
<1>3. CASE Review!ShellRetry
  BY <1>3, OnlyRows DEF Review!ShellRetry, ReviewInv, ReviewAbreast, Review!NothingOfferedTwice
<1>4. CASE Review!PageServed
  <2>1. page' = [st |-> "served", query |-> page.query, got |-> Review!Answer(page.query)]
    BY <1>4 DEF Review!PageServed, ReviewInv, ReviewTyped, ReviewPage
  <2>2. Review!Answer(page.query) \in ReviewData /\ Review!Answer(page.query).ver = reviewMoves
    BY ReviewAnswer DEF ReviewInv, ReviewTyped, ReviewPage
  <2>3. ReviewTyped'
    BY <1>4, <2>1, <2>2 DEF Review!PageServed, ReviewInv, ReviewTyped, ReviewPage
  <2>4. ReviewAbreast'
    BY <1>4, <2>1, <2>2 DEF Review!PageServed, ReviewInv, ReviewAbreast, ReviewTyped,
       Review!NothingOfferedTwice, Review!Eligible
  <2> QED BY <2>3, <2>4 DEF ReviewInv
<1>5. CASE Review!PageAnswered
  <2>1. /\ page' = [st |-> "ready", query |-> page.query, got |-> Review!NoData]
        /\ page.got \in ReviewData
    BY <1>5 DEF Review!PageAnswered, ReviewInv, ReviewTyped, ReviewPage
  <2>2. ReviewTyped'
    BY <1>5, <2>1, FirstQuery DEF Review!PageAnswered, Review!Shows, ReviewInv, ReviewTyped, ReviewPage
  <2>3. ReviewAbreast'
    BY <1>5, <2>1 DEF Review!PageAnswered, Review!Shows, ReviewInv, ReviewAbreast,
       Review!NothingOfferedTwice, Review!Eligible
  <2> QED BY <2>2, <2>3 DEF ReviewInv
<1>6. CASE Review!PageFailed
  <2>1. page' = [st |-> "error", query |-> page.query, got |-> Review!NoData]
    BY <1>6 DEF Review!PageFailed, ReviewInv, ReviewTyped, ReviewPage
  <2>2. ReviewTyped'
    BY <1>6, <2>1, FirstQuery DEF Review!PageFailed, ReviewInv, ReviewTyped, ReviewPage
  <2>3. ReviewAbreast'
    BY <1>6, <2>1 DEF Review!PageFailed, ReviewInv, ReviewAbreast,
       Review!NothingOfferedTwice, Review!Eligible
  <2> QED BY <2>2, <2>3 DEF ReviewInv
<1>7. CASE Review!PageRetry
  BY <1>7, AsksForPage, FirstQuery DEF Review!PageRetry, Review!Shows, ReviewInv, ReviewTyped,
     ReviewAbreast
<1>8. CASE Review!Rerender
  BY <1>8, OnlyRows DEF Review!Rerender, Review!Shows
<1> QED
  BY <1>1, <1>2, <1>3, <1>4, <1>5, <1>6, <1>7, <1>8 DEF Review!Loads

LEMMA ReviewClicks == ReviewInv /\ Review!Clicks => ReviewInv'
<1> SUFFICES ASSUME ReviewInv, Review!Clicks PROVE ReviewInv'
  OBVIOUS
<1> USE DEF Review!screen, Review!list, Review!bulk, Review!serverVars
<1>1. reviewSelected \subseteq Review!Eligible(reviewShown)
  BY DEF ReviewInv, ReviewAbreast, Review!NothingOfferedTwice
<1>2. ASSUME NEW f \in Review!Queries, Review!Refilter(f),
             UNCHANGED <<reviewServer, reviewMoves, reviewFloor, reviewSend, edit>>
      PROVE  ReviewInv'
  <2>1. /\ reviewShown' = reviewShown \/ (page.st # "ready" /\ reviewShown' = Review!NoData)
        /\ reviewSelected' \subseteq Review!Eligible(reviewShown')
    BY <1>1, <1>2 DEF Review!Refilter, Review!Settle, Review!Shows
  <2>2. CASE f = filter
    BY <1>2, <2>1, <2>2, OnlyRows DEF Review!Refilter
  <2>3. CASE f # filter
    BY <1>2, <2>1, <2>3, AsksForPage DEF Review!Refilter, ReviewInv, ReviewTyped, ReviewAbreast
  <2> QED BY <2>2, <2>3
<1>3. ASSUME NEW v \in Views, Review!Narrow(v) PROVE ReviewInv'
  <2>1. [view |-> v, offset |-> 0] \in Review!Queries
    BY FirstQuery DEF Review!First, Review!Queries
  <2> QED BY <1>2, <1>3, <2>1 DEF Review!Narrow
<1>4. ASSUME NEW offset \in Review!Offsets, Review!GoTo(offset) PROVE ReviewInv'
  <2>1. [filter EXCEPT !.offset = offset] \in Review!Queries
    BY DEF ReviewInv, ReviewTyped, Review!Queries
  <2> QED BY <1>2, <1>4, <2>1 DEF Review!GoTo
<1>5. CASE Review!ToggleAll \/ Review!Clear \/ Review!Cancel
  BY <1>1, <1>5, OnlyRows DEF Review!ToggleAll, Review!Clear, Review!Cancel, Review!Toggled,
     Review!Disarm
<1>6. ASSUME NEW i \in Review!Invoices, Review!Toggle(i) PROVE ReviewInv'
  BY <1>1, <1>6, OnlyRows DEF Review!Toggle, Review!Toggled, Review!Disarm
<1>7. ASSUME NEW ids \in {Review!Bar, Review!Eligible(reviewShown)}, Review!Arm(ids)
      PROVE  ReviewInv'
  BY <1>7, OnlyRows DEF Review!Arm, Review!Bar
<1>8. CASE Review!Confirm
  <2>1. reviewSend' = [st |-> "out", ids |-> Review!Bar, query |-> filter, ver |-> 0]
    BY <1>8 DEF Review!Confirm, Review!NoSend
  <2>2. reviewSend' \in ReviewSend /\ reviewSend'.st # "done"
    BY <2>1 DEF ReviewInv, ReviewTyped, ReviewSend, Review!Bar, Review!Eligible
  <2>3. /\ reviewShown' = reviewShown \/ (page.st # "ready" /\ reviewShown' = Review!NoData)
        /\ reviewSelected' \subseteq Review!Eligible(reviewShown')
    BY <1>1, <1>8 DEF Review!Confirm
  <2>4. ReviewTyped'
    BY <1>8, <2>2, <2>3, FirstQuery DEF Review!Confirm, ReviewInv, ReviewTyped
  <2>5. ReviewAbreast'
    BY <1>8, <2>2, <2>3 DEF Review!Confirm, ReviewInv, ReviewAbreast, Review!NothingOfferedTwice,
       Review!Eligible
  <2> QED BY <2>4, <2>5 DEF ReviewInv
<1>9. ASSUME NEW i \in Review!Invoices, NEW write \in {"change", "revalidate"}, Review!StartEdit(i, write)
      PROVE  ReviewInv'
  <2>1. edit' \in ReviewEdit /\ edit'.st # "done"
    BY <1>9 DEF Review!StartEdit, ReviewInv, ReviewTyped, ReviewEdit
  <2> QED BY <1>1, <1>9, <2>1, OnlyRows DEF Review!StartEdit
<1>10. ASSUME NEW t \in {"invoices", "unreadable"}, Review!OpenTab(t) PROVE ReviewInv'
  BY <1>10, Mounts DEF Review!OpenTab
<1> QED
  BY <1>3, <1>4, <1>5, <1>6, <1>7, <1>8, <1>9, <1>10
     DEF Review!Clicks, Review!Filters, Review!BulkBar, Review!Rows

LEMMA ReviewRequests == ReviewInv /\ (Review!Requests \/ Review!Others) => ReviewInv'
<1> SUFFICES ASSUME ReviewInv, Review!Requests \/ Review!Others PROVE ReviewInv'
  OBVIOUS
<1> USE DEF Review!screen, Review!list, Review!bulk, Review!serverVars
<1>1. /\ reviewSelected \subseteq Review!Eligible(reviewShown)
      /\ reviewServer \in [Review!Invoices -> Review!Statuses]
      /\ reviewMoves \in Nat /\ reviewFloor \in Nat /\ reviewFloor <= reviewMoves
      /\ reviewSend \in ReviewSend /\ edit \in ReviewEdit
      /\ reviewSend.st = "done" => reviewSend.ver <= reviewMoves
      /\ edit.st = "done" => edit.ver <= reviewMoves
  BY DEF ReviewInv, ReviewTyped, ReviewAbreast, Review!NothingOfferedTwice
<1>2. CASE Review!SendServed
  <2>1. PICK n \in Nat : reviewMoves' = reviewMoves + n
    BY <1>2, ReviewSent DEF Review!SendServed, ReviewInv
  <2>2. reviewServer' \in [Review!Invoices -> Review!Statuses]
    BY <1>1, <1>2 DEF Review!SendServed, Review!Statuses
  <2>3. reviewSend' = [st |-> "done", ids |-> reviewSend.ids, query |-> reviewSend.query,
                       ver |-> reviewMoves']
    BY <1>1, <1>2 DEF Review!SendServed, ReviewSend
  <2>4. reviewSend' \in ReviewSend /\ reviewSend'.ver = reviewMoves'
    BY <1>1, <2>1, <2>3 DEF ReviewSend
  <2> QED BY <1>1, <1>2, <2>1, <2>2, <2>4, ServiceMoves DEF Review!SendServed
<1>3. CASE Review!SendAnswered
  <2>1. /\ reviewSend.query \in Review!Queries /\ reviewSend.ver \in Nat
        /\ reviewSend.ver <= reviewMoves
    BY <1>1, <1>3 DEF Review!SendAnswered, ReviewSend
  <2>2. reviewFloor' \in Nat /\ reviewFloor' <= reviewMoves
    BY <1>1, <1>3, <2>1 DEF Review!SendAnswered, Review!Reloads, Review!Newer
  <2> QED BY <1>3, <2>1, <2>2, AsksForPage DEF Review!SendAnswered, Review!Reloads, ReviewInv,
             ReviewTyped
<1>4. CASE Review!SendFailed
  <2>1. /\ reviewShown' = reviewShown \/ (page.st # "ready" /\ reviewShown' = Review!NoData)
        /\ reviewSelected' \subseteq Review!Eligible(reviewShown')
    BY <1>1, <1>4 DEF Review!SendFailed
  <2>2. ReviewTyped'
    BY <1>4, <2>1, FirstQuery, NoRequests DEF Review!SendFailed, ReviewInv, ReviewTyped
  <2>3. ReviewAbreast'
    BY <1>4, <2>1, NoRequests DEF Review!SendFailed, ReviewInv, ReviewAbreast,
       Review!NothingOfferedTwice, Review!Eligible
  <2> QED BY <2>2, <2>3 DEF ReviewInv
<1>5. CASE Review!EditServed
  <2>1. reviewServer' \in [Review!Invoices -> Review!Statuses]
    BY <1>1, <1>5 DEF Review!EditServed, Review!Statuses
  <2>2. edit' = [st |-> "done", inv |-> edit.inv, op |-> edit.op, query |-> edit.query,
                 ver |-> reviewMoves']
    BY <1>1, <1>5 DEF Review!EditServed, ReviewEdit
  <2>3. reviewMoves' \in Nat /\ reviewMoves <= reviewMoves'
    BY <1>1, <1>5 DEF Review!EditServed
  <2>4. edit' \in ReviewEdit /\ edit'.ver = reviewMoves'
    BY <1>1, <2>2, <2>3 DEF ReviewEdit
  <2> QED BY <1>5, <2>1, <2>3, <2>4, ServiceMoves DEF Review!EditServed
<1>6. CASE Review!EditAnswered
  <2>1. edit.query \in Review!Queries /\ edit.ver \in Nat /\ edit.ver <= reviewMoves
    BY <1>1, <1>6 DEF Review!EditAnswered, ReviewEdit
  <2>2. reviewFloor' \in Nat /\ reviewFloor' <= reviewMoves
    BY <1>1, <1>6, <2>1 DEF Review!EditAnswered, Review!Reloads, Review!Newer
  <2>3. /\ reviewShown' \in {reviewShown, Review!NoData}
        /\ reviewSelected' \subseteq Review!Eligible(reviewShown')
    BY <1>1, <1>6 DEF Review!EditAnswered, Review!Settle, Review!Shows
  <2> QED BY <1>6, <2>1, <2>2, <2>3, AsksForPage DEF Review!EditAnswered, Review!Reloads,
             ReviewInv, ReviewTyped
<1>7. CASE Review!EditFailed
  BY <1>1, <1>7, OnlyRows, NoRequests DEF Review!EditFailed
<1>8. ASSUME NEW i \in Review!Invoices, Review!OthersMove(i) PROVE ReviewInv'
  BY <1>1, <1>8, ServiceMoves DEF Review!OthersMove
<1> QED
  BY <1>2, <1>3, <1>4, <1>5, <1>6, <1>7, <1>8 DEF Review!Requests, Review!Others

\* While the prompt of the review is open it counts what a confirmation sends.
ReviewArmed == reviewPhase = "armed" => reviewArmedFor = Review!Bar

\* A step leaves the prompt and the rows it counts alone, closes it, or opens
\* it for what it counts.
LEMMA ReviewPrompts ==
  ASSUME Review!Next
  PROVE  \/ UNCHANGED Review!bulk
         \/ reviewPhase' # "armed"
         \/ \E ids \in {Review!Bar, Review!Eligible(reviewShown)} : Review!Arm(ids)
<1> USE DEF Review!bulk, Review!Disarm, Review!Shows
<1>1. CASE Review!Loads
  BY <1>1 DEF Review!Loads, Review!ShellAnswered, Review!ShellFailed, Review!ShellRetry,
     Review!PageServed, Review!PageAnswered, Review!PageFailed, Review!PageRetry,
     Review!Rerender, Review!Remounted
<1>2. CASE Review!Filters
  BY <1>2 DEF Review!Filters, Review!Narrow, Review!GoTo, Review!Refilter, Review!Settle
<1>3. CASE Review!BulkBar
  BY <1>3 DEF Review!BulkBar, Review!Clear, Review!Cancel, Review!Confirm, Review!Toggled
<1>4. CASE Review!Rows
  BY <1>4 DEF Review!Rows, Review!ToggleAll, Review!Toggle, Review!Toggled, Review!StartEdit
<1>5. ASSUME NEW t \in {"invoices", "unreadable"}, Review!OpenTab(t) PROVE reviewPhase' # "armed"
  BY <1>5 DEF Review!OpenTab, Review!Remounted
<1>6. CASE Review!Requests
  BY <1>6 DEF Review!Requests, Review!SendServed, Review!SendAnswered, Review!SendFailed,
     Review!EditServed, Review!EditAnswered, Review!EditFailed, Review!Settle
<1>7. CASE Review!Others
  BY <1>7 DEF Review!Others, Review!OthersMove
<1> QED BY <1>1, <1>2, <1>3, <1>4, <1>5, <1>6, <1>7 DEF Review!Next, Review!Clicks

LEMMA ReviewArms == ReviewArmed /\ Review!Next => ReviewArmed'
<1> SUFFICES ASSUME ReviewArmed, Review!Next PROVE ReviewArmed'
  OBVIOUS
<1>1. CASE UNCHANGED Review!bulk
  BY <1>1 DEF Review!bulk, ReviewArmed, Review!Bar, Review!Eligible
<1>2. ASSUME NEW ids \in {Review!Bar, Review!Eligible(reviewShown)}, Review!Arm(ids)
      PROVE  ReviewArmed'
  BY <1>2 DEF Review!Arm, ReviewArmed, Review!Bar, Review!Eligible
<1> QED BY <1>1, <1>2, ReviewPrompts DEF ReviewArmed

\* Only a confirmation sends.
LEMMA ReviewSends ==
  ASSUME ReviewInv, ReviewArmed, Review!Next
  PROVE  Review!SendsWhatWasArmed
<1> SUFFICES ASSUME reviewSend.st = "none", reviewSend'.st = "out"
             PROVE  reviewSend'.ids = reviewArmedFor
  BY DEF Review!SendsWhatWasArmed
<1> USE NoRequests
<1>1. ~Review!Loads
  BY DEF Review!Loads, Review!ShellAnswered, Review!ShellFailed, Review!ShellRetry,
     Review!PageServed, Review!PageAnswered, Review!PageFailed, Review!PageRetry,
     Review!Rerender, Review!Remounted
<1>2. ~Review!Requests /\ ~Review!Others /\ ~Review!Filters /\ ~Review!Rows
  BY DEF Review!Requests, Review!SendServed, Review!SendAnswered, Review!SendFailed,
     Review!EditServed, Review!EditAnswered, Review!EditFailed, Review!Settle,
     Review!Others, Review!OthersMove, Review!Filters, Review!Narrow, Review!GoTo,
     Review!Rows, Review!ToggleAll, Review!Toggle, Review!Toggled, Review!StartEdit
<1>3. ~\E t \in {"invoices", "unreadable"} : Review!OpenTab(t)
  BY DEF Review!OpenTab, Review!Remounted
<1>4. Review!Confirm
  BY <1>1, <1>2, <1>3 DEF Review!Next, Review!Clicks, Review!BulkBar, Review!Clear, Review!Cancel,
     Review!Arm, Review!bulk
<1>5. reviewSend' = [st |-> "out", ids |-> Review!Bar, query |-> filter, ver |-> 0]
  BY <1>4 DEF Review!Confirm, Review!NoSend
<1> QED BY <1>4, <1>5 DEF Review!Confirm, ReviewArmed

\* What the review holds beside: nothing it was told or shown is of a later
\* change than the last; and every change is either one that was begun by
\* somebody else or in a row, or the only submission of its invoice.
ReviewLeft == {i \in Review!Invoices : reviewServer[i] # "queued"}
ReviewSpent ==
  reviewMoves + Cardinality(ReviewLeft) + (IF edit.st = "out" THEN 1 ELSE 0) <= Count + changes

ReviewDated ==
  /\ page.got.ver <= reviewMoves /\ reviewShown.ver <= reviewMoves
  /\ reviewSend.ver <= reviewMoves /\ edit.ver <= reviewMoves

ReviewScreen ==
  /\ shell \in [st : {"loading", "ready", "error"}, has : BOOLEAN]
  /\ reviewTab \in {"invoices", "unreadable"} /\ reviewPhase \in {"idle", "armed", "submitting"}
  /\ reviewArmedFor \subseteq Review!Invoices

ReviewShape == ReviewScreen /\ ReviewDated /\ changes \in 0..MaxChanges /\ ReviewSpent

LEMMA ReviewBounds == Count \in Nat /\ MaxChanges \in Nat /\ IsFiniteSet(Review!Invoices) /\ Cardinality(Review!Invoices) = Count
<1>1. Count \in Nat /\ MaxChanges \in Nat
  BY PageAssumption DEF Review!ReviewAssumption
<1> QED BY <1>1, FS_Interval DEF Review!Invoices

LEMMA ReviewLeftFew ==
  /\ IsFiniteSet(ReviewLeft) /\ Cardinality(ReviewLeft) \in Nat /\ Cardinality(ReviewLeft) <= Count
<1>1. ReviewLeft \subseteq Review!Invoices
  BY DEF ReviewLeft
<1> QED BY <1>1, ReviewBounds, FS_Subset, FS_CardinalityType

LEMMA ReviewShaped == Review!Init => ReviewShape
<1> SUFFICES ASSUME Review!Init PROVE ReviewShape
  OBVIOUS
<1>1. /\ reviewMoves = 0 /\ changes = 0 /\ edit = Review!NoEdit /\ page = Review!NoRun
      /\ reviewShown = Review!NoData /\ reviewSend = Review!NoSend
      /\ shell = [st |-> "loading", has |-> FALSE] /\ reviewTab = "invoices" /\ reviewPhase = "idle"
      /\ reviewArmedFor = {}
  BY DEF Review!Init
<1>2. ReviewDated
  BY <1>1 DEF ReviewDated, Review!NoEdit, Review!NoRun, Review!NoData, Review!NoSend
<1>3. ReviewSpent
  BY <1>1, ReviewLeftFew, ReviewBounds, NoRequests DEF ReviewSpent
<1>4. 0 \in 0..MaxChanges
  BY ReviewBounds
<1>5. ReviewScreen
  BY <1>1 DEF ReviewScreen
<1> QED BY <1>1, <1>2, <1>3, <1>4, <1>5 DEF ReviewShape

\* What a step may do to what was told and shown.
ReviewTells ==
  /\ page' = page \/ page'.got = Review!NoData \/ page'.got.ver = reviewMoves
  /\ reviewShown' \in {reviewShown, Review!NoData, page.got}
  /\ reviewSend' = reviewSend \/ reviewSend'.ver \in {0, reviewMoves'}
  /\ edit' = edit \/ edit'.ver \in {0, reviewMoves'}

LEMMA ReviewDates ==
  ASSUME ReviewInv, ReviewDated, ReviewTells, reviewMoves' \in Nat, reviewMoves <= reviewMoves'
  PROVE  ReviewDated'
<1>1. Review!NoData.ver = 0
  BY DEF Review!NoData
<1>2. /\ page.got.ver \in Nat /\ reviewShown.ver \in Nat /\ reviewSend.ver \in Nat /\ edit.ver \in Nat
      /\ reviewMoves \in Nat
  BY DEF ReviewInv, ReviewTyped, ReviewPage, ReviewData, ReviewSend, ReviewEdit
<1>3. /\ page.got.ver <= reviewMoves /\ reviewShown.ver <= reviewMoves
      /\ reviewSend.ver <= reviewMoves /\ edit.ver <= reviewMoves
  BY DEF ReviewDated
<1>4. /\ page'.got.ver \in {page.got.ver, 0, reviewMoves}
      /\ reviewShown'.ver \in {reviewShown.ver, 0, page.got.ver}
      /\ reviewSend'.ver \in {reviewSend.ver, 0, reviewMoves'}
      /\ edit'.ver \in {edit.ver, 0, reviewMoves'}
  BY <1>1 DEF ReviewTells
<1> QED BY <1>2, <1>3, <1>4 DEF ReviewDated

\* A step that leaves the service alone.
LEMMA ReviewWaits ==
  ASSUME ReviewInv, ReviewShape, ReviewTells, ReviewScreen', UNCHANGED <<reviewServer, reviewMoves, changes>>,
         edit'.st = "out" => edit.st = "out"
  PROVE  ReviewShape'
<1>1. reviewMoves \in Nat
  BY DEF ReviewInv, ReviewTyped
<1>2. ReviewDated'
  BY <1>1, ReviewDates DEF ReviewShape
<1>3. ReviewLeft' = ReviewLeft
  BY DEF ReviewLeft
<1>4. ReviewSpent'
  BY <1>1, <1>3, ReviewLeftFew, ReviewBounds DEF ReviewSpent, ReviewShape
<1> QED BY <1>2, <1>4 DEF ReviewShape

LEMMA ReviewShellMounts ==
  ASSUME ReviewInv, ReviewShape, UNCHANGED <<reviewServer, reviewMoves, changes>>,
         shell' \in [st : {"loading", "ready", "error"}, has : BOOLEAN],
         reviewTab' \in {"invoices", "unreadable"},
         NEW run \in {Review!NoRun, Review!Loading(Review!First)}, Review!Remounted(run)
  PROVE  ReviewShape'
<1>1. /\ page' = run /\ reviewShown' = Review!NoData /\ reviewPhase' = "idle" /\ reviewArmedFor' = {}
      /\ reviewSend' = Review!NoSend /\ edit' = Review!NoEdit
  BY DEF Review!Remounted
<1>2. ReviewTells /\ edit'.st # "out"
  BY <1>1, NoRequests DEF ReviewTells, Review!NoRun, Review!Loading, Review!NoSend, Review!NoEdit
<1>3. ReviewScreen'
  BY <1>1 DEF ReviewScreen
<1> QED BY <1>2, <1>3, ReviewWaits

LEMMA ReviewShapeLoads == ReviewInv /\ ReviewShape /\ Review!Loads => ReviewShape'
<1> SUFFICES ASSUME ReviewInv, ReviewShape, Review!Loads PROVE ReviewShape'
  OBVIOUS
<1> USE DEF Review!screen, Review!list, Review!bulk, Review!serverVars
<1>0. ReviewScreen /\ page \in ReviewPage
  BY DEF ReviewShape, ReviewInv, ReviewTyped
<1>1. CASE Review!ShellAnswered
  <2>1. shell' \in [st : {"loading", "ready", "error"}, has : BOOLEAN]
    BY <1>1 DEF Review!ShellAnswered
  <2>2. CASE ~shell.has /\ reviewTab = "invoices"
    BY <1>0, <1>1, <2>1, <2>2, ReviewShellMounts DEF Review!ShellAnswered, ReviewScreen
  <2>3. CASE ~(~shell.has /\ reviewTab = "invoices")
    <3>1. UNCHANGED <<reviewServer, reviewMoves, changes, reviewTab, page, reviewShown, reviewPhase,
                      reviewArmedFor, reviewSend, edit>>
      BY <1>1, <2>3 DEF Review!ShellAnswered
    <3> QED BY <1>0, <2>1, <3>1, ReviewWaits DEF ReviewTells, ReviewScreen
  <2> QED BY <2>2, <2>3
<1>2. CASE Review!ShellFailed
  BY <1>0, <1>2, ReviewShellMounts DEF Review!ShellFailed, ReviewScreen
<1>3. CASE Review!ShellRetry
  <2>1. shell' \in [st : {"loading", "ready", "error"}, has : BOOLEAN]
    BY <1>0, <1>3 DEF Review!ShellRetry, ReviewScreen
  <2> QED BY <1>0, <1>3, <2>1, ReviewWaits DEF Review!ShellRetry, ReviewTells, ReviewScreen
<1>4. ASSUME UNCHANGED <<reviewServer, reviewMoves, changes, shell, reviewTab, reviewSend, edit>>, ReviewTells,
             /\ reviewPhase' \in {reviewPhase, "idle"} /\ reviewArmedFor' \in {reviewArmedFor, {}}
      PROVE  ReviewShape'
  BY <1>0, <1>4, ReviewWaits DEF ReviewScreen
<1>5. CASE Review!PageServed
  <2>1. page' = [st |-> "served", query |-> page.query, got |-> Review!Answer(page.query)]
    BY <1>0, <1>5 DEF Review!PageServed, ReviewPage
  <2>2. Review!Answer(page.query).ver = reviewMoves
    BY <1>0, ReviewAnswer DEF ReviewInv, ReviewPage
  <2> QED BY <1>4, <1>5, <2>1, <2>2 DEF Review!PageServed, ReviewTells
<1>6. CASE Review!PageAnswered
  <2>1. page'.got = Review!NoData
    BY <1>0, <1>6 DEF Review!PageAnswered, ReviewPage
  <2> QED BY <1>4, <1>6, <2>1 DEF Review!PageAnswered, Review!Shows, Review!Disarm, ReviewTells
<1>7. CASE Review!PageFailed
  <2>1. page'.got = Review!NoData
    BY <1>0, <1>7 DEF Review!PageFailed, ReviewPage
  <2> QED BY <1>4, <1>7, <2>1 DEF Review!PageFailed, ReviewTells
<1>8. CASE Review!PageRetry
  <2>1. page'.got = Review!NoData
    BY <1>8 DEF Review!PageRetry, Review!Loading
  <2> QED BY <1>4, <1>8, <2>1 DEF Review!PageRetry, Review!Shows, Review!Disarm, ReviewTells
<1>9. CASE Review!Rerender
  BY <1>4, <1>9 DEF Review!Rerender, Review!Shows, Review!Disarm, ReviewTells
<1> QED BY <1>1, <1>2, <1>3, <1>5, <1>6, <1>7, <1>8, <1>9 DEF Review!Loads

LEMMA ReviewShapeClicks == ReviewInv /\ ReviewShape /\ Review!Clicks => ReviewShape'
<1> SUFFICES ASSUME ReviewInv, ReviewShape, Review!Clicks PROVE ReviewShape'
  OBVIOUS
<1> USE DEF Review!screen, Review!list, Review!bulk, Review!serverVars
<1>0. ReviewScreen /\ page \in ReviewPage /\ changes \in 0..MaxChanges
  BY DEF ReviewShape, ReviewInv, ReviewTyped
<1>1. ASSUME UNCHANGED <<reviewServer, reviewMoves, changes, shell, reviewTab, edit>>, ReviewTells,
             reviewPhase' \in {"idle", "armed", "submitting"}, reviewArmedFor' \subseteq Review!Invoices
      PROVE  ReviewShape'
  BY <1>0, <1>1, ReviewWaits DEF ReviewScreen
<1>2. ASSUME Review!Disarm
      PROVE  reviewPhase' \in {"idle", "armed", "submitting"} /\ reviewArmedFor' \subseteq Review!Invoices
  BY <1>0, <1>2 DEF Review!Disarm, ReviewScreen
<1>3. ASSUME NEW f, Review!Refilter(f), UNCHANGED <<reviewServer, reviewMoves, changes, shell, reviewTab, reviewSend, edit>>
      PROVE  ReviewShape'
  <2>1. page' = page \/ page'.got = Review!NoData
    BY <1>3 DEF Review!Refilter, Review!Loading
  <2>2. /\ reviewShown' \in {reviewShown, Review!NoData}
        /\ reviewPhase' \in {"idle", "armed", "submitting"} /\ reviewArmedFor' \subseteq Review!Invoices
    BY <1>0, <1>2, <1>3 DEF Review!Refilter, Review!Settle, Review!Shows, ReviewScreen
  <2> QED BY <1>1, <1>3, <2>1, <2>2 DEF ReviewTells
<1>4. CASE Review!Filters
  BY <1>3, <1>4 DEF Review!Filters, Review!Narrow, Review!GoTo
<1>5. CASE Review!ToggleAll \/ Review!Clear \/ Review!Cancel \/ \E i \in Review!Invoices : Review!Toggle(i)
  <2>1. Review!Disarm /\ UNCHANGED <<reviewServer, reviewMoves, changes, shell, reviewTab, edit, page, reviewShown, reviewSend>>
    BY <1>5 DEF Review!ToggleAll, Review!Clear, Review!Cancel, Review!Toggle, Review!Toggled
  <2> QED BY <1>1, <1>2, <2>1 DEF ReviewTells
<1>6. ASSUME NEW ids \in {Review!Bar, Review!Eligible(reviewShown)}, Review!Arm(ids) PROVE ReviewShape'
  <2>1. ids \subseteq Review!Invoices
    BY DEF Review!Bar, Review!Eligible
  <2> QED BY <1>1, <1>6, <2>1 DEF Review!Arm, ReviewTells
<1>7. CASE Review!Confirm
  <2>1. reviewSend'.ver = 0 /\ reviewShown' \in {reviewShown, Review!NoData}
    BY <1>7 DEF Review!Confirm, Review!NoSend
  <2> QED BY <1>1, <1>7, <2>1 DEF Review!Confirm, ReviewTells
<1>8. ASSUME NEW i \in Review!Invoices, NEW write \in {"change", "revalidate"}, Review!StartEdit(i, write)
      PROVE  ReviewShape'
  <2>1. /\ edit.st = "none" /\ edit'.st = "out" /\ edit'.ver = 0 /\ changes < MaxChanges /\ changes' = changes + 1
        /\ UNCHANGED <<reviewServer, reviewMoves, shell, reviewTab, page, reviewShown, reviewPhase, reviewArmedFor, reviewSend>>
    BY <1>8 DEF Review!StartEdit
  <2>2. ReviewScreen' /\ ReviewTells
    BY <1>0, <2>1 DEF ReviewScreen, ReviewTells
  <2>3. reviewMoves \in Nat
    BY DEF ReviewInv, ReviewTyped
  <2>4. ReviewDated'
    BY <2>1, <2>2, <2>3, ReviewDates DEF ReviewShape
  <2>5. ReviewLeft' = ReviewLeft
    BY <2>1 DEF ReviewLeft
  <2>6. ReviewSpent'
    BY <1>0, <2>1, <2>3, <2>5, ReviewLeftFew, ReviewBounds DEF ReviewSpent, ReviewShape
  <2>7. changes' \in 0..MaxChanges
    BY <1>0, <2>1, ReviewBounds
  <2> QED BY <2>2, <2>4, <2>6, <2>7 DEF ReviewShape
<1>9. ASSUME NEW t \in {"invoices", "unreadable"}, Review!OpenTab(t) PROVE ReviewShape'
  BY <1>0, <1>9, ReviewShellMounts DEF Review!OpenTab, ReviewScreen
<1> QED BY <1>4, <1>5, <1>6, <1>7, <1>8, <1>9 DEF Review!Clicks, Review!BulkBar, Review!Rows

\* A step of the service.
LEMMA ReviewMoves ==
  ASSUME ReviewInv, ReviewShape, ReviewTells, ReviewScreen', changes' \in 0..MaxChanges,
         reviewMoves' \in Nat, reviewMoves <= reviewMoves', ReviewSpent'
  PROVE  ReviewShape'
<1>1. ReviewDated'
  BY ReviewDates DEF ReviewShape
<1> QED BY <1>1 DEF ReviewShape

LEMMA ReviewShapeServed == ReviewInv /\ ReviewShape /\ (Review!SendServed \/ Review!EditServed \/ Review!Others) => ReviewShape'
<1> SUFFICES ASSUME ReviewInv, ReviewShape, Review!SendServed \/ Review!EditServed \/ Review!Others PROVE ReviewShape'
  OBVIOUS
<1> USE DEF Review!screen, Review!list, Review!bulk, Review!serverVars
<1>0. /\ ReviewScreen /\ changes \in 0..MaxChanges /\ reviewMoves \in Nat /\ ReviewSpent
      /\ reviewServer \in [Review!Invoices -> Review!Statuses] /\ reviewSend \in ReviewSend /\ edit \in ReviewEdit
  BY DEF ReviewShape, ReviewInv, ReviewTyped
<1>1. CASE Review!SendServed
  <2> DEFINE S == Review!Sendable(reviewSend.ids)
  <2>1. S \subseteq ReviewLeft
    BY <1>0 DEF Review!Sendable, ReviewLeft, ReviewSend
  <2>2. ReviewLeft' = ReviewLeft \ S
    BY <1>0, <1>1, <2>1 DEF Review!SendServed, ReviewLeft
  <2> HIDE DEF S
  <2>3. /\ IsFiniteSet(S) /\ Cardinality(S) \in Nat /\ ReviewLeft \cap S = S
        /\ Cardinality(ReviewLeft \ S) = Cardinality(ReviewLeft) - Cardinality(ReviewLeft \cap S)
    BY <2>1, ReviewLeftFew, FS_Subset, FS_CardinalityType, FS_Difference
  <2>4. Review!Cardinality(S) = Cardinality(S)
    BY DEF Review!Cardinality, Cardinality
  <2>5. reviewMoves' = reviewMoves + Cardinality(S)
    BY <1>1, <2>4 DEF Review!SendServed, S
  <2>6. /\ reviewSend'.ver = reviewMoves'
        /\ UNCHANGED <<changes, shell, reviewTab, page, reviewShown, reviewPhase, reviewArmedFor, edit>>
    BY <1>0, <1>1 DEF Review!SendServed, ReviewSend
  <2>7. ReviewTells /\ ReviewScreen'
    BY <1>0, <2>6 DEF ReviewTells, ReviewScreen
  <2>8. reviewMoves' \in Nat /\ reviewMoves <= reviewMoves'
    BY <1>0, <2>3, <2>5
  <2>9. ReviewSpent'
    <3>1. Cardinality(ReviewLeft') = Cardinality(ReviewLeft) - Cardinality(S)
      BY <2>2, <2>3
    <3>2. Cardinality(ReviewLeft)' = Cardinality(ReviewLeft')
      OBVIOUS
    <3> QED BY <1>0, <2>3, <2>5, <2>6, <3>1, <3>2, ReviewLeftFew, ReviewBounds DEF ReviewSpent
  <2> QED BY <1>0, <2>6, <2>7, <2>8, <2>9, ReviewMoves
<1>2. CASE Review!EditServed
  <2>1. /\ edit.st = "out" /\ edit'.st = "done" /\ edit'.ver = reviewMoves' /\ reviewMoves' = reviewMoves + 1
        /\ UNCHANGED <<changes, shell, reviewTab, page, reviewShown, reviewPhase, reviewArmedFor, reviewSend>>
    BY <1>0, <1>2 DEF Review!EditServed, ReviewEdit
  <2>2. ReviewLeft' = ReviewLeft
    BY <1>0, <1>2 DEF Review!EditServed, ReviewLeft
  <2>3. ReviewTells /\ ReviewScreen'
    BY <1>0, <2>1 DEF ReviewTells, ReviewScreen
  <2>4. reviewMoves' \in Nat /\ reviewMoves <= reviewMoves'
    BY <1>0, <2>1
  <2>5. ReviewSpent'
    BY <1>0, <2>1, <2>2, ReviewLeftFew, ReviewBounds DEF ReviewSpent
  <2> QED BY <1>0, <2>1, <2>3, <2>4, <2>5, ReviewMoves
<1>3. ASSUME NEW i \in Review!Invoices, Review!OthersMove(i) PROVE ReviewShape'
  <2>1. /\ changes < MaxChanges /\ changes' = changes + 1 /\ reviewMoves' = reviewMoves + 1
        /\ UNCHANGED <<shell, reviewTab, page, reviewShown, reviewPhase, reviewArmedFor, reviewSend, edit>>
    BY <1>3 DEF Review!OthersMove
  <2>2. ReviewLeft' \subseteq ReviewLeft
    BY <1>0, <1>3 DEF Review!OthersMove, ReviewLeft
  <2>3. Cardinality(ReviewLeft') \in Nat /\ Cardinality(ReviewLeft') <= Cardinality(ReviewLeft)
    BY <2>2, ReviewLeftFew, FS_Subset, FS_CardinalityType
  <2>4. ReviewTells /\ ReviewScreen'
    BY <1>0, <2>1 DEF ReviewTells, ReviewScreen
  <2>5. reviewMoves' \in Nat /\ reviewMoves <= reviewMoves' /\ changes' \in 0..MaxChanges
    BY <1>0, <2>1, ReviewBounds
  <2>6. ReviewSpent'
    BY <1>0, <2>1, <2>3, ReviewLeftFew, ReviewBounds DEF ReviewSpent
  <2> QED BY <2>4, <2>5, <2>6, ReviewMoves
<1> QED BY <1>1, <1>2, <1>3 DEF Review!Others

LEMMA ReviewShapeAnswered ==
  ASSUME ReviewInv, ReviewShape, Review!SendAnswered \/ Review!SendFailed \/ Review!EditAnswered \/ Review!EditFailed
  PROVE  ReviewShape'
<1> USE DEF Review!screen, Review!list, Review!bulk, Review!serverVars
<1>0. ReviewScreen
  BY DEF ReviewShape
<1>1. /\ Review!NoSend.ver = 0 /\ Review!NoEdit.ver = 0 /\ Review!NoEdit.st = "none"
  BY DEF Review!NoSend, Review!NoEdit
<1>2. ASSUME NEW q, NEW v, Review!Reloads(q, v) PROVE page'.got = Review!NoData
  BY <1>2 DEF Review!Reloads, Review!Loading
<1>3. ASSUME Review!ShellAgain PROVE shell' \in [st : {"loading", "ready", "error"}, has : BOOLEAN]
  BY <1>0, <1>3 DEF Review!ShellAgain, ReviewScreen
<1>4. CASE Review!SendAnswered
  <2>1. /\ page'.got = Review!NoData /\ reviewShown' \in {reviewShown, Review!NoData} /\ reviewSend'.ver = 0
        /\ shell' \in [st : {"loading", "ready", "error"}, has : BOOLEAN]
        /\ UNCHANGED <<reviewServer, reviewMoves, changes, reviewTab, edit>>
        /\ reviewPhase' = "idle" /\ reviewArmedFor' = {}
    BY <1>1, <1>2, <1>3, <1>4 DEF Review!SendAnswered
  <2> QED BY <1>0, <2>1, ReviewWaits DEF ReviewTells, ReviewScreen
<1>5. CASE Review!SendFailed
  <2>1. /\ page' = page /\ reviewShown' \in {reviewShown, Review!NoData} /\ reviewSend'.ver = 0
        /\ UNCHANGED <<reviewServer, reviewMoves, changes, shell, reviewTab, edit>>
        /\ reviewPhase' = "idle" /\ reviewArmedFor' = {}
    BY <1>1, <1>5 DEF Review!SendFailed
  <2> QED BY <1>0, <2>1, ReviewWaits DEF ReviewTells, ReviewScreen
<1>6. CASE Review!EditAnswered
  <2>1. /\ page'.got = Review!NoData /\ reviewShown' \in {reviewShown, Review!NoData}
        /\ edit'.ver = 0 /\ edit'.st = "none"
        /\ shell' \in [st : {"loading", "ready", "error"}, has : BOOLEAN]
        /\ UNCHANGED <<reviewServer, reviewMoves, changes, reviewTab, reviewSend>>
        /\ reviewPhase' \in {reviewPhase, "idle"} /\ reviewArmedFor' \in {reviewArmedFor, {}}
    BY <1>1, <1>2, <1>3, <1>6 DEF Review!EditAnswered, Review!Settle, Review!Shows, Review!Disarm
  <2> QED BY <1>0, <2>1, ReviewWaits DEF ReviewTells, ReviewScreen
<1>7. CASE Review!EditFailed
  <2>1. /\ edit'.ver = 0 /\ edit'.st = "none"
        /\ UNCHANGED <<reviewServer, reviewMoves, changes, shell, reviewTab, page, reviewShown, reviewSend,
                       reviewPhase, reviewArmedFor>>
    BY <1>1, <1>7 DEF Review!EditFailed
  <2> QED BY <1>0, <2>1, ReviewWaits DEF ReviewTells, ReviewScreen
<1> QED BY <1>4, <1>5, <1>6, <1>7

LEMMA ReviewShapes == ReviewInv /\ ReviewShape /\ Review!Next => ReviewShape'
BY ReviewShapeLoads, ReviewShapeClicks, ReviewShapeServed, ReviewShapeAnswered DEF Review!Next, Review!Requests

LEMMA ReviewShapeStays == ReviewShape /\ UNCHANGED reviewVars => ReviewShape'
BY DEF reviewVars, ReviewShape, ReviewScreen, ReviewDated, ReviewSpent, ReviewLeft

LEMMA ReviewTypes == ReviewInv /\ ReviewShape => Review!TypeOK
<1> SUFFICES ASSUME ReviewInv, ReviewShape PROVE Review!TypeOK
  OBVIOUS
<1>1. /\ reviewServer \in [Review!Invoices -> Review!Statuses]
      /\ reviewMoves \in Nat /\ reviewFloor \in Nat /\ filter \in Review!Queries
      /\ page \in ReviewPage /\ reviewShown \in ReviewData
      /\ reviewSend \in ReviewSend /\ edit \in ReviewEdit /\ reviewFloor <= reviewMoves
      /\ reviewSelected \subseteq Review!Invoices
  BY DEF ReviewInv, ReviewTyped, ReviewAbreast, Review!NothingOfferedTwice, Review!Eligible
<1>2. Review!MaxMoves \in Nat /\ reviewMoves <= Review!MaxMoves
  <2>1. changes \in 0..MaxChanges /\ ReviewSpent
    BY DEF ReviewShape
  <2>2. reviewMoves <= Count + changes
    BY <1>1, <2>1, ReviewLeftFew, ReviewBounds DEF ReviewSpent
  <2> QED BY <1>1, <2>1, <2>2, ReviewBounds DEF Review!MaxMoves
<1>3. \A n \in Nat : n <= reviewMoves => n \in 0..Review!MaxMoves
  BY <1>1, <1>2
<1>4. ASSUME NEW d \in ReviewData, d.ver <= reviewMoves PROVE d \in Review!Data
  <2>1. d.ver \in 0..Review!MaxMoves
    BY <1>3, <1>4 DEF ReviewData
  <2> QED BY <2>1 DEF ReviewData, Review!Data
<1>5. page \in Review!Run /\ reviewShown \in Review!Data
  <2>1. page.got \in Review!Data /\ reviewShown \in Review!Data
    BY <1>1, <1>4 DEF ReviewShape, ReviewDated, ReviewPage
  <2> QED BY <1>1, <2>1 DEF ReviewPage, Review!Run
<1>6. reviewSend \in Review!Send /\ edit \in Review!Edit
  <2>1. reviewSend.ver \in 0..Review!MaxMoves /\ edit.ver \in 0..Review!MaxMoves
    BY <1>1, <1>3 DEF ReviewShape, ReviewDated, ReviewSend, ReviewEdit
  <2> QED BY <1>1, <2>1 DEF ReviewSend, ReviewEdit, Review!Send, Review!Edit
<1>7. reviewMoves \in 0..Review!MaxMoves /\ reviewFloor \in 0..Review!MaxMoves
  BY <1>1, <1>3
<1> QED BY <1>1, <1>5, <1>6, <1>7 DEF Review!TypeOK, ReviewShape, ReviewScreen
------------------------------------------------------------------------------
(* The register of invoices. *)

RegPage ==
  [query : Reg!Queries, rows : [Reg!Invoices -> Reg!Statuses \cup {"absent"}], ver : Nat]
RegList == [st : {"loading", "served", "ready", "error"}, query : Reg!Queries, got : RegPage]
RegTick == [st : {"none", "out", "served"}, counts : BOOLEAN, query : Reg!Queries, got : RegPage]
RegSend ==
  [st : {"none", "out", "done"}, ids : SUBSET Reg!Invoices, query : Reg!Queries, ver : Nat]

RegTyped ==
  /\ regServer \in [Reg!Invoices -> Reg!Statuses]
  /\ regMoves \in Nat /\ regFloor \in Nat /\ query \in Reg!Queries
  /\ regList \in RegList /\ held \in RegPage /\ live \in RegPage
  /\ tick \in RegTick /\ regSend \in RegSend

\* While a page is loaded, it, the refresh shown in its place and the refresh
\* that may still answer into it are from after what the screen was told of.
RegAbreast ==
  /\ regFloor <= regMoves
  /\ regSend.st = "done" => regSend.ver <= regMoves
  /\ regList.st \in {"served", "ready"} => regList.got.ver >= regFloor
  /\ regList.st = "ready" =>
       /\ tick.st = "served" /\ tick.counts => tick.got.ver >= regFloor
       /\ live # Reg!None => live.ver >= regFloor
       /\ regSelected \subseteq Reg!Eligible(Reg!Shown)

RegInv == RegTyped /\ RegAbreast

LEMMA RegEmpty ==
  /\ Reg!None \in RegPage
  /\ Reg!NoTick \in RegTick /\ Reg!NoTick.st = "none"
  /\ Reg!NoSend \in RegSend /\ Reg!NoSend.st = "none"
  /\ \A q \in Reg!Queries : Reg!Loading(q) \in RegList /\ Reg!Loading(q).st = "loading"
<1>1. Reg!None = [query |-> "later", rows |-> [i \in Reg!Invoices |-> "absent"], ver |-> 0]
  BY DEF Reg!None, Reg!Nothing
<1>2. Reg!None \in RegPage
  BY <1>1 DEF RegPage, Reg!Queries
<1> QED
  BY <1>2 DEF Reg!NoTick, RegTick, Reg!NoSend, RegSend, Reg!Loading, RegList, Reg!Queries

LEMMA RegInit == Reg!Init => RegInv
<1> SUFFICES ASSUME Reg!Init PROVE RegInv
  OBVIOUS
<1>1. RegTyped
  BY RegEmpty DEF Reg!Init, RegTyped, Reg!Statuses, Reg!Queries
<1>2. RegAbreast
  BY RegEmpty DEF Reg!Init, RegAbreast, Reg!Queries
<1> QED BY <1>1, <1>2 DEF RegInv

LEMMA RegAnswer ==
  ASSUME RegTyped, NEW q \in Reg!Queries
  PROVE  Reg!Answer(q) \in RegPage /\ Reg!Answer(q).ver = regMoves
BY DEF Reg!Answer, RegTyped, RegPage

\* The service moved on, and may have answered a submission.
LEMMA RegServiceMoves ==
  ASSUME RegInv, UNCHANGED <<query, regList, held, live, tick, regFloor, regSelected>>,
         regServer' \in [Reg!Invoices -> Reg!Statuses],
         regMoves' \in Nat, regMoves <= regMoves',
         regSend' = regSend \/ (regSend' \in RegSend /\ regSend'.ver = regMoves')
  PROVE  RegInv'
<1>1. RegTyped'
  BY DEF RegInv, RegTyped
<1>2. Reg!Shown' = Reg!Shown
  BY DEF Reg!Shown, Reg!Behind
<1>3. RegAbreast'
  BY <1>2 DEF RegInv, RegAbreast, RegTyped, RegSend, Reg!Eligible
<1> QED BY <1>1, <1>3 DEF RegInv

\* A step on the rows that are shown: nothing is read, and only what is shown
\* as ready stays selected.
LEMMA RegOnlyRows ==
  ASSUME RegInv, UNCHANGED <<regServer, regMoves, query, regList, held, live, regFloor>>,
         tick' = tick \/ (tick' \in RegTick /\ (tick'.st = "served" => tick'.got.ver = regMoves)),
         regSend' = regSend \/ (regSend' \in RegSend /\ regSend'.st # "done"),
         regSelected' \subseteq regSelected \/ regSelected' \subseteq Reg!Eligible(Reg!Shown)
  PROVE  RegInv'
<1>1. RegTyped'
  BY DEF RegInv, RegTyped
<1>2. Reg!Shown' = Reg!Shown
  BY DEF Reg!Shown, Reg!Behind
<1>3. RegAbreast'
  BY <1>2 DEF RegInv, RegAbreast, RegTyped, RegSend, Reg!Eligible
<1> QED BY <1>1, <1>3 DEF RegInv

\* A page is asked for, and the screen may have been told of a change that was
\* served before.
LEMMA RegAsks ==
  ASSUME RegInv, UNCHANGED <<regServer, regMoves>>,
         NEW q \in Reg!Queries, Reg!Asks(q), query' \in Reg!Queries,
         regFloor' \in Nat, regFloor' <= regMoves,
         regSend' \in {regSend, Reg!NoSend}
  PROVE  RegInv'
<1>1. regList' \in RegList /\ regList'.st = "loading" /\ held' \in RegPage /\ live' \in RegPage
  BY RegEmpty DEF Reg!Asks, RegInv, RegTyped
<1>2. tick' \in RegTick
  BY DEF Reg!Asks, Reg!Forgets, RegInv, RegTyped, RegTick
<1>3. RegTyped'
  BY <1>1, <1>2, RegEmpty DEF RegInv, RegTyped
<1>4. RegAbreast'
  BY <1>1, RegEmpty DEF RegInv, RegAbreast
<1> QED BY <1>3, <1>4 DEF RegInv

LEMMA RegLoads ==
  ASSUME RegInv,
         \/ Reg!ListServed \/ Reg!ListLands \/ Reg!ListFails \/ Reg!Retry
         \/ \E q \in Reg!Queries : Reg!Narrow(q)
  PROVE  RegInv'
<1> USE DEF Reg!data, Reg!bulk
<1>1. CASE Reg!ListServed
  <2>1. /\ regList' = [st |-> "served", query |-> regList.query, got |-> Reg!Answer(regList.query)]
        /\ regList.query \in Reg!Queries
    BY <1>1 DEF Reg!ListServed, RegInv, RegTyped, RegList
  <2>2. Reg!Answer(regList.query) \in RegPage /\ Reg!Answer(regList.query).ver = regMoves
    BY <2>1, RegAnswer DEF RegInv
  <2>3. RegTyped'
    BY <1>1, <2>1, <2>2 DEF Reg!ListServed, RegInv, RegTyped, RegList
  <2>4. RegAbreast'
    BY <1>1, <2>1, <2>2 DEF Reg!ListServed, RegInv, RegAbreast, RegTyped
  <2> QED BY <2>3, <2>4 DEF RegInv
<1>2. CASE Reg!ListLands
  <2>1. /\ regList' = [st |-> "ready", query |-> regList.query, got |-> regList.got]
        /\ regList.got \in RegPage
    BY <1>2 DEF Reg!ListLands, RegInv, RegTyped, RegList
  <2>2. tick' \in RegTick /\ tick'.counts = FALSE
    BY <1>2 DEF Reg!ListLands, Reg!Forgets, RegInv, RegTyped, RegTick
  <2>3. RegTyped'
    BY <1>2, <2>1, <2>2, RegEmpty DEF Reg!ListLands, RegInv, RegTyped, RegList
  <2>4. Reg!Shown' = regList.got
    BY <1>2, <2>1 DEF Reg!ListLands, Reg!Shown, Reg!Behind
  <2>5. RegAbreast'
    BY <1>2, <2>1, <2>2, <2>4 DEF Reg!ListLands, RegInv, RegAbreast, RegTyped, Reg!Eligible
  <2> QED BY <2>3, <2>5 DEF RegInv
<1>3. CASE Reg!ListFails
  <2>1. regList' = [st |-> "error", query |-> regList.query, got |-> Reg!None]
    BY <1>3 DEF Reg!ListFails, RegInv, RegTyped, RegList
  <2>2. RegTyped'
    BY <1>3, <2>1, RegEmpty DEF Reg!ListFails, RegInv, RegTyped, RegList
  <2>3. RegAbreast'
    BY <1>3, <2>1 DEF Reg!ListFails, RegInv, RegAbreast
  <2> QED BY <2>2, <2>3 DEF RegInv
<1>4. CASE Reg!Retry
  <2>1. RegTyped'
    BY <1>4, RegEmpty DEF Reg!Retry, RegInv, RegTyped
  <2>2. RegAbreast'
    BY <1>4, RegEmpty DEF Reg!Retry, RegInv, RegTyped, RegAbreast
  <2> QED BY <2>1, <2>2 DEF RegInv
<1>5. ASSUME NEW q \in Reg!Queries, Reg!Narrow(q) PROVE RegInv'
  BY <1>5, RegAsks DEF Reg!Narrow, RegInv, RegTyped, RegAbreast
<1> QED BY <1>1, <1>2, <1>3, <1>4, <1>5

LEMMA RegTicks ==
  ASSUME RegInv, Reg!Tick \/ Reg!TickServed \/ Reg!TickLands \/ Reg!TickFails
  PROVE  RegInv'
<1> USE DEF Reg!data, Reg!bulk
<1>1. CASE Reg!Tick
  <2>1. tick' = [st |-> "out", counts |-> TRUE, query |-> query, got |-> Reg!None]
    BY <1>1 DEF Reg!Tick, Reg!NoTick
  <2>2. tick' \in RegTick /\ tick'.st = "out"
    BY <2>1, RegEmpty DEF RegTick, RegInv, RegTyped
  <2> QED BY <1>1, <2>2, RegOnlyRows DEF Reg!Tick
<1>2. CASE Reg!TickServed
  <2>1. /\ tick' = [st |-> "served", counts |-> tick.counts, query |-> tick.query,
                    got |-> Reg!Answer(tick.query)]
        /\ tick.query \in Reg!Queries /\ tick.counts \in BOOLEAN
    BY <1>2 DEF Reg!TickServed, RegInv, RegTyped, RegTick
  <2>2. Reg!Answer(tick.query) \in RegPage /\ Reg!Answer(tick.query).ver = regMoves
    BY <2>1, RegAnswer DEF RegInv
  <2>3. tick' \in RegTick /\ tick'.got.ver = regMoves
    BY <2>1, <2>2 DEF RegTick
  <2> QED BY <1>2, <2>3, RegOnlyRows DEF Reg!TickServed
<1>3. CASE Reg!TickLands
  <2>1. CASE tick.counts
    <3>1. tick.got \in RegPage
      BY DEF RegInv, RegTyped, RegTick
    <3>2. RegTyped'
      BY <1>3, <2>1, <3>1, RegEmpty DEF Reg!TickLands, RegInv, RegTyped
    <3>3. regList.st = "ready" => regSelected' \subseteq Reg!Eligible(Reg!Shown')
      <4>1. CASE tick.got = Reg!None
        <5>1. regSelected' = {}
          BY <1>3, <2>1, <4>1 DEF Reg!TickLands, Reg!Eligible, Reg!None, Reg!Nothing
        <5> QED BY <5>1
      <4>2. CASE tick.got # Reg!None
        BY <1>3, <2>1, <4>2 DEF Reg!TickLands, Reg!Shown, Reg!Eligible
      <4> QED BY <4>1, <4>2
    <3>4. RegAbreast'
      BY <1>3, <2>1, <3>3, RegEmpty DEF Reg!TickLands, RegInv, RegAbreast, Reg!Eligible
    <3> QED BY <3>2, <3>4 DEF RegInv
  <2>2. CASE ~tick.counts
    BY <1>3, <2>2, RegOnlyRows, RegEmpty DEF Reg!TickLands
  <2> QED BY <2>1, <2>2
<1>4. CASE Reg!TickFails
  BY <1>4, RegOnlyRows, RegEmpty DEF Reg!TickFails
<1> QED BY <1>1, <1>2, <1>3, <1>4

LEMMA RegClicks ==
  ASSUME RegInv,
         \/ \E i \in Reg!Invoices : Reg!Toggle(i)
         \/ Reg!ToggleAll \/ Reg!Arm \/ Reg!Cancel \/ Reg!Confirm
  PROVE  RegInv'
<1> USE DEF Reg!data
<1>1. ASSUME NEW i \in Reg!Invoices, Reg!Toggle(i) PROVE RegInv'
  <2>1. CASE i \in regSelected
    BY <1>1, <2>1, RegOnlyRows DEF Reg!Toggle, Reg!Toggled, Reg!Disarm
  <2>2. CASE i \notin regSelected
    <3>1. regSelected' \subseteq regSelected \cup {i} /\ i \in Reg!Eligible(Reg!Shown)
      BY <1>1, <2>2 DEF Reg!Toggle, Reg!Toggled, Reg!Disarm
    <3>2. RegTyped'
      BY <1>1 DEF Reg!Toggle, RegInv, RegTyped
    <3>3. Reg!Shown' = Reg!Shown
      BY <1>1 DEF Reg!Toggle, Reg!Shown, Reg!Behind
    <3>4. RegAbreast'
      BY <1>1, <3>1, <3>3 DEF Reg!Toggle, RegInv, RegAbreast, Reg!Eligible
    <3> QED BY <3>2, <3>4 DEF RegInv
  <2> QED BY <2>1, <2>2
<1>2. CASE Reg!ToggleAll
  BY <1>2, RegOnlyRows DEF Reg!ToggleAll, Reg!Toggled, Reg!Disarm
<1>3. CASE Reg!Arm
  BY <1>3, RegOnlyRows DEF Reg!Arm
<1>4. CASE Reg!Cancel
  BY <1>4, RegOnlyRows DEF Reg!Cancel
<1>5. CASE Reg!Confirm
  <2>1. regSend' = [st |-> "out", ids |-> Reg!Bar, query |-> query, ver |-> 0]
    BY <1>5 DEF Reg!Confirm, Reg!NoSend
  <2>2. regSend' \in RegSend /\ regSend'.st = "out"
    BY <2>1 DEF RegSend, RegInv, RegTyped, Reg!Bar, Reg!Eligible
  <2> QED BY <1>5, <2>2, RegOnlyRows DEF Reg!Confirm
<1> QED BY <1>1, <1>2, <1>3, <1>4, <1>5

LEMMA RegRequests ==
  ASSUME RegInv,
         \/ \E i \in Reg!Invoices : Reg!Decided(i) \/ Reg!OthersMove(i)
         \/ Reg!SendServed \/ Reg!SendAnswered \/ Reg!SendFails
  PROVE  RegInv'
<1> USE DEF Reg!data, Reg!bulk
<1>1. /\ regServer \in [Reg!Invoices -> Reg!Statuses] /\ regMoves \in Nat
      /\ regSend \in RegSend
  BY DEF RegInv, RegTyped
<1>2. ASSUME NEW i \in Reg!Invoices, Reg!Decided(i) PROVE RegInv'
  <2>1. regServer' \in [Reg!Invoices -> Reg!Statuses]
    BY <1>1, <1>2 DEF Reg!Decided, Reg!Statuses
  <2> QED BY <1>1, <1>2, <2>1, RegServiceMoves DEF Reg!Decided
<1>3. ASSUME NEW i \in Reg!Invoices, Reg!OthersMove(i) PROVE RegInv'
  <2>1. regServer' \in [Reg!Invoices -> Reg!Statuses]
    BY <1>1, <1>3 DEF Reg!OthersMove, Reg!Statuses
  <2> QED BY <1>1, <1>3, <2>1, RegServiceMoves DEF Reg!OthersMove
<1>4. CASE Reg!SendServed
  <2> DEFINE valid == {i \in regSend.ids : regServer[i] = "validated"}
  <2>1. Reg!Cardinality(valid) \in Nat
    <3>1. IsFiniteSet(1..Registered)
      BY FS_Interval, PageAssumption DEF Reg!RegisterAssumption
    <3>2. valid \subseteq 1..Registered
      BY <1>1 DEF RegSend, Reg!Invoices
    <3>3. Cardinality(valid) \in Nat
      BY <3>1, <3>2, FS_Subset, FS_CardinalityType
    <3>4. Reg!Cardinality(valid) = Cardinality(valid)
      BY DEF Reg!Cardinality, Cardinality
    <3> QED BY <3>3, <3>4
  <2>2. /\ regServer' = [i \in Reg!Invoices |-> IF i \in valid THEN "queued" ELSE regServer[i]]
        /\ regMoves' = regMoves + Reg!Cardinality(valid)
    BY <1>4 DEF Reg!SendServed
  <2>3. regServer' \in [Reg!Invoices -> Reg!Statuses]
    BY <1>1, <2>2 DEF Reg!Statuses
  <2>4. regMoves' \in Nat /\ regMoves <= regMoves'
    BY <1>1, <2>1, <2>2
  <2>5. regSend' = [st |-> "done", ids |-> regSend.ids, query |-> regSend.query, ver |-> regMoves']
    BY <1>1, <1>4 DEF Reg!SendServed, RegSend
  <2>6. regSend' \in RegSend /\ regSend'.ver = regMoves'
    BY <1>1, <2>4, <2>5 DEF RegSend
  <2> QED BY <1>4, <2>3, <2>4, <2>6, RegServiceMoves DEF Reg!SendServed
<1>5. CASE Reg!SendAnswered
  <2>1. regSend.query \in Reg!Queries /\ regSend.ver \in Nat /\ regSend.ver <= regMoves
    BY <1>1, <1>5 DEF Reg!SendAnswered, RegSend, RegInv, RegAbreast
  <2> QED BY <1>5, <2>1, RegAsks DEF Reg!SendAnswered, RegInv, RegTyped
<1>6. CASE Reg!SendFails
  BY <1>6, RegOnlyRows, RegEmpty DEF Reg!SendFails
<1> QED BY <1>2, <1>3, <1>4, <1>5, <1>6

LEMMA RegNext == RegInv /\ Reg!Next => RegInv'
BY RegLoads, RegTicks, RegClicks, RegRequests DEF Reg!Next

LEMMA RegOffers == RegInv => Reg!NothingOfferedTwice
BY DEF RegInv, RegAbreast, RegTyped, Reg!NothingOfferedTwice, Reg!Shown, Reg!Behind

RegArmed == regPhase = "armed" => regArmedFor = Reg!Bar

\* A step leaves the prompt and the rows it counts alone, closes it, or opens
\* it for what it counts.
LEMMA RegArms == RegInv /\ RegArmed /\ Reg!Next => RegArmed'
<1> SUFFICES ASSUME RegInv, RegArmed, Reg!Next PROVE RegArmed'
  OBVIOUS
<1> USE DEF Reg!Disarm, Reg!data, Reg!bulk
<1>1. ASSUME UNCHANGED <<regSelected, regPhase, regArmedFor>>, Reg!Shown' = Reg!Shown
      PROVE  RegArmed'
  BY <1>1 DEF RegArmed, Reg!Bar, Reg!Eligible
<1>2. ASSUME UNCHANGED <<regList, held, live>> PROVE Reg!Shown' = Reg!Shown
  BY <1>2 DEF Reg!Shown, Reg!Behind
<1>3. CASE \E i \in Reg!Invoices : Reg!Decided(i) \/ Reg!OthersMove(i) \/ Reg!Toggle(i)
  BY <1>1, <1>2, <1>3 DEF Reg!Decided, Reg!OthersMove, Reg!Toggle, Reg!Toggled, RegArmed
<1>4. CASE Reg!ListServed \/ Reg!ListFails \/ Reg!Retry
  <2>1. /\ UNCHANGED <<held, live, regSelected, regPhase, regArmedFor>>
        /\ regList.st # "ready"
    BY <1>4 DEF Reg!ListServed, Reg!ListFails, Reg!Retry
  <2>2. regList'.st # "ready"
    <3>1. CASE Reg!ListServed
      <4>1. regList' = [st |-> "served", query |-> regList.query, got |-> Reg!Answer(regList.query)]
        BY <3>1 DEF Reg!ListServed, RegInv, RegTyped, RegList
      <4> QED BY <4>1
    <3>2. CASE Reg!ListFails
      <4>1. regList' = [st |-> "error", query |-> regList.query, got |-> Reg!None]
        BY <3>2 DEF Reg!ListFails, RegInv, RegTyped, RegList
      <4> QED BY <4>1
    <3>3. CASE Reg!Retry
      BY <3>3 DEF Reg!Retry, Reg!Loading
    <3> QED BY <1>4, <3>1, <3>2, <3>3
  <2>3. Reg!Shown' = Reg!Shown
    BY <2>1, <2>2 DEF Reg!Shown, Reg!Behind
  <2> QED BY <1>1, <2>1, <2>3
<1>5. CASE Reg!ListLands \/ \E q \in Reg!Queries : Reg!Narrow(q)
  BY <1>5 DEF Reg!ListLands, Reg!Narrow, RegArmed
<1>6. CASE Reg!Tick \/ Reg!TickServed \/ Reg!TickFails
  BY <1>1, <1>2, <1>6 DEF Reg!Tick, Reg!TickServed, Reg!TickFails
<1>7. CASE Reg!TickLands
  BY <1>1, <1>2, <1>7 DEF Reg!TickLands, RegArmed
<1>8. CASE Reg!ToggleAll \/ Reg!Cancel \/ Reg!Confirm \/ Reg!SendAnswered \/ Reg!SendFails
  BY <1>8 DEF Reg!ToggleAll, Reg!Toggled, Reg!Cancel, Reg!Confirm, Reg!SendAnswered, Reg!SendFails,
     RegArmed
<1>9. CASE Reg!Arm
  BY <1>2, <1>9 DEF Reg!Arm, RegArmed, Reg!Bar, Reg!Eligible
<1>10. CASE Reg!SendServed
  BY <1>1, <1>2, <1>10 DEF Reg!SendServed
<1> QED
  BY <1>3, <1>4, <1>5, <1>6, <1>7, <1>8, <1>9, <1>10 DEF Reg!Next

LEMMA RegSends ==
  ASSUME RegInv, RegArmed, Reg!Next
  PROVE  Reg!SendsWhatWasArmed
<1> SUFFICES ASSUME regSend.st = "none", regSend'.st = "out"
             PROVE  regSend'.ids = regArmedFor
  BY DEF Reg!SendsWhatWasArmed
<1>1. Reg!Confirm
  BY RegEmpty DEF Reg!Next, Reg!Decided, Reg!OthersMove, Reg!Toggle, Reg!Toggled, Reg!ListServed, Reg!ListLands,
     Reg!ListFails, Reg!Retry, Reg!Narrow, Reg!Tick, Reg!TickServed, Reg!TickLands, Reg!TickFails,
     Reg!ToggleAll, Reg!Arm, Reg!Cancel, Reg!SendServed, Reg!SendAnswered, Reg!SendFails,
     Reg!bulk, Reg!data
<1>2. regSend' = [st |-> "out", ids |-> Reg!Bar, query |-> query, ver |-> 0]
  BY <1>1 DEF Reg!Confirm, Reg!NoSend
<1> QED BY <1>1, <1>2 DEF Reg!Confirm, RegArmed

\* What the register holds beside: nothing it was told or shown is of a later
\* change than the last; and an invoice is queued and answered once for each
\* time it was ready, as it was at the start or was made by somebody else.
RegReady == {i \in Reg!Invoices : regServer[i] = "validated"}
RegGoing == {i \in Reg!Invoices : regServer[i] \in {"validated", "queued"}}
RegSpent == regMoves + Cardinality(RegReady) + Cardinality(RegGoing) <= 2 * Registered + 3 * others

RegDated ==
  /\ regList.got.ver <= regMoves /\ held.ver <= regMoves /\ live.ver <= regMoves
  /\ tick.got.ver <= regMoves /\ regSend.ver <= regMoves

RegScreen ==
  /\ regSelected \subseteq Reg!Invoices /\ regArmedFor \subseteq Reg!Invoices
  /\ regPhase \in {"idle", "armed", "submitting"} /\ turns \in 0..MaxOthers

RegShape == RegScreen /\ RegDated /\ others \in 0..MaxOthers /\ RegSpent

LEMMA RegBounds ==
  Registered \in Nat /\ MaxOthers \in Nat /\ IsFiniteSet(Reg!Invoices) /\ Cardinality(Reg!Invoices) = Registered
<1>1. Registered \in Nat /\ MaxOthers \in Nat
  BY PageAssumption DEF Reg!RegisterAssumption
<1> QED BY <1>1, FS_Interval DEF Reg!Invoices

LEMMA RegFew ==
  /\ IsFiniteSet(RegReady) /\ Cardinality(RegReady) \in Nat /\ Cardinality(RegReady) <= Registered
  /\ IsFiniteSet(RegGoing) /\ Cardinality(RegGoing) \in Nat /\ Cardinality(RegGoing) <= Registered
<1>1. RegReady \subseteq Reg!Invoices /\ RegGoing \subseteq Reg!Invoices
  BY DEF RegReady, RegGoing
<1> QED BY <1>1, RegBounds, FS_Subset, FS_CardinalityType

LEMMA RegShaped == Reg!Init => RegShape
<1> SUFFICES ASSUME Reg!Init PROVE RegShape
  OBVIOUS
<1>1. /\ regMoves = 0 /\ others = 0 /\ turns = 0 /\ regList.got = Reg!None /\ held = Reg!None
      /\ live = Reg!None /\ tick = Reg!NoTick /\ regSend = Reg!NoSend
      /\ regSelected = {} /\ regArmedFor = {} /\ regPhase = "idle"
  BY DEF Reg!Init, Reg!Loading
<1>2. RegDated
  BY <1>1 DEF RegDated, Reg!None, Reg!Nothing, Reg!NoTick, Reg!NoSend
<1>3. RegSpent
  BY <1>1, RegFew, RegBounds DEF RegSpent
<1>4. 0 \in 0..MaxOthers
  BY RegBounds
<1> QED BY <1>1, <1>2, <1>3, <1>4 DEF RegShape, RegScreen

\* What a step may do to what was told and shown.
RegTells ==
  /\ regList' = regList \/ regList'.got \in {regList.got, Reg!None} \/ regList'.got.ver = regMoves
  /\ held' \in {held, regList.got} /\ live' \in {live, Reg!None, tick.got}
  /\ tick' = tick \/ tick'.got \in {tick.got, Reg!None} \/ tick'.got.ver = regMoves
  /\ regSend' = regSend \/ regSend'.ver \in {0, regMoves'}

LEMMA RegDates ==
  ASSUME RegInv, RegDated, RegTells, regMoves' \in Nat, regMoves <= regMoves'
  PROVE  RegDated'
<1>1. Reg!None.ver = 0
  BY DEF Reg!None, Reg!Nothing
<1>2. /\ regList.got.ver \in Nat /\ held.ver \in Nat /\ live.ver \in Nat /\ tick.got.ver \in Nat
      /\ regSend.ver \in Nat /\ regMoves \in Nat
  BY DEF RegInv, RegTyped, RegList, RegPage, RegTick, RegSend
<1>3. /\ regList.got.ver <= regMoves /\ held.ver <= regMoves /\ live.ver <= regMoves
      /\ tick.got.ver <= regMoves /\ regSend.ver <= regMoves
  BY DEF RegDated
<1>4. /\ regList'.got.ver \in {regList.got.ver, 0, regMoves}
      /\ held'.ver \in {held.ver, regList.got.ver} /\ live'.ver \in {live.ver, 0, tick.got.ver}
      /\ tick'.got.ver \in {tick.got.ver, 0, regMoves}
      /\ regSend'.ver \in {regSend.ver, 0, regMoves'}
  BY <1>1 DEF RegTells
<1> QED BY <1>2, <1>3, <1>4 DEF RegDated

\* A step that leaves the service alone.
LEMMA RegWaits ==
  ASSUME RegInv, RegShape, RegTells, RegScreen', UNCHANGED <<regServer, regMoves, others>>
  PROVE  RegShape'
<1>1. regMoves \in Nat
  BY DEF RegInv, RegTyped
<1>2. RegDated'
  BY <1>1, RegDates DEF RegShape
<1>3. RegReady' = RegReady /\ RegGoing' = RegGoing
  BY DEF RegReady, RegGoing
<1> QED BY <1>2, <1>3 DEF RegShape, RegSpent

LEMMA RegDisarms ==
  ASSUME RegScreen, Reg!Disarm
  PROVE  regPhase' \in {"idle", "armed", "submitting"} /\ regArmedFor' \subseteq Reg!Invoices
BY DEF RegScreen, Reg!Disarm

LEMMA RegReads ==
  ASSUME RegInv, NEW q, Reg!Asks(q)
  PROVE  /\ regList'.got = Reg!None /\ held' = held /\ live' \in {live, Reg!None}
         /\ tick' = tick \/ tick'.got = tick.got
<1>1. tick \in RegTick
  BY DEF RegInv, RegTyped
<1> QED BY <1>1 DEF Reg!Asks, Reg!Loading, Reg!Forgets, RegTick

LEMMA RegShapeLoads ==
  ASSUME RegInv, RegShape,
         \/ Reg!ListServed \/ Reg!ListLands \/ Reg!ListFails \/ Reg!Retry
         \/ \E q \in Reg!Queries : Reg!Narrow(q)
         \/ Reg!Tick \/ Reg!TickServed \/ Reg!TickLands \/ Reg!TickFails
  PROVE  RegShape'
<1> USE DEF Reg!data, Reg!bulk
<1>0. RegScreen /\ regList \in RegList /\ tick \in RegTick
  BY DEF RegShape, RegInv, RegTyped
<1>1. ASSUME NEW d \in RegPage PROVE Reg!Eligible(d) \subseteq Reg!Invoices
  BY DEF Reg!Eligible
<1>2. CASE Reg!ListServed
  <2>1. regList'.got = Reg!Answer(regList.query) /\ regList.query \in Reg!Queries
    BY <1>0, <1>2 DEF Reg!ListServed, RegList
  <2>2. regList'.got.ver = regMoves
    BY <2>1, RegAnswer DEF RegInv
  <2> QED BY <1>0, <1>2, <2>2, RegWaits DEF Reg!ListServed, RegTells, RegScreen
<1>3. CASE Reg!ListLands
  <2>1. regList'.got = regList.got /\ tick'.got = tick.got
    BY <1>0, <1>3 DEF Reg!ListLands, Reg!Forgets, RegList, RegTick
  <2>2. regPhase' \in {"idle", "armed", "submitting"} /\ regArmedFor' \subseteq Reg!Invoices
    BY <1>0, <1>3, RegDisarms DEF Reg!ListLands
  <2>3. /\ regSelected' \subseteq regSelected /\ live' = Reg!None /\ held' = regList.got
        /\ UNCHANGED <<regServer, regMoves, others, turns, regSend>>
    BY <1>3 DEF Reg!ListLands
  <2> QED BY <1>0, <2>1, <2>2, <2>3, RegWaits DEF RegTells, RegScreen
<1>4. CASE Reg!ListFails
  <2>1. regList'.got = Reg!None
    BY <1>0, <1>4 DEF Reg!ListFails, RegList
  <2> QED BY <1>0, <1>4, <2>1, RegWaits DEF Reg!ListFails, RegTells, RegScreen
<1>5. CASE Reg!Retry
  <2>1. regList'.got = Reg!None
    BY <1>5 DEF Reg!Retry, Reg!Loading
  <2> QED BY <1>0, <1>5, <2>1, RegWaits DEF Reg!Retry, RegTells, RegScreen
<1>6. ASSUME NEW q \in Reg!Queries, Reg!Narrow(q) PROVE RegShape'
  <2>1. /\ regList'.got = Reg!None /\ held' = held /\ live' \in {live, Reg!None}
        /\ tick' = tick \/ tick'.got = tick.got
    BY <1>6, RegReads DEF Reg!Narrow
  <2>2. regPhase' \in {"idle", "armed", "submitting"} /\ regArmedFor' \subseteq Reg!Invoices
    BY <1>0, <1>6, RegDisarms DEF Reg!Narrow
  <2>3. /\ regSelected' = {} /\ turns < MaxOthers /\ turns' = turns + 1
        /\ UNCHANGED <<regServer, regMoves, others, regSend>>
    BY <1>6 DEF Reg!Narrow
  <2>4. turns' \in 0..MaxOthers
    BY <1>0, <2>3, RegBounds DEF RegScreen
  <2> QED BY <2>1, <2>2, <2>3, <2>4, RegWaits DEF RegTells, RegScreen
<1>7. CASE Reg!Tick
  <2>1. tick'.got = Reg!None
    BY <1>7 DEF Reg!Tick, Reg!NoTick
  <2> QED BY <1>0, <1>7, <2>1, RegWaits DEF Reg!Tick, RegTells, RegScreen
<1>8. CASE Reg!TickServed
  <2>1. tick'.got = Reg!Answer(tick.query) /\ tick.query \in Reg!Queries
    BY <1>0, <1>8 DEF Reg!TickServed, RegTick
  <2>2. tick'.got.ver = regMoves
    BY <2>1, RegAnswer DEF RegInv
  <2> QED BY <1>0, <1>8, <2>2, RegWaits DEF Reg!TickServed, RegTells, RegScreen
<1>9. CASE Reg!TickLands
  <2>1. tick'.got = Reg!None /\ live' \in {live, tick.got}
    BY <1>9 DEF Reg!TickLands, Reg!NoTick
  <2>2. /\ regPhase' \in {"idle", "armed", "submitting"} /\ regArmedFor' \subseteq Reg!Invoices
        /\ regSelected' \subseteq Reg!Invoices
    <3>1. CASE tick.counts
      BY <1>0, <1>9, <3>1, RegDisarms DEF Reg!TickLands, RegScreen
    <3>2. CASE ~tick.counts
      BY <1>0, <1>9, <3>2 DEF Reg!TickLands, RegScreen
    <3> QED BY <3>1, <3>2
  <2>3. UNCHANGED <<regServer, regMoves, others, turns, regList, held, regSend>>
    BY <1>9 DEF Reg!TickLands
  <2> QED BY <1>0, <2>1, <2>2, <2>3, RegWaits DEF RegTells, RegScreen
<1>10. CASE Reg!TickFails
  <2>1. tick'.got = Reg!None
    BY <1>10 DEF Reg!TickFails, Reg!NoTick
  <2> QED BY <1>0, <1>10, <2>1, RegWaits DEF Reg!TickFails, RegTells, RegScreen
<1> QED BY <1>2, <1>3, <1>4, <1>5, <1>6, <1>7, <1>8, <1>9, <1>10

LEMMA RegShapeClicks ==
  ASSUME RegInv, RegShape,
         \/ \E i \in Reg!Invoices : Reg!Toggle(i)
         \/ Reg!ToggleAll \/ Reg!Arm \/ Reg!Cancel \/ Reg!Confirm \/ Reg!SendAnswered \/ Reg!SendFails
  PROVE  RegShape'
<1> USE DEF Reg!data, Reg!bulk
<1>0. RegScreen /\ Reg!Eligible(Reg!Shown) \subseteq Reg!Invoices
  BY DEF RegShape, Reg!Eligible
<1>1. ASSUME UNCHANGED <<regServer, regMoves, others, turns, regList, held, live, tick>>,
             regSend' = regSend \/ regSend'.ver = 0, regSelected' \subseteq Reg!Invoices,
             regPhase' \in {"idle", "armed", "submitting"}, regArmedFor' \subseteq Reg!Invoices
      PROVE  RegShape'
  BY <1>0, <1>1, RegWaits DEF RegTells, RegScreen
<1>2. ASSUME NEW s \in SUBSET Reg!Invoices, Reg!Toggled(s),
             UNCHANGED <<regServer, regMoves, others, turns, regList, held, live, tick, regSend>>
      PROVE  RegShape'
  BY <1>0, <1>1, <1>2, RegDisarms DEF Reg!Toggled
<1>3. ASSUME NEW i \in Reg!Invoices, Reg!Toggle(i) PROVE RegShape'
  <2>1. regSelected \subseteq Reg!Invoices
    BY <1>0 DEF RegScreen
  <2> QED BY <1>2, <1>3, <2>1 DEF Reg!Toggle
<1>4. CASE Reg!ToggleAll
  BY <1>0, <1>2, <1>4 DEF Reg!ToggleAll
<1>5. CASE Reg!Arm
  BY <1>0, <1>1, <1>5 DEF Reg!Arm, Reg!Bar, RegScreen
<1>6. CASE Reg!Cancel
  BY <1>0, <1>1, <1>6, RegDisarms DEF Reg!Cancel, RegScreen
<1>7. CASE Reg!Confirm
  <2>1. regSend'.ver = 0
    BY <1>7 DEF Reg!Confirm, Reg!NoSend
  <2> QED BY <1>0, <1>1, <1>7, <2>1 DEF Reg!Confirm, RegScreen
<1>8. CASE Reg!SendFails
  <2>1. regSend'.ver = 0
    BY <1>8 DEF Reg!SendFails, Reg!NoSend
  <2> QED BY <1>0, <1>1, <1>8, <2>1 DEF Reg!SendFails, RegScreen
<1>9. CASE Reg!SendAnswered
  <2>1. /\ regList'.got = Reg!None /\ held' = held /\ live' \in {live, Reg!None}
        /\ tick' = tick \/ tick'.got = tick.got
    BY <1>9, RegReads DEF Reg!SendAnswered
  <2>2. /\ regSend'.ver = 0 /\ regSelected' = {} /\ regPhase' = "idle" /\ regArmedFor' = {}
        /\ UNCHANGED <<regServer, regMoves, others, turns>>
    BY <1>9 DEF Reg!SendAnswered, Reg!NoSend
  <2> QED BY <1>0, <2>1, <2>2, RegWaits DEF RegTells, RegScreen
<1> QED BY <1>3, <1>4, <1>5, <1>6, <1>7, <1>8, <1>9

\* A step of the service.
LEMMA RegShapeServed ==
  ASSUME RegInv, RegShape,
         Reg!SendServed \/ \E i \in Reg!Invoices : Reg!Decided(i) \/ Reg!OthersMove(i)
  PROVE  RegShape'
<1> USE DEF Reg!data, Reg!bulk
<1>0. /\ RegScreen /\ others \in 0..MaxOthers /\ regMoves \in Nat /\ RegSpent
      /\ regServer \in [Reg!Invoices -> Reg!Statuses] /\ regSend \in RegSend
  BY DEF RegShape, RegInv, RegTyped
<1>1. ASSUME UNCHANGED <<turns, regList, held, live, tick, regSelected, regPhase, regArmedFor>>,
             regSend' = regSend \/ regSend'.ver = regMoves',
             others' \in 0..MaxOthers, regMoves' \in Nat, regMoves <= regMoves', RegSpent'
      PROVE  RegShape'
  <2>1. RegTells /\ RegScreen'
    BY <1>0, <1>1 DEF RegTells, RegScreen
  <2>2. RegDated'
    BY <1>1, <2>1, RegDates DEF RegShape
  <2> QED BY <1>1, <2>1, <2>2 DEF RegShape
<1>2. CASE Reg!SendServed
  <2> DEFINE S == {i \in regSend.ids : regServer[i] = "validated"}
  <2>1. S \subseteq RegReady
    BY <1>0 DEF RegReady, RegSend
  <2>2. RegReady' = RegReady \ S /\ RegGoing' = RegGoing
    BY <1>0, <1>2, <2>1 DEF Reg!SendServed, RegReady, RegGoing
  <2>3. Reg!Cardinality(S) = Cardinality(S)
    BY DEF Reg!Cardinality, Cardinality
  <2>4. /\ regMoves' = regMoves + Cardinality(S) /\ regSend'.ver = regMoves'
        /\ UNCHANGED <<others, turns, regList, held, live, tick, regSelected, regPhase, regArmedFor>>
    BY <1>0, <1>2, <2>3 DEF Reg!SendServed, RegSend
  <2> HIDE DEF S
  <2>5. /\ IsFiniteSet(S) /\ Cardinality(S) \in Nat /\ RegReady \cap S = S
        /\ Cardinality(RegReady \ S) = Cardinality(RegReady) - Cardinality(RegReady \cap S)
    BY <2>1, RegFew, FS_Subset, FS_CardinalityType, FS_Difference
  <2>6. RegSpent'
    <3>1. Cardinality(RegReady') = Cardinality(RegReady) - Cardinality(S)
      BY <2>2, <2>5
    <3>2. Cardinality(RegReady)' = Cardinality(RegReady') /\ Cardinality(RegGoing)' = Cardinality(RegGoing)
      BY <2>2
    <3> QED BY <1>0, <2>4, <2>5, <3>1, <3>2, RegFew, RegBounds DEF RegSpent
  <2>7. regMoves' \in Nat /\ regMoves <= regMoves'
    BY <1>0, <2>4, <2>5
  <2> QED BY <1>0, <1>1, <2>4, <2>6, <2>7
<1>3. ASSUME NEW i \in Reg!Invoices, Reg!Decided(i) PROVE RegShape'
  <2>1. /\ regServer[i] = "queued" /\ regMoves' = regMoves + 1
        /\ UNCHANGED <<others, turns, regList, held, live, tick, regSelected, regPhase, regArmedFor, regSend>>
    BY <1>3 DEF Reg!Decided
  <2>2. PICK s \in {"accepted", "rejected"} : regServer' = [regServer EXCEPT ![i] = s]
    BY <1>3 DEF Reg!Decided
  <2>3. RegReady' = RegReady /\ RegGoing' = RegGoing \ {i} /\ i \in RegGoing
    BY <1>0, <2>1, <2>2 DEF RegReady, RegGoing
  <2>4. Cardinality(RegGoing \ {i}) = Cardinality(RegGoing) - 1
    BY <2>3, RegFew, FS_RemoveElement
  <2>5. RegSpent'
    <3>1. Cardinality(RegReady)' = Cardinality(RegReady) /\ Cardinality(RegGoing)' = Cardinality(RegGoing) - 1
      BY <2>3, <2>4
    <3> QED BY <1>0, <2>1, <3>1, RegFew, RegBounds DEF RegSpent
  <2>6. regMoves' \in Nat /\ regMoves <= regMoves'
    BY <1>0, <2>1
  <2> QED BY <1>0, <1>1, <2>1, <2>5, <2>6
<1>4. ASSUME NEW i \in Reg!Invoices, Reg!OthersMove(i) PROVE RegShape'
  <2>1. /\ others < MaxOthers /\ regMoves' = regMoves + 1 /\ others' = others + 1
        /\ UNCHANGED <<turns, regList, held, live, tick, regSelected, regPhase, regArmedFor, regSend>>
    BY <1>4 DEF Reg!OthersMove
  <2>2. Cardinality(RegReady)' <= Cardinality(RegReady) + 1 /\ Cardinality(RegGoing)' <= Cardinality(RegGoing) + 1
        /\ Cardinality(RegReady)' \in Nat /\ Cardinality(RegGoing)' \in Nat
    <3>1. RegReady' \subseteq RegReady \cup {i} /\ RegGoing' \subseteq RegGoing \cup {i}
      BY <1>0, <1>4 DEF Reg!OthersMove, RegReady, RegGoing
    <3>2. /\ IsFiniteSet(RegReady \cup {i}) /\ Cardinality(RegReady \cup {i}) \in Nat
          /\ Cardinality(RegReady \cup {i}) <= Cardinality(RegReady) + 1
          /\ IsFiniteSet(RegGoing \cup {i}) /\ Cardinality(RegGoing \cup {i}) \in Nat
          /\ Cardinality(RegGoing \cup {i}) <= Cardinality(RegGoing) + 1
      <4>1. /\ IsFiniteSet(RegReady \cup {i})
            /\ Cardinality(RegReady \cup {i}) = IF i \in RegReady THEN Cardinality(RegReady) ELSE Cardinality(RegReady) + 1
        BY RegFew, FS_AddElement
      <4>2. /\ IsFiniteSet(RegGoing \cup {i})
            /\ Cardinality(RegGoing \cup {i}) = IF i \in RegGoing THEN Cardinality(RegGoing) ELSE Cardinality(RegGoing) + 1
        BY RegFew, FS_AddElement
      <4>3. Cardinality(RegReady \cup {i}) \in Nat /\ Cardinality(RegGoing \cup {i}) \in Nat
        BY <4>1, <4>2, FS_CardinalityType
      <4> QED BY <4>1, <4>2, <4>3, RegFew
    <3>3. /\ Cardinality(RegReady') <= Cardinality(RegReady \cup {i}) /\ Cardinality(RegReady') \in Nat
          /\ Cardinality(RegGoing') <= Cardinality(RegGoing \cup {i}) /\ Cardinality(RegGoing') \in Nat
      BY <3>1, <3>2, FS_Subset, FS_CardinalityType
    <3> QED BY <3>2, <3>3, RegFew
  <2>3. RegSpent'
    BY <1>0, <2>1, <2>2, RegFew, RegBounds DEF RegSpent
  <2>4. regMoves' \in Nat /\ regMoves <= regMoves' /\ others' \in 0..MaxOthers
    BY <1>0, <2>1, RegBounds
  <2> QED BY <1>1, <2>1, <2>3, <2>4
<1> QED BY <1>2, <1>3, <1>4

LEMMA RegShapes == RegInv /\ RegShape /\ Reg!Next => RegShape'
BY RegShapeLoads, RegShapeClicks, RegShapeServed DEF Reg!Next

LEMMA RegShapeStays == RegShape /\ UNCHANGED regVars => RegShape'
BY DEF regVars, RegShape, RegScreen, RegDated, RegSpent, RegReady, RegGoing

LEMMA RegTypes == RegInv /\ RegShape => Reg!TypeOK
<1> SUFFICES ASSUME RegInv, RegShape PROVE Reg!TypeOK
  OBVIOUS
<1>1. /\ regServer \in [Reg!Invoices -> Reg!Statuses] /\ regMoves \in Nat /\ regFloor \in Nat
      /\ query \in Reg!Queries /\ regList \in RegList /\ held \in RegPage /\ live \in RegPage
      /\ tick \in RegTick /\ regSend \in RegSend /\ regFloor <= regMoves
  BY DEF RegInv, RegTyped, RegAbreast
<1>2. Reg!MaxMoves \in Nat /\ regMoves <= Reg!MaxMoves
  <2>1. others \in 0..MaxOthers /\ RegSpent
    BY DEF RegShape
  <2>2. regMoves <= 2 * Registered + 3 * others
    BY <1>1, <2>1, RegFew, RegBounds DEF RegSpent
  <2> QED BY <1>1, <2>1, <2>2, RegBounds DEF Reg!MaxMoves
<1>3. \A n \in Nat : n <= regMoves => n \in 0..Reg!MaxMoves
  BY <1>1, <1>2
<1>4. ASSUME NEW d \in RegPage, d.ver <= regMoves PROVE d \in Reg!Page
  <2>1. d.ver \in 0..Reg!MaxMoves
    BY <1>3, <1>4 DEF RegPage
  <2> QED BY <2>1 DEF RegPage, Reg!Page
<1>5. /\ regList.got \in Reg!Page /\ held \in Reg!Page /\ live \in Reg!Page /\ tick.got \in Reg!Page
  BY <1>1, <1>4 DEF RegShape, RegDated, RegList, RegTick
<1>6. regList \in [st : {"loading", "served", "ready", "error"}, query : Reg!Queries, got : Reg!Page]
  BY <1>1, <1>5 DEF RegList
<1>7. tick \in [st : {"none", "out", "served"}, counts : BOOLEAN, query : Reg!Queries, got : Reg!Page]
  BY <1>1, <1>5 DEF RegTick
<1>8. regSend \in [st : {"none", "out", "done"}, ids : SUBSET Reg!Invoices, query : Reg!Queries, ver : 0..Reg!MaxMoves]
  <2>1. regSend.ver \in 0..Reg!MaxMoves
    BY <1>1, <1>3 DEF RegShape, RegDated, RegSend
  <2> QED BY <1>1, <2>1 DEF RegSend
<1>9. regMoves \in 0..Reg!MaxMoves /\ regFloor \in 0..Reg!MaxMoves
  BY <1>1, <1>3
<1> QED BY <1>1, <1>5, <1>6, <1>7, <1>8, <1>9 DEF Reg!TypeOK, RegShape, RegScreen
------------------------------------------------------------------------------
(* The invoices waiting for an approval. *)

QueueWire == [id : Mine, seat : Nat, st : {"asked", "done", "refused"}]

QueueTyped ==
  /\ waiting \subseteq Queue!Invoices /\ queueStored \in [Queue!Invoices -> {0, 1}]
  /\ todo \in Seq(Mine) /\ wire \subseteq QueueWire /\ seat \in Nat
  /\ queuePhase \in Queue!Steps

\* An invoice that still waits was not approved; an approval that is reported,
\* or about to be, was stored; and no page that may still be shown behind the
\* panel is from before.
QueueAbreast ==
  /\ \A i \in waiting : queueStored[i] = 0
  /\ \A w \in wire : w.st = "done" => queueStored[w.id] = 1
  /\ \A o \in report \cup results : o.ok => o.id \in Mine /\ queueStored[o.id] = 1
  /\ \A o \in results : o.ok /\ queueList.st \in {"served", "ready"} => o.id \notin queueList.rows

\* The prompt counts what is selected and can be sent; a run sends what it
\* counted, and has one decision out.
QueueRun ==
  /\ queuePhase = "armed" => queueArmedFor = Queue!ToSend
  /\ queuePhase = "submitting" => \A k \in 1..Len(todo) : todo[k] \in queueArmedFor
  /\ queuePhase # "submitting" => \A w \in wire : w.seat # seat
  /\ \A w, o \in wire : w.seat = seat /\ o.seat = seat => w = o
  /\ \A w \in wire : w.seat <= seat

QueueInv == QueueTyped /\ QueueAbreast /\ QueueRun

LEMMA QueueInit == Queue!Init => QueueInv
<1> SUFFICES ASSUME Queue!Init PROVE QueueInv
  OBVIOUS
<1>1. QueueTyped
  BY DEF Queue!Init, QueueTyped, Queue!Steps
<1>2. QueueAbreast
  BY DEF Queue!Init, QueueAbreast
<1>3. QueueRun
  BY DEF Queue!Init, QueueRun
<1> QED BY <1>1, <1>2, <1>3 DEF QueueInv

\* A step on the page: what is shown is what was answered, or nothing, and a
\* prompt goes with the rows it counted.
LEMMA QueuePage ==
  ASSUME QueueInv, UNCHANGED <<waiting, queueStored, todo, wire, report, results, seat>>,
         \/ queueList' = queueList
         \/ queueList'.st \notin {"served", "ready"}
         \/ queueList'.rows = waiting
         \/ queueList.st \in {"served", "ready"} /\ queueList'.rows = queueList.rows,
         \/ queuePhase = "submitting" /\ UNCHANGED <<queuePhase, queueArmedFor>>
         \/ queuePhase # "submitting" /\ queuePhase' = "idle"
         \/ /\ queuePhase # "submitting" /\ queuePhase' = "armed"
            /\ queueArmedFor' = Queue!ToSend'
  PROVE  QueueInv'
<1>1. QueueTyped'
  BY DEF QueueInv, QueueTyped, Queue!Steps
<1>2. \A o \in results : o.ok => o.id \notin waiting
  BY DEF QueueInv, QueueAbreast
<1>3. QueueAbreast'
  BY <1>2 DEF QueueInv, QueueAbreast
<1>4. QueueRun'
  BY DEF QueueInv, QueueRun
<1> QED BY <1>1, <1>3, <1>4 DEF QueueInv

LEMMA QueueScreen ==
  ASSUME QueueInv,
         \/ Queue!Serve \/ Queue!Lands \/ Queue!LoadFails \/ Queue!Retry \/ Queue!Turn
         \/ \E i \in Queue!Invoices : Queue!Toggle(i)
         \/ Queue!ToggleAll \/ Queue!Clear \/ Queue!Cancel \/ Queue!Arm
  PROVE  QueueInv'
<1>1. queuePhase \in Queue!Steps /\ (queuePhase = "armed" => queueArmedFor = Queue!ToSend)
  BY DEF QueueInv, QueueTyped, QueueRun
<1>2. CASE Queue!Serve
  <2>1. queuePhase = "armed" => queueArmedFor' = Queue!ToSend'
    BY <1>1, <1>2 DEF Queue!Serve, Queue!ToSend, Queue!Rows, Queue!Approvable
  <2> QED BY <1>1, <1>2, <2>1, QueuePage DEF Queue!Serve, Queue!Steps
<1>3. CASE Queue!Lands
  <2>1. queueList' = [queueList EXCEPT !.st = "ready"]
    BY <1>3 DEF Queue!Lands, Queue!Shows
  <2> QED BY <1>1, <1>3, <2>1, QueuePage DEF Queue!Lands, Queue!Shows, Queue!Disarmed, Queue!Steps
<1>4. CASE Queue!LoadFails
  BY <1>1, <1>4, QueuePage DEF Queue!LoadFails, Queue!Shows, Queue!Disarmed, Queue!Steps
<1>5. CASE Queue!Retry
  BY <1>1, <1>5, QueuePage DEF Queue!Retry, Queue!Shows, Queue!Loading, Queue!Disarmed, Queue!Steps
<1>6. CASE Queue!Turn
  BY <1>1, <1>6, QueuePage DEF Queue!Turn, Queue!Shows, Queue!Loading, Queue!Disarmed, Queue!Steps
<1>7. ASSUME NEW s, Queue!Ticks(s) PROVE QueueInv'
  BY <1>1, <1>7, QueuePage DEF Queue!Ticks, Queue!Disarmed, Queue!Steps
<1>8. CASE Queue!Arm
  BY <1>8, QueuePage DEF Queue!Arm, Queue!ToSend, Queue!Rows, Queue!Approvable
<1> QED
  BY <1>2, <1>3, <1>4, <1>5, <1>6, <1>7, <1>8
     DEF Queue!Toggle, Queue!ToggleAll, Queue!Clear, Queue!Cancel

LEMMA QueueOrder ==
  ASSUME NEW s \in Queue!Orders(Queue!ToSend), Queue!ToSend # {}
  PROVE  /\ s \in Seq(Mine) /\ s # <<>> /\ Head(s) \in Queue!ToSend
         /\ \A k \in 1..Len(Tail(s)) : Tail(s)[k] \in Queue!ToSend
<1>1. IsFiniteSet(Mine) /\ Queue!ToSend \subseteq Mine
  BY PageAssumption DEF Queue!QueueAssumption, Queue!IsFiniteSet, IsFiniteSet, Queue!ToSend,
     Queue!Approvable
<1>2. Cardinality(Queue!ToSend) \in Nat
  BY <1>1, FS_Subset, FS_CardinalityType
<1>3. Queue!Cardinality(Queue!ToSend) \in Nat
  BY <1>2 DEF Queue!Cardinality, Cardinality
<1>4. /\ s \in [1..Queue!Cardinality(Queue!ToSend) -> Queue!ToSend]
      /\ {s[k] : k \in DOMAIN s} = Queue!ToSend
  BY DEF Queue!Orders
<1>5. s \in Seq(Queue!ToSend) /\ s # <<>>
  BY <1>3, <1>4
<1> QED BY <1>1, <1>5

LEMMA QueueRuns ==
  ASSUME QueueInv, Queue!Confirm
  PROVE  QueueInv'
<1>1. PICK s \in Queue!Orders(Queue!ToSend) : Queue!First(s)
  BY DEF Queue!Confirm
<1>2. /\ s \in Seq(Mine) /\ s # <<>> /\ Head(s) \in Queue!ToSend
      /\ \A k \in 1..Len(Tail(s)) : Tail(s)[k] \in Queue!ToSend
  BY QueueOrder DEF Queue!Confirm, Queue!CanApprove
<1> DEFINE new == [id |-> Head(s), seat |-> seat, st |-> "asked"]
<1>3. todo' = Tail(s) /\ wire' = wire \cup {new}
  BY <1>1 DEF Queue!First
<1>4. new \in QueueWire /\ Tail(s) \in Seq(Mine)
  BY <1>2 DEF QueueWire, QueueInv, QueueTyped
<1>5. QueueTyped'
  BY <1>3, <1>4 DEF QueueInv, QueueTyped, Queue!Confirm, Queue!Steps
<1>6. QueueAbreast'
  BY <1>3 DEF QueueInv, QueueAbreast, Queue!Confirm
<1>7. QueueRun'
  BY <1>2, <1>3 DEF QueueInv, QueueTyped, QueueRun, Queue!Confirm
<1> QED BY <1>5, <1>6, <1>7 DEF QueueInv

LEMMA QueueDecides ==
  ASSUME QueueInv, NEW w \in wire, Queue!Decide(w)
  PROVE  QueueInv'
<1>1. w = [id |-> w.id, seat |-> w.seat, st |-> "asked"] /\ w.id \in Mine /\ w.seat \in Nat
  BY DEF QueueInv, QueueTyped, QueueWire, Queue!Decide
<1>2. PICK st \in {"done", "refused"} :
        /\ wire' = (wire \ {w}) \cup {[id |-> w.id, seat |-> w.seat, st |-> st]}
        /\ st = "done" => /\ w.id \in waiting /\ waiting' = waiting \ {w.id}
                          /\ queueStored' = [queueStored EXCEPT ![w.id] = @ + 1]
        /\ st = "refused" => UNCHANGED <<waiting, queueStored>>
  BY <1>1 DEF Queue!Decide, Queue!Waits
<1> DEFINE new == [id |-> w.id, seat |-> w.seat, st |-> st]
<1>3. \A i \in Queue!Invoices :
         queueStored'[i] = IF st = "done" /\ i = w.id THEN 1 ELSE queueStored[i]
  BY <1>1, <1>2 DEF QueueInv, QueueTyped, QueueAbreast
<1>4. QueueTyped'
  <2>1. queueStored' \in [Queue!Invoices -> {0, 1}]
    BY <1>2, <1>3 DEF QueueInv, QueueTyped
  <2>2. new \in QueueWire
    BY <1>1 DEF QueueWire
  <2> QED BY <1>2, <2>1, <2>2 DEF QueueInv, QueueTyped, Queue!Decide
<1>5. QueueAbreast'
  <2>1. waiting \subseteq Queue!Invoices /\ \A o \in wire : o.id \in Queue!Invoices
    BY DEF QueueInv, QueueTyped, QueueWire, Queue!Invoices
  <2>2. Mine \subseteq Queue!Invoices
    BY DEF Queue!Invoices
  <2>3. UNCHANGED <<queueList, report, results>>
    BY DEF Queue!Decide
  <2>4. \A i \in waiting' : queueStored'[i] = 0
    BY <1>2, <1>3, <2>1 DEF QueueInv, QueueAbreast
  <2>5. \A o \in wire' : o.st = "done" => queueStored'[o.id] = 1
    BY <1>1, <1>2, <1>3, <2>1, <2>2 DEF QueueInv, QueueAbreast
  <2>6. \A o \in report \cup results : o.ok => o.id \in Mine /\ queueStored'[o.id] = 1
    BY <1>3, <2>2 DEF QueueInv, QueueAbreast
  <2> QED BY <2>3, <2>4, <2>5, <2>6 DEF QueueInv, QueueAbreast
<1>6. QueueRun'
  BY <1>1, <1>2 DEF QueueInv, QueueRun, Queue!Decide, Queue!ToSend, Queue!Rows, Queue!Approvable
<1> QED BY <1>4, <1>5, <1>6 DEF QueueInv

LEMMA QueueSettles ==
  ASSUME QueueInv, NEW w \in wire, NEW ok \in BOOLEAN, ok => w.st = "done",
         Queue!Here(w), Queue!Settles(w, ok), UNCHANGED <<waiting, queueStored, seat>>
  PROVE  QueueInv'
<1>1. report' = report \cup {[id |-> w.id, ok |-> ok]}
  BY DEF Queue!Settles
<1>2. ok => w.id \in Mine /\ queueStored[w.id] = 1
  BY DEF QueueInv, QueueTyped, QueueWire, QueueAbreast
<1>3. w.seat = seat /\ queuePhase = "submitting"
  BY DEF Queue!Here
<1>4. CASE todo # <<>>
  <2> DEFINE new == [id |-> Head(todo), seat |-> seat, st |-> "asked"]
  <2>1. /\ wire' = (wire \ {w}) \cup {new} /\ todo' = Tail(todo)
        /\ UNCHANGED <<queueList, loads, queueSelected, queuePhase, results, queueArmedFor>>
    BY <1>4 DEF Queue!Settles
  <2>2. Head(todo) \in Mine /\ Tail(todo) \in Seq(Mine)
    BY <1>4 DEF QueueInv, QueueTyped
  <2>3. QueueTyped'
    BY <2>1, <2>2 DEF QueueInv, QueueTyped, QueueWire
  <2>4. QueueAbreast'
    BY <1>1, <1>2, <2>1 DEF QueueInv, QueueAbreast
  <2>5. \A k \in 1..Len(Tail(todo)) : Tail(todo)[k] \in queueArmedFor
    <3>1. \A k \in 1..Len(Tail(todo)) : k + 1 \in 1..Len(todo) /\ Tail(todo)[k] = todo[k + 1]
      BY <1>4 DEF QueueInv, QueueTyped
    <3> QED BY <1>3, <3>1 DEF QueueInv, QueueRun
  <2>6. QueueRun'
    BY <1>3, <2>1, <2>5 DEF QueueInv, QueueTyped, QueueRun
  <2> QED BY <2>3, <2>4, <2>6 DEF QueueInv
<1>5. CASE todo = <<>>
  <2>1. /\ wire' = wire \ {w} /\ todo' = <<>>
        /\ \A o \in results' : o.ok => o \in report'
        /\ queuePhase' = "idle" /\ queueList'.st = "loading"
    BY <1>5 DEF Queue!Settles, Queue!Loading
  <2>2. QueueTyped'
    BY <2>1 DEF QueueInv, QueueTyped, Queue!Steps
  <2>3. QueueAbreast'
    BY <1>1, <1>2, <2>1 DEF QueueInv, QueueAbreast
  <2>4. QueueRun'
    BY <1>3, <2>1 DEF QueueInv, QueueRun
  <2> QED BY <2>2, <2>3, <2>4 DEF QueueInv
<1> QED BY <1>4, <1>5

LEMMA QueueAnswers ==
  ASSUME QueueInv, NEW w \in wire, Queue!Answer(w) \/ Queue!Fails(w)
  PROVE  QueueInv'
<1>1. CASE Queue!Here(w)
  <2>1. PICK ok \in BOOLEAN : (ok => w.st = "done") /\ Queue!Settles(w, ok)
    BY <1>1 DEF Queue!Answer, Queue!Fails
  <2> QED BY <1>1, <2>1, QueueSettles DEF Queue!Answer, Queue!Fails
<1>2. CASE ~Queue!Here(w)
  <2>1. /\ wire' = wire \ {w}
        /\ UNCHANGED <<waiting, queueStored, queueList, queueSelected, queuePhase, todo, report,
                       results, queueArmedFor, seat>>
    BY <1>2 DEF Queue!Answer, Queue!Fails
  <2>2. QueueTyped' /\ QueueAbreast'
    BY <2>1 DEF QueueInv, QueueTyped, QueueAbreast
  <2>3. QueueRun'
    BY <2>1 DEF QueueInv, QueueRun, Queue!ToSend, Queue!Rows, Queue!Approvable
  <2> QED BY <2>2, <2>3 DEF QueueInv
<1> QED BY <1>1, <1>2

LEMMA QueueNext == QueueInv /\ Queue!Next => QueueInv'
<1> SUFFICES ASSUME QueueInv, Queue!Next PROVE QueueInv'
  OBVIOUS
<1>1. ASSUME NEW i \in Queue!Invoices, Queue!OthersDecide(i) PROVE QueueInv'
  <2>1. QueueTyped' /\ QueueAbreast'
    BY <1>1 DEF Queue!OthersDecide, QueueInv, QueueTyped, QueueAbreast
  <2>2. QueueRun'
    BY <1>1 DEF Queue!OthersDecide, QueueInv, QueueRun, Queue!ToSend, Queue!Rows, Queue!Approvable
  <2> QED BY <2>1, <2>2 DEF QueueInv
<1>2. CASE Queue!Leave
  <2>1. QueueTyped' /\ QueueAbreast'
    BY <1>2 DEF Queue!Leave, Queue!Loading, QueueInv, QueueTyped, QueueAbreast, Queue!Steps
  <2>2. QueueRun'
    BY <1>2 DEF Queue!Leave, QueueInv, QueueTyped, QueueRun, QueueWire
  <2> QED BY <2>1, <2>2 DEF QueueInv
<1> QED
  BY <1>1, <1>2, QueueScreen, QueueRuns, QueueDecides, QueueAnswers DEF Queue!Next

LEMMA QueueOffers == QueueInv => Queue!NothingOfferedTwice
BY DEF QueueInv, QueueAbreast, Queue!NothingOfferedTwice, Queue!Rows

\* A decision that goes out is the next one of the run.
LEMMA QueueSends ==
  ASSUME QueueInv, Queue!Next
  PROVE  Queue!SendsWhatWasArmed
<1> SUFFICES ASSUME NEW w \in wire' \ wire, w.st = "asked"
             PROVE  /\ w.id \in queueArmedFor /\ w.seat = seat /\ queuePhase' = "submitting"
                    /\ ~\E o \in wire' \ {w} : o.seat = seat
  BY DEF Queue!SendsWhatWasArmed
<1>1. QueueRun /\ todo \in Seq(Mine) /\ wire \subseteq QueueWire
  BY DEF QueueInv, QueueTyped
<1>2. CASE Queue!Confirm
  <2>1. PICK s \in Queue!Orders(Queue!ToSend) : Queue!First(s)
    BY <1>2 DEF Queue!Confirm
  <2>2. Head(s) \in Queue!ToSend
    BY <1>2, QueueOrder DEF Queue!Confirm, Queue!CanApprove
  <2>3. w = [id |-> Head(s), seat |-> seat, st |-> "asked"] /\ wire' \ {w} \subseteq wire
    BY <2>1 DEF Queue!First
  <2> QED BY <1>1, <1>2, <2>2, <2>3 DEF Queue!Confirm, QueueRun
<1>3. ASSUME NEW o \in wire, Queue!Decide(o) PROVE FALSE
  <2>1. o = [id |-> o.id, seat |-> o.seat, st |-> "asked"]
    BY <1>1, <1>3 DEF QueueWire, Queue!Decide
  <2>2. PICK st \in {"done", "refused"} :
          wire' = (wire \ {o}) \cup {[id |-> o.id, seat |-> o.seat, st |-> st]}
    BY <1>3, <2>1 DEF Queue!Decide
  <2> QED BY <2>2
<1>4. ASSUME NEW o \in wire, Queue!Answer(o) \/ Queue!Fails(o)
      PROVE  /\ w.id \in queueArmedFor /\ w.seat = seat /\ queuePhase' = "submitting"
             /\ ~\E x \in wire' \ {w} : x.seat = seat
  <2>1. Queue!Here(o) /\ todo # <<>>
    BY <1>4 DEF Queue!Answer, Queue!Fails, Queue!Settles
  <2>2. /\ wire' = (wire \ {o}) \cup {[id |-> Head(todo), seat |-> seat, st |-> "asked"]}
        /\ queuePhase' = queuePhase
    BY <1>4, <2>1 DEF Queue!Answer, Queue!Fails, Queue!Settles
  <2>3. w = [id |-> Head(todo), seat |-> seat, st |-> "asked"] /\ wire' \ {w} \subseteq wire \ {o}
    BY <2>2
  <2>4. Head(todo) = todo[1] /\ 1 \in 1..Len(todo)
    BY <1>1, <2>1
  <2> QED BY <1>1, <2>1, <2>2, <2>3, <2>4 DEF Queue!Here, QueueRun
<1>5. wire' # wire
  OBVIOUS
<1> QED
  BY <1>2, <1>3, <1>4, <1>5 DEF Queue!Next, Queue!OthersDecide, Queue!Toggle, Queue!Serve, Queue!Lands,
     Queue!LoadFails, Queue!Retry, Queue!Turn, Queue!ToggleAll, Queue!Clear, Queue!Cancel, Queue!Arm,
     Queue!Leave, Queue!Ticks

\* What the queue holds, at any time: a screen is mounted for every time the
\* page was asked for at most, and a decision that is out was sent from one.
QueuePages == [st : {"loading", "served", "ready", "error"}, rows : SUBSET Queue!Invoices]

QueueShape ==
  /\ queueList \in QueuePages /\ queueSelected \subseteq Queue!Invoices
  /\ queueArmedFor \subseteq Queue!Invoices
  /\ loads \in Nat /\ loads <= MaxLoads /\ 1 <= seat /\ seat <= loads
  /\ \A w \in wire : 1 <= w.seat
  /\ report \subseteq Queue!Outcome /\ results \subseteq Queue!Outcome

LEMMA QueueBounds == MaxLoads \in Nat /\ 1 <= MaxLoads /\ Queue!Loading \in QueuePages
<1>1. MaxLoads \in Nat \ {0}
  BY PageAssumption DEF Queue!QueueAssumption
<1>2. Queue!Loading \in QueuePages
  BY DEF Queue!Loading, QueuePages
<1> QED BY <1>1, <1>2

LEMMA QueueShaped == Queue!Init => QueueShape
BY QueueBounds DEF Queue!Init, QueueShape

\* A step on the page: no decision goes out and none comes back.
LEMMA QueueSeen ==
  ASSUME QueueInv, QueueShape,
         \/ \E i \in Queue!Invoices : Queue!OthersDecide(i) \/ Queue!Toggle(i)
         \/ Queue!Serve \/ Queue!Lands \/ Queue!LoadFails \/ Queue!Retry \/ Queue!Turn
         \/ Queue!ToggleAll \/ Queue!Clear \/ Queue!Cancel \/ Queue!Arm \/ Queue!Leave
  PROVE  QueueShape'
<1>1. /\ queueList \in QueuePages /\ queueSelected \subseteq Queue!Invoices
      /\ queueArmedFor \subseteq Queue!Invoices /\ waiting \subseteq Queue!Invoices
      /\ loads \in Nat /\ seat \in Nat
  BY DEF QueueInv, QueueTyped, QueueShape
<1>2. Queue!Rows \subseteq Queue!Invoices
  BY <1>1 DEF Queue!Rows, QueuePages
<1>3. ASSUME NEW l \in QueuePages, Queue!Shows(l)
      PROVE  queueList' \in QueuePages /\ queueSelected' \subseteq Queue!Invoices
             /\ queueArmedFor' \subseteq Queue!Invoices
  BY <1>1, <1>3 DEF Queue!Shows
<1>4. ASSUME NEW s \in SUBSET Queue!Invoices, Queue!Ticks(s) PROVE QueueShape'
  <2>1. /\ queueSelected' \subseteq Queue!Invoices /\ queueArmedFor' \subseteq Queue!Invoices
        /\ UNCHANGED <<queueList, loads, wire, report, results, seat>>
    BY <1>1, <1>4 DEF Queue!Ticks
  <2> QED BY <2>1 DEF QueueShape
<1>5. CASE Queue!Serve
  <2>1. queueList' \in QueuePages
    BY <1>1, <1>5 DEF Queue!Serve, QueuePages
  <2> QED BY <1>5, <2>1 DEF Queue!Serve, QueueShape
<1>6. CASE Queue!Lands
  <2>1. [queueList EXCEPT !.st = "ready"] \in QueuePages
    BY <1>1 DEF QueuePages
  <2>2. queueList' \in QueuePages /\ queueSelected' \subseteq Queue!Invoices
        /\ queueArmedFor' \subseteq Queue!Invoices
    BY <1>3, <1>6, <2>1 DEF Queue!Lands
  <2> QED BY <1>6, <2>2 DEF Queue!Lands, QueueShape
<1>7. CASE Queue!LoadFails
  <2>1. [st |-> "error", rows |-> {}] \in QueuePages
    BY DEF QueuePages
  <2>2. queueList' \in QueuePages /\ queueSelected' \subseteq Queue!Invoices
        /\ queueArmedFor' \subseteq Queue!Invoices
    BY <1>3, <1>7, <2>1 DEF Queue!LoadFails
  <2> QED BY <1>7, <2>2 DEF Queue!LoadFails, QueueShape
<1>8. CASE Queue!Retry \/ Queue!Turn
  <2>1. queueList' \in QueuePages /\ queueSelected' \subseteq Queue!Invoices
        /\ queueArmedFor' \subseteq Queue!Invoices
    BY <1>3, <1>8, QueueBounds DEF Queue!Retry, Queue!Turn
  <2>2. loads < MaxLoads /\ loads' = loads + 1 /\ UNCHANGED <<wire, report, results, seat>>
    BY <1>8 DEF Queue!Retry, Queue!Turn
  <2> QED BY <2>1, <2>2, <1>1, QueueBounds DEF QueueShape
<1>9. CASE Queue!Arm
  <2>1. queueArmedFor' \subseteq Queue!Invoices
    BY <1>1, <1>9 DEF Queue!Arm, Queue!ToSend, Queue!Approvable
  <2> QED BY <1>9, <2>1 DEF Queue!Arm, QueueShape
<1>10. CASE Queue!Leave
  <2>1. queueList' \in QueuePages /\ queueSelected' = {} /\ queueArmedFor' = {} /\ report' = {} /\ results' = {}
    BY <1>10, QueueBounds DEF Queue!Leave
  <2>2. loads < MaxLoads /\ loads' = loads + 1 /\ seat' = seat + 1 /\ wire' = wire
    BY <1>10 DEF Queue!Leave
  <2> QED BY <2>1, <2>2, <1>1, QueueBounds DEF QueueShape
<1>11. ASSUME NEW i \in Queue!Invoices, Queue!OthersDecide(i) PROVE QueueShape'
  BY <1>11 DEF Queue!OthersDecide, QueueShape
<1>12. CASE \E i \in Queue!Invoices : Queue!Toggle(i)
  BY <1>1, <1>4, <1>12 DEF Queue!Toggle
<1>13. CASE Queue!ToggleAll \/ Queue!Clear \/ Queue!Cancel
  BY <1>1, <1>2, <1>4, <1>13 DEF Queue!ToggleAll, Queue!Clear, Queue!Cancel
<1> QED BY <1>5, <1>6, <1>7, <1>8, <1>9, <1>10, <1>11, <1>12, <1>13

\* A decision that is out, and its outcome.
LEMMA QueueWired ==
  ASSUME QueueInv, QueueShape,
         Queue!Confirm \/ \E w \in wire : Queue!Decide(w) \/ Queue!Answer(w) \/ Queue!Fails(w)
  PROVE  QueueShape'
<1>1. /\ wire \subseteq QueueWire /\ seat \in Nat /\ 1 <= seat
      /\ report \subseteq Queue!Outcome /\ results \subseteq Queue!Outcome
      /\ \A w \in wire : 1 <= w.seat
  BY DEF QueueInv, QueueTyped, QueueShape
<1>2. Mine \subseteq Queue!Invoices
  BY DEF Queue!Invoices
<1>3. CASE Queue!Confirm
  <2>1. PICK s : wire' = wire \cup {[id |-> Head(s), seat |-> seat, st |-> "asked"]}
    BY <1>3 DEF Queue!Confirm, Queue!First
  <2>2. report' = {} /\ UNCHANGED <<queueList, loads, queueSelected, results, queueArmedFor, seat>>
    BY <1>3 DEF Queue!Confirm
  <2> QED BY <1>1, <2>1, <2>2 DEF QueueShape
<1>4. ASSUME NEW w \in wire, Queue!Decide(w) PROVE QueueShape'
  <2>1. \E st \in {"done", "refused"} : wire' = (wire \ {w}) \cup {[w EXCEPT !.st = st]}
    BY <1>4 DEF Queue!Decide
  <2>2. PICK st \in {"done", "refused"} : wire' = (wire \ {w}) \cup {[w EXCEPT !.st = st]}
    BY <2>1
  <2>3. [w EXCEPT !.st = st].seat = w.seat
    BY <1>1 DEF QueueWire
  <2>4. \A o \in wire' : 1 <= o.seat
    BY <1>1, <2>2, <2>3
  <2> QED BY <1>4, <2>4 DEF Queue!Decide, QueueShape
<1>5. ASSUME NEW w \in wire, NEW ok \in BOOLEAN, Queue!Settles(w, ok), UNCHANGED seat PROVE QueueShape'
  <2>1. [id |-> w.id, ok |-> ok] \in Queue!Outcome
    BY <1>1, <1>2 DEF QueueWire, Queue!Outcome
  <2>2. report' \subseteq Queue!Outcome
    BY <1>1, <1>5, <2>1 DEF Queue!Settles
  <2>3. CASE todo # <<>>
    <3>1. /\ wire' = (wire \ {w}) \cup {[id |-> Head(todo), seat |-> seat, st |-> "asked"]}
          /\ UNCHANGED <<queueList, loads, queueSelected, results, queueArmedFor>>
      BY <1>5, <2>3 DEF Queue!Settles
    <3> QED BY <1>1, <1>5, <2>2, <3>1 DEF QueueShape
  <2>4. CASE todo = <<>>
    <3>1. /\ wire' = wire \ {w} /\ queueSelected' = {} /\ queueArmedFor' = {}
          /\ queueList' = Queue!Loading /\ loads' = loads
          /\ results' = report' \cup {[id |-> i, ok |-> FALSE] : i \in (queueSelected \cap Queue!Rows) \ Mine}
      BY <1>5, <2>4 DEF Queue!Settles
    <3>2. \A i \in queueSelected : [id |-> i, ok |-> FALSE] \in Queue!Outcome
      BY DEF QueueShape, Queue!Outcome
    <3>3. results' \subseteq Queue!Outcome
      BY <2>2, <3>1, <3>2
    <3> QED BY <1>1, <1>5, <2>2, <3>1, <3>3, QueueBounds DEF QueueShape
  <2> QED BY <2>3, <2>4
<1>6. ASSUME NEW w \in wire, Queue!Answer(w) \/ Queue!Fails(w) PROVE QueueShape'
  <2>1. CASE Queue!Here(w)
    <3>1. PICK ok \in BOOLEAN : Queue!Settles(w, ok) /\ UNCHANGED seat
      BY <1>6, <2>1 DEF Queue!Answer, Queue!Fails
    <3> QED BY <1>5, <3>1
  <2>2. CASE ~Queue!Here(w)
    <3>1. /\ wire' = wire \ {w}
          /\ UNCHANGED <<queueList, loads, queueSelected, report, results, queueArmedFor, seat>>
      BY <1>6, <2>2 DEF Queue!Answer, Queue!Fails
    <3> QED BY <1>1, <3>1 DEF QueueShape
  <2> QED BY <2>1, <2>2
<1> QED BY <1>3, <1>4, <1>6

LEMMA QueueShapes == QueueInv /\ QueueShape /\ Queue!Next => QueueShape'
BY QueueSeen, QueueWired DEF Queue!Next

LEMMA QueueShapeStays == QueueShape /\ UNCHANGED queueVars => QueueShape'
BY DEF queueVars, QueueShape

LEMMA QueueTypes == QueueInv /\ QueueShape => Queue!TypeOK
<1> SUFFICES ASSUME QueueInv, QueueShape PROVE Queue!TypeOK
  OBVIOUS
<1>1. /\ waiting \subseteq Queue!Invoices /\ queueStored \in [Queue!Invoices -> {0, 1}]
      /\ todo \in Seq(Mine) /\ wire \subseteq QueueWire /\ seat \in Nat
      /\ queuePhase \in Queue!Steps /\ \A w \in wire : w.seat <= seat
  BY DEF QueueInv, QueueTyped, QueueRun
<1>2. /\ queueList \in QueuePages /\ queueSelected \subseteq Queue!Invoices
      /\ queueArmedFor \subseteq Queue!Invoices
      /\ loads \in Nat /\ loads <= MaxLoads /\ 1 <= seat /\ seat <= loads
      /\ \A w \in wire : 1 <= w.seat
      /\ report \subseteq Queue!Outcome /\ results \subseteq Queue!Outcome
  BY DEF QueueShape
<1>3. {0, 1} = 0..1
  OBVIOUS
<1>4. queueStored \in [Queue!Invoices -> 0..1]
  BY <1>1, <1>3
<1>5. loads \in 0..MaxLoads /\ seat \in 1..MaxLoads
  BY <1>1, <1>2, QueueBounds
<1>6. \A k \in DOMAIN todo : todo[k] \in Mine
  BY <1>1
<1>7. wire \subseteq [id : Queue!Invoices, seat : 1..MaxLoads, st : {"asked", "done", "refused"}]
  <2> SUFFICES ASSUME NEW w \in wire
               PROVE  w \in [id : Queue!Invoices, seat : 1..MaxLoads, st : {"asked", "done", "refused"}]
    OBVIOUS
  <2>1. w \in QueueWire /\ w.seat \in Nat /\ 1 <= w.seat /\ w.seat <= seat
    BY <1>1, <1>2 DEF QueueWire
  <2>2. w.seat \in 1..MaxLoads
    BY <1>5, <2>1, QueueBounds
  <2> QED BY <2>1, <2>2 DEF QueueWire, Queue!Invoices
<1> QED BY <1>1, <1>2, <1>4, <1>5, <1>6, <1>7 DEF Queue!TypeOK, QueuePages
==============================================================================
