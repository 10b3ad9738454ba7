# ASComply Africa: TLA+ models of an e-invoicing platform

The repository is a Nigerian e-invoicing platform: Go services over Postgres
(row-level security per tenant, River as the job queue) and TypeScript
frontends. Customers write invoices, the platform validates them, has them
approved, sends them to the tax authority through an adapter, and stores the
authority's verdict. The specifications here follow

* an invoice from the batch endpoint to its verdict, with everything that can go
  wrong on the way, and the sweep that looks for invoices that got stuck;
* a workspace from the schedule of its deletion to the purge;
* the signed-in tabs of one browser and the refresh token they share;
* the browser's screens that work on a copy of what the service holds, while their
  reads, polls and writes overlap and others move the same rows.

Paths below are relative to `src/`. To check a run or the proofs of a module:

    tlc -workers 2 -config pipeline.cfg MCSubmission
    tlc -workers 2 -config pages.cfg Pages
    tlapm SubmissionProofs.tla

## 1. Inventory

PROJECT.json lists every component with its status, and under `hazards` what is
hard to test, each at the line where it bites and with the properties that would
catch it going wrong.

### 1.1 The submission core

| component | code | state | operations |
|---|---|---|---|
| submission workers | `internal/submission/worker.go`, `jobstore.go` | `submission_jobs` rows (state, attempts, poll_ref, river_job_id), the worker's memory between two transactions | `SubmitWorker.Work`: tx1 (gates), the call, tx2 (record). `PollWorker.Work`: the same, for a deferred verdict |
| job queue and outbox | `internal/platform/queue/queue.go`, River | `river_job`, `idempotency_keys` (outbox keys and `job:<id>` markers) | `EnqueueTx`, `OncePerJob`; River's fetch, completion, retry, snooze, discard, cancel, rescue |
| authority | `internal/submission/adapter.go`, `mock_adapter.go` | what it decided about each idempotency key | answer a submit or a poll |
| status machine | `internal/invoice/store.go`, `actor.go` | `invoices.status`, `irn`, `rejection_reasons`, `failure_kind`, the kept columns | `legalTransitions`, `applyTransitionTx`, `Mark{Submitted,Accepted,Rejected,Failed}Tx` |
| submission endpoints | `internal/invoice/batch_submit.go`, `send_again.go`, `support.go` | the same rows | batch submit, send again, the re-send rule shared with staff |
| invoice store | `internal/invoice/store.go`, `revalidate.go`, `kept_as_is.go` | the same rows | validate, edit, demote, keep / unkeep, resolve outside, transition |
| staff job console | `internal/staffjobs` | the same rows and `river_job` | redrive, cancel |
| deletion lock | `internal/platform/db/tenant.go` | the tenant's deletion schedule | refuse requests, snooze submit jobs |
| reconciliation | `internal/reconciliation` | reads all of the above; `audit_log` | scan, re-arm a lost poll, audit |

How they interact. `POST /v1/invoices/submissions` moves validated invoices to
`queued` and, in the same transaction, inserts an outbox key and a River job.
`SubmitWorker` creates the `submission_jobs` row when it first runs, marks it
`submitting`, commits, calls the authority **outside any transaction**, and
records the answer in a second transaction, guarded by `OncePerJob`. A deferred
verdict stores a ticket and enqueues the first poll in that same transaction;
every poll that is deferred again enqueues its successor. A retryable answer
returns an error, so River delivers the job again, up to eight times; the last
attempt dead-letters the row and fails the invoice. A failed invoice that the
authority never acknowledged may be sent again, by the customer or by staff,
under the same key: the old River job is deleted and a new one inserted. The
reconciler compares invoice, newest row and River jobs.

What is hard. Two transactions with an unprotected call between them, at-least-once
delivery by River, worker processes that die anywhere, snoozes that give
attempts back, a lock that is checked and not held, endpoints that read first
and write later, staff who cancel rows under a worker, outbox keys that are
never released.

What makes it correct:

* an invoice the authority holds or cleared cannot become editable, and no
  invoice is cleared under two keys;
* an IRN is stored only on an acceptance, and acceptance is for ever;
* the invoice, its newest row and its River jobs tell the same story between
  any two transactions;
* every send that ends is audited exactly once;
* an invoice in flight has at most one job that will still move it, and in the
  end it is resolved;
* what got stuck is reported.

### 1.2 Deletion of a workspace

| component | code | state | operations |
|---|---|---|---|
| schedule | `internal/tenancy/workspace_deletion.go`, `staff_deletion.go`, `migrations/20261026120005`, `...06` | `tenants.deletion_scheduled_at`, `deletion_due_at`, `deletion_purge_started_at` | schedule and cancel, by an administrator, with a link, by staff; start at once, by staff; two triggers |
| purge | `internal/workspacepurge`, `internal/document/purge.go`, `migrations/20261026120001` | the tenant's rows, its files, queued erasures, the `workspace.purged` staff row, a session advisory lock | list, lock, erase members, delete files, remove rows |
| members | `internal/tenancy/store.go` | `memberships` | accept an invitation, remove a member |

An hourly ticker of an elected worker process lists the due tenants and purges
each; staff may start the purge of a scheduled one before it is due, which sets the
marker and queues a River job with one attempt. A purge is three steps with
nothing to hold them together but the marker: a transaction that queues one
erasure for each member and sets the marker, calls to the object store, and a
transaction that removes the rows. The marker is what closes every cancel.

What is hard: lists that are stale when acted on, cancels that race the start,
runs that die between the steps, two runs at once after one lost the session that
holds its lock, members who join under the deletion. What makes it correct:
nothing is touched before the purge starts, a started purge is never called off and
in the end completes, it happens and is recorded once, and it leaves no member
without an erasure and no stored file.

### 1.3 The browser

The product (`frontend/app`) and the support console (`frontend/support-console`)
are single pages that keep copies of rows the services own. A `useAsync` run
(`packages/api-client/src/async-state.ts`) drops the answer of a superseded
read; everything else that answers late is for the screens to deal with.

| component | code | what is hard |
|---|---|---|
| browser session | `lib/session.ts`, `renewal.ts`, `App.tsx` boot and refusal paths | tabs share one rotating refresh token; a spent one revokes the sign-in |
| import and invoice form | `App.tsx` import state, `lib/importRun.ts`, `documentRun.ts` | a run of many requests, one lock, a company switched in the middle |
| invoice page | `components/InvoiceDetail.tsx` | load, poll, re-read and eight kinds of writes, all out at once |
| review of an import | `components/ReviewBatch.tsx`, `ReviewInvoicesTab.tsx`, `ReviewRow.tsx` | a two-click bulk submission over a page that is reloaded |
| register | `components/InvoicesList.tsx` | the same, over three sources of rows and a poll |
| approval queue | `components/ApprovalsView.tsx`, `lib/approvals.ts` | decisions sent one after the other |
| team screens | `components/TeamView.tsx`, `MemberDrawer.tsx`, `RoleModal.tsx` and others | whole sets written from a copy |
| approval policy screens | `App.tsx`, `components/WorkflowBuilder.tsx`, `lib/workflows.ts` | list, order, builder and publication; the placing of steps in a tree |
| rules screen | `components/RulesView.tsx`, `CustomRuleEditor.tsx` | whole rules written by two controls, reads dropped by counters |
| extraction review | `components/ExtractionReview.tsx` | one save of many posts under a draft that is typed on |
| blog | `support-console/src/App.tsx`, `blogFlow.ts` | a post and its cover in two writes, a draft that survives a sign-in |
| rule sets | `support-console/src/App.tsx`, rule set components | a publication that compares two sets while both may move |

What makes them correct: a confirmed action does what the screen showed when it was
confirmed; what was done is not offered again; a page does not go back behind an
acknowledged write; once nothing is out the copy is what the service holds; a write
that carries more than the user changed undoes nothing; what belongs to one
company or account never reaches another.

### 1.4 The rest of the system

| component | code | state and operations | here |
|---|---|---|---|
| rate limiter | `internal/submission/ratelimit.go` | a one-minute window and a count per tenant, in process memory | its denials only |
| approval engine | `internal/approval` | policies, runs, steps, decisions | not modelled: a state machine of its own beside the pipeline; the browser's side of a decision is in `ApprovalQueue` and `InvoiceDetail` |
| custom rules and recheck | `internal/customrule`, `internal/invoice/revalidate.go` | rule revisions, pending rechecks | its demotions are in `Submission` |
| notifications, account mail | `internal/notifications`, `internal/accountmail` | outbox, deliveries, erasure | not modelled |
| extraction jobs, importer | `internal/extraction`, `internal/importer`, `sidecar/docling` | jobs, batches, rows | the browser's side, in `ImportRun` and `ExtractionDesk` |
| tenancy | `internal/tenancy` | tenants, memberships, invitations | as the deletion and the team screens see them |
| validation engine | `internal/validation` | none (pure) | its verdict |
| archive, audit log | `internal/archive`, `internal/audit` | append-only records | outcome audits are counted |
| documents | `internal/ubl`, `internal/document` | none or blobs | not modelled |
| gateway, authentication | `internal/gateway`, `internal/platform/auth` | sessions, tokens | the identity provider as the tabs use it |
| database platform | `internal/platform/db`, `migrations` | schema, row-level security | taken as given |
| other screens | `frontend` | one list or one form each | not modelled |

## 2. The modules

| module | what it is |
|---|---|
| `InvoiceStatus` | the pure part of an invoice: the status table, the column writes of a transition, the four outcome writes. No variables |
| `InvoiceLifecycle` | abstract specification, one variable, the invoices: what the platform promises about an invoice, with no workers, queue, retries or rows |
| `Submission` | the pipeline of one tenant, transaction by transaction |
| `Reconciliation` | extends `Submission` with the sweep |
| `WorkspaceFate` | abstract specification of a deletion, one variable: what is to become of the workspace |
| `WorkspaceDeletion` | the schedule, the members and the purge runs of one workspace |
| `BrowserSession` | abstract specification of the session record of one browser |
| `SessionTabs` | the tabs of one browser, their renewers, and the identity provider |
| `ImportRun`, `InvoiceDetail` | the two screens on which an invoice is made and worked on |
| `InvoiceFlows` | those two in one specification, with their fairness |
| `ReviewBatch`, `Register`, `ApprovalQueue`, `TeamDesk`, `PolicyDesk`, `PolicyTree`, `RulesDesk`, `ExtractionDesk`, `BlogDesk`, `RuleSetDesk` | ten pages that work on a copy |
| `Pages` | the ten in one specification: a behaviour follows one of them |
| `MCSubmission`, `MCReconciliation` | symmetry sets for TLC |
| `SubmissionProofs`, `ReconciliationProofs`, `WorkspaceDeletionProofs`, `SessionTabsProofs`, `InvoiceFlowsProofs`, `PagesProofs` | theorems and their proofs |
| `InvoiceListsProofs` | lemmas about the review, the register and the approval queue, for `PagesProofs` |
| `DesksProofs` | lemmas about the team screens, policies, rules, extraction review and blog, for `PagesProofs` |

### 2.1 `Submission`

State. `inv[i]` is the `invoices` row; `job[k]` the `submission_jobs` row of an
idempotency key (which the code derives from the request's key and the invoice
id, so `k` is that pair); `river[r]` the `river_job` row, with its state and
attempt; `marker` the `job:<id>` rows of `OncePerJob`; `app[k]` what the authority
has decided; `outcomes[k]` counts the `submission.accepted / rejected / failed`
audit rows; `lock` is the workspace's deletion schedule. `wrk[r]` is the memory
of the process executing `r`; a crash loses it. `job[k].born` orders the rows of
one invoice as `created_at` does.

A River job is named by its arguments: submit jobs by key and number of the
send, poll jobs by key and sequence, re-arms by key and attempt count. The
outbox key is written by the statement pair that inserts the job and never
removed, so it is taken iff that job was ever created; a deleted job has the
state `deleted`, not `none`.

Actions. Each database transaction is one action. For one delivery of a submit job:

    Fetch -> SubmitTx1 -> CallSubmit | TransformFails -> Tx2 -> Ack

`SubmitTx1` is the disjunction of the gates, in their order: locked (snooze),
replayed (the row is terminal), already cleared under some key, throttled
(snooze), and `SubmitProceeds`, which marks the row `submitting`. `CallSubmit` is
the authority's answer and nothing else. `Tx2` has one action for each branch
of the recording transaction. `Ack` is River's record of what the handler
returned, a separate step because River writes it in its own transaction. Poll
jobs take `PollTx1` and `CallPoll` in place of the first two.

`OncePerJob` is written as the code is: with the marker present nothing is
written; an illegal transition of the invoice rolls the whole transaction back
and the handler returns an error. Errors that a transaction may raise for
reasons of the database are `TxFails`. A commit whose answer is lost is
the same as a crash directly after the commit, or after the handler returned.

Users: `Validate`, `Edit`, `Demote`, `Keep`, `BatchSubmit`, `Transition`,
`SendAgain`. Staff: `Redrive`, `StaffCancel`. A batch takes a set `S` of
invoices: the approval gate, the pending-rule gate, the credit-note checks and
roles can only refuse a position of the request, so they are part of the choice of `S`.

Lock. A request checks the lock and is not serialised with the schedule
(`platform/db/tenant.go:125`: a transaction "whose check ran before a schedule
committed may commit after it"), so scheduling goes through `closing`, in which
requests still commit, before `locked`. Submit jobs are snoozed from `closing` on.

The refinement of `InvoiceLifecycle` is the identity on `inv`: every step of the
pipeline is a step of `InvoiceLifecycle` or leaves the invoices alone. What the
abstract specification says that the pipeline has to work for: an invoice leaves
`failed` only by a re-send, and only when its failure kind says no acknowledgement
was ever stored and nobody closed it by hand, although the code's check reads other
data (the row's state, its ticket, the River job); an IRN comes only with an
acceptance from `queued` or `submitted`; a batch moves validated invoices only.

The constant `PendingAckLost` says whether a worker may die in the window after
the authority's Pending was committed and before River records that the submit
job completed. With `TRUE`, the replayed submit takes the row back (finding
`ackloss`) and the agreement properties do not hold; the runs of those properties
set it to `FALSE`, so they say what holds outside that window.

### 2.2 `Reconciliation`

`Findings(i)` is the scan's query, one entry per arm, over the invoice, its newest
row and River's live jobs. `Sweep` is `sweepTenant`: it re-arms a set of lost
polls and audits a fix for each. The age thresholds are taken as passed in
`Findings`, and the sweep may pick any non-empty subset of the lost polls.
`KnownStallIsFlagged` says that an invoice in flight without a live River job is
reported, but in the two ways `Hidden` names: the newest row belongs to an earlier
key, because the resubmission was discarded before it wrote a row of its own; or
the submit job of an earlier, refused send is not yet recorded as ended and passes
for a live job of the invoice. Both need two keys.

### 2.3 `WorkspaceDeletion` and `WorkspaceFate`

`ws` is the `tenants` row with its three times as Booleans (scheduled, due by now,
purge started); `members` the memberships that are not removed; `erased` those an
erasure is queued for; `files` the objects under the tenant's prefix; `job` the
staff's River job. `pc[r]` says where a run is: a ticker's, or the job's. Each
transaction takes the tenant's row `FOR UPDATE` before it decides, so each is
one action:

    Lists | JobStarts -> TriesLock -> Erases -> Deletes* -> FindsNone -> Purges

`RunFails` returns from any step with its transaction rolled back and the lock
released, by an error or by the end of the process. `LockLost` is the session that
drops while the run goes on. The leader election is not modelled as a guard:
any ticker may run at any time, which is what a lost connection makes of it
(`platform/db/leader.go`: "a connection lost mid-run lets a peer start the task
before this run ends"). `LatePage` is the extraction job that writes after
the files step, a limit the source states, so `LeavesNothing` speaks of the
files stored before. An acceptance is two actions, since it reads the schedule
without locking the row and inserts later: `JoinChecks`, `JoinCommits`. `Overtaking`
says whether a schedule may commit in between. The refinement mapping `fate` reads
the workspace's fate from its row.

### 2.4 `SessionTabs` and `BrowserSession`

`stored` is the record in localStorage that all tabs share; `seat[t]` the session a
tab shows, `phase[t]` where its shell is, `flight[t]` the renewal it waits for,
`api[t]` a workspace request that may be refused. `fams` is the identity provider: a
sign-in with the newest of its refresh tokens, revoked when a spent one is presented
(the parent of the newest is still taken, as the provider's reuse window does). A token
is a sign-in and a number; `due` are those past 80 % of their lifetime, `dead` those
past it. A request is served in one action and answered in another, and either answer
may be lost. The provider is external, modelled from what `lib/renewal.ts` and the
landing page rely on. `BrowserSession` sees the owner of the record and the hand-offs
asked for; the tabs implement it with `who <- Owner(stored)`.

### 2.5 `ImportRun`, `InvoiceDetail` and `InvoiceFlows`

`ImportRun` has picking, previews, mapping, the spreadsheet run (file after file),
the document run (all at once), the filing of a draft, the lock the four operations
share, and the switch of company under all of them. `runSeq` is a flag on an
operation: whether it was started under the current one. A file is a record of whose,
of which kind and which place it is; what is in it is left out.

`InvoiceDetail` is one page: the load, the two-second poll, the re-read after a
refused approval, and eight kinds of writes, each served in one action and answered in
another, or failed. `gen` is a flag on each read: whether a handler has landed
since it was asked. A record is its version, its status and the version it was
last checked at. Other members and the authority move the invoice as they like.

`InvoiceFlows` puts the two side by side: `flow` says which one a behaviour follows,
the other stays as it began. They share no state in the code either.

### 2.6 `Pages`

Ten pages that keep a copy of rows, again one to a behaviour. In all of them a read and
a write are two or three actions (asked, served, answered), so that anything may
come between, and each may fail before or after it was served. What a row says is
abstracted to what the property tells apart: a status (`ReviewBatch`, `Register`), whether
it waits (`ApprovalQueue`), the set of this browser's writes visible in it
(`TeamDesk`, `PolicyDesk`), its switch and its text (`RulesDesk`), the number of its last
edit (`ExtractionDesk`, `BlogDesk`, `RuleSetDesk`). `PolicyTree` has no service: it is
the lanes of a policy, with the placing, moving, removing and arming of steps.

Variables called `crossed`, `told`, `saved`, `sealed`, `behind`, `floor`, `by`, `made`,
`work` and `armedFor`, and fields called `moved` and `aged`, are histories: they record
what a property speaks of, and no guard or state of the program depends on them (but for
the bound on the number of edits). `crossed` marks rows about which two requests were out
that know nothing of each other, for which the code makes no promise.

| module | the screen's hazard | how the code deals with it, as an action |
|---|---|---|
| `ReviewBatch` | a page asked for before the submission lands after it | the reload of the submission's handler supersedes it; other rows prune the selection and disarm the prompt (`Shows`) |
| `Register` | a refresh answers for a page or filter the user has left | `counts`: dropped when a page was loaded since it was sent |
| `ApprovalQueue` | the screen is left in the middle of a run of decisions | `seat`: a run of another mount sends nothing more |
| `TeamDesk` | two quick changes of one set | the dialog is seeded from the copy, the answer patches it before the next may be sent |
| `PolicyDesk` | a publication carries no content | offered for a saved draft only; lists are read again when it answers |
| `PolicyTree` | a step moved down its own lane | removed, then inserted at the slot counted without it |
| `RulesDesk` | a list read before a write lands after it | `current`: dropped |
| `ExtractionDesk` | fields are typed again while their posts are out | an entry goes only if it still is the one that was taken (`Kept`) |
| `BlogDesk` | the post is written and its cover is not | the draft takes the post's id and stays unsaved (`CoverFails`) |
| `RuleSetDesk` | a draft changes under an open publication | the publication is rendered only while nothing it compares is being read |

## 3. What TLC checks

| run | instance | question | distinct states |
|---|---|---|---|
| `pipeline` | 1 invoice, 1 key, 2 attempts, 2 hops, crashes and failed transactions, `draft` asserted; fair | do invoice and row agree, is each outcome audited once, and are the invoices that stay in flight those with a job River gave up? | 132 819 |
| `rekey` | 1 invoice, 2 keys, 1 attempt, 2 sends, `draft` and `queued` asserted | can an invoice be edited while the authority holds it, be cleared under both keys, have two drivers, can an acknowledged key be sent again, and does the pipeline implement the lifecycle? | 88 326 |
| `asserted` | 2 keys, an approver asserts a rejection under running jobs | does an IRN still come from the authority only, and is a cleared invoice left alone? | 95 595 |
| `resolve` | 2 attempts, 2 sends, 2 hops, no faults; fair | does every invoice in flight end with a verdict or a failure? | 8 067 |
| `reconcile` | 2 keys, the sweep beside the pipeline, failed transactions | is a stall reported, but in the two ways of `Hidden`; does re-arming never create a second driver? | 78 867 |
| `deletion` | 2 members, 2 tickers and the staff job, 2 faults; fair | is nothing touched before the start, is the purge done once and completely, is a due one completed, does the deletion implement the fate? | 18 530 |
| `tabs` | 2 tabs, 2 accounts, 2 sign-ins of which one renews twice; fair | is a spent token ever replayed, are accounts kept apart, do the tabs implement one session, does the splash end? | 577 449 |
| `flows` | 2 companies, 2 spreadsheets, 2 documents; an invoice of 3 changes, 2 requests at a time; fair | the properties of `ImportRun` and `InvoiceDetail` | 245 582 |
| `pages` | the ten pages, bounds below | the properties of the ten | 1 357 214 |
| `latejoin`, `ackloss`, `pinned` | | the findings of section 5 | violated |

`asserted`, `rekey` and `reconcile` take the two keys as symmetric; no property of theirs
tells them apart and none is a liveness property.

What the properties of the browser say, by page:

* `NothingOfferedTwice` (review, register, approval queue): after an acknowledged
  submission or approval, no page of rows that finished loading is from before it, and
  nothing is selected that it does not show as eligible.
* `SendsWhatWasArmed`: a confirmed prompt sends what it counted when it was armed; of the
  extraction review, a box lands on the field it was begun for and a correction on the
  document it was drafted on; of the blog, the open draft takes an id from its own
  save alone; of the rule sets, a form goes over no rule but the one it was filled from.
* `SettledIsServed` (team, policies, rules, extraction, blog, rule sets): once nothing is
  out, the copy is what the service holds.
* `NothingUndone` (team, policies, rules, blog): what was reported as done is not taken
  back by a later write that carries more than the user changed, and a draft that
  is typed is never lost.
* `PublishesWhatIsShown` (policies, rule sets): a publication seals what the screen
  showed, and what it was compared with is what it replaces.
* `PlacedWhereShown`: a step, moved or new, lands in the slot it was placed in, and nothing
  else moves.

Each states its exceptions, which are behaviours of the code (section 6).

Every property has a mutant, a definition changed the way a slip in that code
would change it, under which the run finds the property violated: the mutants
stand next to the definitions they alter, with names such as `Final_OffByOne`.

### Bounds, and why they are enough

* `Invoices`: one. Only the batch touches several, and it writes each of them by
  its own row, under its own key; no guard or write of one reads another. The
  theorems of section 4 hold for any set of invoices and any batch of them.
* `Requests`: two keys suffice for everything that relates two rows of one
  invoice (older and newest, held and cleared); a third adds a row that is
  older than both.
* `MaxAttempts` is 8 in the code, which compares an attempt with the maximum and
  nothing else. Two give a first attempt, a retry and a last attempt; one makes every
  attempt the last.
* `MaxSends` 2: a re-send, and the refusal of what a re-send may not do.
  A third send starts from the state a second does, one number higher.
* `MaxHops` 2: a first poll and a successor. The built-in adapter converges on
  the second poll. Beyond the bound the authority is not asked to defer again.
* `MaxRearm` 3: attempt counts a re-arm key may carry. `HopCeiling` is 3.
* `deletion`: two members, who come and go until the schedule;
  three runs, of which two overlap and one starts over; two faults, so that a run
  may lose its lock and another die beside it.
* `tabs`: two tabs, since each rule is about a tab and the others' writes; two sign-ins,
  an old and a new one, of which one lives through two renewals, so that a parent, a
  newest and an older token exist.
* `flows`: two files of each kind are a first and a next; two companies; three changes of
  an invoice are one that a read brings, one it misses and one after. The proofs hold
  beyond these bounds, and one found what they do not reach (section 4.3).
* `pages`: three invoices on pages of two, one of them already sent, so that there is a second
  page and a row that cannot be selected; two invoices to approve beside one that is refused;
  two writes of a team's list, two of a policy and three of a rule, which is one more than
  it takes to overlap; three steps of a policy, a condition among them; two documents, one of
  them a note, with a plain and an ambiguous field; one post with two edits and a second
  sign-in; one rule, one edit, two calls and one midnight.
* No deadlock: in the pipeline the deletion lock can always move, and TLC's
  deadlock check is on. `deletion`, `latejoin`, `tabs`, `flows`, `pages` and `pinned`
  turn it off: a purged workspace has nothing left to do, and a user may stop.

### Fairness

Of the pipeline: `WF(Worker(r))` for every River job, since River's clients run
what is available and its rescuer picks up what a dead process left behind,
after an hour (`platform/queue/queue.go:76-78`); `SF(SubmitProceeds(r))`, because a
throttled job is snoozed and asks again: the limiter is a fixed one-minute window
(`submission/ratelimit.go:29-85`), so a job that comes back for ever is let through in
some window. Weak fairness would not do, since the job is not continuously at the
gate. Nothing is assumed of users, staff, faults or the lock; both liveness properties
speak of behaviours in which the workspace stays unlocked from some time on, because a
locked workspace snoozes its submit jobs indefinitely by design. They are checked with
approvers asserting `draft` only: asserting `queued` creates no River job, and such an
invoice is found by the sweep.

Of the deletion: some ticker keeps ticking, which the election provides as long as
one worker process lives, and a run nothing stops goes on; faults are finitely many.
`DueIsPurged` then holds even if the staff job is never taken up or its single
attempt fails: the ticker goes by the marker.

Of the browser: timers fire, and a request that is out ends, with an answer or without.
The browser ends a request whose connection is gone; the client itself sets no time
limit (`xhr.timeout` and an abort signal are unset), so a server that holds a
connection open for ever is excluded by assumption. For the poll of the invoice page
strong fairness is assumed of a tick being served and answered, since a tick may fail
any number of times without failing for ever. Nothing is assumed of users, of other
tabs' sign-ins, or of the tab staying visible: `WatchedSettles` excepts a hidden one, whose
poll the code stops.

## 4. What is proved

The theorems hold for every value of the constants that satisfies the named assumption of
the module. Each rests on an inductive invariant that TLC was let check first.

| module | theorem | property | run |
|---|---|---|---|
| `SubmissionProofs` | `TypeCorrect` | `TypeOK` | `pipeline` |
| | `IrnEarned`, `AcceptedStays` | `IrnIsEarned`, `AcceptedIsForever` | `asserted` |
| | `KeptAllowed` | `KeptWhereAllowed` | none |
| | `DrivenByOne`, `ClearsOnce`, `AcknowledgedIsPolled`, `PipelineImplements` | `OneDriver`, `ClearedOnce`, `AcknowledgedNotSentAgain`, `ImplementsLifecycle` | `rekey` |
| | `TablesAgree`, `AuditedOnce` | `RowsAgree`, `OutcomeAuditedOnce` | `pipeline` |
| | `TicketPastSubmit` | `TicketMeansPastSubmit` | violated by `ackloss`, where its assumption fails |
| `ReconciliationProofs` | `SweptByOne`, `StallFlagged` | `OneDriver`, `KnownStallIsFlagged` | `reconcile` |
| | `SweptAuditedOnce` | `OutcomeAuditedOnce` with the sweep | none |
| `WorkspaceDeletionProofs` | `TypeCorrect` | `TypeOK` | none |
| | `Untouched`, `StartsWhenDue`, `Once`, `NothingLeft`, `FateKept` | `UntouchedUntilStarted`, `StartedWhenDue`, `PurgedOnce`, `LeavesNothing`, `ImplementsFate` | `deletion` |
| `SessionTabsProofs` | `TypeCorrect`, `NoReplay`, `Apart`, `SessionKept` | `TypeOK`, `NeverReplayed`, `AccountsApart`, `ImplementsSession` | `tabs` |
| `InvoiceFlowsProofs` | `TypesKept`, `CreatedForTheirClient`, `ShownOfOneClient`, `OneAtATime` | `TypeOK`, `ToTheirClient`, `OneClientShown`, `OneOperation` | `flows` |
| | `OwnWritesShown`, `OwnEditMarked`, `OnlyForward` | `ShowsOwnWrites`, `OwnEditFlagged`, `NeverGoesBack` | `flows` |
| `PagesProofs` | `OfferedOnce`, `ShownIsPublished`, `SentAsArmed`, `ServedOnceSettled`, `ReportedStays` | `NothingOfferedTwice`, `PublishesWhatIsShown`, `SendsWhatWasArmed`, `SettledIsServed`, `NothingUndone` | `pages` |
| | `PlacedAsShown`, `PagesTyped` | `PlacedWhereShown`, `TypeOK` | `pages` |

Liveness under fairness and ENABLED are out of the proof system's reach
(`InFlightResolves`, `InFlightIsNotForgotten`, `DueIsPurged`, `SplashEnds`, `ProgressEnds`,
`WatchedSettles`). No module a theorem is about uses a recursive operator.

### 4.1 The pipeline

`TypeOK` alone is not inductive: a snooze subtracts one from a River job's attempt,
which stays a natural number only because a job with a live worker was fetched; a
re-send adds one to `send` and inserts "the next" River job, which must not exist yet.
So the first invariant is

    TypeInv == TypeOK /\ WorkersRun /\ NoLaterSend /\ RowlessSend

`WorkersRun`: whoever holds memory for a job holds a fetched job. `NoLaterSend`:
no submit job beyond the current send of its row was ever created. `RowlessSend`:
a key without a row is at its first send. One lemma per group of actions proves
that the group preserves it, from a shared `WorkerStep`: what holds of any step in
which a worker writes its own row, its own memory and new poll jobs. `IrnEarned` adds
`ClearanceSeen`: a worker about to record an acceptance works for a key the authority
has accepted, and the authority never changes its mind. `AcceptedStays` and
`KeptAllowed` rest on a lemma that lists what any step may do to an invoice's row. All
four hold for any asserted statuses, any faults and either value of `PendingAckLost`.
That `Requests` is finite is used once: rows of an invoice are counted to order them by
creation.

The theorems from `DrivenByOne` on are about who moves an invoice. They assume

    Undisturbed == PendingAckLost = FALSE /\ Asserted \subseteq {"draft", "queued"}

Both halves are needed, and neither is the code's own promise: a worker that dies
between a Pending and River's record of it takes the row back (`ackloss`), and an
approver who asserts `rejected` on an invoice the authority still holds makes it
editable. Under it, `DriverInv` is inductive together with `TypeInv`: an invoice has at
most one row that is neither absent nor rejected (`OneActive`); its state and the
invoice's status fix each other; at most one River job whose effect is not marked yet is
alive, and it works for that row; a pending row has a poll that will still run, unless
River gave it up. From it follow `RowsAgree`, `ClearedOnce`, `OneDriver`,
`OutcomeAuditedOnce`, `AcknowledgedNotSentAgain` and, with the failure kind that a
failed row fixes, the refinement of `InvoiceLifecycle`: every step is one of its steps
or leaves the invoices alone.

`ReconciliationProofs` shows that the sweep keeps `DriverInv`: it re-arms a row only when
that row is pending and none of its polls is alive, which by the invariant means River
gave them up, so the new poll is the only driver. `StallFlagged` then goes through
the statuses in flight: where no job is alive, what the invariant leaves of the newest row
is what an arm of the scan asks for, but in the two ways of `Hidden`. The second of
them was met in the proof.

### 4.2 Deletion and session

`WorkspaceDeletionProofs` says what a run may rely on between its steps although it holds
no transaction. `RunsAfterMarker`: past the erasures the purge is started, or the
workspace is gone already. `MembersCovered`: the members it will remove all have an
erasure queued, because a started workspace stays locked. `FilesCovered`: before the
rows no stored file is left. With the listed properties themselves they are inductive.
`Erases` and `Purges` ask again whether the workspace is due, which is where the stale
list stops mattering; `Purges` finding it gone is why two runs record one purge.
`NothingLeft` assumes `Overtaking = FALSE` (finding `latejoin`). It holds for any
members, tickers and number of faults.

`SessionTabsProofs` rests on when a tab asks for a renewal: only a due token is presented.
The record and every request under way are abreast of every due token of their
sign-in, and the parent of the newest token is due; so all requests of one sign-in that
are under way present the same token, the newest is at most one ahead of it, and none
is spent twice. `Apart` and `SessionKept` add whose seat and whose record a late
answer may write: it is adopted only where the record still is of the sign-in it was
asked for. Any number of tabs, accounts, sign-ins and renewals.

### 4.3 The screens

`InvoiceFlowsProofs`. `ImportInv`: import, draft and everything shown are of the switcher's
company; the lock is free exactly when no operation is under way; a run has only files of
the company it started for. The two settle each other, since what may be shown is
what a fresh operation brings, and a switch makes none fresh.

Of the page of an invoice, `DetailInv`: every record the page shows, or may still come to show,
is at least as new as the newest acknowledged change and, while the verdict counts as
current, was checked no earlier than the newest acknowledged edit. A read that is not is
one a handler has disowned. Proving `NeverGoesBack` found that its exception,
the re-read after a refused approval, has a companion: a tick asked while that re-read is
out and served before it may land after it and take the page back, since the re-read
moves no counter when it lands (`InvoiceDetail.tsx:541-552`, tick `299-311`). It takes
about eight changes, more than `flows` has; the property names it, and the next tick mends it.

`PagesProofs`, with `InvoiceListsProofs` and `DesksProofs`. One invariant for each page,
which holds while that page is the one followed:

* review and register: no page of rows that is shown, or may still come to be shown, is
  from before the last acknowledged action, since each acknowledgement asks for the rows
  again and a run supersedes the one before; what is selected is of what is shown, and an
  open prompt counts what a confirmation would send, as every step that changes the
  selection or the rows closes it;
* approval queue: an invoice that waits was not approved by this user, an approval that
  is reported was stored, and no list read since holds its invoice;
* policies: a request about a policy that no other crossed is alone with it, and the
  builder that sent it holds what is stored; so a publication, which carries nothing,
  seals what the builder shows;
* rule sets: while the version a publication names is a draft nothing writes it, because
  an open publication hides every control that could, and a call of the draft keeps it
  from being opened; what is in force moves only together with the mark that it moved, as on
  every day one version is the last that took effect; the rail and the table show what is
  stored until a mark says otherwise; what the rail calls a draft is the one there is; a
  form, and the call it sends, holds the rule of the draft as stored or has aged, so a new
  draft opens only under a form that has;
* extraction review: every value stored, shown or drafted of a document was read of it or
  made on it; a save carries what was drafted on its own document, which is filed; a drag
  was begun for the armed field;
* blog: an action that still finds its editor was sent for the post that is open there, and
  what a save wrote is the post it was sent for, unless it made a new one.

`SettledIsServed` and `NothingUndone` are conjunctions over six and four of the pages. Each
page has, for whatever no other request of the same kind crossed, an invariant that places
the copy on the screen, the answers on their way and the reads that still count between
what was reported and what the service holds:

* team: every copy that will still be shown or sent from (the list, a read that runs, the
  copy a dialog was opened on, the copy a request was sent from) holds all that was
  reported of its list; a request adds its own change to such a copy and nothing else, so
  what it writes takes nothing back. An invitation is worked on from the mount that shows it;
* rules: of a rule no two writes crossed there is one request at most, the row shown is the
  stored one but for that request, and a read that still counts was served after it;
* policies: `PolicyTold`, what was reported saved or sealed is in the stored row, in the row
  a builder will take and in what is shown as in force;
* extraction review: what was typed of a field last is drafted, on its way with the save, or
  stored; a merged view is of the document that is shown, and is what is stored of it;
* blog: a post that was reported written is stored so; what the list shows, or a read
  brings, is the stored post or a mark says it aged; a typed draft is in the editor, in the
  browser's kept draft, or lost in one of the ways section 6 names;
* rule sets: follows from the invariant above.

Writing them corrected four places of the model. The fill of a new role replaces nothing,
so it needs no copy (`TeamDesk`); a kept draft ages when its session ends on an answer that
shows the list old (`BlogDesk`, `Aged`); the fields a save still has to post are a set that
is taken in order, as the code's loop takes them, and there is at least one field
(`ExtractionDesk`); and there is at least one seat (`TeamDesk`).

`PlacedWhereShown` rests on `TreeInv`: no step stands in two places or twice in one, a lane
that is not shown is empty, only steps that are no condition stand in a branch, and the same
holds of the tree a save was sent with. The code removes the step first and inserts it
afterwards, and the slot that was pointed at was counted with the step still in its lane.
`LaneTaken` and `LanePut` say what a splice does to a lane at each index; `PutFromAway` and
`PutFromWithin` put them together for a step that comes from another lane and for one that
moves within its own, where the slot's number is one less once the step was above it. That
a move does not carry a branch away is `CanDrop`: a condition never enters one.
To be reasoned about, `spliced` is written as two parts of the lane around the new step, and
a new step has any name that is not in use, as `newNodeId` promises no order.

`TypeOK` of `Pages` needs, besides the shapes of the records, that what is counted is spent
from something that runs out:

* review: the moves so far, with the invoices that are not queued and the change of a row
  that is out, are at most the invoices and the changes there were;
* register: each invoice may be sent by this page and moved by its own submission, so the
  moves so far, with the invoices that are ready and those that are ready or queued, are at
  most two for each invoice and three for each move of another user;
* approval queue: a screen is mounted for each time the page was asked for, and a decision
  that is out was sent from one of them. The page is asked for once when it opens, so
  `QueueAssumption` asks for at least one load;
* rule sets: there are at most two versions and one for each call, a call that may open one
  already counted; what is selected, read, compared or named by a call is a version there
  is, and versions never go;
* team, policies, rules, extraction, blog and the tree: part of their invariants above.

## 5. Findings

Places where the code disagrees with what the repository says of it.

* `ackloss`: `isTerminalJobState` (`internal/submission/jobstore.go:22-28`) does not count
  `pending`. A `SubmitWorker` redelivered after its Pending committed marks the
  ticketed row `submitting` (`worker.go:197`) and presents the key again;
  `OncePerJob` then skips the record, the polls find a row that is not `pending`
  and do nothing, and the invoice stays `submitted`. The poll worker's comment and
  the migration of `poll_ref` both say such a row does not exist.
* `latejoin`: a test is named `TestAccept_ALockedWorkspaceTakesNoNewMember`
  (`internal/tenancy/workspace_deletion_test.go:398`) and calls the check in `acceptInTenant`
  "the check for a lock that lands between the reader and the accept". A schedule
  that commits after that check and before the insert is let through, as the
  tenants row is not locked (`tenancy/store.go:556`). Where staff start the purge at
  once, the late member may come after `eraseMembers` has read the members, and is
  removed without an erasure.
* `pinned`: the handlers of a submission and of a row change call `page.run` of the render
  they started in, which closes over that render's filter
  (`packages/api-client/src/async-state.ts:90`). A view pressed while the request
  waits is overtaken: the old view's rows are loaded under the new one, and as the
  filter does not change again nothing asks for the right page. The comment at
  `ReviewInvoicesTab.tsx:186-192` says a stale closure is what its `deps` prevent. The
  same closure is in `InvoicesList.tsx:345`, the clients' and the customers' list, where
  no run was added for it.

## 6. What the properties except, and what is left out

Behaviours of the code that a property names as its exception, or that were met while
modelling and have no line of the repository against them or no run of their own:

* Pipeline. A batch that re-uses its request key after a rejection and a correction finds
  the outbox key taken and reports the invoice as already queued. A sweep audits
  `poll_reenqueued` even where the re-arm key was taken and nothing was enqueued. Staff may
  cancel a queued retry whose earlier, unanswered attempt did reach the authority.
* Invoice page. The answer of a re-validation that an edit overtook clears the mark of the
  stale verdict.
* Policies. A save of an earlier mount of the builder whose end nobody saw. The slot of a
  step placed with the keyboard during a save is undone when the save lands
  (`WorkflowBuilder.tsx:621-622` says otherwise). An armed step whose condition is deleted
  stays armed and placing it does nothing.
* Rules. A rule edited while its switch waits: the save puts the switch back.
* Approval queue. A decision names neither step nor content, so one that is sent again
  after a lost answer may fall on the next step; the model has one step to an invoice.
* Extraction review. The screen stays mounted when the address moves to another document
  (`App.tsx:1948` gives it no key), so a save that lands there drops what was drafted
  meanwhile and shows the refusal of the other document (`ExtractionReview.tsx:123-124`
  says drafts are per document).
* Blog. The list is not read again after a save that failed, was lost or was done in part,
  so opening the post again shows an old draft. A cover that was put although its answer
  was lost, and is then removed, stays on the service under "ALL CHANGES SAVED". A lost
  answer of a create makes a second create. A session that ends in a pin, in the load of the
  list, or in a save after another editor was opened does not keep the draft
  (`blogFlow.ts:251` says it is kept); a browser keeps one draft.
* Rule sets. A publication names no version, and one that is left open after a lost answer
  may publish the next draft under the comparison with the one before
  (`PublishModal.tsx:20-21`). A switch or a midnight after the comparison is not in its
  warnings. A drawer opened over a list that is being read keeps its form when the list
  lands; a save or a removal that lands closes whatever drawer is open. Editors of the same
  draft overwrite each other (`staff_drafts.go:291`).

Left out of `Submission`: creating and reading invoices, lines and numbers,
`app_exchange` evidence, status history and audit rows other than outcomes
(append-only, read by none of these operations), roles, and time: ages are
nondeterministic. The adapter's rules for choosing an answer are open, so
what is shown holds for any adapter that decides a key once. `Reconciliation` leaves
out the two arms over approval runs.

Left out of `WorkspaceDeletion`: how an address is found for an erasure, links and
mails to the administrators, roles, and what happens to an erasure once queued.

Left out of the browser's modules: what columns, drafts, steps and fields say, wording and
layout; the forms that sign in, join or reset; restoring a page from the back-forward
cache; timeline and evidence cards of an invoice; locked fields and the arithmetic of lines
in the extraction review; categories, blocks and status of a post; the test of a rule
set's draft, code lists, and sessions of the rule sets.

One hazard of the pipeline has no property because the code permits it: an approver
who asserts `rejected` on an invoice the authority still holds makes it editable, so
`ClearedOnce` is stated for assertions within `draft` and `queued`.

Components that are not modelled are listed with their reasons in PROJECT.json: pure
computations (validation, documents), append-only records (archive, audit log), read
models, schema and runtime, and screens of one list or form.

## 7. Plan

1. Model the shell of the product: addresses, history and the company switcher; the audit
   screen; the hand-off between the landing site and the workspace.
2. Model the approval engine with the pipeline: an invoice is transmitted only when no
   active policy asks for it or a run of its current content was approved.
3. Rule revisions and their recheck; the outbox of notifications; the importer and the
   extraction jobs on the server; the pipeline under a purge.
