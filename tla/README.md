# Verification of cotizador-core-backend

TLA+ models of the core of the quoting backend (`src/` of this repository), the
TLC instances that check them, and theorems about them checked by TLAPS.
Paths below are relative to the repository; `use-cases/` stands for
`src/domain/use-cases/` and `infrastructure/` for `src/infrastructure/`.

Contents: [1 The system](#1-the-system) · [2 Modules](#2-modules) ·
[3 Runs](#3-runs) · [4 Proofs](#4-proofs) · [5 Disagreements](#5-where-the-code-and-its-messages-disagree) ·
[6 Not modelled](#6-not-modelled) · [7 Plan](#7-plan) · [8 How to run](#8-how-to-run)

## 1 The system

An Express API, two worker processes and PostgreSQL through Prisma. Sellers make
quotes, managers authorise them, purchasing obtains what is not in stock, an ERP
receives the order, and customers talk over WhatsApp (Twilio) with an assistant
(an external AI platform) or with a user who takes the conversation over.
Everything that lasts is in PostgreSQL (READ COMMITTED); processes share nothing
else. A request normally reads rows *outside* a transaction, checks its guards,
and then runs one transaction whose `UPDATE`s are keyed by id: what was checked may
have changed. Where the code is careful it repeats the condition in the `WHERE`
(compare and set), relies on a unique index, or both. Those places, and the ones
where it does neither, are what the models are about.

### Components

| Component | State | Operations | Interacts with | What makes it correct |
|---|---|---|---|---|
| Manager report scheduler | subscriptions (`nextRunAt`), runs (`status`, unique per subscription and slot) | initialise, claim, dispatch, finish, mark interrupted; create/edit/activate through the API | Twilio; several workers; administrators | a slot is requested of Twilio at most once; every due slot gets a run; no run stays PROCESSING |
| Quote lifecycle | quotes, items, version links, events, exports | draft, edit, submit, decide, cancel, revise, order, register ERP folios, archive, delete | requisitions, WhatsApp quote requests, ERP | one live version, one revision in progress, one order; the workflow table; nothing changes while it is being decided on |
| Purchase requisitions | requisition, items, offers, awards, supplier requisitions | ensure for approved quote, edit items, offers, awards, submit, complete | quotes, suppliers | open exactly while there is something to buy; closed ones stay closed; awards match what was ordered |
| WhatsApp assistant jobs | jobs (`status`, `lockedAt`, `attempts`) | claim, answer, cancel, complete, fail, reclaim | AI platform, Twilio, human control | one worker per job; one answer per message; a final job stays final |
| Conversations and human control | conversations (`mode`, `handledBy`, lease), inbound and outbound messages | inbound message, take, extend, return, manual reply, renew, expire | assistant jobs | control never outlives its maximum, is always released, and no text stays unanswered |
| Assistant tools, pending actions | pending action of a conversation | prepare, confirm, expire | quotes, AI platform | a quote is decided only as an earlier turn prepared it; executed only if decided |
| WhatsApp leads | leads, assignments, quote requests | open, assign, convert, discard | conversations, customers, quotes | one active request per lead; a converted lead stays converted |
| Quote delivery | delivery attempts, outbound messages | send, poll, status callback, registration by hand | Twilio, quotes, assistant tools | a recorded delivery keeps its quote visible to the phone whatever failed afterwards; who was sent a version may decide it |
| Files | storage, attachments, captured media, fiscal documents | upload, capture, extract, replace, delete, delete conversation | customers, WhatsApp, quotes | what is listed can be downloaded |
| Draft idempotency, item positions | idempotency key, positions (unique) | save draft, reorder | quotes | one quote per key; positions stay a permutation |
| Customers, onboarding, products, suppliers | rows edited by id | CRUD, link to the ERP | ERP | one primary contact; unique ERP identity |
| Alerts, realtime, documents, analytics, settings, users | rows, notifications | best effort or read only | all | nothing waits on them |

`PROJECT.json` lists them with their source files and whether they are modelled.

### What is hard here

* *Stale guards*: a use case checks a copy of a row that another request changes
  before the write (quotes, requisitions, control of a conversation).
* *Two workers*: both loops may run in several processes; a slow one looks dead.
* *The outside call*: Twilio accepts a message and the record of it is lost, or it
  answers late; a crash falls between the two.
* *Leases*: a user's lease is extended by replies and by inbound messages, taken
  over, returned and expired by different processes, and bounded in total.
* *Chains*: revisions link quotes; deletion, archiving, supersession and numbering
  must agree under races.
* *Redelivery*: Twilio repeats webhooks and tells statuses in any order.
* *Two turns of one conversation*: an answer prepared in one turn and confirmed in
  another, while the staff revises, sends or decides the same quote.
* *Two stores*: a file and the row that promises it are written and deleted by
  different calls, with no transaction over both.

## 2 Modules

| Module | Models | Role |
|---|---|---|
| `ReportSlotLedger` | what the scheduled reports promise, without workers or clock | abstract specification |
| `ManagerReportScheduler` | the worker loop and the administrators' requests | implements the ledger |
| `QuoteLifecycle` | quotes with their revisions, requisition status and folios | requests in flight |
| `PurchaseRequisition` | items, offers, awards, supplier requisitions of one quote | requests in flight |
| `CustomerDecision` | deliveries by WhatsApp and the answer of the customer | extends `QuoteLifecycle` and implements it |
| `WhatsAppAssistant` | assistant jobs and human control of conversations | workers, users, customers |
| `StoredFiles` | attachments, captured media, fiscal documents, deletion of conversations | requests in flight |
| `MC...` | symmetry sets and small schedules for TLC | |
| `..._proofs` | theorems and their proofs, one module for each of the six | |
| `QuoteVersions_proofs`, `WhatsAppTurns_proofs` | further theorems about versions and orders of quotes and about assistant jobs, where needed under a hypothesis on the settings | extend the module's first proofs |

The models share one convention. A table is a function from ids to row records.
Each process or request has a record with its program counter and its *locals*:
what it read and has not written yet. One action is one statement, one
transaction, or one call of another system; reads of one transaction that nothing
can separate visibly are merged with its commit, and a read that a guard depends
on is a step of its own when another process can change the row in between.
A crash or an error drops the locals (`Crash`, `Stop`, `StopUser`).

### `ManagerReportScheduler` and `ReportSlotLedger`

`worker[w].pc` follows `run()` of `presentation/manager-report-worker.ts`:
`FindUninitialized`/`InitializeRow` (`initialize`), `MarkInterrupted`, `FindDue`/
`ClaimDue`/`ClaimRefused` (`claimDue`: the claim is the transaction that advances
`nextRunAt` under the condition it read and inserts the run), `LoadSubscription`,
`DispatchAccepted`/`DispatchFailed` (Twilio), `FinishSubmitted`/`FinishNeedsReview`
/`FinishSubmittedFails`, `EndIteration`. `PrepareSave`, `PrepareSetActive` and
`CommitAdmin` are the requests of an administrator; `nextRunAt` is computed before
the statement that stores it. The calendar (`next-manager-report-run.ts`) is
abstracted to a period and an offset: the next slot is strictly later, which is
all the properties use. Time zones and daylight saving are not in the model.

The refinement reads the ledger off the rows: `Ledger!status` is the status of the
run of each slot and `Ledger!accepted` a history variable of the scheduler.

### `QuoteLifecycle`

A request goes `idle -> checked -> read -> idle`: the use case's checks on its own
read, the transaction's read, the commit. Every operation that changes a quote's
status, version links, order, folios, archive flag or existence is there:
`Create`, `CheckSave/ReadSave/CommitSave` (`saveDraft`), `CheckUpdate`,
`CheckItems/ReadEdit/CommitUpdate/CommitItems`, `CheckChange/CommitChange/
EnsureRequisition` (`changeStatus` and the requisition that follows),
`CheckRevise/ReadRevise/NumberRevision/CommitRevise`, `CheckOrder/CommitOrder/
CompleteRequisition`, `CheckRegister/ReadRegister/CommitRegister`,
`ArchiveOrRestore`, `ReadDelete/CommitDelete`, `CheckPurchasing/CommitPurchasing`.
Unique indexes and foreign keys are guards (`RevisionNumberFree`, `NumberFree`,
`NotReferenced`). Data are abstracted: items are `IN_STOCK` or `TO_PURCHASE`, the
header is a version of its terms. `OPEN` stands for the requisition statuses
DRAFT, SUBMITTED, IN_PROGRESS and PARTIALLY_QUOTED, which no guard of a quote
tells apart. `ApprovalModes` are the values the internal-approval setting may have
at each request. Who may call an operation is not modelled: the callers passed it.

### `WhatsAppAssistant`

`conversation`, `inbound` and `job` are the three tables; a job has the id of its
inbound message (unique index). `manualReply` keeps the one thing the code asks of
the outbound messages: when a user last wrote. `replies` and `unrecorded` are
history: answers Twilio accepted, and those whose COMPLETED was never stored; so is
`revived`: the conversations where an extension read under a control that has ended,
stored by id, brought that control back (`Revives`, see 5).

* Workers (`presentation/whatsapp-assistant-worker.ts`): an iteration reads the
  settings, lists expired controls (`FindExpired`), releases each in a transaction
  that repeats the condition (`ReleaseExpired`), then `FindJob`, `ClaimJob` (compare
  and set), `Respond`, `CheckMode`, `CancelJob` or `SendAnswer` and `CompleteJob`,
  `FailJob` for every error of the turn, `Crash` anywhere.
* Customers: `Receive` is the whole transaction of `recordInboundMessage` with the
  grace it leaves to a user in control; a message may come again. A message with
  media gets its job after the download, in two statements (`ReadModeForMedia`,
  `EnqueueForMedia`).
* Users: `CheckSetMode` reads outside the transaction, `TakeControl` and
  `ReturnControl` write by id; a manual reply is `CheckReply`, `SendReply`,
  `RecordManualMessage`, `ReadRenew`, `RenewControl`, and `StopUser` at any point.
  `DeliverQuote` records a quote sent to the customer, which counts as a reply.

The clock ticks in units longer than a database request. `RequestDelay` and
`TurnTimeout` bound how long a request and a turn may straddle ticks.

### `PurchaseRequisition`

One approved quote and what is bought for it. A handler checks its own read
(`CheckEnsure`, `CheckReference`, `CheckSubmit`, `CheckAssign`, `CheckEdit`,
`CheckLink`, `CheckOffer`, `CheckApproval`, `CheckOrder`) and then writes; where
`recomputeStatus` reads the items before it writes the status of a row the
transaction has not locked, there is a step in between (`ComputeEdit`,
`ComputeLink`). `LockAllocation`/`AllocateOffers` and `LockIssue`/
`IssueSupplierRequisitions` hold the advisory lock of the requisition (`LockFree`).
`MaterializeSellerOffers` runs after the requisition was created or found as a
draft, and may be late. A cost is a small number, a supplier's terms a quantity,
a minimum and a unit cost; currencies, taxes and contacts are left out. The
requisition's statuses here are the ones `QuoteLifecycle` groups as `OPEN`.

### `CustomerDecision`

It extends `QuoteLifecycle`: the staff's requests are that module's, and a turn of
the assistant that confirms makes the very request of a status change
(`StartDecision` is `CheckChange`, `Decide` is `CommitChange` or
`EnsureRequisition`), so every behaviour here is one there, which is proved.

* A delivery: `CheckSend`, `AcceptSend` (Twilio), `RecordSend`, `PollSend`,
  `FailSend` at any point, after which the catch writes a row of its own
  (`RecordFailure`: FAILED and without a message id, also when Twilio took the
  message) or does not get to (`StopSend`); `Callback` in any order and repeatedly,
  and `RegisterAttempt` for one made by other means. A delivery thus has up to two
  rows, `attempt` and `failure`. QUEUED, SENT, DELIVERED and READ are one status:
  the guards tell only FAILED from the others.
* What the conversation may see: `Authorized` and `CurrentAuthorized` are the two
  queries of the repository; the queries of one tool call are taken at one moment.
* A turn is a job of the assistant: `CallPrepare`, `ReadPending`, `CommitPrepare`
  (the update and the insert of `prepareAction` are a transaction whose update does
  not see what others commit meanwhile), `CallConfirm`, `FindPending`,
  `StartDecision`, `Decide`, `MarkExecuted`, and `StopCall` anywhere. A retried job
  is the same turn again. `decided` is history.

### `StoredFiles`

`stored` is the storage and a file is named by the request that saved it, since
`save()` makes a fresh key. Uploads save and then write the row, and take the file
back if that throws (`Fail`, `RemoveFiles`); deletions drop the row and then the
file, which may fail (`RemoveFiles` removes any subset). `DeleteChat` is the cascade of a
conversation; `ReadChat` is the read before it that decides which files go.
`OpenRow` counts the onboarding rows a customer has had, so that a late request can
miss the row it read. `late` marks an upload that failed after its row was written.

## 3 Runs

`CHECK_DEADLOCK FALSE` is used by every run but those of the scheduler: the ids of
quotes, actions and requests run out, a requisition closes, the clock of the
instance stops and customers and users fall silent after `LastInput`, so these
instances really end.
In the scheduler the workers poll for ever and deadlock is checked.

| Run | Question and answer | Bounds, and why they are enough |
|---|---|---|
| `reports_safety` | Two workers, an administrator, a crash: at most one request per slot; the scheduler implements the ledger. Holds. | One subscription (rows of two only meet in the batch order, which `reports_liveness` has), two slots or more within `MaxTime` 3, `BatchSize` 1 so that two workers share the work, `InterruptAfter` 0 so that a slow worker is interrupted at once. |
| `reports_liveness` | Nobody edits: every due slot gets a run, no run stays PROCESSING. Holds. | Two subscriptions compete for batches of one; `StaleAfter` 0 makes slots late immediately. |
| `reports_overdue` | "Un horario atrasado mas de 24 horas se marca SKIPPED". Violated, see 5. | One worker, one administrator, no crash. |
| `quotes_sequential` | One request at a time, stopping anywhere: one live version, one revision in progress, no order while revising, edits only while editable, archived quotes keep their offer, closed requisitions are read-only, cancelling closes the requisition. Holds. | A quote and two revisions: a chain with a middle (`MaxOriginals` 1 makes the other ids its revisions). Approval required (see 5 for the bypass). |
| `quotes_overlap` | Two overlapping requests: no linked quote is cancelled, no folio is lost silently, only an order completes a requisition, no quote gets a third order. Holds. | One quote and two folios: both requests always meet. `MaxExports` 3, so that a third order could show. |
| `quotes_revisions` | Two overlapping requests on a chain: numbering, links and supersession survive. Holds. | Three ids, so that two revisions may be created from one quote or from each other. |
| `quotes_two_orders` | "Order was already generated for this quote." Violated, see 5. | One quote, two requests. |
| `whatsapp_safety` | Two workers, two users (one a seller) who take, extend, answer and return a conversation under each other, a message delivered again, a failure: control within its limit; one worker per job, one answer per recorded outcome, completed stays completed, save where a stale extension brought a control back. Holds. | `TurnTimeout` 1 is as long as the stale lock (1), and with `RequestDelay` 1 shorter than lease, grace and maximum (3), the order the settings' defaults have (75 s; 5 min; 15, 5 and 60 min): a request may straddle a tick. Requests begin by `LastInput` 1 and are stored by 2, so that a control taken at 0, returned, and brought back by an extension at 2 ends at 3, while the turn begun in between still runs: without the exception each of the three properties is refuted here. One text; media and sent quotes are in `whatsapp_liveness`. |
| `whatsapp_liveness` | A worker that fails once, a user, a text or a message with media, quotes sent: control is released; a text is answered, given up, or answered by a user. Holds. | `RequestDelay` 1: a stale extension may bring a control back here too. Failures and inputs end by 1 and the clock goes on to 5, so that an extension stored at 2, its lease of 2 and the stale lock can run out. The assistant is enabled, as a disabled one answers nobody. One message: a text overtaken by a later one, which `TextIsSettled` leaves out (two received in one tick overtake each other), does not occur; two messages pass the five minutes. |
| `purchases` | Two overlapping requests, all thirteen operations: awards cover the item, READY means awarded and coded, what was issued is what was awarded, what was ordered was bought, a draft leaves by its submission. Holds. | One item of two units with two offers, one whole and cheap, one partial and dear, so that awards can be split, replaced and too expensive. A second item passes the five minutes; the proofs of section 4 cover any number of items, offers and requests. |
| `decisions` | Two turns, a request of the staff and a delivery: a quote is decided only as another turn prepared it and only if this phone was sent it; EXECUTED only if decided; a recorded delivery stays visible to the phone until Twilio reports its failure. Holds. | A quote and its revision, so that the older version can be the one delivered; two actions, so that one can cancel the other; acceptances only, rejections taking the same steps. Two phones are not needed: a version never sent stands for one sent elsewhere. The theorems of section 4 cover the rest. |
| `files` | Three overlapping requests of any kind: the file of every row is in the storage; a fiscal document is lost only by its own late failure. Holds. | Two media and two conversations (a message delivered again may belong to either), two drafts, two onboarding rows one after the other, three files: a document, the one it replaces and the one that replaces it. |

Every property of a passing run has a mutated definition in the module (the
operators commented "Faulty variant") that a plausible bug would produce and that
TLC refutes: a dropped guard, a missing condition in a `WHERE`, an inverted
comparison, a forgotten status. They are used by no specification.

### Fairness

* Scheduler: weak fairness of each worker's loop (`while (!stopping)`, restarted by
  its supervisor), of the clock, and of an administrator's request once made
  (a single statement). `Crash` is never fair.
* WhatsApp: weak fairness of each worker's loop and of each request in flight;
  strong fairness of the clock, because users may start requests that take no
  clock unit as often as they like until `LastInput`, and time passes regardless.
  Customers and users are never obliged to act. `whatsapp_liveness` has one user
  who only takes control: returning it by hand queues no job (`setMode`), so that
  a text cancelled by the takeover is then left unanswered by design of the code,
  and `TextIsSettled` does not claim otherwise.
* Quotes, purchases, decisions and files have no liveness property: nothing in the
  code promises that a person or the AI platform acts, or that a call is retried.

## 4 Proofs

All theorems hold for every value of the constants that satisfies the assumption
of the module (`ConstantsAssumption`, `DecisionAssumption`, `FilesAssumption`): any number of processes, rows and messages,
any settings and bounds. Some need more, and say so: their hypothesis is a constant
operator of the proof module, named in an `ASSUME` of the theorem, and is true of the
constants of the run that checks the property.

| Hypothesis | Says | Why it is needed |
|---|---|---|
| `ApprovalStaysOn` | the internal-approval setting is on throughout | off, a revision saved straight to QUOTED supersedes nothing (section 5) |
| `PromptTurns` | a turn is no longer than the stale lock, and with a request to the database shorter than lease, grace and maximum | a job is otherwise claimed again while its turn goes on: by the stale lock, or by the expiry of a control taken and ended within the turn (section 5) |
| `IsFiniteSet(Requests)` | finitely many requests are in flight | the orders are counted against them |

The first two are settings: the defaults have both (`envs.ts`), and the
settings page accepts others. No theorem assumes that requests do not overlap.

* `ManagerReportScheduler_proofs`
  * `TypeCorrect`.
  * `AtMostOnce`: no slot is requested twice of Twilio. `AtMostOneRequestPerSlot`
    is not inductive. `IInv` adds which worker holds a slot: a held slot not yet
    dispatched was never sent (`HeldSlotsUnsent`), no two workers hold one
    (`HeldByOne`), a worker past a positive answer has it accepted
    (`AnsweredWasAccepted`), and the stored outcome agrees with Twilio
    (`OutcomeMatchesTwilio`). The key step is `ClaimDue`: the unique index makes
    the claim of a slot with a run impossible.
  * `SchedulerImplementsLedger`: `Spec => ImplementsLedger`; each action maps to one
    of `Claim`, `Deliver`, `Submit`, `GiveUp` or a stutter, using `IInv`.
* `QuoteLifecycle_proofs`
  * `TypeCorrect`, `LinkedQuotesStay` (no linked quote is ever cancelled) and
    `RegistrationsTellTheChange` (an event names the folio it replaced). `IInv` adds
    what requests carry (`LocalsOK`) and that an id never written has no folio.
    Every action but `CommitDelete` and `CommitRegister` keeps all links
    (`LinksKept`); `CommitChange` and `CommitRegister` need their compare-and-set
    condition.
  * `ChainsAreSound` and `CompletedAfterOrder`: revisions are numbered without a gap
    or a repetition and never lose the root or the version they were made from, and a
    requisition is completed only by the order of its quote, however revisions,
    orders, deletions, cancellations and purchasing overlap. Both follow from `CInv`
    (`ChainInvariance`): every row is an original or continues an existing chain
    whose earlier numbers are all taken (`Chained`, `NumberedOnce`), a deleted quote
    left no requisition and belonged to no chain (`GoneHasNothing`), and what the
    requests in flight rely on. One about to complete a requisition generated the
    order or its quote is gone; one about to write a purchasing status found a
    requisition, which never goes away; one about to delete saw an original
    (`CarriesTables`). One about to revise knows the root of the quote, then a number
    above that quote's whose predecessor is in the chain (`CarriesRevision`); another
    request may have taken that number since, and there the proof needs the unique
    index (`RevisionNumberFree`), as `CommitDelete` needs the foreign keys.
* `QuoteVersions_proofs`
  * `SuccessorsAreRecorded`, with any overlap, under `ApprovalStaysOn`: a version is
    authorised only with the one it was made from told its successor, and a
    superseded version names one that exists. `VInv` adds that a deleted row is tied
    to none (`GoneUntied`) and that a request about to authorise found the previous
    version told already, or tells it by the same write (`AuthorisesTold`). What
    the requests rely on never becomes false again (`StayTold`).
  * `OrdersAreBounded`, with any overlap: the orders of a quote never outnumber the
    requests, however long they go on. `OInv` says that once a quote has an order,
    its orders and the requests that were let in before and have not marked theirs
    (`Ordering`) are together no more than the requests: marking moves one from
    the second to the first, and none is let in any more (`LetInToOrder`).
* `WhatsAppAssistant_proofs`
  * `TypeCorrect`, which includes that the columns of a control are set and cleared
    together: `setMode` and `recordInboundMessage` rely on it.
  * `ControlIsBounded`: the lease never passes `handledAt` plus the maximum. `IInv`
    adds that the lease a request is about to store keeps the limit of the row it
    will write (`LocalsOK`): for a takeover, of the start it carries; for a renewal,
    of the row, *if the user still has control then*. That only the user's own
    request changes the start of a control the user holds (`SameStart`) is why the
    `WHERE` of the renewal suffices, and it needs each user to have one request in
    flight, which is an assumption of the model (`user` has one record per user).
* `WhatsAppTurns_proofs`, under `PromptTurns`: any number of users, who may hand
  conversations back, and requests that straddle ticks
  * `TurnsAreExclusive`, `AnswersAreCounted`, `CompletedForGood`: no job is in the
    hands of two workers, a message is answered again only if the first answer was
    never recorded, and a completed job is not written again, in every conversation
    that is not among the `revived`. `TInv` adds what is
    true of a job in a turn (`InHand`): it is still claimed at the moment the turn
    began, so that no one may reclaim it before the turn ends; or it was cancelled by
    a control that began after the turn did and outlasts it, so that no expiry
    queues it again meanwhile. For that, a takeover in flight starts a control no
    earlier than its own read or carries on one that is still there, unless it
    revives it (`Taking`), and a reply in flight began after the control the user may
    still have (`Replying`).
* `PurchaseRequisition_proofs`
  * `TypeCorrect`, `AwardsAreWhole`, `ReadyItems`, `IssuedForGood`, `OrdersAreBought`,
    `DraftsAreSubmitted`. `IInv` adds that at most one request holds the advisory
    lock (`OneLock`), that an offer of no item has no award, and what each request
    carries between its steps (`LocalsOK`): an award that is about to be written
    was checked against offers only the lock's holder may change, and a status
    about to be written was computed from items that were then READY. Nothing ever
    takes an award back after issuing: that is why lines and awards stay equal.
    `AwardsAreWhole` needs no induction over the sum of the awards, only that equal
    awards have equal sums: the sum was checked under the lock (`Validated`), the
    write makes the awards those, and no other step changes one. That an offer never
    loses units below its award is `TermsStand`: an offer is only ever brought up
    to date with all the units of its item.
* `CustomerDecision_proofs`
  * `ImplementsLifecycle`: `DecisionSpec => Spec` of `QuoteLifecycle`, so that
    `LinkedQuotesStay`, `RegistrationsTellTheChange`, `ChainsAreSound` and
    `CompletedAfterOrder` hold with customers deciding.
  * `DecisionTypeCorrect`, `ExecutedAfterDecision`, `DeliveriesStayVisible`,
    `ConfirmedDecisions`, `SentDecisions`, from `DInv`: a recorded attempt says FAILED
    only of a message Twilio reported so, since no row of the catch touches it; a call past its search cites
    another turn's action for its own quote and decision (`Cites`), a call past its
    first query has a quote that was sent to the phone (`WasSent` never becomes
    false), and `decided` holds every answer quotes have had.
* `StoredFiles_proofs`
  * `TypeCorrect`, `DownloadsFindTheirFile`, `DocumentsStay`. `FInv` says that a file
    about to be removed is `Expendable`: no row needs it and its own upload, the only
    request that can write such a row, is past that step (`Written`), and that what
    each request read before deleting is still true or harmless (`ReadsHold`).

Only model-checked: the liveness of `reports_liveness` and `whatsapp_liveness`
(`DueSlotGetsARun`, `ProcessingIsResolved`, `ControlIsReleased`, `TextIsSettled`), which
with ENABLED is out of the prover's reach; the properties of `quotes_sequential` but
`TypeOK`, which are true of requests that do not overlap and of no more (section 5), so
that a theorem would have to assume what the code does not give; and the two properties of section 5 that
must be violated. Every other invariant and safety action property of the runs is
stated by a theorem. Before each invariant was proved TLC checked it on the constants of
the run named: `VInv` on `quotes_revisions` and `quotes_sequential`, `TInv` on
`whatsapp_safety`.

## 5 Where the code and its messages disagree

Two disagreements have a run that must end in a counterexample:

1. `reports_overdue` (`MANAGER_REPORT_SCHEDULER.md:14`): an edit that stores a
   `nextRunAt` computed before the slot was claimed makes every later claim break the
   unique index; since the earliest slot is always taken first, no other
   subscription is served either, and nothing is ever marked SKIPPED.
2. `quotes_two_orders` (`generate-quote-order.use-case.ts:46`): two overlapping
   requests both generate an order for one quote.

The same modules show these, of which no run is kept. Each follows from an
operation of `QuoteLifecycle` with two requests (or one, where said) and the
property named:

* one request: the header of an archived quote is updated, and "Archived quotes are
  read-only." (`update-quote.use-case.ts:100`) is thrown after the commit.
  `ArchivedKeepsItsOffer` states what is left: an archived quote changes by its
  restoration, or in its header while it is editable, and never in its items;
* two overlapping status changes make a transition the table forbids
  (operations CREATE and CHANGE);
* items checked as editable are written to a quote submitted meanwhile
  (`EditsOnlyWhileEditable`, CREATE, CHANGE, ITEMS);
* a purchasing request writes an open status over a closed requisition
  (`ClosedRequisitionStaysClosed`, CREATE, CHANGE, PURCHASE), and
  `ensureForApprovedQuote` may open one for a quote cancelled meanwhile;
* a revision and an order of one quote are created together
  (`NoOrderWhileRevising`, CREATE, CHANGE, ORDER, REVISE), and so are two revisions,
  when one commits between the other's two queries (`OneRevisionInProgress`);
* one request, internal approval off: a revision saved straight to QUOTED does not
  supersede its previous version (`OneLiveVersion`, CREATE, SAVE, REVISE,
  `ApprovalModes` {FALSE}).

That is why `quotes_sequential` takes one request at a time, with internal approval on:
it checks that the guards, each evaluated on fresh data, are the right ones, and none of
the overlaps above is in it. `quotes_overlap` and `quotes_revisions` check what does
survive overlap: the folios, the completion of requisitions, the number of orders, the
numbering and the links of the versions.

In `WhatsAppAssistant`, a job is in the hands of two workers in two cases.
* An extension is read under a control, by its user or another one, and stored after that
  control ended, by its expiry or by hand: `setMode` writes by id and carries the old
  start on (`prisma-whatsapp-inbox.repository.ts:544`), so the control that comes back may
  end at once, and its release queues a job that was claimed meanwhile a second time. No lease
  is long enough to prevent it. `whatsapp_safety` has this race
  (`RequestDelay` 1, two users): without the exception `Revived`, TLC refutes
  `OneWorkerPerJob`, `AnsweredOnce` and `CompletedIsFinal` there, and the exception is
  all that is taken out.
* The grace or the stale lock is configured shorter than a turn (`PromptTurns` does not
  hold): the settings accept a grace of one minute, and a call to the AI platform may take
  75 s. The runs have the order of the defaults.

`failJob` writes by id: a turn that fails after a takeover cancelled its job
(`prisma-whatsapp-inbox.repository.ts:598`, "Cancelled because a user took control of
the conversation.") makes it PENDING again, and returning the conversation gets the
cancelled message answered.
Two takeovers at once silently override each other although the message says "La
conversación está bajo el control de otro usuario.".

In `PurchaseRequisition`: "Supplier requisitions were already generated; purchase
details are locked." is checked before the transaction, so an offer, an edit or a
link may still commit after the generation; `IssuedAreTheAwards` is what survives.
In `CustomerDecision`: the catch of a send writes FAILED whatever failed
(`send-quote-whatsapp.use-case.ts:234`), so that a send whose message Twilio took, but
whose answer or whose first record (line 121) was lost, has a FAILED row only: the customer
holds a quote the tools refuse, until it is sent again. Where the first record was
written, the FAILED row stands beside it and `DeliveryStaysVisible` holds. The recorded status of a delivery may go back, by callbacks out
of order or by the poll's late write; two preparations at once leave two actions
PENDING, of which the newest is confirmed; a crash after the decision leaves an
accepted customer without onboarding until the acceptance is confirmed again.
In `StoredFiles`: a step that fails after the fiscal document's row was written
deletes the file the row points to (`customer-onboarding.use-case.ts:292`); a medium
extracted after `deleteConversation` read it loses its file; a crash between a row
and a file leaves the file behind for ever.

## 6 Not modelled

`PROJECT.json` gives the reason per component. In the modelled ones: amounts, taxes
and currency of quotes; matching of items to ERP products; authorisation and
visibility; realtime events, alerts and audit rows; what the deletion of a
conversation does to its jobs in progress; the context of the AI conversation
(`previousResponseId`); leads opened by an inbound message; the limit of 50 releases
per iteration; clocks of different machines (one clock for all).

Leads (`prisma-whatsapp-lead.repository.ts`) are not modelled: each operation is one
transaction that reads and writes by id, nothing excludes two active requests or an
assignment over a conversion when two overlap, and alone they do what they say.
Positions of items hold a row lock for the whole reordering. Customers, products,
suppliers, users and branches are edited by id with no protocol. The calendar of
the reports goes through the time-zone database of `Intl`. Internal alerts are sent
at most once by a unique index and never retried. Three quarters of the
lines under `src/` are the generated Prisma client, which has no logic of its own.

## 7 Plan

1. *Done*: `ReportSlotLedger`, `ManagerReportScheduler`, `QuoteLifecycle`,
   `WhatsAppAssistant`, `PurchaseRequisition`, `CustomerDecision`, `StoredFiles`.
2. Worth adding if the code gains a protocol there: leads, once something excludes
   two active requests; the onboarding's review and its link to the ERP, once its
   writes repeat the status they were decided on.
3. *Done*: every safety property that survives overlap is a theorem. Left: were the
   guards of `quotes_sequential` repeated in the `WHERE` of their writes, or the quote's
   row locked, its properties could join `quotes_overlap` and be proved.

## 8 How to run

    tlc -workers 2 -config whatsapp_safety.cfg MCWhatsAppAssistant.tla
    tlapm WhatsAppAssistant_proofs.tla
    tlapm WhatsAppTurns_proofs.tla

Runs `quotes_*` use `MCQuoteLifecycle`, `reports_*` `MCManagerReportScheduler`,
`whatsapp_*` `MCWhatsAppAssistant`, `purchases` `MCPurchaseRequisition`, `decisions`
`MCCustomerDecision` and `files` `MCStoredFiles`.
The community modules and TLAPS library must be on the module path.
