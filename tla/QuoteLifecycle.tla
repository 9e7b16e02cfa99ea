--------------------------- MODULE QuoteLifecycle ---------------------------
(***************************************************************************)
(* A quote from its draft to its order, and the chain of its revisions.    *)
(*                                                                         *)
(* Every HTTP or WhatsApp request runs a use case of domain/use-cases in   *)
(* three steps that other requests interleave with: the use case reads the *)
(* quote OUTSIDE any transaction and checks its guards ("checked"); the    *)
(* datasource opens a transaction (READ COMMITTED, the default of Prisma   *)
(* on PostgreSQL) and reads the row again ("read"); the writes of the      *)
(* transaction become visible together at its commit.  A request may stop  *)
(* between any two of them: a guard throws, a lookup of another service    *)
(* fails, the process dies.  Writes follow the code: blind where the       *)
(* UPDATE has only the id in its WHERE, conditional where it has more.     *)
(***************************************************************************)
EXTENDS Naturals, FiniteSets

CONSTANTS
  Quotes,          \* ids of the rows of table quotes
  Requests,        \* requests that may be in flight at the same time
  Operations,      \* the operations the clients of this instance issue
  Captures,        \* capture methods a client may send
  Contents,        \* what a quote's items ask of purchasing
  Terms,           \* versions of the header (conditions, rates, customer)
  LeadInputs,      \* may a draft name a lead with an open quote request?
  ErpNumbers,      \* folios of the ERP
  NoQuote, NoNumber,
  ApprovalModes,   \* values the setting "internal approval" may take
  AllowOrderFileWithoutStock,  \* the setting of that name
  PurchasingStatuses,  \* open statuses purchasing takes a requisition to
  MaxExports,      \* bound: order files generated per quote
  MaxOriginals     \* bound: quotes that are not revisions of another one

ASSUME ConstantsAssumption ==
  /\ NoQuote \notin Quotes
  /\ NoNumber \notin ErpNumbers
  /\ Captures \subseteq {"SYSTEM", "EXCEL_IMPORT"}
  /\ Contents \subseteq {"IN_STOCK", "TO_PURCHASE"}
  /\ LeadInputs \subseteq BOOLEAN
  /\ ApprovalModes \subseteq BOOLEAN
  /\ AllowOrderFileWithoutStock \in BOOLEAN
  /\ PurchasingStatuses \subseteq {"OPEN", "COST_REVIEW", "READY_FOR_ORDER"}
  /\ MaxExports \in Nat
  /\ MaxOriginals \in Nat

VARIABLES
  quote,        \* table quotes
  requisition,  \* status of the purchase requisition of each quote
  waRequest,    \* status of the WhatsApp quote request linked to each quote
  erpEvent,     \* from/to of the last ERP registration in quote_events
  req           \* the requests in flight

vars == <<quote, requisition, waRequest, erpEvent, req>>
-----------------------------------------------------------------------------
Statuses == {"DRAFT", "PENDING", "PENDING_APPROVAL", "CHANGES_REQUESTED",
             "QUOTED", "APPROVED", "REJECTED", "CANCELLED", "SUPERSEDED"}

\* ABSENT: an id not used yet.  DELETED: the row is gone, the id is not reused.
RowStatuses == Statuses \cup {"ABSENT", "DELETED"}

\* Faulty variant: a quote stays editable while it waits for approval.
EditableWhileAwaitingApproval ==
  {"DRAFT", "PENDING", "CHANGES_REQUESTED", "PENDING_APPROVAL"}

\* isEditableStatus / canEditItems of the four editing use cases.
Editable == {"DRAFT", "PENDING", "CHANGES_REQUESTED"}

\* The statuses that make a revision "in progress".
InProgress == Editable \cup {"PENDING_APPROVAL"}

\* shouldMoveBackToQuoted
MovesBackToQuoted(status) == status \in {"APPROVED", "REJECTED"}

allowedTransitions ==
  [s \in Statuses |->
     CASE s = "DRAFT" -> {"PENDING", "PENDING_APPROVAL", "CANCELLED"}
       [] s = "PENDING" -> {"PENDING_APPROVAL", "CANCELLED"}
       [] s = "PENDING_APPROVAL" -> {"QUOTED", "CHANGES_REQUESTED", "CANCELLED"}
       [] s = "CHANGES_REQUESTED" -> {"PENDING_APPROVAL", "CANCELLED"}
       [] s = "QUOTED" -> {"APPROVED", "REJECTED", "CANCELLED"}
       [] s = "APPROVED" -> {"CANCELLED"}
       [] OTHER -> {}]

\* OPEN: DRAFT, SUBMITTED, IN_PROGRESS or PARTIALLY_QUOTED.
OpenRequisition == {"OPEN", "COST_REVIEW", "READY_FOR_ORDER"}

RequisitionStatuses == OpenRequisition \cup {"NONE", "COMPLETED", "CANCELLED"}

WaStatuses == {"NONE", "CONVERTED", "ACCEPTED", "REJECTED", "CANCELLED"}

Numbers == ErpNumbers \cup {NoNumber}
Ids == Quotes \cup {NoQuote}

QuoteRow == [status: RowStatuses, capture: {"SYSTEM", "EXCEL_IMPORT"},
             content: {"IN_STOCK", "TO_PURCHASE"}, terms: Terms \cup {"NONE"},
             exports: Nat, erpQuote: Numbers, erpOrder: Numbers,
             archived: BOOLEAN, root: Ids, prev: Ids, rev: Nat,
             supersededBy: Ids]

AbsentRow == [status |-> "ABSENT", capture |-> "SYSTEM", content |-> "IN_STOCK",
              terms |-> "NONE", exports |-> 0, erpQuote |-> NoNumber,
              erpOrder |-> NoNumber, archived |-> FALSE, root |-> NoQuote,
              prev |-> NoQuote, rev |-> 0, supersededBy |-> NoQuote]

DeletedRow == [AbsentRow EXCEPT !.status = "DELETED"]

Idle == [pc |-> "idle", op |-> "NONE", q |-> NoQuote, target |-> "NONE",
         number |-> NoNumber, capture |-> "SYSTEM", content |-> "IN_STOCK",
         terms |-> "NONE", seenStatus |-> "NONE", seenNumber |-> NoNumber,
         seenRev |-> 0, seenRoot |-> NoQuote, buys |-> FALSE]

Request == [pc: {"idle", "checked", "active", "read", "ensure", "complete"},
            op: Operations \cup {"NONE"}, q: Ids,
            target: Statuses \cup {"NONE"}, number: Numbers,
            capture: {"SYSTEM", "EXCEL_IMPORT"},
            content: {"IN_STOCK", "TO_PURCHASE"}, terms: Terms \cup {"NONE"},
            seenStatus: RowStatuses \cup {"NONE"}, seenNumber: Numbers,
            seenRev: Nat, seenRoot: Ids, buys: BOOLEAN]
-----------------------------------------------------------------------------
Exists(q) == quote[q].status \in Statuses
OrderGenerated(q) == quote[q].exports > 0
LinkedToErp(q) == quote[q].erpQuote # NoNumber \/ quote[q].erpOrder # NoNumber

NextVersions(q) == {s \in Quotes : Exists(s) /\ quote[s].prev = q}

\* entity.nextRevision: the highest numbered next version; is it in progress?
RevisionInProgress(q) ==
  \E s \in NextVersions(q) :
    /\ \A t \in NextVersions(q) : quote[t].rev <= quote[s].rev
    /\ quote[s].status \in InProgress

RootOf(q) == IF quote[q].root = NoQuote THEN q ELSE quote[q].root

\* Faulty variant: the queries over a chain leave archived versions out.
UnarchivedRevisionsOf(root) ==
  {s \in Quotes : Exists(s) /\ ~quote[s].archived /\ quote[s].root = root}

\* Rows with that rootQuoteId: the revisions, the root itself not included.
RevisionsOf(root) == {s \in Quotes : Exists(s) /\ quote[s].root = root}

Unused(s) == quote[s].status = "ABSENT"

Originals == {q \in Quotes : Exists(q) /\ quote[q].root = NoQuote}
-----------------------------------------------------------------------------
Init ==
  /\ quote = [q \in Quotes |-> AbsentRow]
  /\ requisition = [q \in Quotes |-> "NONE"]
  /\ waRequest = [q \in Quotes |-> "NONE"]
  /\ erpEvent = [q \in Quotes |-> <<NoNumber, NoNumber>>]
  /\ req = [r \in Requests |-> Idle]

\* A request that passed its use case's guards keeps what it will need.
Checked(r, rec) ==
  /\ req[r].pc = "idle"
  /\ rec.op \in Operations
  /\ req' = [req EXCEPT ![r] = rec]
  /\ UNCHANGED <<quote, requisition, waRequest, erpEvent>>

\* The transaction has read its row and keeps what the write will use.
Read(r, rec) ==
  /\ req' = [req EXCEPT ![r] = rec]
  /\ UNCHANGED <<quote, requisition, waRequest, erpEvent>>

Finish(r) == req' = [req EXCEPT ![r] = Idle]

At(r, pc, op) == req[r].pc = pc /\ req[r].op = op

\* A guard throws, another service fails, or the process dies: nothing more
\* of the request happens, what it committed stays.
Stop(r) ==
  /\ req[r].pc # "idle"
  /\ Finish(r)
  /\ UNCHANGED <<quote, requisition, waRequest, erpEvent>>
-----------------------------------------------------------------------------
(* Creation: createDraft, and saveDraft without a quoteId.                 *)

NewRow(status, c, i, t) ==
  [AbsentRow EXCEPT !.status = status, !.capture = c, !.content = i, !.terms = t]

\* submissionStatus of a SUBMIT_FOR_APPROVAL
SubmissionStatuses ==
  {IF enabled THEN "PENDING_APPROVAL" ELSE "QUOTED" : enabled \in ApprovalModes}

\* fromLead: the draft names a converted WhatsApp lead, whose open quote
\* request becomes CONVERTED and points to this quote.
Create(q, status, c, i, t, fromLead) ==
  /\ "CREATE" \in Operations
  /\ Unused(q)
  /\ Cardinality(Originals) < MaxOriginals
  /\ quote' = [quote EXCEPT ![q] = NewRow(status, c, i, t)]
  /\ waRequest' = [waRequest EXCEPT ![q] = IF fromLead THEN "CONVERTED" ELSE "NONE"]
  /\ UNCHANGED <<requisition, erpEvent, req>>
-----------------------------------------------------------------------------
(* saveDraft of an existing quote.                                         *)

\* target: the submissionStatus of SUBMIT_FOR_APPROVAL, "NONE" for SAVE_DRAFT.
CheckSave(r, q, target, c, i, t) ==
  /\ Exists(q)
  /\ quote[q].capture = "EXCEL_IMPORT" => c = "EXCEL_IMPORT" /\ i = quote[q].content
  /\ Checked(r, [Idle EXCEPT !.pc = "checked", !.op = "SAVE", !.q = q,
                   !.target = target, !.capture = c, !.content = i, !.terms = t])

\* Faulty variant: saving a draft forgets that the quote may be archived.
SaveAllowedArchived(q) == Exists(q) /\ quote[q].status \in Editable

SaveAllowed(q) ==
  /\ Exists(q)
  /\ ~quote[q].archived
  /\ quote[q].status \in Editable

\* Neither status is editable: a submission that finds the quote already
\* submitted returns it as it is, which ends the request like a throw (Stop).
ReadSave(r) ==
  LET q == req[r].q IN
  /\ At(r, "checked", "SAVE")
  /\ SaveAllowed(q)
  /\ Read(r, [req[r] EXCEPT !.pc = "read", !.seenStatus = quote[q].status])

\* The row is written by id with the status READ above, or the submitted one.
\* A second open request of the lead would break the unique quoteId.
CommitSave(r, fromLead) ==
  LET q == req[r].q IN
  /\ At(r, "read", "SAVE")
  /\ Exists(q)
  /\ fromLead => waRequest[q] = "NONE"
  /\ quote' = [quote EXCEPT ![q].status =
                  IF req[r].target = "NONE" THEN req[r].seenStatus ELSE req[r].target,
                ![q].capture = req[r].capture,
                ![q].content = req[r].content,
                ![q].terms = req[r].terms]
  /\ waRequest' = [waRequest EXCEPT ![q] = IF fromLead THEN "CONVERTED" ELSE @]
  /\ Finish(r)
  /\ UNCHANGED <<requisition, erpEvent>>
-----------------------------------------------------------------------------
(* Update of the header (update-quote) and of the items (add, update and   *)
(* delete of a quote item).                                                *)

\* update-quote looks at archivedAt only after the transaction committed.
CheckUpdate(r, q, c, t) ==
  /\ Exists(q)
  /\ quote[q].status \in Editable
  /\ Checked(r, [Idle EXCEPT !.pc = "checked", !.op = "UPDATE", !.q = q,
                   !.capture = c, !.terms = t])

CheckItems(r, q, i) ==
  /\ Exists(q)
  /\ ~quote[q].archived
  /\ quote[q].capture # "EXCEL_IMPORT"
  /\ quote[q].status \in Editable
  /\ Checked(r, [Idle EXCEPT !.pc = "checked", !.op = "ITEMS", !.q = q, !.content = i])

ReadEdit(r) ==
  /\ At(r, "checked", "UPDATE") \/ At(r, "checked", "ITEMS")
  /\ Exists(req[r].q)
  /\ Read(r, [req[r] EXCEPT !.pc = "read", !.seenStatus = quote[req[r].q].status])

\* The status is written only when the transaction saw APPROVED or REJECTED.
StatusAfterEdit(r) ==
  IF MovesBackToQuoted(req[r].seenStatus) THEN "QUOTED" ELSE quote[req[r].q].status

CommitUpdate(r) ==
  LET q == req[r].q IN
  /\ At(r, "read", "UPDATE")
  /\ Exists(q)
  /\ quote' = [quote EXCEPT ![q].status = StatusAfterEdit(r),
                            ![q].capture = req[r].capture,
                            ![q].terms = req[r].terms]
  /\ Finish(r)
  /\ UNCHANGED <<requisition, waRequest, erpEvent>>

CommitItems(r) ==
  LET q == req[r].q IN
  /\ At(r, "read", "ITEMS")
  /\ Exists(q)
  /\ quote' = [quote EXCEPT ![q].status = StatusAfterEdit(r),
                            ![q].content = req[r].content]
  /\ Finish(r)
  /\ UNCHANGED <<requisition, waRequest, erpEvent>>
-----------------------------------------------------------------------------
(* change-quote-status.                                                    *)

TargetStatus(requested, enabled) ==
  IF requested = "PENDING_APPROVAL" /\ ~enabled THEN "QUOTED" ELSE requested

TransitionAllowed(from, requested, enabled) ==
  IF requested = "PENDING_APPROVAL" /\ ~enabled
  THEN from \in Editable
  ELSE requested \in allowedTransitions[from]

\* Requested statuses are those of the request DTO.
CheckChange(r, q, requested, enabled) ==
  /\ Exists(q)
  /\ ~quote[q].archived
  /\ ~RevisionInProgress(q)
  /\ requested = "CANCELLED" => ~LinkedToErp(q)
  /\ quote[q].status # TargetStatus(requested, enabled)
  /\ TransitionAllowed(quote[q].status, requested, enabled)
  /\ Checked(r, [Idle EXCEPT !.pc = "checked", !.op = "CHANGE", !.q = q,
                   !.target = TargetStatus(requested, enabled)])

\* Approving an approved quote again only makes sure it has its requisition.
CheckApprovedAgain(r, q) ==
  /\ Exists(q)
  /\ ~quote[q].archived
  /\ ~RevisionInProgress(q)
  /\ quote[q].status = "APPROVED"
  /\ quote[q].capture # "EXCEL_IMPORT"
  /\ Checked(r, [Idle EXCEPT !.pc = "ensure", !.op = "CHANGE", !.q = q,
                   !.target = "APPROVED", !.buys = quote[q].content = "TO_PURCHASE"])

\* Faulty variant: the transaction trusts the use case's check of the ERP link.
StatusWriteUnconditional(q, target) == TRUE

\* The condition of the UPDATE; the read before it throws on the same one.
StatusWriteAllowed(q, target) == target = "CANCELLED" => ~LinkedToErp(q)

\* Faulty variant: a cancellation leaves the requisition alone.
RequisitionUntouched(q, target) == requisition[q]

\* Faulty variant: ... or cancels what was already bought.
RequisitionClosedAgain(q, target) ==
  IF target = "CANCELLED" /\ requisition[q] # "NONE" THEN "CANCELLED" ELSE requisition[q]

RequisitionAfter(q, target) ==
  IF target = "CANCELLED" /\ requisition[q] \notin {"NONE", "COMPLETED"}
  THEN "CANCELLED" ELSE requisition[q]

\* Faulty variant: the request takes the quote's own status.
WaRequestCopiesStatus(q, target) ==
  [s \in Quotes |->
     IF s \in {q, quote[q].root, quote[q].prev} /\ waRequest[s] # "NONE"
     THEN target ELSE waRequest[s]]

\* The requests of the quote, of its root and of its previous version.
WaRequestAfter(q, target) ==
  [s \in Quotes |->
     IF /\ s \in {q, quote[q].root, quote[q].prev}
        /\ waRequest[s] # "NONE"
        /\ target \in {"APPROVED", "REJECTED", "CANCELLED"}
     THEN IF target = "APPROVED" THEN "ACCEPTED" ELSE target
     ELSE waRequest[s]]

\* Faulty variants: the superseded version keeps its status, is not told its
\* successor, or is told the successor's number instead of its id.
SupersededRowStillLive(p, q) == [quote[p] EXCEPT !.supersededBy = q]
SupersededRowUnlinked(p, q) == [quote[p] EXCEPT !.status = "SUPERSEDED"]
SupersededRowByNumber(p, q) ==
  [quote[p] EXCEPT !.status = "SUPERSEDED", !.supersededBy = quote[q].rev]

\* What authorising q does to version p of its chain.
SupersededRow(p, q) == [quote[p] EXCEPT !.status = "SUPERSEDED", !.supersededBy = q]

CommitChange(r) ==
  LET q == req[r].q
      target == req[r].target
      prev == quote[q].prev
  IN
  /\ At(r, "checked", "CHANGE")
  /\ Exists(q)
  /\ StatusWriteAllowed(q, target)
  /\ quote' = [s \in Quotes |->
                 IF s = q THEN [quote[q] EXCEPT !.status = target]
                 ELSE IF target = "QUOTED" /\ s = prev THEN SupersededRow(s, q)
                 ELSE quote[s]]
  /\ requisition' = [requisition EXCEPT ![q] = RequisitionAfter(q, target)]
  /\ waRequest' = WaRequestAfter(q, target)
  /\ IF target = "APPROVED" /\ quote[q].capture # "EXCEL_IMPORT"
     THEN req' = [req EXCEPT ![r].pc = "ensure",
                             ![r].buys = quote[q].content = "TO_PURCHASE"]
     ELSE Finish(r)
  /\ UNCHANGED erpEvent

\* ensureForApprovedQuote, after the commit and for the items read by then:
\* a quote with something to purchase gets one requisition, unless it has one.
EnsureRequisition(r) ==
  LET q == req[r].q IN
  /\ req[r].pc = "ensure"
  /\ Exists(q)
  /\ requisition' = [requisition EXCEPT ![q] =
                       IF @ = "NONE" /\ req[r].buys THEN "OPEN" ELSE @]
  /\ Finish(r)
  /\ UNCHANGED <<quote, waRequest, erpEvent>>
-----------------------------------------------------------------------------
(* create-quote-revision.                                                  *)

\* Faulty variant: a quote whose order went out may still be revised.
MayReviseOrdered(q) ==
  Exists(q) /\ ~quote[q].archived /\ quote[q].status \in {"QUOTED", "APPROVED", "REJECTED"}

MayRevise(q) ==
  /\ Exists(q)
  /\ ~quote[q].archived
  /\ quote[q].status \in {"QUOTED", "APPROVED", "REJECTED"}
  /\ ~OrderGenerated(q)

CheckRevise(r, q) ==
  /\ MayRevise(q)
  /\ Checked(r, [Idle EXCEPT !.pc = "checked", !.op = "REVISE", !.q = q])

\* activeVersion: the highest numbered version not cancelled or superseded.
IsActiveVersion(q) ==
  LET live == {s \in RevisionsOf(RootOf(q)) \cup {RootOf(q)} :
                 Exists(s) /\ quote[s].status \notin {"CANCELLED", "SUPERSEDED"}}
  IN q \in live /\ \A s \in live : quote[s].rev <= quote[q].rev

RevisionNumbers(root) == {0} \cup {quote[s].rev : s \in RevisionsOf(root)}

\* The transaction makes sure that the source is the active version and that
\* no revision is in progress ...
ReadRevise(r) ==
  LET q == req[r].q IN
  /\ At(r, "checked", "REVISE")
  /\ Exists(q)
  /\ IsActiveVersion(q)
  /\ \A s \in RevisionsOf(RootOf(q)) : quote[s].status \notin InProgress
  /\ Read(r, [req[r] EXCEPT !.pc = "active", !.seenRoot = RootOf(q),
                !.capture = quote[q].capture, !.content = quote[q].content,
                !.terms = quote[q].terms])

\* ... and numbers the revision by a query of its own, which at READ COMMITTED
\* sees what was committed since.
NumberRevision(r) ==
  /\ At(r, "active", "REVISE")
  /\ \E latest \in RevisionNumbers(req[r].seenRoot) :
       /\ \A n \in RevisionNumbers(req[r].seenRoot) : n <= latest
       /\ Read(r, [req[r] EXCEPT !.pc = "read", !.seenRev = latest + 1])

\* Faulty variant: no unique index on the revision number.
RevisionNumberTaken(root, n) == TRUE

\* Unique (rootQuoteId, revisionNumber), and so the number "-Rnn" of the quote.
RevisionNumberFree(root, n) == \A s \in RevisionsOf(root) : quote[s].rev # n

CommitRevise(r, s) ==
  LET q == req[r].q IN
  /\ At(r, "read", "REVISE")
  /\ Exists(q)
  /\ Unused(s)
  /\ RevisionNumberFree(req[r].seenRoot, req[r].seenRev)
  /\ quote' = [quote EXCEPT ![s] =
                 [NewRow("DRAFT", req[r].capture, req[r].content, req[r].terms)
                    EXCEPT !.root = req[r].seenRoot, !.prev = q,
                           !.rev = req[r].seenRev]]
  /\ Finish(r)
  /\ UNCHANGED <<requisition, waRequest, erpEvent>>
-----------------------------------------------------------------------------
(* generate-quote-order.                                                   *)

\* Without internal approval a cost review holds nothing up.
Orderable(enabled) ==
  IF enabled THEN {"READY_FOR_ORDER"} ELSE {"READY_FOR_ORDER", "COST_REVIEW"}

\* isReadyForOrder: itemsReady tells whether its items all are READY.
RequisitionReady(q, enabled, itemsReady) ==
  requisition[q] \in Orderable(enabled) \cup {"COMPLETED"} /\ itemsReady

\* Faulty variant: generating the order again is not refused.
MayOrderAgain(q) ==
  /\ Exists(q) /\ ~quote[q].archived /\ quote[q].capture # "EXCEL_IMPORT"
  /\ quote[q].status = "APPROVED" /\ ~RevisionInProgress(q)

MayOrder(q) ==
  /\ Exists(q)
  /\ ~quote[q].archived
  /\ quote[q].capture # "EXCEL_IMPORT"
  /\ quote[q].status = "APPROVED"
  /\ ~OrderGenerated(q)
  /\ ~RevisionInProgress(q)

\* Faulty variant: the requisition is completed before the order is marked.
CheckOrderCompletesFirst(r, q, enabled, itemsReady) ==
  /\ MayOrder(q)
  /\ RequisitionReady(q, enabled, itemsReady)
  /\ Checked(r, [Idle EXCEPT !.pc = "complete", !.op = "ORDER", !.q = q])

CheckOrder(r, q, enabled, itemsReady) ==
  LET buys == quote[q].content = "TO_PURCHASE"
      ready == RequisitionReady(q, enabled, itemsReady)
  IN
  /\ MayOrder(q)
  /\ buys /\ ~AllowOrderFileWithoutStock => ready
  /\ Checked(r, [Idle EXCEPT !.pc = "checked", !.op = "ORDER", !.q = q,
                   !.buys = buys /\ ready])

\* markOrderGenerated: one more export row, the order fields written by id.
CommitOrder(r) ==
  LET q == req[r].q IN
  /\ At(r, "checked", "ORDER")
  /\ Exists(q)
  /\ quote[q].exports < MaxExports
  /\ quote' = [quote EXCEPT ![q].exports = @ + 1]
  /\ IF req[r].buys THEN req' = [req EXCEPT ![r].pc = "complete"] ELSE Finish(r)
  /\ UNCHANGED <<requisition, waRequest, erpEvent>>

\* markCompletedByQuoteId
CompleteRequisition(r, enabled) ==
  LET q == req[r].q IN
  /\ req[r].pc = "complete"
  /\ requisition' = [requisition EXCEPT ![q] =
                       IF @ \in Orderable(enabled) THEN "COMPLETED" ELSE @]
  /\ Finish(r)
  /\ UNCHANGED <<quote, waRequest, erpEvent>>
-----------------------------------------------------------------------------
(* register-erp-quote (imported quotes) and register-erp-order.            *)

LinkField(capture) == IF capture = "EXCEL_IMPORT" THEN "erpQuote" ELSE "erpOrder"

MayRegister(q, capture) ==
  /\ Exists(q)
  /\ ~quote[q].archived
  /\ quote[q].capture = capture
  /\ quote[q].status = "APPROVED"
  /\ capture = "SYSTEM" => OrderGenerated(q)

CheckRegister(r, q, n) ==
  LET capture == quote[q].capture IN
  /\ MayRegister(q, capture)
  /\ quote[q][LinkField(capture)] # n
  /\ Checked(r, [Idle EXCEPT !.pc = "checked", !.op = "REGISTER", !.q = q,
                   !.capture = capture, !.number = n])

ReadRegister(r) ==
  LET q == req[r].q IN
  /\ At(r, "checked", "REGISTER")
  /\ MayRegister(q, req[r].capture)
  /\ Read(r, [req[r] EXCEPT !.pc = "read",
                !.seenNumber = quote[q][LinkField(req[r].capture)]])

\* Faulty variant: the WHERE names the status and the order, not the number.
LinkStillApproved(r) ==
  /\ quote[req[r].q].status = "APPROVED"
  /\ req[r].capture = "SYSTEM" => OrderGenerated(req[r].q)

\* The WHERE of the UPDATE: compare and set on status, order and number.
LinkUnchanged(r) ==
  LET q == req[r].q IN
  /\ quote[q].status = "APPROVED"
  /\ req[r].capture = "SYSTEM" => OrderGenerated(q)
  /\ quote[q][LinkField(req[r].capture)] = req[r].seenNumber

NumberFree(q, field, n) == \A s \in Quotes \ {q} : quote[s][field] # n

CommitRegister(r) ==
  LET q == req[r].q
      field == LinkField(req[r].capture)
  IN
  /\ At(r, "read", "REGISTER")
  /\ LinkUnchanged(r)
  /\ NumberFree(q, field, req[r].number)
  /\ quote' = IF field = "erpQuote"
              THEN [quote EXCEPT ![q].erpQuote = req[r].number]
              ELSE [quote EXCEPT ![q].erpOrder = req[r].number]
  /\ erpEvent' = [erpEvent EXCEPT ![q] = <<req[r].seenNumber, req[r].number>>]
  /\ Finish(r)
  /\ UNCHANGED <<requisition, waRequest>>
-----------------------------------------------------------------------------
(* archive, restore and deletePermanently: no read before the transaction. *)

\* Only these two write archivedAt and each checks it first: one step, whole.
ArchiveOrRestore(r, q) ==
  /\ "ARCHIVE" \in Operations
  /\ req[r].pc = "idle"
  /\ Exists(q)
  /\ quote' = [quote EXCEPT ![q].archived = ~@]
  /\ UNCHANGED <<requisition, waRequest, erpEvent, req>>

BelongsToRevisionChain(q) ==
  \/ quote[q].root # NoQuote \/ quote[q].prev # NoQuote
  \/ quote[q].supersededBy # NoQuote \/ quote[q].rev > 0
  \/ RevisionsOf(q) # {} \/ NextVersions(q) # {}

ReadDelete(r, q) ==
  /\ Exists(q)
  /\ quote[q].status \in {"DRAFT", "CANCELLED"}
  /\ ~LinkedToErp(q)
  /\ ~OrderGenerated(q)
  /\ ~BelongsToRevisionChain(q)
  /\ Checked(r, [Idle EXCEPT !.pc = "read", !.op = "DELETE", !.q = q])

\* Foreign keys ON DELETE RESTRICT: revisions and the purchase requisition.
NotReferenced(q) ==
  /\ RevisionsOf(q) = {}
  /\ NextVersions(q) = {}
  /\ requisition[q] = "NONE"

CommitDelete(r) ==
  LET q == req[r].q IN
  /\ At(r, "read", "DELETE")
  /\ Exists(q)
  /\ NotReferenced(q)
  /\ quote' = [quote EXCEPT ![q] = DeletedRow]
  /\ waRequest' = [waRequest EXCEPT ![q] = "NONE"]
  /\ erpEvent' = [erpEvent EXCEPT ![q] = <<NoNumber, NoNumber>>]
  /\ Finish(r)
  /\ UNCHANGED requisition
-----------------------------------------------------------------------------
(* Purchasing: every handler checks, outside its transaction, that the     *)
(* requisition is not closed, and then writes its status by id (submit) or *)
(* recomputes it from its items (recomputeStatus).                         *)

CheckPurchasing(r, q) ==
  /\ requisition[q] \in OpenRequisition
  /\ Checked(r, [Idle EXCEPT !.pc = "checked", !.op = "PURCHASE", !.q = q])

CommitPurchasing(r, status) ==
  /\ At(r, "checked", "PURCHASE")
  /\ requisition' = [requisition EXCEPT ![req[r].q] = status]
  /\ Finish(r)
  /\ UNCHANGED <<quote, waRequest, erpEvent>>
-----------------------------------------------------------------------------
NewQuote ==
  \E q \in Quotes, status \in {"DRAFT"} \cup SubmissionStatuses,
     c \in Captures, i \in Contents, t \in Terms, fromLead \in LeadInputs :
    Create(q, status, c, i, t, fromLead)

Save(r) ==
  \/ \E q \in Quotes, target \in {"NONE"} \cup SubmissionStatuses,
        c \in Captures, i \in Contents, t \in Terms : CheckSave(r, q, target, c, i, t)
  \/ ReadSave(r)
  \/ \E fromLead \in LeadInputs : CommitSave(r, fromLead)

Edit(r) ==
  \/ \E q \in Quotes, c \in Captures, t \in Terms : CheckUpdate(r, q, c, t)
  \/ \E q \in Quotes, i \in Contents : CheckItems(r, q, i)
  \/ ReadEdit(r)
  \/ CommitUpdate(r)
  \/ CommitItems(r)

ChangeStatus(r) ==
  \/ \E q \in Quotes, requested \in Statuses, enabled \in ApprovalModes :
       CheckChange(r, q, requested, enabled)
  \/ \E q \in Quotes : CheckApprovedAgain(r, q)
  \/ CommitChange(r)
  \/ EnsureRequisition(r)

Revise(r) ==
  \/ \E q \in Quotes : CheckRevise(r, q)
  \/ ReadRevise(r)
  \/ NumberRevision(r)
  \/ \E s \in Quotes : CommitRevise(r, s)

GenerateOrder(r) ==
  \/ \E q \in Quotes, enabled \in ApprovalModes, itemsReady \in BOOLEAN :
       CheckOrder(r, q, enabled, itemsReady)
  \/ CommitOrder(r)
  \/ \E enabled \in ApprovalModes : CompleteRequisition(r, enabled)

RegisterErp(r) ==
  \/ \E q \in Quotes, n \in ErpNumbers : CheckRegister(r, q, n)
  \/ ReadRegister(r)
  \/ CommitRegister(r)

Administer(r) ==
  \/ \E q \in Quotes : ArchiveOrRestore(r, q)
  \/ \E q \in Quotes : ReadDelete(r, q)
  \/ CommitDelete(r)

Purchasing(r) ==
  \/ \E q \in Quotes : CheckPurchasing(r, q)
  \/ \E status \in PurchasingStatuses : CommitPurchasing(r, status)

Next ==
  \/ NewQuote
  \/ \E r \in Requests :
       \/ Save(r) \/ Edit(r) \/ ChangeStatus(r) \/ Revise(r) \/ GenerateOrder(r)
       \/ RegisterErp(r) \/ Administer(r) \/ Purchasing(r) \/ Stop(r)

Spec == Init /\ [][Next]_vars
-----------------------------------------------------------------------------
(* Properties.                                                             *)

\* Every row, status and request in flight has the shape of its table.
TypeOK ==
  /\ quote \in [Quotes -> QuoteRow]
  /\ requisition \in [Quotes -> RequisitionStatuses]
  /\ waRequest \in [Quotes -> WaStatuses]
  /\ erpEvent \in [Quotes -> Numbers \X Numbers]
  /\ req \in [Requests -> Request]

\* A quote with a folio of the ERP is never cancelled, however a cancellation
\* and a registration overlap (changeStatus and registerErp*: both write on
\* the condition they were checked on).
LinkedNeverCancelled ==
  \A q \in Quotes : LinkedToErp(q) => quote[q].status # "CANCELLED"

\* The event of an ERP registration tells the folio that was replaced: of two
\* registrations that overlap, none overwrites a folio it did not see.
ErpEventTellsTheChange ==
  [][\A q \in Quotes, f \in {"erpQuote", "erpOrder"} :
       quote'[q][f] # quote[q][f] /\ quote'[q].status # "DELETED"
         => erpEvent'[q] = <<quote[q][f], quote'[q][f]>>]_vars

\* The revisions of a quote are numbered 1, 2, 3... without a gap or a
\* repetition, each made from an earlier version of the same chain, and no
\* version of a chain is ever deleted (createRevision, deletePermanently).
RevisionChainSound ==
  \A s \in Quotes : Exists(s) /\ quote[s].root # NoQuote =>
    LET root == quote[s].root IN
    /\ Exists(root) /\ quote[root].root = NoQuote
    /\ Exists(quote[s].prev) /\ RootOf(quote[s].prev) = root
    /\ quote[quote[s].prev].rev < quote[s].rev
    /\ \A n \in 1..quote[s].rev :
         Cardinality({t \in RevisionsOf(root) : quote[t].rev = n}) = 1

\* Once a revision was authorised, its previous version says which version
\* superseded it, and a superseded version always names one of its successors
\* (changeStatus, the step that supersedes the previous version).
SupersessionRecorded ==
  \A s \in Quotes : Exists(s) =>
    /\ quote[s].prev # NoQuote /\ quote[s].status \in {"QUOTED", "APPROVED", "REJECTED"}
         => quote[quote[s].prev].supersededBy # NoQuote
    /\ quote[s].status = "SUPERSEDED"
         => \E t \in NextVersions(s) : quote[s].supersededBy = t

Live == {"QUOTED", "APPROVED", "REJECTED"}

\* A customer faces at most one authorised version of a quote.
OneLiveVersion ==
  \A s, t \in Quotes :
    s # t /\ RootOf(s) = RootOf(t) => ~(quote[s].status \in Live /\ quote[t].status \in Live)

\* "This quote already has an active revision.": one revision at a time.
OneRevisionInProgress ==
  \A s, t \in Quotes :
    s # t /\ quote[s].root = quote[t].root /\ quote[s].root # NoQuote
      => ~(quote[s].status \in InProgress /\ quote[t].status \in InProgress)

\* "A quote with a generated order cannot be revised." and "Order cannot be
\* generated while a quote revision is in progress.".
NoOrderWhileRevising ==
  \A q \in Quotes : ~(OrderGenerated(q) /\ RevisionInProgress(q))

\* "Order was already generated for this quote.": one order file per quote.
OneOrderPerQuote == \A q \in Quotes : quote[q].exports <= 1

\* Of the same guard, what overlapping requests leave: only those that were let
\* in before the first order was marked may still add theirs, each once, so that
\* the orders of a quote never outnumber the requests, however long they go on
\* (generate-quote-order, markOrderGenerated).
OrdersWithinRequests ==
  \A q \in Quotes : quote[q].exports <= Cardinality(Requests)

\* Cancelling a quote leaves purchasing nothing to buy for it.
CancelledClosesRequisition ==
  \A q \in Quotes : quote[q].status = "CANCELLED" => requisition[q] \notin OpenRequisition

\* A requisition is completed by the order of its quote and by nothing else,
\* whatever else happens to the quote at that moment (generate-quote-order).
CompletedWasOrdered ==
  \A q \in Quotes : requisition[q] = "COMPLETED" => OrderGenerated(q)

\* "Closed requisitions are read-only.".
ClosedRequisitionStaysClosed ==
  [][\A q \in Quotes : requisition[q] \in {"COMPLETED", "CANCELLED"}
                         => requisition'[q] = requisition[q]]_vars

\* "Quote cannot be edited in current status.": what a manager or a customer
\* is deciding on, or decided on, does not change under them.
EditsOnlyWhileEditable ==
  [][\A q \in Quotes :
       LET from == quote[q]
           to == quote'[q]
       IN \/ from.status \in {"ABSENT", "DELETED", "DRAFT", "PENDING", "CHANGES_REQUESTED"}
          \/ to.status = "DELETED"
          \/ /\ to.content = from.content
             /\ to.terms = from.terms
             /\ to.capture = from.capture]_vars

\* "Archived quotes are read-only.": a restore changes nothing else, and the one
\* handler that checks too late, the update of the header, reaches neither the
\* items, the order, the folios nor the versions of an archived quote, and only
\* while it is editable.
ArchivedKeepsItsOffer ==
  [][\A q \in Quotes :
       LET from == quote[q]
           to == quote'[q]
       IN Exists(q) /\ from.archived /\ to.status \notin {"DELETED", "SUPERSEDED"} =>
            \/ to = from
            \/ to = [from EXCEPT !.archived = FALSE]
            \/ /\ {from.status, to.status} \subseteq Editable
               /\ to = [from EXCEPT !.status = to.status, !.capture = to.capture,
                                    !.terms = to.terms]]_vars
=============================================================================
