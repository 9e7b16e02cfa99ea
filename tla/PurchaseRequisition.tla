------------------------- MODULE PurchaseRequisition -------------------------
(***************************************************************************)
(* What has to be bought for one approved quote: the requisition, its      *)
(* items, the suppliers' offers, the awards made to them and the documents *)
(* issued to the suppliers.                                                *)
(*                                                                         *)
(* A handler of prisma-purchase-requisition.datasource.ts reads and checks *)
(* the requisition outside any transaction ("checked"), then writes it in  *)
(* one transaction, by id.  Two of them, allocateOffers and                *)
(* generateSupplierRequisitions, do their reads inside the transaction     *)
(* under an advisory lock ("locked").  recomputeStatus reads the items and *)
(* then writes the status; where the transaction has not touched the row   *)
(* of the requisition before, another one may commit in between            *)
(* ("computed").  The transactions are READ COMMITTED, so what a           *)
(* transaction wrote is seen by the others at its commit, and a row it     *)
(* wrote cannot be written by the others until then.                       *)
(***************************************************************************)
EXTENDS Naturals, FiniteSets, FiniteSetsExt, Functions

CONSTANTS
  Items,         \* items of the quote that must be bought
  LocalNew,      \* those that have no code of the ERP yet
  Offers,        \* ids of the offers of suppliers
  Requests,      \* requests that may be in flight at the same time
  Operations,    \* the operations the clients of this instance issue
  Units,         \* quantity asked of every item
  OfferTerms,    \* quantity, minimum and unit cost a supplier may offer
  SellerCosts,   \* unit costs a seller may quote (0: none quoted)
  CatalogueCost, \* unit cost of an item no seller quoted
  ApprovalModes, \* values the setting "internal approval" may take
  LocalModes,    \* values of the setting "issue local items without code"
  NoItem

ASSUME ConstantsAssumption ==
  /\ LocalNew \subseteq Items
  /\ NoItem \notin Items
  /\ Units \in Nat \ {0}
  /\ OfferTerms \subseteq [qty: Nat, minimum: Nat, cost: Nat]
  /\ SellerCosts \subseteq Nat
  /\ CatalogueCost \in Nat
  /\ ApprovalModes \subseteq BOOLEAN
  /\ LocalModes \subseteq BOOLEAN

VARIABLES
  quote,        \* the approved quote: its status, its order, its references
  requisition,  \* the row of the requisition
  item,         \* its items
  offer,        \* the offers received for them
  lines,        \* lines of the documents issued to the suppliers
  req           \* the requests in flight

tables == <<quote, requisition, item, offer, lines>>
vars == <<quote, requisition, item, offer, lines, req>>
-----------------------------------------------------------------------------
Closed == {"COMPLETED", "CANCELLED"}

Statuses == {"DRAFT", "SUBMITTED", "IN_PROGRESS", "PARTIALLY_QUOTED",
             "COST_REVIEW", "READY_FOR_ORDER"} \cup Closed

ItemStatuses == {"PENDING", "QUOTING", "PENDING_ERP_CODE", "READY"}

QuoteRow == [status: {"APPROVED", "CANCELLED"}, ordered: BOOLEAN,
             cost: [Items -> SellerCosts]]

\* NONE: the row does not exist yet.
RequisitionRow == [status: Statuses \cup {"NONE"}, costApproved: BOOLEAN]

ItemRow == [status: ItemStatuses, coded: BOOLEAN, cost: Nat,
            owner: {"SELLER", "PURCHASING"}]

\* isSelected is awarded > 0: the code always writes the two together.
OfferRow == [item: Items \cup {NoItem}, source: {"SELLER", "PURCHASING"},
             qty: Nat, minimum: Nat, cost: Nat, awarded: 0..Units]

Line == [item: Items, offer: Offers, qty: 1..Units]

NoOffer == [item |-> NoItem, source |-> "PURCHASING", qty |-> 0,
            minimum |-> 0, cost |-> 0, awarded |-> 0]

NoAwards == [o \in Offers |-> 0]

Idle == [pc |-> "idle", op |-> "NONE", item |-> NoItem, awards |-> NoAwards,
         cost |-> [i \in Items |-> 0], status |-> "NONE", seen |-> FALSE]

Request == [pc: {"idle", "checked", "computed", "locked", "materialize", "complete"},
            op: Operations \cup {"NONE", "ENSURE"}, item: Items \cup {NoItem},
            awards: [Offers -> 0..Units], cost: [Items -> Nat],
            status: Statuses \cup {"NONE"}, seen: BOOLEAN]
-----------------------------------------------------------------------------
OffersOf(off, i) == {o \in Offers : off[o].item = i}

\* The offers of an item that won a part of it.
Awarded(off, i) == {o \in OffersOf(off, i) : off[o].awarded > 0}

AwardedUnits(off, i) == MapThenSumSet(LAMBDA o : off[o].awarded, Awarded(off, i))
AwardedCost(off, i) ==
  MapThenSumSet(LAMBDA o : off[o].awarded * off[o].cost, Awarded(off, i))

\* hasHigherCost: an award costs more than the seller reckoned with.
HigherCost(itm, off) ==
  \E i \in Items : Awarded(off, i) # {} /\ AwardedCost(off, i) > itm[i].cost * Units

StatusPastDraft(itm, off, approved, enabled) ==
  IF enabled /\ HigherCost(itm, off) /\ ~approved THEN "COST_REVIEW"
  ELSE IF \A i \in Items : itm[i].status = "READY" THEN "READY_FOR_ORDER"
  ELSE IF \E i \in Items : Awarded(off, i) # {} THEN "PARTIALLY_QUOTED"
  ELSE "IN_PROGRESS"

\* Faulty variant: a draft is recomputed like any other requisition.
StatusOfDraftsToo(itm, off, status, approved, enabled) ==
  StatusPastDraft(itm, off, approved, enabled)

\* recomputeStatus: what it writes, given the items and offers it read.
Recomputed(itm, off, status, approved, enabled) ==
  IF status = "DRAFT" THEN "DRAFT"
  ELSE StatusPastDraft(itm, off, approved, enabled)

\* assertNotFinalized
Finalized == lines # {}

Exists == requisition.status \in Statuses

\* Another transaction has written the row of item i and not committed yet.
ItemRowHeld(r, i) ==
  \E s \in Requests \ {r} : req[s].pc = "computed" /\ req[s].item = i

\* Faulty variant: the transactions do not take the lock.
LockIgnored == TRUE

\* pg_advisory_xact_lock, held to the end of the transaction.
LockFree == \A s \in Requests : req[s].pc # "locked"

At(r, pc, op) == req[r].pc = pc /\ req[r].op = op

Checked(r, rec) ==
  /\ req[r].pc = "idle"
  /\ rec.op \in Operations
  /\ req' = [req EXCEPT ![r] = rec]
  /\ UNCHANGED tables

Finish(r) == req' = [req EXCEPT ![r] = Idle]

\* A guard throws, the transaction is rolled back or the process dies.
Stop(r) ==
  /\ req[r].pc # "idle"
  /\ Finish(r)
  /\ UNCHANGED tables

Init ==
  /\ quote \in [status: {"APPROVED"}, ordered: {FALSE}, cost: [Items -> SellerCosts]]
  /\ requisition = [status |-> "NONE", costApproved |-> FALSE]
  /\ item = [i \in Items |-> [status |-> "PENDING", coded |-> i \notin LocalNew,
                              cost |-> 0, owner |-> "PURCHASING"]]
  /\ offer = [o \in Offers |-> NoOffer]
  /\ lines = {}
  /\ req = [r \in Requests |-> Idle]
-----------------------------------------------------------------------------
(* ensureForApprovedQuote: after an approval, on demand, and after an edit *)
(* of the references of an approved quote.                                 *)

\* The copy of the quote the caller read goes with the request to the end.
CheckEnsure(r) ==
  /\ quote.status = "APPROVED"
  /\ Checked(r, [Idle EXCEPT !.pc = "checked", !.op = "ENSURE", !.cost = quote.cost])

ReckonedCost(cost) == IF cost > 0 THEN cost ELSE CatalogueCost
OwnerOf(cost) == IF cost > 0 THEN "SELLER" ELSE "PURCHASING"

CreateRequisition(r) ==
  /\ At(r, "checked", "ENSURE")
  /\ requisition.status = "NONE"
  /\ requisition' = [requisition EXCEPT !.status = "DRAFT"]
  /\ item' = [i \in Items |-> [item[i] EXCEPT !.cost = ReckonedCost(req[r].cost[i]),
                                              !.owner = OwnerOf(req[r].cost[i])]]
  /\ req' = [req EXCEPT ![r].pc = "materialize"]
  /\ UNCHANGED <<quote, offer, lines>>

\* The requisition was a draft when it was read.
FindDraft(r) ==
  /\ At(r, "checked", "ENSURE")
  /\ requisition.status = "DRAFT"
  /\ req' = [req EXCEPT ![r].pc = "materialize"]
  /\ UNCHANGED tables

\* It was past its draft, or was created between the read and the insertion,
\* which the unique quoteId refuses: the caller gets the existing one.
FindExisting(r) ==
  /\ At(r, "checked", "ENSURE")
  /\ Exists
  /\ Finish(r)
  /\ UNCHANGED tables

SellerOffersOf(i) == {o \in OffersOf(offer, i) : offer[o].source = "SELLER"}
UnusedOffers == {o \in Offers : offer[o].item = NoItem}

SellerOffer(i, cost) ==
  [item |-> i, source |-> "SELLER", qty |-> Units, minimum |-> 0,
   cost |-> cost, awarded |-> 0]

\* materializeSellerOffers: every item the seller quoted gets the offer of the
\* seller's supplier, or has it brought up to date.  Nothing here asks for the
\* status of the requisition.
MaterializeSellerOffers(r) ==
  LET cost == req[r].cost
      quoted == {i \in Items : cost[i] > 0}
      missing == {i \in quoted : SellerOffersOf(i) = {}}
  IN
  /\ req[r].pc = "materialize"
  /\ \A i \in Items : ~ItemRowHeld(r, i)
  /\ item' = [i \in Items |-> [item[i] EXCEPT !.cost = ReckonedCost(cost[i])]]
  /\ \E id \in Injection(missing, UnusedOffers) :
       offer' = [o \in Offers |->
         CASE \E i \in missing : id[i] = o ->
                LET i == CHOOSE i \in missing : id[i] = o IN SellerOffer(i, cost[i])
           [] offer[o].item \in quoted /\ offer[o].source = "SELLER" ->
                [offer[o] EXCEPT !.cost = cost[offer[o].item], !.qty = Units]
           [] OTHER -> offer[o]]
  /\ Finish(r)
  /\ UNCHANGED <<quote, requisition, lines>>

\* update-quote-procurement-reference: the seller quotes an item again ...
CheckReference(r) ==
  /\ quote.status = "APPROVED"
  /\ requisition.status \in {"NONE", "DRAFT"}
  /\ Checked(r, [Idle EXCEPT !.pc = "checked", !.op = "REFERENCE"])

\* ... and ensureForApprovedQuote follows with the quote as it was returned.
WriteReference(r, i, cost) ==
  /\ At(r, "checked", "REFERENCE")
  /\ quote' = [quote EXCEPT !.cost[i] = cost]
  /\ IF quote.status = "APPROVED"
     THEN req' = [req EXCEPT ![r].op = "ENSURE", ![r].cost = quote'.cost]
     ELSE Finish(r)
  /\ UNCHANGED <<requisition, item, offer, lines>>
-----------------------------------------------------------------------------
(* The requester and the buyer: submit, assign, updateItem, linkItemToErp. *)

\* requisitionSubmissionError; that every item has a destination and a
\* delivery time is left to the users.
Submittable == \A i \in Items : item[i].owner = "SELLER" => item[i].cost > 0

CheckSubmit(r) ==
  /\ requisition.status = "DRAFT"
  /\ Submittable
  /\ Checked(r, [Idle EXCEPT !.pc = "checked", !.op = "SUBMIT"])

\* Nothing that writes the row of the requisition waits: each of these writes
\* is the last of its transaction or the only one.
SubmitRequisition(r) ==
  /\ At(r, "checked", "SUBMIT")
  /\ requisition' = [requisition EXCEPT !.status = "SUBMITTED"]
  /\ Finish(r)
  /\ UNCHANGED <<quote, item, offer, lines>>

CheckAssign(r) ==
  /\ Exists /\ requisition.status \notin Closed
  /\ Checked(r, [Idle EXCEPT !.pc = "checked", !.op = "ASSIGN",
                   !.seen = requisition.status = "SUBMITTED"])

\* The status is written only if it was SUBMITTED when it was read.
AssignRequisition(r) ==
  /\ At(r, "checked", "ASSIGN")
  /\ requisition' = [requisition EXCEPT !.status = IF req[r].seen THEN "IN_PROGRESS" ELSE @]
  /\ Finish(r)
  /\ UNCHANGED <<quote, item, offer, lines>>

Editable == Exists /\ requisition.status \notin Closed /\ ~Finalized

\* updateItem; the edits that matter here are those of the seller's cost and of
\* who is to quote the item.
CheckEdit(r, i, op) ==
  /\ Editable
  /\ op = "EDIT_OWNER" => requisition.status = "DRAFT"
  /\ Checked(r, [Idle EXCEPT !.pc = "checked", !.op = op, !.item = i])

RecomputedNow(itm, enabled) ==
  Recomputed(itm, offer, requisition.status, requisition.costApproved, enabled)

\* A new cost takes the approval of the variance back, which locks the row of
\* the requisition before its status is computed.
EditCost(r, cost, enabled) ==
  LET i == req[r].item
      items == [item EXCEPT ![i].cost = cost]
  IN
  /\ At(r, "checked", "EDIT_COST")
  /\ ~ItemRowHeld(r, i)
  /\ item' = items
  /\ requisition' = [costApproved |-> FALSE,
       status |-> Recomputed(items, offer, requisition.status, FALSE, enabled)]
  /\ Finish(r)
  /\ UNCHANGED <<quote, offer, lines>>

\* Any other edit has the status computed first ...
ComputeEdit(r, enabled) ==
  /\ At(r, "checked", "EDIT_OWNER")
  /\ ~ItemRowHeld(r, req[r].item)
  /\ req' = [req EXCEPT ![r].pc = "computed", ![r].status = RecomputedNow(item, enabled)]
  /\ UNCHANGED tables

\* recomputeStatus stops short of the UPDATE on the draft it read.
StatusWritten(r) == IF req[r].status = "DRAFT" THEN requisition.status ELSE req[r].status

\* ... and then written, with the edit.
EditOwner(r, owner) ==
  /\ At(r, "computed", "EDIT_OWNER")
  /\ item' = [item EXCEPT ![req[r].item].owner = owner]
  /\ requisition' = [requisition EXCEPT !.status = StatusWritten(r)]
  /\ Finish(r)
  /\ UNCHANGED <<quote, offer, lines>>

\* linkItemToErp: whether the item has an award is read with the guards.
CheckLink(r, i) ==
  /\ Editable
  /\ Checked(r, [Idle EXCEPT !.pc = "checked", !.op = "LINK", !.item = i,
                   !.seen = Awarded(offer, i) # {}])

\* Faulty variant: a linked item is ready whether or not it was awarded.
LinkedReady(r) ==
  [item EXCEPT ![req[r].item].coded = TRUE, ![req[r].item].status = "READY"]

LinkedItems(r) ==
  [item EXCEPT ![req[r].item].coded = TRUE,
               ![req[r].item].status = IF req[r].seen THEN "READY" ELSE @]

ComputeLink(r, enabled) ==
  /\ At(r, "checked", "LINK")
  /\ ~ItemRowHeld(r, req[r].item)
  /\ req' = [req EXCEPT ![r].pc = "computed",
                        ![r].status = RecomputedNow(LinkedItems(r), enabled)]
  /\ UNCHANGED tables

LinkItemToErp(r) ==
  /\ At(r, "computed", "LINK")
  /\ item' = LinkedItems(r)
  /\ requisition' = [requisition EXCEPT !.status = StatusWritten(r)]
  /\ Finish(r)
  /\ UNCHANGED <<quote, offer, lines>>
-----------------------------------------------------------------------------
(* The offers of the suppliers and the awards made to them.                *)

CheckOffer(r) ==
  /\ Editable
  /\ requisition.status # "DRAFT"
  /\ Checked(r, [Idle EXCEPT !.pc = "checked", !.op = "OFFER"])

CreateOffer(r, o, i, terms) ==
  /\ At(r, "checked", "OFFER")
  /\ ~ItemRowHeld(r, i)
  /\ o \in UnusedOffers
  /\ offer' = [offer EXCEPT ![o] =
       [item |-> i, source |-> "PURCHASING", qty |-> terms.qty,
        minimum |-> terms.minimum, cost |-> terms.cost, awarded |-> 0]]
  /\ item' = [item EXCEPT ![i].status = "QUOTING"]
  /\ requisition' = [requisition EXCEPT !.status = "IN_PROGRESS"]
  /\ Finish(r)
  /\ UNCHANGED <<quote, lines>>

Chosen(awards) == {o \in Offers : awards[o] > 0}

\* validateSupplierOfferAllocations
ValidAllocation(i, awards) ==
  /\ Chosen(awards) # {}
  /\ \A o \in Chosen(awards) :
       offer[o].item = i /\ awards[o] \in offer[o].minimum .. offer[o].qty
  /\ MapThenSumSet(LAMBDA o : awards[o], Chosen(awards)) = Units

Awardable == requisition.status \notin Closed \cup {"NONE", "DRAFT"} /\ ~Finalized

\* allocateOffers (and selectOffer, which awards one offer everything) reads
\* the item under the lock ...
LockAllocation(r, i, awards) ==
  /\ LockFree
  /\ Awardable
  /\ ValidAllocation(i, awards)
  /\ Checked(r, [Idle EXCEPT !.pc = "locked", !.op = "ALLOCATE", !.item = i,
                   !.awards = awards, !.seen = item[i].coded])

\* Faulty variant: the earlier awards of the item are not taken back.
OffersKeepAwards(i, awards) ==
  [o \in Offers |-> IF awards[o] > 0 THEN [offer[o] EXCEPT !.awarded = awards[o]] ELSE offer[o]]

\* Faulty variant: an award adds to the earlier one.
OffersAddAwards(i, awards) ==
  [o \in Offers |-> IF offer[o].item = i THEN [offer[o] EXCEPT !.awarded = @ + awards[o]] ELSE offer[o]]

OffersAwarded(i, awards) ==
  [o \in Offers |-> IF offer[o].item = i THEN [offer[o] EXCEPT !.awarded = awards[o]] ELSE offer[o]]

\* ... and writes the item, its offers, and the requisition.
AllocateOffers(r, enabled) ==
  LET i == req[r].item
      offers == OffersAwarded(i, req[r].awards)
      items == [item EXCEPT ![i].status =
                  IF i \in LocalNew /\ ~req[r].seen THEN "PENDING_ERP_CODE" ELSE "READY"]
  IN
  /\ At(r, "locked", "ALLOCATE")
  /\ ~ItemRowHeld(r, i)
  /\ offer' = offers
  /\ item' = items
  /\ requisition' = [costApproved |-> FALSE,
       status |-> Recomputed(items, offers, requisition.status, FALSE, enabled)]
  /\ Finish(r)
  /\ UNCHANGED <<quote, lines>>

LocalReady(i, allowed) ==
  allowed /\ i \in LocalNew /\ ~item[i].coded /\ item[i].status = "PENDING_ERP_CODE"

\* canIssueSupplierRequisitions
Issuable(allowed) ==
  /\ \A i \in Items : item[i].status = "READY" \/ LocalReady(i, allowed)
  /\ \/ requisition.status \in {"READY_FOR_ORDER", "COMPLETED"}
     \/ requisition.status = "PARTIALLY_QUOTED" /\ \E i \in Items : LocalReady(i, allowed)

AwardedLines ==
  {[item |-> offer[o].item, offer |-> o, qty |-> offer[o].awarded] :
     o \in {p \in Offers : offer[p].awarded > 0}}

\* generateSupplierRequisitions reads what it will issue under the lock ...
LockIssue(r, allowed) ==
  /\ LockFree
  /\ ~Finalized
  /\ quote.status = "APPROVED"
  /\ Issuable(allowed)
  /\ \A i \in Items : AwardedUnits(offer, i) = Units
  /\ Checked(r, [Idle EXCEPT !.pc = "locked", !.op = "ISSUE",
                   !.awards = [o \in Offers |-> offer[o].awarded]])

\* ... and writes a document per supplier and currency, a line per award.
IssueSupplierRequisitions(r) ==
  /\ At(r, "locked", "ISSUE")
  /\ lines' = {[item |-> offer[o].item, offer |-> o, qty |-> req[r].awards[o]] :
                 o \in Chosen(req[r].awards)}
  /\ Finish(r)
  /\ UNCHANGED <<quote, requisition, item, offer>>

CheckApproval(r) ==
  /\ requisition.status = "COST_REVIEW"
  /\ Checked(r, [Idle EXCEPT !.pc = "checked", !.op = "APPROVE_COST"])

\* approveCostVariance, only while internal approval is enabled; the setting is
\* read again by recomputeStatus.
ApproveCostVariance(r, enabled) ==
  /\ At(r, "checked", "APPROVE_COST")
  /\ requisition' = [costApproved |-> TRUE,
       status |-> Recomputed(item, offer, requisition.status, TRUE, enabled)]
  /\ Finish(r)
  /\ UNCHANGED <<quote, item, offer, lines>>
-----------------------------------------------------------------------------
(* The order of the quote, and its cancellation.                           *)

Orderable(enabled) ==
  IF enabled THEN {"READY_FOR_ORDER"} ELSE {"READY_FOR_ORDER", "COST_REVIEW"}

\* Faulty variant: the order looks at the requisition and not at its items.
ReadyByStatus(enabled) == requisition.status \in Orderable(enabled) \cup {"COMPLETED"}

\* isReadyForOrder
ReadyForOrder(enabled) ==
  /\ requisition.status \in Orderable(enabled) \cup {"COMPLETED"}
  /\ \A i \in Items : item[i].status = "READY"

\* generate-quote-order, with the setting that lets an order file go out
\* without stock turned off.
CheckOrder(r, enabled) ==
  /\ quote.status = "APPROVED" /\ ~quote.ordered
  /\ ReadyForOrder(enabled)
  /\ Checked(r, [Idle EXCEPT !.pc = "checked", !.op = "ORDER"])

MarkOrderGenerated(r) ==
  /\ At(r, "checked", "ORDER")
  /\ quote' = [quote EXCEPT !.ordered = TRUE]
  /\ req' = [req EXCEPT ![r].pc = "complete"]
  /\ UNCHANGED <<requisition, item, offer, lines>>

\* markCompletedByQuoteId
MarkCompleted(r, enabled) ==
  /\ req[r].pc = "complete"
  /\ requisition' = [requisition EXCEPT !.status =
       IF @ \in Orderable(enabled) THEN "COMPLETED" ELSE @]
  /\ Finish(r)
  /\ UNCHANGED <<quote, item, offer, lines>>

\* changeStatus to CANCELLED cancels the requisition of the quote with it.
CancelQuote ==
  /\ "CANCEL" \in Operations
  /\ quote.status = "APPROVED"
  /\ quote' = [quote EXCEPT !.status = "CANCELLED"]
  /\ requisition' = [requisition EXCEPT !.status =
       IF @ \in {"NONE", "COMPLETED"} THEN @ ELSE "CANCELLED"]
  /\ UNCHANGED <<item, offer, lines, req>>
-----------------------------------------------------------------------------
Prepare(r) ==
  \/ CheckEnsure(r)
  \/ CreateRequisition(r)
  \/ FindDraft(r)
  \/ FindExisting(r)
  \/ MaterializeSellerOffers(r)
  \/ CheckReference(r)
  \/ \E i \in Items, cost \in SellerCosts : WriteReference(r, i, cost)
  \/ CheckSubmit(r)
  \/ SubmitRequisition(r)
  \/ CheckAssign(r)
  \/ AssignRequisition(r)

Edit(r) ==
  \/ \E i \in Items, op \in {"EDIT_COST", "EDIT_OWNER"} : CheckEdit(r, i, op)
  \/ \E cost \in SellerCosts, enabled \in ApprovalModes : EditCost(r, cost, enabled)
  \/ \E enabled \in ApprovalModes : ComputeEdit(r, enabled)
  \/ \E owner \in {"SELLER", "PURCHASING"} : EditOwner(r, owner)
  \/ \E i \in Items : CheckLink(r, i)
  \/ \E enabled \in ApprovalModes : ComputeLink(r, enabled)
  \/ LinkItemToErp(r)

Buy(r) ==
  \/ CheckOffer(r)
  \/ \E o \in Offers, i \in Items, terms \in OfferTerms : CreateOffer(r, o, i, terms)
  \/ \E i \in Items, awards \in [Offers -> 0..Units] : LockAllocation(r, i, awards)
  \/ \E enabled \in ApprovalModes : AllocateOffers(r, enabled)
  \/ \E allowed \in LocalModes : LockIssue(r, allowed)
  \/ IssueSupplierRequisitions(r)
  \/ TRUE \in ApprovalModes /\ CheckApproval(r)
  \/ \E enabled \in ApprovalModes : ApproveCostVariance(r, enabled)

Order(r) ==
  \/ \E enabled \in ApprovalModes : CheckOrder(r, enabled)
  \/ MarkOrderGenerated(r)
  \/ \E enabled \in ApprovalModes : MarkCompleted(r, enabled)

Next ==
  \/ \E r \in Requests : Prepare(r) \/ Edit(r) \/ Buy(r) \/ Order(r) \/ Stop(r)
  \/ CancelQuote

Spec == Init /\ [][Next]_vars
-----------------------------------------------------------------------------
TypeOK ==
  /\ quote \in QuoteRow
  /\ requisition \in RequisitionRow
  /\ item \in [Items -> ItemRow]
  /\ offer \in [Offers -> OfferRow]
  /\ lines \subseteq Line
  /\ req \in [Requests -> Request]

\* validateSupplierOfferAllocations, over time: whatever is awarded, re-awarded
\* or brought up to date, the awards of an item are the whole of what was asked
\* or nothing, and none exceeds its offer.
AwardsCoverTheItem ==
  \A i \in Items :
    /\ AwardedUnits(offer, i) \in {0, Units}
    /\ \A o \in OffersOf(offer, i) : offer[o].awarded <= offer[o].qty

\* An item is READY only with an award and a code of the ERP, although
\* linkItemToErp and allocateOffers each decide it on what they read before.
ReadyIsAwardedAndCoded ==
  \A i \in Items : item[i].status = "READY" => Awarded(offer, i) # {} /\ item[i].coded

\* "Supplier requisitions were already generated; awards are locked.": what the
\* suppliers were sent is, for good, what they were awarded.
IssuedAreTheAwards == Finalized => lines = AwardedLines

\* A draft reaches purchasing by the requester's submission and by nothing
\* else, whatever recomputes its status meanwhile.
DraftLeftBySubmission ==
  [][requisition.status = "DRAFT"
       => requisition'.status \in {"DRAFT", "SUBMITTED", "CANCELLED"}]_vars

\* "Purchase requisition must be READY_FOR_ORDER before generating order.": the
\* order of a quote goes out with every item awarded and known to the ERP.
OrderedIsBought ==
  quote.ordered => \A i \in Items : Awarded(offer, i) # {} /\ item[i].coded
=============================================================================
