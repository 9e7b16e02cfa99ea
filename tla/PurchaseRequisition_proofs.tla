---------------------- MODULE PurchaseRequisition_proofs ----------------------
(***************************************************************************)
(* Proofs that, for any number of items, offers and overlapping requests   *)
(* and any settings, the tables keep their types, an item is READY only    *)
(* with an award and a code of the ERP, what is awarded of an item is all  *)
(* of it or nothing, what was issued stays what was awarded, and a draft   *)
(* leaves its status by its submission.                                    *)
(***************************************************************************)
EXTENDS PurchaseRequisition, TLAPS

\* Statuses before the requisition reached purchasing.
Early == {"NONE", "DRAFT"}

\* What a request still knows of the tables after it checked them: other
\* requests may have written them since, but never so as to undo this.
Known(q, status, itm, off) ==
  /\ q.op \in {"EDIT_COST", "EDIT_OWNER", "LINK", "ALLOCATE"} => q.item \in Items
  /\ q.op \in {"EDIT_COST", "EDIT_OWNER", "LINK"} => status # "NONE"
  /\ q.op = "OFFER" => status \notin Early
  /\ q.op = "ASSIGN" /\ q.seen => status \notin Early
  /\ q.op = "LINK" /\ q.seen => Awarded(off, q.item) # {}
  /\ q.op = "ORDER" => \A i \in Items : Awarded(off, i) # {} /\ itm[i].coded
  /\ q.pc = "computed" => q.op \in {"EDIT_OWNER", "LINK"} /\ q.status \in Statuses
  /\ q.pc = "computed" /\ q.status # "DRAFT" => status \notin Early

\* What it knows while it holds the lock, which no other request can change.
Locked(q, itm, off, issued) ==
  q.pc = "locked" =>
    /\ q.op \in {"ALLOCATE", "ISSUE"}
    /\ issued = {}
    /\ q.op = "ISSUE" => q.awards = [o \in Offers |-> off[o].awarded]
    /\ q.op = "ALLOCATE" =>
         /\ Chosen(q.awards) # {}
         /\ \A o \in Chosen(q.awards) : off[o].item = q.item
         /\ q.seen => itm[q.item].coded

LocalsOK ==
  /\ \A r \in Requests : Known(req[r], requisition.status, item, offer)
  /\ \A r \in Requests : Locked(req[r], item, offer, lines)

OneLock == \A r, s \in Requests : req[r].pc = "locked" /\ req[s].pc = "locked" => r = s

UnusedNotAwarded == \A o \in Offers : offer[o].item = NoItem => offer[o].awarded = 0

CatalogueCoded == \A i \in Items \ LocalNew : item[i].coded

IInv ==
  /\ TypeOK
  /\ LocalsOK
  /\ OneLock
  /\ UnusedNotAwarded
  /\ CatalogueCoded
  /\ ReadyIsAwardedAndCoded
  /\ IssuedAreTheAwards
  /\ OrderedIsBought
-----------------------------------------------------------------------------
(* Values.                                                                 *)

LEMMA IdleTypes == Idle \in Request /\ NoAwards \in [Offers -> 0..Units]
  BY ConstantsAssumption DEF Idle, NoAwards, Request

LEMMA IdleKnows ==
  ASSUME NEW status, NEW itm, NEW off, NEW issued
  PROVE  Known(Idle, status, itm, off) /\ Locked(Idle, itm, off, issued)
  BY DEF Known, Locked, Idle

LEMMA CostTypes ==
  ASSUME NEW c \in Nat
  PROVE  ReckonedCost(c) \in Nat /\ OwnerOf(c) \in {"SELLER", "PURCHASING"}
  BY ConstantsAssumption DEF ReckonedCost, OwnerOf

\* recomputeStatus never makes a draft, and never takes one out of it.
LEMMA RecomputedStatus ==
  ASSUME NEW itm, NEW off, NEW status, NEW approved, NEW enabled
  PROVE  /\ Recomputed(itm, off, status, approved, enabled) \in Statuses \ Closed
         /\ Recomputed(itm, off, status, approved, enabled) = "DRAFT" <=> status = "DRAFT"
  BY DEF Recomputed, StatusPastDraft, Statuses, Closed
-----------------------------------------------------------------------------
(* What every step keeps.                                                  *)

\* Nobody unmakes a requisition, sends it back to the requester, takes the
\* code of an item or its last award away.
Later(status, itm, off, status2, itm2, off2) ==
  /\ status # "NONE" => status2 # "NONE"
  /\ status \notin Early => status2 \notin Early
  /\ \A i \in Items : itm[i].coded => itm2[i].coded
  /\ \A i \in Items : Awarded(off, i) # {} => Awarded(off2, i) # {}

\* The awards stand: offers may be added or have their terms changed.
Stands(off, off2) ==
  \A o \in Offers : /\ off2[o].awarded = off[o].awarded
                    /\ off[o].item # NoItem => off2[o].item = off[o].item

LEMMA KnownLater ==
  ASSUME NEW q, NEW status, NEW itm, NEW off, NEW status2, NEW itm2, NEW off2,
         Known(q, status, itm, off), Later(status, itm, off, status2, itm2, off2)
  PROVE  Known(q, status2, itm2, off2)
  BY DEF Known, Later

LEMMA LockedStands ==
  ASSUME NEW q, NEW itm, NEW off, NEW issued, NEW itm2, NEW off2,
         q.op = "ALLOCATE" => q.item \in Items,
         \A i \in Items : itm[i].coded => itm2[i].coded,
         Stands(off, off2), Locked(q, itm, off, issued)
  PROVE  Locked(q, itm2, off2, issued)
  <1> SUFFICES ASSUME q.pc = "locked"
               PROVE  Locked(q, itm2, off2, issued)
    BY DEF Locked
  <1>1. q.op \in {"ALLOCATE", "ISSUE"} /\ issued = {}
    BY DEF Locked
  <1>2. CASE q.op = "ISSUE"
    BY <1>1, <1>2 DEF Locked, Stands
  <1>3. CASE q.op = "ALLOCATE"
    <2>1. q.item \in Items /\ q.item # NoItem
      BY <1>3, ConstantsAssumption
    <2>2. \A o \in Chosen(q.awards) : off2[o].item = q.item
      BY <1>3, <2>1 DEF Locked, Stands, Chosen
    <2>3. QED
      BY <1>1, <1>3, <2>1, <2>2 DEF Locked
  <1>4. QED BY <1>1, <1>2, <1>3

LEMMA StandingAwards ==
  ASSUME NEW off, NEW off2, Stands(off, off2)
  PROVE  \A i \in Items : Awarded(off, i) \subseteq Awarded(off2, i)
  BY ConstantsAssumption DEF Stands, Awarded, OffersOf

LEMMA StandingLines ==
  ASSUME UnusedNotAwarded, Stands(offer, offer')
  PROVE  AwardedLines' = AwardedLines
  <1>1. \A o \in Offers : offer'[o].awarded = offer[o].awarded
    BY DEF Stands
  <1>2. \A o \in Offers : offer[o].awarded > 0 => offer'[o].item = offer[o].item
    BY DEF Stands, UnusedNotAwarded
  <1>3. QED BY <1>1, <1>2 DEF AwardedLines

\* The tables after a step that leaves the awards standing.
TablesOK ==
  /\ Later(requisition.status, item, offer, requisition'.status, item', offer')
  /\ Stands(offer, offer')
  /\ UNCHANGED lines
  /\ \A o \in Offers : offer'[o].item = NoItem => offer'[o].awarded = 0
  /\ \A i \in Items : item'[i].status = "READY" =>
       \/ item[i].status = "READY"
       \/ Awarded(offer', i) # {} /\ item'[i].coded
  /\ quote'.ordered =>
       \/ quote.ordered
       \/ \A i \in Items : Awarded(offer', i) # {} /\ item'[i].coded

\* A request either stands still or knows what it needs at its next step.
RequestsOK ==
  \A s \in Requests :
    \/ req'[s] = req[s]
    \/ req'[s].pc # "locked" /\ Known(req'[s], requisition'.status, item', offer')

LEMMA StepSafe ==
  ASSUME IInv, TypeOK', TablesOK, RequestsOK
  PROVE  IInv'
  <1>1. LocalsOK'
    <2>1. ASSUME NEW s \in Requests
          PROVE  Known(req'[s], requisition'.status, item', offer')
      <3>1. CASE req'[s] = req[s]
        BY <3>1, KnownLater DEF IInv, LocalsOK, TablesOK
      <3>2. CASE req'[s] # req[s]
        BY <3>2 DEF RequestsOK
      <3>3. QED BY <3>1, <3>2
    <2>2. ASSUME NEW s \in Requests
          PROVE  Locked(req'[s], item', offer', lines')
      <3>1. CASE req'[s] = req[s]
        <4>1. Locked(req[s], item, offer, lines)
              /\ (req[s].op = "ALLOCATE" => req[s].item \in Items)
          BY DEF IInv, LocalsOK, Known
        <4>2. /\ \A i \in Items : item[i].coded => item'[i].coded
              /\ Stands(offer, offer') /\ lines' = lines
          BY DEF TablesOK, Later
        <4>3. Locked(req[s], item', offer', lines)
          BY <4>1, <4>2, LockedStands
        <4>4. QED BY <3>1, <4>2, <4>3
      <3>2. CASE req'[s] # req[s]
        BY <3>2 DEF RequestsOK, Locked
      <3>3. QED BY <3>1, <3>2
    <2>3. QED BY <2>1, <2>2 DEF LocalsOK
  <1>2. OneLock'
    <2>1. \A s \in Requests : req'[s].pc = "locked" => req[s].pc = "locked"
      BY DEF RequestsOK
    <2>2. QED BY <2>1 DEF IInv, OneLock
  <1>3. UnusedNotAwarded'
    BY DEF TablesOK, UnusedNotAwarded
  <1>4. CatalogueCoded'
    BY DEF IInv, CatalogueCoded, TablesOK, Later
  <1>5. ReadyIsAwardedAndCoded'
    BY DEF IInv, ReadyIsAwardedAndCoded, TablesOK, Later
  <1>6. IssuedAreTheAwards'
    BY StandingLines DEF IInv, IssuedAreTheAwards, Finalized, TablesOK
  <1>7. OrderedIsBought'
    BY DEF IInv, OrderedIsBought, TablesOK, Later
  <1>8. QED
    BY <1>1, <1>2, <1>3, <1>4, <1>5, <1>6, <1>7 DEF IInv

\* One request moves and no table changes.
LEMMA RequestMoves ==
  ASSUME IInv, NEW r \in Requests, NEW rec \in Request,
         rec.pc # "locked", Known(rec, requisition.status, item, offer),
         req' = [req EXCEPT ![r] = rec], UNCHANGED tables
  PROVE  IInv'
  <1>1. TypeOK'
    BY DEF IInv, TypeOK, tables
  <1>2. \A s \in Requests : req'[s] = IF s = r THEN rec ELSE req[s]
    BY DEF IInv, TypeOK
  <1>3. TablesOK
    BY DEF IInv, UnusedNotAwarded, TablesOK, Later, Stands, tables
  <1>4. RequestsOK
    BY <1>2 DEF RequestsOK, tables
  <1>5. QED BY <1>1, <1>3, <1>4, StepSafe

LEMMA StutterSafe == ASSUME IInv, UNCHANGED vars PROVE IInv'
  <1>1. TypeOK'
    BY DEF IInv, TypeOK, vars
  <1>2. TablesOK /\ RequestsOK
    BY DEF IInv, UnusedNotAwarded, TablesOK, RequestsOK, Later, Stands, vars
  <1>3. QED BY <1>1, <1>2, StepSafe

\* The request that wrote the tables is done.
LEMMA Finished ==
  ASSUME IInv, NEW r \in Requests, Finish(r)
  PROVE  req' \in [Requests -> Request] /\ RequestsOK
  <1>1. req' \in [Requests -> Request]
    BY IdleTypes DEF IInv, TypeOK, Finish
  <1>2. \A s \in Requests : req'[s] = IF s = r THEN Idle ELSE req[s]
    BY DEF IInv, TypeOK, Finish
  <1>3. Idle.pc # "locked"
    BY DEF Idle
  <1>4. QED BY <1>1, <1>2, <1>3, IdleKnows DEF RequestsOK
-----------------------------------------------------------------------------
(* Steps of requests that write no table.                                  *)

LEMMA InitIInv == Init => IInv
  <1> SUFFICES ASSUME Init PROVE IInv
    OBVIOUS
  <1>1. TypeOK
    <2>1. quote \in QuoteRow /\ requisition \in RequisitionRow
      BY DEF Init, QuoteRow, RequisitionRow
    <2>2. item \in [Items -> ItemRow]
      BY DEF Init, ItemRow, ItemStatuses
    <2>3. offer \in [Offers -> OfferRow]
      BY ConstantsAssumption DEF Init, NoOffer, OfferRow
    <2>4. req \in [Requests -> Request] /\ lines \subseteq Line
      BY IdleTypes DEF Init
    <2>5. QED BY <2>1, <2>2, <2>3, <2>4 DEF TypeOK
  <1>2. LocalsOK
    BY IdleKnows DEF Init, LocalsOK
  <1>3. OneLock /\ UnusedNotAwarded /\ CatalogueCoded
    BY DEF Init, OneLock, UnusedNotAwarded, CatalogueCoded, Idle, NoOffer
  <1>4. ReadyIsAwardedAndCoded /\ IssuedAreTheAwards /\ OrderedIsBought
    BY DEF Init, ReadyIsAwardedAndCoded, IssuedAreTheAwards, Finalized, OrderedIsBought
  <1>5. QED BY <1>1, <1>2, <1>3, <1>4 DEF IInv

\* The first step of a request, outside any transaction.
LEMMA CheckedSafe ==
  ASSUME IInv, NEW r \in Requests, NEW rec \in Request, Checked(r, rec),
         rec.pc # "locked", Known(rec, requisition.status, item, offer)
  PROVE  IInv'
  BY RequestMoves DEF Checked

LEMMA StopSafe ==
  ASSUME IInv, NEW r \in Requests, Finish(r), UNCHANGED tables
  PROVE  IInv'
  <1>1. Idle \in Request /\ Idle.pc # "locked"
        /\ Known(Idle, requisition.status, item, offer)
    BY IdleTypes, IdleKnows DEF Idle
  <1>2. QED BY <1>1, RequestMoves DEF Finish

LEMMA CheckRequesterSafe ==
  ASSUME IInv, NEW r \in Requests,
         CheckEnsure(r) \/ CheckReference(r) \/ CheckSubmit(r) \/ CheckAssign(r)
  PROVE  IInv'
  <1>1. CASE CheckEnsure(r)
    <2> DEFINE rec == [Idle EXCEPT !.pc = "checked", !.op = "ENSURE", !.cost = quote.cost]
    <2>1. quote.cost \in [Items -> Nat]
      BY ConstantsAssumption DEF IInv, TypeOK, QuoteRow
    <2>2. Checked(r, rec) /\ "ENSURE" \in Operations
      BY <1>1 DEF CheckEnsure, Checked, Idle
    <2>3. rec \in Request /\ rec.pc # "locked"
      BY <2>1, <2>2, IdleTypes DEF Request, Idle
    <2>4. Known(rec, requisition.status, item, offer)
      BY DEF Known, Idle
    <2>5. QED BY <2>2, <2>3, <2>4, CheckedSafe
  <1>2. CASE CheckReference(r)
    <2> DEFINE rec == [Idle EXCEPT !.pc = "checked", !.op = "REFERENCE"]
    <2>1. Checked(r, rec) /\ "REFERENCE" \in Operations
      BY <1>2 DEF CheckReference, Checked, Idle
    <2>2. rec \in Request /\ rec.pc # "locked"
      BY <2>1, IdleTypes DEF Request, Idle
    <2>3. Known(rec, requisition.status, item, offer)
      BY DEF Known, Idle
    <2>4. QED BY <2>1, <2>2, <2>3, CheckedSafe
  <1>3. CASE CheckSubmit(r)
    <2> DEFINE rec == [Idle EXCEPT !.pc = "checked", !.op = "SUBMIT"]
    <2>1. Checked(r, rec) /\ "SUBMIT" \in Operations
      BY <1>3 DEF CheckSubmit, Checked, Idle
    <2>2. rec \in Request /\ rec.pc # "locked"
      BY <2>1, IdleTypes DEF Request, Idle
    <2>3. Known(rec, requisition.status, item, offer)
      BY DEF Known, Idle
    <2>4. QED BY <2>1, <2>2, <2>3, CheckedSafe
  <1>4. CASE CheckAssign(r)
    <2> DEFINE rec == [Idle EXCEPT !.pc = "checked", !.op = "ASSIGN",
                                   !.seen = requisition.status = "SUBMITTED"]
    <2>1. Checked(r, rec) /\ "ASSIGN" \in Operations
      BY <1>4 DEF CheckAssign, Checked, Idle
    <2>2. rec \in Request /\ rec.pc # "locked"
      BY <2>1, IdleTypes DEF Request, Idle
    <2>3. Known(rec, requisition.status, item, offer)
      BY DEF Known, Idle, Early
    <2>4. QED BY <2>1, <2>2, <2>3, CheckedSafe
  <1>5. QED BY <1>1, <1>2, <1>3, <1>4

LEMMA CheckEditSafe ==
  ASSUME IInv, NEW r \in Requests, NEW i \in Items,
         NEW op \in {"EDIT_COST", "EDIT_OWNER"}, CheckEdit(r, i, op)
  PROVE  IInv'
  <1> DEFINE rec == [Idle EXCEPT !.pc = "checked", !.op = op, !.item = i]
  <1>1. Checked(r, rec) /\ op \in Operations /\ Exists
    BY DEF CheckEdit, Checked, Idle, Editable
  <1>2. rec \in Request /\ rec.pc # "locked"
    BY <1>1, IdleTypes DEF Request, Idle
  <1>3. Known(rec, requisition.status, item, offer)
    BY <1>1 DEF Known, Idle, Exists, Statuses, Closed
  <1>4. QED BY <1>1, <1>2, <1>3, CheckedSafe

LEMMA CheckLinkSafe ==
  ASSUME IInv, NEW r \in Requests, NEW i \in Items, CheckLink(r, i)
  PROVE  IInv'
  <1> DEFINE rec == [Idle EXCEPT !.pc = "checked", !.op = "LINK", !.item = i,
                                 !.seen = Awarded(offer, i) # {}]
  <1>1. Checked(r, rec) /\ "LINK" \in Operations /\ Exists
    BY DEF CheckLink, Checked, Idle, Editable
  <1>2. rec \in Request /\ rec.pc # "locked"
    BY <1>1, IdleTypes DEF Request, Idle
  <1>3. Known(rec, requisition.status, item, offer)
    BY <1>1 DEF Known, Idle, Exists, Statuses, Closed
  <1>4. QED BY <1>1, <1>2, <1>3, CheckedSafe

LEMMA CheckBuyerSafe ==
  ASSUME IInv, NEW r \in Requests, CheckOffer(r) \/ CheckApproval(r)
  PROVE  IInv'
  <1>1. CASE CheckOffer(r)
    <2> DEFINE rec == [Idle EXCEPT !.pc = "checked", !.op = "OFFER"]
    <2>1. Checked(r, rec) /\ "OFFER" \in Operations
          /\ Exists /\ requisition.status # "DRAFT"
      BY <1>1 DEF CheckOffer, Checked, Idle, Editable
    <2>2. rec \in Request /\ rec.pc # "locked"
      BY <2>1, IdleTypes DEF Request, Idle
    <2>3. Known(rec, requisition.status, item, offer)
      BY <2>1 DEF Known, Idle, Early, Exists, Statuses, Closed
    <2>4. QED BY <2>1, <2>2, <2>3, CheckedSafe
  <1>2. CASE CheckApproval(r)
    <2> DEFINE rec == [Idle EXCEPT !.pc = "checked", !.op = "APPROVE_COST"]
    <2>1. Checked(r, rec) /\ "APPROVE_COST" \in Operations
      BY <1>2 DEF CheckApproval, Checked, Idle
    <2>2. rec \in Request /\ rec.pc # "locked"
      BY <2>1, IdleTypes DEF Request, Idle
    <2>3. Known(rec, requisition.status, item, offer)
      BY DEF Known, Idle
    <2>4. QED BY <2>1, <2>2, <2>3, CheckedSafe
  <1>3. QED BY <1>1, <1>2

\* isReadyForOrder is asked only once: the order goes out on its answer.
LEMMA CheckOrderSafe ==
  ASSUME IInv, NEW r \in Requests, NEW enabled \in ApprovalModes,
         CheckOrder(r, enabled)
  PROVE  IInv'
  <1> DEFINE rec == [Idle EXCEPT !.pc = "checked", !.op = "ORDER"]
  <1>1. Checked(r, rec) /\ "ORDER" \in Operations
        /\ \A i \in Items : item[i].status = "READY"
    BY DEF CheckOrder, Checked, Idle, ReadyForOrder
  <1>2. rec \in Request /\ rec.pc # "locked"
    BY <1>1, IdleTypes DEF Request, Idle
  <1>3. Known(rec, requisition.status, item, offer)
    BY <1>1 DEF Known, Idle, IInv, ReadyIsAwardedAndCoded
  <1>4. QED BY <1>1, <1>2, <1>3, CheckedSafe

LEMMA FindSafe ==
  ASSUME IInv, NEW r \in Requests, FindDraft(r) \/ FindExisting(r)
  PROVE  IInv'
  <1>1. CASE FindDraft(r)
    <2> DEFINE rec == [req[r] EXCEPT !.pc = "materialize"]
    <2>1. req' = [req EXCEPT ![r] = rec] /\ UNCHANGED tables /\ req[r].op = "ENSURE"
      BY <1>1 DEF FindDraft, At
    <2>2. rec \in Request /\ rec.pc # "locked" /\ rec.op = "ENSURE"
          /\ rec.pc # "computed"
      BY <2>1 DEF IInv, TypeOK, Request
    <2>3. Known(rec, requisition.status, item, offer)
      BY <2>2 DEF Known
    <2>4. QED BY <2>1, <2>2, <2>3, RequestMoves
  <1>2. CASE FindExisting(r)
    BY <1>2, StopSafe DEF FindExisting
  <1>3. QED BY <1>1, <1>2

\* The status recomputeStatus decided on before it waited for its turn to
\* write it: a draft only if it read a draft.
LEMMA ComputeSafe ==
  ASSUME IInv, NEW r \in Requests, NEW enabled \in ApprovalModes,
         ComputeEdit(r, enabled) \/ ComputeLink(r, enabled)
  PROVE  IInv'
  <1> DEFINE itm == IF req[r].op = "LINK" THEN LinkedItems(r) ELSE item
             status == RecomputedNow(itm, enabled)
             rec == [req[r] EXCEPT !.pc = "computed", !.status = status]
  <1>1. req' = [req EXCEPT ![r] = rec] /\ UNCHANGED tables
        /\ req[r].op \in {"EDIT_OWNER", "LINK"}
    BY DEF ComputeEdit, ComputeLink, At
  <1>2. status \in Statuses /\ (status = "DRAFT" <=> requisition.status = "DRAFT")
    BY RecomputedStatus DEF RecomputedNow
  <1> HIDE DEF status
  <1>3. rec \in Request /\ rec.pc = "computed" /\ rec.status = status
        /\ rec.op = req[r].op /\ rec.item = req[r].item /\ rec.seen = req[r].seen
    BY <1>2 DEF IInv, TypeOK, Request
  <1>4. Known(req[r], requisition.status, item, offer)
    BY DEF IInv, LocalsOK
  <1>5. Known(rec, requisition.status, item, offer)
    BY <1>1, <1>2, <1>3, <1>4 DEF Known, Early
  <1>6. QED BY <1>1, <1>3, <1>5, RequestMoves
-----------------------------------------------------------------------------
(* Steps that write the quote or the requisition and leave the items and   *)
(* their offers as they were.                                              *)

LEMMA CreateRequisitionSafe ==
  ASSUME IInv, NEW r \in Requests, CreateRequisition(r)
  PROVE  IInv'
  <1> DEFINE rec == [req[r] EXCEPT !.pc = "materialize"]
  <1>1. /\ req' = [req EXCEPT ![r] = rec]
        /\ requisition' = [requisition EXCEPT !.status = "DRAFT"]
        /\ item' = [i \in Items |-> [item[i] EXCEPT !.cost = ReckonedCost(req[r].cost[i]),
                                                   !.owner = OwnerOf(req[r].cost[i])]]
        /\ requisition.status = "NONE" /\ req[r].op = "ENSURE"
        /\ UNCHANGED <<quote, offer, lines>>
    BY DEF CreateRequisition, At
  <1>2. rec \in Request /\ rec.pc = "materialize" /\ rec.op = "ENSURE"
    BY <1>1 DEF IInv, TypeOK, Request
  <1>3. TypeOK'
    <2>1. requisition' \in RequisitionRow
      BY <1>1 DEF IInv, TypeOK, RequisitionRow, Statuses
    <2>2. item' \in [Items -> ItemRow]
      <3>1. \A i \in Items : ReckonedCost(req[r].cost[i]) \in Nat
                            /\ OwnerOf(req[r].cost[i]) \in {"SELLER", "PURCHASING"}
        BY CostTypes DEF IInv, TypeOK, Request
      <3>2. QED BY <1>1, <3>1 DEF IInv, TypeOK, ItemRow
    <2>3. req' \in [Requests -> Request]
      BY <1>1, <1>2 DEF IInv, TypeOK
    <2>4. QED BY <1>1, <2>1, <2>2, <2>3 DEF IInv, TypeOK
  <1>4. \A i \in Items : item'[i].coded = item[i].coded /\ item'[i].status = item[i].status
    BY <1>1 DEF IInv, TypeOK, ItemRow
  <1>5. TablesOK
    <2>1. requisition.status \in Early
      BY <1>1 DEF Early
    <2>2. QED
      BY <1>1, <1>4, <2>1 DEF IInv, UnusedNotAwarded, TablesOK, Later, Stands
  <1>6. RequestsOK
    <2>1. \A s \in Requests : req'[s] = IF s = r THEN rec ELSE req[s]
      BY <1>1 DEF IInv, TypeOK
    <2>2. Known(rec, requisition'.status, item', offer')
      BY <1>2 DEF Known
    <2>3. QED BY <1>2, <2>1, <2>2 DEF RequestsOK
  <1>7. QED BY <1>3, <1>5, <1>6, StepSafe

\* The new status is past the draft whenever the old one was.
LEMMA StatusWrites ==
  ASSUME IInv, NEW r \in Requests, Finish(r),
         requisition' \in RequisitionRow,
         requisition.status # "NONE" => requisition'.status # "NONE",
         requisition.status \notin Early => requisition'.status \notin Early,
         UNCHANGED <<quote, item, offer, lines>>
  PROVE  IInv'
  <1>1. TypeOK'
    BY Finished DEF IInv, TypeOK
  <1>2. TablesOK
    BY DEF IInv, UnusedNotAwarded, TablesOK, Later, Stands
  <1>3. QED BY <1>1, <1>2, Finished, StepSafe

LEMMA RequisitionStepsSafe ==
  ASSUME IInv, NEW r \in Requests,
         \/ SubmitRequisition(r) \/ AssignRequisition(r)
         \/ \E enabled \in ApprovalModes : ApproveCostVariance(r, enabled)
         \/ \E enabled \in ApprovalModes : MarkCompleted(r, enabled)
  PROVE  IInv'
  <1>1. requisition \in RequisitionRow
    BY DEF IInv, TypeOK
  <1>2. CASE SubmitRequisition(r)
    BY <1>1, <1>2, StatusWrites DEF SubmitRequisition, RequisitionRow, Statuses, Early
  <1>3. CASE AssignRequisition(r)
    BY <1>1, <1>3, StatusWrites DEF AssignRequisition, RequisitionRow, Statuses, Early
  <1>4. ASSUME NEW enabled \in ApprovalModes, ApproveCostVariance(r, enabled)
        PROVE  IInv'
    <2> DEFINE new == Recomputed(item, offer, requisition.status, TRUE, enabled)
    <2>1. new \in Statuses \ Closed /\ (new = "DRAFT" <=> requisition.status = "DRAFT")
      BY DEF Recomputed, StatusPastDraft, Statuses, Closed
    <2> HIDE DEF new
    <2>2. requisition' = [costApproved |-> TRUE, status |-> new] /\ Finish(r)
          /\ UNCHANGED <<quote, item, offer, lines>>
      BY <1>4 DEF ApproveCostVariance, new
    <2>3. requisition' \in RequisitionRow /\ requisition'.status # "NONE"
          /\ (requisition.status \notin Early => requisition'.status \notin Early)
      BY <2>1, <2>2 DEF RequisitionRow, Statuses, Closed, Early
    <2>4. QED BY <2>2, <2>3, StatusWrites
  <1>5. ASSUME NEW enabled \in ApprovalModes, MarkCompleted(r, enabled)
        PROVE  IInv'
    BY <1>1, <1>5, StatusWrites DEF MarkCompleted, RequisitionRow, Statuses, Closed, Early
  <1>6. QED BY <1>2, <1>3, <1>4, <1>5

LEMMA WriteReferenceSafe ==
  ASSUME IInv, NEW r \in Requests, NEW i \in Items, NEW cost \in SellerCosts,
         WriteReference(r, i, cost)
  PROVE  IInv'
  <1>1. quote' = [quote EXCEPT !.cost[i] = cost]
        /\ UNCHANGED <<requisition, item, offer, lines>>
    BY DEF WriteReference
  <1>2. quote' \in QuoteRow /\ quote'.ordered = quote.ordered
    BY <1>1 DEF IInv, TypeOK, QuoteRow
  <1>3. quote'.cost \in [Items -> Nat]
    BY <1>2, ConstantsAssumption DEF QuoteRow
  <1>4. TablesOK
    BY <1>1, <1>2 DEF IInv, UnusedNotAwarded, TablesOK, Later, Stands
  <1>5. CASE quote.status = "APPROVED"
    <2> DEFINE rec == [req[r] EXCEPT !.op = "ENSURE", !.cost = quote'.cost]
    <2>1. req' = [req EXCEPT ![r].op = "ENSURE", ![r].cost = quote'.cost]
          /\ req[r].pc = "checked"
      BY <1>5 DEF WriteReference, At
    <2>2. req' = [req EXCEPT ![r] = rec]
      BY <2>1 DEF IInv, TypeOK, Request
    <2>3. rec \in Request /\ rec.pc = "checked" /\ rec.op = "ENSURE"
      BY <2>1, <1>3 DEF IInv, TypeOK, Request
    <2>4. \A s \in Requests : req'[s] = IF s = r THEN rec ELSE req[s]
      BY <2>2 DEF IInv, TypeOK
    <2>5. RequestsOK
      BY <2>3, <2>4 DEF RequestsOK, Known
    <2>6. TypeOK'
      BY <1>1, <1>2, <2>2, <2>3 DEF IInv, TypeOK
    <2>7. QED BY <1>4, <2>5, <2>6, StepSafe
  <1>6. CASE quote.status # "APPROVED"
    <2>1. Finish(r)
      BY <1>6 DEF WriteReference
    <2>2. TypeOK'
      BY <1>1, <1>2, <2>1, Finished DEF IInv, TypeOK
    <2>3. QED BY <1>4, <2>1, <2>2, Finished, StepSafe
  <1>7. QED BY <1>5, <1>6

LEMMA MarkOrderGeneratedSafe ==
  ASSUME IInv, NEW r \in Requests, MarkOrderGenerated(r)
  PROVE  IInv'
  <1> DEFINE rec == [req[r] EXCEPT !.pc = "complete"]
  <1>1. /\ quote' = [quote EXCEPT !.ordered = TRUE]
        /\ req' = [req EXCEPT ![r] = rec] /\ req[r].op = "ORDER"
        /\ UNCHANGED <<requisition, item, offer, lines>>
    BY DEF MarkOrderGenerated, At
  <1>2. rec \in Request /\ rec.pc = "complete" /\ rec.op = "ORDER"
    BY <1>1 DEF IInv, TypeOK, Request
  <1>3. quote' \in QuoteRow
    BY <1>1 DEF IInv, TypeOK, QuoteRow
  <1>4. \A i \in Items : Awarded(offer, i) # {} /\ item[i].coded
    BY <1>1 DEF IInv, LocalsOK, Known
  <1>5. TypeOK'
    BY <1>1, <1>2, <1>3 DEF IInv, TypeOK
  <1>6. TablesOK
    BY <1>1, <1>4 DEF IInv, UnusedNotAwarded, TablesOK, Later, Stands
  <1>7. RequestsOK
    <2>1. \A s \in Requests : req'[s] = IF s = r THEN rec ELSE req[s]
      BY <1>1 DEF IInv, TypeOK
    <2>2. Known(rec, requisition'.status, item', offer')
      BY <1>1, <1>2, <1>4 DEF Known
    <2>3. QED BY <1>2, <2>1, <2>2 DEF RequestsOK
  <1>8. QED BY <1>5, <1>6, <1>7, StepSafe

LEMMA CancelQuoteSafe ==
  ASSUME IInv, CancelQuote
  PROVE  IInv'
  <1>1. /\ quote' = [quote EXCEPT !.status = "CANCELLED"]
        /\ requisition' = [requisition EXCEPT !.status =
             IF @ \in {"NONE", "COMPLETED"} THEN @ ELSE "CANCELLED"]
        /\ UNCHANGED <<item, offer, lines, req>>
    BY DEF CancelQuote
  <1>2. quote' \in QuoteRow /\ quote'.ordered = quote.ordered
    BY <1>1 DEF IInv, TypeOK, QuoteRow
  <1>3. /\ requisition' \in RequisitionRow
        /\ requisition.status # "NONE" => requisition'.status # "NONE"
        /\ requisition.status \notin Early => requisition'.status \notin Early
    BY <1>1 DEF IInv, TypeOK, RequisitionRow, Statuses, Closed, Early
  <1>4. TypeOK'
    BY <1>1, <1>2, <1>3 DEF IInv, TypeOK
  <1>5. TablesOK /\ RequestsOK
    BY <1>1, <1>2, <1>3
    DEF IInv, UnusedNotAwarded, TablesOK, Later, Stands, RequestsOK
  <1>6. QED BY <1>4, <1>5, StepSafe
-----------------------------------------------------------------------------
(* Steps that write an item or the offers.                                 *)

\* One item is written, with the status of the requisition; the offers stay.
LEMMA ItemWrites ==
  ASSUME IInv, NEW r \in Requests, Finish(r), NEW i \in Items, NEW row \in ItemRow,
         item' = [item EXCEPT ![i] = row],
         item[i].coded => row.coded,
         row.status = "READY" =>
           item[i].status = "READY" \/ (Awarded(offer, i) # {} /\ row.coded),
         requisition' \in RequisitionRow,
         requisition.status # "NONE" => requisition'.status # "NONE",
         requisition.status \notin Early => requisition'.status \notin Early,
         UNCHANGED <<quote, offer, lines>>
  PROVE  IInv'
  <1>1. \A j \in Items : item'[j] = IF j = i THEN row ELSE item[j]
    BY DEF IInv, TypeOK
  <1>2. TypeOK'
    BY Finished DEF IInv, TypeOK
  <1>3. TablesOK
    BY <1>1 DEF IInv, UnusedNotAwarded, TablesOK, Later, Stands
  <1>4. QED BY <1>2, <1>3, Finished, StepSafe

LEMMA EditCostSafe ==
  ASSUME IInv, NEW r \in Requests, NEW cost \in SellerCosts,
         NEW enabled \in ApprovalModes, EditCost(r, cost, enabled)
  PROVE  IInv'
  <1> DEFINE i == req[r].item
             row == [item[i] EXCEPT !.cost = cost]
             new == Recomputed([item EXCEPT ![i].cost = cost], offer,
                               requisition.status, FALSE, enabled)
  <1>1. i \in Items /\ requisition.status # "NONE"
    BY DEF EditCost, At, IInv, LocalsOK, Known
  <1>2. new \in Statuses \ Closed /\ (new = "DRAFT" <=> requisition.status = "DRAFT")
    BY DEF Recomputed, StatusPastDraft, Statuses, Closed
  <1>3. requisition' = [costApproved |-> FALSE, status |-> new] /\ Finish(r)
        /\ item' = [item EXCEPT ![i] = row] /\ UNCHANGED <<quote, offer, lines>>
    BY DEF EditCost, IInv, TypeOK, ItemRow
  <1>4. row \in ItemRow /\ row.coded = item[i].coded /\ row.status = item[i].status
    BY <1>1, ConstantsAssumption DEF IInv, TypeOK, ItemRow
  <1> HIDE DEF i, row, new
  <1>5. requisition' \in RequisitionRow /\ requisition'.status # "NONE"
        /\ (requisition.status \notin Early => requisition'.status \notin Early)
    BY <1>2, <1>3 DEF RequisitionRow, Statuses, Closed, Early
  <1>6. /\ item[i].coded => row.coded
        /\ row.status = "READY" =>
             item[i].status = "READY" \/ (Awarded(offer, i) # {} /\ row.coded)
        /\ requisition.status # "NONE" => requisition'.status # "NONE"
    BY <1>4, <1>5, Zenon
  <1>7. QED BY <1>1, <1>3, <1>4, <1>5, <1>6, ItemWrites, Zenon

\* A status decided on earlier is written.
LEMMA StatusWrittenOK ==
  ASSUME IInv, NEW r \in Requests, req[r].pc = "computed",
         requisition' = [requisition EXCEPT !.status = StatusWritten(r)]
  PROVE  /\ requisition' \in RequisitionRow
         /\ requisition.status # "NONE" => requisition'.status # "NONE"
         /\ requisition.status \notin Early => requisition'.status \notin Early
         /\ requisition.status = "DRAFT" => requisition'.status = "DRAFT"
  BY DEF IInv, TypeOK, RequisitionRow, LocalsOK, Known, StatusWritten, Statuses,
         Closed, Early

LEMMA EditOwnerSafe ==
  ASSUME IInv, NEW r \in Requests, NEW owner \in {"SELLER", "PURCHASING"},
         EditOwner(r, owner)
  PROVE  IInv'
  <1> DEFINE i == req[r].item
             row == [item[i] EXCEPT !.owner = owner]
  <1>1. i \in Items /\ req[r].pc = "computed"
    BY DEF EditOwner, At, IInv, LocalsOK, Known
  <1>2. Finish(r) /\ UNCHANGED <<quote, offer, lines>>
        /\ requisition' = [requisition EXCEPT !.status = StatusWritten(r)]
        /\ item' = [item EXCEPT ![i] = row]
    BY DEF EditOwner, IInv, TypeOK, ItemRow
  <1>3. row \in ItemRow /\ row.coded = item[i].coded /\ row.status = item[i].status
    BY <1>1 DEF IInv, TypeOK, ItemRow
  <1> HIDE DEF i, row
  <1>4. /\ item[i].coded => row.coded
        /\ row.status = "READY" =>
             item[i].status = "READY" \/ (Awarded(offer, i) # {} /\ row.coded)
    BY <1>3, Zenon
  <1>5. QED BY <1>1, <1>2, <1>3, <1>4, StatusWrittenOK, ItemWrites, Zenon

\* The award the request saw may have been replaced since, not taken back.
LEMMA LinkItemToErpSafe ==
  ASSUME IInv, NEW r \in Requests, LinkItemToErp(r)
  PROVE  IInv'
  <1> DEFINE i == req[r].item
             row == [item[i] EXCEPT !.coded = TRUE,
                                    !.status = IF req[r].seen THEN "READY" ELSE @]
  <1>1. i \in Items /\ req[r].pc = "computed"
        /\ (req[r].seen => Awarded(offer, i) # {})
    BY DEF LinkItemToErp, At, IInv, LocalsOK, Known
  <1>2. Finish(r) /\ UNCHANGED <<quote, offer, lines>>
        /\ requisition' = [requisition EXCEPT !.status = StatusWritten(r)]
    BY DEF LinkItemToErp
  <1>3. item' = [item EXCEPT ![i] = row]
    BY <1>1 DEF LinkItemToErp, LinkedItems, IInv, TypeOK, ItemRow
  <1>4. row \in ItemRow /\ row.coded = TRUE
    <2>1. item[i] \in ItemRow /\ "READY" \in ItemStatuses
      BY <1>1 DEF IInv, TypeOK, ItemStatuses
    <2>2. CASE req[r].seen
      BY <2>1, <2>2 DEF ItemRow
    <2>3. CASE ~req[r].seen
      BY <2>1, <2>3 DEF ItemRow
    <2>4. QED BY <2>2, <2>3
  <1>5. row.status = "READY" => item[i].status = "READY" \/ Awarded(offer, i) # {}
    BY <1>1 DEF IInv, TypeOK, ItemRow
  <1> HIDE DEF i, row
  <1>6. /\ item[i].coded => row.coded
        /\ row.status = "READY" =>
             item[i].status = "READY" \/ (Awarded(offer, i) # {} /\ row.coded)
    BY <1>4, <1>5, Zenon
  <1>7. QED BY <1>1, <1>2, <1>3, <1>4, <1>6, StatusWrittenOK, ItemWrites, Zenon

\* Offers are added or brought up to date; no item becomes READY by it.
LEMMA OfferWrites ==
  ASSUME IInv, NEW r \in Requests, Finish(r),
         offer' \in [Offers -> OfferRow], item' \in [Items -> ItemRow],
         Stands(offer, offer'),
         \A o \in Offers : offer'[o].item = NoItem => offer'[o].awarded = 0,
         \A i \in Items : /\ item'[i].coded = item[i].coded
                          /\ item'[i].status = "READY" => item[i].status = "READY",
         requisition' \in RequisitionRow,
         requisition.status # "NONE" => requisition'.status # "NONE",
         requisition.status \notin Early => requisition'.status \notin Early,
         UNCHANGED <<quote, lines>>
  PROVE  IInv'
  <1>1. TypeOK'
    BY Finished DEF IInv, TypeOK
  <1>2. \A i \in Items : Awarded(offer, i) # {} => Awarded(offer', i) # {}
    <2>1. \A i \in Items : Awarded(offer, i) \subseteq Awarded(offer', i)
      BY StandingAwards
    <2>2. QED BY <2>1
  <1>3. TablesOK
    BY <1>2 DEF TablesOK, Later
  <1>4. QED BY <1>1, <1>3, Finished, StepSafe

LEMMA CreateOfferSafe ==
  ASSUME IInv, NEW r \in Requests, NEW o \in Offers, NEW i \in Items,
         NEW terms \in OfferTerms, CreateOffer(r, o, i, terms)
  PROVE  IInv'
  <1> DEFINE row == [item |-> i, source |-> "PURCHASING", qty |-> terms.qty,
                     minimum |-> terms.minimum, cost |-> terms.cost, awarded |-> 0]
  <1>1. Finish(r) /\ UNCHANGED <<quote, lines>>
        /\ offer' = [offer EXCEPT ![o] = row]
        /\ item' = [item EXCEPT ![i].status = "QUOTING"]
        /\ requisition' = [requisition EXCEPT !.status = "IN_PROGRESS"]
        /\ offer[o].item = NoItem
    BY DEF CreateOffer, UnusedOffers
  <1>2. row \in OfferRow
    BY ConstantsAssumption DEF OfferRow
  <1>3. \A p \in Offers : offer'[p] = IF p = o THEN row ELSE offer[p]
    BY <1>1 DEF IInv, TypeOK
  <1>4. offer' \in [Offers -> OfferRow]
    BY <1>1, <1>2 DEF IInv, TypeOK
  <1>5. Stands(offer, offer')
    BY <1>1, <1>3 DEF IInv, UnusedNotAwarded, Stands
  <1>6. \A p \in Offers : offer'[p].item = NoItem => offer'[p].awarded = 0
    BY <1>3 DEF IInv, UnusedNotAwarded
  <1>7. /\ item' \in [Items -> ItemRow]
        /\ \A j \in Items : /\ item'[j].coded = item[j].coded
                            /\ item'[j].status = "READY" => item[j].status = "READY"
    BY <1>1 DEF IInv, TypeOK, ItemRow, ItemStatuses
  <1>8. requisition' \in RequisitionRow /\ requisition'.status \notin Early
    BY <1>1 DEF IInv, TypeOK, RequisitionRow, Statuses, Early
  <1>9. QED
    BY <1>1, <1>4, <1>5, <1>6, <1>7, <1>8, OfferWrites DEF Early

\* What materializeSellerOffers makes of an offer: an unused one becomes the
\* seller's, a seller's is brought up to date, and none loses its award.
LEMMA MaterializedOffers ==
  ASSUME IInv, NEW r \in Requests, MaterializeSellerOffers(r), NEW o \in Offers
  PROVE  /\ offer'[o] \in OfferRow
         /\ offer'[o].awarded = offer[o].awarded
         /\ offer[o].item # NoItem => offer'[o].item = offer[o].item
         /\ offer[o].item # NoItem => offer'[o].qty \in {offer[o].qty, Units}
         /\ offer'[o].item = NoItem => offer'[o].awarded = 0
  <1> DEFINE cost == req[r].cost
             quoted == {i \in Items : cost[i] > 0}
             missing == {i \in quoted : SellerOffersOf(i) = {}}
             Taken(id) == \E i \in missing : id[i] = o
             For(id) == CHOOSE i \in missing : id[i] = o
  <1>1. PICK id \in Injection(missing, UnusedOffers) :
          offer'[o] =
            CASE Taken(id) -> SellerOffer(For(id), cost[For(id)])
              [] offer[o].item \in quoted /\ offer[o].source = "SELLER" ->
                   [offer[o] EXCEPT !.cost = cost[offer[o].item], !.qty = Units]
              [] OTHER -> offer[o]
    BY DEF MaterializeSellerOffers
  <1>2. id \in [missing -> UnusedOffers]
    BY DEF Injection
  <1>3. \A i \in Items : cost[i] \in Nat
    BY DEF IInv, TypeOK, Request
  <1>4. missing \subseteq Items /\ quoted \subseteq Items
    OBVIOUS
  <1> HIDE DEF cost, quoted, missing
  <1>5. offer[o] \in OfferRow /\ (offer[o].item = NoItem => offer[o].awarded = 0)
    BY DEF IInv, TypeOK, UnusedNotAwarded
  <1>6. CASE Taken(id)
    <2>1. For(id) \in missing
      BY <1>6
    <2>2. offer[o].item = NoItem
      BY <1>6, <1>2 DEF UnusedOffers
    <2>3. offer[o].item \notin quoted
      BY <2>2, <1>4, ConstantsAssumption
    <2>4. offer'[o] = SellerOffer(For(id), cost[For(id)])
      BY <1>1, <1>6, <2>3
    <2>5. For(id) \in Items /\ cost[For(id)] \in Nat
      BY <2>1, <1>3, <1>4
    <2> HIDE DEF For
    <2>6. QED
      BY <1>5, <2>2, <2>4, <2>5, ConstantsAssumption DEF SellerOffer, OfferRow
  <1>7. CASE ~Taken(id) /\ offer[o].item \in quoted /\ offer[o].source = "SELLER"
    <2>1. offer'[o] = [offer[o] EXCEPT !.cost = cost[offer[o].item], !.qty = Units]
      BY <1>1, <1>7
    <2>2. cost[offer[o].item] \in Nat /\ Units \in Nat
      BY <1>7, <1>3, <1>4, ConstantsAssumption
    <2>3. QED BY <1>5, <2>1, <2>2 DEF OfferRow
  <1>8. CASE ~Taken(id) /\ ~(offer[o].item \in quoted /\ offer[o].source = "SELLER")
    BY <1>1, <1>5, <1>8
  <1>9. QED BY <1>6, <1>7, <1>8

LEMMA MaterializeSafe ==
  ASSUME IInv, NEW r \in Requests, MaterializeSellerOffers(r)
  PROVE  IInv'
  <1>1. Finish(r) /\ UNCHANGED <<quote, requisition, lines>>
        /\ item' = [i \in Items |-> [item[i] EXCEPT !.cost = ReckonedCost(req[r].cost[i])]]
    BY DEF MaterializeSellerOffers
  <1>2. DOMAIN offer' = Offers /\ offer' = [o \in Offers |-> offer'[o]]
    BY DEF MaterializeSellerOffers
  <1>3. offer' \in [Offers -> OfferRow]
    BY <1>2, MaterializedOffers
  <1>4. Stands(offer, offer')
        /\ \A o \in Offers : offer'[o].item = NoItem => offer'[o].awarded = 0
    BY MaterializedOffers DEF Stands
  <1>5. /\ item' \in [Items -> ItemRow]
        /\ \A i \in Items : item'[i].coded = item[i].coded
                            /\ item'[i].status = item[i].status
    <2>1. \A i \in Items : ReckonedCost(req[r].cost[i]) \in Nat
      BY CostTypes DEF IInv, TypeOK, Request
    <2>2. QED BY <1>1, <2>1 DEF IInv, TypeOK, ItemRow
  <1>6. requisition' \in RequisitionRow
    BY <1>1 DEF IInv, TypeOK
  <1>7. QED
    BY <1>1, <1>3, <1>4, <1>5, <1>6, OfferWrites
-----------------------------------------------------------------------------
(* The transactions under the advisory lock.                               *)

\* A request takes the lock when nobody has it.
LEMMA LockTaken ==
  ASSUME IInv, NEW r \in Requests, NEW rec \in Request, LockFree,
         Known(rec, requisition.status, item, offer),
         Locked(rec, item, offer, lines),
         req' = [req EXCEPT ![r] = rec], UNCHANGED tables
  PROVE  IInv'
  <1>1. TypeOK'
    BY DEF IInv, TypeOK, tables
  <1>2. \A s \in Requests : req'[s] = IF s = r THEN rec ELSE req[s]
    BY DEF IInv, TypeOK
  <1>3. LocalsOK'
    BY <1>2 DEF IInv, LocalsOK, tables
  <1>4. OneLock'
    BY <1>2 DEF LockFree, OneLock
  <1>5. UnusedNotAwarded' /\ CatalogueCoded' /\ ReadyIsAwardedAndCoded'
        /\ IssuedAreTheAwards' /\ OrderedIsBought'
    BY DEF IInv, UnusedNotAwarded, CatalogueCoded, ReadyIsAwardedAndCoded,
           IssuedAreTheAwards, Finalized, AwardedLines, OrderedIsBought, tables
  <1>6. QED BY <1>1, <1>3, <1>4, <1>5 DEF IInv

LEMMA LockAllocationSafe ==
  ASSUME IInv, NEW r \in Requests, NEW i \in Items,
         NEW awards \in [Offers -> 0..Units], LockAllocation(r, i, awards)
  PROVE  IInv'
  <1> DEFINE rec == [Idle EXCEPT !.pc = "locked", !.op = "ALLOCATE", !.item = i,
                                 !.awards = awards, !.seen = item[i].coded]
  <1>1. Checked(r, rec) /\ "ALLOCATE" \in Operations /\ LockFree
        /\ lines = {} /\ ValidAllocation(i, awards)
    BY DEF LockAllocation, Checked, Idle, Awardable, Finalized
  <1>2. rec \in Request
    BY <1>1, IdleTypes DEF Request, Idle, IInv, TypeOK, ItemRow
  <1>3. Known(rec, requisition.status, item, offer)
    BY DEF Known, Idle
  <1>4. Locked(rec, item, offer, lines)
    BY <1>1 DEF Locked, Idle, ValidAllocation, Chosen
  <1>5. QED BY <1>1, <1>2, <1>3, <1>4, LockTaken DEF Checked

LEMMA LockIssueSafe ==
  ASSUME IInv, NEW r \in Requests, NEW allowed \in LocalModes, LockIssue(r, allowed)
  PROVE  IInv'
  <1> DEFINE rec == [Idle EXCEPT !.pc = "locked", !.op = "ISSUE",
                                 !.awards = [o \in Offers |-> offer[o].awarded]]
  <1>1. Checked(r, rec) /\ "ISSUE" \in Operations /\ LockFree /\ lines = {}
    BY DEF LockIssue, Checked, Idle, Finalized
  <1>2. [o \in Offers |-> offer[o].awarded] \in [Offers -> 0..Units]
    BY DEF IInv, TypeOK, OfferRow
  <1>3. rec \in Request
    BY <1>1, <1>2, IdleTypes DEF Request, Idle
  <1>4. Known(rec, requisition.status, item, offer)
    BY DEF Known, Idle
  <1>5. Locked(rec, item, offer, lines)
    BY <1>1 DEF Locked, Idle
  <1>6. QED BY <1>1, <1>3, <1>4, <1>5, LockTaken DEF Checked

\* The documents were read under the lock that every award needs.
LEMMA IssueSafe ==
  ASSUME IInv, NEW r \in Requests, IssueSupplierRequisitions(r)
  PROVE  IInv'
  <1>1. req[r].awards = [o \in Offers |-> offer[o].awarded] /\ Finish(r)
        /\ UNCHANGED <<quote, requisition, item, offer>>
    BY DEF IssueSupplierRequisitions, At, IInv, LocalsOK, Locked
  <1>2. lines' = AwardedLines
    BY <1>1 DEF IssueSupplierRequisitions, AwardedLines, Chosen
  <1>3. lines' \subseteq Line
    <2>1. ASSUME NEW o \in Offers, offer[o].awarded > 0
          PROVE  [item |-> offer[o].item, offer |-> o, qty |-> offer[o].awarded] \in Line
      <3>1. offer[o].item \in Items /\ offer[o].awarded \in 1..Units
        BY <2>1, ConstantsAssumption DEF IInv, TypeOK, OfferRow, UnusedNotAwarded
      <3>2. QED BY <3>1 DEF Line
    <2>2. QED BY <1>2, <2>1 DEF AwardedLines
  <1>4. TypeOK'
    BY <1>1, <1>3, Finished DEF IInv, TypeOK
  <1>5. \A s \in Requests : req'[s] = IF s = r THEN Idle ELSE req[s]
    BY <1>1 DEF IInv, TypeOK, Finish
  <1>6. \A s \in Requests : req'[s].pc # "locked"
    BY <1>5 DEF IInv, OneLock, IssueSupplierRequisitions, At, Idle
  <1>7. LocalsOK' /\ OneLock'
    <2>1. \A s \in Requests : Known(req'[s], requisition'.status, item', offer')
      BY <1>1, <1>5, IdleKnows DEF IInv, LocalsOK
    <2>2. QED BY <1>6, <2>1 DEF LocalsOK, Locked, OneLock
  <1>8. UnusedNotAwarded' /\ CatalogueCoded' /\ ReadyIsAwardedAndCoded' /\ OrderedIsBought'
    BY <1>1 DEF IInv, UnusedNotAwarded, CatalogueCoded, ReadyIsAwardedAndCoded,
                OrderedIsBought
  <1>9. IssuedAreTheAwards'
    BY <1>1, <1>2 DEF IssuedAreTheAwards, AwardedLines
  <1>10. QED BY <1>4, <1>7, <1>8, <1>9 DEF IInv

\* The earlier awards of the item are replaced, none is left over and none of
\* another item is touched.
LEMMA AllocateOffersSafe ==
  ASSUME IInv, NEW r \in Requests, NEW enabled \in ApprovalModes,
         AllocateOffers(r, enabled)
  PROVE  IInv'
  <1> DEFINE i == req[r].item
             awards == req[r].awards
             now == IF i \in LocalNew /\ ~req[r].seen THEN "PENDING_ERP_CODE" ELSE "READY"
             new == Recomputed(item', offer', requisition.status, FALSE, enabled)
  <1>1. /\ req[r].pc = "locked" /\ req[r].op = "ALLOCATE" /\ Finish(r)
        /\ offer' = [o \in Offers |-> IF offer[o].item = i
                                     THEN [offer[o] EXCEPT !.awarded = awards[o]] ELSE offer[o]]
        /\ item' = [item EXCEPT ![i].status = now]
        /\ requisition' = [costApproved |-> FALSE, status |-> new]
        /\ UNCHANGED <<quote, lines>>
    BY DEF AllocateOffers, At, OffersAwarded
  <1>2. /\ i \in Items /\ lines = {} /\ Chosen(awards) # {}
        /\ \A o \in Chosen(awards) : offer[o].item = i
        /\ req[r].seen => item[i].coded
    BY <1>1 DEF IInv, LocalsOK, Known, Locked
  <1>3. awards \in [Offers -> 0..Units]
    BY DEF IInv, TypeOK, Request
  <1>4. new \in Statuses \ Closed /\ (new = "DRAFT" <=> requisition.status = "DRAFT")
    BY DEF Recomputed, StatusPastDraft, Statuses, Closed
  <1>5. now \in ItemStatuses /\ (now = "READY" => item[i].coded = TRUE)
    <2>1. i \notin LocalNew => item[i].coded = TRUE
      BY <1>2 DEF IInv, TypeOK, ItemRow, CatalogueCoded
    <2>2. req[r].seen => item[i].coded = TRUE
      BY <1>2 DEF IInv, TypeOK, ItemRow
    <2>3. QED BY <2>1, <2>2 DEF ItemStatuses
  <1> HIDE DEF i, awards, now, new
  <1>6. \A j \in Items : /\ item[j].coded => item'[j].coded
                         /\ j # i => item'[j] = item[j]
                         /\ item'[j] \in ItemRow
    <2>1. \A j \in Items : item'[j].coded = item[j].coded
      BY <1>1 DEF IInv, TypeOK, ItemRow
    <2>2. \A j \in Items : j # i => item'[j] = item[j]
      BY <1>1 DEF IInv, TypeOK
    <2>3. \A j \in Items : item'[j] \in ItemRow
      BY <1>1, <1>5 DEF IInv, TypeOK, ItemRow
    <2>4. QED BY <2>1, <2>2, <2>3, Zenon
  <1>7. item'[i].status = "READY" => item'[i].coded
    BY <1>1, <1>2, <1>5, <1>6 DEF IInv, TypeOK, ItemRow
  <1>8. \A o \in Offers : /\ offer'[o].item = offer[o].item
                          /\ offer'[o].awarded = IF offer[o].item = i THEN awards[o]
                                                   ELSE offer[o].awarded
    BY <1>1 DEF IInv, TypeOK, OfferRow
  <1>9. /\ Awarded(offer', i) # {}
        /\ \A j \in Items : Awarded(offer, j) # {} => Awarded(offer', j) # {}
    <2>1. Chosen(awards) \subseteq Awarded(offer', i)
      BY <1>2, <1>8 DEF Chosen, Awarded, OffersOf
    <2>2. \A j \in Items : j # i => Awarded(offer', j) = Awarded(offer, j)
      BY <1>8 DEF Awarded, OffersOf
    <2>3. QED BY <1>2, <2>1, <2>2
  <1>10. TypeOK'
    <2>1. offer' \in [Offers -> OfferRow]
      BY <1>1, <1>3 DEF IInv, TypeOK, OfferRow
    <2>2. requisition' \in RequisitionRow
      BY <1>1, <1>4 DEF RequisitionRow
    <2>3. item' \in [Items -> ItemRow]
      BY <1>1, <1>6 DEF IInv, TypeOK
    <2>4. QED BY <1>1, <2>1, <2>2, <2>3, Finished DEF IInv, TypeOK
  <1>11. Later(requisition.status, item, offer, requisition'.status, item', offer')
    <2>1. requisition'.status # "NONE"
          /\ (requisition.status \notin Early => requisition'.status \notin Early)
      BY <1>1, <1>4 DEF Early, Statuses, Closed
    <2>2. QED BY <1>6, <1>9, <2>1, Zenon DEF Later
  <1>12. \A s \in Requests : req'[s] = IF s = r THEN Idle ELSE req[s]
    BY <1>1 DEF IInv, TypeOK, Finish
  <1>13. \A s \in Requests : req'[s].pc # "locked"
    BY <1>1, <1>12 DEF IInv, OneLock, Idle
  <1>14. LocalsOK' /\ OneLock'
    <2>1. ASSUME NEW s \in Requests
          PROVE  Known(req'[s], requisition'.status, item', offer')
      <3>1. CASE s = r
        BY <3>1, <1>12, IdleKnows
      <3>2. CASE s # r
        <4>1. Known(req[s], requisition.status, item, offer)
          BY DEF IInv, LocalsOK
        <4>2. Known(req[s], requisition'.status, item', offer')
          BY <4>1, <1>11, KnownLater
        <4>3. QED BY <3>2, <1>12, <4>2
      <3>3. QED BY <3>1, <3>2
    <2>2. QED BY <1>13, <2>1 DEF LocalsOK, Locked, OneLock
  <1>15. UnusedNotAwarded'
    BY <1>2, <1>8, ConstantsAssumption DEF IInv, UnusedNotAwarded
  <1>16. CatalogueCoded'
    BY <1>6, Zenon DEF IInv, CatalogueCoded
  <1>17. ReadyIsAwardedAndCoded'
    <2>1. ASSUME NEW j \in Items, item'[j].status = "READY"
          PROVE  Awarded(offer', j) # {} /\ item'[j].coded
      <3>1. CASE j = i
        BY <3>1, <2>1, <1>7, <1>9, Zenon
      <3>2. CASE j # i
        <4>1. item'[j] = item[j]
          BY <3>2, <1>6, Zenon
        <4>2. Awarded(offer, j) # {} /\ item[j].coded
          BY <4>1, <2>1 DEF IInv, ReadyIsAwardedAndCoded
        <4>3. QED BY <4>1, <4>2, <1>6, <1>9, Zenon
      <3>3. QED BY <3>1, <3>2
    <2>2. QED BY <2>1, Zenon DEF ReadyIsAwardedAndCoded
  <1>18. IssuedAreTheAwards'
    BY <1>1, <1>2 DEF IssuedAreTheAwards, Finalized
  <1>19. OrderedIsBought'
    <2>1. quote' = quote
      BY <1>1
    <2>2. QED BY <2>1, <1>6, <1>9, Zenon DEF IInv, OrderedIsBought
  <1>20. QED
    BY <1>10, <1>14, <1>15, <1>16, <1>17, <1>18, <1>19 DEF IInv
-----------------------------------------------------------------------------
LEMMA NextSafe == ASSUME IInv, Next PROVE IInv'
  <1>1. ASSUME NEW r \in Requests, Prepare(r) PROVE IInv'
    BY <1>1, CheckRequesterSafe, CreateRequisitionSafe, FindSafe, MaterializeSafe,
       WriteReferenceSafe, RequisitionStepsSafe DEF Prepare
  <1>2. ASSUME NEW r \in Requests, Edit(r) PROVE IInv'
    BY <1>2, CheckEditSafe, EditCostSafe, ComputeSafe, EditOwnerSafe, CheckLinkSafe,
       LinkItemToErpSafe DEF Edit
  <1>3. ASSUME NEW r \in Requests, Buy(r) PROVE IInv'
    BY <1>3, CheckBuyerSafe, CreateOfferSafe, LockAllocationSafe, AllocateOffersSafe,
       LockIssueSafe, IssueSafe, RequisitionStepsSafe DEF Buy
  <1>4. ASSUME NEW r \in Requests, Order(r) PROVE IInv'
    BY <1>4, CheckOrderSafe, MarkOrderGeneratedSafe, RequisitionStepsSafe DEF Order
  <1>5. ASSUME NEW r \in Requests, Stop(r) PROVE IInv'
    BY <1>5, StopSafe DEF Stop
  <1>6. QED BY <1>1, <1>2, <1>3, <1>4, <1>5, CancelQuoteSafe DEF Next

LEMMA IInvHolds == Spec => []IInv
  <1>1. IInv /\ [Next]_vars => IInv'
    BY NextSafe, StutterSafe
  <1>2. QED BY InitIInv, <1>1, PTL DEF Spec

\* The tables of the requisition, its items, its offers and the issued lines
\* keep their types; in particular no line is issued for an offer of no item
\* (prisma-purchase-requisition.datasource.ts).
THEOREM TypeCorrect == Spec => []TypeOK
  <1>1. IInv => TypeOK
    BY DEF IInv
  <1>2. QED BY <1>1, IInvHolds, PTL

\* linkItemToErp decides on an award it read before, allocateOffers on a code
\* it read under the lock: however many of both overlap, an item is READY only
\* with an award and a code.
THEOREM ReadyItems == Spec => []ReadyIsAwardedAndCoded
  <1>1. IInv => ReadyIsAwardedAndCoded
    BY DEF IInv
  <1>2. QED BY <1>1, IInvHolds, PTL

\* The advisory lock keeps every award out from the moment the documents of the
\* suppliers are read, and their existence keeps it out for good
\* (allocateOffers, selectOffer, generateSupplierRequisitions).
THEOREM IssuedForGood == Spec => []IssuedAreTheAwards
  <1>1. IInv => IssuedAreTheAwards
    BY DEF IInv
  <1>2. QED BY <1>1, IInvHolds, PTL

\* isReadyForOrder is asked before the file of the order is made and not again:
\* what it saw of the items still holds when the order is recorded.
THEOREM OrdersAreBought == Spec => []OrderedIsBought
  <1>1. IInv => OrderedIsBought
    BY DEF IInv
  <1>2. QED BY <1>1, IInvHolds, PTL

DraftStep ==
  requisition.status = "DRAFT" => requisition'.status \in {"DRAFT", "SUBMITTED", "CANCELLED"}

LEMMA PrepareKeepsDraft ==
  ASSUME IInv, NEW r \in Requests, Prepare(r)
  PROVE  DraftStep
  <1>1. CASE UNCHANGED requisition
    BY <1>1 DEF DraftStep
  <1>2. CASE CreateRequisition(r) \/ SubmitRequisition(r)
    BY <1>2 DEF CreateRequisition, SubmitRequisition, DraftStep, IInv, TypeOK, RequisitionRow
  <1>3. CASE AssignRequisition(r)
    BY <1>3 DEF AssignRequisition, At, DraftStep, IInv, TypeOK, RequisitionRow, LocalsOK,
                Known, Early
  <1>4. QED
    BY <1>1, <1>2, <1>3
    DEF Prepare, CheckEnsure, FindDraft, FindExisting, MaterializeSellerOffers,
        CheckReference, WriteReference, CheckSubmit, CheckAssign, Checked, tables

LEMMA EditKeepsDraft ==
  ASSUME IInv, NEW r \in Requests, Edit(r)
  PROVE  DraftStep
  <1>1. CASE UNCHANGED requisition
    BY <1>1 DEF DraftStep
  <1>2. ASSUME NEW cost \in SellerCosts, NEW enabled \in ApprovalModes,
               EditCost(r, cost, enabled)
        PROVE  DraftStep
    BY <1>2 DEF EditCost, Recomputed, DraftStep
  <1>3. ASSUME req[r].pc = "computed",
               requisition' = [requisition EXCEPT !.status = StatusWritten(r)]
        PROVE  DraftStep
    BY <1>3, StatusWrittenOK DEF DraftStep
  <1>4. QED
    BY <1>1, <1>2, <1>3
    DEF Edit, CheckEdit, ComputeEdit, EditOwner, CheckLink, ComputeLink, LinkItemToErp,
        Checked, At, tables

LEMMA BuyKeepsDraft ==
  ASSUME IInv, NEW r \in Requests, Buy(r)
  PROVE  DraftStep
  <1>1. CASE UNCHANGED requisition
    BY <1>1 DEF DraftStep
  <1>2. CASE req[r].op = "OFFER"
    BY <1>2 DEF DraftStep, IInv, LocalsOK, Known, Early
  <1>3. ASSUME NEW enabled \in ApprovalModes,
               AllocateOffers(r, enabled) \/ ApproveCostVariance(r, enabled)
        PROVE  DraftStep
    BY <1>3 DEF AllocateOffers, ApproveCostVariance, Recomputed, DraftStep
  <1>4. QED
    BY <1>1, <1>2, <1>3
    DEF Buy, CheckOffer, CreateOffer, LockAllocation, LockIssue,
        IssueSupplierRequisitions, CheckApproval, Checked, At, tables

LEMMA NextKeepsDraft ==
  ASSUME IInv, [Next]_vars
  PROVE  DraftStep
  <1>1. CASE UNCHANGED requisition
    BY <1>1 DEF DraftStep
  <1>2. ASSUME NEW r \in Requests, NEW enabled \in ApprovalModes, MarkCompleted(r, enabled)
        PROVE  DraftStep
    BY <1>2 DEF MarkCompleted, Orderable, DraftStep, IInv, TypeOK, RequisitionRow
  <1>3. CASE CancelQuote
    BY <1>3 DEF CancelQuote, DraftStep, IInv, TypeOK, RequisitionRow
  <1>4. ASSUME NEW r \in Requests, Order(r) PROVE DraftStep
    BY <1>1, <1>2, <1>4 DEF Order, CheckOrder, MarkOrderGenerated, Checked, tables
  <1>5. QED
    BY <1>1, <1>3, <1>4, PrepareKeepsDraft, EditKeepsDraft, BuyKeepsDraft
    DEF Next, Stop, vars, tables

\* recomputeStatus leaves the draft it read alone, and what it computed earlier
\* for a requisition past its draft never lands on one: a draft leaves its
\* status by submit, or with the cancellation of its quote.
THEOREM DraftsAreSubmitted == Spec => DraftLeftBySubmission
  <1>1. IInv /\ [Next]_vars => [DraftStep]_vars
    BY NextKeepsDraft
  <1>2. QED
    BY <1>1, IInvHolds, PTL DEF Spec, DraftLeftBySubmission, DraftStep
-----------------------------------------------------------------------------
(* The units awarded.  A sum over a finite set is a fold of the library;    *)
(* all that is needed of it is that it depends on the summands alone.      *)

Total(w, S) == MapThenSumSet(LAMBDA o : w[o], S)

LEMMA SumOfAwarded ==
  ASSUME NEW off, NEW S
  PROVE  MapThenSumSet(LAMBDA o : off[o].awarded, S) = Total([o \in S |-> off[o].awarded], S)
  BY DEF MapThenSumSet, MapThenFoldSet, Total

LEMMA SumOfAwards ==
  ASSUME NEW awards, NEW S
  PROVE  MapThenSumSet(LAMBDA o : awards[o], S) = Total([o \in S |-> awards[o]], S)
  BY DEF MapThenSumSet, MapThenFoldSet, Total

LEMMA NothingAwarded ==
  ASSUME NEW off, NEW i, Awarded(off, i) = {}
  PROVE  AwardedUnits(off, i) = 0
  <1>1. MapThenSumSet(LAMBDA o : off[o].awarded, {}) = 0
    BY DEF MapThenSumSet, MapThenFoldSet
  <1>2. QED BY <1>1 DEF AwardedUnits

LEMMA SameAwards ==
  ASSUME NEW off, NEW off2, NEW i, Awarded(off2, i) = Awarded(off, i),
         \A o \in Awarded(off, i) : off2[o].awarded = off[o].awarded
  PROVE  AwardedUnits(off2, i) = AwardedUnits(off, i)
  <1> DEFINE S == Awarded(off, i)
  <1>1. [o \in S |-> off2[o].awarded] = [o \in S |-> off[o].awarded]
    OBVIOUS
  <1>2. AwardedUnits(off2, i) = Total([o \in S |-> off2[o].awarded], S)
    BY SumOfAwarded DEF AwardedUnits
  <1>3. AwardedUnits(off, i) = Total([o \in S |-> off[o].awarded], S)
    BY SumOfAwarded DEF AwardedUnits
  <1>4. QED BY <1>1, <1>2, <1>3

LEMMA NewAwards ==
  ASSUME NEW off, NEW i, NEW awards, Awarded(off, i) = Chosen(awards),
         \A o \in Chosen(awards) : off[o].awarded = awards[o]
  PROVE  AwardedUnits(off, i) = MapThenSumSet(LAMBDA o : awards[o], Chosen(awards))
  <1> DEFINE S == Chosen(awards)
  <1>1. [o \in S |-> off[o].awarded] = [o \in S |-> awards[o]]
    OBVIOUS
  <1>2. AwardedUnits(off, i) = Total([o \in S |-> off[o].awarded], S)
    BY SumOfAwarded DEF AwardedUnits
  <1>3. MapThenSumSet(LAMBDA o : awards[o], S) = Total([o \in S |-> awards[o]], S)
    BY SumOfAwards
  <1>4. QED BY <1>1, <1>2, <1>3

\* The awards of an item are all of it or nothing, and fit their offers.
AwardsFit ==
  /\ \A i \in Items : Awarded(offer, i) # {} => AwardedUnits(offer, i) = Units
  /\ \A o \in Offers : offer[o].item \in Items => offer[o].awarded <= offer[o].qty

\* What validateSupplierOfferAllocations found still holds at the write.
Validated(q, off) ==
  q.pc = "locked" /\ q.op = "ALLOCATE" =>
    /\ \A o \in Chosen(q.awards) : q.awards[o] <= off[o].qty
    /\ MapThenSumSet(LAMBDA o : q.awards[o], Chosen(q.awards)) = Units

AwardsInv == AwardsFit /\ \A r \in Requests : Validated(req[r], offer)

\* An offer is brought up to date with all the units of its item.
TermsStand ==
  \A o \in Offers : offer[o].item # NoItem => offer'[o].qty \in {offer[o].qty, Units}

LEMMA AwardsStand ==
  ASSUME IInv, IInv', AwardsInv, Stands(offer, offer'), TermsStand,
         \A s \in Requests : req'[s] = req[s] \/ Validated(req'[s], offer')
  PROVE  AwardsInv'
  <1>1. \A o \in Offers : /\ offer[o] \in OfferRow /\ offer'[o] \in OfferRow
                          /\ offer[o].item = NoItem => offer[o].awarded = 0
    BY DEF IInv, TypeOK, UnusedNotAwarded
  <1>2. \A o \in Offers : offer'[o].awarded = offer[o].awarded
    BY DEF Stands
  <1>3. ASSUME NEW i \in Items, Awarded(offer', i) # {}
        PROVE  AwardedUnits(offer', i) = Units
    <2>1. Awarded(offer', i) = Awarded(offer, i)
      BY <1>1, <1>2, ConstantsAssumption DEF Stands, Awarded, OffersOf, OfferRow
    <2>2. \A o \in Awarded(offer, i) : offer'[o].awarded = offer[o].awarded
      BY <1>2 DEF Awarded, OffersOf
    <2>3. AwardedUnits(offer', i) = AwardedUnits(offer, i)
      BY <2>1, <2>2, SameAwards
    <2>4. QED BY <1>3, <2>1, <2>3 DEF AwardsInv, AwardsFit
  <1>4. ASSUME NEW o \in Offers, offer'[o].item \in Items
        PROVE  offer'[o].awarded <= offer'[o].qty
    <2>1. CASE offer[o].item = NoItem
      BY <1>1, <1>2, <2>1, ConstantsAssumption DEF OfferRow
    <2>2. CASE offer[o].item # NoItem
      <3>1. offer[o].item \in Items
        BY <1>1, <2>2 DEF OfferRow
      <3>2. offer[o].awarded <= offer[o].qty /\ offer[o].awarded <= Units
        BY <1>1, <3>1, ConstantsAssumption DEF AwardsInv, AwardsFit, OfferRow
      <3>3. QED BY <1>2, <2>2, <3>2 DEF TermsStand
    <2>3. QED BY <2>1, <2>2
  <1>5. ASSUME NEW s \in Requests
        PROVE  Validated(req'[s], offer')
    <2>1. CASE req'[s] = req[s]
      <3>1. Validated(req[s], offer)
        BY DEF AwardsInv
      <3>2. ASSUME NEW o \in Chosen(req[s].awards), req[s].pc = "locked", req[s].op = "ALLOCATE"
            PROVE  req[s].awards[o] <= offer'[o].qty
        <4>1. req[s].awards[o] <= offer[o].qty /\ offer[o].item \in Items /\ o \in Offers
          BY <3>1, <3>2 DEF Validated, IInv, LocalsOK, Locked, Known, Chosen
        <4>2. req[s].awards[o] \in 0..Units
          BY <4>1 DEF IInv, TypeOK, Request
        <4>3. offer'[o].qty \in {offer[o].qty, Units}
          BY <4>1, ConstantsAssumption DEF TermsStand
        <4>4. QED BY <4>1, <4>2, <4>3, ConstantsAssumption
      <3>3. Validated(req[s], offer')
        BY <3>1, <3>2 DEF Validated
      <3>4. QED BY <2>1, <3>3
    <2>2. CASE req'[s] # req[s]
      BY <2>2
    <2>3. QED BY <2>1, <2>2
  <1>6. QED BY <1>3, <1>4, <1>5 DEF AwardsInv, AwardsFit

\* The steps that write no offer and take no lock.
LEMMA NoOfferWritten ==
  ASSUME IInv, IInv', AwardsInv, UNCHANGED offer,
         \A s \in Requests : req'[s] = req[s] \/ Validated(req'[s], offer')
  PROVE  AwardsInv'
  BY AwardsStand DEF Stands, TermsStand

\* No request takes the lock for an award.
NoneAllocates ==
  \A s \in Requests : \/ req'[s] = req[s]
                      \/ req'[s].pc # "locked" \/ req'[s].op # "ALLOCATE"

LEMMA QuietStep ==
  ASSUME IInv, IInv', AwardsInv, UNCHANGED offer, NoneAllocates
  PROVE  AwardsInv'
  BY NoOfferWritten DEF NoneAllocates, Validated

LEMMA FinishedQuietly ==
  ASSUME IInv, NEW r \in Requests, Finish(r)
  PROVE  NoneAllocates
  BY DEF IInv, TypeOK, Finish, Idle, NoneAllocates

LEMMA MaterializeKeepsAwards ==
  ASSUME IInv, IInv', AwardsInv, NEW r \in Requests, MaterializeSellerOffers(r)
  PROVE  AwardsInv'
  <1>1. Stands(offer, offer') /\ TermsStand
    BY MaterializedOffers DEF Stands, TermsStand
  <1>2. NoneAllocates
    BY FinishedQuietly DEF MaterializeSellerOffers
  <1>3. QED BY <1>1, <1>2, AwardsStand DEF NoneAllocates, Validated

LEMMA PrepareKeepsAwards ==
  ASSUME IInv, IInv', AwardsInv, NEW r \in Requests, Prepare(r)
  PROVE  AwardsInv'
  <1>1. CASE MaterializeSellerOffers(r)
    BY <1>1, MaterializeKeepsAwards
  <1>2. CASE UNCHANGED offer /\ NoneAllocates
    BY <1>2, QuietStep
  <1>3. CASE CheckEnsure(r) \/ CheckReference(r) \/ CheckSubmit(r) \/ CheckAssign(r)
    <2>1. UNCHANGED offer /\ NoneAllocates
      BY <1>3 DEF IInv, TypeOK, CheckEnsure, CheckReference, CheckSubmit, CheckAssign,
                  Checked, tables, Idle, NoneAllocates
    <2>2. QED BY <1>2, <2>1
  <1>4. CASE CreateRequisition(r) \/ FindDraft(r)
    <2>1. UNCHANGED offer /\ NoneAllocates
      BY <1>4 DEF IInv, TypeOK, Request, CreateRequisition, FindDraft, tables, NoneAllocates
    <2>2. QED BY <1>2, <2>1
  <1>5. ASSUME NEW i \in Items, NEW cost \in SellerCosts, WriteReference(r, i, cost)
        PROVE  AwardsInv'
    <2>1. UNCHANGED offer
      BY <1>5 DEF WriteReference
    <2>2. CASE Finish(r)
      BY <2>1, <2>2, FinishedQuietly, QuietStep
    <2>3. CASE req' = [req EXCEPT ![r].op = "ENSURE", ![r].cost = quote'.cost]
      <3>1. NoneAllocates
        BY <2>3, <1>5 DEF IInv, TypeOK, Request, NoneAllocates
      <3>2. QED BY <2>1, <3>1, QuietStep
    <2>4. QED BY <1>5, <2>2, <2>3 DEF WriteReference
  <1>6. CASE FindExisting(r) \/ SubmitRequisition(r) \/ AssignRequisition(r)
    BY <1>6, FinishedQuietly, QuietStep
    DEF FindExisting, SubmitRequisition, AssignRequisition, tables
  <1>7. QED BY <1>1, <1>3, <1>4, <1>5, <1>6 DEF Prepare

LEMMA EditKeepsAwards ==
  ASSUME IInv, IInv', AwardsInv, NEW r \in Requests, Edit(r)
  PROVE  AwardsInv'
  <1>1. ASSUME NEW i \in Items, NEW op \in {"EDIT_COST", "EDIT_OWNER"}, CheckEdit(r, i, op)
        PROVE  AwardsInv'
    <2>1. UNCHANGED offer /\ NoneAllocates
      BY <1>1 DEF IInv, TypeOK, CheckEdit, Checked, tables, Idle, NoneAllocates
    <2>2. QED BY <2>1, QuietStep
  <1>2. ASSUME NEW i \in Items, CheckLink(r, i)
        PROVE  AwardsInv'
    <2>1. UNCHANGED offer /\ NoneAllocates
      BY <1>2 DEF IInv, TypeOK, CheckLink, Checked, tables, Idle, NoneAllocates
    <2>2. QED BY <2>1, QuietStep
  <1>3. ASSUME NEW enabled \in ApprovalModes, ComputeEdit(r, enabled) \/ ComputeLink(r, enabled)
        PROVE  AwardsInv'
    <2> DEFINE read == IF req[r].op = "LINK" THEN RecomputedNow(LinkedItems(r), enabled)
                       ELSE RecomputedNow(item, enabled)
    <2>1. UNCHANGED offer /\ req' = [req EXCEPT ![r].pc = "computed", ![r].status = read]
      BY <1>3 DEF ComputeEdit, ComputeLink, At, tables
    <2> HIDE DEF read
    <2>2. NoneAllocates
      BY <2>1 DEF IInv, TypeOK, Request, NoneAllocates
    <2>3. QED BY <2>1, <2>2, QuietStep
  <1>4. ASSUME UNCHANGED offer, Finish(r)
        PROVE  AwardsInv'
    BY <1>4, FinishedQuietly, QuietStep
  <1>5. QED
    BY <1>1, <1>2, <1>3, <1>4 DEF Edit, EditCost, EditOwner, LinkItemToErp

\* validateSupplierOfferAllocations, under the lock.
LEMMA LockAllocationKeepsAwards ==
  ASSUME IInv, IInv', AwardsInv, NEW r \in Requests, NEW i \in Items,
         NEW awards \in [Offers -> 0..Units], LockAllocation(r, i, awards)
  PROVE  AwardsInv'
  <1> DEFINE rec == [Idle EXCEPT !.pc = "locked", !.op = "ALLOCATE", !.item = i,
                                 !.awards = awards, !.seen = item[i].coded]
  <1>1. UNCHANGED offer /\ ValidAllocation(i, awards) /\ req' = [req EXCEPT ![r] = rec]
    BY DEF LockAllocation, Checked, tables
  <1>2. rec.awards = awards
    BY DEF Idle
  <1> HIDE DEF rec
  <1>3. \A o \in Chosen(awards) : awards[o] <= offer'[o].qty
    BY <1>1, ConstantsAssumption DEF ValidAllocation, Chosen, IInv, TypeOK, OfferRow
  <1>4. MapThenSumSet(LAMBDA o : awards[o], Chosen(awards)) = Units
    BY <1>1 DEF ValidAllocation
  <1>5. Validated(rec, offer')
    BY <1>2, <1>3, <1>4 DEF Validated
  <1>6. \A s \in Requests : req'[s] = IF s = r THEN rec ELSE req[s]
    BY <1>1 DEF IInv, TypeOK
  <1>7. QED BY <1>1, <1>5, <1>6, NoOfferWritten

\* The awards of the item are replaced by the ones that were validated.
LEMMA AllocateKeepsAwards ==
  ASSUME IInv, IInv', AwardsInv, NEW r \in Requests, NEW enabled \in ApprovalModes,
         AllocateOffers(r, enabled)
  PROVE  AwardsInv'
  <1> DEFINE i == req[r].item
             awards == req[r].awards
  <1>1. /\ req[r].pc = "locked" /\ req[r].op = "ALLOCATE" /\ Finish(r)
        /\ offer' = [o \in Offers |-> IF offer[o].item = i
                                     THEN [offer[o] EXCEPT !.awarded = awards[o]] ELSE offer[o]]
    BY DEF AllocateOffers, At, OffersAwarded
  <1>2. /\ i \in Items /\ \A o \in Chosen(awards) : offer[o].item = i
        /\ \A o \in Chosen(awards) : awards[o] <= offer[o].qty
        /\ MapThenSumSet(LAMBDA o : awards[o], Chosen(awards)) = Units
    BY <1>1 DEF IInv, LocalsOK, Known, Locked, AwardsInv, Validated
  <1>3. awards \in [Offers -> 0..Units]
    BY DEF IInv, TypeOK, Request
  <1> HIDE DEF i, awards
  <1>4. \A o \in Offers : /\ offer'[o].item = offer[o].item
                          /\ offer'[o].qty = offer[o].qty
                          /\ offer'[o].awarded = IF offer[o].item = i THEN awards[o]
                                                   ELSE offer[o].awarded
    BY <1>1 DEF IInv, TypeOK, OfferRow
  <1>5. ASSUME NEW j \in Items, Awarded(offer', j) # {}
        PROVE  AwardedUnits(offer', j) = Units
    <2>1. CASE j = i
      <3>1. Awarded(offer', i) = Chosen(awards)
        BY <1>2, <1>4 DEF Awarded, OffersOf, Chosen
      <3>2. \A o \in Chosen(awards) : offer'[o].awarded = awards[o]
        BY <1>2, <1>4 DEF Chosen
      <3>3. QED BY <1>2, <2>1, <3>1, <3>2, NewAwards
    <2>2. CASE j # i
      <3>1. Awarded(offer', j) = Awarded(offer, j)
            /\ \A o \in Awarded(offer, j) : offer'[o].awarded = offer[o].awarded
        BY <1>4, <2>2 DEF Awarded, OffersOf
      <3>2. AwardedUnits(offer', j) = AwardedUnits(offer, j)
        BY <3>1, SameAwards
      <3>3. QED BY <1>5, <3>1, <3>2 DEF AwardsInv, AwardsFit
    <2>3. QED BY <2>1, <2>2
  <1>6. ASSUME NEW o \in Offers, offer'[o].item \in Items
        PROVE  offer'[o].awarded <= offer'[o].qty
    <2>1. CASE offer[o].item = i
      <3>1. offer[o].qty \in Nat /\ awards[o] \in 0..Units
        BY <1>3 DEF IInv, TypeOK, OfferRow
      <3>2. awards[o] <= offer[o].qty
        BY <1>2, <3>1, ConstantsAssumption DEF Chosen
      <3>3. QED BY <1>4, <2>1, <3>2
    <2>2. CASE offer[o].item # i
      BY <1>4, <1>6, <2>2 DEF AwardsInv, AwardsFit
    <2>3. QED BY <2>1, <2>2
  <1>7. \A s \in Requests : Validated(req'[s], offer')
    BY <1>1 DEF IInv, TypeOK, OneLock, Finish, Idle, Validated
  <1>8. QED BY <1>5, <1>6, <1>7 DEF AwardsInv, AwardsFit

LEMMA CreateOfferKeepsAwards ==
  ASSUME IInv, IInv', AwardsInv, NEW r \in Requests, NEW o \in Offers, NEW i \in Items,
         NEW terms \in OfferTerms, CreateOffer(r, o, i, terms)
  PROVE  AwardsInv'
  <1>1. /\ Finish(r) /\ offer[o].item = NoItem
        /\ offer' = [offer EXCEPT ![o] =
             [item |-> i, source |-> "PURCHASING", qty |-> terms.qty,
              minimum |-> terms.minimum, cost |-> terms.cost, awarded |-> 0]]
    BY DEF CreateOffer, UnusedOffers
  <1>2. Stands(offer, offer') /\ TermsStand
    BY <1>1 DEF IInv, TypeOK, UnusedNotAwarded, Stands, TermsStand
  <1>3. NoneAllocates
    BY <1>1, FinishedQuietly
  <1>4. QED BY <1>2, <1>3, AwardsStand DEF NoneAllocates, Validated

LEMMA BuyKeepsAwards ==
  ASSUME IInv, IInv', AwardsInv, NEW r \in Requests, Buy(r)
  PROVE  AwardsInv'
  <1>1. CASE CheckOffer(r) \/ CheckApproval(r)
    <2>1. UNCHANGED offer /\ NoneAllocates
      BY <1>1 DEF IInv, TypeOK, CheckOffer, CheckApproval, Checked, tables, Idle, NoneAllocates
    <2>2. QED BY <2>1, QuietStep
  <1>2. ASSUME NEW allowed \in LocalModes, LockIssue(r, allowed)
        PROVE  AwardsInv'
    <2>1. UNCHANGED offer /\ NoneAllocates
      BY <1>2 DEF IInv, TypeOK, LockIssue, Checked, tables, Idle, NoneAllocates
    <2>2. QED BY <2>1, QuietStep
  <1>3. ASSUME UNCHANGED offer, Finish(r)
        PROVE  AwardsInv'
    BY <1>3, FinishedQuietly, QuietStep
  <1>4. CASE IssueSupplierRequisitions(r)
    BY <1>3, <1>4 DEF IssueSupplierRequisitions
  <1>5. ASSUME NEW enabled \in ApprovalModes, ApproveCostVariance(r, enabled)
        PROVE  AwardsInv'
    BY <1>3, <1>5 DEF ApproveCostVariance
  <1>6. QED
    BY <1>1, <1>2, <1>4, <1>5, CreateOfferKeepsAwards, LockAllocationKeepsAwards,
       AllocateKeepsAwards DEF Buy

LEMMA OrderKeepsAwards ==
  ASSUME IInv, IInv', AwardsInv, NEW r \in Requests, Order(r)
  PROVE  AwardsInv'
  <1>1. ASSUME NEW enabled \in ApprovalModes, CheckOrder(r, enabled)
        PROVE  AwardsInv'
    <2>1. UNCHANGED offer /\ NoneAllocates
      BY <1>1 DEF IInv, TypeOK, CheckOrder, Checked, tables, Idle, NoneAllocates
    <2>2. QED BY <2>1, QuietStep
  <1>2. CASE MarkOrderGenerated(r)
    <2>1. UNCHANGED offer /\ NoneAllocates
      BY <1>2 DEF IInv, TypeOK, Request, MarkOrderGenerated, NoneAllocates
    <2>2. QED BY <2>1, QuietStep
  <1>3. ASSUME NEW enabled \in ApprovalModes, MarkCompleted(r, enabled)
        PROVE  AwardsInv'
    BY <1>3, FinishedQuietly, QuietStep DEF MarkCompleted
  <1>4. QED BY <1>1, <1>2, <1>3 DEF Order

LEMMA NextKeepsAwards ==
  ASSUME IInv, IInv', AwardsInv, [Next]_vars
  PROVE  AwardsInv'
  <1>1. CASE CancelQuote \/ UNCHANGED vars
    <2>1. UNCHANGED offer /\ NoneAllocates
      BY <1>1 DEF CancelQuote, vars, NoneAllocates
    <2>2. QED BY <2>1, QuietStep
  <1>2. ASSUME NEW r \in Requests, Stop(r) PROVE AwardsInv'
    BY <1>2, FinishedQuietly, QuietStep DEF Stop, tables
  <1>3. QED
    BY <1>1, <1>2, PrepareKeepsAwards, EditKeepsAwards, BuyKeepsAwards, OrderKeepsAwards
    DEF Next

LEMMA InitAwards == Init => AwardsInv
  <1> SUFFICES ASSUME Init PROVE AwardsInv
    OBVIOUS
  <1>1. \A o \in Offers : offer[o].awarded = 0 /\ offer[o].qty = 0
    BY DEF Init, NoOffer
  <1>2. \A i \in Items : Awarded(offer, i) = {}
    BY <1>1 DEF Awarded, OffersOf
  <1>3. \A r \in Requests : Validated(req[r], offer)
    BY DEF Init, Idle, Validated
  <1>4. QED BY <1>1, <1>2, <1>3 DEF AwardsInv, AwardsFit

\* Awards are validated and written under the advisory lock, an offer only ever
\* gains units afterwards, and none of its terms are given up: whatever the
\* buyers, the requester and the seller do, what is awarded of an item is all
\* of it or nothing, within what each supplier offered
\* (validateSupplierOfferAllocations, allocateOffers, materializeSellerOffers).
THEOREM AwardsAreWhole == Spec => []AwardsCoverTheItem
  <1>1. IInv /\ IInv' /\ AwardsInv /\ [Next]_vars => AwardsInv'
    BY NextKeepsAwards
  <1>2. AwardsInv => AwardsCoverTheItem
    BY NothingAwarded DEF AwardsInv, AwardsFit, AwardsCoverTheItem, OffersOf
  <1>3. QED BY InitAwards, <1>1, <1>2, IInvHolds, PTL DEF Spec
=============================================================================
