----------------------- MODULE QuoteLifecycle_proofs -----------------------
(***************************************************************************)
(* Proofs that, for any number of quotes and of requests in flight, the    *)
(* tables keep their types, a quote linked to the ERP is never cancelled,  *)
(* the event of a registration tells the folio it replaced, the chains of  *)
(* revisions are sound, and a requisition is completed by the order of its *)
(* quote alone.                                                            *)
(***************************************************************************)
EXTENDS QuoteLifecycle, FiniteSetTheorems, TLAPS

SubmissionTargets == {"NONE", "PENDING_APPROVAL", "QUOTED"}

\* What a request in flight carries from its checks to its writes.
LocalsOf(l) ==
  /\ l.pc # "idle" => l.q \in Quotes
  /\ l.op = "SAVE" => l.target \in SubmissionTargets
  /\ l.op = "SAVE" /\ l.pc = "read" => l.seenStatus \in Editable
  /\ l.op = "CHANGE" => l.target \in Statuses

LocalsOK == \A r \in Requests : LocalsOf(req[r])

\* A row that was never written has no folio yet.
UnusedUnlinked == \A q \in Quotes : Unused(q) => ~LinkedToErp(q)

IInv ==
  /\ TypeOK
  /\ LocalsOK
  /\ UnusedUnlinked
  /\ LinkedNeverCancelled

\* A step that leaves the folios alone, and neither cancels a linked quote
\* nor forgets a row.
LinksKept ==
  \A q \in Quotes :
    /\ quote'[q].erpQuote = quote[q].erpQuote
    /\ quote'[q].erpOrder = quote[q].erpOrder
    /\ quote'[q].status = "CANCELLED"
         => quote[q].status = "CANCELLED" \/ ~LinkedToErp(q)
    /\ quote'[q].status = "ABSENT" => quote[q].status = "ABSENT"

\* The inductive invariant needs no more of a step than this.
Safe == TypeOK' /\ LocalsOK' /\ LinksKept
-----------------------------------------------------------------------------
LEMMA IdleType == Idle \in Request /\ LocalsOf(Idle)
  BY DEF Idle, Request, Ids, Numbers, RowStatuses, LocalsOf

LEMMA AbsentType == AbsentRow \in QuoteRow
  BY DEF AbsentRow, QuoteRow, RowStatuses, Numbers, Ids

LEMMA NewRowType ==
  ASSUME NEW status \in Statuses, NEW c \in {"SYSTEM", "EXCEL_IMPORT"},
         NEW i \in {"IN_STOCK", "TO_PURCHASE"}, NEW t \in Terms \cup {"NONE"}
  PROVE  /\ NewRow(status, c, i, t) \in QuoteRow
         /\ NewRow(status, c, i, t).status = status
         /\ NewRow(status, c, i, t).erpQuote = NoNumber
         /\ NewRow(status, c, i, t).erpOrder = NoNumber
  BY DEF NewRow, AbsentRow, QuoteRow, RowStatuses, Numbers, Ids

\* A request that moves on alone.
LEMMA RequestMoves ==
  ASSUME TypeOK, LocalsOK, NEW r \in Requests, NEW l \in Request, LocalsOf(l),
         req' = [req EXCEPT ![r] = l],
         quote' \in [Quotes -> QuoteRow],
         requisition' \in [Quotes -> RequisitionStatuses],
         waRequest' \in [Quotes -> WaStatuses],
         erpEvent' \in [Quotes -> Numbers \X Numbers]
  PROVE  TypeOK' /\ LocalsOK'
  <1>1. req' \in [Requests -> Request]
    BY DEF TypeOK
  <1>2. \A s \in Requests : req'[s] = IF s = r THEN l ELSE req[s]
    BY DEF TypeOK
  <1>3. \A s \in Requests : LocalsOf(req'[s])
    BY <1>2 DEF LocalsOK
  <1>4. QED
    BY <1>1, <1>3 DEF TypeOK, LocalsOK, LocalsOf

LEMMA TablesKept ==
  ASSUME TypeOK, UNCHANGED quote
  PROVE  LinksKept
  BY DEF LinksKept, TypeOK

\* Steps that only move the request: the checks, the reads, and Stop.
LEMMA OnlyRequestMoves ==
  ASSUME TypeOK, LocalsOK, NEW r \in Requests, NEW l \in Request, LocalsOf(l),
         req' = [req EXCEPT ![r] = l],
         UNCHANGED <<quote, requisition, waRequest, erpEvent>>
  PROVE  Safe
  <1>1. TypeOK' /\ LocalsOK'
    <2>1. /\ quote' \in [Quotes -> QuoteRow]
          /\ requisition' \in [Quotes -> RequisitionStatuses]
          /\ waRequest' \in [Quotes -> WaStatuses]
          /\ erpEvent' \in [Quotes -> Numbers \X Numbers]
      BY DEF TypeOK
    <2>2. QED BY <2>1, RequestMoves
  <1>2. QED BY <1>1, TablesKept DEF Safe

LEMMA StopSafe ==
  ASSUME TypeOK, LocalsOK, NEW r \in Requests, Stop(r)
  PROVE  Safe
  BY OnlyRequestMoves, IdleType DEF Stop, Finish

\* What CheckX(r, ...) leaves in the request.
LEMMA CheckedSafe ==
  ASSUME TypeOK, LocalsOK, NEW r \in Requests, NEW l \in Request, LocalsOf(l),
         Checked(r, l)
  PROVE  Safe
  BY OnlyRequestMoves DEF Checked

LEMMA ReadSafe ==
  ASSUME TypeOK, LocalsOK, NEW r \in Requests, NEW l \in Request, LocalsOf(l),
         Read(r, l)
  PROVE  Safe
  BY OnlyRequestMoves DEF Read
-----------------------------------------------------------------------------
LEMMA CheckSaveSafe ==
  ASSUME TypeOK, LocalsOK, NEW r \in Requests, NEW q \in Quotes,
         NEW target \in {"NONE"} \cup SubmissionStatuses, NEW c \in Captures,
         NEW i \in Contents, NEW t \in Terms, CheckSave(r, q, target, c, i, t)
  PROVE  Safe
  <1> DEFINE l == [Idle EXCEPT !.pc = "checked", !.op = "SAVE", !.q = q,
                     !.target = target, !.capture = c, !.content = i, !.terms = t]
  <1>1. target \in SubmissionTargets
    BY DEF SubmissionStatuses, SubmissionTargets
  <1>2. "SAVE" \in Operations /\ c \in {"SYSTEM", "EXCEL_IMPORT"} /\ i \in {"IN_STOCK", "TO_PURCHASE"}
    BY ConstantsAssumption DEF CheckSave, Checked, Idle
  <1>3. l \in Request /\ LocalsOf(l)
    BY <1>1, <1>2 DEF Idle, Request, Ids, Numbers, RowStatuses, LocalsOf, SubmissionTargets, Statuses
  <1>4. Checked(r, l)
    BY DEF CheckSave
  <1> HIDE DEF l
  <1>5. QED BY <1>3, <1>4, CheckedSafe

LEMMA CheckUpdateSafe ==
  ASSUME TypeOK, LocalsOK, NEW r \in Requests, NEW q \in Quotes,
         NEW c \in Captures, NEW t \in Terms,
         CheckUpdate(r, q, c, t)
  PROVE  Safe
  <1> DEFINE l == [Idle EXCEPT !.pc = "checked", !.op = "UPDATE", !.q = q,
                     !.capture = c, !.terms = t]
  <1>1. "UPDATE" \in Operations /\ c \in {"SYSTEM", "EXCEL_IMPORT"}
    BY ConstantsAssumption DEF CheckUpdate, Checked, Idle, TypeOK, QuoteRow
  <1>2. l \in Request /\ LocalsOf(l)
    BY <1>1 DEF Idle, Request, Ids, Numbers, RowStatuses, LocalsOf, Statuses
  <1>3. Checked(r, l)
    BY DEF CheckUpdate
  <1> HIDE DEF l
  <1>4. QED BY <1>2, <1>3, CheckedSafe

LEMMA CheckItemsSafe ==
  ASSUME TypeOK, LocalsOK, NEW r \in Requests, NEW q \in Quotes,
         NEW i \in Contents,
         CheckItems(r, q, i)
  PROVE  Safe
  <1> DEFINE l == [Idle EXCEPT !.pc = "checked", !.op = "ITEMS", !.q = q, !.content = i]
  <1>1. "ITEMS" \in Operations /\ i \in {"IN_STOCK", "TO_PURCHASE"}
    BY ConstantsAssumption DEF CheckItems, Checked, Idle, TypeOK, QuoteRow
  <1>2. l \in Request /\ LocalsOf(l)
    BY <1>1 DEF Idle, Request, Ids, Numbers, RowStatuses, LocalsOf, Statuses
  <1>3. Checked(r, l)
    BY DEF CheckItems
  <1> HIDE DEF l
  <1>4. QED BY <1>2, <1>3, CheckedSafe

LEMMA CheckChangeSafe ==
  ASSUME TypeOK, LocalsOK, NEW r \in Requests, NEW q \in Quotes,
         NEW requested \in Statuses, NEW enabled \in ApprovalModes,
         CheckChange(r, q, requested, enabled)
  PROVE  Safe
  <1> DEFINE l == [Idle EXCEPT !.pc = "checked", !.op = "CHANGE", !.q = q,
                     !.target = TargetStatus(requested, enabled)]
  <1>1. "CHANGE" \in Operations /\ TargetStatus(requested, enabled) \in Statuses
    BY ConstantsAssumption DEF CheckChange, Checked, Idle, TypeOK, QuoteRow, TargetStatus, Statuses
  <1>2. l \in Request /\ LocalsOf(l)
    BY <1>1 DEF Idle, Request, Ids, Numbers, RowStatuses, LocalsOf, Statuses
  <1>3. Checked(r, l)
    BY DEF CheckChange
  <1> HIDE DEF l
  <1>4. QED BY <1>2, <1>3, CheckedSafe

LEMMA CheckApprovedAgainSafe ==
  ASSUME TypeOK, LocalsOK, NEW r \in Requests, NEW q \in Quotes,
         CheckApprovedAgain(r, q)
  PROVE  Safe
  <1> DEFINE l == [Idle EXCEPT !.pc = "ensure", !.op = "CHANGE", !.q = q,
                     !.target = "APPROVED", !.buys = quote[q].content = "TO_PURCHASE"]
  <1>1. "CHANGE" \in Operations /\ (quote[q].content = "TO_PURCHASE") \in BOOLEAN
    BY ConstantsAssumption DEF CheckApprovedAgain, Checked, Idle, TypeOK, QuoteRow
  <1>2. l \in Request /\ LocalsOf(l)
    BY <1>1 DEF Idle, Request, Ids, Numbers, RowStatuses, LocalsOf, Statuses
  <1>3. Checked(r, l)
    BY DEF CheckApprovedAgain
  <1> HIDE DEF l
  <1>4. QED BY <1>2, <1>3, CheckedSafe

LEMMA CheckReviseSafe ==
  ASSUME TypeOK, LocalsOK, NEW r \in Requests, NEW q \in Quotes,
         CheckRevise(r, q)
  PROVE  Safe
  <1> DEFINE l == [Idle EXCEPT !.pc = "checked", !.op = "REVISE", !.q = q]
  <1>1. "REVISE" \in Operations
    BY ConstantsAssumption DEF CheckRevise, Checked, Idle, TypeOK, QuoteRow
  <1>2. l \in Request /\ LocalsOf(l)
    BY <1>1 DEF Idle, Request, Ids, Numbers, RowStatuses, LocalsOf, Statuses
  <1>3. Checked(r, l)
    BY DEF CheckRevise
  <1> HIDE DEF l
  <1>4. QED BY <1>2, <1>3, CheckedSafe

LEMMA CheckOrderSafe ==
  ASSUME TypeOK, LocalsOK, NEW r \in Requests, NEW q \in Quotes,
         NEW enabled \in ApprovalModes, NEW itemsReady \in BOOLEAN,
         CheckOrder(r, q, enabled, itemsReady)
  PROVE  Safe
  <1> DEFINE buys == quote[q].content = "TO_PURCHASE" /\ RequisitionReady(q, enabled, itemsReady)
             l == [Idle EXCEPT !.pc = "checked", !.op = "ORDER", !.q = q, !.buys = buys]
  <1>1. "ORDER" \in Operations /\ buys \in BOOLEAN
    BY DEF CheckOrder, Checked, Idle
  <1>2. Checked(r, l)
    BY DEF CheckOrder
  <1>3. l \in Request /\ LocalsOf(l)
    <2> HIDE DEF buys
    <2> QED BY <1>1 DEF Idle, Request, Ids, Numbers, RowStatuses, LocalsOf, Statuses
  <1> HIDE DEF l
  <1>4. QED BY <1>2, <1>3, CheckedSafe

LEMMA CheckRegisterSafe ==
  ASSUME TypeOK, LocalsOK, NEW r \in Requests, NEW q \in Quotes,
         NEW n \in ErpNumbers,
         CheckRegister(r, q, n)
  PROVE  Safe
  <1> DEFINE l == [Idle EXCEPT !.pc = "checked", !.op = "REGISTER", !.q = q,
                     !.capture = quote[q].capture, !.number = n]
  <1>1. "REGISTER" \in Operations /\ quote[q].capture \in {"SYSTEM", "EXCEL_IMPORT"}
    BY ConstantsAssumption DEF CheckRegister, Checked, Idle, TypeOK, QuoteRow
  <1>2. l \in Request /\ LocalsOf(l)
    BY <1>1 DEF Idle, Request, Ids, Numbers, RowStatuses, LocalsOf, Statuses
  <1>3. Checked(r, l)
    BY DEF CheckRegister
  <1> HIDE DEF l
  <1>4. QED BY <1>2, <1>3, CheckedSafe

LEMMA ReadDeleteSafe ==
  ASSUME TypeOK, LocalsOK, NEW r \in Requests, NEW q \in Quotes,
         ReadDelete(r, q)
  PROVE  Safe
  <1> DEFINE l == [Idle EXCEPT !.pc = "read", !.op = "DELETE", !.q = q]
  <1>1. "DELETE" \in Operations
    BY ConstantsAssumption DEF ReadDelete, Checked, Idle, TypeOK, QuoteRow
  <1>2. l \in Request /\ LocalsOf(l)
    BY <1>1 DEF Idle, Request, Ids, Numbers, RowStatuses, LocalsOf, Statuses
  <1>3. Checked(r, l)
    BY DEF ReadDelete
  <1> HIDE DEF l
  <1>4. QED BY <1>2, <1>3, CheckedSafe

LEMMA CheckPurchasingSafe ==
  ASSUME TypeOK, LocalsOK, NEW r \in Requests, NEW q \in Quotes,
         CheckPurchasing(r, q)
  PROVE  Safe
  <1> DEFINE l == [Idle EXCEPT !.pc = "checked", !.op = "PURCHASE", !.q = q]
  <1>1. "PURCHASE" \in Operations
    BY ConstantsAssumption DEF CheckPurchasing, Checked, Idle, TypeOK, QuoteRow
  <1>2. l \in Request /\ LocalsOf(l)
    BY <1>1 DEF Idle, Request, Ids, Numbers, RowStatuses, LocalsOf, Statuses
  <1>3. Checked(r, l)
    BY DEF CheckPurchasing
  <1> HIDE DEF l
  <1>4. QED BY <1>2, <1>3, CheckedSafe
-----------------------------------------------------------------------------
LEMMA ReadSaveSafe ==
  ASSUME TypeOK, LocalsOK, NEW r \in Requests, ReadSave(r)
  PROVE  Safe
  <1> DEFINE q == req[r].q
             l == [req[r] EXCEPT !.pc = "read", !.seenStatus = quote[q].status]
  <1>1. req[r] \in Request /\ LocalsOf(req[r]) /\ req[r].op = "SAVE" /\ req[r].pc = "checked"
    BY DEF TypeOK, LocalsOK, ReadSave, At
  <1>2. quote[q].status \in Editable /\ Editable \subseteq RowStatuses
    BY DEF ReadSave, SaveAllowed, Editable, RowStatuses, Statuses
  <1>3. l \in Request /\ LocalsOf(l)
    <2> HIDE DEF q
    <2> QED BY <1>1, <1>2 DEF Request, LocalsOf
  <1>4. Read(r, l)
    BY DEF ReadSave
  <1> HIDE DEF l
  <1>5. QED BY <1>3, <1>4, ReadSafe

LEMMA ReadEditSafe ==
  ASSUME TypeOK, LocalsOK, NEW r \in Requests, ReadEdit(r)
  PROVE  Safe
  <1> DEFINE q == req[r].q
             seen == quote[q].status
             l == [req[r] EXCEPT !.pc = "read", !.seenStatus = seen]
  <1>1. req[r] \in Request /\ LocalsOf(req[r]) /\ req[r].op \in {"UPDATE", "ITEMS"}
    BY DEF TypeOK, LocalsOK, ReadEdit, At
  <1>2. q \in Quotes
    BY <1>1 DEF ReadEdit, At, LocalsOf
  <1>3. seen \in RowStatuses
    BY <1>2 DEF TypeOK, QuoteRow
  <1>4. l \in Request /\ LocalsOf(l)
    <2> HIDE DEF seen
    <2> QED BY <1>1, <1>2, <1>3 DEF Request, LocalsOf
  <1>5. Read(r, l)
    BY DEF ReadEdit
  <1> HIDE DEF l
  <1>6. QED BY <1>4, <1>5, ReadSafe

LEMMA RevisionNumbersAreNat ==
  ASSUME TypeOK, NEW root
  PROVE  RevisionNumbers(root) \subseteq Nat
  BY DEF RevisionNumbers, RevisionsOf, TypeOK, QuoteRow

LEMMA ReadReviseSafe ==
  ASSUME TypeOK, LocalsOK, NEW r \in Requests, ReadRevise(r)
  PROVE  Safe
  <1> DEFINE q == req[r].q
             row == quote[q]
             root == RootOf(q)
             l == [req[r] EXCEPT !.pc = "active", !.seenRoot = root,
                     !.capture = row.capture, !.content = row.content,
                     !.terms = row.terms]
  <1>1. req[r] \in Request /\ LocalsOf(req[r]) /\ req[r].op = "REVISE" /\ q \in Quotes
    BY DEF TypeOK, LocalsOK, LocalsOf, ReadRevise, At
  <1>2. row \in QuoteRow
    BY <1>1 DEF TypeOK
  <1>3. root \in Ids
    BY <1>1, <1>2 DEF RootOf, QuoteRow, Ids
  <1>4. l \in Request /\ LocalsOf(l)
    <2> HIDE DEF row, root
    <2>1. l \in Request
      BY <1>1, <1>2, <1>3 DEF Request, QuoteRow
    <2>2. LocalsOf(l)
      BY <1>1 DEF Request, LocalsOf
    <2>3. QED BY <2>1, <2>2
  <1>5. Read(r, l)
    BY DEF ReadRevise
  <1> HIDE DEF l
  <1>6. QED BY <1>4, <1>5, ReadSafe

LEMMA NumberRevisionSafe ==
  ASSUME TypeOK, LocalsOK, NEW r \in Requests, NumberRevision(r)
  PROVE  Safe
  <1> DEFINE l(latest) == [req[r] EXCEPT !.pc = "read", !.seenRev = latest + 1]
  <1>1. PICK latest \in RevisionNumbers(req[r].seenRoot) : Read(r, l(latest))
    BY DEF NumberRevision
  <1>2. req[r] \in Request /\ LocalsOf(req[r]) /\ req[r].op = "REVISE" /\ req[r].pc # "idle"
    BY DEF TypeOK, LocalsOK, NumberRevision, At
  <1>3. latest + 1 \in Nat
    BY RevisionNumbersAreNat
  <1>4. l(latest) \in Request /\ LocalsOf(l(latest))
    BY <1>2, <1>3 DEF Request, LocalsOf
  <1> HIDE DEF l
  <1>5. QED BY <1>1, <1>4, ReadSafe

LEMMA ReadRegisterSafe ==
  ASSUME TypeOK, LocalsOK, NEW r \in Requests, ReadRegister(r)
  PROVE  Safe
  <1> DEFINE q == req[r].q
             n == quote[q][LinkField(req[r].capture)]
             l == [req[r] EXCEPT !.pc = "read", !.seenNumber = n]
  <1>1. req[r] \in Request /\ LocalsOf(req[r]) /\ req[r].op = "REGISTER" /\ q \in Quotes
    BY DEF TypeOK, LocalsOK, LocalsOf, ReadRegister, At
  <1>2. n \in Numbers
    BY <1>1 DEF TypeOK, QuoteRow, LinkField
  <1>3. l \in Request /\ LocalsOf(l)
    <2> HIDE DEF n
    <2> QED BY <1>1, <1>2 DEF Request, LocalsOf
  <1>4. Read(r, l)
    BY DEF ReadRegister
  <1> HIDE DEF l
  <1>5. QED BY <1>3, <1>4, ReadSafe
-----------------------------------------------------------------------------
LEMMA CommitSafe ==
  ASSUME TypeOK, LocalsOK, NEW r \in Requests, NEW l \in Request, LocalsOf(l),
         req' = [req EXCEPT ![r] = l],
         quote' \in [Quotes -> QuoteRow],
         requisition' \in [Quotes -> RequisitionStatuses],
         waRequest' \in [Quotes -> WaStatuses],
         erpEvent' \in [Quotes -> Numbers \X Numbers],
         LinksKept
  PROVE  Safe
  BY RequestMoves DEF Safe

\* A write of one row that leaves its folios alone.
LEMMA OneRowWritten ==
  ASSUME TypeOK, NEW q \in Quotes, NEW row \in QuoteRow,
         quote' = [quote EXCEPT ![q] = row],
         row.erpQuote = quote[q].erpQuote, row.erpOrder = quote[q].erpOrder,
         row.status # "ABSENT",
         row.status = "CANCELLED" => quote[q].status = "CANCELLED" \/ ~LinkedToErp(q)
  PROVE  quote' \in [Quotes -> QuoteRow] /\ LinksKept
  <1>1. quote' \in [Quotes -> QuoteRow]
    BY DEF TypeOK
  <1>2. \A s \in Quotes : quote'[s] = IF s = q THEN row ELSE quote[s]
    BY DEF TypeOK
  <1>3. QED
    BY <1>1, <1>2 DEF LinksKept

LEMMA CreateSafe ==
  ASSUME TypeOK, LocalsOK, UnusedUnlinked, NEW q \in Quotes,
         NEW status \in {"DRAFT"} \cup SubmissionStatuses, NEW c \in Captures,
         NEW i \in Contents, NEW t \in Terms, NEW fromLead \in LeadInputs,
         Create(q, status, c, i, t, fromLead)
  PROVE  Safe
  <1> DEFINE row == NewRow(status, c, i, t)
  <1>1. status \in {"DRAFT", "PENDING_APPROVAL", "QUOTED"}
    BY DEF SubmissionStatuses
  <1>2. c \in {"SYSTEM", "EXCEL_IMPORT"} /\ i \in {"IN_STOCK", "TO_PURCHASE"}
    BY ConstantsAssumption
  <1>3. /\ row \in QuoteRow
        /\ row.status = status
        /\ row.erpQuote = NoNumber
        /\ row.erpOrder = NoNumber
    BY <1>1, <1>2, NewRowType DEF Statuses
  <1>4. quote[q].erpQuote = NoNumber /\ quote[q].erpOrder = NoNumber /\ ~LinkedToErp(q)
    BY DEF Create, UnusedUnlinked, LinkedToErp
  <1>5. quote' = [quote EXCEPT ![q] = row]
    BY DEF Create
  <1>6. quote' \in [Quotes -> QuoteRow] /\ LinksKept
    <2> HIDE DEF row
    <2> QED BY <1>1, <1>3, <1>4, <1>5, OneRowWritten
  <1>7. waRequest' \in [Quotes -> WaStatuses]
    BY DEF Create, TypeOK, WaStatuses
  <1>8. TypeOK' /\ LocalsOK'
    BY <1>6, <1>7 DEF Create, TypeOK, LocalsOK, LocalsOf
  <1>9. QED BY <1>6, <1>8 DEF Safe

LEMMA CommitSaveSafe ==
  ASSUME TypeOK, LocalsOK, NEW r \in Requests, NEW fromLead \in LeadInputs,
         CommitSave(r, fromLead)
  PROVE  Safe
  <1> DEFINE q == req[r].q
             l == req[r]
             status == IF l.target = "NONE" THEN l.seenStatus ELSE l.target
             row == [quote[q] EXCEPT !.status = status, !.capture = l.capture,
                                     !.content = l.content, !.terms = l.terms]
  <1>1. l \in Request /\ LocalsOf(l) /\ q \in Quotes
    BY DEF TypeOK, LocalsOK, LocalsOf, CommitSave, At
  <1>2. quote[q] \in QuoteRow /\ quote[q].status \in Statuses
    BY <1>1 DEF TypeOK, CommitSave, Exists
  <1>3. status \in Editable \cup {"PENDING_APPROVAL", "QUOTED"}
    BY <1>1 DEF CommitSave, At, LocalsOf, SubmissionTargets
  <1>4. /\ row \in QuoteRow
        /\ row.status = status
        /\ row.erpQuote = quote[q].erpQuote
        /\ row.erpOrder = quote[q].erpOrder
    <2>1. status \in RowStatuses
      BY <1>3 DEF RowStatuses, Statuses, Editable
    <2> HIDE DEF status, l, q
    <2> QED BY <1>1, <1>2, <2>1 DEF QuoteRow, Request
  <1>5. quote' = [quote EXCEPT ![q] = row]
    BY <1>1 DEF CommitSave, TypeOK
  <1>6. quote' \in [Quotes -> QuoteRow] /\ LinksKept
    <2>1. status # "ABSENT" /\ status # "CANCELLED"
      BY <1>3 DEF Editable
    <2> HIDE DEF row, status, q
    <2> QED BY <1>1, <1>4, <1>5, <2>1, OneRowWritten
  <1>7. waRequest' \in [Quotes -> WaStatuses]
    BY DEF CommitSave, TypeOK, WaStatuses
  <1>8. QED
    BY <1>6, <1>7, IdleType, CommitSafe DEF CommitSave, Finish, TypeOK

LEMMA StatusAfterEditType ==
  ASSUME TypeOK, NEW r \in Requests, Exists(req[r].q)
  PROVE  /\ StatusAfterEdit(r) \in Statuses
         /\ StatusAfterEdit(r) \in {"QUOTED", quote[req[r].q].status}
  BY DEF StatusAfterEdit, Exists, Statuses

LEMMA CommitUpdateSafe ==
  ASSUME TypeOK, LocalsOK, NEW r \in Requests, CommitUpdate(r)
  PROVE  Safe
  <1> DEFINE q == req[r].q
             l == req[r]
             status == StatusAfterEdit(r)
             row == [quote[q] EXCEPT !.status = status, !.capture = l.capture,
                                     !.terms = l.terms]
  <1>1. l \in Request /\ q \in Quotes
    BY DEF TypeOK, LocalsOK, LocalsOf, CommitUpdate, At
  <1>2. quote[q] \in QuoteRow
    BY <1>1 DEF TypeOK
  <1>3. status \in Statuses /\ status \in {"QUOTED", quote[q].status}
    BY StatusAfterEditType DEF CommitUpdate
  <1>4. /\ row \in QuoteRow
        /\ row.status = status
        /\ row.erpQuote = quote[q].erpQuote
        /\ row.erpOrder = quote[q].erpOrder
    <2> HIDE DEF status, l, q
    <2> QED BY <1>1, <1>2, <1>3 DEF QuoteRow, Request, RowStatuses
  <1>5. quote' = [quote EXCEPT ![q] = row]
    BY <1>1 DEF CommitUpdate, TypeOK
  <1>6. quote' \in [Quotes -> QuoteRow] /\ LinksKept
    <2>1. status # "ABSENT"
      BY <1>3 DEF Statuses
    <2> HIDE DEF row, status, q
    <2> QED BY <1>1, <1>3, <1>4, <1>5, <2>1, OneRowWritten
  <1>7. QED
    BY <1>6, IdleType, CommitSafe DEF CommitUpdate, Finish, TypeOK

LEMMA CommitItemsSafe ==
  ASSUME TypeOK, LocalsOK, NEW r \in Requests, CommitItems(r)
  PROVE  Safe
  <1> DEFINE q == req[r].q
             l == req[r]
             status == StatusAfterEdit(r)
             row == [quote[q] EXCEPT !.status = status, !.content = l.content]
  <1>1. l \in Request /\ q \in Quotes
    BY DEF TypeOK, LocalsOK, LocalsOf, CommitItems, At
  <1>2. quote[q] \in QuoteRow
    BY <1>1 DEF TypeOK
  <1>3. status \in Statuses /\ status \in {"QUOTED", quote[q].status}
    BY StatusAfterEditType DEF CommitItems
  <1>4. /\ row \in QuoteRow
        /\ row.status = status
        /\ row.erpQuote = quote[q].erpQuote
        /\ row.erpOrder = quote[q].erpOrder
    <2> HIDE DEF status, l, q
    <2> QED BY <1>1, <1>2, <1>3 DEF QuoteRow, Request, RowStatuses
  <1>5. quote' = [quote EXCEPT ![q] = row]
    BY <1>1 DEF CommitItems, TypeOK
  <1>6. quote' \in [Quotes -> QuoteRow] /\ LinksKept
    <2>1. status # "ABSENT"
      BY <1>3 DEF Statuses
    <2> HIDE DEF row, status, q
    <2> QED BY <1>1, <1>3, <1>4, <1>5, <2>1, OneRowWritten
  <1>7. QED
    BY <1>6, IdleType, CommitSafe DEF CommitItems, Finish, TypeOK
-----------------------------------------------------------------------------
LEMMA SupersededRowType ==
  ASSUME TypeOK, NEW s \in Quotes, NEW q \in Quotes
  PROVE  /\ SupersededRow(s, q) \in QuoteRow
         /\ SupersededRow(s, q).status = "SUPERSEDED"
         /\ SupersededRow(s, q).erpQuote = quote[s].erpQuote
         /\ SupersededRow(s, q).erpOrder = quote[s].erpOrder
  <1>1. quote[s] \in QuoteRow /\ q \in Ids
    BY DEF TypeOK, Ids
  <1>2. QED BY <1>1 DEF SupersededRow, QuoteRow, RowStatuses, Statuses

LEMMA RequisitionAfterType ==
  ASSUME TypeOK, NEW q \in Quotes, NEW target \in Statuses
  PROVE  RequisitionAfter(q, target) \in RequisitionStatuses
  BY DEF RequisitionAfter, RequisitionStatuses, OpenRequisition, TypeOK

LEMMA WaRequestAfterType ==
  ASSUME TypeOK, NEW q \in Quotes, NEW target \in Statuses
  PROVE  WaRequestAfter(q, target) \in [Quotes -> WaStatuses]
  <1>1. \A s \in Quotes : waRequest[s] \in WaStatuses
    BY DEF TypeOK
  <1>2. QED BY <1>1 DEF WaRequestAfter, WaStatuses

LEMMA CommitChangeSafe ==
  ASSUME TypeOK, LocalsOK, NEW r \in Requests, CommitChange(r)
  PROVE  Safe
  <1> DEFINE q == req[r].q
             target == req[r].target
             row == [quote[q] EXCEPT !.status = target]
  <1>1. req[r] \in Request /\ q \in Quotes /\ target \in Statuses
    BY DEF TypeOK, LocalsOK, LocalsOf, CommitChange, At
  <1>2. quote[q] \in QuoteRow
    BY <1>1 DEF TypeOK
  <1>3. /\ row \in QuoteRow
        /\ row.status = target
        /\ row.erpQuote = quote[q].erpQuote
        /\ row.erpOrder = quote[q].erpOrder
    <2> HIDE DEF target, q
    <2> QED BY <1>1, <1>2 DEF QuoteRow, RowStatuses
  <1>4. quote' = [s \in Quotes |->
                   IF s = q THEN row
                   ELSE IF target = "QUOTED" /\ s = quote[q].prev
                        THEN SupersededRow(s, q) ELSE quote[s]]
    BY DEF CommitChange
  <1>5. target = "CANCELLED" => ~LinkedToErp(q)
    BY DEF CommitChange, StatusWriteAllowed
  <1>6. quote' \in [Quotes -> QuoteRow] /\ LinksKept
    <2> HIDE DEF row, target, q
    <2>1. \A s \in Quotes : quote[s] \in QuoteRow
      BY DEF TypeOK
    <2>2. quote' \in [Quotes -> QuoteRow]
      BY <1>1, <1>3, <1>4, <2>1, SupersededRowType
    <2>3. target # "ABSENT"
      BY <1>1 DEF Statuses
    <2>4. \A s \in Quotes :
            /\ quote'[s].erpQuote = quote[s].erpQuote
            /\ quote'[s].erpOrder = quote[s].erpOrder
            /\ quote'[s].status = "CANCELLED"
                 => quote[s].status = "CANCELLED" \/ ~LinkedToErp(s)
            /\ quote'[s].status = "ABSENT" => quote[s].status = "ABSENT"
      BY <1>1, <1>3, <1>4, <1>5, <2>3, SupersededRowType
    <2>5. QED BY <2>2, <2>4 DEF LinksKept
  <1>7. requisition' \in [Quotes -> RequisitionStatuses]
    BY <1>1, RequisitionAfterType DEF CommitChange, TypeOK
  <1>8. waRequest' \in [Quotes -> WaStatuses]
    BY <1>1, WaRequestAfterType DEF CommitChange
  <1>9. erpEvent' \in [Quotes -> Numbers \X Numbers]
    BY DEF CommitChange, TypeOK
  <1>10. CASE target = "APPROVED" /\ quote[q].capture # "EXCEL_IMPORT"
    <2> DEFINE buys == quote[q].content = "TO_PURCHASE"
               l == [req[r] EXCEPT !.pc = "ensure", !.buys = buys]
    <2>1. req' = [req EXCEPT ![r] = l]
      BY <1>10 DEF CommitChange, TypeOK
    <2>2. buys \in BOOLEAN /\ req[r].op = "CHANGE"
      BY DEF CommitChange, At
    <2>3. l \in Request /\ LocalsOf(l)
      <3> HIDE DEF buys
      <3> QED BY <1>1, <2>2 DEF Request, LocalsOf
    <2> HIDE DEF l
    <2>4. QED BY <1>6, <1>7, <1>8, <1>9, <2>1, <2>3, CommitSafe
  <1>11. CASE ~(target = "APPROVED" /\ quote[q].capture # "EXCEL_IMPORT")
    BY <1>6, <1>7, <1>8, <1>9, <1>11, IdleType, CommitSafe DEF CommitChange, Finish
  <1>12. QED BY <1>10, <1>11

LEMMA EnsureRequisitionSafe ==
  ASSUME TypeOK, LocalsOK, NEW r \in Requests, EnsureRequisition(r)
  PROVE  Safe
  <1>1. requisition' \in [Quotes -> RequisitionStatuses]
    BY DEF EnsureRequisition, TypeOK, RequisitionStatuses, OpenRequisition
  <1>2. UNCHANGED <<quote, waRequest, erpEvent>>
    BY DEF EnsureRequisition
  <1>3. LinksKept
    BY <1>2, TablesKept
  <1>4. QED
    BY <1>1, <1>2, <1>3, IdleType, CommitSafe DEF EnsureRequisition, Finish, TypeOK

LEMMA CompleteRequisitionSafe ==
  ASSUME TypeOK, LocalsOK, NEW r \in Requests, NEW enabled \in ApprovalModes,
         CompleteRequisition(r, enabled)
  PROVE  Safe
  <1>1. requisition' \in [Quotes -> RequisitionStatuses]
    BY DEF CompleteRequisition, TypeOK, RequisitionStatuses, OpenRequisition
  <1>2. UNCHANGED <<quote, waRequest, erpEvent>>
    BY DEF CompleteRequisition
  <1>3. LinksKept
    BY <1>2, TablesKept
  <1>4. QED
    BY <1>1, <1>2, <1>3, IdleType, CommitSafe DEF CompleteRequisition, Finish, TypeOK

LEMMA CommitPurchasingSafe ==
  ASSUME TypeOK, LocalsOK, NEW r \in Requests,
         NEW status \in PurchasingStatuses, CommitPurchasing(r, status)
  PROVE  Safe
  <1>1. requisition' \in [Quotes -> RequisitionStatuses]
    BY ConstantsAssumption DEF CommitPurchasing, TypeOK, RequisitionStatuses, OpenRequisition
  <1>2. UNCHANGED <<quote, waRequest, erpEvent>>
    BY DEF CommitPurchasing
  <1>3. LinksKept
    BY <1>2, TablesKept
  <1>4. QED
    BY <1>1, <1>2, <1>3, IdleType, CommitSafe DEF CommitPurchasing, Finish, TypeOK
-----------------------------------------------------------------------------
LEMMA CommitReviseSafe ==
  ASSUME TypeOK, LocalsOK, UnusedUnlinked, NEW r \in Requests, NEW s \in Quotes,
         CommitRevise(r, s)
  PROVE  Safe
  <1> DEFINE l == req[r]
             new == NewRow("DRAFT", l.capture, l.content, l.terms)
             row == [new EXCEPT !.root = l.seenRoot, !.prev = l.q, !.rev = l.seenRev]
  <1>1. l \in Request /\ l.q \in Quotes
    BY DEF TypeOK, LocalsOK, LocalsOf, CommitRevise, At
  <1>2. /\ new \in QuoteRow
        /\ new.status = "DRAFT"
        /\ new.erpQuote = NoNumber
        /\ new.erpOrder = NoNumber
    <2>1. /\ l.capture \in {"SYSTEM", "EXCEL_IMPORT"}
          /\ l.content \in {"IN_STOCK", "TO_PURCHASE"}
          /\ l.terms \in Terms \cup {"NONE"}
      BY <1>1 DEF Request
    <2>2. "DRAFT" \in Statuses
      BY DEF Statuses
    <2> HIDE DEF l
    <2> QED BY <2>1, <2>2, NewRowType
  <1>3. /\ row \in QuoteRow
        /\ row.status = "DRAFT"
        /\ row.erpQuote = NoNumber
        /\ row.erpOrder = NoNumber
    <2>1. l.seenRoot \in Ids /\ l.q \in Ids /\ l.seenRev \in Nat
      BY <1>1 DEF Request, Ids
    <2> HIDE DEF new, l
    <2> QED BY <1>2, <2>1 DEF QuoteRow
  <1>4. quote[s].erpQuote = NoNumber /\ quote[s].erpOrder = NoNumber
    BY DEF CommitRevise, UnusedUnlinked, LinkedToErp
  <1>5. quote' = [quote EXCEPT ![s] = row]
    BY DEF CommitRevise
  <1>6. quote' \in [Quotes -> QuoteRow] /\ LinksKept
    <2> HIDE DEF row
    <2> QED BY <1>3, <1>4, <1>5, OneRowWritten
  <1>7. QED
    BY <1>6, IdleType, CommitSafe DEF CommitRevise, Finish, TypeOK

LEMMA CommitOrderSafe ==
  ASSUME TypeOK, LocalsOK, NEW r \in Requests, CommitOrder(r)
  PROVE  Safe
  <1> DEFINE q == req[r].q
             n == quote[q].exports + 1
             row == [quote[q] EXCEPT !.exports = n]
  <1>1. req[r] \in Request /\ q \in Quotes /\ LocalsOf(req[r]) /\ req[r].op = "ORDER"
    BY DEF TypeOK, LocalsOK, LocalsOf, CommitOrder, At
  <1>2. quote[q] \in QuoteRow /\ n \in Nat /\ quote[q].status # "ABSENT"
    BY <1>1 DEF TypeOK, QuoteRow, CommitOrder, Exists, Statuses
  <1>3. /\ row \in QuoteRow
        /\ row.status = quote[q].status
        /\ row.erpQuote = quote[q].erpQuote
        /\ row.erpOrder = quote[q].erpOrder
    <2> HIDE DEF n, q
    <2> QED BY <1>2 DEF QuoteRow
  <1>4. quote' = [quote EXCEPT ![q] = row]
    BY <1>1 DEF CommitOrder, TypeOK
  <1>5. quote' \in [Quotes -> QuoteRow] /\ LinksKept
    <2> HIDE DEF row, q
    <2> QED BY <1>1, <1>2, <1>3, <1>4, OneRowWritten
  <1>6. UNCHANGED <<requisition, waRequest, erpEvent>>
    BY DEF CommitOrder
  <1>7. CASE req[r].buys
    <2> DEFINE l == [req[r] EXCEPT !.pc = "complete"]
    <2>1. req' = [req EXCEPT ![r] = l]
      BY <1>7 DEF CommitOrder, TypeOK
    <2>2. l \in Request /\ LocalsOf(l)
      BY <1>1 DEF Request, LocalsOf
    <2> HIDE DEF l
    <2>3. QED BY <1>5, <1>6, <2>1, <2>2, CommitSafe DEF TypeOK
  <1>8. CASE ~req[r].buys
    BY <1>5, <1>6, <1>8, IdleType, CommitSafe DEF CommitOrder, Finish, TypeOK
  <1>9. QED BY <1>7, <1>8

LEMMA ArchiveOrRestoreSafe ==
  ASSUME TypeOK, LocalsOK, NEW r \in Requests, NEW q \in Quotes,
         ArchiveOrRestore(r, q)
  PROVE  Safe
  <1> DEFINE archived == ~quote[q].archived
             row == [quote[q] EXCEPT !.archived = archived]
  <1>1. /\ quote[q] \in QuoteRow
        /\ archived \in BOOLEAN
        /\ quote[q].status # "ABSENT"
    BY DEF TypeOK, QuoteRow, ArchiveOrRestore, Exists, Statuses
  <1>2. /\ row \in QuoteRow
        /\ row.status = quote[q].status
        /\ row.erpQuote = quote[q].erpQuote
        /\ row.erpOrder = quote[q].erpOrder
    <2> HIDE DEF archived
    <2> QED BY <1>1 DEF QuoteRow
  <1>3. quote' = [quote EXCEPT ![q] = row]
    BY DEF ArchiveOrRestore, TypeOK
  <1>4. quote' \in [Quotes -> QuoteRow] /\ LinksKept
    <2> HIDE DEF row
    <2> QED BY <1>1, <1>2, <1>3, OneRowWritten
  <1>5. TypeOK' /\ LocalsOK'
    BY <1>4 DEF ArchiveOrRestore, TypeOK, LocalsOK, LocalsOf
  <1>6. QED BY <1>4, <1>5 DEF Safe
-----------------------------------------------------------------------------
(* The two steps that change the folios of a row.                          *)

\* What remains of a deleted quote.
LEMMA CommitDeleteKeepsIInv ==
  ASSUME IInv, NEW r \in Requests, CommitDelete(r)
  PROVE  IInv'
  <1> DEFINE q == req[r].q
  <1>1. q \in Quotes
    BY DEF IInv, LocalsOK, LocalsOf, CommitDelete, At
  <1>2. DeletedRow \in QuoteRow /\ DeletedRow.status = "DELETED"
    BY DEF DeletedRow, AbsentRow, QuoteRow, RowStatuses, Numbers, Ids
  <1>3. \A s \in Quotes : quote'[s] = IF s = q THEN DeletedRow ELSE quote[s]
    BY DEF IInv, TypeOK, CommitDelete
  <1>4. quote' \in [Quotes -> QuoteRow]
    BY <1>2 DEF IInv, TypeOK, CommitDelete
  <1>5. waRequest' \in [Quotes -> WaStatuses]
    BY DEF IInv, TypeOK, CommitDelete, WaStatuses
  <1>6. erpEvent' \in [Quotes -> Numbers \X Numbers]
    BY DEF IInv, TypeOK, CommitDelete, Numbers
  <1>7. TypeOK' /\ LocalsOK'
    BY <1>4, <1>5, <1>6, IdleType, RequestMoves DEF IInv, TypeOK, CommitDelete, Finish
  <1>8. UnusedUnlinked' /\ LinkedNeverCancelled'
    BY <1>2, <1>3 DEF IInv, UnusedUnlinked, LinkedNeverCancelled, Unused, LinkedToErp
  <1>9. QED BY <1>7, <1>8 DEF IInv

LEMMA CommitRegisterWrites ==
  ASSUME IInv, NEW r \in Requests, CommitRegister(r)
  PROVE  LET q == req[r].q
             n == req[r].number
         IN /\ q \in Quotes
            /\ quote[q].status = "APPROVED"
            /\ quote' \in [Quotes -> QuoteRow]
            /\ \A s \in Quotes : s # q => quote'[s] = quote[s]
            /\ quote'[q].status = "APPROVED"
            /\ erpEvent'[q] = <<req[r].seenNumber, n>>
            /\ \/ /\ quote[q].erpQuote = req[r].seenNumber
                  /\ quote'[q].erpQuote = n
                  /\ quote'[q].erpOrder = quote[q].erpOrder
               \/ /\ quote[q].erpOrder = req[r].seenNumber
                  /\ quote'[q].erpOrder = n
                  /\ quote'[q].erpQuote = quote[q].erpQuote
  <1> DEFINE q == req[r].q
             n == req[r].number
             field == LinkField(req[r].capture)
             byQuote == [quote[q] EXCEPT !.erpQuote = n]
             byOrder == [quote[q] EXCEPT !.erpOrder = n]
  <1>1. q \in Quotes /\ n \in Numbers
    BY DEF IInv, TypeOK, Request, LocalsOK, LocalsOf, CommitRegister, At
  <1>2. quote[q] \in QuoteRow
    BY <1>1 DEF IInv, TypeOK
  <1>3. quote[q].status = "APPROVED" /\ quote[q][field] = req[r].seenNumber
    BY DEF CommitRegister, LinkUnchanged
  <1>4. erpEvent'[q] = <<req[r].seenNumber, n>>
    BY <1>1 DEF CommitRegister, IInv, TypeOK
  <1>5. CASE field = "erpQuote"
    <2>1. quote' = [quote EXCEPT ![q] = byQuote]
      BY <1>5, <1>1 DEF CommitRegister, IInv, TypeOK
    <2>2. /\ byQuote \in QuoteRow
          /\ byQuote.status = quote[q].status
          /\ byQuote.erpQuote = n
          /\ byQuote.erpOrder = quote[q].erpOrder
      <3> HIDE DEF n, q
      <3> QED BY <1>1, <1>2 DEF QuoteRow
    <2>3. quote[q].erpQuote = req[r].seenNumber
      BY <1>3, <1>5
    <2>4. /\ quote' \in [Quotes -> QuoteRow]
          /\ \A s \in Quotes : s # q => quote'[s] = quote[s]
          /\ quote'[q] = byQuote
      <3> HIDE DEF byQuote, q
      <3> QED BY <1>1, <2>1, <2>2 DEF IInv, TypeOK
    <2>5. QED
      <3> HIDE DEF byQuote
      <3> QED BY <1>1, <1>3, <1>4, <2>2, <2>3, <2>4
  <1>6. CASE field = "erpOrder"
    <2>1. quote' = [quote EXCEPT ![q] = byOrder]
      BY <1>6, <1>1 DEF CommitRegister, IInv, TypeOK
    <2>2. /\ byOrder \in QuoteRow
          /\ byOrder.status = quote[q].status
          /\ byOrder.erpOrder = n
          /\ byOrder.erpQuote = quote[q].erpQuote
      <3> HIDE DEF n, q
      <3> QED BY <1>1, <1>2 DEF QuoteRow
    <2>3. quote[q].erpOrder = req[r].seenNumber
      BY <1>3, <1>6
    <2>4. /\ quote' \in [Quotes -> QuoteRow]
          /\ \A s \in Quotes : s # q => quote'[s] = quote[s]
          /\ quote'[q] = byOrder
      <3> HIDE DEF byOrder, q
      <3> QED BY <1>1, <2>1, <2>2 DEF IInv, TypeOK
    <2>5. QED
      <3> HIDE DEF byOrder
      <3> QED BY <1>1, <1>3, <1>4, <2>2, <2>3, <2>4
  <1>7. QED BY <1>5, <1>6 DEF LinkField

LEMMA CommitRegisterKeepsIInv ==
  ASSUME IInv, NEW r \in Requests, CommitRegister(r)
  PROVE  IInv'
  <1> DEFINE q == req[r].q
  <1>1. /\ q \in Quotes
        /\ quote' \in [Quotes -> QuoteRow]
        /\ quote'[q].status = "APPROVED"
        /\ \A s \in Quotes : s # q => quote'[s] = quote[s]
    BY CommitRegisterWrites
  <1>2. erpEvent' \in [Quotes -> Numbers \X Numbers]
    BY DEF CommitRegister, IInv, TypeOK, Request
  <1>3. TypeOK' /\ LocalsOK'
    BY <1>1, <1>2, IdleType, RequestMoves DEF IInv, TypeOK, CommitRegister, Finish
  <1>4. UnusedUnlinked' /\ LinkedNeverCancelled'
    <2>1. \A s \in Quotes : s = q \/ quote'[s] = quote[s]
      BY <1>1
    <2> HIDE DEF q
    <2> QED BY <1>1, <2>1 DEF IInv, UnusedUnlinked, LinkedNeverCancelled, Unused, LinkedToErp
  <1>5. QED BY <1>3, <1>4 DEF IInv
-----------------------------------------------------------------------------
\* One case per action: every step but these two is safe in the sense above.
LEMMA EveryOtherStepSafe ==
  ASSUME IInv, Next
  PROVE  Safe \/ \E r \in Requests : CommitDelete(r) \/ CommitRegister(r)
  <1> USE DEF IInv
  <1>1. CASE NewQuote
    BY <1>1, CreateSafe DEF NewQuote
  <1>2. ASSUME NEW r \in Requests, Save(r) PROVE Safe
    BY <1>2, CheckSaveSafe, ReadSaveSafe, CommitSaveSafe DEF Save
  <1>3. ASSUME NEW r \in Requests, Edit(r) PROVE Safe
    BY <1>3, CheckUpdateSafe, CheckItemsSafe, ReadEditSafe, CommitUpdateSafe,
       CommitItemsSafe DEF Edit
  <1>4. ASSUME NEW r \in Requests, ChangeStatus(r) PROVE Safe
    BY <1>4, CheckChangeSafe, CheckApprovedAgainSafe, CommitChangeSafe,
       EnsureRequisitionSafe DEF ChangeStatus
  <1>5. ASSUME NEW r \in Requests, Revise(r) PROVE Safe
    BY <1>5, CheckReviseSafe, ReadReviseSafe, NumberRevisionSafe, CommitReviseSafe DEF Revise
  <1>6. ASSUME NEW r \in Requests, GenerateOrder(r) PROVE Safe
    BY <1>6, CheckOrderSafe, CommitOrderSafe, CompleteRequisitionSafe DEF GenerateOrder
  <1>7. ASSUME NEW r \in Requests, RegisterErp(r) PROVE Safe \/ CommitRegister(r)
    BY <1>7, CheckRegisterSafe, ReadRegisterSafe DEF RegisterErp
  <1>8. ASSUME NEW r \in Requests, Administer(r) PROVE Safe \/ CommitDelete(r)
    BY <1>8, ArchiveOrRestoreSafe, ReadDeleteSafe DEF Administer
  <1>9. ASSUME NEW r \in Requests, Purchasing(r) PROVE Safe
    BY <1>9, CheckPurchasingSafe, CommitPurchasingSafe DEF Purchasing
  <1>10. ASSUME NEW r \in Requests, Stop(r) PROVE Safe
    BY <1>10, StopSafe
  <1>11. QED
    BY <1>1, <1>2, <1>3, <1>4, <1>5, <1>6, <1>7, <1>8, <1>9, <1>10 DEF Next

LEMMA SafeKeepsIInv ==
  ASSUME IInv, Safe
  PROVE  IInv'
  <1>1. UnusedUnlinked' /\ LinkedNeverCancelled'
    BY DEF IInv, Safe, LinksKept, UnusedUnlinked, LinkedNeverCancelled, Unused, LinkedToErp
  <1>2. QED BY <1>1 DEF IInv, Safe

LEMMA InitEstablishesIInv == Init => IInv
  <1> SUFFICES ASSUME Init PROVE IInv
    OBVIOUS
  <1>1. TypeOK
    BY AbsentType, IdleType
    DEF Init, TypeOK, RequisitionStatuses, OpenRequisition, WaStatuses, Numbers
  <1>2. LocalsOK
    BY IdleType DEF Init, LocalsOK
  <1>3. UnusedUnlinked /\ LinkedNeverCancelled
    BY DEF Init, UnusedUnlinked, LinkedNeverCancelled, LinkedToErp, AbsentRow
  <1>4. QED BY <1>1, <1>2, <1>3 DEF IInv

LEMMA StepKeepsIInv == IInv /\ [Next]_vars => IInv'
  <1> SUFFICES ASSUME IInv, [Next]_vars PROVE IInv'
    OBVIOUS
  <1>1. CASE Next
    BY <1>1, EveryOtherStepSafe, SafeKeepsIInv, CommitDeleteKeepsIInv,
       CommitRegisterKeepsIInv
  <1>2. CASE UNCHANGED vars
    BY <1>2 DEF vars, IInv, TypeOK, LocalsOK, LocalsOf, UnusedUnlinked,
       LinkedNeverCancelled, Unused, LinkedToErp
  <1>3. QED BY <1>1, <1>2

THEOREM Invariance == Spec => []IInv
  <1>1. QED
    BY InitEstablishesIInv, StepKeepsIInv, PTL DEF Spec

\* Every row, status and request keeps its type, whatever the requests do.
THEOREM TypeCorrect == Spec => []TypeOK
  <1>1. IInv => TypeOK
    BY DEF IInv
  <1>2. QED BY <1>1, Invariance, PTL

\* However many cancellations and registrations overlap, no quote that has a
\* folio of the ERP is cancelled (changeStatus, registerErp*).
THEOREM LinkedQuotesStay == Spec => []LinkedNeverCancelled
  <1>1. IInv => LinkedNeverCancelled
    BY DEF IInv
  <1>2. QED BY <1>1, Invariance, PTL

FoliosTold ==
  \A q \in Quotes, f \in {"erpQuote", "erpOrder"} :
    quote'[q][f] # quote[q][f] /\ quote'[q].status # "DELETED"
      => erpEvent'[q] = <<quote[q][f], quote'[q][f]>>

LEMMA StepTellsFolios == IInv /\ [Next]_vars => FoliosTold
  <1> SUFFICES ASSUME IInv, [Next]_vars, NEW q \in Quotes, NEW f \in {"erpQuote", "erpOrder"},
                      quote'[q][f] # quote[q][f], quote'[q].status # "DELETED"
               PROVE  erpEvent'[q] = <<quote[q][f], quote'[q][f]>>
    BY DEF FoliosTold
  <1>1. CASE Safe
    BY <1>1 DEF Safe, LinksKept
  <1>2. ASSUME NEW r \in Requests, CommitDelete(r) PROVE FALSE
    <2>1. quote'[q] = IF q = req[r].q THEN DeletedRow ELSE quote[q]
      BY <1>2 DEF CommitDelete, IInv, TypeOK
    <2>2. QED BY <2>1 DEF DeletedRow, AbsentRow
  <1>3. ASSUME NEW r \in Requests, CommitRegister(r)
        PROVE  erpEvent'[q] = <<quote[q][f], quote'[q][f]>>
    BY <1>3, CommitRegisterWrites
  <1>4. CASE UNCHANGED vars
    BY <1>4 DEF vars
  <1>5. QED BY <1>1, <1>2, <1>3, <1>4, EveryOtherStepSafe

\* Of registrations that overlap, none overwrites a folio it did not see: the
\* event of each tells the folio it replaced (registerErp*, compare and set).
THEOREM RegistrationsTellTheChange == Spec => ErpEventTellsTheChange
  <1>1. IInv /\ [Next]_vars => [FoliosTold]_vars
    BY StepTellsFolios
  <1>2. QED
    BY <1>1, Invariance, PTL DEF Spec, ErpEventTellsTheChange, FoliosTold
-----------------------------------------------------------------------------
(* Chains of revisions are sound, and a completed requisition had its order. *)

\* A row that was never written or is gone has neither an order nor a
\* requisition, and belongs to no chain.
GoneHasNothing ==
  \A q \in Quotes : ~Exists(q) =>
    /\ requisition[q] = "NONE" /\ ~OrderGenerated(q)
    /\ quote[q].root = NoQuote /\ quote[q].rev = 0

Numbered(c, n) == \E t \in Quotes : Exists(t) /\ quote[t].root = c /\ quote[t].rev = n

\* An original, or a revision of an existing chain with all numbers before its own.
ChainRow(s) ==
  \/ quote[s].root = NoQuote /\ quote[s].prev = NoQuote /\ quote[s].rev = 0
  \/ /\ quote[s].root \in Quotes /\ Exists(quote[s].root)
     /\ quote[quote[s].root].root = NoQuote
     /\ quote[s].prev \in Quotes /\ Exists(quote[s].prev)
     /\ RootOf(quote[s].prev) = quote[s].root
     /\ quote[quote[s].prev].rev < quote[s].rev
     /\ \A n \in 1..quote[s].rev : Numbered(quote[s].root, n)

Chained == \A s \in Quotes : Exists(s) => ChainRow(s)

NumberedOnce ==
  \A s, t \in Quotes :
    /\ Exists(s) /\ Exists(t)
    /\ quote[s].root # NoQuote /\ quote[s].root = quote[t].root
    /\ quote[s].rev = quote[t].rev
    => s = t

\* What a request in flight relies on.  One about to complete a requisition
\* generated the order of its quote, one about to write the status of a
\* requisition found one, one about to delete found no revision ...
CarriesTables(l) ==
  /\ l.pc = "complete" => OrderGenerated(l.q) \/ quote[l.q].status = "DELETED"
  /\ l.pc # "idle" /\ l.op = "PURCHASE" => requisition[l.q] # "NONE"
  /\ l.pc = "read" /\ l.op = "DELETE" => ~Unused(l.q) /\ quote[l.q].root = NoQuote

\* ... and one about to revise knows the chain, then a number the chain reaches.
CarriesRevision(l) ==
  /\ l.pc \in {"active", "read"} /\ l.op = "REVISE" =>
       ~Unused(l.q) /\ l.seenRoot = RootOf(l.q)
  /\ l.pc = "read" /\ l.op = "REVISE" =>
       /\ quote[l.q].rev < l.seenRev
       /\ l.seenRev = 1 \/ Numbered(l.seenRoot, l.seenRev - 1)

InFlightOK == \A r \in Requests : CarriesTables(req[r]) /\ CarriesRevision(req[r])

CInv == GoneHasNothing /\ Chained /\ NumberedOnce /\ InFlightOK /\ CompletedWasOrdered

SameChain(row, old) == row.root = old.root /\ row.prev = old.prev /\ row.rev = old.rev

\* What nearly every step keeps of the rows and of the requisitions.
RowsKept ==
  \A q \in Quotes :
    /\ Exists(q) => quote'[q].status \in Statuses
    /\ ~Exists(q) => quote'[q].status = quote[q].status
    /\ OrderGenerated(q) => quote'[q].exports > 0
    /\ ~Exists(q) => ~(quote'[q].exports > 0)
    /\ SameChain(quote'[q], quote[q])

RequisitionsKept ==
  \A q \in Quotes :
    /\ requisition[q] # "NONE" => requisition'[q] # "NONE"
    /\ ~Exists(q) => requisition'[q] = requisition[q]
    /\ requisition'[q] = "COMPLETED" => requisition[q] = "COMPLETED" \/ OrderGenerated(q)

RequestsKept ==
  \A r \in Requests :
    req'[r] = req[r] \/ (CarriesTables(req[r])' /\ CarriesRevision(req[r])')

LEMMA RequestsStay ==
  ASSUME IInv, CInv, RowsKept, RequisitionsKept, RequestsKept
  PROVE  InFlightOK'
  <1> SUFFICES ASSUME NEW r \in Requests, req'[r] = req[r]
               PROVE  CarriesTables(req[r])' /\ CarriesRevision(req[r])'
    BY DEF InFlightOK, RequestsKept
  <1>1. /\ CarriesTables(req[r]) /\ CarriesRevision(req[r])
        /\ req[r].pc # "idle" => req[r].q \in Quotes
    BY DEF CInv, InFlightOK, IInv, LocalsOK, LocalsOf
  <1>2. CASE req[r].pc = "idle"
    BY <1>2 DEF CarriesTables, CarriesRevision
  <1>3. CASE req[r].pc # "idle"
    <2> DEFINE q == req[r].q
    <2>1. /\ q \in Quotes
          /\ SameChain(quote'[q], quote[q])
          /\ Unused(q) \/ quote'[q].status # "ABSENT"
      BY <1>1, <1>3 DEF RowsKept, Exists, Unused, Statuses
    <2>2. req[r].pc = "complete"
            => quote'[q].exports > 0 \/ quote'[q].status = "DELETED"
      BY <1>1, <2>1 DEF CarriesTables, RowsKept, Exists, OrderGenerated, Statuses
    <2>3. CarriesTables(req[r])'
      BY <1>1, <2>1, <2>2 DEF CarriesTables, RequisitionsKept, SameChain, Unused, OrderGenerated
    <2>4. \A n : Numbered(req[r].seenRoot, n) =>
            \E t \in Quotes : /\ quote'[t].status \in Statuses
                              /\ quote'[t].root = req[r].seenRoot /\ quote'[t].rev = n
      BY DEF Numbered, RowsKept, SameChain, Exists
    <2>5. CarriesRevision(req[r])'
      BY <1>1, <2>1, <2>4 DEF CarriesRevision, SameChain, Unused, RootOf, Numbered, Exists
    <2>6. QED BY <2>3, <2>5
  <1>4. QED BY <1>2, <1>3

LEMMA ChainsStay ==
  ASSUME IInv, CInv, RowsKept
  PROVE  Chained' /\ NumberedOnce'
  <1> USE DEF CInv
  <1>1. \A q \in Quotes : /\ SameChain(quote'[q], quote[q])
                          /\ (quote'[q].status \in Statuses) <=> Exists(q)
    BY DEF RowsKept, Exists
  <1>2. ASSUME NEW s \in Quotes, quote'[s].status \in Statuses
        PROVE  ChainRow(s)'
    <2>1. ChainRow(s)
      BY <1>1, <1>2 DEF Chained
    <2>2. CASE quote[s].root = NoQuote /\ quote[s].prev = NoQuote /\ quote[s].rev = 0
      BY <1>1, <2>2 DEF ChainRow, SameChain
    <2>3. CASE ~(quote[s].root = NoQuote /\ quote[s].prev = NoQuote /\ quote[s].rev = 0)
      <3> DEFINE c == quote[s].root
                 p == quote[s].prev
      <3>1. /\ c \in Quotes /\ Exists(c) /\ quote[c].root = NoQuote
            /\ p \in Quotes /\ Exists(p) /\ RootOf(p) = c
            /\ quote[p].rev < quote[s].rev
            /\ \A n \in 1..quote[s].rev : Numbered(c, n)
        BY <2>1, <2>3 DEF ChainRow
      <3>2. /\ quote'[s].root = c /\ quote'[s].prev = p /\ quote'[s].rev = quote[s].rev
            /\ quote'[c].status \in Statuses /\ quote'[c].root = NoQuote
            /\ quote'[p].status \in Statuses /\ quote'[p].root = quote[p].root
            /\ quote'[p].rev = quote[p].rev
        BY <1>1, <3>1 DEF SameChain
      <3>3. \A n \in 1..quote[s].rev :
              \E t \in Quotes : /\ quote'[t].status \in Statuses
                                /\ quote'[t].root = c /\ quote'[t].rev = n
        BY <1>1, <3>1 DEF Numbered, SameChain
      <3>4. RootOf(p) = c => (IF quote'[p].root = NoQuote THEN p ELSE quote'[p].root) = c
        BY <3>2 DEF RootOf
      <3> HIDE DEF c, p
      <3>5. QED BY <3>1, <3>2, <3>3, <3>4 DEF ChainRow, RootOf, Exists, Numbered
    <2>4. QED BY <2>2, <2>3
  <1>3. Chained'
    BY <1>2 DEF Chained, Exists
  <1>4. NumberedOnce'
    BY <1>1 DEF NumberedOnce, Exists, SameChain
  <1>5. QED BY <1>3, <1>4

LEMMA KeepsCInv ==
  ASSUME IInv, CInv, RowsKept, RequisitionsKept, RequestsKept
  PROVE  CInv'
  <1>1. GoneHasNothing'
    BY DEF CInv, GoneHasNothing, RowsKept, RequisitionsKept, Exists, OrderGenerated,
           Statuses, SameChain
  <1>2. CompletedWasOrdered'
    BY DEF CInv, CompletedWasOrdered, RowsKept, RequisitionsKept, OrderGenerated
  <1>3. QED BY <1>1, <1>2, RequestsStay, ChainsStay DEF CInv
-----------------------------------------------------------------------------
\* A request of which nothing above is said.
Harmless(l) ==
  \/ l.pc = "idle"
  \/ /\ l.pc # "complete" /\ l.op # "PURCHASE"
     /\ l.pc = "checked" \/ l.op \notin {"REVISE", "DELETE"}

LEMMA HarmlessMove ==
  ASSUME IInv, NEW r \in Requests, NEW l, Harmless(l), req' = [req EXCEPT ![r] = l]
  PROVE  RequestsKept
  <1>1. \A s \in Requests : req'[s] = IF s = r THEN l ELSE req[s]
    BY DEF IInv, TypeOK
  <1>2. CarriesTables(req[r])' /\ CarriesRevision(req[r])'
    BY <1>1 DEF Harmless, CarriesTables, CarriesRevision
  <1>3. QED BY <1>1, <1>2 DEF RequestsKept

LEMMA HarmlessEnd ==
  ASSUME IInv, NEW r \in Requests, Finish(r)
  PROVE  RequestsKept
  <1>1. Harmless(Idle)
    BY DEF Harmless, Idle
  <1>2. QED BY <1>1, HarmlessMove DEF Finish

LEMMA QuoteUnchanged ==
  ASSUME UNCHANGED quote
  PROVE  CInv => RowsKept
  BY DEF CInv, GoneHasNothing, RowsKept, Exists, OrderGenerated, SameChain

LEMMA RequisitionUnchanged ==
  ASSUME UNCHANGED requisition
  PROVE  RequisitionsKept
  BY DEF RequisitionsKept

LEMMA QuietMove ==
  ASSUME IInv, CInv, NEW r \in Requests, NEW l, Harmless(l), req' = [req EXCEPT ![r] = l],
         UNCHANGED <<quote, requisition>>
  PROVE  CInv'
  BY HarmlessMove, QuoteUnchanged, RequisitionUnchanged, KeepsCInv

LEMMA StopKeepsCInv ==
  ASSUME IInv, CInv, NEW r \in Requests, Stop(r)
  PROVE  CInv'
  BY HarmlessEnd, QuoteUnchanged, RequisitionUnchanged, KeepsCInv DEF Stop

\* The checks of the use cases, but that of purchasing.
LEMMA ChecksKeepCInv ==
  ASSUME IInv, CInv, NEW r \in Requests, NEW l, Harmless(l), Checked(r, l)
  PROVE  CInv'
  BY QuietMove DEF Checked

\* The reads of the transactions.
LEMMA ReadsKeepCInv ==
  ASSUME IInv, CInv, NEW r \in Requests, NEW l, Harmless(l), Read(r, l)
  PROVE  CInv'
  BY QuietMove DEF Read

\* The writes of one existing row that leave its requisition alone.
LEMMA RowWritten ==
  ASSUME IInv, CInv, NEW q \in Quotes, NEW row, Exists(q),
         quote' = [quote EXCEPT ![q] = row],
         row.status \in Statuses, SameChain(row, quote[q]),
         row.exports = quote[q].exports
  PROVE  RowsKept
  <1>1. \A s \in Quotes : quote'[s] = IF s = q THEN row ELSE quote[s]
    BY DEF IInv, TypeOK
  <1>2. QED
    BY <1>1 DEF RowsKept, Exists, OrderGenerated, CInv, GoneHasNothing, SameChain

LEMMA CheckPurchasingKeepsCInv ==
  ASSUME IInv, CInv, NEW r \in Requests, NEW q \in Quotes, CheckPurchasing(r, q)
  PROVE  CInv'
  <1> DEFINE l == [Idle EXCEPT !.pc = "checked", !.op = "PURCHASE", !.q = q]
  <1>1. req' = [req EXCEPT ![r] = l] /\ UNCHANGED <<quote, requisition>>
    BY DEF CheckPurchasing, Checked
  <1>2. \A s \in Requests : req'[s] = IF s = r THEN l ELSE req[s]
    BY <1>1 DEF IInv, TypeOK
  <1>3. l.pc = "checked" /\ l.op = "PURCHASE" /\ l.q = q
    BY DEF Idle
  <1>4. RequestsKept
    <2>1. requisition'[q] # "NONE"
      BY <1>1 DEF CheckPurchasing, OpenRequisition
    <2> HIDE DEF l
    <2>2. req'[r].pc = "checked" /\ req'[r].op = "PURCHASE" /\ req'[r].q = q
      BY <1>2, <1>3
    <2>3. CarriesTables(req[r])' /\ CarriesRevision(req[r])'
      BY <2>1, <2>2 DEF CarriesTables, CarriesRevision
    <2>4. QED BY <1>2, <2>3 DEF RequestsKept
  <1>5. QED BY <1>1, <1>4, QuoteUnchanged, RequisitionUnchanged, KeepsCInv

LEMMA SavesKeepCInv ==
  ASSUME IInv, CInv, NEW r \in Requests, Save(r)
  PROVE  CInv'
  <1>1. ASSUME NEW q \in Quotes, NEW target \in {"NONE"} \cup SubmissionStatuses,
               NEW c \in Captures, NEW i \in Contents, NEW t \in Terms,
               CheckSave(r, q, target, c, i, t)
        PROVE  CInv'
    <2> DEFINE l == [Idle EXCEPT !.pc = "checked", !.op = "SAVE", !.q = q,
                       !.target = target, !.capture = c, !.content = i, !.terms = t]
    <2>1. Checked(r, l) /\ Harmless(l)
      BY <1>1 DEF CheckSave, Harmless, Idle
    <2> HIDE DEF l
    <2>2. QED BY <2>1, ChecksKeepCInv
  <1>2. CASE ReadSave(r)
    <2> DEFINE l == [req[r] EXCEPT !.pc = "read", !.seenStatus = quote[req[r].q].status]
    <2>1. req[r] \in Request
      BY DEF IInv, TypeOK
    <2>2. Read(r, l) /\ Harmless(l)
      BY <1>2, <2>1 DEF ReadSave, At, Harmless, Request
    <2> HIDE DEF l
    <2>3. QED BY <2>2, ReadsKeepCInv
  <1>3. ASSUME NEW fromLead \in LeadInputs, CommitSave(r, fromLead)
        PROVE  CInv'
    <2> DEFINE q == req[r].q
               l == req[r]
               status == IF l.target = "NONE" THEN l.seenStatus ELSE l.target
               row == [quote[q] EXCEPT !.status = status, !.capture = l.capture,
                                       !.content = l.content, !.terms = l.terms]
    <2>1. q \in Quotes /\ LocalsOf(l) /\ Exists(q)
      BY <1>3 DEF IInv, LocalsOK, LocalsOf, CommitSave, At
    <2>2. quote[q] \in QuoteRow
      BY <2>1 DEF IInv, TypeOK
    <2>3. status \in Statuses
      BY <1>3, <2>1 DEF CommitSave, At, LocalsOf, SubmissionTargets, Editable, Statuses
    <2>4. quote' = [quote EXCEPT ![q] = row]
      BY <1>3, <2>1 DEF CommitSave, IInv, TypeOK
    <2>5. row.status = status /\ SameChain(row, quote[q]) /\ row.exports = quote[q].exports
      <3> HIDE DEF status, l, q
      <3> QED BY <2>2 DEF QuoteRow, SameChain
    <2>6. RowsKept
      <3> HIDE DEF row, status, q, l
      <3> QED BY <2>1, <2>3, <2>4, <2>5, RowWritten
    <2>7. QED
      BY <1>3, <2>6, HarmlessEnd, RequisitionUnchanged, KeepsCInv DEF CommitSave
  <1>4. QED BY <1>1, <1>2, <1>3 DEF Save

LEMMA EditsKeepCInv ==
  ASSUME IInv, CInv, NEW r \in Requests, Edit(r)
  PROVE  CInv'
  <1>1. ASSUME NEW q \in Quotes, NEW c \in Captures, NEW t \in Terms, CheckUpdate(r, q, c, t)
        PROVE  CInv'
    <2> DEFINE l == [Idle EXCEPT !.pc = "checked", !.op = "UPDATE", !.q = q,
                       !.capture = c, !.terms = t]
    <2>1. Checked(r, l) /\ Harmless(l)
      BY <1>1 DEF CheckUpdate, Harmless, Idle
    <2> HIDE DEF l
    <2>2. QED BY <2>1, ChecksKeepCInv
  <1>2. ASSUME NEW q \in Quotes, NEW i \in Contents, CheckItems(r, q, i)
        PROVE  CInv'
    <2> DEFINE l == [Idle EXCEPT !.pc = "checked", !.op = "ITEMS", !.q = q, !.content = i]
    <2>1. Checked(r, l) /\ Harmless(l)
      BY <1>2 DEF CheckItems, Harmless, Idle
    <2> HIDE DEF l
    <2>2. QED BY <2>1, ChecksKeepCInv
  <1>3. CASE ReadEdit(r)
    <2> DEFINE l == [req[r] EXCEPT !.pc = "read", !.seenStatus = quote[req[r].q].status]
    <2>1. req[r] \in Request
      BY DEF IInv, TypeOK
    <2>2. Read(r, l) /\ Harmless(l)
      BY <1>3, <2>1 DEF ReadEdit, At, Harmless, Request
    <2> HIDE DEF l
    <2>3. QED BY <2>2, ReadsKeepCInv
  <1>4. CASE CommitUpdate(r)
    <2> DEFINE q == req[r].q
               l == req[r]
               status == StatusAfterEdit(r)
               row == [quote[q] EXCEPT !.status = status, !.capture = l.capture,
                                       !.terms = l.terms]
    <2>1. q \in Quotes /\ Exists(q)
      BY <1>4 DEF IInv, LocalsOK, LocalsOf, CommitUpdate, At
    <2>2. quote[q] \in QuoteRow
      BY <2>1 DEF IInv, TypeOK
    <2>3. status \in Statuses
      BY <2>1, StatusAfterEditType DEF IInv
    <2>4. quote' = [quote EXCEPT ![q] = row]
      BY <1>4, <2>1 DEF CommitUpdate, IInv, TypeOK
    <2>5. row.status = status /\ SameChain(row, quote[q]) /\ row.exports = quote[q].exports
      <3> HIDE DEF status, l, q
      <3> QED BY <2>2 DEF QuoteRow, SameChain
    <2>6. RowsKept
      <3> HIDE DEF row, status, q, l
      <3> QED BY <2>1, <2>3, <2>4, <2>5, RowWritten
    <2>7. QED
      BY <1>4, <2>6, HarmlessEnd, RequisitionUnchanged, KeepsCInv DEF CommitUpdate
  <1>5. CASE CommitItems(r)
    <2> DEFINE q == req[r].q
               l == req[r]
               status == StatusAfterEdit(r)
               row == [quote[q] EXCEPT !.status = status, !.content = l.content]
    <2>1. q \in Quotes /\ Exists(q)
      BY <1>5 DEF IInv, LocalsOK, LocalsOf, CommitItems, At
    <2>2. quote[q] \in QuoteRow
      BY <2>1 DEF IInv, TypeOK
    <2>3. status \in Statuses
      BY <2>1, StatusAfterEditType DEF IInv
    <2>4. quote' = [quote EXCEPT ![q] = row]
      BY <1>5, <2>1 DEF CommitItems, IInv, TypeOK
    <2>5. row.status = status /\ SameChain(row, quote[q]) /\ row.exports = quote[q].exports
      <3> HIDE DEF status, l, q
      <3> QED BY <2>2 DEF QuoteRow, SameChain
    <2>6. RowsKept
      <3> HIDE DEF row, status, q, l
      <3> QED BY <2>1, <2>3, <2>4, <2>5, RowWritten
    <2>7. QED
      BY <1>5, <2>6, HarmlessEnd, RequisitionUnchanged, KeepsCInv DEF CommitItems
  <1>6. QED BY <1>1, <1>2, <1>3, <1>4, <1>5 DEF Edit

LEMMA CommitChangeKeepsCInv ==
  ASSUME IInv, CInv, NEW r \in Requests, CommitChange(r)
  PROVE  CInv'
  <1> DEFINE q == req[r].q
             target == req[r].target
             row == [quote[q] EXCEPT !.status = target]
  <1>1. q \in Quotes /\ target \in Statuses /\ Exists(q) /\ req[r].op = "CHANGE"
    BY DEF IInv, LocalsOK, LocalsOf, CommitChange, At
  <1>2. \A s \in Quotes : quote[s] \in QuoteRow
    BY DEF IInv, TypeOK
  <1>3. row.status = target /\ SameChain(row, quote[q]) /\ row.exports = quote[q].exports
    <2> HIDE DEF target, q
    <2> QED BY <1>1, <1>2 DEF QuoteRow, SameChain
  <1>4. quote' = [s \in Quotes |->
                   IF s = q THEN row
                   ELSE IF target = "QUOTED" /\ s = quote[q].prev
                        THEN SupersededRow(s, q) ELSE quote[s]]
    BY DEF CommitChange
  <1>5. \A s \in Quotes :
          /\ SupersededRow(s, q).status \in Statuses
          /\ SameChain(SupersededRow(s, q), quote[s])
          /\ SupersededRow(s, q).exports = quote[s].exports
    <2> HIDE DEF q
    <2> QED BY <1>2 DEF SupersededRow, QuoteRow, Statuses, SameChain
  <1>6. \A s \in Quotes : s = quote[q].prev => Exists(s)
    BY <1>1, ConstantsAssumption DEF CInv, Chained, ChainRow
  <1>7. RowsKept
    <2> SUFFICES ASSUME NEW s \in Quotes
                 PROVE  /\ Exists(s) => quote'[s].status \in Statuses
                        /\ ~Exists(s) => quote'[s].status = quote[s].status
                        /\ OrderGenerated(s) => quote'[s].exports > 0
                        /\ ~Exists(s) => ~(quote'[s].exports > 0)
                        /\ SameChain(quote'[s], quote[s])
      BY DEF RowsKept
    <2>1. CASE s = q
      <3>1. quote'[s] = row
        BY <1>4, <2>1
      <3> HIDE DEF row
      <3>2. QED BY <1>1, <1>3, <2>1, <3>1 DEF Exists, OrderGenerated
    <2>2. CASE s # q /\ target = "QUOTED" /\ s = quote[q].prev
      <3>1. quote'[s] = SupersededRow(s, q)
        BY <1>4, <2>2
      <3>2. QED BY <1>5, <1>6, <2>2, <3>1 DEF Exists, OrderGenerated
    <2>3. CASE s # q /\ ~(target = "QUOTED" /\ s = quote[q].prev)
      <3>1. quote'[s] = quote[s]
        BY <1>4, <2>3
      <3>2. QED BY <3>1 DEF Exists, OrderGenerated, CInv, GoneHasNothing, SameChain
    <2>4. QED BY <2>1, <2>2, <2>3
  <1>8. RequisitionsKept
    <2>1. \A s \in Quotes :
            requisition'[s] = IF s = q THEN RequisitionAfter(q, target) ELSE requisition[s]
      BY DEF CommitChange, IInv, TypeOK
    <2>2. QED BY <1>1, <2>1 DEF RequisitionsKept, RequisitionAfter
  <1>9. RequestsKept
    <2>1. CASE target = "APPROVED" /\ quote[q].capture # "EXCEL_IMPORT"
      <3> DEFINE buys == quote[q].content = "TO_PURCHASE"
                 l == [req[r] EXCEPT !.pc = "ensure", !.buys = buys]
      <3>1. req' = [req EXCEPT ![r] = l]
        BY <2>1 DEF CommitChange, IInv, TypeOK
      <3>2. Harmless(l)
        <4>1. req[r] \in Request
          BY DEF IInv, TypeOK
        <4> HIDE DEF buys
        <4>2. QED BY <1>1, <4>1 DEF Request, Harmless
      <3> HIDE DEF l
      <3>3. QED BY <3>1, <3>2, HarmlessMove
    <2>2. CASE ~(target = "APPROVED" /\ quote[q].capture # "EXCEL_IMPORT")
      BY <2>2, HarmlessEnd DEF CommitChange
    <2>3. QED BY <2>1, <2>2
  <1>10. QED BY <1>7, <1>8, <1>9, KeepsCInv

LEMMA StatusChangesKeepCInv ==
  ASSUME IInv, CInv, NEW r \in Requests, ChangeStatus(r)
  PROVE  CInv'
  <1>1. ASSUME NEW q \in Quotes, NEW requested \in Statuses, NEW enabled \in ApprovalModes,
               CheckChange(r, q, requested, enabled)
        PROVE  CInv'
    <2> DEFINE l == [Idle EXCEPT !.pc = "checked", !.op = "CHANGE", !.q = q,
                       !.target = TargetStatus(requested, enabled)]
    <2>1. Checked(r, l) /\ Harmless(l)
      BY <1>1 DEF CheckChange, Harmless, Idle
    <2> HIDE DEF l
    <2>2. QED BY <2>1, ChecksKeepCInv
  <1>2. ASSUME NEW q \in Quotes, CheckApprovedAgain(r, q)
        PROVE  CInv'
    <2> DEFINE l == [Idle EXCEPT !.pc = "ensure", !.op = "CHANGE", !.q = q,
                       !.target = "APPROVED", !.buys = quote[q].content = "TO_PURCHASE"]
    <2>1. Checked(r, l) /\ Harmless(l)
      BY <1>2 DEF CheckApprovedAgain, Harmless, Idle
    <2> HIDE DEF l
    <2>2. QED BY <2>1, ChecksKeepCInv
  <1>3. CASE EnsureRequisition(r)
    <2>1. Exists(req[r].q) /\ UNCHANGED quote
      BY <1>3 DEF EnsureRequisition
    <2>2. \A s \in Quotes : requisition'[s] =
            IF s = req[r].q /\ requisition[s] = "NONE" /\ req[r].buys THEN "OPEN" ELSE requisition[s]
      BY <1>3 DEF EnsureRequisition, IInv, TypeOK
    <2>3. RequisitionsKept
      BY <2>1, <2>2 DEF RequisitionsKept
    <2>4. QED BY <1>3, <2>1, <2>3, HarmlessEnd, QuoteUnchanged, KeepsCInv DEF EnsureRequisition
  <1>4. QED BY <1>1, <1>2, <1>3, CommitChangeKeepsCInv DEF ChangeStatus


\* A row that starts a chain, or continues one with the number after its last.
Extends(row) ==
  \/ row.root = NoQuote /\ row.prev = NoQuote /\ row.rev = 0
  \/ /\ row.root \in Quotes /\ Exists(row.root) /\ quote[row.root].root = NoQuote
     /\ row.prev \in Quotes /\ Exists(row.prev) /\ RootOf(row.prev) = row.root
     /\ row.rev \in Nat /\ quote[row.prev].rev < row.rev
     /\ row.rev = 1 \/ Numbered(row.root, row.rev - 1)
     /\ ~Numbered(row.root, row.rev)

LEMMA ChainExtended ==
  ASSUME IInv, CInv, NEW s \in Quotes, NEW row, Unused(s),
         \A t \in Quotes : quote'[t] = IF t = s THEN row ELSE quote[t],
         row.status \in Statuses, Extends(row)
  PROVE  Chained' /\ NumberedOnce'
  <1> USE DEF CInv
  <1>1. ~Exists(s)
    BY DEF Unused, Exists, Statuses
  <1>2. \A t \in Quotes : Exists(t) => quote'[t] = quote[t] /\ t # s
    BY <1>1
  <1>3. \A c, n : Numbered(c, n) =>
          \E t \in Quotes : /\ quote'[t].status \in Statuses
                            /\ quote'[t].root = c /\ quote'[t].rev = n
    BY <1>2 DEF Numbered, Exists
  <1>4. ASSUME NEW t \in Quotes, Exists(t)
        PROVE  ChainRow(t)'
    <2> DEFINE c == quote[t].root
               p == quote[t].prev
    <2>1. ChainRow(t) /\ quote'[t] = quote[t]
      BY <1>2, <1>4 DEF Chained
    <2>2. CASE c = NoQuote /\ p = NoQuote /\ quote[t].rev = 0
      BY <2>1, <2>2 DEF ChainRow
    <2>3. CASE ~(c = NoQuote /\ p = NoQuote /\ quote[t].rev = 0)
      <3>1. /\ c \in Quotes /\ Exists(c) /\ quote[c].root = NoQuote
            /\ p \in Quotes /\ Exists(p) /\ RootOf(p) = c
            /\ quote[p].rev < quote[t].rev
            /\ \A n \in 1..quote[t].rev : Numbered(c, n)
        BY <2>1, <2>3 DEF ChainRow
      <3>2. /\ quote'[t].root = c /\ quote'[t].prev = p /\ quote'[t].rev = quote[t].rev
            /\ quote'[c] = quote[c] /\ quote'[p] = quote[p]
        BY <1>2, <2>1, <3>1
      <3>3. (IF quote'[p].root = NoQuote THEN p ELSE quote'[p].root) = c
        BY <3>1, <3>2 DEF RootOf
      <3>4. \A n \in 1..quote[t].rev :
              \E u \in Quotes : /\ quote'[u].status \in Statuses
                                /\ quote'[u].root = c /\ quote'[u].rev = n
        BY <1>3, <3>1
      <3> HIDE DEF c, p
      <3>5. QED BY <3>1, <3>2, <3>3, <3>4 DEF ChainRow, RootOf, Exists, Numbered
    <2>4. QED BY <2>2, <2>3
  <1>5. ChainRow(s)'
    <2>1. quote'[s] = row
      OBVIOUS
    <2>2. CASE row.root = NoQuote /\ row.prev = NoQuote /\ row.rev = 0
      BY <2>1, <2>2 DEF ChainRow
    <2>3. CASE ~(row.root = NoQuote /\ row.prev = NoQuote /\ row.rev = 0)
      <3> DEFINE c == row.root
                 p == row.prev
      <3>1. /\ c \in Quotes /\ Exists(c) /\ quote[c].root = NoQuote
            /\ p \in Quotes /\ Exists(p) /\ RootOf(p) = c
            /\ row.rev \in Nat /\ quote[p].rev < row.rev
            /\ row.rev = 1 \/ Numbered(c, row.rev - 1)
        BY <2>3 DEF Extends
      <3>2. /\ quote'[s].root = c /\ quote'[s].prev = p /\ quote'[s].rev = row.rev
            /\ quote'[c] = quote[c] /\ quote'[p] = quote[p]
        BY <1>2, <2>1, <3>1
      <3>3. (IF quote'[p].root = NoQuote THEN p ELSE quote'[p].root) = c
        BY <3>1, <3>2 DEF RootOf
      <3>4. ASSUME NEW n \in 1..row.rev, n # row.rev
            PROVE  Numbered(c, n)
        <4>1. row.rev # 1 /\ n \in 1..(row.rev - 1)
          BY <3>1, <3>4
        <4>2. PICK t \in Quotes : Exists(t) /\ quote[t].root = c /\ quote[t].rev = row.rev - 1
          BY <3>1, <4>1 DEF Numbered
        <4>3. ChainRow(t) /\ quote[t].root # NoQuote
          BY <3>1, <4>2, ConstantsAssumption DEF Chained
        <4>4. QED BY <4>1, <4>2, <4>3 DEF ChainRow
      <3>5. \A n \in 1..row.rev :
              \E u \in Quotes : /\ quote'[u].status \in Statuses
                                /\ quote'[u].root = c /\ quote'[u].rev = n
        BY <1>3, <2>1, <3>2, <3>4
      <3> HIDE DEF c, p
      <3>6. QED BY <3>1, <3>2, <3>3, <3>5 DEF ChainRow, RootOf, Exists, Numbered
    <2>4. QED BY <2>2, <2>3
  <1>6. Chained'
    BY <1>4, <1>5 DEF Chained, Exists
  <1>7. ASSUME NEW t \in Quotes, Exists(t), row.root # NoQuote,
               row.root = quote[t].root, row.rev = quote[t].rev
        PROVE  FALSE
    BY <1>7 DEF Extends, Numbered
  <1>8. NumberedOnce'
    <2> SUFFICES ASSUME NEW t \in Quotes, NEW u \in Quotes, t # u,
                        quote'[t].status \in Statuses, quote'[u].status \in Statuses,
                        quote'[t].root # NoQuote, quote'[t].root = quote'[u].root,
                        quote'[t].rev = quote'[u].rev
                 PROVE  FALSE
      BY DEF NumberedOnce, Exists
    <2>1. CASE t # s /\ u # s
      BY <2>1 DEF NumberedOnce, Exists
    <2>2. CASE t = s
      BY <2>2, <1>7 DEF Exists
    <2>3. CASE u = s
      BY <2>3, <1>7 DEF Exists
    <2>4. QED BY <2>1, <2>2, <2>3
  <1>9. QED BY <1>6, <1>8

\* A row that is written for the first time.
LEMMA RowAdded ==
  ASSUME IInv, CInv, NEW s \in Quotes, NEW row, Unused(s),
         quote' = [quote EXCEPT ![s] = row], row.status \in Statuses, Extends(row),
         UNCHANGED requisition,
         \A r \in Requests : req'[r] = req[r] \/ Harmless(req'[r])
  PROVE  CInv'
  <1> USE DEF CInv
  <1>1. \A t \in Quotes : quote'[t] = IF t = s THEN row ELSE quote[t]
    BY DEF IInv, TypeOK
  <1>2. ~Exists(s) /\ quote[s].status = "ABSENT"
    BY DEF Unused, Exists, Statuses
  <1>3. requisition[s] = "NONE" /\ ~OrderGenerated(s)
    BY <1>2 DEF GoneHasNothing
  <1>4. GoneHasNothing'
    BY <1>1 DEF GoneHasNothing, Exists, OrderGenerated
  <1>5. Chained' /\ NumberedOnce'
    BY <1>1, ChainExtended
  <1>6. \A c, n : Numbered(c, n) =>
          \E t \in Quotes : /\ quote'[t].status \in Statuses
                            /\ quote'[t].root = c /\ quote'[t].rev = n
    BY <1>1, <1>2 DEF Numbered, Exists
  <1>7. InFlightOK'
    <2> SUFFICES ASSUME NEW r \in Requests
                 PROVE  CarriesTables(req[r])' /\ CarriesRevision(req[r])'
      BY DEF InFlightOK
    <2>1. CASE Harmless(req'[r])
      BY <2>1 DEF Harmless, CarriesTables, CarriesRevision
    <2>2. CASE req'[r] = req[r]
      <3>1. /\ CarriesTables(req[r]) /\ CarriesRevision(req[r])
            /\ req[r].pc # "idle" => req[r].q \in Quotes
        BY DEF InFlightOK, IInv, LocalsOK, LocalsOf
      <3>2. CASE req[r].pc # "idle" /\ req[r].q # s
        <4>1. quote'[req[r].q] = quote[req[r].q]
          BY <1>1, <3>1, <3>2
        <4>2. CarriesTables(req[r])'
          BY <2>2, <3>1, <4>1 DEF CarriesTables, OrderGenerated, Unused
        <4>3. CarriesRevision(req[r])'
          BY <1>6, <2>2, <3>1, <4>1 DEF CarriesRevision, RootOf, Unused, Numbered, Exists
        <4>4. QED BY <4>2, <4>3
      <3>3. CASE req[r].pc # "idle" /\ req[r].q = s
        <4>1. /\ req[r].pc # "complete" /\ req[r].op # "PURCHASE"
              /\ ~(req[r].pc = "read" /\ req[r].op = "DELETE")
              /\ ~(req[r].pc \in {"active", "read"} /\ req[r].op = "REVISE")
          BY <1>2, <1>3, <3>1, <3>3 DEF CarriesTables, CarriesRevision, Unused
        <4>2. QED BY <2>2, <4>1 DEF CarriesTables, CarriesRevision
      <3>4. CASE req[r].pc = "idle"
        BY <2>2, <3>4 DEF CarriesTables, CarriesRevision
      <3>5. QED BY <3>2, <3>3, <3>4
    <2>3. QED BY <2>1, <2>2
  <1>8. CompletedWasOrdered'
    BY <1>1, <1>3 DEF CompletedWasOrdered, OrderGenerated
  <1>9. QED BY <1>4, <1>5, <1>7, <1>8

LEMMA CreationsKeepCInv ==
  ASSUME IInv, CInv, NewQuote
  PROVE  CInv'
  <1>1. PICK q \in Quotes, status \in {"DRAFT"} \cup SubmissionStatuses,
             c \in Captures, i \in Contents, t \in Terms, fromLead \in LeadInputs :
               Create(q, status, c, i, t, fromLead)
    BY DEF NewQuote
  <1> DEFINE row == NewRow(status, c, i, t)
  <1>2. row.status = status /\ row.root = NoQuote /\ row.prev = NoQuote /\ row.rev = 0
    BY DEF NewRow, AbsentRow
  <1>3. status \in Statuses
    BY DEF SubmissionStatuses, Statuses
  <1>4. /\ quote' = [quote EXCEPT ![q] = row]
        /\ Unused(q) /\ UNCHANGED <<requisition, req>>
    BY <1>1 DEF Create
  <1> HIDE DEF row
  <1>5. Extends(row)
    BY <1>2 DEF Extends
  <1>6. QED BY <1>2, <1>3, <1>4, <1>5, RowAdded

\* A request that goes on, of which the invariant says something.
LEMMA CarriedMove ==
  ASSUME IInv, CInv, NEW r \in Requests, NEW l, CarriesTables(l), CarriesRevision(l),
         req' = [req EXCEPT ![r] = l], UNCHANGED <<quote, requisition>>
  PROVE  CInv'
  <1>1. req'[r] = l /\ \A s \in Requests : s # r => req'[s] = req[s]
    BY DEF IInv, TypeOK
  <1>2. CarriesTables(req[r])'
    BY <1>1 DEF CarriesTables, OrderGenerated, Unused
  <1>3. CarriesRevision(req[r])'
    BY <1>1 DEF CarriesRevision, RootOf, Unused, Numbered, Exists
  <1>4. RequestsKept
    BY <1>1, <1>2, <1>3 DEF RequestsKept
  <1>5. QED BY <1>4, QuoteUnchanged, RequisitionUnchanged, KeepsCInv

\* The root of a chain is an original, and exists as long as a version does.
LEMMA RootExists ==
  ASSUME IInv, CInv, NEW q \in Quotes, Exists(q)
  PROVE  /\ RootOf(q) \in Quotes /\ Exists(RootOf(q)) /\ quote[RootOf(q)].root = NoQuote
         /\ quote[q].root = NoQuote => quote[q].rev = 0
  BY ConstantsAssumption DEF CInv, Chained, ChainRow, RootOf

\* The next number of a chain is higher than that of each of its versions.
LEMMA NumberRevisionKeepsCInv ==
  ASSUME IInv, CInv, NEW r \in Requests, NumberRevision(r)
  PROVE  CInv'
  <1> DEFINE q == req[r].q
             root == req[r].seenRoot
  <1>1. /\ req[r] \in Request /\ req[r].pc = "active" /\ req[r].op = "REVISE"
        /\ q \in Quotes /\ CarriesRevision(req[r])
    BY DEF IInv, TypeOK, LocalsOK, LocalsOf, CInv, InFlightOK, NumberRevision, At
  <1>2. ~Unused(q) /\ root = RootOf(q)
    BY <1>1 DEF CarriesRevision
  <1>3. PICK latest \in RevisionNumbers(root) :
          /\ \A n \in RevisionNumbers(root) : n <= latest
          /\ Read(r, [req[r] EXCEPT !.pc = "read", !.seenRev = latest + 1])
    BY DEF NumberRevision
  <1> DEFINE n == latest + 1
             l == [req[r] EXCEPT !.pc = "read", !.seenRev = n]
  <1>4. latest \in Nat
    BY <1>3, RevisionNumbersAreNat DEF IInv
  <1>5. quote[q].rev <= latest
    <2>1. 0 <= latest
      BY <1>4
    <2>2. CASE quote[q].root = NoQuote
      BY <1>1, <2>1, <2>2, RootExists DEF CInv, GoneHasNothing
    <2>3. CASE quote[q].root # NoQuote
      <3>1. Exists(q)
        BY <1>1, <2>3 DEF CInv, GoneHasNothing
      <3>2. quote[q].rev \in RevisionNumbers(root)
        BY <1>1, <1>2, <2>3, <3>1 DEF RevisionNumbers, RevisionsOf, RootOf
      <3>3. QED BY <1>3, <3>2
    <2>4. QED BY <2>2, <2>3
  <1>6. quote[q].rev \in Nat
    BY <1>1 DEF IInv, TypeOK, QuoteRow
  <1>7. latest = 0 \/ Numbered(root, latest)
    BY <1>3 DEF RevisionNumbers, RevisionsOf, Numbered
  <1>8. quote[q].rev < n /\ (n = 1 \/ Numbered(root, n - 1))
    <2>1. n - 1 = latest
      BY <1>4
    <2>2. latest = 0 => n = 1
      OBVIOUS
    <2>3. quote[q].rev < n
      BY <1>4, <1>5, <1>6
    <2> HIDE DEF n
    <2>4. QED BY <1>7, <2>1, <2>2, <2>3
  <1>9. l.pc = "read" /\ l.op = "REVISE" /\ l.q = q /\ l.seenRoot = root /\ l.seenRev = n
    <2> HIDE DEF n
    <2> QED BY <1>1 DEF Request
  <1>10. CarriesTables(l) /\ CarriesRevision(l)
    <2> HIDE DEF l, n, q, root
    <2> QED BY <1>2, <1>8, <1>9 DEF CarriesTables, CarriesRevision
  <1>11. req' = [req EXCEPT ![r] = l] /\ UNCHANGED <<quote, requisition>>
    BY <1>3 DEF Read
  <1> HIDE DEF l
  <1>12. QED BY <1>10, <1>11, CarriedMove

LEMMA CommitReviseKeepsCInv ==
  ASSUME IInv, CInv, NEW r \in Requests, NEW s \in Quotes, CommitRevise(r, s)
  PROVE  CInv'
  <1> DEFINE q == req[r].q
             new == NewRow("DRAFT", req[r].capture, req[r].content, req[r].terms)
             root == req[r].seenRoot
             rev == req[r].seenRev
             row == [new EXCEPT !.root = root, !.prev = q, !.rev = rev]
  <1>1. /\ q \in Quotes /\ Exists(q) /\ Unused(s) /\ rev \in Nat
        /\ req[r].pc = "read" /\ req[r].op = "REVISE" /\ CarriesRevision(req[r])
    BY DEF IInv, TypeOK, Request, LocalsOK, LocalsOf, CInv, InFlightOK, CommitRevise, At
  <1>2. /\ row.status = "DRAFT" /\ row.root = root /\ row.prev = q /\ row.rev = rev
    <2> HIDE DEF q, root, rev
    <2> QED BY DEF NewRow, AbsentRow
  <1>3. /\ root = RootOf(q) /\ quote[q].rev < rev
        /\ rev = 1 \/ Numbered(root, rev - 1)
    BY <1>1 DEF CarriesRevision
  <1>4. ~Numbered(root, rev)
    BY DEF CommitRevise, RevisionNumberFree, RevisionsOf, Numbered
  <1>5. root \in Quotes /\ Exists(root) /\ quote[root].root = NoQuote
    BY <1>1, <1>3, RootExists
  <1>6. Extends(row)
    <2> HIDE DEF row, q, root, rev
    <2> QED BY <1>1, <1>2, <1>3, <1>4, <1>5 DEF Extends
  <1>7. quote' = [quote EXCEPT ![s] = row] /\ UNCHANGED requisition
    BY DEF CommitRevise
  <1>8. \A t \in Requests : req'[t] = req[t] \/ Harmless(req'[t])
    BY DEF CommitRevise, Finish, IInv, TypeOK, Harmless, Idle
  <1>9. row.status \in Statuses
    BY <1>2 DEF Statuses
  <1> HIDE DEF row, q
  <1>10. QED BY <1>1, <1>6, <1>7, <1>8, <1>9, RowAdded

LEMMA RevisionsKeepCInv ==
  ASSUME IInv, CInv, NEW r \in Requests, Revise(r)
  PROVE  CInv'
  <1>0. req[r] \in Request
    BY DEF IInv, TypeOK
  <1>1. ASSUME NEW q \in Quotes, CheckRevise(r, q)
        PROVE  CInv'
    <2> DEFINE l == [Idle EXCEPT !.pc = "checked", !.op = "REVISE", !.q = q]
    <2>1. Checked(r, l) /\ Harmless(l)
      BY <1>1 DEF CheckRevise, Harmless, Idle
    <2> HIDE DEF l
    <2>2. QED BY <2>1, ChecksKeepCInv
  <1>2. CASE ReadRevise(r)
    <2> DEFINE q == req[r].q
               root == RootOf(q)
               row == quote[q]
               l == [req[r] EXCEPT !.pc = "active", !.seenRoot = root,
                       !.capture = row.capture, !.content = row.content,
                       !.terms = row.terms]
    <2>1. Read(r, l) /\ req[r].op = "REVISE" /\ ~Unused(q)
      BY <1>2 DEF ReadRevise, At, Exists, Unused, Statuses
    <2>2. l.pc = "active" /\ l.op = "REVISE" /\ l.q = q /\ l.seenRoot = root
      <3> HIDE DEF row, root
      <3> QED BY <1>0, <2>1 DEF Request
    <2> HIDE DEF l, q
    <2>3. CarriesTables(l) /\ CarriesRevision(l)
      BY <2>1, <2>2 DEF CarriesTables, CarriesRevision
    <2>4. QED BY <2>1, <2>3, CarriedMove DEF Read
  <1>3. QED
    BY <1>1, <1>2, NumberRevisionKeepsCInv, CommitReviseKeepsCInv DEF Revise

LEMMA CommitOrderKeepsCInv ==
  ASSUME IInv, CInv, NEW r \in Requests, CommitOrder(r)
  PROVE  CInv'
  <1> DEFINE q == req[r].q
             n == quote[q].exports + 1
             row == [quote[q] EXCEPT !.exports = n]
  <1>1. q \in Quotes /\ Exists(q) /\ req[r] \in Request /\ req[r].op = "ORDER"
    BY DEF IInv, TypeOK, LocalsOK, LocalsOf, CommitOrder, At
  <1>2. quote[q] \in QuoteRow
    BY <1>1 DEF IInv, TypeOK
  <1>3. n > 0
    BY <1>2 DEF QuoteRow
  <1>4. row.status = quote[q].status /\ SameChain(row, quote[q]) /\ row.exports = n
    <2> HIDE DEF n, q
    <2> QED BY <1>2 DEF QuoteRow, SameChain
  <1>5. quote' = [quote EXCEPT ![q] = row]
    BY <1>1 DEF CommitOrder, IInv, TypeOK
  <1>6. \A s \in Quotes : quote'[s] = IF s = q THEN row ELSE quote[s]
    BY <1>5 DEF IInv, TypeOK
  <1>7. RowsKept
    <2> HIDE DEF row, n, q
    <2> QED
      BY <1>1, <1>3, <1>4, <1>6
      DEF RowsKept, Exists, OrderGenerated, CInv, GoneHasNothing, SameChain
  <1>8. RequestsKept
    <2>1. CASE req[r].buys
      <3> DEFINE l == [req[r] EXCEPT !.pc = "complete"]
      <3>1. req' = [req EXCEPT ![r] = l]
        BY <2>1 DEF CommitOrder, IInv, TypeOK
      <3>2. l.q = q /\ l.op = "ORDER" /\ l.pc = "complete"
        BY <1>1 DEF Request
      <3>3. quote'[q].exports > 0
        <4> HIDE DEF row, n, q
        <4> QED BY <1>1, <1>3, <1>4, <1>6
      <3>4. \A s \in Requests : req'[s] = IF s = r THEN l ELSE req[s]
        BY <3>1 DEF IInv, TypeOK
      <3> HIDE DEF l, q
      <3>5. req'[r].q = q /\ req'[r].op = "ORDER" /\ req'[r].pc = "complete"
        BY <3>2, <3>4
      <3>6. CarriesTables(req[r])' /\ CarriesRevision(req[r])'
        BY <3>3, <3>5 DEF CarriesTables, CarriesRevision, OrderGenerated
      <3>7. QED BY <3>4, <3>6 DEF RequestsKept
    <2>2. CASE ~req[r].buys
      BY <2>2, HarmlessEnd DEF CommitOrder
    <2>3. QED BY <2>1, <2>2
  <1>9. QED BY <1>7, <1>8, RequisitionUnchanged, KeepsCInv DEF CommitOrder

\* The order was generated, or the quote is gone and so is its requisition.
LEMMA CompleteRequisitionKeepsCInv ==
  ASSUME IInv, CInv, NEW r \in Requests, NEW enabled \in ApprovalModes,
         CompleteRequisition(r, enabled)
  PROVE  CInv'
  <1> DEFINE q == req[r].q
  <1>1. q \in Quotes /\ CarriesTables(req[r])
    BY DEF IInv, LocalsOK, LocalsOf, CInv, InFlightOK, CompleteRequisition
  <1>2. OrderGenerated(q) \/ (~Exists(q) /\ requisition[q] = "NONE")
    BY <1>1 DEF CarriesTables, CompleteRequisition, CInv, GoneHasNothing, Exists, Statuses
  <1>3. \A s \in Quotes :
          requisition'[s] = IF s = q /\ requisition[s] \in Orderable(enabled)
                            THEN "COMPLETED" ELSE requisition[s]
    BY DEF CompleteRequisition, IInv, TypeOK
  <1>4. RequisitionsKept
    <2>1. "NONE" \notin Orderable(enabled)
      BY DEF Orderable
    <2>2. \A s \in Quotes : ~Exists(s) => requisition[s] = "NONE"
      BY DEF CInv, GoneHasNothing
    <2> HIDE DEF q
    <2>3. QED BY <1>2, <1>3, <2>1, <2>2 DEF RequisitionsKept
  <1>5. QED
    BY <1>4, HarmlessEnd, QuoteUnchanged, KeepsCInv DEF CompleteRequisition

LEMMA OrdersKeepCInv ==
  ASSUME IInv, CInv, NEW r \in Requests, GenerateOrder(r)
  PROVE  CInv'
  <1>1. ASSUME NEW q \in Quotes, NEW enabled \in ApprovalModes, NEW itemsReady \in BOOLEAN,
               CheckOrder(r, q, enabled, itemsReady)
        PROVE  CInv'
    <2> DEFINE buys == quote[q].content = "TO_PURCHASE" /\ RequisitionReady(q, enabled, itemsReady)
               l == [Idle EXCEPT !.pc = "checked", !.op = "ORDER", !.q = q, !.buys = buys]
    <2>1. Checked(r, l)
      BY <1>1 DEF CheckOrder
    <2>2. Harmless(l)
      <3> HIDE DEF buys
      <3> QED BY DEF Harmless, Idle
    <2> HIDE DEF l
    <2>3. QED BY <2>1, <2>2, ChecksKeepCInv
  <1>2. QED
    BY <1>1, CommitOrderKeepsCInv, CompleteRequisitionKeepsCInv DEF GenerateOrder

LEMMA RegistrationsKeepCInv ==
  ASSUME IInv, CInv, NEW r \in Requests, RegisterErp(r)
  PROVE  CInv'
  <1>1. ASSUME NEW q \in Quotes, NEW n \in ErpNumbers, CheckRegister(r, q, n)
        PROVE  CInv'
    <2> DEFINE capture == quote[q].capture
               l == [Idle EXCEPT !.pc = "checked", !.op = "REGISTER", !.q = q,
                       !.capture = capture, !.number = n]
    <2>1. Checked(r, l)
      BY <1>1 DEF CheckRegister
    <2>2. Harmless(l)
      <3> HIDE DEF capture
      <3> QED BY DEF Harmless, Idle
    <2> HIDE DEF l
    <2>3. QED BY <2>1, <2>2, ChecksKeepCInv
  <1>2. CASE ReadRegister(r)
    <2> DEFINE n == quote[req[r].q][LinkField(req[r].capture)]
               l == [req[r] EXCEPT !.pc = "read", !.seenNumber = n]
    <2>1. Read(r, l) /\ req[r].op = "REGISTER" /\ req[r] \in Request
      BY <1>2 DEF ReadRegister, At, IInv, TypeOK
    <2>2. Harmless(l)
      <3> HIDE DEF n
      <3> QED BY <2>1 DEF Harmless, Request
    <2> HIDE DEF l
    <2>3. QED BY <2>1, <2>2, ReadsKeepCInv
  <1>3. CASE CommitRegister(r)
    <2> DEFINE q == req[r].q
               n == req[r].number
               byQuote == [quote[q] EXCEPT !.erpQuote = n]
               byOrder == [quote[q] EXCEPT !.erpOrder = n]
    <2>1. q \in Quotes /\ quote[q].status = "APPROVED"
      BY <1>3, CommitRegisterWrites
    <2>2. quote[q] \in QuoteRow /\ Exists(q)
      BY <2>1 DEF IInv, TypeOK, Exists, Statuses
    <2>3. quote' = [quote EXCEPT ![q] = byQuote] \/ quote' = [quote EXCEPT ![q] = byOrder]
      BY <1>3, <2>1 DEF CommitRegister, IInv, TypeOK
    <2>4. /\ byQuote.status = quote[q].status /\ byOrder.status = quote[q].status
          /\ SameChain(byQuote, quote[q]) /\ SameChain(byOrder, quote[q])
          /\ byQuote.exports = quote[q].exports /\ byOrder.exports = quote[q].exports
      <3> HIDE DEF q, n
      <3> QED BY <2>2 DEF QuoteRow, SameChain
    <2>5. RowsKept
      <3> HIDE DEF byQuote, byOrder, q
      <3> QED BY <2>1, <2>2, <2>3, <2>4, RowWritten DEF Statuses
    <2>6. QED
      BY <1>3, <2>5, HarmlessEnd, RequisitionUnchanged, KeepsCInv DEF CommitRegister
  <1>4. QED BY <1>1, <1>2, <1>3 DEF RegisterErp

\* Only a quote without a requisition, a revision and a next version is deleted.
LEMMA CommitDeleteKeepsCInv ==
  ASSUME IInv, CInv, NEW r \in Requests, CommitDelete(r)
  PROVE  CInv'
  <1> USE DEF CInv
  <1> DEFINE q == req[r].q
  <1>1. /\ q \in Quotes /\ Exists(q)
        /\ requisition[q] = "NONE" /\ UNCHANGED requisition
        /\ quote[q].root = NoQuote
    BY DEF IInv, LocalsOK, LocalsOf, CommitDelete, At, NotReferenced, InFlightOK, CarriesTables
  <1>2. \A s \in Quotes : Exists(s) => quote[s].prev # q /\ quote[s].root # q
    BY DEF CommitDelete, NotReferenced, NextVersions, RevisionsOf
  <1>3. /\ DeletedRow.status = "DELETED" /\ DeletedRow.exports = 0
        /\ DeletedRow.root = NoQuote /\ DeletedRow.rev = 0
    BY DEF DeletedRow, AbsentRow
  <1>4. \A s \in Quotes : quote'[s] = IF s = q THEN DeletedRow ELSE quote[s]
    BY DEF CommitDelete, IInv, TypeOK
  <1>5. \A t \in Requests : req'[t] = IF t = r THEN Idle ELSE req[t]
    BY DEF CommitDelete, Finish, IInv, TypeOK
  <1>6. quote[q].rev = 0
    BY <1>1, RootExists
  <1> HIDE DEF q
  <1>7. GoneHasNothing'
    BY <1>1, <1>3, <1>4 DEF GoneHasNothing, Exists, OrderGenerated
  <1>8. \A s \in Quotes : quote'[s].status \in Statuses =>
          s # q /\ quote'[s] = quote[s] /\ Exists(s)
    BY <1>3, <1>4 DEF Exists, Statuses
  <1>9. \A c, n : c # NoQuote /\ Numbered(c, n) =>
          \E t \in Quotes : /\ quote'[t].status \in Statuses
                            /\ quote'[t].root = c /\ quote'[t].rev = n
    BY <1>1, <1>4 DEF Numbered, Exists
  <1>10. Chained'
    <2> SUFFICES ASSUME NEW s \in Quotes, quote'[s].status \in Statuses
                 PROVE  ChainRow(s)'
      BY DEF Chained, Exists
    <2> DEFINE c == quote[s].root
               p == quote[s].prev
    <2>1. ChainRow(s) /\ quote'[s] = quote[s] /\ c # q /\ p # q
      BY <1>2, <1>8 DEF Chained
    <2>2. CASE c = NoQuote /\ p = NoQuote /\ quote[s].rev = 0
      BY <2>1, <2>2 DEF ChainRow
    <2>3. CASE ~(c = NoQuote /\ p = NoQuote /\ quote[s].rev = 0)
      <3>1. /\ c \in Quotes /\ Exists(c) /\ quote[c].root = NoQuote
            /\ p \in Quotes /\ Exists(p) /\ RootOf(p) = c
            /\ quote[p].rev < quote[s].rev
            /\ \A n \in 1..quote[s].rev : Numbered(c, n)
        BY <2>1, <2>3 DEF ChainRow
      <3>2. /\ quote'[s].root = c /\ quote'[s].prev = p /\ quote'[s].rev = quote[s].rev
            /\ quote'[c] = quote[c] /\ quote'[p] = quote[p]
        BY <1>4, <2>1, <3>1
      <3>3. (IF quote'[p].root = NoQuote THEN p ELSE quote'[p].root) = c
        BY <3>1, <3>2 DEF RootOf
      <3>4. \A n \in 1..quote[s].rev :
              \E u \in Quotes : /\ quote'[u].status \in Statuses
                                /\ quote'[u].root = c /\ quote'[u].rev = n
        BY <1>9, <3>1, ConstantsAssumption
      <3> HIDE DEF c, p
      <3>5. QED BY <3>1, <3>2, <3>3, <3>4 DEF ChainRow, RootOf, Exists, Numbered
    <2>4. QED BY <2>2, <2>3
  <1>11. NumberedOnce'
    BY <1>8 DEF NumberedOnce, Exists
  <1>12. InFlightOK'
    <2> SUFFICES ASSUME NEW t \in Requests
                 PROVE  CarriesTables(req[t])' /\ CarriesRevision(req[t])'
      BY DEF InFlightOK
    <2>1. CASE t = r
      BY <1>5, <2>1 DEF Idle, CarriesTables, CarriesRevision
    <2>2. CASE t # r
      <3>1. /\ req'[t] = req[t]
            /\ CarriesTables(req[t]) /\ CarriesRevision(req[t])
            /\ req[t].pc # "idle" => req[t].q \in Quotes
        BY <1>5, <2>2 DEF InFlightOK, IInv, LocalsOK, LocalsOf
      <3>2. CASE req[t].pc = "idle"
        BY <3>1, <3>2 DEF CarriesTables, CarriesRevision
      <3>3. CASE req[t].pc # "idle"
        <4> DEFINE p == req[t].q
        <4>1. /\ p \in Quotes
              /\ quote'[p].root = quote[p].root /\ quote'[p].rev = quote[p].rev
              /\ p = q \/ quote'[p] = quote[p]
          BY <1>1, <1>3, <1>4, <1>6, <3>1, <3>3
        <4>2. ~Unused(p) => quote'[p].status # "ABSENT"
          BY <1>3, <1>4, <4>1 DEF Unused
        <4>3. req[t].pc = "complete" => quote'[p].exports > 0 \/ quote'[p].status = "DELETED"
          BY <1>3, <1>4, <3>1, <4>1 DEF CarriesTables, OrderGenerated
        <4>4. CarriesTables(req[t])'
          BY <1>1, <3>1, <4>1, <4>2, <4>3 DEF CarriesTables, OrderGenerated, Unused
        <4>5. req[t].pc = "read" /\ req[t].op = "REVISE" => req[t].seenRoot # NoQuote
          BY <3>1, <4>1, ConstantsAssumption DEF CarriesRevision, RootOf
        <4>6. CarriesRevision(req[t])'
          BY <1>9, <3>1, <4>1, <4>2, <4>5 DEF CarriesRevision, RootOf, Unused, Numbered, Exists
        <4>7. QED BY <4>4, <4>6
      <3>4. QED BY <3>2, <3>3
    <2>3. QED BY <2>1, <2>2
  <1>13. CompletedWasOrdered'
    BY <1>1, <1>4 DEF CompletedWasOrdered, OrderGenerated
  <1>14. QED BY <1>7, <1>10, <1>11, <1>12, <1>13

LEMMA AdministrationKeepsCInv ==
  ASSUME IInv, CInv, NEW r \in Requests, Administer(r)
  PROVE  CInv'
  <1>1. ASSUME NEW q \in Quotes, ArchiveOrRestore(r, q)
        PROVE  CInv'
    <2> DEFINE archived == ~quote[q].archived
               row == [quote[q] EXCEPT !.archived = archived]
    <2>1. quote[q] \in QuoteRow /\ Exists(q) /\ UNCHANGED <<requisition, req>>
      BY <1>1 DEF ArchiveOrRestore, IInv, TypeOK
    <2>2. row.status = quote[q].status /\ SameChain(row, quote[q]) /\ row.exports = quote[q].exports
      <3> HIDE DEF archived
      <3> QED BY <2>1 DEF QuoteRow, SameChain
    <2>3. quote' = [quote EXCEPT ![q] = row]
      BY <1>1 DEF ArchiveOrRestore, IInv, TypeOK
    <2>4. RowsKept
      <3> HIDE DEF row
      <3> QED BY <2>1, <2>2, <2>3, RowWritten DEF Exists
    <2>5. RequestsKept
      BY <2>1 DEF RequestsKept
    <2>6. QED BY <2>1, <2>4, <2>5, RequisitionUnchanged, KeepsCInv
  <1>2. ASSUME NEW q \in Quotes, ReadDelete(r, q)
        PROVE  CInv'
    <2> DEFINE l == [Idle EXCEPT !.pc = "read", !.op = "DELETE", !.q = q]
    <2>1. Checked(r, l) /\ ~Unused(q) /\ quote[q].root = NoQuote
      BY <1>2 DEF ReadDelete, BelongsToRevisionChain, Exists, Unused, Statuses
    <2>2. l.pc = "read" /\ l.op = "DELETE" /\ l.q = q
      BY DEF Idle
    <2> HIDE DEF l
    <2>3. CarriesTables(l) /\ CarriesRevision(l)
      BY <2>1, <2>2 DEF CarriesTables, CarriesRevision
    <2>4. QED BY <2>1, <2>3, CarriedMove DEF Checked
  <1>3. QED BY <1>1, <1>2, CommitDeleteKeepsCInv DEF Administer

LEMMA PurchasingKeepsCInv ==
  ASSUME IInv, CInv, NEW r \in Requests, Purchasing(r)
  PROVE  CInv'
  <1>1. ASSUME NEW status \in PurchasingStatuses, CommitPurchasing(r, status)
        PROVE  CInv'
    <2> DEFINE q == req[r].q
    <2>1. q \in Quotes /\ requisition[q] # "NONE" /\ UNCHANGED quote
      BY <1>1 DEF IInv, LocalsOK, LocalsOf, CInv, InFlightOK, CarriesTables, CommitPurchasing, At
    <2>2. \A s \in Quotes : requisition'[s] = IF s = q THEN status ELSE requisition[s]
      BY <1>1 DEF CommitPurchasing, IInv, TypeOK
    <2>3. status \notin {"NONE", "COMPLETED"}
      BY ConstantsAssumption
    <2>4. RequisitionsKept
      <3> HIDE DEF q
      <3> QED BY <2>1, <2>2, <2>3 DEF RequisitionsKept, CInv, GoneHasNothing
    <2>5. QED
      BY <1>1, <2>1, <2>4, HarmlessEnd, QuoteUnchanged, KeepsCInv DEF CommitPurchasing
  <1>2. QED BY <1>1, CheckPurchasingKeepsCInv DEF Purchasing

LEMMA InitEstablishesCInv == Init => CInv
  BY DEF Init, CInv, GoneHasNothing, Chained, NumberedOnce, InFlightOK, CarriesTables,
         CarriesRevision, CompletedWasOrdered, OrderGenerated, Exists, Statuses,
         AbsentRow, Idle

LEMMA StepKeepsCInv == IInv /\ CInv /\ [Next]_vars => CInv'
  <1> SUFFICES ASSUME IInv, CInv, [Next]_vars PROVE CInv'
    OBVIOUS
  <1>1. CASE NewQuote
    BY <1>1, CreationsKeepCInv
  <1>2. ASSUME NEW r \in Requests,
               \/ Save(r) \/ Edit(r) \/ ChangeStatus(r) \/ Revise(r) \/ GenerateOrder(r)
               \/ RegisterErp(r) \/ Administer(r) \/ Purchasing(r) \/ Stop(r)
        PROVE  CInv'
    BY <1>2, SavesKeepCInv, EditsKeepCInv, StatusChangesKeepCInv, RevisionsKeepCInv,
       OrdersKeepCInv, RegistrationsKeepCInv, AdministrationKeepsCInv,
       PurchasingKeepsCInv, StopKeepsCInv
  <1>3. CASE UNCHANGED vars
    <2>1. RowsKept /\ RequisitionsKept /\ RequestsKept
      BY <1>3, QuoteUnchanged, RequisitionUnchanged DEF vars, RequestsKept
    <2>2. QED BY <2>1, KeepsCInv
  <1>4. QED BY <1>1, <1>2, <1>3 DEF Next

\* Whatever overlaps, rows form chains with each number once, a deleted row left
\* nothing behind, and what a request relies on is still true when it writes.
THEOREM ChainInvariance == Spec => []CInv
  BY Invariance, InitEstablishesCInv, StepKeepsCInv, PTL DEF Spec

\* However an order overlaps a cancellation, a deletion or the work of
\* purchasing, a requisition is completed only after the order of its quote
\* (markOrderGenerated, then markCompletedByQuoteId).
THEOREM CompletedAfterOrder == Spec => []CompletedWasOrdered
  <1>1. CInv => CompletedWasOrdered
    BY DEF CInv
  <1>2. QED BY <1>1, ChainInvariance, PTL

\* However revisions, deletions and changes of status overlap, the revisions
\* of a quote are numbered without a gap or a repetition, each after the version
\* it was made from, and none of them loses the root or the version it names
\* (createRevision, deletePermanently).
THEOREM ChainsAreSound == Spec => []RevisionChainSound
  <1>1. IInv /\ CInv => RevisionChainSound
    <2> SUFFICES ASSUME IInv, CInv, NEW s \in Quotes, Exists(s), quote[s].root # NoQuote
                 PROVE  /\ Exists(quote[s].root) /\ quote[quote[s].root].root = NoQuote
                        /\ Exists(quote[s].prev) /\ RootOf(quote[s].prev) = quote[s].root
                        /\ quote[quote[s].prev].rev < quote[s].rev
                        /\ \A n \in 1..quote[s].rev :
                             Cardinality({t \in RevisionsOf(quote[s].root) : quote[t].rev = n}) = 1
      BY DEF RevisionChainSound
    <2>1. ChainRow(s)
      BY DEF CInv, Chained
    <2>2. ASSUME NEW n \in 1..quote[s].rev
          PROVE  Cardinality({t \in RevisionsOf(quote[s].root) : quote[t].rev = n}) = 1
      <3>1. PICK t \in Quotes : Exists(t) /\ quote[t].root = quote[s].root /\ quote[t].rev = n
        BY <2>1, <2>2 DEF ChainRow, Numbered
      <3>2. {u \in RevisionsOf(quote[s].root) : quote[u].rev = n} = {t}
        BY <3>1 DEF RevisionsOf, CInv, NumberedOnce
      <3>3. QED BY <3>2, FS_Singleton
    <2>3. QED BY <2>1, <2>2 DEF ChainRow
  <1>2. QED BY <1>1, Invariance, ChainInvariance, PTL
=============================================================================
