------------------------ MODULE QuoteVersions_proofs ------------------------
(***************************************************************************)
(* Proofs about the versions of a quote, for any number of quotes.         *)
(*                                                                         *)
(* However requests overlap, a version that was superseded names its       *)
(* successor and a version made from another one is authorised only with   *)
(* that other one told (while approval is on: a submission that quotes a   *)
(* revision by itself supersedes nothing); and the orders of a quote never *)
(* outnumber the requests that overlap.                                    *)
(***************************************************************************)
EXTENDS QuoteLifecycle_proofs

SameVersion(row, old) == SameChain(row, old) /\ row.supersededBy = old.supersededBy

OthersKept(q) == \A s \in Quotes : s # q => quote'[s] = quote[s]

\* The row of q alone is written, its place in the chain left alone.
Rewritten(q, status) ==
  /\ OthersKept(q)
  /\ quote'[q].status = status
  /\ SameVersion(quote'[q], quote[q])
  /\ quote'[q].archived = quote[q].archived
  /\ quote'[q].exports = quote[q].exports

\* The quote a request in flight is about.
Target(r) == req[r].q \in Quotes /\ quote[req[r].q] \in QuoteRow /\ Exists(req[r].q)

\* No other request moves.
OthersWait(r) == \A s \in Requests : s # r => req'[s] = req[s]
-----------------------------------------------------------------------------
(* What each write does to the rows.                                       *)

LEMMA RowReplaced ==
  ASSUME IInv, NEW q \in Quotes, NEW row, quote' = [quote EXCEPT ![q] = row]
  PROVE  OthersKept(q) /\ quote'[q] = row
  BY DEF IInv, TypeOK, OthersKept

LEMMA RequestReplaced ==
  ASSUME IInv, NEW r \in Requests, NEW l, req' = [req EXCEPT ![r] = l]
  PROVE  OthersWait(r) /\ req'[r] = l
  BY DEF IInv, TypeOK, OthersWait

LEMMA RequestFinished ==
  ASSUME IInv, NEW r \in Requests, Finish(r)
  PROVE  OthersWait(r) /\ req'[r] = Idle
  BY RequestReplaced DEF Finish

StatusSaved(l) == IF l.target = "NONE" THEN l.seenStatus ELSE l.target

LEMMA SaveWrites ==
  ASSUME IInv, NEW r \in Requests, NEW fromLead \in LeadInputs, CommitSave(r, fromLead)
  PROVE  /\ Target(r) /\ At(r, "read", "SAVE")
         /\ Rewritten(req[r].q, StatusSaved(req[r]))
         /\ req'[r] = Idle /\ OthersWait(r) /\ UNCHANGED requisition
  <1> DEFINE q == req[r].q
             l == req[r]
             status == StatusSaved(l)
             row == [quote[q] EXCEPT !.status = status, !.capture = l.capture,
                                     !.content = l.content, !.terms = l.terms]
  <1>1. At(r, "read", "SAVE") /\ q \in Quotes /\ Exists(q) /\ UNCHANGED requisition
    BY DEF IInv, LocalsOK, LocalsOf, CommitSave, At
  <1>2. quote[q] \in QuoteRow
    BY <1>1 DEF IInv, TypeOK
  <1>3. quote' = [quote EXCEPT ![q] = row]
    BY <1>1 DEF CommitSave, StatusSaved, IInv, TypeOK
  <1>4. /\ row.status = status /\ SameVersion(row, quote[q])
        /\ row.archived = quote[q].archived /\ row.exports = quote[q].exports
    <2> HIDE DEF status, l, q
    <2> QED BY <1>2 DEF QuoteRow, SameVersion, SameChain
  <1>5. OthersKept(q) /\ quote'[q] = row
    <2> HIDE DEF row, q
    <2> QED BY <1>1, <1>3, RowReplaced
  <1>6. req'[r] = Idle /\ OthersWait(r)
    BY RequestFinished DEF CommitSave
  <1> HIDE DEF row, status
  <1>7. Rewritten(q, status)
    BY <1>4, <1>5 DEF Rewritten
  <1>8. QED BY <1>1, <1>2, <1>6, <1>7 DEF Target, status

LEMMA UpdateWrites ==
  ASSUME IInv, NEW r \in Requests, CommitUpdate(r)
  PROVE  /\ Target(r) /\ At(r, "read", "UPDATE")
         /\ Rewritten(req[r].q, StatusAfterEdit(r))
         /\ req'[r] = Idle /\ OthersWait(r) /\ UNCHANGED requisition
  <1> DEFINE q == req[r].q
             l == req[r]
             status == StatusAfterEdit(r)
             row == [quote[q] EXCEPT !.status = status, !.capture = l.capture,
                                     !.terms = l.terms]
  <1>1. At(r, "read", "UPDATE") /\ q \in Quotes /\ Exists(q) /\ UNCHANGED requisition
    BY DEF IInv, LocalsOK, LocalsOf, CommitUpdate, At
  <1>2. quote[q] \in QuoteRow
    BY <1>1 DEF IInv, TypeOK
  <1>3. quote' = [quote EXCEPT ![q] = row]
    BY <1>1 DEF CommitUpdate, IInv, TypeOK
  <1>4. /\ row.status = status /\ SameVersion(row, quote[q])
        /\ row.archived = quote[q].archived /\ row.exports = quote[q].exports
    <2> HIDE DEF status, l, q
    <2> QED BY <1>2 DEF QuoteRow, SameVersion, SameChain
  <1>5. OthersKept(q) /\ quote'[q] = row
    <2> HIDE DEF row, q
    <2> QED BY <1>1, <1>3, RowReplaced
  <1>6. req'[r] = Idle /\ OthersWait(r)
    BY RequestFinished DEF CommitUpdate
  <1> HIDE DEF row, status
  <1>7. Rewritten(q, status)
    BY <1>4, <1>5 DEF Rewritten
  <1>8. QED BY <1>1, <1>2, <1>6, <1>7 DEF Target, status

LEMMA ItemsWrite ==
  ASSUME IInv, NEW r \in Requests, CommitItems(r)
  PROVE  /\ Target(r) /\ At(r, "read", "ITEMS")
         /\ Rewritten(req[r].q, StatusAfterEdit(r))
         /\ req'[r] = Idle /\ OthersWait(r) /\ UNCHANGED requisition
  <1> DEFINE q == req[r].q
             l == req[r]
             status == StatusAfterEdit(r)
             row == [quote[q] EXCEPT !.status = status, !.content = l.content]
  <1>1. At(r, "read", "ITEMS") /\ q \in Quotes /\ Exists(q) /\ UNCHANGED requisition
    BY DEF IInv, LocalsOK, LocalsOf, CommitItems, At
  <1>2. quote[q] \in QuoteRow
    BY <1>1 DEF IInv, TypeOK
  <1>3. quote' = [quote EXCEPT ![q] = row]
    BY <1>1 DEF CommitItems, IInv, TypeOK
  <1>4. /\ row.status = status /\ SameVersion(row, quote[q])
        /\ row.archived = quote[q].archived /\ row.exports = quote[q].exports
    <2> HIDE DEF status, l, q
    <2> QED BY <1>2 DEF QuoteRow, SameVersion, SameChain
  <1>5. OthersKept(q) /\ quote'[q] = row
    <2> HIDE DEF row, q
    <2> QED BY <1>1, <1>3, RowReplaced
  <1>6. req'[r] = Idle /\ OthersWait(r)
    BY RequestFinished DEF CommitItems
  <1> HIDE DEF row, status
  <1>7. Rewritten(q, status)
    BY <1>4, <1>5 DEF Rewritten
  <1>8. QED BY <1>1, <1>2, <1>6, <1>7 DEF Target, status

LEMMA RegisterWrites ==
  ASSUME IInv, NEW r \in Requests, CommitRegister(r)
  PROVE  /\ Target(r) /\ At(r, "read", "REGISTER")
         /\ Rewritten(req[r].q, quote[req[r].q].status)
         /\ quote'[req[r].q].content = quote[req[r].q].content
         /\ quote'[req[r].q].terms = quote[req[r].q].terms
         /\ quote'[req[r].q].capture = quote[req[r].q].capture
         /\ req'[r] = Idle /\ OthersWait(r) /\ UNCHANGED requisition
  <1> DEFINE q == req[r].q
             n == req[r].number
             byQuote == [quote[q] EXCEPT !.erpQuote = n]
             byOrder == [quote[q] EXCEPT !.erpOrder = n]
  <1>1. q \in Quotes /\ quote[q].status = "APPROVED"
    BY CommitRegisterWrites
  <1>2. quote[q] \in QuoteRow /\ Exists(q)
    BY <1>1 DEF IInv, TypeOK, Exists, Statuses
  <1>3. quote' = [quote EXCEPT ![q] = byQuote] \/ quote' = [quote EXCEPT ![q] = byOrder]
    BY <1>1 DEF CommitRegister, IInv, TypeOK
  <1>4. /\ byQuote.status = quote[q].status /\ SameVersion(byQuote, quote[q])
        /\ byQuote.archived = quote[q].archived /\ byQuote.exports = quote[q].exports
        /\ byQuote.content = quote[q].content /\ byQuote.terms = quote[q].terms
        /\ byQuote.capture = quote[q].capture
        /\ byOrder.status = quote[q].status /\ SameVersion(byOrder, quote[q])
        /\ byOrder.archived = quote[q].archived /\ byOrder.exports = quote[q].exports
        /\ byOrder.content = quote[q].content /\ byOrder.terms = quote[q].terms
        /\ byOrder.capture = quote[q].capture
    <2> HIDE DEF n, q
    <2> QED BY <1>2 DEF QuoteRow, SameVersion, SameChain
  <1>5. OthersKept(q) /\ (quote'[q] = byQuote \/ quote'[q] = byOrder)
    <2> HIDE DEF byQuote, byOrder, q
    <2> QED BY <1>1, <1>3, RowReplaced
  <1>6. req'[r] = Idle /\ OthersWait(r)
    BY RequestFinished DEF CommitRegister
  <1>7. At(r, "read", "REGISTER") /\ UNCHANGED requisition
    BY DEF CommitRegister
  <1> HIDE DEF byQuote, byOrder
  <1>8. QED BY <1>1, <1>2, <1>4, <1>5, <1>6, <1>7 DEF Target, Rewritten

LEMMA OrderWrites ==
  ASSUME IInv, NEW r \in Requests, CommitOrder(r)
  PROVE  /\ Target(r) /\ At(r, "checked", "ORDER")
         /\ OthersKept(req[r].q)
         /\ quote'[req[r].q] = [quote[req[r].q] EXCEPT !.exports = @ + 1]
         /\ quote'[req[r].q].exports = quote[req[r].q].exports + 1
         /\ quote'[req[r].q].status = quote[req[r].q].status
         /\ SameVersion(quote'[req[r].q], quote[req[r].q])
         /\ quote'[req[r].q].archived = quote[req[r].q].archived
         /\ \/ req'[r] = Idle
            \/ /\ req'[r].pc = "complete" /\ req'[r].op = "ORDER" /\ req'[r].q = req[r].q
               /\ req'[r].target = req[r].target
         /\ OthersWait(r) /\ UNCHANGED requisition
  <1> DEFINE q == req[r].q
             n == quote[q].exports + 1
             row == [quote[q] EXCEPT !.exports = n]
             l == [req[r] EXCEPT !.pc = "complete"]
  <1>1. At(r, "checked", "ORDER") /\ q \in Quotes /\ Exists(q) /\ UNCHANGED requisition
    BY DEF IInv, LocalsOK, LocalsOf, CommitOrder, At
  <1>2. quote[q] \in QuoteRow /\ req[r] \in Request
    BY <1>1 DEF IInv, TypeOK
  <1>3. quote' = [quote EXCEPT ![q] = row]
    BY <1>1 DEF CommitOrder, IInv, TypeOK
  <1>4. /\ row.status = quote[q].status /\ SameVersion(row, quote[q])
        /\ row.archived = quote[q].archived /\ row.exports = n
    <2> HIDE DEF n, q
    <2> QED BY <1>2 DEF QuoteRow, SameVersion, SameChain
  <1>5. OthersKept(q) /\ quote'[q] = row
    <2> HIDE DEF row, q
    <2> QED BY <1>1, <1>3, RowReplaced
  <1>6. /\ \/ req'[r] = Idle
           \/ /\ req'[r].pc = "complete" /\ req'[r].op = "ORDER" /\ req'[r].q = req[r].q
              /\ req'[r].target = req[r].target
        /\ OthersWait(r)
    <2>1. CASE req[r].buys
      <3>1. req' = [req EXCEPT ![r] = l]
        BY <2>1 DEF CommitOrder, IInv, TypeOK
      <3>2. l.pc = "complete" /\ l.op = "ORDER" /\ l.q = req[r].q /\ l.target = req[r].target
        BY <1>1, <1>2 DEF Request, At
      <3> HIDE DEF l
      <3>3. QED BY <3>1, <3>2, RequestReplaced
    <2>2. CASE ~req[r].buys
      BY <2>2, RequestFinished DEF CommitOrder
    <2>3. QED BY <2>1, <2>2
  <1>7. quote'[q] = [quote[q] EXCEPT !.exports = @ + 1]
    BY <1>5
  <1> HIDE DEF row
  <1>8. QED BY <1>1, <1>2, <1>4, <1>5, <1>6, <1>7 DEF Target

LEMMA ArchiveWrites ==
  ASSUME IInv, NEW r \in Requests, NEW q \in Quotes, ArchiveOrRestore(r, q)
  PROVE  /\ Exists(q) /\ OthersKept(q)
         /\ quote'[q] = [quote[q] EXCEPT !.archived = ~@]
         /\ quote'[q].status = quote[q].status
         /\ quote'[q].exports = quote[q].exports
         /\ SameVersion(quote'[q], quote[q])
         /\ req[r].pc = "idle" /\ UNCHANGED <<requisition, req>>
  <1> DEFINE archived == ~quote[q].archived
             row == [quote[q] EXCEPT !.archived = archived]
  <1>1. /\ quote[q] \in QuoteRow /\ Exists(q) /\ req[r].pc = "idle"
        /\ UNCHANGED <<requisition, req>>
    BY DEF ArchiveOrRestore, IInv, TypeOK
  <1>2. /\ row.status = quote[q].status /\ SameVersion(row, quote[q])
        /\ row.exports = quote[q].exports
    <2> HIDE DEF archived
    <2> QED BY <1>1 DEF QuoteRow, SameVersion, SameChain
  <1>3. quote' = [quote EXCEPT ![q] = row]
    BY DEF ArchiveOrRestore, IInv, TypeOK
  <1>4. OthersKept(q) /\ quote'[q] = row
    <2> HIDE DEF row
    <2> QED BY <1>3, RowReplaced
  <1>5. quote'[q] = [quote[q] EXCEPT !.archived = ~@]
    BY <1>4
  <1> HIDE DEF row
  <1>6. QED BY <1>1, <1>2, <1>4, <1>5

\* Version s is the one that the change of status of request r supersedes.
Supersedes(r, s) ==
  s # req[r].q /\ req[r].target = "QUOTED" /\ s = quote[req[r].q].prev

\* What a change of status leaves of a row.
Kept(row, old) ==
  /\ SameChain(row, old)
  /\ row.archived = old.archived /\ row.exports = old.exports
  /\ row.capture = old.capture /\ row.content = old.content /\ row.terms = old.terms

LEMMA ChangeWrites ==
  ASSUME IInv, NEW r \in Requests, CommitChange(r)
  PROVE  /\ Target(r) /\ At(r, "checked", "CHANGE") /\ req[r].target \in Statuses
         /\ \A s \in Quotes : Kept(quote'[s], quote[s])
         /\ quote'[req[r].q].status = req[r].target
         /\ quote'[req[r].q].supersededBy = quote[req[r].q].supersededBy
         /\ \A s \in Quotes : Supersedes(r, s) =>
              quote'[s].status = "SUPERSEDED" /\ quote'[s].supersededBy = req[r].q
         /\ \A s \in Quotes : s # req[r].q /\ ~Supersedes(r, s) => quote'[s] = quote[s]
         /\ \/ req'[r] = Idle
            \/ /\ req'[r].pc = "ensure" /\ req'[r].op = "CHANGE" /\ req'[r].q = req[r].q
               /\ req'[r].target = "APPROVED" /\ req[r].target = "APPROVED"
         /\ OthersWait(r)
         /\ \A s \in Quotes : s # req[r].q => requisition'[s] = requisition[s]
         /\ requisition'[req[r].q] = RequisitionAfter(req[r].q, req[r].target)
  <1> DEFINE q == req[r].q
             target == req[r].target
             row == [quote[q] EXCEPT !.status = target]
             buys == quote[q].content = "TO_PURCHASE"
             l == [req[r] EXCEPT !.pc = "ensure", !.buys = buys]
  <1>1. At(r, "checked", "CHANGE") /\ q \in Quotes /\ Exists(q) /\ target \in Statuses
    BY DEF IInv, LocalsOK, LocalsOf, CommitChange, At
  <1>2. \A s \in Quotes : quote[s] \in QuoteRow
    BY DEF IInv, TypeOK
  <1>3. \A s \in Quotes :
          quote'[s] = IF s = q THEN row
                      ELSE IF Supersedes(r, s) THEN SupersededRow(s, q) ELSE quote[s]
    BY DEF CommitChange, Supersedes
  <1>4. Kept(row, quote[q]) /\ row.status = target /\ row.supersededBy = quote[q].supersededBy
    <2> HIDE DEF q, target
    <2> QED BY <1>1, <1>2 DEF QuoteRow, Kept, SameChain
  <1>5. \A s \in Quotes : /\ Kept(SupersededRow(s, q), quote[s])
                          /\ SupersededRow(s, q).status = "SUPERSEDED"
                          /\ SupersededRow(s, q).supersededBy = q
    <2> HIDE DEF q
    <2> QED BY <1>2 DEF SupersededRow, QuoteRow, Kept, SameChain
  <1>6. \A s \in Quotes : Kept(quote[s], quote[s])
    BY DEF Kept, SameChain
  <1>7. /\ \/ req'[r] = Idle
           \/ /\ req'[r].pc = "ensure" /\ req'[r].op = "CHANGE" /\ req'[r].q = q
              /\ req'[r].target = "APPROVED" /\ target = "APPROVED"
        /\ OthersWait(r)
    <2>1. CASE target = "APPROVED" /\ quote[q].capture # "EXCEL_IMPORT"
      <3>1. req' = [req EXCEPT ![r] = l]
        BY <2>1 DEF CommitChange, IInv, TypeOK
      <3>2. req[r] \in Request
        BY DEF IInv, TypeOK
      <3>3. l.pc = "ensure" /\ l.op = "CHANGE" /\ l.q = q /\ l.target = target
        <4> HIDE DEF buys
        <4> QED BY <1>1, <3>2 DEF Request, At
      <3> HIDE DEF l
      <3>4. QED BY <2>1, <3>1, <3>3, RequestReplaced
    <2>2. CASE ~(target = "APPROVED" /\ quote[q].capture # "EXCEL_IMPORT")
      BY <2>2, RequestFinished DEF CommitChange
    <2>3. QED BY <2>1, <2>2
  <1>8. \A s \in Quotes :
          requisition'[s] = IF s = q THEN RequisitionAfter(q, target) ELSE requisition[s]
    BY DEF CommitChange, IInv, TypeOK
  <1>9. Target(r) /\ ~Supersedes(r, q)
    BY <1>1, <1>2 DEF Target, Supersedes
  <1> HIDE DEF row
  <1>10. \A s \in Quotes : Kept(quote'[s], quote[s])
    BY <1>3, <1>4, <1>5, <1>6
  <1>11. QED BY <1>1, <1>3, <1>4, <1>5, <1>7, <1>8, <1>9, <1>10 DEF Supersedes

LEMMA CreateWrites ==
  ASSUME IInv, NewQuote
  PROVE  \E q \in Quotes :
           /\ Unused(q) /\ OthersKept(q)
           /\ quote'[q].status \in {"DRAFT"} \cup SubmissionStatuses
           /\ quote'[q].root = NoQuote /\ quote'[q].prev = NoQuote /\ quote'[q].rev = 0
           /\ quote'[q].supersededBy = NoQuote /\ quote'[q].exports = 0
           /\ UNCHANGED <<requisition, req>>
  <1>1. PICK q \in Quotes, status \in {"DRAFT"} \cup SubmissionStatuses,
             c \in Captures, i \in Contents, t \in Terms, fromLead \in LeadInputs :
               Create(q, status, c, i, t, fromLead)
    BY DEF NewQuote
  <1> DEFINE row == NewRow(status, c, i, t)
  <1>2. /\ row.status = status /\ row.root = NoQuote /\ row.prev = NoQuote /\ row.rev = 0
        /\ row.supersededBy = NoQuote /\ row.exports = 0
    BY DEF NewRow, AbsentRow
  <1>3. /\ quote' = [quote EXCEPT ![q] = row]
        /\ Unused(q) /\ UNCHANGED <<requisition, req>>
    BY <1>1 DEF Create
  <1> HIDE DEF row
  <1>4. OthersKept(q) /\ quote'[q] = row
    BY <1>3, RowReplaced
  <1>5. QED BY <1>2, <1>3, <1>4

LEMMA ReviseWrites ==
  ASSUME IInv, NEW r \in Requests, NEW s \in Quotes, CommitRevise(r, s)
  PROVE  /\ Target(r) /\ At(r, "read", "REVISE")
         /\ Unused(s) /\ OthersKept(s)
         /\ quote'[s].status = "DRAFT" /\ quote'[s].root = req[r].seenRoot
         /\ quote'[s].prev = req[r].q /\ quote'[s].rev = req[r].seenRev
         /\ quote'[s].supersededBy = NoQuote /\ quote'[s].exports = 0
         /\ req'[r] = Idle /\ OthersWait(r) /\ UNCHANGED requisition
  <1> DEFINE q == req[r].q
             new == NewRow("DRAFT", req[r].capture, req[r].content, req[r].terms)
             root == req[r].seenRoot
             rev == req[r].seenRev
             row == [new EXCEPT !.root = root, !.prev = q, !.rev = rev]
  <1>1. /\ At(r, "read", "REVISE") /\ q \in Quotes /\ Exists(q) /\ Unused(s)
        /\ UNCHANGED requisition
    BY DEF IInv, LocalsOK, LocalsOf, CommitRevise, At
  <1>2. /\ row.status = "DRAFT" /\ row.root = root /\ row.prev = q /\ row.rev = rev
        /\ row.supersededBy = NoQuote /\ row.exports = 0
    <2> HIDE DEF q, root, rev
    <2> QED BY DEF NewRow, AbsentRow
  <1>3. quote' = [quote EXCEPT ![s] = row]
    BY DEF CommitRevise
  <1>4. req'[r] = Idle /\ OthersWait(r)
    BY RequestFinished DEF CommitRevise
  <1> HIDE DEF row
  <1>5. OthersKept(s) /\ quote'[s] = row
    BY <1>3, RowReplaced
  <1>6. Target(r)
    BY <1>1 DEF Target, IInv, TypeOK
  <1>7. QED BY <1>1, <1>2, <1>4, <1>5, <1>6

LEMMA DeleteWrites ==
  ASSUME IInv, CInv, NEW r \in Requests, CommitDelete(r)
  PROVE  /\ Target(r) /\ At(r, "read", "DELETE")
         /\ OthersKept(req[r].q)
         /\ quote'[req[r].q].status = "DELETED" /\ quote'[req[r].q].root = NoQuote
         /\ quote'[req[r].q].prev = NoQuote /\ quote'[req[r].q].exports = 0
         /\ quote[req[r].q].root = NoQuote /\ quote[req[r].q].prev = NoQuote
         /\ \A s \in Quotes : Exists(s) => quote[s].prev # req[r].q /\ quote[s].root # req[r].q
         /\ req'[r] = Idle /\ OthersWait(r) /\ UNCHANGED requisition
  <1> DEFINE q == req[r].q
  <1>1. /\ At(r, "read", "DELETE") /\ q \in Quotes /\ Exists(q)
        /\ UNCHANGED requisition /\ quote[q].root = NoQuote
    BY DEF IInv, LocalsOK, LocalsOf, CommitDelete, At, CInv, InFlightOK, CarriesTables
  <1>2. quote[q].prev = NoQuote
    BY <1>1, ConstantsAssumption DEF CInv, Chained, ChainRow
  <1>3. \A s \in Quotes : Exists(s) => quote[s].prev # q /\ quote[s].root # q
    BY DEF CommitDelete, NotReferenced, NextVersions, RevisionsOf
  <1>4. /\ DeletedRow.status = "DELETED" /\ DeletedRow.exports = 0
        /\ DeletedRow.root = NoQuote /\ DeletedRow.prev = NoQuote
    BY DEF DeletedRow, AbsentRow
  <1>5. quote' = [quote EXCEPT ![q] = DeletedRow]
    BY DEF CommitDelete
  <1>6. req'[r] = Idle /\ OthersWait(r)
    BY RequestFinished DEF CommitDelete
  <1>7. OthersKept(q) /\ quote'[q] = DeletedRow
    <2> HIDE DEF q
    <2> QED BY <1>1, <1>5, RowReplaced
  <1>8. Target(r)
    BY <1>1 DEF Target, IInv, TypeOK
  <1>9. QED BY <1>1, <1>2, <1>3, <1>4, <1>6, <1>7, <1>8
-----------------------------------------------------------------------------
(* However requests overlap, a superseded version names its successor.     *)

\* Internal approval stays on.
ApprovalStaysOn == FALSE \notin ApprovalModes

\* The version q was made from, if any, names the one that superseded it.
PrevTold(q) == quote[q].prev # NoQuote => quote[quote[q].prev].supersededBy # NoQuote

\* A row that was never written or is gone was made from no other.
GoneUntied == \A s \in Quotes : ~Exists(s) => quote[s].prev = NoQuote

AuthorisedTold == \A s \in Quotes : quote[s].status \in Live => PrevTold(s)

SupersededNamed ==
  \A s \in Quotes :
    /\ Exists(s) /\ quote[s].supersededBy # NoQuote
         => quote[s].supersededBy \in NextVersions(s)
    /\ quote[s].status = "SUPERSEDED" => quote[s].supersededBy # NoQuote

\* A request in flight authorises a quote that was authorised when it checked
\* or read it, or it tells the previous version by the same write.
AuthorisesTold(l) ==
  l.pc # "idle" =>
    /\ ~Unused(l.q)
    /\ l.op = "SAVE" => l.target # "QUOTED"
    /\ l.op = "CHANGE" =>
         /\ l.target # "SUPERSEDED"
         /\ l.target \in {"APPROVED", "REJECTED"} => PrevTold(l.q)
    /\ l.op \in {"UPDATE", "ITEMS"} /\ l.pc = "read" /\ MovesBackToQuoted(l.seenStatus)
         => PrevTold(l.q)

VInv ==
  /\ GoneUntied
  /\ AuthorisedTold
  /\ SupersededNamed
  /\ \A r \in Requests : AuthorisesTold(req[r])

\* What a step must leave for the requests in flight.
StayTold ==
  \A s \in Quotes : ~Unused(s) =>
    quote'[s].status # "ABSENT" /\ (PrevTold(s) => PrevTold(s)')

RequestsTold == \A r \in Requests : req'[r] = req[r] \/ AuthorisesTold(req[r])'

LEMMA RequestsStayTold ==
  ASSUME IInv, VInv, StayTold, RequestsTold
  PROVE  \A r \in Requests : AuthorisesTold(req[r])'
  <1> SUFFICES ASSUME NEW r \in Requests, req'[r] = req[r], req[r].pc # "idle"
               PROVE  AuthorisesTold(req[r])'
    BY DEF RequestsTold, AuthorisesTold
  <1>1. AuthorisesTold(req[r]) /\ req[r].q \in Quotes
    BY DEF VInv, IInv, LocalsOK, LocalsOf
  <1>2. QED BY <1>1 DEF AuthorisesTold, StayTold, Unused, PrevTold

\* A request that moves alone: the checks, the reads, and the ends.
LEMMA MoveTells ==
  ASSUME IInv, VInv, NEW r \in Requests, NEW l, AuthorisesTold(l),
         req' = [req EXCEPT ![r] = l], UNCHANGED quote
  PROVE  VInv'
  <1>1. req'[r] = l /\ OthersWait(r)
    BY RequestReplaced
  <1>2. AuthorisesTold(req[r])'
    BY <1>1 DEF AuthorisesTold, Unused, PrevTold
  <1>3. StayTold /\ RequestsTold
    BY <1>1, <1>2 DEF StayTold, RequestsTold, OthersWait, Unused, PrevTold
  <1>4. \A s \in Requests : AuthorisesTold(req[s])'
    BY <1>3, RequestsStayTold
  <1>5. GoneUntied' /\ AuthorisedTold' /\ SupersededNamed'
    BY DEF VInv, GoneUntied, AuthorisedTold, SupersededNamed, PrevTold, Exists, NextVersions
  <1>6. QED BY <1>4, <1>5 DEF VInv

LEMMA EndTells ==
  ASSUME IInv, VInv, NEW r \in Requests, Finish(r), UNCHANGED quote
  PROVE  VInv'
  <1>1. AuthorisesTold(Idle)
    BY DEF AuthorisesTold, Idle
  <1>2. QED BY <1>1, MoveTells DEF Finish

\* What the writes to existing rows do to the versions.
Recorded ==
  \A s \in Quotes :
    /\ SameChain(quote'[s], quote[s])
    /\ Exists(s) <=> quote'[s].status \in Statuses
    /\ quote'[s].status = "ABSENT" => Unused(s)
    /\ \/ quote'[s].supersededBy = quote[s].supersededBy
       \/ Exists(s) /\ quote'[s].supersededBy \in NextVersions(s)
    /\ quote'[s].status = "SUPERSEDED"
         => quote[s].status = "SUPERSEDED" \/ quote'[s].supersededBy # NoQuote
    /\ quote'[s].status \in Live => PrevTold(s) \/ PrevTold(s)'

LEMMA RecordedTells ==
  ASSUME IInv, VInv, Recorded, RequestsTold
  PROVE  VInv'
  <1>1. \A s \in Quotes : quote[s].prev \in Ids
    BY DEF IInv, TypeOK, QuoteRow
  <1>2. NoQuote \notin Quotes
    BY ConstantsAssumption
  <1>3. \A s \in Quotes : PrevTold(s) => PrevTold(s)'
    <2> SUFFICES ASSUME NEW s \in Quotes, PrevTold(s), quote'[s].prev # NoQuote
                 PROVE  quote'[quote'[s].prev].supersededBy # NoQuote
      BY DEF PrevTold
    <2>1. quote'[s].prev = quote[s].prev /\ quote[s].prev \in Quotes
      BY <1>1 DEF Recorded, SameChain, Ids
    <2>2. quote[quote[s].prev].supersededBy # NoQuote
      BY <2>1 DEF PrevTold
    <2>3. QED BY <1>2, <2>1, <2>2 DEF Recorded, NextVersions
  <1>4. StayTold
    BY <1>3 DEF StayTold, Recorded, Unused
  <1>5. \A r \in Requests : AuthorisesTold(req[r])'
    BY <1>4, RequestsStayTold
  <1>6. GoneUntied'
    BY DEF VInv, GoneUntied, Recorded, SameChain, Exists
  <1>7. AuthorisedTold'
    BY <1>3 DEF AuthorisedTold, Recorded
  <1>8. \A s, t \in Quotes : t \in NextVersions(s) =>
          quote'[t].status \in Statuses /\ quote'[t].prev = s
    BY DEF Recorded, SameChain, NextVersions, Exists
  <1>9. SupersededNamed'
    <2> SUFFICES ASSUME NEW s \in Quotes
                 PROVE  /\ quote'[s].status \in Statuses /\ quote'[s].supersededBy # NoQuote
                             => \E t \in NextVersions(s) : quote'[s].supersededBy = t
                        /\ quote'[s].status = "SUPERSEDED" => quote'[s].supersededBy # NoQuote
      BY <1>8 DEF SupersededNamed, NextVersions, Exists
    <2>1. /\ Exists(s) /\ quote[s].supersededBy # NoQuote
               => quote[s].supersededBy \in NextVersions(s)
          /\ quote[s].status = "SUPERSEDED" => quote[s].supersededBy # NoQuote
      BY DEF VInv, SupersededNamed
    <2>2. QED BY <1>2, <2>1 DEF Recorded, NextVersions
  <1>10. QED BY <1>5, <1>6, <1>7, <1>9 DEF VInv

\* The writes of one row that keep its place in the chain.
LEMMA RewrittenTells ==
  ASSUME IInv, VInv, NEW r \in Requests, NEW q \in Quotes, Exists(q), OthersKept(q),
         SameVersion(quote'[q], quote[q]),
         quote'[q].status \in Statuses,
         quote'[q].status = "SUPERSEDED" => quote[q].status = "SUPERSEDED",
         quote'[q].status \in Live => PrevTold(q),
         RequestsTold
  PROVE  VInv'
  <1>1. Recorded
    BY DEF Recorded, OthersKept, SameVersion, SameChain, Exists, Unused, Statuses,
           VInv, AuthorisedTold
  <1>2. QED BY <1>1, RecordedTells

LEMMA EndedTells ==
  ASSUME NEW r \in Requests, req'[r] = Idle, OthersWait(r)
  PROVE  RequestsTold
  BY DEF RequestsTold, OthersWait, AuthorisesTold, Idle
-----------------------------------------------------------------------------
LEMMA ExistingIsUsed ==
  ASSUME NEW q, Exists(q)
  PROVE  ~Unused(q) /\ quote[q].status \in Statuses
  BY DEF Exists, Unused, Statuses

LEMMA CreationTells ==
  ASSUME IInv, CInv, VInv, ApprovalStaysOn, NewQuote
  PROVE  VInv'
  <1>1. PICK q \in Quotes :
          /\ Unused(q) /\ OthersKept(q)
          /\ quote'[q].status \in {"DRAFT"} \cup SubmissionStatuses
          /\ quote'[q].root = NoQuote /\ quote'[q].prev = NoQuote
          /\ quote'[q].supersededBy = NoQuote /\ UNCHANGED req
    BY CreateWrites
  <1>2. quote'[q].status \in {"DRAFT", "PENDING_APPROVAL"}
    BY <1>1, ConstantsAssumption DEF SubmissionStatuses, ApprovalStaysOn
  <1>3. ~Exists(q) /\ \A s \in Quotes : Exists(s) => s # q
    BY <1>1 DEF Unused, Exists, Statuses
  <1>4. \A s \in Quotes : Exists(s) /\ quote[s].prev # NoQuote => quote[s].prev # q
    BY <1>3, ConstantsAssumption DEF CInv, Chained, ChainRow
  <1>5. \A s \in Quotes : s # q => (PrevTold(s) => PrevTold(s)')
    <2> SUFFICES ASSUME NEW s \in Quotes, s # q, PrevTold(s), quote[s].prev # NoQuote
                 PROVE  quote'[quote[s].prev].supersededBy # NoQuote
      BY <1>1 DEF PrevTold, OthersKept
    <2>1. Exists(s)
      BY DEF VInv, GoneUntied
    <2>2. quote[s].prev \in Quotes /\ quote[s].prev # q
      BY <1>4, <2>1 DEF IInv, TypeOK, QuoteRow, Ids
    <2>3. QED BY <1>1, <2>2 DEF PrevTold, OthersKept
  <1>6. StayTold /\ RequestsTold
    BY <1>1, <1>5 DEF StayTold, RequestsTold, OthersKept, Unused
  <1>7. GoneUntied'
    BY <1>1 DEF VInv, GoneUntied, OthersKept, Exists
  <1>8. AuthorisedTold'
    BY <1>1, <1>2, <1>5 DEF VInv, AuthorisedTold, OthersKept, Live
  <1>9. SupersededNamed'
    BY <1>1, <1>2, <1>3 DEF VInv, SupersededNamed, OthersKept, NextVersions, Exists
  <1>10. QED BY <1>6, <1>7, <1>8, <1>9, RequestsStayTold DEF VInv

LEMMA SavesTell ==
  ASSUME IInv, CInv, VInv, ApprovalStaysOn, NEW r \in Requests, Save(r)
  PROVE  VInv'
  <1>1. ASSUME NEW q \in Quotes, NEW target \in {"NONE"} \cup SubmissionStatuses,
               NEW c \in Captures, NEW i \in Contents, NEW t \in Terms,
               CheckSave(r, q, target, c, i, t)
        PROVE  VInv'
    <2> DEFINE l == [Idle EXCEPT !.pc = "checked", !.op = "SAVE", !.q = q,
                       !.target = target, !.capture = c, !.content = i, !.terms = t]
    <2>1. target # "QUOTED"
      BY ConstantsAssumption DEF SubmissionStatuses, ApprovalStaysOn
    <2>2. AuthorisesTold(l)
      BY <1>1, <2>1, ExistingIsUsed DEF CheckSave, AuthorisesTold, Idle
    <2>3. req' = [req EXCEPT ![r] = l] /\ UNCHANGED quote
      BY <1>1 DEF CheckSave, Checked
    <2> HIDE DEF l
    <2>4. QED BY <2>2, <2>3, MoveTells
  <1>2. CASE ReadSave(r)
    <2> DEFINE l == [req[r] EXCEPT !.pc = "read", !.seenStatus = quote[req[r].q].status]
    <2>1. /\ req[r] \in Request /\ req[r].op = "SAVE" /\ req[r].pc = "checked"
          /\ AuthorisesTold(req[r])
      BY <1>2 DEF IInv, TypeOK, VInv, ReadSave, At
    <2>2. l.q = req[r].q /\ l.op = "SAVE" /\ l.target = req[r].target
      BY <2>1 DEF Request
    <2>3. req' = [req EXCEPT ![r] = l] /\ UNCHANGED quote
      BY <1>2 DEF ReadSave, Read
    <2> HIDE DEF l
    <2>4. AuthorisesTold(l)
      BY <2>1, <2>2 DEF AuthorisesTold
    <2>5. QED BY <2>3, <2>4, MoveTells
  <1>3. ASSUME NEW fromLead \in LeadInputs, CommitSave(r, fromLead)
        PROVE  VInv'
    <2> DEFINE q == req[r].q
               status == StatusSaved(req[r])
    <2>1. /\ Target(r) /\ At(r, "read", "SAVE") /\ Rewritten(q, status)
          /\ req'[r] = Idle /\ OthersWait(r)
      BY <1>3, SaveWrites
    <2>2. LocalsOf(req[r]) /\ AuthorisesTold(req[r])
      BY DEF IInv, LocalsOK, VInv
    <2>3. status \in InProgress
      BY <2>1, <2>2 DEF StatusSaved, LocalsOf, AuthorisesTold, SubmissionTargets, At, InProgress
    <2>4. status \in Statuses /\ status \notin Live /\ status # "SUPERSEDED"
      BY <2>3 DEF InProgress, Editable, Statuses, Live
    <2> HIDE DEF q, status
    <2>5. QED BY <2>1, <2>4, EndedTells, RewrittenTells DEF Rewritten, Target, q
  <1>4. QED BY <1>1, <1>2, <1>3 DEF Save

\* An edit writes the status it finds, or the one it saw, moved back.
LEMMA EditedTells ==
  ASSUME IInv, VInv, NEW r \in Requests, Target(r),
         At(r, "read", "UPDATE") \/ At(r, "read", "ITEMS"),
         Rewritten(req[r].q, StatusAfterEdit(r)), req'[r] = Idle, OthersWait(r)
  PROVE  VInv'
  <1> DEFINE q == req[r].q
  <1>1. AuthorisesTold(req[r])
    BY DEF VInv
  <1>2. StatusAfterEdit(r) \in Live => PrevTold(q)
    BY <1>1 DEF StatusAfterEdit, AuthorisesTold, At, VInv, AuthorisedTold, Target
  <1>3. /\ StatusAfterEdit(r) \in Statuses
        /\ StatusAfterEdit(r) = "SUPERSEDED" => quote[q].status = "SUPERSEDED"
    BY StatusAfterEditType DEF Target, IInv
  <1>4. RequestsTold
    BY EndedTells
  <1> HIDE DEF q
  <1>5. QED BY <1>2, <1>3, <1>4, RewrittenTells DEF Rewritten, Target, q

LEMMA EditsTell ==
  ASSUME IInv, CInv, VInv, NEW r \in Requests, Edit(r)
  PROVE  VInv'
  <1>1. ASSUME NEW q \in Quotes, NEW c \in Captures, NEW t \in Terms, CheckUpdate(r, q, c, t)
        PROVE  VInv'
    <2> DEFINE l == [Idle EXCEPT !.pc = "checked", !.op = "UPDATE", !.q = q,
                       !.capture = c, !.terms = t]
    <2>1. AuthorisesTold(l)
      BY <1>1, ExistingIsUsed DEF CheckUpdate, AuthorisesTold, Idle
    <2>2. req' = [req EXCEPT ![r] = l] /\ UNCHANGED quote
      BY <1>1 DEF CheckUpdate, Checked
    <2> HIDE DEF l
    <2>3. QED BY <2>1, <2>2, MoveTells
  <1>2. ASSUME NEW q \in Quotes, NEW i \in Contents, CheckItems(r, q, i)
        PROVE  VInv'
    <2> DEFINE l == [Idle EXCEPT !.pc = "checked", !.op = "ITEMS", !.q = q, !.content = i]
    <2>1. AuthorisesTold(l)
      BY <1>2, ExistingIsUsed DEF CheckItems, AuthorisesTold, Idle
    <2>2. req' = [req EXCEPT ![r] = l] /\ UNCHANGED quote
      BY <1>2 DEF CheckItems, Checked
    <2> HIDE DEF l
    <2>3. QED BY <2>1, <2>2, MoveTells
  <1>3. CASE ReadEdit(r)
    <2> DEFINE q == req[r].q
               l == [req[r] EXCEPT !.pc = "read", !.seenStatus = quote[q].status]
    <2>1. /\ req[r] \in Request /\ req[r].op \in {"UPDATE", "ITEMS"} /\ req[r].pc = "checked"
          /\ AuthorisesTold(req[r]) /\ q \in Quotes
      BY <1>3 DEF IInv, TypeOK, VInv, ReadEdit, At, LocalsOK, LocalsOf
    <2>2. l.q = q /\ l.op = req[r].op /\ l.seenStatus = quote[q].status
      BY <2>1 DEF Request
    <2>3. req' = [req EXCEPT ![r] = l] /\ UNCHANGED quote
      BY <1>3 DEF ReadEdit, Read
    <2>4. MovesBackToQuoted(quote[q].status) => PrevTold(q)
      BY <2>1 DEF MovesBackToQuoted, VInv, AuthorisedTold, Live
    <2> HIDE DEF l
    <2>5. AuthorisesTold(l)
      BY <2>1, <2>2, <2>4 DEF AuthorisesTold
    <2>6. QED BY <2>3, <2>5, MoveTells
  <1>4. CASE CommitUpdate(r)
    BY <1>4, UpdateWrites, EditedTells
  <1>5. CASE CommitItems(r)
    BY <1>5, ItemsWrite, EditedTells
  <1>6. QED BY <1>1, <1>2, <1>3, <1>4, <1>5 DEF Edit

\* What a change of status may ask for, and from which status.
LEMMA TransitionsFrom ==
  ASSUME NEW from \in Statuses, NEW requested \in Statuses, NEW enabled \in BOOLEAN,
         TransitionAllowed(from, requested, enabled)
  PROVE  LET target == TargetStatus(requested, enabled)
         IN /\ target \in Statuses /\ target # "SUPERSEDED"
            /\ target \in InProgress \cup {"QUOTED"} => from \in InProgress
            /\ target \in {"APPROVED", "REJECTED"} => from = "QUOTED"
  <1>1. CASE requested = "PENDING_APPROVAL" /\ ~enabled
    BY <1>1 DEF TransitionAllowed, TargetStatus, InProgress, Editable, Statuses
  <1>2. CASE ~(requested = "PENDING_APPROVAL" /\ ~enabled)
    <2>1. requested \in allowedTransitions[from] /\ TargetStatus(requested, enabled) = requested
      BY <1>2 DEF TransitionAllowed, TargetStatus
    <2>2. QED BY <2>1 DEF allowedTransitions, InProgress, Editable, Statuses
  <1>3. QED BY <1>1, <1>2

LEMMA ChangesTell ==
  ASSUME IInv, CInv, VInv, NEW r \in Requests, ChangeStatus(r)
  PROVE  VInv'
  <1>1. ASSUME NEW q \in Quotes, NEW requested \in Statuses, NEW enabled \in ApprovalModes,
               CheckChange(r, q, requested, enabled)
        PROVE  VInv'
    <2> DEFINE target == TargetStatus(requested, enabled)
               l == [Idle EXCEPT !.pc = "checked", !.op = "CHANGE", !.q = q, !.target = target]
    <2>1. l.pc = "checked" /\ l.op = "CHANGE" /\ l.q = q /\ l.target = target
      <3> HIDE DEF target
      <3> QED BY DEF Idle
    <2>2. /\ Exists(q) /\ TransitionAllowed(quote[q].status, requested, enabled)
          /\ req' = [req EXCEPT ![r] = l] /\ UNCHANGED quote
      BY <1>1 DEF CheckChange, Checked
    <2>3. enabled \in BOOLEAN
      BY ConstantsAssumption
    <2>4. target # "SUPERSEDED" /\ (target \in {"APPROVED", "REJECTED"} => PrevTold(q))
      BY <2>2, <2>3, TransitionsFrom, ExistingIsUsed DEF VInv, AuthorisedTold, Live
    <2> HIDE DEF l, target
    <2>5. AuthorisesTold(l)
      BY <2>1, <2>2, <2>4, ExistingIsUsed DEF AuthorisesTold
    <2>6. QED BY <2>2, <2>5, MoveTells
  <1>2. ASSUME NEW q \in Quotes, CheckApprovedAgain(r, q)
        PROVE  VInv'
    <2> DEFINE buys == quote[q].content = "TO_PURCHASE"
               l == [Idle EXCEPT !.pc = "ensure", !.op = "CHANGE", !.q = q,
                       !.target = "APPROVED", !.buys = buys]
    <2>1. l.pc = "ensure" /\ l.op = "CHANGE" /\ l.q = q /\ l.target = "APPROVED"
      <3> HIDE DEF buys
      <3> QED BY DEF Idle
    <2>2. /\ Exists(q) /\ quote[q].status = "APPROVED"
          /\ req' = [req EXCEPT ![r] = l] /\ UNCHANGED quote
      BY <1>2 DEF CheckApprovedAgain, Checked
    <2>3. PrevTold(q)
      BY <2>2 DEF VInv, AuthorisedTold, Live
    <2> HIDE DEF l
    <2>4. AuthorisesTold(l)
      BY <2>1, <2>2, <2>3, ExistingIsUsed DEF AuthorisesTold
    <2>5. QED BY <2>2, <2>4, MoveTells
  <1>3. CASE CommitChange(r)
    <2>0. PICK q \in Quotes, target \in Statuses : q = req[r].q /\ target = req[r].target
      BY <1>3, ChangeWrites DEF Target
    <2>1. /\ Target(r) /\ At(r, "checked", "CHANGE") /\ target \in Statuses
          /\ \A s \in Quotes : Kept(quote'[s], quote[s])
          /\ quote'[q].status = target
          /\ quote'[q].supersededBy = quote[q].supersededBy
          /\ \A s \in Quotes : Supersedes(r, s) =>
               quote'[s].status = "SUPERSEDED" /\ quote'[s].supersededBy = q
          /\ \A s \in Quotes : s # q /\ ~Supersedes(r, s) => quote'[s] = quote[s]
          /\ \/ req'[r] = Idle
             \/ /\ req'[r].pc = "ensure" /\ req'[r].op = "CHANGE" /\ req'[r].q = q
                /\ req'[r].target = "APPROVED" /\ target = "APPROVED"
          /\ OthersWait(r)
      BY <1>3, <2>0, ChangeWrites
    <2>2. /\ target # "SUPERSEDED"
          /\ target \in {"APPROVED", "REJECTED"} => PrevTold(q)
      BY <2>0, <2>1 DEF VInv, AuthorisesTold, At
    <2>3. /\ q \in Quotes /\ Exists(q) /\ quote[q].prev \in Ids /\ quote[q].prev # q
          /\ quote[q].prev \in Quotes => Exists(quote[q].prev)
      BY <2>0, <2>1, ConstantsAssumption DEF Target, QuoteRow, CInv, Chained, ChainRow
    <2>4. /\ q \in Quotes /\ NoQuote \notin Quotes /\ quote'[q].prev = quote[q].prev
          /\ quote[q].prev # NoQuote => quote[q].prev \in Quotes
      BY <2>1, <2>3, ConstantsAssumption DEF Kept, SameChain, Ids
    <2>5. \A s \in Quotes : Supersedes(r, s) => Exists(s) /\ q \in NextVersions(s)
      BY <2>0, <2>3 DEF Supersedes, NextVersions
    <2>6. target = "QUOTED" => PrevTold(q)'
      <3>1. target = "QUOTED" /\ quote[q].prev # NoQuote => Supersedes(r, quote[q].prev)
        BY <2>0, <2>3 DEF Supersedes
      <3>2. QED BY <2>1, <2>4, <3>1 DEF PrevTold
    <2>7. PrevTold(q) => PrevTold(q)'
      <3>1. \A s \in Quotes : quote[s].supersededBy # NoQuote
                                => quote'[s].supersededBy # NoQuote
        BY <2>1, <2>4
      <3>2. QED BY <2>4, <3>1 DEF PrevTold
    <2>8. Recorded
      <3> SUFFICES ASSUME NEW s \in Quotes
                   PROVE
            /\ SameChain(quote'[s], quote[s])
            /\ Exists(s) <=> quote'[s].status \in Statuses
            /\ quote'[s].status = "ABSENT" => Unused(s)
            /\ \/ quote'[s].supersededBy = quote[s].supersededBy
               \/ Exists(s) /\ quote'[s].supersededBy \in NextVersions(s)
            /\ quote'[s].status = "SUPERSEDED"
                 => quote[s].status = "SUPERSEDED" \/ quote'[s].supersededBy # NoQuote
            /\ quote'[s].status \in Live => PrevTold(s) \/ PrevTold(s)'
        BY DEF Recorded
      <3>1. SameChain(quote'[s], quote[s])
        BY <2>1 DEF Kept
      <3>2. CASE s = q
        <4>1. "ABSENT" \notin Statuses
          BY DEF Statuses
        <4>2. target \in Live => PrevTold(q) \/ PrevTold(q)'
          BY <2>2, <2>6 DEF Live
        <4>3. QED BY <2>1, <2>2, <2>3, <2>6, <3>1, <3>2, <4>1, <4>2 DEF Exists
      <3>3. CASE s # q /\ Supersedes(r, s)
        <4>1. QED BY <2>1, <2>4, <2>5, <3>1, <3>3 DEF Live, Statuses, Exists
      <3>4. CASE s # q /\ ~Supersedes(r, s)
        <4>1. quote'[s] = quote[s]
          BY <2>1, <3>4
        <4>2. QED BY <3>1, <4>1 DEF Exists, Unused, VInv, AuthorisedTold
      <3>5. QED BY <3>2, <3>3, <3>4
    <2>9. RequestsTold
      <3>1. CASE req'[r] = Idle
        BY <2>1, <3>1, EndedTells
      <3>2. CASE ~(req'[r] = Idle)
        <4>1. quote'[q].status # "ABSENT"
          BY <2>1 DEF Statuses
        <4>2. AuthorisesTold(req[r])'
          BY <2>1, <2>2, <2>7, <3>2, <4>1 DEF AuthorisesTold, Unused, PrevTold
        <4>3. QED BY <2>1, <4>2 DEF RequestsTold, OthersWait
      <3>3. QED BY <3>1, <3>2
    <2>10. QED BY <2>8, <2>9, RecordedTells
  <1>4. CASE EnsureRequisition(r)
    BY <1>4, EndTells DEF EnsureRequisition
  <1>5. QED BY <1>1, <1>2, <1>3, <1>4 DEF ChangeStatus

\* The other operations authorise nothing.
Unauthorising(l) == l.op \notin {"SAVE", "CHANGE", "UPDATE", "ITEMS"} /\ ~Unused(l.q)

LEMMA UnauthorisingMove ==
  ASSUME IInv, VInv, NEW r \in Requests, NEW l, Unauthorising(l),
         req' = [req EXCEPT ![r] = l], UNCHANGED quote
  PROVE  VInv'
  BY MoveTells DEF Unauthorising, AuthorisesTold

LEMMA RevisionsTell ==
  ASSUME IInv, CInv, VInv, NEW r \in Requests, Revise(r)
  PROVE  VInv'
  <1>1. ASSUME NEW q \in Quotes, CheckRevise(r, q)
        PROVE  VInv'
    <2> DEFINE l == [Idle EXCEPT !.pc = "checked", !.op = "REVISE", !.q = q]
    <2>1. Unauthorising(l)
      BY <1>1, ExistingIsUsed DEF CheckRevise, MayRevise, Unauthorising, Idle
    <2>2. req' = [req EXCEPT ![r] = l] /\ UNCHANGED quote
      BY <1>1 DEF CheckRevise, Checked
    <2> HIDE DEF l
    <2>3. QED BY <2>1, <2>2, UnauthorisingMove
  <1>2. CASE ReadRevise(r)
    <2> DEFINE q == req[r].q
               root == RootOf(q)
               capture == quote[q].capture
               content == quote[q].content
               terms == quote[q].terms
               l == [req[r] EXCEPT !.pc = "active", !.seenRoot = root, !.capture = capture,
                                   !.content = content, !.terms = terms]
    <2>1. /\ req[r] \in Request /\ req[r].op = "REVISE" /\ Exists(q)
          /\ req' = [req EXCEPT ![r] = l] /\ UNCHANGED quote
      BY <1>2 DEF IInv, TypeOK, ReadRevise, At, Read
    <2>2. l.op = "REVISE" /\ l.q = q
      <3> HIDE DEF root, capture, content, terms
      <3> QED BY <2>1 DEF Request
    <2> HIDE DEF l
    <2>3. Unauthorising(l)
      BY <2>1, <2>2, ExistingIsUsed DEF Unauthorising
    <2>4. QED BY <2>1, <2>3, UnauthorisingMove
  <1>3. CASE NumberRevision(r)
    <2>1. /\ req[r] \in Request /\ req[r].op = "REVISE" /\ req[r].pc = "active"
          /\ AuthorisesTold(req[r])
      BY <1>3 DEF IInv, TypeOK, VInv, NumberRevision, At
    <2>2. PICK latest : /\ req' = [req EXCEPT ![r] = [req[r] EXCEPT !.pc = "read", !.seenRev = latest + 1]]
                        /\ UNCHANGED quote
      BY <1>3 DEF NumberRevision, Read
    <2> DEFINE rev == latest + 1
               l == [req[r] EXCEPT !.pc = "read", !.seenRev = rev]
    <2>3. l.op = "REVISE" /\ l.q = req[r].q
      <3> HIDE DEF rev
      <3> QED BY <2>1 DEF Request
    <2>4. req' = [req EXCEPT ![r] = l] /\ UNCHANGED quote
      BY <2>2
    <2> HIDE DEF l
    <2>5. Unauthorising(l)
      BY <2>1, <2>3 DEF Unauthorising, AuthorisesTold
    <2>6. QED BY <2>4, <2>5, UnauthorisingMove
  <1>4. ASSUME NEW s \in Quotes, CommitRevise(r, s)
        PROVE  VInv'
    <2>1. /\ Target(r) /\ Unused(s) /\ OthersKept(s)
          /\ quote'[s].status = "DRAFT" /\ quote'[s].prev = req[r].q
          /\ quote'[s].supersededBy = NoQuote
          /\ req'[r] = Idle /\ OthersWait(r)
      BY <1>4, ReviseWrites
    <2>2. ~Exists(s) /\ \A t \in Quotes : Exists(t) => t # s
      BY <2>1 DEF Unused, Exists, Statuses
    <2>3. \A t \in Quotes : Exists(t) /\ quote[t].prev # NoQuote => quote[t].prev # s
      BY <2>2, ConstantsAssumption DEF CInv, Chained, ChainRow
    <2>4. \A t \in Quotes : t # s => (PrevTold(t) => PrevTold(t)')
      <3> SUFFICES ASSUME NEW t \in Quotes, t # s, PrevTold(t), quote[t].prev # NoQuote
                   PROVE  quote'[quote[t].prev].supersededBy # NoQuote
        BY <2>1 DEF PrevTold, OthersKept
      <3>1. Exists(t)
        BY DEF VInv, GoneUntied
      <3>2. quote[t].prev \in Quotes /\ quote[t].prev # s
        BY <2>3, <3>1 DEF IInv, TypeOK, QuoteRow, Ids
      <3>3. QED BY <2>1, <3>2 DEF PrevTold, OthersKept
    <2>5. StayTold /\ RequestsTold
      BY <2>1, <2>4, EndedTells DEF StayTold, OthersKept, Unused
    <2>6. GoneUntied'
      BY <2>1 DEF VInv, GoneUntied, OthersKept, Exists, Statuses
    <2>7. AuthorisedTold'
      BY <2>1, <2>4 DEF VInv, AuthorisedTold, OthersKept, Live
    <2>8. SupersededNamed'
      BY <2>1, <2>2 DEF VInv, SupersededNamed, OthersKept, NextVersions, Exists
    <2>9. QED BY <2>5, <2>6, <2>7, <2>8, RequestsStayTold DEF VInv
  <1>5. QED BY <1>1, <1>2, <1>3, <1>4 DEF Revise

LEMMA OrdersTell ==
  ASSUME IInv, CInv, VInv, NEW r \in Requests, GenerateOrder(r)
  PROVE  VInv'
  <1>1. ASSUME NEW q \in Quotes, NEW enabled \in ApprovalModes, NEW itemsReady \in BOOLEAN,
               CheckOrder(r, q, enabled, itemsReady)
        PROVE  VInv'
    <2> DEFINE buys == quote[q].content = "TO_PURCHASE" /\ RequisitionReady(q, enabled, itemsReady)
               l == [Idle EXCEPT !.pc = "checked", !.op = "ORDER", !.q = q, !.buys = buys]
    <2>1. Exists(q) /\ req' = [req EXCEPT ![r] = l] /\ UNCHANGED quote
      BY <1>1 DEF CheckOrder, MayOrder, Checked
    <2>2. l.op = "ORDER" /\ l.q = q
      <3> HIDE DEF buys
      <3> QED BY DEF Idle
    <2> HIDE DEF l
    <2>3. Unauthorising(l)
      BY <2>1, <2>2, ExistingIsUsed DEF Unauthorising
    <2>4. QED BY <2>1, <2>3, UnauthorisingMove
  <1>2. CASE CommitOrder(r)
    <2>1. /\ Target(r) /\ OthersKept(req[r].q)
          /\ quote'[req[r].q].status = quote[req[r].q].status
          /\ SameVersion(quote'[req[r].q], quote[req[r].q])
          /\ \/ req'[r] = Idle
             \/ req'[r].op = "ORDER" /\ req'[r].q = req[r].q
          /\ OthersWait(r)
      BY <1>2, OrderWrites
    <2>2. quote'[req[r].q].status # "ABSENT"
      BY <2>1 DEF Target, Exists, Statuses
    <2>3. CASE req'[r] = Idle
      <3>1. RequestsTold
        BY <2>1, <2>3, EndedTells
      <3>2. QED
        BY <2>1, <3>1, RewrittenTells, ExistingIsUsed DEF Target, VInv, AuthorisedTold
    <2>4. CASE req'[r].op = "ORDER" /\ req'[r].q = req[r].q
      <3>1. AuthorisesTold(req[r])'
        BY <2>2, <2>4 DEF AuthorisesTold, Unused
      <3>2. RequestsTold
        BY <2>1, <3>1 DEF RequestsTold, OthersWait
      <3>3. QED
        BY <2>1, <3>2, RewrittenTells, ExistingIsUsed DEF Target, VInv, AuthorisedTold
    <2>5. QED BY <2>1, <2>3, <2>4
  <1>3. ASSUME NEW enabled \in ApprovalModes, CompleteRequisition(r, enabled)
        PROVE  VInv'
    BY <1>3, EndTells DEF CompleteRequisition
  <1>4. QED BY <1>1, <1>2, <1>3 DEF GenerateOrder

LEMMA RegistrationsTell ==
  ASSUME IInv, CInv, VInv, NEW r \in Requests, RegisterErp(r)
  PROVE  VInv'
  <1>1. ASSUME NEW q \in Quotes, NEW n \in ErpNumbers, CheckRegister(r, q, n)
        PROVE  VInv'
    <2> DEFINE capture == quote[q].capture
               l == [Idle EXCEPT !.pc = "checked", !.op = "REGISTER", !.q = q,
                       !.capture = capture, !.number = n]
    <2>1. Exists(q) /\ req' = [req EXCEPT ![r] = l] /\ UNCHANGED quote
      BY <1>1 DEF CheckRegister, MayRegister, Checked
    <2>2. l.op = "REGISTER" /\ l.q = q
      <3> HIDE DEF capture
      <3> QED BY DEF Idle
    <2> HIDE DEF l
    <2>3. Unauthorising(l)
      BY <2>1, <2>2, ExistingIsUsed DEF Unauthorising
    <2>4. QED BY <2>1, <2>3, UnauthorisingMove
  <1>2. CASE ReadRegister(r)
    <2> DEFINE n == quote[req[r].q][LinkField(req[r].capture)]
               l == [req[r] EXCEPT !.pc = "read", !.seenNumber = n]
    <2>1. /\ req[r] \in Request /\ req[r].op = "REGISTER" /\ Exists(req[r].q)
          /\ req' = [req EXCEPT ![r] = l] /\ UNCHANGED quote
      BY <1>2 DEF IInv, TypeOK, ReadRegister, MayRegister, At, Read
    <2>2. l.op = "REGISTER" /\ l.q = req[r].q
      <3> HIDE DEF n
      <3> QED BY <2>1 DEF Request
    <2> HIDE DEF l
    <2>3. Unauthorising(l)
      BY <2>1, <2>2, ExistingIsUsed DEF Unauthorising
    <2>4. QED BY <2>1, <2>3, UnauthorisingMove
  <1>3. CASE CommitRegister(r)
    <2>1. /\ Target(r) /\ Rewritten(req[r].q, quote[req[r].q].status)
          /\ req'[r] = Idle /\ OthersWait(r)
      BY <1>3, RegisterWrites
    <2>2. RequestsTold
      BY <2>1, EndedTells
    <2>3. QED
      BY <2>1, <2>2, RewrittenTells, ExistingIsUsed DEF Rewritten, Target, VInv, AuthorisedTold
  <1>4. QED BY <1>1, <1>2, <1>3 DEF RegisterErp

LEMMA AdministrationTells ==
  ASSUME IInv, CInv, VInv, NEW r \in Requests, Administer(r)
  PROVE  VInv'
  <1>1. ASSUME NEW q \in Quotes, ArchiveOrRestore(r, q)
        PROVE  VInv'
    <2>1. /\ Exists(q) /\ OthersKept(q) /\ quote'[q].status = quote[q].status
          /\ SameVersion(quote'[q], quote[q]) /\ UNCHANGED req
      BY <1>1, ArchiveWrites
    <2>2. RequestsTold
      BY <2>1 DEF RequestsTold
    <2>3. QED BY <2>1, <2>2, RewrittenTells, ExistingIsUsed DEF VInv, AuthorisedTold
  <1>2. ASSUME NEW q \in Quotes, ReadDelete(r, q)
        PROVE  VInv'
    <2> DEFINE l == [Idle EXCEPT !.pc = "read", !.op = "DELETE", !.q = q]
    <2>1. Unauthorising(l)
      BY <1>2, ExistingIsUsed DEF ReadDelete, Unauthorising, Idle
    <2>2. req' = [req EXCEPT ![r] = l] /\ UNCHANGED quote
      BY <1>2 DEF ReadDelete, Checked
    <2> HIDE DEF l
    <2>3. QED BY <2>1, <2>2, UnauthorisingMove
  <1>3. CASE CommitDelete(r)
    <2>1. PICK q \in Quotes :
            /\ Exists(q) /\ OthersKept(q)
            /\ quote'[q].status = "DELETED" /\ quote'[q].prev = NoQuote
            /\ quote[q].prev = NoQuote
            /\ \A s \in Quotes : Exists(s) => quote[s].prev # q
            /\ req'[r] = Idle /\ OthersWait(r)
      BY <1>3, DeleteWrites DEF Target
    <2>2. \A s \in Quotes : PrevTold(s) => PrevTold(s)'
      <3> SUFFICES ASSUME NEW s \in Quotes, PrevTold(s), quote'[s].prev # NoQuote
                   PROVE  quote'[quote'[s].prev].supersededBy # NoQuote
        BY DEF PrevTold
      <3>1. s # q /\ quote'[s] = quote[s]
        BY <2>1 DEF OthersKept
      <3>2. Exists(s)
        BY <3>1 DEF VInv, GoneUntied
      <3>3. quote[s].prev \in Quotes /\ quote[s].prev # q
        BY <2>1, <3>1, <3>2 DEF IInv, TypeOK, QuoteRow, Ids
      <3>4. QED BY <2>1, <3>1, <3>3 DEF PrevTold, OthersKept
    <2>3. StayTold /\ RequestsTold
      BY <2>1, <2>2, EndedTells DEF StayTold, OthersKept, Unused
    <2>4. GoneUntied'
      BY <2>1 DEF VInv, GoneUntied, OthersKept, Exists
    <2>5. AuthorisedTold'
      BY <2>1, <2>2 DEF VInv, AuthorisedTold, OthersKept, Live
    <2>6. SupersededNamed'
      <3> SUFFICES ASSUME NEW s \in Quotes
                   PROVE  /\ quote'[s].status \in Statuses /\ quote'[s].supersededBy # NoQuote
                               => /\ quote'[s].supersededBy \in Quotes
                                  /\ quote'[quote'[s].supersededBy].status \in Statuses
                                  /\ quote'[quote'[s].supersededBy].prev = s
                          /\ quote'[s].status = "SUPERSEDED" => quote'[s].supersededBy # NoQuote
        BY DEF SupersededNamed, NextVersions, Exists
      <3>1. CASE s = q
        BY <2>1, <3>1 DEF Statuses
      <3>2. CASE s # q
        <4>1. quote'[s] = quote[s]
          BY <2>1, <3>2 DEF OthersKept
        <4>2. /\ Exists(s) /\ quote[s].supersededBy # NoQuote
                   => quote[s].supersededBy \in NextVersions(s)
              /\ quote[s].status = "SUPERSEDED" => quote[s].supersededBy # NoQuote
          BY DEF VInv, SupersededNamed
        <4>3. \A t \in NextVersions(s) : t \in Quotes /\ t # q
          BY <2>1, ConstantsAssumption DEF NextVersions
        <4>4. QED BY <2>1, <4>1, <4>2, <4>3 DEF OthersKept, NextVersions, Exists
      <3>3. QED BY <3>1, <3>2
    <2>7. QED BY <2>3, <2>4, <2>5, <2>6, RequestsStayTold DEF VInv
  <1>4. QED BY <1>1, <1>2, <1>3 DEF Administer

LEMMA PurchasingTells ==
  ASSUME IInv, CInv, VInv, NEW r \in Requests, Purchasing(r)
  PROVE  VInv'
  <1>1. ASSUME NEW q \in Quotes, CheckPurchasing(r, q)
        PROVE  VInv'
    <2> DEFINE l == [Idle EXCEPT !.pc = "checked", !.op = "PURCHASE", !.q = q]
    <2>1. Exists(q)
      BY <1>1 DEF CheckPurchasing, CInv, GoneHasNothing, OpenRequisition
    <2>2. Unauthorising(l)
      BY <2>1, ExistingIsUsed DEF Unauthorising, Idle
    <2>3. req' = [req EXCEPT ![r] = l] /\ UNCHANGED quote
      BY <1>1 DEF CheckPurchasing, Checked
    <2> HIDE DEF l
    <2>4. QED BY <2>2, <2>3, UnauthorisingMove
  <1>2. ASSUME NEW status \in PurchasingStatuses, CommitPurchasing(r, status)
        PROVE  VInv'
    BY <1>2, EndTells DEF CommitPurchasing
  <1>3. QED BY <1>1, <1>2 DEF Purchasing

LEMMA InitTells == Init => VInv
  BY DEF Init, VInv, GoneUntied, AuthorisedTold, SupersededNamed, AuthorisesTold, PrevTold,
         Live, Exists, Statuses, AbsentRow, Idle

LEMMA StepTells == IInv /\ CInv /\ VInv /\ ApprovalStaysOn /\ [Next]_vars => VInv'
  <1> SUFFICES ASSUME IInv, CInv, VInv, ApprovalStaysOn, [Next]_vars PROVE VInv'
    OBVIOUS
  <1>1. CASE NewQuote
    BY <1>1, CreationTells
  <1>2. ASSUME NEW r \in Requests, Stop(r)
        PROVE  VInv'
    BY <1>2, EndTells DEF Stop
  <1>3. ASSUME NEW r \in Requests,
               \/ Save(r) \/ Edit(r) \/ ChangeStatus(r) \/ Revise(r) \/ GenerateOrder(r)
               \/ RegisterErp(r) \/ Administer(r) \/ Purchasing(r)
        PROVE  VInv'
    BY <1>3, SavesTell, EditsTell, ChangesTell, RevisionsTell, OrdersTell,
       RegistrationsTell, AdministrationTells, PurchasingTells
  <1>4. CASE UNCHANGED vars
    <2>1. UNCHANGED <<quote, req>>
      BY <1>4 DEF vars
    <2>2. StayTold /\ RequestsTold
      BY <2>1 DEF StayTold, RequestsTold, Unused, PrevTold
    <2>3. GoneUntied' /\ AuthorisedTold' /\ SupersededNamed'
      BY <2>1 DEF VInv, GoneUntied, AuthorisedTold, SupersededNamed, PrevTold, Exists, NextVersions
    <2>4. QED BY <2>2, <2>3, RequestsStayTold DEF VInv
  <1>5. QED BY <1>1, <1>2, <1>3, <1>4 DEF Next

\* However revisions, changes of status, edits and deletions overlap, while
\* internal approval is on: a version is authorised only with the version it
\* was made from told which one superseded it, and a superseded version names a
\* successor that exists and was made from it (changeStatus).
THEOREM SuccessorsAreRecorded ==
  ASSUME ApprovalStaysOn
  PROVE  Spec => []SupersessionRecorded
  <1>1. Spec => []VInv
    BY Invariance, ChainInvariance, InitTells, StepTells, PTL DEF Spec
  <1>2. VInv => SupersessionRecorded
    BY DEF VInv, AuthorisedTold, SupersededNamed, PrevTold, Live, SupersessionRecorded, Exists,
           Statuses
  <1>3. QED BY <1>1, <1>2, PTL
-----------------------------------------------------------------------------
(* However requests overlap, late orders are those let in before the first. *)

\* The requests that were let in to generate the order of q and did not yet.
Ordering(q) == {r \in Requests : At(r, "checked", "ORDER") /\ req[r].q = q}

\* Once a quote has an order, each request still to add its own counts for one.
OrderLeaves(q) == quote[q].exports + Cardinality(Ordering(q)) <= Cardinality(Requests)

OInv == \A q \in Quotes : OrderGenerated(q) => OrderLeaves(q)

\* A step that adds no order, and lets none in where one was generated.
AddsNoOrder ==
  \A q \in Quotes :
    /\ quote'[q].exports \in {0, quote[q].exports}
    /\ OrderGenerated(q) => Ordering(q)' \subseteq Ordering(q)

LEMMA OrderingCounted ==
  ASSUME IsFiniteSet(Requests), NEW q \in Quotes
  PROVE  /\ IsFiniteSet(Ordering(q)) /\ Cardinality(Ordering(q)) \in Nat
         /\ Cardinality(Ordering(q)) <= Cardinality(Requests)
         /\ Cardinality(Requests) \in Nat
  BY FS_Subset, FS_CardinalityType DEF Ordering

LEMMA NoOrderAdded ==
  ASSUME IsFiniteSet(Requests), IInv, OInv, AddsNoOrder
  PROVE  OInv'
  <1> SUFFICES ASSUME NEW q \in Quotes, OrderGenerated(q)'
               PROVE  OrderLeaves(q)'
    BY DEF OInv
  <1>1. OrderGenerated(q) /\ OrderLeaves(q) /\ quote'[q].exports = quote[q].exports
    BY DEF AddsNoOrder, OrderGenerated, OInv
  <1>2. Cardinality(Ordering(q)') \in Nat /\ Cardinality(Ordering(q)') <= Cardinality(Ordering(q))
    BY <1>1, OrderingCounted, FS_Subset, FS_CardinalityType DEF AddsNoOrder
  <1>3. quote[q].exports \in Nat
    BY DEF IInv, TypeOK, QuoteRow
  <1>4. QED BY <1>1, <1>2, <1>3, OrderingCounted DEF OrderLeaves

\* A request that goes on to something else than marking an order of its own.
LEMMA OthersOrderOn ==
  ASSUME NEW r \in Requests, OthersWait(r), ~At(r, "checked", "ORDER")'
  PROVE  \A q \in Quotes : Ordering(q)' \subseteq Ordering(q)
  BY DEF Ordering, OthersWait, At

LEMMA TurnAddsNoOrder ==
  ASSUME IsFiniteSet(Requests), IInv, OInv, NEW r \in Requests, OthersWait(r),
         ~At(r, "checked", "ORDER")',
         \A q \in Quotes : quote'[q].exports \in {0, quote[q].exports}
  PROVE  OInv'
  BY OthersOrderOn, NoOrderAdded DEF AddsNoOrder

\* A check or a read of another operation.
LEMMA MoveAddsNoOrder ==
  ASSUME IsFiniteSet(Requests), IInv, OInv, NEW r \in Requests, NEW l,
         l.op # "ORDER" \/ l.pc # "checked",
         req' = [req EXCEPT ![r] = l], UNCHANGED quote
  PROVE  OInv'
  <1>1. OthersWait(r) /\ req'[r] = l
    BY RequestReplaced
  <1>2. ~At(r, "checked", "ORDER")'
    BY <1>1 DEF At
  <1>3. QED BY <1>1, <1>2, TurnAddsNoOrder

LEMMA EndAddsNoOrder ==
  ASSUME IsFiniteSet(Requests), IInv, OInv, NEW r \in Requests, req'[r] = Idle, OthersWait(r),
         \A q \in Quotes : quote'[q].exports \in {0, quote[q].exports}
  PROVE  OInv'
  BY TurnAddsNoOrder DEF At, Idle
-----------------------------------------------------------------------------
LEMMA CheckedAddsNoOrder ==
  ASSUME IsFiniteSet(Requests), IInv, OInv, NEW r \in Requests, NEW l, Checked(r, l),
         l.op # "ORDER"
  PROVE  OInv'
  BY MoveAddsNoOrder DEF Checked

LEMMA ReadAddsNoOrder ==
  ASSUME IsFiniteSet(Requests), IInv, OInv, NEW r \in Requests, NEW l, Read(r, l),
         l.pc # "checked"
  PROVE  OInv'
  BY MoveAddsNoOrder DEF Read

LEMMA ChecksAddNoOrder ==
  ASSUME IsFiniteSet(Requests), IInv, OInv, NEW r \in Requests, NEW q \in Quotes,
         \/ \E target \in {"NONE"} \cup SubmissionStatuses,
               c \in Captures, i \in Contents, t \in Terms : CheckSave(r, q, target, c, i, t)
         \/ \E c \in Captures, t \in Terms : CheckUpdate(r, q, c, t)
         \/ \E i \in Contents : CheckItems(r, q, i)
         \/ \E requested \in Statuses, enabled \in ApprovalModes :
              CheckChange(r, q, requested, enabled)
         \/ CheckApprovedAgain(r, q)
         \/ CheckRevise(r, q)
         \/ \E n \in ErpNumbers : CheckRegister(r, q, n)
         \/ ReadDelete(r, q)
         \/ CheckPurchasing(r, q)
  PROVE  OInv'
  <1>1. ASSUME NEW target, NEW c, NEW i, NEW t, CheckSave(r, q, target, c, i, t)
        PROVE  OInv'
    BY <1>1, CheckedAddsNoOrder DEF CheckSave, Idle
  <1>2. ASSUME NEW c, NEW t, CheckUpdate(r, q, c, t)
        PROVE  OInv'
    BY <1>2, CheckedAddsNoOrder DEF CheckUpdate, Idle
  <1>3. ASSUME NEW i, CheckItems(r, q, i)
        PROVE  OInv'
    BY <1>3, CheckedAddsNoOrder DEF CheckItems, Idle
  <1>4. ASSUME NEW requested, NEW enabled, CheckChange(r, q, requested, enabled)
        PROVE  OInv'
    BY <1>4, CheckedAddsNoOrder DEF CheckChange, Idle
  <1>5. CASE CheckApprovedAgain(r, q)
    BY <1>5, CheckedAddsNoOrder DEF CheckApprovedAgain, Idle
  <1>6. CASE CheckRevise(r, q)
    BY <1>6, CheckedAddsNoOrder DEF CheckRevise, Idle
  <1>7. ASSUME NEW n, CheckRegister(r, q, n)
        PROVE  OInv'
    BY <1>7, CheckedAddsNoOrder DEF CheckRegister, Idle
  <1>8. CASE ReadDelete(r, q)
    BY <1>8, CheckedAddsNoOrder DEF ReadDelete, Idle
  <1>9. CASE CheckPurchasing(r, q)
    BY <1>9, CheckedAddsNoOrder DEF CheckPurchasing, Idle
  <1>10. QED BY <1>1, <1>2, <1>3, <1>4, <1>5, <1>6, <1>7, <1>8, <1>9

LEMMA ReadsAddNoOrder ==
  ASSUME IsFiniteSet(Requests), IInv, OInv, NEW r \in Requests,
         ReadSave(r) \/ ReadEdit(r) \/ ReadRevise(r) \/ NumberRevision(r) \/ ReadRegister(r)
  PROVE  OInv'
  <1>1. req[r] \in Request
    BY DEF IInv, TypeOK
  <1>2. CASE ReadSave(r)
    BY <1>1, <1>2, ReadAddsNoOrder DEF ReadSave, Request
  <1>3. CASE ReadEdit(r)
    BY <1>1, <1>3, ReadAddsNoOrder DEF ReadEdit, Request
  <1>4. CASE ReadRevise(r)
    BY <1>1, <1>4, ReadAddsNoOrder DEF ReadRevise, Request
  <1>5. CASE NumberRevision(r)
    BY <1>1, <1>5, ReadAddsNoOrder DEF NumberRevision, Request
  <1>6. CASE ReadRegister(r)
    BY <1>1, <1>6, ReadAddsNoOrder DEF ReadRegister, Request
  <1>7. QED BY <1>2, <1>3, <1>4, <1>5, <1>6

\* Every write but that of the order leaves the number of orders, or starts or
\* ends the row with none.
LEMMA WritesAddNoOrder ==
  ASSUME IsFiniteSet(Requests), IInv, CInv, OInv, NEW r \in Requests,
         \/ \E fromLead \in LeadInputs : CommitSave(r, fromLead)
         \/ CommitUpdate(r) \/ CommitItems(r)
         \/ CommitChange(r) \/ EnsureRequisition(r)
         \/ \E s \in Quotes : CommitRevise(r, s)
         \/ \E enabled \in ApprovalModes : CompleteRequisition(r, enabled)
         \/ CommitRegister(r) \/ CommitDelete(r)
         \/ \E status \in PurchasingStatuses : CommitPurchasing(r, status)
         \/ Stop(r)
  PROVE  OInv'
  <1>1. ASSUME NEW fromLead \in LeadInputs, CommitSave(r, fromLead)
        PROVE  OInv'
    BY <1>1, SaveWrites, EndAddsNoOrder DEF Rewritten, OthersKept
  <1>2. CASE CommitUpdate(r)
    BY <1>2, UpdateWrites, EndAddsNoOrder DEF Rewritten, OthersKept
  <1>3. CASE CommitItems(r)
    BY <1>3, ItemsWrite, EndAddsNoOrder DEF Rewritten, OthersKept
  <1>4. CASE CommitChange(r)
    <2>1. OthersWait(r) /\ \A q \in Quotes : quote'[q].exports = quote[q].exports
      BY <1>4, ChangeWrites DEF Kept
    <2>2. ~At(r, "checked", "ORDER")'
      BY <1>4, ChangeWrites DEF At, Idle
    <2>3. QED BY <2>1, <2>2, TurnAddsNoOrder
  <1>5. CASE EnsureRequisition(r)
    BY <1>5, RequestFinished, EndAddsNoOrder DEF EnsureRequisition
  <1>6. ASSUME NEW s \in Quotes, CommitRevise(r, s)
        PROVE  OInv'
    BY <1>6, ReviseWrites, EndAddsNoOrder DEF OthersKept
  <1>7. ASSUME NEW enabled \in ApprovalModes, CompleteRequisition(r, enabled)
        PROVE  OInv'
    BY <1>7, RequestFinished, EndAddsNoOrder DEF CompleteRequisition
  <1>8. CASE CommitRegister(r)
    BY <1>8, RegisterWrites, EndAddsNoOrder DEF Rewritten, OthersKept
  <1>9. CASE CommitDelete(r)
    BY <1>9, DeleteWrites, EndAddsNoOrder DEF OthersKept
  <1>10. ASSUME NEW status \in PurchasingStatuses, CommitPurchasing(r, status)
         PROVE  OInv'
    BY <1>10, RequestFinished, EndAddsNoOrder DEF CommitPurchasing
  <1>11. CASE Stop(r)
    BY <1>11, RequestFinished, EndAddsNoOrder DEF Stop
  <1>12. QED
    BY <1>1, <1>2, <1>3, <1>4, <1>5, <1>6, <1>7, <1>8, <1>9, <1>10, <1>11

\* A request is let in to generate an order while there is none.
LEMMA LetInToOrder ==
  ASSUME IsFiniteSet(Requests), IInv, OInv, NEW r \in Requests, NEW q \in Quotes,
         NEW enabled \in ApprovalModes, NEW itemsReady \in BOOLEAN,
         CheckOrder(r, q, enabled, itemsReady)
  PROVE  OInv'
  <1> DEFINE buys == quote[q].content = "TO_PURCHASE" /\ RequisitionReady(q, enabled, itemsReady)
             l == [Idle EXCEPT !.pc = "checked", !.op = "ORDER", !.q = q, !.buys = buys]
  <1>1. MayOrder(q) /\ req' = [req EXCEPT ![r] = l] /\ UNCHANGED quote
    BY DEF CheckOrder, Checked
  <1>2. l.q = q
    <2> HIDE DEF buys
    <2> QED BY DEF Idle
  <1> HIDE DEF l
  <1>3. OthersWait(r) /\ req'[r].q = q
    BY <1>1, <1>2, RequestReplaced
  <1>4. \A p \in Quotes : p # q => Ordering(p)' \subseteq Ordering(p)
    BY <1>3 DEF Ordering, OthersWait, At
  <1>5. AddsNoOrder
    BY <1>1, <1>4 DEF MayOrder, AddsNoOrder
  <1>6. QED BY <1>5, NoOrderAdded

\* The one write that adds an order ends the wait of the request that makes it.
LEMMA OrderAdded ==
  ASSUME IsFiniteSet(Requests), IInv, OInv, NEW r \in Requests, CommitOrder(r)
  PROVE  OInv'
  <1>1. PICK q \in Quotes : q = req[r].q
    BY OrderWrites DEF Target
  <1>2. /\ quote[q] \in QuoteRow /\ At(r, "checked", "ORDER")
        /\ OthersKept(q) /\ quote'[q].exports = quote[q].exports + 1
        /\ OthersWait(r)
    BY <1>1, OrderWrites DEF Target
  <1>3. ~At(r, "checked", "ORDER")'
    <2>1. req'[r] = Idle \/ req'[r].pc = "complete"
      BY OrderWrites
    <2>2. QED BY <2>1 DEF At, Idle
  <1>4. quote[q].exports \in Nat
    BY <1>2 DEF QuoteRow
  <1>5. ASSUME NEW p \in Quotes, p # q, OrderGenerated(p)'
        PROVE  OrderLeaves(p)'
    <2>1. OrderGenerated(p) /\ quote'[p].exports = quote[p].exports
      BY <1>2, <1>5 DEF OthersKept, OrderGenerated
    <2>2. Ordering(p)' \subseteq Ordering(p) /\ quote[p].exports \in Nat
      BY <1>2, <1>3, OthersOrderOn DEF IInv, TypeOK, QuoteRow
    <2>3. Cardinality(Ordering(p)') \in Nat /\ Cardinality(Ordering(p)') <= Cardinality(Ordering(p))
      BY <2>2, OrderingCounted, FS_Subset, FS_CardinalityType
    <2>4. QED BY <2>1, <2>2, <2>3, OrderingCounted DEF OInv, OrderLeaves
  <1>6. OrderLeaves(q)'
    <2>1. r \in Ordering(q) /\ Ordering(q)' \subseteq Ordering(q) \ {r}
      BY <1>1, <1>2, <1>3 DEF Ordering, OthersWait, At
    <2>2. /\ Cardinality(Ordering(q) \ {r}) = Cardinality(Ordering(q)) - 1
          /\ IsFiniteSet(Ordering(q) \ {r})
      BY <2>1, OrderingCounted, FS_RemoveElement
    <2>3. Cardinality(Ordering(q)') \in Nat /\ Cardinality(Ordering(q)') <= Cardinality(Ordering(q)) - 1
      BY <2>1, <2>2, FS_Subset, FS_CardinalityType
    <2>4. quote[q].exports + Cardinality(Ordering(q)) <= Cardinality(Requests)
      BY <1>4, OrderingCounted DEF OInv, OrderLeaves, OrderGenerated
    <2>5. /\ Cardinality(Ordering(q)) \in Nat /\ Cardinality(Requests) \in Nat
      BY OrderingCounted
    <2>6. quote'[q].exports + Cardinality(Ordering(q)') <= Cardinality(Requests)
      BY <1>2, <1>4, <2>3, <2>4, <2>5
    <2>7. QED BY <2>6 DEF OrderLeaves
  <1>7. QED BY <1>5, <1>6 DEF OInv

LEMMA InitOrdersNothing == Init => OInv
  BY DEF Init, OInv, OrderGenerated, AbsentRow

LEMMA StepKeepsOrders ==
  ASSUME IsFiniteSet(Requests), IInv, CInv, OInv, [Next]_vars
  PROVE  OInv'
  <1>1. CASE NewQuote
    <2>1. UNCHANGED req /\ \A q \in Quotes : quote'[q].exports \in {0, quote[q].exports}
      BY <1>1, CreateWrites DEF OthersKept
    <2>2. AddsNoOrder
      BY <2>1 DEF AddsNoOrder, Ordering, At
    <2>3. QED BY <2>2, NoOrderAdded
  <1>2. ASSUME NEW r \in Requests, Save(r) \/ Edit(r) \/ ChangeStatus(r) \/ Revise(r)
        PROVE  OInv'
    BY <1>2, ChecksAddNoOrder, ReadsAddNoOrder, WritesAddNoOrder
    DEF Save, Edit, ChangeStatus, Revise
  <1>3. ASSUME NEW r \in Requests, GenerateOrder(r)
        PROVE  OInv'
    BY <1>3, LetInToOrder, OrderAdded, WritesAddNoOrder DEF GenerateOrder
  <1>4. ASSUME NEW r \in Requests, RegisterErp(r) \/ Purchasing(r) \/ Stop(r)
        PROVE  OInv'
    BY <1>4, ChecksAddNoOrder, ReadsAddNoOrder, WritesAddNoOrder DEF RegisterErp, Purchasing
  <1>5. ASSUME NEW r \in Requests, Administer(r)
        PROVE  OInv'
    <2>1. ASSUME NEW q \in Quotes, ArchiveOrRestore(r, q)
          PROVE  OInv'
      <3>1. AddsNoOrder
        BY <2>1, ArchiveWrites DEF AddsNoOrder, OthersKept, Ordering, At
      <3>2. QED BY <3>1, NoOrderAdded
    <2>2. QED BY <1>5, <2>1, ChecksAddNoOrder, WritesAddNoOrder DEF Administer
  <1>6. CASE UNCHANGED vars
    <2>1. AddsNoOrder
      BY <1>6 DEF vars, AddsNoOrder, Ordering, At
    <2>2. QED BY <2>1, NoOrderAdded
  <1>7. QED BY <1>1, <1>2, <1>3, <1>4, <1>5, <1>6 DEF Next

\* However many requests overlap and however long they go on, the orders of a
\* quote never outnumber the requests: one that comes after the first order was
\* marked adds none, and each of those let in before adds its own once
\* (generate-quote-order, markOrderGenerated).  That there be one order only is
\* false of two that overlap: the run quotes_two_orders.
THEOREM OrdersAreBounded ==
  ASSUME IsFiniteSet(Requests)
  PROVE  Spec => []OrdersWithinRequests
  <1>1. Spec => []OInv
    BY Invariance, ChainInvariance, InitOrdersNothing, StepKeepsOrders, PTL DEF Spec
  <1>2. IInv /\ OInv => OrdersWithinRequests
    <2> SUFFICES ASSUME IInv, OInv, NEW q \in Quotes
                 PROVE  quote[q].exports <= Cardinality(Requests)
      BY DEF OrdersWithinRequests
    <2>1. quote[q].exports \in Nat
      BY DEF IInv, TypeOK, QuoteRow
    <2>2. QED BY <2>1, OrderingCounted DEF OInv, OrderGenerated, OrderLeaves
  <1>3. QED BY <1>1, <1>2, Invariance, PTL
=============================================================================
