---------------------- MODULE CustomerDecision_proofs ----------------------
(***************************************************************************)
(* Proofs that the deliveries and the assistant's tools implement the life *)
(* of a quote, and that, for any number of turns, deliveries and actions,  *)
(* the assistant decides a quote only as another turn prepared it, marks   *)
(* an action executed only after the decision, and that no failed step of  *)
(* a delivery takes a quote away from the customer who received it.        *)
(***************************************************************************)
EXTENDS CustomerDecision, QuoteLifecycle_proofs

WasSent(q) == \E m \in Sends : send[m].q = q /\ send[m].toPhone /\ send[m].provider # "NONE"

\* The quote was decided as the call of turn t asks.
Had(t) == <<call[t].q, call[t].decision>> \in decided

\* The action the call found is what it needs: another turn's, for this decision.
Cites(t) ==
  LET a == call[t].a IN
  /\ a \in Actions
  /\ action[a].status # "ABSENT"
  /\ action[a].q = call[t].q
  /\ action[a].decision = call[t].decision
  /\ action[a].turn # t

\* The turn's request asks for the decision of its call.
Asks(t) ==
  /\ req[t].op = "CHANGE"
  /\ req[t].q = call[t].q
  /\ req[t].target = StatusFor(call[t].decision)

DecidingOK(t) ==
  \/ req[t].pc = "idle" /\ Had(t)
  \/ req[t].pc = "checked" /\ Asks(t)
  \/ req[t].pc = "ensure" /\ Asks(t) /\ Had(t)

CallOK(t) ==
  /\ call[t].pc # "deciding" => req[t].pc = "idle"
  /\ call[t].pc # "idle" => call[t].q \in Quotes /\ call[t].decision \in Answers
  /\ call[t].pc \in {"confirm", "found", "deciding"} => WasSent(call[t].q)
  /\ call[t].pc = "confirm" => call[t].seen = "QUOTED" \/ Had(t)
  /\ call[t].pc = "applied" => Had(t)
  /\ call[t].pc \in {"found", "deciding", "applied"} => Cites(t)
  /\ call[t].pc = "deciding" => DecidingOK(t)

SendOK(m) ==
  /\ send[m].attempt # "ABSENT" => send[m].provider # "NONE"
  /\ send[m].attempt = "FAILED" => send[m].provider \in {"FAILED", "MANUAL"}
  /\ send[m].pc \in {"unused", "checked"} =>
       send[m].provider = "NONE" /\ send[m].attempt = "ABSENT"
  /\ send[m].pc = "accepted" => /\ send[m].provider \in DeliveryStatuses
                                /\ send[m].attempt = "ABSENT"
                                /\ send[m].seen = "FAILED" => send[m].provider = "FAILED"
  /\ send[m].pc = "recorded" => send[m].provider \in DeliveryStatuses

DecidedComplete ==
  \A q \in Quotes, d \in Answers : quote[q].status = StatusFor(d) => <<q, d>> \in decided

DInv ==
  /\ IInv
  /\ DecisionTypeOK
  /\ \A t \in Turns : CallOK(t)
  /\ \A m \in Sends : SendOK(m)
  /\ DecidedComplete
  /\ ExecutedWasDecided
-----------------------------------------------------------------------------
(* Every step is one of QuoteLifecycle, or leaves its tables alone.        *)

LEMMA TurnsAreRequests == \A t \in Turns : t \in Requests
  BY DecisionAssumption

LEMMA StaffStepImplements ==
  ASSUME StaffStep
  PROVE  Next
  <1>1. CASE NewQuote
    BY <1>1 DEF Next
  <1>2. ASSUME NEW r \in Staff,
               \/ Save(r) \/ Edit(r) \/ ChangeStatus(r) \/ Revise(r) \/ GenerateOrder(r)
               \/ RegisterErp(r) \/ Administer(r) \/ Purchasing(r) \/ Stop(r)
        PROVE  Next
    <2>1. r \in Requests
      BY DEF Staff
    <2>2. QED BY <1>2, <2>1 DEF Next
  <1>3. QED BY <1>1, <1>2 DEF StaffStep

LEMMA StartDecisionImplements ==
  ASSUME NEW t \in Turns, CallOK(t), StartDecision(t)
  PROVE  Next
  <1>1. t \in Requests /\ call[t].q \in Quotes
    BY TurnsAreRequests DEF CallOK, StartDecision
  <1>2. StatusFor(call[t].decision) \in Statuses
    BY DEF StatusFor, Statuses
  <1>3. ChangeStatus(t)
    BY <1>1, <1>2 DEF StartDecision, ChangeStatus
  <1>4. QED BY <1>1, <1>3 DEF Next

LEMMA DecideImplements ==
  ASSUME NEW t \in Turns, Decide(t)
  PROVE  Next
  <1>1. ChangeStatus(t)
    BY DEF Decide, ChangeStatus
  <1>2. QED BY <1>1, TurnsAreRequests DEF Next

LEMMA StopCallImplements ==
  ASSUME NEW t \in Turns, StopCall(t)
  PROVE  Next \/ UNCHANGED vars
  <1>1. UNCHANGED vars \/ Stop(t)
    BY DEF StopCall
  <1>2. QED BY <1>1, TurnsAreRequests DEF Next

LEMMA DeliverKeepsQuotes ==
  ASSUME NEW m \in Sends, Deliver(m)
  PROVE  UNCHANGED <<vars, action, call, decided>>
  BY DEF Deliver, CheckSend, AcceptSend, RecordSend, PollSend, FailSend, RecordFailure,
         StopSend, RegisterAttempt, FailMessage, Callback, SendStep

\* The tool calls that change no quote.
Tool(t) ==
  \/ \E q \in Quotes, decision \in Answers :
       CallPrepare(t, q, decision) \/ CallConfirm(t, q, decision)
  \/ ReadPending(t) \/ CommitPrepare(t) \/ FindPending(t) \/ MarkExecuted(t)

LEMMA ToolKeepsQuotes ==
  ASSUME NEW t \in Turns, Tool(t)
  PROVE  UNCHANGED <<vars, send, decided>>
  BY DEF Tool, CallPrepare, CallConfirm, ReadPending, CommitPrepare, FindPending,
         MarkExecuted, CallStep

LEMMA StepImplements ==
  ASSUME DInv, [DecisionNext]_allVars
  PROVE  [Next]_vars
  <1>1. CASE UNCHANGED allVars
    BY <1>1 DEF allVars
  <1>2. CASE StaffStep
    BY <1>2, StaffStepImplements
  <1>3. ASSUME NEW m \in Sends, Deliver(m)
        PROVE  [Next]_vars
    BY <1>3, DeliverKeepsQuotes
  <1>4. ASSUME NEW t \in Turns, TurnStep(t)
        PROVE  [Next]_vars
    <2>1. CASE Tool(t)
      BY <2>1, ToolKeepsQuotes
    <2>2. CASE StartDecision(t)
      BY <2>2, StartDecisionImplements DEF DInv
    <2>3. CASE Decide(t)
      BY <2>3, DecideImplements
    <2>4. CASE StopCall(t)
      BY <2>4, StopCallImplements
    <2>5. QED BY <1>4, <2>1, <2>2, <2>3, <2>4 DEF TurnStep, Tool
  <1>5. ASSUME NEW a \in Actions, PassDeadline(a)
        PROVE  [Next]_vars
    BY <1>5 DEF PassDeadline
  <1>6. QED BY <1>1, <1>2, <1>3, <1>4, <1>5 DEF DecisionNext
-----------------------------------------------------------------------------
(* What every step keeps, and what that keeps of the other calls.          *)

\* No decision is forgotten, no action rewritten, no delivery undone.
Kept ==
  /\ decided \subseteq decided'
  /\ \A a \in Actions : action[a].status # "ABSENT" =>
       /\ action'[a].status # "ABSENT"
       /\ action'[a].q = action[a].q
       /\ action'[a].decision = action[a].decision
       /\ action'[a].turn = action[a].turn
  /\ \A q : WasSent(q) => WasSent(q)'

LEMMA CallKept ==
  ASSUME NEW t \in Turns, CallOK(t), Kept, call'[t] = call[t], req'[t] = req[t]
  PROVE  CallOK(t)'
  <1>1. Had(t) => Had(t)'
    BY DEF Had, Kept
  <1>2. Cites(t) => Cites(t)'
    BY DEF Cites, Kept
  <1>3. Asks(t) => Asks(t)'
    BY DEF Asks
  <1>4. WasSent(call[t].q) => WasSent(call[t].q)'
    <2> DEFINE q == call[t].q
    <2>1. WasSent(q) => WasSent(q)'
      BY DEF Kept, WasSent
    <2>2. QED BY <2>1
  <1>5. DecidingOK(t) => DecidingOK(t)'
    BY <1>1, <1>3 DEF DecidingOK
  <1>6. QED BY <1>1, <1>2, <1>4, <1>5 DEF CallOK

LEMMA DecidedGrows ==
  ASSUME DecisionTypeOK, decided' = Decided
  PROVE  decided \subseteq decided' /\ decided' \subseteq Quotes \X Answers /\ DecidedComplete'
  <1>1. decided \subseteq decided' /\ decided' \subseteq Quotes \X Answers
    BY DEF Decided, DecisionTypeOK
  <1>2. ASSUME NEW q \in Quotes, NEW d \in Answers, quote'[q].status = StatusFor(d)
        PROVE  <<q, d>> \in decided'
    BY <1>2 DEF Decided
  <1>3. QED BY <1>1, <1>2 DEF DecidedComplete, StatusFor

LEMMA ExecutedKept ==
  ASSUME ExecutedWasDecided, Kept,
         \A a \in Actions : action'[a].status = "EXECUTED" =>
           action[a].status = "EXECUTED" \/ <<action'[a].q, action'[a].decision>> \in decided'
  PROVE  ExecutedWasDecided'
  BY DEF ExecutedWasDecided, Kept
-----------------------------------------------------------------------------
(* Steps of the staff.                                                     *)

\* A request of the staff leaves those of the turns alone.
LEMMA RequestFrame ==
  ASSUME TypeOK, NEW r \in Requests, NEW t \in Requests, t # r,
         \/ Save(r) \/ Edit(r) \/ ChangeStatus(r) \/ Revise(r) \/ GenerateOrder(r)
         \/ RegisterErp(r) \/ Administer(r) \/ Purchasing(r) \/ Stop(r)
  PROVE  req'[t] = req[t]
  <1>1. \A l : req' = [req EXCEPT ![r] = l] => req'[t] = req[t]
    BY DEF TypeOK
  <1>2. CASE Save(r)
    BY <1>1, <1>2 DEF Save, CheckSave, Checked, ReadSave, Read, CommitSave, Finish
  <1>3. CASE Edit(r)
    BY <1>1, <1>3 DEF Edit, CheckUpdate, CheckItems, Checked, ReadEdit, Read, CommitUpdate,
                      CommitItems, Finish
  <1>4. CASE ChangeStatus(r)
    <2>1. ASSUME CommitChange(r)
          PROVE  req'[t] = req[t]
      BY <2>1, TypeOK DEF CommitChange, Finish, TypeOK
    <2>2. QED
      BY <1>1, <1>4, <2>1 DEF ChangeStatus, CheckChange, CheckApprovedAgain, Checked,
                              EnsureRequisition, Finish
  <1>5. CASE Revise(r)
    BY <1>1, <1>5 DEF Revise, CheckRevise, Checked, ReadRevise, NumberRevision, Read,
                      CommitRevise, Finish
  <1>6. CASE GenerateOrder(r)
    <2>1. ASSUME CommitOrder(r)
          PROVE  req'[t] = req[t]
      BY <2>1, TypeOK DEF CommitOrder, Finish, TypeOK
    <2>2. QED
      BY <1>1, <1>6, <2>1 DEF GenerateOrder, CheckOrder, Checked, CompleteRequisition, Finish
  <1>7. CASE RegisterErp(r)
    BY <1>1, <1>7 DEF RegisterErp, CheckRegister, Checked, ReadRegister, Read,
                      CommitRegister, Finish
  <1>8. CASE Administer(r)
    BY <1>1, <1>8 DEF Administer, ArchiveOrRestore, ReadDelete, Checked, CommitDelete, Finish
  <1>9. CASE Purchasing(r)
    BY <1>1, <1>9 DEF Purchasing, CheckPurchasing, Checked, CommitPurchasing, Finish
  <1>10. CASE Stop(r)
    BY <1>1, <1>10 DEF Stop, Finish
  <1>11. QED
    BY <1>2, <1>3, <1>4, <1>5, <1>6, <1>7, <1>8, <1>9, <1>10

LEMMA StaffKeepsRequests ==
  ASSUME TypeOK, StaffStep, NEW t \in Turns
  PROVE  req'[t] = req[t]
  <1>1. CASE NewQuote
    BY <1>1 DEF NewQuote, Create
  <1>2. ASSUME NEW r \in Staff,
               \/ Save(r) \/ Edit(r) \/ ChangeStatus(r) \/ Revise(r) \/ GenerateOrder(r)
               \/ RegisterErp(r) \/ Administer(r) \/ Purchasing(r) \/ Stop(r)
        PROVE  req'[t] = req[t]
    <2>1. r \in Requests /\ t \in Requests /\ t # r
      BY TurnsAreRequests DEF Staff
    <2>2. QED BY <1>2, <2>1, RequestFrame
  <1>3. QED BY <1>1, <1>2 DEF StaffStep

LEMMA StaffKeepsDInv ==
  ASSUME DInv, IInv', StaffStep
  PROVE  DInv'
  <1>1. UNCHANGED <<send, action, call>> /\ decided' = Decided
    BY DEF StaffStep
  <1>2. Kept
    BY <1>1, DecidedGrows DEF Kept, DInv, WasSent
  <1>3. \A t \in Turns : CallOK(t)'
    <2>1. TAKE t \in Turns
    <2>2. req'[t] = req[t]
      BY StaffKeepsRequests DEF DInv, IInv
    <2>3. QED BY <1>1, <1>2, <2>2, CallKept DEF DInv
  <1>4. DecisionTypeOK' /\ DecidedComplete'
    BY <1>1, DecidedGrows DEF DInv, DecisionTypeOK
  <1>5. ExecutedWasDecided'
    BY <1>1, <1>2, ExecutedKept DEF DInv
  <1>6. \A m \in Sends : SendOK(m)'
    BY <1>1 DEF DInv, SendOK
  <1>7. QED BY <1>3, <1>4, <1>5, <1>6 DEF DInv
-----------------------------------------------------------------------------
(* Deliveries.                                                             *)

LEMMA SendStepKeepsDInv ==
  ASSUME DInv, IInv', NEW m \in Sends, NEW row, SendStep(m, row), row \in SendRow,
         send[m].provider # "NONE" =>
           row.q = send[m].q /\ row.toPhone = send[m].toPhone /\ row.provider # "NONE",
         SendOK(m)'
  PROVE  DInv'
  <1>1. UNCHANGED <<vars, action, call, decided>>
    BY DEF SendStep
  <1>2. send' = [send EXCEPT ![m] = row] /\ send \in [Sends -> SendRow]
    BY DEF SendStep, DInv, DecisionTypeOK
  <1>3. /\ send' \in [Sends -> SendRow]
        /\ send'[m] = row
        /\ \A n \in Sends : n # m => send'[n] = send[n]
    BY <1>2
  <1>4. \A q : WasSent(q) => WasSent(q)'
    BY <1>3 DEF WasSent
  <1>5. Kept
    BY <1>1, <1>4 DEF Kept
  <1>6. \A t \in Turns : CallOK(t)'
    BY <1>1, <1>5, CallKept DEF DInv, vars
  <1>7. \A n \in Sends : SendOK(n)'
    BY <1>3 DEF DInv, SendOK
  <1>8. DecisionTypeOK' /\ DecidedComplete' /\ ExecutedWasDecided'
    BY <1>1, <1>3 DEF DInv, DecisionTypeOK, DecidedComplete, ExecutedWasDecided, vars
  <1>9. QED BY <1>6, <1>7, <1>8 DEF DInv

LEMMA DeliverKeepsDInv ==
  ASSUME DInv, IInv', NEW m \in Sends, Deliver(m)
  PROVE  DInv'
  <1>1. send \in [Sends -> SendRow] /\ SendOK(m) /\ send[m] \in SendRow
    BY DEF DInv, DecisionTypeOK
  <1>2. \A row : SendStep(m, row) => send'[m] = row
    BY <1>1 DEF SendStep
  <1> USE <1>1, <1>2
  <1>3. CASE \E q \in Quotes, toPhone \in Phones : CheckSend(m, q, toPhone)
    <2>1. PICK q \in Quotes, toPhone \in Phones : CheckSend(m, q, toPhone)
      BY <1>3
    <2> DEFINE row == [UnusedSend EXCEPT !.pc = "checked", !.q = q, !.toPhone = toPhone]
    <2>2. SendStep(m, row) /\ send[m].pc = "unused"
      BY <2>1 DEF CheckSend
    <2>3. row \in SendRow
      BY <2>1, DecisionAssumption DEF SendRow, UnusedSend, Ids, DeliveryStatuses
    <2>4. SendOK(m)'
      BY <2>2 DEF SendOK, UnusedSend
    <2>5. QED BY <2>2, <2>3, <2>4, SendStepKeepsDInv DEF SendOK
  <1>4. CASE \E status \in DeliveryStatuses : AcceptSend(m, status)
    <2>1. PICK status \in DeliveryStatuses : AcceptSend(m, status)
      BY <1>4
    <2> DEFINE row == [send[m] EXCEPT !.pc = "accepted", !.provider = status, !.seen = status]
    <2>2. SendStep(m, row) /\ send[m].pc = "checked"
      BY <2>1 DEF AcceptSend
    <2>3. row \in SendRow
      BY <2>1 DEF SendRow
    <2>4. SendOK(m)'
      BY <2>1, <2>2 DEF SendOK, SendRow, DeliveryStatuses
    <2>5. row.q = send[m].q /\ row.toPhone = send[m].toPhone /\ row.provider # "NONE"
      BY <2>1 DEF SendRow, DeliveryStatuses
    <2>6. QED BY <2>2, <2>3, <2>4, <2>5, SendStepKeepsDInv
  <1>5. CASE RecordSend(m)
    <2> DEFINE row == [send[m] EXCEPT !.attempt = send[m].seen, !.seen = "SENT",
                         !.pc = IF send[m].seen = "SENT" THEN "recorded" ELSE "done"]
    <2>1. SendStep(m, row) /\ send[m].pc = "accepted"
      BY <1>5 DEF RecordSend
    <2>2. row \in SendRow
      BY DEF SendRow, DeliveryStatuses
    <2>3. SendOK(m)'
      BY <2>1 DEF SendOK, SendRow, DeliveryStatuses
    <2>4. row.q = send[m].q /\ row.toPhone = send[m].toPhone /\ row.provider = send[m].provider
      BY DEF SendRow
    <2>5. QED BY <2>1, <2>2, <2>3, <2>4, SendStepKeepsDInv
  <1>6. CASE PollSend(m)
    <2>1. PICK status \in Reported(m) \cup {send[m].attempt} :
            SendStep(m, [send[m] EXCEPT !.pc = "done", !.attempt = status])
      BY <1>6 DEF PollSend
    <2> DEFINE row == [send[m] EXCEPT !.pc = "done", !.attempt = status]
    <2>2. send[m].pc = "recorded"
      BY <1>6 DEF PollSend
    <2>3. /\ status \in {"ABSENT"} \cup DeliveryStatuses
          /\ status = "FAILED" => send[m].provider \in {"FAILED", "MANUAL"}
      BY <2>1, <2>2 DEF Reported, SendOK, SendRow, DeliveryStatuses
    <2>4. row \in SendRow
      BY <2>3 DEF SendRow
    <2>5. SendOK(m)'
      BY <2>1, <2>2, <2>3 DEF SendStep, SendOK, SendRow, DeliveryStatuses
    <2>6. row.q = send[m].q /\ row.toPhone = send[m].toPhone /\ row.provider = send[m].provider
      BY DEF SendRow
    <2>7. QED BY <2>1, <2>4, <2>5, <2>6, SendStepKeepsDInv
  <1>7. CASE FailSend(m)
    <2>1. PICK status \in IF send[m].pc = "checked" THEN {"NONE"} \cup DeliveryStatuses
                          ELSE {send[m].provider} :
            SendStep(m, [send[m] EXCEPT !.pc = "failed", !.seen = "SENT", !.provider = status])
      BY <1>7 DEF FailSend
    <2> DEFINE row == [send[m] EXCEPT !.pc = "failed", !.seen = "SENT", !.provider = status]
    <2>2. /\ status \in {"NONE", "MANUAL"} \cup DeliveryStatuses
          /\ send[m].provider # "NONE" => status = send[m].provider
          /\ send[m].attempt # "ABSENT" => status = send[m].provider
      BY <2>1 DEF SendOK, SendRow, DeliveryStatuses
    <2>3. row \in SendRow
      BY <2>2 DEF SendRow, DeliveryStatuses
    <2>4. SendOK(m)'
      BY <2>1, <2>2 DEF SendOK, SendRow, DeliveryStatuses
    <2>5. row.q = send[m].q /\ row.toPhone = send[m].toPhone /\ row.provider = status
      BY DEF SendRow
    <2>6. QED BY <2>1, <2>2, <2>3, <2>4, <2>5, SendStepKeepsDInv
  <1>8. CASE RecordFailure(m)
    <2> DEFINE row == [send[m] EXCEPT !.pc = "done", !.failure = "FAILED"]
    <2>1. SendStep(m, row)
      BY <1>8 DEF RecordFailure
    <2>2. row \in SendRow
      BY DEF SendRow
    <2>3. SendOK(m)'
      BY <2>1 DEF SendOK, SendRow
    <2>4. row.q = send[m].q /\ row.toPhone = send[m].toPhone /\ row.provider = send[m].provider
      BY DEF SendRow
    <2>5. QED BY <2>1, <2>2, <2>3, <2>4, SendStepKeepsDInv
  <1>9. CASE StopSend(m)
    <2> DEFINE row == [send[m] EXCEPT !.pc = "done"]
    <2>1. SendStep(m, row)
      BY <1>9 DEF StopSend
    <2>2. row \in SendRow
      BY DEF SendRow
    <2>3. SendOK(m)'
      BY <2>1 DEF SendOK, SendRow
    <2>4. row.q = send[m].q /\ row.toPhone = send[m].toPhone /\ row.provider = send[m].provider
      BY DEF SendRow
    <2>5. QED BY <2>1, <2>2, <2>3, <2>4, SendStepKeepsDInv
  <1>10. CASE \E q \in Quotes, toPhone \in Phones, status \in DeliveryStatuses :
               RegisterAttempt(m, q, toPhone, status)
    <2>1. PICK q \in Quotes, toPhone \in Phones, status \in DeliveryStatuses :
                 RegisterAttempt(m, q, toPhone, status)
      BY <1>10
    <2> DEFINE row == [UnusedSend EXCEPT !.pc = "done", !.q = q, !.toPhone = toPhone,
                         !.provider = "MANUAL", !.attempt = status]
    <2>2. SendStep(m, row) /\ send[m].pc = "unused"
      BY <2>1 DEF RegisterAttempt
    <2>3. row \in SendRow
      BY <2>1, DecisionAssumption DEF SendRow, UnusedSend, Ids, DeliveryStatuses
    <2>4. SendOK(m)'
      BY <2>2 DEF SendOK, UnusedSend
    <2>5. send[m].provider = "NONE"
      BY <2>2 DEF SendOK
    <2>6. QED BY <2>2, <2>3, <2>4, <2>5, SendStepKeepsDInv
  <1>11. CASE FailMessage(m)
    <2> DEFINE row == [send[m] EXCEPT !.provider = "FAILED"]
    <2>1. SendStep(m, row) /\ send[m].provider = "SENT"
      BY <1>11 DEF FailMessage
    <2>2. row \in SendRow
      BY DEF SendRow, DeliveryStatuses
    <2>3. SendOK(m)'
      BY <2>1 DEF SendOK, SendRow, DeliveryStatuses
    <2>4. row.q = send[m].q /\ row.toPhone = send[m].toPhone /\ row.provider # "NONE"
      BY DEF SendRow
    <2>5. QED BY <2>1, <2>2, <2>3, <2>4, SendStepKeepsDInv
  <1>12. CASE \E status \in DeliveryStatuses : Callback(m, status)
    <2>1. PICK status \in DeliveryStatuses : Callback(m, status)
      BY <1>12
    <2> DEFINE row == [send[m] EXCEPT !.attempt = status]
    <2>2. SendStep(m, row) /\ send[m].attempt # "ABSENT"
      BY <2>1 DEF Callback
    <2>3. status = "FAILED" => send[m].provider = "FAILED"
      BY <2>1 DEF Callback, Reported
    <2>4. row \in SendRow
      BY DEF SendRow
    <2>5. SendOK(m)'
      BY <2>2, <2>3 DEF SendOK, SendRow, DeliveryStatuses
    <2>6. row.q = send[m].q /\ row.toPhone = send[m].toPhone /\ row.provider = send[m].provider
      BY DEF SendRow
    <2>7. QED BY <2>2, <2>4, <2>5, <2>6, SendStepKeepsDInv
  <1>13. QED
    BY <1>3, <1>4, <1>5, <1>6, <1>7, <1>8, <1>9, <1>10, <1>11, <1>12 DEF Deliver
-----------------------------------------------------------------------------
(* The turns.                                                              *)

\* A step of one call that changes no quote and no delivery.
LEMMA CallStepKeepsDInv ==
  ASSUME DInv, IInv', NEW t \in Turns, NEW rec, CallStep(t, rec), rec \in Call,
         action' \in [Actions -> ActionRow], Kept, ExecutedWasDecided', CallOK(t)'
  PROVE  DInv'
  <1>1. UNCHANGED <<vars, send, decided>>
    BY DEF CallStep
  <1>2. /\ call' \in [Turns -> Call]
        /\ \A u \in Turns : u # t => call'[u] = call[u]
    BY DEF CallStep, DInv, DecisionTypeOK
  <1>3. \A u \in Turns : CallOK(u)'
    BY <1>1, <1>2, CallKept DEF DInv, vars
  <1>4. \A m \in Sends : SendOK(m)'
    BY <1>1 DEF DInv, SendOK
  <1>5. DecisionTypeOK' /\ DecidedComplete'
    BY <1>1, <1>2 DEF DInv, DecisionTypeOK, DecidedComplete, vars
  <1>6. QED BY <1>3, <1>4, <1>5 DEF DInv

\* ... and no action either.
LEMMA CallMoves ==
  ASSUME DInv, IInv', NEW t \in Turns, NEW rec, CallStep(t, rec), rec \in Call,
         UNCHANGED action, CallOK(t)'
  PROVE  DInv'
  <1>1. UNCHANGED <<vars, send, decided>>
    BY DEF CallStep
  <1>2. Kept /\ ExecutedWasDecided' /\ action' \in [Actions -> ActionRow]
    BY <1>1 DEF Kept, WasSent, DInv, ExecutedWasDecided, DecisionTypeOK
  <1>3. QED BY <1>2, CallStepKeepsDInv

LEMMA ToolKeepsDInv ==
  ASSUME DInv, IInv', NEW t \in Turns, Tool(t)
  PROVE  DInv'
  <1>1. CallOK(t) /\ call[t] \in Call /\ Answers \subseteq Decisions
    BY DecisionAssumption DEF DInv, DecisionTypeOK, Decisions
  <1>2. UNCHANGED <<vars, send, decided>>
    BY ToolKeepsQuotes
  <1>3. \A rec : CallStep(t, rec) => call'[t] = rec
    BY DEF CallStep, DInv, DecisionTypeOK
  <1>4. NoCall \in Call
    BY DEF NoCall, Call, Ids, Decisions
  <1> USE <1>1, <1>2, <1>3
  <1>5. CASE \E q \in Quotes, decision \in Answers : CallPrepare(t, q, decision)
    <2>1. PICK q \in Quotes, decision \in Answers : CallPrepare(t, q, decision)
      BY <1>5
    <2>2. PICK c \in Quotes :
            CallStep(t, [NoCall EXCEPT !.pc = "prepare", !.q = c, !.decision = decision])
      BY <2>1 DEF CallPrepare
    <2> DEFINE rec == [NoCall EXCEPT !.pc = "prepare", !.q = c, !.decision = decision]
    <2>3. rec \in Call
      BY DEF NoCall, Call, Ids, Decisions
    <2>4. CallOK(t)'
      BY <2>1, <2>2 DEF CallOK, NoCall, CallPrepare, vars
    <2>5. QED BY <2>1, <2>2, <2>3, <2>4, CallMoves DEF CallPrepare
  <1>6. CASE \E q \in Quotes, decision \in Answers : CallConfirm(t, q, decision)
    <2>1. PICK q \in Quotes, decision \in Answers : CallConfirm(t, q, decision)
      BY <1>6
    <2>2. PICK c \in Quotes :
            /\ CurrentAuthorized(q, c)
            /\ quote[c].status \in {"QUOTED", StatusFor(decision)}
            /\ CallStep(t, [NoCall EXCEPT !.pc = "confirm", !.q = c, !.decision = decision,
                                          !.seen = quote[c].status])
      BY <2>1 DEF CallConfirm
    <2> DEFINE rec == [NoCall EXCEPT !.pc = "confirm", !.q = c, !.decision = decision,
                                     !.seen = quote[c].status]
    <2>3. rec \in Call
      BY <2>2 DEF NoCall, Call, Ids, Decisions, RowStatuses, Statuses, StatusFor
    <2>4. WasSent(c)
      <3>1. PICK m \in Sends : /\ send[m].q = c /\ send[m].toPhone
                              /\ {send[m].attempt, send[m].failure} \ {"ABSENT", "FAILED"} # {}
        BY <2>2 DEF CurrentAuthorized, Authorized, DeliveredToPhone
      <3>2. send[m].failure \in {"ABSENT", "FAILED"} /\ SendOK(m)
        BY DEF DInv, DecisionTypeOK, SendRow
      <3>3. send[m].attempt # "ABSENT"
        BY <3>1, <3>2
      <3>4. QED BY <3>1, <3>2, <3>3 DEF SendOK, WasSent
    <2>5. quote[c].status = "QUOTED" \/ <<c, decision>> \in decided
      BY <2>2 DEF DInv, DecidedComplete
    <2>6. call'[t] = rec
      BY <2>2
    <2>7. rec.pc = "confirm" /\ rec.q = c /\ rec.decision = decision /\ rec.seen = quote[c].status
      BY DEF NoCall
    <2>8. WasSent(call[t].q)'
      <3>1. WasSent(c)'
        BY <2>4 DEF WasSent
      <3>2. QED BY <3>1, <2>6, <2>7 DEF WasSent
    <2>9. CallOK(t)'
      <3>1. req'[t].pc = "idle"
        BY <2>1 DEF CallOK, CallConfirm, vars
      <3> HIDE DEF rec
      <3>2. QED BY <2>5, <2>6, <2>7, <2>8, <3>1 DEF CallOK, Had
    <2>10. QED BY <2>1, <2>2, <2>3, <2>9, CallMoves DEF CallConfirm
  <1>7. CASE ReadPending(t)
    <2> DEFINE rec == [call[t] EXCEPT !.pc = "preparing",
                         !.pending = {a \in Actions : action[a].status = "PENDING"}]
    <2>1. rec \in Call
      BY DEF Call
    <2>2. CallOK(t)'
      BY <1>7 DEF ReadPending, CallOK, Call, vars
    <2>3. QED BY <1>7, <2>1, <2>2, CallMoves DEF ReadPending
  <1>8. CASE CommitPrepare(t)
    <2>1. PICK a \in Actions :
            /\ a \in Unprepared
            /\ action' = [b \in Actions |->
                 IF b = a
                 THEN [status |-> "PENDING", q |-> call[t].q,
                       decision |-> call[t].decision, turn |-> t]
                 ELSE IF b \in call[t].pending /\ action[b].status = "PENDING"
                 THEN [action[b] EXCEPT !.status = "CLOSED"]
                 ELSE action[b]]
      BY <1>8 DEF CommitPrepare
    <2>2. call[t].q \in Ids /\ call[t].decision \in Decisions
      BY DEF Call
    <2>3. action \in [Actions -> ActionRow]
      BY DEF DInv, DecisionTypeOK
    <2>4. action' \in [Actions -> ActionRow]
      BY <2>1, <2>2, <2>3 DEF ActionRow
    <2>5. Kept
      BY <2>1, <2>3 DEF Kept, Unprepared, ActionRow, WasSent
    <2>6. \A b \in Actions : action'[b].status = "EXECUTED" => action[b].status = "EXECUTED"
      BY <2>1, <2>3 DEF ActionRow
    <2>7. ExecutedWasDecided'
      BY <2>5, <2>6, ExecutedKept DEF DInv
    <2>8. CallStep(t, NoCall)
      BY <1>8 DEF CommitPrepare
    <2>9. CallOK(t)'
      BY <1>8, <2>8 DEF CommitPrepare, CallOK, NoCall, vars
    <2>10. QED BY <1>4, <2>4, <2>5, <2>7, <2>8, <2>9, CallStepKeepsDInv
  <1>9. CASE FindPending(t)
    <2>1. PICK a \in Actions :
            /\ Confirmable(t, a)
            /\ CallStep(t, [call[t] EXCEPT !.a = a, !.seen = "NONE",
                              !.pc = IF call[t].seen = "QUOTED" THEN "found" ELSE "applied"])
      BY <1>9 DEF FindPending
    <2> DEFINE rec == [call[t] EXCEPT !.a = a, !.seen = "NONE",
                         !.pc = IF call[t].seen = "QUOTED" THEN "found" ELSE "applied"]
    <2>2. rec \in Call
      BY DEF Call
    <2>3. call[t].pc = "confirm" /\ UNCHANGED action
      BY <1>9 DEF FindPending
    <2>4. /\ call'[t].q = call[t].q /\ call'[t].decision = call[t].decision
          /\ call'[t].a = a
          /\ call'[t].pc \in {"found", "applied"}
          /\ call'[t].pc = "applied" => call[t].seen # "QUOTED"
      BY <2>1 DEF Call
    <2>5. Cites(t)'
      BY <2>1, <2>3, <2>4 DEF Cites, Confirmable
    <2>6. call'[t].pc = "applied" => Had(t)'
      BY <2>3, <2>4 DEF CallOK, Had
    <2>7. WasSent(call[t].q)'
      BY <2>3, <2>4 DEF CallOK, WasSent
    <2>8. CallOK(t)'
      BY <2>3, <2>4, <2>5, <2>6, <2>7 DEF CallOK, vars
    <2>9. QED BY <2>1, <2>2, <2>3, <2>8, CallMoves
  <1>10. CASE MarkExecuted(t)
    <2> DEFINE a == call[t].a
    <2>1. Cites(t) /\ Had(t) /\ req[t].pc = "idle"
      BY <1>10 DEF MarkExecuted, MayMark, CallOK, DecidingOK
    <2>2. action \in [Actions -> ActionRow] /\ action' = [action EXCEPT ![a].status = "EXECUTED"]
      BY <1>10 DEF MarkExecuted, DInv, DecisionTypeOK
    <2>3. a \in Actions /\ action' \in [Actions -> ActionRow]
      BY <2>1, <2>2 DEF Cites, ActionRow
    <2>4. Kept
      BY <2>2, <2>3 DEF Kept, ActionRow, WasSent
    <2>5. \A b \in Actions : action'[b].status = "EXECUTED" =>
            action[b].status = "EXECUTED" \/ <<action'[b].q, action'[b].decision>> \in decided'
      BY <2>1, <2>2, <2>3 DEF Cites, Had, ActionRow
    <2>6. ExecutedWasDecided'
      BY <2>4, <2>5, ExecutedKept DEF DInv
    <2>7. CallStep(t, NoCall)
      BY <1>10 DEF MarkExecuted
    <2>8. CallOK(t)'
      BY <2>1, <2>7 DEF CallOK, NoCall, vars
    <2>9. QED BY <1>4, <2>3, <2>4, <2>6, <2>7, <2>8, CallStepKeepsDInv
  <1>11. QED BY <1>5, <1>6, <1>7, <1>8, <1>9, <1>10 DEF Tool

\* A step of turn t's request, beside which no action and no delivery moves.
LEMMA RequestStepKeepsDInv ==
  ASSUME DInv, IInv', NEW t \in Turns, UNCHANGED <<send, action>>,
         call' \in [Turns -> Call], Kept, decided' \subseteq Quotes \X Answers,
         DecidedComplete', CallOK(t)',
         \A u \in Turns : u # t => call'[u] = call[u] /\ req'[u] = req[u]
  PROVE  DInv'
  <1>1. \A u \in Turns : CallOK(u)'
    BY CallKept DEF DInv
  <1>2. \A m \in Sends : SendOK(m)'
    BY DEF DInv, SendOK
  <1>3. DecisionTypeOK'
    BY DEF DInv, DecisionTypeOK
  <1>4. ExecutedWasDecided'
    BY ExecutedKept DEF DInv
  <1>5. QED BY <1>1, <1>2, <1>3, <1>4 DEF DInv

LEMMA OthersKept ==
  ASSUME TypeOK, NEW t \in Turns, ChangeStatus(t) \/ Stop(t)
  PROVE  \A u \in Turns : u # t => req'[u] = req[u]
  <1> TAKE u \in Turns
  <1> HAVE u # t
  <1>1. t \in Requests /\ u \in Requests
    BY TurnsAreRequests
  <1>2. QED BY <1>1, RequestFrame

\* The request a turn starts asks for its decision, or finds it taken.
LEMMA StartDecisionKeepsDInv ==
  ASSUME DInv, IInv', NEW t \in Turns, StartDecision(t)
  PROVE  DInv'
  <1>1. /\ CallOK(t) /\ call[t] \in Call /\ call[t].pc = "found"
        /\ UNCHANGED <<send, action, decided>>
        /\ call' = [call EXCEPT ![t].pc = "deciding"]
    BY DEF DInv, DecisionTypeOK, StartDecision
  <1>2. /\ call' \in [Turns -> Call]
        /\ \A u \in Turns : u # t => call'[u] = call[u]
        /\ call'[t].pc = "deciding" /\ call'[t].a = call[t].a
        /\ call'[t].q = call[t].q /\ call'[t].decision = call[t].decision
    BY <1>1 DEF DInv, DecisionTypeOK, Call
  <1>3. ChangeStatus(t)
    <2>1. call[t].q \in Quotes /\ StatusFor(call[t].decision) \in Statuses
      BY <1>1 DEF CallOK, StatusFor, Statuses
    <2>2. QED BY <2>1 DEF StartDecision, ChangeStatus
  <1>4. t \in Requests /\ req \in [Requests -> Request]
    BY TurnsAreRequests DEF DInv, IInv, TypeOK
  <1>5. UNCHANGED quote
    BY DEF StartDecision, CheckChange, CheckApprovedAgain, Checked
  <1>6. DecidingOK(t)'
    <2>1. ASSUME NEW enabled \in ApprovalModes,
                 CheckChange(t, call[t].q, StatusFor(call[t].decision), enabled)
          PROVE  DecidingOK(t)'
      <3>1. TargetStatus(StatusFor(call[t].decision), enabled) = StatusFor(call[t].decision)
        BY DEF TargetStatus, StatusFor
      <3>2. req'[t] = [Idle EXCEPT !.pc = "checked", !.op = "CHANGE", !.q = call[t].q,
                         !.target = StatusFor(call[t].decision)]
        BY <1>4, <2>1, <3>1 DEF CheckChange, Checked
      <3>3. req'[t].pc = "checked" /\ Asks(t)'
        BY <1>2, <3>2 DEF Asks, Idle, StatusFor
      <3>4. QED BY <3>3 DEF DecidingOK
    <2>2. ASSUME call[t].decision = "ACCEPT_QUOTE", CheckApprovedAgain(t, call[t].q)
          PROVE  DecidingOK(t)'
      <3>1. req'[t] = [Idle EXCEPT !.pc = "ensure", !.op = "CHANGE", !.q = call[t].q,
                         !.target = "APPROVED", !.buys = quote[call[t].q].content = "TO_PURCHASE"]
        BY <1>4, <2>2 DEF CheckApprovedAgain, Checked
      <3>2. req'[t].pc = "ensure" /\ Asks(t)'
        BY <1>2, <2>2, <3>1 DEF Asks, Idle, StatusFor
      <3>3. quote[call[t].q].status = StatusFor(call[t].decision)
        BY <2>2 DEF CheckApprovedAgain, StatusFor
      <3>4. Had(t)'
        BY <1>1, <1>2, <3>3 DEF CallOK, DInv, DecidedComplete, Had
      <3>5. QED BY <3>2, <3>4 DEF DecidingOK
    <2>3. QED BY <2>1, <2>2 DEF StartDecision
  <1>7. Cites(t)'
    BY <1>1, <1>2 DEF CallOK, Cites
  <1>8. WasSent(call[t].q)'
    BY <1>1, <1>2 DEF CallOK, WasSent
  <1>9. CallOK(t)'
    BY <1>1, <1>2, <1>6, <1>7, <1>8 DEF CallOK
  <1>10. Kept
    BY <1>1 DEF Kept, WasSent
  <1>11. DecidedComplete' /\ decided' \subseteq Quotes \X Answers
    BY <1>1, <1>5 DEF DInv, DecidedComplete, DecisionTypeOK
  <1>12. \A u \in Turns : u # t => req'[u] = req[u]
    BY <1>3, OthersKept DEF DInv, IInv
  <1>13. QED BY <1>1, <1>2, <1>9, <1>10, <1>11, <1>12, RequestStepKeepsDInv

\* What the request of a turn that decides may do to the quotes.
LEMMA DecideEffect ==
  ASSUME DInv, NEW t \in Turns, Decide(t)
  PROVE  \/ /\ quote'[call[t].q].status = StatusFor(call[t].decision)
            /\ \A s \in Quotes : s # call[t].q => quote'[s] = quote[s]
            /\ req'[t].pc = "idle" \/ (req'[t].pc = "ensure" /\ Asks(t)')
         \/ UNCHANGED quote /\ Had(t) /\ req'[t].pc = "idle"
  <1>1. /\ CallOK(t) /\ call[t].pc = "deciding" /\ UNCHANGED call
        /\ t \in Requests /\ req \in [Requests -> Request]
    BY TurnsAreRequests DEF DInv, IInv, TypeOK, Decide
  <1>2. call[t].q \in Quotes /\ DecidingOK(t)
    BY <1>1 DEF CallOK
  <1>3. CASE CommitChange(t)
    <2>1. Asks(t)
      BY <1>2, <1>3 DEF CommitChange, At, DecidingOK
    <2>2. req[t].q = call[t].q /\ req[t].target = StatusFor(call[t].decision)
          /\ req[t].target # "QUOTED"
      BY <2>1 DEF Asks, StatusFor
    <2>3. quote' = [s \in Quotes |->
                      IF s = call[t].q
                      THEN [quote[s] EXCEPT !.status = StatusFor(call[t].decision)]
                      ELSE quote[s]]
      BY <1>3, <2>2 DEF CommitChange
    <2>4. quote[call[t].q] \in QuoteRow
      BY <1>2 DEF DInv, IInv, TypeOK
    <2>5. /\ quote'[call[t].q].status = StatusFor(call[t].decision)
          /\ \A s \in Quotes : s # call[t].q => quote'[s] = quote[s]
      BY <1>2, <2>3, <2>4 DEF QuoteRow
    <2>6. req'[t].pc = "idle" \/ (req'[t].pc = "ensure" /\ Asks(t)')
      <3>1. CASE Finish(t)
        BY <1>1, <3>1 DEF Finish, Idle
      <3>2. CASE req' = [req EXCEPT ![t].pc = "ensure",
                                    ![t].buys = quote[call[t].q].content = "TO_PURCHASE"]
        <4>1. /\ req'[t].pc = "ensure" /\ req'[t].op = req[t].op
              /\ req'[t].q = req[t].q /\ req'[t].target = req[t].target
          BY <1>1, <3>2 DEF Request
        <4>2. QED BY <1>1, <2>1, <4>1 DEF Asks
      <3>3. QED BY <1>3, <2>2, <3>1, <3>2 DEF CommitChange
    <2>7. QED BY <2>5, <2>6
  <1>4. CASE EnsureRequisition(t)
    <2>1. Had(t)
      BY <1>2, <1>4 DEF EnsureRequisition, DecidingOK
    <2>2. QED BY <1>1, <1>4, <2>1 DEF EnsureRequisition, Finish, Idle
  <1>5. QED BY <1>3, <1>4 DEF Decide

LEMMA DecideKeepsDInv ==
  ASSUME DInv, IInv', NEW t \in Turns, Decide(t)
  PROVE  DInv'
  <1>1. /\ CallOK(t) /\ call[t].pc = "deciding"
        /\ UNCHANGED <<send, action, call>> /\ decided' = Decided
        /\ ChangeStatus(t)
    BY DEF DInv, Decide, ChangeStatus
  <1>2. decided \subseteq decided' /\ decided' \subseteq Quotes \X Answers /\ DecidedComplete'
    BY <1>1, DecidedGrows DEF DInv
  <1>3. Kept
    BY <1>1, <1>2 DEF Kept, WasSent
  <1>4. Had(t)'
    <2>1. CASE quote'[call[t].q].status = StatusFor(call[t].decision)
      BY <1>1, <1>2, <2>1 DEF CallOK, DecidedComplete, Had
    <2>2. CASE Had(t)
      BY <1>1, <1>2, <2>2 DEF Had
    <2>3. QED BY <2>1, <2>2, DecideEffect
  <1>5. DecidingOK(t)'
    BY <1>4, DecideEffect DEF DecidingOK
  <1>6. Cites(t)' /\ WasSent(call[t].q)'
    BY <1>1 DEF CallOK, Cites, WasSent
  <1>7. CallOK(t)'
    BY <1>1, <1>5, <1>6 DEF CallOK
  <1>8. \A u \in Turns : u # t => req'[u] = req[u]
    BY <1>1, OthersKept DEF DInv, IInv
  <1>9. call' \in [Turns -> Call]
    BY <1>1 DEF DInv, DecisionTypeOK
  <1>10. QED BY <1>1, <1>2, <1>3, <1>7, <1>8, <1>9, RequestStepKeepsDInv

LEMMA StopCallKeepsDInv ==
  ASSUME DInv, IInv', NEW t \in Turns, StopCall(t)
  PROVE  DInv'
  <1>1. /\ UNCHANGED <<send, action, decided, quote>>
        /\ call' = [call EXCEPT ![t] = NoCall]
    BY DEF StopCall, Stop, vars
  <1>2. /\ call' \in [Turns -> Call] /\ call'[t] = NoCall
        /\ \A u \in Turns : u # t => call'[u] = call[u]
    BY <1>1 DEF DInv, DecisionTypeOK, NoCall, Call, Ids, Decisions
  <1>3. t \in Requests /\ req \in [Requests -> Request]
    BY TurnsAreRequests DEF DInv, IInv, TypeOK
  <1>4. req'[t].pc = "idle" /\ \A u \in Turns : u # t => req'[u] = req[u]
    <2>1. CASE req[t].pc = "idle"
      BY <2>1 DEF StopCall, vars
    <2>2. CASE req[t].pc # "idle"
      <3>1. Stop(t)
        BY <2>2 DEF StopCall
      <3>2. req'[t].pc = "idle"
        BY <1>3, <3>1 DEF Stop, Finish, Idle
      <3>3. QED BY <3>1, <3>2, OthersKept DEF DInv, IInv
    <2>3. QED BY <2>1, <2>2
  <1>5. CallOK(t)'
    BY <1>2, <1>4 DEF CallOK, NoCall
  <1>6. Kept
    BY <1>1 DEF Kept, WasSent
  <1>7. DecidedComplete' /\ decided' \subseteq Quotes \X Answers
    BY <1>1 DEF DInv, DecidedComplete, DecisionTypeOK
  <1>8. QED BY <1>1, <1>2, <1>4, <1>5, <1>6, <1>7, RequestStepKeepsDInv

LEMMA PassDeadlineKeepsDInv ==
  ASSUME DInv, IInv', NEW a \in Actions, PassDeadline(a)
  PROVE  DInv'
  <1>1. UNCHANGED <<vars, send, call, decided>>
        /\ action[a].status = "PENDING" /\ action \in [Actions -> ActionRow]
        /\ action' = [action EXCEPT ![a].status = "CLOSED"]
    BY DEF PassDeadline, DInv, DecisionTypeOK
  <1>2. action' \in [Actions -> ActionRow] /\ Kept
    BY <1>1 DEF ActionRow, Kept, WasSent
  <1>3. \A b \in Actions : action'[b].status = "EXECUTED" => action[b].status = "EXECUTED"
    BY <1>1 DEF ActionRow
  <1>4. ExecutedWasDecided'
    BY <1>2, <1>3, ExecutedKept DEF DInv
  <1>5. \A t \in Turns : CallOK(t)'
    BY <1>1, <1>2, CallKept DEF DInv, vars
  <1>6. \A m \in Sends : SendOK(m)'
    BY <1>1 DEF DInv, SendOK
  <1>7. DecisionTypeOK' /\ DecidedComplete'
    BY <1>1, <1>2 DEF DInv, DecisionTypeOK, DecidedComplete, vars
  <1>8. QED BY <1>4, <1>5, <1>6, <1>7 DEF DInv
-----------------------------------------------------------------------------
LEMMA InitEstablishesDInv == DecisionInit => DInv
  <1> SUFFICES ASSUME DecisionInit PROVE DInv
    OBVIOUS
  <1>1. IInv
    BY InitEstablishesIInv DEF DecisionInit
  <1>2. DecisionTypeOK
    BY DEF DecisionInit, DecisionTypeOK, SendRow, UnusedSend, DeliveryStatuses, ActionRow,
           AbsentAction, Call, NoCall, Ids, Decisions
  <1>3. \A t \in Turns : CallOK(t)
    BY TurnsAreRequests DEF DecisionInit, CallOK, NoCall, Init, Idle
  <1>4. \A m \in Sends : SendOK(m)
    BY DEF DecisionInit, SendOK, UnusedSend
  <1>5. DecidedComplete
    BY DEF DecisionInit, DecidedComplete, Init, AbsentRow, StatusFor
  <1>6. ExecutedWasDecided
    BY DEF DecisionInit, ExecutedWasDecided, AbsentAction
  <1>7. QED BY <1>1, <1>2, <1>3, <1>4, <1>5, <1>6 DEF DInv

LEMMA StepKeepsDInv == DInv /\ [DecisionNext]_allVars => DInv'
  <1> SUFFICES ASSUME DInv, [DecisionNext]_allVars PROVE DInv'
    OBVIOUS
  <1>1. IInv'
    BY StepImplements, StepKeepsIInv DEF DInv
  <1>2. CASE UNCHANGED allVars
    <2>1. UNCHANGED <<vars, send, action, call, decided>>
      BY <1>2 DEF allVars, decisionVars
    <2>2. DecisionTypeOK' /\ DecidedComplete' /\ ExecutedWasDecided'
      BY <2>1 DEF DInv, DecisionTypeOK, DecidedComplete, ExecutedWasDecided, vars
    <2>3. Kept
      BY <2>1 DEF Kept, WasSent
    <2>4. \A t \in Turns : CallOK(t)'
      BY <2>1, <2>3, CallKept DEF DInv, vars
    <2>5. \A m \in Sends : SendOK(m)'
      BY <2>1 DEF DInv, SendOK
    <2>6. QED BY <1>1, <2>2, <2>4, <2>5 DEF DInv
  <1>3. CASE StaffStep
    BY <1>1, <1>3, StaffKeepsDInv
  <1>4. ASSUME NEW m \in Sends, Deliver(m)
        PROVE  DInv'
    BY <1>1, <1>4, DeliverKeepsDInv
  <1>5. ASSUME NEW t \in Turns, TurnStep(t)
        PROVE  DInv'
    <2>1. Tool(t) \/ StartDecision(t) \/ Decide(t) \/ StopCall(t)
      BY <1>5 DEF TurnStep, Tool
    <2>2. QED
      BY <1>1, <2>1, ToolKeepsDInv, StartDecisionKeepsDInv, DecideKeepsDInv, StopCallKeepsDInv
  <1>6. ASSUME NEW a \in Actions, PassDeadline(a)
        PROVE  DInv'
    BY <1>1, <1>6, PassDeadlineKeepsDInv
  <1>7. QED BY <1>2, <1>3, <1>4, <1>5, <1>6 DEF DecisionNext

THEOREM DecisionInvariance == DecisionSpec => []DInv
  <1>1. QED
    BY InitEstablishesDInv, StepKeepsDInv, PTL DEF DecisionSpec

\* With deliveries, callbacks and the assistant's tools beside the staff, the
\* quotes still live as QuoteLifecycle says: all its theorems hold here too.
THEOREM ImplementsLifecycle == DecisionSpec => Spec
  <1>1. DecisionInit => Init
    BY DEF DecisionInit
  <1>2. DInv /\ [DecisionNext]_allVars => [Next]_vars
    BY StepImplements
  <1>3. QED
    BY <1>1, <1>2, DecisionInvariance, PTL DEF DecisionSpec, Spec

\* Deliveries, actions and tool calls keep the shape of their tables.
THEOREM DecisionTypeCorrect == DecisionSpec => []DecisionTypeOK
  <1>1. DInv => DecisionTypeOK
    BY DEF DInv
  <1>2. QED BY <1>1, DecisionInvariance, PTL

\* Whatever fails between the decision and markActionExecuted, an executed
\* action is one whose quote was decided as it says.
THEOREM ExecutedAfterDecision == DecisionSpec => []ExecutedWasDecided
  <1>1. DInv => ExecutedWasDecided
    BY DEF DInv
  <1>2. QED BY <1>1, DecisionInvariance, PTL

\* For any number of deliveries of a quote, whatever step of one fails and in
\* any order of the callbacks: while Twilio has not reported the message as
\* failed, its recorded attempt keeps the quote visible to the phone.
THEOREM DeliveriesStayVisible == DecisionSpec => []DeliveryStaysVisible
  <1>1. DInv => DeliveryStaysVisible
    <2> SUFFICES ASSUME DInv, NEW m \in Sends, send[m].provider = "SENT",
                        send[m].attempt # "ABSENT", send[m].toPhone
                 PROVE  DeliveredToPhone(send[m].q)
      BY DEF DeliveryStaysVisible
    <2>1. send[m].attempt \notin {"ABSENT", "FAILED"}
      BY DEF DInv, SendOK
    <2>2. QED BY <2>1 DEF DeliveredToPhone
  <1>2. QED BY <1>1, DecisionInvariance, PTL
-----------------------------------------------------------------------------
(* The decisions of the assistant.                                         *)

\* Only the step that decides moves a turn's request and a quote together.
LEMMA OnlyDecideDecides ==
  ASSUME DInv, DecisionNext, NEW t \in Turns, NEW q \in Quotes, DecidesNow(t, q)
  PROVE  Decide(t)
  <1>1. req'[t] # req[t] /\ quote'[q].status # quote[q].status
    BY DEF DecidesNow
  <1>2. ~StaffStep
    BY <1>1, StaffKeepsRequests DEF DInv, IInv
  <1>3. ~\E m \in Sends : Deliver(m)
    BY <1>1, DeliverKeepsQuotes DEF vars
  <1>4. ~\E a \in Actions : PassDeadline(a)
    BY <1>1 DEF PassDeadline, vars
  <1>5. PICK u \in Turns : TurnStep(u)
    BY <1>2, <1>3, <1>4 DEF DecisionNext
  <1>6. ~Tool(u)
    BY <1>1, ToolKeepsQuotes DEF vars
  <1>7. ~StartDecision(u) /\ ~StopCall(u)
    BY <1>1 DEF StartDecision, CheckChange, CheckApprovedAgain, Checked, StopCall, Stop, vars
  <1>8. Decide(u)
    BY <1>5, <1>6, <1>7 DEF TurnStep, Tool
  <1>9. u = t
    <2>1. ChangeStatus(u)
      BY <1>8 DEF Decide, ChangeStatus
    <2>2. QED BY <1>1, <2>1, OthersKept DEF DInv, IInv
  <1>10. QED BY <1>8, <1>9

LEMMA DecisionGrounded ==
  ASSUME DInv, DecisionNext, NEW t \in Turns, NEW q \in Quotes, DecidesNow(t, q)
  PROVE  /\ q = call[t].q /\ Cites(t) /\ WasSent(q)
         /\ quote'[q].status = StatusFor(call[t].decision)
  <1>1. Decide(t) /\ quote'[q] # quote[q]
    BY OnlyDecideDecides DEF DecidesNow
  <1>2. q = call[t].q /\ quote'[q].status = StatusFor(call[t].decision)
    BY <1>1, DecideEffect
  <1>3. CallOK(t) /\ call[t].pc = "deciding"
    BY <1>1 DEF DInv, Decide
  <1>4. QED BY <1>2, <1>3 DEF CallOK

Confirmed ==
  \A t \in Turns, q \in Quotes : DecidesNow(t, q) =>
    \E a \in Actions : /\ action[a].q = q /\ action[a].turn # t
                       /\ StatusFor(action[a].decision) = quote'[q].status

\* For any number of turns and actions, and whatever the turns of the staff do
\* meanwhile: a turn decides a quote only as another turn prepared it.
THEOREM ConfirmedDecisions == DecisionSpec => DecisionWasConfirmed
  <1>1. DInv /\ [DecisionNext]_allVars => [Confirmed]_allVars
    <2>1. ASSUME DInv, DecisionNext PROVE Confirmed
      BY <2>1, DecisionGrounded DEF Confirmed, Cites
    <2>2. QED BY <2>1
  <1>2. QED
    BY <1>1, DecisionInvariance, PTL DEF DecisionSpec, DecisionWasConfirmed, Confirmed

Sent ==
  \A t \in Turns, q \in Quotes : DecidesNow(t, q) =>
    \E m \in Sends : send[m].q = q /\ send[m].toPhone /\ send[m].provider # "NONE"

\* ... and only a version that was sent to the phone of the conversation.
THEOREM SentDecisions == DecisionSpec => DecidedWasSent
  <1>1. DInv /\ [DecisionNext]_allVars => [Sent]_allVars
    <2>1. ASSUME DInv, DecisionNext PROVE Sent
      BY <2>1, DecisionGrounded DEF Sent, WasSent
    <2>2. QED BY <2>1
  <1>2. QED
    BY <1>1, DecisionInvariance, PTL DEF DecisionSpec, DecidedWasSent, Sent
=============================================================================
