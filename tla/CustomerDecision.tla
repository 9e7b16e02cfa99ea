-------------------------- MODULE CustomerDecision --------------------------
(***************************************************************************)
(* How a customer gets a quote by WhatsApp and answers it: the deliveries  *)
(* of send-quote-whatsapp, the status callbacks of Twilio, and the tools   *)
(* the assistant calls to accept or reject.  It extends QuoteLifecycle:    *)
(* a confirmed answer changes the status of the quote by the very requests *)
(* of that module, next to those of the staff.                             *)
(*                                                                         *)
(* One conversation, that is, one phone.  A turn of the assistant is a job *)
(* of its queue: two workers may run two turns at the same time, a retried *)
(* job is the same turn, and the AI platform may call any tool in it.      *)
(***************************************************************************)
EXTENDS QuoteLifecycle

CONSTANTS
  Turns,       \* jobs of the conversation; each may make requests of its own
  Sends,       \* deliveries of a quote, by a user of the system
  Phones,      \* do the deliveries go to the phone of the conversation?
  Answers,     \* the answers the customer gives
  MaxActions   \* bound: actions the assistant prepares

ASSUME DecisionAssumption ==
  /\ Turns \subseteq Requests
  /\ Phones \subseteq BOOLEAN
  /\ Answers \subseteq {"ACCEPT_QUOTE", "REJECT_QUOTE"}
  /\ MaxActions \in Nat
  /\ "CHANGE" \in Operations

VARIABLES
  send,     \* each delivery: its request, Twilio's message, its attempt rows
  action,   \* table whatsapp_pending_actions
  call,     \* the tool call each turn has in flight
  decided   \* history: which answers quotes have had, from anybody

decisionVars == <<send, action, call, decided>>
allVars == <<vars, decisionVars>>

Staff == Requests \ Turns
Actions == 1..MaxActions
-----------------------------------------------------------------------------
Decisions == {"ACCEPT_QUOTE", "REJECT_QUOTE"}

\* The status a decision asks for.
StatusFor(decision) == IF decision = "ACCEPT_QUOTE" THEN "APPROVED" ELSE "REJECTED"

\* SENT: QUEUED, SENT, DELIVERED or READ.  The tools tell FAILED from the others.
DeliveryStatuses == {"SENT", "FAILED"}

\* NONE: Twilio has no such message.  MANUAL: a user sent it by other means.
\* A delivery may leave two rows: "attempt", which carries the id of Twilio's
\* message, and "failure", which the catch of the use case writes without one.
SendRow == [pc: {"unused", "checked", "accepted", "recorded", "failed", "done"},
            q: Ids, toPhone: BOOLEAN,
            provider: {"NONE", "MANUAL"} \cup DeliveryStatuses,
            attempt: {"ABSENT"} \cup DeliveryStatuses,
            failure: {"ABSENT", "FAILED"},
            seen: DeliveryStatuses]

UnusedSend == [pc |-> "unused", q |-> NoQuote, toPhone |-> FALSE, provider |-> "NONE",
               attempt |-> "ABSENT", failure |-> "ABSENT", seen |-> "SENT"]

\* CLOSED: CANCELLED, EXPIRED, or PENDING with its expiresAt in the past.
ActionRow == [status: {"ABSENT", "PENDING", "CLOSED", "EXECUTED"},
              q: Ids, decision: Decisions, turn: Turns \cup {NoQuote}]

AbsentAction == [status |-> "ABSENT", q |-> NoQuote, decision |-> "ACCEPT_QUOTE",
                 turn |-> NoQuote]

NoCall == [pc |-> "idle", q |-> NoQuote, decision |-> "ACCEPT_QUOTE",
           seen |-> "NONE", a |-> 0, pending |-> {}]

Call == [pc: {"idle", "prepare", "preparing", "confirm", "found", "deciding", "applied"},
         q: Ids, decision: Decisions, seen: RowStatuses \cup {"NONE"},
         a: Actions \cup {0}, pending: SUBSET Actions]

DecisionInit ==
  /\ Init
  /\ send = [m \in Sends |-> UnusedSend]
  /\ action = [a \in Actions |-> AbsentAction]
  /\ call = [t \in Turns |-> NoCall]
  /\ decided = {}
-----------------------------------------------------------------------------
(* send-quote-whatsapp, register-quote-delivery-attempt and the callbacks. *)

SendStep(m, row) ==
  /\ send' = [send EXCEPT ![m] = row]
  /\ UNCHANGED <<vars, action, call, decided>>

Deliverable(q, statuses) ==
  /\ Exists(q)
  /\ ~quote[q].archived
  /\ quote[q].status \in statuses
  /\ ~RevisionInProgress(q)

CheckSend(m, q, toPhone) ==
  /\ send[m].pc = "unused"
  /\ Deliverable(q, {"QUOTED", "APPROVED"})
  /\ SendStep(m, [UnusedSend EXCEPT !.pc = "checked", !.q = q, !.toPhone = toPhone])

\* Twilio accepts the message and answers with its status of the moment.
AcceptSend(m, status) ==
  /\ send[m].pc = "checked"
  /\ SendStep(m, [send[m] EXCEPT !.pc = "accepted", !.provider = status, !.seen = status])

\* recordDeliveryAttempt.  Only a message that is on its way is polled.
RecordSend(m) ==
  /\ send[m].pc = "accepted"
  /\ SendStep(m, [send[m] EXCEPT !.attempt = send[m].seen, !.seen = "SENT",
                    !.pc = IF send[m].seen = "SENT" THEN "recorded" ELSE "done"])

\* What Twilio has told of the message, or will: each status it goes through, in
\* any order and more than once by callback, or the answer to an earlier poll.
Reported(m) ==
  CASE send[m].provider \in {"NONE", "MANUAL"} -> {}
    [] OTHER -> {"SENT", send[m].provider}

\* verifyDeliveryStatus: the last of up to three polls is written over the
\* status of the row, unless it is the status the message was sent with.
PollSend(m) ==
  /\ send[m].pc = "recorded"
  /\ \E status \in Reported(m) \cup {send[m].attempt} :
       SendStep(m, [send[m] EXCEPT !.pc = "done", !.attempt = status])

\* The try block throws: Twilio refuses or its answer is lost, the database
\* fails, now or after the message went out.
FailSend(m) ==
  /\ send[m].pc \in {"checked", "accepted", "recorded"}
  /\ \E status \in IF send[m].pc = "checked" THEN {"NONE"} \cup DeliveryStatuses
                   ELSE {send[m].provider} :
       SendStep(m, [send[m] EXCEPT !.pc = "failed", !.seen = "SENT", !.provider = status])

\* Faulty variant: the catch marks the attempt of the message FAILED.
RecordFailureOnAttempt(m) ==
  /\ send[m].pc = "failed"
  /\ SendStep(m, [send[m] EXCEPT !.pc = "done", !.attempt = "FAILED", !.failure = "FAILED"])

\* Faulty variant: the catch gives its row what Twilio says of the message.
RecordFailureAsReported(m) ==
  /\ send[m].pc = "failed"
  /\ SendStep(m, [send[m] EXCEPT !.pc = "done", !.failure = send[m].provider])

\* The catch records an attempt of its own, FAILED and without a message id,
\* whatever failed: no callback and no poll finds that row.
RecordFailure(m) ==
  /\ send[m].pc = "failed"
  /\ SendStep(m, [send[m] EXCEPT !.pc = "done", !.failure = "FAILED"])

\* That write fails too, silently, or the process is dead.
StopSend(m) ==
  /\ send[m].pc = "failed"
  /\ SendStep(m, [send[m] EXCEPT !.pc = "done"])

\* A user tells the system of a delivery made by other means.
RegisterAttempt(m, q, toPhone, status) ==
  /\ send[m].pc = "unused"
  /\ Deliverable(q, {"QUOTED", "APPROVED", "REJECTED"})
  /\ SendStep(m, [UnusedSend EXCEPT !.pc = "done", !.q = q, !.toPhone = toPhone,
                    !.provider = "MANUAL", !.attempt = status])

\* The message fails at Twilio, for good.
FailMessage(m) ==
  /\ send[m].provider = "SENT"
  /\ SendStep(m, [send[m] EXCEPT !.provider = "FAILED"])

\* update-whatsapp-delivery-status, by the id of the message: whatever its row
\* says, and nothing when the attempt is not recorded.
Callback(m, status) ==
  /\ status \in Reported(m)
  /\ send[m].attempt # "ABSENT"
  /\ SendStep(m, [send[m] EXCEPT !.attempt = status])

Deliver(m) ==
  \/ \E q \in Quotes, toPhone \in Phones : CheckSend(m, q, toPhone)
  \/ \E status \in DeliveryStatuses : AcceptSend(m, status)
  \/ RecordSend(m)
  \/ PollSend(m)
  \/ FailSend(m)
  \/ RecordFailure(m)
  \/ StopSend(m)
  \/ \E q \in Quotes, toPhone \in Phones, status \in DeliveryStatuses :
       RegisterAttempt(m, q, toPhone, status)
  \/ FailMessage(m)
  \/ \E status \in DeliveryStatuses : Callback(m, status)
-----------------------------------------------------------------------------
(* What the conversation may see.                                          *)

\* Some row of a delivery of q to this phone does not say FAILED.
DeliveredToPhone(q) ==
  \E m \in Sends : /\ send[m].q = q /\ send[m].toPhone
                   /\ {send[m].attempt, send[m].failure} \ {"ABSENT", "FAILED"} # {}

\* findAuthorizedQuote
Authorized(q) ==
  /\ Exists(q)
  /\ ~quote[q].archived
  /\ quote[q].status \in Live \cup {"SUPERSEDED"}
  /\ DeliveredToPhone(q)

Family(q) == {s \in Quotes : Exists(s) /\ ~quote[s].archived /\ RootOf(s) = RootOf(q)}

IsLatest(c, q) == c \in Family(q) /\ \A s \in Family(q) : quote[s].rev <= quote[c].rev

\* Faulty variant: the delivery of an older version stands for the latest.
CurrentByFamily(q, c) == Authorized(q) /\ IsLatest(c, q) /\ quote[c].status \in Live

\* findCurrentAuthorizedQuote: c is what the tools find under the folio of q.
\* Its queries follow one another; their results are those of one moment.
CurrentAuthorized(q, c) ==
  Authorized(q) /\ IsLatest(c, q) /\ quote[c].status \in Live /\ Authorized(c)
-----------------------------------------------------------------------------
(* The tools: prepare and confirm, an acceptance or a rejection.           *)

\* The bound on the actions leaves each preparation in flight room for its own.
Unprepared == {a \in Actions : action[a].status = "ABSENT"}
Preparing == {t \in Turns : call[t].pc \in {"prepare", "preparing"}}

CallStep(t, rec) ==
  /\ call' = [call EXCEPT ![t] = rec]
  /\ UNCHANGED <<vars, send, decided>>

\* requiredCurrentQuote of a prepare_... tool: nothing but QUOTED is decided.
CallPrepare(t, q, decision) ==
  /\ call[t].pc = "idle"
  /\ Cardinality(Unprepared) > Cardinality(Preparing)
  /\ \E c \in Quotes :
       /\ CurrentAuthorized(q, c)
       /\ quote[c].status = "QUOTED"
       /\ CallStep(t, [NoCall EXCEPT !.pc = "prepare", !.q = c, !.decision = decision])
  /\ UNCHANGED action

\* prepareAction, in one transaction: the UPDATE sees the pending actions
\* committed by then ...
ReadPending(t) ==
  /\ call[t].pc = "prepare"
  /\ CallStep(t, [call[t] EXCEPT !.pc = "preparing",
                    !.pending = {a \in Actions : action[a].status = "PENDING"}])
  /\ UNCHANGED action

\* ... and cancels those, beside the new one, at its commit.
CommitPrepare(t) ==
  /\ call[t].pc = "preparing"
  /\ \E a \in Actions :
       /\ a \in Unprepared
       /\ \A b \in Unprepared : a <= b
       /\ action' = [b \in Actions |->
            IF b = a
            THEN [status |-> "PENDING", q |-> call[t].q,
                  decision |-> call[t].decision, turn |-> t]
            ELSE IF b \in call[t].pending /\ action[b].status = "PENDING"
            THEN [action[b] EXCEPT !.status = "CLOSED"]
            ELSE action[b]]
  /\ CallStep(t, NoCall)

\* confirmationTtlMinutes after it was prepared.
PassDeadline(a) ==
  /\ action[a].status = "PENDING"
  /\ action' = [action EXCEPT ![a].status = "CLOSED"]
  /\ UNCHANGED <<vars, send, call, decided>>

\* requiredCurrentQuote of a confirm_... tool.  The status is kept for later: a
\* quote neither QUOTED nor decided that way already ends the call with an error.
CallConfirm(t, q, decision) ==
  /\ call[t].pc = "idle"
  /\ \E c \in Quotes :
       /\ CurrentAuthorized(q, c)
       /\ quote[c].status \in {"QUOTED", StatusFor(decision)}
       /\ CallStep(t, [NoCall EXCEPT !.pc = "confirm", !.q = c, !.decision = decision,
                                     !.seen = quote[c].status])
  /\ UNCHANGED action

\* Faulty variant: a turn confirms what it prepared itself.
ConfirmableInSameTurn(t, a) ==
  /\ action[a].status = "PENDING"
  /\ action[a].q = call[t].q /\ action[a].decision = call[t].decision

\* The WHERE of findPendingAction.
Confirmable(t, a) ==
  /\ action[a].status = "PENDING"
  /\ action[a].q = call[t].q
  /\ action[a].decision = call[t].decision
  /\ action[a].turn # t

\* findPendingAction takes the newest; a call that finds none ends (StopCall).
FindPending(t) ==
  LET found == {a \in Actions : Confirmable(t, a)} IN
  /\ call[t].pc = "confirm"
  /\ \E a \in found :
       /\ \A b \in found : b <= a
       /\ CallStep(t, [call[t] EXCEPT !.a = a, !.seen = "NONE",
                         !.pc = IF call[t].seen = "QUOTED" THEN "found" ELSE "applied"])
  /\ UNCHANGED action

\* changeQuoteStatus.execute of the confirmation, by the turn itself.
StartDecision(t) ==
  /\ call[t].pc = "found"
  /\ \/ \E enabled \in ApprovalModes :
          CheckChange(t, call[t].q, StatusFor(call[t].decision), enabled)
     \/ call[t].decision = "ACCEPT_QUOTE" /\ CheckApprovedAgain(t, call[t].q)
  /\ call' = [call EXCEPT ![t].pc = "deciding"]
  /\ UNCHANGED <<send, action, decided>>

\* The decisions among the statuses a step gives to quotes.
Decided ==
  decided \cup {w \in Quotes \X Answers : quote'[w[1]].status = StatusFor(w[2])}

Decide(t) ==
  /\ call[t].pc = "deciding"
  /\ CommitChange(t) \/ EnsureRequisition(t)
  /\ decided' = Decided
  /\ UNCHANGED <<send, action, call>>

\* Faulty variant: the action is marked before the quote is decided.
MayMarkBefore(t) == call[t].pc \in {"found", "deciding", "applied"}

\* The request of the status change has returned, or there was none to make.
MayMark(t) == call[t].pc = "applied" \/ (call[t].pc = "deciding" /\ req[t].pc = "idle")

\* markActionExecuted: by id, whatever became of the action.
MarkExecuted(t) ==
  /\ MayMark(t)
  /\ action' = [action EXCEPT ![call[t].a].status = "EXECUTED"]
  /\ CallStep(t, NoCall)

\* A tool answers with an error, throws, or the process dies in it.
StopCall(t) ==
  /\ call[t].pc # "idle"
  /\ call' = [call EXCEPT ![t] = NoCall]
  /\ IF req[t].pc = "idle" THEN UNCHANGED vars ELSE Stop(t)
  /\ UNCHANGED <<send, action, decided>>

TurnStep(t) ==
  \/ \E q \in Quotes, decision \in Answers :
       CallPrepare(t, q, decision) \/ CallConfirm(t, q, decision)
  \/ ReadPending(t)
  \/ CommitPrepare(t)
  \/ FindPending(t)
  \/ StartDecision(t)
  \/ Decide(t)
  \/ MarkExecuted(t)
  \/ StopCall(t)
-----------------------------------------------------------------------------
\* The quotes as users and purchasing change them.
StaffStep ==
  /\ \/ NewQuote
     \/ \E r \in Staff :
          \/ Save(r) \/ Edit(r) \/ ChangeStatus(r) \/ Revise(r) \/ GenerateOrder(r)
          \/ RegisterErp(r) \/ Administer(r) \/ Purchasing(r) \/ Stop(r)
  /\ decided' = Decided
  /\ UNCHANGED <<send, action, call>>

DecisionNext ==
  \/ StaffStep
  \/ \E m \in Sends : Deliver(m)
  \/ \E t \in Turns : TurnStep(t)
  \/ \E a \in Actions : PassDeadline(a)

DecisionSpec == DecisionInit /\ [][DecisionNext]_allVars
-----------------------------------------------------------------------------
(* Properties.                                                             *)

\* Deliveries, actions and tool calls have the shape of their tables.
DecisionTypeOK ==
  /\ send \in [Sends -> SendRow]
  /\ action \in [Actions -> ActionRow]
  /\ call \in [Turns -> Call]
  /\ decided \subseteq Quotes \X Answers

\* An action says EXECUTED only when its quote was decided as it asked: a turn
\* that fails between the two leaves the action to be confirmed again, never
\* an executed action nothing was done for (confirmAcceptance, confirmRejection).
ExecutedWasDecided ==
  \A a \in Actions :
    action[a].status = "EXECUTED" => <<action[a].q, action[a].decision>> \in decided

\* The step is one of turn t's request, and changes the status of quote q.
DecidesNow(t, q) == req'[t] # req[t] /\ quote'[q].status # quote[q].status

\* "acceptance requires a later WhatsApp turn before changing status": the
\* assistant decides a quote only as another turn prepared it, that very
\* version and that very decision, whatever runs beside it.
DecisionWasConfirmed ==
  [][\A t \in Turns, q \in Quotes : DecidesNow(t, q) =>
       \E a \in Actions : /\ action[a].q = q /\ action[a].turn # t
                          /\ StatusFor(action[a].decision) = quote'[q].status]_allVars

\* "The current revision must have been delivered to this same WhatsApp
\* number": the version the assistant decides is one this phone was sent.
DecidedWasSent ==
  [][\A t \in Turns, q \in Quotes : DecidesNow(t, q) =>
       \E m \in Sends : send[m].q = q /\ send[m].toPhone /\ send[m].provider # "NONE"]_allVars

\* A message Twilio has not reported as failed, once its attempt is recorded,
\* keeps its quote visible to the phone: neither the FAILED row of a send that
\* failed later (the catch of send-quote-whatsapp), nor another delivery, a late
\* poll or a repeated callback takes the quote away from who received it.
DeliveryStaysVisible ==
  \A m \in Sends :
    send[m].provider = "SENT" /\ send[m].attempt # "ABSENT" /\ send[m].toPhone =>
      DeliveredToPhone(send[m].q)
=============================================================================
