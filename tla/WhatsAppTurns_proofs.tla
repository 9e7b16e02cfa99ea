------------------------- MODULE WhatsAppTurns_proofs -------------------------
(***************************************************************************)
(* Proofs that no job is ever in the hands of two workers, no message is   *)
(* answered twice unless the record of the first answer was lost, and what *)
(* was answered and recorded is over: for any number of workers, users,    *)
(* conversations and messages, for every conversation where no late        *)
(* takeover brought back a control that had ended.                         *)
(*                                                                         *)
(* The only hypothesis is about the settings: a turn and a request to the  *)
(* database together are shorter than the times of a human control.        *)
(***************************************************************************)
EXTENDS WhatsAppAssistant_proofs

\* A turn ends before its claim is stale, and before any lease that may be
\* stored during it expires, even by a request that began before the turn.
PromptTurns ==
  /\ TurnTimeout <= LockTimeout
  /\ \A n \in {Lease, Grace, MaxControl} : TurnTimeout + RequestDelay < n

Human(c) == conversation[c].mode = "HUMAN"

\* Only messages that were received have jobs or media being captured, only
\* jobs of conversations of the assistant are claimed, and control has begun.
RowsOK ==
  /\ \A m \in Messages :
       /\ job[m].status # "NONE" \/ inbound[m].capture # "none" =>
            inbound[m].conv \in Conversations
       /\ job[m].status = "PROCESSING" =>
            job[m].lockedAt \in Times /\ ~Human(inbound[m].conv)
  /\ \A c \in Conversations : Human(c) => conversation[c].handledAt <= clock

\* A takeover about to be stored was read a moment ago, and starts then or goes
\* on from an earlier start.
Taking(rec) ==
  /\ rec.at <= clock /\ clock <= rec.at + RequestDelay
  /\ rec.startsAt <= rec.at
  /\ rec.expiresAt = MinOf(rec.at + Lease, rec.startsAt + MaxControl)

\* A user who answers began to after the control that user may still have.
Replying(u, rec) ==
  /\ rec.at <= clock
  /\ HasControl(u, rec.conv) =>
       /\ conversation[rec.conv].handledAt <= rec.at
       /\ rec.pc = "renew" => rec.expiresAt =
            MinOf(rec.at + Lease, conversation[rec.conv].handledAt + MaxControl)

UserKnows(u, rec) ==
  /\ rec.pc = "take" => Taking(rec)
  /\ rec.pc \in {"send", "record", "readRenew", "renew"} => Replying(u, rec)

UsersOK == \A u \in Users : UserKnows(u, user[u])

\* What a worker read of the controls to release and of the job to claim.
Found(rec) ==
  /\ rec.pc = "release" => rec.at <= clock
  /\ rec.pc = "claim" =>
       /\ rec.msg \in Messages
       /\ rec.seen \in {"PENDING", "PROCESSING"}
       /\ rec.seen = "PROCESSING" =>
            rec.seenLock \in Times /\ rec.seenLock < clock - LockTimeout

\* A job in a turn that began at that time is still claimed by it, or was
\* cancelled for a control that outlasts the turn.
InHand(m, at) ==
  \/ job[m].status = "PROCESSING" /\ job[m].lockedAt = at
  \/ /\ job[m].status = "CANCELLED"
     /\ Human(inbound[m].conv) =>
          /\ conversation[inbound[m].conv].handledAt + RequestDelay >= at
          /\ conversation[inbound[m].conv].expiresAt > at + TurnTimeout

Turn(rec) ==
  /\ rec.msg \in Messages /\ inbound[rec.msg].conv \in Conversations
  /\ rec.at <= clock /\ clock <= rec.at + TurnTimeout
  /\ InHand(rec.msg, rec.at) \/ Revived(rec.msg)

WorkersOK ==
  /\ \A w \in Workers : Found(worker[w])
  /\ \A w \in Workers : Holding(w) => Turn(worker[w])

\* The answers whose record was not lost are recorded, or about to be.
Answers(m) ==
  \/ replies[m] <= unrecorded[m]
  \/ /\ replies[m] = 1 + unrecorded[m]
     /\ \/ job[m].status = "COMPLETED"
        \/ \E w \in Workers : worker[w].pc = "complete" /\ worker[w].msg = m

AnswersOK == \A m \in Messages : Answers(m) \/ Revived(m)

TInv == RowsOK /\ UsersOK /\ WorkersOK /\ OneWorkerPerJob /\ AnswersOK
-----------------------------------------------------------------------------
(* What a step that leaves a part of the state alone keeps.                *)

LEMMA SettingsAreNat ==
  {Lease, Grace, MaxControl, LockTimeout, TurnTimeout, RequestDelay} \subseteq Nat
  BY ConstantsAssumption

\* A record of a worker that is in a turn: Holding, of the record.
InTurn(rec) == rec.pc \in {"respond", "check", "cancel", "send", "complete", "fail"}

LEMMA RowsStand ==
  ASSUME RowsOK, UNCHANGED <<clock, revived, conversation, inbound, job>>
  PROVE  RowsOK'
  BY DEF RowsOK, Human

\* A message stays in its conversation, and a conversation among the revived.
MessagesStand ==
  /\ revived \subseteq revived'
  /\ \A m \in Messages :
       inbound[m].conv \in Conversations => inbound'[m].conv = inbound[m].conv

LEMMA RevivedStands ==
  ASSUME IInv, MessagesStand, NEW m \in Messages, Revived(m)
  PROVE  Revived(m)'
  BY DEF IInv, TypeOK, MessagesStand, Revived

\* What a worker holds is neither answered and recorded nor in other hands.
LEMMA HeldIsOpen ==
  ASSUME TInv, NEW w \in Workers, Holding(w)
  PROVE  /\ worker[w].msg \in Messages
         /\ inbound[worker[w].msg].conv \in Conversations
         /\ Revived(worker[w].msg) \/
              /\ job[worker[w].msg].status \in {"PROCESSING", "CANCELLED"}
              /\ \A v \in Workers : Holding(v) /\ worker[v].msg = worker[w].msg => v = w
  BY DEF TInv, WorkersOK, Turn, InHand, OneWorkerPerJob

\* The request of a user who does not move, and whose conversation nobody writes.
LEMMA UserStands ==
  ASSUME TInv, NEW u \in Users, user'[u] = user[u], UNCHANGED clock,
         user[u].pc # "idle" => conversation'[user[u].conv] = conversation[user[u].conv]
  PROVE  UserKnows(u, user[u])'
  BY DEF TInv, UsersOK, UserKnows, Taking, Replying, HasControl

LEMMA UsersStand ==
  ASSUME TInv, UNCHANGED <<clock, revived, conversation, user>>
  PROVE  UsersOK'
  BY UserStands DEF UsersOK

\* The jobs in hand stay in hand.
InHandStands ==
  \A m \in Messages, t \in Nat :
    /\ inbound[m].conv \in Conversations /\ ~Revived(m)'
    /\ InHand(m, t) /\ t <= clock /\ clock <= t + TurnTimeout
    => InHand(m, t)'

LEMMA WorkersStand ==
  ASSUME IInv, WorkersOK, OneWorkerPerJob, InHandStands, MessagesStand,
         UNCHANGED <<clock, worker>>
  PROVE  WorkersOK' /\ OneWorkerPerJob'
  <1>1. OneWorkerPerJob'
    <2> SUFFICES ASSUME NEW v \in Workers, NEW w \in Workers, Holding(v), Holding(w),
                        worker[v].msg = worker[w].msg
                 PROVE  v = w \/ Revived(worker[v].msg)'
      BY DEF OneWorkerPerJob, Holding, Revived
    <2>1. worker[v].msg \in Messages /\ (v = w \/ Revived(worker[v].msg))
      BY DEF OneWorkerPerJob, WorkersOK, Turn
    <2>2. QED BY <2>1, RevivedStands
  <1>2. \A w \in Workers : Found(worker[w])'
    BY DEF WorkersOK, Found
  <1>3. ASSUME NEW w \in Workers, Holding(w)'
        PROVE  Turn(worker[w])'
    <2> DEFINE m == worker[w].msg
    <2>1. Turn(worker[w]) /\ worker[w].at \in Nat /\ m \in Messages
      BY <1>3 DEF WorkersOK, Turn, Holding, IInv, TypeOK, WorkerState, Times
    <2>2. Revived(m) => Revived(m)'
      BY <2>1, RevivedStands
    <2>3. InHand(m, worker[w].at)' \/ Revived(m)'
      BY <2>1, <2>2 DEF Turn, InHandStands
    <2>4. inbound'[m].conv \in Conversations
      BY <2>1 DEF Turn, MessagesStand
    <2>5. QED BY <2>1, <2>3, <2>4 DEF Turn, Revived
  <1>4. QED BY <1>1, <1>2, <1>3 DEF WorkersOK

LEMMA AnswersStand ==
  ASSUME IInv, AnswersOK, MessagesStand, UNCHANGED <<worker, replies, unrecorded>>,
         \A m \in Messages :
           job[m].status = "COMPLETED" => job'[m].status = "COMPLETED" \/ Revived(m)
  PROVE  AnswersOK'
  <1> SUFFICES ASSUME NEW m \in Messages, ~Revived(m)'
               PROVE  Answers(m)'
    BY DEF AnswersOK
  <1>1. ~Revived(m)
    BY RevivedStands
  <1>2. QED BY <1>1 DEF AnswersOK, Answers

\* A worker moves on alone; if it is in a turn then it was in it before.
LEMMA WorkerMovesOn ==
  ASSUME IInv, TInv, NEW w \in Workers, NEW rec, Found(rec),
         InTurn(rec) => Holding(w) /\ rec.msg = worker[w].msg /\ rec.at = worker[w].at,
         worker' = [worker EXCEPT ![w] = rec], UNCHANGED <<clock, revived, tables, user>>
  PROVE  RowsOK' /\ UsersOK' /\ WorkersOK' /\ OneWorkerPerJob'
  <1>1. RowsOK'
    BY RowsStand DEF TInv, tables
  <1>2. \A v \in Workers : worker'[v] = IF v = w THEN rec ELSE worker[v]
    BY DEF IInv, TypeOK
  <1>3. \A v \in Workers : Holding(v)' => /\ Holding(v)
                                         /\ worker'[v].msg = worker[v].msg
                                         /\ worker'[v].at = worker[v].at
    BY <1>2 DEF Holding, InTurn
  <1>4. OneWorkerPerJob'
    BY <1>3 DEF TInv, OneWorkerPerJob, Revived, tables
  <1>5. \A v \in Workers : Found(worker'[v]) /\ clock' = clock
    BY <1>2 DEF TInv, WorkersOK
  <1>6. ASSUME NEW v \in Workers, Holding(v)'
        PROVE  Turn(worker[v])'
    <2>1. Turn(worker[v])
      BY <1>3, <1>6 DEF TInv, WorkersOK
    <2>2. /\ worker'[v].msg = worker[v].msg /\ worker'[v].at = worker[v].at
          /\ InHand(worker[v].msg, worker[v].at) => InHand(worker[v].msg, worker[v].at)'
          /\ Revived(worker[v].msg) => Revived(worker[v].msg)'
      BY <1>3, <1>6 DEF InHand, Human, Revived, tables
    <2>3. QED BY <2>1, <2>2 DEF Turn, tables
  <1>7. UsersOK'
    BY UsersStand DEF tables
  <1>8. QED BY <1>1, <1>4, <1>5, <1>6, <1>7 DEF WorkersOK, Found

\* The answers of a turn that has not sent its own.
LEMMA HeldIsUnanswered ==
  ASSUME TInv, NEW w \in Workers, Holding(w), worker[w].pc # "complete",
         ~Revived(worker[w].msg)
  PROVE  replies[worker[w].msg] <= unrecorded[worker[w].msg]
  <1>1. worker[w].msg \in Messages /\ job[worker[w].msg].status # "COMPLETED"
    BY HeldIsOpen
  <1>2. \A v \in Workers : worker[v].pc = "complete" => Holding(v)
    BY DEF Holding
  <1>3. QED
    BY <1>1, <1>2, HeldIsOpen DEF TInv, AnswersOK, Answers
-----------------------------------------------------------------------------
(* The steps of a worker that write no table.                              *)

\* No answer is sent, and none that was sent goes without its record.
LEMMA QuietWorker ==
  ASSUME IInv, TInv, NEW w \in Workers, NEW rec,
         worker' = [worker EXCEPT ![w] = rec], worker[w].pc # "complete",
         UNCHANGED <<inbound, revived, job, replies, unrecorded>>
  PROVE  AnswersOK'
  <1>1. \A v \in Workers : worker[v].pc = "complete" => worker'[v] = worker[v]
    BY DEF IInv, TypeOK
  <1>2. QED BY <1>1 DEF TInv, AnswersOK, Answers, Revived

LEMMA FindExpiredTurns ==
  ASSUME IInv, TInv, NEW w \in Workers, NEW enabled \in AssistantModes,
         FindExpired(w, enabled)
  PROVE  TInv'
  <1> DEFINE found == {c \in Conversations : Expired(c, clock)}
             rec == IF found = {}
                    THEN [IdleWorker EXCEPT !.pc = "find", !.enabled = enabled]
                    ELSE [IdleWorker EXCEPT !.pc = "release", !.at = clock,
                                            !.found = found, !.enabled = enabled]
  <1>1. worker' = [worker EXCEPT ![w] = rec] /\ worker[w].pc = "idle"
        /\ UNCHANGED <<clock, revived, tables, user, replies, unrecorded>>
    BY DEF FindExpired, WorkerStep
  <1>2. clock \in Int
    BY DEF IInv, TypeOK, Times
  <1>3. Found(rec) /\ ~InTurn(rec)
    BY <1>2 DEF Found, InTurn, IdleWorker
  <1> HIDE DEF rec
  <1>4. RowsOK' /\ UsersOK' /\ WorkersOK' /\ OneWorkerPerJob'
    BY <1>1, <1>3, WorkerMovesOn
  <1>5. AnswersOK'
    BY <1>1, QuietWorker DEF tables
  <1>6. QED BY <1>4, <1>5 DEF TInv

LEMMA FindJobTurns ==
  ASSUME IInv, TInv, NEW w \in Workers, FindJob(w)
  PROVE  TInv'
  <1>1. PICK rec : /\ WorkerStep(w, rec) /\ worker[w].pc = "find"
                   /\ \/ rec = IdleWorker
                      \/ \E m \in Messages : Claimable(m) /\ rec = [IdleWorker EXCEPT
                           !.pc = "claim", !.msg = m, !.seen = job[m].status,
                           !.seenLock = job[m].lockedAt, !.attempts = job[m].attempts + 1]
    BY DEF FindJob
  <1>2. Found(rec) /\ ~InTurn(rec)
    <2>1. CASE rec = IdleWorker
      BY <2>1 DEF Found, InTurn, IdleWorker
    <2>2. ASSUME NEW m \in Messages, Claimable(m),
                 rec = [IdleWorker EXCEPT
                   !.pc = "claim", !.msg = m, !.seen = job[m].status,
                   !.seenLock = job[m].lockedAt, !.attempts = job[m].attempts + 1]
          PROVE  Found(rec) /\ ~InTurn(rec)
      <3>1. /\ rec.pc = "claim" /\ rec.msg = m
            /\ rec.seen = job[m].status /\ rec.seenLock = job[m].lockedAt
        BY <2>2 DEF IdleWorker
      <3>2. QED
        BY <2>2, <3>1 DEF Found, InTurn, Claimable, Stale, TInv, RowsOK
    <2>3. QED BY <1>1, <2>1, <2>2
  <1>3. RowsOK' /\ UsersOK' /\ WorkersOK' /\ OneWorkerPerJob'
    BY <1>1, <1>2, WorkerMovesOn DEF WorkerStep
  <1>4. AnswersOK'
    BY <1>1, QuietWorker DEF WorkerStep, tables
  <1>5. QED BY <1>3, <1>4 DEF TInv

LEMMA RespondTurns ==
  ASSUME IInv, TInv, NEW w \in Workers, Respond(w) \/ RespondFails(w) \/ CheckMode(w)
  PROVE  TInv'
  <1>1. PICK pc \in {"check", "fail", "send", "cancel"} :
          /\ worker' = [worker EXCEPT ![w].pc = pc] /\ worker[w].pc \in {"respond", "check"}
          /\ UNCHANGED <<clock, revived, tables, user, replies, unrecorded>>
    BY DEF Respond, RespondFails, CheckMode, WorkerStep
  <1> DEFINE rec == [worker[w] EXCEPT !.pc = pc]
  <1>2. worker' = [worker EXCEPT ![w] = rec]
    BY <1>1
  <1>3. rec.pc = pc /\ rec.msg = worker[w].msg /\ rec.at = worker[w].at
    BY DEF IInv, TypeOK, WorkerState
  <1> HIDE DEF rec
  <1>4. Found(rec) /\ Holding(w)
    BY <1>1, <1>3 DEF Found, Holding
  <1>5. RowsOK' /\ UsersOK' /\ WorkersOK' /\ OneWorkerPerJob'
    BY <1>1, <1>2, <1>3, <1>4, WorkerMovesOn
  <1>6. AnswersOK'
    BY <1>1, <1>2, QuietWorker DEF tables
  <1>7. QED BY <1>5, <1>6 DEF TInv

LEMMA SendTurns ==
  ASSUME IInv, TInv, NEW w \in Workers,
         SendAnswer(w) \/ \E reached \in BOOLEAN : SendFails(w, reached)
  PROVE  TInv'
  <1> DEFINE m == worker[w].msg
  <1>1. PICK pc \in {"complete", "fail"}, n \in {0, 1}, k \in {0, 1} :
          /\ worker' = [worker EXCEPT ![w].pc = pc] /\ worker[w].pc = "send"
          /\ UNCHANGED <<clock, revived, tables, user>>
          /\ replies' = [replies EXCEPT ![m] = @ + n]
          /\ unrecorded' = [unrecorded EXCEPT ![m] = @ + k]
          /\ pc = "fail" => n = k
          /\ pc = "complete" => n = 1 /\ k = 0
    <2>1. CASE SendAnswer(w)
      <3>1. unrecorded' = [unrecorded EXCEPT ![m] = @ + 0]
        BY <2>1 DEF SendAnswer, IInv, TypeOK
      <3>2. QED BY <2>1, <3>1 DEF SendAnswer
    <2>2. ASSUME NEW reached \in BOOLEAN, SendFails(w, reached)
          PROVE  /\ worker' = [worker EXCEPT ![w].pc = "fail"] /\ worker[w].pc = "send"
                 /\ UNCHANGED <<clock, revived, tables, user>>
                 /\ \E n \in {0, 1} : /\ replies' = [replies EXCEPT ![m] = @ + n]
                                      /\ unrecorded' = [unrecorded EXCEPT ![m] = @ + n]
      BY <2>2 DEF SendFails
    <2>3. QED BY <2>1, <2>2
  <1> DEFINE rec == [worker[w] EXCEPT !.pc = pc]
  <1>2. worker' = [worker EXCEPT ![w] = rec]
    BY <1>1
  <1>3. rec.pc = pc /\ rec.msg = worker[w].msg /\ rec.at = worker[w].at
    BY DEF IInv, TypeOK, WorkerState
  <1>4. Found(rec) /\ Holding(w)
    BY <1>1, <1>3 DEF Found, Holding
  <1> HIDE DEF rec
  <1>5. RowsOK' /\ UsersOK' /\ WorkersOK' /\ OneWorkerPerJob'
    BY <1>1, <1>2, <1>3, <1>4, WorkerMovesOn
  <1>6. ASSUME NEW p \in Messages, ~Revived(p) PROVE Answers(p)'
    <2>1. \A v \in Workers : worker'[v] = IF v = w THEN rec ELSE worker[v]
      BY <1>2 DEF IInv, TypeOK
    <2>2. CASE p = m
      <3>1. replies[m] <= unrecorded[m] /\ replies[m] \in Nat /\ unrecorded[m] \in Nat
        BY <1>1, <1>4, <1>6, <2>2, HeldIsUnanswered DEF IInv, TypeOK
      <3>2. replies'[m] = replies[m] + n /\ unrecorded'[m] = unrecorded[m] + k
        BY <1>1, <2>2 DEF IInv, TypeOK
      <3>3. CASE pc = "fail"
        BY <1>1, <2>2, <3>1, <3>2, <3>3 DEF Answers
      <3>4. CASE pc = "complete"
        <4>1. worker'[w].pc = "complete" /\ worker'[w].msg = p
          BY <1>3, <2>1, <2>2, <3>4
        <4>2. replies'[p] <= 1 + unrecorded'[p]
          BY <1>1, <2>2, <3>1, <3>2, <3>4
        <4>3. replies'[p] <= unrecorded'[p] \/ replies'[p] = 1 + unrecorded'[p]
          BY <4>2, <1>1, <2>2, <3>1, <3>2
        <4>4. QED BY <4>1, <4>3 DEF Answers
      <3>5. QED BY <3>3, <3>4
    <2>3. CASE p # m
      <3>1. replies'[p] = replies[p] /\ unrecorded'[p] = unrecorded[p]
        BY <1>1, <2>3 DEF IInv, TypeOK
      <3>2. \A v \in Workers : worker[v].pc = "complete" => worker'[v] = worker[v]
        BY <1>1, <2>1
      <3>3. QED BY <1>1, <1>6, <3>1, <3>2 DEF TInv, AnswersOK, Answers, tables
    <2>4. QED BY <2>2, <2>3
  <1>7. \A p \in Messages : Revived(p) => Revived(p)'
    BY <1>1 DEF Revived, tables
  <1>8. QED BY <1>5, <1>6, <1>7 DEF TInv, AnswersOK

\* An answer that was sent goes without its record.
LEMMA AnswerLost ==
  ASSUME IInv, TInv, NEW w \in Workers, NEW rec,
         worker' = [worker EXCEPT ![w] = rec],
         unrecorded' = [m \in Messages |->
           IF worker[w].pc = "complete" /\ worker[w].msg = m
           THEN unrecorded[m] + 1 ELSE unrecorded[m]],
         UNCHANGED <<inbound, revived, job, replies>>
  PROVE  AnswersOK'
  <1>1. \A v \in Workers : v # w => worker'[v] = worker[v]
    BY DEF IInv, TypeOK
  <1>2. ASSUME NEW m \in Messages, ~Revived(m) PROVE Answers(m)'
    <2>1. Answers(m) /\ replies[m] \in Nat /\ unrecorded[m] \in Nat
      BY <1>2 DEF TInv, AnswersOK, IInv, TypeOK
    <2>2. CASE worker[w].pc = "complete" /\ worker[w].msg = m
      <3>1. unrecorded'[m] = unrecorded[m] + 1 /\ replies'[m] = replies[m]
        BY <2>2
      <3>2. replies[m] <= 1 + unrecorded[m]
        BY <2>1 DEF Answers
      <3>3. replies'[m] <= unrecorded'[m]
        BY <2>1, <3>1, <3>2
      <3>4. QED BY <3>3 DEF Answers
    <2>3. CASE ~(worker[w].pc = "complete" /\ worker[w].msg = m)
      <3>1. unrecorded'[m] = unrecorded[m] /\ replies'[m] = replies[m] /\ job'[m] = job[m]
        BY <2>3
      <3>2. \A v \in Workers : worker[v].pc = "complete" /\ worker[v].msg = m =>
              worker'[v] = worker[v]
        BY <1>1, <2>3
      <3>3. QED BY <2>1, <3>1, <3>2 DEF Answers
    <2>4. QED BY <2>2, <2>3
  <1>3. QED BY <1>2 DEF AnswersOK, Revived

LEMMA LostTurns ==
  ASSUME IInv, TInv, NEW w \in Workers, CompleteFails(w) \/ Crash(w)
  PROVE  TInv'
  <1>1. CASE CompleteFails(w)
    <2> DEFINE rec == [worker[w] EXCEPT !.pc = "fail"]
    <2>1. worker' = [worker EXCEPT ![w] = rec] /\ worker[w].pc = "complete"
          /\ UNCHANGED <<clock, revived, tables, user, replies>>
      BY <1>1 DEF CompleteFails
    <2>2. unrecorded' = [m \in Messages |->
            IF worker[w].pc = "complete" /\ worker[w].msg = m
            THEN unrecorded[m] + 1 ELSE unrecorded[m]]
      BY <1>1, <2>1 DEF CompleteFails, IInv, TypeOK
    <2>3. rec.pc = "fail" /\ rec.msg = worker[w].msg /\ rec.at = worker[w].at
      BY DEF IInv, TypeOK, WorkerState
    <2> HIDE DEF rec
    <2>4. Found(rec) /\ Holding(w)
      BY <2>1, <2>3 DEF Found, Holding
    <2>5. RowsOK' /\ UsersOK' /\ WorkersOK' /\ OneWorkerPerJob'
      BY <2>1, <2>3, <2>4, WorkerMovesOn
    <2>6. AnswersOK'
      BY <2>1, <2>2, AnswerLost DEF tables
    <2>7. QED BY <2>5, <2>6 DEF TInv
  <1>2. CASE Crash(w)
    <2>1. Found(IdleWorker) /\ ~InTurn(IdleWorker)
      BY DEF Found, InTurn, IdleWorker
    <2>2. RowsOK' /\ UsersOK' /\ WorkersOK' /\ OneWorkerPerJob'
      BY <1>2, <2>1, WorkerMovesOn DEF Crash
    <2>3. AnswersOK'
      BY <1>2, AnswerLost DEF Crash, tables
    <2>4. QED BY <2>2, <2>3 DEF TInv
  <1>3. QED BY <1>1, <1>2
-----------------------------------------------------------------------------
(* The steps of a worker that write its job.                               *)

\* Whoever finds a job claimed and stale finds nobody at work on it.
LEMMA ClaimTurns ==
  ASSUME PromptTurns, IInv, TInv, NEW w \in Workers, ClaimJob(w)
  PROVE  TInv'
  <1> DEFINE m == worker[w].msg
             rec == [IdleWorker EXCEPT !.pc = "respond", !.at = clock, !.msg = m,
                                       !.attempts = worker[w].attempts]
  <1>1. worker[w].pc = "claim"
        /\ UNCHANGED <<clock, revived, conversation, inbound, manualReply, user, replies, unrecorded>>
    BY DEF ClaimJob
  <1>2. CASE ~StillAsFound(w)
    <2>1. Found(IdleWorker) /\ ~InTurn(IdleWorker)
      BY DEF Found, InTurn, IdleWorker
    <2>2. worker' = [worker EXCEPT ![w] = IdleWorker] /\ UNCHANGED tables
      BY <1>1, <1>2 DEF ClaimJob, tables
    <2>3. RowsOK' /\ UsersOK' /\ WorkersOK' /\ OneWorkerPerJob'
      BY <1>1, <2>1, <2>2, WorkerMovesOn
    <2>4. AnswersOK'
      BY <1>1, <2>2, QuietWorker DEF tables
    <2>5. QED BY <2>3, <2>4 DEF TInv
  <1>3. CASE StillAsFound(w)
    <2>1. /\ job' = [job EXCEPT ![m] = Claimed(@)]
          /\ worker' = [worker EXCEPT ![w] = rec]
      BY <1>3 DEF ClaimJob
    <2>2. /\ m \in Messages /\ job[m].status \in {"PENDING", "PROCESSING"}
          /\ conversation[inbound[m].conv].mode = "AI"
          /\ job[m].status = "PROCESSING" =>
               job[m].lockedAt \in Times /\ job[m].lockedAt < clock - LockTimeout
      BY <1>1, <1>3 DEF StillAsFound, TInv, WorkersOK, Found
    <2>3. inbound[m].conv \in Conversations
      BY <2>2 DEF TInv, RowsOK
    <2>4. rec.pc = "respond" /\ rec.at = clock /\ rec.msg = m /\ clock \in Times
      BY DEF IdleWorker, IInv, TypeOK
    <2> HIDE DEF rec
    <2>5. \A v \in Workers : worker'[v] = IF v = w THEN rec ELSE worker[v]
      BY <2>1 DEF IInv, TypeOK
    <2>6. \A n \in Messages : n # m => job'[n] = job[n]
      BY <2>1 DEF IInv, TypeOK
    <2>7. job'[m].status = "PROCESSING" /\ job'[m].lockedAt = clock
      BY <2>1, <2>2 DEF IInv, TypeOK, JobRow, Claimed
    <2>8. ASSUME NEW v \in Workers, Holding(v), ~Revived(m) PROVE worker[v].msg # m
      <3>1. SUFFICES ASSUME worker[v].msg = m PROVE FALSE
        OBVIOUS
      <3>2. Turn(worker[v]) /\ worker[v].at \in Nat
        BY <2>8 DEF TInv, WorkersOK, IInv, TypeOK, WorkerState, Times
      <3>3. job[m].status = "PROCESSING" /\ job[m].lockedAt = worker[v].at
        BY <2>2, <2>8, <3>1, <3>2 DEF Turn, InHand
      <3>4. clock <= worker[v].at + TurnTimeout /\ worker[v].at < clock - LockTimeout
        BY <2>2, <3>2, <3>3 DEF Turn
      <3>5. QED
        BY <3>2, <3>4, <2>4, SettingsAreNat DEF PromptTurns, Times
    <2>9. RowsOK'
      BY <1>1, <2>2, <2>3, <2>4, <2>6, <2>7 DEF TInv, RowsOK, Human
    <2>10. UsersOK'
      BY <1>1, UsersStand
    <2>11. OneWorkerPerJob'
      <3>1. SUFFICES ASSUME NEW u \in Workers, NEW v \in Workers, Holding(u)', Holding(v)',
                            worker'[u].msg = worker'[v].msg, ~Revived(worker'[u].msg)
                     PROVE  u = v
        BY <1>1 DEF OneWorkerPerJob, Revived
      <3>2. \A n \in Workers : Holding(n)' /\ n # w => Holding(n) /\ worker'[n] = worker[n]
        BY <2>5 DEF Holding
      <3>3. worker'[w].msg = m
        BY <2>4, <2>5
      <3>4. QED BY <2>8, <3>1, <3>2, <3>3 DEF TInv, OneWorkerPerJob
    <2>12. \A v \in Workers : Found(worker[v])'
      BY <1>1, <2>4, <2>5 DEF TInv, WorkersOK, Found
    <2>13. ASSUME NEW v \in Workers, Holding(v)'
           PROVE  Turn(worker[v])'
      <3>1. CASE v = w
        <4>1. InHand(worker[v].msg, worker[v].at)'
          BY <2>4, <2>5, <2>7, <3>1 DEF InHand
        <4>2. QED
          BY <1>1, <2>2, <2>3, <2>4, <2>5, <3>1, <4>1, SettingsAreNat DEF Turn, Times
      <3>2. CASE v # w
        <4>1. worker'[v] = worker[v] /\ Holding(v)
          BY <2>5, <2>13, <3>2 DEF Holding
        <4>2. (worker[v].msg # m \/ Revived(m)) /\ Turn(worker[v])
          BY <4>1, <2>8 DEF TInv, WorkersOK
        <4>3. CASE Revived(worker[v].msg)
          BY <1>1, <4>1, <4>2, <4>3 DEF Turn, Revived
        <4>4. CASE ~Revived(worker[v].msg)
          <5>1. worker[v].msg # m /\ InHand(worker[v].msg, worker[v].at)
            BY <4>2, <4>4 DEF Turn
          <5>2. InHand(worker[v].msg, worker[v].at)'
            BY <1>1, <2>6, <4>1, <4>2, <5>1 DEF Turn, InHand, Human
          <5>3. QED BY <1>1, <4>1, <4>2, <5>2 DEF Turn
        <4>5. QED BY <4>3, <4>4
      <3>3. QED BY <3>1, <3>2
    <2>14. AnswersOK'
      <3>1. \A v \in Workers : worker[v].pc = "complete" => worker'[v] = worker[v]
        BY <1>1, <2>5
      <3>2. \A n \in Messages : job[n].status = "COMPLETED" => job'[n].status = "COMPLETED"
        BY <2>2, <2>6
      <3>3. QED BY <1>1, <3>1, <3>2 DEF TInv, AnswersOK, Answers, Revived
    <2>15. QED BY <2>9, <2>10, <2>11, <2>12, <2>13, <2>14 DEF TInv, WorkersOK
  <1>4. QED BY <1>2, <1>3

\* The last step of a turn writes the job by its id, whatever became of it.
LEMMA HolderWrites ==
  ASSUME IInv, TInv, NEW w \in Workers, Holding(w), NEW row,
         row.status # "PROCESSING",
         job' = [job EXCEPT ![worker[w].msg] = row],
         worker' = [worker EXCEPT ![w] = IdleWorker],
         UNCHANGED <<clock, revived, conversation, inbound, manualReply, user>>
  PROVE  RowsOK' /\ UsersOK' /\ WorkersOK' /\ OneWorkerPerJob'
  <1> DEFINE m == worker[w].msg
  <1>1. /\ m \in Messages /\ inbound[m].conv \in Conversations
        /\ \A v \in Workers : Holding(v) /\ worker[v].msg = m => v = w \/ Revived(m)
    BY HeldIsOpen
  <1>2. \A n \in Messages : job'[n] = IF n = m THEN row ELSE job[n]
    BY DEF IInv, TypeOK
  <1>3. \A v \in Workers : worker'[v] = IF v = w THEN IdleWorker ELSE worker[v]
    BY DEF IInv, TypeOK
  <1>4. Found(IdleWorker) /\ ~InTurn(IdleWorker)
    BY DEF Found, InTurn, IdleWorker
  <1>5. RowsOK'
    BY <1>1, <1>2 DEF TInv, RowsOK, Human
  <1>7. \A v \in Workers : Holding(v)' => v # w /\ Holding(v) /\ worker'[v] = worker[v]
    BY <1>3, <1>4 DEF Holding, InTurn
  <1>8. OneWorkerPerJob'
    BY <1>7 DEF TInv, OneWorkerPerJob, Revived
  <1>6. UsersOK'
    BY UsersStand
  <1>9. \A v \in Workers : Found(worker[v])'
    <2>1. \A v \in Workers : Found(worker'[v])
      BY <1>3, <1>4 DEF TInv, WorkersOK
    <2>2. QED BY <2>1 DEF Found
  <1>10. ASSUME NEW v \in Workers, Holding(v)'
         PROVE  Turn(worker[v])'
    <2>1. /\ Turn(worker[v]) /\ worker'[v] = worker[v]
          /\ worker[v].msg # m \/ Revived(worker[v].msg)
      BY <1>1, <1>7, <1>10 DEF TInv, WorkersOK
    <2>2. CASE Revived(worker[v].msg)
      BY <2>1, <2>2 DEF Turn, Revived
    <2>3. CASE ~Revived(worker[v].msg)
      <3>1. InHand(worker[v].msg, worker[v].at)'
        BY <1>2, <2>1, <2>3 DEF Turn, InHand, Human
      <3>2. QED BY <2>1, <3>1 DEF Turn
    <2>4. QED BY <2>2, <2>3
  <1>11. QED BY <1>5, <1>6, <1>8, <1>9, <1>10 DEF WorkersOK

LEMMA TurnEndTurns ==
  ASSUME IInv, TInv, NEW w \in Workers, CancelJob(w) \/ CompleteJob(w) \/ FailJob(w)
  PROVE  TInv'
  <1> DEFINE m == worker[w].msg
             cancelled == IF Pending(m) THEN Cancelled(job[m]) ELSE job[m]
             completed == [job[m] EXCEPT !.status = "COMPLETED", !.lockedAt = None]
             failed == [job[m] EXCEPT
               !.status = IF worker[w].attempts >= MaxAttempts THEN "FAILED" ELSE "PENDING",
               !.nextAttemptAt = clock + Backoff, !.lockedAt = None]
  <1>1. Holding(w) /\ m \in Messages
    <2>1. Holding(w)
      BY DEF CancelJob, CompleteJob, FailJob, Holding
    <2>2. QED BY <2>1, HeldIsOpen
  <1>2. job[m] \in JobRow
    BY <1>1 DEF IInv, TypeOK
  <1>3. PICK row : /\ job' = [job EXCEPT ![m] = row] /\ row.status # "PROCESSING"
                   /\ worker[w].pc = "complete" => row.status = "COMPLETED"
    <2>1. CASE CancelJob(w)
      <3>1. job' = [job EXCEPT ![m] = cancelled] /\ worker[w].pc = "cancel"
        BY <2>1, <1>1 DEF CancelJob, IInv, TypeOK
      <3>2. cancelled.status # "PROCESSING"
        BY <1>2 DEF Pending, Cancelled, JobRow
      <3>3. QED BY <3>1, <3>2
    <2>2. CASE CompleteJob(w)
      <3>1. job' = [job EXCEPT ![m] = completed]
        BY <2>2 DEF CompleteJob
      <3>2. completed.status = "COMPLETED"
        BY <1>2 DEF JobRow
      <3>3. QED BY <3>1, <3>2
    <2>3. CASE FailJob(w)
      <3>1. job' = [job EXCEPT ![m] = failed] /\ worker[w].pc = "fail"
        BY <2>3 DEF FailJob
      <3>2. failed.status # "PROCESSING"
        BY <1>2 DEF JobRow
      <3>3. QED BY <3>1, <3>2
    <2>4. QED BY <2>1, <2>2, <2>3
  <1>4. worker' = [worker EXCEPT ![w] = IdleWorker]
        /\ UNCHANGED <<clock, revived, conversation, inbound, manualReply, user, replies, unrecorded>>
    BY DEF CancelJob, CompleteJob, FailJob
  <1>5. RowsOK' /\ UsersOK' /\ WorkersOK' /\ OneWorkerPerJob'
    BY <1>1, <1>3, <1>4, HolderWrites
  <1>6. ASSUME NEW n \in Messages, ~Revived(n) PROVE Answers(n)'
    <2>1. Answers(n) /\ replies[n] \in Nat /\ unrecorded[n] \in Nat
      BY <1>6 DEF TInv, AnswersOK, IInv, TypeOK
    <2>2. \A v \in Workers : v # w => worker'[v] = worker[v]
      BY <1>4 DEF IInv, TypeOK
    <2>3. CASE n = m
      <3>1. job'[m] = row
        BY <1>1, <1>3 DEF IInv, TypeOK
      <3>2. CASE worker[w].pc = "complete"
        BY <1>3, <1>4, <2>1, <2>3, <3>1, <3>2 DEF Answers
      <3>3. CASE worker[w].pc # "complete"
        BY <1>1, <1>4, <1>6, <2>3, <3>3, HeldIsUnanswered DEF Answers
      <3>4. QED BY <3>2, <3>3
    <2>4. CASE n # m
      <3>1. job'[n] = job[n]
        BY <1>3, <2>4 DEF IInv, TypeOK
      <3>2. \A v \in Workers : worker[v].pc = "complete" /\ worker[v].msg = n =>
              worker'[v] = worker[v]
        BY <2>2, <2>4
      <3>3. QED BY <1>4, <2>1, <3>1, <3>2 DEF Answers
    <2>5. QED BY <2>3, <2>4
  <1>7. QED BY <1>4, <1>5, <1>6 DEF TInv, AnswersOK, Revived

\* A control that expired was not taken during any turn still going on: it
\* would have outlasted it.
LEMMA ReleaseTurns ==
  ASSUME IInv, TInv, NEW w \in Workers, NEW c \in Conversations, ReleaseExpired(w, c)
  PROVE  TInv'
  <1> DEFINE now == worker[w].at
             rec == NextRelease(w, worker[w].found \ {c})
  <1>1. worker[w].pc = "release" /\ worker' = [worker EXCEPT ![w] = rec]
        /\ UNCHANGED <<clock, revived, inbound, manualReply, user, replies, unrecorded>>
    BY DEF ReleaseExpired
  <1>2. now <= clock /\ now \in Nat /\ clock \in Nat
    BY <1>1 DEF TInv, WorkersOK, Found, IInv, TypeOK, WorkerState, Times
  <1>3. Found(rec) /\ ~InTurn(rec)
    <2>1. CASE worker[w].found \ {c} = {}
      <3>1. rec.pc = "find"
        BY <2>1 DEF NextRelease, IdleWorker
      <3>2. QED BY <3>1 DEF Found, InTurn
    <2>2. CASE worker[w].found \ {c} # {}
      <3>1. rec.pc = "release" /\ rec.at = now
        BY <1>1, <2>2 DEF NextRelease, IInv, TypeOK, WorkerState
      <3>2. QED BY <1>2, <3>1 DEF Found, InTurn
    <2>3. QED BY <2>1, <2>2
  <1> HIDE DEF rec
  <1>4. CASE ~Expired(c, now)
    <2>1. UNCHANGED tables
      BY <1>1, <1>4 DEF ReleaseExpired, tables
    <2>2. RowsOK' /\ UsersOK' /\ WorkersOK' /\ OneWorkerPerJob'
      BY <1>1, <1>3, <2>1, WorkerMovesOn
    <2>3. AnswersOK'
      BY <1>1, <2>1, QuietWorker DEF tables
    <2>4. QED BY <2>2, <2>3 DEF TInv
  <1>5. CASE Expired(c, now)
    <2>1. conversation' = [conversation EXCEPT ![c] = AiRow(@.lastInboundAt)]
      BY <1>4, <1>5 DEF ReleaseExpired
    <2>2. \A d \in Conversations : /\ d = c => conversation'[d].mode = "AI"
                                   /\ d # c => conversation'[d] = conversation[d]
      BY <2>1 DEF IInv, TypeOK, AiRow
    <2>3. /\ Human(c)
          /\ conversation[c].expiresAt \in Nat /\ conversation[c].expiresAt <= clock
      <3>1. Human(c) /\ conversation[c].expiresAt <= now
        BY <1>5 DEF Expired, Human
      <3>2. conversation[c].expiresAt \in Nat
        BY <3>1, ControlHasStart DEF IInv, Human
      <3>3. QED BY <1>2, <3>1, <3>2
    <2>4. \A m \in Messages :
            \/ job'[m] = job[m]
            \/ /\ inbound[m].conv = c
               /\ job[m].status \in {"NONE", "CANCELLED", "FAILED"}
               /\ job'[m].status = "PENDING"
      <3>1. CASE job' = job
        BY <3>1
      <3>2. ASSUME NEW m \in LatestInbound(c), QueuedOnRelease(m),
                   job' = [job EXCEPT ![m] = Queued(m, now)]
            PROVE  \A n \in Messages :
                     \/ job'[n] = job[n]
                     \/ /\ inbound[n].conv = c
                        /\ job[n].status \in {"NONE", "CANCELLED", "FAILED"}
                        /\ job'[n].status = "PENDING"
        <4>1. m \in Messages /\ inbound[m].conv = c
          BY DEF LatestInbound, MessagesOf
        <4>2. Queued(m, now).status = "PENDING"
          BY DEF Queued, NewJob, NoJob
        <4>3. QED BY <3>2, <4>1, <4>2 DEF IInv, TypeOK, QueuedOnRelease
      <3>3. QED BY <1>5, <3>1, <3>2 DEF ReleaseExpired
    <2>5. RowsOK'
      <3>1. ASSUME NEW m \in Messages
            PROVE  /\ job'[m].status # "NONE" \/ inbound'[m].capture # "none" =>
                        inbound'[m].conv \in Conversations
                   /\ job'[m].status = "PROCESSING" =>
                        job'[m].lockedAt \in Times /\ ~Human(inbound[m].conv)'
        BY <1>1, <2>2, <2>4 DEF TInv, RowsOK, Human
      <3>2. \A d \in Conversations : Human(d)' => conversation'[d].handledAt <= clock'
        BY <1>1, <2>2 DEF TInv, RowsOK, Human
      <3>3. QED BY <3>1, <3>2 DEF RowsOK
    <2>7. \A v \in Workers : worker'[v] = IF v = w THEN rec ELSE worker[v]
      BY <1>1 DEF IInv, TypeOK
    <2>8. \A v \in Workers : Holding(v)' => Holding(v) /\ worker'[v] = worker[v]
      BY <1>3, <2>7 DEF Holding, InTurn
    <2>9. OneWorkerPerJob'
      BY <1>1, <2>8 DEF TInv, OneWorkerPerJob, Revived
    <2>6. UsersOK'
      <3>2. ASSUME NEW u \in Users PROVE UserKnows(u, user[u])'
        <4>1. UserKnows(u, user[u]) /\ (user[u].pc # "idle" => user[u].conv \in Conversations)
          BY DEF TInv, UsersOK, IInv, LocalsOK, LocalsOf
        <4>2. CASE user[u].pc # "idle" /\ user[u].conv = c
          <5>1. user[u].pc = "take" => Taking(user[u])'
            BY <1>1, <1>2, <2>3, <4>1, <4>2 DEF UserKnows, Taking
          <5>2. user[u].pc \in {"send", "record", "readRenew", "renew"} => Replying(u, user[u])'
            BY <1>1, <2>2, <4>1, <4>2 DEF UserKnows, Replying, HasControl
          <5>3. QED BY <1>1, <4>1, <5>1, <5>2 DEF UserKnows
        <4>3. CASE user[u].pc = "idle" \/ user[u].conv # c
          BY <1>1, <2>2, <4>1, <4>3, UserStands
        <4>4. QED BY <4>2, <4>3
      <3>3. QED BY <3>2 DEF UsersOK
    <2>10. \A v \in Workers : Found(worker[v])'
      <3>1. \A v \in Workers : Found(worker'[v])
        BY <1>3, <2>7 DEF TInv, WorkersOK
      <3>2. QED BY <1>1, <3>1 DEF Found
    <2>11. ASSUME NEW v \in Workers, Holding(v)'
           PROVE  Turn(worker[v])'
      <3>1. Holding(v) /\ worker'[v] = worker[v] /\ Turn(worker[v])
            /\ worker[v].at \in Nat
        BY <2>8, <2>11 DEF TInv, WorkersOK, IInv, TypeOK, WorkerState, Times
      <3> DEFINE m == worker[v].msg
                 d == inbound[m].conv
      <3>2. m \in Messages /\ d \in Conversations
        BY <3>1, HeldIsOpen
      <3>3. InHand(m, worker[v].at)' \/ Revived(m)
        <4> SUFFICES ASSUME ~Revived(m) PROVE InHand(m, worker[v].at)'
          OBVIOUS
        <4>1. CASE d = c
          <5>1. ~(conversation[c].expiresAt > worker[v].at + TurnTimeout)
            BY <1>2, <2>3, <3>1, SettingsAreNat DEF Turn
          <5>2. FALSE
            BY <2>3, <3>1, <3>2, <4>1, <5>1 DEF Turn, InHand, TInv, RowsOK
          <5>3. QED BY <5>2
        <4>2. CASE d # c
          BY <1>1, <2>2, <2>4, <3>1, <3>2, <4>2 DEF Turn, InHand, Human
        <4>3. QED BY <4>1, <4>2
      <3>4. QED BY <1>1, <3>1, <3>3 DEF Turn, Revived
    <2>12. AnswersOK'
      <3>1. \A v \in Workers : worker[v].pc = "complete" => worker'[v] = worker[v]
        BY <1>1, <2>7
      <3>2. \A m \in Messages : job[m].status = "COMPLETED" => job'[m].status = "COMPLETED"
        BY <2>4
      <3>3. QED BY <1>1, <3>1, <3>2 DEF TInv, AnswersOK, Answers, Revived
    <2>13. QED BY <2>5, <2>6, <2>9, <2>10, <2>11, <2>12 DEF TInv, WorkersOK
  <1>6. QED BY <1>4, <1>5
-----------------------------------------------------------------------------
(* The customer, and the clock.                                            *)

\* A grace granted now outlasts the turns going on now.
LEMMA ReceiveTurns ==
  ASSUME PromptTurns, IInv, IInv', TInv, NEW m \in Messages, NEW c \in Conversations,
         NEW at \in Times, at <= clock, clock - at <= RequestDelay,
         NEW media \in MediaInputs, NEW enabled \in AssistantModes,
         Receive(m, c, at, media, enabled)
  PROVE  TInv'
  <1> DEFINE new == inbound[m].conv = None
  <1>1. UNCHANGED <<clock, revived, manualReply, worker, user, replies, unrecorded>>
        /\ (new \/ inbound[m].conv = c)
    BY DEF Receive
  <1>2. clock \in Nat /\ at \in Nat /\ clock <= at + RequestDelay
    BY SettingsAreNat DEF IInv, TypeOK, Times
  <1>3. \A d \in Conversations : /\ conversation'[d].mode = conversation[d].mode
                                 /\ conversation'[d].handledAt = conversation[d].handledAt
                                 /\ conversation'[d].handledBy = conversation[d].handledBy
                                 /\ d # c => conversation'[d] = conversation[d]
    BY DEF Receive, IInv, TypeOK, ConversationRow
  <1>4. Human(c) => /\ conversation[c].handledAt \in Nat
                    /\ conversation'[c].expiresAt
                         = MinOf(at + Grace, conversation[c].handledAt + MaxControl)
    <2>1. SUFFICES ASSUME Human(c)
                   PROVE  /\ conversation[c].handledAt \in Nat
                          /\ conversation'[c].expiresAt
                               = MinOf(at + Grace, conversation[c].handledAt + MaxControl)
      OBVIOUS
    <2>2. conversation[c].handledAt \in Nat
      BY <2>1, ControlHasStart DEF IInv, Human, Times
    <2>3. conversation'[c].expiresAt = GraceEnd(c, at)
      BY <2>1 DEF Receive, IInv, TypeOK, ConversationRow, Human
    <2>4. QED BY <1>2, <2>2, <2>3 DEF GraceEnd
  <1>5. /\ inbound'[m].conv = c
        /\ \A n \in Messages : n # m => inbound'[n] = inbound[n]
    BY DEF Receive, IInv, TypeOK
  <1>0. MessagesStand
    BY <1>1, <1>5, ConstantsAssumption DEF MessagesStand
  <1>6. \A n \in Messages : \/ job'[n] = job[n]
                            \/ n = m /\ new /\ job'[n].status = "PENDING"
    BY DEF Receive, IInv, TypeOK, NewJob, NoJob
  <1>7. new => job[m].status = "NONE"
    BY ConstantsAssumption DEF TInv, RowsOK
  <1>8. RowsOK'
    <2>1. ASSUME NEW n \in Messages
          PROVE  /\ job'[n].status # "NONE" \/ inbound'[n].capture # "none" =>
                      inbound'[n].conv \in Conversations
                 /\ job'[n].status = "PROCESSING" =>
                      job'[n].lockedAt \in Times /\ ~Human(inbound[n].conv)'
      <3>1. CASE n = m
        <4>1. job'[m].status = "PROCESSING" => job'[m] = job[m] /\ ~new
          BY <1>6, <1>7
        <4>2. QED BY <1>1, <1>3, <1>5, <3>1, <4>1 DEF TInv, RowsOK, Human
      <3>2. CASE n # m
        BY <1>3, <1>5, <1>6, <3>2 DEF TInv, RowsOK, Human
      <3>3. QED BY <3>1, <3>2
    <2>2. \A d \in Conversations : Human(d)' => conversation'[d].handledAt <= clock'
      BY <1>1, <1>3 DEF TInv, RowsOK, Human
    <2>3. QED BY <2>1, <2>2 DEF RowsOK
  <1>9. UsersOK'
    <2>1. ASSUME NEW u \in Users PROVE UserKnows(u, user[u])'
      <3>1. UserKnows(u, user[u]) /\ (user[u].pc # "idle" => user[u].conv \in Conversations)
        BY DEF TInv, UsersOK, IInv, LocalsOK, LocalsOf
      <3>2. CASE user[u].pc = "idle" \/ user[u].conv # c
        BY <1>1, <1>3, <3>1, <3>2, UserStands
      <3>3. CASE user[u].pc # "idle" /\ user[u].conv = c
        BY <1>1, <1>3, <3>1, <3>3 DEF UserKnows, Taking, Replying, HasControl
      <3>4. QED BY <3>2, <3>3
    <2>2. QED BY <2>1 DEF UsersOK
  <1>10. InHandStands
    <2>1. ASSUME NEW n \in Messages, NEW t \in Nat, inbound[n].conv \in Conversations,
                 InHand(n, t), t <= clock, clock <= t + TurnTimeout
          PROVE  InHand(n, t)'
      <3>1. job'[n] = job[n]
        BY <1>6, <1>7, <2>1 DEF InHand, TInv, RowsOK
      <3>2. inbound'[n].conv = inbound[n].conv
        BY <1>1, <1>5, <2>1, ConstantsAssumption
      <3>3. CASE inbound[n].conv # c
        BY <1>3, <2>1, <3>1, <3>2, <3>3 DEF InHand, Human
      <3>4. CASE inbound[n].conv = c
        <4>1. ASSUME Human(c), conversation[c].handledAt + RequestDelay >= t
              PROVE  conversation'[c].expiresAt > t + TurnTimeout
          <5>1. t + TurnTimeout < at + Grace
                /\ t + TurnTimeout < conversation[c].handledAt + MaxControl
            BY <1>2, <1>4, <2>1, <4>1, SettingsAreNat DEF PromptTurns
          <5>2. QED BY <1>4, <4>1, <5>1 DEF MinOf
        <4>2. QED BY <1>3, <2>1, <3>1, <3>2, <3>4, <4>1 DEF InHand, Human
      <3>5. QED BY <3>3, <3>4
    <2>2. QED BY <2>1 DEF InHandStands
  <1>11. WorkersOK' /\ OneWorkerPerJob'
    BY <1>0, <1>1, <1>10, WorkersStand DEF TInv
  <1>12. AnswersOK'
    BY <1>0, <1>1, <1>6, <1>7, AnswersStand DEF TInv
  <1>13. QED BY <1>8, <1>9, <1>11, <1>12 DEF TInv

LEMMA MediaTurns ==
  ASSUME IInv, TInv, NEW m \in Messages,
         ReadModeForMedia(m) \/ EnqueueForMedia(m) \/ CaptureFails(m)
  PROVE  TInv'
  <1>1. /\ UNCHANGED <<clock, revived, conversation, worker, user, replies, unrecorded>>
        /\ inbound[m].capture # "none"
        /\ \A n \in Messages : /\ inbound'[n].conv = inbound[n].conv
                               /\ n # m => inbound'[n] = inbound[n]
    BY DEF ReadModeForMedia, EnqueueForMedia, CaptureFails, IInv, TypeOK, InboundRow
  <1>2. \A n \in Messages :
          \/ job'[n] = job[n]
          \/ n = m /\ job[n].status = "NONE" /\ job'[n].status = "PENDING"
    <2>1. CASE EnqueueForMedia(m)
      <3>1. NewJob(clock, clock).status = "PENDING"
        BY DEF NewJob, NoJob
      <3>2. QED BY <2>1, <3>1 DEF EnqueueForMedia, IInv, TypeOK
    <2>2. QED BY <2>1 DEF ReadModeForMedia, CaptureFails
  <1>3. RowsOK'
    BY <1>1, <1>2 DEF TInv, RowsOK, Human
  <1>4. UsersOK' /\ MessagesStand
    BY <1>1, UsersStand DEF MessagesStand
  <1>5. InHandStands
    BY <1>1, <1>2 DEF InHandStands, InHand, Human
  <1>6. WorkersOK' /\ OneWorkerPerJob'
    BY <1>1, <1>4, <1>5, WorkersStand DEF TInv
  <1>7. AnswersOK'
    BY <1>1, <1>2, <1>4, AnswersStand DEF TInv
  <1>8. QED BY <1>3, <1>4, <1>6, <1>7 DEF TInv

\* Time passes only while every request and every turn has time left.
LEMMA TickTurns ==
  ASSUME IInv, TInv, Tick
  PROVE  TInv'
  <1>1. clock' = clock + 1 /\ clock \in Nat
        /\ UNCHANGED <<revived, conversation, inbound, job, worker, user, replies, unrecorded>>
    BY DEF Tick, tables, IInv, TypeOK, Times
  <1>2. RowsOK'
    <2>1. \A c \in Conversations : Human(c) => conversation[c].handledAt \in Nat
      BY ControlHasStart DEF IInv, Human, Times
    <2>2. QED BY <1>1, <2>1 DEF TInv, RowsOK, Human
  <1>3. UsersOK'
    <2>1. ASSUME NEW u \in Users PROVE UserKnows(u, user[u])'
      <3>1. UserKnows(u, user[u]) /\ user[u].at \in Nat
        BY DEF TInv, UsersOK, IInv, TypeOK, UserState, Times
      <3>2. user[u].pc = "take" => Taking(user[u])'
        <4>1. user[u].pc = "take" => clock - user[u].at < RequestDelay
          BY DEF Tick
        <4>2. QED BY <1>1, <3>1, <4>1, SettingsAreNat DEF UserKnows, Taking
      <3>3. QED BY <1>1, <3>1, <3>2 DEF UserKnows, Replying, HasControl
    <2>2. QED BY <2>1 DEF UsersOK
  <1>4. \A w \in Workers : Found(worker[w])'
    <2>1. ASSUME NEW w \in Workers PROVE Found(worker[w])'
      <3>1. Found(worker[w]) /\ worker[w].at \in Nat
        BY DEF TInv, WorkersOK, IInv, TypeOK, WorkerState, Times
      <3>2. worker[w].seenLock \in Times => worker[w].seenLock \in Nat
        BY DEF Times
      <3>3. QED BY <1>1, <3>1, <3>2, SettingsAreNat DEF Found
    <2>2. QED BY <2>1
  <1>5. ASSUME NEW w \in Workers, Holding(w)'
        PROVE  Turn(worker[w])'
    <2>1. Holding(w) /\ Turn(worker[w]) /\ worker[w].at \in Nat
      BY <1>1, <1>5 DEF Holding, TInv, WorkersOK, IInv, TypeOK, WorkerState, Times
    <2>2. clock - worker[w].at < TurnTimeout
      BY <2>1 DEF Tick
    <2>3. /\ InHand(worker[w].msg, worker[w].at) => InHand(worker[w].msg, worker[w].at)'
          /\ Revived(worker[w].msg) => Revived(worker[w].msg)'
      BY <1>1 DEF InHand, Human, Revived
    <2>4. QED BY <1>1, <2>1, <2>2, <2>3, SettingsAreNat DEF Turn
  <1>6. OneWorkerPerJob' /\ AnswersOK'
    BY <1>1 DEF TInv, OneWorkerPerJob, Holding, AnswersOK, Answers, Revived
  <1>7. QED BY <1>2, <1>3, <1>4, <1>5, <1>6 DEF TInv, WorkersOK
-----------------------------------------------------------------------------
(* The users.                                                              *)

\* A user moves on and no table is written.
LEMMA UserMovesOn ==
  ASSUME IInv, TInv, NEW u \in Users, NEW rec, UserKnows(u, rec),
         user' = [user EXCEPT ![u] = rec],
         UNCHANGED <<clock, revived, conversation, inbound, job, worker, replies, unrecorded>>
  PROVE  TInv'
  <1>1. RowsOK'
    BY RowsStand DEF TInv
  <1>2. UsersOK'
    <2>1. \A v \in Users : user'[v] = IF v = u THEN rec ELSE user[v]
      BY DEF IInv, TypeOK
    <2>2. \A v \in Users : UserKnows(v, user'[v])
      BY <2>1 DEF TInv, UsersOK
    <2>3. QED
      BY <2>2 DEF UsersOK, UserKnows, Taking, Replying, HasControl
  <1>3. InHandStands
    BY DEF InHandStands, InHand, Human
  <1>4. WorkersOK' /\ OneWorkerPerJob'
    BY <1>3, WorkersStand DEF TInv, MessagesStand
  <1>5. AnswersOK'
    BY AnswersStand DEF TInv, MessagesStand
  <1>6. QED BY <1>1, <1>2, <1>4, <1>5 DEF TInv

LEMMA CheckSetModeTurns ==
  ASSUME IInv, TInv, NEW u \in Users, NEW c \in Conversations,
         NEW mode \in ModeRequests, CheckSetMode(u, c, mode)
  PROVE  TInv'
  <1> DEFINE rec == [pc |-> mode, conv |-> c, at |-> clock, startsAt |-> StartsAt(c),
                     expiresAt |-> MinOf(clock + Lease, StartsAt(c) + MaxControl)]
  <1>1. mode \in {"take", "return"}
    BY ConstantsAssumption
  <1>2. Taking(rec)
    <2>1. clock \in Nat
      BY DEF IInv, TypeOK, Times
    <2>2. StartsAt(c) <= clock
      BY <2>1 DEF StartsAt, UnderControl, TInv, RowsOK, Human
    <2>3. QED BY <2>1, <2>2, SettingsAreNat DEF Taking
  <1>3. UserKnows(u, rec)
    BY <1>1, <1>2 DEF UserKnows
  <1>4. QED BY <1>3, UserMovesOn DEF CheckSetMode, UserStep, tables

LEMMA ReplyTurns ==
  ASSUME IInv, TInv, NEW u \in Users,
         \/ \E c \in Conversations : CheckReply(u, c)
         \/ SendReply(u) \/ RecordManualMessage(u) \/ ReadRenew(u) \/ StopUser(u)
  PROVE  TInv'
  <1>1. ASSUME NEW c \in Conversations, CheckReply(u, c) PROVE TInv'
    <2> DEFINE rec == [IdleUser EXCEPT !.pc = "send", !.conv = c, !.at = clock]
    <2>1. rec.pc = "send" /\ rec.conv = c /\ rec.at = clock /\ clock \in Nat
      BY DEF IdleUser, IInv, TypeOK, Times
    <2> HIDE DEF rec
    <2>2. UserKnows(u, rec)
      BY <2>1, SettingsAreNat DEF UserKnows, Replying, HasControl, TInv, RowsOK, Human
    <2>3. QED BY <1>1, <2>2, UserMovesOn DEF CheckReply, UserStep, tables, rec
  <1>2. CASE StopUser(u)
    <2>1. UserKnows(u, IdleUser)
      BY DEF UserKnows, IdleUser
    <2>2. QED BY <1>2, <2>1, UserMovesOn DEF StopUser, UserStep, tables
  <1>3. CASE SendReply(u) \/ RecordManualMessage(u)
    <2> DEFINE pc == IF user[u].pc = "send" THEN "record" ELSE "readRenew"
               rec == [user[u] EXCEPT !.pc = pc]
    <2>1. /\ user' = [user EXCEPT ![u] = rec]
          /\ user[u].pc \in {"send", "record"}
          /\ UNCHANGED <<clock, revived, conversation, inbound, job, worker, replies, unrecorded>>
      BY <1>3 DEF SendReply, RecordManualMessage, UserStep, tables
    <2>2. rec.pc = pc /\ rec.conv = user[u].conv /\ rec.at = user[u].at
      BY DEF IInv, TypeOK, UserState
    <2>3. UserKnows(u, user[u])
      BY DEF TInv, UsersOK
    <2> HIDE DEF rec
    <2>4. UserKnows(u, rec)
      BY <2>1, <2>2, <2>3 DEF UserKnows, Replying
    <2>5. QED BY <2>1, <2>4, UserMovesOn
  <1>4. CASE ReadRenew(u)
    <2> DEFINE lease == MinOf(user[u].at + Lease,
                              conversation[user[u].conv].handledAt + MaxControl)
               rec == [user[u] EXCEPT !.pc = "renew", !.expiresAt = lease]
    <2>1. UserStep(u, rec) /\ user[u].pc = "readRenew"
      BY <1>4 DEF ReadRenew
    <2>2. rec.pc = "renew" /\ rec.conv = user[u].conv /\ rec.at = user[u].at
          /\ rec.expiresAt = lease
      BY DEF IInv, TypeOK, UserState
    <2>3. UserKnows(u, user[u])
      BY DEF TInv, UsersOK
    <2> HIDE DEF rec
    <2>4. UserKnows(u, rec)
      BY <2>1, <2>2, <2>3 DEF UserKnows, Replying
    <2>5. QED BY <2>1, <2>4, UserMovesOn DEF UserStep, tables
  <1>5. QED BY <1>1, <1>2, <1>3, <1>4

\* The job of a conversation that is taken is cancelled, and the control
\* outlasts the turn it may be in.
LEMMA TakeTurns ==
  ASSUME PromptTurns, IInv, IInv', TInv, NEW u \in Users, TakeControl(u)
  PROVE  TInv'
  <1> DEFINE c == user[u].conv
  <1>1. /\ user[u].pc = "take" /\ user' = [user EXCEPT ![u] = IdleUser]
        /\ UNCHANGED <<clock, inbound, worker, replies, unrecorded>>
        /\ revived' = IF Revives(u) THEN revived \cup {c} ELSE revived
    BY DEF TakeControl
  <1>0. MessagesStand
    BY <1>1 DEF MessagesStand
  <1>2. c \in Conversations /\ Taking(user[u])
    BY <1>1 DEF IInv, LocalsOK, LocalsOf, TInv, UsersOK, UserKnows
  <1>3. clock \in Nat /\ user[u].startsAt \in Nat /\ user[u].at \in Nat
    BY DEF IInv, TypeOK, UserState, Times
  <1>4. /\ conversation'[c].mode = "HUMAN"
        /\ conversation'[c].handledBy = u
        /\ conversation'[c].handledAt = user[u].startsAt
        /\ conversation'[c].expiresAt = user[u].expiresAt
        /\ \A d \in Conversations : d # c => conversation'[d] = conversation[d]
    BY <1>2 DEF TakeControl, IInv, TypeOK, HumanRow
  <1>5. \A m \in Messages :
          IF inbound[m].conv = c /\ job[m].status \in {"PENDING", "PROCESSING"}
          THEN job'[m].status = "CANCELLED" ELSE job'[m] = job[m]
    BY DEF TakeControl, CancelledByTakeover, Pending, Cancelled, IInv, TypeOK, JobRow
  <1>6. RowsOK'
    <2>1. ASSUME NEW m \in Messages
          PROVE  /\ job'[m].status # "NONE" \/ inbound'[m].capture # "none" =>
                      inbound'[m].conv \in Conversations
                 /\ job'[m].status = "PROCESSING" =>
                      job'[m].lockedAt \in Times /\ ~Human(inbound[m].conv)'
      <3>1. job'[m].status # "NONE" <=> job[m].status # "NONE"
        BY <1>5
      <3>2. job'[m].status = "PROCESSING" => job'[m] = job[m] /\ inbound[m].conv # c
        BY <1>5
      <3>3. QED BY <1>1, <1>4, <3>1, <3>2 DEF TInv, RowsOK, Human
    <2>2. \A d \in Conversations : Human(d)' => conversation'[d].handledAt <= clock'
      BY <1>1, <1>2, <1>3, <1>4 DEF TInv, RowsOK, Human, Taking
    <2>3. QED BY <2>1, <2>2 DEF RowsOK
  <1>7. UsersOK'
    <2>2. \A v \in Users : user'[v] = IF v = u THEN IdleUser ELSE user[v]
      BY <1>1 DEF IInv, TypeOK
    <2>3. ASSUME NEW v \in Users PROVE UserKnows(v, user[v])'
      <3>1. UserKnows(v, user[v]) /\ (user[v].pc # "idle" => user[v].conv \in Conversations)
        BY DEF TInv, UsersOK, IInv, LocalsOK, LocalsOf
      <3>2. CASE v = u
        BY <2>2, <3>2 DEF UserKnows, IdleUser
      <3>3. CASE v # u /\ (user[v].pc = "idle" \/ user[v].conv # c)
        BY <1>1, <1>4, <2>2, <3>1, <3>3, UserStands
      <3>4. CASE v # u /\ user[v].pc = "take" /\ user[v].conv = c
        <4>1. Taking(user[v]) /\ user'[v] = user[v]
          BY <2>2, <3>1, <3>4 DEF UserKnows
        <4>2. QED BY <1>1, <3>4, <4>1 DEF UserKnows, Taking
      <3>5. CASE v # u /\ user[v].pc \notin {"idle", "take"} /\ user[v].conv = c
        <4>1. user'[v] = user[v] /\ conversation'[user[v].conv].handledBy # v
          BY <1>4, <2>2, <3>5
        <4>2. QED BY <1>1, <3>1, <3>5, <4>1 DEF UserKnows, Replying, HasControl
      <3>6. QED BY <3>2, <3>3, <3>4, <3>5
    <2>4. QED BY <2>3 DEF UsersOK
  <1>8. InHandStands
    <2>1. ASSUME NEW m \in Messages, NEW t \in Nat, inbound[m].conv \in Conversations,
                 ~Revived(m)', InHand(m, t), t <= clock, clock <= t + TurnTimeout
          PROVE  InHand(m, t)'
      <3>2. CASE inbound[m].conv # c
        BY <1>1, <1>4, <1>5, <2>1, <3>2 DEF InHand, Human
      <3>3. CASE inbound[m].conv = c
        <4>1. job'[m].status = "CANCELLED"
          BY <1>5, <2>1, <3>3 DEF InHand
        <4>2. user[u].startsAt + RequestDelay >= t
          <5>1. CASE user[u].startsAt = user[u].at
            BY <1>2, <1>3, <2>1, <5>1, SettingsAreNat DEF Taking
          <5>2. CASE user[u].startsAt # user[u].at
            <6>1. ~Revives(u)
              BY <1>1, <2>1, <3>3 DEF Revived
            <6>2. Human(c) /\ conversation[c].handledAt = user[u].startsAt
              BY <1>2, <1>3, <5>2, <6>1 DEF Revives, Taking, Human
            <6>3. QED BY <2>1, <3>3, <6>2 DEF InHand, TInv, RowsOK
          <5>3. QED BY <5>1, <5>2
        <4>3. user[u].expiresAt > t + TurnTimeout
          <5>1. t + TurnTimeout < user[u].at + Lease
                /\ t + TurnTimeout < user[u].startsAt + MaxControl
            BY <1>2, <1>3, <2>1, <4>2, SettingsAreNat DEF PromptTurns, Taking
          <5>2. QED BY <1>2, <5>1 DEF Taking, MinOf
        <4>4. QED BY <1>1, <1>4, <3>3, <4>1, <4>2, <4>3 DEF InHand
      <3>4. QED BY <3>2, <3>3
    <2>2. QED BY <2>1 DEF InHandStands
  <1>9. WorkersOK' /\ OneWorkerPerJob'
    BY <1>0, <1>1, <1>8, WorkersStand DEF TInv
  <1>10. AnswersOK'
    <2>1. \A m \in Messages : job[m].status = "COMPLETED" => job'[m].status = "COMPLETED"
      BY <1>5
    <2>2. QED BY <1>0, <1>1, <2>1, AnswersStand DEF TInv
  <1>11. QED BY <1>6, <1>7, <1>9, <1>10 DEF TInv

\* A control handed back has no lease that could end too early.
LEMMA ReturnTurns ==
  ASSUME IInv, TInv, NEW u \in Users, ReturnControl(u)
  PROVE  TInv'
  <1> DEFINE c == user[u].conv
  <1>1. /\ user[u].pc = "return" /\ user' = [user EXCEPT ![u] = IdleUser]
        /\ UNCHANGED <<clock, revived, inbound, job, worker, replies, unrecorded>>
    BY DEF ReturnControl
  <1>2. c \in Conversations
    BY <1>1 DEF IInv, LocalsOK, LocalsOf
  <1>3. /\ conversation'[c].mode = "AI"
        /\ \A d \in Conversations : d # c => conversation'[d] = conversation[d]
    BY <1>2 DEF ReturnControl, IInv, TypeOK, AiRow
  <1>4. RowsOK'
    BY <1>1, <1>3 DEF TInv, RowsOK, Human
  <1>5. UsersOK'
    <2>1. \A v \in Users : user'[v] = IF v = u THEN IdleUser ELSE user[v]
      BY <1>1 DEF IInv, TypeOK
    <2>2. ASSUME NEW v \in Users PROVE UserKnows(v, user[v])'
      <3>1. UserKnows(v, user[v]) /\ (user[v].pc # "idle" => user[v].conv \in Conversations)
        BY DEF TInv, UsersOK, IInv, LocalsOK, LocalsOf
      <3>2. CASE v = u
        BY <2>1, <3>2 DEF UserKnows, IdleUser
      <3>3. CASE v # u
        BY <1>1, <1>3, <2>1, <3>1, <3>3 DEF UserKnows, Taking, Replying, HasControl
      <3>4. QED BY <3>2, <3>3
    <2>3. QED BY <2>2 DEF UsersOK
  <1>6. InHandStands
    <2>1. ASSUME NEW m \in Messages, NEW t \in Nat, InHand(m, t),
                 inbound[m].conv \in Conversations
          PROVE  InHand(m, t)'
      BY <1>1, <1>3, <2>1 DEF InHand, Human
    <2>2. QED BY <2>1 DEF InHandStands
  <1>7. WorkersOK' /\ OneWorkerPerJob'
    BY <1>1, <1>6, WorkersStand DEF TInv, MessagesStand
  <1>8. AnswersOK'
    BY <1>1, AnswersStand DEF TInv, MessagesStand
  <1>9. QED BY <1>4, <1>5, <1>7, <1>8 DEF TInv

\* A lease that is renewed outlasts the turns its control outlasted.
LEMMA RenewTurns ==
  ASSUME PromptTurns, IInv, TInv, NEW u \in Users, RenewControl(u)
  PROVE  TInv'
  <1> DEFINE c == user[u].conv
  <1>1. /\ user[u].pc = "renew" /\ user' = [user EXCEPT ![u] = IdleUser]
        /\ UNCHANGED <<clock, revived, inbound, job, worker, replies, unrecorded>>
    BY DEF RenewControl
  <1>2. c \in Conversations /\ Replying(u, user[u]) /\ user[u].at \in Nat /\ clock \in Nat
    BY <1>1 DEF IInv, LocalsOK, LocalsOf, TInv, UsersOK, UserKnows, TypeOK, UserState, Times
  <1>3. \A d \in Conversations : /\ conversation'[d].mode = conversation[d].mode
                                 /\ conversation'[d].handledAt = conversation[d].handledAt
                                 /\ conversation'[d].handledBy = conversation[d].handledBy
                                 /\ d # c => conversation'[d] = conversation[d]
    BY <1>2 DEF RenewControl, IInv, TypeOK, ConversationRow
  <1>4. \/ conversation'[c] = conversation[c]
        \/ HasControl(u, c) /\ conversation'[c].expiresAt = user[u].expiresAt
    BY <1>2 DEF RenewControl, RenewAllowed, HasControl, IInv, TypeOK, ConversationRow
  <1>5. HasControl(u, c) =>
          /\ Human(c)
          /\ conversation[c].handledAt \in Nat /\ conversation[c].handledAt <= user[u].at
          /\ user[u].expiresAt
               = MinOf(user[u].at + Lease, conversation[c].handledAt + MaxControl)
    BY <1>1, <1>2, ControlHasStart DEF Replying, HasControl, Human, IInv, Times
  <1>6. RowsOK'
    BY <1>1, <1>3 DEF TInv, RowsOK, Human
  <1>7. UsersOK'
    <2>2. \A v \in Users : user'[v] = IF v = u THEN IdleUser ELSE user[v]
      BY <1>1 DEF IInv, TypeOK
    <2>4. ASSUME NEW v \in Users PROVE UserKnows(v, user[v])'
      <3>1. UserKnows(v, user[v]) /\ (user[v].pc # "idle" => user[v].conv \in Conversations)
        BY DEF TInv, UsersOK, IInv, LocalsOK, LocalsOf
      <3>2. CASE v = u
        BY <2>2, <3>2 DEF UserKnows, IdleUser
      <3>3. CASE v # u /\ (user[v].pc = "idle" \/ user[v].conv # c)
        BY <1>1, <1>3, <2>2, <3>1, <3>3, UserStands
      <3>4. CASE v # u /\ user[v].pc = "take" /\ user[v].conv = c
        <4>1. Taking(user[v]) /\ user'[v] = user[v]
          BY <2>2, <3>1, <3>4 DEF UserKnows
        <4>2. QED BY <1>1, <3>4, <4>1 DEF UserKnows, Taking
      <3>5. CASE v # u /\ user[v].pc \notin {"idle", "take"} /\ user[v].conv = c
        <4>1. user'[v] = user[v]
          BY <2>2, <3>5
        <4>2. QED BY <1>1, <1>2, <1>3, <3>1, <3>5, <4>1 DEF UserKnows, Replying, HasControl
      <3>6. QED BY <3>2, <3>3, <3>4, <3>5
    <2>5. QED BY <2>4 DEF UsersOK
  <1>8. InHandStands
    <2>1. ASSUME NEW m \in Messages, NEW t \in Nat, inbound[m].conv \in Conversations,
                 InHand(m, t)
          PROVE  InHand(m, t)'
      <3>2. CASE inbound[m].conv # c \/ conversation'[c] = conversation[c]
        BY <1>1, <1>3, <2>1, <3>2 DEF InHand, Human
      <3>3. CASE /\ inbound[m].conv = c
                 /\ HasControl(u, c) /\ conversation'[c].expiresAt = user[u].expiresAt
        <4>1. ASSUME conversation[c].handledAt + RequestDelay >= t
              PROVE  user[u].expiresAt > t + TurnTimeout
          <5>1. t + TurnTimeout < user[u].at + Lease
                /\ t + TurnTimeout < conversation[c].handledAt + MaxControl
            BY <1>2, <1>5, <3>3, <4>1, SettingsAreNat DEF PromptTurns
          <5>2. QED BY <1>5, <3>3, <5>1 DEF MinOf
        <4>2. QED BY <1>1, <1>2, <1>3, <2>1, <3>3, <4>1 DEF InHand, Human
      <3>4. QED BY <1>4, <3>2, <3>3
    <2>2. QED BY <2>1 DEF InHandStands
  <1>9. WorkersOK' /\ OneWorkerPerJob'
    BY <1>1, <1>8, WorkersStand DEF TInv, MessagesStand
  <1>10. AnswersOK'
    BY <1>1, AnswersStand DEF TInv, MessagesStand
  <1>11. QED BY <1>6, <1>7, <1>9, <1>10 DEF TInv

LEMMA DeliverTurns ==
  ASSUME IInv, TInv,
         UNCHANGED <<clock, revived, conversation, inbound, job, worker, user, replies, unrecorded>>
  PROVE  TInv'
  <1>0. MessagesStand
    BY DEF MessagesStand
  <1>1. RowsOK' /\ UsersOK' /\ AnswersOK'
    BY <1>0, RowsStand, UsersStand, AnswersStand DEF TInv
  <1>2. InHandStands
    BY DEF InHandStands, InHand, Human
  <1>3. QED BY <1>0, <1>1, <1>2, WorkersStand DEF TInv
-----------------------------------------------------------------------------
LEMMA InitTurns == Init => TInv
  <1> SUFFICES ASSUME Init PROVE TInv
    OBVIOUS
  <1>1. RowsOK
    BY DEF Init, RowsOK, Human, AiRow, NotReceived, NoJob
  <1>2. UsersOK
    BY DEF Init, UsersOK, UserKnows, IdleUser
  <1>3. WorkersOK /\ OneWorkerPerJob
    BY DEF Init, WorkersOK, Found, Holding, OneWorkerPerJob, IdleWorker
  <1>4. AnswersOK
    BY DEF Init, AnswersOK, Answers
  <1>5. QED BY <1>1, <1>2, <1>3, <1>4 DEF TInv

LEMMA LoopTurns ==
  ASSUME PromptTurns, IInv, TInv, NEW w \in Workers, Loop(w) \/ Crash(w)
  PROVE  TInv'
  BY FindExpiredTurns, ReleaseTurns, FindJobTurns, ClaimTurns, RespondTurns, SendTurns,
     TurnEndTurns, LostTurns
  DEF Loop

LEMMA UserTurns ==
  ASSUME PromptTurns, IInv, IInv', TInv, NEW u \in Users, UserBegins(u) \/ UserGoesOn(u)
  PROVE  TInv'
  BY CheckSetModeTurns, ReplyTurns, TakeTurns, ReturnTurns, RenewTurns
  DEF UserBegins, UserGoesOn

LEMMA CustomerTurns ==
  ASSUME PromptTurns, IInv, IInv', TInv, CustomerStep
  PROVE  TInv'
  BY ReceiveTurns, MediaTurns DEF CustomerStep

LEMMA NextTurns ==
  ASSUME PromptTurns, IInv, IInv', TInv, [Next]_vars
  PROVE  TInv'
  <1>1. ASSUME NEW c \in Quoted, DeliverQuote(c) PROVE TInv'
    BY <1>1, DeliverTurns DEF DeliverQuote
  <1>2. CASE UNCHANGED vars
    BY <1>2, DeliverTurns DEF vars
  <1>3. QED
    BY <1>1, <1>2, TickTurns, CustomerTurns, UserTurns, LoopTurns DEF Next

LEMMA TInvHolds ==
  ASSUME PromptTurns
  PROVE  Spec => []TInv
  <1>1. IInv /\ IInv' /\ TInv /\ [Next]_vars => TInv'
    BY NextTurns
  <1>2. QED BY InitTurns, <1>1, IInvHolds, PTL DEF Spec

\* claimNextJob's compare and set, the five minutes of a stale claim and the
\* minutes of a human control, together: no job that is claimed again or queued
\* again is still in the hands of another worker, however the requests of
\* several users overlap, unless one of them brought back an ended control.
THEOREM TurnsAreExclusive ==
  ASSUME PromptTurns
  PROVE  Spec => []OneWorkerPerJob
  <1>1. TInv => OneWorkerPerJob
    BY DEF TInv
  <1>2. QED BY <1>1, TInvHolds, PTL

\* An answer Twilio accepted is followed by another to the same message only if
\* completeJob never recorded it, or an ended control was brought back.
THEOREM AnswersAreCounted ==
  ASSUME PromptTurns
  PROVE  Spec => []AnsweredOnce
  <1>1. IInv /\ TInv => AnsweredOnce
    BY DEF IInv, TypeOK, TInv, AnswersOK, Answers, AnsweredOnce
  <1>2. QED BY <1>1, TInvHolds, IInvHolds, PTL

LEMMA CompletedStays ==
  ASSUME PromptTurns, IInv, TInv, [Next]_vars
  PROVE  \A m \in Messages :
           job[m].status = "COMPLETED" => job'[m].status = "COMPLETED" \/ Revived(m)
  <1> DEFINE Stays == \A m \in Messages :
               job[m].status = "COMPLETED" => job'[m].status = "COMPLETED" \/ Revived(m)
  <1>1. CASE job' = job
    BY <1>1
  <1>2. ASSUME NEW m \in Messages, NEW c \in Conversations, NEW at \in Times,
               NEW media \in MediaInputs, NEW enabled \in AssistantModes,
               Receive(m, c, at, media, enabled)
        PROVE  Stays
    <2>1. inbound[m].conv = None => job[m].status = "NONE"
      BY ConstantsAssumption DEF TInv, RowsOK
    <2>2. QED BY <1>2, <2>1 DEF Receive, IInv, TypeOK
  <1>3. ASSUME NEW m \in Messages, EnqueueForMedia(m)
        PROVE  Stays
    BY <1>3 DEF EnqueueForMedia, IInv, TypeOK
  <1>4. ASSUME NEW u \in Users, TakeControl(u)
        PROVE  Stays
    BY <1>4 DEF TakeControl, CancelledByTakeover, Pending
  <1>5. ASSUME NEW w \in Workers, NEW c \in Conversations, ReleaseExpired(w, c)
        PROVE  Stays
    <2>1. ASSUME NEW m \in Messages, QueuedOnRelease(m),
                 job' = [job EXCEPT ![m] = Queued(m, worker[w].at)]
          PROVE  Stays
      BY <2>1 DEF QueuedOnRelease, IInv, TypeOK
    <2>2. QED BY <1>1, <1>5, <2>1 DEF ReleaseExpired, LatestInbound, MessagesOf
  <1>6. ASSUME NEW w \in Workers, ClaimJob(w)
        PROVE  Stays
    <2>1. worker[w].seen # "COMPLETED"
      BY <1>6 DEF ClaimJob, TInv, WorkersOK, Found
    <2>2. QED BY <1>1, <1>6, <2>1 DEF ClaimJob, StillAsFound, IInv, TypeOK
  <1>7. ASSUME NEW w \in Workers, CancelJob(w) \/ CompleteJob(w) \/ FailJob(w)
        PROVE  Stays
    <2>1. Holding(w)
      BY <1>7 DEF CancelJob, CompleteJob, FailJob, Holding
    <2>2. job[worker[w].msg].status # "COMPLETED" \/ Revived(worker[w].msg)
      BY <2>1, HeldIsOpen
    <2>3. \A n \in Messages : n # worker[w].msg => job'[n] = job[n]
      BY <1>7 DEF CancelJob, CompleteJob, FailJob, IInv, TypeOK
    <2>4. QED BY <2>2, <2>3
  <1>8. ASSUME NEW u \in Users, UserBegins(u) \/ UserGoesOn(u)
        PROVE  Stays
    <2>1. CASE TakeControl(u)
      BY <1>4, <2>1
    <2>2. CASE ~TakeControl(u)
      BY <1>1, <1>8, <2>2
      DEF UserBegins, UserGoesOn, CheckSetMode, CheckReply, ReturnControl, SendReply,
          RecordManualMessage, ReadRenew, RenewControl, StopUser, UserStep, tables
    <2>3. QED BY <2>1, <2>2
  <1>9. CASE CustomerStep
    BY <1>1, <1>2, <1>3, <1>9 DEF CustomerStep, ReadModeForMedia, CaptureFails
  <1>10. ASSUME NEW w \in Workers, Loop(w) \/ Crash(w)
         PROVE  Stays
    BY <1>1, <1>5, <1>6, <1>7, <1>10
    DEF Loop, FindExpired, FindJob, Respond, RespondFails, CheckMode, SendAnswer, SendFails,
        CompleteFails, Crash, WorkerStep, tables
  <1>11. QED
    BY <1>1, <1>8, <1>9, <1>10 DEF Next, Tick, DeliverQuote, vars, tables

\* No takeover, expiry, late cancellation or late failure undoes completeJob:
\* failJob and cancelJob write by id, but only during a turn, and a job in a
\* turn is not completed, unless an ended control was brought back.
THEOREM CompletedForGood ==
  ASSUME PromptTurns
  PROVE  Spec => CompletedIsFinal
  <1>1. IInv /\ TInv /\ [Next]_vars =>
          [\A m \in Messages : job[m].status = "COMPLETED" =>
             job'[m].status = "COMPLETED" \/ Revived(m)]_vars
    BY CompletedStays
  <1>2. QED BY <1>1, IInvHolds, TInvHolds, PTL DEF Spec, CompletedIsFinal
=============================================================================
