---------------------- MODULE WhatsAppAssistant_proofs ----------------------
(***************************************************************************)
(* Proofs that, for any number of workers, users, conversations and        *)
(* messages and any settings, the tables and the locals of the processes   *)
(* keep their types and no human control is extended beyond its limit.     *)
(***************************************************************************)
EXTENDS WhatsAppAssistant, TLAPS

HasControl(u, c) ==
  conversation[c].mode = "HUMAN" /\ conversation[c].handledBy = u

\* What the request of a user carries from its reads to its writes: the lease
\* it is about to store keeps to the limit of the control it will find.
LocalsOf(u, rec) ==
  /\ rec.pc # "idle" => rec.conv \in Conversations
  /\ rec.pc = "take" => rec.expiresAt <= rec.startsAt + MaxControl
  /\ rec.pc = "renew" /\ HasControl(u, rec.conv) =>
       rec.expiresAt <= conversation[rec.conv].handledAt + MaxControl

LocalsOK == \A u \in Users : LocalsOf(u, user[u])

WithinMaximum(row) ==
  row.mode = "HUMAN" => row.expiresAt <= row.handledAt + MaxControl

IInv == TypeOK /\ LocalsOK /\ LeaseWithinMaximum
-----------------------------------------------------------------------------
(* Values.                                                                 *)

LEMMA MinOfNat ==
  ASSUME NEW a \in Nat, NEW b \in Nat
  PROVE  MinOf(a, b) \in Nat /\ MinOf(a, b) <= b
  BY DEF MinOf

LEMMA SettingsNat == {Lease, Grace, MaxControl, Backoff} \subseteq Nat
  BY ConstantsAssumption

LEMMA ZeroTime == 0 \in Times
  BY ConstantsAssumption DEF Times

LEMMA IdleTypes == IdleWorker \in WorkerState /\ IdleUser \in UserState
  BY ZeroTime DEF IdleWorker, IdleUser, WorkerState, UserState

LEMMA AiRowType ==
  ASSUME NEW t \in Times \cup {None}
  PROVE  /\ AiRow(t) \in ConversationRow
         /\ ControlColumns(AiRow(t)) /\ AiRow(t).mode = "AI"
  BY DEF AiRow, ConversationRow, ControlColumns

LEMMA HumanRowType ==
  ASSUME NEW u \in Users, NEW s \in Times, NEW e \in Nat,
         NEW t \in Times \cup {None}
  PROVE  /\ HumanRow(u, s, e, t) \in ConversationRow
         /\ ControlColumns(HumanRow(u, s, e, t))
         /\ HumanRow(u, s, e, t).handledBy = u
         /\ HumanRow(u, s, e, t).handledAt = s
         /\ HumanRow(u, s, e, t).expiresAt = e
  BY ConstantsAssumption DEF HumanRow, ConversationRow, ControlColumns, Times

LEMMA JobTypes ==
  /\ NoJob \in JobRow
  /\ \A t \in Times, d \in Nat : NewJob(t, d) \in JobRow
  BY ZeroTime DEF NoJob, NewJob, JobRow

\* Under human control the three columns have a value.
LEMMA ControlHasStart ==
  ASSUME TypeOK, NEW c \in Conversations, conversation[c].mode = "HUMAN"
  PROVE  /\ conversation[c].handledAt \in Times
         /\ conversation[c].expiresAt \in Nat
         /\ conversation[c].handledBy \in Users
  BY DEF TypeOK, ConversationRow, ControlColumns
-----------------------------------------------------------------------------
(* Steps that leave the conversations alone.                               *)

LEMMA ControlKept ==
  ASSUME LocalsOK, LeaseWithinMaximum, UNCHANGED <<conversation, user>>
  PROVE  LocalsOK' /\ LeaseWithinMaximum'
  BY DEF LocalsOK, LocalsOf, HasControl, LeaseWithinMaximum

LEMMA WorkerMoves ==
  ASSUME IInv, NEW w \in Workers, NEW rec \in WorkerState, WorkerStep(w, rec)
  PROVE  IInv'
  <1>1. TypeOK'
    BY DEF IInv, TypeOK, WorkerStep, tables
  <1>2. QED
    BY <1>1, ControlKept DEF IInv, WorkerStep, tables

LEMMA UserMoves ==
  ASSUME IInv, NEW u \in Users, NEW rec \in UserState, LocalsOf(u, rec),
         UserStep(u, rec)
  PROVE  IInv'
  <1>1. TypeOK'
    BY DEF IInv, TypeOK, UserStep, tables
  <1>2. \A v \in Users : user'[v] = IF v = u THEN rec ELSE user[v]
    BY DEF IInv, TypeOK, UserStep
  <1>3. LocalsOK'
    BY <1>2 DEF IInv, LocalsOK, LocalsOf, HasControl, UserStep, tables
  <1>4. QED
    BY <1>1, <1>3 DEF IInv, LeaseWithinMaximum, UserStep, tables

-----------------------------------------------------------------------------
(* Steps that write one conversation.                                      *)

\* The row gives the control to nobody new and keeps its start, so that a
\* lease computed from it is still within the limit.
SameStart(c, row) ==
  row.mode = "HUMAN" =>
    HasControl(row.handledBy, c) /\ row.handledAt = conversation[c].handledAt

LEMMA ConversationWritten ==
  ASSUME IInv, NEW c \in Conversations, NEW row \in ConversationRow,
         ControlColumns(row), WithinMaximum(row),
         conversation' = [conversation EXCEPT ![c] = row]
  PROVE  /\ conversation' \in [Conversations -> ConversationRow]
         /\ \A d \in Conversations : ControlColumns(conversation'[d])
         /\ LeaseWithinMaximum'
  <1>1. \A d \in Conversations :
          conversation'[d] = IF d = c THEN row ELSE conversation[d]
    BY DEF IInv, TypeOK
  <1>2. QED
    BY <1>1 DEF IInv, TypeOK, LeaseWithinMaximum, WithinMaximum

\* Nobody but u moves on, to idle; no control changes hands or start unless
\* the written row says so.
LEMMA UserWrites ==
  ASSUME IInv, NEW u \in Users, NEW c \in Conversations,
         NEW row \in ConversationRow, SameStart(c, row) \/ row.handledBy = u,
         conversation' = [conversation EXCEPT ![c] = row],
         user' = [user EXCEPT ![u] = IdleUser]
  PROVE  user' \in [Users -> UserState] /\ LocalsOK'
  <1>1. \A d \in Conversations :
          conversation'[d] = IF d = c THEN row ELSE conversation[d]
    BY DEF IInv, TypeOK
  <1>2. \A v \in Users : user'[v] = IF v = u THEN IdleUser ELSE user[v]
    BY DEF IInv, TypeOK
  <1>3. ASSUME NEW v \in Users PROVE LocalsOf(v, user[v])'
    <2>1. CASE v = u
      BY <2>1, <1>2 DEF LocalsOf, IdleUser
    <2>2. CASE v # u
      <3>1. user'[v] = user[v] /\ LocalsOf(v, user[v])
        BY <2>2, <1>2 DEF IInv, LocalsOK
      <3>2. ASSUME user[v].pc = "renew", HasControl(v, user[v].conv)'
            PROVE  user[v].expiresAt <= conversation'[user[v].conv].handledAt + MaxControl
        <4>1. user[v].conv \in Conversations
          BY <3>1, <3>2 DEF LocalsOf
        <4>2. CASE user[v].conv # c
          BY <4>1, <4>2, <3>1, <3>2, <1>1 DEF LocalsOf, HasControl
        <4>3. CASE user[v].conv = c
          <5>1. conversation'[c] = row /\ row.mode = "HUMAN" /\ row.handledBy = v
            BY <4>3, <3>1, <3>2, <1>1 DEF HasControl
          <5>2. SameStart(c, row)
            BY <5>1, <2>2
          <5>3. QED
            BY <5>1, <5>2, <4>3, <3>1, <3>2 DEF SameStart, LocalsOf
        <4>4. QED BY <4>2, <4>3
      <3>3. QED BY <3>1, <3>2 DEF LocalsOf
    <2>3. QED BY <2>1, <2>2
  <1>4. QED
    BY <1>2, <1>3, IdleTypes DEF IInv, TypeOK, LocalsOK

LEMMA OthersWrite ==
  ASSUME IInv, NEW c \in Conversations, NEW row \in ConversationRow,
         SameStart(c, row), UNCHANGED user,
         conversation' = [conversation EXCEPT ![c] = row]
  PROVE  LocalsOK'
  <1>1. \A d \in Conversations :
          conversation'[d] = IF d = c THEN row ELSE conversation[d]
    BY DEF IInv, TypeOK
  <1>2. QED
    BY <1>1 DEF IInv, LocalsOK, LocalsOf, HasControl, SameStart
-----------------------------------------------------------------------------
(* The initial states and the actions, in the order of the specification.  *)

LEMMA InitIInv == Init => IInv
  <1> SUFFICES ASSUME Init PROVE IInv
    OBVIOUS
  <1>2. TypeOK
    <2>1. \A c \in Conversations : conversation[c] \in ConversationRow
                                   /\ ControlColumns(conversation[c])
      BY AiRowType DEF Init
    <2>2. NotReceived \in InboundRow
      BY ZeroTime DEF NotReceived, InboundRow
    <2>3. failures \in 0..MaxFailures
      BY ConstantsAssumption DEF Init
    <2>4. QED
      BY <2>1, <2>2, <2>3, ZeroTime, IdleTypes, JobTypes DEF Init, TypeOK
  <1>3. LocalsOK
    BY DEF Init, LocalsOK, LocalsOf, IdleUser
  <1>4. LeaseWithinMaximum
    BY AiRowType DEF Init, LeaseWithinMaximum
  <1>5. QED BY <1>2, <1>3, <1>4 DEF IInv

LEMMA TickSafe == ASSUME IInv, Tick PROVE IInv'
  <1>1. clock' \in Times
    BY ConstantsAssumption DEF IInv, TypeOK, Tick, Times
  <1>2. TypeOK'
    BY <1>1 DEF IInv, TypeOK, Tick, tables
  <1>3. QED BY <1>2, ControlKept DEF IInv, Tick, tables

LEMMA FailureCounted ==
  ASSUME TypeOK, Failure
  PROVE  failures' \in 0..MaxFailures
  BY ConstantsAssumption DEF TypeOK, Failure

LEMMA ReceiveSafe ==
  ASSUME IInv, NEW m \in Messages, NEW c \in Conversations, NEW at \in Times,
         NEW media \in MediaInputs, NEW enabled \in AssistantModes,
         Receive(m, c, at, media, enabled)
  PROVE  IInv'
  <1> DEFINE new == inbound[m].conv = None
             row == [conversation[c] EXCEPT
               !.expiresAt = IF conversation[c].mode = "HUMAN"
                             THEN GraceEnd(c, at) ELSE @,
               !.lastInboundAt = IF new THEN LastInboundAt(c, at) ELSE @]
  <1>1. conversation' = [conversation EXCEPT ![c] = row]
    BY DEF Receive
  <1>2. conversation[c].mode = "HUMAN" =>
          /\ GraceEnd(c, at) \in Nat
          /\ GraceEnd(c, at) <= conversation[c].handledAt + MaxControl
    <2>1. SUFFICES ASSUME conversation[c].mode = "HUMAN"
                   PROVE  /\ GraceEnd(c, at) \in Nat
                          /\ GraceEnd(c, at) <= conversation[c].handledAt + MaxControl
      OBVIOUS
    <2>2. at + Grace \in Nat /\ conversation[c].handledAt + MaxControl \in Nat
      BY <2>1, ControlHasStart, ConstantsAssumption DEF IInv, Times
    <2>3. QED BY <2>2, MinOfNat DEF GraceEnd
  <1>3. LastInboundAt(c, at) \in Times \cup {None}
    BY DEF IInv, TypeOK, ConversationRow, LastInboundAt
  <1>4. /\ row \in ConversationRow
        /\ ControlColumns(row) /\ WithinMaximum(row) /\ SameStart(c, row)
    <2> DEFINE e == IF conversation[c].mode = "HUMAN"
                    THEN GraceEnd(c, at) ELSE conversation[c].expiresAt
               t == IF new THEN LastInboundAt(c, at)
                    ELSE conversation[c].lastInboundAt
    <2>1. conversation[c] \in ConversationRow /\ ControlColumns(conversation[c])
      BY DEF IInv, TypeOK
    <2>2. t \in Times \cup {None}
      BY <2>1, <1>3 DEF ConversationRow
    <2>3. conversation[c].mode = "HUMAN" => e \in Nat
      BY <1>2
    <2>4. conversation[c].mode = "AI" => e = conversation[c].expiresAt
      OBVIOUS
    <2>5. conversation[c].mode = "HUMAN" =>
            e <= conversation[c].handledAt + MaxControl
      BY <1>2
    <2>6. row = [conversation[c] EXCEPT !.expiresAt = e, !.lastInboundAt = t]
      OBVIOUS
    <2> HIDE DEF e, t, row
    <2>7. /\ row.mode = conversation[c].mode
          /\ row.handledBy = conversation[c].handledBy
          /\ row.handledAt = conversation[c].handledAt
          /\ row.expiresAt = e /\ row.lastInboundAt = t
      BY <2>6, <2>1 DEF ConversationRow
    <2>8. row \in ConversationRow
      BY <2>1, <2>2, <2>3, <2>4, <2>6 DEF ConversationRow
    <2>9. ControlColumns(row)
      BY <2>1, <2>3, <2>4, <2>7, ConstantsAssumption DEF ControlColumns, ConversationRow
    <2>10. WithinMaximum(row) /\ SameStart(c, row)
      BY <2>5, <2>7 DEF WithinMaximum, SameStart, HasControl
    <2>11. QED BY <2>8, <2>9, <2>10
  <1> HIDE DEF row
  <1>5. inbound' \in [Messages -> InboundRow]
    <2>1. media \in BOOLEAN
      BY ConstantsAssumption
    <2>2. QED BY <2>1 DEF IInv, TypeOK, Receive, InboundRow
  <1>6. job' \in [Messages -> JobRow]
    <2>1. NewJob(clock, clock) \in JobRow
      BY JobTypes DEF IInv, TypeOK, Times
    <2>2. QED BY <2>1 DEF IInv, TypeOK, Receive
  <1>7. LocalsOK'
    BY <1>1, <1>4, OthersWrite DEF Receive
  <1>8. QED
    BY <1>1, <1>4, <1>5, <1>6, <1>7, ConversationWritten DEF IInv, TypeOK, Receive

LEMMA MediaSafe ==
  ASSUME IInv, NEW m \in Messages,
         ReadModeForMedia(m) \/ EnqueueForMedia(m) \/ CaptureFails(m)
  PROVE  IInv'
  <1>1. LocalsOK' /\ LeaseWithinMaximum'
    BY ControlKept DEF IInv, ReadModeForMedia, EnqueueForMedia, CaptureFails
  <1>2. CASE ReadModeForMedia(m)
    BY <1>1, <1>2 DEF IInv, TypeOK, InboundRow, ReadModeForMedia
  <1>3. CASE EnqueueForMedia(m)
    <2>1. NewJob(clock, clock) \in JobRow
      BY JobTypes DEF IInv, TypeOK, Times
    <2>2. QED
      BY <1>1, <1>3, <2>1 DEF IInv, TypeOK, InboundRow, EnqueueForMedia
  <1>4. CASE CaptureFails(m)
    BY <1>1, <1>4, FailureCounted DEF IInv, TypeOK, InboundRow, CaptureFails
  <1>5. QED BY <1>2, <1>3, <1>4

LEMMA CheckSetModeSafe ==
  ASSUME IInv, NEW u \in Users, NEW c \in Conversations,
         NEW mode \in ModeRequests, CheckSetMode(u, c, mode)
  PROVE  IInv'
  <1> DEFINE lease == MinOf(clock + Lease, StartsAt(c) + MaxControl)
             rec == [pc |-> mode, conv |-> c, at |-> clock,
                     startsAt |-> StartsAt(c), expiresAt |-> lease]
  <1>1. clock \in Times /\ clock \in Nat
    BY DEF IInv, TypeOK, Times
  <1>2. StartsAt(c) \in Times /\ StartsAt(c) \in Nat
    BY <1>1, ControlHasStart DEF IInv, StartsAt, UnderControl, Times
  <1>3. lease \in Nat /\ lease <= StartsAt(c) + MaxControl
    <2>1. clock + Lease \in Nat /\ StartsAt(c) + MaxControl \in Nat
      BY <1>1, <1>2, ConstantsAssumption
    <2>2. QED BY <2>1, MinOfNat
  <1>4. mode \in {"take", "return"}
    BY ConstantsAssumption
  <1> HIDE DEF lease
  <1>5. rec \in UserState
    BY <1>1, <1>2, <1>3, <1>4 DEF UserState
  <1>6. LocalsOf(u, rec)
    BY <1>3, <1>4 DEF LocalsOf
  <1>7. UserStep(u, rec)
    BY DEF CheckSetMode, lease
  <1>8. QED BY <1>5, <1>6, <1>7, UserMoves

LEMMA TakeControlSafe ==
  ASSUME IInv, NEW u \in Users, TakeControl(u)
  PROVE  IInv'
  <1> DEFINE c == user[u].conv
             row == HumanRow(u, user[u].startsAt, user[u].expiresAt,
                             conversation[c].lastInboundAt)
  <1>1. user[u] \in UserState /\ user[u].pc = "take"
    BY DEF IInv, TypeOK, TakeControl
  <1>2. c \in Conversations /\ user[u].expiresAt <= user[u].startsAt + MaxControl
    BY <1>1 DEF IInv, LocalsOK, LocalsOf
  <1>3. conversation[c].lastInboundAt \in Times \cup {None}
    BY <1>2 DEF IInv, TypeOK, ConversationRow
  <1>4. /\ row \in ConversationRow /\ ControlColumns(row)
        /\ row.handledBy = u /\ WithinMaximum(row)
    BY <1>1, <1>2, <1>3, HumanRowType DEF WithinMaximum, UserState
  <1>5. conversation' = [conversation EXCEPT ![c] = row]
    BY DEF TakeControl
  <1>6. job' \in [Messages -> JobRow]
    <2>1. \A m \in Messages : Cancelled(job[m]) \in JobRow
      BY DEF IInv, TypeOK, Cancelled, JobRow
    <2>2. QED BY <2>1 DEF IInv, TypeOK, TakeControl
  <1>7. revived' \subseteq Conversations
    BY <1>2 DEF IInv, TypeOK, TakeControl
  <1> HIDE DEF c, row
  <1>8. user' \in [Users -> UserState] /\ LocalsOK'
    <2>1. user' = [user EXCEPT ![u] = IdleUser]
      BY DEF TakeControl
    <2>2. QED BY <2>1, <1>2, <1>4, <1>5, UserWrites
  <1>9. QED
    BY <1>2, <1>4, <1>5, <1>6, <1>7, <1>8, ConversationWritten DEF IInv, TypeOK, TakeControl

LEMMA ReturnControlSafe ==
  ASSUME IInv, NEW u \in Users, ReturnControl(u)
  PROVE  IInv'
  <1> DEFINE c == user[u].conv
             row == AiRow(conversation[c].lastInboundAt)
  <1>1. c \in Conversations
    BY DEF IInv, LocalsOK, LocalsOf, ReturnControl
  <1>2. conversation[c].lastInboundAt \in Times \cup {None}
    BY <1>1 DEF IInv, TypeOK, ConversationRow
  <1>3. /\ row \in ConversationRow /\ ControlColumns(row)
        /\ SameStart(c, row) /\ WithinMaximum(row)
    BY <1>2, AiRowType DEF SameStart, WithinMaximum
  <1>4. conversation' = [conversation EXCEPT ![c] = row]
    BY DEF ReturnControl
  <1> HIDE DEF c, row
  <1>5. user' \in [Users -> UserState] /\ LocalsOK'
    BY <1>1, <1>3, <1>4, UserWrites DEF ReturnControl
  <1>6. QED
    BY <1>1, <1>3, <1>4, <1>5, ConversationWritten DEF IInv, TypeOK, ReturnControl

\* The steps of a manual reply that write no conversation, and giving up.
LEMMA ReplySafe ==
  ASSUME IInv, NEW u \in Users,
         \/ \E c \in Conversations : CheckReply(u, c)
         \/ SendReply(u) \/ StopUser(u)
  PROVE  IInv'
  <1>1. user[u] \in UserState /\ LocalsOf(u, user[u]) /\ clock \in Times
    BY DEF IInv, TypeOK, LocalsOK
  <1>2. ASSUME NEW c \in Conversations, CheckReply(u, c) PROVE IInv'
    <2> DEFINE rec == [IdleUser EXCEPT !.pc = "send", !.conv = c, !.at = clock]
    <2>1. rec \in UserState /\ LocalsOf(u, rec)
      BY <1>1, ZeroTime DEF UserState, LocalsOf, IdleUser
    <2>2. UserStep(u, rec)
      BY <1>2 DEF CheckReply
    <2>3. QED BY <2>1, <2>2, UserMoves
  <1>3. CASE SendReply(u)
    <2> DEFINE rec == [user[u] EXCEPT !.pc = "record"]
    <2>1. rec \in UserState /\ LocalsOf(u, rec)
      BY <1>1, <1>3 DEF UserState, LocalsOf, SendReply
    <2>2. UserStep(u, rec)
      BY <1>3 DEF SendReply
    <2>3. QED BY <2>1, <2>2, UserMoves
  <1>4. CASE StopUser(u)
    <2>1. LocalsOf(u, IdleUser)
      BY DEF LocalsOf, IdleUser
    <2>2. QED BY <1>4, <2>1, IdleTypes, UserMoves DEF StopUser
  <1>5. QED BY <1>2, <1>3, <1>4

LEMMA RecordManualMessageSafe ==
  ASSUME IInv, NEW u \in Users, RecordManualMessage(u)
  PROVE  IInv'
  <1>1. user[u] \in UserState /\ user[u].pc = "record" /\ LocalsOf(u, user[u])
    BY DEF IInv, TypeOK, LocalsOK, RecordManualMessage
  <1>2. manualReply' \in [Conversations -> Times \cup {None}]
    BY <1>1 DEF IInv, TypeOK, RecordManualMessage, UserState
  <1>3. [user[u] EXCEPT !.pc = "readRenew"] \in UserState
    BY <1>1 DEF UserState
  <1>4. \A v \in Users :
          user'[v] = IF v = u THEN [user[u] EXCEPT !.pc = "readRenew"] ELSE user[v]
    BY DEF IInv, TypeOK, RecordManualMessage
  <1>5. LocalsOK'
    <2>1. user'[u].pc = "readRenew" /\ user'[u].conv \in Conversations
      BY <1>1, <1>4 DEF UserState, LocalsOf
    <2>2. QED
      BY <1>4, <2>1 DEF IInv, LocalsOK, LocalsOf, HasControl, RecordManualMessage
  <1>6. QED
    BY <1>2, <1>3, <1>4, <1>5 DEF IInv, TypeOK, LeaseWithinMaximum, RecordManualMessage

LEMMA ReadRenewSafe ==
  ASSUME IInv, NEW u \in Users, ReadRenew(u)
  PROVE  IInv'
  <1> DEFINE row == conversation[user[u].conv]
             lease == MinOf(user[u].at + Lease, row.handledAt + MaxControl)
             rec == [user[u] EXCEPT !.pc = "renew", !.expiresAt = lease]
  <1>1. user[u] \in UserState /\ user[u].conv \in Conversations /\ user[u].at \in Nat
    BY DEF IInv, TypeOK, LocalsOK, LocalsOf, ReadRenew, UserState, Times
  <1>2. row.handledAt \in Nat
    BY <1>1, ControlHasStart DEF IInv, ReadRenew, RenewAllowed, Times
  <1>3. lease \in Nat /\ lease <= row.handledAt + MaxControl
    <2>1. user[u].at + Lease \in Nat /\ row.handledAt + MaxControl \in Nat
      BY <1>1, <1>2, ConstantsAssumption
    <2>2. QED BY <2>1, MinOfNat
  <1> HIDE DEF lease
  <1>4. rec \in UserState
    BY <1>1, <1>3 DEF UserState
  <1>5. LocalsOf(u, rec)
    BY <1>1, <1>3 DEF LocalsOf, UserState
  <1>6. UserStep(u, rec)
    BY DEF ReadRenew, lease
  <1>7. QED BY <1>4, <1>5, <1>6, UserMoves

LEMMA RenewControlSafe ==
  ASSUME IInv, NEW u \in Users, RenewControl(u)
  PROVE  IInv'
  <1> DEFINE c == user[u].conv
             row == [conversation[c] EXCEPT !.expiresAt = user[u].expiresAt]
  <1>1. /\ c \in Conversations /\ user[u].expiresAt \in Nat
        /\ user[u].pc = "renew" /\ LocalsOf(u, user[u])
        /\ user' = [user EXCEPT ![u] = IdleUser]
    BY DEF IInv, TypeOK, LocalsOK, LocalsOf, RenewControl, UserState
  <1>2. conversation[c] \in ConversationRow /\ ControlColumns(conversation[c])
    BY <1>1 DEF IInv, TypeOK
  <1>3. CASE ~RenewAllowed(u)
    <2>1. conversation' = conversation
      BY <1>3 DEF RenewControl
    <2>2. \A v \in Users : user'[v] = IF v = u THEN IdleUser ELSE user[v]
      BY <1>1 DEF IInv, TypeOK
    <2>3. LocalsOK' /\ LeaseWithinMaximum'
      BY <2>1, <2>2 DEF IInv, LocalsOK, LocalsOf, HasControl, LeaseWithinMaximum, IdleUser
    <2>4. user' \in [Users -> UserState]
      BY <1>1, IdleTypes DEF IInv, TypeOK
    <2>5. QED
      BY <2>1, <2>3, <2>4 DEF IInv, TypeOK, RenewControl
  <1>4. CASE RenewAllowed(u)
    <2>1. conversation[c].mode = "HUMAN" /\ conversation[c].handledBy = u
      BY <1>4 DEF RenewAllowed
    <2>2. user[u].expiresAt <= conversation[c].handledAt + MaxControl
      BY <1>1, <2>1 DEF LocalsOf, HasControl
    <2>3. conversation' = [conversation EXCEPT ![c] = row]
      BY <1>4 DEF RenewControl
    <2>4. /\ row.mode = "HUMAN" /\ row.handledBy = u
          /\ row.handledAt = conversation[c].handledAt
          /\ row.expiresAt = user[u].expiresAt
      BY <1>2, <2>1 DEF ConversationRow
    <2>5. row \in ConversationRow
      BY <1>1, <1>2 DEF ConversationRow
    <2>6. ControlColumns(row)
      BY <1>1, <1>2, <2>1, <2>4, ConstantsAssumption DEF ControlColumns
    <2>7. SameStart(c, row) /\ WithinMaximum(row)
      BY <2>1, <2>2, <2>4 DEF SameStart, HasControl, WithinMaximum
    <2> HIDE DEF c, row
    <2>8. user' \in [Users -> UserState] /\ LocalsOK'
      BY <1>1, <2>3, <2>5, <2>7, UserWrites
    <2>9. QED
      BY <1>1, <2>3, <2>5, <2>6, <2>7, <2>8, ConversationWritten
      DEF IInv, TypeOK, RenewControl
  <1>5. QED BY <1>3, <1>4

LEMMA DeliverQuoteSafe ==
  ASSUME IInv, NEW c \in Conversations, DeliverQuote(c)
  PROVE  IInv'
  BY ControlKept DEF IInv, TypeOK, DeliverQuote
-----------------------------------------------------------------------------
(* The loop of the worker.                                                 *)

\* Steps of a worker that write none of the tables.
LEMMA LookSafe ==
  ASSUME IInv, NEW w \in Workers,
         \/ \E enabled \in AssistantModes : FindExpired(w, enabled)
         \/ FindJob(w) \/ Respond(w) \/ CheckMode(w)
  PROVE  IInv'
  <1>1. worker[w] \in WorkerState /\ clock \in Times
    BY DEF IInv, TypeOK
  <1>2. ASSUME NEW enabled \in AssistantModes, FindExpired(w, enabled) PROVE IInv'
    <2> DEFINE found == {c \in Conversations : Expired(c, clock)}
               rec == IF found = {}
                      THEN [IdleWorker EXCEPT !.pc = "find", !.enabled = enabled]
                      ELSE [IdleWorker EXCEPT !.pc = "release", !.at = clock,
                                              !.found = found, !.enabled = enabled]
    <2>1. enabled \in BOOLEAN
      BY ConstantsAssumption
    <2>2. found \in SUBSET Conversations
      OBVIOUS
    <2>3. WorkerStep(w, rec)
      BY <1>2 DEF FindExpired
    <2> HIDE DEF found
    <2>4. rec \in WorkerState
      BY <1>1, <2>1, <2>2, IdleTypes DEF WorkerState, IdleWorker
    <2>5. QED BY <2>3, <2>4, WorkerMoves
  <1>3. CASE FindJob(w)
    <2>1. CASE WorkerStep(w, IdleWorker)
      BY <2>1, WorkerMoves, IdleTypes
    <2>2. ASSUME NEW m \in Messages, Claimable(m),
                 WorkerStep(w, [IdleWorker EXCEPT
                   !.pc = "claim", !.msg = m, !.seen = job[m].status,
                   !.seenLock = job[m].lockedAt, !.attempts = job[m].attempts + 1])
          PROVE  IInv'
      <3>1. job[m] \in JobRow /\ job[m].status \in {"PENDING", "PROCESSING"}
        BY <2>2 DEF IInv, TypeOK, Claimable
      <3>2. [IdleWorker EXCEPT
               !.pc = "claim", !.msg = m, !.seen = job[m].status,
               !.seenLock = job[m].lockedAt, !.attempts = job[m].attempts + 1]
              \in WorkerState
        <4>1. job[m].attempts + 1 \in Nat /\ job[m].lockedAt \in Times \cup {None}
          BY <3>1 DEF JobRow
        <4>2. {} \in SUBSET Conversations
          OBVIOUS
        <4>3. QED BY <3>1, <4>1, <4>2, ZeroTime DEF WorkerState, IdleWorker
      <3>3. QED BY <3>2, <2>2, WorkerMoves
    <2>3. QED BY <1>3, <2>1, <2>2 DEF FindJob
  <1>4. CASE Respond(w)
    <2>1. [worker[w] EXCEPT !.pc = "check"] \in WorkerState
      BY <1>1 DEF WorkerState
    <2>2. QED BY <1>4, <2>1, WorkerMoves DEF Respond
  <1>5. CASE CheckMode(w)
    <2> DEFINE next == IF conversation[inbound[worker[w].msg].conv].mode = "AI"
                       THEN "send" ELSE "cancel"
    <2>1. WorkerStep(w, [worker[w] EXCEPT !.pc = next])
      BY <1>5 DEF CheckMode
    <2>2. next \in {"send", "cancel"}
      OBVIOUS
    <2> HIDE DEF next
    <2>3. [worker[w] EXCEPT !.pc = next] \in WorkerState
      BY <1>1, <2>2 DEF WorkerState
    <2>4. QED BY <2>1, <2>3, WorkerMoves
  <1>6. QED BY <1>2, <1>3, <1>4, <1>5

LEMMA ReleaseExpiredSafe ==
  ASSUME IInv, NEW w \in Workers, NEW c \in Conversations, ReleaseExpired(w, c)
  PROVE  IInv'
  <1> DEFINE row == AiRow(conversation[c].lastInboundAt)
  <1>1. worker' \in [Workers -> WorkerState]
    <2>1. NextRelease(w, worker[w].found \ {c}) \in WorkerState
      BY IdleTypes DEF IInv, TypeOK, NextRelease, WorkerState, IdleWorker
    <2>2. QED BY <2>1 DEF IInv, TypeOK, ReleaseExpired
  <1>2. CASE UNCHANGED <<conversation, job>>
    BY <1>1, <1>2, ControlKept DEF IInv, TypeOK, ReleaseExpired
  <1>3. CASE conversation' = [conversation EXCEPT ![c] = row]
             /\ job' \in [Messages -> JobRow]
    <2>1. conversation[c].lastInboundAt \in Times \cup {None}
      BY DEF IInv, TypeOK, ConversationRow
    <2>2. /\ row \in ConversationRow /\ ControlColumns(row)
          /\ SameStart(c, row) /\ WithinMaximum(row)
      BY <2>1, AiRowType DEF SameStart, WithinMaximum
    <2> HIDE DEF row
    <2>3. LocalsOK'
      BY <1>3, <2>2, OthersWrite DEF ReleaseExpired
    <2>4. QED
      BY <1>1, <1>3, <2>2, <2>3, ConversationWritten DEF IInv, TypeOK, ReleaseExpired
  <1>4. \A m \in Messages : Queued(m, worker[w].at) \in JobRow
    <2>1. worker[w].at \in Nat
      BY DEF IInv, TypeOK, WorkerState, Times
    <2>2. \A m \in Messages : clock \in Times /\ job[m].createdAt \in Times
      BY DEF IInv, TypeOK, JobRow
    <2>3. QED BY <2>1, <2>2, JobTypes DEF Queued
  <1>5. \A m \in Messages :
          [job EXCEPT ![m] = Queued(m, worker[w].at)] \in [Messages -> JobRow]
    BY <1>4 DEF IInv, TypeOK
  <1>6. CASE conversation' = [conversation EXCEPT ![c] = row] /\ job' = job
    BY <1>3, <1>6 DEF IInv, TypeOK
  <1>7. ASSUME NEW m \in Messages,
               conversation' = [conversation EXCEPT ![c] = row],
               job' = [job EXCEPT ![m] = Queued(m, worker[w].at)]
        PROVE  IInv'
    BY <1>3, <1>5, <1>7
  <1>8. QED
    <2> DEFINE queued == {m \in LatestInbound(c) : Unanswered(m) /\ QueuedOnRelease(m)}
    <2>1. \A m \in queued : m \in Messages
      BY DEF LatestInbound, MessagesOf
    <2>2. \/ UNCHANGED <<conversation, job>>
          \/ conversation' = [conversation EXCEPT ![c] = row] /\ job' = job
          \/ /\ conversation' = [conversation EXCEPT ![c] = row]
             /\ \E m \in queued : job' = [job EXCEPT ![m] = Queued(m, worker[w].at)]
      BY DEF ReleaseExpired
    <2>3. QED BY <2>1, <2>2, <1>2, <1>6, <1>7

\* Steps that write jobs and move the worker.
LEMMA JobsWritten ==
  ASSUME IInv, job' \in [Messages -> JobRow], worker' \in [Workers -> WorkerState],
         UNCHANGED <<clock, revived, conversation, inbound, manualReply, user, replies,
                     unrecorded, failures>>
  PROVE  IInv'
  BY ControlKept DEF IInv, TypeOK

LEMMA JobWritten ==
  ASSUME job \in [Messages -> JobRow], NEW m, NEW row,
         m \in Messages => row \in JobRow
  PROVE  [job EXCEPT ![m] = row] \in [Messages -> JobRow]
  OBVIOUS

LEMMA ClaimJobSafe ==
  ASSUME IInv, NEW w \in Workers, ClaimJob(w)
  PROVE  IInv'
  <1> DEFINE m == worker[w].msg
             row == Claimed(job[m])
             rec == [IdleWorker EXCEPT !.pc = "respond", !.at = clock, !.msg = m,
                                       !.attempts = worker[w].attempts]
  <1>1. clock \in Times /\ worker[w] \in WorkerState
    BY DEF IInv, TypeOK
  <1>2. [job EXCEPT ![m] = row] \in [Messages -> JobRow]
    <2>1. \A n \in Messages : Claimed(job[n]) \in JobRow
      <3>1. \A n \in Messages : job[n] \in JobRow /\ job[n].attempts + 1 \in Nat
        BY DEF IInv, TypeOK, JobRow
      <3>2. QED BY <3>1, <1>1 DEF JobRow, Claimed
    <2>2. QED BY <2>1, JobWritten DEF IInv, TypeOK
  <1>3. rec \in WorkerState
    BY <1>1, ZeroTime DEF WorkerState, IdleWorker
  <1>4. job' \in [Messages -> JobRow]
    <2>1. job' = job \/ job' = [job EXCEPT ![m] = row]
      BY DEF ClaimJob
    <2>2. QED BY <1>2, <2>1 DEF IInv, TypeOK
  <1>5. worker' \in [Workers -> WorkerState]
    BY <1>1, <1>3, IdleTypes DEF IInv, TypeOK, ClaimJob
  <1>6. QED BY <1>4, <1>5, JobsWritten DEF ClaimJob

\* The last write of a turn, by the id of the job.
LEMMA TurnEndsSafe ==
  ASSUME IInv, NEW w \in Workers,
         CancelJob(w) \/ CompleteJob(w) \/ FailJob(w)
  PROVE  IInv'
  <1>1. worker' \in [Workers -> WorkerState]
    BY IdleTypes DEF IInv, TypeOK, CancelJob, CompleteJob, FailJob
  <1>2. CASE CancelJob(w)
    <2>1. job' \in [Messages -> JobRow]
      <3>1. \A m \in Messages : Cancelled(job[m]) \in JobRow
        BY DEF IInv, TypeOK, Cancelled, JobRow
      <3>2. QED BY <1>2, <3>1, JobWritten DEF IInv, TypeOK, CancelJob
    <2>2. QED BY <1>1, <1>2, <2>1, JobsWritten DEF CancelJob
  <1>3. CASE CompleteJob(w)
    <2>1. job' \in [Messages -> JobRow]
      <3>1. \A m \in Messages :
              [job[m] EXCEPT !.status = "COMPLETED", !.lockedAt = None] \in JobRow
        BY DEF IInv, TypeOK, JobRow
      <3>2. QED BY <1>3, <3>1, JobWritten DEF IInv, TypeOK, CompleteJob
    <2>2. QED BY <1>1, <1>3, <2>1, JobsWritten DEF CompleteJob
  <1>4. CASE FailJob(w)
    <2>1. clock + Backoff \in Nat
      <3>1. clock \in Nat
        BY DEF IInv, TypeOK, Times
      <3>2. QED BY <3>1, SettingsNat
    <2>2. job' \in [Messages -> JobRow]
      <3>1. \A m \in Messages, status \in {"FAILED", "PENDING"} :
              [job[m] EXCEPT !.status = status, !.nextAttemptAt = clock + Backoff,
                             !.lockedAt = None] \in JobRow
        BY <2>1 DEF IInv, TypeOK, JobRow
      <3>2. QED BY <1>4, <3>1, JobWritten DEF IInv, TypeOK, FailJob
    <2>3. QED BY <1>1, <1>4, <2>2, JobsWritten DEF FailJob
  <1>5. QED BY <1>2, <1>3, <1>4

\* The answer leaves, or something fails: only the counters change.
LEMMA CountedSafe ==
  ASSUME IInv, NEW w \in Workers,
         \/ RespondFails(w) \/ SendAnswer(w) \/ CompleteFails(w) \/ Crash(w)
         \/ \E reached \in BOOLEAN : SendFails(w, reached)
  PROVE  IInv'
  <1>1. LocalsOK' /\ LeaseWithinMaximum'
    BY ControlKept DEF IInv, RespondFails, SendAnswer, CompleteFails, Crash,
                       SendFails, tables
  <1>2. \A pc \in {"complete", "fail"} :
          [worker EXCEPT ![w].pc = pc] \in [Workers -> WorkerState]
    BY DEF IInv, TypeOK, WorkerState
  <1>3. \A m \in Messages, n \in {0, 1} :
          replies[m] + n \in Nat /\ unrecorded[m] + n \in Nat
    BY DEF IInv, TypeOK
  <1>4. CASE RespondFails(w)
    BY <1>1, <1>2, <1>4, FailureCounted DEF IInv, TypeOK, RespondFails, tables
  <1>5. CASE SendAnswer(w)
    BY <1>1, <1>2, <1>3, <1>5 DEF IInv, TypeOK, SendAnswer, tables
  <1>6. CASE CompleteFails(w)
    BY <1>1, <1>2, <1>3, <1>6, FailureCounted DEF IInv, TypeOK, CompleteFails, tables
  <1>7. CASE Crash(w)
    BY <1>1, <1>3, <1>7, FailureCounted, IdleTypes DEF IInv, TypeOK, Crash, tables
  <1>8. ASSUME NEW reached \in BOOLEAN, SendFails(w, reached) PROVE IInv'
    BY <1>1, <1>2, <1>3, <1>8, FailureCounted DEF IInv, TypeOK, SendFails, tables
  <1>9. QED BY <1>4, <1>5, <1>6, <1>7, <1>8
-----------------------------------------------------------------------------
LEMMA NextSafe == ASSUME IInv, Next PROVE IInv'
  <1>1. CASE Tick
    BY <1>1, TickSafe
  <1>2. ASSUME NEW m \in Messages, NEW c \in Conversations,
               NEW media \in MediaInputs, NEW enabled \in AssistantModes,
               NEW at \in {t \in Times : t <= clock /\ clock - t <= RequestDelay},
               Receive(m, c, at, media, enabled)
        PROVE  IInv'
    BY <1>2, ReceiveSafe
  <1>3. CASE CustomerStep
    BY <1>2, <1>3, MediaSafe DEF CustomerStep
  <1>4. CASE \E c \in Quoted : DeliverQuote(c)
    BY <1>4, DeliverQuoteSafe, ConstantsAssumption
  <1>5. ASSUME NEW u \in Users, UserBegins(u) PROVE IInv'
    BY <1>5, CheckSetModeSafe, ReplySafe DEF UserBegins
  <1>6. ASSUME NEW u \in Users, UserGoesOn(u) PROVE IInv'
    BY <1>6, TakeControlSafe, ReturnControlSafe, ReplySafe, RecordManualMessageSafe,
       ReadRenewSafe, RenewControlSafe DEF UserGoesOn
  <1>7. ASSUME NEW w \in Workers, Loop(w) PROVE IInv'
    BY <1>7, LookSafe, ReleaseExpiredSafe, ClaimJobSafe, TurnEndsSafe, CountedSafe
    DEF Loop
  <1>8. ASSUME NEW w \in Workers, Crash(w) PROVE IInv'
    BY <1>8, CountedSafe
  <1>9. QED BY <1>1, <1>3, <1>4, <1>5, <1>6, <1>7, <1>8 DEF Next

LEMMA StutterSafe == ASSUME IInv, UNCHANGED vars PROVE IInv'
  BY ControlKept DEF IInv, TypeOK, vars

LEMMA IInvHolds == Spec => []IInv
  <1>1. IInv /\ [Next]_vars => IInv'
    BY NextSafe, StutterSafe
  <1>2. QED BY InitIInv, <1>1, PTL DEF Spec

\* The tables of the conversations, messages and jobs, and the locals of the
\* workers and of the requests, keep their types; in particular the columns of
\* a human control (handledByUserId, handledAt, humanControlExpiresAt) are set
\* and cleared together, on which setMode and recordInboundMessage rely.
THEOREM TypeCorrect == Spec => []TypeOK
  <1>1. IInv => TypeOK
    BY DEF IInv
  <1>2. QED BY <1>1, IInvHolds, PTL

\* WHATSAPP_HUMAN_TAKEOVER_MAX_MINUTES bounds every human control: whatever
\* takeovers, extensions, manual replies, inbound messages and expiries
\* overlap, humanControlExpiresAt is never past handledAt plus the maximum.
THEOREM ControlIsBounded == Spec => []LeaseWithinMaximum
  <1>1. IInv => LeaseWithinMaximum
    BY DEF IInv
  <1>2. QED BY <1>1, IInvHolds, PTL
=============================================================================
