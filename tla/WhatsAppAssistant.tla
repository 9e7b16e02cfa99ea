------------------------- MODULE WhatsAppAssistant -------------------------
(***************************************************************************)
(* Who answers a WhatsApp conversation: the assistant, through jobs that   *)
(* whatsapp-assistant-worker processes claim, or a user who took control   *)
(* of it for a limited time.                                               *)
(*                                                                         *)
(* Each step is one statement or one transaction of PostgreSQL, or one     *)
(* request to the AI platform or to Twilio.  What a worker or a request of *)
(* the inbox read before the step is in its own record (worker, user) and  *)
(* may be stale by then.  The clock counts in units longer than a request  *)
(* that only talks to the database and shorter than the times the settings *)
(* are made of.                                                            *)
(***************************************************************************)
EXTENDS Integers

CONSTANTS
  Workers,         \* whatsapp-assistant-worker processes
  Users,           \* users of the inbox, each with one request at a time
  Sellers,         \* the users whose role is SELLER
  Conversations,
  Messages,        \* inbound messages, by the id Twilio gives them
  None,            \* SQL NULL
  AssistantModes,  \* values WHATSAPP_ASSISTANT_ENABLED may take
  ModeRequests,    \* "take" (mode HUMAN), "return" (mode AI): what users ask for
  MediaInputs,     \* do the messages bring media the assistant reads?
  Quoted,          \* conversations whose customer may be sent a quote
  Lease,           \* WHATSAPP_HUMAN_TAKEOVER_MINUTES
  Grace,           \* WHATSAPP_HUMAN_RESPONSE_GRACE_MINUTES
  MaxControl,      \* WHATSAPP_HUMAN_TAKEOVER_MAX_MINUTES
  Window,          \* the 24 hours a business may answer in
  LockTimeout,     \* the five minutes after which a claim is stale
  Backoff,         \* wait before a failed job is due again
  MaxAttempts,     \* WHATSAPP_ASSISTANT_MAX_ATTEMPTS
  TurnTimeout,     \* bound: longest turn of a worker, or reply of a user
  RequestDelay,    \* bound: longest request that only talks to the database
  MaxTime,         \* bound: the clock stops there
  LastInput,       \* bound: customers and users act until then
  MaxFailures,     \* bound: crashes, and failures of the other systems
  LastFailure      \* bound: they happen until then

ASSUME ConstantsAssumption ==
  /\ Sellers \subseteq Users /\ Quoted \subseteq Conversations
  /\ None \notin Users /\ None \notin Conversations /\ None \notin Messages
  /\ None \notin Int
  /\ ModeRequests \subseteq {"take", "return"}
  /\ AssistantModes \subseteq BOOLEAN /\ MediaInputs \subseteq BOOLEAN
  /\ \A n \in {Lease, Grace, MaxControl, Window, LockTimeout, Backoff,
               TurnTimeout, RequestDelay, MaxTime, LastInput,
               MaxFailures, LastFailure} : n \in Nat
  /\ MaxAttempts \in Nat \ {0}

VARIABLES
  clock,
  conversation,  \* table whatsapp_conversations
  inbound,       \* table whatsapp_inbound_messages, and the capture of media
  job,           \* table whatsapp_assistant_jobs, by its inbound message
  manualReply,   \* sentAt of the latest outbound message of a user
  worker,        \* program counter and locals of each worker
  user,          \* the request each user has in flight
  replies,       \* answers of the assistant Twilio accepted, by message
  unrecorded,    \* those whose COMPLETED never reached the database
  revived,       \* history: conversations where an extension brought back a
                 \* control that had ended
  failures

vars == <<clock, conversation, inbound, job, manualReply, worker, user,
          replies, unrecorded, revived, failures>>
tables == <<conversation, inbound, job, manualReply>>
-----------------------------------------------------------------------------
Times == 0..MaxTime
MinOf(a, b) == IF a <= b THEN a ELSE b

AiRow(lastInboundAt) ==
  [mode |-> "AI", handledBy |-> None, handledAt |-> None, expiresAt |-> None,
   lastInboundAt |-> lastInboundAt]

\* Faulty variant: the start of the control is not stored.
HumanRowWithoutStart(u, startsAt, expiresAt, lastInboundAt) ==
  [mode |-> "HUMAN", handledBy |-> u, handledAt |-> None,
   expiresAt |-> expiresAt, lastInboundAt |-> lastInboundAt]

HumanRow(u, startsAt, expiresAt, lastInboundAt) ==
  [mode |-> "HUMAN", handledBy |-> u, handledAt |-> startsAt,
   expiresAt |-> expiresAt, lastInboundAt |-> lastInboundAt]

ConversationRow ==
  [mode: {"AI", "HUMAN"}, handledBy: Users \cup {None},
   handledAt: Times \cup {None}, expiresAt: Nat \cup {None},
   lastInboundAt: Times \cup {None}]

\* The columns of the control are set and cleared together.
ControlColumns(row) ==
  \/ row.mode = "HUMAN" /\ None \notin {row.handledBy, row.handledAt, row.expiresAt}
  \/ row.mode = "AI" /\ {row.handledBy, row.handledAt, row.expiresAt} = {None}

InboundRow == [conv: Conversations \cup {None}, receivedAt: Times,
               media: BOOLEAN, capture: {"none", "capture", "enqueue"}]

NotReceived == [conv |-> None, receivedAt |-> 0, media |-> FALSE,
                capture |-> "none"]

JobRow == [status: {"NONE", "PENDING", "PROCESSING", "COMPLETED", "FAILED",
                    "CANCELLED"},
           attempts: Nat, createdAt: Times, nextAttemptAt: Nat,
           lockedAt: Times \cup {None}]

NoJob == [status |-> "NONE", attempts |-> 0, createdAt |-> 0,
          nextAttemptAt |-> 0, lockedAt |-> None]

NewJob(createdAt, dueAt) ==
  [NoJob EXCEPT !.status = "PENDING", !.createdAt = createdAt,
                !.nextAttemptAt = dueAt]

WorkerState ==
  [enabled: BOOLEAN,
   pc: {"idle", "release", "find", "claim", "respond", "check", "cancel",
        "send", "complete", "fail"},
   at: Times, found: SUBSET Conversations, msg: Messages \cup {None},
   seen: {"NONE", "PENDING", "PROCESSING"}, seenLock: Times \cup {None},
   attempts: Nat]

IdleWorker == [enabled |-> FALSE, pc |-> "idle", at |-> 0, found |-> {}, msg |-> None,
               seen |-> "NONE", seenLock |-> None, attempts |-> 0]

UserState ==
  [pc: {"idle", "take", "return", "send", "record", "readRenew", "renew"},
   conv: Conversations \cup {None}, at: Times, startsAt: Times, expiresAt: Nat]

IdleUser == [pc |-> "idle", conv |-> None, at |-> 0, startsAt |-> 0,
             expiresAt |-> 0]

\* A crash of a worker, or a failure of the AI platform, Twilio or the database.
Failure ==
  /\ failures < MaxFailures /\ clock <= LastFailure
  /\ failures' = failures + 1

\* Between its claim and its last write a worker is in a turn of its job.
Holding(w) ==
  worker[w].pc \in {"respond", "check", "cancel", "send", "complete", "fail"}
-----------------------------------------------------------------------------
Init ==
  /\ clock = 0
  /\ conversation = [c \in Conversations |-> AiRow(None)]
  /\ inbound = [m \in Messages |-> NotReceived]
  /\ job = [m \in Messages |-> NoJob]
  /\ manualReply = [c \in Conversations |-> None]
  /\ worker = [w \in Workers |-> IdleWorker]
  /\ user = [u \in Users |-> IdleUser]
  /\ replies = [m \in Messages |-> 0]
  /\ unrecorded = [m \in Messages |-> 0]
  /\ revived = {}
  /\ failures = 0

\* A turn and a manual reply wait for the AI platform and Twilio at most
\* TurnTimeout, any other request for the database at most RequestDelay.
Tick ==
  /\ clock < MaxTime
  /\ \A w \in Workers : Holding(w) => clock - worker[w].at < TurnTimeout
  /\ \A u \in Users :
       /\ user[u].pc \in {"take", "return"} => clock - user[u].at < RequestDelay
       /\ user[u].pc \in {"send", "record", "readRenew", "renew"} =>
            clock - user[u].at < TurnTimeout
  /\ clock' = clock + 1
  /\ UNCHANGED <<revived, tables, worker, user, replies, unrecorded, failures>>
-----------------------------------------------------------------------------
(* Inbound messages: RecordInboundWhatsAppMessageUseCase.                  *)

\* Faulty variant: a message during human control always grants the grace.
GraceUnlimited(c, receivedAt) == receivedAt + Grace

\* Until when the user may answer a message received under human control.
GraceEnd(c, receivedAt) ==
  MinOf(receivedAt + Grace, conversation[c].handledAt + MaxControl)

LastInboundAt(c, receivedAt) ==
  IF conversation[c].lastInboundAt = None \/ conversation[c].lastInboundAt < receivedAt
  THEN receivedAt ELSE conversation[c].lastInboundAt

\* recordInboundMessage, one transaction that holds the conversation's row
\* from its upsert on.  Twilio may deliver a message again: that one still
\* adjusts the lease, and its media are captured again (a capture that begins
\* while another is under way does what that one does).
Receive(m, c, receivedAt, media, enabled) ==
  LET new == inbound[m].conv = None
      human == conversation[c].mode = "HUMAN"
  IN
  /\ clock <= LastInput
  /\ new \/ (inbound[m].conv = c /\ inbound[m].media = media)
  /\ conversation' = [conversation EXCEPT
       ![c].expiresAt = IF human THEN GraceEnd(c, receivedAt) ELSE @,
       ![c].lastInboundAt = IF new THEN LastInboundAt(c, receivedAt) ELSE @]
  /\ inbound' = [inbound EXCEPT ![m] =
       [conv |-> c, receivedAt |-> IF new THEN receivedAt ELSE @.receivedAt,
        media |-> media,
        capture |-> IF media /\ enabled /\ @.capture = "none"
                    THEN "capture" ELSE @.capture]]
  /\ job' = IF new /\ enabled /\ ~media /\ ~human
            THEN [job EXCEPT ![m] = NewJob(clock, clock)]
            ELSE job
  /\ UNCHANGED <<clock, revived, manualReply, worker, user, replies,
                 unrecorded, failures>>

\* enqueueAssistantJob, after the media were downloaded: reads the mode...
ReadModeForMedia(m) ==
  /\ inbound[m].capture = "capture"
  /\ inbound' = [inbound EXCEPT ![m].capture =
       IF conversation[inbound[m].conv].mode = "AI" THEN "enqueue" ELSE "none"]
  /\ UNCHANGED <<clock, revived, conversation, job, manualReply, worker, user, replies,
                 unrecorded, failures>>

\* ...and inserts the job, unless the message has one.
EnqueueForMedia(m) ==
  /\ inbound[m].capture = "enqueue"
  /\ inbound' = [inbound EXCEPT ![m].capture = "none"]
  /\ job' = IF job[m].status = "NONE"
            THEN [job EXCEPT ![m] = NewJob(clock, clock)] ELSE job
  /\ UNCHANGED <<clock, revived, conversation, manualReply, worker, user, replies,
                 unrecorded, failures>>

\* The download or the request to the database failed.
CaptureFails(m) ==
  /\ inbound[m].capture # "none"
  /\ Failure
  /\ inbound' = [inbound EXCEPT ![m].capture = "none"]
  /\ UNCHANGED <<clock, revived, conversation, job, manualReply, worker, user, replies,
                 unrecorded>>
-----------------------------------------------------------------------------
(* The inbox: taking, extending and returning control, and manual replies. *)

UserStep(u, rec) ==
  /\ user' = [user EXCEPT ![u] = rec]
  /\ UNCHANGED <<clock, revived, tables, worker, replies, unrecorded, failures>>

\* activeHumanControl
UnderControl(c) ==
  conversation[c].mode = "HUMAN" /\ conversation[c].expiresAt > clock

\* Taking over the control somebody else still has does not renew its limit.
StartsAt(c) == IF UnderControl(c) THEN conversation[c].handledAt ELSE clock

\* changeMode and the guards of setMode, which reads outside its transaction.
CheckSetMode(u, c, mode) ==
  /\ user[u].pc = "idle"
  /\ clock <= LastInput
  /\ ~(UnderControl(c) /\ conversation[c].handledBy # u /\ u \in Sellers)
  /\ UserStep(u, [pc |-> mode, conv |-> c, at |-> clock, startsAt |-> StartsAt(c),
                  expiresAt |-> MinOf(clock + Lease, StartsAt(c) + MaxControl)])

Pending(m) == job[m].status \in {"PENDING", "PROCESSING"}

\* Faulty variant: every job of the conversation is cancelled.
OfConversation(m, c) == inbound[m].conv = c

CancelledByTakeover(m, c) == inbound[m].conv = c /\ Pending(m)

Cancelled(row) == [row EXCEPT !.status = "CANCELLED", !.lockedAt = None]

\* The control a takeover carries on was somebody's when it was read, and is
\* not the conversation's any more.
Revives(u) ==
  LET row == conversation[user[u].conv] IN
  /\ user[u].startsAt < user[u].at
  /\ ~(row.mode = "HUMAN" /\ row.handledAt = user[u].startsAt)

\* setMode HUMAN: the conversation is written by its id, whoever has it now.
TakeControl(u) ==
  LET c == user[u].conv IN
  /\ user[u].pc = "take"
  /\ conversation' = [conversation EXCEPT ![c] =
       HumanRow(u, user[u].startsAt, user[u].expiresAt, @.lastInboundAt)]
  /\ job' = [m \in Messages |->
       IF CancelledByTakeover(m, c) THEN Cancelled(job[m]) ELSE job[m]]
  /\ user' = [user EXCEPT ![u] = IdleUser]
  /\ revived' = IF Revives(u) THEN revived \cup {c} ELSE revived
  /\ UNCHANGED <<clock, inbound, manualReply, worker, replies, unrecorded, failures>>

\* setMode AI: no job is queued.
ReturnControl(u) ==
  LET c == user[u].conv IN
  /\ user[u].pc = "return"
  /\ conversation' = [conversation EXCEPT ![c] = AiRow(@.lastInboundAt)]
  /\ user' = [user EXCEPT ![u] = IdleUser]
  /\ UNCHANGED <<clock, revived, inbound, job, manualReply, worker, replies, unrecorded,
                 failures>>

\* SendWhatsAppInboxMessageUseCase: its guards...
CheckReply(u, c) ==
  /\ user[u].pc = "idle"
  /\ clock <= LastInput
  /\ UnderControl(c) /\ conversation[c].handledBy = u
  /\ conversation[c].lastInboundAt # None
  /\ conversation[c].lastInboundAt + Window > clock
  /\ UserStep(u, [IdleUser EXCEPT !.pc = "send", !.conv = c, !.at = clock])

\* ...Twilio...
SendReply(u) == user[u].pc = "send" /\ UserStep(u, [user[u] EXCEPT !.pc = "record"])

\* ...the outbound message, with the time read before sending...
RecordManualMessage(u) ==
  /\ user[u].pc = "record"
  /\ manualReply' = [manualReply EXCEPT ![user[u].conv] =
       IF @ = None \/ @ < user[u].at THEN user[u].at ELSE @]
  /\ user' = [user EXCEPT ![u].pc = "readRenew"]
  /\ UNCHANGED <<clock, revived, conversation, inbound, job, worker, replies, unrecorded,
                 failures>>

\* ...and renewHumanControl, which reads handledAt and then writes the lease
\* if the user still has the control.
RenewAllowed(u) ==
  LET row == conversation[user[u].conv] IN
  row.mode = "HUMAN" /\ row.handledBy = u /\ row.expiresAt > user[u].at

ReadRenew(u) ==
  /\ user[u].pc = "readRenew"
  /\ RenewAllowed(u)
  /\ UserStep(u, [user[u] EXCEPT !.pc = "renew",
       !.expiresAt = MinOf(user[u].at + Lease,
                           conversation[user[u].conv].handledAt + MaxControl)])

RenewControl(u) ==
  /\ user[u].pc = "renew"
  /\ conversation' = IF RenewAllowed(u)
       THEN [conversation EXCEPT ![user[u].conv].expiresAt = user[u].expiresAt]
       ELSE conversation
  /\ user' = [user EXCEPT ![u] = IdleUser]
  /\ UNCHANGED <<clock, revived, inbound, job, manualReply, worker, replies, unrecorded,
                 failures>>

\* registerQuoteDelivery: a quote sent to the customer is a message of a user.
DeliverQuote(c) ==
  /\ clock <= LastInput
  /\ manualReply' = [manualReply EXCEPT ![c] = clock]
  /\ UNCHANGED <<clock, revived, conversation, inbound, job, worker, user, replies,
                 unrecorded, failures>>

\* The request ends early: a guard, an error of Twilio or of the database.
StopUser(u) == user[u].pc # "idle" /\ UserStep(u, IdleUser)
-----------------------------------------------------------------------------
(* The loop of the worker: expired controls first, then one job.           *)

WorkerStep(w, rec) ==
  /\ worker' = [worker EXCEPT ![w] = rec]
  /\ UNCHANGED <<clock, revived, tables, user, replies, unrecorded, failures>>

\* Faulty variant: the comparison the other way round.
StillRunning(c, now) ==
  conversation[c].mode = "HUMAN" /\ conversation[c].expiresAt >= now

Expired(c, now) ==
  conversation[c].mode = "HUMAN" /\ conversation[c].expiresAt <= now

\* The loop of releaseExpired goes on with the controls left to release.
NextRelease(w, left) ==
  IF left = {} THEN [IdleWorker EXCEPT !.pc = "find", !.enabled = worker[w].enabled]
  ELSE [worker[w] EXCEPT !.found = left]

\* An iteration begins: the settings, and the candidates of releaseExpired,
\* which are read outside any transaction.
FindExpired(w, enabled) ==
  LET found == {c \in Conversations : Expired(c, clock)} IN
  /\ worker[w].pc = "idle"
  /\ WorkerStep(w, IF found = {}
                   THEN [IdleWorker EXCEPT !.pc = "find", !.enabled = enabled]
                   ELSE [IdleWorker EXCEPT !.pc = "release", !.at = clock,
                                           !.found = found, !.enabled = enabled])

MessagesOf(c) == {m \in Messages : inbound[m].conv = c}

LatestInbound(c) ==
  {m \in MessagesOf(c) : \A n \in MessagesOf(c) :
                            inbound[n].receivedAt <= inbound[m].receivedAt}

Unanswered(m) ==
  LET replied == manualReply[inbound[m].conv] IN
  replied = None \/ inbound[m].receivedAt > replied

\* Faulty variants: a cancelled job is taken for one in progress; what the
\* assistant already answered is queued again.
QueuedOnReleaseIfNew(m) == job[m].status \in {"NONE", "FAILED"}

QueuedOnReleaseAgain(m) ==
  job[m].status \in {"NONE", "CANCELLED", "FAILED", "COMPLETED"}

QueuedOnRelease(m) == job[m].status \in {"NONE", "CANCELLED", "FAILED"}

Queued(m, now) ==
  NewJob(IF job[m].status = "NONE" THEN clock ELSE job[m].createdAt, now)

\* One transaction of releaseExpired.  Its UPDATE repeats the condition, so
\* that a control renewed or returned since the read is left alone.
ReleaseExpired(w, c) ==
  LET now == worker[w].at
      queued == {m \in LatestInbound(c) : Unanswered(m) /\ QueuedOnRelease(m)}
  IN
  /\ worker[w].pc = "release" /\ c \in worker[w].found
  /\ \/ /\ ~Expired(c, now)
        /\ UNCHANGED <<conversation, job>>
     \/ /\ Expired(c, now)
        /\ conversation' = [conversation EXCEPT ![c] = AiRow(@.lastInboundAt)]
        /\ IF worker[w].enabled /\ queued # {}
           THEN \E m \in queued : job' = [job EXCEPT ![m] = Queued(m, now)]
           ELSE job' = job
  /\ worker' = [worker EXCEPT ![w] = NextRelease(w, worker[w].found \ {c})]
  /\ UNCHANGED <<clock, revived, inbound, manualReply, user, replies,
                 unrecorded, failures>>

Stale(m) == job[m].lockedAt < clock - LockTimeout

Claimable(m) ==
  /\ job[m].status = "PENDING" \/ (job[m].status = "PROCESSING" /\ Stale(m))
  /\ job[m].nextAttemptAt <= clock
  /\ conversation[inbound[m].conv].mode = "AI"

\* claimNextJob: the oldest job that is due.
FindJob(w) ==
  LET due == {m \in Messages : Claimable(m)} IN
  /\ worker[w].pc = "find"
  /\ \/ /\ ~worker[w].enabled \/ due = {}
        /\ WorkerStep(w, IdleWorker)
     \/ /\ worker[w].enabled
        /\ \E m \in due :
             /\ \A n \in due : job[m].createdAt <= job[n].createdAt
             /\ WorkerStep(w, [IdleWorker EXCEPT
                  !.pc = "claim", !.msg = m, !.seen = job[m].status,
                  !.seenLock = job[m].lockedAt, !.attempts = job[m].attempts + 1])

\* Faulty variant: the claim does not compare what it found.
StillInAiMode(w) == conversation[inbound[worker[w].msg].conv].mode = "AI"

\* The WHERE of the claim: compare and set.
StillAsFound(w) ==
  LET m == worker[w].msg IN
  /\ conversation[inbound[m].conv].mode = "AI"
  /\ job[m].status = worker[w].seen
  /\ worker[w].seen = "PROCESSING" => job[m].lockedAt = worker[w].seenLock

Claimed(row) ==
  [row EXCEPT !.status = "PROCESSING", !.lockedAt = clock,
              !.attempts = row.attempts + 1]

ClaimJob(w) ==
  LET m == worker[w].msg IN
  /\ worker[w].pc = "claim"
  /\ \/ /\ ~StillAsFound(w)
        /\ worker' = [worker EXCEPT ![w] = IdleWorker]
        /\ job' = job
     \/ /\ StillAsFound(w)
        /\ job' = [job EXCEPT ![m] = Claimed(@)]
        /\ worker' = [worker EXCEPT ![w] =
             [IdleWorker EXCEPT !.pc = "respond", !.at = clock, !.msg = m,
                                !.attempts = worker[w].attempts]]
  /\ UNCHANGED <<clock, revived, conversation, inbound, manualReply, user, replies,
                 unrecorded, failures>>

\* The AI platform answers...
Respond(w) ==
  /\ worker[w].pc = "respond"
  /\ WorkerStep(w, [worker[w] EXCEPT !.pc = "check"])

\* ...or fails, or does not answer in time.
RespondFails(w) ==
  /\ worker[w].pc = "respond"
  /\ Failure
  /\ worker' = [worker EXCEPT ![w].pc = "fail"]
  /\ UNCHANGED <<clock, revived, tables, user, replies, unrecorded>>

\* isConversationAiControlled
CheckMode(w) ==
  /\ worker[w].pc = "check"
  /\ WorkerStep(w, [worker[w] EXCEPT !.pc =
       IF conversation[inbound[worker[w].msg].conv].mode = "AI"
       THEN "send" ELSE "cancel"])

CancelJob(w) ==
  LET m == worker[w].msg IN
  /\ worker[w].pc = "cancel"
  /\ job' = IF Pending(m) THEN [job EXCEPT ![m] = Cancelled(@)] ELSE job
  /\ worker' = [worker EXCEPT ![w] = IdleWorker]
  /\ UNCHANGED <<clock, revived, conversation, inbound, manualReply, user, replies,
                 unrecorded, failures>>

\* Twilio accepts the answer.
SendAnswer(w) ==
  /\ worker[w].pc = "send"
  /\ replies' = [replies EXCEPT ![worker[w].msg] = @ + 1]
  /\ worker' = [worker EXCEPT ![w].pc = "complete"]
  /\ UNCHANGED <<clock, revived, tables, user, unrecorded, failures>>

\* The request fails, before it reached Twilio or after.
SendFails(w, reached) ==
  LET m == worker[w].msg
      n == IF reached THEN 1 ELSE 0
  IN
  /\ worker[w].pc = "send"
  /\ Failure
  /\ replies' = [replies EXCEPT ![m] = @ + n]
  /\ unrecorded' = [unrecorded EXCEPT ![m] = @ + n]
  /\ worker' = [worker EXCEPT ![w].pc = "fail"]
  /\ UNCHANGED <<clock, revived, tables, user>>

\* completeJob writes by id...
CompleteJob(w) ==
  LET m == worker[w].msg IN
  /\ worker[w].pc = "complete"
  /\ job' = [job EXCEPT ![m] = [@ EXCEPT !.status = "COMPLETED", !.lockedAt = None]]
  /\ worker' = [worker EXCEPT ![w] = IdleWorker]
  /\ UNCHANGED <<clock, revived, conversation, inbound, manualReply, user, replies,
                 unrecorded, failures>>

\* ...or the database refuses, and the turn fails after its answer was sent.
CompleteFails(w) ==
  /\ worker[w].pc = "complete"
  /\ Failure
  /\ unrecorded' = [unrecorded EXCEPT ![worker[w].msg] = @ + 1]
  /\ worker' = [worker EXCEPT ![w].pc = "fail"]
  /\ UNCHANGED <<clock, revived, tables, user, replies>>

\* failJob writes by id.
FailJob(w) ==
  LET m == worker[w].msg
      final == worker[w].attempts >= MaxAttempts
  IN
  /\ worker[w].pc = "fail"
  /\ job' = [job EXCEPT ![m] = [@ EXCEPT
       !.status = IF final THEN "FAILED" ELSE "PENDING",
       !.nextAttemptAt = clock + Backoff, !.lockedAt = None]]
  /\ worker' = [worker EXCEPT ![w] = IdleWorker]
  /\ UNCHANGED <<clock, revived, conversation, inbound, manualReply, user, replies,
                 unrecorded, failures>>

\* The process dies, or an error outside the try ends the iteration.
Crash(w) ==
  /\ worker[w].pc # "idle"
  /\ Failure
  /\ unrecorded' = [m \in Messages |->
       IF worker[w].pc = "complete" /\ worker[w].msg = m
       THEN unrecorded[m] + 1 ELSE unrecorded[m]]
  /\ worker' = [worker EXCEPT ![w] = IdleWorker]
  /\ UNCHANGED <<clock, revived, tables, user, replies>>
-----------------------------------------------------------------------------
CustomerStep ==
  \E m \in Messages :
    \/ \E c \in Conversations, media \in MediaInputs, enabled \in AssistantModes,
          at \in {t \in Times : t <= clock /\ clock - t <= RequestDelay} :
         Receive(m, c, at, media, enabled)
    \/ ReadModeForMedia(m) \/ EnqueueForMedia(m) \/ CaptureFails(m)

UserBegins(u) ==
  \E c \in Conversations :
    (\E mode \in ModeRequests : CheckSetMode(u, c, mode)) \/ CheckReply(u, c)

UserGoesOn(u) ==
  \/ TakeControl(u) \/ ReturnControl(u)
  \/ SendReply(u) \/ RecordManualMessage(u) \/ ReadRenew(u) \/ RenewControl(u)
  \/ StopUser(u)

Loop(w) ==
  \/ \E enabled \in AssistantModes : FindExpired(w, enabled)
  \/ \E c \in Conversations : ReleaseExpired(w, c)
  \/ FindJob(w) \/ ClaimJob(w)
  \/ Respond(w) \/ RespondFails(w)
  \/ CheckMode(w) \/ CancelJob(w)
  \/ SendAnswer(w) \/ (\E reached \in BOOLEAN : SendFails(w, reached))
  \/ CompleteJob(w) \/ CompleteFails(w) \/ FailJob(w)

Next ==
  \/ Tick
  \/ CustomerStep
  \/ \E c \in Quoted : DeliverQuote(c)
  \/ \E u \in Users : UserBegins(u) \/ UserGoesOn(u)
  \/ \E w \in Workers : Loop(w) \/ Crash(w)

Spec == Init /\ [][Next]_vars

\* The workers poll for ever and are restarted, every request ends, time goes.
FairSpec ==
  /\ Spec
  /\ SF_vars(Tick)
  /\ \A u \in Users : WF_vars(UserGoesOn(u))
  /\ \A w \in Workers : WF_vars(Loop(w))
-----------------------------------------------------------------------------
(* Properties.                                                             *)

TypeOK ==
  /\ clock \in Times
  /\ conversation \in [Conversations -> ConversationRow]
  /\ \A c \in Conversations : ControlColumns(conversation[c])
  /\ inbound \in [Messages -> InboundRow]
  /\ job \in [Messages -> JobRow]
  /\ manualReply \in [Conversations -> Times \cup {None}]
  /\ worker \in [Workers -> WorkerState]
  /\ user \in [Users -> UserState]
  /\ replies \in [Messages -> Nat]
  /\ unrecorded \in [Messages -> Nat]
  /\ revived \subseteq Conversations
  /\ failures \in 0..MaxFailures

\* The limit of the human control ("Límite total antes de devolver
\* automáticamente la conversación al asistente"): taking over, renewing by
\* answering and the grace for a new message never add up to more.
LeaseWithinMaximum ==
  \A c \in Conversations :
    conversation[c].mode = "HUMAN" =>
      conversation[c].expiresAt <= conversation[c].handledAt + MaxControl

\* The next three properties are about settings by which a turn, with a request
\* to the database, is shorter than the lease, the grace and the maximum of a
\* control, and no longer than the stale lock.  They are false of a conversation
\* where a takeover, stored late, brought back a control that had ended.
Revived(m) == inbound[m].conv \in revived

\* "Compare-and-set prevents two workers from claiming the same job": a job
\* reclaimed, or queued again after a human control, is not in the hands of two
\* workers, whatever takeovers, extensions and hand-backs of several users overlap.
OneWorkerPerJob ==
  \A v, w \in Workers :
    Holding(v) /\ Holding(w) /\ worker[v].msg = worker[w].msg =>
      v = w \/ Revived(worker[v].msg)

\* The customer gets a second answer to a message only if the record of an
\* earlier one was lost.
AnsweredOnce ==
  \A m \in Messages : replies[m] <= 1 + unrecorded[m] \/ Revived(m)

\* A job that was answered and recorded is over: no takeover, expiry, late
\* cancellation or failure, which write by id, queues its message again.
CompletedIsFinal ==
  [][\A m \in Messages : job[m].status = "COMPLETED" =>
       job'[m].status = "COMPLETED" \/ Revived(m)]_vars

\* A control nobody renews is released.
ControlIsReleased ==
  \A c \in Conversations :
    conversation[c].mode = "HUMAN" ~> conversation[c].mode = "AI"

Superseded(m) ==
  \E n \in Messages \ {m} : /\ inbound[n].conv = inbound[m].conv
                            /\ inbound[n].receivedAt >= inbound[m].receivedAt

\* A text received is answered by the assistant or given up after its
\* attempts, unless a user answered it or the customer wrote again.  (Users
\* who hand a conversation back without answering are left out: no job is
\* queued then.)
TextIsSettled ==
  \A m \in Messages :
    inbound[m].conv # None /\ ~inbound[m].media ~>
      \/ job[m].status \in {"COMPLETED", "FAILED"}
      \/ inbound[m].conv # None /\ ~Unanswered(m)
      \/ Superseded(m)
=============================================================================
