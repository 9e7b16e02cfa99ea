----------------------- MODULE ManagerReportScheduler -----------------------
(***************************************************************************)
(* The scheduled management reports: the subscription rows an              *)
(* administrator edits through the API, the run rows, and the loop of      *)
(* manager-report-worker (one or more processes), which gives each new     *)
(* subscription its first slot, marks interrupted runs, claims what is due *)
(* and hands the report to Twilio.                                         *)
(*                                                                         *)
(* Each step is one statement sent to PostgreSQL, one transaction, or the  *)
(* request to Twilio; whatever a process read or computed before the step  *)
(* is in its own record (worker, admin) and may be stale by then.          *)
(***************************************************************************)
EXTENDS Integers, FiniteSets

CONSTANTS
    Workers,          \* manager-report-worker processes
    Admins,           \* API requests that create or change a subscription
    Subscriptions,
    Schedules,        \* [period, offset] records: when a report is wanted
    None,             \* SQL NULL
    StaleAfter,       \* "24 hours", in clock units
    InterruptAfter,   \* "60 minutes", in clock units
    BatchSize,        \* claims of one iteration (20 in the code)
    RequestDelay,     \* bound: clock units a request of the API may take
    MaxTime,          \* bound: the clock stops there
    MaxCrashes        \* bound: crashes of worker processes

ASSUME ConstantsAssumption ==
    /\ MaxTime \in Nat /\ MaxCrashes \in Nat /\ BatchSize \in Nat \ {0}
    /\ StaleAfter \in Nat /\ InterruptAfter \in Nat /\ RequestDelay \in Nat
    /\ None \notin Subscriptions /\ None \notin Nat
    /\ Schedules # {}
    /\ \A c \in Schedules : c.period \in Nat \ {0} /\ c.offset \in Nat

VARIABLES
    clock,
    subscription,   \* the rows: exists, active, nextRunAt, schedule
    run,            \* run[s][t]: the row with that subscription and scheduledAt
    worker,         \* program counter and locals of each worker process
    admin,          \* the request each administrator has in progress
    accepted,       \* accepted[s][t]: requests for that slot Twilio accepted
    crashes

vars == <<clock, subscription, run, worker, admin, accepted, crashes>>

Times == 0..MaxTime

\* Faulty variants, for testing the properties: the last wanted time instead
\* of the next one, and a comparison that is not strict.
PreviousRunAt(schedule, after) ==
    after + 1 + ((schedule.offset - (after + 1)) % schedule.period) - schedule.period

SameOrNextRunAt(schedule, after) ==
    after + ((schedule.offset - after) % schedule.period)

\* The first wanted time strictly after the given one.
NextManagerReportRunAt(schedule, after) ==
    after + 1 + ((schedule.offset - (after + 1)) % schedule.period)

FinalStatus == {"SKIPPED", "SUBMITTED", "NEEDS_REVIEW"}

SubscriptionRow == [exists: BOOLEAN, active: BOOLEAN,
                    nextRunAt: Nat \cup {None}, schedule: Schedules]

RunRow == [status: {"NONE", "PROCESSING"} \cup FinalStatus, startedAt: Times]

WorkerState ==
    [pc: {"poll", "initialize", "claim", "commit", "load", "dispatch",
          "submitted", "review"},
     now: Times, rows: SUBSET Subscriptions, count: Nat,
     sub: Subscriptions \cup {None}, slot: Times, schedule: Schedules]

AdminState == [op: {"none", "CREATE", "UPDATE", "ACTIVATE", "DEACTIVATE"},
               sub: Subscriptions \cup {None}, schedule: Schedules,
               next: Nat \cup {None}, since: Times]

DefaultSchedule == CHOOSE c \in Schedules : TRUE

IdleWorker == [pc |-> "poll", now |-> 0, rows |-> {}, count |-> 0,
               sub |-> None, slot |-> 0, schedule |-> DefaultSchedule]

IdleAdmin == [op |-> "none", sub |-> None, schedule |-> DefaultSchedule,
              next |-> None, since |-> 0]

\* The batch goes on; what the worker knew of the last slot is forgotten.
NextClaim(w) == [IdleWorker EXCEPT !.pc = "claim", !.count = worker[w].count]

Due(s, now) ==
    /\ subscription[s].active
    /\ subscription[s].nextRunAt # None
    /\ subscription[s].nextRunAt <= now

-----------------------------------------------------------------------------
\* The database may hold subscriptions made before there was a scheduler:
\* active, and without a next run.
Init ==
    /\ clock = 0
    /\ subscription \in [Subscriptions ->
           {r \in [exists: BOOLEAN, active: BOOLEAN, nextRunAt: {None},
                   schedule: Schedules] : r.active => r.exists}]
    /\ run = [s \in Subscriptions |->
                 [t \in Times |-> [status |-> "NONE", startedAt |-> 0]]]
    /\ worker = [w \in Workers |-> IdleWorker]
    /\ admin = [a \in Admins |-> IdleAdmin]
    /\ accepted = [s \in Subscriptions |-> [t \in Times |-> 0]]
    /\ crashes = 0

\* A request of the API does not outlast RequestDelay time units.
Tick ==
    /\ clock < MaxTime
    /\ \A a \in Admins : admin[a].op # "none" => clock - admin[a].since < RequestDelay
    /\ clock' = clock + 1
    /\ UNCHANGED <<subscription, run, worker, admin, accepted, crashes>>

-----------------------------------------------------------------------------
(* The worker loop.                                                        *)

\* An iteration begins: initialize() reads the rows without a next run.
FindUninitialized(w) ==
    /\ worker[w].pc = "poll"
    /\ worker' = [worker EXCEPT ![w] =
           [IdleWorker EXCEPT !.pc = "initialize", !.now = clock,
                !.rows = {s \in Subscriptions :
                             /\ subscription[s].active
                             /\ subscription[s].nextRunAt = None}]]
    /\ UNCHANGED <<clock, subscription, run, admin, accepted, crashes>>

InitializeRow(w, s) ==
    /\ worker[w].pc = "initialize"
    /\ s \in worker[w].rows
    /\ subscription' =
           IF subscription[s].active /\ subscription[s].nextRunAt = None
           THEN [subscription EXCEPT ![s].nextRunAt =
                    NextManagerReportRunAt(subscription[s].schedule, worker[w].now)]
           ELSE subscription
    /\ worker' = [worker EXCEPT ![w].rows = @ \ {s}]
    /\ UNCHANGED <<clock, run, admin, accepted, crashes>>

\* Faulty variant: the comparison with the start of the run is inverted.
InterruptedInverted(r, now) ==
    r.status = "PROCESSING" /\ r.startedAt > now - InterruptAfter

Interrupted(r, now) ==
    r.status = "PROCESSING" /\ r.startedAt < now - InterruptAfter

MarkInterrupted(w) ==
    /\ worker[w].pc = "initialize"
    /\ worker[w].rows = {}
    /\ run' = [s \in Subscriptions |-> [t \in Times |->
           IF Interrupted(run[s][t], clock)
           THEN [run[s][t] EXCEPT !.status = "NEEDS_REVIEW"]
           ELSE run[s][t]]]
    /\ worker' = [worker EXCEPT ![w] = NextClaim(w)]
    /\ UNCHANGED <<clock, subscription, admin, accepted, crashes>>

\* claimDue() reads the due row with the earliest next run, if any.
FindDue(w) ==
    /\ worker[w].pc = "claim"
    /\ worker[w].count < BatchSize
    /\ \E s \in Subscriptions :
           /\ Due(s, clock)
           /\ \A u \in Subscriptions :
                  Due(u, clock) => subscription[s].nextRunAt <= subscription[u].nextRunAt
           /\ worker' = [worker EXCEPT ![w].pc = "commit", ![w].now = clock,
                  ![w].count = @ + 1, ![w].sub = s,
                  ![w].slot = subscription[s].nextRunAt,
                  ![w].schedule = subscription[s].schedule]
    /\ UNCHANGED <<clock, subscription, run, admin, accepted, crashes>>

EndIteration(w) ==
    /\ worker[w].pc = "claim"
    /\ worker[w].count = BatchSize \/ \A s \in Subscriptions : ~Due(s, clock)
    /\ worker' = [worker EXCEPT ![w] = IdleWorker]
    /\ UNCHANGED <<clock, subscription, run, admin, accepted, crashes>>

\* The conditional update that claims the slot the worker read.
StillDue(w) ==
    /\ subscription[worker[w].sub].active
    /\ subscription[worker[w].sub].nextRunAt = worker[w].slot

AdvanceSchedule(w) ==
    subscription' = [subscription EXCEPT ![worker[w].sub].nextRunAt =
        NextManagerReportRunAt(worker[w].schedule, worker[w].now)]

\* Both statements of the transaction succeed: the run is recorded, to be
\* delivered or as more than StaleAfter late.
ClaimDue(w) ==
    LET s == worker[w].sub
        t == worker[w].slot
        skipped == worker[w].now - t > StaleAfter
    IN  /\ worker[w].pc = "commit"
        /\ StillDue(w)
        /\ run[s][t].status = "NONE"
        /\ AdvanceSchedule(w)
        /\ run' = [run EXCEPT ![s][t] =
               [status |-> IF skipped THEN "SKIPPED" ELSE "PROCESSING",
                startedAt |-> clock]]
        /\ worker' = [worker EXCEPT ![w] =
               IF skipped THEN NextClaim(w)
               ELSE [@ EXCEPT !.pc = "load", !.now = 0, !.schedule = DefaultSchedule]]
        /\ UNCHANGED <<clock, admin, accepted, crashes>>

\* No row was updated: the loop takes it as "nothing due" and waits.  A run
\* with that key exists: the unique index aborts the transaction, and the
\* iteration fails.
ClaimRefused(w) ==
    /\ worker[w].pc = "commit"
    /\ StillDue(w) => run[worker[w].sub][worker[w].slot].status # "NONE"
    /\ worker' = [worker EXCEPT ![w] = IdleWorker]
    /\ UNCHANGED <<clock, subscription, run, admin, accepted, crashes>>

\* The subscription is read again; an inactive one is not delivered.
LoadSubscription(w) ==
    /\ worker[w].pc = "load"
    /\ worker' = [worker EXCEPT ![w].pc =
           IF subscription[worker[w].sub].active THEN "dispatch" ELSE "review"]
    /\ UNCHANGED <<clock, subscription, run, admin, accepted, crashes>>

\* Faulty variant: an answer that was lost is taken as a reason to retry.
DispatchRetried(w) ==
    /\ worker[w].pc = "dispatch"
    /\ accepted' = [accepted EXCEPT ![worker[w].sub][worker[w].slot] = @ + 1]
    /\ \E answer \in {"submitted", "load"} :
           worker' = [worker EXCEPT ![w].pc = answer]
    /\ UNCHANGED <<clock, subscription, run, admin, crashes>>

\* Twilio accepts the request; its answer may be lost on the way back.
DispatchAccepted(w) ==
    /\ worker[w].pc = "dispatch"
    /\ accepted' = [accepted EXCEPT ![worker[w].sub][worker[w].slot] = @ + 1]
    /\ \E answer \in {"submitted", "review"} :
           worker' = [worker EXCEPT ![w].pc = answer]
    /\ UNCHANGED <<clock, subscription, run, admin, crashes>>

\* The recipient is inactive, the report cannot be built, Twilio refuses...
DispatchFailed(w) ==
    /\ worker[w].pc = "dispatch"
    /\ worker' = [worker EXCEPT ![w].pc = "review"]
    /\ UNCHANGED <<clock, subscription, run, admin, accepted, crashes>>

\* Faulty variant: the status of the run is not part of the condition.
FinishUnconditionally(w, pc, status) ==
    /\ worker[w].pc = pc
    /\ run' = [run EXCEPT ![worker[w].sub][worker[w].slot].status = status]
    /\ worker' = [worker EXCEPT ![w] = NextClaim(w)]
    /\ UNCHANGED <<clock, subscription, admin, accepted, crashes>>

\* finish() writes only over PROCESSING, and the batch goes on.
Finish(w, pc, status) ==
    LET s == worker[w].sub
        t == worker[w].slot
    IN  /\ worker[w].pc = pc
        /\ run' = IF run[s][t].status = "PROCESSING"
                  THEN [run EXCEPT ![s][t].status = status]
                  ELSE run
        /\ worker' = [worker EXCEPT ![w] = NextClaim(w)]
        /\ UNCHANGED <<clock, subscription, admin, accepted, crashes>>

FinishSubmitted(w) == Finish(w, "submitted", "SUBMITTED")

FinishNeedsReview(w) == Finish(w, "review", "NEEDS_REVIEW")

\* finish(SUBMITTED) fails: the catch block records NEEDS_REVIEW instead.
FinishSubmittedFails(w) ==
    /\ worker[w].pc = "submitted"
    /\ worker' = [worker EXCEPT ![w].pc = "review"]
    /\ UNCHANGED <<clock, subscription, run, admin, accepted, crashes>>

\* The process dies and is restarted, or a statement fails outside the
\* delivery's try block and the iteration is given up.
Crash(w) ==
    /\ worker[w].pc # "poll"
    /\ crashes < MaxCrashes
    /\ crashes' = crashes + 1
    /\ worker' = [worker EXCEPT ![w] = IdleWorker]
    /\ UNCHANGED <<clock, subscription, run, admin, accepted>>

-----------------------------------------------------------------------------
(* The administrator: the next run is computed from the API's clock before *)
(* the statement that stores it is sent.                                   *)

PrepareSave(a, s, schedule) ==
    /\ admin[a].op = "none"
    /\ admin' = [admin EXCEPT ![a] =
           [op |-> IF subscription[s].exists THEN "UPDATE" ELSE "CREATE",
            sub |-> s, schedule |-> schedule,
            next |-> NextManagerReportRunAt(schedule, clock), since |-> clock]]
    /\ UNCHANGED <<clock, subscription, run, worker, accepted, crashes>>

PrepareSetActive(a, s, isActive) ==
    /\ admin[a].op = "none"
    /\ subscription[s].exists
    /\ admin' = [admin EXCEPT ![a] =
           [op |-> IF isActive THEN "ACTIVATE" ELSE "DEACTIVATE",
            sub |-> s, schedule |-> DefaultSchedule,
            next |-> IF isActive
                     THEN NextManagerReportRunAt(subscription[s].schedule, clock)
                     ELSE None,
            since |-> clock]]
    /\ UNCHANGED <<clock, subscription, run, worker, accepted, crashes>>

\* A second subscription of the recipient breaks the unique index; the
\* schedule is stored by create and update, the active flag by setActive.
CommitAdmin(a) ==
    LET s == admin[a].sub
        op == admin[a].op
    IN  /\ op # "none"
        /\ subscription' =
               CASE op = "CREATE" /\ subscription[s].exists -> subscription
                 [] op = "CREATE" /\ ~subscription[s].exists ->
                      [subscription EXCEPT ![s] =
                          [exists |-> TRUE, active |-> TRUE,
                           nextRunAt |-> admin[a].next,
                           schedule |-> admin[a].schedule]]
                 [] op = "UPDATE" ->
                      [subscription EXCEPT ![s].nextRunAt = admin[a].next,
                                           ![s].schedule = admin[a].schedule]
                 [] OTHER ->
                      [subscription EXCEPT ![s].nextRunAt = admin[a].next,
                                           ![s].active = (op = "ACTIVATE")]
        /\ admin' = [admin EXCEPT ![a] = IdleAdmin]
        /\ UNCHANGED <<clock, run, worker, accepted, crashes>>

-----------------------------------------------------------------------------
WorkerStep(w) ==
    \/ FindUninitialized(w)
    \/ \E s \in Subscriptions : InitializeRow(w, s)
    \/ MarkInterrupted(w)
    \/ FindDue(w) \/ EndIteration(w)
    \/ ClaimDue(w) \/ ClaimRefused(w)
    \/ LoadSubscription(w)
    \/ DispatchAccepted(w) \/ DispatchFailed(w)
    \/ FinishSubmitted(w) \/ FinishNeedsReview(w) \/ FinishSubmittedFails(w)

AdminStep(a) ==
    \/ \E s \in Subscriptions, c \in Schedules : PrepareSave(a, s, c)
    \/ \E s \in Subscriptions, b \in BOOLEAN : PrepareSetActive(a, s, b)
    \/ CommitAdmin(a)

Next ==
    \/ Tick
    \/ \E w \in Workers : WorkerStep(w) \/ Crash(w)
    \/ \E a \in Admins : AdminStep(a)

Spec == Init /\ [][Next]_vars

\* The worker's loop never ends by itself and the process is restarted when
\* it dies; time passes; a request of the API, once made, is carried out.
FairSpec ==
    /\ Spec
    /\ WF_vars(Tick)
    /\ \A w \in Workers : WF_vars(WorkerStep(w))
    /\ \A a \in Admins : WF_vars(CommitAdmin(a))

-----------------------------------------------------------------------------
TypeOK ==
    /\ clock \in Times
    /\ subscription \in [Subscriptions -> SubscriptionRow]
    /\ run \in [Subscriptions -> [Times -> RunRow]]
    /\ worker \in [Workers -> WorkerState]
    /\ admin \in [Admins -> AdminState]
    /\ accepted \in [Subscriptions -> [Times -> Nat]]
    /\ crashes \in 0..MaxCrashes

\* However many workers poll, crash or answer late, and whatever an
\* administrator does meanwhile, Twilio gets one request for a slot at most
\* ("Never retry this slot without review", manager-report-worker.ts:45).
AtMostOneRequestPerSlot ==
    \A s \in Subscriptions, t \in Times : accepted[s][t] <= 1

\* The workers implement the ledger: each slot claimed once, a skipped slot
\* never sent, SUBMITTED only for what Twilio accepted, and no final outcome
\* rewritten, not even by the worker that was given up as interrupted.
Ledger == INSTANCE ReportSlotLedger WITH
    Slots <- Times,
    status <- [s \in Subscriptions |-> [t \in Times |-> run[s][t].status]]

ImplementsLedger == Ledger!Spec

\* While nobody edits the subscriptions, every slot that comes due is claimed
\* or recorded as skipped: the workers do not starve or block each other.
DueSlotGetsARun ==
    \A s \in Subscriptions, t \in Times :
        (Due(s, clock) /\ subscription[s].nextRunAt = t)
            ~> (run[s][t].status # "NONE")

\* No run stays PROCESSING: its worker finishes it or, an hour later, some
\* worker reports it as interrupted.  (A run that starts too close to the
\* end of the bounded clock never grows old and is left out.)
ProcessingIsResolved ==
    \A s \in Subscriptions, t \in Times :
        (/\ run[s][t].status = "PROCESSING"
         /\ run[s][t].startedAt + InterruptAfter < MaxTime)
            ~> (run[s][t].status # "PROCESSING")

\* "Un horario atrasado mas de 24 horas se marca SKIPPED"
\* (MANAGER_REPORT_SCHEDULER.md:14): a slot that stays next in an active
\* subscription until it is that late is at some time recorded, or dropped by
\* an edit of the subscription.
OverdueSlotIsSkipped ==
    \A s \in Subscriptions, t \in Times :
        (/\ Due(s, clock)
         /\ subscription[s].nextRunAt = t
         /\ run[s][t].status = "NONE"
         /\ clock - t > StaleAfter)
            ~> \/ run[s][t].status # "NONE"
               \/ subscription[s].nextRunAt # t
               \/ ~subscription[s].active
=============================================================================
