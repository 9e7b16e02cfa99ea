------------------- MODULE ManagerReportScheduler_proofs -------------------
(***************************************************************************)
(* Proofs that, for any number of workers, subscriptions, schedules and    *)
(* administrators, the scheduler is type correct, sends at most one        *)
(* request per slot and implements the ledger.                             *)
(***************************************************************************)
EXTENDS ManagerReportScheduler, TLAPS

\* The worker has claimed a slot and not yet sent its request.
Holds(w) == worker[w].pc \in {"load", "dispatch"}

SameSlot(v, w) == worker[v].sub = worker[w].sub /\ worker[v].slot = worker[w].slot

\* Locals that name a row do name one.
LocalsOK ==
    /\ \A w \in Workers :
          worker[w].pc \in {"commit", "load", "dispatch", "submitted", "review"}
              => worker[w].sub \in Subscriptions
    /\ \A a \in Admins : admin[a].op # "none" => admin[a].sub \in Subscriptions

\* A slot that some worker holds was recorded and not yet sent ...
HeldSlotsUnsent ==
    \A w \in Workers : Holds(w) =>
        /\ run[worker[w].sub][worker[w].slot].status \in {"PROCESSING", "NEEDS_REVIEW"}
        /\ accepted[worker[w].sub][worker[w].slot] = 0

\* ... and no other worker holds it.
HeldByOne ==
    \A v, w \in Workers : v # w /\ Holds(v) /\ Holds(w) => ~SameSlot(v, w)

AnsweredWasAccepted ==
    \A w \in Workers : worker[w].pc = "submitted" =>
        accepted[worker[w].sub][worker[w].slot] = 1

OutcomeMatchesTwilio ==
    \A s \in Subscriptions, t \in Times :
        /\ accepted[s][t] \in {0, 1}
        /\ run[s][t].status \in {"NONE", "SKIPPED"} => accepted[s][t] = 0
        /\ run[s][t].status = "SUBMITTED" => accepted[s][t] = 1

IInv ==
    /\ TypeOK
    /\ LocalsOK
    /\ HeldSlotsUnsent
    /\ HeldByOne
    /\ AnsweredWasAccepted
    /\ OutcomeMatchesTwilio

-----------------------------------------------------------------------------
LEMMA DefaultScheduleType == DefaultSchedule \in Schedules
  BY ConstantsAssumption DEF DefaultSchedule

LEMMA NextRunType ==
  ASSUME NEW c \in Schedules, NEW n \in Nat
  PROVE  NextManagerReportRunAt(c, n) \in Nat
  <1>1. c.period \in Nat \ {0} /\ c.offset \in Nat
    BY ConstantsAssumption
  <1> DEFINE d == c.offset - (n + 1)
  <1>2. d \in Int
    BY <1>1
  <1>3. d % c.period \in 0..(c.period - 1)
    BY <1>1, <1>2
  <1>4. QED
    BY <1>1, <1>3 DEF NextManagerReportRunAt

LEMMA IdleWorkerType == IdleWorker \in WorkerState
  BY DefaultScheduleType, ConstantsAssumption DEF IdleWorker, WorkerState, Times

LEMMA IdleAdminType == IdleAdmin \in AdminState
  BY DefaultScheduleType, ConstantsAssumption DEF IdleAdmin, AdminState, Times

LEMMA RunRowStatus ==
  ASSUME NEW r \in RunRow, NEW status \in FinalStatus
  PROVE  [r EXCEPT !.status = status] \in RunRow
  BY DEF RunRow

LEMMA WorkerPc ==
  ASSUME NEW l \in WorkerState,
         NEW pc \in {"claim", "commit", "load", "dispatch", "submitted", "review"}
  PROVE  [l EXCEPT !.pc = pc] \in WorkerState
  BY DEF WorkerState

LEMMA LoadedType ==
  ASSUME NEW l \in WorkerState
  PROVE  [l EXCEPT !.pc = "load", !.now = 0, !.schedule = DefaultSchedule]
            \in WorkerState
  <1> DEFINE a == [l EXCEPT !.pc = "load"]
             b == [a EXCEPT !.now = 0]
             c == [b EXCEPT !.schedule = DefaultSchedule]
  <1>1. a \in WorkerState
    BY DEF WorkerState
  <1>2. 0 \in Times
    BY ConstantsAssumption DEF Times
  <1>3. b \in WorkerState
    <2> HIDE DEF a
    <2> QED BY <1>1, <1>2 DEF WorkerState
  <1>4. c \in WorkerState
    <2> HIDE DEF b
    <2> QED BY <1>3, DefaultScheduleType DEF WorkerState
  <1>5. QED
    BY <1>4

LEMMA RunUpdateType ==
  ASSUME NEW f \in [Subscriptions -> [Times -> RunRow]],
         NEW s \in Subscriptions, NEW t \in Times, NEW r \in RunRow
  PROVE  [f EXCEPT ![s][t] = r] \in [Subscriptions -> [Times -> RunRow]]
  OBVIOUS

LEMMA NextClaimType ==
  ASSUME NEW w \in Workers, worker[w] \in WorkerState
  PROVE  NextClaim(w) \in WorkerState
  BY IdleWorkerType DEF NextClaim, WorkerState

\* What Init and each step establish of the types alone.
LEMMA InitType == Init => TypeOK /\ LocalsOK
  <1> SUFFICES ASSUME Init PROVE TypeOK /\ LocalsOK
    OBVIOUS
  <1>1. clock \in Times /\ crashes \in 0..MaxCrashes
    BY ConstantsAssumption DEF Init, Times
  <1>2. subscription \in [Subscriptions -> SubscriptionRow]
    BY DEF Init, SubscriptionRow
  <1>3. run \in [Subscriptions -> [Times -> RunRow]]
    BY ConstantsAssumption DEF Init, RunRow, Times
  <1>4. worker \in [Workers -> WorkerState]
    BY IdleWorkerType DEF Init
  <1>5. admin \in [Admins -> AdminState]
    BY IdleAdminType DEF Init
  <1>6. accepted \in [Subscriptions -> [Times -> Nat]]
    BY DEF Init
  <1>7. LocalsOK
    BY DEF Init, LocalsOK, IdleWorker, IdleAdmin
  <1>8. QED
    BY <1>1, <1>2, <1>3, <1>4, <1>5, <1>6, <1>7 DEF TypeOK

LEMMA WorkerStepType ==
  ASSUME TypeOK, LocalsOK, NEW w \in Workers, WorkerStep(w) \/ Crash(w)
  PROVE  TypeOK' /\ LocalsOK'
  <1>0. /\ worker[w] \in WorkerState
        /\ clock \in Nat
        /\ worker[w].now \in Nat
        /\ \A s \in Subscriptions : subscription[s] \in SubscriptionRow
    BY ConstantsAssumption DEF TypeOK, WorkerState, Times
  <1>1. CASE FindUninitialized(w)
    <2>1. worker' \in [Workers -> WorkerState]
      BY <1>1, <1>0, IdleWorkerType DEF FindUninitialized, TypeOK, WorkerState
    <2>2. QED
      BY <1>1, <2>1 DEF FindUninitialized, TypeOK, LocalsOK, IdleWorker
  <1>2. ASSUME NEW s \in Subscriptions, InitializeRow(w, s)
        PROVE  TypeOK' /\ LocalsOK'
    <2>1. NextManagerReportRunAt(subscription[s].schedule, worker[w].now) \in Nat
      BY <1>0, NextRunType DEF SubscriptionRow
    <2>2. subscription' \in [Subscriptions -> SubscriptionRow]
      BY <1>2, <2>1, <1>0 DEF InitializeRow, TypeOK, SubscriptionRow
    <2>3. worker' \in [Workers -> WorkerState]
      BY <1>2, <1>0 DEF InitializeRow, TypeOK, WorkerState
    <2>4. QED
      BY <1>2, <2>2, <2>3 DEF InitializeRow, TypeOK, LocalsOK
  <1>3. CASE MarkInterrupted(w)
    <2>1. run' \in [Subscriptions -> [Times -> RunRow]]
      <3>1. \A s \in Subscriptions, t \in Times : run[s][t] \in RunRow
        BY DEF TypeOK
      <3>2. \A s \in Subscriptions, t \in Times :
               [run[s][t] EXCEPT !.status = "NEEDS_REVIEW"] \in RunRow
        BY <3>1, RunRowStatus DEF FinalStatus
      <3>3. QED
        BY <1>3, <3>1, <3>2 DEF MarkInterrupted
    <2>2. worker' \in [Workers -> WorkerState]
      BY <1>3, <1>0, NextClaimType DEF MarkInterrupted, TypeOK
    <2>3. QED
      BY <1>3, <2>1, <2>2 DEF MarkInterrupted, NextClaim, IdleWorker, TypeOK, LocalsOK
  <1>4. CASE FindDue(w)
    <2>1. PICK s \in Subscriptions :
             /\ Due(s, clock)
             /\ worker' = [worker EXCEPT ![w].pc = "commit", ![w].now = clock,
                  ![w].count = @ + 1, ![w].sub = s,
                  ![w].slot = subscription[s].nextRunAt,
                  ![w].schedule = subscription[s].schedule]
      BY <1>4 DEF FindDue
    <2>2. subscription[s].nextRunAt \in Times /\ subscription[s].schedule \in Schedules
      BY <2>1, <1>0, ConstantsAssumption DEF Due, Times, SubscriptionRow, TypeOK
    <2>3. worker' \in [Workers -> WorkerState]
      BY <2>1, <2>2, <1>0 DEF TypeOK, WorkerState
    <2>4. QED
      BY <1>4, <2>1, <2>3 DEF FindDue, TypeOK, LocalsOK
  <1>5. CASE EndIteration(w) \/ ClaimRefused(w)
    <2>1. /\ worker' = [worker EXCEPT ![w] = IdleWorker]
          /\ UNCHANGED <<clock, subscription, run, admin, accepted, crashes>>
      BY <1>5 DEF EndIteration, ClaimRefused
    <2>2. worker' \in [Workers -> WorkerState]
      BY <2>1, IdleWorkerType DEF TypeOK
    <2>3. QED
      BY <2>1, <2>2 DEF IdleWorker, TypeOK, LocalsOK
  <1>6. CASE ClaimDue(w)
    <2>1. /\ worker[w].sub \in Subscriptions
          /\ worker[w].slot \in Times
          /\ worker[w].schedule \in Schedules
      BY <1>6, <1>0 DEF ClaimDue, LocalsOK, WorkerState
    <2>2. NextManagerReportRunAt(worker[w].schedule, worker[w].now) \in Nat
      BY <2>1, <1>0, NextRunType
    <2>3. subscription' \in [Subscriptions -> SubscriptionRow]
      BY <1>6, <2>1, <2>2 DEF ClaimDue, AdvanceSchedule, TypeOK, SubscriptionRow
    <2>4. run' \in [Subscriptions -> [Times -> RunRow]]
      BY <1>6, <2>1 DEF ClaimDue, TypeOK, RunRow, FinalStatus
    <2>5. worker' \in [Workers -> WorkerState]
      <3> DEFINE loaded == [worker[w] EXCEPT !.pc = "load", !.now = 0,
                                             !.schedule = DefaultSchedule]
      <3>1. loaded \in WorkerState
        BY <1>0, LoadedType
      <3>2. worker' = [worker EXCEPT ![w] = NextClaim(w)]
            \/ worker' = [worker EXCEPT ![w] = loaded]
        BY <1>6 DEF ClaimDue
      <3>3. QED
        BY <3>1, <3>2, <1>0, NextClaimType DEF TypeOK
    <2>6. QED
      BY <1>6, <2>1, <2>3, <2>4, <2>5
         DEF ClaimDue, NextClaim, IdleWorker, TypeOK, LocalsOK
  <1>7. CASE LoadSubscription(w) \/ DispatchFailed(w) \/ FinishSubmittedFails(w)
    <2>1. worker' \in [Workers -> WorkerState]
      <3>1. \E pc \in {"dispatch", "review"} :
               worker' = [worker EXCEPT ![w] = [worker[w] EXCEPT !.pc = pc]]
        BY <1>7 DEF LoadSubscription, DispatchFailed, FinishSubmittedFails
      <3>2. QED
        BY <3>1, <1>0, WorkerPc DEF TypeOK
    <2>2. QED
      <3>1. worker[w].sub \in Subscriptions
        BY <1>7 DEF LoadSubscription, DispatchFailed, FinishSubmittedFails, LocalsOK
      <3>2. /\ UNCHANGED <<clock, subscription, run, admin, accepted, crashes>>
            /\ worker'[w].sub = worker[w].sub
            /\ \A v \in Workers \ {w} : worker'[v] = worker[v]
        BY <1>7 DEF LoadSubscription, DispatchFailed, FinishSubmittedFails, TypeOK,
                    WorkerState
      <3>3. LocalsOK'
        BY <3>1, <3>2 DEF LocalsOK
      <3>4. QED
        BY <2>1, <3>2, <3>3 DEF TypeOK
  <1>8. CASE DispatchAccepted(w)
    <2>1. worker[w].sub \in Subscriptions /\ worker[w].slot \in Times
      BY <1>8, <1>0 DEF DispatchAccepted, LocalsOK, WorkerState
    <2>2. accepted' \in [Subscriptions -> [Times -> Nat]]
      BY <1>8, <2>1 DEF DispatchAccepted, TypeOK
    <2>3. worker' \in [Workers -> WorkerState]
      <3>1. \E pc \in {"submitted", "review"} :
               worker' = [worker EXCEPT ![w] = [worker[w] EXCEPT !.pc = pc]]
        BY <1>8 DEF DispatchAccepted
      <3>2. QED
        BY <3>1, <1>0, WorkerPc DEF TypeOK
    <2>4. QED
      BY <1>8, <2>1, <2>2, <2>3 DEF DispatchAccepted, TypeOK, LocalsOK
  <1>9. ASSUME NEW pc \in {"submitted", "review"},
               NEW status \in {"SUBMITTED", "NEEDS_REVIEW"},
               Finish(w, pc, status)
        PROVE  TypeOK' /\ LocalsOK'
    <2>1. worker[w].sub \in Subscriptions /\ worker[w].slot \in Times
      BY <1>9, <1>0 DEF Finish, LocalsOK, WorkerState
    <2>2. run' \in [Subscriptions -> [Times -> RunRow]]
      <3> DEFINE r == run[worker[w].sub][worker[w].slot]
                 q == [r EXCEPT !.status = status]
      <3>1. q \in RunRow
        BY <2>1, RunRowStatus DEF TypeOK, FinalStatus
      <3>2. run' = run \/ run' = [run EXCEPT ![worker[w].sub][worker[w].slot] = q]
        BY <1>9, <2>1 DEF Finish, TypeOK
      <3> HIDE DEF q
      <3>3. QED
        <4>1. run \in [Subscriptions -> [Times -> RunRow]]
          BY DEF TypeOK
        <4>2. [run EXCEPT ![worker[w].sub][worker[w].slot] = q]
                  \in [Subscriptions -> [Times -> RunRow]]
          BY <2>1, <3>1, <4>1, RunUpdateType
        <4>3. QED
          BY <3>2, <4>1, <4>2
    <2>3. worker' \in [Workers -> WorkerState]
      BY <1>9, <1>0, NextClaimType DEF Finish, TypeOK
    <2>4. QED
      BY <1>9, <2>2, <2>3 DEF Finish, NextClaim, IdleWorker, TypeOK, LocalsOK
  <1>10. CASE Crash(w)
    <2>1. crashes' \in 0..MaxCrashes
      BY <1>10, ConstantsAssumption DEF Crash, TypeOK
    <2>2. QED
      BY <1>10, <2>1, IdleWorkerType DEF Crash, IdleWorker, TypeOK, LocalsOK
  <1>11. QED
    BY <1>1, <1>2, <1>3, <1>4, <1>5, <1>6, <1>7, <1>8, <1>9, <1>10
       DEF WorkerStep, FinishSubmitted, FinishNeedsReview

LEMMA AdminStepType ==
  ASSUME TypeOK, LocalsOK, NEW a \in Admins, AdminStep(a)
  PROVE  TypeOK' /\ LocalsOK'
  <1>0. /\ clock \in Nat /\ clock \in Times
        /\ admin[a] \in AdminState
        /\ \A s \in Subscriptions : subscription[s] \in SubscriptionRow
    BY ConstantsAssumption DEF TypeOK, Times
  <1>1. ASSUME NEW s \in Subscriptions, NEW c \in Schedules, PrepareSave(a, s, c)
        PROVE  TypeOK' /\ LocalsOK'
    <2>1. NextManagerReportRunAt(c, clock) \in Nat
      BY <1>0, NextRunType
    <2>2. admin' \in [Admins -> AdminState]
      BY <1>1, <1>0, <2>1 DEF PrepareSave, TypeOK, AdminState
    <2>3. QED
      BY <1>1, <2>2 DEF PrepareSave, TypeOK, LocalsOK
  <1>2. ASSUME NEW s \in Subscriptions, NEW b \in BOOLEAN, PrepareSetActive(a, s, b)
        PROVE  TypeOK' /\ LocalsOK'
    <2>1. NextManagerReportRunAt(subscription[s].schedule, clock) \in Nat
      BY <1>0, NextRunType DEF SubscriptionRow
    <2>2. admin' \in [Admins -> AdminState]
      BY <1>2, <1>0, <2>1, DefaultScheduleType DEF PrepareSetActive, TypeOK, AdminState
    <2>3. QED
      BY <1>2, <2>2 DEF PrepareSetActive, TypeOK, LocalsOK
  <1>3. CASE CommitAdmin(a)
    <2> DEFINE s == admin[a].sub
    <2>1. s \in Subscriptions
      BY <1>3 DEF CommitAdmin, LocalsOK
    <2>2. admin[a].next \in Nat \cup {None} /\ admin[a].schedule \in Schedules
      BY <1>0 DEF AdminState
    <2>3. \E r \in SubscriptionRow :
             subscription' = subscription \/ subscription' = [subscription EXCEPT ![s] = r]
      <3>1. CASE admin[a].op = "CREATE" /\ subscription[s].exists
        BY <1>3, <2>1, <3>1, <1>0 DEF CommitAdmin
      <3>2. CASE admin[a].op = "CREATE" /\ ~subscription[s].exists
        <4> DEFINE r == [exists |-> TRUE, active |-> TRUE, nextRunAt |-> admin[a].next,
                         schedule |-> admin[a].schedule]
        <4>1. r \in SubscriptionRow
          BY <2>2 DEF SubscriptionRow
        <4>2. subscription' = [subscription EXCEPT ![s] = r]
          BY <1>3, <3>2 DEF CommitAdmin
        <4>3. QED
          BY <4>1, <4>2
      <3>3. CASE admin[a].op = "UPDATE"
        <4> DEFINE r == [subscription[s] EXCEPT !.nextRunAt = admin[a].next,
                                                !.schedule = admin[a].schedule]
        <4>1. r \in SubscriptionRow
          BY <2>1, <2>2, <1>0 DEF SubscriptionRow
        <4>2. subscription' = [subscription EXCEPT ![s] = r]
          BY <1>3, <3>3, <2>1 DEF CommitAdmin, TypeOK
        <4>3. QED
          BY <4>1, <4>2
      <3>4. CASE admin[a].op \notin {"CREATE", "UPDATE"}
        <4> DEFINE r == [subscription[s] EXCEPT !.nextRunAt = admin[a].next,
                                                !.active = (admin[a].op = "ACTIVATE")]
        <4>1. r \in SubscriptionRow
          BY <2>1, <2>2, <1>0 DEF SubscriptionRow
        <4>2. subscription' = [subscription EXCEPT ![s] = r]
          BY <1>3, <3>4, <2>1 DEF CommitAdmin, TypeOK
        <4>3. QED
          BY <4>1, <4>2
      <3>5. QED
        BY <3>1, <3>2, <3>3, <3>4
    <2>4. subscription' \in [Subscriptions -> SubscriptionRow]
      BY <2>1, <2>3 DEF TypeOK
    <2>5. admin' \in [Admins -> AdminState]
      BY <1>3, IdleAdminType DEF CommitAdmin, TypeOK
    <2>6. QED
      BY <1>3, <2>4, <2>5 DEF CommitAdmin, IdleAdmin, TypeOK, LocalsOK
  <1>4. QED
    BY <1>1, <1>2, <1>3 DEF AdminStep

LEMMA NextType == TypeOK /\ LocalsOK /\ [Next]_vars => TypeOK' /\ LocalsOK'
  <1> SUFFICES ASSUME TypeOK, LocalsOK, [Next]_vars
               PROVE  TypeOK' /\ LocalsOK'
    OBVIOUS
  <1>1. CASE Tick
    BY <1>1, ConstantsAssumption DEF Tick, TypeOK, LocalsOK, Times
  <1>2. CASE UNCHANGED vars
    BY <1>2 DEF vars, TypeOK, LocalsOK
  <1>3. QED
    BY <1>1, <1>2, WorkerStepType, AdminStepType DEF Next

\* Type correctness: every row, local and counter keeps its type.
THEOREM TypeCorrect == Spec => [](TypeOK /\ LocalsOK)
  BY InitType, NextType, PTL DEF Spec

-----------------------------------------------------------------------------
(* At most one request per slot.                                           *)

SlotsInv == HeldSlotsUnsent /\ HeldByOne /\ AnsweredWasAccepted /\ OutcomeMatchesTwilio

\* A step that leaves the run rows and Twilio alone, and after which its
\* worker holds nothing it did not hold, cannot disturb the slots.
LEMMA QuietStep ==
  ASSUME SlotsInv, NEW w \in Workers,
         UNCHANGED <<run, accepted>>,
         \A v \in Workers \ {w} : worker'[v] = worker[v],
         \/ worker'[w].pc \notin {"load", "dispatch", "submitted"}
         \/ /\ Holds(w) /\ worker'[w].pc # "submitted"
            /\ worker'[w].sub = worker[w].sub /\ worker'[w].slot = worker[w].slot
  PROVE  SlotsInv'
  <1>1. HeldSlotsUnsent'
    BY DEF SlotsInv, HeldSlotsUnsent, Holds
  <1>2. HeldByOne'
    BY DEF SlotsInv, HeldByOne, Holds, SameSlot
  <1>3. AnsweredWasAccepted'
    BY DEF SlotsInv, AnsweredWasAccepted, Holds
  <1>4. OutcomeMatchesTwilio'
    BY DEF SlotsInv, OutcomeMatchesTwilio
  <1>5. QED
    BY <1>1, <1>2, <1>3, <1>4 DEF SlotsInv

LEMMA WorkerKeepsSlots ==
  ASSUME TypeOK, LocalsOK, SlotsInv, NEW w \in Workers, WorkerStep(w) \/ Crash(w)
  PROVE  SlotsInv'
  <1>0. /\ worker \in [Workers -> WorkerState]
        /\ worker[w].slot \in Times
    BY DEF TypeOK, WorkerState
  <1>1. CASE \/ FindUninitialized(w) \/ EndIteration(w) \/ ClaimRefused(w) \/ Crash(w)
             \/ \E s \in Subscriptions : InitializeRow(w, s)
    <2>1. /\ UNCHANGED <<run, accepted>>
          /\ \A v \in Workers \ {w} : worker'[v] = worker[v]
          /\ worker'[w].pc \in {"poll", "initialize"}
      <3>1. CASE EndIteration(w) \/ ClaimRefused(w) \/ Crash(w)
        <4>1. UNCHANGED <<run, accepted>> /\ worker' = [worker EXCEPT ![w] = IdleWorker]
          BY <3>1 DEF EndIteration, ClaimRefused, Crash
        <4>2. QED
          BY <4>1, <1>0 DEF IdleWorker
      <3>2. CASE FindUninitialized(w)
        BY <3>2, <1>0 DEF FindUninitialized, IdleWorker
      <3>3. CASE \E s \in Subscriptions : InitializeRow(w, s)
        BY <3>3, <1>0 DEF InitializeRow, WorkerState
      <3>4. QED
        BY <1>1, <3>1, <3>2, <3>3
    <2>2. QED
      BY <2>1, QuietStep
  <1>2. CASE FindDue(w) \/ DispatchFailed(w) \/ FinishSubmittedFails(w)
    <2>1. /\ UNCHANGED <<run, accepted>>
          /\ \A v \in Workers \ {w} : worker'[v] = worker[v]
          /\ worker'[w].pc \in {"commit", "review"}
      <3>1. CASE FindDue(w)
        BY <3>1, <1>0 DEF FindDue, WorkerState
      <3>2. CASE DispatchFailed(w)
        BY <3>2, <1>0 DEF DispatchFailed, WorkerState
      <3>3. CASE FinishSubmittedFails(w)
        BY <3>3, <1>0 DEF FinishSubmittedFails, WorkerState
      <3>4. QED
        BY <1>2, <3>1, <3>2, <3>3
    <2>2. QED
      BY <2>1, QuietStep
  <1>3. CASE LoadSubscription(w)
    <2>1. /\ UNCHANGED <<run, accepted>>
          /\ \A v \in Workers \ {w} : worker'[v] = worker[v]
          /\ Holds(w) /\ worker'[w].pc \in {"dispatch", "review"}
          /\ worker'[w].sub = worker[w].sub /\ worker'[w].slot = worker[w].slot
      BY <1>3, <1>0 DEF LoadSubscription, Holds, WorkerState
    <2>2. QED
      BY <2>1, QuietStep
  <1>4. CASE MarkInterrupted(w)
    <2>1. /\ UNCHANGED accepted
          /\ \A v \in Workers \ {w} : worker'[v] = worker[v]
          /\ worker'[w].pc = "claim"
      BY <1>4, <1>0 DEF MarkInterrupted, NextClaim, IdleWorker
    <2>2. \A s \in Subscriptions, t \in Times :
             \/ run'[s][t].status = run[s][t].status
             \/ /\ run[s][t].status = "PROCESSING"
                /\ run'[s][t].status = "NEEDS_REVIEW"
      BY <1>4 DEF MarkInterrupted, Interrupted, TypeOK, RunRow
    <2>3. HeldSlotsUnsent'
      BY <2>1, <2>2, <1>0 DEF SlotsInv, HeldSlotsUnsent, Holds, LocalsOK, WorkerState
    <2>4. HeldByOne'
      BY <2>1 DEF SlotsInv, HeldByOne, Holds, SameSlot
    <2>5. AnsweredWasAccepted'
      BY <2>1 DEF SlotsInv, AnsweredWasAccepted
    <2>6. OutcomeMatchesTwilio'
      BY <2>1, <2>2 DEF SlotsInv, OutcomeMatchesTwilio
    <2>7. QED
      BY <2>3, <2>4, <2>5, <2>6 DEF SlotsInv
  <1>5. CASE ClaimDue(w)
    <2> DEFINE s == worker[w].sub
               t == worker[w].slot
    <2>1. s \in Subscriptions /\ t \in Times
      BY <1>5, <1>0 DEF ClaimDue, LocalsOK
    <2>2. /\ UNCHANGED accepted
          /\ run[s][t].status = "NONE"
          /\ run'[s][t].status \in {"SKIPPED", "PROCESSING"}
          /\ \A x \in Subscriptions, y \in Times :
                <<x, y>> # <<s, t>> => run'[x][y] = run[x][y]
      BY <1>5, <2>1 DEF ClaimDue, TypeOK
    <2>3. /\ \A v \in Workers \ {w} : worker'[v] = worker[v]
          /\ \/ worker'[w].pc = "claim"
             \/ /\ worker'[w].pc = "load" /\ run'[s][t].status = "PROCESSING"
                /\ worker'[w].sub = s /\ worker'[w].slot = t
      BY <1>5, <1>0, <2>1 DEF ClaimDue, NextClaim, IdleWorker, TypeOK, WorkerState
    <2>4. accepted[s][t] = 0
      BY <2>1, <2>2 DEF SlotsInv, OutcomeMatchesTwilio
    <2>5. \A v \in Workers : Holds(v) => ~(worker[v].sub = s /\ worker[v].slot = t)
      BY <2>2 DEF SlotsInv, HeldSlotsUnsent
    <2>6. HeldSlotsUnsent'
      <3>1. ASSUME NEW v \in Workers \ {w}, Holds(v)
            PROVE  run'[worker[v].sub][worker[v].slot] = run[worker[v].sub][worker[v].slot]
        <4>1. worker[v].sub \in Subscriptions /\ worker[v].slot \in Times
          BY <3>1, <1>0 DEF Holds, LocalsOK, WorkerState
        <4>2. QED
          BY <4>1, <3>1, <2>2, <2>5
      <3>2. QED
        BY <3>1, <2>2, <2>3, <2>4 DEF SlotsInv, HeldSlotsUnsent, Holds
    <2>7. HeldByOne'
      BY <2>3, <2>5 DEF SlotsInv, HeldByOne, Holds, SameSlot
    <2>8. AnsweredWasAccepted'
      BY <2>2, <2>3 DEF SlotsInv, AnsweredWasAccepted
    <2>9. OutcomeMatchesTwilio'
      BY <2>1, <2>2, <2>4 DEF SlotsInv, OutcomeMatchesTwilio
    <2>10. QED
      BY <2>6, <2>7, <2>8, <2>9 DEF SlotsInv
  <1>6. CASE DispatchAccepted(w)
    <2> DEFINE s == worker[w].sub
               t == worker[w].slot
    <2>1. s \in Subscriptions /\ t \in Times
      BY <1>6, <1>0 DEF DispatchAccepted, LocalsOK
    <2>2. /\ Holds(w)
          /\ accepted[s][t] = 0
          /\ run[s][t].status \in {"PROCESSING", "NEEDS_REVIEW"}
      BY <1>6 DEF DispatchAccepted, Holds, SlotsInv, HeldSlotsUnsent
    <2>3. /\ UNCHANGED run
          /\ accepted'[s][t] = 1
          /\ \A x \in Subscriptions, y \in Times :
                <<x, y>> # <<s, t>> => accepted'[x][y] = accepted[x][y]
      BY <1>6, <2>1, <2>2 DEF DispatchAccepted, TypeOK
    <2>4. /\ \A v \in Workers \ {w} : worker'[v] = worker[v]
          /\ worker'[w].pc \in {"submitted", "review"}
          /\ worker'[w].sub = s /\ worker'[w].slot = t
      BY <1>6, <1>0 DEF DispatchAccepted, WorkerState
    <2>5. \A v \in Workers \ {w} : Holds(v) => ~(worker[v].sub = s /\ worker[v].slot = t)
      BY <2>2 DEF SlotsInv, HeldByOne, SameSlot
    <2>6. HeldSlotsUnsent'
      <3>1. ASSUME NEW v \in Workers \ {w}, Holds(v)
            PROVE  accepted'[worker[v].sub][worker[v].slot] = accepted[worker[v].sub][worker[v].slot]
        <4>1. worker[v].sub \in Subscriptions /\ worker[v].slot \in Times
          BY <3>1, <1>0 DEF Holds, LocalsOK, WorkerState
        <4>2. QED
          BY <4>1, <3>1, <2>3, <2>5
      <3>2. QED
        BY <3>1, <2>3, <2>4 DEF SlotsInv, HeldSlotsUnsent, Holds
    <2>7. HeldByOne'
      BY <2>4 DEF SlotsInv, HeldByOne, Holds, SameSlot
    <2>8. AnsweredWasAccepted'
      <3>1. ASSUME NEW v \in Workers \ {w}, worker[v].pc = "submitted"
            PROVE  accepted'[worker[v].sub][worker[v].slot] = 1
        <4>1. worker[v].sub \in Subscriptions /\ worker[v].slot \in Times
          BY <3>1, <1>0 DEF LocalsOK, WorkerState
        <4>2. accepted[worker[v].sub][worker[v].slot] = 1
          BY <3>1 DEF SlotsInv, AnsweredWasAccepted
        <4>3. QED
          BY <4>1, <4>2, <2>3
      <3>2. QED
        BY <3>1, <2>3, <2>4 DEF AnsweredWasAccepted
    <2>9. OutcomeMatchesTwilio'
      BY <2>1, <2>2, <2>3 DEF SlotsInv, OutcomeMatchesTwilio
    <2>10. QED
      BY <2>6, <2>7, <2>8, <2>9 DEF SlotsInv
  <1>7. CASE FinishSubmitted(w) \/ FinishNeedsReview(w)
    <2> DEFINE s == worker[w].sub
               t == worker[w].slot
    <2>1. s \in Subscriptions /\ t \in Times
      BY <1>7, <1>0 DEF FinishSubmitted, FinishNeedsReview, Finish, LocalsOK
    <2>2. /\ UNCHANGED accepted
          /\ \A v \in Workers \ {w} : worker'[v] = worker[v]
          /\ worker'[w].pc = "claim"
      BY <1>7, <1>0 DEF FinishSubmitted, FinishNeedsReview, Finish, NextClaim, IdleWorker
    <2>3. /\ \A x \in Subscriptions, y \in Times :
                <<x, y>> # <<s, t>> => run'[x][y] = run[x][y]
          /\ \/ run'[s][t].status = run[s][t].status
             \/ run[s][t].status = "PROCESSING" /\ run'[s][t].status = "NEEDS_REVIEW"
             \/ /\ run[s][t].status = "PROCESSING" /\ run'[s][t].status = "SUBMITTED"
                /\ worker[w].pc = "submitted"
      BY <1>7, <2>1 DEF FinishSubmitted, FinishNeedsReview, Finish, TypeOK, RunRow
    <2>4. run'[s][t].status = "SUBMITTED" => accepted[s][t] = 1
      BY <2>1, <2>3 DEF SlotsInv, AnsweredWasAccepted, OutcomeMatchesTwilio
    <2>5. HeldSlotsUnsent'
      <3>1. ASSUME NEW v \in Workers \ {w}, Holds(v)
            PROVE  run'[worker[v].sub][worker[v].slot].status
                      \in {"PROCESSING", "NEEDS_REVIEW"}
        <4>1. worker[v].sub \in Subscriptions /\ worker[v].slot \in Times
          BY <3>1, <1>0 DEF Holds, LocalsOK, WorkerState
        <4>2. /\ run[worker[v].sub][worker[v].slot].status \in {"PROCESSING", "NEEDS_REVIEW"}
              /\ accepted[worker[v].sub][worker[v].slot] = 0
          BY <3>1 DEF SlotsInv, HeldSlotsUnsent
        <4>3. CASE worker[v].sub = s /\ worker[v].slot = t
          BY <4>2, <4>3, <2>3, <2>4
        <4>4. CASE ~(worker[v].sub = s /\ worker[v].slot = t)
          BY <4>1, <4>2, <4>4, <2>3
        <4>5. QED
          BY <4>3, <4>4
      <3>2. QED
        BY <3>1, <2>2 DEF SlotsInv, HeldSlotsUnsent, Holds
    <2>6. HeldByOne'
      BY <2>2 DEF SlotsInv, HeldByOne, Holds, SameSlot
    <2>7. AnsweredWasAccepted'
      BY <2>2 DEF SlotsInv, AnsweredWasAccepted
    <2>8. OutcomeMatchesTwilio'
      BY <2>1, <2>2, <2>3, <2>4 DEF SlotsInv, OutcomeMatchesTwilio
    <2>9. QED
      BY <2>5, <2>6, <2>7, <2>8 DEF SlotsInv
  <1>8. QED
    BY <1>1, <1>2, <1>3, <1>4, <1>5, <1>6, <1>7 DEF WorkerStep

LEMMA InitSlots == Init => SlotsInv
  BY DEF Init, SlotsInv, HeldSlotsUnsent, HeldByOne, AnsweredWasAccepted,
         OutcomeMatchesTwilio, Holds, IdleWorker

LEMMA NextSlots == TypeOK /\ LocalsOK /\ SlotsInv /\ [Next]_vars => SlotsInv'
  <1> SUFFICES ASSUME TypeOK, LocalsOK, SlotsInv, [Next]_vars
               PROVE  SlotsInv'
    OBVIOUS
  <1>1. CASE UNCHANGED <<run, worker, accepted>>
    BY <1>1 DEF SlotsInv, HeldSlotsUnsent, HeldByOne, AnsweredWasAccepted,
                OutcomeMatchesTwilio, Holds, SameSlot
  <1>2. CASE \E w \in Workers : WorkerStep(w) \/ Crash(w)
    BY <1>2, WorkerKeepsSlots
  <1>3. CASE Tick \/ (\E a \in Admins : AdminStep(a)) \/ UNCHANGED vars
    BY <1>3, <1>1 DEF Tick, AdminStep, PrepareSave, PrepareSetActive, CommitAdmin, vars
  <1>4. QED
    BY <1>2, <1>3 DEF Next

THEOREM SlotsCorrect == Spec => []IInv
  <1>1. Spec => []SlotsInv
    BY InitSlots, NextSlots, TypeCorrect, PTL DEF Spec
  <1>2. TypeOK /\ LocalsOK /\ SlotsInv => IInv
    BY DEF SlotsInv, IInv
  <1>3. QED
    BY <1>1, <1>2, TypeCorrect, PTL

\* However many workers poll, crash or answer late, and whatever is edited
\* meanwhile, no slot is requested twice of Twilio.
THEOREM AtMostOnce == Spec => []AtMostOneRequestPerSlot
  <1>1. IInv => AtMostOneRequestPerSlot
    BY DEF IInv, OutcomeMatchesTwilio, AtMostOneRequestPerSlot
  <1>2. QED
    BY <1>1, SlotsCorrect, PTL

-----------------------------------------------------------------------------
(* The workers implement the ledger.                                       *)

StatusOf(r) == [s \in Subscriptions |-> [t \in Times |-> r[s][t].status]]

LEMMA StatusUpdate ==
  ASSUME NEW s \in Subscriptions, NEW t \in Times, NEW value, NEW r, NEW q,
         q[s][t].status = value,
         \A x \in Subscriptions, y \in Times :
             <<x, y>> # <<s, t>> => q[x][y].status = r[x][y].status
  PROVE  StatusOf(q) = [StatusOf(r) EXCEPT ![s][t] = value]
  <1>1. \A x \in Subscriptions, y \in Times :
           StatusOf(q)[x][y] = [StatusOf(r) EXCEPT ![s][t] = value][x][y]
    BY DEF StatusOf
  <1>2. QED
    BY <1>1 DEF StatusOf

LEMMA GiveUpIsNext == Ledger!GiveUp => Ledger!Next
  BY DEF Ledger!Next

LEMMA SlotStepIsNext ==
  ASSUME NEW s \in Subscriptions, NEW t \in Times,
         Ledger!Claim(s, t) \/ Ledger!Deliver(s, t) \/ Ledger!Submit(s, t)
  PROVE  Ledger!Next
  BY DEF Ledger!Next

LEMMA LedgerStep ==
  ASSUME TypeOK, LocalsOK, SlotsInv, NEW w \in Workers, WorkerStep(w) \/ Crash(w)
  PROVE  [Ledger!Next]_(Ledger!ledgerVars)
  <1> DEFINE s == worker[w].sub
             t == worker[w].slot
  <1>0. worker[w] \in WorkerState /\ worker[w].slot \in Times
    BY DEF TypeOK, WorkerState
  <1>1. CASE UNCHANGED <<run, accepted>>
    BY <1>1 DEF Ledger!ledgerVars
  <1>2. CASE MarkInterrupted(w)
    <2>1. UNCHANGED accepted
      BY <1>2 DEF MarkInterrupted
    <2>2. \A x \in Subscriptions, y \in Times :
             \/ run'[x][y].status = run[x][y].status
             \/ /\ run[x][y].status = "PROCESSING"
                /\ run'[x][y].status = "NEEDS_REVIEW"
      BY <1>2 DEF MarkInterrupted, Interrupted, TypeOK, RunRow
    <2>3. \A x \in Subscriptions, y \in Times :
             run[x][y].status \in Ledger!RunStatus \cup {"NONE"}
      BY DEF TypeOK, RunRow, FinalStatus, Ledger!RunStatus
    <2>4. Ledger!GiveUp
      BY <2>1, <2>2, <2>3 DEF Ledger!GiveUp, Ledger!RunStatus
    <2>5. Ledger!Next
      BY <2>4, GiveUpIsNext
    <2>6. QED
      BY <2>5
  <1>3. CASE ClaimDue(w)
    <2>1. s \in Subscriptions /\ t \in Times
      BY <1>3, <1>0 DEF ClaimDue, LocalsOK
    <2>2. /\ UNCHANGED accepted
          /\ run[s][t].status = "NONE"
          /\ run'[s][t].status \in {"SKIPPED", "PROCESSING"}
          /\ \A x \in Subscriptions, y \in Times :
                <<x, y>> # <<s, t>> => run'[x][y].status = run[x][y].status
      BY <1>3, <2>1 DEF ClaimDue, TypeOK
    <2>3. StatusOf(run') = [StatusOf(run) EXCEPT ![s][t] = run'[s][t].status]
      BY <2>1, <2>2, StatusUpdate
    <2>4. PICK x \in Subscriptions, y \in Times : x = s /\ y = t
      BY <2>1
    <2>5. Ledger!Claim(x, y)
      BY <2>2, <2>3, <2>4 DEF Ledger!Claim, StatusOf
    <2>6. QED
      BY <2>5, SlotStepIsNext
  <1>4. CASE DispatchAccepted(w)
    <2>1. s \in Subscriptions /\ t \in Times
      BY <1>4, <1>0 DEF DispatchAccepted, LocalsOK
    <2>2. /\ accepted[s][t] = 0
          /\ run[s][t].status \in {"PROCESSING", "NEEDS_REVIEW"}
      BY <1>4 DEF DispatchAccepted, Holds, SlotsInv, HeldSlotsUnsent
    <2>3. run' = run /\ accepted' = [accepted EXCEPT ![s][t] = 1]
      BY <1>4, <2>1, <2>2 DEF DispatchAccepted, TypeOK
    <2>4. Ledger!Deliver(s, t)
      BY <2>1, <2>2, <2>3 DEF Ledger!Deliver
    <2>5. QED
      BY <2>1, <2>4, SlotStepIsNext
  <1>5. CASE FinishSubmitted(w) \/ FinishNeedsReview(w)
    <2>1. s \in Subscriptions /\ t \in Times
      BY <1>5, <1>0 DEF FinishSubmitted, FinishNeedsReview, Finish, LocalsOK
    <2>2. /\ UNCHANGED accepted
          /\ \A x \in Subscriptions, y \in Times :
                <<x, y>> # <<s, t>> => run'[x][y].status = run[x][y].status
          /\ \/ run' = run
             \/ run[s][t].status = "PROCESSING" /\ run'[s][t].status = "NEEDS_REVIEW"
             \/ /\ run[s][t].status = "PROCESSING" /\ run'[s][t].status = "SUBMITTED"
                /\ worker[w].pc = "submitted"
      BY <1>5, <2>1 DEF FinishSubmitted, FinishNeedsReview, Finish, TypeOK, RunRow
    <2>3. CASE run' = run
      BY <2>2, <2>3, <1>1
    <2>4. CASE run[s][t].status = "PROCESSING" /\ run'[s][t].status = "NEEDS_REVIEW"
      <3>1. \A x \in Subscriptions, y \in Times :
               \/ run'[x][y].status = run[x][y].status
               \/ run[x][y].status = "PROCESSING" /\ run'[x][y].status = "NEEDS_REVIEW"
        BY <2>2, <2>4
      <3>2. \A x \in Subscriptions, y \in Times :
               run[x][y].status \in Ledger!RunStatus \cup {"NONE"}
        BY DEF TypeOK, RunRow, FinalStatus, Ledger!RunStatus
      <3>3. Ledger!GiveUp
        BY <2>2, <3>1, <3>2 DEF Ledger!GiveUp, Ledger!RunStatus
      <3>4. Ledger!Next
        BY <3>3, GiveUpIsNext
      <3>5. QED
        BY <3>4
    <2>5. CASE /\ run[s][t].status = "PROCESSING" /\ run'[s][t].status = "SUBMITTED"
               /\ worker[w].pc = "submitted"
      <3>1. accepted[s][t] = 1
        BY <2>5 DEF SlotsInv, AnsweredWasAccepted
      <3>2. StatusOf(run') = [StatusOf(run) EXCEPT ![s][t] = "SUBMITTED"]
        BY <2>1, <2>2, <2>5, StatusUpdate
      <3>3. PICK x \in Subscriptions, y \in Times : x = s /\ y = t
        BY <2>1
      <3>4. Ledger!Submit(x, y)
        BY <2>2, <2>5, <3>1, <3>2, <3>3 DEF Ledger!Submit, StatusOf
      <3>5. QED
        BY <3>4, SlotStepIsNext
    <2>6. QED
      BY <2>2, <2>3, <2>4, <2>5
  <1>6. CASE \/ FindUninitialized(w) \/ FindDue(w) \/ EndIteration(w) \/ ClaimRefused(w)
             \/ LoadSubscription(w) \/ DispatchFailed(w) \/ FinishSubmittedFails(w)
             \/ Crash(w) \/ \E x \in Subscriptions : InitializeRow(w, x)
    BY <1>1, <1>6 DEF FindUninitialized, FindDue, EndIteration, ClaimRefused,
         LoadSubscription, DispatchFailed, FinishSubmittedFails, Crash, InitializeRow
  <1>7. QED
    BY <1>2, <1>3, <1>4, <1>5, <1>6 DEF WorkerStep

\* Every behaviour of the scheduler is a behaviour of the ledger: a slot is
\* claimed once, a skipped slot is never sent, SUBMITTED means Twilio accepted
\* it, and final outcomes stay.
THEOREM SchedulerImplementsLedger == Spec => ImplementsLedger
  <1>1. Init => Ledger!Init
    BY DEF Init, Ledger!Init
  <1>2. TypeOK /\ LocalsOK /\ SlotsInv /\ [Next]_vars => [Ledger!Next]_(Ledger!ledgerVars)
    <2> SUFFICES ASSUME TypeOK, LocalsOK, SlotsInv, [Next]_vars
                 PROVE  [Ledger!Next]_(Ledger!ledgerVars)
      OBVIOUS
    <2>1. CASE \E w \in Workers : WorkerStep(w) \/ Crash(w)
      BY <2>1, LedgerStep
    <2>2. CASE Tick \/ (\E a \in Admins : AdminStep(a)) \/ UNCHANGED vars
      BY <2>2 DEF Tick, AdminStep, PrepareSave, PrepareSetActive, CommitAdmin, vars,
                  Ledger!ledgerVars
    <2>3. QED
      BY <2>1, <2>2 DEF Next
  <1>3. IInv => TypeOK /\ LocalsOK /\ SlotsInv
    BY DEF IInv, SlotsInv
  <1>4. QED
    BY <1>1, <1>2, <1>3, SlotsCorrect, PTL DEF Spec, ImplementsLedger, Ledger!Spec
=============================================================================
