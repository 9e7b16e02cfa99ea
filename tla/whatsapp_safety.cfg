SPECIFICATION Spec
CONSTANTS
  Workers = {w1, w2}
  Users = {u1, u2}
  Sellers = {u1}
  Conversations = {c1}
  Messages = {m1}
  None = None
  ModeRequests = {"take", "return"}
  MediaInputs = {FALSE}
  Quoted = {}
  AssistantModes = {TRUE}
  Lease = 3
  Grace = 3
  MaxControl = 3
  Window = 3
  LockTimeout = 1
  Backoff = 1
  MaxAttempts = 2
  TurnTimeout = 1
  RequestDelay = 1
  MaxTime = 3
  LastFailure = 2
  LastInput = 1
  MaxFailures = 1
SYMMETRY Symmetric
INVARIANTS
  TypeOK
  AnsweredOnce
  LeaseWithinMaximum
  OneWorkerPerJob
PROPERTIES
  CompletedIsFinal
CHECK_DEADLOCK FALSE
