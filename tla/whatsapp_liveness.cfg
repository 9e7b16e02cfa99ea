SPECIFICATION FairSpec
CONSTANTS
  Workers = {w1}
  Users = {u1}
  Sellers = {u1}
  Conversations = {c1}
  Messages = {m1}
  None = None
  ModeRequests = {"take"}
  MediaInputs = {TRUE, FALSE}
  Quoted = {c1}
  AssistantModes = {TRUE}
  Lease = 2
  Grace = 2
  MaxControl = 3
  Window = 1
  LockTimeout = 1
  Backoff = 0
  MaxAttempts = 2
  TurnTimeout = 0
  RequestDelay = 1
  MaxTime = 5
  LastFailure = 1
  LastInput = 1
  MaxFailures = 1
PROPERTIES
  ControlIsReleased
  TextIsSettled
CHECK_DEADLOCK FALSE
