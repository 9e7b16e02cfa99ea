SPECIFICATION DecisionSpec
CONSTANTS
  Quotes = {q1, q2}
  Requests = {r1, t1, t2}
  Turns = {t1, t2}
  Sends = {m1}
  Phones = {TRUE}
  Answers = {"ACCEPT_QUOTE"}
  MaxActions = 2
  Operations = {"CREATE", "REVISE", "CHANGE"}
  Captures = {"SYSTEM"}
  Contents = {"IN_STOCK"}
  Terms = {t0}
  LeadInputs = {FALSE}
  ErpNumbers = {}
  NoQuote = NoQuote
  NoNumber = NoNumber
  ApprovalModes = {FALSE}
  AllowOrderFileWithoutStock = FALSE
  PurchasingStatuses = {"READY_FOR_ORDER"}
  MaxExports = 0
  MaxOriginals = 1
SYMMETRY Symmetric
INVARIANTS
  DecisionTypeOK
  ExecutedWasDecided
  DeliveryStaysVisible
PROPERTIES
  DecisionWasConfirmed
  DecidedWasSent
CHECK_DEADLOCK FALSE
