SPECIFICATION Spec
CONSTANTS
  Quotes = {q1, q2, q3}
  Requests = {r1, r2}
  Operations = {"CREATE", "CHANGE", "REVISE", "DELETE"}
  Captures = {"SYSTEM"}
  Contents = {"IN_STOCK"}
  Terms = {t1}
  LeadInputs = {FALSE}
  ErpNumbers = {n1}
  NoQuote = NoQuote
  NoNumber = NoNumber
  ApprovalModes = {TRUE}
  AllowOrderFileWithoutStock = FALSE
  PurchasingStatuses = {"OPEN", "READY_FOR_ORDER"}
  MaxExports = 1
  MaxOriginals = 1
SYMMETRY Symmetric
INVARIANTS
  RevisionChainSound
  SupersessionRecorded
CHECK_DEADLOCK FALSE
