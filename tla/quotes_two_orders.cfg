SPECIFICATION Spec
CONSTANTS
  Quotes = {q1}
  Requests = {r1, r2}
  Operations = {"CREATE", "CHANGE", "ORDER"}
  Captures = {"SYSTEM"}
  Contents = {"IN_STOCK"}
  Terms = {t1}
  LeadInputs = {FALSE}
  ErpNumbers = {n1}
  NoQuote = NoQuote
  NoNumber = NoNumber
  ApprovalModes = {TRUE}
  AllowOrderFileWithoutStock = FALSE
  PurchasingStatuses = {"OPEN", "READY_FOR_ORDER"}
  MaxExports = 2
  MaxOriginals = 1
SYMMETRY Symmetric
INVARIANTS
  OneOrderPerQuote
CHECK_DEADLOCK FALSE
