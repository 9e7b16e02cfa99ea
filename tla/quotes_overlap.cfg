SPECIFICATION Spec
CONSTANTS
  Quotes = {q1}
  Requests = {r1, r2}
  Operations = {"CREATE", "UPDATE", "ITEMS", "CHANGE", "ORDER", "REGISTER", "PURCHASE", "DELETE"}
  Captures = {"SYSTEM", "EXCEL_IMPORT"}
  Contents = {"IN_STOCK", "TO_PURCHASE"}
  Terms = {t1}
  LeadInputs = {FALSE}
  ErpNumbers = {n1, n2}
  NoQuote = NoQuote
  NoNumber = NoNumber
  ApprovalModes = {TRUE, FALSE}
  AllowOrderFileWithoutStock = TRUE
  PurchasingStatuses = {"OPEN", "READY_FOR_ORDER"}
  MaxExports = 3
  MaxOriginals = 1
SYMMETRY Symmetric
INVARIANTS
  LinkedNeverCancelled
  CompletedWasOrdered
  OrdersWithinRequests
PROPERTIES
  ErpEventTellsTheChange
CHECK_DEADLOCK FALSE
