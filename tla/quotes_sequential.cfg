SPECIFICATION Spec
CONSTANTS
  Quotes = {q1, q2, q3}
  Requests = {r1}
  Operations = {"CREATE", "SAVE", "UPDATE", "ITEMS", "REVISE", "CHANGE", "ORDER", "PURCHASE", "DELETE", "ARCHIVE"}
  Captures = {"SYSTEM"}
  Contents = {"IN_STOCK", "TO_PURCHASE"}
  Terms = {t1}
  LeadInputs = {TRUE}
  ErpNumbers = {n1}
  NoQuote = NoQuote
  NoNumber = NoNumber
  ApprovalModes = {TRUE}
  AllowOrderFileWithoutStock = FALSE
  PurchasingStatuses = {"READY_FOR_ORDER"}
  MaxExports = 2
  MaxOriginals = 1
SYMMETRY Symmetric
INVARIANTS
  TypeOK
  OneLiveVersion
  OneRevisionInProgress
  NoOrderWhileRevising
  CancelledClosesRequisition
PROPERTIES
  EditsOnlyWhileEditable
  ClosedRequisitionStaysClosed
  ArchivedKeepsItsOffer
CHECK_DEADLOCK FALSE
