SPECIFICATION Spec
CONSTANTS
  Requests = {r1, r2, r3}
  Media = {u1, u2}
  Chats = {c1, c2}
  Drafts = {d1, d2}
  None = None
  MaxRows = 2
SYMMETRY Symmetric
INVARIANTS
  TypeOK
  RowsHaveFiles
  DocumentLostByItsUpload
CHECK_DEADLOCK FALSE
