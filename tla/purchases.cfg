SPECIFICATION Spec
CONSTANTS
  Items = {i1}
  LocalNew = {i1}
  Offers = {o1, o2}
  Requests = {r1, r2}
  Operations = {"ENSURE", "REFERENCE", "SUBMIT", "ASSIGN", "EDIT_COST", "EDIT_OWNER", "LINK", "OFFER", "ALLOCATE", "ISSUE", "APPROVE_COST", "ORDER", "CANCEL"}
  Units = 2
  OfferTerms <- Terms
  SellerCosts = {0, 1}
  CatalogueCost = 0
  ApprovalModes = {TRUE, FALSE}
  LocalModes = {TRUE}
  NoItem = NoItem
SYMMETRY Symmetric
INVARIANTS
  TypeOK
  AwardsCoverTheItem
  ReadyIsAwardedAndCoded
  IssuedAreTheAwards
  OrderedIsBought
PROPERTIES
  DraftLeftBySubmission
CHECK_DEADLOCK FALSE
