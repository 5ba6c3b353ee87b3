SPECIFICATION Spec
CONSTANTS
  p1 = p1
  h1 = h1
  Payments = {p1}
  External = {p1}
  Lecture = {}
  Handlers = {h1}
  Identifications = {"both", "invoice", "reference"}
  Unclear = {"nil", "unknown"}
  OmitStamp = TRUE
  SameSecond = TRUE
  EffectErrors = FALSE
  MaxMod = 3
  MaxFaults = 1
INVARIANTS
  PendingListAgrees
  PurchasesAgree
  PaidIsReal
VIEW Unanswered
