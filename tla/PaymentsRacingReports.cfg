SPECIFICATION Spec
CONSTANTS
  p1 = p1
  h1 = h1
  h2 = h2
  Payments = {p1}
  External = {}
  Lecture = {p1}
  Handlers = {h1, h2}
  Identifications = {"both"}
  Unclear = {}
  OmitStamp = FALSE
  SameSecond = FALSE
  EffectErrors = FALSE
  MaxMod = 3
  MaxFaults = 0
PROPERTIES
  PaidNeverPending
