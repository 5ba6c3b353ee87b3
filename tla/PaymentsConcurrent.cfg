SPECIFICATION RaceSpec
CONSTANTS
  p1 = p1
  h1 = h1
  h2 = h2
  Payments = {p1}
  External = {p1}
  Lecture = {}
  Handlers = {h1, h2}
  Identifications = {"both"}
  Unclear = {}
  OmitStamp = FALSE
  SameSecond = FALSE
  EffectErrors = FALSE
  MaxMod = 4
  MaxFaults = 1
INVARIANTS
  TypeOK
  PaidIsReal
  UnpaidUntilStored
  AnsweredHasInvoice
PROPERTIES
  LifeKept
  NoPaidDeleted
  NewestUnlessOvertaken
  PaidUnlessOvertaken
  LedgerUnlessOvertaken
SYMMETRY HandlerSymmetry
