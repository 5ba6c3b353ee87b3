SPECIFICATION FairSpec
CONSTANTS
  p1 = p1
  h1 = h1
  Payments = {p1}
  External = {}
  Lecture = {p1}
  Handlers = {h1}
  Identifications = {"both"}
  Unclear = {}
  OmitStamp = FALSE
  SameSecond = FALSE
  EffectErrors = FALSE
  MaxMod = 4
  MaxFaults = 1
INVARIANTS
  AnsweredIsRecorded
PROPERTIES
  NewestWins
  PaidIsFinal
  SuccessReachesTheRow
  SuccessIsGranted
  LedgerKept
