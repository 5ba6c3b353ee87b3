SPECIFICATION Spec
CONSTANTS
  q1 = q1
  q2 = q2
  i1 = i1
  i2 = i2
  i3 = i3
  r1 = r1
  r2 = r2
  Refs <- MCRefs
  Similar <- MCSimilar
  SameUpToCase <- MCSameUpToCase
  Requests = {q1, q2}
  Ids = {i1, i2, i3}
  Deletions = TRUE
  Crashes = TRUE
  LateReports = TRUE
  Outcomes = {"invoice_created", "paid", "expired"}
  MaxFaults = 1
  None = None
INVARIANTS
  SamePageOnRetry
  RegistrationNeverRefused
  StuckIsDeletable
  OneActiveUnlessRaced
PROPERTIES
  CheckoutLifeKept
SYMMETRY CheckoutSymmetry
