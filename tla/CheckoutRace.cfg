SPECIFICATION Spec
CONSTANTS
  q1 = q1
  q2 = q2
  i1 = i1
  i2 = i2
  r1 = r1
  r2 = r2
  Refs <- MCRefs
  Similar <- MCSimilar
  SameUpToCase <- MCSameUpToCase
  Requests = {q1, q2}
  Ids = {i1, i2}
  Deletions = FALSE
  Crashes = FALSE
  LateReports = FALSE
  Outcomes = {"invoice_created", "paid", "expired"}
  MaxFaults = 0
  None = None
INVARIANTS
  OneActivePerParticipant
