SPECIFICATION Spec
CONSTANTS
  l1 = l1
  l2 = l2
  c1 = c1
  c2 = c2
  v1 = v1
  v2 = v2
  v3 = v3
  Lectures = {l1, l2}
  Calls = {c1, c2}
  Videos = {v1, v2, v3}
  None = None
INVARIANTS
  InUseIsNotNamed
  NoVideoIsLost
