SPECIFICATION Spec
CONSTANTS
  Ids = {i1}
  Slugs = {s1, s2}
  Prices = {0, 1}
  Checkouts = {k1}
  Admins = {a1}
  None = None
  Absent = Absent
INVARIANTS
  SoldAsOffered
  PaymentsKeepTheirProduct
