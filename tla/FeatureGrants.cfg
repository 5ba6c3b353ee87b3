SPECIFICATION Spec
CONSTANTS
  user = user
  admin = admin
  c1 = c1
  c2 = c2
  p1 = p1
  p2 = p2
  Users = {user, admin}
  Admins = {admin}
  Payments = {p1, p2}
  Owner <- MCOwner
  Calls = {c1, c2}
  None = None
INVARIANTS
  PaidHasAccess
  BoughtStaysBought
  AnswerShowsTheWish
SYMMETRY GrantSymmetry
