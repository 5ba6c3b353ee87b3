SPECIFICATION Spec
CONSTANTS
  r1 = r1
  r2 = r2
  w = w
  Requests = {r1, r2}
  Workers = {w}
  MaxConns = 1
  MaxStatements = 2
  Main = Main
  None = None
INVARIANTS
  ConnectionsBounded
  RequestsAreServed
PROPERTIES
  ProcessEnds
  RequestsEnd
CHECK_DEADLOCK FALSE
