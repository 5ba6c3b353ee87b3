SPECIFICATION Spec
CONSTANTS
  p1 = p1
  p2 = p2
  p3 = p3
  worker = worker
  admin = admin
  Payments = {p1, p2, p3}
  NeverReady = {p1}
  Workers = {worker}
  Singles = {admin}
  Limit = 2
  MaxFaults = 1
INVARIANTS
  StoredWasIssued
PROPERTIES
  ReceiptArrives
