SPECIFICATION Spec
CONSTANTS
  e1 = e1
  e2 = e2
  e3 = e3
  p1 = p1
  p2 = p2
  Events = {e1, e2, e3}
  Payments = {p1, p2}
  Pay <- MCPay
  Workers = {w1, w2}
  Nothing = Nothing
  MaxFaults = 1
SYMMETRY Symmetry
INVARIANTS LedgerIsPaid OneActivation ReconciledIsBacked ReviewHasCause
PROPERTIES DecisionsStand KeepsAccessPromise
