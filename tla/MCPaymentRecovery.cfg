SPECIFICATION FairSpec
CONSTANTS
  e1 = e1
  e2 = e2
  p1 = p1
  Events = {e1, e2}
  Payments = {p1}
  Pay <- MCPay
  Workers = {w1, w2}
  Nothing = Nothing
  MaxFaults = 2
PROPERTIES BoundPaymentIsRecorded PendingIsDecided
