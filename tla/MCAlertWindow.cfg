SPECIFICATION Spec
CONSTANTS
  Alerts = {a1}
  Lots = {l1, l2, l3}
  Owners = {o1}
  o1 = o1
  OwnerOf <- MCOwnerOf
  Devices = {}
  Execs = {e1, e2, e3}
  Configured = {"email"}
  Window <- MCWindow
  FailureLimit = 2
  MaxTime = 1
  Absent = Absent
CONSTRAINT OneAtATime
SYMMETRY Symmetry
PROPERTY NextNoticeJoinsDeferred
CHECK_DEADLOCK FALSE
