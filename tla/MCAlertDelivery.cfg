SPECIFICATION Spec
CONSTANTS
  o1 = o1
  Alerts = {a1}
  Lots = {l1, l2}
  Owners = {o1, o2}
  OwnerOf <- MCOwnerOf
  Devices = {d1}
  Execs = {e1, e2}
  Configured = {"push", "email"}
  Window <- MCWindow
  FailureLimit = 2
  MaxTime = 1
  Absent = Absent
SYMMETRY Symmetry
INVARIANTS ToldOnce SilenceHasCause
PROPERTY KeepsNoticePromise
CHECK_DEADLOCK FALSE
