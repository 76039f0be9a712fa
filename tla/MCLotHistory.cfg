SPECIFICATION Spec
CONSTANTS
  Lots = {l1}
  Jobs = {j1, j2}
  Execs = {x1, x2}
  MaxBid = 2
  Absent = Absent
  NoOne = NoOne
PROPERTY BatchChangeIsRecorded
CHECK_DEADLOCK FALSE
