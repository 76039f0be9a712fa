SPECIFICATION FairSpec
CONSTANTS
  Lots = {l1, l2}
  Jobs = {j1, j2}
  Execs = {x1, x2}
  MaxBid = 0
  Absent = Absent
  NoOne = NoOne
PROPERTY EveryRunEnds
CHECK_DEADLOCK FALSE
