SPECIFICATION Spec
CONSTANTS
  Lots = {l1, l2}
  Jobs = {j1, j2}
  Execs = {x1, x2}
  MaxBid = 1
  Absent = Absent
  NoOne = NoOne
SYMMETRY Symmetry
INVARIANTS CurrentBidRecorded RunTellsTruth NewLotsAreAnnounced
PROPERTY SuccessorWins
CHECK_DEADLOCK FALSE
