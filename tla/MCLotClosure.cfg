SPECIFICATION Spec
CONSTANTS
  Lots = {l1}
  None = None
  Reader = Reader
  Starts = {None, 1}
  Ends = {None, 0, 1}
  Pages <- MCPages
  Sources <- MCSources
  MaxTime = 2
  Cycles = 1
INVARIANTS CollectedEndIsOfAuction
PROPERTIES GoneLotsClose ListedLotsReopen
CHECK_DEADLOCK FALSE
