SPECIFICATION Spec
CONSTANTS
  c1 = c1
  c2 = c2
  r1 = r1
  d1 = d1
  Jobs = {c1, c2, r1, d1}
  Sources <- MCSources
  KindOf <- MCKindOf
  SourceOf <- MCSourceOf
  Browser = {d1}
  Slots <- MCSlots
  Hangs = {c1}
  Falhas = 1
  Descanso = 1
  MaxTime = 1
  MaxCrashes = 1
INVARIANTS GateIsExclusive BrakeBoundsFailures
PROPERTIES KeepsGatePromise EveryJobEnds
CHECK_DEADLOCK FALSE
