SPECIFICATION FairSpec
CONSTANTS
  Invitations = {i1, i2}
  Activations = {i2}
  Defective = {i1}
  Workers = {w1, w2}
  MaxAttempts = 2
  BatchSize = 2
  Idle = Idle
  MaxFaults = 1
INVARIANTS LeasesAreExclusive SendsAreBounded TokenRetention
PROPERTIES KeepsMailPromise DeadTokenErased EveryMailEnds
CHECK_DEADLOCK FALSE
