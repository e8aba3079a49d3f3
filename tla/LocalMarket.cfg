CONSTANTS
  w1 = w1
  w2 = w2
  NJobs = 2
  Workers = {w1, w2}
  Price = 2
  Input = 1
  Expected = 1
  Counts = {0, 1, 2}
  FeePerMille = 400
  Quorum = 1
  MaxCrashes = 1
  Regimes <- SideBySideOrInTurn
SPECIFICATION Spec
SYMMETRY Symmetric
INVARIANTS
  SettlesItsOwn
  ClosedAsRecorded
PROPERTIES
  LifecycleFollowed
CHECK_DEADLOCK FALSE
