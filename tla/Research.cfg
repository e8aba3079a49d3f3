\* A feed, three scans of which one writes two files, claim 4.
CONSTANTS
  DayOf <- FourBlocks
  Untimed = {3}
  Stride = 1
  Cap = 2
  FeedDays = 2
  Jobs <- FewJobs
  HasExplorer = TRUE
  MaxFetches = 2
  Claims <- FewClaims
  MaxRuns = 2
SPECIFICATION Spec
INVARIANTS
  PairsAgree
  StaleIsListed
PROPERTIES
  SamplesAreKept
CHECK_DEADLOCK FALSE
