\* The chart of a feed, and a claim that sections are made of.
CONSTANTS
  DayOf <- FourBlocks
  Untimed = {}
  Stride = 1
  Cap = 2
  FeedDays = 2
  Jobs <- PriceJobs
  HasExplorer = FALSE
  MaxFetches = 2
  Claims <- PriceClaims
  MaxRuns = 2
SPECIFICATION Spec
INVARIANTS
  RealReportIsReal
CHECK_DEADLOCK FALSE
