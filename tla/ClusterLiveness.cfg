\* A worker drops a job before or after it has sent the receipt, which then comes
\* late or in time; receipts fail.  Only the lease that was dropped runs out, so
\* that one lapse is all there can be.
CONSTANTS
  w1 = w1
  w2 = w2
  NJobs = 2
  Workers = {w1}
  MaxLoad = 1
  Price = 2
  Figures <- WholeEscrow
  Verdicts <- AnyVerdict
  FeePerMille = 400
  MaxVolume = 100
  MaxLapses = 1
  MaxCrashes = 0
  MaxRestarts = 1
  SlowWorkers = FALSE
  LateReceipts = TRUE
SPECIFICATION FairSpec
PROPERTIES
  JobsTerminate
  FundedJobsClose
CHECK_DEADLOCK FALSE
