\* Late, lost and repeated receipts, a worker that drops a job, and one stop of the
\* controller or the command line.  A receipt claims half of the escrow.
CONSTANTS
  w1 = w1
  w2 = w2
  NJobs = 2
  Workers = {w1, w2}
  MaxLoad = 1
  Price = 2
  Figures <- HalfEscrow
  Verdicts <- AnyVerdict
  FeePerMille = 400
  MaxVolume = 100
  MaxLapses = 1
  MaxCrashes = 1
  MaxRestarts = 1
  SlowWorkers = TRUE
  LateReceipts = TRUE
SPECIFICATION Spec
SYMMETRY Symmetric
INVARIANTS
  NoPhantomLoad
  OnePayout
  BooksAgree
PROPERTIES
  ClosedJobsStay
CHECK_DEADLOCK FALSE
