\* A daemon with both processes, launched twice, killed or not; no feed for the rate of
\* inference, as in config.yaml.  Inference nets 2; mining nets 4, 2 or 0, or -2
\* when it cannot be priced: it wins, ties, or loses by just the floor.
CONSTANTS
  Offers <- Gathered
  MarginPercent = 50
  Floor = 1
  Consecutive = 2
  MinDwell = 3
  Commands = {"mining", "inference"}
  Intervals = {1, 3}
  MaxCycles = 5
  MaxRuns = 2
  Prices = {1}
  Difficulties = {2, 3, 6}
  Rates = {}
  NoValue = NoValue
  Hashrate = 1
  Reward = 3
  FallbackRate = 5
  Utilization = 4
  Kwh = 1
  Draws = {84}
  Day = 4
  Micro = 1
  Sleeps = {1}
  Downtimes = {3}
  ProbeInterval = 2
  MaxGap = 1
SPECIFICATION ReportSpec
INVARIANTS
  EarnedSwitches
  DwellRespected
  PromptSwitches
  NeverFlaps
  ProcessMatchesMode
  AdvantageIsPriced
  HoursWereRun
CHECK_DEADLOCK FALSE
