\* Two processes, two job files of one job id, one with a prompt, two blocks, an agent.
CONSTANTS
  p1 = p1
  p2 = p2
  w1 = w1
  w2 = w2
  a0 = a0
  a1 = a1
  Workers = {w1, w2}
  Procs = {p1, p2}
  JobIds = {"j1"}
  NoId = "no id"
  MaxOps = 4
  MaxCrashes = 1
  FileJobs <- TwoFiles
  WorkerOf <- TwoWorkers
  Unit = 2
  Yields = {3}
  Window = 3
  Blocks = {"b1", "b2"}
  Reward = 10
  Agents = {a0, a1}
  AgentRows <- AgentOfFirst
  AgentJobs = {"x"}
  Incomes = {2}
  Amounts = {2}
  CreditOf = 3
SPECIFICATION Spec
INVARIANTS
  BalancesMatchEvents
  RoundsPayTheirShares
  SummariesHold
  AgentFundsConserved
  PaidOnce
CHECK_DEADLOCK FALSE
