\* One process that may stop in the middle of a call.
CONSTANTS
  customer = customer
  worker = worker
  j1 = j1
  j2 = j2
  p1 = p1
  Accounts = {customer, worker}
  JobIds = {j1, j2}
  Procs = {p1}
  Openings <- OpeningBalances
  Tokens <- SomeTokens
  Quotes <- SomeQuotes
SPECIFICATION SettlementSpec
INVARIANTS
  MoneyConserved
  NoOverdraft
  PaidAsServed
CHECK_DEADLOCK FALSE
