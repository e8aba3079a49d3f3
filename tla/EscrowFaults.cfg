\* One process that may stop between any two commits.
CONSTANTS
  alice = alice
  j1 = j1
  j2 = j2
  w1 = w1
  w2 = w2
  controller = controller
  Customers = {alice}
  Workers = {w1}
  Jobs = {j1, j2}
  Owner <- OneOwner
  Procs = {controller}
  Crashable = {controller}
  Amounts <- UnevenAmounts
  FeePerMille = 400
  Disputes <- AnyReason
  MaxDeposit = 5
  MaxVolume = 2
SPECIFICATION Spec
INVARIANTS
  CustomerFundsConserved
  SettlementSplit
  OverdraftWithinTolerance
  PaidOncePerJob
PROPERTIES
  ClosedIsFinal
CHECK_DEADLOCK FALSE
