\* One process that completes every call.
CONSTANTS
  alice = alice
  j1 = j1
  j2 = j2
  w1 = w1
  w2 = w2
  controller = controller
  Customers = {alice}
  Workers = {w1, w2}
  Jobs = {j1, j2}
  Owner <- OneOwner
  Procs = {controller}
  Crashable = {}
  Amounts <- UnevenAmounts
  FeePerMille = 400
  Disputes <- OtherReasons
  MaxDeposit = 5
  MaxVolume = 2
SPECIFICATION Spec
INVARIANTS
  EscrowReconciles
PROPERTIES
  ImplementsContract
CHECK_DEADLOCK FALSE
