\* A daemon of worker 1, the controller, an operator; three workers.
CONSTANTS
  Procs = {"d", "c", "o"}
  MaxOps = 3
  MaxCrashes = 1
  Durations = {1, 9000}
  Energies = {10}
  Workers = {1, 2, 3}
  OperatorOf <- Ops
  RegionOf <- Regions
  Size = 3
  Quorum = 2
  Days = {0, 192}
  MaxCommittees = 2
  Remote = {1}
  DevSecret = TRUE
  MaxAge = 0
  MaxSent = 1
  MaxClock = 1
  DaemonOf <- OneDaemon
  Controllers = {"c"}
  Operators = {"o"}
SPECIFICATION Spec
INVARIANTS
  HandledOnce
  AcceptedByQuorum
  RecordMatchesVerdicts
PROPERTIES
  RoutingFollowsRecord
CHECK_DEADLOCK FALSE
