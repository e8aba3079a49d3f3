\* Two runs on one rig; more readings than the window holds.
CONSTANTS
  LoadWatts = 200
  RestWatts = 20
  FallbackWatts = 300
  Rates = {0, 4}
  Readings = {40, 50}
  Window = 2
  Micro = 1000
  FallbackJoules = 7
  MaxStarts = 2
  MaxRequests = 2
  MaxSamples = 2
  MaxReadings = 3
SPECIFICATION BenchmarkSpec
INVARIANTS
  NeverOverstated
  IndexIsMeasured
CHECK_DEADLOCK FALSE
