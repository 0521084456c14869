SPECIFICATION Spec
CONSTANTS
  Replicas = {a1}
  Threshold = 2
  TierAt = 2
  SlowRuns = FALSE
  MaxResponses = 2
  MaxRuns = 3
  MaxFaults = 1
INVARIANTS
  EventsStillCount
PROPERTIES
  DueAgain
CHECK_DEADLOCK FALSE
