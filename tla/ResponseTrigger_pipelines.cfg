SPECIFICATION Spec
CONSTANTS
  Replicas = {a1}
  Threshold = 1
  TierAt = 2
  SlowRuns = FALSE
  MaxResponses = 2
  MaxRuns = 3
  MaxFaults = 0
INVARIANTS
  OnePipeline
CHECK_DEADLOCK FALSE
