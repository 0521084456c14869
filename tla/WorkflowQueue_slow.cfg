SPECIFICATION Spec
CONSTANTS
  Workflows = {w1}
  Events = {e1}
  NaturalEvents = {e1}
  Field <- OwnField
  Consumers = {c1}
  Handlers = {h1}
  Timers = {}
  Sweepers = {s1}
  Outcomes = {"completed", "failed", "approval"}
  KeyInferred = TRUE
  MaxAttempts = 2
  MaxRows = 0
  MaxFaults = 1
  MaxEntries = 2
  Repeats = FALSE
  SlowRuns = TRUE
SYMMETRY QueueSymmetry
INVARIANTS
  OneRunPerTrigger
  CompletesOncePerEvent
  SweptFailureReruns
CHECK_DEADLOCK FALSE
