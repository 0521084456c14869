SPECIFICATION Spec
CONSTANTS
  Workflows = {w1}
  Events = {e1}
  NaturalEvents = {e1}
  Field <- OwnField
  Consumers = {c1, c2}
  Handlers = {}
  Timers = {}
  Sweepers = {s1}
  Outcomes = {"completed", "failed"}
  KeyInferred = TRUE
  MaxAttempts = 2
  MaxRows = 0
  MaxFaults = 1
  MaxEntries = 2
  Repeats = TRUE
  SlowRuns = FALSE
INVARIANTS
  AckedMeansEvaluated
PROPERTIES
  ServesTheStream
  ExecutionsEnd
  RetriesAreSwept
CHECK_DEADLOCK FALSE
