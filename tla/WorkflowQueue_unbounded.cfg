SPECIFICATION Spec
CONSTANTS
  Workflows = {w1}
  Events = {e1}
  NaturalEvents = {e1}
  Field <- OwnField
  Consumers = {c1}
  Handlers = {}
  Timers = {}
  Sweepers = {s1}
  Outcomes = {"failed"}
  KeyInferred = TRUE
  MaxAttempts = 2
  MaxRows = 0
  MaxFaults = 0
  MaxEntries = 3
  Repeats = FALSE
  SlowRuns = FALSE
INVARIANTS
  RetriesAreBounded
CHECK_DEADLOCK FALSE
