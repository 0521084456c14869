SPECIFICATION Spec
CONSTANTS
  Workflows = {w1}
  Events = {e1}
  NaturalEvents = {e1}
  Field <- OwnField
  Consumers = {c1}
  Handlers = {}
  Timers = {}
  Sweepers = {s1}
  Outcomes = {"completed", "failed"}
  KeyInferred = FALSE
  MaxAttempts = 2
  MaxRows = 0
  MaxFaults = 0
  MaxEntries = 2
  Repeats = FALSE
  SlowRuns = FALSE
INVARIANTS
  NoLostExecutions
CHECK_DEADLOCK FALSE
