SPECIFICATION Spec
CONSTANTS
  Workflows = {w1}
  Events = {e1}
  NaturalEvents = {e1}
  Field <- OwnField
  Consumers = {c1}
  Handlers = {}
  Timers = {}
  Sweepers = {s1}
  Outcomes = {"completed"}
  KeyInferred = TRUE
  MaxAttempts = 2
  MaxRows = 0
  MaxFaults = 1
  MaxEntries = 2
  Repeats = FALSE
  SlowRuns = FALSE
INVARIANTS
  ReapedRowReruns
CHECK_DEADLOCK FALSE
