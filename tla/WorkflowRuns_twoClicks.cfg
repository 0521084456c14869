SPECIFICATION RunsSpec
CONSTANTS
  Workflows = {w1}
  Events = {e1}
  Consumers = {}
  Handlers = {h1, h2}
  Timers = {}
  Outcomes = {"completed", "approval"}
  KeyInferred = FALSE
  MaxAttempts = 2
  MaxRows = 1
  MaxFaults = 0
INVARIANTS
  ClickRejectStops
CHECK_DEADLOCK FALSE
