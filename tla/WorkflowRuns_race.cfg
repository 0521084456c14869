SPECIFICATION RunsSpec
CONSTANTS
  Workflows = {w1}
  Events = {e1}
  Consumers = {}
  Handlers = {h1, h2}
  Timers = {t1, t2}
  Outcomes = {"completed", "skipped", "failed", "approval", "delay"}
  KeyInferred = FALSE
  MaxAttempts = 2
  MaxRows = 1
  MaxFaults = 1
INVARIANTS
  OneRunnerPerExecution
  RejectionStops
  DelayIsNotAnApproval
PROPERTIES
  DelayEnds
  EndedStaysEnded
CHECK_DEADLOCK FALSE
