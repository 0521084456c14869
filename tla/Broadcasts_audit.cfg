SPECIFICATION Spec
CONSTANTS
    Broadcasts = {b1}
    Requests = {q1}
    Channels = {"email"}
    Metered = {"email"}
    MaxFaults = 0
INVARIANT AuditIsFull
CHECK_DEADLOCK FALSE
