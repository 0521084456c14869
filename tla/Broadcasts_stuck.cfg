SPECIFICATION Spec
CONSTANTS
    Broadcasts = {b1}
    Requests = {q1}
    Channels = {"email"}
    Metered = {"email"}
    MaxFaults = 1
PROPERTY SendingEnds
CHECK_DEADLOCK FALSE
