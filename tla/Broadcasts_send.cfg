SPECIFICATION Spec
CONSTANTS
    Broadcasts = {b1, b2}
    Requests = {q1, q2}
    Channels = {"email", "push"}
    Metered = {"email"}
    MaxFaults = 1
INVARIANTS
    SentAtMostOnce
    ChargedForWhatWasSent
PROPERTIES
    NoLateSend
    DecisionIsFinal
    PendingEnds
CHECK_DEADLOCK FALSE
