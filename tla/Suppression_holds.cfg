SPECIFICATION Spec
CONSTANTS
    Senders = {s1, s2}
    Admins = {a1, a2}
    Channels = {"email"}
    AddChannels = {"email", "all"}
    MaxEdits = 3
    MaxFaults = 1
INVARIANTS
    StaleIsExplained
PROPERTIES
    ClearDiesOut
    TakesHold
CHECK_DEADLOCK FALSE
