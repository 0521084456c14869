SPECIFICATION Spec
CONSTANTS
    Senders = {s1}
    Admins = {a1}
    Channels = {"email"}
    AddChannels = {"all"}
    MaxEdits = 1
    MaxFaults = 0
INVARIANT NeverSentTo
CHECK_DEADLOCK FALSE
