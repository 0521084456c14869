SPECIFICATION Spec
CONSTANTS
    Senders = {s1, s2}
    Admins = {a1}
    Channels = {"email"}
    AddChannels = {"email"}
    MaxEdits = 1
    MaxFaults = 0
INVARIANT NeverSentTo
CHECK_DEADLOCK FALSE
