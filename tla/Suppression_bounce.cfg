SPECIFICATION Spec
CONSTANTS
    Senders = {s1}
    Admins = {a1}
    Channels = {"email"}
    AddChannels = {"email"}
    MaxEdits = 1
    MaxFaults = 0
PROPERTY BouncedIsSuppressed
CHECK_DEADLOCK FALSE
