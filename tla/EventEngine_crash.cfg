SPECIFICATION Spec
CONSTANTS
    u1 = u1
    u2 = u2
    c1 = c1
    c2 = c2
    Events = {"milestone", "orgwide"}
    Users = {u1, u2}
    Consumers = {c1}
    Targets <- OwnedTargets
    Admins = {u1}
    Windowed = {"milestone"}
    Muted <- None
    External = {u1}
    BatchSize = 1
    MaxEntries = 1
    MaxWindows = 1
    MaxFaults = 1
INVARIANT CrashLosesNothing
CHECK_DEADLOCK FALSE
