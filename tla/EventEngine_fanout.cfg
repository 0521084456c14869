SPECIFICATION Spec
CONSTANTS
    u1 = u1
    u2 = u2
    c1 = c1
    c2 = c2
    Events = {"milestone"}
    Users = {u1, u2}
    Consumers = {c1}
    Targets <- OwnerlessTargets
    Admins = {u1, u2}
    Windowed = {"milestone"}
    Muted <- None
    External = {u1}
    BatchSize = 1
    MaxEntries = 1
    MaxWindows = 1
    MaxFaults = 0
INVARIANT FanoutReachesAll
CHECK_DEADLOCK FALSE
