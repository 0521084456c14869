SPECIFICATION Spec
CONSTANTS
    u1 = u1
    u2 = u2
    c1 = c1
    c2 = c2
    Events = {"milestone", "orgwide"}
    Users = {u1, u2}
    Consumers = {c1, c2}
    Targets <- OwnedTargets
    Admins = {u1, u2}
    Windowed = {"milestone"}
    Muted <- SomeMuted
    External = {u1}
    BatchSize = 2
    MaxEntries = 2
    MaxWindows = 2
    MaxFaults = 1
INVARIANTS
    OncePerWindow
    AckedTriedAll
PROPERTIES
    ServesTheStream
CHECK_DEADLOCK FALSE
