CONSTANTS
    Resources = {f1}
    Workers = {w1}
    Users = {u1, u2}
    Clicks <- NoClicks
    Corrupt = {}
    Purge = TRUE
    Listed = TRUE
    MaxClicks = 3
    MaxFaults = 0
SPECIFICATION Spec
CHECK_DEADLOCK FALSE
INVARIANT CompleteIsLoaded
