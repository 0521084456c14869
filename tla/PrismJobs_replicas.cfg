CONSTANTS
    Resources = {f1}
    Workers = {w1, w2}
    Users = {u1}
    Clicks <- NoClicks
    Corrupt = {}
    Purge = FALSE
    Listed = TRUE
    MaxClicks = 2
    MaxFaults = 0
SPECIFICATION Spec
CHECK_DEADLOCK FALSE
INVARIANT CompleteIsLoaded
