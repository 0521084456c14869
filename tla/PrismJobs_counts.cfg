CONSTANTS
    Resources = {f1, f2}
    Workers = {w1}
    Users = {u1}
    Clicks <- NoClicks
    Corrupt = {}
    Purge = TRUE
    Listed = TRUE
    MaxClicks = 2
    MaxFaults = 0
SPECIFICATION Spec
CHECK_DEADLOCK FALSE
INVARIANT CompleteIsBalanced
