CONSTANTS
    Resources = {f1, f2}
    Workers = {w1, w2}
    Users = {u1}
    Clicks <- NoClicks
    Corrupt = {}
    Purge = TRUE
    Listed = TRUE
    MaxClicks = 0
    MaxFaults = 0
SPECIFICATION Spec
CHECK_DEADLOCK FALSE
PROPERTY ReachesAPerson
