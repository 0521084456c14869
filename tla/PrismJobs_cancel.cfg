CONSTANTS
    Resources = {f1}
    Workers = {w1}
    Users = {u1}
    Clicks <- JustCancel
    Corrupt = {}
    Purge = TRUE
    Listed = TRUE
    MaxClicks = 1
    MaxFaults = 0
SPECIFICATION Spec
CHECK_DEADLOCK FALSE
PROPERTY StaysStopped
