CONSTANTS
    Resources = {f1}
    Workers = {w1, w2}
    Users = {u1}
    Clicks <- NoClicks
    Corrupt = {f1}
    Purge = TRUE
    Listed = TRUE
    MaxClicks = 1
    MaxFaults = 1
SPECIFICATION Spec
CHECK_DEADLOCK FALSE
INVARIANTS
    RecordsAreKept
PROPERTIES
    NeverStalls
