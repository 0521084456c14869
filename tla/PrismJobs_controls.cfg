CONSTANTS
    Resources = {f1}
    Workers = {w1}
    Users = {u1, u2}
    Clicks <- Controls
    Corrupt = {}
    Purge = TRUE
    Listed = TRUE
    MaxClicks = 3
    MaxFaults = 1
SYMMETRY Alike
SPECIFICATION Spec
CHECK_DEADLOCK FALSE
PROPERTIES
    GatesNeedPeople
    StageGoesForward
    OneSurvey
