\* CRUISE entry and exit with two opponent tracks and a 2-of-3 exit window.
CONSTANTS
    WindowSize = 1
    MinHits = 1
    CruiseWindow = 3
    CruiseMinHits = 2
    FrenetTimeout = 0
    OpponentTimeout = 1
    EnterGlobalTime = 0
    AllowAvoid = TRUE
    AllowCruise = TRUE
    DefaultState = "GLOBAL"
    OpponentIds = {a, b}
    NoId = NoId
SPECIFICATION HSpec
PROPERTIES
    CruiseExitNeedsClearVotes
    CruiseStartsOnMeasurement
