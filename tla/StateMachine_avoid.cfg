\* AVOID entry, hold and exit beside CRUISE, with the shipped window (2 of 3).
CONSTANTS
    WindowSize = 3
    MinHits = 2
    CruiseWindow = 1
    CruiseMinHits = 1
    FrenetTimeout = 1
    OpponentTimeout = 0
    EnterGlobalTime = 1
    AllowAvoid = TRUE
    AllowCruise = TRUE
    DefaultState = "GLOBAL"
    OpponentIds = {a}
    NoId = NoId
SPECIFICATION HFairSpec
INVARIANTS
    AvoidNeverPublishesGlobal
PROPERTIES
    AvoidEntryNeedsNewRequests
    MergeNeedsUnbrokenHandoff
    AvoidEnds
    SilentOpponentEndsCruise
