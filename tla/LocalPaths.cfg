\* One call of the search, a planner on a ring of 16 with two obstacles, a profile of 6 cells.
SPECIFICATION LocalPathsSpec
CONSTANTS
    FrozenCap = 7
    ExtensionCap = 5
    TotalCap = 10
    Exits = 2
    Roots = 2
    Ranks = 2
    MaxContexts = 2
    Grid = 5
    Ring = 16
    Bends = {8}
    Narrows = {11}
    Half = 6
    NarrowHalf = 5
    Body = 1
    Corner = 1
    HalfSpan = 1
    Extents <- OnBesideAcross
    Starts = {5}
    Lookahead = 7
    ClusterGap = 1
    Clearance = 1
    FastReserve = 1
    SlowReserve = 0
    KeptReserve = 0
    MinOffset = 1
    MaxOffset = 5
    Rates = {1}
    Slope = 1
    Budget = 1
    PostMerge = 2
    MinPoints = 3
    StopBuffer = 1
    Probes = 4
    BrakingFast = 2
    SeenBy = 4
    N = 6
    LineSpeeds = {2, 7}
    EgoSpeeds = {0, 10}
    HandoffCap = 6
    Launch = 1
    Knee = 4
    SlowAccel = 3
    FastAccel = 2
    SlowDecel = 3
    FastDecel = 2
    Floor = 1
    Comfort = 1
    RampMax = 3
    Delay = 1
    PostHold = 1
    RawDecel = 2
    StopDecel = 2
    Buffer = 2
    Brakes = 3
CHECK_DEADLOCK FALSE
INVARIANTS
    AnswersHold
PROPERTIES
    SearchIsSound
    KeepsClear
    ProfileFits
