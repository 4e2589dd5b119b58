\* The planner alone, with every fault of its inputs, and the planner and the state
\* machine over their two topics.
CONSTANTS
    ClearFrames = 2
    States = {"GLOBAL", "AVOID", "CRUISE"}
    WindowSize = 2
    MinHits = 2
SPECIFICATION LoopFairSpec
INVARIANTS
    PathHasOneOwner
PROPERTIES
    LatchIsReleased
    HoldMemoryEnds
    AvoidIsNotOrphaned
    LoopIsTakenBack
    BrakingStopIsDriven
