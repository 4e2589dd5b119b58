\* The state machine under a latched stop.
CONSTANTS
    ClearFrames = 2
    States = {"GLOBAL", "AVOID", "CRUISE"}
    WindowSize = 2
    MinHits = 2
SPECIFICATION LoopSpec
PROPERTY StopKeepsAvoid
