\* The hold gate with a stale Frenet pose.
CONSTANTS
    ClearFrames = 2
    States = {"GLOBAL", "AVOID", "CRUISE"}
SPECIFICATION Spec
PROPERTY StalePoseStops
