\* Wheel speeds 0-3 with one launch kick, two race lines with sectors, a ring of 6 with two legs.
SPECIFICATION MapControllerSpec
CONSTANTS
    Top = 3
    Caps = {0, 2}
    StaleCap = 1
    Accel = 1
    Decel = 1
    Lead = 2
    Boost = 2
    BoostTime = 1
    RelatchTime = 2
    Still = 1
    Exit = 1
    LearnSpeed = 2
    MinSamples = 2
    Lines = {"short", "long"}
    Cells = 6
    Gap = 1
    Back = 1
    Fwd = 2
    FailSafe = 2
CHECK_DEADLOCK FALSE
INVARIANTS
    TrimIsEarned
    ScalesFit
PROPERTIES
    CommandIsRamped
    SilenceIsSafe
    IndexIsRight
