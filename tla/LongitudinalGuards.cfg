\* Two opponent tracks and every timeout crossed on either side; standing, noise inside
\* the hysteresis band, rocking both ways and a capture.
CONSTANTS
    OpponentTimeout = 1
    EgoTimeout = 0
    StateTimeout = 0
    ClearConfirm = 2
    IntegralLimit = 2
    OpponentIds = {a, b}
    NoId = NoId
    Mixed = Mixed
    ForwardSpeeds = {0, 1, 2, 3}
    BackwardSpeeds = {2}
    StandstillEnter = 1
    StandstillExit = 2
    ExitSpeed = 3
    BypassSpeed = 3
    ReverseSpeed = 2
    ProgressSpeed = 2
    MinDistance = 2
    SettleBound = 4
    Timeout = 4
    NoProgressTimeout = 2
    ExitHold = 2
    RelatchTime = 3
    BypassHold = 2
    RetryCooldown = 2
    ReverseHold = 2
    EscalateDelay = 1
    LatchReleaseTime = 3
    MaxAttempts = 2
    SpeedCap = 1
    CapMax = 2
    CapStep = 1
    Rest = 2
SPECIFICATION GuardsSpec
PROPERTIES
    TargetIsKept
    InputLossIsBlind
    LaunchIsEarned
    CapKeptWithinRequest
    DemandEventuallyPushed
