\* The smallest windows with a miss in them, two boxes, and localization outages past every limit.
SPECIFICATION PerceptionSpec
CONSTANTS
    TranslationWindow = 2
    Persistence = 3
    MinTranslation = 2
    ConfirmationWindow = 3
    MinHitsConfirm = 2
    DynamicVoteWindow = 2
    DynamicVoteRequired = 2
    StaticVoteWindow = 2
    StaticVoteRequired = 2
    StaticMinObservations = 2
    StaticMinObservation = 3
    ReentryObservations = 2
    ReentryVotes = 2
    LostHold = 4
    TtlStatic = 2
    TtlDynamic = 2
    RefuteFrames = 2
    RearBlindFrames = 2
    StabilityFrames = 1
    PoseJump = 2
    Boxes = {"wide", "narrow"}
    CellsOf <- WideAndNarrow
    AssocGate = 0
    PhysicalGap = 1
    MaxUnseen = 2
    IdMemory = 3
    MinHits = 2
    MaxTracks = 3
    MaxId = 3
    RingLength = 8
    OpponentIds = {1, 2}
    FrontOffset = 1
    MaxClosure = 1
    EnterDistance = 0
    ExitDistance = 1
    MotionTimeout = 1
    ScanTimeout = 1
    MaxDead = 3
    Clamp = 1
    History = 5
    Late = 1
    Basin = 3
    ValidateFrames = 2
CHECK_DEADLOCK FALSE
INVARIANTS
    MotionIsCountedOnce
PROPERTIES
    MotionIsTold
    HoldIsRight
    NamesAreKept
    OpponentIsEarned
    InitIsJudged
    DeadReckoningEnds
