\* Every distance on a short lap; the blind timeout asks for more frames than the clear one.
CONSTANTS
    Lap = 6
    Buffer = 1
    MaxDanger = 1
    ReleaseCycles = 2
    BlindCycles = 3
SPECIFICATION HFairSpec
INVARIANTS
    PassedMeansPast
PROPERTIES
    KeepsPromise
    HandoffIsStoodFor
    BlindStopIsLeft
