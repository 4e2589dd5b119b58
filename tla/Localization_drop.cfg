\* Scans that come back after a gap, with odometry and watchdog at their pace.
SPECIFICATION LocalizationSpec
CONSTANTS
    ScanTimeout = 1
    MaxDead = 3
    Clamp = 1
    History = 5
    Late = 1
    Basin = 3
    ValidateFrames = 2
PROPERTIES
    OnlyOldScansAreDropped
