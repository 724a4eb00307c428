SPECIFICATION FairSpec
CONSTANTS
    MaxItems = 3
    MaxFrames = 2
    MaxCmds = 2
    Lead = 2
    StartBuffer = 2
    Protect = 1
    StreamMayFail = TRUE
INVARIANTS
    InPlace
    QueuedIsExact
PROPERTIES
    ImplementsSpeaker
    EveryItemEnds
    GoesIdle
CHECK_DEADLOCK FALSE
