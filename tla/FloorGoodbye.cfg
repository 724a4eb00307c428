SPECIFICATION Spec
CONSTANTS
    MaxQueued = 2
    MaxCmds = 2
    Speculate = FALSE
    Trouble = {}
    MayBeSilent = FALSE
PROPERTY
    EndsHeard
CHECK_DEADLOCK FALSE
