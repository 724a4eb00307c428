SPECIFICATION PartsSpec
CONSTANTS
    MaxQueued = 2
    MaxCmds = 2
    Speculate = FALSE
    Trouble = {}
    MayBeSilent = FALSE
    None = None
    Towns = {elad, efrat}
    Callers = {"anyone"}
SYMMETRY TownsAlike
INVARIANTS
    NoDeadAir
    AskedInOrder
PROPERTIES
    NotedAnswersAreTaken
CHECK_DEADLOCK FALSE
