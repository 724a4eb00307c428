SPECIFICATION TalkSpec
CONSTANTS
    None = None
    Cities = {"elad", "efrat"}
    MaxMisses = 3
    MaxReprompts = 2
    Patient = 2
    Ladder = 2
    Towns = {"elad"}
    Callers = {"answers"}
INVARIANTS
    StreetIsThere
PROPERTIES
    UnverifiedWasDoubted
    InsistingEnds
    DetailsAreWaitedFor
    NobodyIsKept
    EveryDetailIsCollected
CHECK_DEADLOCK FALSE
