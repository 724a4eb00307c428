SPECIFICATION ServicesSpec
CONSTANTS
    None = None
    Orders = {o1}
    QueueCap = 1
    PerHour = 1
    MaxAttempts = 2
    MaxRetries = 1
    MaxFaults = 1
    Askers = {a1, a2}
    Questions = {q1}
    Gap = 1
    GapAhead = 2
    BotPerHour = 2
    PerDay = 3
    Hour = 3
    Day = 4
    Fresh = 2
    SilentFor = 2
    MaxTime = 4
    MaxSent = 4
    Tabs = {t1, t2}
    Voices = {v1, v2}
    OwnVoice = v1
    Numbers = {n1}
    MaxRequests = 3
    Calls = {c1, c2}
    PendingFor = 1
    TokenFor = 2
    DoorTime = 2
    MaxStreams = 2
    MaxDeltas = 3
INVARIANTS
    CopiesAreExplained
    CapsHold
    RestartChangesNothing
    GivesUpLast
PROPERTIES
    EveryMessageSettles
    KnownToTheSession
    OutageIsCovered
CHECK_DEADLOCK FALSE
