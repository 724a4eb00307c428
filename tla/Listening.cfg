SPECIFICATION ListeningSpec
CONSTANTS
    None = None
    Cities = {"elad"}
    EmptyFinals = {"primary"}
    MaxReconnects = 1
    MaxUtterances = 2
    MaxOpens = 2
    Modes = {"rules", "second", "guess"}
    MaxMail = 2
    MaxIdle = 2
    MaxLevel = 2
    Threshold0 = 1
    Trigger = 1
    MaxSpeech = 3
    EndpointShort = 1
    Endpoint = 2
    EndpointLong = 2
    Confirm = 2
    ConfirmGreeting = 3
    ConfirmReadBack = 3
    MinVoiced = 1
    MinWords = 2
    SingleWord = 2
    Strong = 2
    StrongRatio = 2
INVARIANTS
    OwnWordsInterrupt
    NeverDeaf
    GivesUpOnTroubles
    WordsKept
PROPERTIES
    DueIsSettled
    EveryWordIsAnswered
    SteadyNoiseIsLearned
CHECK_DEADLOCK FALSE
