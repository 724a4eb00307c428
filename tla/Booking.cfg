SPECIFICATION Spec
CONSTANTS
    None = None
    Tasks <- MCTasks
    Slots <- MCSlots
    Domain <- MCDomain
    SlotsOf <- MCSlotsOf
    Required <- MCRequired
    FromSlot <- MCFromSlot
    Gives <- MCGives
    MaxAttempts <- MCMaxAttempts
    Spoken = {"from", "pax"}
    Places = {"from"}
    NameSlot = "name"
    Confirms = {"ride"}
    Changes = {"ride"}
    Ends = {"ride"}
    AsksFirst = {"ride"}
    HandoffAfter = 2
    GroupSlot = "pax"
    CarSlot = "car"
    VanFor = {"many"}
    Van = "van"
    PersonFor = {"many"}
    RefusedFor = {}
    MaxTurns = 4
    MaxSuspended = 1
    MaxJournal = 2
INVARIANTS
    WaitsForARequest
    NothingForgotten
    OneRequestPerKey
PROPERTIES
    SentWasAgreed
CHECK_DEADLOCK FALSE
