SPECIFICATION Spec
CONSTANTS
    None = None
    Cities = {"elad"}
    EmptyFinals = {"primary"}
    MaxReconnects = 1
    MaxUtterances = 2
    MaxOpens = 1
INVARIANTS
    GivesUpOnFaults
CHECK_DEADLOCK FALSE
