SPECIFICATION Spec
CONSTANTS
    None = None
    Towns = {"elad", "efrat"}
    Callers = {"anyone"}
INVARIANT
    AnswersAreTaken
CHECK_DEADLOCK FALSE
