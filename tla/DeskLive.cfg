SPECIFICATION FairSpec
CONSTANTS
    Numbers = {d1, d2}
    NoLeg = NoLeg
    ReplyMayBeLost = FALSE
    CallbackMayBeLost = TRUE
    RestMayFail = FALSE
    AnswerMayBeLate = TRUE
PROPERTIES
    CallerIsServed
    NotLeftAlone
    OthersStopRinging
