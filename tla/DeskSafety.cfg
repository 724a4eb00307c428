SPECIFICATION Spec
CONSTANTS
    Numbers = {d1, d2}
    NoLeg = NoLeg
    ReplyMayBeLost = TRUE
    CallbackMayBeLost = TRUE
    RestMayFail = TRUE
    AnswerMayBeLate = TRUE
INVARIANTS
    OneOperator
    EventsTellOnce
PROPERTIES
    NoJoinAfterTold
    ConnectedIsLeftAlone
    ImplementsHandoff
SYMMETRY Symmetry
