SPECIFICATION Spec
CONSTANTS
    Menus <- MCMenus
    FloatBits = 10
    FloatTop = 12
INVARIANTS
    TypeOK
    SettledStay
    OperandsFinal
    ImageFaithful
    ExpressionsMean
    RoundTrip
CHECK_DEADLOCK FALSE
