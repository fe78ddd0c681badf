SPECIFICATION Spec
CONSTANTS
    Suites <- MCSuites
    Ram <- MCRam
INVARIANTS
    TypeOK
    FlowAgrees
    OperandReached
    WideArithmetic
    DecimalArithmetic
    ComparisonAgrees
    RotationCloses
CHECK_DEADLOCK FALSE
