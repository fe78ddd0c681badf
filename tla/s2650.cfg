SPECIFICATION Spec
CONSTANTS
    Image <- MCImage
    Vectors = {8, 140}
    Budgets = {0, 50}
    StopPcs = {10, 21}
    MaxClocks = 130
    MaxInputs = 4
INVARIANTS
    TypeOK
    MainUndisturbed
    HandlerNotNested
PROPERTY
    RunVerdict
CHECK_DEADLOCK FALSE
