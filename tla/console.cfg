SPECIFICATION Spec
CONSTANTS
    Lines = 14
    VrstLines = 4
    FieldTop = 255
    Rows = 2
    RowLines = 2
    SpriteLines = 4
    Font <- MCFont
    ClocksNum = 227
    ClocksDen = 4
    Carts <- MCCarts
    Pcs <- MCPcs
    Breaks = {2, 10}
    FrameCalls = {0, 2}
    ClockCalls = {100}
    MaxCost = 18
    MaxClocks = 850
    MaxInputs = 2
INVARIANTS
    TypeOK
    PictureComplete
PROPERTY
    ImplementsRunLoop
CHECK_DEADLOCK FALSE
