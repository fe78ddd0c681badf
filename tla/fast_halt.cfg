SPECIFICATION Spec
CONSTANTS
    Lines = 14
    VrstLines = 4
    FieldTop = 255
    Rows = 2
    RowLines = 2
    SpriteLines = 4
    Font <- MCFont
    ClocksNum = 227
    ClocksDen = 4
    Carts <- HaltBeforeDelay
    FrameCalls = {1, 3}
    ClockCalls = {57, 300}
    Pokes <- MCPokes
    Panels = {1}
    KeyMasks = {2}
    Paddles = {0, 112}
    MaxCalls = 2
    MaxInputs = 1
    MaxFrames = 3
INVARIANT
    Indistinguishable
CHECK_DEADLOCK FALSE
