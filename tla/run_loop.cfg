SPECIFICATION FairSpec
CONSTANTS
    Pcs = {0, 1}
    MaxCost = 3
    FrameClocks = 11
    ClocksDen = 2
    FrameCalls = {0, 1, 2}
    ClockCalls = {0, 5}
    MaxClocks = 12
INVARIANTS
    TypeOK
    BreaksCounted
    StopsOnTarget
PROPERTIES
    NoBreakPassed
    CallsReturn
