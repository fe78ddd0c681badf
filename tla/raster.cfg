SPECIFICATION Spec
CONSTANTS
    Lines = 5
    ClocksNum = 7
    ClocksDen = 2
    MaxCost = 5
    MaxSkip = 9
    MaxClocks = 80
INVARIANTS
    TypeOK
    BeamOnTime
    AccBounded
    Conservation
PROPERTY
    ImplementsBeamClock
