SPECIFICATION Spec
CONSTANTS
    Menus <- MCForward
    FloatBits = 53
    FloatTop = 1024
INVARIANT NoPlaceholders
CHECK_DEADLOCK FALSE
