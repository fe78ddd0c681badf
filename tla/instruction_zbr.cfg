SPECIFICATION Spec
CONSTANTS
    Suites <- MCSuites
    Ram <- MCRam
INVARIANT
    ZeroPageReached
CHECK_DEADLOCK FALSE
