SPECIFICATION Spec
CONSTANTS
    QCap = 2
    Chunks = 3
    Patterns <- MCPatterns
    Names <- MCNames
INVARIANT FailureSurfaces
CHECK_DEADLOCK FALSE
