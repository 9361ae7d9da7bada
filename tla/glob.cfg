SPECIFICATION FairSpec
CONSTANTS
    QCap = 2
    Chunks = 4
    Patterns <- MCPatterns
    Names <- MCNames
INVARIANTS
    TypeOK
    DoneIsWhole
    GlobMatchSound
PROPERTIES
    ImplementsCopy
    DownloadEnds
CHECK_DEADLOCK FALSE
