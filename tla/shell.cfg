SPECIFICATION FairSpec
CONSTANTS
    OutCap = 1
    CmdCap = 1
    InCap = 1
    MaxOut = 3
    MaxIn = 2
    Sudo = TRUE
INVARIANT
    TypeOK
PROPERTIES
    ImplementsFifo
    OutputShown
    TasksEnd
CHECK_DEADLOCK FALSE
