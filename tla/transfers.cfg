SPECIFICATION FairSpec
CONSTANTS
    Xfers = {x1}
    Size = 3
    MaxFruitless = 8
INVARIANTS
    TypeOK
    ReleasedOnEveryPath
    CancelWins
PROPERTIES
    ImplementsCopy
    CancelledEnds
    EveryTransferEnds
CHECK_DEADLOCK FALSE
