SPECIFICATION FairSpec
CONSTANTS
    Clients = {c1, c2}
    MaxFaults = 1
INVARIANTS
    TypeOK
    AnswersHonest
PROPERTIES
    StopTearsDown
    LoopServes
CHECK_DEADLOCK FALSE
