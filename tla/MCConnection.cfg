CONSTANTS
    HeaderCells = 2
    TrailerCells = 1
    MaxPayload = 1
    ReadSize = 3
    w1 = w1
    w2 = w2
    Workers = {w1, w2}
    Launches <- MCLaunches
    NoWorker = none
SPECIFICATION FairSpec
INVARIANTS
    InOrder
    NoFalseAlarm
    OneServes
    NoStandoff
    RunGoesOnWinsock
PROPERTIES
    EveryoneEnds
CHECK_DEADLOCK FALSE
