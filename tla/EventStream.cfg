SPECIFICATION FairSpec
CONSTANTS
    v = v
    w = w
    a = a
    Writers <- TwoWriters
    Clients <- OneClient
    MaxReplay = 1
    MaxSeq = 4
    MaxFaults = 3
    NoCursor = NoCursor
CHECK_DEADLOCK FALSE
INVARIANTS
    TypeOK
    SleeperHasReadEverything
PROPERTIES
    FeedFollowsTheLog
    EveryEventIsHeard
