SPECIFICATION FairSpec
CONSTANTS
    order = order
    w1 = w1
    w2 = w2
    cake = cake
    tart = tart
    novelty = novelty
    amendment = amendment
    Orders <- MCOrders
    Opening = cake
    MaxChanges = 3
    MaxAttempts = 2
    MaxFaults = 1
    Nothing = Nothing
    Workers <- MCWorkers
    Items <- MirrorItems
    Mapped = {cake}
    Amendments = {}
CHECK_DEADLOCK FALSE
INVARIANTS
    SettledIsShown
PROPERTIES
    MirrorFollows
    EveryEventSettles
