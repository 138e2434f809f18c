SPECIFICATION Spec
CONSTANTS
    order = order
    w1 = w1
    w2 = w2
    cake = cake
    tart = tart
    novelty = novelty
    amendment = amendment
    Orders <- MCOrders
    Opening = cake
    MaxChanges = 3
    MaxAttempts = 2
    MaxFaults = 1
    Nothing = Nothing
    Workers = {w1}
    Items <- MCItems
    Mapped <- MCMapped
    Amendments = {amendment}
CHECK_DEADLOCK FALSE
INVARIANTS
    TypeOK
    AmendedAsSeen
    RefusedIsNeverMade
