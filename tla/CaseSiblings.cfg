SPECIFICATION Spec
CONSTANTS
    a = a
    b = b
    Tracks <- Two
    FirstVerdict <- BothAsked
    Words = {"YES", "NO"}
    MaxAsks = 2
    MaxReplies = 2
    Reaskable = {b}
    MaxWithdrawals = 1
    MaxClaimed = 0
    NoTrack = NoTrack
    NoWord = "NONE"
    Stay = "STAY"
CHECK_DEADLOCK FALSE
INVARIANTS
    WaitingOnSomebody
    ResolvedIsFinished
    OwnerIsTold
PROPERTIES
    SettledStays
