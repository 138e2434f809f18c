SPECIFICATION FairSpec
CONSTANTS
    a = a
    b = b
    Tracks <- One
    FirstVerdict <- JustAsked
    Words = {"YES"}
    MaxAsks = 1
    MaxReplies = 1
    Reaskable = {b}
    MaxWithdrawals = 0
    MaxClaimed = 1
    NoTrack = NoTrack
    NoWord = "NONE"
    Stay = "STAY"
CHECK_DEADLOCK FALSE
PROPERTIES
    EveryYesIsChecked
