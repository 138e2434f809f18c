SPECIFICATION FairSpec
CONSTANTS
    a = a
    b = b
    Tracks <- One
    FirstVerdict <- JustAsked
    Words = {"YES", "NO", "OTHER", "OTHER_AGAIN", "STRANGER"}
    MaxAsks = 2
    MaxReplies = 2
    Reaskable = {b}
    MaxWithdrawals = 1
    MaxClaimed = 2
    NoTrack = NoTrack
    NoWord = "NONE"
    Stay = "STAY"
CHECK_DEADLOCK FALSE
INVARIANTS
    TypeOK
    AmendedWithConsent
    OpenRequestIsCarried
    WithdrawnStaysStopped
PROPERTIES
    PlannedEnds
    WaitingEnds
    RoundEnds
