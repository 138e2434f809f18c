SPECIFICATION Spec
CONSTANTS
    a = a
    b = b
    Cases <- TwoCases
    Lines <- FourLines
    DeliveryOf <- Delivered
    ResourceOf <- Holding
    Quantity <- Counted
    Reported <- Heard
    Readable <- ReadAtOnce
    OfSupplier <- Supplier
    DueToday <- Today
    OpeningCount <- NoneAtHand
    Corrections <- Spoken
    Ceiling = 2
    MaxAttempts = 2
    MaxCorrections = 2
    MaxWithdrawals = 1
    MaxClaimed = 1
    Unknown = Unknown
    Nobody = Nobody
CHECK_DEADLOCK FALSE
INVARIANTS
    TypeOK
    OnHandTellsTheTruth
    SomebodyHasIt
PROPERTIES
    SettledAsAttested

