SPECIFICATION FairSpec
CONSTANTS
    d1 = d1
    d2 = d2
    question = question
    amendment = amendment
    Dispatchers <- MCDispatchers
    Effects <- MCEffects
    Amendments <- MCAmendments
    Questions <- MCQuestions
    Continuing <- MCEffects
    MaxAttempts = 2
    MaxLosses = 2
    Nobody = Nobody
    NoEffect = NoEffect
CHECK_DEADLOCK FALSE
INVARIANTS
    TypeOK
    UnsentMeansUnsent
    ContinuedOnce
PROPERTIES
    OneCallPerClaim
EveryEffectSettles
