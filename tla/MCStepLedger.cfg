SPECIFICATION FairSpec
CONSTANTS
    w1 = w1
    w2 = w2
    sentence = sentence
    close = close
    c1 = c1
    Workers <- MCWorkers
    Steps <- MCSteps
    Cases <- MCCases
    CaseOf <- MCCaseOf
    SemanticSteps <- MCSemantic
    Successors <- MCSuccessors
    InitialSteps <- MCInitial
    WakeUps <- MCWakeUps
    ClosingSteps <- MCClosing
    MaxAttempts = 2
    DeferredLimit = 1
    MaxLosses = 2
    NoWorker = NoWorker
    Unlocked = Unlocked
CHECK_DEADLOCK FALSE
INVARIANTS
    TypeOK
    SupersededClaimNeverExecutes
    OneStepOfACasePerProcess
PROPERTIES
    ClaimedStepSettlesItself
    LedgerIsOnce
    EveryStepSettles
