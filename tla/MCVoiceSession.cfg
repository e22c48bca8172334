SPECIFICATION Spec
CONSTANTS
    Handlers = {"input", "control"}
    MaxTurns = 3
    MaxChunks = 2
    Lookahead = 1
INVARIANTS
    TypeOK
    NeverStranded
    CancelAgreesWithEpoch
    OwnerIsActive
    LedgerSettled
    LookaheadBounded
    HandoffOnlyUnconfirmed
PROPERTY
    SettledForGood
    InterruptionIsFinal
CHECK_DEADLOCK FALSE
