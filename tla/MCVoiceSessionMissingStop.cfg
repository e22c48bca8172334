SPECIFICATION Spec
CONSTANTS
    Handlers = {"input"}
    MaxTurns = 2
    MaxChunks = 1
    Lookahead = 1
INVARIANT
    MissingStopHandsOff
CHECK_DEADLOCK FALSE
