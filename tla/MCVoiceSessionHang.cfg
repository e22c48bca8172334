SPECIFICATION FairSpec
CONSTANTS
    Handlers = {"input", "control"}
    MaxTurns = 3
    MaxChunks = 1
    Lookahead = 1
PROPERTY
    HangUpReleases
CHECK_DEADLOCK FALSE
