SPECIFICATION FairSpec
CONSTANTS
    Handlers = {"input"}
    MaxTurns = 2
    MaxChunks = 1
    Lookahead = 1
INVARIANTS
    SpeakingHasResponse
    FollowupsAreTaken
PROPERTIES
    ResponsesEnd
    WaitersWake
    HangUpReleases
CHECK_DEADLOCK FALSE
