SPECIFICATION ServicesSpec
CONSTANTS
    Task = {1, 2, 3}
    NeedsApproval = {1}
    Problem = {"p", "q"}
    NoProblem = "none"
    ProblemOf <- MCProblemOf
    Rank <- MCRank
    Dependencies <- MCDependencies
    AllowedPaths <- MCAllowedPaths
    ProtectedPaths <- MCProtectedPaths
    Wild <- MCWild
    Fits <- MCFits
    Changes <- MCChanges
    MayFail = {"INTEGRITY_FAILURE"}
    Capacity = 2
    MaxIterations = 3
    Threshold = 2
    MaxBatches = 2
    MaxMain = 1
    MaxCrashes = 1

    Short = 2
    Recovery = 2
    Needed = 3
    Span = 3
    Strong = 4
    Release = 2
    Window = 3
    MaxEpisodes = 2
    Conn = {"a", "b"}
    QueueSize = 1
    Levels = {"quiet", "loud"}
    Texts <- MCTexts
    Typed = {1}
    MaxFrames = 4
    MaxGaps = 1
    MaxPartials = 1
    MaxFinals = 2
    MaxControls = 2

    Onset = 2
    Takeover = 4
    Silence = 2
    MaxReplies = 2
    MaxOverlaps = 3

    Remembered = 2
    WireSize = 2
    Pins = 1
    MaxChars = 4
    MaxAirtime = 3
    MaxTalks = 3
    MaxFragments = 2
    MaxSegments = 2
    MaxPackets = 1

    Rules <- MCRules
    Warning = 4
    Limit = 8
    CostRoom = 1
    Samples = 2
    MaxUsages = 3
INVARIANTS
    ServicesTypeOK
    ApprovedBeforeWork
    WorkersStayApart
    CandidateIsVerified
    BundleIsDurable
    RunningIsOwned
    FramesReachTranscriber
    FinalsClaimApart
    LeaseIsReturned
    DuckIsUndone
    OneVoice
    OnlyFullHistoryMiscounts
    CostAccounted
PROPERTY FinalsHandledOnce
CONSTRAINT Bounded
CHECK_DEADLOCK FALSE
