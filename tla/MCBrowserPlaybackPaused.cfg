SPECIFICATION Spec
CONSTANTS
    MaxResponses = 2
    MaxChunks = 1
    MaxOnsets = 1
INVARIANTS
    FallbackSpeaks
CHECK_DEADLOCK FALSE
