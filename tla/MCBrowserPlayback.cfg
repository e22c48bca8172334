SPECIFICATION Spec
CONSTANTS
    MaxResponses = 2
    MaxChunks = 1
    MaxOnsets = 1
INVARIANTS
    TypeOK
    EndedIsSilent
    RefusedForCause
    NeverMuted
CHECK_DEADLOCK FALSE
