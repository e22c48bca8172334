SPECIFICATION Spec
CONSTANTS
    MaxResponses = 1
    MaxChunks = 2
    MaxOnsets = 1
INVARIANTS
    ResumeRestores
PROPERTIES
    KeepsContract
CHECK_DEADLOCK FALSE
