SPECIFICATION PowerSpec
CONSTANTS
    SsiSupport = FALSE
    CycleRetries = 2
    LostPresses = 6
INVARIANTS
    CycleBringsHostUp
