SPECIFICATION FairPowerSpec
CONSTANTS
    SsiSupport = TRUE
    CycleRetries = 2
    LostPresses = 6
INVARIANTS
    PowerTypeOK
    PressesBounded
PROPERTIES
    OffReportIsEarned
    CycleWaitsForOff
    QuietOutcome
    ActionsEnd
