SPECIFICATION LoopSpec
CONSTANTS
    FSC_SENSOR_CNT_MAX = 2
    ConfigPath <- MCConfigPath
    ConfigFile <- OversizedFiles
    AirflowPath <- MCAirflowPath
    Reading = {44, 50}
INVARIANTS
    OverrunNeedsFailure
PROPERTIES
    RateRespected
CHECK_DEADLOCK FALSE
