SPECIFICATION LoopSpec
CONSTANTS
    FSC_SENSOR_CNT_MAX = 2
    ConfigPath <- MCConfigPath
    ConfigFile <- MixedFiles
    AirflowPath <- MCAirflowPath
    Reading = {44, 50}
INVARIANTS
    LoopTypeOK
    OutputIsHighestDemand
    CommandWithinLimits
    ConfigurationOfOneFile
    ScanStaysInTables
PROPERTIES
    FloorHeld
    RateRespected
    ImplementsMaxDemand
