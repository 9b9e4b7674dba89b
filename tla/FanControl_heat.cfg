SPECIFICATION FairSpec
CONSTANTS
    FSC_SENSOR_CNT_MAX = 1
    ConfigPath <- MCConfigPath
    ConfigFile <- MCConfigFile
    AirflowPath <- MCAirflowPath
    Reading = {44, 50}
    NumFans = 1
    Majority = 1
    TrayKind = {"absent", "F2B"}
    PowerOnPWM = 100
    SensorNum = {1}
    SensorState <- WarmOrHot
PROPERTY HeatReachesFullSpeed
