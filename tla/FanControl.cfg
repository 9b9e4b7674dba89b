SPECIFICATION Spec
CONSTANTS
    FSC_SENSOR_CNT_MAX = 1
    ConfigPath <- MCConfigPath
    ConfigFile <- PartialFiles
    AirflowPath <- MCAirflowPath
    Reading = {50}
    NumFans = 2
    Majority = 2
    TrayKind = {"absent", "F2B"}
    PowerOnPWM = 100
    SensorNum = {1}
    SensorState <- HotOrGone
INVARIANTS
    TypeOK
    RegistersFollowCommand
    NoFanBeyondLimits
