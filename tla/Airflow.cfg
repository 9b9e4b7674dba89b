SPECIFICATION AirflowFairSpec
CONSTANTS
    NumFans = 3
    Majority = 2
    TrayKind = {"absent", "F2B", "B2F", "other"}
    PowerOnPWM = 255
INVARIANTS
    AirflowTypeOK
    MajorityRules
    DirectionIsJustified
PROPERTY AirflowSettles
