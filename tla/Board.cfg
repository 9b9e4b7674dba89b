SPECIFICATION BoardSpec
CONSTANTS
    UnreliablePort <- MCUnreliablePort
    MaxAsked = 2
    NumTrays = 1
    FAN_RPM_MULTIPLIER = 3
    ByteSize = 3
    WordSize = 6
    AVERAGING_SIZE = 3
    AverageWord = 8
    MaxSample = 3
    AveragedSensor = {"s1", "s2"}
    IntTableChoice = {"plain", "gpgpu"}
    MaxUsers = 2
    UserId = {"u1", "u2"}
    RecordFru = {"f1", "f2"}
    HeaderLen = 1
    Prefix = 2
    CountSize = 3
    MaxRecords = 2
    RecordLen = {1, 3}
    AreaStart = {0, 2}
    OffsetSize = 12
    FruStart = {0}
    MaxCalls = 2
    Fru <- MCFru
    UnknownId = "none"
    MAX_VPD_SIZE_DELL = 7
    MaxCount = 7
    MaxOffset = 11
    MaxUnit = 2
    MAX_COEFFS = 2
    MAX_POINTS = 3
    CalValue = {0, 1, 3}
    CalCount = {0, 2, 3, 4}
    SNOOP_DELAY_TIME = 3
INVARIANTS
    BoardTypeOK
    RoutesFollowDirection
    SetIsReadBack
    CountedReadingIsReal
    AverageIsOfTheLastSamples
    InterruptsReachTheirHandler
    MailGoesToItsUser
    NoConnectionIsExplained
    AreasInOrder
    InterpolationIsBetweenPoints
    CodesAreOfThisBoot
    WriteKeepsPlaces
    NormalMeansAll
    ReadIsInOrder
    OverrunNeedsLargeFru
PROPERTIES
    SolOutlivesTheHost
CHECK_DEADLOCK FALSE
