------------------------------ MODULE FscConfig ------------------------------
(***************************************************************************)
(* What FSCInitialize and the parsers of fsc_parser.c do to the global     *)
(* configuration (g_FscSystemInfo, g_FscProfileInfo).                      *)
(*                                                                         *)
(* The parsers write each field as soon as its key is converted and leave  *)
(* by "goto END" at the first key that does not convert, so a failed parse *)
(* keeps the fields it has already written.  A configuration file is       *)
(* therefore a record of the values its keys convert to and of how many of *)
(* the fields, in the order of the code, are written before an error.      *)
(***************************************************************************)
EXTENDS FscCore, Sequences

CONSTANTS
    FSC_SENSOR_CNT_MAX,  \* entries of the profile and slot tables (20)
    ConfigPath,          \* the configuration files (one per airflow direction)
    ConfigFile           \* [ConfigPath -> ConfigFileType]: what they contain

ASSUME TableAssumption == FSC_SENSOR_CNT_MAX \in 1 .. 255

SystemInfo == [FanInitialPWM : INT8U, FanMaxPWM : INT8U]
Profile == [SensorNum : INT8U, ProfileType : 0 .. 2, Pid : PidParam, Poly : PolyParam]

\* SystemWrites and Writes count the values of the control loop that are
\* written before the first key in error, the entries of an array one by one;
\* all of them are when none is.  A profile item whose type is
\* neither "pid" nor "polynomial" has type FSC_CTL_INVALID here: the parser
\* accepts it and writes no type.
SystemFields == 2
ProfileItem == [Value : Profile, Writes : Nat]
ConfigFileType == [DebugOk : BOOLEAN, System : SystemInfo,
                   SystemWrites : 0 .. SystemFields,
                   HasProfiles : BOOLEAN, Items : Seq(ProfileItem)]

ASSUME ConfigFileAssumption == ConfigFile \in [ConfigPath -> ConfigFileType]

\* Static storage: every profile is zero until a parse writes it.
ZeroProfile ==
    [SensorNum |-> 0, ProfileType |-> FSC_CTL_INVALID,
     Pid |-> [SetPoint |-> 0, Kp |-> 0, Ki |-> 0, Kd |-> 0],
     Poly |-> [CurveType |-> 0,
               CoeffCount |-> 0, Coefficients |-> [i \in 1 .. MAX_POLYNOMIAL_COEFFS |-> 0],
               PointCount |-> 0,
               PiecewisePoints |-> [i \in 1 .. MAX_PIECEWISE_POINTS |-> [temp |-> 0, pwm |-> 0]],
               FallingHyst |-> 0, MaxRisingRate |-> 0, MaxFallingRate |-> 0]]

-----------------------------------------------------------------------------
(* ParseSystemInfoFromJson: fan_initial_pwm is the last key but one and    *)
(* fan_max_pwm the last, so the parse succeeds iff both are written.       *)

ParseSystemInfo(file, info) ==
    [FanInitialPWM |-> IF file.SystemWrites >= 1 THEN file.System.FanInitialPWM
                       ELSE info.FanInitialPWM,
     FanMaxPWM |-> IF file.SystemWrites >= 2 THEN file.System.FanMaxPWM
                   ELSE info.FanMaxPWM]

SystemInfoComplete(file) == file.SystemWrites = SystemFields

-----------------------------------------------------------------------------
(* One item of ParseFSCProfileFromJson.  Writes of an item, in order:      *)
(* sensor_num, the type, then the parameters of that type.                 *)

\* The values between curve_type and falling_hyst: a count and as many entries
\* as the table holds of it, two values for each point; none for a curve type
\* that the parser does not know.
CurveFields(par) ==
    CASE par.CurveType = FSC_AMBIENT_CAL_POLYNOMIAL ->
             1 + AtMost(par.CoeffCount, MAX_POLYNOMIAL_COEFFS)
      [] par.CurveType = FSC_AMBIENT_CAL_PIECEWISE ->
             1 + 2 * AtMost(par.PointCount, MAX_PIECEWISE_POINTS)
      [] OTHER -> 0

ItemFields(item) ==
    CASE item.Value.ProfileType = FSC_CTL_PID -> 6
      [] item.Value.ProfileType = FSC_CTL_POLYNOMIAL -> 6 + CurveFields(item.Value.Poly)
      [] OTHER -> 1

ItemComplete(item) == item.Writes >= ItemFields(item)

ParsePid(old, new, n) ==
    [SetPoint |-> IF n >= 3 THEN new.SetPoint ELSE old.SetPoint,
     Kp |-> IF n >= 4 THEN new.Kp ELSE old.Kp,
     Ki |-> IF n >= 5 THEN new.Ki ELSE old.Ki,
     Kd |-> IF n >= 6 THEN new.Kd ELSE old.Kd]

\* The coefficients are the values from the fifth on; point j is written by its
\* temperature and then its PWM.  What lies behind the count stays as it was.
ParseCoefficients(old, new, n) ==
    [j \in 1 .. MAX_POLYNOMIAL_COEFFS |->
        IF j <= new.CoeffCount /\ n >= 4 + j THEN new.Coefficients[j]
        ELSE old.Coefficients[j]]
ParsePoints(old, new, n) ==
    [j \in 1 .. MAX_PIECEWISE_POINTS |->
        LET read == IF j <= new.PointCount THEN new.PiecewisePoints[j]
                    ELSE old.PiecewisePoints[j]
        IN  [temp |-> IF n >= 3 + 2 * j THEN read.temp ELSE old.PiecewisePoints[j].temp,
             pwm |-> IF n >= 4 + 2 * j THEN read.pwm ELSE old.PiecewisePoints[j].pwm]]

\* Mutation: the points are read, and their number is not stored.
ParsePolyWithoutCount(old, new, n) ==
    [new EXCEPT !.CoeffCount = old.CoeffCount, !.PointCount = old.PointCount]

\* curve_type, then the count and the entries that this curve type has,
\* falling_hyst, and the two rates.
ParsePoly(old, new, n) ==
    LET isPolynomial == new.CurveType = FSC_AMBIENT_CAL_POLYNOMIAL
        isPiecewise == new.CurveType = FSC_AMBIENT_CAL_PIECEWISE
        curve == 3 + CurveFields(new)
    IN  [CurveType |-> IF n >= 3 THEN new.CurveType ELSE old.CurveType,
         CoeffCount |-> IF isPolynomial /\ n >= 4 THEN new.CoeffCount ELSE old.CoeffCount,
         Coefficients |-> IF isPolynomial THEN ParseCoefficients(old, new, n)
                          ELSE old.Coefficients,
         PointCount |-> IF isPiecewise /\ n >= 4 THEN new.PointCount ELSE old.PointCount,
         PiecewisePoints |-> IF isPiecewise THEN ParsePoints(old, new, n)
                             ELSE old.PiecewisePoints,
         FallingHyst |-> IF n >= curve + 1 THEN new.FallingHyst ELSE old.FallingHyst,
         MaxRisingRate |-> IF n >= curve + 2 THEN new.MaxRisingRate ELSE old.MaxRisingRate,
         MaxFallingRate |-> IF n >= curve + 3 THEN new.MaxFallingRate
                            ELSE old.MaxFallingRate]

ParseItem(old, item) ==
    LET new == item.Value
        n == item.Writes
        typed == n >= 2 /\ new.ProfileType # FSC_CTL_INVALID
    IN  [SensorNum |-> IF n >= 1 THEN new.SensorNum ELSE old.SensorNum,
         ProfileType |-> IF typed THEN new.ProfileType ELSE old.ProfileType,
         Pid |-> IF typed /\ new.ProfileType = FSC_CTL_PID
                 THEN ParsePid(old.Pid, new.Pid, n) ELSE old.Pid,
         Poly |-> IF typed /\ new.ProfileType = FSC_CTL_POLYNOMIAL
                  THEN ParsePoly(old.Poly, new.Poly, n) ELSE old.Poly]

-----------------------------------------------------------------------------
(* ParseFSCProfileFromJson: TotalProfileNum is written before its range is *)
(* checked, and the items are read in order up to the first one in error.  *)

ParsedTotal(file) == Len(file.Items) % 256

\* The parse reaches item i: no item before it is in error.
ReachesItem(file, i) ==
    /\ i <= ParsedTotal(file)
    /\ \A j \in 1 .. i - 1 : ItemComplete(file.Items[j])

ParseProfiles(file, table) ==
    IF ParsedTotal(file) > FSC_SENSOR_CNT_MAX THEN table
    ELSE [i \in 1 .. FSC_SENSOR_CNT_MAX |->
             IF ReachesItem(file, i) THEN ParseItem(table[i], file.Items[i])
             ELSE table[i]]

\* Mutation: a parse that does not check the range of TotalProfileNum.
ProfilesCompleteUnchecked(file) ==
    /\ file.HasProfiles
    /\ \A j \in 1 .. ParsedTotal(file) : ItemComplete(file.Items[j])

ProfilesComplete(file) ==
    /\ file.HasProfiles
    /\ ParsedTotal(file) <= FSC_SENSOR_CNT_MAX
    /\ \A j \in 1 .. ParsedTotal(file) : ItemComplete(file.Items[j])

-----------------------------------------------------------------------------
(* FSCInitialize reads the file once per parser; the first "reads" of the  *)
(* three reads succeed.  A parser whose read fails writes nothing, and the *)
(* parsers after one that failed are not called.                           *)

FileReads == 0 .. 3

ReachesSystemInfo(file, reads) == reads >= 2 /\ file.DebugOk
ReachesProfiles(file, reads) ==
    ReachesSystemInfo(file, reads) /\ SystemInfoComplete(file) /\ reads >= 3

InitializedSystemInfo(file, reads, info) ==
    IF ReachesSystemInfo(file, reads) THEN ParseSystemInfo(file, info) ELSE info

\* Mutation: the profiles are counted without a reset.
InitializedTotalAdded(file, reads, total) ==
    IF ReachesProfiles(file, reads) /\ file.HasProfiles
    THEN (total + ParsedTotal(file)) % 256 ELSE total

InitializedTotal(file, reads, total) ==
    IF ReachesProfiles(file, reads) /\ file.HasProfiles THEN ParsedTotal(file)
    ELSE total

InitializedProfiles(file, reads, table) ==
    IF ReachesProfiles(file, reads) /\ file.HasProfiles
    THEN ParseProfiles(file, table) ELSE table

FSCInitializeSucceeds(file, reads) ==
    ReachesProfiles(file, reads) /\ ProfilesComplete(file)
=============================================================================
