------------------------------- MODULE FscLoop -------------------------------
(***************************************************************************)
(* The fan control task: FanControlLoop of fsc_loop.c, called once per     *)
(* cycle, with FSCInitialize, FSCUpdateOutputPWM and the algorithms it     *)
(* calls.                                                                  *)
(*                                                                         *)
(* A cycle is idle -> scan -> apply -> idle, or idle -> idle when the      *)
(* initialisation fails.  The scan takes one step per profile, because the *)
(* sensor records it reads belong to another task and change meanwhile:    *)
(* what API_GetSensorInfo shows is a parameter of the step.  Likewise the  *)
(* system airflow is a parameter of the first step, and the writes to the  *)
(* fan trays happen while the cycle is in "apply".                         *)
(***************************************************************************)
EXTENDS FscConfig

CONSTANTS
    AirflowPath,   \* FSCInitialize's choice of file: [airflow value -> ConfigPath]
    Reading        \* the raw readings of the temperature sensors

ASSUME AirflowPathAssumption ==
    \A a \in DOMAIN AirflowPath : AirflowPath[a] \in ConfigPath
ASSUME ReadingAssumption == Reading \subseteq INT8U

VARIABLES
    initFlag,      \* the static init_flag of FanControlLoop
    sysInfo,       \* g_FscSystemInfo
    total,         \* g_FscProfileInfo.TotalProfileNum
    profile,       \* g_FscProfileInfo.ProfileInfo
    slot,          \* pFSCTempSensorInfo
    pc,            \* where the cycle is
    idx,           \* loop index i of FSCUpdateOutputPWM, from 1
    pwmValue,      \* its local pwm_value
    outputPWM,     \* its local output_pwm
    pwm            \* the local pwm of FanControlLoop

configVars == <<initFlag, sysInfo, total, profile>>
localVars == <<idx, pwmValue, outputPWM, pwm>>
loopVars == <<configVars, slot, pc, localVars>>

KnownAirflow == DOMAIN AirflowPath
SlotIndex == 1 .. FSC_SENSOR_CNT_MAX

\* What FSCUpdateOutputPWM sees of a sensor: no usable record (no such sensor,
\* or its Err is CC_DEST_UNAVAILABLE), or IsSensorPresent, bit 5 of EventFlags
\* ("unable to read") and the reading.
SensorInfo ==
    [Available : BOOLEAN, Present : BOOLEAN, Unable : BOOLEAN, Reading : Reading]

LoopInit ==
    /\ initFlag = FALSE
    /\ sysInfo = [FanInitialPWM |-> 0, FanMaxPWM |-> 0]
    /\ total = 0
    /\ profile = [i \in SlotIndex |-> ZeroProfile]
    /\ slot = [i \in SlotIndex |-> ZeroSlot]
    /\ pc = "idle"
    /\ idx = 1 /\ pwmValue = 0 /\ outputPWM = 0 /\ pwm = 0

-----------------------------------------------------------------------------
(* The start of a cycle.  init_flag is set only when the initialisation    *)
(* fails, so every cycle initialises again until one fails, and the cycles *)
(* after that run on whatever configuration the failure left.              *)

FSCInitialize(airflow, reads) ==
    LET file == ConfigFile[AirflowPath[airflow]]
    IN  /\ sysInfo' = InitializedSystemInfo(file, reads, sysInfo)
        /\ total' = InitializedTotal(file, reads, total)
        /\ profile' = InitializedProfiles(file, reads, profile)

StartCycle(airflow, reads) ==
    /\ pc = "idle"
    /\ ~initFlag
    /\ FSCInitializeSucceeds(ConfigFile[AirflowPath[airflow]], reads)
    /\ FSCInitialize(airflow, reads)
    /\ pc' = "scan"
    /\ UNCHANGED <<initFlag, slot, localVars>>

FailToInitialize(airflow, reads) ==
    /\ pc = "idle"
    /\ ~initFlag
    /\ ~FSCInitializeSucceeds(ConfigFile[AirflowPath[airflow]], reads)
    /\ FSCInitialize(airflow, reads)
    /\ initFlag' = TRUE
    /\ UNCHANGED <<slot, pc, localVars>>

StartCycleUninitialized ==
    /\ pc = "idle"
    /\ initFlag
    /\ pc' = "scan"
    /\ UNCHANGED <<configVars, slot, localVars>>

-----------------------------------------------------------------------------
(* One pass of the loop of FSCUpdateOutputPWM: lines 84-108 sample the     *)
(* sensor, then the algorithm of the profile decides.                      *)

Sampled(s, info) ==
    IF info.Available
    THEN [s EXCEPT !.Present = info.Present,
                   !.CurrentTemp = IF info.Unable THEN @ ELSE info.Reading]
    ELSE [s EXCEPT !.Present = FALSE]

Scanning == pc = "scan" /\ idx <= total /\ idx <= FSC_SENSOR_CNT_MAX

\* Lines 141-147: the result of this profile enters the maximum.
Accumulate(s) ==
    /\ slot' = [slot EXCEPT ![idx] = s]
    /\ pwmValue' = s.CurrentPWM
    /\ outputPWM' = AtLeast(outputPWM, s.CurrentPWM)
    /\ idx' = idx + 1
    /\ UNCHANGED <<configVars, pc, pwm>>

ControlPid(info) ==
    LET s == Sampled(slot[idx], info)
    IN  /\ Scanning
        /\ profile[idx].ProfileType = FSC_CTL_PID
        /\ s.Present
        /\ Accumulate(FSCGetPWMValue_PID(s, profile[idx].Pid,
                          sysInfo.FanInitialPWM, sysInfo.FanMaxPWM))

ControlPolynomial(info) ==
    LET s == Sampled(slot[idx], info)
    IN  /\ Scanning
        /\ profile[idx].ProfileType = FSC_CTL_POLYNOMIAL
        /\ s.Present
        /\ \E beyond \in BeyondTable(profile[idx].Poly) :
              Accumulate(FSCGetPWMValue_Polynomial(s, profile[idx].Poly,
                             sysInfo.FanInitialPWM, sysInfo.FanMaxPWM, beyond))

\* Mutation: a disabled sensor keeps the demand of its last enabled cycle.
SkipDisabledStale(info) ==
    LET s == Sampled(slot[idx], info)
    IN  /\ Scanning
        /\ profile[idx].ProfileType \in {FSC_CTL_PID, FSC_CTL_POLYNOMIAL}
        /\ ~s.Present
        /\ Accumulate(s)

\* A disabled sensor: the algorithm returns -1 without writing pwm_value, the
\* result is ignored, and the slot takes the value of the profile before it.
SkipDisabled(info) ==
    LET s == Sampled(slot[idx], info)
    IN  /\ Scanning
        /\ profile[idx].ProfileType \in {FSC_CTL_PID, FSC_CTL_POLYNOMIAL}
        /\ ~s.Present
        /\ Accumulate([s EXCEPT !.CurrentPWM = pwmValue])

\* Any other type ends the scan with -1; the caller ignores it and pwm is 0.
RejectProfile(info) ==
    /\ Scanning
    /\ profile[idx].ProfileType \notin {FSC_CTL_PID, FSC_CTL_POLYNOMIAL}
    /\ slot' = [slot EXCEPT ![idx] = Sampled(@, info)]
    /\ pc' = "apply"
    /\ UNCHANGED <<configVars, localVars>>

\* Mutation: the last demand instead of the highest.
FinishScanWithLast ==
    /\ pc = "scan"
    /\ idx > total
    /\ pwm' = pwmValue
    /\ pc' = "apply"
    /\ UNCHANGED <<configVars, slot, idx, pwmValue, outputPWM>>

FinishScan ==
    /\ pc = "scan"
    /\ idx > total
    /\ pwm' = outputPWM
    /\ pc' = "apply"
    /\ UNCHANGED <<configVars, slot, idx, pwmValue, outputPWM>>

\* The index leaves the tables: TotalProfileNum beyond their size is an error
\* of the parser, but it is stored and the next cycle scans up to it.  What
\* the task does from there is undefined.
OverrunTables ==
    /\ pc = "scan"
    /\ idx <= total
    /\ idx > FSC_SENSOR_CNT_MAX
    /\ pc' = "undefined"
    /\ UNCHANGED <<configVars, slot, localVars>>

ScanSensor(info) ==
    \/ ControlPid(info)
    \/ ControlPolynomial(info)
    \/ SkipDisabled(info)
    \/ RejectProfile(info)

\* OEM_SetAllFanTraysPWM has returned; the locals of the call are gone.
FinishCycle ==
    /\ pc = "apply"
    /\ pc' = "idle"
    /\ idx' = 1 /\ pwmValue' = 0 /\ outputPWM' = 0 /\ pwm' = 0
    /\ UNCHANGED <<configVars, slot>>

-----------------------------------------------------------------------------

LoopNext ==
    \/ \E a \in KnownAirflow, r \in FileReads : StartCycle(a, r) \/ FailToInitialize(a, r)
    \/ StartCycleUninitialized
    \/ \E info \in SensorInfo : ScanSensor(info)
    \/ FinishScan
    \/ OverrunTables
    \/ FinishCycle

LoopSpec == LoopInit /\ [][LoopNext]_loopVars

-----------------------------------------------------------------------------
(* Properties.                                                             *)

\* The state's types, and the ranges on which the casts of the code are exact.
LoopTypeOK ==
    /\ initFlag \in BOOLEAN
    /\ sysInfo \in SystemInfo
    /\ total \in INT8U
    /\ profile \in [SlotIndex -> Profile]
    /\ slot \in [SlotIndex -> Slot]
    /\ pc \in {"idle", "scan", "apply", "undefined"}
    /\ idx \in 1 .. 256
    /\ pwmValue \in INT8U /\ outputPWM \in INT8U /\ pwm \in INT8U

\* The profiles that the current scan has been through.
Scanned == {j \in SlotIndex : j < idx}

\* The maximum is the right one although FSCUpdateOutputPWM ignores the return
\* value of FSCGetPWMValue and lets a disabled slot inherit the value of its
\* predecessor: the output covers the demand of every scanned slot, and it is
\* the demand of a sensor that is present (or nobody asked for anything).
OutputIsHighestDemand ==
    pc \in {"scan", "apply"} =>
        /\ \A j \in Scanned : slot[j].CurrentPWM <= outputPWM
        /\ \/ outputPWM = 0
           \/ \E j \in Scanned : slot[j].Present /\ slot[j].CurrentPWM = outputPWM

\* A present sensor asks for less than fan_initial_pwm in one case only: a
\* polynomial sensor whose reading jumped, and whose last PWM is older than the
\* floor.  Neither the history of a slot under another configuration nor the
\* rate limits nor the curve bring a demand under the floor.
FloorHeld ==
    [][\A i \in SlotIndex :
        /\ pc = "scan" /\ idx = i /\ idx' = i + 1
        /\ slot'[i].Present
        /\ slot'[i].CurrentPWM < sysInfo.FanInitialPWM
        => /\ profile[i].ProfileType = FSC_CTL_POLYNOMIAL
           /\ Abs(slot'[i].CurrentTemp - slot[i].LastTemp) > TEMP_READING_RANGE
           /\ slot'[i].LastPWM = slot[i].LastPWM]_loopVars

\* The limits any configuration file states, and what stays within one of them.
Limits == {0} \cup {ConfigFile[p].System.FanInitialPWM : p \in ConfigPath}
              \cup {ConfigFile[p].System.FanMaxPWM : p \in ConfigPath}
WithinLimits(x) == \E l \in Limits : x <= l

\* The fans are never driven beyond the highest limit of the configuration
\* files: not by the sum of the PID terms, nor by a slot that carries its last
\* PWM from one configuration to the next, nor after a partial parse.
CommandWithinLimits == WithinLimits(pwm)

\* A polynomial sensor moves by at most its rates per cycle: it rises faster
\* only to reach the floor and falls faster only to get under the ceiling (or to
\* a floor above it, when the two limits come from different files).  The
\* truncation to whole percents adds less than one percent, and only when the
\* slot comes from a PID profile with a fractional PWM.  A fall is also faster
\* when the difference to the target is one that INT16S does not hold.
TooFarToLimit(i) ==
    LET seen == [slot[i] EXCEPT !.CurrentTemp = slot'[i].CurrentTemp]
        target == HysteresisTarget(seen, profile[i].Poly, 0)
    IN  /\ profile[i].Poly.CurveType = FSC_AMBIENT_CAL_POLYNOMIAL
        /\ Truncate(target * SCALE - slot[i].LastPWM) < -32767
RateRespected ==
    [][\A i \in SlotIndex :
        LET rise == slot'[i].LastPWM - slot[i].LastPWM
            par == profile[i].Poly
            floor == sysInfo.FanInitialPWM
        IN  profile[i].ProfileType = FSC_CTL_POLYNOMIAL =>
            /\ \/ rise < (par.MaxRisingRate + 1) * SCALE
               \/ slot'[i].LastPWM = floor * SCALE
            /\ \/ rise > -((par.MaxFallingRate + 1) * SCALE)
               \/ slot'[i].LastPWM = AtLeast(sysInfo.FanMaxPWM, floor) * SCALE
               \/ TooFarToLimit(i)]_loopVars

\* A cycle that initialised runs on the configuration of exactly one file, even
\* though every earlier one (another direction's, or one read in part) was
\* written over the same globals: on its curves too, as far as they are counted.
\* What the parser does not know is the exception: a profile of an unknown type
\* keeps type and parameters of the earlier file, one of an unknown curve type
\* keeps the points.
SameCurve(a, b) ==
    /\ b.CurveType = FSC_AMBIENT_CAL_POLYNOMIAL =>
        /\ a.CoeffCount = b.CoeffCount
        /\ \A j \in 1 .. MAX_POLYNOMIAL_COEFFS :
              j <= b.CoeffCount => a.Coefficients[j] = b.Coefficients[j]
    /\ b.CurveType = FSC_AMBIENT_CAL_PIECEWISE =>
        /\ a.PointCount = b.PointCount
        /\ \A j \in 1 .. MAX_PIECEWISE_POINTS :
              j <= b.PointCount => a.PiecewisePoints[j] = b.PiecewisePoints[j]
Configured(p) ==
    LET file == ConfigFile[p]
    IN  /\ sysInfo = file.System
        /\ total = Len(file.Items)
        /\ \A i \in 1 .. total :
            LET item == file.Items[i].Value
            IN  /\ profile[i].SensorNum = item.SensorNum
                /\ item.ProfileType = FSC_CTL_PID =>
                    /\ profile[i].ProfileType = FSC_CTL_PID
                    /\ profile[i].Pid = item.Pid
                /\ item.ProfileType = FSC_CTL_POLYNOMIAL =>
                    /\ profile[i].ProfileType = FSC_CTL_POLYNOMIAL
                    /\ profile[i].Poly.CurveType = item.Poly.CurveType
                    /\ SameCurve(profile[i].Poly, item.Poly)
                    /\ profile[i].Poly.FallingHyst = item.Poly.FallingHyst
                    /\ profile[i].Poly.MaxRisingRate = item.Poly.MaxRisingRate
                    /\ profile[i].Poly.MaxFallingRate = item.Poly.MaxFallingRate
ConfigurationOfOneFile ==
    pc \in {"scan", "apply"} /\ ~initFlag => \E p \in ConfigPath : Configured(p)

\* With files that list no more profiles than the tables hold, the scan never
\* leaves the tables, not even after a failed initialisation.
ScanStaysInTables == pc # "undefined"

\* The scan leaves the tables only in a cycle that runs on what a failed
\* initialisation left: the parser never accepts a file with too many profiles.
OverrunNeedsFailure == pc = "undefined" => initFlag

\* The loop implements MaxDemand: the demands are those of the scanned slots
\* whose sensor is present; a disabled sensor, whose slot inherits a value, is a
\* step that MaxDemand does not see.
Demands == {slot[j].CurrentPWM : j \in {k \in Scanned : slot[k].Present}}
Promise == INSTANCE MaxDemand WITH
               Demand <- INT8U,
               phase <- pc,
               demands <- IF pc = "idle" THEN {} ELSE Demands,
               command <- pwm
ImplementsMaxDemand == Promise!DemandInit /\ [][Promise!DemandNext]_(Promise!demandVars)

-----------------------------------------------------------------------------
(* What comments and messages of the code say and the code does not do.    *)

\* fsc_loop.c:180: "Initialization failed. Fan control will not run."
FailureStopsFanControl == initFlag => pc = "idle"

\* fsc_loop.c:164: "It ensures one-time initialization": a configuration that
\* has been loaded is not loaded again.
InitializedOnce == [][total # 0 => UNCHANGED <<sysInfo, total, profile>>]_loopVars

\* fsc_loop.c:68: "It then determines the maximum PWM value among all sensors,
\* which becomes the final output PWM": the command covers every demand.
CommandCoversDemands ==
    pc = "apply" => \A j \in Scanned : slot[j].CurrentPWM <= pwm
=============================================================================
