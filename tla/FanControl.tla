----------------------------- MODULE FanControl -----------------------------
(***************************************************************************)
(* The fan control of the chassis: the fan control task (FscLoop), the     *)
(* sensor monitoring task that keeps the sensor records and the airflow    *)
(* (Airflow), and the fan trays both of them touch (FanTrays).  The tasks  *)
(* share systemAirflow and the sensor records without a lock, and their    *)
(* steps interleave freely, also with swaps of trays.                      *)
(***************************************************************************)
EXTENDS FscLoop, Airflow

CONSTANTS
    SensorNum,      \* the temperature sensors that exist
    SensorState     \* the records a sensor may show

ASSUME SensorStateAssumption == SensorState \subseteq SensorInfo
ASSUME ReadingExists == Reading # {}

VARIABLES
    sensor,         \* the sensor records behind API_GetSensorInfo
    lastCommand     \* history: the PWM of the last completed cycle

vars == <<loopVars, trayVars, airflowVars, sensor, lastCommand>>

ASSUME AirflowDomainAssumption == KnownAirflow = AirflowValue

\* API_GetSensorInfo returns no record for a number that is no sensor.
API_GetSensorInfo(n) ==
    IF n \in SensorNum THEN sensor[n]
    ELSE [Available |-> FALSE, Present |-> FALSE, Unable |-> TRUE,
          Reading |-> CHOOSE r \in Reading : TRUE]

Init ==
    /\ LoopInit
    /\ AirflowInit
    /\ sensor \in [SensorNum -> SensorState]
    /\ lastCommand = PowerOnPWM

\* The steps of the fan control task.
BeginCycle(reads) ==
    /\ \/ StartCycle(systemAirflow, reads)
       \/ FailToInitialize(systemAirflow, reads)
       \/ StartCycleUninitialized
    /\ UNCHANGED <<trayVars, airflowVars, sensor, lastCommand>>

Scan ==
    /\ \/ ScanSensor(API_GetSensorInfo(profile[idx].SensorNum))
       \/ FinishScan
       \/ OverrunTables
    /\ UNCHANGED <<trayVars, airflowVars, sensor, lastCommand>>

SetTray ==
    /\ pc = "apply"
    /\ RefuseTray \/ WriteTray(pwm)
    /\ UNCHANGED <<loopVars, airflowVars, sensor, lastCommand>>

FailToSetTray ==
    /\ pc = "apply"
    /\ FailToWriteTray(pwm) \/ DropWrite
    /\ UNCHANGED <<loopVars, airflowVars, sensor, lastCommand>>

EndCycle ==
    /\ FinishTrays
    /\ lastCommand' = pwm
    /\ FinishCycle
    /\ UNCHANGED <<airflowVars, sensor>>

\* The steps of the monitoring task and of the world.
UpdateAirflow(readable) ==
    /\ UpdateFanAirflow(readable) \/ OEM_UpdateSystemAirflow
    /\ UNCHANGED <<loopVars, sensor, lastCommand>>

UpdateSensor(n) ==
    /\ \E info \in SensorState \ {sensor[n]} : sensor' = [sensor EXCEPT ![n] = info]
    /\ UNCHANGED <<loopVars, trayVars, airflowVars, lastCommand>>

LoadBus ==
    /\ LoadHal
    /\ UNCHANGED <<loopVars, airflowVars, sensor, lastCommand>>

HotSwap(f, kind) ==
    /\ Swap(f, kind)
    /\ UNCHANGED <<loopVars, sensor, lastCommand>>

Next ==
    \/ \E r \in FileReads : BeginCycle(r)
    \/ Scan
    \/ SetTray
    \/ FailToSetTray
    \/ EndCycle
    \/ \E readable \in BOOLEAN : UpdateAirflow(readable)
    \/ \E n \in SensorNum : UpdateSensor(n)
    \/ \E f \in Fan, kind \in TrayKind : HotSwap(f, kind)
    \/ LoadBus

Spec == Init /\ [][Next]_vars

-----------------------------------------------------------------------------
(* Properties.                                                             *)

TypeOK ==
    /\ LoopTypeOK
    /\ AirflowTypeOK
    /\ sensor \in [SensorNum -> SensorState]
    /\ lastCommand \in INT8U

\* The PWM register of a tray whose last turn answered 0 holds the PWM of that
\* turn: of the running cycle behind the loop index, of the last completed cycle
\* elsewhere.  A tray is off the command only if its last turn answered an error,
\* which may also have written, or came before the bus functions were loaded,
\* when the answer is 0 and nothing is written.
RegistersFollowCommand ==
    \A f \in Fan \ (missed \cup dropped) :
        pwmReg[f] = CpldPWM(IF pc = "apply" /\ f < fan THEN pwm ELSE lastCommand)

\* From the files to the fans: no register is beyond the highest limit of the
\* configuration files, except by what the CPLD held when the power came on and
\* nobody has written over.  A register holds 255 for 100 percent.
NoFanBeyondLimits ==
    \A f \in Fan :
        pwmReg[f] # PowerOnPWM => \E l \in Limits : pwmReg[f] * 100 <= l * 255

\* The steps of a world in which nothing fails and nothing changes, once the bus
\* functions are loaded.
Calm ==
    /\ halLoaded
    /\ \/ BeginCycle(3)
       \/ Scan
       \/ SetTray
       \/ EndCycle
       \/ UpdateAirflow(TRUE)

\* Both tasks are called forever, by the scheduler of the BMC firmware.
FairSpec ==
    /\ Spec
    /\ WF_vars((\E r \in FileReads : BeginCycle(r)) \/ Scan \/ SetTray \/ EndCycle)
    /\ WF_vars(\E readable \in BOOLEAN : UpdateAirflow(readable))

\* The configuration that the airflow of the trays calls for.
RightFile == ConfigFile[AirflowPath[Decision([f \in Fan |-> TrayAirflow(f)])]]

\* End to end: when the world is calm and the sensors stay above their set
\* points, every tray that is present ends at the full PWM of the configuration
\* that its airflow calls for, whatever happened before, short of a failed
\* initialisation.
Hot(n, setPoint) ==
    /\ sensor[n].Available /\ sensor[n].Present /\ ~sensor[n].Unable
    /\ sensor[n].Reading > setPoint
AllHot ==
    \A i \in 1 .. Len(RightFile.Items) :
        LET item == RightFile.Items[i].Value
        IN  item.SensorNum \in SensorNum /\ Hot(item.SensorNum, item.Pid.SetPoint)
FullSpeed ==
    \A f \in Fan :
        tray[f] # "absent" => pwmReg[f] = CpldPWM(RightFile.System.FanMaxPWM)
HeatReachesFullSpeed ==
    <>[][Calm]_vars /\ <>[]AllHot /\ []~initFlag => <>[]FullSpeed
=============================================================================
