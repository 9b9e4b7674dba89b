------------------------------ MODULE FanSensors ------------------------------
(***************************************************************************)
(* The fan speed sensors: PDKSensor.c hooks itself behind the stack's own  *)
(* monitoring of a sensor, reads the presence and then the speed of the    *)
(* rotor from the fan board CPLD (OEMFAN.c), and stores the reading or     *)
(* marks the sensor unavailable.  A tray may be pulled or plugged between  *)
(* any two of these steps.                                                 *)
(***************************************************************************)
EXTENDS Integers

CONSTANTS
    NumTrays,               \* the trays, SYS_FAN1 ..
    FAN_RPM_MULTIPLIER,     \* rotations per minute and unit of the register
    ByteSize, WordSize      \* 2^8 and 2^16: the widths of INT8U and INT16U

ASSUME FanSensorAssumption ==
    /\ NumTrays \in Nat \ {0}
    /\ FAN_RPM_MULTIPLIER \in Nat \ {0}
    /\ ByteSize \in Nat \ {0} /\ WordSize \in Nat \ {0}

VARIABLES
    plugged,           \* [tray -> whether it is present]
    speed,             \* the RPM registers, by <<tray, rotor>>
    hooked,            \* the sensors that have the pre and post hooks
    record,            \* SensorReading, Err and bit 5 of EventFlags, by sensor
    postPc, sensor,    \* where the monitoring of a sensor is, and of which
    result,            \* what the post hook returned last: 0 (counted), -1 (ignored)
    wasPlugged,        \* history: the tray was present since the hook began
    unread,            \* history: the presence could not be read
    shownRaw           \* history: the register value that was read

sensorVars == <<plugged, speed, hooked, record, postPc, sensor, result,
                wasPlugged, unread, shownRaw>>

Tray == 1 .. NumTrays
Rotor == {"FRONT", "REAR"}
Raw == 0 .. ByteSize - 1
FanSensor == Tray \X Rotor

\* OEM_GetFanTrayRPM gives 16 bits, and the hook stores 8 of the quotient.
FanRpm(raw) == (raw * FAN_RPM_MULTIPLIER) % WordSize
FanRpmRaw(rpm) == (rpm \div FAN_RPM_MULTIPLIER) % ByteSize

FanSensorInit ==
    /\ plugged \in [Tray -> BOOLEAN]
    /\ speed = [s \in FanSensor |-> 0]
    /\ hooked = {}
    /\ record = [s \in FanSensor |-> [Reading |-> 0, Unavailable |-> FALSE, Err |-> FALSE]]
    /\ postPc = "idle" /\ sensor = <<1, "FRONT">> /\ result = "none"
    /\ wasPlugged = FALSE /\ unread = FALSE /\ shownRaw = 0

\* pdk_sensor_hooks has a row for each rotor of each tray.
PDK_RegisterSensorHooks ==
    /\ hooked = {}
    /\ hooked' = FanSensor
    /\ UNCHANGED <<plugged, speed, record, postPc, sensor, result, wasPlugged,
                   unread, shownRaw>>

\* External: the stack monitors the sensor by itself, stores or clears what it
\* likes, and calls the hook.
MonitorSensor(s) ==
    /\ postPc = "idle"
    /\ s \in hooked
    /\ \E r \in Raw, lost \in BOOLEAN :
         record' = [record EXCEPT ![s] = [Reading |-> r, Unavailable |-> lost, Err |-> lost]]
    /\ sensor' = s
    /\ postPc' = "presence"
    /\ wasPlugged' = plugged[s[1]]
    /\ unread' = FALSE
    /\ UNCHANGED <<plugged, speed, hooked, result, shownRaw>>

Unavailable(s) ==
    /\ record' = [record EXCEPT ![s].Unavailable = TRUE, ![s].Err = TRUE]
    /\ result' = "ignored"
    /\ postPc' = "idle"

\* Mutation: the presence is not looked at.
FindTrayAlways ==
    /\ postPc = "presence"
    /\ unread' = FALSE
    /\ postPc' = "rpm"
    /\ UNCHANGED <<plugged, speed, hooked, record, sensor, result, wasPlugged, shownRaw>>

\* OEM_GetFanTrayPresent: the presence bit, or -1.
FindTray ==
    /\ postPc = "presence"
    /\ \/ plugged[sensor[1]] /\ unread' = FALSE
       \/ unread' = TRUE
    /\ postPc' = "rpm"
    /\ UNCHANGED <<plugged, speed, hooked, record, sensor, result, wasPlugged, shownRaw>>

FindNoTray ==
    /\ postPc = "presence"
    /\ ~plugged[sensor[1]]
    /\ Unavailable(sensor)
    /\ UNCHANGED <<plugged, speed, hooked, sensor, wasPlugged, unread, shownRaw>>

ReadRpm ==
    /\ postPc = "rpm"
    /\ record' = [record EXCEPT ![sensor].Reading = FanRpmRaw(FanRpm(speed[sensor]))]
    /\ shownRaw' = speed[sensor]
    /\ result' = "counted"
    /\ postPc' = "idle"
    /\ UNCHANGED <<plugged, speed, hooked, sensor, wasPlugged, unread>>

FailToReadRpm ==
    /\ postPc = "rpm"
    /\ Unavailable(sensor)
    /\ UNCHANGED <<plugged, speed, hooked, sensor, wasPlugged, unread, shownRaw>>

MoveTray(t) ==
    /\ plugged' = [plugged EXCEPT ![t] = ~@]
    /\ wasPlugged' = (wasPlugged \/ (postPc # "idle" /\ sensor[1] = t))
    /\ UNCHANGED <<speed, hooked, record, postPc, sensor, result, unread, shownRaw>>

ChangeSpeed(s) ==
    /\ \E r \in Raw : speed' = [speed EXCEPT ![s] = r]
    /\ UNCHANGED <<plugged, hooked, record, postPc, sensor, result, wasPlugged,
                   unread, shownRaw>>

FanSensorNext ==
    \/ PDK_RegisterSensorHooks
    \/ \E s \in FanSensor : MonitorSensor(s)
    \/ FindTray \/ FindNoTray
    \/ ReadRpm \/ FailToReadRpm
    \/ \E t \in Tray : MoveTray(t)
    \/ \E s \in FanSensor : ChangeSpeed(s)
FanSensorSpec == FanSensorInit /\ [][FanSensorNext]_sensorVars

-----------------------------------------------------------------------------
(* Properties                                                              *)

\* Readings and registers are bytes.
FanSensorTypeOK ==
    /\ plugged \in [Tray -> BOOLEAN]
    /\ speed \in [FanSensor -> Raw]
    /\ hooked \in {{}, FanSensor}
    /\ record \in [FanSensor -> [Reading : Raw, Unavailable : BOOLEAN, Err : BOOLEAN]]
    /\ postPc \in {"idle", "presence", "rpm"}
    /\ sensor \in FanSensor
    /\ result \in {"none", "counted", "ignored"}
    /\ wasPlugged \in BOOLEAN /\ unread \in BOOLEAN /\ shownRaw \in Raw

\* A cycle that counts, for a fan, shows a tray that was there while the hook
\* ran, unless the presence could not be read; and it shows the register of the
\* rotor as it was read, as long as the speed fits 16 bits.
CountedReadingIsReal ==
    /\ postPc = "idle" /\ result = "counted" =>
          /\ wasPlugged \/ unread
          /\ shownRaw * FAN_RPM_MULTIPLIER < WordSize =>
                 record[sensor].Reading = shownRaw
    /\ postPc = "idle" /\ result = "ignored" =>
          record[sensor].Unavailable /\ record[sensor].Err
=============================================================================
