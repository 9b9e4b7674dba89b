------------------------------- MODULE Airflow -------------------------------
(***************************************************************************)
(* The airflow direction of the chassis (OEMSysInfo.c): the sensor         *)
(* monitoring task reads every tray's EEPROM, caches its direction, and    *)
(* then decides the system airflow, which the fan control task reads at    *)
(* any time and without a lock.                                            *)
(***************************************************************************)
EXTENDS FanTrays, FiniteSets

CONSTANT Majority    \* trays that must agree (3 of 5)

ASSUME MajorityAssumption ==
    Majority \in Nat /\ Majority <= NumFans /\ 2 * Majority > NumFans

VARIABLES
    fanAirflow,      \* g_SystemInfo.globalFanInfo[].airflow
    systemAirflow,   \* g_SystemInfo.systemAirflow
    scanFan,         \* loop index of OEM_UpdateFansAirflow, from 1
    disturbed        \* history: slots swapped or misread since this round began

airflowVars == <<fanAirflow, systemAirflow, scanFan, disturbed>>

Direction == {"F2B", "B2F"}
AirflowValue == Direction \cup {"UNKNOWN"}

\* Mutation: the type is passed on without a check.
TrayAirflowRaw(f) == tray[f]

\* What OEM_GetFanTrayAirflow makes of the tray; every failure (no tray, EEPROM
\* not readable, not Dell's IANA number) and every other type is unknown.
TrayAirflow(f) == IF tray[f] \in Direction THEN tray[f] ELSE "UNKNOWN"

Count(cache, d) == Cardinality({f \in Fan : cache[f] = d})

\* Mutations: one tray too many or too few for a decision.
DecisionTooStrict(cache) ==
    IF Count(cache, "F2B") > Majority THEN "F2B"
    ELSE IF Count(cache, "B2F") > Majority THEN "B2F"
    ELSE "UNKNOWN"
DecisionTooWeak(cache) ==
    IF Count(cache, "F2B") >= Majority - 1 THEN "F2B"
    ELSE IF Count(cache, "B2F") >= Majority - 1 THEN "B2F"
    ELSE "UNKNOWN"

Decision(cache) ==
    IF Count(cache, "F2B") >= Majority THEN "F2B"
    ELSE IF Count(cache, "B2F") >= Majority THEN "B2F"
    ELSE "UNKNOWN"

\* OEM_InitSysInfo has run before any task starts; each EEPROM may have failed.
AirflowInit ==
    /\ TraysInit
    /\ \E failed \in SUBSET Fan :
        /\ fanAirflow = [f \in Fan |-> IF f \in failed THEN "UNKNOWN" ELSE TrayAirflow(f)]
        /\ disturbed = failed
    /\ systemAirflow = Decision(fanAirflow)
    /\ scanFan = 1

\* Mutation: a direction that is known is not read again.
UpdateUnknownOnly(readable) ==
    /\ scanFan <= NumFans
    /\ fanAirflow' = [fanAirflow EXCEPT ![scanFan] =
                         IF readable /\ @ = "UNKNOWN" THEN TrayAirflow(scanFan) ELSE @]
    /\ LET before == IF scanFan = 1 THEN {} ELSE disturbed
       IN  disturbed' = IF readable THEN before ELSE before \cup {scanFan}
    /\ scanFan' = scanFan + 1
    /\ UNCHANGED <<systemAirflow, trayVars>>

\* One pass of OEM_UpdateFansAirflow.  The round begins with the first slot.
UpdateFanAirflow(readable) ==
    /\ scanFan <= NumFans
    /\ fanAirflow' = [fanAirflow EXCEPT ![scanFan] =
                         IF readable THEN TrayAirflow(scanFan) ELSE "UNKNOWN"]
    /\ LET before == IF scanFan = 1 THEN {} ELSE disturbed
       IN  disturbed' = IF readable THEN before ELSE before \cup {scanFan}
    /\ scanFan' = scanFan + 1
    /\ UNCHANGED <<systemAirflow, trayVars>>

OEM_UpdateSystemAirflow ==
    /\ scanFan > NumFans
    /\ systemAirflow' = Decision(fanAirflow)
    /\ scanFan' = 1
    /\ UNCHANGED <<fanAirflow, disturbed, trayVars>>

\* A swap while the airflow is being determined.
Swap(f, kind) ==
    /\ SwapTray(f, kind)
    /\ disturbed' = disturbed \cup {f}
    /\ UNCHANGED <<fanAirflow, systemAirflow, scanFan>>

Monitor ==
    \/ \E readable \in BOOLEAN : UpdateFanAirflow(readable)
    \/ OEM_UpdateSystemAirflow

AirflowNext ==
    \/ Monitor
    \/ \E f \in Fan, kind \in TrayKind : Swap(f, kind)

AirflowSpec == AirflowInit /\ [][AirflowNext]_<<trayVars, airflowVars>>

-----------------------------------------------------------------------------
(* Properties.                                                             *)

AirflowTypeOK ==
    /\ TraysTypeOK
    /\ fanAirflow \in [Fan -> AirflowValue]
    /\ systemAirflow \in AirflowValue
    /\ scanFan \in 1 .. NumFans + 1
    /\ disturbed \subseteq Fan

\* Between rounds, a majority of trays that point one way and were neither
\* swapped nor misread since the last round began has decided the system
\* airflow, whatever the others did: the direction survives any failures of
\* NumFans - Majority trays.
MajorityRules ==
    scanFan = 1 =>
        \A d \in Direction :
            Cardinality({f \in Fan \ disturbed : tray[f] = d}) >= Majority
                => systemAirflow = d

\* Between rounds, the system airflow is a direction only if a majority of the
\* trays points that way now or was disturbed.
DirectionIsJustified ==
    scanFan = 1 =>
        \A d \in Direction :
            systemAirflow = d =>
                Cardinality({f \in Fan : tray[f] = d} \cup disturbed) >= Majority

\* The monitoring task is periodic: it keeps calling PDK_PostMonitorAllSensors.
AirflowFairSpec == AirflowSpec /\ WF_<<trayVars, airflowVars>>(Monitor)

\* Once trays stay in place and their EEPROMs can be read, the system airflow
\* settles on the direction of the majority, or on unknown if there is none.
AirflowSettles ==
    <>[][UpdateFanAirflow(TRUE) \/ OEM_UpdateSystemAirflow]_<<trayVars, airflowVars>>
        => <>[](systemAirflow = Decision([f \in Fan |-> TrayAirflow(f)]))
=============================================================================
