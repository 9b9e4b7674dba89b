------------------------------ MODULE FanTrays ------------------------------
(***************************************************************************)
(* The fan trays behind the fan board CPLD (OEMFAN.c): hot-pluggable trays *)
(* and one PWM register per tray, which belongs to the CPLD and survives a *)
(* swap.  OEM_SetAllFanTraysPWM is one step per tray, since trays come and *)
(* go, and registers fail to read or write, while it runs.                 *)
(***************************************************************************)
EXTENDS Integers

CONSTANTS
    NumFans,     \* SYS_FAN_NUM_MAX
    TrayKind,    \* what a slot may hold: "absent", or a tray by its airflow
    PowerOnPWM   \* what the CPLD holds in a PWM register before any write

ASSUME NumFansAssumption == NumFans \in Nat \ {0}
ASSUME TrayKindAssumption ==
    "absent" \in TrayKind /\ TrayKind \subseteq {"absent", "F2B", "B2F", "other"}
ASSUME PowerOnAssumption == PowerOnPWM \in 0 .. 255

VARIABLES
    tray,        \* what is in each slot
    pwmReg,      \* the PWM registers of the CPLD
    fan,         \* the loop index of OEM_SetAllFanTraysPWM, from 1
    halLoaded,   \* g_HALI2CHandle holds the bus functions
    missed,      \* history: trays whose last turn did not answer 0
    dropped      \* history: trays whose last turn answered 0 and wrote nothing

trayVars == <<tray, pwmReg, fan, halLoaded, missed, dropped>>

Fan == 1 .. NumFans

\* The results of OEM_GetFanTrayPresent: the presence bit, or -1 if the
\* register could not be read.  Without the bus functions OEM_ReadWritePLD answers
\* 0 and leaves the number of the register in the buffer: either bit.
PresenceRead(f) ==
    IF halLoaded
    THEN {"failed", IF tray[f] = "absent" THEN "FAN_ABSENT" ELSE "FAN_PRESENT"}
    ELSE {"FAN_ABSENT", "FAN_PRESENT"}

\* Mutation: the percentage is not divided by 100.
CpldPWMUnscaled(duty) == duty * 255

\* Percent to register value; beyond 100 is taken as 100.
CpldPWM(duty) == ((IF duty > 100 THEN 100 ELSE duty) * 255) \div 100

TraysInit ==
    /\ tray \in [Fan -> TrayKind]
    /\ pwmReg = [f \in Fan |-> PowerOnPWM]
    /\ fan = 1
    /\ halLoaded = FALSE
    /\ missed = Fan /\ dropped = {}

\* The stack loads the bus functions, at any time.
LoadHal ==
    /\ ~halLoaded
    /\ halLoaded' = TRUE
    /\ UNCHANGED <<tray, pwmReg, fan, missed, dropped>>

\* OEM_SetFanTrayPWM refuses a tray that reads absent; a presence that cannot be
\* read does not stop it.  A failure is recorded in final_ret, which the caller
\* ignores, and the loop goes on.
Refused == "FAN_ABSENT" \in PresenceRead(fan)
Attempted == \E seen \in PresenceRead(fan) : seen # "FAN_ABSENT"

\* The turn of a tray ends with -1 or with 0.
TurnFailed ==
    /\ missed' = missed \cup {fan} /\ dropped' = dropped \ {fan}
    /\ fan' = fan + 1
    /\ UNCHANGED <<tray, halLoaded>>
TurnSucceeded(lost) ==
    /\ missed' = missed \ {fan}
    /\ dropped' = IF lost THEN dropped \cup {fan} ELSE dropped \ {fan}
    /\ fan' = fan + 1
    /\ UNCHANGED <<tray, halLoaded>>

RefuseTray ==
    /\ fan <= NumFans
    /\ Refused
    /\ UNCHANGED pwmReg
    /\ TurnFailed

\* Mutation: every write goes to the register of the first tray.
WriteFirstTray(duty) ==
    /\ fan <= NumFans
    /\ Attempted /\ halLoaded
    /\ pwmReg' = [pwmReg EXCEPT ![1] = CpldPWM(duty)]
    /\ TurnSucceeded(FALSE)

WriteTray(duty) ==
    /\ fan <= NumFans
    /\ Attempted /\ halLoaded
    /\ pwmReg' = [pwmReg EXCEPT ![fan] = CpldPWM(duty)]
    /\ TurnSucceeded(FALSE)

\* A write that fails on the bus may have reached the CPLD.
FailToWriteTray(duty) ==
    /\ fan <= NumFans
    /\ Attempted /\ halLoaded
    /\ pwmReg' \in {pwmReg, [pwmReg EXCEPT ![fan] = CpldPWM(duty)]}
    /\ TurnFailed

\* OEM_ReadWritePLD answers 0 to a write without the bus functions.
DropWrite ==
    /\ fan <= NumFans
    /\ Attempted /\ ~halLoaded
    /\ UNCHANGED pwmReg
    /\ TurnSucceeded(TRUE)

\* All trays have been visited; the next call starts at the first one.
FinishTrays ==
    /\ fan > NumFans
    /\ fan' = 1
    /\ UNCHANGED <<tray, pwmReg, halLoaded, missed, dropped>>

\* A tray is pulled, or one is plugged into a free slot.
SwapTray(f, kind) ==
    /\ tray[f] # kind
    /\ "absent" \in {tray[f], kind}
    /\ tray' = [tray EXCEPT ![f] = kind]
    /\ UNCHANGED <<pwmReg, fan, halLoaded, missed, dropped>>

TraysTypeOK ==
    /\ tray \in [Fan -> TrayKind]
    /\ pwmReg \in [Fan -> 0 .. 255]
    /\ fan \in 1 .. NumFans + 1
    /\ halLoaded \in BOOLEAN
    /\ missed \subseteq Fan /\ dropped \subseteq Fan
=============================================================================
