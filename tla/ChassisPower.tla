---------------------------- MODULE ChassisPower ----------------------------
(***************************************************************************)
(* The chassis power actions of PDKHW.c: power on, power off, soft off,    *)
(* power cycle and reset.  The code presses the power button of the host   *)
(* through a GPIO, samples PS_GOOD, and never knows what the host does in  *)
(* between: the operating system shuts down, somebody presses the real     *)
(* button, a press gets lost.  A sample and a press are separate steps,    *)
(* and the button is held while the rest of the world moves on.            *)
(*                                                                         *)
(* The chassis task runs one action at a time.                             *)
(***************************************************************************)
EXTENDS Integers

CONSTANTS
    SsiSupport,      \* g_corefeatures.ssi_support is ENABLED
    CycleRetries,    \* polls of PDK_PowerCycleChassis after the first (50)
    LostPresses      \* presses of an action that may be lost (QuietOutcome)

ASSUME FeatureAssumption == SsiSupport \in BOOLEAN
ASSUME RetriesAssumption == CycleRetries \in Nat /\ LostPresses \in Nat

VARIABLES
    host,            \* "on" or "off": what PS_GOOD is wired to
    flashing,        \* flash mode without online flashing: GPIOs are not read
    driven,          \* the direction of the button's GPIO has been set to output
    held,            \* seconds that the button is held down for, 0 if released
    op,              \* the action that runs, or "none"
    pc,              \* where it is
    retry, delay,    \* locals of PDK_PowerOffChassis
    polls,           \* local retries of PDK_PowerCycleChassis
    inProgress,      \* PowerActionInProgress in shared memory
    alert,           \* the last alert of this action: <<action, result>>
    lastRead,        \* history: the last sample of PS_GOOD
    presses,         \* history: presses of PDK_PowerOffChassis in this action
    ignored,         \* history: presses of this action without effect
    disturbed        \* history: more than presses changed what this action sees

worldVars == <<host, flashing>>
buttonVars == <<driven, held>>
offVars == <<retry, delay, presses>>
histVars == <<ignored, disturbed>>
powerVars == <<worldVars, buttonVars, offVars, op, pc, polls, inProgress,
               alert, lastRead, ignored, disturbed>>

Action == {"on", "off", "soft", "cycle", "reset"}
NoAlert == <<"none", "none">>
Alert == {NoAlert} \cup ({"on", "off", "cycle", "reset"} \X {"WAIT", "PASS", "FAIL"})
FirstDelay == 5
LastDelay == 8
\* The histories stop counting one above what is claimed of them.
PressCap == 8
IgnoredCap == LostPresses + 1
CountTo(cap, n) == IF n < cap THEN n + 1 ELSE cap
\* Presses with the first delay; more than ReportRetries retries are a failure.
ShortRetries == 3
ReportRetries == 5
\* A host that runs is switched off by a press of at least this long.
OverrideSeconds == 4

\* In flash mode the GPIO is not read and the result keeps its initial value.
PDK_GetPSGood == IF flashing \/ host = "off" THEN 0 ELSE 1

PowerInit ==
    /\ host \in {"on", "off"}
    /\ flashing = FALSE
    /\ driven \in BOOLEAN
    /\ held = 0
    /\ op = "none" /\ pc = "idle"
    /\ retry = 0 /\ delay = FirstDelay /\ polls = CycleRetries
    /\ inProgress \in BOOLEAN
    /\ alert = NoAlert
    /\ lastRead = 0 /\ presses = 0 /\ ignored = 0 /\ disturbed = FALSE

-----------------------------------------------------------------------------
(* The button.                                                             *)

Hold(seconds) == held' = seconds /\ driven' = TRUE

\* What a press may do to the host; one of a running host that is too short to
\* override is a request that the operating system answers when it likes.
PressOutcome ==
    IF ~driven \/ (host = "on" /\ held < OverrideSeconds) THEN {host}
    ELSE {"on", "off"}

Release(next) ==
    /\ host' \in PressOutcome
    /\ ignored' = IF host' = host THEN CountTo(IgnoredCap, ignored) ELSE ignored
    /\ disturbed' = (disturbed \/ (next = "on_report" /\ host' = "off"))
    /\ held' = 0
    /\ pc' = next
    /\ UNCHANGED <<flashing, driven, op, offVars, polls, inProgress, alert, lastRead>>

-----------------------------------------------------------------------------
(* The actions of the task.  A caller may have set PowerActionInProgress.  *)

First(action) ==
    CASE action = "on" -> "on_press"
      [] action \in {"off", "cycle"} -> "off_loop"
      [] action = "soft" -> "soft_press"
      [] OTHER -> "reset"

Begin(action) ==
    /\ op = "none"
    /\ op' = action
    /\ pc' = First(action)
    /\ retry' = 0 /\ delay' = FirstDelay /\ polls' = CycleRetries
    /\ alert' = IF action = "cycle" THEN <<"cycle", "WAIT">> ELSE NoAlert
    /\ inProgress' \in {inProgress, TRUE}
    /\ presses' = 0 /\ ignored' = 0 /\ disturbed' = flashing
    /\ UNCHANGED <<worldVars, buttonVars, lastRead>>

\* PDK_ResetChassis presses the other button and reports at once.
ResetChassis ==
    /\ pc = "reset"
    /\ alert' = <<"reset", "PASS">>
    /\ op' = "none" /\ pc' = "idle"
    /\ UNCHANGED <<worldVars, buttonVars, offVars, polls, inProgress, lastRead, histVars>>

-----------------------------------------------------------------------------
(* PDK_PowerOffChassis.                                                    *)

\* The condition of the while loop.
OffLoop ==
    /\ pc = "off_loop"
    /\ lastRead' = PDK_GetPSGood
    /\ pc' = IF lastRead' = 1 THEN "off_choose" ELSE "off_report"
    /\ UNCHANGED <<worldVars, buttonVars, offVars, op, polls, inProgress, alert, histVars>>

OffPress ==
    /\ pc = "off_choose"
    /\ retry < ShortRetries /\ PDK_GetPSGood # 0
    /\ lastRead' = PDK_GetPSGood
    /\ Hold(delay)
    /\ presses' = CountTo(PressCap, presses)
    /\ pc' = "off_held"
    /\ UNCHANGED <<worldVars, op, retry, delay, polls, inProgress, alert, histVars>>

\* The else branch: PS_GOOD is sampled a second time only while retry is small,
\* and a host that just went down takes this branch too.
SecondSample == IF retry < ShortRetries THEN PDK_GetPSGood ELSE lastRead
ElseBranch ==
    /\ pc = "off_choose"
    /\ retry < ShortRetries => PDK_GetPSGood = 0
    /\ lastRead' = SecondSample

\* Mutation: the press does not get longer.
OffPressUnescalated ==
    /\ ElseBranch
    /\ delay <= LastDelay
    /\ Hold(delay)
    /\ presses' = CountTo(PressCap, presses)
    /\ pc' = "off_held"
    /\ UNCHANGED <<worldVars, op, retry, delay, polls, inProgress, alert, histVars>>

OffPressLonger ==
    /\ ElseBranch
    /\ delay <= LastDelay
    /\ delay' = delay + 1
    /\ Hold(delay')
    /\ presses' = CountTo(PressCap, presses)
    /\ pc' = "off_held"
    /\ UNCHANGED <<worldVars, op, retry, polls, inProgress, alert, histVars>>

\* Mutation: one press less.
OffGiveUpEarly ==
    /\ ElseBranch
    /\ delay >= LastDelay
    /\ pc' = "off_report"
    /\ UNCHANGED <<worldVars, buttonVars, offVars, op, polls, inProgress, alert, histVars>>

OffGiveUp ==
    /\ ElseBranch
    /\ delay > LastDelay
    /\ pc' = "off_report"
    /\ UNCHANGED <<worldVars, buttonVars, offVars, op, polls, inProgress, alert, histVars>>

OffRelease == pc = "off_held" /\ Release("off_check")

\* Off: leave with ChassisOFFFlag set, whatever retry says.
OffSeen ==
    /\ pc = "off_check"
    /\ PDK_GetPSGood = 0
    /\ lastRead' = 0
    /\ pc' = "off_report_flag"
    /\ UNCHANGED <<worldVars, buttonVars, offVars, op, polls, inProgress, alert, histVars>>

\* Mutation: the retry is not counted.
OffRetryUncounted ==
    /\ pc = "off_check"
    /\ PDK_GetPSGood # 0
    /\ lastRead' = PDK_GetPSGood
    /\ pc' = "off_loop"
    /\ UNCHANGED <<worldVars, buttonVars, op, retry, delay, presses, polls, inProgress,
                   alert, histVars>>

OffRetry ==
    /\ pc = "off_check"
    /\ PDK_GetPSGood # 0
    /\ lastRead' = PDK_GetPSGood
    /\ retry' = retry + 1
    /\ pc' = "off_loop"
    /\ UNCHANGED <<worldVars, buttonVars, op, delay, presses, polls, inProgress, alert, histVars>>

\* Only with SSI support an action says that it is over.
EndProgress == inProgress' = (inProgress /\ ~SsiSupport)

\* Mutation: the failure is tested against a count the loop never reaches.
OffReportLate ==
    /\ pc \in {"off_report", "off_report_flag"}
    /\ alert' = <<"off", IF retry > 7 /\ pc = "off_report" THEN "FAIL" ELSE "PASS">>
    /\ EndProgress
    /\ op' = IF op = "cycle" THEN op ELSE "none"
    /\ pc' = IF op = "cycle" THEN "cycle_wait" ELSE "idle"
    /\ UNCHANGED <<worldVars, buttonVars, offVars, polls, lastRead, histVars>>

OffReport ==
    /\ pc \in {"off_report", "off_report_flag"}
    /\ alert' = <<"off", IF retry > ReportRetries /\ pc = "off_report"
                         THEN "FAIL" ELSE "PASS">>
    /\ EndProgress
    /\ op' = IF op = "cycle" THEN op ELSE "none"
    /\ pc' = IF op = "cycle" THEN "cycle_wait" ELSE "idle"
    /\ UNCHANGED <<worldVars, buttonVars, offVars, polls, lastRead, histVars>>

-----------------------------------------------------------------------------
(* PDK_PowerOnChassis always returns 0, so that the loop around it in      *)
(* PDK_PowerCycleChassis never calls it again.                             *)

OnPress ==
    /\ pc = "on_press"
    /\ Hold(1)
    /\ pc' = "on_held"
    /\ UNCHANGED <<worldVars, offVars, op, polls, inProgress, alert, lastRead, histVars>>

OnRelease == pc = "on_held" /\ Release("on_report")

OnReport ==
    /\ pc = "on_report"
    /\ lastRead' = PDK_GetPSGood
    /\ alert' = <<"on", IF lastRead' = 0 THEN "FAIL" ELSE "PASS">>
    /\ EndProgress
    /\ op' = IF op = "cycle" THEN op ELSE "none"
    /\ pc' = IF op = "cycle" THEN "cycle_report" ELSE "idle"
    /\ UNCHANGED <<worldVars, buttonVars, offVars, polls, histVars>>

\* PDK_SoftOffChassis writes the pin without setting its direction.
SoftPress ==
    /\ pc = "soft_press"
    /\ held' = FirstDelay
    /\ pc' = "soft_held"
    /\ UNCHANGED <<worldVars, driven, offVars, op, polls, inProgress, alert, lastRead, histVars>>

SoftRelease == pc = "soft_held" /\ Release("soft_report")

SoftReport ==
    /\ pc = "soft_report"
    /\ lastRead' = PDK_GetPSGood
    /\ alert' = <<"off", IF lastRead' # 0 THEN "FAIL" ELSE "PASS">>
    /\ EndProgress
    /\ op' = "none" /\ pc' = "idle"
    /\ UNCHANGED <<worldVars, buttonVars, offVars, polls, histVars>>

-----------------------------------------------------------------------------
(* The rest of PDK_PowerCycleChassis: it waits for PS_GOOD to go, and      *)
(* switches on in any case.                                                *)

\* Mutation: a wait of a single poll.
CycleWaitOnce ==
    /\ pc = "cycle_wait"
    /\ lastRead' = PDK_GetPSGood
    /\ pc' = "on_press"
    /\ UNCHANGED <<worldVars, buttonVars, offVars, op, polls, inProgress, alert, histVars>>

CycleWait ==
    /\ pc = "cycle_wait"
    /\ lastRead' = PDK_GetPSGood
    /\ IF lastRead' = 1
       THEN /\ polls' = polls - 1
            /\ pc' = IF polls > 0 THEN "cycle_wait" ELSE "on_press"
       ELSE polls' = polls /\ pc' = "on_press"
    /\ UNCHANGED <<worldVars, buttonVars, offVars, op, inProgress, alert, histVars>>

CycleReport ==
    /\ pc = "cycle_report"
    /\ alert' = <<"cycle", "PASS">>
    /\ op' = "none" /\ pc' = "idle"
    /\ UNCHANGED <<worldVars, buttonVars, offVars, polls, inProgress, lastRead, histVars>>

PowerOff ==
    OffLoop \/ OffPress \/ OffPressLonger \/ OffGiveUp \/ OffRelease
        \/ OffSeen \/ OffRetry \/ OffReport
PowerOn == OnPress \/ OnRelease \/ OnReport
SoftOff == SoftPress \/ SoftRelease \/ SoftReport

Task == PowerOff \/ PowerOn \/ SoftOff \/ CycleWait \/ CycleReport \/ ResetChassis

-----------------------------------------------------------------------------
(* The world.                                                              *)

HostChanges ==
    /\ host' \in {"on", "off"} \ {host}
    /\ disturbed' = (op # "none")
    /\ UNCHANGED <<flashing, buttonVars, offVars, op, pc, polls, inProgress,
                   alert, lastRead, ignored>>

FlashMode ==
    /\ flashing' = ~flashing
    /\ disturbed' = (op # "none")
    /\ UNCHANGED <<host, buttonVars, offVars, op, pc, polls, inProgress,
                   alert, lastRead, ignored>>

PowerNext ==
    \/ \E action \in Action : Begin(action)
    \/ Task
    \/ HostChanges
    \/ FlashMode

PowerSpec == PowerInit /\ [][PowerNext]_powerVars
\* The chassis task goes on with an action it has begun.
FairPowerSpec == PowerSpec /\ WF_powerVars(Task)

-----------------------------------------------------------------------------
(* Properties.                                                             *)

PowerTypeOK ==
    /\ host \in {"on", "off"} /\ flashing \in BOOLEAN /\ driven \in BOOLEAN
    /\ held \in 0 .. LastDelay + 1
    /\ op \in Action \cup {"none"}
    /\ pc \in {"idle", "reset", "off_loop", "off_choose", "off_held", "off_check",
               "off_report", "off_report_flag", "on_press", "on_held", "on_report",
               "soft_press", "soft_held", "soft_report", "cycle_wait", "cycle_report"}
    /\ retry \in 0 .. 7 /\ delay \in FirstDelay .. LastDelay + 1
    /\ polls \in -1 .. CycleRetries
    /\ inProgress \in BOOLEAN
    /\ alert \in Alert
    /\ lastRead \in {0, 1} /\ disturbed \in BOOLEAN

\* Whatever the host does between the samples, a power-off reports success only
\* after a last sample that showed it off, and failure only after six presses
\* (or the single one of a soft off).  The exception: when the two samples of
\* one pass contradict each other, the longer presses are used up too early, and
\* the code gives up before its seven presses and calls it a success.
OffReportIsEarned ==
    [][/\ alert # alert'
       /\ alert'[1] = "off"
       => IF alert'[2] = "PASS"
          THEN lastRead' = 0 \/ (delay > LastDelay /\ presses < 7)
          ELSE presses > ReportRetries \/ (op = "soft" /\ lastRead' = 1)]_powerVars

\* The power-off presses at most seven times, three of them with the first
\* delay, even if samples of the same pass contradict each other.
PressesBounded == presses <= ShortRetries + (LastDelay + 1 - FirstDelay)

\* A power cycle presses the button to switch on only when it has seen the host
\* off, or when it has waited for all its polls.
CycleWaitsForOff ==
    [][pc = "cycle_wait" /\ pc' = "on_press" => lastRead' = 0 \/ polls' = -1]_powerVars

\* Six lost presses are tolerated: unless something else than presses changes the
\* host or the samples, or the press that switches on is lost, a power-off ends
\* with the host off and a power cycle with the host on.
QuietOutcome ==
    [][/\ op \in {"off", "cycle"} /\ op' = "none"
       /\ ~disturbed /\ ignored <= LostPresses
       => host' = IF op = "off" THEN "off" ELSE "on"]_powerVars

\* Every action comes to its end, whatever the host does and whatever is sampled:
\* no loop of PDK_PowerOffChassis or PDK_PowerCycleChassis waits for ever.
ActionsEnd == \A a \in Action : op = a ~> op = "none"

-----------------------------------------------------------------------------
(* What comments of the code say and the code does not do.                 *)

\* PDKHW.c:623: "Try to power up the host.  Try several times if necessary to
\* make sure the host comes back up": success means the host was seen up.
CycleBringsHostUp == alert = <<"cycle", "PASS">> /\ pc = "idle" => lastRead = 1
=============================================================================
