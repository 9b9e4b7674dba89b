-------------------------- MODULE ChassisPowerProofs --------------------------
(***************************************************************************)
(* Proofs about the chassis power actions, for every number of polls and   *)
(* for every behaviour of the host and of flash mode.                      *)
(*                                                                         *)
(* What a report of PDK_PowerOffChassis means is not visible where it is   *)
(* made: retry and delay are all that is left of the presses.  PowerInv    *)
(* relates them: in the loop every pass presses once, and a pass that is   *)
(* not one of the first three makes the delay longer.                      *)
(***************************************************************************)
EXTENDS ChassisPower, TLAPS

PressInv ==
    /\ presses <= ShortRetries + (LastDelay + 1 - FirstDelay)
    /\ pc \in {"off_loop", "off_choose", "off_report"} => presses = retry
    /\ pc \in {"off_held", "off_check"} => presses = retry + 1
    /\ pc \in {"off_loop", "off_choose", "off_held", "off_check", "off_report"}
       => presses + FirstDelay <= ShortRetries + delay

ReportInv ==
    /\ pc = "off_report" => lastRead = 0 \/ delay > LastDelay
    /\ pc = "off_report_flag" => lastRead = 0
    /\ pc \in {"soft_press", "soft_held", "soft_report"} => op = "soft"
    /\ op = "none" => pc = "idle"

\* The polls of a power cycle are all left when its wait begins.
PollInv ==
    pc \in {"off_loop", "off_choose", "off_held", "off_check", "off_report",
            "off_report_flag", "cycle_wait"} => polls >= 0

PowerInv == PowerTypeOK /\ PressInv /\ ReportInv /\ PollInv

USE RetriesAssumption DEF FirstDelay, LastDelay, ShortRetries, ReportRetries, PressCap

-----------------------------------------------------------------------------
(* The helpers.                                                            *)

\* A count grows by one until it reaches its cap.
LEMMA CountToStep ==
    ASSUME NEW cap \in Nat, NEW n \in Nat, n < cap
    PROVE  CountTo(cap, n) = n + 1
BY DEF CountTo

\* A sample of PS_GOOD is zero or one, in flash mode too.
LEMMA Sample == PDK_GetPSGood \in {0, 1}
BY DEF PDK_GetPSGood

\* The alerts that the actions raise.
LEMMA Alerts ==
    /\ NoAlert \in Alert
    /\ \A a \in {"on", "off", "cycle", "reset"}, r \in {"WAIT", "PASS", "FAIL"} :
          <<a, r>> \in Alert
BY DEF Alert, NoAlert

\* A press leaves the host on or off.
LEMMA Outcome == host \in {"on", "off"} => PressOutcome \subseteq {"on", "off"}
BY DEF PressOutcome

\* A release changes nothing that the invariant relates but pc.
LEMMA ReleaseStep ==
    ASSUME PowerInv, NEW next, Release(next), pc # "idle",
           next \in {"off_check", "on_report", "soft_report"},
           next = "off_check" => pc = "off_held",
           next = "soft_report" => pc = "soft_held"
    PROVE  PowerInv'
<1>1. host' \in {"on", "off"}
  BY Outcome DEF PowerInv, PowerTypeOK, Release
<1>2. PowerTypeOK'
  BY <1>1 DEF PowerInv, PowerTypeOK, Release, offVars, histVars
<1>3. PressInv' /\ ReportInv' /\ PollInv'
  BY DEF PowerInv, PressInv, ReportInv, PollInv, Release, offVars, histVars
<1> QED
  BY <1>2, <1>3 DEF PowerInv

-----------------------------------------------------------------------------
(* The inductive invariant.                                                *)

\* The invariant holds before the first power action.
LEMMA InitInv == PowerInit => PowerInv
<1>1. PowerInit => flashing \in BOOLEAN /\ disturbed \in BOOLEAN /\ alert \in Alert
  BY Alerts DEF PowerInit
<1> QED
  BY <1>1 DEF PowerInit, PowerInv, PowerTypeOK, PressInv, ReportInv, PollInv, Action

\* The start of an action keeps it: a task takes up a flag that is free.
LEMMA BeginStep ==
    ASSUME PowerInv, NEW action \in Action, Begin(action)
    PROVE  PowerInv'
<1>1. First(action) \in {"on_press", "off_loop", "soft_press", "reset"}
      /\ (First(action) = "soft_press" => action = "soft")
  BY DEF First, Action
<1>2. PowerTypeOK'
  <2>1. alert' \in Alert /\ inProgress' \in BOOLEAN /\ disturbed' \in BOOLEAN
    BY Alerts DEF Begin, PowerInv, PowerTypeOK
  <2> QED
    BY <1>1, <2>1 DEF PowerInv, PowerTypeOK, Begin, worldVars, buttonVars, Action
<1>3. PressInv' /\ ReportInv' /\ PollInv'
  BY <1>1 DEF PressInv, ReportInv, PollInv, Begin, Action
<1> QED
  BY <1>2, <1>3 DEF PowerInv

\* The flag of a running action stays a flag where the action ends.
LEMMA ProgressEnds == EndProgress => inProgress' \in BOOLEAN
<1>1. CASE inProgress /\ ~SsiSupport
  BY <1>1, Zenon DEF EndProgress
<1>2. CASE ~ (inProgress /\ ~SsiSupport)
  BY <1>2, Zenon DEF EndProgress
<1> QED BY <1>1, <1>2

\* The steps of a power-off, alone and as the first half of a cycle, keep it.
LEMMA PowerOffStep ==
    ASSUME PowerInv, PowerOff
    PROVE  PowerInv'
<1> USE DEF PowerInv, PowerTypeOK, PressInv, ReportInv, PollInv
<1>1. CASE OffLoop
  BY <1>1, Sample DEF OffLoop, worldVars, buttonVars, offVars, histVars
<1>2. CASE OffPress
  <2>1. presses < PressCap /\ presses' = presses + 1
    BY <1>2, CountToStep DEF OffPress
  <2> QED
    BY <1>2, <2>1, Sample DEF OffPress, Hold, worldVars, histVars
<1>3. CASE OffPressLonger
  <2>1. presses < PressCap /\ presses' = presses + 1
    BY <1>3, CountToStep DEF OffPressLonger, ElseBranch
  <2>2. lastRead' \in {0, 1}
    BY <1>3, Sample DEF OffPressLonger, ElseBranch, SecondSample
  <2>3. /\ pc = "off_choose" /\ pc' = "off_held"
        /\ delay <= LastDelay /\ delay' = delay + 1
        /\ held' = delay' /\ driven' = TRUE
        /\ UNCHANGED <<host, flashing, op, retry, polls, inProgress, alert, disturbed>>
    BY <1>3 DEF OffPressLonger, ElseBranch, Hold, worldVars, histVars
  <2> QED
    BY <2>1, <2>2, <2>3
<1>4. CASE OffGiveUp
  <2>1. lastRead' \in {0, 1}
    BY <1>4, Sample DEF OffGiveUp, ElseBranch, SecondSample
  <2> QED
    BY <1>4, <2>1 DEF OffGiveUp, ElseBranch, worldVars, buttonVars, offVars, histVars
<1>5. CASE OffRelease
  BY <1>5, ReleaseStep DEF OffRelease
<1>6. CASE OffSeen
  BY <1>6 DEF OffSeen, worldVars, buttonVars, offVars, histVars
<1>7. CASE OffRetry
  BY <1>7, Sample DEF OffRetry, worldVars, buttonVars, histVars
<1>8. CASE OffReport
  <2>1. alert' \in Alert /\ inProgress' \in BOOLEAN
    BY <1>8, Alerts, ProgressEnds DEF OffReport
  <2> QED
    BY <1>8, <2>1 DEF OffReport, worldVars, buttonVars, offVars, histVars, Action
<1> QED
  BY <1>1, <1>2, <1>3, <1>4, <1>5, <1>6, <1>7, <1>8 DEF PowerOff

\* The steps of a power-on keep it.
LEMMA PowerOnStep ==
    ASSUME PowerInv, PowerOn
    PROVE  PowerInv'
<1> USE DEF PowerInv, PowerTypeOK, PressInv, ReportInv, PollInv
<1>1. CASE OnPress
  BY <1>1 DEF OnPress, Hold, worldVars, offVars, histVars
<1>2. CASE OnRelease
  BY <1>2, ReleaseStep DEF OnRelease
<1>3. CASE OnReport
  <2>1. alert' \in Alert /\ inProgress' \in BOOLEAN
    BY <1>3, Alerts, ProgressEnds DEF OnReport
  <2> QED
    BY <1>3, <2>1, Sample DEF OnReport, worldVars, buttonVars, offVars, histVars, Action
<1> QED
  BY <1>1, <1>2, <1>3 DEF PowerOn

\* The steps of a soft power-off keep it.
LEMMA SoftOffStep ==
    ASSUME PowerInv, SoftOff
    PROVE  PowerInv'
<1> USE DEF PowerInv, PowerTypeOK, PressInv, ReportInv, PollInv
<1>1. CASE SoftPress
  BY <1>1 DEF SoftPress, worldVars, offVars, histVars
<1>2. CASE SoftRelease
  BY <1>2, ReleaseStep DEF SoftRelease
<1>3. CASE SoftReport
  <2>1. alert' \in Alert /\ inProgress' \in BOOLEAN
    BY <1>3, Alerts, ProgressEnds DEF SoftReport
  <2> QED
    BY <1>3, <2>1, Sample DEF SoftReport, worldVars, buttonVars, offVars, histVars, Action
<1> QED
  BY <1>1, <1>2, <1>3 DEF SoftOff

\* Every step keeps the invariant.
LEMMA NextInv ==
    ASSUME PowerInv, [PowerNext]_powerVars
    PROVE  PowerInv'
<1> USE DEF PowerInv, PowerTypeOK, PressInv, ReportInv, PollInv
<1>1. CASE \E action \in Action : Begin(action)
  BY <1>1, BeginStep
<1>2. CASE PowerOff
  BY <1>2, PowerOffStep
<1>3. CASE PowerOn
  BY <1>3, PowerOnStep
<1>4. CASE SoftOff
  BY <1>4, SoftOffStep
<1>5. CASE CycleWait
  BY <1>5, Sample DEF CycleWait, worldVars, buttonVars, offVars, histVars
<1>6. CASE CycleReport
  BY <1>6, Alerts DEF CycleReport, worldVars, buttonVars, offVars, histVars
<1>7. CASE ResetChassis
  BY <1>7, Alerts DEF ResetChassis, worldVars, buttonVars, offVars, histVars
<1>8. CASE HostChanges
  BY <1>8 DEF HostChanges, buttonVars, offVars, histVars
<1>9. CASE FlashMode
  BY <1>9 DEF FlashMode, buttonVars, offVars, histVars
<1>10. CASE UNCHANGED powerVars
  BY <1>10 DEF powerVars, worldVars, buttonVars, offVars, histVars
<1> QED
  BY <1>1, <1>2, <1>3, <1>4, <1>5, <1>6, <1>7, <1>8, <1>9, <1>10
  DEF PowerNext, Task

\* The invariant holds in every reachable state.
LEMMA InvHolds == PowerSpec => []PowerInv
<1>1. PowerInit => PowerInv
  BY InitInv
<1>2. PowerInv /\ [PowerNext]_powerVars => PowerInv'
  BY NextInv
<1> QED
  BY <1>1, <1>2, PTL DEF PowerSpec

-----------------------------------------------------------------------------
(* The theorems.                                                           *)

\* The state of the chassis power actions keeps its types: the press is never
\* longer than nine seconds and the loop retries at most seven times.
THEOREM PowerTypeCorrect == PowerSpec => []PowerTypeOK
<1>1. PowerInv => PowerTypeOK
  BY DEF PowerInv
<1> QED
  BY <1>1, InvHolds, PTL

\* PDK_PowerOffChassis presses the button at most seven times, whatever the host
\* does and however the samples of one pass contradict each other.
THEOREM SevenPressesAtMost == PowerSpec => []PressesBounded
<1>1. PowerInv => PressesBounded
  BY DEF PowerInv, PressInv, PressesBounded
<1> QED
  BY <1>1, InvHolds, PTL

\* A success that a power-off reports was seen, and a failure has cost six
\* presses, but for the contradicting samples that OffReportIsEarned names.
THEOREM OffReportsAreEarned == PowerSpec => OffReportIsEarned
<1> DEFINE Earned ==
      /\ alert # alert'
      /\ alert'[1] = "off"
      => IF alert'[2] = "PASS"
         THEN lastRead' = 0 \/ (delay > LastDelay /\ presses < 7)
         ELSE presses > ReportRetries \/ (op = "soft" /\ lastRead' = 1)
<1>1. ASSUME PowerInv, PowerNext PROVE Earned
  <2>1. CASE OffReport
    BY <1>1, <2>1 DEF OffReport, PowerInv, PowerTypeOK, PressInv, ReportInv
  <2>2. CASE SoftReport
    BY <1>1, <2>2, Sample DEF SoftReport, PowerInv, ReportInv
  <2>3. CASE \E action \in Action : Begin(action)
    BY <2>3 DEF Begin, NoAlert
  <2>4. CASE OnReport \/ CycleReport \/ ResetChassis
    BY <2>4 DEF OnReport, CycleReport, ResetChassis
  <2>5. CASE alert' = alert
    BY <2>5
  <2> QED
    BY <1>1, <2>1, <2>2, <2>3, <2>4, <2>5
    DEF PowerNext, Task, PowerOff, PowerOn, SoftOff, OffLoop, OffPress, OffPressLonger,
        OffGiveUp, OffRelease, OffSeen, OffRetry, OnPress, OnRelease, SoftPress,
        SoftRelease, Release, CycleWait, HostChanges, FlashMode
<1>2. PowerInv /\ [PowerNext]_powerVars => [Earned]_powerVars
  BY <1>1
<1> QED
  BY <1>2, InvHolds, PTL DEF PowerSpec, OffReportIsEarned

\* A power cycle presses to switch on only after a sample that showed the host
\* off or after its last poll.
THEOREM CyclesWaitForOff == PowerSpec => CycleWaitsForOff
<1> DEFINE Waited == pc = "cycle_wait" /\ pc' = "on_press" => lastRead' = 0 \/ polls' = -1
<1>1. ASSUME PowerInv, PowerNext, pc = "cycle_wait", pc' = "on_press"
      PROVE  lastRead' = 0 \/ polls' = -1
  <2>1. CycleWait
    BY <1>1
    DEF PowerNext, Task, PowerOff, PowerOn, SoftOff, OffLoop, OffPress, OffPressLonger,
        ElseBranch, OffGiveUp, OffRelease, OffSeen, OffRetry, OffReport, OnPress, OnRelease,
        OnReport, SoftPress, SoftRelease, SoftReport, CycleReport, ResetChassis,
        HostChanges, FlashMode, Begin, PowerInv, ReportInv
  <2> QED
    BY <1>1, <2>1, Sample DEF CycleWait, PowerInv, PowerTypeOK, PollInv
<1>2. PowerInv /\ [PowerNext]_powerVars => [Waited]_powerVars
  BY <1>1
<1> QED
  BY <1>2, InvHolds, PTL DEF PowerSpec, CycleWaitsForOff

-----------------------------------------------------------------------------
(* Actions that nothing disturbs.  While an action was not disturbed, the  *)
(* host is on exactly as long as every press was lost, and the length of   *)
(* the next press is a function of the presses: this is what makes the     *)
(* loop spend all its seven presses before it gives up.                    *)

OffPc == {"off_loop", "off_choose", "off_held", "off_check", "off_report", "off_report_flag"}
CyclePc == OffPc \cup {"cycle_wait", "on_press", "on_held", "on_report", "cycle_report"}

OpInv ==
    /\ op = "off" => pc \in OffPc
    /\ op = "cycle" => pc \in CyclePc
    /\ ignored \in Nat

Quiet == op \in {"off", "cycle"} /\ ~disturbed /\ ignored <= LostPresses

QuietInv ==
    Quiet =>
        /\ ~flashing
        /\ pc \in {"off_loop", "off_choose", "off_held", "off_check"} =>
              /\ presses <= ShortRetries => delay = FirstDelay
              /\ presses >= ShortRetries => delay = presses + FirstDelay - ShortRetries
        /\ pc \in {"off_loop", "off_check"} => host = "off" \/ ignored = presses
        /\ pc = "off_choose" => host = "on" /\ ignored = presses
        /\ pc = "off_held" => host = "on" /\ ignored + 1 = presses
        /\ pc \in {"off_report", "off_report_flag", "cycle_wait", "on_press", "on_held"} =>
              host = "off"
        /\ pc \in {"on_report", "cycle_report"} => host = "on"

\* A press that is lost is counted, as far as QuietOutcome looks at the count.
LEMMA IgnoredCounts ==
    ASSUME ignored \in Nat, CountTo(IgnoredCap, ignored) <= LostPresses
    PROVE  CountTo(IgnoredCap, ignored) = ignored + 1
BY DEF CountTo, IgnoredCap

\* A press that is released: it switched the host off, or it is counted as lost.
LEMMA QuietRelease ==
    ASSUME PowerInv, OpInv, QuietInv, NEW next, Release(next),
           \/ pc = "off_held" /\ next = "off_check"
           \/ pc = "on_held" /\ next = "on_report"
           \/ pc = "soft_held" /\ next = "soft_report"
    PROVE  OpInv' /\ QuietInv'
<1>1. /\ pc' = next /\ UNCHANGED <<op, presses, delay, retry, flashing>>
      /\ ignored' = IF host' = host THEN CountTo(IgnoredCap, ignored) ELSE ignored
      /\ ~disturbed' => ~disturbed /\ (next = "on_report" => host' # "off")
      /\ host \in {"on", "off"} /\ host' \in {"on", "off"}
  BY Outcome DEF Release, offVars, PowerInv, PowerTypeOK
<1>2. ignored' \in Nat /\ (ignored' <= LostPresses => ignored <= LostPresses)
  BY <1>1 DEF OpInv, CountTo, IgnoredCap
<1>3. OpInv'
  BY <1>1, <1>2 DEF OpInv, OffPc, CyclePc, PowerInv, ReportInv
<1>4. ASSUME Quiet' PROVE QuietInv'
  <2>1. op \in {"off", "cycle"} /\ ~disturbed /\ ignored' <= LostPresses
    BY <1>1, <1>4 DEF Quiet
  <2>2. Quiet
    BY <1>2, <2>1 DEF Quiet, OpInv
  <2>3. CASE pc = "off_held"
    <3>1. next = "off_check" /\ host = "on" /\ ignored + 1 = presses /\ ~flashing
      BY <2>2, <2>3 DEF QuietInv
    <3>2. host' = "on" => ignored' = ignored + 1
      BY <1>1, <2>1, <3>1, IgnoredCounts DEF OpInv
    <3>3. host' = "off" \/ ignored' = presses'
      BY <1>1, <3>1, <3>2
    <3> QED BY <1>1, <2>2, <2>3, <3>1, <3>3 DEF QuietInv
  <2>4. CASE pc = "on_held"
    <3>1. next = "on_report" /\ host' = "on" /\ ~flashing
      BY <1>1, <1>4, <2>2, <2>4 DEF Quiet, QuietInv
    <3> QED BY <1>1, <3>1 DEF QuietInv
  <2>5. CASE pc = "soft_held"
    BY <2>1, <2>5 DEF PowerInv, ReportInv
  <2> QED BY <2>3, <2>4, <2>5
<1> QED BY <1>3, <1>4 DEF QuietInv

\* The steps of the power-off.
LEMMA QuietOffStep ==
    ASSUME LostPresses <= 6, PowerInv, OpInv, QuietInv, PowerOff
    PROVE  OpInv' /\ QuietInv'
<1> USE DEF PowerInv, PowerTypeOK, PressInv, OpInv, OffPc, CyclePc
<1>1. CASE OffLoop
  BY <1>1 DEF OffLoop, QuietInv, Quiet, PDK_GetPSGood, worldVars, buttonVars, offVars, histVars
<1>2. CASE OffPress
  <2>1. presses < PressCap /\ presses' = presses + 1
    BY <1>2, CountToStep DEF OffPress
  <2> QED
    BY <1>2, <2>1 DEF OffPress, QuietInv, Quiet, Hold, worldVars, histVars
<1>3. CASE OffPressLonger
  <2>1. presses < PressCap /\ presses' = presses + 1
    BY <1>3, CountToStep DEF OffPressLonger, ElseBranch
  <2>2. Quiet => ~ (retry < ShortRetries)
    BY <1>3 DEF OffPressLonger, ElseBranch, QuietInv, PDK_GetPSGood
  <2>3. /\ pc = "off_choose" /\ pc' = "off_held" /\ delay' = delay + 1
        /\ UNCHANGED <<host, flashing, op, retry, ignored, disturbed>>
    BY <1>3 DEF OffPressLonger, ElseBranch, worldVars, histVars
  <2> QED
    BY <2>1, <2>2, <2>3 DEF QuietInv, Quiet
<1>4. CASE OffGiveUp
  <2>1. ~Quiet
    BY <1>4 DEF OffGiveUp, ElseBranch, QuietInv, Quiet
  <2> QED
    BY <1>4, <2>1 DEF OffGiveUp, ElseBranch, QuietInv, Quiet, histVars
<1>5. CASE OffRelease
  BY <1>5, QuietRelease DEF OffRelease
<1>6. CASE OffSeen
  BY <1>6 DEF OffSeen, QuietInv, Quiet, PDK_GetPSGood, worldVars, buttonVars, offVars, histVars
<1>7. CASE OffRetry
  BY <1>7 DEF OffRetry, QuietInv, Quiet, PDK_GetPSGood, worldVars, buttonVars, histVars
<1>8. CASE OffReport
  BY <1>8 DEF OffReport, QuietInv, Quiet, worldVars, buttonVars, offVars, histVars
<1> QED
  BY <1>1, <1>2, <1>3, <1>4, <1>5, <1>6, <1>7, <1>8 DEF PowerOff

\* Every step of the power actions and of the world.
LEMMA QuietStep ==
    ASSUME LostPresses <= 6, PowerInv, OpInv, QuietInv, [PowerNext]_powerVars
    PROVE  OpInv' /\ QuietInv'
<1> USE DEF PowerInv, PowerTypeOK, ReportInv, OpInv, OffPc, CyclePc
<1>1. ASSUME NEW action \in Action, Begin(action) PROVE OpInv' /\ QuietInv'
  BY <1>1 DEF Begin, First, Action, QuietInv, Quiet, worldVars
<1>2. CASE PowerOff
  BY <1>2, QuietOffStep
<1>3. CASE OnPress
  BY <1>3 DEF OnPress, QuietInv, Quiet, worldVars, offVars, histVars
<1>4. CASE OnRelease
  BY <1>4, QuietRelease DEF OnRelease
<1>5. CASE OnReport
  BY <1>5 DEF OnReport, QuietInv, Quiet, worldVars, buttonVars, offVars, histVars
<1>6. CASE SoftPress
  BY <1>6 DEF SoftPress, QuietInv, Quiet, worldVars, offVars, histVars
<1>7. CASE SoftRelease
  BY <1>7, QuietRelease DEF SoftRelease
<1>8. CASE SoftReport
  BY <1>8 DEF SoftReport, QuietInv, Quiet, worldVars, offVars, histVars
<1>9. CASE CycleWait
  BY <1>9 DEF CycleWait, QuietInv, Quiet, PDK_GetPSGood, worldVars, offVars, histVars
<1>10. CASE CycleReport
  BY <1>10 DEF CycleReport, QuietInv, Quiet, worldVars, offVars, histVars
<1>11. CASE ResetChassis
  BY <1>11 DEF ResetChassis, QuietInv, Quiet, worldVars, offVars, histVars
<1>12. CASE HostChanges
  BY <1>12 DEF HostChanges, QuietInv, Quiet, offVars
<1>13. CASE FlashMode
  BY <1>13 DEF FlashMode, QuietInv, Quiet, offVars
<1>14. CASE UNCHANGED powerVars
  BY <1>14 DEF powerVars, QuietInv, Quiet, worldVars, buttonVars, offVars
<1> QED
  BY <1>1, <1>2, <1>3, <1>4, <1>5, <1>6, <1>7, <1>8, <1>9, <1>10, <1>11, <1>12, <1>13, <1>14
  DEF PowerNext, Task, PowerOn, SoftOff

\* Up to six lost presses are made up for: an action that nothing disturbs ends
\* with the host off after a power-off, and on after a power cycle.
THEOREM QuietActionsSucceed ==
    ASSUME LostPresses <= 6
    PROVE  PowerSpec => QuietOutcome
<1> DEFINE Succeeds ==
      /\ op \in {"off", "cycle"} /\ op' = "none"
      /\ ~disturbed /\ ignored <= LostPresses
      => host' = IF op = "off" THEN "off" ELSE "on"
<1>1. PowerInit => OpInv /\ QuietInv
  BY DEF PowerInit, OpInv, QuietInv, Quiet
<1>2. PowerInv /\ OpInv /\ QuietInv /\ [PowerNext]_powerVars => OpInv' /\ QuietInv'
  BY QuietStep
<1>3. ASSUME PowerInv, OpInv, QuietInv, PowerNext PROVE Succeeds
  <2> SUFFICES ASSUME Quiet, op' = "none"
               PROVE  host' = IF op = "off" THEN "off" ELSE "on"
    BY DEF Quiet
  <2>1. OffReport \/ OnReport \/ CycleReport
    BY <1>3
    DEF PowerNext, Task, PowerOff, PowerOn, SoftOff, OffLoop, OffPress, OffPressLonger,
        OffGiveUp, OffRelease, OffSeen, OffRetry, OnPress, OnRelease, SoftPress, SoftRelease,
        SoftReport, Release, CycleWait, ResetChassis, HostChanges, FlashMode, Begin, Quiet,
        Action, OpInv, OffPc, CyclePc
  <2>2. CASE OffReport
    BY <1>3, <2>2 DEF OffReport, Quiet, QuietInv, worldVars
  <2>3. CASE OnReport
    BY <1>3, <2>3 DEF OnReport, Quiet, OpInv, OffPc
  <2>4. CASE CycleReport
    BY <1>3, <2>4 DEF CycleReport, Quiet, QuietInv, OpInv, OffPc, worldVars
  <2> QED BY <2>1, <2>2, <2>3, <2>4
<1>4. PowerInv /\ OpInv /\ QuietInv /\ [PowerNext]_powerVars => [Succeeds]_powerVars
  BY <1>3
<1> QED
  BY <1>1, <1>2, <1>4, InvHolds, PTL DEF PowerSpec, QuietOutcome
=============================================================================
