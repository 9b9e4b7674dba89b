-------------------------- MODULE FanControlProofs --------------------------
(***************************************************************************)
(* Theorems about the composition of the two tasks and the fan trays       *)
(* (FanControl), for every number of slots, sensors and files.             *)
(***************************************************************************)
EXTENDS FanControl, FscLoopProofs, AirflowProofs, TLAPS

-----------------------------------------------------------------------------
(* The registers.  The inductive invariant adds where the loop over the    *)
(* trays is: it starts at the first tray in every cycle, and only moves    *)
(* while the cycle applies its PWM.                                        *)

Expected(f) == CpldPWM(IF pc = "apply" /\ f < fan THEN pwm ELSE lastCommand)

RegisterInv ==
    /\ fan \in 1 .. NumFans + 1
    /\ pwmReg = [f \in Fan |-> pwmReg[f]]
    /\ pc # "apply" => fan = 1
    /\ \A f \in Fan \ (missed \cup dropped) : pwmReg[f] = Expected(f)

\* Fans are numbered from one.
LEMMA FanRange == Fan \subseteq Nat /\ \A f \in Fan : f >= 1 /\ f <= NumFans
BY NumFansAssumption DEF Fan

\* While the loop over the trays is not running, no tray has had its turn.
LEMMA NothingApplied ==
    ASSUME NEW f \in Fan, fan = 1
    PROVE  Expected(f) = CpldPWM(lastCommand)
BY FanRange DEF Expected

\* The steps of the fan control task and of its world outside "apply".
LEMMA ElsewhereKeeps ==
    ASSUME RegisterInv, pc # "apply",
           UNCHANGED <<pwmReg, fan, missed, dropped, lastCommand>>
    PROVE  RegisterInv'
<1>1. fan = 1 /\ fan' = 1
  BY DEF RegisterInv
<1>2. \A f \in Fan : Expected(f) = CpldPWM(lastCommand)
  BY <1>1, NothingApplied
<1>3. \A f \in Fan : Expected(f)' = CpldPWM(lastCommand)
  BY <1>1, FanRange DEF Expected
<1> QED BY <1>1, <1>2, <1>3 DEF RegisterInv

\* The steps that touch neither the registers nor what they should hold.
LEMMA SameRegisters ==
    ASSUME RegisterInv, UNCHANGED <<pwmReg, fan, missed, dropped, lastCommand, pc, pwm>>
    PROVE  RegisterInv'
BY DEF RegisterInv, Expected

\* A turn of a tray: it is missed or dropped, or its register follows the running
\* cycle.  No other register is touched.
Turn ==
    \/ /\ \/ pwmReg' = pwmReg
          \/ pwmReg' = [pwmReg EXCEPT ![fan] = CpldPWM(pwm)]
       /\ \/ missed' = missed \cup {fan} /\ dropped' = dropped \ {fan}
          \/ missed' = missed \ {fan} /\ dropped' = dropped \cup {fan}
    \/ /\ pwmReg' = [pwmReg EXCEPT ![fan] = CpldPWM(pwm)]
       /\ missed' = missed \ {fan} /\ dropped' = dropped \ {fan}

\* What the turns of FanTrays do is such a turn.
LEMMA TurnSteps ==
    ASSUME SetTray \/ FailToSetTray
    PROVE  /\ Turn /\ pc = "apply" /\ fan <= NumFans /\ fan' = fan + 1
           /\ UNCHANGED <<pc, pwm, lastCommand, tray, halLoaded, airflowVars>>
<1>1. CASE SetTray
  <2>1. CASE RefuseTray
    BY <1>1, <2>1 DEF SetTray, RefuseTray, TurnFailed, Turn, loopVars, localVars
  <2>2. CASE WriteTray(pwm)
    BY <1>1, <2>2 DEF SetTray, WriteTray, TurnSucceeded, Turn, loopVars, localVars
  <2> QED BY <1>1, <2>1, <2>2 DEF SetTray
<1>2. CASE FailToSetTray
  <2>1. CASE FailToWriteTray(pwm)
    BY <1>2, <2>1 DEF FailToSetTray, FailToWriteTray, TurnFailed, Turn, loopVars, localVars
  <2>2. CASE DropWrite
    BY <1>2, <2>2 DEF FailToSetTray, DropWrite, TurnSucceeded, Turn, loopVars, localVars
  <2> QED BY <1>2, <2>1, <2>2 DEF FailToSetTray
<1> QED BY <1>1, <1>2

\* And it keeps the registers on the command.
LEMMA TurnKeeps ==
    ASSUME RegisterInv, pc = "apply", fan <= NumFans,
           fan' = fan + 1, UNCHANGED <<pc, pwm, lastCommand>>, Turn
    PROVE  RegisterInv'
<1>1. /\ fan \in Fan /\ fan' \in 1 .. NumFans + 1
      /\ \A f \in Fan : f # fan => (f < fan + 1 <=> f < fan)
      /\ fan < fan + 1
  BY NumFansAssumption DEF RegisterInv, Fan
<1>2. /\ pwmReg' = [f \in Fan |-> pwmReg'[f]]
      /\ \A f \in Fan : f # fan => pwmReg'[f] = pwmReg[f]
  BY <1>1 DEF RegisterInv, Turn
<1>3. \A f \in Fan : f # fan => Expected(f)' = Expected(f)
  BY <1>1 DEF Expected
<1>4. ASSUME NEW f \in Fan, f \notin missed', f \notin dropped'
      PROVE  pwmReg'[f] = CpldPWM(IF pc' = "apply" /\ f < fan' THEN pwm' ELSE lastCommand')
  <2>1. CASE f = fan
    <3>1. pwmReg' = [pwmReg EXCEPT ![fan] = CpldPWM(pwm)]
      BY <1>4, <2>1 DEF Turn
    <3>2. pwmReg'[fan] = CpldPWM(pwm)
      BY <1>1, <3>1 DEF RegisterInv
    <3> QED BY <1>1, <2>1, <3>2
  <2>2. CASE f # fan
    <3>1. f \notin missed /\ f \notin dropped
      BY <1>4, <2>2 DEF Turn
    <3>2. pwmReg[f] = Expected(f)
      BY <3>1 DEF RegisterInv
    <3> QED BY <1>2, <1>3, <2>2, <3>2 DEF Expected
  <2> QED BY <2>1, <2>2
<1> QED BY <1>1, <1>2, <1>4 DEF RegisterInv, Expected

\* The end of a cycle: every tray has had its turn.
LEMMA EndKeeps ==
    ASSUME RegisterInv, EndCycle
    PROVE  RegisterInv'
<1>1. /\ fan > NumFans /\ fan' = 1 /\ lastCommand' = pwm
      /\ pc = "apply" /\ pc' = "idle"
      /\ UNCHANGED <<pwmReg, missed, dropped>>
  BY DEF EndCycle, FinishTrays, FinishCycle
<1>2. \A f \in Fan : f < fan
  BY <1>1, FanRange, NumFansAssumption DEF RegisterInv
<1>3. \A f \in Fan : Expected(f) = CpldPWM(pwm)
  BY <1>1, <1>2 DEF Expected
<1>4. \A f \in Fan : Expected(f)' = CpldPWM(pwm)
  BY <1>1 DEF Expected
<1>5. fan' \in 1 .. NumFans + 1
  BY <1>1, NumFansAssumption
<1> QED BY <1>1, <1>3, <1>4, <1>5 DEF RegisterInv

\* Every step of the chassis keeps the registers typed.
LEMMA NextRegisters == RegisterInv /\ [Next]_vars => RegisterInv'
<1> SUFFICES ASSUME RegisterInv, [Next]_vars PROVE RegisterInv'
  OBVIOUS
<1>1. ASSUME NEW r \in FileReads, BeginCycle(r)
      PROVE  RegisterInv'
  <2>1. pc = "idle" /\ UNCHANGED <<pwmReg, fan, missed, dropped, lastCommand>>
    BY <1>1 DEF BeginCycle, StartCycle, FailToInitialize, StartCycleUninitialized, trayVars
  <2> QED BY <2>1, ElsewhereKeeps
<1>2. CASE Scan
  <2>1. pc = "scan" /\ UNCHANGED <<pwmReg, fan, missed, dropped, lastCommand>>
    BY <1>2 DEF Scan, ScanSensor, ControlPid, ControlPolynomial, SkipDisabled, RejectProfile,
                Scanning, FinishScan, OverrunTables, trayVars
  <2> QED BY <2>1, ElsewhereKeeps
<1>3. CASE SetTray \/ FailToSetTray
  BY <1>3, TurnSteps, TurnKeeps
<1>4. CASE EndCycle
  BY <1>4, EndKeeps
<1>5. ASSUME NEW readable \in BOOLEAN, UpdateAirflow(readable)
      PROVE  RegisterInv'
  <2>1. UNCHANGED <<pwmReg, fan, missed, dropped, lastCommand, pc, pwm>>
    BY <1>5 DEF UpdateAirflow, UpdateFanAirflow, OEM_UpdateSystemAirflow, trayVars,
                loopVars, localVars
  <2> QED BY <2>1, SameRegisters
<1>6. ASSUME NEW n \in SensorNum, UpdateSensor(n)
      PROVE  RegisterInv'
  <2>1. UNCHANGED <<pwmReg, fan, missed, dropped, lastCommand, pc, pwm>>
    BY <1>6 DEF UpdateSensor, trayVars, loopVars, localVars
  <2> QED BY <2>1, SameRegisters
<1>7. ASSUME NEW f \in Fan, NEW kind \in TrayKind, HotSwap(f, kind)
      PROVE  RegisterInv'
  <2>1. UNCHANGED <<pwmReg, fan, missed, dropped, lastCommand, pc, pwm>>
    BY <1>7 DEF HotSwap, Swap, SwapTray, loopVars, localVars
  <2> QED BY <2>1, SameRegisters
<1>8. CASE LoadBus
  <2>1. UNCHANGED <<pwmReg, fan, missed, dropped, lastCommand, pc, pwm>>
    BY <1>8 DEF LoadBus, LoadHal, loopVars, localVars
  <2> QED BY <2>1, SameRegisters
<1>9. CASE UNCHANGED vars
  <2>1. UNCHANGED <<pwmReg, fan, missed, dropped, lastCommand, pc, pwm>>
    BY <1>9 DEF vars, trayVars, loopVars, localVars
  <2> QED BY <2>1, SameRegisters
<1> QED BY <1>1, <1>2, <1>3, <1>4, <1>5, <1>6, <1>7, <1>8, <1>9 DEF Next

\* The PWM register of every tray whose last turn answered 0, with the bus
\* functions loaded, holds the PWM of that turn, through every interleaving of the two tasks with swaps and failures.
THEOREM RegistersFollow == Spec => []RegistersFollowCommand
<1>1. Init => RegisterInv
  BY NumFansAssumption DEF Init, LoopInit, AirflowInit, TraysInit, RegisterInv
<1>2. RegisterInv /\ [Next]_vars => RegisterInv'
  BY NextRegisters
<1>3. RegisterInv => RegistersFollowCommand
  BY DEF RegisterInv, Expected, RegistersFollowCommand
<1> QED BY <1>1, <1>2, <1>3, PTL DEF Spec

-----------------------------------------------------------------------------
(* The two tasks in the composition.  What AirflowProofs shows of the      *)
(* monitoring task is kept by the steps of the fan control task too; with  *)
(* the direction in its range and the sensor records in theirs, every step *)
(* of the composition is one of FscLoop or leaves its variables alone.     *)

ChassisInv ==
    /\ LoopTypeOK /\ AirflowInv
    /\ sensor \in [SensorNum -> SensorState] /\ lastCommand \in INT8U

\* Whatever the duty, the register value fits its byte.
LEMMA DutyFits == ASSUME NEW duty \in INT8U PROVE CpldPWM(duty) \in 0 .. 255
<1>1. \A d \in 0 .. 100 : (d * 255) \div 100 \in 0 .. 255
  OBVIOUS
<1>2. (IF duty > 100 THEN 100 ELSE duty) \in 0 .. 100
  BY DEF INT8U
<1> QED BY <1>1, <1>2 DEF CpldPWM

\* What the scan sees of a sensor, also of a number that is no sensor.
LEMMA RecordSeen ==
    ASSUME ChassisInv, NEW n
    PROVE  API_GetSensorInfo(n) \in SensorInfo
<1>1. CASE n \in SensorNum
  BY <1>1, SensorStateAssumption DEF ChassisInv, API_GetSensorInfo
<1>2. CASE n \notin SensorNum
  <2>1. (CHOOSE r \in Reading : TRUE) \in Reading
    BY ReadingExists
  <2> QED BY <1>2, <2>1 DEF API_GetSensorInfo, SensorInfo
<1> QED BY <1>1, <1>2

\* The steps that leave the trays' directions and the monitoring task alone.
LEMMA ControlKeepsAirflow ==
    ASSUME AirflowInv, UNCHANGED <<airflowVars, tray>>,
           pwmReg' \in [Fan -> 0 .. 255], fan' \in 1 .. NumFans + 1,
           halLoaded' \in BOOLEAN, missed' \subseteq Fan, dropped' \subseteq Fan
    PROVE  AirflowInv'
<1>1. \A f \in Fan : TrayAirflow(f)' = TrayAirflow(f)
  BY DEF TrayAirflow
<1>2. TraysTypeOK'
  BY DEF AirflowInv, AirflowTypeOK, TraysTypeOK
<1>3. AirflowTypeOK'
  BY <1>2 DEF AirflowInv, AirflowTypeOK, airflowVars
<1>4. CacheIsRight'
  BY <1>1 DEF AirflowInv, CacheIsRight, Visited, airflowVars
<1> QED BY <1>3, <1>4 DEF AirflowInv, Decision, Count, airflowVars

\* A turn of a tray: its slot exists, and its register value fits.
LEMMA TurnType ==
    ASSUME ChassisInv, SetTray \/ FailToSetTray
    PROVE  /\ pwmReg' \in [Fan -> 0 .. 255] /\ fan' \in 1 .. NumFans + 1
           /\ halLoaded' \in BOOLEAN /\ missed' \subseteq Fan /\ dropped' \subseteq Fan
           /\ UNCHANGED <<airflowVars, tray>>
<1>1. /\ pwmReg \in [Fan -> 0 .. 255] /\ fan \in 1 .. NumFans + 1
      /\ halLoaded \in BOOLEAN /\ missed \subseteq Fan /\ dropped \subseteq Fan
      /\ pwm \in INT8U
  BY DEF ChassisInv, LoopTypeOK, AirflowInv, AirflowTypeOK, TraysTypeOK
<1>2. /\ fan <= NumFans /\ fan' = fan + 1 /\ UNCHANGED <<airflowVars, tray, halLoaded>>
      /\ Turn
  BY TurnSteps
<1>3. fan \in Fan /\ fan' \in 1 .. NumFans + 1
  BY <1>1, <1>2, NumFansAssumption DEF Fan
<1>4. CpldPWM(pwm) \in 0 .. 255
  BY <1>1, DutyFits
<1> QED BY <1>1, <1>2, <1>3, <1>4 DEF Turn

\* Every step of the composition is a step of the fan control task on a
\* direction and a sensor record that FscLoop allows, or none of it.
LEMMA LoopStep == ChassisInv /\ [Next]_vars => [LoopNext]_loopVars
<1> SUFFICES ASSUME ChassisInv, [Next]_vars PROVE [LoopNext]_loopVars
  OBVIOUS
<1>1. systemAirflow \in KnownAirflow
  BY AirflowDomainAssumption DEF ChassisInv, AirflowInv, AirflowTypeOK
<1>2. ASSUME NEW r \in FileReads, BeginCycle(r) PROVE LoopNext
  BY <1>1, <1>2 DEF BeginCycle, LoopNext
<1>3. CASE Scan
  BY <1>3, RecordSeen DEF Scan, LoopNext
<1>4. CASE EndCycle
  BY <1>4 DEF EndCycle, LoopNext
<1>5. CASE SetTray \/ FailToSetTray
  BY <1>5 DEF SetTray, FailToSetTray
<1>6. ASSUME NEW readable \in BOOLEAN, UpdateAirflow(readable) PROVE UNCHANGED loopVars
  BY <1>6 DEF UpdateAirflow
<1>7. ASSUME NEW n \in SensorNum, UpdateSensor(n) PROVE UNCHANGED loopVars
  BY <1>7 DEF UpdateSensor
<1>8. ASSUME NEW f \in Fan, NEW kind \in TrayKind, HotSwap(f, kind) PROVE UNCHANGED loopVars
  BY <1>8 DEF HotSwap
<1>9. CASE LoadBus
  BY <1>9 DEF LoadBus
<1>10. CASE UNCHANGED vars
  BY <1>10 DEF vars
<1> QED BY <1>2, <1>3, <1>4, <1>5, <1>6, <1>7, <1>8, <1>9, <1>10 DEF Next

\* Every step of the composition keeps the invariant of the monitoring task.
LEMMA AirflowStep == ChassisInv /\ [Next]_vars => AirflowInv'
<1> SUFFICES ASSUME ChassisInv, [Next]_vars PROVE AirflowInv'
  OBVIOUS
<1>1. /\ AirflowInv /\ pwmReg \in [Fan -> 0 .. 255] /\ fan \in 1 .. NumFans + 1
      /\ halLoaded \in BOOLEAN /\ missed \subseteq Fan /\ dropped \subseteq Fan
  BY DEF ChassisInv, AirflowInv, AirflowTypeOK, TraysTypeOK
<1>2. ASSUME UNCHANGED <<trayVars, airflowVars>> PROVE AirflowInv'
  BY <1>1, <1>2, ControlKeepsAirflow DEF trayVars
<1>3. ASSUME NEW r \in FileReads, BeginCycle(r) PROVE AirflowInv'
  BY <1>2, <1>3 DEF BeginCycle
<1>4. CASE Scan
  BY <1>2, <1>4 DEF Scan
<1>5. CASE SetTray \/ FailToSetTray
  BY <1>1, <1>5, TurnType, ControlKeepsAirflow
<1>6. CASE EndCycle
  <2>1. fan' = 1 /\ UNCHANGED <<pwmReg, halLoaded, missed, dropped, tray, airflowVars>>
    BY <1>6 DEF EndCycle, FinishTrays
  <2>2. fan' \in 1 .. NumFans + 1
    BY <2>1, NumFansAssumption
  <2> QED BY <1>1, <2>1, <2>2, ControlKeepsAirflow
<1>7. ASSUME NEW readable \in BOOLEAN, UpdateAirflow(readable) PROVE AirflowInv'
  <2>1. AirflowNext
    BY <1>7 DEF UpdateAirflow, AirflowNext, Monitor
  <2> QED BY <1>1, <2>1, NextAirflow
<1>8. ASSUME NEW f \in Fan, NEW kind \in TrayKind, HotSwap(f, kind) PROVE AirflowInv'
  <2>1. AirflowNext
    BY <1>8 DEF HotSwap, AirflowNext
  <2> QED BY <1>1, <2>1, NextAirflow
<1>9. ASSUME NEW n \in SensorNum, UpdateSensor(n) PROVE AirflowInv'
  BY <1>2, <1>9 DEF UpdateSensor
<1>10. CASE LoadBus
  <2>1. halLoaded' = TRUE /\ UNCHANGED <<pwmReg, fan, missed, dropped, tray, airflowVars>>
    BY <1>10 DEF LoadBus, LoadHal
  <2> QED BY <1>1, <2>1, ControlKeepsAirflow
<1>11. CASE UNCHANGED vars
  BY <1>2, <1>11 DEF vars
<1> QED BY <1>3, <1>4, <1>5, <1>6, <1>7, <1>8, <1>9, <1>10, <1>11 DEF Next

\* Every step of the chassis keeps the invariants of its parts together.
LEMMA ChassisStep == ChassisInv /\ [Next]_vars => ChassisInv'
<1> SUFFICES ASSUME ChassisInv, [Next]_vars PROVE ChassisInv'
  OBVIOUS
<1>1. LoopTypeOK'
  BY LoopStep, NextType DEF ChassisInv
<1>2. AirflowInv'
  BY AirflowStep
<1>3. sensor' \in [SensorNum -> SensorState]
  <2>1. CASE \E n \in SensorNum : UpdateSensor(n)
    BY <2>1 DEF UpdateSensor, ChassisInv
  <2>2. CASE UNCHANGED sensor
    BY <2>2 DEF ChassisInv
  <2>3. (\E n \in SensorNum : UpdateSensor(n)) \/ UNCHANGED sensor
    BY DEF Next, vars, BeginCycle, Scan, SetTray, FailToSetTray, EndCycle, UpdateAirflow, HotSwap,
           LoadBus
  <2> QED BY <2>1, <2>2, <2>3
<1>4. lastCommand' \in INT8U
  <2>1. lastCommand' = lastCommand \/ lastCommand' = pwm
    BY DEF Next, vars, BeginCycle, Scan, SetTray, FailToSetTray, EndCycle, UpdateAirflow,
           UpdateSensor, HotSwap, LoadBus
  <2> QED BY <2>1 DEF ChassisInv, LoopTypeOK
<1> QED BY <1>1, <1>2, <1>3, <1>4 DEF ChassisInv

\* The chassis starts with zeroed tables and unread trays.
LEMMA InitChassis == Init => ChassisInv
<1>1. Init => LoopTypeOK
  BY InitType DEF Init
<1>2. Init => AirflowInv
  BY InitAirflow DEF Init
<1>3. Init => lastCommand \in INT8U
  BY PowerOnAssumption DEF Init, INT8U
<1> QED BY <1>1, <1>2, <1>3 DEF Init, ChassisInv

\* The invariants of both tasks hold through all their interleavings.
LEMMA ChassisInvariant == Spec => []ChassisInv
<1>1. Init => ChassisInv
  BY InitChassis
<1>2. ChassisInv /\ [Next]_vars => ChassisInv'
  BY ChassisStep
<1> QED BY <1>1, <1>2, PTL DEF Spec

\* The tables, the registers, the records and the cursors stay in the ranges of
\* the code's types, through every interleaving of the two tasks.
THEOREM ChassisTypes == Spec => []TypeOK
<1>1. ChassisInv => TypeOK
  BY DEF ChassisInv, AirflowInv, TypeOK
<1> QED BY ChassisInvariant, <1>1, PTL

\* The composition implements the specification of the fan control task alone:
\* what the other task does to the airflow and the records between its steps is
\* no more than FscLoop allows, so its theorems hold of the whole chassis.
THEOREM ControlTaskInChassis == Spec => LoopSpec
<1>1. Init => LoopInit
  BY DEF Init
<1>2. ChassisInv /\ [Next]_vars => [LoopNext]_loopVars
  BY LoopStep
<1> QED BY ChassisInvariant, <1>1, <1>2, PTL DEF Spec, LoopSpec

\* The airflow that the fan control task reads, at any of its steps, is that of a
\* majority of the trays once it was determined, while the task moves the fans.
THEOREM MajorityDecidesInChassis == Spec => []MajorityRules
<1>1. ChassisInv => AirflowInv
  BY DEF ChassisInv
<1> QED BY ChassisInvariant, <1>1, InvMajority, PTL

\* What was proved of each task alone holds of the chassis: the other task, the
\* swaps and the sensors do not come between its steps in a way that it does not
\* already allow for.
THEOREM ChassisKeepsPromises ==
    Spec => /\ [](/\ OutputIsHighestDemand /\ CommandWithinLimits
                  /\ OverrunNeedsFailure /\ DirectionIsJustified)
            /\ FloorHeld /\ RateRespected
<1>1. ChassisInv => AirflowInv
  BY DEF ChassisInv
<1> QED BY ControlTaskInChassis, HighestDemandWins, LimitsHold, OverrunsNeedFailure,
           FloorIsHeld, RatesHold, ChassisInvariant, InvJustified, <1>1, PTL

-----------------------------------------------------------------------------
(* From the files to the fans.  The limits of the files bound the command, *)
(* the command of a cycle is what a register is written with, and what the *)
(* register holds is rounded down.                                         *)

FanLimitsInv ==
    /\ ChassisInv
    /\ NoFanBeyondLimits

RegisterWithinLimits(value) == \E l \in Limits : value * 100 <= l * 255

\* A register is never more than its share of 255.
LEMMA DutyIsShare ==
    ASSUME NEW duty \in Nat
    PROVE  CpldPWM(duty) * 100 <= duty * 255
<1> DEFINE cap == IF duty > 100 THEN 100 ELSE duty
<1>1. \A n \in Nat : (n \div 100) * 100 <= n
  OBVIOUS
<1>2. cap * 255 \in Nat /\ cap * 255 <= duty * 255
  OBVIOUS
<1>3. CpldPWM(duty) = (cap * 255) \div 100
  BY DEF CpldPWM
<1> HIDE DEF cap
<1> DEFINE n == cap * 255
<1>4. n \in Nat /\ n <= duty * 255 /\ CpldPWM(duty) = n \div 100
  BY <1>2, <1>3
<1> HIDE DEF n
<1>5. (n \div 100) * 100 <= n /\ (n \div 100) * 100 \in Int
  BY <1>1, <1>4
<1>6. duty * 255 \in Int
  OBVIOUS
<1> QED BY <1>4, <1>5, <1>6

\* A command within the limits is a register value within the limits.
LEMMA CommandToRegister ==
    ASSUME NEW duty \in INT8U, WithinLimits(duty)
    PROVE  RegisterWithinLimits(CpldPWM(duty))
<1>1. PICK l \in Limits : duty <= l
  BY DEF WithinLimits
<1>2. duty \in Nat /\ l \in Nat /\ duty * 255 <= l * 255
  BY <1>1, LimitsAreBytes DEF INT8U
<1>3. CpldPWM(duty) * 100 <= duty * 255
  BY <1>2, DutyIsShare
<1>4. CpldPWM(duty) \in Int
  BY DutyFits
<1>5. CpldPWM(duty) * 100 <= l * 255
  BY <1>2, <1>3, <1>4
<1> QED BY <1>5 DEF RegisterWithinLimits

\* Only a turn of a tray writes a register, and it writes the command.
LEMMA FanLimitsStep ==
    ASSUME FanLimitsInv, CommandWithinLimits, [Next]_vars
    PROVE  FanLimitsInv'
<1>1. ChassisInv'
  BY ChassisStep DEF FanLimitsInv
<1>2. CASE pwmReg' = pwmReg
  BY <1>1, <1>2 DEF FanLimitsInv, NoFanBeyondLimits, RegisterWithinLimits, Limits
<1>3. CASE pwmReg' = [pwmReg EXCEPT ![fan] = CpldPWM(pwm)]
  <2>1. pwm \in INT8U /\ pwmReg \in [Fan -> 0 .. 255]
    BY DEF FanLimitsInv, ChassisInv, LoopTypeOK, AirflowInv, AirflowTypeOK, TraysTypeOK
  <2>2. RegisterWithinLimits(CpldPWM(pwm))
    BY <2>1, CommandToRegister DEF CommandWithinLimits
  <2>3. \A f \in Fan : pwmReg'[f] = pwmReg[f] \/ pwmReg'[f] = CpldPWM(pwm)
    BY <1>3, <2>1
  <2>4. NoFanBeyondLimits'
    BY <2>2, <2>3 DEF FanLimitsInv, NoFanBeyondLimits, RegisterWithinLimits, Limits
  <2> QED BY <1>1, <2>4 DEF FanLimitsInv
<1>4. pwmReg' = pwmReg \/ pwmReg' = [pwmReg EXCEPT ![fan] = CpldPWM(pwm)]
  <2>1. CASE SetTray \/ FailToSetTray
    BY <2>1, TurnSteps DEF Turn
  <2>2. CASE ~ (SetTray \/ FailToSetTray)
    BY <2>2 DEF Next, vars, trayVars, BeginCycle, Scan, EndCycle, FinishTrays, UpdateAirflow,
           UpdateFanAirflow, OEM_UpdateSystemAirflow, UpdateSensor, HotSwap, Swap, SwapTray,
           LoadBus, LoadHal
  <2> QED BY <2>1, <2>2
<1> QED BY <1>2, <1>3, <1>4

\* From the configuration files to the registers of the CPLD, through partial
\* parses, changes of airflow, the history of the slots, swaps and failed writes:
\* no fan is driven beyond the highest limit that a file states.
THEOREM NoFanIsDrivenBeyondLimits == Spec => []NoFanBeyondLimits
<1>1. Init => FanLimitsInv
  <2>1. Init => NoFanBeyondLimits
    BY DEF Init, AirflowInit, TraysInit, NoFanBeyondLimits
  <2> QED BY <2>1, InitChassis DEF FanLimitsInv
<1>2. FanLimitsInv /\ CommandWithinLimits /\ [Next]_vars => FanLimitsInv'
  BY FanLimitsStep
<1>3. FanLimitsInv => NoFanBeyondLimits
  BY DEF FanLimitsInv
<1> QED BY <1>1, <1>2, <1>3, ControlTaskInChassis, LimitsHold, PTL DEF Spec
=============================================================================
