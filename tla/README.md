# FSC: a TLA+ development of the fan speed control and its platform code

This directory holds TLA+ specifications, TLC model-checking configurations and
TLAPS proofs for the BMC platform code in `src/`: the FSC (Fan Speed Control)
library of a network switch and the platform hooks around it. `src/` has two
halves:

* `src/libthermalmgr_dell-src/data/` – the thermal manager: control
  algorithms, configuration parser, control loop ("A/" below).
* `src/libipmipdk-ARM-AST2600-AST2600EVB-AMI-src/data/` – the platform kit:
  fan trays, CPLD access, system information, LEDs, power, GPIO and sensor hooks
  ("B/" below).

All claims below are about the code in `src/`; where a comment or a message of
the code says something else, the difference is recorded as a finding.

## 1. Inventory

| Component | State it keeps | Operations | Talks to |
|---|---|---|---|
| Control algorithms (A/fsc_core.c) | per sensor: `CurrentTemp`, `LastTemp`, `LastLastTemp`, `LastPWM`, `CurrentPWM`, `Present` | `FSCGetPWMValue_PID`, `FSCGetPWMValue_Polynomial`, `FSCGetPWMValue`, `FSCGetAmbientTemperature` | called once per profile and cycle by the loop |
| Configuration parser (A/fsc_parser.c) | writes `g_FscSystemInfo`, `g_FscProfileInfo`, field by field | `ParseDebugVerboseFromJson`, `ParseSystemInfoFromJson`, `ParseFSCProfileFromJson`, `ConvertcJSONToValue`, `ReadFileToString` | reads one JSON file per airflow direction |
| Fan control task (A/fsc_loop.c) | static `init_flag`, the sensor slots | `FSCInitialize`, `FSCUpdateOutputPWM`, `FanControlLoop` | reads `systemAirflow` and the sensor records, writes the trays |
| Fan trays (B/OEMFAN.c, B/OEMPLD.c) | presence bits and PWM registers in the fan board CPLD | `OEM_GetFanTrayPresent`, `OEM_SetFanTrayPWM`, `OEM_SetAllFanTraysPWM`, airflow and speed reads | called by the loop (write) and the monitor (read) |
| System airflow (B/OEMSysInfo.c) | `g_SystemInfo.globalFanInfo[].airflow`, `systemAirflow` | `OEM_UpdateFansAirflow`, `OEM_UpdateSystemAirflow`, `OEM_InitSysInfo` | called by `PDK_PostMonitorAllSensors` |
| Chassis power (B/PDKHW.c 302-795) | none of its own: the button's GPIO, `PS_GOOD` and `PowerActionInProgress` | power on, off, soft off, cycle, reset, AC and PS-good queries | called by the IPMI chassis commands; the host answers when it likes |
| Serial and EMP multiplexing (B/PDKHW.c 807-1073) | static last mux setting | `PDK_SwitchEMPMux` | SOL and serial sessions |
| LEDs (B/OEMLED.c, B/OEMPLD.c) | CPLD LED registers, `g_LEDTestMode` | per-LED get/set, pattern get/set | OEM commands |
| Sensor hooks (B/PDKHooks.c, B/PDKSensor.c) | static sample buffer, the hooked sensors' readings | averaging, fan presence and speed, monitoring hooks | sensor monitoring task |
| GPIO interrupts (B/PDKInt.c) | registration table, file descriptors | registration, interrupt lookup, handlers | interrupt task |
| FRU, EEPROM, TLV (B/PDKFRU.c, B/OEMFRU.c, B/PDKEEPROM.c) | EEPROM contents, the areas of the FRU devices | `PDK_ReadFRUData`, `PDK_WriteFRUData`, `RWEEPROM` page by page, conversion of Dell's TLV format, `InitMultiRecord` | FRU commands |
| Alerts (B/PDKAlert.c) | SMTP settings and the server flag of a mail | `PDK_Alert`, `PDK_FrameAndSendMail` | platform event filtering, two SMTP servers |
| Post codes (B/PDKHooks.c 418-429, 961-999) | `g_pdkSnoopCounter`, `g_pdkSnoopFlag` | `PDK_TimerTask`, `PDK_LPCReset` | message handler (once a second), core (on a reset) |
| Ambient calibration (A/fsc_parser.c 80-129, 139-326, A/fsc_core.c 105-180) | `g_AmbientCalibration` | `ParseAmbientCalibrationFromJson`, `FSCGetAmbientTemperature` | nothing calls the parser |
| SEL, SDR and command hooks (B/PDKSEL.c, PDKSDR.c, PDKHooks.c) | none | callbacks that return a default | IPMI stack |

How the parts interact. Two tasks run forever and share memory without a lock:

* the **fan control task** calls `FanControlLoop`: read `systemAirflow`, choose a
  configuration file, parse it, scan the profiles (one sensor record each), take
  the maximum PWM, write every tray;
* the **sensor monitoring task** updates the sensor records and, after each round,
  `PDK_PostMonitorAllSensors` reads the direction of each tray's EEPROM and decides
  `systemAirflow`.

Trays are hot-swappable; every I2C access can fail on its own.

Apart from them, and sharing nothing with them, the command handlers of the IPMI
stack run one at a time: the chassis task presses the host's buttons and samples
`PS_GOOD`, the FRU commands move data to and from EEPROMs in pages, and LED commands,
mails and mux requests run to their end. What they share with the world is what
makes them hard: the hardware they read, and callbacks that come in between (a reset
of the LPC bus during the timer task, an interrupt during registration).

What is hard about it, and where (`PROJECT.json` "hazards" gives lines):

* *partial failure*: a parser stops at the first bad key and keeps what it wrote;
  a failed initialisation is recorded in a flag whose sense is inverted, so the
  task goes on with what the failure left; one profile of an unknown type ends the
  scan and zero is commanded; a failed tray write is recorded and ignored, and one
  before the bus functions are loaded is not even a failure; a route of the serial
  mux that could not be set is remembered as set;
* *stale state*: the slot histories survive a change of file, of algorithm and of
  limits; a disabled sensor takes over the value of the profile before it;
* *interleaving*: the direction, the trays and the sensor records change in the
  middle of a cycle, of a round over the trays and of a round of writes;
* *numeric edges*: float, 16-bit and 8-bit arithmetic are mixed, the target of a curve
  and its difference to the last demand are narrowed to 16 bits, a curve may count more
  points than its table has, `TotalProfileNum` is a byte that is stored before it is
  checked;
* *samples of a world that moves*: the chassis task decides on two samples of
  `PS_GOOD` taken one after the other, sleeps with the button held, and reports from
  a retry count; a FRU can be swapped between two pages of one read, a fan tray
  between its presence and its speed;
* *what a static remembers*: the direction of the mux that ends a request early, one
  sample buffer for all averaged sensors, a server flag that an earlier pass over
  the users has set, two globals of the post codes that two callers write;
* *liveness*: heat must end in full speed, the direction must follow the trays,
  every power action must come to its end.

What makes each component correct:

| Component | Properties |
|---|---|
| Algorithms | a result stays between floor and ceiling, except for a distrusted reading; rates are respected, up to where INT16S wraps |
| Parser | an accepted file is the configuration, whatever was there before; a rejected one does not make the loop leave its tables |
| Control task | the command is the highest demand of the sensors that are present; commands stay within the files' limits |
| Trays | a register whose last turn answered 0, with the bus functions loaded, holds the command of that turn |
| Airflow | a majority of undisturbed trays decides; the decision is stable and settles |
| All together | sustained heat drives every present tray to full speed |
| Chassis power | a report was earned by samples and presses; the button is not pressed without end; lost presses are made up for |
| FRU access | every byte goes where it belongs, and success means all of them, if the FRU is an EEPROM |
| Serial mux | the routes are those of the direction that is remembered, except for the ports that SOL took and those whose last call of the router failed; SOL outlives requests for the host |
| LEDs | what was set with success is read back until somebody else writes the register |
| Sensor hooks | a counted reading is that of a present rotor; an average is that of the last samples |
| GPIO interrupts | an interrupt that is polled reaches the handler of its own row |
| Alerts | a mail goes to the user of the alert, and "no connection" says which servers were tried |
| FRU records | the areas that one call places lie in order and do not overlap, for distinct ids and as long as no offset wraps |
| Post codes | the flag says that the codes of this boot were read |
| Ambient calibration | a missing key fails the parse (it does not: section 6); an interpolated delta lies between its points |

## 2. Modules

| Module | Models | Kind |
|---|---|---|
| `FscCore` | A/fsc_core.c | operators on one slot |
| `FscConfig` | A/fsc_parser.c, file choice and order of `FSCInitialize` | operators on the configuration |
| `FscLoop` | A/fsc_loop.c | state machine of the fan control task |
| `MaxDemand` | – | abstract: a cycle collects demands and commands the highest |
| `FanTrays` | B/OEMFAN.c, B/OEMPLD.c | trays and their registers, actions without a Next |
| `Airflow` | B/OEMSysInfo.c, `PDK_PostMonitorAllSensors` | state machine of the monitoring task and hot swaps |
| `FanControl` | – | composes `FscLoop`, `FanTrays` and `Airflow` |
| `ChassisPower` | B/PDKHW.c 315-663, 770-795 | state machine of the power actions, a host and a flash mode that do as they like |
| `FruAccess` | B/PDKFRU.c 168-405, B/PDKEEPROM.c, the outcome of the conversion in B/OEMFRU.c | state machine of one FRU command, I2C failures and swaps |
| `FruRecords` | `InitMultiRecord` of B/PDKFRU.c | state machine of the walk over the multi records of a FRU |
| `SerialMux` | `PDK_SwitchEMPMux` of B/PDKHW.c, its four builds | state machine of the UART routes |
| `Leds` | B/OEMLED.c on `OEM_ReadWritePLD` of B/OEMPLD.c | state machine of the LED registers and commands |
| `FanSensors` | B/PDKSensor.c, `OEM_GetFanTrayRPM` | state machine of the fan speed sensors, trays that come and go |
| `SensorAverage` | `PDK_SensorAverage` of B/PDKHooks.c | state machine of the shared sample buffer |
| `GpioInterrupts` | B/PDKInt.c | state machine of registration, polling and handling |
| `AlertMail` | B/PDKAlert.c | state machine of the mail of an alert |
| `PostCodes` | `PDK_TimerTask`, `PDK_LPCReset` of B/PDKHooks.c | two callers that interleave by single accesses of the globals |
| `Calibration` | `ParseAmbientCalibrationFromJson`, `ConvertcJSONToValue`, `FSCGetAmbientTemperature` | parser key by key; the three ways of interpolation |
| `MCFscLoop`, `MCAirflow`, `MCFanControl`, `MCFruAccess`, `MCBoard` | – | instances for TLC |
| `FscCoreProofs`, `FscLoopProofs`, `AirflowProofs`, `FanControlProofs`, `ChassisPowerProofs`, `FruAccessProofs`, `BoardProofs`, `MCBoardProofs` | – | lemmas and theorems |

`FscCore <- FscConfig <- FscLoop <- FanControl` and `FanTrays <- Airflow <- FanControl`
by EXTENDS; `FscLoop` instantiates `MaxDemand` under a refinement mapping.
`ChassisPower` stands alone, as its code does. So do `FruAccess` and the nine modules
after it; `MCBoard` puts these ten in one specification. They share no variable and
none calls another, so that a behaviour of one is not changed by the others: each
behaviour of `MCBoard` moves one of them (`part`) and leaves the others in an initial
state.

### How state and actions correspond to the code

**Slot** (`FSCTempSensor`). The record of `FscCore!Slot` keeps the fields that
survive a cycle. `MinPWM`, `MaxPWM`, `Algorithm` and the parameters are copied
from the configuration at the start of every pass before anything reads them
(fsc_loop.c:103-133), so they are arguments of the operators instead. Floats are
integers in thousandths (`SCALE`); where the code stores one in an INT16S, as the target of
a polynomial and the difference that is compared with a rate, the model wraps too
(`FloatToINT16S`, `Narrowed`). The PID law, its clamps and the final rounding
are `FSCGetPWMValue_PID`; curve, hysteresis, rate limit, clamps, the dirty-reading
filter are `FSCGetPWMValue_Polynomial` and the operators before it. The order of the two
clamps is that of the code: the floor has the last word.

**Configuration.** A file is a record of the values its keys convert to, and the
number of values written before the first key in error; `FscConfig!ParseItem`
keeps the old value of every field that the parse did not reach. The coefficients and
the points of a curve are counted one by one (`CurveFields`), so that a parse may stop
among them and leave a mixture. Nothing is assumed about points: they may be equal or
unsorted, and `PointCount` may be more than the table has. Then the code's search reads
on behind the table, and its result is any byte (`BeyondTable`). A curve type that the
parser does not know reads neither coefficients nor points. `reads` says how
many of the three reads of the file succeed.

**Cycle.** `pc` is "idle" between calls of `FanControlLoop`, "scan" inside
`FSCUpdateOutputPWM`, "apply" from its return to the return of
`OEM_SetAllFanTraysPWM`, and "undefined" after an index outside the tables.

| Action | Code |
|---|---|
| `StartCycle`, `FailToInitialize`, `StartCycleUninitialized` | fsc_loop.c:169-185: the three ways through the initialisation |
| `ControlPid`, `ControlPolynomial`, `SkipDisabled`, `RejectProfile` | one pass of the loop of `FSCUpdateOutputPWM` with the algorithm it calls |
| `FinishScan`, `OverrunTables` | the loop condition |
| `FinishCycle` | return from `FanControlLoop` |
| `RefuseTray`, `WriteTray`, `FailToWriteTray`, `DropWrite`, `FinishTrays` | one pass of the loop of `OEM_SetAllFanTraysPWM`: refused, written, failed with or without effect, answered with 0 and not written |
| `UpdateFanAirflow`, `OEM_UpdateSystemAirflow` | the monitoring hook |
| `SwapTray`, `UpdateSensor` | the world |
| `LoadHal` (`LoadBus` in `FanControl`) | the stack loads the bus functions, at any time |

The initialisation is one step because only the fan control task uses what it
writes; the scan is one step per profile and the tray writes are one per tray
because other tasks change what those read. The history variables
`missed` (trays whose last turn did not answer 0), `dropped` (those whose last turn answered
0 and wrote nothing), `disturbed` and `lastCommand` serve properties only: no guard
reads them.

**Chassis power.** `pc` names the place in the running function and `op` the
function that was called. A sample and a press are separate steps, and so are
pressing and releasing: `HostChanges` and `FlashMode` come in between. `retry`,
`delay` and `polls` are the locals of the code.

| Action | Code |
|---|---|
| `OffLoop` | PDKHW.c:454, the sample of the loop condition |
| `OffPress`, `OffPressLonger`, `OffGiveUp` | 456-473, with the second sample of `SecondSample` |
| `OffSeen`, `OffRetry`, `OffReport` | 474-480, 483-523 |
| `OnPress`, `OnRelease`, `OnReport` | `PDK_PowerOnChassis` |
| `SoftPress`, `SoftRelease`, `SoftReport` | `PDK_SoftOffChassis`, which does not set the direction of the pin (`driven`) |
| `CycleWait`, `CycleReport` | 610-619, 622-636 of `PDK_PowerCycleChassis`; it runs the off and on actions in between |
| `ResetChassis` | `PDK_ResetChassis` |

Alerts are on in the model, which is where the results can be seen; whether
`PowerActionInProgress` is cleared depends on the constant `SsiSupport` (`EndProgress`).
`presses`, `ignored`, `disturbed` and `lastRead` (as far as it is not read in
`SecondSample`) are histories for the properties, with named caps.

**FRU access.** One command at a time. `Refusal` is the order of the checks,
`Accept` the call of `ReadWriteEEPROM`, and `WriteChunk`, `ReadChunk` or `ReadVpd`
one pass of the loop of `RWEEPROM`. The EEPROM is modelled as the parts are
documented to behave: a write wraps in its page, a read goes on. Contents are
names: `mem` says which byte of the request an address holds, and a byte that was
read says from which unit and address. TLV EEPROMs are valid, invalid, or lack a
field that the conversion needs. A transfer of a write that fails may have left the first
bytes of its chunk in the EEPROM (`FailToWrite`). A FRU of a type that the code does not
support is answered with success and no byte (`AcceptUnsupported`). `FruRecords` walks one header
per step; an id beyond those that were passed is any id (`va_arg` past its arguments), a
header that cannot be read stays the one before, the one-byte count wraps, and so do the
16-bit offsets. Nothing in the repository calls `InitMultiRecord`: the caller of the
model passes any ids, also one twice, and calls again, upon which the code adds to the
offsets of the call before. The history `orderly` tells the calls for which the property speaks.

**The board's other components.** A step is a whole call where nothing else can run
in it, and one access of the shared state where something can.

| Module | Action | Code |
|---|---|---|
| `SerialMux` | `PDK_SwitchEMPMux(dir)` | the whole call: the early returns, `Routes` of the build, what is remembered; every call of `lpcuart_route_set` may fail, with or without effect (`SetRoutes`) |
| `Leds` | `GetLEDPatterns`, `SetLEDPatterns` | one command on one LED: bus, register, decoding; the bus may fail before or after the write |
| | `SetLEDMode`, `LoadHal`, `HardwareChangesLed` | manual mode, `g_HALI2CHandle`, the other writer of the registers |
| `FanSensors` | `PDK_RegisterSensorHooks`, `MonitorSensor` | the hooks; the stack's own monitoring, after which the hook runs |
| | `FindTray`, `FindNoTray`, `ReadRpm`, `FailToReadRpm` | presence, then speed, of `PDK_PostMonitorFanSensors` |
| | `MoveTray`, `ChangeSpeed` | the world |
| `SensorAverage` | `PDK_SensorAverage`, `AverageUnknownSensor` | the hook, for a sensor that is found and for one that is not |
| `GpioInterrupts` | `BeginRegistration`, `RegisterRow`, `FailToRegisterRow`, `EndRegistration`, `FailToLoadGpioLibrary` | the loop of `PDK_RegGPIOInts` over `m_IntInfo` |
| | `PDK_RegIntFDs`, `RaiseInterrupt`, `HandleInterrupt`, `MissInterrupt` | polling, and `PDK_GetIntInfo` with the handler it finds |
| `AlertMail` | `PDK_Alert`, `FetchPrimary`, `FetchSecondary`, `FetchNothing`, `NextUser`, `NoSuchUser`, `RefuseUser`, `FrameMail`, `Deliver`, `NoConnection`, `NextAlert` | one pass of the loop over the users, in the order of `PDK_FrameAndSendMail`, and the second try of `PDK_Alert` |
| `PostCodes` | `PDK_TimerTask`, `CompareCounter`, `LoadCounter`, `StoreCounter`, `ReadPostCodes`, `MarkRead` | the timer task, access by access |
| | `PDK_LPCReset` | one of its two writes per step |
| `Calibration` | `ParseAmbientCalibrationFromJson`, `ReadType`, `ReadCount`, `FindArray`, `ReadCoefficient`, `ReadPwm`, `ReadDeltaTemp`, `ParseDefaults`, `FailToParse` | one key per step, with the local `dTmp` that a missing key leaves alone |

`solCame`, `unrouted`, `wired`, `orderly`, `lastSet`, `tried`, `lastReset` and the other variables that are
declared as histories serve the properties only.

## 3. Runs

| Run | Instance | What it shows |
|---|---|---|
| `FscLoop_mixed` | 2 slots; one file polynomial + PID, the other PID + unknown type | types and ranges; the output is the highest demand; commands are within the files' limits; a cycle runs on one file, its curves included; the floor and the rates hold across changes of file and algorithm; the scan stays in the tables; the loop implements `MaxDemand` |
| `FscLoop_oversized` | one file has a profile more than the tables; the other a polynomial that spans nearly all of INT16S and a curve that counts a point more than its table | the tables are left only after a failed initialisation; the rates hold, except where the difference does not fit INT16S |
| `FscLoop_claim_*` | as above | the findings of section 6 |
| `Airflow` | 3 trays, majority 2, all kinds of trays, fair | `MajorityRules`, `DirectionIsJustified` under swaps and misreads at every point of a round; the decision settles when the trays do |
| `FanControl` | 2 trays, 1 sensor that comes and goes, a file whose parse stops in the middle | registers follow the command through every interleaving of both tasks, swaps and failures, and none is driven beyond the highest limit of the files |
| `FanControl_heat` | 1 tray, 1 sensor warm or hot, fair | heat ends at full speed of the right file |
| `ChassisPower` | 2 polls, SSI support on, fair | seven presses at most; reports are earned; a cycle waits; six lost presses are tolerated in a host that only presses change; every action ends |
| `ChassisPower_claim_cycle` | 2 polls, SSI support off | a finding of section 6 |
| `Calibration_claim_missing` | two coefficients, two points | a finding of section 6 |
| `Board` | the ten modules of section 2, one at a time: all four builds of the mux; two LEDs of every kind; a tray with both rotors; three samples of two sensors; both interrupt tables; two users and two servers; FRU devices (pages of 4 and 2 bytes, TLV that fits and does not fit the buffer, unknown device type, unsupported FRU type) with requests up to 7 bytes and two swaps; two records and two calls; two coefficients and three points; a delay of three seconds | one or two properties for each, see section 1: what they still promise when calls fail half way, the hardware changes between two accesses, and keys, headers or descriptors are missing |

Bounds, and why they are enough. Two slots show every relation between neighbours
(inheritance, accumulation, rejection after a success); the loop does nothing with
slots further apart. Two readings (44 and 50 degrees) lie on both sides of the set
point of 48 and are six degrees apart, so that rising, falling and steady readings
all happen, and the zero start of a slot gives a jump of more than
`TEMP_READING_RANGE`. PWM limits are 30..44 percent instead of the shipped range so
that both clamps are reached from each file; rates and hysteresis are the shipped
ones. Gains are rounded to quarters so that the thousandths of `LastPWM` form a
small grid. Three trays with a majority of two have the same shape as five and
three: any two majorities meet, and a minority can fail. `FanControl` uses limits
one percent apart so that the integral control needs several cycles.
Two polls instead of fifty in `ChassisPower` show the first, a middle and the last
one; presses and delays are the code's own. Two EEPROM pages are crossed by
requests of up to seven bytes from every position in a page, and two swaps give a
read three units. In `Board` the widths of bytes and words are shrunk together with
what they hold, so that wraps and the largest values happen: a byte of three values
and a word of six for the fan speeds, a sum that wraps at 8, a count that wraps at
3, offsets that wrap at 12 (`OffsetSize`); devices begin at zero (`FruStart`) and two calls
(`MaxCalls`) show what the second adds. `MCUnreliablePort` bounds which routes may fail: one
port of each kind, which some requests set and others leave. Two LEDs per
behaviour show whether one disturbs the other; which two is chosen at the start. Two
users are a pass before and a pass of the destination. Three seconds instead of
sixty have a first, a middle and a last one. Three points make two segments with
a common point. `FscLoop_oversized`, `Board` and `Calibration_claim_missing` turn deadlock checking off,
because the run-off into undefined behaviour has no step and a parse or a
registration ends: everywhere else a deadlock is an error.

Every property has a mutant in `PROJECT.json`: an operator that changes one
mapped definition as a bug would, under which the property is violated.

## 4. Fairness

`AirflowFairSpec` assumes that the monitoring task keeps being called: it is a
periodic task of the firmware and each of its steps is a bounded number of I2C
transfers. `FairSpec` assumes the same of the fan control task, and
`FairPowerSpec` of the chassis task, whose steps are a GPIO access or a `sleep`. Nothing is
assumed about reads that succeed, swaps that end or sensors that change: the
liveness properties state that themselves (`<>[][Calm]_vars`, "eventually nothing
fails any more"). `HeatReachesFullSpeed` also presupposes `[]~initFlag`: after a failed
initialisation the task stays with whatever the failure left, which
`FailureStopsFanControl` shows.

## 5. Proofs

`FscCoreProofs` has the lemmas on the operators: the clamps give a value between
their bounds (`ClampBounds`), rounding and truncation of a scaled PWM stay in a byte
(`RoundBounds`, `TruncateBounds`), curves yield integers (`TargetInt`, with
`FirstSegmentRises` for the CHOOSE over segments), and a PID or polynomial step keeps
a slot a slot and its PWM within the limits it ran under (`PidStep`, `PolynomialStep`).
Its last section proves what a reviewer of the control law asks first, that more heat
never asks for less:

* **HotterAsksForMore**: a piecewise curve whose demands rise is monotone in the
  temperature and stays between its first and last demand. Points that are ordered
  one by one are ordered altogether (`StepwiseOrdered`, by the smallest
  counterexample), a temperature inside the curve lies in a segment, so that the
  zero after the code's loop is never the target (`FirstSegmentRises`), and the integer
  quotient keeps the order of its dividends (`QuotientGrows`).
* **HotterCurveNeverSlows** carries it through the rate limits and the clamps, for two
  readings that the filter believes. It needs a last demand that is a whole percent.
  `WholePercentsStay` shows that the algorithm keeps it so; the slot of a PID profile
  that becomes a polynomial one need not have it, and then the statement is false
  (see section 6).
* **HotterPolynomialNeverSlows** does the same for polynomials without a negative coefficient
  (`PolynomialRises`) whose value, read with the hysteresis, fits INT16S (`FitsINT16S`): beyond
  32767 the target wraps and a hotter reading may ask for less. Both readings have to lie on one side of the last one: across it the
  hysteresis may give a falling reading more than a higher one that does not fall.
* **HotterPidNeverSlows** for the PID law, where the gains add up to zero or more.

The curve points, coefficients and gains of the shipped profiles satisfy these premises.

`FscLoopProofs` proves, for every number of slots, every set of files and every
set of readings:

* **TypeCorrect**, `LoopSpec => []LoopTypeOK`. `LoopTypeOK` is inductive. What
  is hard is that the parser may leave any mixture of two files and the
  algorithms any history, and every stored byte is still a byte and every
  `LastPWM` between 0 and 255 percent. What is narrowed before the clamps, the target and
  its difference, is narrowed in the model as well (`INT16SKeeps` says what it leaves alone).
* **HighestDemandWins**, `LoopSpec => []OutputIsHighestDemand`. The property is not
  inductive: `SkipDisabled` copies the local `pwm_value` into a slot, and nothing in
  the property bounds `pwm_value`. `HighestDemandInv` adds `pwmValue <= outputPWM`,
  that nothing has been scanned between cycles and that the index stays in the
  table while a scan runs; it is inductive relative to `LoopTypeOK`.
* **LimitsHold**, `LoopSpec => []CommandWithinLimits`. `LimitsInv` carries the limits
  through all that a later cycle may use: the limits parsed so far, in part or
  whole, the `LastPWM` of every slot (which a filtered reading repeats without a
  clamp), and the value that a disabled sensor inherits.
* **FloorIsHeld** and **RatesHold**, the action properties `FloorHeld` and
  `RateRespected`. `Controlled` says in one place what a pass leaves, whatever its
  algorithm: within the limits, filtered or inherited, and with its rates kept
  (`PolynomialRates`). The proof is what gave `RateRespected` its exact bounds:
  truncation may add less than one percent to a rise as well as to a fall, and when
  the two limits come from different files the floor may lie above the ceiling. A fall of more
  than INT16S holds is the exception `TooFarToLimit`: its difference wraps, and the code
  takes the rising rate for the fall, or none.
* **OverrunsNeedFailure** for all files, and **TablesSuffice** for files that fit
  (`FilesFit`): where the scan can leave the tables.
* **OneFileAtATime** for files with fewer than 256 profiles (`FilesCountable`): a
  parse without an error replaces all that earlier files wrote (`CompleteItem`), the
  coefficients and points that are counted included (`CompletePoly`). The exceptions are in
  the property: what the parser does not know it leaves.
* **LoopImplementsMaxDemand**, the refinement, for files that fit: a pass over a
  present sensor is `Collect`, one over a disabled sensor a stutter, the end of the
  scan `Decide`, which needs `HighestDemandInv`.

`AirflowProofs` proves **AirflowTypes**, **MajorityDecides** and **DirectionNeedsMajority** for every
number of slots and every majority. `AirflowInv` says that what was read in this
round of a tray that was not disturbed is still what the tray says, and that the
decision between rounds is that of the cache; the rest is counting: two majorities
meet (`OneMajority`).

`FanControlProofs` proves **RegistersFollow** for the composition: `RegisterInv` adds
to the property that the loop over the trays starts at the first tray in every
cycle and moves only in "apply". A register whose write failed (`missed`) or was lost (`dropped`)
holds anything an earlier turn left, or what the failed write put there. **ControlTaskInChassis**, `Spec => LoopSpec`, says that the
fan control task in the chassis is the one that `FscLoop` specifies: the direction it
reads is one of the known ones, which needs the invariant of the monitoring task, and
what it sees of a sensor, also of a number that is no sensor, is a record that
`FscLoop` allows. So every theorem on `LoopSpec` holds of the chassis. **ChassisTypes** and
**MajorityDecidesInChassis** come from `ChassisInv`, which joins the invariants of both
tasks; what is new in it is that a tray's turn keeps its register in a byte
(`DutyFits`). **ChassisKeepsPromises** says that the invariants and action properties of
both tasks hold of the composition. **NoFanIsDrivenBeyondLimits** is the claim that a
user of the fans would make: what is in a register of the CPLD, scaled to a byte and
rounded down, is never more than the highest limit of any file, whatever was parsed in
part, taken over or missed. `FanLimitsInv` is `ChassisInv` with the property; a tray is
written only while `pc` is "apply", when the command is within the limits
(`CommandWithinLimits`), and `DutyIsShare` bounds the scaling.

`ChassisPowerProofs` proves, for every number of polls and every behaviour of the
host: **PowerTypeCorrect**, **SevenPressesAtMost**, **OffReportsAreEarned** and
**CyclesWaitForOff**. None is inductive: the report looks at `retry` and a flag, and
nothing in the state says how often the button was pressed. `PowerInv` relates
them. In the loop `presses = retry`, between a press and its retry
`presses = retry + 1`, and `presses + 5 <= 3 + delay`: what is beyond the three short
presses has made the delay longer. With `delay <= 9` this gives seven. `ReportInv` says
what is known where a report is made, `PollInv` that the wait begins with all polls.
**QuietActionsSucceed** shows `QuietOutcome` for up to six lost presses. `QuietInv` follows an
action that nothing disturbs from place to place: in the loop the host is on exactly as
long as every press was lost, and then the delay is a function of the presses, so
that giving up means seven lost presses.

`BoardProofs` has theorems about seven of the nine small modules of `MCBoard`, each for
all values of its module's constants:

* **RoutesAreRemembered** and **SolStaysOn** (`SerialMux`). `RoutesFollowDirection` is inductive once it
  is known that no build routes anything but ports (`RoutesArePorts`). It holds for every set of
  ports whose routes may fail: a failed call leaves its port in `unrouted`, and the property
  claims nothing of it until a later call for it succeeds.
* **CodesAreCurrent** (`PostCodes`), for every delay. `SnoopInv` says what the timer task knows at each
  place as long as no reset fell into one of its calls: the counter it saw is the
  counter, and it reads and marks only after the whole delay.
* **MailsReachTheirUser** and **NoConnectionMeans** (`AlertMail`), for every number of users. `MailInv`
  says where the loop is: no user before the current one is the destination, a mail
  that is sent again has been tried with the primary server, and the flag that decides
  on a second try is set beforehand only from the second user on.
* **CountedFansAreReal** (`FanSensors`), for all trays, widths and multipliers: a tray that is still
  there was there since the hook began; a speed that fits its word comes back from
  the division as the register's value (`RawSurvives`).
* **SetsAreReadBack** (`Leds`): no two patterns of an LED have one code (`CodesDiffer`), and a
  Set that succeeded found the bus functions loaded.
* **InterruptsAreHandled** (`GpioInterrupts`): the slots are filled in the order of the rows, also when
  the driver refuses one, so that the n-th descriptor has the n-th handler.
* **AreasKeepOrder** (`FruRecords`), for every device and every call that is `orderly`: distinct ids,
  devices that began at zero, no offset wrapped. The offset of an area contains the prefix
  and its size does not, and offsets are added to what was there: `PlacedInv` says that a FRU
  without a record still has the offset zero, and that every placed area ends within the
  prefix behind the next offset. `RecordInv` claims this of orderly calls only; an offset that
  fits its word is the sum itself (`WordFits`).

It also proves the type invariants of these modules. For most the invariant above
is enough. Two needed one of their own. `RecordCountInv`: the records walked over and those to come
are never more than the one-byte count, also when it starts at zero and wraps with
the first record. `IntSlotsInv`: until the registration fails, the noted pins are those
of the slots that are counted.

`MCBoardProofs` has the two modules whose properties speak of sequences, and the
composition:

* **MissingKeysRepeat** (`Calibration`) states what the parser does against the comment over
  `ConvertcJSONToValue` (the finding `MissingKeyFails` of section 6); no run checks it as a
  promise. `CalInv` says of every place of the parse how many keys were read before it, and that
  `dTmp` is the value of the last of them that was there.
* **InterpolationStaysBetween**, by the first segment that encloses the input. Its two
  points differ, even where other points coincide (`FirstSegmentRises`), and a weighted mean lies between its ends (`MeanIsBetween`).
* **AverageIsOfLast** (`SensorAverage`): `AverageInv` says where in the ring each of the last samples is
  (`PlaceOf`), and that the sum over the ring is the sum over them. A sum over a
  sequence is an entry of the one table of partial sums that fits it (`TotalsExist`,
  `TotalsAgree`), and how it changes with one sample follows from a table for the
  changed sequence (`SumUpdate`, `SumAppend`, `SumTail`). Where an argument runs along the
  sequence, the induction is over a set of numbers that has a least element
  (`LeastOf`, `UpToInduction`), which needs no operator as a parameter.
* **BoardImplements**: the board implements the specification of each of its ten
  components (`StepOfEach`), so that **BoardTypesOK** and **BoardKeepsPromises** follow from what
  was proved about each alone.

`FruAccessProofs` proves all five invariants of `FruAccess` for all FRUs, page
sizes and requests: **FruTypeCorrect**, **SuccessIsComplete** (of EEPROMs), **ReadsAreInOrder**,
**WritesKeepPlaces**, **OverrunsNeedLargeFrus**. The request is checked once and the loop
never looks back; `TransferInv` carries the check along: `done + len` is the count, and
the offset is the place of the next byte while one is left (the word may wrap
with the last one). `ChunkRange` shows that a chunk is never empty and `WriteAddressIs`
that it never wraps in its page.

Assumptions, all on constants, and evaluated by TLC in every run: the
table size is a byte (`TableAssumption`), files are of `ConfigFileType`
(`ConfigFileAssumption`), each airflow value names a file
(`AirflowPathAssumption`), readings are bytes (`ReadingAssumption`), a FRU lies in its
EEPROM and an EEPROM has no more addresses than its address bytes reach
(`PlacementAssumption`), a count is a byte (`FruAssumption`), widths, lengths and delays of the
smaller modules are positive and offsets are words (`FanSensorAssumption`, `RecordAssumption`,
`SnoopAssumption` and so on), SSI support is on or off (`FeatureAssumption`), a FRU id that names
no FRU exists (`NoFruAssumption`). Nothing is assumed about the points of a curve or their
number; where a theorem needs a curve that rises, it says so.

Only model-checked: the three liveness properties (`AirflowSettles`, `HeatReachesFullSpeed` and
`ActionsEnd`), which are out of the prover's reach. Every invariant and every action
property that a passing run checks is the statement of a theorem.

## 6. Findings

Each is a comment or message of the code that its behaviour does not match, shown
by a run that expects a violation.

* `FailureStopsFanControl` – fsc_loop.c:180 says "Initialization failed. Fan control
  will not run." The flag it sets makes the following cycles skip the
  initialisation and run, on what the failed parse left.
* `InitializedOnce` – fsc_loop.c:164 says the loop "ensures one-time
  initialization". After a success the flag stays clear, so that every cycle
  reads and parses the file again, which is also what makes the control follow a
  change of airflow.
* `CommandCoversDemands` – fsc_loop.c:67-69 says that the maximum over all sensors
  becomes the output. A profile of an unknown type ends the scan with -1,
  which the caller ignores: zero is commanded although sensors asked for more.
  (The shipped files have profiles of such types.)
* `CycleBringsHostUp` – PDKHW.c:623-624 says "Try several times if necessary to make
  sure the host comes back up." `PDK_PowerOnChassis` returns 0 in any case, so that
  the loop around it never tries again, and the cycle reports success with the
  host off.

* `MissingKeyFails` – fsc_parser.c:85-86 says "@return 0 on success, or a negative value on
  failure." and "-1: pMap, pcKey, pValue is NULL or key not found." `ConvertcJSONToValue` returns 0
  for a key that it does not find, and its callers store what an earlier key left in
  `dTmp`: a file without one of its keys is parsed with success.

Seen while modelling, without a run of their own:

* `TotalProfileNum` is stored before its range check; after the failure the next
  cycle scans up to it and leaves the tables (`OverrunNeedsFailure` says that the
  failure is necessary).
* `TotalProfileNum` is a byte (fsc_parser.c:515): where the conversion wraps, a file
  with 256 profiles is accepted as one without any; `FilesCountable` excludes such files.
* A parse that stops between `fan_initial_pwm` and `fan_max_pwm` leaves the floor of
  one file and the ceiling of another, which may be crossed; the floor wins.
* A host that goes off between the two samples of one pass of `PDK_PowerOffChassis`
  (lines 454 and 456) is pressed once more, by the else branch, which switches it on;
  it uses up a longer press too, so that the loop may give up early and report a
  success. `OffReportIsEarned` names this exception.
* OEMFRU.c:135 promises "a negative value on error", and PDKEEPROM.c:236 does not look
  at the value: a TLV EEPROM without a date, serial or part number is read as
  zeros, with success (`ReadVpd`).
* PDKHW.c:829 says "disable SOL" where the host gets the port of an external UART,
  and returns early when the host has it already; after a request for the host, one
  for SOL and one for the host again SOL stays enabled (`SolOutlivesTheHost` says when).
* `SetFanLedOnFrontPanel` answers 0 when its write fails; OEMLED.c:287 promises -1.
* PDKAlert.c:80 says of `smtpServerFlag` "0 - Primary, 1 - Secondary". It is not the
  server in use: once an earlier pass over the users has set it, a primary server
  that cannot be reached ends the mail without a second try (`NoConnectionIsExplained`).
* `InitMultiRecord` skips an 18 byte prefix of each record, but takes the whole record
  length as the size of the area, so that an area reaches 18 bytes into what follows
  the record (B/PDKFRU.c); the offsets are added to what an earlier call left.
* The comparison of the rate limit truncates to whole percents. From a last demand with
  a fraction, which a PID profile leaves in the slot, a target just within the rate is
  taken as it is, and a higher one beyond it is cut to a percent less: from 10.5 with a
  rate of 2, the target 13 stays 13 and 14 becomes 12. `HotterCurveNeverSlows` excludes this.
* `OEM_ReadWritePLD` answers 0 to a write, and writes nothing, before the bus functions are
  loaded (OEMPLD.c:100-114): a fan tray then counts as set.
* The results of `lpcuart_route_set` are ignored (PDKHW.c:845-1054). The direction is remembered all
  the same, and another request for it returns early, so that the route stays wrong.
* A FRU of a type that is not supported is read and written with success and no byte:
  the 0 of PDKFRU.c:205 and 233 is taken as a count.
* The target of a polynomial is narrowed to INT16S (fsc_core.c:242, 297): a value beyond 32767 wraps,
  and a hotter reading may ask for less. The shipped curves stay far below.
* A file may count more than the ten points that the table of a piecewise curve has; the parser
  stores ten, and the search of fsc_core.c:257-267 goes on behind them.
* Nothing in the repository calls `InitMultiRecord`; two calls of it add their offsets.
* The calibration that is taken for lack of a file, coefficients 0 and 1 with the
  comment "Direct mapping", makes the ambient temperature the inlet's reading minus
  the PWM.
* OEMFRU.c:34 promises -1 for an unknown bus; the type is unsigned, so that the test
  at PDKEEPROM.c:228 never holds. No bus that reaches it is unknown.

## 7. Not modelled, and why

* Float arithmetic: thousandths stand for floats. The shipped gains have at most
  three decimals, so sums are exact in both up to float rounding, which no
  property depends on.
* The fan control task's use of `g_AmbientCalibration`: it stays zero there, since its parser has
  no caller, and `FSCGetAmbientTemperature` reduces to the inlet reading. `Calibration` models the
  parser and the curves for themselves, on files with at most one point more than
  the table; what a parse past the table overwrites is not modelled.
* Missing keys in the files of the fan control task: in `FscConfig` the record of a file
  holds the value that ends up stored. Strings where a number is expected are not
  modelled, here and in `Calibration`: `ConvertcJSONToValue` writes their text over the caller's double,
  up to `LABEL_LENGTH_MAX` bytes of it, which is undefined. No property speaks of files with such keys.
* Torn sensor records: a step reads a record at once. A torn record mixes the flag of
  one update with the reading of the next, which the model's arbitrary records
  include.
* The presence check and the write of a tray are one step (a swap in between only
  matters as a write to a tray that is gone, whose register exists anyway).
* `PDK_SetPowerLevel`, which maps a power level to the actions of `ChassisPower`, `PDK_IsACPowerOn`, the record
  of the last power event, and what the reset button does to the host. Who reads
  `PowerActionInProgress` is outside the repository.
* The chassis identify LED (`PDK_GlowLED`, which writes it by I2C under a lock of the stack).
* FRUs in NVR files, the DCMI asset tag, and the layout of the converted VPD.
* The PECI hooks (B/PDKHooks.c 178-268, 459-755), which are compiled out, and the hooks of
  B/PDKHooks.c, PDKSEL.c and PDKSDR.c that return a constant.
* Logging and debug output, and the I2C transfers themselves.

## 8. Plan

What the development has left, in order:

1. `PDK_SetPowerLevel` and the other callers of the chassis actions, with the record of the last
   power event: a composition of `ChassisPower` with the command that names a level.
2. An abstract byte store that `FruAccess` implements, and FRUs in NVR files.
3. `Calibration` past the end of its tables, and the parser of the debug level.
4. `PDK_GlowLED` beside `Leds`, under the lock that it takes.
