--------------------------------- MODULE Leds ---------------------------------
(***************************************************************************)
(* The LEDs: GetLEDPatterns and SetLEDPatterns of OEMLED.c, which write    *)
(* and decode one CPLD register per LED through OEM_ReadWritePLD of        *)
(* OEMPLD.c.  The hardware, and whoever drives the LEDs in automatic mode, *)
(* change the registers too, and every access of the bus may fail.         *)
(***************************************************************************)
EXTENDS Integers, FiniteSets

CONSTANT MaxAsked      \* how many LEDs the requests of one behaviour are about

VARIABLES
    asked,             \* the LEDs that the requests are about
    halLoaded,         \* g_HALI2CHandle holds the bus functions
    g_LEDTestMode,     \* "LED_Auto" or "LED_Manu"
    ledReg,            \* the LED registers of the two CPLDs
    ledAnswer,         \* the answer of the last GetLEDPatterns
    lastSet            \* history: the pattern of the last Set answered 0, until
                       \* something else changes the LED

ledVars == <<asked, halLoaded, g_LEDTestMode, ledReg, ledAnswer, lastSet>>

FrontLed == {"FrontPanel_SID_LED", "FrontPanel_POWER_LED", "FrontPanel_FAN_LED"}
TrayLed == {"FAN1_LED", "FAN2_LED", "FAN3_LED", "FAN4_LED", "FAN5_LED"}
Led == FrontLed \cup TrayLed
NoLed == "no_such_LED"

Pattern == {"LED_OFF", "LED_SOLID_BLUE", "LED_FLASHING_BLUE", "LED_SOLID_GREEN",
            "LED_SOLID_AMBER", "LED_FLASHING_AMBER"}

-----------------------------------------------------------------------------
(* The codes that a register takes: [pattern -> code] for the patterns the *)
(* LED has, the same table in the Set and in the Get function.  A tray's   *)
(* register also has a bit that gives the LED to the software; Set sets it *)
(* and Get masks it.                                                       *)

SidCode == [LED_OFF |-> "OFF", LED_SOLID_BLUE |-> "BLUE_ON",
            LED_FLASHING_BLUE |-> "BLUE_FLASHING",
            LED_FLASHING_AMBER |-> "AMBER_FLASHING"]
FrontCode == [LED_OFF |-> "OFF", LED_SOLID_GREEN |-> "GREEN_ON",
              LED_FLASHING_AMBER |-> "AMBER_FLASHING", LED_SOLID_AMBER |-> "AMBER_ON"]
TrayCode == [LED_OFF |-> "OFF", LED_SOLID_GREEN |-> "GREEN_ON",
             LED_FLASHING_AMBER |-> "AMBER_FLASHING"]

Code(led) ==
    CASE led = "FrontPanel_SID_LED" -> SidCode
      [] led \in {"FrontPanel_POWER_LED", "FrontPanel_FAN_LED"} -> FrontCode
      [] led \in TrayLed -> TrayCode

CodesOf(led) == {Code(led)[p] : p \in DOMAIN Code(led)} \cup {"unknown"}
\* Hardware that has the LED itself leaves SOFT_CTRL clear.
Register(led) ==
    [Code : CodesOf(led), SoftCtrl : IF led \in TrayLed THEN BOOLEAN ELSE {FALSE}]

\* Mutation: the tray LEDs have the table of the front panel.
EncodedAsFront(led, pattern) ==
    [Code |-> IF led \in TrayLed /\ pattern = "LED_FLASHING_AMBER" THEN "GREEN_ON"
              ELSE Code(led)[pattern],
     SoftCtrl |-> led \in TrayLed]

\* What SetXxxLed writes for a pattern that the LED has.
Encoded(led, pattern) ==
    [Code |-> Code(led)[pattern], SoftCtrl |-> led \in TrayLed]

\* What GetXxxLed makes of a register: the set of the patterns it may answer,
\* empty when the code is unknown.  SOFT_CTRL is masked away.
Decoded(led, value) == {p \in DOMAIN Code(led) : Code(led)[p] = value.Code}

-----------------------------------------------------------------------------
(* OEM_ReadWritePLD.  Without the bus functions a read answers 0 with the  *)
(* number of the register as its value, and a write answers 0 and does     *)
(* nothing.  A write that fails may have reached the CPLD.                 *)

PldReads(led) ==
    IF halLoaded
    THEN {[ret |-> 0, value |-> ledReg[led]], [ret |-> -1, value |-> ledReg[led]]}
    ELSE {[ret |-> 0, value |-> v] : v \in Register(led)}

PldWrites(led, value) ==
    IF halLoaded
    THEN {[ret |-> 0, value |-> value], [ret |-> -1, value |-> value],
          [ret |-> -1, value |-> ledReg[led]]}
    ELSE {[ret |-> 0, value |-> ledReg[led]]}

-----------------------------------------------------------------------------
LedAnswer(ret, led, pattern) == [Ret |-> ret, Led |-> led, Pattern |-> pattern]
NoLedAnswer == LedAnswer(-1, NoLed, "none")

LedInit ==
    /\ asked \in {S \in SUBSET Led : Cardinality(S) = MaxAsked}
    /\ halLoaded \in BOOLEAN
    /\ g_LEDTestMode = "LED_Auto"
    /\ ledReg = [led \in Led |-> [Code |-> "OFF", SoftCtrl |-> FALSE]]
    /\ ledAnswer = NoLedAnswer
    /\ lastSet = [led \in Led |-> "none"]

\* The answer is -1 for an LED that does not exist, a bus error and a code that
\* no pattern has.
GetLEDPatterns(led) ==
    /\ IF led = NoLed THEN ledAnswer' = NoLedAnswer
       ELSE \E read \in PldReads(led) :
              LET patterns == Decoded(led, read.value)
              IN  IF read.ret # 0 \/ patterns = {}
                  THEN ledAnswer' = LedAnswer(-1, led, "none")
                  ELSE \E p \in patterns : ledAnswer' = LedAnswer(0, led, p)
    /\ UNCHANGED <<asked, halLoaded, g_LEDTestMode, ledReg, lastSet>>

\* -2 in automatic mode; -1 for an unknown LED and for a pattern it does not have.
RefuseLEDPattern(led, pattern) ==
    \/ g_LEDTestMode = "LED_Auto"
    \/ led = NoLed
    \/ pattern \notin DOMAIN Code(led)

\* Every function answers what its write answered, except that of the fan LED
\* of the front panel, which answers 0 whatever happened.
SetAnswer(led, ret) == IF led = "FrontPanel_FAN_LED" THEN 0 ELSE ret

SetLEDPatterns(led, pattern) ==
    /\ ~RefuseLEDPattern(led, pattern)
    /\ \E write \in PldWrites(led, Encoded(led, pattern)) :
         /\ ledReg' = [ledReg EXCEPT ![led] = write.value]
         /\ lastSet' = [lastSet EXCEPT
                ![led] = IF SetAnswer(led, write.ret) = 0 /\ halLoaded
                         THEN pattern ELSE "none"]
    /\ ledAnswer' = NoLedAnswer
    /\ UNCHANGED <<asked, halLoaded, g_LEDTestMode>>

\* OEM_SetGetLEDMode of the OEM commands, which are not part of the source.
SetLEDMode ==
    /\ g_LEDTestMode' = IF g_LEDTestMode = "LED_Auto" THEN "LED_Manu" ELSE "LED_Auto"
    /\ ledAnswer' = NoLedAnswer
    /\ UNCHANGED <<asked, halLoaded, ledReg, lastSet>>

\* The stack loads the bus functions once.
LoadHal ==
    /\ ~halLoaded
    /\ halLoaded' = TRUE
    /\ ledAnswer' = NoLedAnswer
    /\ UNCHANGED <<asked, g_LEDTestMode, ledReg, lastSet>>

\* The CPLD, or the owner of the LEDs in automatic mode.
HardwareChangesLed(led) ==
    /\ ledReg' \in {[ledReg EXCEPT ![led] = v] : v \in Register(led)}
    /\ lastSet' = [lastSet EXCEPT ![led] = "none"]
    /\ ledAnswer' = NoLedAnswer
    /\ UNCHANGED <<asked, halLoaded, g_LEDTestMode>>

LedNext ==
    \/ \E led \in asked \cup {NoLed} : GetLEDPatterns(led)
    \/ \E led \in asked \cup {NoLed}, p \in Pattern : SetLEDPatterns(led, p)
    \/ \E led \in asked : HardwareChangesLed(led)
    \/ SetLEDMode
    \/ LoadHal
LedSpec == LedInit /\ [][LedNext]_ledVars

-----------------------------------------------------------------------------
(* Properties                                                              *)

\* Registers hold codes of their LED.
LedTypeOK ==
    /\ asked \subseteq Led /\ halLoaded \in BOOLEAN
    /\ g_LEDTestMode \in {"LED_Auto", "LED_Manu"}
    /\ \A led \in Led : ledReg[led] \in Register(led)
    /\ ledAnswer \in [Ret : {0, -1}, Led : Led \cup {NoLed}, Pattern : Pattern \cup {"none"}]
    /\ lastSet \in [Led -> Pattern \cup {"none"}]

\* A pattern that was set with success is the pattern that is read back,
\* whatever was asked of the other LEDs in between, until the hardware changes
\* the LED or a Set of it fails.  The front panel's fan LED is the exception: its
\* Set hides the error.
SetIsReadBack ==
    /\ halLoaded
    /\ ledAnswer.Ret = 0
    /\ ledAnswer.Led # "FrontPanel_FAN_LED"
    /\ lastSet[ledAnswer.Led] # "none"
    => ledAnswer.Pattern = lastSet[ledAnswer.Led]
=============================================================================
