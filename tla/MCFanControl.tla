---------------------------- MODULE MCFanControl ----------------------------
(***************************************************************************)
(* Small instances of FanControl: one sensor, a narrow PWM range and a     *)
(* purely integral controller, so that the PWM climbs one percent a cycle. *)
(***************************************************************************)
EXTENDS FanControl

MCAirflowPath == [F2B |-> "f2b", B2F |-> "b2f", UNKNOWN |-> "b2f"]
MCConfigPath == {"f2b", "b2f"}

Integral == [SetPoint |-> 48, Kp |-> 0, Ki |-> 500, Kd |-> 0]
Item(n) == [Value |-> [SensorNum |-> n, ProfileType |-> FSC_CTL_PID,
                       Pid |-> Integral, Poly |-> ZeroProfile.Poly],
            Writes |-> 6]
File(min, max, n) ==
    [DebugOk |-> TRUE, System |-> [FanInitialPWM |-> min, FanMaxPWM |-> max],
     SystemWrites |-> 2, HasProfiles |-> TRUE, Items |-> <<Item(n)>>]
MCConfigFile == [f2b |-> File(30, 31, 1), b2f |-> File(31, 32, 1)]

\* A parse of b2f stops inside its profile: its limits are in force, with the
\* type and the parameters that an earlier file left, if any.
PartialFiles ==
    [MCConfigFile EXCEPT !["b2f"].Items = <<[Item(1) EXCEPT !.Writes = 1]>>]

Normal(reading) ==
    [Available |-> TRUE, Present |-> TRUE, Unable |-> FALSE, Reading |-> reading]
WarmOrHot == {Normal(44), Normal(50)}
HotOrGone ==
    {Normal(50),
     [Available |-> FALSE, Present |-> FALSE, Unable |-> TRUE, Reading |-> 50]}
=============================================================================
