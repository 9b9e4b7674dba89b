------------------------------ MODULE MaxDemand ------------------------------
(***************************************************************************)
(* What one cycle of fan control promises, without sensors, slots or loop  *)
(* variables: it collects the demands of the sensors that take part, in    *)
(* any order, and then commands the highest of them, zero if there are     *)
(* none, or zero if the cycle is abandoned.                                *)
(***************************************************************************)
EXTENDS Integers

CONSTANT Demand    \* the values a sensor can ask for

VARIABLES
    phase,     \* "idle", "scan" (collecting demands) or "apply"
    demands,   \* the demands collected in this cycle
    command    \* what the cycle commands, zero before it is decided

demandVars == <<phase, demands, command>>

DemandInit == phase = "idle" /\ demands = {} /\ command = 0

Begin ==
    /\ phase = "idle"
    /\ phase' = "scan"
    /\ UNCHANGED <<demands, command>>

Collect ==
    /\ phase = "scan"
    /\ \E d \in demands' : d \in Demand /\ demands' = demands \cup {d}
    /\ UNCHANGED <<phase, command>>

Decide ==
    /\ phase = "scan"
    /\ phase' = "apply"
    /\ command' \in demands \cup {0}
    /\ \A d \in demands : d <= command'
    /\ UNCHANGED demands

Abandon ==
    /\ phase = "scan"
    /\ phase' = "apply"
    /\ UNCHANGED <<demands, command>>

Complete ==
    /\ phase = "apply"
    /\ phase' = "idle"
    /\ demands' = {}
    /\ command' = 0

DemandNext ==
    \/ Begin
    \/ Collect
    \/ Decide
    \/ Abandon
    \/ Complete

DemandSpec == DemandInit /\ [][DemandNext]_demandVars
=============================================================================
