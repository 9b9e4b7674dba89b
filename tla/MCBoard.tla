------------------------------- MODULE MCBoard -------------------------------
(***************************************************************************)
(* Small instances of the components of the board that stand beside the    *)
(* fan control and the power control: they share no variable and call each *)
(* other nowhere, so that a property of one holds in every interleaving of *)
(* them if it holds while the others rest.  A behaviour is one of one      *)
(* component, the part, and the others stay in one of their initial states.*)
(***************************************************************************)
EXTENDS SerialMux, Leds, FanSensors, SensorAverage, GpioInterrupts, AlertMail,
        FruRecords, MCFruAccess, Calibration, PostCodes

\* Two destinations, each of which some requests route and others do not.
MCUnreliablePort == {UART(1), IO(3)}

VARIABLE part          \* the component that this behaviour is about

Parts == {"serial", "leds", "fan_sensors", "average", "interrupts", "mail",
          "records", "fru", "calibration", "post_codes"}

BoardInit ==
    /\ part \in Parts
    /\ SerialInit
    /\ part # "serial" =>
          /\ superio = "none" /\ CurSwitchDir = "MUX_2_BMC"
          /\ SerialMuxSetting = 1 /\ solCtrl = 1
    /\ LedInit
    /\ asked \subseteq FrontLed \cup {"FAN1_LED", "FAN2_LED"}   \* trays are alike
    /\ part # "leds" => asked = {"FAN1_LED", "FAN2_LED"} /\ halLoaded
    /\ FanSensorInit
    /\ part # "fan_sensors" => plugged = [t \in Tray |-> TRUE]
    /\ AverageInit
    /\ IntInit
    /\ part # "interrupts" => m_IntInfo = IntTable["plain"]
    /\ MailInit
    /\ part # "mail" =>
          /\ userTable = [i \in 1 .. MaxUsers |->
                             [Id |-> destination, Enabled |-> TRUE, Address |-> TRUE]]
          /\ destination = "u1" /\ selectable
    /\ RecordInit
    /\ part # "records" =>
          /\ records = <<[Len |-> 1, Eol |-> TRUE]>>
          /\ \A f \in RecordFru : recordArea[f].Offset = 0
    /\ FruInit
    /\ part # "fru" => format = "valid"
    /\ CalInit
    /\ SnoopInit

Moves(p) ==
    /\ part = p /\ UNCHANGED part
    /\ p # "serial" => UNCHANGED serialVars
    /\ p # "leds" => UNCHANGED ledVars
    /\ p # "fan_sensors" => UNCHANGED sensorVars
    /\ p # "average" => UNCHANGED averageVars
    /\ p # "interrupts" => UNCHANGED intVars
    /\ p # "mail" => UNCHANGED mailVars
    /\ p # "records" => UNCHANGED recordVars
    /\ p # "fru" => UNCHANGED fruVars
    /\ p # "calibration" => UNCHANGED calVars
    /\ p # "post_codes" => UNCHANGED snoopVars

BoardNext ==
    \/ Moves("serial") /\ SerialNext
    \/ Moves("leds") /\ LedNext
    \/ Moves("fan_sensors") /\ FanSensorNext
    \/ Moves("average") /\ AverageNext
    \/ Moves("interrupts") /\ IntNext
    \/ Moves("mail") /\ MailNext
    \/ Moves("records") /\ RecordNext
    \/ Moves("fru") /\ FruNext
    \/ Moves("calibration") /\ CalNext
    \/ Moves("post_codes") /\ SnoopNext

boardVars == <<part, serialVars, ledVars, sensorVars, averageVars, intVars,
               mailVars, recordVars, fruVars, calVars, snoopVars>>
BoardSpec == BoardInit /\ [][BoardNext]_boardVars

-----------------------------------------------------------------------------
\* The components keep their types: the indices of their tables, the widths of
\* their counters and the steps of their calls.
BoardTypeOK ==
    /\ part \in Parts
    /\ SerialTypeOK /\ LedTypeOK /\ FanSensorTypeOK /\ AverageTypeOK /\ IntTypeOK
    /\ MailTypeOK /\ RecordTypeOK /\ FruTypeOK /\ CalTypeOK /\ SnoopTypeOK
=============================================================================
