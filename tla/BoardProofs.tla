----------------------------- MODULE BoardProofs -----------------------------
(***************************************************************************)
(* Theorems about the components beside fan and power control: the serial  *)
(* mux, the post codes, the mail of an alert, the fan sensors, the LEDs,   *)
(* the GPIO interrupts and the FRU records, for all values of their        *)
(* constants.                                                              *)
(***************************************************************************)
EXTENDS SerialMux, PostCodes, AlertMail, FanSensors, Leds, GpioInterrupts,
        FruRecords, TLAPS

-----------------------------------------------------------------------------
(* The serial mux.  RoutesFollowDirection is inductive once the ports are  *)
(* known to cover all the routes.                                          *)

\* The routes of every request are between ports.
LEMMA RoutesArePorts ==
    ASSUME NEW s \in Superio, NEW dir \in Dir
    PROVE  DOMAIN Routes[s][dir] \subseteq Port
<1>1. \A K \in SUBSET (1 .. 4) : DOMAIN Straight(K) \subseteq Port
  BY DEF Straight, Port
<1>2. \A K \in SUBSET (1 .. 4) : \A n : DOMAIN Crossed(K, n) \subseteq Port
  BY DEF Crossed, Port
<1>3. DOMAIN Ring(3) \subseteq Port /\ DOMAIN Ring(4) \subseteq Port
  BY DEF Ring, Port, IO, UART
<1>4. DOMAIN << >> \subseteq Port
  OBVIOUS
<1>5. CASE s = "external"
  BY <1>1, <1>5 DEF Routes, Dir
<1>6. CASE s = "internal"
  BY <1>1, <1>2, <1>4, <1>6 DEF Routes, Dir
<1>7. CASE s = "sharing"
  BY <1>1, <1>2, <1>3, <1>7 DEF Routes, Dir
<1>8. CASE s = "none"
  BY <1>1, <1>3, <1>4, <1>8 DEF Routes, Dir
<1> QED BY <1>5, <1>6, <1>7, <1>8 DEF Superio

\* A request that writes nothing is the one that is not supported.
LEMMA InternalBmcHasNoRoutes == DOMAIN Routes["internal"]["MUX_2_BMC"] = {}
BY DEF Routes

SerialInv ==
    /\ superio \in Superio /\ wired \in Dir \cup {"nothing"}
    /\ RoutesFollowDirection

\* Every change of the mux, of SOL and of the host keeps the invariant.
LEMMA SerialStep ==
    ASSUME SerialInv, [SerialNext]_serialVars
    PROVE  SerialInv'
<1> USE DEF SerialInv
<1>1. CASE UNCHANGED serialVars
  BY <1>1, Zenon DEF serialVars, RoutesFollowDirection
<1>2. ASSUME NEW dir \in Dir, PDK_SwitchEMPMux(dir)
      PROVE  SerialInv'
  <2> DEFINE R(d) == Routes[superio][d]
  <2>1. superio' = superio /\ superio \in Superio
    BY <1>2 DEF PDK_SwitchEMPMux
  <2>2. \A d \in Dir : DOMAIN R(d) \subseteq Port
    BY <2>1, RoutesArePorts
  <2>3. PICK failed, kept :
          /\ kept \subseteq failed
          /\ unrouted' = (unrouted \ DOMAIN R(dir)) \cup failed
          /\ route' = [p \in Port |-> IF p \in DOMAIN R(dir) \ kept THEN R(dir)[p]
                                     ELSE route[p]]
    BY <1>2, Zenon DEF PDK_SwitchEMPMux, SetRoutes, Rewired
  <2> HIDE DEF R
  <2>4. RoutesFollowDirection'
    <3>1. CASE Remembered(dir)
      <4>1. wired' = dir /\ CurSwitchDir' = dir
            /\ SerialMuxSetting' = IF dir = "MUX_2_BMC" THEN 1 ELSE 0
        BY <1>2, <3>1 DEF PDK_SwitchEMPMux
      <4>2. \A p \in DOMAIN R(dir) \ unrouted' : route'[p] = R(dir)[p]
        BY <2>2, <2>3
      <4> QED BY <2>1, <4>1, <4>2 DEF RoutesFollowDirection, R
    <3>2. CASE ~Remembered(dir)
      <4>1. UNCHANGED <<wired, CurSwitchDir, SerialMuxSetting>>
            /\ solCame' = (solCame \/ dir = "MUX_2_SOL")
        BY <1>2, <3>2 DEF PDK_SwitchEMPMux
      <4>2. dir = "MUX_2_SOL" \/ DOMAIN R(dir) = {}
        BY <3>2, InternalBmcHasNoRoutes DEF Remembered, R
      <4>3. SUFFICES ASSUME wired # "nothing", NEW p \in DOMAIN R(wired), p \notin unrouted'
                     PROVE  \/ route'[p] = R(wired)[p]
                            \/ /\ solCame'
                               /\ p \in DOMAIN R("MUX_2_SOL")
                               /\ route'[p] = R("MUX_2_SOL")[p]
        BY <2>1, <4>1 DEF RoutesFollowDirection, R
      <4>4. wired \in Dir /\ p \in Port
        BY <2>2, <4>3
      <4>5. p \in DOMAIN R(dir) => p \notin kept /\ route'[p] = R(dir)[p]
        BY <2>3, <4>3, <4>4
      <4>6. CASE p \in DOMAIN R(dir)
        BY <4>1, <4>2, <4>5, <4>6
      <4>7. CASE p \notin DOMAIN R(dir)
        <5>1. route'[p] = route[p] /\ p \notin unrouted
          BY <2>3, <4>3, <4>4, <4>7
        <5>2. \/ route[p] = R(wired)[p]
              \/ /\ solCame
                 /\ p \in DOMAIN R("MUX_2_SOL")
                 /\ route[p] = R("MUX_2_SOL")[p]
          BY <4>3, <5>1 DEF RoutesFollowDirection, R
        <5> QED BY <4>1, <5>1, <5>2
      <4> QED BY <4>6, <4>7
    <3> QED BY <3>1, <3>2
  <2>5. superio' \in Superio /\ wired' \in Dir \cup {"nothing"}
    BY <1>2 DEF PDK_SwitchEMPMux
  <2> QED BY <2>4, <2>5
<1> QED BY <1>1, <1>2 DEF SerialNext

\* Whatever requests come in whatever order, in each of the four builds, and
\* whichever calls of the router fail: the direction that is remembered is wired,
\* except for the ports that SOL took since and those whose last call failed.
THEOREM RoutesAreRemembered == SerialSpec => []RoutesFollowDirection
<1>1. SerialInit => SerialInv
  BY DEF SerialInit, SerialInv, RoutesFollowDirection
<1>2. SerialInv /\ [SerialNext]_serialVars => SerialInv'
  BY SerialStep
<1>3. SerialInv => RoutesFollowDirection
  BY DEF SerialInv
<1> QED BY <1>1, <1>2, <1>3, PTL DEF SerialSpec

\* SOL that is on while the host owns the port is not switched off by a request
\* for the host.
THEOREM SolStaysOn == SerialSpec => SolOutlivesTheHost
<1>1. [SerialNext]_serialVars =>
          [solCtrl = 0 /\ CurSwitchDir = "MUX_2_SYS" => solCtrl' = 0]_serialVars
  BY DEF SerialNext, PDK_SwitchEMPMux, AlreadySwitched, SolControl, serialVars, Dir
<1> QED BY <1>1, PTL DEF SerialSpec, SolOutlivesTheHost


\* Every request feeds a port from a port.
LEMMA RoutesLeadToPorts ==
    ASSUME NEW s \in Superio, NEW dir \in Dir, NEW p \in DOMAIN Routes[s][dir]
    PROVE  Routes[s][dir][p] \in Port
<1>1. \A K \in SUBSET (1 .. 4) : \A q \in DOMAIN Straight(K) : Straight(K)[q] \in Port
  BY DEF Straight, Port, IO, UART
<1>2. ASSUME NEW K \in SUBSET (1 .. 4), NEW n, \A k \in K : n - k \in 1 .. 4,
             NEW q \in DOMAIN Crossed(K, n)
      PROVE  Crossed(K, n)[q] \in Port
  BY <1>2 DEF Crossed, Port, UART
<1>3. \A q \in DOMAIN Ring(3) : Ring(3)[q] \in Port
  BY DEF Ring, Port, IO, UART
<1>4. \A q \in DOMAIN Ring(4) : Ring(4)[q] \in Port
  BY DEF Ring, Port, IO, UART
<1>5. \A q \in DOMAIN Crossed(1 .. 4, 5) : Crossed(1 .. 4, 5)[q] \in Port
  BY <1>2
<1>6. \A q \in DOMAIN Crossed({2, 4}, 6) : Crossed({2, 4}, 6)[q] \in Port
  BY <1>2
<1>7. DOMAIN << >> = {}
  OBVIOUS
<1>8. CASE s = "external"
  BY <1>1, <1>8 DEF Routes, Dir
<1>9. CASE s = "internal"
  BY <1>1, <1>5, <1>7, <1>9 DEF Routes, Dir
<1>10. CASE s = "sharing"
  BY <1>1, <1>4, <1>6, <1>10 DEF Routes, Dir
<1>11. CASE s = "none"
  BY <1>1, <1>3, <1>7, <1>11 DEF Routes, Dir
<1> QED BY <1>8, <1>9, <1>10, <1>11 DEF Superio

\* The router never loses a port and is never fed from outside the ports.
LEMMA SerialTyped == SerialSpec => []SerialTypeOK
<1>1. SerialInit => SerialTypeOK
  BY DEF SerialInit, SerialTypeOK, Dir
<1>2. SerialTypeOK /\ [SerialNext]_serialVars => SerialTypeOK'
  <2> SUFFICES ASSUME SerialTypeOK, [SerialNext]_serialVars PROVE SerialTypeOK'
    OBVIOUS
  <2>1. ASSUME NEW dir \in Dir, PDK_SwitchEMPMux(dir)
        PROVE  SerialTypeOK'
    <3>1. superio \in Superio /\ route \in [Port -> Port \cup {Reset}]
      BY DEF SerialTypeOK
    <3> DEFINE routes == Routes[superio][dir]
    <3>2. superio' = superio /\ SetRoutes(routes)
      BY <2>1, Zenon DEF PDK_SwitchEMPMux
    <3>3. PICK failed \in SUBSET (DOMAIN routes \cap UnreliablePort) :
            /\ unrouted' = (unrouted \ DOMAIN routes) \cup failed
            /\ \E kept \in SUBSET failed : route' = Rewired(routes, kept)
      BY <3>2, Zenon DEF SetRoutes
    <3>4. PICK kept \in SUBSET failed : route' = Rewired(routes, kept)
      BY <3>3, Zenon
    <3>5. ASSUME NEW p \in Port
          PROVE  (IF p \in DOMAIN routes \ kept THEN routes[p] ELSE route[p])
                    \in Port \cup {Reset}
      BY <3>1, RoutesLeadToPorts
    <3>6. unrouted' \subseteq Port
      <4>1. DOMAIN routes \subseteq Port /\ unrouted \subseteq Port
        BY <3>1, RoutesArePorts DEF SerialTypeOK
      <4> HIDE DEF routes
      <4> QED BY <3>3, <4>1
    <3> HIDE DEF routes
    <3>7. route' \in [Port -> Port \cup {Reset}]
      BY <3>4, <3>5 DEF Rewired
    <3>8. solCtrl' \in {0, 1}
      BY <2>1 DEF PDK_SwitchEMPMux, SolControl, SerialTypeOK
    <3>9. /\ CurSwitchDir' \in Dir /\ SerialMuxSetting' \in {0, 1}
          /\ wired' \in Dir \cup {"nothing"}
      BY <2>1 DEF PDK_SwitchEMPMux, SerialTypeOK
    <3>10. solCame' \in BOOLEAN
      BY <2>1, ZenonT(30) DEF PDK_SwitchEMPMux, SerialTypeOK
    <3> QED BY <3>1, <3>2, <3>6, <3>7, <3>8, <3>9, <3>10 DEF SerialTypeOK
  <2>2. CASE UNCHANGED serialVars
    BY <2>2 DEF serialVars, SerialTypeOK
  <2> QED BY <2>1, <2>2 DEF SerialNext
<1> QED BY <1>1, <1>2, PTL DEF SerialSpec

-----------------------------------------------------------------------------
(* The post codes.  As long as no reset falls into a call, the counter     *)
(* counts the calls since the reset and a call uses what it loaded.        *)

SnoopRange ==
    /\ SnoopTypeOK
    /\ timerPc = "load" => g_pdkSnoopCounter < SNOOP_DELAY_TIME
    /\ timerPc = "store" => counterSeen < SNOOP_DELAY_TIME

SnoopInv ==
    /\ SnoopRange
    /\ lastReset = "between_calls" =>
          /\ g_pdkSnoopCounter = ticks
          /\ timerPc = "store" => counterSeen = g_pdkSnoopCounter
          /\ timerPc \in {"read", "mark"} => ticks = SNOOP_DELAY_TIME
          /\ timerPc = "mark" => codes = "this_boot"
          /\ CodesAreOfThisBoot

\* Every step of the snooping of the host keeps the invariant.
LEMMA SnoopStep ==
    ASSUME SnoopInv, [SnoopNext]_snoopVars
    PROVE  SnoopInv'
<1> USE SnoopAssumption DEF SnoopInv, SnoopRange, SnoopTypeOK, CodesAreOfThisBoot
<1>1. CASE PDK_TimerTask
  BY <1>1 DEF PDK_TimerTask
<1>2. CASE CompareCounter
  BY <1>2 DEF CompareCounter
<1>3. CASE LoadCounter
  BY <1>3 DEF LoadCounter
<1>4. CASE StoreCounter
  BY <1>4 DEF StoreCounter
<1>5. CASE ReadPostCodes
  BY <1>5 DEF ReadPostCodes
<1>6. CASE MarkRead
  BY <1>6 DEF MarkRead
<1>7. CASE PDK_LPCReset
  <2>1. /\ ResetOrder[1] = "counter" /\ ResetOrder[2] = "flag" /\ Len(ResetOrder) = 2
    BY DEF ResetOrder
  <2>2. CASE resetPc = 0
    <3>1. g_pdkSnoopCounter' = 0 /\ g_pdkSnoopFlag' = g_pdkSnoopFlag /\ resetPc' = 1
      BY <1>7, <2>1, <2>2 DEF PDK_LPCReset
    <3> QED BY <1>7, <2>2, <3>1 DEF PDK_LPCReset, Falls
  <2>3. CASE resetPc = 1
    <3>1. g_pdkSnoopCounter' = g_pdkSnoopCounter /\ g_pdkSnoopFlag' = 0 /\ resetPc' = 0
      BY <1>7, <2>1, <2>3 DEF PDK_LPCReset
    <3> QED BY <1>7, <2>3, <3>1 DEF PDK_LPCReset, Falls
  <2> QED BY <2>2, <2>3
<1>8. CASE UNCHANGED snoopVars
  BY <1>8 DEF snoopVars
<1> QED BY <1>1, <1>2, <1>3, <1>4, <1>5, <1>6, <1>7, <1>8 DEF SnoopNext

\* The invariant holds of the timer task and the resets.
LEMMA SnoopInvariant == SnoopSpec => []SnoopInv
<1>1. SnoopInit => SnoopInv
  BY SnoopAssumption
     DEF SnoopInit, SnoopInv, SnoopRange, SnoopTypeOK, CodesAreOfThisBoot
<1>2. SnoopInv /\ [SnoopNext]_snoopVars => SnoopInv'
  BY SnoopStep
<1> QED BY <1>1, <1>2, PTL DEF SnoopSpec

\* For every delay: with no reset in the middle of a call, the codes that count as
\* read are those of this boot, read after the whole delay.
THEOREM CodesAreCurrent == SnoopSpec => []CodesAreOfThisBoot
<1>1. SnoopInv => CodesAreOfThisBoot
  BY DEF SnoopInv, CodesAreOfThisBoot
<1> QED BY <1>1, SnoopInvariant, PTL

-----------------------------------------------------------------------------
(* The mail of an alert.  The invariant follows the loop over the users:   *)
(* those before the index do not have the id, and the flag is clear in the *)
(* first pass unless the mail already has the secondary server.            *)

MailInv ==
    /\ MailTypeOK
    /\ mailPc \in {"idle", "fetch", "compare"} => tried = <<>>
    /\ mailPc = "send" => tried = <<>>
    /\ mailPc = "resend" => tried = <<"primary">> /\ server = "secondary"
    /\ mailPc \in {"compare", "send", "resend"} =>
          user <= MaxUsers /\ server \in {"primary", "secondary"}
    /\ mailPc \in {"fetch", "compare", "send", "resend"} =>
          \A i \in 1 .. user - 1 : userTable[i].Id # destination
    /\ mailPc \in {"send", "resend"} =>
          /\ userTable[user].Id = destination
          /\ userTable[user].Enabled /\ userTable[user].Address
    /\ mailPc \in {"compare", "send"} /\ server = "primary" /\ smtpServerFlag = 1 =>
          user > 1
    /\ mailPc \in {"compare", "send"} /\ server = "secondary" => smtpServerFlag = 1
    /\ mailPc = "fetch" /\ smtpServerFlag = 1 => user > 1
    /\ mailPc # "answered" => mailAnswer # "EMAIL_NO_CONNECT"
    /\ mailAnswer = "EMAIL_NO_CONNECT" => tried # <<>>
    /\ MailGoesToItsUser /\ NoConnectionIsExplained
\* A sequence of one gets a second.
LEMMA AppendToOne ==
    ASSUME NEW a, NEW b
    PROVE  Append(<<a>>, b) = <<a, b>>
<1> DEFINE t == Append(<<a>>, b)
<1>1. t \in Seq({a, b}) /\ Len(t) = 2 /\ t[1] = a /\ t[2] = b
  OBVIOUS
<1> HIDE DEF t
<1>2. t = <<a, b>>
  BY <1>1
<1> QED BY <1>2 DEF t

\* The servers that were tried once one more is.
LEMMA OneMoreTried ==
    ASSUME MailInv, mailPc \in {"send", "resend"}, tried' = Append(tried, server)
    PROVE  /\ tried' \in {<<"primary">>, <<"secondary">>, <<"primary", "secondary">>}
           /\ tried' \in Seq({"primary", "secondary"}) /\ Len(tried') <= 2
           /\ tried' # <<>> /\ tried'[Len(tried')] = server
<1>1. CASE mailPc = "send"
  <2>1. tried' = <<server>> /\ server \in {"primary", "secondary"}
    BY <1>1 DEF MailInv
  <2> QED BY <2>1
<1>2. CASE mailPc = "resend"
  <2>1. tried = <<"primary">> /\ server = "secondary"
    BY <1>2 DEF MailInv
  <2>2. tried' = <<"primary", "secondary">>
    BY <2>1, AppendToOne
  <2>3. Len(tried') = 2 /\ tried'[2] = "secondary" /\ tried' # <<>>
    BY <2>2
  <2>4. tried' \in Seq({"primary", "secondary"})
    BY <2>2
  <2>5. tried'[Len(tried')] = server
    BY <2>1, <2>3
  <2> QED BY <2>2, <2>3, <2>4, <2>5
<1> QED BY <1>1, <1>2

\* Every step of the sending of a mail keeps the invariant.
LEMMA MailStep ==
    ASSUME MailInv, [MailNext]_mailVars
    PROVE  MailInv'
<1> USE AlertAssumption
    DEF MailInv, MailTypeOK, Answers, MailGoesToItsUser, NoConnectionIsExplained
<1>1. CASE PDK_Alert
  BY <1>1 DEF PDK_Alert
<1>2. CASE FetchPrimary
  BY <1>2 DEF FetchPrimary
<1>3. CASE FetchSecondary
  BY <1>3 DEF FetchSecondary
<1>4. CASE FetchNothing
  BY <1>4 DEF FetchNothing, AnswerWith
<1>5. CASE NextUser
  BY <1>5 DEF NextUser
<1>6. CASE NoSuchUser
  BY <1>6 DEF NoSuchUser, AnswerWith
<1>7. CASE RefuseUser
  BY <1>7 DEF RefuseUser, AnswerWith
<1>8. CASE FrameMail
  BY <1>8 DEF FrameMail
<1>9. CASE Deliver
  BY <1>9, OneMoreTried DEF Deliver, AnswerWith
<1>10. CASE NoConnection
  <2>1. /\ tried' \in {<<"primary">>, <<"secondary">>, <<"primary", "secondary">>}
        /\ tried' \in Seq({"primary", "secondary"}) /\ Len(tried') <= 2
        /\ tried' # <<>> /\ tried'[Len(tried')] = server
        /\ UNCHANGED <<userTable, destination, selectable, user, smtpServerFlag>>
    BY <1>10, OneMoreTried DEF NoConnection
  <2>2. CASE MayTrySecondary
    <3>1. server = "primary" /\ tried' = <<"primary">>
      BY <1>10, <2>2 DEF MayTrySecondary, NoConnection
    <3> QED BY <1>10, <2>1, <2>2, <3>1 DEF NoConnection, AnswerWith, MayTrySecondary
  <2>3. CASE ~MayTrySecondary
    BY <1>10, <2>1, <2>3 DEF NoConnection, AnswerWith, MayTrySecondary
  <2> QED BY <2>2, <2>3
<1>11. CASE NextAlert
  BY <1>11 DEF NextAlert
<1>12. CASE UNCHANGED mailVars
  BY <1>12 DEF mailVars
<1> QED BY <1>1, <1>2, <1>3, <1>4, <1>5, <1>6, <1>7, <1>8, <1>9, <1>10, <1>11,
           <1>12 DEF MailNext

\* The invariant of the mails, for both of their theorems.
LEMMA MailInvariant == MailSpec => []MailInv
<1>1. MailInit => MailInv
  BY AlertAssumption
     DEF MailInit, MailInv, MailTypeOK, Answers, MailGoesToItsUser, NoConnectionIsExplained
<1>2. MailInv /\ [MailNext]_mailVars => MailInv'
  BY MailStep
<1> QED BY <1>1, <1>2, PTL DEF MailSpec

\* For every table of users: a mail goes to the first user the destination names,
\* and no server is tried twice.
THEOREM MailsReachTheirUser == MailSpec => []MailGoesToItsUser
<1>1. MailInv => MailGoesToItsUser
  BY DEF MailInv
<1> QED BY <1>1, MailInvariant, PTL

\* For every table of users: which servers "no connection" stands for.
THEOREM NoConnectionMeans == MailSpec => []NoConnectionIsExplained
<1>1. MailInv => NoConnectionIsExplained
  BY DEF MailInv
<1> QED BY <1>1, MailInvariant, PTL

-----------------------------------------------------------------------------
(* The fan sensors.  While the hook runs, a tray that is plugged is one    *)
(* that was seen plugged, and the speed is read only behind a presence.    *)

\* A register value survives the way through 16 bits and back if it fits.
LEMMA RawSurvives ==
    ASSUME NEW raw \in Raw, raw * FAN_RPM_MULTIPLIER < WordSize
    PROVE  FanRpmRaw(FanRpm(raw)) = raw
<1> DEFINE rpm == raw * FAN_RPM_MULTIPLIER
<1>1. raw \in Nat /\ rpm \in Nat /\ raw < ByteSize
  BY FanSensorAssumption DEF Raw
<1>2. \A n \in Nat, m \in Nat \ {0} : n < m => n % m = n
  OBVIOUS
<1>3. \A n \in Nat, m \in Nat \ {0} : (n * m) \div m = n
  OBVIOUS
<1>4. rpm % WordSize = rpm
  BY <1>1, <1>2, FanSensorAssumption
<1>5. rpm \div FAN_RPM_MULTIPLIER = raw
  BY <1>1, <1>3, FanSensorAssumption
<1>6. raw % ByteSize = raw
  BY <1>1, <1>2, FanSensorAssumption
<1> QED BY <1>4, <1>5, <1>6 DEF FanRpm, FanRpmRaw

FanSensorInv ==
    /\ FanSensorTypeOK
    /\ postPc # "idle" /\ plugged[sensor[1]] => wasPlugged
    /\ postPc = "rpm" => wasPlugged \/ unread
    /\ CountedReadingIsReal

\* Two sensors, or a sensor and its tray: the parts of a sensor's name.
LEMMA SensorParts == \A s \in FanSensor : s[1] \in Tray /\ s[2] \in Rotor
BY DEF FanSensor

\* Every sample of a tray or a sensor keeps the invariant.
LEMMA FanSensorStep ==
    ASSUME FanSensorInv, [FanSensorNext]_sensorVars
    PROVE  FanSensorInv'
<1> USE DEF FanSensorInv, FanSensorTypeOK
<1>1. CASE PDK_RegisterSensorHooks
  BY <1>1 DEF PDK_RegisterSensorHooks, CountedReadingIsReal
<1>2. ASSUME NEW s \in FanSensor, MonitorSensor(s)
      PROVE  FanSensorInv'
  <2>1. PICK r \in Raw, lost \in BOOLEAN :
          record' = [record EXCEPT ![s] = [Reading |-> r, Unavailable |-> lost, Err |-> lost]]
    BY <1>2 DEF MonitorSensor
  <2>2. record' \in [FanSensor -> [Reading : Raw, Unavailable : BOOLEAN, Err : BOOLEAN]]
    BY <1>2, <2>1
  <2>3. sensor' = s /\ postPc' = "presence" /\ wasPlugged' = plugged[s[1]]
        /\ wasPlugged' \in BOOLEAN /\ unread' = FALSE
        /\ UNCHANGED <<plugged, speed, hooked, result, shownRaw>>
    BY <1>2, SensorParts DEF MonitorSensor
  <2> QED BY <2>2, <2>3 DEF CountedReadingIsReal
<1>3. CASE FindTray
  BY <1>3 DEF FindTray, CountedReadingIsReal
<1>4. CASE FindNoTray
  BY <1>4 DEF FindNoTray, Unavailable, CountedReadingIsReal
<1>5. CASE ReadRpm
  <2>1. /\ postPc' = "idle" /\ result' = "counted" /\ shownRaw' = speed[sensor]
        /\ shownRaw' \in Raw
        /\ UNCHANGED <<plugged, speed, hooked, sensor, wasPlugged, unread>>
    BY <1>5 DEF ReadRpm
  <2>2. FanRpmRaw(FanRpm(speed[sensor])) \in Raw
    <3>1. \A n \in Nat, m \in Nat \ {0} : n % m \in 0 .. m - 1
      OBVIOUS
    <3>2. \A n \in Nat, m \in Nat \ {0} : n \div m \in Nat
      OBVIOUS
    <3>3. speed[sensor] * FAN_RPM_MULTIPLIER \in Nat
      <4>1. speed[sensor] \in Nat /\ FAN_RPM_MULTIPLIER \in Nat
        BY FanSensorAssumption DEF Raw
      <4> QED BY <4>1
    <3>4. FanRpm(speed[sensor]) \in Nat
      BY <3>1, <3>3, FanSensorAssumption DEF FanRpm
    <3>5. FanRpm(speed[sensor]) \div FAN_RPM_MULTIPLIER \in Nat
      BY <3>2, <3>4, FanSensorAssumption
    <3> QED BY <3>1, <3>5, FanSensorAssumption DEF FanRpmRaw, Raw
  <2>3. /\ record' \in [FanSensor -> [Reading : Raw, Unavailable : BOOLEAN, Err : BOOLEAN]]
        /\ record'[sensor].Reading = FanRpmRaw(FanRpm(speed[sensor]))
    BY <1>5, <2>2 DEF ReadRpm
  <2>4. shownRaw' * FAN_RPM_MULTIPLIER < WordSize => record'[sensor].Reading = shownRaw'
    BY <2>1, <2>3, RawSurvives
  <2>5. wasPlugged \/ unread
    BY <1>5 DEF ReadRpm
  <2> QED BY <2>1, <2>3, <2>4, <2>5 DEF CountedReadingIsReal
<1>6. CASE FailToReadRpm
  BY <1>6 DEF FailToReadRpm, Unavailable, CountedReadingIsReal
<1>7. ASSUME NEW t \in Tray, MoveTray(t)
      PROVE  FanSensorInv'
  BY <1>7, SensorParts DEF MoveTray, CountedReadingIsReal
<1>8. ASSUME NEW s \in FanSensor, ChangeSpeed(s)
      PROVE  FanSensorInv'
  BY <1>8 DEF ChangeSpeed, CountedReadingIsReal
<1>9. CASE UNCHANGED sensorVars
  BY <1>9 DEF sensorVars, CountedReadingIsReal
<1> QED BY <1>1, <1>2, <1>3, <1>4, <1>5, <1>6, <1>7, <1>8, <1>9 DEF FanSensorNext

\* The invariant holds of the samples and the trays.
LEMMA FanSensorInvariant == FanSensorSpec => []FanSensorInv
<1>1. FanSensorInit => FanSensorInv
  <2>1. <<1, "FRONT">> \in FanSensor /\ 0 \in Raw
    BY FanSensorAssumption DEF FanSensor, Tray, Rotor, Raw
  <2>2. FanSensorInit => FanSensorTypeOK
    <3>1. FanSensorInit =>
            record \in [FanSensor -> [Reading : Raw, Unavailable : BOOLEAN, Err : BOOLEAN]]
      BY <2>1 DEF FanSensorInit
    <3>2. FanSensorInit => speed \in [FanSensor -> Raw] /\ sensor \in FanSensor
      BY <2>1 DEF FanSensorInit
    <3> QED BY <2>1, <3>1, <3>2 DEF FanSensorInit, FanSensorTypeOK
  <2>3. FanSensorInit => CountedReadingIsReal
    BY DEF FanSensorInit, CountedReadingIsReal
  <2> QED BY <2>2, <2>3 DEF FanSensorInit, FanSensorInv
<1>2. FanSensorInv /\ [FanSensorNext]_sensorVars => FanSensorInv'
  BY FanSensorStep
<1> QED BY <1>1, <1>2, PTL DEF FanSensorSpec

\* For every number of trays and every width: a fan that counts is one that was
\* there, and its reading is its register's.
THEOREM CountedFansAreReal == FanSensorSpec => []CountedReadingIsReal
<1>1. FanSensorInv => CountedReadingIsReal
  BY DEF FanSensorInv
<1> QED BY <1>1, FanSensorInvariant, PTL

-----------------------------------------------------------------------------
(* The LEDs.  A register holds the code of the pattern that was last set   *)
(* with success, and no two patterns of an LED have one code.              *)

\* Two patterns of an LED have two codes.
LEMMA CodesDiffer ==
    ASSUME NEW led \in Led, NEW p \in DOMAIN Code(led), NEW q \in DOMAIN Code(led),
           Code(led)[p] = Code(led)[q]
    PROVE  p = q
<1>1. CASE led = "FrontPanel_SID_LED"
  <2>1. Code(led) = SidCode
    BY <1>1 DEF Code, TrayLed
  <2> QED BY <2>1 DEF SidCode
<1>2. CASE led \in {"FrontPanel_POWER_LED", "FrontPanel_FAN_LED"}
  <2>1. Code(led) = FrontCode
    BY <1>2 DEF Code, TrayLed
  <2> QED BY <2>1 DEF FrontCode
<1>3. CASE led \in TrayLed
  <2>1. Code(led) = TrayCode
    BY <1>3 DEF Code, TrayLed
  <2> QED BY <2>1 DEF TrayCode
<1> QED BY <1>1, <1>2, <1>3 DEF Led, FrontLed

LedInv ==
    /\ asked \subseteq Led /\ DOMAIN ledReg = Led /\ DOMAIN lastSet = Led
    /\ \A led \in Led \ {"FrontPanel_FAN_LED"} : lastSet[led] # "none" =>
          /\ halLoaded
          /\ lastSet[led] \in DOMAIN Code(led)
          /\ ledReg[led].Code = Code(led)[lastSet[led]]
    /\ ledAnswer.Ret = 0 => ledAnswer.Led \in Led
    /\ SetIsReadBack

\* Every LED command keeps the invariant.
LEMMA LedStep ==
    ASSUME LedInv, [LedNext]_ledVars
    PROVE  LedInv'
<1>1. ASSUME NEW led \in asked \cup {NoLed}, GetLEDPatterns(led)
      PROVE  LedInv'
  <2>1. UNCHANGED <<asked, halLoaded, g_LEDTestMode, ledReg, lastSet>>
    BY <1>1 DEF GetLEDPatterns
  <2>2. CASE ledAnswer'.Ret # 0
    BY <2>1, <2>2 DEF LedInv, SetIsReadBack
  <2>3. CASE ledAnswer'.Ret = 0
    <3>1. PICK read, p :
            /\ read \in PldReads(led) /\ p \in Decoded(led, read.value)
            /\ led # NoLed /\ read.ret = 0
            /\ ledAnswer' = LedAnswer(0, led, p)
      BY <1>1, <2>3 DEF GetLEDPatterns, LedAnswer, NoLedAnswer
    <3>2. ledAnswer'.Led = led /\ ledAnswer'.Pattern = p
      BY <3>1 DEF LedAnswer
    <3>3. led \in Led
      BY <3>1 DEF LedInv
    <3>4. ASSUME halLoaded, led # "FrontPanel_FAN_LED", lastSet[led] # "none"
          PROVE  p = lastSet[led]
      <4>1. read.value = ledReg[led]
        BY <3>1, <3>4 DEF PldReads
      <4>2. p \in DOMAIN Code(led) /\ Code(led)[p] = ledReg[led].Code
        BY <3>1, <4>1 DEF Decoded
      <4>3. lastSet[led] \in DOMAIN Code(led)
            /\ ledReg[led].Code = Code(led)[lastSet[led]]
        BY <3>3, <3>4 DEF LedInv
      <4> QED BY <3>3, <4>2, <4>3, CodesDiffer
    <3>5. SetIsReadBack'
      BY <2>1, <3>2, <3>4 DEF SetIsReadBack
    <3> QED BY <2>1, <3>2, <3>3, <3>5 DEF LedInv
  <2>4. ledAnswer'.Ret = 0 \/ ledAnswer'.Ret # 0
    OBVIOUS
  <2> QED BY <2>2, <2>3, <2>4
<1>2. ASSUME NEW led \in asked \cup {NoLed}, NEW pattern \in Pattern,
             SetLEDPatterns(led, pattern)
      PROVE  LedInv'
  <2>1. /\ led \in Led /\ pattern \in DOMAIN Code(led)
        /\ ledAnswer' = NoLedAnswer
        /\ UNCHANGED <<asked, halLoaded, g_LEDTestMode>>
    BY <1>2 DEF SetLEDPatterns, RefuseLEDPattern, LedInv
  <2>2. PICK write \in PldWrites(led, Encoded(led, pattern)) :
          /\ ledReg' = [ledReg EXCEPT ![led] = write.value]
          /\ lastSet' = [lastSet EXCEPT
                 ![led] = IF SetAnswer(led, write.ret) = 0 /\ halLoaded
                          THEN pattern ELSE "none"]
    BY <1>2 DEF SetLEDPatterns
  <2>3. \A other \in Led : other # led =>
          ledReg'[other] = ledReg[other] /\ lastSet'[other] = lastSet[other]
    BY <2>2 DEF LedInv
  <2>4. ASSUME led # "FrontPanel_FAN_LED", lastSet'[led] # "none"
        PROVE  /\ halLoaded /\ lastSet'[led] = pattern
               /\ ledReg'[led].Code = Code(led)[pattern]
    <3>1. halLoaded /\ lastSet'[led] = pattern /\ SetAnswer(led, write.ret) = 0
      BY <2>1, <2>2, <2>4 DEF LedInv
    <3>2. write.ret = 0
      BY <2>4, <3>1 DEF SetAnswer
    <3>3. write.value = Encoded(led, pattern)
      BY <3>1, <3>2 DEF PldWrites
    <3>4. ledReg'[led] = Encoded(led, pattern)
      BY <2>1, <2>2, <3>3 DEF LedInv
    <3> QED BY <3>1, <3>4 DEF Encoded
  <2>5. SetIsReadBack' /\ ledAnswer'.Ret # 0
    BY <2>1 DEF NoLedAnswer, LedAnswer, SetIsReadBack
  <2>6. DOMAIN ledReg' = Led /\ DOMAIN lastSet' = Led /\ asked' \subseteq Led
    BY <2>1, <2>2 DEF LedInv
  <2> QED BY <2>1, <2>3, <2>4, <2>5, <2>6 DEF LedInv
<1>3. ASSUME NEW led \in asked, HardwareChangesLed(led)
      PROVE  LedInv'
  <2>1. PICK v \in Register(led) : ledReg' = [ledReg EXCEPT ![led] = v]
    BY <1>3 DEF HardwareChangesLed
  <2>2. /\ lastSet' = [lastSet EXCEPT ![led] = "none"] /\ ledAnswer' = NoLedAnswer
        /\ UNCHANGED <<asked, halLoaded, g_LEDTestMode>>
    BY <1>3 DEF HardwareChangesLed
  <2>3. SetIsReadBack' /\ ledAnswer'.Ret # 0
    BY <2>2 DEF NoLedAnswer, LedAnswer, SetIsReadBack
  <2> QED BY <2>1, <2>2, <2>3 DEF LedInv
<1>4. CASE SetLEDMode
  BY <1>4 DEF SetLEDMode, LedInv, NoLedAnswer, LedAnswer, SetIsReadBack
<1>5. CASE LoadHal
  BY <1>5 DEF LoadHal, LedInv, NoLedAnswer, LedAnswer, SetIsReadBack
<1>6. CASE UNCHANGED ledVars
  BY <1>6 DEF ledVars, LedInv, SetIsReadBack
<1> QED BY <1>1, <1>2, <1>3, <1>4, <1>5, <1>6 DEF LedNext

\* For every choice of LEDs: what was set with success is what is read back.
THEOREM SetsAreReadBack == LedSpec => []SetIsReadBack
<1>1. LedInit => LedInv
  BY DEF LedInit, LedInv, NoLedAnswer, LedAnswer, SetIsReadBack
<1>2. LedInv /\ [LedNext]_ledVars => LedInv'
  BY LedStep
<1>3. LedInv => SetIsReadBack
  BY DEF LedInv
<1> QED BY <1>1, <1>2, <1>3, PTL DEF LedSpec


\* A register that is read or written takes a code of its LED, and what is
\* decoded is a pattern.
LEMMA CodesOfALed ==
    ASSUME NEW led \in Led
    PROVE  /\ DOMAIN Code(led) \subseteq Pattern
           /\ "LED_OFF" \in DOMAIN Code(led) /\ Code(led)["LED_OFF"] = "OFF"
<1>1. CASE led = "FrontPanel_SID_LED"
  <2>1. Code(led) = SidCode
    BY <1>1 DEF Code, TrayLed
  <2> QED BY <2>1 DEF SidCode, Pattern
<1>2. CASE led \in {"FrontPanel_POWER_LED", "FrontPanel_FAN_LED"}
  <2>1. Code(led) = FrontCode
    BY <1>2 DEF Code, TrayLed
  <2> QED BY <2>1 DEF FrontCode, Pattern
<1>3. CASE led \in TrayLed
  <2>1. Code(led) = TrayCode
    BY <1>3 DEF Code, TrayLed
  <2> QED BY <2>1 DEF TrayCode, Pattern
<1> QED BY <1>1, <1>2, <1>3 DEF Led, FrontLed

\* SOFT_CTRL is a flag that only the trays have.
LEMMA RegisterOfALed ==
    ASSUME NEW led \in Led, NEW p \in DOMAIN Code(led)
    PROVE  Encoded(led, p) \in Register(led)
<1>1. Code(led)[p] \in CodesOf(led)
  BY DEF CodesOf
<1>2. CASE led \in TrayLed
  BY <1>1, <1>2, Zenon DEF Encoded, Register
<1>3. CASE led \notin TrayLed
  <2>1. (led \in TrayLed) = FALSE
    BY <1>3
  <2>2. Encoded(led, p) = [Code |-> Code(led)[p], SoftCtrl |-> FALSE]
    BY <2>1, Zenon DEF Encoded
  <2>3. Register(led) = [Code : CodesOf(led), SoftCtrl : {FALSE}]
    BY <1>3, Zenon DEF Register
  <2> QED BY <1>1, <2>2, <2>3
<1> QED BY <1>2, <1>3

LedRegistersInv == LedTypeOK /\ DOMAIN ledReg = Led

\* The registers hold codes of their LEDs, and the answers name patterns.
LEMMA LedTyped == LedSpec => []LedTypeOK
<1>1. LedInit => LedRegistersInv
  <2> SUFFICES ASSUME LedInit PROVE LedRegistersInv
    OBVIOUS
  <2>1. ASSUME NEW led \in Led PROVE ledReg[led] \in Register(led)
    <3>1. ledReg[led] = [Code |-> "OFF", SoftCtrl |-> FALSE]
      BY DEF LedInit
    <3>2. "OFF" \in CodesOf(led)
      BY CodesOfALed DEF CodesOf
    <3>3. CASE led \in TrayLed
      <4>1. Register(led) = [Code : CodesOf(led), SoftCtrl : BOOLEAN]
        BY <3>3, Zenon DEF Register
      <4> QED BY <3>1, <3>2, <4>1
    <3>4. CASE led \notin TrayLed
      <4>1. Register(led) = [Code : CodesOf(led), SoftCtrl : {FALSE}]
        BY <3>4, Zenon DEF Register
      <4> QED BY <3>1, <3>2, <4>1
    <3> QED BY <3>3, <3>4
  <2>2. /\ ledAnswer \in [Ret : {0, -1}, Led : Led \cup {NoLed},
                          Pattern : Pattern \cup {"none"}]
        /\ lastSet \in [Led -> Pattern \cup {"none"}]
    BY DEF LedInit, NoLedAnswer, LedAnswer
  <2> QED BY <2>1, <2>2 DEF LedInit, LedTypeOK, LedRegistersInv
<1>2. LedRegistersInv /\ [LedNext]_ledVars => LedRegistersInv'
  <2> SUFFICES ASSUME LedRegistersInv, [LedNext]_ledVars PROVE LedRegistersInv'
    OBVIOUS
  <2>0. NoLedAnswer \in [Ret : {0, -1}, Led : Led \cup {NoLed},
                         Pattern : Pattern \cup {"none"}]
    BY DEF NoLedAnswer, LedAnswer
  <2>1. ASSUME NEW led \in asked \cup {NoLed}, GetLEDPatterns(led)
        PROVE  LedRegistersInv'
    <3>1. led \in Led \cup {NoLed}
      BY DEF LedRegistersInv, LedTypeOK
    <3>2. ledAnswer' \in {NoLedAnswer, LedAnswer(-1, led, "none")}
          \/ \E read \in PldReads(led) :
                led # NoLed /\ \E p \in Decoded(led, read.value) :
                    ledAnswer' = LedAnswer(0, led, p)
      BY <2>1 DEF GetLEDPatterns
    <3>3. \A v : led # NoLed => Decoded(led, v) \subseteq Pattern
      BY <3>1, CodesOfALed DEF Decoded
    <3>4. ledAnswer' \in [Ret : {0, -1}, Led : Led \cup {NoLed},
                          Pattern : Pattern \cup {"none"}]
      BY <2>0, <3>1, <3>2, <3>3 DEF LedAnswer
    <3> QED BY <2>1, <3>4 DEF GetLEDPatterns, LedRegistersInv, LedTypeOK
  <2>2. ASSUME NEW led \in asked \cup {NoLed}, NEW pattern \in Pattern,
               SetLEDPatterns(led, pattern)
        PROVE  LedRegistersInv'
    <3>1. led \in Led /\ pattern \in DOMAIN Code(led)
      BY <2>2 DEF SetLEDPatterns, RefuseLEDPattern, LedRegistersInv, LedTypeOK
    <3>2. PICK write \in PldWrites(led, Encoded(led, pattern)) :
            /\ ledReg' = [ledReg EXCEPT ![led] = write.value]
            /\ lastSet' = [lastSet EXCEPT
                   ![led] = IF SetAnswer(led, write.ret) = 0 /\ halLoaded
                            THEN pattern ELSE "none"]
      BY <2>2 DEF SetLEDPatterns
    <3>3. write.value \in {Encoded(led, pattern), ledReg[led]}
      BY DEF PldWrites
    <3>4. write.value \in Register(led)
      BY <3>1, <3>3, RegisterOfALed DEF LedRegistersInv, LedTypeOK
    <3>5. DOMAIN ledReg' = Led /\ \A l \in Led : ledReg'[l] \in Register(l)
      BY <3>1, <3>2, <3>4 DEF LedRegistersInv, LedTypeOK
    <3>6. lastSet' \in [Led -> Pattern \cup {"none"}]
      BY <3>2 DEF LedRegistersInv, LedTypeOK
    <3> QED BY <2>0, <2>2, <3>5, <3>6 DEF SetLEDPatterns, LedRegistersInv, LedTypeOK
  <2>3. ASSUME NEW led \in asked, HardwareChangesLed(led)
        PROVE  LedRegistersInv'
    <3>1. PICK v \in Register(led) : ledReg' = [ledReg EXCEPT ![led] = v]
      BY <2>3 DEF HardwareChangesLed
    <3>2. DOMAIN ledReg' = Led /\ \A l \in Led : ledReg'[l] \in Register(l)
      BY <3>1 DEF LedRegistersInv, LedTypeOK
    <3>3. lastSet' \in [Led -> Pattern \cup {"none"}]
      BY <2>3 DEF HardwareChangesLed, LedRegistersInv, LedTypeOK
    <3> QED BY <2>0, <2>3, <3>2, <3>3 DEF HardwareChangesLed, LedRegistersInv, LedTypeOK
  <2>4. CASE SetLEDMode
    BY <2>0, <2>4 DEF SetLEDMode, LedRegistersInv, LedTypeOK
  <2>5. CASE LoadHal
    BY <2>0, <2>5 DEF LoadHal, LedRegistersInv, LedTypeOK
  <2>6. CASE UNCHANGED ledVars
    BY <2>6 DEF ledVars, LedRegistersInv, LedTypeOK
  <2> QED BY <2>1, <2>2, <2>3, <2>4, <2>5, <2>6 DEF LedNext
<1>3. LedRegistersInv => LedTypeOK
  BY DEF LedRegistersInv
<1> QED BY <1>1, <1>2, <1>3, PTL DEF LedSpec

-----------------------------------------------------------------------------
(* The GPIO interrupts.  The rows are registered from the first on, so     *)
(* that the number of a slot is the number of its row.                     *)

IntInv ==
    /\ m_IntInfo \in {IntTable["plain"], IntTable["gpgpu"]}
    /\ m_total_reg_fds \in Nat /\ row = m_total_reg_fds + 1
    /\ DOMAIN driver = 1 .. m_total_reg_fds
    /\ m_total_reg_fds <= Len(m_IntInfo)
    /\ 1 .. m_total_reg_fds \subseteq DOMAIN pinNum
    /\ \A k \in DOMAIN driver :
          driver[k] = Registration(m_IntInfo[k]) /\ pinNum[k] = m_IntInfo[k].Pin
    /\ regPc = "polling" => fd_to_watch = [k \in 1 .. m_total_reg_fds |-> k]
    /\ regPc # "polling" => fd_to_watch = <<>>
    /\ pipe \in {0, LineOf(handled)}

\* The tables have a length.
LEMMA TablesAreFinite ==
    ASSUME NEW table \in {IntTable["plain"], IntTable["gpgpu"]}
    PROVE  Len(table) \in Nat
<1>1. Len(IntTable["plain"]) = 1
  BY DEF IntTable
<1>2. Len(IntTable["gpgpu"]) = 4
  BY DEF IntTable
<1> QED BY <1>1, <1>2

\* Every row of both tables writes the line of its interrupt.
LEMMA RowsWriteTheirLine ==
    ASSUME NEW table \in {IntTable["plain"], IntTable["gpgpu"]}, NEW k \in 1 .. Len(table)
    PROVE  /\ table[k].Line = LineOf(Registration(table[k]))
           /\ Registration(table[k]).Pin = table[k].Pin
<1>1. CASE table = IntTable["plain"]
  <2>1. table = <<TestRow>> /\ k = 1
    BY <1>1 DEF IntTable
  <2> QED BY <2>1 DEF TestRow, IntRow, LineOf, Registration
<1>2. CASE table = IntTable["gpgpu"]
  <2>1. k \in {1, 2, 3, 4}
    BY <1>2 DEF IntTable
  <2> QED BY <1>2, <2>1 DEF IntTable, TestRow, IntRow, LineOf, Registration
<1> QED BY <1>1, <1>2

\* Every step of the registration and of the handling keeps the invariant.
LEMMA IntStep ==
    ASSUME IntInv, [IntNext]_intVars
    PROVE  IntInv'
<1>1. CASE FailToLoadGpioLibrary
  BY <1>1 DEF FailToLoadGpioLibrary, IntInv
<1>2. CASE BeginRegistration
  BY <1>2 DEF BeginRegistration, IntInv
<1>3. CASE RegisterRow
  <2>1. m_total_reg_fds \in Nat /\ Len(m_IntInfo) \in Nat
    BY TablesAreFinite DEF IntInv
  <2>2. /\ pinNum' = SetSlot(pinNum, row, m_IntInfo[row].Pin)
        /\ driver' = SetSlot(driver, row, Registration(m_IntInfo[row]))
        /\ m_total_reg_fds' = m_total_reg_fds + 1 /\ row' = row + 1
        /\ row <= Len(m_IntInfo) /\ regPc = "rows"
        /\ UNCHANGED <<m_IntInfo, regPc, fd_to_watch, pending, handled, pipe>>
    BY <1>3 DEF RegisterRow, IntInv
  <2>3. 1 .. m_total_reg_fds' = 1 .. m_total_reg_fds \cup {row}
    BY <2>1, <2>2 DEF IntInv
  <2>4. DOMAIN driver' = 1 .. m_total_reg_fds' /\ 1 .. m_total_reg_fds' \subseteq DOMAIN pinNum'
    BY <2>2, <2>3 DEF SetSlot, IntInv
  <2>5. \A k \in DOMAIN driver' :
          driver'[k] = Registration(m_IntInfo[k]) /\ pinNum'[k] = m_IntInfo[k].Pin
    BY <2>2, <2>3, <2>4 DEF SetSlot, IntInv
  <2>6. m_total_reg_fds' <= Len(m_IntInfo) /\ m_total_reg_fds' \in Nat /\ row' = m_total_reg_fds' + 1
    BY <2>1, <2>2 DEF IntInv
  <2> QED BY <2>2, <2>4, <2>5, <2>6 DEF IntInv
<1>4. CASE FailToRegisterRow
  <2>1. /\ pinNum' = SetSlot(pinNum, m_total_reg_fds + 1, m_IntInfo[row].Pin)
        /\ regPc' = "registered" /\ regPc = "rows"
        /\ UNCHANGED <<m_IntInfo, row, m_total_reg_fds, driver, fd_to_watch, pending,
                       handled, pipe>>
    BY <1>4 DEF FailToRegisterRow
  <2>2. \A k \in 1 .. m_total_reg_fds : k \in DOMAIN pinNum' /\ pinNum'[k] = pinNum[k]
    <3>1. m_total_reg_fds + 1 \notin 1 .. m_total_reg_fds
      BY DEF IntInv
    <3> QED BY <2>1, <3>1 DEF SetSlot, IntInv
  <2> QED BY <2>1, <2>2 DEF IntInv
<1>5. CASE EndRegistration
  BY <1>5 DEF EndRegistration, IntInv
<1>6. CASE PDK_RegIntFDs
  BY <1>6 DEF PDK_RegIntFDs, IntInv
<1>7. CASE RaiseInterrupt
  BY <1>7 DEF RaiseInterrupt, IntInv
<1>8. CASE HandleInterrupt
  <2>1. PICK k \in SlotsOf(pending) : pipe' \in {0, PDK_GetIntInfo(k).Line}
    BY <1>8 DEF HandleInterrupt
  <2>2. k \in 1 .. m_total_reg_fds /\ driver[k] = pending
    BY <1>8, <2>1 DEF HandleInterrupt, SlotsOf, IntInv
  <2>3. k \in 1 .. Len(m_IntInfo)
    <3>1. Len(m_IntInfo) \in Nat /\ m_total_reg_fds \in Int
      BY TablesAreFinite DEF IntInv
    <3> QED BY <2>2, <3>1 DEF IntInv
  <2>4. PDK_GetIntInfo(k).Line = LineOf(pending)
    BY <2>2, <2>3, RowsWriteTheirLine DEF PDK_GetIntInfo, IntInv
  <2> QED BY <1>8, <2>1, <2>4 DEF HandleInterrupt, IntInv
<1>9. CASE MissInterrupt
  BY <1>9 DEF MissInterrupt, IntInv
<1>10. CASE UNCHANGED intVars
  BY <1>10 DEF intVars, IntInv
<1> QED BY <1>1, <1>2, <1>3, <1>4, <1>5, <1>6, <1>7, <1>8, <1>9, <1>10 DEF IntNext

\* For every failing registration: the slots that are polled are those of the
\* driver, each with the handler of its row.
THEOREM InterruptsAreHandled == IntSpec => []InterruptsReachTheirHandler
<1>1. IntInit => IntInv
  BY IntAssumption DEF IntInit, IntInv, NoInterrupt, LineOf
<1>2. IntInv /\ [IntNext]_intVars => IntInv'
  BY IntStep
<1>3. IntInv => InterruptsReachTheirHandler
  <2>1. ASSUME IntInv, NEW k \in DOMAIN driver
        PROVE  /\ driver[k] = Registration(PDK_GetIntInfo(k))
               /\ pinNum[k] = driver[k].Pin
    BY <2>1 DEF IntInv, PDK_GetIntInfo, Registration
  <2> QED BY <2>1 DEF IntInv, InterruptsReachTheirHandler
<1> QED BY <1>1, <1>2, <1>3, PTL DEF IntSpec


\* The tables of the builds have rows, and lines that the pipe's reader knows.
LEMMA LinesOfTheTables ==
    ASSUME NEW table \in {IntTable["plain"], IntTable["gpgpu"]}, NEW k \in 1 .. Len(table)
    PROVE  k \in DOMAIN table /\ table[k].Line \in 0 .. 3
<1>1. CASE table = IntTable["plain"]
  <2>1. table = <<TestRow>> /\ k = 1
    BY <1>1 DEF IntTable
  <2> QED BY <2>1 DEF TestRow, IntRow
<1>2. CASE table = IntTable["gpgpu"]
  <2>1. k \in {1, 2, 3, 4}
    BY <1>2 DEF IntTable
  <2> QED BY <1>2, <2>1 DEF IntTable, TestRow, IntRow
<1> QED BY <1>1, <1>2

\* Before the first failure the pins that are noted are those of the slots that
\* are counted; a failure may leave one more behind.
IntSlotsInv ==
    /\ IntInv
    /\ IntTypeOK
    /\ regPc \in {"start", "rows"} => DOMAIN pinNum = 1 .. m_total_reg_fds

\* Every step of the registration and of the handling keeps the types.
LEMMA IntSlotsStep ==
    ASSUME IntSlotsInv, [IntNext]_intVars
    PROVE  IntSlotsInv'
<1>1. IntInv'
  BY IntStep DEF IntSlotsInv
<1>2. Len(m_IntInfo) \in Nat /\ m_total_reg_fds \in Nat
  BY TablesAreFinite DEF IntSlotsInv, IntInv
<1>3. CASE FailToLoadGpioLibrary
  BY <1>1, <1>3 DEF FailToLoadGpioLibrary, IntSlotsInv, IntTypeOK, Interrupt
<1>4. CASE BeginRegistration
  BY <1>1, <1>4 DEF BeginRegistration, IntSlotsInv, IntTypeOK, Interrupt
<1>5. CASE RegisterRow
  <2>1. /\ pinNum' = SetSlot(pinNum, m_total_reg_fds + 1, m_IntInfo[row].Pin)
        /\ m_total_reg_fds' = m_total_reg_fds + 1 /\ row' = row + 1
        /\ row <= Len(m_IntInfo) /\ regPc = "rows"
        /\ UNCHANGED <<m_IntInfo, regPc, fd_to_watch, pending, handled, pipe>>
    BY <1>5 DEF RegisterRow
  <2>2. row = m_total_reg_fds + 1 /\ DOMAIN pinNum = 1 .. m_total_reg_fds
    BY <2>1 DEF IntSlotsInv, IntInv
  <2>3. DOMAIN pinNum' = 1 .. m_total_reg_fds'
    BY <1>2, <2>1, <2>2 DEF SetSlot
  <2>4. m_total_reg_fds' \in 0 .. Len(m_IntInfo) /\ row' \in 1 .. Len(m_IntInfo) + 1
    BY <1>2, <2>1, <2>2
  <2>5. DOMAIN driver' = 1 .. m_total_reg_fds'
    BY <1>1 DEF IntInv
  <2> QED BY <1>1, <2>1, <2>3, <2>4, <2>5 DEF IntSlotsInv, IntTypeOK, Interrupt
<1>6. CASE FailToRegisterRow
  <2>1. /\ pinNum' = SetSlot(pinNum, m_total_reg_fds + 1, m_IntInfo[row].Pin)
        /\ regPc' = "registered" /\ regPc = "rows"
        /\ UNCHANGED <<m_IntInfo, row, m_total_reg_fds, driver, fd_to_watch, pending,
                       handled, pipe>>
    BY <1>6 DEF FailToRegisterRow
  <2>2. DOMAIN pinNum' = 1 .. m_total_reg_fds' + 1
    BY <1>2, <2>1 DEF SetSlot, IntSlotsInv
  <2> QED BY <1>1, <2>1, <2>2 DEF IntSlotsInv, IntTypeOK, Interrupt
<1>7. CASE EndRegistration
  BY <1>1, <1>7 DEF EndRegistration, IntSlotsInv, IntTypeOK, Interrupt
<1>8. CASE PDK_RegIntFDs
  BY <1>1, <1>8 DEF PDK_RegIntFDs, IntSlotsInv, IntTypeOK, Interrupt
<1>9. CASE RaiseInterrupt
  BY <1>1, <1>9 DEF RaiseInterrupt, IntSlotsInv, IntTypeOK, Interrupt
<1>10. CASE HandleInterrupt
  <2>1. PICK k \in SlotsOf(pending) : pipe' \in {0, PDK_GetIntInfo(k).Line}
    BY <1>10 DEF HandleInterrupt
  <2>2. k \in 1 .. Len(m_IntInfo)
    <3>1. k \in 1 .. m_total_reg_fds
      BY <1>10, <2>1 DEF HandleInterrupt, SlotsOf, IntSlotsInv, IntInv
    <3> QED BY <1>2, <3>1 DEF IntSlotsInv, IntInv
  <2>3. pipe' \in 0 .. 3
    BY <2>1, <2>2, LinesOfTheTables DEF PDK_GetIntInfo, IntSlotsInv, IntInv
  <2> QED BY <1>1, <1>10, <2>3 DEF HandleInterrupt, IntSlotsInv, IntTypeOK, Interrupt
<1>11. CASE MissInterrupt
  BY <1>1, <1>11 DEF MissInterrupt, IntSlotsInv, IntTypeOK, Interrupt
<1>12. CASE UNCHANGED intVars
  BY <1>1, <1>12 DEF intVars, IntSlotsInv, IntTypeOK, Interrupt
<1> QED BY <1>3, <1>4, <1>5, <1>6, <1>7, <1>8, <1>9, <1>10, <1>11, <1>12 DEF IntNext

\* The slots are numbered without a gap, and one pin at most is noted too many.
LEMMA IntTyped == IntSpec => []IntTypeOK
<1>1. IntInit => IntSlotsInv
  <2> SUFFICES ASSUME IntInit PROVE IntSlotsInv
    OBVIOUS
  <2>1. m_IntInfo \in {IntTable["plain"], IntTable["gpgpu"]}
    BY IntAssumption DEF IntInit
  <2>2. Len(m_IntInfo) \in Nat
    BY <2>1, TablesAreFinite
  <2>3. DOMAIN << >> = 1 .. 0
    OBVIOUS
  <2>4. IntInv
    BY <2>1, <2>2, <2>3 DEF IntInit, IntInv, NoInterrupt, LineOf
  <2>5. IntTypeOK
    BY <2>2, <2>3 DEF IntInit, IntTypeOK, Interrupt
  <2> QED BY <2>3, <2>4, <2>5 DEF IntInit, IntSlotsInv
<1>2. IntSlotsInv /\ [IntNext]_intVars => IntSlotsInv'
  BY IntSlotsStep
<1>3. IntSlotsInv => IntTypeOK
  BY DEF IntSlotsInv
<1> QED BY <1>1, <1>2, <1>3, PTL DEF IntSpec

-----------------------------------------------------------------------------
(* The FRU records.  A FRU that has no record yet has the offset zero, and *)
(* the record that was placed last ends a prefix behind the offset of the  *)
(* next: the prefix is in the offset of an area, but not in its size.      *)

End(f) == recordArea[f].Offset + recordArea[f].Size

PlacedInv ==
    /\ \A i \in 1 .. recordIdx : recordIds[i] \in RecordFru
    /\ \A i \in 1 .. recordIdx : End(recordIds[i]) <= multiRecOffset + Prefix
    /\ \A f \in RecordFru :
          (\A i \in 1 .. recordIdx : recordIds[i] # f) => recordArea[f].Offset = 0
    /\ AreasInOrder

RecordInv ==
    /\ recordIds \in Seq(RecordFru \cup {NoFru})
    /\ recordIdx \in Nat /\ multiRecOffset \in 0 .. OffsetSize - 1
    /\ recordArea \in [RecordFru -> [Offset : 0 .. OffsetSize - 1, Size : Nat]]
    /\ header.Len \in Nat
    /\ \A i \in 1 .. Len(records) : records[i].Len \in Nat
    /\ orderly => /\ Distinct(recordIds)
                  /\ recordIdx <= Len(recordIds) => PlacedInv

\* An offset fits its word, and one below the word's limit is not cut.
LEMMA WordFits ==
    /\ OffsetSize \in Nat \ {0}
    /\ \A n \in Nat : Word(n) \in 0 .. OffsetSize - 1 /\ (n < OffsetSize => Word(n) = n)
<1>1. OffsetSize \in Nat \ {0}
  BY RecordAssumption
<1>2. \A k \in Nat \ {0} : \A n \in Nat : n % k \in 0 .. k - 1 /\ (n < k => n % k = n)
  OBVIOUS
<1> QED BY <1>1, <1>2 DEF Word

\* The end of an area, compared with two offsets.
LEMMA AtMostIsTransitive ==
    \A a, b, c, d \in Nat : a + b <= c /\ c <= d => a + b <= d
  OBVIOUS

\* The devices are registered with offsets that fit their word.
LEMMA RegisteredType == Registered \subseteq [RecordFru -> [Offset : 0 .. OffsetSize - 1, Size : Nat]]
<1> DEFINE Area(S, T) == [Offset : S, Size : T]
<1>1. FruStart \subseteq 0 .. OffsetSize - 1
  BY RecordAssumption
<1>2. Area(FruStart, {0}) \subseteq Area(0 .. OffsetSize - 1, Nat)
  <2>1. \A S, T, U, V : S \subseteq T /\ U \subseteq V => Area(S, U) \subseteq Area(T, V)
    OBVIOUS
  <2>2. {0} \subseteq Nat
    OBVIOUS
  <2> HIDE DEF Area
  <2> QED BY <1>1, <2>1, <2>2, Zenon
<1> HIDE DEF Area
<1>3. [RecordFru -> Area(FruStart, {0})] \subseteq [RecordFru -> Area(0 .. OffsetSize - 1, Nat)]
  BY <1>2
<1> QED BY <1>3 DEF Registered, Area

\* The calls pass sequences.
LEMMA UpToIsSeq == ASSUME NEW S, NEW s \in UpTo(S, MaxRecords) PROVE s \in Seq(S)
<1>1. PICK k \in 1 .. MaxRecords : s \in [1 .. k -> S]
  BY DEF UpTo
<1>2. k \in Nat
  BY RecordAssumption
<1> QED BY <1>1, <1>2

\* A record that is placed: where it begins, and what stays.
LEMMA PlaceKeepsOrder ==
    ASSUME RecordInv, orderly, NEW len \in Nat, NEW id \in RecordFru,
           recordIdx < Len(recordIds), id = recordIds[recordIdx + 1],
           recordArea' = [recordArea EXCEPT
               ![id].Offset = @ + multiRecOffset + HeaderLen + Prefix, ![id].Size = len],
           multiRecOffset' = multiRecOffset + len + HeaderLen,
           recordIdx' = recordIdx + 1, recordIds' = recordIds
    PROVE  PlacedInv'
<1>1. /\ PlacedInv /\ recordIdx \in Nat /\ recordIdx' \in Nat /\ multiRecOffset \in Nat
      /\ HeaderLen \in Nat /\ Prefix \in Nat
  <2>1. Len(recordIds) \in Nat
    BY DEF RecordInv
  <2>2. recordIdx \in Nat /\ multiRecOffset \in Nat
    BY WordFits DEF RecordInv
  <2>3. recordIdx <= Len(recordIds)
    BY <2>1, <2>2
  <2>4. PlacedInv
    BY <2>3 DEF RecordInv
  <2> QED BY <2>2, <2>4, RecordAssumption
<1>2. 1 .. recordIdx' = 1 .. recordIdx \cup {recordIdx'}
  BY <1>1
<1>3. \A i \in 1 .. recordIdx : recordIds[i] # id
  BY <1>1 DEF RecordInv, Distinct
<1>4. recordArea[id].Offset = 0
  BY <1>1, <1>3 DEF PlacedInv
<1>5. /\ recordArea'[id].Offset = multiRecOffset + HeaderLen + Prefix
      /\ recordArea'[id].Size = len
  BY <1>1, <1>4, WordFits DEF RecordInv
<1>6. \A f \in RecordFru : f # id => recordArea'[f] = recordArea[f]
  BY DEF RecordInv
<1>7. \A i \in 1 .. recordIdx : recordIds[i] \in RecordFru /\ recordArea'[recordIds[i]] = recordArea[recordIds[i]]
  BY <1>1, <1>3, <1>6 DEF PlacedInv
<1>8. \A i \in 1 .. recordIdx' : recordIds'[i] \in RecordFru
  BY <1>2, <1>7
<1>9. \A f \in RecordFru : recordArea[f].Offset \in Nat /\ recordArea[f].Size \in Nat
  BY WordFits DEF RecordInv
<1>10. \A i \in 1 .. recordIdx :
          recordArea[recordIds[i]].Offset + recordArea[recordIds[i]].Size
              <= multiRecOffset + Prefix
  BY <1>1 DEF PlacedInv, End
<1>11. ASSUME NEW i \in 1 .. recordIdx'
       PROVE  recordArea'[recordIds[i]].Offset + recordArea'[recordIds[i]].Size
                  <= multiRecOffset' + Prefix
  <2>1. CASE i \in 1 .. recordIdx
    <3>1. recordArea'[recordIds[i]] = recordArea[recordIds[i]] /\ recordIds[i] \in RecordFru
      BY <1>7, <2>1
    <3>2. recordArea[recordIds[i]].Offset \in Nat /\ recordArea[recordIds[i]].Size \in Nat
      BY <1>9, <3>1
    <3>3. recordArea[recordIds[i]].Offset + recordArea[recordIds[i]].Size
              <= multiRecOffset + Prefix
      BY <1>10, <2>1
    <3>4. multiRecOffset + Prefix <= multiRecOffset' + Prefix
      BY <1>1
    <3>5. multiRecOffset' + Prefix \in Nat /\ multiRecOffset + Prefix \in Nat
      BY <1>1
    <3>6. recordArea[recordIds[i]].Offset + recordArea[recordIds[i]].Size
              <= multiRecOffset' + Prefix
      BY <3>2, <3>3, <3>4, <3>5, AtMostIsTransitive
    <3> QED BY <3>1, <3>6
  <2>2. CASE i = recordIdx'
    BY <1>1, <1>5, <2>2
  <2> QED BY <1>2, <2>1, <2>2
<1>12. ASSUME NEW f \in RecordFru, \A i \in 1 .. recordIdx' : recordIds'[i] # f
       PROVE  recordArea'[f].Offset = 0
  <2>1. f # id
    BY <1>2, <1>12
  <2>2. \A i \in 1 .. recordIdx : recordIds[i] # f
    BY <1>2, <1>12
  <2> QED BY <1>1, <1>6, <2>1, <2>2 DEF PlacedInv
<1>13. ASSUME NEW i \in 1 .. recordIdx', NEW j \in 1 .. recordIdx', i < j
       PROVE  recordArea'[recordIds[i]].Offset + recordArea'[recordIds[i]].Size
                  <= recordArea'[recordIds[j]].Offset
  <2>1. i \in 1 .. recordIdx
    BY <1>1, <1>13
  <2>2. CASE j \in 1 .. recordIdx
    <3>1. recordIdx <= Len(recordIds)
      <4>1. Len(recordIds) \in Nat
        BY DEF RecordInv
      <4> QED BY <1>1, <4>1
    <3>2. recordArea[recordIds[i]].Offset + recordArea[recordIds[i]].Size
              <= recordArea[recordIds[j]].Offset
      BY <1>1, <1>13, <2>1, <2>2, <3>1 DEF PlacedInv, AreasInOrder
    <3> QED BY <1>7, <2>1, <2>2, <3>2
  <2>3. CASE j = recordIdx'
    <3>1. recordArea'[recordIds[i]] = recordArea[recordIds[i]] /\ recordIds[i] \in RecordFru
      BY <1>7, <2>1
    <3>2. recordArea[recordIds[i]].Offset \in Nat /\ recordArea[recordIds[i]].Size \in Nat
      BY <1>9, <3>1
    <3>3. recordArea[recordIds[i]].Offset + recordArea[recordIds[i]].Size
              <= multiRecOffset + Prefix
      BY <1>10, <2>1
    <3>4. recordArea'[recordIds[j]].Offset = multiRecOffset + HeaderLen + Prefix
      BY <1>5, <2>3
    <3>5. recordArea[recordIds[i]].Offset + recordArea[recordIds[i]].Size
              <= multiRecOffset + HeaderLen + Prefix
      <4>1. multiRecOffset + Prefix <= multiRecOffset + HeaderLen + Prefix
        BY <1>1
      <4>2. multiRecOffset + HeaderLen + Prefix \in Nat /\ multiRecOffset + Prefix \in Nat
        BY <1>1
      <4> QED BY <3>2, <3>3, <4>1, <4>2, AtMostIsTransitive
    <3> QED BY <3>1, <3>4, <3>5
  <2> QED BY <1>2, <2>2, <2>3
<1> QED BY <1>8, <1>11, <1>12, <1>13 DEF PlacedInv, End, AreasInOrder

\* Every step of the walk over the records keeps the invariant.
LEMMA RecordStep == RecordInv /\ [RecordNext]_recordVars => RecordInv'
<1> SUFFICES ASSUME RecordInv, [RecordNext]_recordVars PROVE RecordInv'
  OBVIOUS
<1>1. CASE InitMultiRecord
  <2>1. PICK ids \in UpTo(RecordFru \cup {NoFru}, MaxRecords) :
          /\ recordIds' = ids
          /\ orderly' = (/\ Distinct(ids)
                         /\ \A f \in RecordFru : recordArea[f].Offset = 0)
    BY <1>1 DEF InitMultiRecord
  <2>2. /\ recordIdx' = 0 /\ header' \in Header
        /\ multiRecOffset' \in AreaStart
        /\ UNCHANGED <<records, recordArea>>
    BY <1>1 DEF InitMultiRecord
  <2>3. recordIds' \in Seq(RecordFru \cup {NoFru})
    BY <2>1, UpToIsSeq
  <2>4. 1 .. recordIdx' = {}
    BY <2>2
  <2>5. ASSUME orderly'
        PROVE  Distinct(recordIds') /\ \A f \in RecordFru : recordArea'[f].Offset = 0
    BY <2>1, <2>2, <2>5
  <2>6. orderly' => Distinct(recordIds') /\ PlacedInv'
    BY <2>4, <2>5 DEF PlacedInv, AreasInOrder
  <2>7. header'.Len \in Nat /\ multiRecOffset' \in 0 .. OffsetSize - 1
    BY <2>2, RecordAssumption DEF Header
  <2>8. recordIdx' \in Nat
    BY <2>2
  <2> QED BY <2>2, <2>3, <2>6, <2>7, <2>8 DEF RecordInv, Distinct
<1>2. CASE PlaceRecord
  <2>1. PICK h, id :
          /\ h \in HeaderRead /\ id \in IdRead /\ id # NoFru
          /\ recordArea' = [recordArea EXCEPT
                 ![id].Offset = Word(AreaOffset(id)), ![id].Size = h.Len]
          /\ multiRecOffset' = Word(NextOffset(h.Len))
          /\ orderly' = (/\ orderly
                         /\ AreaOffset(id) < OffsetSize /\ NextOffset(h.Len) < OffsetSize)
          /\ header' = NoHeader \/ header' = h
    BY <1>2 DEF PlaceRecord
  <2>2. /\ recordIdx' = recordIdx + 1 /\ UNCHANGED <<records, recordIds>>
        /\ recordPc = "walk"
    BY <1>2 DEF PlaceRecord
  <2>3. recordIdx \in Nat /\ multiRecOffset \in Nat /\ HeaderLen \in Nat /\ Prefix \in Nat
    BY RecordAssumption, WordFits DEF RecordInv
  <2>4. h.Len \in Nat
    <3>1. CASE recordIdx < Len(records)
      <4>1. h \in {records[recordIdx + 1], header}
        BY <2>1, <3>1 DEF HeaderRead
      <4>2. recordIdx + 1 \in 1 .. Len(records)
        BY <2>3, <3>1 DEF RecordInv
      <4> QED BY <4>1, <4>2 DEF RecordInv
    <3>2. CASE ~ (recordIdx < Len(records))
      BY <2>1, <3>2, RecordAssumption DEF HeaderRead, Header
    <3> QED BY <3>1, <3>2
  <2>5. header'.Len \in Nat
    BY <2>1, <2>4 DEF NoHeader
  <2>6. NextOffset(h.Len) \in Nat /\ NextOffset(h.Len) = multiRecOffset + h.Len + HeaderLen
    BY <2>3, <2>4 DEF NextOffset
  <2>10. ASSUME id \in RecordFru
         PROVE  /\ AreaOffset(id) \in Nat
                /\ AreaOffset(id) = recordArea[id].Offset + multiRecOffset + HeaderLen + Prefix
    <3>1. recordArea[id].Offset \in Nat
      BY <2>10, WordFits DEF RecordInv
    <3> QED BY <2>3, <3>1 DEF AreaOffset
  <2>11. recordArea' \in [RecordFru -> [Offset : 0 .. OffsetSize - 1, Size : Nat]]
    <3>1. recordArea \in [RecordFru -> [Offset : 0 .. OffsetSize - 1, Size : Nat]]
      BY DEF RecordInv
    <3> DEFINE o == Word(AreaOffset(id))
    <3>2. id \in RecordFru => o \in 0 .. OffsetSize - 1
      BY <2>10, WordFits
    <3>3. recordArea' = [recordArea EXCEPT ![id].Offset = o, ![id].Size = h.Len]
      BY <2>1
    <3> HIDE DEF o
    <3> QED BY <2>4, <3>1, <3>2, <3>3
  <2>7. multiRecOffset' \in 0 .. OffsetSize - 1 /\ recordIdx' \in Nat
    BY <2>1, <2>2, <2>3, <2>6, WordFits
  <2>8. Len(recordIds) \in Nat
    BY DEF RecordInv
  <2>12. ASSUME orderly'
         PROVE  /\ orderly /\ AreaOffset(id) < OffsetSize /\ NextOffset(h.Len) < OffsetSize
                /\ Distinct(recordIds')
    BY <2>1, <2>2, <2>12 DEF RecordInv
  <2>9. ASSUME orderly', recordIdx' <= Len(recordIds') PROVE PlacedInv'
    <3>1. recordIdx < Len(recordIds)
      BY <2>2, <2>3, <2>8, <2>9
    <3>2. id = recordIds[recordIdx + 1]
      BY <2>1, <3>1 DEF IdRead
    <3>3. recordIdx + 1 \in 1 .. Len(recordIds)
      BY <2>3, <2>8, <3>1
    <3>4. id \in RecordFru
      BY <2>1, <3>2, <3>3 DEF RecordInv
    <3>5. Word(AreaOffset(id)) = recordArea[id].Offset + multiRecOffset + HeaderLen + Prefix
      BY <2>9, <2>10, <2>12, <3>4, WordFits
    <3>6. multiRecOffset' = multiRecOffset + h.Len + HeaderLen
      BY <2>1, <2>6, <2>9, <2>12, WordFits
    <3>7. recordArea' = [recordArea EXCEPT
              ![id].Offset = @ + multiRecOffset + HeaderLen + Prefix, ![id].Size = h.Len]
      BY <2>1, <3>5
    <3> QED BY <2>2, <2>4, <2>9, <2>12, <3>1, <3>2, <3>4, <3>6, <3>7, PlaceKeepsOrder
  <2> QED BY <2>2, <2>5, <2>7, <2>9, <2>11, <2>12 DEF RecordInv, Distinct
<1>3. CASE FailToFindFru
  BY <1>3 DEF FailToFindFru, NoHeader, RecordInv, PlacedInv, AreasInOrder, End, Distinct
<1>4. CASE RestartFru
  <2>1. /\ recordIds' = <<>> /\ recordIdx' = 0 /\ multiRecOffset' = 0 /\ ~orderly'
        /\ recordArea' \in Registered /\ UNCHANGED <<records, header>>
    BY <1>4 DEF RestartFru
  <2> QED BY <2>1, RegisteredType, WordFits DEF RecordInv
<1>5. CASE UNCHANGED recordVars
  BY <1>5 DEF recordVars, RecordInv, PlacedInv, AreasInOrder, End, Distinct
<1> QED BY <1>1, <1>2, <1>3, <1>4, <1>5 DEF RecordNext

\* A platform that starts has placed no record.
LEMMA RecordStart == RecordInit => RecordInv
<1> SUFFICES ASSUME RecordInit PROVE RecordInv
  OBVIOUS
<1>1. records \in Seq(Header)
  BY UpToIsSeq DEF RecordInit
<1>2. \A i \in 1 .. Len(records) : records[i].Len \in Nat
  <2>1. ASSUME NEW i \in 1 .. Len(records) PROVE records[i] \in Header
    BY <1>1, <2>1
  <2>2. \A h \in Header : h.Len \in Nat
    BY RecordAssumption DEF Header
  <2> QED BY <2>1, <2>2
<1>3. recordIdx = 0 /\ multiRecOffset = 0 /\ recordIds = <<>> /\ header.Len = 0
  BY DEF RecordInit, NoHeader
<1>4. recordIds \in Seq(RecordFru \cup {NoFru})
  BY <1>3
<1>5. recordArea \in [RecordFru -> [Offset : 0 .. OffsetSize - 1, Size : Nat]] /\ ~orderly
  BY RegisteredType DEF RecordInit
<1> QED BY <1>2, <1>3, <1>4, <1>5, WordFits DEF RecordInv

\* For every device, every header that cannot be read and every list of distinct ids,
\* unless an offset wraps: the records that are placed do not overlap.
THEOREM AreasKeepOrder == RecordSpec => []AreasInOrder
<1>1. RecordInit => RecordInv
  BY RecordStart
<1>2. RecordInv /\ [RecordNext]_recordVars => RecordInv'
  BY RecordStep
<1>3. RecordInv => AreasInOrder
  BY DEF RecordInv, PlacedInv, AreasInOrder
<1> QED BY <1>1, <1>2, <1>3, PTL DEF RecordSpec

\* What the one byte of the count holds after a record.
LEMMA CountDown ==
    ASSUME NEW n \in 0 .. CountSize - 1
    PROVE  /\ n = 0 => (n + CountSize - 1) % CountSize = CountSize - 1
           /\ n # 0 => (n + CountSize - 1) % CountSize = n - 1
<1>1. CountSize \in Nat \ {0}
  BY RecordAssumption
<1>2. CASE n = 0
  BY <1>1, <1>2
<1>3. CASE n # 0
  <2>1. \A c \in Nat \ {0} : \A m \in 0 .. c - 1 : (m + c) % c = m
    OBVIOUS
  <2>2. n - 1 \in 0 .. CountSize - 1
    BY <1>1, <1>3
  <2>3. ((n - 1) + CountSize) % CountSize = n - 1
    BY <1>1, <2>1, <2>2
  <2>4. n + CountSize - 1 = (n - 1) + CountSize
    BY <1>1
  <2> QED BY <1>3, <2>3, <2>4
<1> QED BY <1>2, <1>3

\* A walk begins with the count at zero or at the number of the ids, and a zero
\* wraps with the first record: the records walked over and those to come are
\* never more than the byte can count.
RecordCountInv ==
    /\ RecordInv
    /\ RecordTypeOK
    /\ recordPc = "walk" =>
          /\ header \in Header
          /\ numMultiRec = 0 => recordIdx = 0
          /\ recordIdx + numMultiRec <= CountSize

\* The counters after a record that is placed.
LEMMA PlaceCounts ==
    ASSUME RecordCountInv, recordPc = "walk"
    PROVE  /\ Remaining \in 0 .. CountSize - 1
           /\ recordIdx + 1 \in 0 .. CountSize
           /\ recordIdx + 1 + Remaining <= CountSize
<1>1. CountSize \in Nat /\ CountSize >= 2
  BY RecordAssumption
<1>2. /\ numMultiRec \in 0 .. CountSize - 1 /\ recordIdx \in 0 .. CountSize
      /\ numMultiRec = 0 => recordIdx = 0
      /\ recordIdx + numMultiRec <= CountSize
  BY DEF RecordCountInv, RecordTypeOK
<1>3. CASE numMultiRec = 0
  <2>1. Remaining = CountSize - 1
    BY <1>2, <1>3, CountDown DEF Remaining
  <2> QED BY <1>1, <1>2, <1>3, <2>1
<1>4. CASE numMultiRec # 0
  <2>1. Remaining = numMultiRec - 1
    BY <1>2, <1>4, CountDown DEF Remaining
  <2> QED BY <1>1, <1>2, <1>4, <2>1
<1> QED BY <1>3, <1>4

\* Every step of the walk keeps the counters and the types.
LEMMA RecordCountStep ==
    ASSUME RecordCountInv, [RecordNext]_recordVars
    PROVE  RecordCountInv'
<1>1. RecordInv'
  BY RecordStep DEF RecordCountInv
<1>2. /\ recordArea' \in [RecordFru -> [Offset : 0 .. OffsetSize - 1, Size : Nat]]
      /\ multiRecOffset' \in 0 .. OffsetSize - 1
  BY <1>1 DEF RecordInv
<1>3. /\ CountSize \in Nat /\ MaxRecords \in Nat /\ MaxRecords <= CountSize - 1
      /\ 0 \in 0 .. CountSize - 1 /\ 0 \in 0 .. CountSize
  BY RecordAssumption
<1>4. CASE InitMultiRecord
  <2>1. PICK ids \in UpTo(RecordFru \cup {NoFru}, MaxRecords), zero \in BOOLEAN :
          numMultiRec' = IF zero THEN 0 ELSE Len(ids)
    BY <1>4 DEF InitMultiRecord
  <2>2. Len(ids) \in 1 .. MaxRecords
    <3>1. PICK k \in 1 .. MaxRecords : ids \in [1 .. k -> RecordFru \cup {NoFru}]
      BY DEF UpTo
    <3> QED BY <1>3, <3>1
  <2>3. numMultiRec' \in 0 .. CountSize - 1
    BY <1>3, <2>1, <2>2
  <2>4. recordIdx' = 0 /\ recordPc' = "walk" /\ header' \in Header
        /\ orderly' \in BOOLEAN /\ records' = records
    BY <1>4 DEF InitMultiRecord
  <2>6. calls' \in 0 .. MaxCalls
    BY <1>4, RecordAssumption DEF InitMultiRecord, RecordCountInv, RecordTypeOK
  <2>5. recordIdx' + numMultiRec' <= CountSize /\ recordIdx' \in 0 .. CountSize
    <3>1. recordIdx' = 0
      BY <2>4
    <3>2. \A n \in 0 .. CountSize - 1 : 0 + n <= CountSize
      BY <1>3
    <3> QED BY <1>3, <2>3, <3>1, <3>2
  <2> QED BY <1>1, <1>2, <2>3, <2>4, <2>5, <2>6 DEF RecordCountInv, RecordTypeOK
<1>5. CASE PlaceRecord
  <2>1. PICK h \in HeaderRead :
          \/ recordPc' = "idle" /\ header' = NoHeader
          \/ recordPc' = "walk" /\ header' = h /\ Remaining # 0
    BY <1>5 DEF PlaceRecord
  <2>2. recordPc = "walk" /\ recordIdx' = recordIdx + 1 /\ numMultiRec' = Remaining
        /\ UNCHANGED <<records, calls>>
    BY <1>5 DEF PlaceRecord
  <2>7. orderly' \in BOOLEAN
    BY <1>5 DEF PlaceRecord
  <2>3. h \in Header
    <3>1. records \in Seq(Header) /\ header \in Header /\ recordIdx \in 0 .. CountSize
      BY <2>2, UpToIsSeq DEF RecordCountInv, RecordTypeOK
    <3>2. recordIdx < Len(records) => recordIdx + 1 \in 1 .. Len(records)
      BY <1>3, <3>1
    <3> QED BY <3>1, <3>2 DEF HeaderRead
  <2>4. /\ numMultiRec' \in 0 .. CountSize - 1 /\ recordIdx' \in 0 .. CountSize
        /\ recordIdx' + numMultiRec' <= CountSize
    BY <2>2, PlaceCounts
  <2>5. recordPc' = "walk" => header' \in Header /\ numMultiRec' # 0
    BY <2>1, <2>2, <2>3
  <2>6. recordPc' \in {"idle", "walk"} /\ header' \in Header \cup {NoHeader}
    BY <2>1, <2>3
  <2> QED BY <1>1, <1>2, <2>2, <2>4, <2>5, <2>6, <2>7 DEF RecordCountInv, RecordTypeOK
<1>6. CASE FailToFindFru
  BY <1>1, <1>6 DEF FailToFindFru, RecordCountInv, RecordTypeOK
<1>7. CASE RestartFru
  <2>1. /\ recordPc' = "idle" /\ recordIdx' = 0 /\ numMultiRec' = 0 /\ ~orderly'
        /\ calls' = 0 /\ UNCHANGED <<records, header>>
    BY <1>7 DEF RestartFru
  <2>2. orderly' \in BOOLEAN
    BY <1>7, Zenon DEF RestartFru
  <2>3. 0 \in 0 .. MaxCalls
    BY RecordAssumption
  <2> QED BY <1>1, <1>2, <1>3, <2>1, <2>2, <2>3 DEF RecordCountInv, RecordTypeOK
<1>8. CASE UNCHANGED recordVars
  BY <1>1, <1>8 DEF recordVars, RecordCountInv, RecordTypeOK
<1> QED BY <1>4, <1>5, <1>6, <1>7, <1>8 DEF RecordNext

\* Also with a count that begins at zero and wraps: the walk counts no more
\* records than its byte has values.
LEMMA RecordTyped == RecordSpec => []RecordTypeOK
<1>1. RecordInit => RecordCountInv
  <2> SUFFICES ASSUME RecordInit PROVE RecordCountInv
    OBVIOUS
  <2>1. RecordInv
    BY RecordStart
  <2>2. 0 \in 0 .. CountSize - 1 /\ 0 \in 0 .. CountSize
    BY RecordAssumption
  <2>3. /\ recordArea \in [RecordFru -> [Offset : 0 .. OffsetSize - 1, Size : Nat]]
        /\ multiRecOffset \in 0 .. OffsetSize - 1 /\ 0 \in 0 .. MaxCalls
    BY <2>1, RecordAssumption DEF RecordInv
  <2>4. RecordTypeOK
    BY <2>2, <2>3 DEF RecordInit, RecordTypeOK
  <2>5. recordPc = "idle"
    BY DEF RecordInit
  <2> QED BY <2>1, <2>4, <2>5 DEF RecordCountInv
<1>2. RecordCountInv /\ [RecordNext]_recordVars => RecordCountInv'
  BY RecordCountStep
<1>3. RecordCountInv => RecordTypeOK
  BY DEF RecordCountInv
<1> QED BY <1>1, <1>2, <1>3, PTL DEF RecordSpec

=============================================================================
