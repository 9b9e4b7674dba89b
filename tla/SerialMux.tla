------------------------------ MODULE SerialMux ------------------------------
(***************************************************************************)
(* PDK_SwitchEMPMux: who owns the serial port of the board - the BMC, the  *)
(* host system, or Serial over LAN.  A request rewrites some routes of the *)
(* LPC UART router and leaves the others as earlier requests left them,    *)
(* and only some requests are remembered in CurSwitchDir, on which the     *)
(* function returns early.  The board's build decides which of the four    *)
(* sets of routes is compiled in.                                          *)
(***************************************************************************)
EXTENDS Naturals

CONSTANT UnreliablePort    \* bound: the destinations whose routes may fail

VARIABLES
    superio,           \* which CONFIG_SPX_FEATURE_SOL_* the build has
    CurSwitchDir,      \* SerialConfig.CurSwitchDir
    SerialMuxSetting,  \* bit 0 of SerialMuxSetting: the BMC owns the port
    solCtrl,           \* CPLD_B_SOL_CTRL: 0 enables SOL, 1 disables it
    route,             \* the router: [destination port -> source port]
    unrouted,          \* history: destinations whose last call of the router failed
    wired,             \* history: the last remembered direction carried out
    solCame            \* history: SOL's routes were written since then

serialVars == <<superio, CurSwitchDir, SerialMuxSetting, solCtrl, route, unrouted,
                wired, solCame>>

Dir == {"MUX_2_BMC", "MUX_2_SYS", "MUX_2_SOL"}
Superio == {"external", "internal", "sharing", "none"}

IO(k) == <<"IO", k>>
UART(k) == <<"UART", k>>
Port == {"IO", "UART"} \X (1 .. 4)
Reset == <<"reset", 0>>

-----------------------------------------------------------------------------
(* The routes of a request, by destination.                                *)

\* COMk and UARTk feed each other.
Straight(K) ==
    [p \in {"IO", "UART"} \X K |-> IF p[1] = "IO" THEN UART(p[2]) ELSE IO(p[2])]
\* Of the UARTs K, two whose numbers add up to n feed each other.
Crossed(K, n) == [p \in {"UART"} \X K |-> UART(n - p[2])]
\* COM3 is fed by UART1, UART1 by UARTk, and UARTk by COM3.
Ring(k) ==
    [p \in {IO(3), UART(1), UART(k)} |->
        IF p = IO(3) THEN UART(1) ELSE IF p = UART(1) THEN UART(k) ELSE IO(3)]

Routes ==
    [external |-> [d \in Dir |-> Straight(1 .. 4)],
     internal |->
        [MUX_2_BMC |-> <<>>,
         MUX_2_SYS |-> Straight({1}),
         MUX_2_SOL |-> Crossed(1 .. 4, 5)],
     sharing |->
        [MUX_2_BMC |-> Straight({1, 3}),
         MUX_2_SYS |-> Ring(4),
         MUX_2_SOL |-> Crossed({2, 4}, 6)],
     none |->
        [MUX_2_BMC |-> Straight({1, 3}),
         MUX_2_SYS |-> Ring(3),
         MUX_2_SOL |-> <<>>]]

\* The requests that CurSwitchDir and SerialMuxSetting remember: never SOL,
\* and not the BMC's where it is refused as not supported.
Remembered(dir) ==
    dir # "MUX_2_SOL" /\ ~(superio = "internal" /\ dir = "MUX_2_BMC")

-----------------------------------------------------------------------------
(* The stack sets CurSwitchDir and the setting before the first request,   *)
(* to an owner; the router and the CPLD come up with their own defaults.   *)
SerialInit ==
    /\ superio \in Superio
    /\ CurSwitchDir \in {"MUX_2_BMC", "MUX_2_SYS"}
    /\ SerialMuxSetting \in {0, 1}
    /\ solCtrl \in {0, 1}
    /\ route = [p \in Port |-> Reset]
    /\ unrouted = {}
    /\ wired = "nothing"
    /\ solCame = FALSE

\* Mutation: the early return is left out.
NeverSwitched(dir) == FALSE

\* if(Direction==CurSwitchDir)return;
AlreadySwitched(dir) == dir = CurSwitchDir

\* The request's routes are written over those that are there, by one call of
\* lpcuart_route_set for each.  Nothing looks at the results: a call that fails
\* keeps its route, or has set it all the same.
Rewired(routes, kept) ==
    [p \in Port |-> IF p \in DOMAIN routes \ kept THEN routes[p] ELSE route[p]]
SetRoutes(routes) ==
    \E failed \in SUBSET (DOMAIN routes \cap UnreliablePort) :
        /\ unrouted' = (unrouted \ DOMAIN routes) \cup failed
        /\ \E kept \in SUBSET failed : route' = Rewired(routes, kept)

\* The external super I/O also has its SOL circuit switched, by the BMC's
\* request not.
SolControl(dir) ==
    IF superio # "external" THEN solCtrl
    ELSE CASE dir = "MUX_2_SYS" -> 1 [] dir = "MUX_2_SOL" -> 0 [] OTHER -> solCtrl

\* Mutation: the direction is remembered for every request.
SwitchAndRemember(dir) ==
    /\ ~AlreadySwitched(dir)
    /\ SetRoutes(Routes[superio][dir])
    /\ solCtrl' \in {SolControl(dir), solCtrl}
    /\ CurSwitchDir' = dir
    /\ SerialMuxSetting' = IF dir = "MUX_2_BMC" THEN 1 ELSE SerialMuxSetting
    /\ IF Remembered(dir)
       THEN wired' = dir /\ solCame' = FALSE
       ELSE UNCHANGED wired /\ solCame' = (solCame \/ dir = "MUX_2_SOL")
    /\ UNCHANGED superio

PDK_SwitchEMPMux(dir) ==
    /\ ~AlreadySwitched(dir)
    /\ SetRoutes(Routes[superio][dir])
    /\ solCtrl' \in {SolControl(dir), solCtrl}   \* a failed write is ignored
    /\ IF Remembered(dir)
       THEN /\ CurSwitchDir' = dir
            /\ SerialMuxSetting' = IF dir = "MUX_2_BMC" THEN 1 ELSE 0
            /\ wired' = dir
            /\ solCame' = FALSE
       ELSE /\ UNCHANGED <<CurSwitchDir, SerialMuxSetting, wired>>
            /\ solCame' = (solCame \/ dir = "MUX_2_SOL")
    /\ UNCHANGED superio

SerialNext == \E dir \in Dir : PDK_SwitchEMPMux(dir)
SerialSpec == SerialInit /\ [][SerialNext]_serialVars

-----------------------------------------------------------------------------
(* Properties                                                              *)

\* Every route is unset or leads from one port to another.
SerialTypeOK ==
    /\ superio \in Superio
    /\ CurSwitchDir \in Dir
    /\ SerialMuxSetting \in {0, 1} /\ solCtrl \in {0, 1}
    /\ route \in [Port -> Port \cup {Reset}]
    /\ unrouted \subseteq Port
    /\ wired \in Dir \cup {"nothing"}
    /\ solCame \in BOOLEAN

\* The direction that is remembered is the one that is wired and the setting names
\* it.  A route of it is out of force for two reasons only: a SOL request came since
\* and needs the same port, or the last call for its destination failed, which the
\* code does not look at and no request for the same direction repeats.
RoutesFollowDirection ==
    wired # "nothing" =>
        /\ CurSwitchDir = wired
        /\ SerialMuxSetting = IF wired = "MUX_2_BMC" THEN 1 ELSE 0
        /\ \A p \in DOMAIN Routes[superio][wired] \ unrouted :
              \/ route[p] = Routes[superio][wired][p]
              \/ /\ solCame
                 /\ p \in DOMAIN Routes[superio]["MUX_2_SOL"]
                 /\ route[p] = Routes[superio]["MUX_2_SOL"][p]

\* SOL that is enabled while the host is remembered as the owner stays enabled
\* until the BMC has been the owner in between: a request for the host returns
\* early and disables nothing.
SolOutlivesTheHost ==
    [][solCtrl = 0 /\ CurSwitchDir = "MUX_2_SYS" => solCtrl' = 0]_serialVars
=============================================================================
