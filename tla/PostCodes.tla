------------------------------ MODULE PostCodes ------------------------------
(***************************************************************************)
(* The post codes of the host: PDK_TimerTask of PDKHooks.c, which the      *)
(* message handler calls every second, waits SNOOP_DELAY_TIME seconds      *)
(* after a reset of the LPC bus, reads the codes once and sets a flag;     *)
(* PDK_LPCReset clears the counter and the flag.  The core calls it on its *)
(* own, and nothing guards the two globals.                                *)
(***************************************************************************)
EXTENDS Naturals, Sequences

CONSTANT SNOOP_DELAY_TIME      \* 60 in the source

ASSUME SnoopAssumption == SNOOP_DELAY_TIME \in Nat

VARIABLES
    g_pdkSnoopCounter, g_pdkSnoopFlag,
    timerPc,           \* where PDK_TimerTask is
    counterSeen,       \* the counter as it loaded it
    resetPc,           \* how many of its writes PDK_LPCReset has made
    codes,             \* history: of which boot the codes were last read
    ticks,             \* history: the calls since the reset that counted a second
    waited,            \* history: what ticks was when the codes were read
    lastReset          \* history: "within_a_call" if any of its writes was, or
                       \* "between_calls"

snoopVars == <<g_pdkSnoopCounter, g_pdkSnoopFlag, timerPc, counterSeen, resetPc,
               codes, ticks, waited, lastReset>>

SnoopInit ==
    /\ g_pdkSnoopCounter = 0 /\ g_pdkSnoopFlag = 0
    /\ timerPc = "idle" /\ counterSeen = 0 /\ resetPc = 0
    /\ codes = "none" /\ ticks = 0 /\ waited = 0
    /\ lastReset = "between_calls"

-----------------------------------------------------------------------------
(* PDK_TimerTask                                                           *)

PDK_TimerTask ==
    /\ timerPc = "idle"
    /\ timerPc' = IF g_pdkSnoopFlag = 1 THEN "idle" ELSE "compare"
    /\ UNCHANGED <<g_pdkSnoopCounter, g_pdkSnoopFlag, counterSeen, resetPc, codes,
                   ticks, waited, lastReset>>

CompareCounter ==
    /\ timerPc = "compare"
    /\ timerPc' = IF g_pdkSnoopCounter < SNOOP_DELAY_TIME THEN "load" ELSE "read"
    /\ UNCHANGED <<g_pdkSnoopCounter, g_pdkSnoopFlag, counterSeen, resetPc, codes,
                   ticks, waited, lastReset>>

\* g_pdkSnoopCounter ++ loads and stores.
LoadCounter ==
    /\ timerPc = "load"
    /\ counterSeen' = g_pdkSnoopCounter
    /\ timerPc' = "store"
    /\ UNCHANGED <<g_pdkSnoopCounter, g_pdkSnoopFlag, resetPc, codes, ticks, waited,
                   lastReset>>

StoreCounter ==
    /\ timerPc = "store"
    /\ g_pdkSnoopCounter' = counterSeen + 1
    /\ ticks' = IF ticks < SNOOP_DELAY_TIME THEN ticks + 1 ELSE ticks
    /\ timerPc' = "idle"
    /\ UNCHANGED <<g_pdkSnoopFlag, counterSeen, resetPc, codes, waited, lastReset>>

\* An error and an empty buffer are printed, and the codes count as read.
ReadPostCodes ==
    /\ timerPc = "read"
    /\ codes' = "this_boot"
    /\ waited' = ticks
    /\ timerPc' = "mark"
    /\ UNCHANGED <<g_pdkSnoopCounter, g_pdkSnoopFlag, counterSeen, resetPc, ticks, lastReset>>

MarkRead ==
    /\ timerPc = "mark"
    /\ g_pdkSnoopFlag' = 1
    /\ timerPc' = "idle"
    /\ UNCHANGED <<g_pdkSnoopCounter, counterSeen, resetPc, codes, ticks, waited, lastReset>>

-----------------------------------------------------------------------------
(* PDK_LPCReset: one write per step.  The initialization agent that it     *)
(* runs then belongs to the core.                                          *)

\* Mutation: the flag is cleared first.
FlagFirst == <<"flag", "counter">>

ResetOrder == <<"counter", "flag">>

Falls == IF timerPc = "idle" THEN "between_calls" ELSE "within_a_call"

PDK_LPCReset ==
    /\ g_pdkSnoopCounter' =
           IF ResetOrder[resetPc + 1] = "counter" THEN 0 ELSE g_pdkSnoopCounter
    /\ g_pdkSnoopFlag' = IF ResetOrder[resetPc + 1] = "flag" THEN 0 ELSE g_pdkSnoopFlag
    /\ resetPc' = (resetPc + 1) % Len(ResetOrder)
    /\ IF resetPc = 0
       THEN /\ codes' = IF codes = "none" THEN "none" ELSE "earlier_boot"
            /\ ticks' = 0 /\ waited' = 0
            /\ lastReset' = Falls
       ELSE /\ lastReset' = IF Falls = "within_a_call" THEN Falls ELSE lastReset
            /\ UNCHANGED <<codes, ticks, waited>>
    /\ UNCHANGED <<timerPc, counterSeen>>

SnoopNext ==
    \/ PDK_TimerTask \/ CompareCounter \/ LoadCounter \/ StoreCounter
    \/ ReadPostCodes \/ MarkRead
    \/ PDK_LPCReset
SnoopSpec == SnoopInit /\ [][SnoopNext]_snoopVars

-----------------------------------------------------------------------------
(* Properties                                                              *)

\* The counter stays under its bound, also with a store that a reset overtakes.
SnoopTypeOK ==
    /\ g_pdkSnoopCounter \in 0 .. SNOOP_DELAY_TIME /\ g_pdkSnoopFlag \in {0, 1}
    /\ timerPc \in {"idle", "compare", "load", "store", "read", "mark"}
    /\ counterSeen \in 0 .. SNOOP_DELAY_TIME
    /\ resetPc \in 0 .. 1
    /\ codes \in {"none", "this_boot", "earlier_boot"}
    /\ ticks \in 0 .. SNOOP_DELAY_TIME /\ waited \in 0 .. SNOOP_DELAY_TIME
    /\ lastReset \in {"between_calls", "within_a_call"}

\* With the flag set, the codes that were read are those since the last reset,
\* and they were read only after the whole delay - also for a call that begins
\* between the two writes of a reset.  A reset in the middle of a call is the
\* exception: that call may mark what it read before, or bring back the counter.
CodesAreOfThisBoot ==
    lastReset = "between_calls" =>
        /\ g_pdkSnoopFlag = 1 /\ resetPc = 0 => codes = "this_boot"
        /\ codes = "this_boot" => waited = SNOOP_DELAY_TIME
=============================================================================
