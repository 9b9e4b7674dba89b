--------------------------- MODULE GpioInterrupts ---------------------------
(***************************************************************************)
(* The GPIO interrupts of PDKInt.c: PDK_RegGPIOInts registers the rows of  *)
(* m_IntInfo with the GPIO driver, PDK_RegIntFDs hands the descriptors to  *)
(* the stack's interrupt task, and that task finds the handler of a        *)
(* descriptor with PDK_GetIntInfo.  Three of the four rows belong to the   *)
(* FPGA and write the number of their line to a pipe; two of them are the  *)
(* same pin, once per level.                                               *)
(***************************************************************************)
EXTENDS Integers, Sequences

CONSTANT IntTableChoice   \* the builds, by their tables of interrupts

ASSUME IntAssumption == IntTableChoice \subseteq {"plain", "gpgpu"}

VARIABLES
    m_IntInfo,         \* the table of the build
    regPc, row,        \* PDK_RegGPIOInts: where it is, and its loop index from 1
    m_total_reg_fds,
    pinNum,            \* the pins handed back to the stack, by slot
    driver,            \* the driver's registrations, by slot
    fd_to_watch,       \* the slots that the interrupt task polls
    pending,           \* the interrupt that the hardware raised, if any
    handled,           \* history: the last interrupt that was handled
    pipe               \* the line that its handler wrote, 0 if none

intVars == <<m_IntInfo, regPc, row, m_total_reg_fds, pinNum, driver,
             fd_to_watch, pending, handled, pipe>>

-----------------------------------------------------------------------------
(* The table.  A row: its pin, when it triggers, and the line its handler  *)
(* writes (0: PDK_SensorInterruptHandler, which only prints).              *)

IntRow(pin, trigger, line) == [Pin |-> pin, Trigger |-> trigger, Line |-> line]
TestRow == IntRow("GPIO_BMC_INT_TEST1", "RISING_EDGE", 0)
IntTable ==
    [plain |-> <<TestRow>>,
     gpgpu |-> <<TestRow,
                 IntRow("BMC_I2C0_FPGA_ALERT_L_I", "HIGH_LEVEL", 1),
                 IntRow("BMC_I2C1_FPGA_ALERT_L_I", "HIGH_LEVEL", 2),
                 IntRow("BMC_I2C1_FPGA_ALERT_L_I", "LOW_LEVEL", 3)>>]

\* The line that the FPGA's reader of the pipe understands for a pin and level.
LineOf(interrupt) ==
    CASE interrupt.Pin = "BMC_I2C0_FPGA_ALERT_L_I" -> 1
      [] interrupt.Pin = "BMC_I2C1_FPGA_ALERT_L_I" /\ interrupt.Trigger = "HIGH_LEVEL" -> 2
      [] interrupt.Pin = "BMC_I2C1_FPGA_ALERT_L_I" /\ interrupt.Trigger = "LOW_LEVEL" -> 3
      [] OTHER -> 0

NoInterrupt == [Pin |-> "none", Trigger |-> "none"]

IntInit ==
    /\ m_IntInfo \in {IntTable[b] : b \in IntTableChoice}
    /\ regPc = "start" /\ row = 1
    /\ m_total_reg_fds = 0
    /\ pinNum = <<>> /\ driver = <<>> /\ fd_to_watch = <<>>
    /\ pending = NoInterrupt /\ handled = NoInterrupt /\ pipe = 0

-----------------------------------------------------------------------------
(* PDK_RegGPIOInts, a row per step.  It stops at the first failure; the    *)
(* rows before it stay registered and counted.  The branch that would undo *)
(* an earlier registration of a slot is never taken: the array it looks in *)
(* is local and the flag of the next slot still zero.                      *)

\* The GPIO library or one of its two functions is not found.
FailToLoadGpioLibrary ==
    /\ regPc = "start"
    /\ regPc' = "registered"
    /\ UNCHANGED <<m_IntInfo, row, m_total_reg_fds, pinNum, driver, fd_to_watch,
                   pending, handled, pipe>>

BeginRegistration ==
    /\ regPc = "start"
    /\ Len(m_IntInfo) > 0
    /\ regPc' = "rows"
    /\ UNCHANGED <<m_IntInfo, row, m_total_reg_fds, pinNum, driver, fd_to_watch,
                   pending, handled, pipe>>

SetSlot(slots, k, v) == [i \in DOMAIN slots \cup {k} |-> IF i = k THEN v ELSE slots[i]]
Registration(r) == [Pin |-> r.Pin, Trigger |-> r.Trigger]

\* The pin is noted before the driver is asked, and the slot counted after.
RegisterRow ==
    /\ regPc = "rows"
    /\ row <= Len(m_IntInfo)
    /\ pinNum' = SetSlot(pinNum, m_total_reg_fds + 1, m_IntInfo[row].Pin)
    /\ driver' = SetSlot(driver, m_total_reg_fds + 1, Registration(m_IntInfo[row]))
    /\ m_total_reg_fds' = m_total_reg_fds + 1
    /\ row' = row + 1
    /\ UNCHANGED <<m_IntInfo, regPc, fd_to_watch, pending, handled, pipe>>

\* Mutation: a row that the driver refuses is skipped instead of ending the loop.
SkipRefusedRow ==
    /\ regPc = "rows"
    /\ row <= Len(m_IntInfo)
    /\ pinNum' = SetSlot(pinNum, m_total_reg_fds + 1, m_IntInfo[row].Pin)
    /\ row' = row + 1
    /\ UNCHANGED <<m_IntInfo, regPc, m_total_reg_fds, driver, fd_to_watch, pending,
                   handled, pipe>>

FailToRegisterRow ==
    /\ regPc = "rows"
    /\ row <= Len(m_IntInfo)
    /\ pinNum' = SetSlot(pinNum, m_total_reg_fds + 1, m_IntInfo[row].Pin)
    /\ regPc' = "registered"
    /\ UNCHANGED <<m_IntInfo, row, m_total_reg_fds, driver, fd_to_watch, pending,
                   handled, pipe>>

EndRegistration ==
    /\ regPc = "rows"
    /\ row > Len(m_IntInfo)
    /\ regPc' = "registered"
    /\ UNCHANGED <<m_IntInfo, row, m_total_reg_fds, pinNum, driver, fd_to_watch,
                   pending, handled, pipe>>

\* The interrupt task asks for the descriptors whatever the registration
\* answered: slots that were not counted are not polled.
PDK_RegIntFDs ==
    /\ regPc = "registered"
    /\ fd_to_watch' = [k \in 1 .. m_total_reg_fds |-> k]
    /\ regPc' = "polling"
    /\ UNCHANGED <<m_IntInfo, row, m_total_reg_fds, pinNum, driver, pending,
                   handled, pipe>>

-----------------------------------------------------------------------------
(* Interrupts.                                                             *)

RaiseInterrupt ==
    /\ pending = NoInterrupt
    /\ \E r \in {m_IntInfo[i] : i \in DOMAIN m_IntInfo} : pending' = Registration(r)
    /\ UNCHANGED <<m_IntInfo, regPc, row, m_total_reg_fds, pinNum, driver,
                   fd_to_watch, handled, pipe>>

\* The poll returns the slot that the driver has for the interrupt, and
\* PDK_GetIntInfo takes the row of the table with the number of the slot.
SlotsOf(interrupt) ==
    {k \in DOMAIN fd_to_watch : driver[fd_to_watch[k]] = interrupt}
PDK_GetIntInfo(k) == m_IntInfo[k]

\* The handler opens the pipe, writes and closes it; the pipe may be missing,
\* and every call may fail, which only leaves the line unwritten.
HandleInterrupt ==
    /\ regPc = "polling"
    /\ \E k \in SlotsOf(pending) :
         pipe' \in {0, PDK_GetIntInfo(k).Line}
    /\ handled' = pending
    /\ pending' = NoInterrupt
    /\ UNCHANGED <<m_IntInfo, regPc, row, m_total_reg_fds, pinNum, driver, fd_to_watch>>

\* Nobody polls for it (yet): the row is not registered.
MissInterrupt ==
    /\ pending # NoInterrupt
    /\ SlotsOf(pending) = {}
    /\ pending' = NoInterrupt
    /\ UNCHANGED <<m_IntInfo, regPc, row, m_total_reg_fds, pinNum, driver,
                   fd_to_watch, handled, pipe>>

IntNext ==
    \/ FailToLoadGpioLibrary \/ BeginRegistration
    \/ RegisterRow \/ FailToRegisterRow \/ EndRegistration
    \/ PDK_RegIntFDs
    \/ RaiseInterrupt \/ HandleInterrupt \/ MissInterrupt
IntSpec == IntInit /\ [][IntNext]_intVars

-----------------------------------------------------------------------------
(* Properties                                                              *)

Interrupt ==
    {Registration(m_IntInfo[i]) : i \in DOMAIN m_IntInfo} \cup {NoInterrupt}

\* The slots are the numbers up to the count.
IntTypeOK ==
    /\ m_IntInfo \in {IntTable[b] : b \in IntTableChoice}
    /\ regPc \in {"start", "rows", "registered", "polling"}
    /\ row \in 1 .. Len(m_IntInfo) + 1
    /\ m_total_reg_fds \in 0 .. Len(m_IntInfo)
    /\ DOMAIN pinNum \in {1 .. m_total_reg_fds, 1 .. m_total_reg_fds + 1}
    /\ DOMAIN driver = 1 .. m_total_reg_fds
    /\ pending \in Interrupt /\ handled \in Interrupt
    /\ pipe \in 0 .. 3

\* Whichever registration failed, the task polls exactly the slots that the
\* driver has, a slot has the pin and the level of the row that handles it, and
\* the FPGA's reader gets the line of the interrupt that was raised - also of
\* the two that are the same pin.
InterruptsReachTheirHandler ==
    /\ regPc = "polling" =>
          /\ DOMAIN fd_to_watch = DOMAIN driver
          /\ \A k \in DOMAIN driver :
                /\ driver[k] = Registration(PDK_GetIntInfo(k))
                /\ pinNum[k] = driver[k].Pin
    /\ pipe \in {0, LineOf(handled)}
=============================================================================
