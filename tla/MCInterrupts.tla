---------------------------- MODULE MCInterrupts ----------------------------
(***************************************************************************)
(* The parts of the HAL that interrupts drive, one at a time: "part" says  *)
(* which part runs, the others stay in an initial state.  Each keeps the   *)
(* fairness of its own specification.                                      *)
(***************************************************************************)
EXTENDS JtagUart, HalAlarms, HalIrq

VARIABLE part
vars == <<part, jtVars, haVars, hiVars>>

Init == /\ part \in {"uart", "alarms", "interrupts"}
        /\ JtInit /\ HaInit /\ HiInit
        /\ part # "uart" => jtSmall /\ jtTimeout = 2

Uart(step) == part = "uart" /\ step /\ UNCHANGED <<part, haVars, hiVars>>
Alarms(step) == part = "alarms" /\ step /\ UNCHANGED <<part, jtVars, hiVars>>
Interrupts(step) == part = "interrupts" /\ step /\ UNCHANGED <<part, jtVars, haVars>>

(* The part never changes, so one condition stands for one of each part.   *)
Spec == /\ Init /\ [][Uart(JtNext) \/ Alarms(HaNextStep) \/ Interrupts(HiNextStep)]_vars
        /\ WF_vars(Uart(JtFast) \/ Alarms(HaTick) \/ Interrupts(HiServe))
        /\ WF_vars(Uart(JtIsr) \/ Alarms(HaServe) \/ Interrupts(HiBoot))
        /\ WF_vars(Uart(JtAlarm)) /\ WF_vars(Uart(JtHostTakes))

\* The rings of the UART carry every character once and in order with their
\* interrupts on, and an alarm is called on its tick and is listed once
\* (altera_avalon_jtag_uart_write.c and its fellows, alt_tick.c).
UartAndAlarmsSafe == JtSafe /\ HaSafe

\* What is in a ring reaches a host that stays, a caller returns when the host
\* is there or declared gone, an alarm comes due (the same), and a line that is
\* raised and enabled is served or disabled (alt_irq_handler.c:112-145).
InterruptsLive == JtLive /\ HaComesDue /\ HiServed
=============================================================================
