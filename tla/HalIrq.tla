------------------------------- MODULE HalIrq --------------------------------
(***************************************************************************)
(* Interrupts of the HAL: registration, the dispatch loop alt_irq_handler  *)
(* and nesting with alt_irq_interruptible / alt_irq_non_interruptible.     *)
(*                                                                         *)
(* A handler quiets its device, may open itself to interrupts of higher    *)
(* priority (lower number) and close again, and may register, enable and   *)
(* disable interrupts like the foreground; these calls run with interrupts *)
(* off and are one step each.                                              *)
(***************************************************************************)
EXTENDS Integers, Sequences, FiniteSets

CONSTANTS HiNirq,     \* ALT_NIRQ
          HiRaises,   \* bound: how often the devices ask
          HiCalls     \* bound: calls that change the registration

ASSUME HiAssumption == HiNirq \in Nat \ {0} /\ HiRaises \in Nat /\ HiCalls \in Nat

Irqs == 0..HiNirq - 1

VARIABLES hiPie,      \* status.PIE
          hiEnable,   \* the ienable register
          alt_irq_active, alt_priority_mask,
          hiHandler,  \* interrupts with a handler in alt_irq[]
          hiLines,    \* lines that devices assert
          hiStack,    \* handlers that run: [id, open, old, quiet]
          hiTouched,  \* history: a registration wrote ienable while a handler was open
          hiRaised, hiCalled

hiTables == <<alt_irq_active, hiHandler>>
hiCpu == <<hiPie, hiEnable, alt_priority_mask>>
hiVars == <<hiCpu, hiTables, hiLines, hiStack, hiTouched, hiRaised, hiCalled>>

HiInit ==
  /\ hiPie = FALSE /\ hiEnable = {} /\ alt_irq_active = {} /\ alt_priority_mask = Irqs
  /\ hiHandler = {} /\ hiLines = {} /\ hiStack = <<>> /\ hiTouched = FALSE
  /\ hiRaised = 0 /\ hiCalled = 0

(* alt_irq_init, before the drivers are initialised.                       *)
HiBoot == /\ ~hiPie /\ hiStack = <<>> /\ hiPie' = TRUE /\ hiEnable' = {}
          /\ UNCHANGED <<alt_priority_mask, hiTables, hiLines, hiStack, hiTouched,
                         hiRaised, hiCalled>>
Booted == hiPie \/ hiStack # <<>>

HiRaise(i) ==
  /\ hiRaised < HiRaises /\ i \notin hiLines /\ hiRaised' = hiRaised + 1
  /\ hiLines' = hiLines \cup {i}
  /\ UNCHANGED <<hiCpu, hiTables, hiStack, hiTouched, hiCalled>>

SomeOpen == \E k \in DOMAIN hiStack : hiStack[k].open

(* alt_irq_enable and alt_irq_disable write all of alt_irq_active.         *)
WriteActive(active) ==
  /\ alt_irq_active' = active /\ hiEnable' = active
  /\ hiTouched' = (hiTouched \/ SomeOpen)
  /\ hiCalled < HiCalls /\ hiCalled' = hiCalled + 1
  /\ UNCHANGED <<hiPie, alt_priority_mask, hiLines, hiStack, hiRaised>>

(* alt_irq_register and alt_iic_isr_register: a NULL handler disables.     *)
ActiveAfterAlways(i, isr) == alt_irq_active \cup {i}
ActiveAfter(i, isr) == IF isr THEN alt_irq_active \cup {i} ELSE alt_irq_active \ {i}
HiRegister(i, isr) ==
  /\ Booted /\ hiHandler' = IF isr THEN hiHandler \cup {i} ELSE hiHandler \ {i}
  /\ WriteActive(ActiveAfter(i, isr))
HiEnable(i) == /\ Booted /\ i \in hiHandler /\ WriteActive(alt_irq_active \cup {i})
               /\ UNCHANGED hiHandler
HiDisable(i) == Booted /\ WriteActive(alt_irq_active \ {i}) /\ UNCHANGED hiHandler

(* ipending                                                                *)
Pending == hiLines \cap hiEnable
Lowest(i, active) == i \in active /\ \A j \in active : i <= j
Frame(i) == [id |-> i, open |-> FALSE, old |-> Irqs, quiet |-> FALSE]

(* The exception entry, and the first turn of alt_irq_handler.             *)
HiEnter ==
  /\ hiPie /\ hiPie' = FALSE
  /\ \E i \in Irqs : Lowest(i, Pending) /\ hiStack' = <<Frame(i)>> \o hiStack
  /\ UNCHANGED <<hiEnable, alt_priority_mask, hiTables, hiLines, hiTouched, hiRaised, hiCalled>>

HiQuiet ==
  /\ hiStack # <<>> /\ ~hiStack[1].quiet
  /\ hiStack' = [hiStack EXCEPT ![1].quiet = TRUE] /\ hiLines' = hiLines \ {hiStack[1].id}
  /\ UNCHANGED <<hiCpu, hiTables, hiTouched, hiRaised, hiCalled>>

BelowAndSame(i) == 0..i
Below(i) == 0..i - 1
HiOpen ==
  /\ hiStack # <<>> /\ ~hiStack[1].open /\ ~hiStack[1].quiet
  /\ hiStack' = [hiStack EXCEPT ![1].open = TRUE, ![1].old = alt_priority_mask]
  /\ alt_priority_mask' = Below(hiStack[1].id)
  /\ hiEnable' = alt_irq_active \cap alt_priority_mask' /\ hiPie' = TRUE
  /\ UNCHANGED <<hiTables, hiLines, hiTouched, hiRaised, hiCalled>>

RestoredAll(mask) == Irqs
Restored(mask) == mask
EnabledStays(mask) == hiEnable
EnabledAgain(mask) == mask \cap alt_irq_active
HiClose ==
  /\ hiStack # <<>> /\ hiStack[1].open /\ hiStack[1].quiet
  /\ hiStack' = [hiStack EXCEPT ![1].open = FALSE]
  /\ alt_priority_mask' = Restored(hiStack[1].old)
  /\ hiEnable' = EnabledAgain(hiStack[1].old) /\ hiPie' = FALSE
  /\ UNCHANGED <<hiTables, hiLines, hiTouched, hiRaised, hiCalled>>

(* The handler returns: the next pending interrupt, or out of the          *)
(* exception, back to where interrupts were on.                            *)
HiReturn ==
  /\ hiStack # <<>> /\ hiStack[1].quiet /\ ~hiStack[1].open
  /\ IF Pending # {}
       THEN /\ \E i \in Irqs : /\ Lowest(i, Pending)
                               /\ hiStack' = [hiStack EXCEPT ![1] = Frame(i)]
            /\ UNCHANGED <<hiPie, hiTouched>>
       ELSE /\ hiStack' = Tail(hiStack) /\ hiPie' = TRUE
            /\ hiTouched' = (hiTouched /\ Len(hiStack) > 1)
  /\ UNCHANGED <<hiEnable, alt_priority_mask, hiTables, hiLines, hiRaised, hiCalled>>

HiServe == HiEnter \/ HiQuiet \/ HiClose \/ HiReturn
HiNextStep == \/ HiBoot \/ HiServe \/ HiOpen
              \/ \E i \in Irqs : \/ HiRaise(i) \/ HiEnable(i) \/ HiDisable(i)
                                 \/ \E isr \in BOOLEAN : HiRegister(i, isr)

(* The processor takes interrupts and handlers run to their end.           *)
HiSpec == HiInit /\ [][HiNextStep]_hiVars /\ WF_hiVars(HiServe) /\ WF_hiVars(HiBoot)

-----------------------------------------------------------------------------
(* Interrupt numbers stay inside the table.                                *)
HiTypeInv ==
  /\ hiPie \in BOOLEAN /\ hiEnable \subseteq Irqs /\ alt_irq_active \subseteq Irqs
  /\ alt_priority_mask \subseteq Irqs /\ hiHandler \subseteq Irqs
  /\ hiLines \subseteq Irqs /\ hiTouched \in BOOLEAN
  /\ \A k \in DOMAIN hiStack :
       hiStack[k] \in [id : Irqs, open : BOOLEAN, old : SUBSET Irqs, quiet : BOOLEAN]

(* No interrupt is enabled that has no handler, whoever registers, in      *)
(* whatever nesting: the dispatch loop never calls NULL.                   *)
HiNoNull == hiEnable \cup alt_irq_active \subseteq hiHandler

(* Whatever nested, the mask is that of the innermost open handler, and    *)
(* when the last has returned every registered interrupt is enabled again. *)
OpenFrames == {k \in DOMAIN hiStack : hiStack[k].open}
HiMaskRestored ==
  /\ alt_priority_mask =
       (IF OpenFrames = {} THEN Irqs
        ELSE Below(hiStack[CHOOSE k \in OpenFrames : \A j \in OpenFrames : k <= j].id))
  /\ hiEnable \in {alt_irq_active, alt_irq_active \cap alt_priority_mask}
  /\ hiStack = <<>> /\ hiPie => hiEnable = alt_irq_active

(* A handler is only interrupted by one of higher priority, as long as no  *)
(* registration has written ienable meanwhile: alt_irq_enable and          *)
(* alt_irq_disable do not know of alt_priority_mask.                       *)
HiPriority ==
  ~hiTouched => \A j, k \in DOMAIN hiStack : j < k => hiStack[j].id < hiStack[k].id

(* A device that asks on an enabled line is served, or its line disabled.  *)
HiServed == \A i \in Irqs : i \in hiLines /\ i \in alt_irq_active
                              ~> i \notin hiLines \/ i \notin alt_irq_active

(* Dispatch under any nesting: no NULL handler, masks put back, and only   *)
(* higher priorities interrupt.                                            *)
HiSafe == HiTypeInv /\ HiNoNull /\ HiMaskRestored /\ HiPriority
=============================================================================
