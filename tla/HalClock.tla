------------------------------- MODULE HalClock -------------------------------
(***************************************************************************)
(* The wall clock of the HAL: settimeofday and gettimeofday over the tick  *)
(* counter of the system clock, times, and the busy loop behind usleep.    *)
(*                                                                         *)
(* Unsigned 32-bit arithmetic is modulo HcWord; gettimeofday multiplies in *)
(* 64 bits, settimeofday in 32.                                            *)
(***************************************************************************)
EXTENDS Integers

CONSTANTS HcWord,     \* 2^32
          ALT_US,     \* microseconds in a second
          HcRate,     \* alt_ticks_per_second once the driver has set it
          HcTimes,    \* seconds given to settimeofday
          HcSleeps,   \* arguments of usleep
          HcIntMax,   \* INT_MAX
          HcMhz,      \* ALT_CPU_FREQ / 1000000
          HcCycles    \* cycles_per_loop: clock cycles of a turn

ASSUME HcAssumption == /\ HcRate \in Nat \ {0} /\ ALT_US \in Nat /\ ALT_US % HcRate = 0
                       /\ ALT_US > HcRate /\ HcWord \in Nat /\ HcWord > ALT_US
                       /\ HcTimes \subseteq Nat /\ HcSleeps \subseteq Nat
                       /\ HcMhz \in Nat /\ HcCycles \in Nat \ {0} /\ HcMhz >= HcCycles
                       /\ HcIntMax \in Nat /\ HcIntMax >= HcMhz
                       /\ 2 * HcIntMax < HcWord

VARIABLES hcRate,    \* _alt_tick_rate
          hcTicks,   \* _alt_nticks
          hcReset,   \* alt_resettime
          hcZone,    \* alt_timezone was set
          hcSlept    \* the last usleep: asked, turns of the loop (-1: none yet)

hcVars == <<hcRate, hcTicks, hcReset, hcZone, hcSlept>>

HcInit == /\ hcRate = 0 /\ hcTicks = 0 /\ hcReset = [sec |-> 0, usec |-> 0] /\ hcZone = FALSE
          /\ hcSlept = [us |-> 0, turns |-> -1]

TickUs == ALT_US \div HcRate

(* alt_sysclk_init sets the rate once.                                     *)
HcSysclkInit == /\ hcRate = 0 /\ hcRate' = HcRate
                /\ UNCHANGED <<hcTicks, hcReset, hcZone, hcSlept>>
HcTick == /\ hcRate # 0 /\ hcTicks' = (hcTicks + 1) % HcWord
          /\ UNCHANGED <<hcRate, hcReset, hcZone, hcSlept>>

(* What gettimeofday adds to alt_resettime.                                *)
UsSinceResetNarrow == ((hcTicks * TickUs) % HcWord) % ALT_US
UsSinceReset == (hcTicks * TickUs) % ALT_US

UsForSetSecondsOnly == 0
UsForSet == ((hcTicks * TickUs) % HcWord) % ALT_US

(* settimeofday; without a system clock it fails and changes nothing.      *)
HcSet(t) ==
  /\ hcRate # 0
  /\ hcReset' = [sec |-> t.sec - hcTicks \div HcRate, usec |-> t.usec - UsForSet]
  /\ hcZone' = TRUE
  /\ UNCHANGED <<hcRate, hcTicks, hcSlept>>

(* gettimeofday: seconds are borrowed and carried until the microseconds   *)
(* are in range; before the epoch it answers zero.                         *)
CarriedNot(t) == t
Carried(t) == [sec |-> t.sec + t.usec \div ALT_US, usec |-> t.usec % ALT_US]
TimeOfDay ==
  LET t == [sec |-> hcReset.sec + hcTicks \div HcRate, usec |-> hcReset.usec + UsSinceReset]
  IN  IF t.usec < 0 /\ t.sec <= 0 THEN [sec |-> 0, usec |-> 0] ELSE Carried(t)

(* alt_busy_sleep: every turn of the outer loop but the last should be     *)
(* HcIntMax turns of the inner one, which counts its register down to zero *)
(* before it looks: the compiler may load it once for all of them, and a   *)
(* count of zero is 2^32 turns.  Without outer turns zero is one turn.     *)
PerUs == HcMhz \div HcCycles
MostUs == HcIntMax \div PerUs
OuterOneShort(big, again) == (big - 1) * again
Outer(big, again) == HcIntMax + (big - 1) * again
Turns(count) == IF count = 0 THEN HcWord ELSE count
HcSleep(us) ==
  LET big == us \div MostUs
      last == (us - big * MostUs) * PerUs
  IN  /\ \E again \in {HcIntMax, HcWord} :
           hcSlept' = [us |-> us,
                       turns |-> IF big = 0 THEN IF last = 0 THEN 1 ELSE last
                                 ELSE Outer(big, again) + Turns(last)]
      /\ UNCHANGED <<hcRate, hcTicks, hcReset, hcZone>>

Times == [sec : HcTimes, usec : 0..ALT_US - 1]
HcNextStep == \/ HcSysclkInit \/ HcTick
              \/ \E t \in Times : HcSet(t)
              \/ \E us \in HcSleeps : HcSleep(us)
HcSpec == HcInit /\ [][HcNextStep]_hcVars

-----------------------------------------------------------------------------
(* The counter is a machine word and what gettimeofday reports is a time.  *)
HcTypeInv ==
  /\ hcRate \in {0, HcRate} /\ hcTicks \in 0..HcWord - 1 /\ hcZone \in BOOLEAN
  /\ hcReset \in [sec : Int, usec : -ALT_US + 1..ALT_US - 1]
  /\ hcSlept \in [us : Nat, turns : Int]
  /\ hcRate # 0 => TimeOfDay.usec \in 0..ALT_US - 1

(* From one tick to the next the reported time moves on by the period of   *)
(* a tick, through every carry and borrow, as long as the tick counter has *)
(* not wrapped and the time is not before the epoch.                       *)
HcMovesOn ==
  [][HcTick /\ hcTicks' # 0 /\ hcReset.sec + hcTicks \div HcRate > 0
       => TimeOfDay'.sec * ALT_US + TimeOfDay'.usec
            = TimeOfDay.sec * ALT_US + TimeOfDay.usec + TickUs]_hcVars

(* settimeofday and gettimeofday are inverse while the product of ticks    *)
(* and microseconds fits in 32 bits.                                       *)
HcSetIsReadEarly ==
  [][\A t \in Times : hcTicks * TickUs < HcWord /\ HcSet(t) => TimeOfDay' = t]_hcVars

(* usleep is short of the time asked by less than one turn of its loop per *)
(* microsecond, over any number of outer turns.                            *)
HcSleepsEnough ==
  hcSlept.turns >= 0 /\ hcSlept.us > 0
    => (hcSlept.turns + hcSlept.us) * HcCycles > hcSlept.us * HcMhz

(* The clock moves on by ticks, is read as it was set, and the busy loop is*)
(* long enough.                                                            *)
HcKept == [](HcTypeInv /\ HcSleepsEnough) /\ HcMovesOn /\ HcSetIsReadEarly
=============================================================================
