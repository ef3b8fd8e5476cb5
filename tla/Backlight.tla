----------------------------- MODULE Backlight ------------------------------
(***************************************************************************)
(* qsys/pu/backlight_control.sv: reads the table of day or night from a    *)
(* ROM, the limits once and then the values again and again, and loads the *)
(* modulators from them.  A change between day and night starts it again   *)
(* with the limits, but what it does at that very edge (an answer, an      *)
(* accepted read) goes on from the old place: bkCrossed.  A word is named  *)
(* by its table, kind and page; which of the 32 levels of a page the light *)
(* settings choose, and the sums, are left out.                            *)
(***************************************************************************)
EXTENDS Integers, Sequences

CONSTANTS BkChannels,      \* PWM_CHANNELS
          BkRest,          \* edges between two passes: 20 000 000
          BkChanges        \* bound on the changes between day and night

\* The rest is longer than the way of a load to the modulators.
ASSUME BkAssumption == BkChannels \in Nat \ {0} /\ BkRest \in Nat /\ BkRest >= 6

VARIABLES
  bkNight, bkMeta, bkLatch,            \* night, night_meta, night_latch
  bkState, bkPage, bkTimer,            \* bklt_state, bklt_page, timer
  bkMinRead, bkMaxRead,                \* bklt_read_minimum, bklt_read_maximum
  bkTransaction, bkRead, bkAddress,    \* bklt_transaction, bklt_read, bklt_address
  bkMinimum, bkMaximum, bkValues,      \* the registers; bkValues with the illuminance
  bkLoad, bkShift,                     \* bklt_load; bklt_load_shift and reg_pwm_load
  bkPending,                           \* words the ROM has yet to give
  bkChanged, bkCrossed                 \* history: changes; one of them met a pass

bkInputs == <<bkNight, bkMeta, bkLatch, bkChanged>>
bkTables == <<bkMinimum, bkMaximum, bkValues>>
bkVars == <<bkInputs, bkState, bkPage, bkTimer, bkMinRead, bkMaxRead, bkTransaction, bkRead,
            bkAddress, bkTables, bkLoad, bkShift, bkPending, bkCrossed>>

BkPages  == 0 .. 2 * BkChannels              \* the last is the illuminance
BkLast   == BkChannels - 1
BkNone   == [table |-> "none", kind |-> "none", page |-> 0]
BkWord(table, kind, page) == [table |-> table, kind |-> kind, page |-> page]
BkTable  == IF bkLatch THEN "night" ELSE "day"
BkKind   == IF ~bkMinRead THEN "minimum" ELSE IF ~bkMaxRead THEN "maximum" ELSE "value"

BkInit ==
  /\ bkNight \in BOOLEAN /\ bkMeta = FALSE /\ bkLatch = FALSE /\ bkChanged = 0
  /\ bkState = "RESET" /\ bkPage = 0 /\ bkTimer = 0
  /\ bkMinRead = FALSE /\ bkMaxRead = FALSE
  /\ bkTransaction = FALSE /\ bkRead = FALSE /\ bkAddress = BkNone
  /\ bkMinimum = [p \in 0 .. BkLast |-> BkNone] /\ bkMaximum = bkMinimum
  /\ bkValues = [p \in BkPages |-> BkNone]
  /\ bkLoad = FALSE /\ bkShift = <<FALSE, FALSE, FALSE, FALSE>>
  /\ bkPending = <<>> /\ bkCrossed = FALSE
-----------------------------------------------------------------------------
BkTurns == bkLatch # bkMeta
\* A change clears the flags and asks for IDLE; the case below has the last word.
BkStateOr(s) == bkState' = IF BkTurns THEN "IDLE" ELSE s
BkFlagsKept == bkMinRead' = bkMinRead /\ bkMaxRead' = bkMaxRead
BkFlagsOr == bkMinRead' = (bkMinRead /\ ~BkTurns) /\ bkMaxRead' = (bkMaxRead /\ ~BkTurns)

BkIdle ==
  /\ bkState = "IDLE" /\ BkFlagsOr
  /\ bkRead' = FALSE /\ bkTransaction' = FALSE /\ bkLoad' = FALSE
  /\ bkAddress' = BkNone /\ bkPage' = 0
  /\ bkTimer' = IF bkTimer = BkRest THEN 0 ELSE bkTimer + 1
  /\ bkState' = IF bkTimer = BkRest THEN "READ" ELSE "IDLE"
  /\ UNCHANGED bkTables

\* A read is held until the ROM takes it.
BkReadStep(wait) ==
  /\ bkState = "READ" /\ BkFlagsOr /\ bkLoad' = FALSE
  /\ IF ~wait /\ bkTransaction
     THEN /\ bkRead' = FALSE /\ bkAddress' = BkNone /\ bkState' = "ACK"
          /\ UNCHANGED bkTransaction
     ELSE /\ bkRead' = TRUE /\ bkTransaction' = TRUE
          /\ bkAddress' = BkWord(BkTable, BkKind, bkPage) /\ BkStateOr("READ")
  /\ UNCHANGED <<bkPage, bkTimer, bkTables>>

BkStore(register, word) ==
  IF bkPage \in DOMAIN register THEN [register EXCEPT ![bkPage] = word] ELSE register

BkWaits ==
  /\ bkState = "ACK" /\ BkFlagsOr /\ BkStateOr("ACK")
  /\ bkTransaction' = FALSE /\ bkRead' = FALSE
  /\ UNCHANGED <<bkPage, bkTimer, bkLoad, bkAddress, bkTables>>
BkAnswered(word) ==
  /\ bkState = "ACK" /\ bkTransaction' = FALSE /\ bkRead' = FALSE
  /\ bkPage' = bkPage + 1
  /\ bkMinRead' = ((bkMinRead /\ ~BkTurns) \/ (BkKind = "minimum" /\ bkPage >= BkLast))
  /\ bkMaxRead' = ((bkMaxRead /\ ~BkTurns) \/ (BkKind = "maximum" /\ bkPage >= BkLast))
  /\ bkState' = IF bkPage < (IF BkKind = "value" THEN 2 * BkChannels ELSE BkLast)
                THEN "READ" ELSE "IDLE"
  /\ bkLoad' = (BkKind = "value" /\ bkPage = 2 * BkChannels)
  /\ bkMinimum' = IF BkKind = "minimum" THEN BkStore(bkMinimum, word) ELSE bkMinimum
  /\ bkMaximum' = IF BkKind = "maximum" THEN BkStore(bkMaximum, word) ELSE bkMaximum
  /\ bkValues' = IF BkKind = "value" THEN BkStore(bkValues, word) ELSE bkValues
  /\ UNCHANGED <<bkTimer, bkAddress>>

BkReset ==
  /\ bkState = "RESET" /\ bkState' = "IDLE"
  /\ bkMinRead' = FALSE /\ bkMaxRead' = FALSE /\ bkLoad' = FALSE
  /\ bkTransaction' = FALSE /\ bkRead' = FALSE /\ bkAddress' = BkNone /\ bkPage' = 0
  /\ UNCHANGED <<bkTimer, bkTables>>

\* The inputs, and the load on its way: four edges to the modulators.
BkLoading == bkLoad \/ \E i \in 1 .. 4 : bkShift[i]
BkAround ==
  /\ bkMeta' = bkNight /\ bkLatch' = bkMeta
  /\ \/ bkChanged < BkChanges /\ bkNight' = ~bkNight /\ bkChanged' = bkChanged + 1
     \/ UNCHANGED <<bkNight, bkChanged>>
  /\ bkShift' = <<bkLoad>> \o SubSeq(bkShift, 1, 3)
  /\ bkCrossed' = IF BkTurns THEN bkState \in {"READ", "ACK"} \/ (bkCrossed /\ BkLoading)
                  ELSE bkCrossed

\* The ROM gives its words in order, and long before a rest is over.
BkRom(wait, valid) ==
  /\ valid => bkPending # <<>>
  /\ bkState = "IDLE" /\ bkTimer > 1 /\ bkPending # <<>> => valid
  /\ bkPending' = (IF valid THEN Tail(bkPending) ELSE bkPending)
                  \o (IF bkRead /\ ~wait THEN <<bkAddress>> ELSE <<>>)

BkClock(wait, valid) ==
  /\ BkRom(wait, valid) /\ BkAround
  /\ \/ BkIdle \/ BkReadStep(wait) \/ BkReset
     \/ ~valid /\ BkWaits
     \/ valid /\ BkAnswered(Head(bkPending))

BkNext == \E wait, valid \in BOOLEAN : BkClock(wait, valid)
-----------------------------------------------------------------------------
BkTypeInv ==
  /\ bkState \in {"RESET", "IDLE", "READ", "ACK"} /\ bkPage \in 0 .. 2 * BkChannels + 1
  /\ bkTimer \in 0 .. BkRest /\ Len(bkPending) <= 1
  /\ bkMinRead \in BOOLEAN /\ bkMaxRead \in BOOLEAN

\* What the modulators load is computed from the limits and the values of one
\* table, each read for its own place, unless the last change between day and
\* night met a pass (backlight_control.sv:107-111, 139-174, 224-232).
BkOneTable ==
  bkShift[4] /\ ~bkCrossed =>
    \E table \in {"day", "night"} :
      /\ \A c \in 0 .. BkLast : /\ bkMinimum[c] = BkWord(table, "minimum", c)
                                /\ bkMaximum[c] = BkWord(table, "maximum", c)
      /\ \A p \in BkPages : bkValues[p] = BkWord(table, "value", p)

BkSafe == BkTypeInv /\ BkOneTable

\* The modulators are loaded again and again, whatever a change met.
BkLoaded == bkShift[4]
BkLoads == []<>BkLoaded
=============================================================================
