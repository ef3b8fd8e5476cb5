---------------------------- MODULE Adv7613Check ----------------------------
(***************************************************************************)
(* The checker of the two ADV7613 receivers:                               *)
(* qsys/avm_adv7613_check/avm_adv7613_check.sv.  It should read, at every  *)
(* period, the power-down register of each chip, and pulse the reset of    *)
(* the video chips and their configurator when one has lost its power.     *)
(***************************************************************************)
EXTENDS Naturals, Sequences, SequencesExt

CONSTANTS
  TIMER_DELAY,          \* edges of AMM_WAIT_TIMER_DONE, above 0
  ADV7613_TIMER_RESET   \* edges of the reset pulse, above 0
-----------------------------------------------------------------------------
(* The operations.  t_op_array has 1 + 32 + 16 + 8 bits; each entry of     *)
(* work_array is a concatenation of 1 + 32 + 8 + 8 bits, which SystemVerilog *)
(* extends with zeroes on the left before it is cut into the fields.       *)

Bits(n, w)    == [i \in 1 .. w |-> (n \div 2 ^ (w - i)) % 2]
Zeroes(w)     == [i \in 1 .. w |-> 0]
Extend(v, w)  == Zeroes(w - Len(v)) \o v
Number(v)     == FoldLeft(LAMBDA n, bit : 2 * n + bit, 0, v)
Cut(v) ==
  [operation |-> IF v[1] = 1 THEN "OP_READ" ELSE "OP_WRITE",
   address   |-> Number(SubSeq(v, 2, 33)), register |-> Number(SubSeq(v, 34, 49)),
   data      |-> Number(SubSeq(v, 50, 57))]

OP_READ == <<1>>
ADV7613_PWRDWN == 12
\* AMS_I2C_AMM_ADDRESS and ADV7613_I2C_ADDRESS are 0 in qsys.qsys.
Entry == Cut(Extend(OP_READ \o Zeroes(32) \o Bits(ADV7613_PWRDWN, 8) \o Zeroes(8), 57))
work_array == <<Entry, Entry>>

VARIABLES
  amm_current_state, amm_prev_state, amm_index, amm_cnt,
  amm_access,      \* amm_address and amm_writedata
  powered_down,    \* amm_data & ADV7613_PWRDWN_MSK
  error, o_pio, o_avs_rst_n

fsm  == <<amm_current_state, amm_prev_state, amm_index, amm_cnt>>
outs == <<error, o_pio, o_avs_rst_n>>
vars == <<fsm, amm_access, powered_down, outs>>

AllOnes == <<1, 1, 1>>    \* reset of the chips, select of chip 0, of chip 1
NoAccess == <<0, 0>>
Access(i) == <<work_array[i + 1].address + work_array[i + 1].register, work_array[i + 1].data>>

Init ==
  /\ amm_current_state = "RESET" /\ amm_prev_state = "RESET"
  /\ amm_index = 0 /\ amm_cnt = 0 /\ amm_access = NoAccess /\ powered_down = FALSE
  /\ error = FALSE /\ o_pio = AllOnes /\ o_avs_rst_n = 1

Quiet == error' = FALSE /\ o_pio' = AllOnes /\ o_avs_rst_n' = 1

Reset ==
  /\ amm_current_state = "RESET"
  /\ amm_current_state' = "INIT" /\ amm_prev_state' = "INIT"
  /\ amm_index' = 0 /\ amm_cnt' = 0 /\ amm_access' = NoAccess /\ powered_down' = FALSE
  /\ Quiet

Initialise ==
  /\ amm_current_state = "INIT"
  /\ amm_current_state' = "WAIT_TIMER_DONE" /\ amm_prev_state' = "INIT"
  /\ amm_index' = 0 /\ amm_cnt' = 0
  /\ Quiet /\ UNCHANGED <<amm_access, powered_down>>

WaitTimerDone ==
  /\ amm_current_state = "WAIT_TIMER_DONE" /\ amm_prev_state' = "WAIT_TIMER_DONE"
  /\ IF amm_cnt < TIMER_DELAY - 1
     THEN amm_cnt' = amm_cnt + 1 /\ UNCHANGED <<amm_current_state, amm_index>>
     ELSE amm_cnt' = 0 /\ amm_current_state' = "WORK" /\ amm_index' = 0
  /\ amm_access' = NoAccess /\ Quiet /\ UNCHANGED powered_down

DoWork ==
  /\ amm_current_state = "WORK" /\ amm_prev_state' = "WORK"
  /\ IF amm_index < Len(work_array)
     THEN /\ amm_access' = Access(amm_index)
          /\ amm_current_state' =
               IF work_array[amm_index + 1].operation = "OP_WRITE" THEN "WRITE" ELSE "READ"
          /\ UNCHANGED <<amm_index, amm_cnt>>
     ELSE /\ amm_current_state' = "WORK_DONE" /\ amm_index' = 0 /\ amm_cnt' = 0
          /\ UNCHANGED amm_access
  /\ o_pio' = <<o_pio[1], IF amm_index = 0 THEN 0 ELSE 1, IF amm_index = 1 THEN 0 ELSE 1>>
  /\ UNCHANGED <<powered_down, error, o_avs_rst_n>>

WriteAccess(accept) ==
  /\ amm_current_state = "WRITE"
  /\ IF accept
     THEN /\ amm_access' = NoAccess /\ amm_index' = amm_index + 1
          /\ amm_current_state' = amm_prev_state
     ELSE UNCHANGED <<amm_access, amm_index, amm_current_state>>
  /\ UNCHANGED <<amm_prev_state, amm_cnt, powered_down, outs>>

ReadAccess(accept) ==
  /\ amm_current_state = "READ"
  /\ IF accept
     THEN amm_access' = NoAccess /\ amm_current_state' = "ACK" /\ powered_down' \in BOOLEAN
     ELSE UNCHANGED <<amm_access, amm_current_state, powered_down>>
  /\ UNCHANGED <<amm_prev_state, amm_index, amm_cnt, outs>>

Ack ==
  /\ amm_current_state = "ACK" /\ amm_current_state' = amm_prev_state
  /\ amm_index' = amm_index + 1 /\ error' = (error \/ powered_down)
  /\ UNCHANGED <<amm_prev_state, amm_cnt, amm_access, powered_down, o_pio, o_avs_rst_n>>

WorkDone ==
  /\ amm_current_state = "WORK_DONE"
  /\ IF error
     THEN /\ o_avs_rst_n' = 0 /\ o_pio' = [o_pio EXCEPT ![1] = 0]
          /\ IF amm_cnt < ADV7613_TIMER_RESET - 1
             THEN amm_cnt' = amm_cnt + 1 /\ UNCHANGED amm_current_state
             ELSE amm_cnt' = 0 /\ amm_current_state' = "WAIT_TIMER_DONE"
     ELSE UNCHANGED <<o_avs_rst_n, o_pio, amm_cnt, amm_current_state>>
  /\ UNCHANGED <<amm_prev_state, amm_index, amm_access, powered_down, error>>

Clock ==
  \/ Reset \/ Initialise \/ WaitTimerDone \/ DoWork \/ Ack \/ WorkDone
  \/ \E accept \in BOOLEAN : WriteAccess(accept) \/ ReadAccess(accept)

\* The bridge accepts, at some edge.
Accepted == WriteAccess(TRUE) \/ ReadAccess(TRUE)
Next == Clock
FairSpec == Init /\ [][Next]_vars /\ WF_vars(Clock) /\ WF_vars(Accepted)
-----------------------------------------------------------------------------
(* Properties that the comments of the code state.                         *)

\* The work cycle reads the power-down register ("read from AMS_I2C reg
\* POWER_DOWN") and is started periodically ("TIMER_DELAY_MKS: period of the
\* start of the work cycle, in us"), whatever the chips answer.
ReadsPeriodically == []<>(amm_current_state = "READ")
=============================================================================
