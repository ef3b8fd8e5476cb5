------------------------------ MODULE PuMaster ------------------------------
(***************************************************************************)
(* The polling master of the control panel and its register slave:         *)
(* qsys/pu/pu.sv, lines 131 to 599.  One step is one edge of clock, in     *)
(* which the master (Amm...) and the slave (Ams...) both step.             *)
(*                                                                         *)
(* The master runs init_array once and work_array for ever, one access to  *)
(* the I2C bridge at a time.  After each read it reads the status of the   *)
(* bridge, and only that second answer commits the first one to a field.   *)
(* A value read is represented by where it came from: the register, and,   *)
(* for the button lines, the columns of the matrix selected just then.     *)
(* Encoders are the exception: their two bits matter.                      *)
(***************************************************************************)
EXTENDS Integers, Sequences, SequencesExt, FiniteSets

CONSTANTS
  Encoders,      \* 0..3; encoder 0 also turns the brightness
  CountMax,      \* an encoder count saturates at this many steps: 7
  LightMax,      \* brightest light_cnt: 31
  DefaultLight,  \* light_cnt after reset: 16
  Surroundings   \* what is around the master: the slave addresses its host
                 \* uses, 1 brightness and 6 counts; whether this host is
                 \* spaced, leaving one bridge access between two of its own;
                 \* a bound on the reads whose status is not 0; the
                 \* values the two pins of an encoder take, of 0..3

ASSUME PanelAssumption ==
  /\ Encoders \subseteq 0 .. 3 /\ 0 \in Encoders
  /\ CountMax \in Nat \ {0} /\ LightMax \in Nat \ {0}
  /\ DefaultLight \in 0 .. LightMax
  /\ Surroundings \subseteq [uses : SUBSET {1, 6}, spaced : BOOLEAN, errors : Nat,
                             pins : SUBSET (0 .. 3)]
-----------------------------------------------------------------------------
(* The two scripts.  A write is known by its register and, for the select  *)
(* registers, by the columns whose bit is 0 in the byte; the pair READ,    *)
(* STATUS is how every register is read.                                   *)

Write(reg, cols) == [op |-> "WRITE", reg |-> reg, cols |-> cols]
Read(reg)        == [op |-> "READ", reg |-> reg, cols |-> {}]
Status           == Read("I2C_ERROR")
\* Operators named ...Keep, ...No..., ...OldMode are faulty variants of the one
\* below them; nothing uses them.
DeselectKeep(reg) == Write(reg, {1})
Deselect(reg)    == Write(reg, {})
Column(reg, c)   == <<Write(reg, {c}), Read("BTN_READ"), Status>>

init_array ==
  << Write("TYPE_POLARITY", {}), Write("TYPE_DIRECTION", {}),
     Write("LIGHT_LEFT_CFG", {}), Write("LIGHT_RIGHT_CFG", {}),
     Write("BTN_POLARITY0", {}), Write("BTN_POLARITY1", {}),
     Write("BTN_DIRECTION0", {}), Write("BTN_DIRECTION1", {}),
     Deselect("SEL_V4_V8"), Deselect("SEL_V1_V3"),
     Write("ENC_POLARITY", {}), Write("ENC_DIRECTION", {}) >>

work_array ==
  << Read("TYPE_VALUE"), Status >>
  \o Column("SEL_V1_V3", 3) \o Column("SEL_V1_V3", 2) \o Column("SEL_V1_V3", 1)
  \o << Deselect("SEL_V1_V3") >>
  \o Column("SEL_V4_V8", 4) \o Column("SEL_V4_V8", 5) \o Column("SEL_V4_V8", 6)
  \o Column("SEL_V4_V8", 7) \o Column("SEL_V4_V8", 8)
  \o << Deselect("SEL_V4_V8"), Read("ENC_VALUE"), Status,
        Read("LIGHT_LEFT_E"), Status, Read("LIGHT_LEFT_M"), Status,
        Read("LIGHT_RIGHT_E"), Status, Read("LIGHT_RIGHT_M"), Status,
        Read("MCU_POWER_STATUS"), Status,
        Read("MCU_EXT_LIGHT_MSB"), Status, Read("MCU_EXT_LIGHT_LSB"), Status >>

\* The fields that AMM_ACK commits, by the index of the status read.
FieldAt ==
  [i \in {1, 4, 7, 10, 14, 17, 20, 23, 26, 31, 33, 35, 37, 39, 41, 43} |->
     CASE i = 1  -> "pu_type_reg"      [] i = 4  -> "buttons_39_35"
       [] i = 7  -> "buttons_34_30"    [] i = 10 -> "buttons_29_25"
       [] i = 14 -> "buttons_24_20"    [] i = 17 -> "buttons_19_15"
       [] i = 20 -> "buttons_14_10"    [] i = 23 -> "buttons_9_5"
       [] i = 26 -> "buttons_4_0"      [] i = 31 -> "illuminance_left_11_4"
       [] i = 33 -> "illuminance_left_3_0"  [] i = 35 -> "illuminance_right_11_4"
       [] i = 37 -> "illuminance_right_3_0" [] i = 39 -> "pwr_status_mcu"
       [] i = 41 -> "light_mcu_4_1"    [] OTHER -> "light_mcu_0"]
Fields  == {FieldAt[i] : i \in DOMAIN FieldAt}
Buttons == {FieldAt[i] : i \in {4, 7, 10, 14, 17, 20, 23, 26}}
EncoderIndex == 29

NoPins == [e \in Encoders |-> 0]
Value(reg, cols, pins) == [reg |-> reg, cols |-> cols, pins |-> pins]
Nothing == Value("reset", {}, NoPins)

VARIABLES
  amm_state, amm_init_done, amm_index, amm_transaction,
  amm_data_d,                  \* the value read before the status
  field,                       \* pu_type_reg, buttons_state, illuminance_...
  enc_state, enc_cnt, enc_clear, enc_clear_ack,
  light_remote, light_cnt,
  light_remote_d, light_cnt_d, light_cnt_req, light_cnt_ack,
  ams_state, ams_address_d, ams_byteenable_d, ams_writedata_d

VARIABLES
  around,     \* one of Surroundings
  selected,   \* the panel: columns selected in each select register
  told,       \* history: the counts the host was already given
  bad         \* statuses that were not 0

amm   == <<amm_state, amm_init_done, amm_index, amm_transaction, amm_data_d>>
enc   == <<enc_state, enc_cnt, enc_clear_ack>>
light == <<light_remote, light_cnt, light_cnt_ack>>
slave == <<ams_state, ams_address_d, ams_byteenable_d, ams_writedata_d>>
asks  == <<enc_clear, light_remote_d, light_cnt_d, light_cnt_req>>
vars  == <<amm, field, enc, light, slave, asks, around, selected, told, bad>>

Requests == [remote : BOOLEAN, cnt : 0 .. LightMax]

Init ==
  /\ amm_state = "RESET" /\ amm_init_done = FALSE /\ amm_index = 0
  /\ amm_transaction = FALSE /\ amm_data_d = Nothing
  /\ field = [f \in Fields |-> Nothing]
  /\ enc_state = NoPins /\ enc_cnt = NoPins
  /\ enc_clear = [e \in Encoders |-> FALSE] /\ enc_clear_ack = enc_clear
  /\ light_remote = FALSE /\ light_cnt = 0
  /\ light_remote_d = FALSE /\ light_cnt_d = 0
  /\ light_cnt_req = FALSE /\ light_cnt_ack = FALSE
  /\ ams_state = "RESET" /\ ams_address_d = 0 /\ ams_byteenable_d = {}
  /\ ams_writedata_d = [remote |-> FALSE, cnt |-> 0]
  /\ selected = [r \in {"SEL_V1_V3", "SEL_V4_V8"} |-> {}]
  /\ around \in Surroundings /\ told = {} /\ bad = 0
-----------------------------------------------------------------------------
(* The master.                                                             *)

script == IF amm_init_done THEN work_array ELSE init_array
access == script[amm_index + 1]

AmmReset ==
  /\ amm_state = "RESET"
  /\ amm_state' = "IDLE" /\ light_cnt' = DefaultLight
  /\ UNCHANGED <<amm_init_done, amm_index, amm_transaction, amm_data_d, field, enc,
                 light_remote, light_cnt_ack, selected>>

\* The next access, or the end of the script.
NextAccessNoWrap ==
  IF amm_index < Len(script)
  THEN amm_state' = access.op /\ UNCHANGED <<amm_index, amm_init_done>>
  ELSE UNCHANGED <<amm_state, amm_index>> /\ amm_init_done' = TRUE
NextAccess ==
  IF amm_index < Len(script)
  THEN amm_state' = access.op /\ UNCHANGED <<amm_index, amm_init_done>>
  ELSE amm_index' = 0 /\ amm_init_done' = TRUE /\ UNCHANGED amm_state

AnswerClearsKeep ==
  enc_clear_ack' = enc_clear /\ UNCHANGED enc_cnt
AnswerClears ==
  /\ enc_clear_ack' = enc_clear
  /\ enc_cnt' = [e \in Encoders |-> IF enc_clear[e] THEN 0 ELSE enc_cnt[e]]

\* ... which takes the brightness only if the mode was remote before.
AnswerLightOldMode ==
  /\ light_cnt_ack' = light_cnt_req
  /\ IF light_cnt_req
     THEN light_remote' = light_remote_d /\
          light_cnt' = IF light_remote THEN light_cnt_d ELSE light_cnt
     ELSE UNCHANGED <<light_remote, light_cnt>>
AnswerLight ==
  /\ light_cnt_ack' = light_cnt_req
  /\ IF light_cnt_req THEN light_remote' = light_remote_d /\ light_cnt' = light_cnt_d
                      ELSE UNCHANGED <<light_remote, light_cnt>>

AmmIdle ==
  /\ amm_state = "IDLE"
  /\ NextAccess /\ AnswerClears /\ AnswerLight
  /\ amm_data_d' = IF amm_index < Len(script) /\ access.op = "WRITE"
                   THEN Value(access.reg, access.cols, NoPins) ELSE amm_data_d
  /\ amm_transaction' = FALSE
  /\ UNCHANGED <<field, enc_state, selected>>

\* AMM_WRITE, AMM_READ: the request is out for an edge before it is accepted.
AmmRequest(accept) ==
  /\ amm_state \in {"WRITE", "READ"}
  /\ IF accept /\ amm_transaction
     THEN /\ UNCHANGED amm_transaction
          /\ IF amm_state = "READ"
             THEN amm_state' = "ACK" /\ UNCHANGED <<amm_index, selected>>
             ELSE /\ amm_state' = "IDLE" /\ amm_index' = amm_index + 1
                  /\ selected' = IF access.reg \in DOMAIN selected
                                 THEN [selected EXCEPT ![access.reg] = access.cols]
                                 ELSE selected
     ELSE amm_transaction' = TRUE /\ UNCHANGED <<amm_state, amm_index, selected>>
  /\ UNCHANGED <<amm_init_done, amm_data_d, field, enc, light>>

\* Quadrature: the change of the two pins of an encoder is a step up, a step
\* down, or none.
Up   == {<<0, 1>>, <<1, 3>>, <<2, 0>>, <<3, 2>>}
Down == {<<0, 2>>, <<1, 0>>, <<2, 3>>, <<3, 1>>}
Turned(e) == <<enc_state[e], amm_data_d.pins[e]>>

CountedNoLimit(e) ==
  CASE Turned(e) \in Up   -> enc_cnt[e] + 1
    [] Turned(e) \in Down -> enc_cnt[e] - 1
    [] OTHER              -> 0
Counted(e) ==
  CASE Turned(e) \in Up   -> IF enc_cnt[e] # CountMax THEN enc_cnt[e] + 1 ELSE CountMax
    [] Turned(e) \in Down -> IF enc_cnt[e] # -CountMax THEN enc_cnt[e] - 1 ELSE -CountMax
    [] OTHER              -> 0

Brightness ==
  CASE light_remote       -> light_cnt
    [] Turned(0) \in Up   -> IF light_cnt < LightMax THEN light_cnt + 1 ELSE LightMax
    [] Turned(0) \in Down -> IF light_cnt > 1 THEN light_cnt - 1 ELSE light_cnt
    [] OTHER              -> light_cnt

Commit ==
  /\ IF amm_index \in DOMAIN FieldAt
     THEN field' = [field EXCEPT ![FieldAt[amm_index]] = amm_data_d]
     ELSE UNCHANGED field
  /\ IF amm_index = EncoderIndex
     THEN /\ enc_cnt' = [e \in Encoders |-> Counted(e)]
          /\ enc_state' = amm_data_d.pins /\ light_cnt' = Brightness
     ELSE UNCHANGED <<enc_cnt, enc_state, light_cnt>>

\* The answer of the bridge: a status is OK or not, any other value is what
\* the panel shows at that moment.
Answer ==
  {Value(access.reg,
         IF access.reg = "BTN_READ" THEN UNION {selected[r] : r \in DOMAIN selected} ELSE {},
         pins) : pins \in IF access.reg = "ENC_VALUE" THEN [Encoders -> around.pins] ELSE {NoPins}}

AmmAck(valid, ok) ==
  /\ amm_state = "ACK"
  /\ amm_transaction' = FALSE
  /\ IF valid
     THEN /\ amm_state' = "IDLE" /\ amm_index' = amm_index + 1
          /\ amm_data_d' \in Answer
          /\ IF amm_init_done /\ ok THEN Commit
                                    ELSE UNCHANGED <<field, enc_cnt, enc_state, light_cnt>>
     ELSE UNCHANGED <<amm_state, amm_index, amm_data_d, field, enc_cnt, enc_state, light_cnt>>
  /\ UNCHANGED <<amm_init_done, enc_clear_ack, light_remote, light_cnt_ack, selected>>

Amm(ready, ok) == AmmReset \/ AmmIdle \/ AmmRequest(ready) \/ AmmAck(ready, ok)
-----------------------------------------------------------------------------
(* The slave.  be: the bytes enabled, one for each encoder.                *)

\* The requests that the master has answered are withdrawn.
Withdraw ==
  /\ enc_clear' = [e \in Encoders |-> enc_clear[e] /\ ~enc_clear_ack[e]]
  /\ light_cnt_req' = (light_cnt_req /\ ~light_cnt_ack)
  /\ UNCHANGED <<light_remote_d, light_cnt_d>>

Asked == light_cnt_req \/ light_cnt_ack \/ \E e \in Encoders : enc_clear[e] \/ enc_clear_ack[e]

AmsIdle ==
  /\ ams_state = "IDLE"
  /\ Withdraw
  /\ \/ UNCHANGED slave
     \/ /\ around.spaced => ~Asked
        /\ ams_state' \in {"WRITE", "READ"} /\ ams_address_d' \in around.uses
        /\ ams_byteenable_d' \in IF ams_address_d' = 6 THEN SUBSET Encoders ELSE {{}}
        /\ ams_writedata_d' \in IF ams_state' = "WRITE" /\ ams_address_d' = 1
                               THEN Requests ELSE {[remote |-> FALSE, cnt |-> 0]}

AskClear == enc_clear' = [e \in Encoders |-> e \in ams_byteenable_d \/ enc_clear[e]]

AmsWrite ==
  /\ ams_state = "WRITE" /\ ams_state' = "IDLE"
  /\ IF ams_address_d = 1
     THEN /\ light_cnt_req' = TRUE /\ UNCHANGED enc_clear
          /\ light_remote_d' = ams_writedata_d.remote /\ light_cnt_d' = ams_writedata_d.cnt
     ELSE AskClear /\ UNCHANGED <<light_cnt_req, light_remote_d, light_cnt_d>>
  /\ UNCHANGED <<ams_address_d, ams_byteenable_d, ams_writedata_d>>

\* Reading the counts asks for them to be cleared.
GivesCounts == ams_state = "READ" /\ ams_address_d = 6
AmsRead ==
  /\ ams_state = "READ" /\ ams_state' = "IDLE"
  /\ IF GivesCounts THEN AskClear ELSE UNCHANGED enc_clear
  /\ UNCHANGED <<light_cnt_req, light_remote_d, light_cnt_d,
                 ams_address_d, ams_byteenable_d, ams_writedata_d>>

AmsReset ==
  /\ ams_state = "RESET" /\ ams_state' = "IDLE"
  /\ UNCHANGED <<asks, ams_address_d, ams_byteenable_d, ams_writedata_d>>

Ams == AmsIdle \/ AmsWrite \/ AmsRead \/ AmsReset

Told ==
  told' = {e \in told \union (IF GivesCounts THEN ams_byteenable_d ELSE {}) :
             enc_cnt[e] # 0 /\ enc_cnt'[e] # 0}

\* The status is not 0 after a refused read, as pu.sv expects it; the bridge
\* of this design reports 0 always (AmsI2c, StatusReadsZero).
Clock(ready) ==
  /\ \/ Amm(ready, TRUE) /\ UNCHANGED bad
     \/ amm_state = "ACK" /\ bad < around.errors /\ Amm(ready, FALSE) /\ bad' = bad + 1
  /\ Ams /\ Told /\ UNCHANGED around

Next == \E ready \in BOOLEAN : Clock(ready)

Spec     == Init /\ [][Next]_vars
\* The bridge answers: every call of AmsI2c returns.
FairSpec == Spec /\ WF_vars(Clock(TRUE))
-----------------------------------------------------------------------------
(* Properties.                                                             *)

\* Types.  A count is 4 bits, signed: it must stop short of 8 either way.
TypeInv ==
  /\ amm_state \in {"RESET", "IDLE", "WRITE", "READ", "ACK"}
  /\ amm_init_done \in BOOLEAN /\ amm_index \in 0 .. Len(script)
  /\ amm_transaction \in BOOLEAN
  /\ DOMAIN field = Fields
  /\ enc_state \in [Encoders -> 0 .. 3] /\ enc_cnt \in [Encoders -> -CountMax .. CountMax]
  /\ enc_clear \in [Encoders -> BOOLEAN] /\ enc_clear_ack \in [Encoders -> BOOLEAN]
  /\ light_remote \in BOOLEAN /\ light_cnt \in 0 .. LightMax
  /\ light_remote_d \in BOOLEAN /\ light_cnt_d \in 0 .. LightMax
  /\ light_cnt_req \in BOOLEAN /\ light_cnt_ack \in BOOLEAN
  /\ ams_state \in {"RESET", "IDLE", "WRITE", "READ"} /\ ams_address_d \in {0, 1, 6}
  /\ ams_byteenable_d \subseteq Encoders /\ ams_writedata_d \in Requests
  /\ around \in Surroundings /\ told \subseteq Encoders /\ bad \in 0 .. around.errors

\* The indices at which AMM_ACK commits fit the script: a button field only
\* ever shows the lines of one column, no two fields show the same column or
\* the same register, whatever status the bridge reports on the way.
FieldsFitScript ==
  /\ \A f \in Buttons : field[f] # Nothing =>
       field[f].reg = "BTN_READ" /\ Cardinality(field[f].cols) = 1
  /\ \A f, g \in Fields : field[f] # Nothing /\ f # g => field[f] # field[g]

\* The encoders are sampled again and again, whatever the host asks for.
ScanGoesOn == []<>(amm_init_done /\ amm_index = EncoderIndex)

\* A brightness the host writes is taken, with the mode written with it, if
\* the host leaves one bridge access between its writes: what it wrote is then
\* in light_remote_d and light_cnt_d until it is answered.
BrightnessTaken ==
  (around.spaced /\ light_cnt_req) ~>
    (light_cnt_ack /\ light_remote = light_remote_d /\ light_cnt = light_cnt_d)

\* A step of an encoder is not given to such a host twice: what it has read
\* is cleared before it can read again, over the handshake of two machines.
CountsToldOnce ==
  [][ around.spaced /\ GivesCounts => ams_byteenable_d \intersect told = {} ]_vars

\* The counts saturate instead of wrapping, and every field of the panel is
\* committed from the register and the column it is named for.
ScanSafe == TypeInv /\ FieldsFitScript
=============================================================================
