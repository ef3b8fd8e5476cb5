---------------------------- MODULE PanelProofs ----------------------------
(***************************************************************************)
(* Proofs about the two halves of the panel's core.                        *)
(*                                                                         *)
(* PuMaster, for every number of encoders, limit and surroundings: the     *)
(* script is fixed, so where it stands says which columns are selected and *)
(* which register the word on its way comes from.  Nothing is committed    *)
(* but such a word, at the access after it.                                *)
(*                                                                         *)
(* PuType, for every clock frequency, scan time and number of resets: each *)
(* output of the pipeline is at most one stage later than what it depends  *)
(* on, so the invariant relates the stages one by one.                     *)
(***************************************************************************)
EXTENDS PuMaster, PuType, TLAPS, FiniteSetTheorems

(***************************************************************************)
(* PuMaster: the columns selected before access i + 1 of work_array (V1At, *)
(* V4At), and what its read brings (Source) while they are selected.       *)
(***************************************************************************)
V1At(i) == CASE i \in 3 .. 5  -> {3}
             [] i \in 6 .. 8  -> {2}
             [] i \in 9 .. 11 -> {1}
             [] OTHER         -> {}
V4At(i) == CASE i \in 13 .. 15 -> {4}
             [] i \in 16 .. 18 -> {5}
             [] i \in 19 .. 21 -> {6}
             [] i \in 22 .. 24 -> {7}
             [] i \in 25 .. 27 -> {8}
             [] OTHER          -> {}

Source(i) == LET reg == work_array[i].reg IN
  Value(reg, IF reg = "BTN_READ" THEN V1At(i) \cup V4At(i) ELSE {}, NoPins)

\* Wherever the machine waits for the bus, it waits for the access it points at.
AtAccess ==
  /\ amm_state \in {"WRITE", "READ"} => amm_index < Len(script) /\ amm_state = access.op
  /\ amm_state = "ACK" => amm_index < Len(script) /\ access.op = "READ"

\* The panel's column registers are what the accesses so far have made them.
Columns ==
  selected = [r \in {"SEL_V1_V3", "SEL_V4_V8"} |->
                IF ~amm_init_done THEN {}
                ELSE IF r = "SEL_V1_V3" THEN V1At(amm_index) ELSE V4At(amm_index)]

\* The word held for the next status is the field's own, as it was read.
Held == amm_init_done =>
  /\ amm_index \in DOMAIN FieldAt => amm_data_d = Source(amm_index)
  /\ amm_index = EncoderIndex => amm_data_d.pins \in [Encoders -> 0 .. 3]

\* Every field keeps the reset value or a word read for it.
Committed == \A i \in DOMAIN FieldAt : field[FieldAt[i]] \in {Nothing, Source(i)}

ScanInv == TypeInv /\ AtAccess /\ Columns /\ Held /\ Committed

\* The writes of the scan, and the columns they select.
LEMMA SelectWrites ==
  /\ \A i \in 1..44 :
       work_array[i].op = "WRITE" <=> i \in {3, 6, 9, 12, 13, 16, 19, 22, 25, 28}
  /\ \A i \in {3, 6, 9, 12} : work_array[i].reg = "SEL_V1_V3"
  /\ \A i \in {13, 16, 19, 22, 25, 28} : work_array[i].reg = "SEL_V4_V8"
  /\ work_array[3].cols = {3} /\ work_array[6].cols = {2} /\ work_array[9].cols = {1}
  /\ work_array[12].cols = {} /\ work_array[13].cols = {4} /\ work_array[16].cols = {5}
  /\ work_array[19].cols = {6} /\ work_array[22].cols = {7} /\ work_array[25].cols = {8}
  /\ work_array[28].cols = {}
BY SMTT(30), ZenonT(40) DEF work_array, Write, Deselect, Column, Read, Status

\* Only those writes move the columns.
LEMMA ColumnsMove ==
  /\ \A i \in 1..44 \ {3, 6, 9, 12} : V1At(i) = V1At(i - 1)
  /\ \A i \in 1..44 \ {13, 16, 19, 22, 25, 28} : V4At(i) = V4At(i - 1)
  /\ V1At(3) = {3} /\ V1At(6) = {2} /\ V1At(9) = {1} /\ V1At(12) = {}
  /\ V4At(13) = {4} /\ V4At(16) = {5} /\ V4At(19) = {6} /\ V4At(22) = {7} /\ V4At(25) = {8}
  /\ V4At(28) = {}
<1>1. \A i \in 1..44 : i \notin {3, 6, 9, 12} => V1At(i) = V1At(i - 1)
  BY DEF V1At
<1>2. \A i \in 1..44 : i \notin {13, 16, 19, 22, 25, 28} => V4At(i) = V4At(i - 1)
  BY DEF V4At
<1>3. QED BY <1>1, <1>2 DEF V1At, V4At

\* The registers whose words are kept.
LEMMA RegistersRead ==
  /\ work_array[1].reg = "TYPE_VALUE"
  /\ \A i \in {4, 7, 10, 14, 17, 20, 23, 26} : work_array[i].reg = "BTN_READ"
  /\ work_array[31].reg = "LIGHT_LEFT_E" /\ work_array[33].reg = "LIGHT_LEFT_M"
  /\ work_array[35].reg = "LIGHT_RIGHT_E" /\ work_array[37].reg = "LIGHT_RIGHT_M"
  /\ work_array[39].reg = "MCU_POWER_STATUS"
  /\ work_array[41].reg = "MCU_EXT_LIGHT_MSB" /\ work_array[43].reg = "MCU_EXT_LIGHT_LSB"
BY DEF work_array, Write, Deselect, Column, Read, Status
\* The reads of the button lines, and the column each one is for.
ButtonReads == {4, 7, 10, 14, 17, 20, 23, 26}
ColumnOf(i) == CASE i = 4  -> 3 [] i = 7  -> 2 [] i = 10 -> 1 [] i = 14 -> 4
                 [] i = 17 -> 5 [] i = 20 -> 6 [] i = 23 -> 7 [] OTHER  -> 8

LEMMA ButtonColumns == \A i \in ButtonReads : V1At(i) \cup V4At(i) = {ColumnOf(i)}
BY DEF V1At, V4At, ColumnOf, ButtonReads

LEMMA ColumnsDiffer == \A i, j \in ButtonReads : i # j => ColumnOf(i) # ColumnOf(j)
BY DEF ColumnOf, ButtonReads

LEMMA FieldsDiffer == \A i, j \in DOMAIN FieldAt : i # j => FieldAt[i] # FieldAt[j]
BY DEF FieldAt

LEMMA FieldButtons == \A i \in DOMAIN FieldAt : FieldAt[i] \in Buttons => i \in ButtonReads
BY DEF FieldAt, Buttons, ButtonReads

LEMMA RegistersDiffer == \A i, j \in DOMAIN FieldAt : i # j =>
  work_array[i].reg # work_array[j].reg \/ (i \in ButtonReads /\ j \in ButtonReads)
BY RegistersRead DEF FieldAt, ButtonReads

LEMMA NotReset == \A i \in DOMAIN FieldAt : work_array[i].reg # "reset"
BY RegistersRead DEF FieldAt

LEMMA ButtonReadsOnly == \A i \in DOMAIN FieldAt :
  i \in ButtonReads <=> work_array[i].reg = "BTN_READ"
BY RegistersRead DEF FieldAt, ButtonReads

LEMMA WorkLength == Len(work_array) = 44
BY DEF work_array, Write, Read, Deselect, Column, Status

LEMMA WorkOps == \A i \in 1..44 : work_array[i].op \in {"WRITE", "READ"}
BY DEF work_array, Write, Deselect, Column, Read, Status

LEMMA InitScript ==
  Len(init_array) = 12 /\ \A i \in 1..12 : init_array[i].op = "WRITE" /\ init_array[i].cols = {}
BY DEF init_array, Write, Deselect

LEMMA EncoderRead == work_array[29].reg = "ENC_VALUE"
BY DEF work_array, Write, Deselect, Column, Read, Status

\* a status follows
LEMMA StatusReads == \A i \in DOMAIN FieldAt \cup {EncoderIndex} :
   /\ i \in 1..43 /\ work_array[i].op = "READ" /\ work_array[i + 1].op = "READ"
<1>1. \A i \in DOMAIN FieldAt \cup {29} :
        /\ i \in 1..43 /\ i \notin {3, 6, 9, 12, 13, 16, 19, 22, 25, 28}
        /\ i + 1 \notin {3, 6, 9, 12, 13, 16, 19, 22, 25, 28}
  BY DEF FieldAt
<1>2. QED BY <1>1, SelectWrites, WorkOps DEF EncoderIndex

LEMMA NotEncoder == \A i \in DOMAIN FieldAt : work_array[i].reg # "ENC_VALUE"
BY RegistersRead DEF FieldAt

LEMMA PanelConstants ==
  /\ CountMax \in Nat /\ CountMax > 0 /\ LightMax \in Nat /\ LightMax > 0
  /\ DefaultLight \in 0 .. LightMax /\ 0 \in Encoders /\ Encoders \subseteq 0..3
  /\ \A s \in Surroundings :
       s.pins \subseteq 0..3 /\ s.errors \in Nat /\ s.uses \subseteq {1, 6} /\ s.spaced \in BOOLEAN
BY PanelAssumption

LEMMA ScriptLength == TypeInv =>
  /\ Len(script) \in {12, 44}
  /\ amm_init_done => Len(script) = 44
  /\ (~amm_init_done => Len(script) = 12)
BY WorkLength, InitScript DEF script

LEMMA AccessKinds == TypeInv /\ amm_index < Len(script) =>
   /\ access.op \in {"WRITE", "READ"}
   /\ ~amm_init_done => access.op = "WRITE" /\ access.cols = {}
   /\ amm_init_done => access = work_array[amm_index + 1] /\ amm_index + 1 \in 1..44
<1> SUFFICES ASSUME TypeInv, amm_index < Len(script) PROVE
   /\ access.op \in {"WRITE", "READ"}
   /\ ~amm_init_done => access.op = "WRITE" /\ access.cols = {}
   /\ amm_init_done => access = work_array[amm_index + 1] /\ amm_index + 1 \in 1..44
  OBVIOUS
<1>1. amm_index \in Nat BY ScriptLength DEF TypeInv
<1>2. CASE amm_init_done
  <2>1. script = work_array /\ Len(script) = 44
    BY <1>2, WorkLength DEF script
  <2>2. amm_index + 1 \in 1..44
    BY <1>1, <2>1
  <2>3. access = work_array[amm_index + 1]
    BY <2>1 DEF access
  <2>4. QED BY <1>2, <2>2, <2>3, WorkOps
<1>3. CASE ~amm_init_done
  <2>1. script = init_array /\ Len(script) = 12
    BY <1>3, InitScript DEF script
  <2>2. amm_index + 1 \in 1..12
    BY <1>1, <2>1
  <2>3. access = init_array[amm_index + 1]
    BY <2>1 DEF access
  <2>4. QED BY <1>3, <2>2, <2>3, InitScript
<1>4. QED BY <1>2, <1>3

AmmTypes ==
  /\ amm_state \in {"RESET", "IDLE", "WRITE", "READ", "ACK"}
  /\ amm_init_done \in BOOLEAN /\ amm_index \in 0 .. Len(script)
  /\ amm_transaction \in BOOLEAN

\* One step of the bus machine keeps the invariant: AMM_RESET, AMM_IDLE, the
\* request and the answer.
LEMMA ResetAmm ==
  ASSUME ScanInv, AmmReset
  PROVE  AmmTypes' /\ AtAccess' /\ Columns' /\ Held' /\ Committed'
BY DEF ScanInv, TypeInv, AmmReset, AmmTypes, AtAccess, Columns, Held, Committed, script,
       access, enc

LEMMA IdleAmm ==
  ASSUME ScanInv, AmmIdle
  PROVE  AmmTypes' /\ AtAccess' /\ Columns' /\ Held' /\ Committed'
<1> USE DEF AmmIdle, NextAccess
<1>0. /\ TypeInv /\ amm_index \in Nat /\ amm_init_done \in BOOLEAN
      /\ amm_index <= Len(script)
  BY ScriptLength DEF ScanInv, TypeInv
<1>1. CASE amm_index < Len(script)
  <2>1. /\ amm_state' = access.op /\ amm_index' = amm_index
        /\ amm_init_done' = amm_init_done
    BY <1>1
  <2>2. script' = script /\ access' = access BY <2>1 DEF script, access
  <2>9. amm_state' \in {"WRITE", "READ"} BY <1>0, <1>1, <2>1, AccessKinds
  <2>10. amm_index' \in 0..Len(script') BY <1>0, <2>1, <2>2, ScriptLength
  <2>11. amm_init_done' \in BOOLEAN /\ amm_transaction' \in BOOLEAN BY <1>0, <2>1
  <2>3. AmmTypes' BY <2>9, <2>10, <2>11 DEF AmmTypes
  <2>4. AtAccess' BY <1>0, <1>1, <2>1, <2>2, AccessKinds DEF AtAccess
  <2>5. Columns' BY <2>1 DEF ScanInv, Columns
  <2>6. Held'
    <3>1. ASSUME amm_init_done, amm_index \in DOMAIN FieldAt \cup {EncoderIndex}
          PROVE  amm_data_d' = amm_data_d
      <4>1. access.op = "READ" BY <1>0, <1>1, <3>1, AccessKinds, StatusReads
      <4>2. QED BY <4>1
    <3>2. QED BY <2>1, <3>1 DEF ScanInv, Held
  <2>7. Committed' BY DEF ScanInv, Committed
  <2>8. QED BY <2>3, <2>4, <2>5, <2>6, <2>7
<1>2. CASE ~(amm_index < Len(script))
  <2>1. /\ amm_index' = 0 /\ amm_init_done' = TRUE /\ amm_state' = "IDLE"
        /\ amm_transaction' = FALSE
    BY <1>2
  <2>9. script' = work_array BY <2>1 DEF script
  <2>13. amm_index' \in 0..Len(script') BY <2>1, <2>9, WorkLength
  <2>14. amm_init_done' \in BOOLEAN /\ amm_transaction' \in BOOLEAN BY <2>1
  <2>2. AmmTypes' BY <2>1, <2>13, <2>14 DEF AmmTypes
  <2>3. AtAccess' BY <2>1 DEF AtAccess
  <2>4. amm_init_done => amm_index = 44
    <3>1. ASSUME amm_init_done PROVE Len(script) = 44
      BY <1>0, <3>1, ScriptLength
    <3>2. ASSUME amm_init_done PROVE amm_index = 44
      <4>1. Len(script) = 44 BY <3>1, <3>2
      <4>2. QED BY <1>0, <1>2, <4>1
    <3>3. QED BY <3>2
  <2>10. V1At(0) = {} /\ V4At(0) = {} /\ V1At(44) = {} /\ V4At(44) = {}
    BY DEF V1At, V4At
  <2>11. selected = [r \in {"SEL_V1_V3", "SEL_V4_V8"} |-> {}]
    BY <2>4, <2>10 DEF ScanInv, Columns
  <2>12. selected' = selected
    OBVIOUS
  <2>5. Columns' BY <2>1, <2>10, <2>11, <2>12 DEF Columns
  <2>6. Held' BY <2>1 DEF Held, FieldAt, EncoderIndex
  <2>7. Committed' BY DEF ScanInv, Committed
  <2>8. QED BY <2>2, <2>3, <2>5, <2>6, <2>7
<1>3. QED BY <1>1, <1>2

LEMMA RequestAmm ==
  ASSUME ScanInv, NEW accept \in BOOLEAN, AmmRequest(accept)
  PROVE  AmmTypes' /\ AtAccess' /\ Columns' /\ Held' /\ Committed'
<1> USE DEF AmmRequest
<1>0. /\ TypeInv /\ amm_index \in Nat /\ amm_init_done \in BOOLEAN
      /\ amm_index < Len(script) /\ amm_state = access.op
  BY ScriptLength DEF ScanInv, TypeInv, AtAccess
<1>2. Committed' BY DEF ScanInv, Committed
<1>3. amm_init_done' = amm_init_done /\ script' = script /\ amm_data_d' = amm_data_d
  BY DEF script
<1>4. CASE accept /\ amm_transaction /\ amm_state = "WRITE"
  <2>1. /\ amm_state' = "IDLE" /\ amm_index' = amm_index + 1 /\ amm_transaction' = amm_transaction
        /\ selected' = IF access.reg \in DOMAIN selected
                       THEN [selected EXCEPT ![access.reg] = access.cols] ELSE selected
    BY <1>4
  <2>2. amm_transaction \in BOOLEAN BY DEF ScanInv, TypeInv
  <2>3. AmmTypes' BY <1>0, <1>3, <2>1, <2>2, ScriptLength DEF AmmTypes
  <2>4. AtAccess' BY <2>1 DEF AtAccess
  <2>5. CASE ~amm_init_done
    <3>1. access.cols = {} BY <1>0, <2>5, AccessKinds
    <3>2. Columns' BY <1>3, <2>1, <2>5, <3>1, SMTT(30), ZenonT(40) DEF ScanInv, Columns
    <3>3. QED BY <1>2, <1>3, <2>3, <2>4, <2>5, <3>2 DEF Held
  <2>6. CASE amm_init_done
    <3>1. access = work_array[amm_index + 1] /\ amm_index + 1 \in 1..44
      BY <1>0, <2>6, AccessKinds
    <3> DEFINE i == amm_index + 1
    <3>2. i \in {3, 6, 9, 12, 13, 16, 19, 22, 25, 28} BY <1>0, <1>4, <3>1, SelectWrites, SMT, ZenonT(40)
    <3>3. Held'
      <4>1. i \notin DOMAIN FieldAt \cup {EncoderIndex}
        BY <3>2 DEF FieldAt, EncoderIndex
      <4>2. QED BY <2>1, <4>1 DEF Held
    <3>4. selected = [r \in {"SEL_V1_V3", "SEL_V4_V8"} |->
                       IF r = "SEL_V1_V3" THEN V1At(amm_index) ELSE V4At(amm_index)]
      BY <2>6 DEF ScanInv, Columns
    <3>5. CASE i \in {3, 6, 9, 12}
      <4>1. access.reg = "SEL_V1_V3" BY <3>1, <3>5, SelectWrites
      <4>2. access.cols = V1At(i) BY <3>1, <3>5, SelectWrites, ColumnsMove
      <4>3. V4At(i) = V4At(i - 1) /\ i - 1 = amm_index BY <1>0, <3>1, <3>5, ColumnsMove
      <4>4. selected' = [r \in {"SEL_V1_V3", "SEL_V4_V8"} |->
                         IF r = "SEL_V1_V3" THEN V1At(i) ELSE V4At(i)]
        BY <2>1, <3>4, <4>1, <4>2, <4>3
      <4>5. QED BY <1>2, <1>3, <2>1, <2>3, <2>4, <2>6, <3>3, <4>4 DEF Columns
    <3>6. CASE i \in {13, 16, 19, 22, 25, 28}
      <4>1. access.reg = "SEL_V4_V8" BY <3>1, <3>6, SelectWrites
      <4>2. access.cols = V4At(i) BY <3>1, <3>6, SelectWrites, ColumnsMove, SMT, ZenonT(40)
      <4>3. V1At(i) = V1At(i - 1) /\ i - 1 = amm_index BY <1>0, <3>1, <3>6, ColumnsMove
      <4>4. selected' = [r \in {"SEL_V1_V3", "SEL_V4_V8"} |->
                         IF r = "SEL_V1_V3" THEN V1At(i) ELSE V4At(i)]
        BY <2>1, <3>4, <4>1, <4>2, <4>3
      <4>5. QED BY <1>2, <1>3, <2>1, <2>3, <2>4, <2>6, <3>3, <4>4 DEF Columns
    <3>7. QED BY <3>2, <3>5, <3>6
  <2>7. QED BY <1>0, <2>5, <2>6
<1>5. CASE accept /\ amm_transaction /\ amm_state = "READ"
  <2>1. amm_state' = "ACK" /\ UNCHANGED <<amm_index, selected, amm_transaction>> BY <1>5
  <2>2. AmmTypes' BY <1>0, <1>3, <2>1 DEF AmmTypes, ScanInv, TypeInv
  <2>3. AtAccess' BY <1>0, <1>3, <1>5, <2>1 DEF AtAccess, access
  <2>4. Columns' /\ Held' BY <1>3, <2>1 DEF ScanInv, Columns, Held
  <2>5. QED BY <1>2, <2>2, <2>3, <2>4
<1>6. CASE ~(accept /\ amm_transaction)
  <2>1. amm_transaction' = TRUE /\ UNCHANGED <<amm_state, amm_index, selected>> BY <1>6
  <2>2. AmmTypes' BY <1>0, <1>3, <2>1 DEF AmmTypes, ScanInv, TypeInv
  <2>3. AtAccess' BY <1>0, <1>3, <2>1 DEF AtAccess, access, ScanInv
  <2>4. Columns' /\ Held' BY <1>3, <2>1 DEF ScanInv, Columns, Held
  <2>5. QED BY <1>2, <2>2, <2>3, <2>4
<1>7. QED BY <1>4, <1>5, <1>6

LEMMA AckAmm ==
  ASSUME ScanInv, NEW valid \in BOOLEAN, NEW ok \in BOOLEAN, AmmAck(valid, ok)
  PROVE  AmmTypes' /\ AtAccess' /\ Columns' /\ Held' /\ Committed'
<1> USE DEF AmmAck
<1>0. /\ TypeInv /\ amm_index \in Nat /\ amm_init_done \in BOOLEAN
      /\ amm_index < Len(script) /\ access.op = "READ"
  BY ScriptLength DEF ScanInv, TypeInv, AtAccess
<1>1. amm_init_done /\ amm_init_done' = amm_init_done /\ script' = script
  BY <1>0, AccessKinds DEF script
<1>2. amm_transaction' = FALSE /\ selected' = selected OBVIOUS
<1>3. access = work_array[amm_index + 1] /\ amm_index + 1 \in 1..44
  BY <1>0, <1>1, AccessKinds
<1> DEFINE i == amm_index + 1
<1>4. CASE valid
  <2>1. amm_state' = "IDLE" /\ amm_index' = i /\ amm_data_d' \in Answer BY <1>4
  <2>12. i \in 0..Len(script') BY <1>0, <1>1
  <2>13. amm_init_done' \in BOOLEAN /\ amm_transaction' \in BOOLEAN BY <1>1, <1>2
  <2>2. AmmTypes' /\ AtAccess' BY <2>1, <2>12, <2>13 DEF AmmTypes, AtAccess
  <2>3. i \notin {3, 6, 9, 12, 13, 16, 19, 22, 25, 28} BY <1>0, <1>3, SelectWrites
  <2>4. V1At(i) = V1At(amm_index) /\ V4At(i) = V4At(amm_index)
    <3>1. i - 1 = amm_index BY <1>0
    <3>2. QED BY <1>3, <2>3, <3>1, ColumnsMove
  <2>5. Columns' BY <1>1, <1>2, <2>1, <2>4 DEF ScanInv, Columns
  <2>6. selected = [r \in {"SEL_V1_V3", "SEL_V4_V8"} |->
                       IF r = "SEL_V1_V3" THEN V1At(i) ELSE V4At(i)]
    BY <1>1, <2>4 DEF ScanInv, Columns
  <2>7. UNION {selected[r] : r \in DOMAIN selected} = V1At(i) \cup V4At(i)
    BY <2>6
  <2>8. PICK pins \in (IF access.reg = "ENC_VALUE"
                      THEN [Encoders -> around.pins] ELSE {NoPins}) :
          amm_data_d' = Value(access.reg,
            IF access.reg = "BTN_READ" THEN V1At(i) \cup V4At(i) ELSE {}, pins)
    BY <2>1, <2>7 DEF Answer
  <2>9. Held'
    <3>1. ASSUME i \in DOMAIN FieldAt PROVE amm_data_d' = Source(i)
      BY <1>3, <2>8, <3>1, NotEncoder DEF Source
    <3>2. ASSUME i = EncoderIndex PROVE amm_data_d'.pins \in [Encoders -> 0..3]
      <4>1. pins \in [Encoders -> around.pins]
        BY <1>3, <2>8, <3>2, EncoderRead DEF EncoderIndex
      <4>2. around.pins \subseteq 0..3 BY PanelConstants DEF ScanInv, TypeInv
      <4>3. QED BY <2>8, <4>1, <4>2 DEF Value
    <3>3. QED BY <2>1, <3>1, <3>2 DEF Held
  <2>10. Committed'
    <3>1. CASE ok /\ amm_index \in DOMAIN FieldAt
      <4>1. field' = [field EXCEPT ![FieldAt[amm_index]] = amm_data_d]
        BY <1>1, <1>4, <3>1 DEF Commit
      <4>2. amm_data_d = Source(amm_index) BY <1>1, <3>1 DEF ScanInv, Held
      <4>3. DOMAIN field = Fields BY DEF ScanInv, TypeInv
      <4>4. ASSUME NEW j \in DOMAIN FieldAt
            PROVE  field'[FieldAt[j]] \in {Nothing, Source(j)}
        <5>1. FieldAt[j] \in Fields BY DEF Fields
        <5>2. field'[FieldAt[j]] = IF FieldAt[j] = FieldAt[amm_index]
                                  THEN amm_data_d ELSE field[FieldAt[j]]
          BY <4>1, <4>3, <5>1
        <5>3. FieldAt[j] = FieldAt[amm_index] => j = amm_index BY <3>1, FieldsDiffer
        <5>4. QED BY <4>2, <5>2, <5>3 DEF ScanInv, Committed
      <4>5. QED BY <4>4 DEF Committed
    <3>2. CASE ~(ok /\ amm_index \in DOMAIN FieldAt)
      <4>1. field' = field BY <1>1, <1>4, <3>2 DEF Commit
      <4>2. QED BY <4>1 DEF ScanInv, Committed
    <3>3. QED BY <3>1, <3>2
  <2>11. QED BY <2>2, <2>5, <2>9, <2>10
<1>5. CASE ~valid
  <2>1. UNCHANGED <<amm_state, amm_index, amm_data_d, field, amm_init_done, selected>>
    BY <1>5
  <2>2. AmmTypes' BY <1>0, <1>1, <1>2, <2>1 DEF AmmTypes, ScanInv, TypeInv
  <2>3. AtAccess' BY <1>0, <1>1, <2>1 DEF AtAccess, access, ScanInv
  <2>4. Columns' /\ Held' /\ Committed' BY <2>1 DEF ScanInv, Columns, Held, Committed
  <2>5. QED BY <2>2, <2>3, <2>4
<1>6. QED BY <1>4, <1>5

CountTypes ==
  /\ enc_state \in [Encoders -> 0 .. 3] /\ enc_cnt \in [Encoders -> -CountMax .. CountMax]
  /\ enc_clear_ack \in [Encoders -> BOOLEAN]

LightTypes ==
  /\ light_remote \in BOOLEAN /\ light_cnt \in 0 .. LightMax
  /\ light_cnt_ack \in BOOLEAN

SlaveTypes ==
  /\ enc_clear \in [Encoders -> BOOLEAN]
  /\ light_remote_d \in BOOLEAN /\ light_cnt_d \in 0 .. LightMax
  /\ light_cnt_req \in BOOLEAN
  /\ ams_state \in {"RESET", "IDLE", "WRITE", "READ"} /\ ams_address_d \in {0, 1, 6}
  /\ ams_byteenable_d \subseteq Encoders /\ ams_writedata_d \in Requests

LEMMA TypeParts == TypeInv <=>
  /\ AmmTypes /\ CountTypes /\ LightTypes /\ SlaveTypes
  /\ DOMAIN field = Fields
  /\ around \in Surroundings /\ told \subseteq Encoders /\ bad \in 0 .. around.errors
BY DEF TypeInv, AmmTypes, CountTypes, LightTypes, SlaveTypes

\* The types of the host side, of the counters and of the brightness.
LEMMA SlaveTyped == ASSUME TypeInv, Ams PROVE SlaveTypes'
<1> USE DEF SlaveTypes
<1>1. SlaveTypes /\ CountTypes BY TypeParts
<1>2. CASE AmsReset BY <1>1, <1>2 DEF AmsReset, asks
<1>3. CASE AmsIdle
  <2>1. enc_clear' \in [Encoders -> BOOLEAN] BY <1>3 DEF AmsIdle, Withdraw
  <2>2. light_remote_d' \in BOOLEAN BY <1>1, <1>3 DEF AmsIdle, Withdraw
  <2>3. light_cnt_d' \in 0..LightMax BY <1>1, <1>3 DEF AmsIdle, Withdraw
  <2>4. light_cnt_req' \in BOOLEAN BY <1>3 DEF AmsIdle, Withdraw
  <2>5. CASE UNCHANGED slave BY <1>1, <2>1, <2>2, <2>3, <2>4, <2>5 DEF slave
  <2>6. CASE ~UNCHANGED slave
    <3>1. /\ ams_state' \in {"WRITE", "READ"} /\ ams_address_d' \in around.uses
          /\ ams_byteenable_d' \in IF ams_address_d' = 6 THEN SUBSET Encoders ELSE {{}}
          /\ ams_writedata_d' \in IF ams_state' = "WRITE" /\ ams_address_d' = 1
                               THEN Requests ELSE {[remote |-> FALSE, cnt |-> 0]}
      BY <1>3, <2>6 DEF AmsIdle
    <3>2. around.uses \subseteq {1, 6} BY PanelConstants DEF TypeInv
    <3>3. [remote |-> FALSE, cnt |-> 0] \in Requests BY PanelConstants DEF Requests
    <3>4. ams_byteenable_d' \subseteq Encoders BY <3>1
    <3>5. ams_writedata_d' \in Requests BY <3>1, <3>3
    <3>6. QED BY <2>1, <2>2, <2>3, <2>4, <3>1, <3>2, <3>4, <3>5
  <2>7. QED BY <2>5, <2>6
<1>4. CASE AmsWrite
  <2>1. CASE ams_address_d = 1
    <3>1. ams_writedata_d.remote \in BOOLEAN /\ ams_writedata_d.cnt \in 0..LightMax
      BY <1>1 DEF Requests
    <3>2. light_remote_d' = ams_writedata_d.remote /\ light_cnt_d' = ams_writedata_d.cnt
      BY <1>4, <2>1 DEF AmsWrite
    <3>3. enc_clear' = enc_clear /\ light_cnt_req' = TRUE BY <1>4, <2>1 DEF AmsWrite
    <3>4. /\ ams_state' = "IDLE" /\ ams_address_d' = ams_address_d
          /\ ams_byteenable_d' = ams_byteenable_d /\ ams_writedata_d' = ams_writedata_d
      BY <1>4 DEF AmsWrite
    <3>5. light_remote_d' \in BOOLEAN BY <3>1, <3>2
    <3>6. light_cnt_d' \in 0..LightMax BY <3>1, <3>2
    <3>7. light_cnt_req' \in BOOLEAN BY <3>3
    <3>8. enc_clear' \in [Encoders -> BOOLEAN] BY <1>1, <3>3
    <3>9. QED BY <1>1, <3>4, <3>5, <3>6, <3>7, <3>8
  <2>2. CASE ams_address_d # 1
    <3>1. enc_clear' \in [Encoders -> BOOLEAN] BY <1>4, <2>2 DEF AmsWrite, AskClear
    <3>2. QED BY <1>1, <1>4, <2>2, <3>1 DEF AmsWrite
  <2>3. QED BY <2>1, <2>2
<1>5. CASE AmsRead
  <2>1. enc_clear' \in [Encoders -> BOOLEAN] BY <1>1, <1>5 DEF AmsRead, AskClear
  <2>2. QED BY <1>1, <1>5, <2>1 DEF AmsRead
<1>6. QED BY <1>2, <1>3, <1>4, <1>5 DEF Ams

LEMMA CountTyped ==
  ASSUME ScanInv, NEW accept \in BOOLEAN, NEW ok \in BOOLEAN, Amm(accept, ok)
  PROVE  CountTypes'
<1> USE DEF CountTypes
<1>1. TypeInv /\ CountTypes /\ SlaveTypes BY TypeParts DEF ScanInv
<1>2. CASE AmmReset BY <1>1, <1>2 DEF AmmReset, enc
<1>3. CASE AmmIdle
  <2>1. enc_clear_ack' \in [Encoders -> BOOLEAN]
    BY <1>1, <1>3 DEF AmmIdle, AnswerClears, SlaveTypes
  <2>2. enc_cnt' = [e \in Encoders |-> IF enc_clear[e] THEN 0 ELSE enc_cnt[e]]
    BY <1>3 DEF AmmIdle, AnswerClears
  <2>3. 0 \in -CountMax .. CountMax BY PanelConstants
  <2>4. enc_cnt' \in [Encoders -> -CountMax .. CountMax] BY <1>1, <2>2, <2>3
  <2>5. enc_state' = enc_state BY <1>3 DEF AmmIdle
  <2>6. QED BY <1>1, <2>1, <2>4, <2>5
<1>4. CASE AmmRequest(accept) BY <1>1, <1>4 DEF AmmRequest, enc
<1>5. CASE AmmAck(accept, ok)
  <2>1. enc_clear_ack' = enc_clear_ack BY <1>5 DEF AmmAck
  <2>2. CASE accept /\ amm_init_done /\ ok /\ amm_index = EncoderIndex
    <3>1. /\ enc_cnt' = [e \in Encoders |-> Counted(e)] /\ enc_state' = amm_data_d.pins
      BY <1>5, <2>2 DEF AmmAck, Commit
    <3>2. amm_data_d.pins \in [Encoders -> 0..3] BY <2>2 DEF ScanInv, Held
    <3>3. ASSUME NEW e \in Encoders PROVE Counted(e) \in -CountMax .. CountMax
      <4>1. enc_cnt[e] \in -CountMax .. CountMax BY <1>1
      <4>2. QED BY <4>1, PanelConstants DEF Counted
    <3>4. enc_cnt' \in [Encoders -> -CountMax .. CountMax] BY <3>1, <3>3
    <3>5. QED BY <1>1, <2>1, <3>1, <3>2, <3>4
  <2>3. CASE ~(accept /\ amm_init_done /\ ok /\ amm_index = EncoderIndex)
    <3>1. UNCHANGED <<enc_cnt, enc_state>> BY <1>5, <2>3 DEF AmmAck, Commit
    <3>2. QED BY <1>1, <2>1, <3>1
  <2>4. QED BY <2>2, <2>3
<1>6. QED BY <1>2, <1>3, <1>4, <1>5 DEF Amm

LEMMA LightTyped ==
  ASSUME ScanInv, NEW accept \in BOOLEAN, NEW ok \in BOOLEAN, Amm(accept, ok)
  PROVE  LightTypes'
<1>1. LightTypes /\ SlaveTypes BY TypeParts DEF ScanInv
<1>2. light_cnt' \in 0..LightMax
  <2>1. CASE AmmReset BY <2>1, PanelConstants DEF AmmReset
  <2>2. CASE AmmIdle BY <1>1, <2>2 DEF AmmIdle, AnswerLight, LightTypes, SlaveTypes
  <2>3. CASE AmmRequest(accept) BY <1>1, <2>3 DEF AmmRequest, light, LightTypes
  <2>4. CASE AmmAck(accept, ok)
    <3>1. Brightness \in 0..LightMax BY <1>1, PanelConstants DEF Brightness, LightTypes
    <3>2. light_cnt' = Brightness \/ light_cnt' = light_cnt BY <2>4 DEF AmmAck, Commit
    <3>3. QED BY <1>1, <3>1, <3>2 DEF LightTypes
  <2>5. QED BY <2>1, <2>2, <2>3, <2>4 DEF Amm
<1>3. light_remote' \in BOOLEAN
  <2>1. light_remote' = light_remote \/ light_remote' = light_remote_d
    BY DEF Amm, AmmReset, AmmIdle, AnswerLight, AmmRequest, AmmAck, light
  <2>2. QED BY <1>1, <2>1 DEF LightTypes, SlaveTypes
<1>4. light_cnt_ack' \in BOOLEAN
  <2>1. light_cnt_ack' = light_cnt_ack \/ light_cnt_ack' = light_cnt_req
    BY DEF Amm, AmmReset, AmmIdle, AnswerLight, AmmRequest, AmmAck, light
  <2>2. QED BY <1>1, <2>1 DEF LightTypes, SlaveTypes
<1>5. QED BY <1>2, <1>3, <1>4 DEF LightTypes

LEMMA AmmStep ==
  ASSUME ScanInv, NEW accept \in BOOLEAN, NEW ok \in BOOLEAN, Amm(accept, ok)
  PROVE  AmmTypes' /\ AtAccess' /\ Columns' /\ Held' /\ Committed'
BY ResetAmm, IdleAmm, RequestAmm, AckAmm DEF Amm

LEMMA FieldKept ==
  ASSUME ScanInv, NEW accept \in BOOLEAN, NEW ok \in BOOLEAN, Amm(accept, ok)
  PROVE  DOMAIN field' = Fields
<1>1. DOMAIN field = Fields BY DEF ScanInv, TypeInv
<1>2. field' = field \/ \E f, v : field' = [field EXCEPT ![f] = v]
  BY DEF Amm, AmmReset, AmmIdle, AmmRequest, AmmAck, Commit
<1>3. QED BY <1>1, <1>2

\* Every edge keeps the invariant.
LEMMA ClockScanInv == ASSUME ScanInv, Next PROVE ScanInv'
<1>1. PICK accept \in BOOLEAN : Clock(accept) BY DEF Next
<1>2. \E ok \in BOOLEAN : Amm(accept, ok) BY <1>1 DEF Clock
<1>3. Ams /\ Told /\ around' = around BY <1>1 DEF Clock
<1>4. /\ AmmTypes' /\ AtAccess' /\ Columns' /\ Held' /\ Committed' /\ CountTypes' /\ LightTypes'
      /\ DOMAIN field' = Fields
  BY <1>2, AmmStep, CountTyped, LightTyped, FieldKept
<1>5. SlaveTypes' BY <1>3, SlaveTyped DEF ScanInv
<1>6. around' \in Surroundings BY <1>3 DEF ScanInv, TypeInv
<1>7. told' \subseteq Encoders
  <2>1. told \subseteq Encoders /\ ams_byteenable_d \subseteq Encoders
    BY DEF ScanInv, TypeInv
  <2>2. QED BY <1>3, <2>1 DEF Told
<1>8. bad' \in 0..around'.errors
  <2>1. around.errors \in Nat /\ bad \in 0..around.errors
    BY PanelConstants DEF ScanInv, TypeInv
  <2>2. bad' = bad \/ (bad < around.errors /\ bad' = bad + 1) BY <1>1 DEF Clock
  <2>3. QED BY <1>3, <2>1, <2>2
<1>9. TypeInv'
  BY <1>4, <1>5, <1>6, <1>7, <1>8
  DEF TypeInv, AmmTypes, CountTypes, LightTypes, SlaveTypes
<1>10. QED BY <1>4, <1>9 DEF ScanInv

LEMMA InitScanInv == Init => ScanInv
<1> SUFFICES ASSUME Init PROVE ScanInv
  OBVIOUS
<1> USE DEF Init
<1>1. AmmTypes
  <2>1. script = init_array BY DEF script
  <2>2. amm_index \in 0..Len(script) BY <2>1, InitScript
  <2>3. amm_init_done \in BOOLEAN /\ amm_transaction \in BOOLEAN OBVIOUS
  <2>4. QED BY <2>2, <2>3 DEF AmmTypes
<1>2. CountTypes
  <2>1. 0 \in -CountMax .. CountMax BY PanelConstants
  <2>2. QED BY <2>1 DEF CountTypes, NoPins
<1>3. LightTypes
  <2>1. light_cnt \in 0..LightMax BY PanelConstants
  <2>2. light_remote \in BOOLEAN /\ light_cnt_ack \in BOOLEAN OBVIOUS
  <2>3. QED BY <2>1, <2>2 DEF LightTypes
<1>4. SlaveTypes
  <2>1. [remote |-> FALSE, cnt |-> 0] \in Requests BY PanelConstants DEF Requests
  <2>2. light_cnt_d \in 0..LightMax BY PanelConstants
  <2>3. enc_clear \in [Encoders -> BOOLEAN] OBVIOUS
  <2>4. light_remote_d \in BOOLEAN /\ light_cnt_req \in BOOLEAN OBVIOUS
  <2>5. QED BY <2>1, <2>2, <2>3, <2>4 DEF SlaveTypes
<1>5. DOMAIN field = Fields OBVIOUS
<1>6. around \in Surroundings /\ told \subseteq Encoders OBVIOUS
<1>7. bad \in 0..around.errors BY PanelConstants
<1>8. TypeInv BY <1>1, <1>2, <1>3, <1>4, <1>5, <1>6, <1>7, TypeParts
<1>9. AtAccess /\ Columns /\ Held BY DEF AtAccess, Columns, Held
<1>10. Committed
  <2>1. \A i \in DOMAIN FieldAt : FieldAt[i] \in Fields BY DEF Fields
  <2>2. QED BY <2>1 DEF Committed
<1>11. QED BY <1>8, <1>9, <1>10 DEF ScanInv

LEMMA StutterScanInv == ScanInv /\ UNCHANGED vars => ScanInv'
<1> SUFFICES ASSUME ScanInv, UNCHANGED vars PROVE ScanInv'
  OBVIOUS
<1> USE DEF vars, amm, enc, light, slave, asks
<1>1. script' = script /\ access' = access BY DEF script, access
<1>2. TypeInv' BY <1>1 DEF ScanInv, TypeInv
<1>3. QED BY <1>1, <1>2 DEF ScanInv, AtAccess, Columns, Held, Committed

\* What one field may hold never comes from another read.
LEMMA SourceOfButton == \A i \in DOMAIN FieldAt : FieldAt[i] \in Buttons =>
   Source(i).reg = "BTN_READ" /\ Source(i).cols = {ColumnOf(i)}
BY FieldButtons, ButtonReadsOnly, ButtonColumns DEF Source, Value

LEMMA SourceNotReset == \A i \in DOMAIN FieldAt : Source(i) # Nothing
<1>1. \A i \in DOMAIN FieldAt : Source(i).reg # Nothing.reg
  BY NotReset DEF Source, Value, Nothing
<1>2. QED BY <1>1

LEMMA SourcesDiffer == \A i, j \in DOMAIN FieldAt : i # j => Source(i) # Source(j)
<1> SUFFICES ASSUME NEW i \in DOMAIN FieldAt, NEW j \in DOMAIN FieldAt, i # j
             PROVE  Source(i) # Source(j)
  OBVIOUS
<1>1. CASE i \in ButtonReads /\ j \in ButtonReads
  <2>1. Source(i).cols = {ColumnOf(i)} /\ Source(j).cols = {ColumnOf(j)}
    BY <1>1, ButtonReadsOnly, ButtonColumns DEF Source, Value
  <2>2. ColumnOf(i) # ColumnOf(j) BY <1>1, ColumnsDiffer
  <2>3. QED BY <2>1, <2>2
<1>2. CASE ~(i \in ButtonReads /\ j \in ButtonReads)
  <2>1. Source(i).reg # Source(j).reg BY <1>2, RegistersDiffer DEF Source, Value
  <2>2. QED BY <2>1
<1>3. QED BY <1>1, <1>2

LEMMA ScanInvSafe == ScanInv => ScanSafe
<1> SUFFICES ASSUME ScanInv PROVE ScanSafe
  OBVIOUS
<1>1. \A f \in Fields : \E i \in DOMAIN FieldAt : f = FieldAt[i] BY DEF Fields
<1>2. ASSUME NEW f \in Buttons, field[f] # Nothing
      PROVE  field[f].reg = "BTN_READ" /\ Cardinality(field[f].cols) = 1
  <2>1. PICK i \in DOMAIN FieldAt : f = FieldAt[i] BY DEF Buttons, FieldAt
  <2>2. field[f] = Source(i) BY <1>2, <2>1 DEF ScanInv, Committed
  <2>3. field[f].reg = "BTN_READ" /\ field[f].cols = {ColumnOf(i)}
    BY <2>1, <2>2, SourceOfButton
  <2>4. QED BY <2>3, FS_Singleton
<1>3. ASSUME NEW f \in Fields, NEW g \in Fields, field[f] # Nothing, f # g
      PROVE  field[f] # field[g]
  <2>1. PICK i \in DOMAIN FieldAt : f = FieldAt[i] BY <1>1
  <2>2. PICK j \in DOMAIN FieldAt : g = FieldAt[j] BY <1>1
  <2>3. field[f] = Source(i) /\ field[g] \in {Nothing, Source(j)}
    BY <1>3, <2>1, <2>2 DEF ScanInv, Committed
  <2>4. i # j BY <1>3, <2>1, <2>2
  <2>5. QED BY <2>3, <2>4, SourcesDiffer, SourceNotReset
<1>4. QED BY <1>2, <1>3 DEF ScanSafe, FieldsFitScript, ScanInv

\* The clear of e is asked for and not yet acknowledged.
Requested(e) == enc_clear[e] /\ ~enc_clear_ack[e]

ToldInv == around.spaced =>
  /\ \A e \in told : Requested(e)
  /\ ams_state \in {"WRITE", "READ"} =>
       \A e \in Encoders : ~enc_clear[e] /\ ~enc_clear_ack[e]

\* An acknowledge follows the request at AMM_IDLE, when the count is cleared.
LEMMA AcksMove == ASSUME ScanInv, Next PROVE \A e \in Encoders :
   \/ enc_clear_ack'[e] = enc_clear_ack[e]
   \/ enc_clear_ack'[e] = enc_clear[e] /\ (enc_clear[e] => enc_cnt'[e] = 0)
<1>1. PICK accept, ok \in BOOLEAN : Amm(accept, ok) BY DEF Next, Clock
<1>2. CASE AmmIdle BY <1>2 DEF AmmIdle, AnswerClears
<1>3. CASE ~AmmIdle BY <1>1, <1>3 DEF Amm, AmmReset, AmmRequest, AmmAck, enc
<1>4. QED BY <1>2, <1>3

LEMMA NextToldInv == ASSUME ScanInv, ToldInv, Next PROVE ToldInv'
<1> SUFFICES ASSUME around.spaced PROVE
        /\ \A e \in told' : Requested(e)'
        /\ ams_state' \in {"WRITE", "READ"} =>
             \A e \in Encoders : ~enc_clear'[e] /\ ~enc_clear_ack'[e]
  <2>1. around' = around BY DEF Next, Clock
  <2>2. QED BY <2>1 DEF ToldInv
<1>1. Ams /\ Told BY DEF Next, Clock
<1>2. /\ told \subseteq Encoders /\ ams_byteenable_d \subseteq Encoders
      /\ enc_clear \in [Encoders -> BOOLEAN]
      /\ enc_clear_ack \in [Encoders -> BOOLEAN]
  BY DEF ScanInv, TypeInv
<1>3. \A e \in told : enc_clear[e] /\ ~enc_clear_ack[e] BY DEF ToldInv, Requested
<1>4. ams_state \in {"WRITE", "READ"} =>
        \A e \in Encoders : ~enc_clear[e] /\ ~enc_clear_ack[e] BY DEF ToldInv
<1>5. ASSUME NEW e \in told' PROVE enc_clear'[e] /\ ~enc_clear_ack'[e]
  <2>1. e \in Encoders /\ enc_cnt'[e] # 0 BY <1>1, <1>2 DEF Told
  <2>2. CASE GivesCounts /\ e \in ams_byteenable_d
    <3>1. ~enc_clear[e] /\ ~enc_clear_ack[e] BY <1>4, <2>1, <2>2 DEF GivesCounts
    <3>2. enc_clear'[e]
      BY <1>1, <2>1, <2>2
      DEF Ams, AmsIdle, AmsRead, AmsWrite, AmsReset, GivesCounts, AskClear
    <3>3. ~enc_clear_ack'[e] BY <2>1, <3>1, AcksMove
    <3>4. QED BY <3>2, <3>3
  <2>3. CASE ~(GivesCounts /\ e \in ams_byteenable_d)
    <3>1. e \in told BY <1>1, <2>3 DEF Told
    <3>2. enc_clear[e] /\ ~enc_clear_ack[e] BY <1>3, <3>1
    <3>3. ~enc_clear_ack'[e] BY <2>1, <3>2, AcksMove
    <3>4. enc_clear'[e]
      BY <1>1, <2>1, <3>2
      DEF Ams, AmsIdle, Withdraw, AmsRead, AmsWrite, AmsReset, AskClear, asks
    <3>5. QED BY <3>3, <3>4
  <2>4. QED BY <2>2, <2>3
<1>6. ASSUME ams_state' \in {"WRITE", "READ"}, NEW e \in Encoders
      PROVE  ~enc_clear'[e] /\ ~enc_clear_ack'[e]
  <2>1. AmsIdle /\ ~Asked
    BY <1>1, <1>6 DEF Ams, AmsIdle, AmsRead, AmsWrite, AmsReset, slave
  <2>2. ~enc_clear[e] /\ ~enc_clear_ack[e] BY <2>1 DEF Asked
  <2>3. ~enc_clear'[e] BY <2>1, <2>2 DEF AmsIdle, Withdraw
  <2>4. ~enc_clear_ack'[e] BY <2>2, AcksMove
  <2>5. QED BY <2>3, <2>4
<1>7. QED BY <1>5, <1>6 DEF Requested

\* A spaced host is never given a count twice: what it has been told stays
\* requested, and unacknowledged, until the count has been cleared (PuMaster).
THEOREM CountsOnce == Spec => CountsToldOnce
<1>1. Init => ScanInv /\ ToldInv
  <2>1. Init => ToldInv BY DEF Init, ToldInv
  <2>2. QED BY <2>1, InitScanInv
<1>2. ScanInv /\ ToldInv /\ [Next]_vars => (ScanInv /\ ToldInv)'
  <2>1. ScanInv /\ ToldInv /\ UNCHANGED vars => ToldInv'
    BY DEF ToldInv, Requested, vars, enc, asks, slave
  <2>2. QED BY <2>1, ClockScanInv, StutterScanInv, NextToldInv
<1>3. ScanInv /\ ToldInv /\ [Next]_vars =>
        [around.spaced /\ GivesCounts => ams_byteenable_d \intersect told = {}]_vars
  <2>1. ScanInv /\ ToldInv /\ around.spaced /\ GivesCounts =>
          ams_byteenable_d \intersect told = {}
    <3>1. ScanInv => told \subseteq Encoders
      BY DEF ScanInv, TypeInv
    <3>2. QED BY <3>1 DEF ToldInv, Requested, GivesCounts
  <2>2. QED BY <2>1
<1>4. QED BY <1>1, <1>2, <1>3, PTL DEF Spec, CountsToldOnce

\* For every number of encoders, count and brightness limits and every
\* surroundings of the panel: a field holds the reset value or what its own
\* register showed while its own column was selected (PuMaster).
THEOREM ScanIsSafe == Spec => []ScanSafe
<1>1. Init => ScanInv BY InitScanInv
<1>2. ScanInv /\ [Next]_vars => ScanInv' BY ClockScanInv, StutterScanInv
<1>3. ScanInv => ScanSafe BY ScanInvSafe
<1>4. QED BY <1>1, <1>2, <1>3, PTL DEF Spec

(***************************************************************************)
(* PuType                                                                  *)
(***************************************************************************)
AtMostOne(f) == \A j, k \in Kinds : f[j] /\ f[k] => j = k
Some(f)      == \E k \in Kinds : f[k]

\* At every stage at most one kind, and exactly one where the ready bit is.
Stages ==
  /\ AtMostOne(is) /\ AtMostOne(first) /\ AtMostOne(second) /\ AtMostOne(reset_n)
  /\ ready[1] => Some(is)
  /\ ready[2] => Some(first)
  /\ ready[3] => Some(second)
  /\ ready_n  => Some(reset_n)

Backlight == drv_en # {} => pu_timer = CLOCK_FREQ /\ drv_en \subseteq Drivers(latch_old)

IInv == PtTypeInv /\ Stages /\ Backlight

LEMMA KindOfType == \A t \in Types : Kind(t) \in Kinds /\ Drivers(t) \subseteq {0, 1}
BY DEF Types, Kinds, Kind, Drivers

LEMMA ResetValues ==
  /\ None \in [Kinds -> BOOLEAN] /\ "10INCH" \in Types /\ {} \subseteq {0, 1}
  /\ <<FALSE, FALSE, FALSE>> \in BOOLEAN \X BOOLEAN \X BOOLEAN
  /\ 0 \in 0 .. CLOCK_FREQ /\ 0 \in 0 .. Scan /\ 0 \in 0 .. Resets
<1>1. None \in [Kinds -> BOOLEAN] /\ "10INCH" \in Types
  BY DEF None, Types
<1>2. <<FALSE, FALSE, FALSE>> \in BOOLEAN \X BOOLEAN \X BOOLEAN
  OBVIOUS
<1>3. 0 \in 0 .. CLOCK_FREQ /\ 0 \in 0 .. Scan /\ 0 \in 0 .. Resets
  BY TypeAssumption
<1>4. QED BY <1>1, <1>2, <1>3

LEMMA InitIInv == PtInit => IInv
<1> SUFFICES ASSUME PtInit PROVE IInv
  OBVIOUS
<1>1. PtTypeInv
  BY ResetValues DEF PtInit, PtTypeInv
<1>2. Stages
  BY DEF PtInit, Stages, AtMostOne, None
<1>3. QED BY <1>1, <1>2 DEF PtInit, IInv, Backlight

LEMMA ResetIInv == ASSUME IInv, Reset PROVE IInv'
<1>1. PtTypeInv'
  <2>1. resets' \in 0 .. Resets
    BY TypeAssumption DEF IInv, PtTypeInv, Reset
  <2>2. QED BY <2>1, ResetValues DEF IInv, PtTypeInv, Reset, outs
<1>2. Stages'
  BY DEF IInv, Stages, Reset, outs, AtMostOne, Some, None
<1>3. QED BY <1>1, <1>2 DEF Reset, IInv, Backlight

LEMMA ClockTypes == ASSUME IInv, PtClock PROVE PtTypeInv'
<1>1. /\ pu_type_reg' \in Types /\ quiet' \in 0 .. Scan /\ late' \in BOOLEAN
  <2>1. pu_type_reg' \in Types /\ quiet' \in 0 .. Scan
    BY TypeAssumption DEF IInv, PtTypeInv, PtClock, ReadType
  <2> DEFINE last == pu_timer + 3 \in CLOCK_FREQ .. CLOCK_FREQ + 2
  <2>2. late' = late \/ late' = (late \/ last)
    BY DEF PtClock, ReadType
  <2> HIDE DEF last
  <2>3. late' \in BOOLEAN
    BY <2>2, Zenon DEF IInv, PtTypeInv
  <2>4. QED BY <2>1, <2>3
<1>2. /\ {pu_type_meta', latch_new', latch_old', pu_type'} \subseteq Types
      /\ pu_timer' \in 0 .. CLOCK_FREQ
  BY TypeAssumption DEF IInv, PtTypeInv, PtClock, Sample, Outputs, pipe
<1>3. /\ is' \in [Kinds -> BOOLEAN] /\ reset_n' \in [Kinds -> BOOLEAN]
      /\ stable' \in BOOLEAN /\ ready_n' \in BOOLEAN
  BY DEF IInv, PtTypeInv, PtClock, Outputs
<1>4. /\ first' \in [Kinds -> BOOLEAN] /\ second' \in [Kinds -> BOOLEAN]
      /\ ready' \in BOOLEAN \X BOOLEAN \X BOOLEAN
  BY DEF IInv, PtTypeInv, PtClock, Release, ReadyBits
<1>5. drv_en' \subseteq {0, 1}
  BY KindOfType DEF IInv, PtTypeInv, PtClock, EnableBacklight
<1>6. resets' \in 0 .. Resets
  BY DEF IInv, PtTypeInv, PtClock
<1>7. QED BY <1>1, <1>2, <1>3, <1>4, <1>5, <1>6 DEF PtTypeInv

LEMMA ClockStages == ASSUME IInv, PtClock PROVE Stages'
<1>1. AtMostOne(is') /\ Some(is')
  BY KindOfType DEF IInv, PtTypeInv, PtClock, Outputs, AtMostOne, Some
<1>2. AtMostOne(first') /\ AtMostOne(second') /\ AtMostOne(reset_n')
  BY DEF IInv, Stages, PtClock, Release, Outputs, AtMostOne
<1>3. ready'[2] => Some(first')
  <2> SUFFICES ASSUME ready'[2] PROVE Some(first')
    OBVIOUS
  <2>1. stable /\ ready[1]
    BY DEF PtClock, Release, ReadyBits
  <2>2. PICK k \in Kinds : is[k]
    BY <2>1 DEF IInv, Stages, Some
  <2>3. first'[k]
    BY <2>1, <2>2 DEF PtClock, Release, ReadyBits
  <2>4. QED BY <2>3 DEF Some
<1>4. ready'[3] => Some(second')
  <2> SUFFICES ASSUME ready'[3] PROVE Some(second')
    OBVIOUS
  <2>1. stable /\ ready[2]
    BY DEF PtClock, Release, ReadyBits
  <2>2. PICK k \in Kinds : first[k]
    BY <2>1 DEF IInv, Stages, Some
  <2>3. second'[k]
    BY <2>1, <2>2 DEF PtClock, Release, ReadyBits
  <2>4. QED BY <2>3 DEF Some
<1>5. ready_n' => Some(reset_n')
  BY DEF IInv, Stages, PtClock, Outputs, Some
<1>6. QED BY <1>1, <1>2, <1>3, <1>4, <1>5 DEF Stages, AtMostOne, Some

LEMMA ClockBacklight == ASSUME IInv, PtClock PROVE Backlight'
<1>1. CASE pu_timer < CLOCK_FREQ
  <2>1. drv_en = {}
    BY <1>1, TypeAssumption DEF IInv, PtTypeInv, Backlight
  <2>2. QED BY <1>1, <2>1 DEF PtClock, EnableBacklight, Backlight
<1>2. CASE ~(pu_timer < CLOCK_FREQ)
  <2>1. pu_timer = CLOCK_FREQ
    BY <1>2, TypeAssumption DEF IInv, PtTypeInv
  <2>2. pu_timer' = pu_timer /\ latch_old' = latch_old
    BY <1>2 DEF PtClock, Sample, pipe
  <2>3. drv_en' \subseteq Drivers(latch_old)
    BY <1>2 DEF PtClock, EnableBacklight
  <2>4. Drivers(latch_old)' = Drivers(latch_old)
    BY <2>2 DEF Drivers
  <2>5. QED BY <2>1, <2>2, <2>3, <2>4 DEF Backlight
<1>3. QED BY <1>1, <1>2

LEMMA StutterIInv == ASSUME IInv, UNCHANGED ptVars PROVE IInv'
BY DEF IInv, PtTypeInv, Stages, Backlight, ptVars, pipe, outs, AtMostOne, Some, Drivers

LEMMA IInvAlways == PtSpec => []IInv
<1>1. IInv /\ [PtNext]_ptVars => IInv'
  BY ResetIInv, ClockTypes, ClockStages, ClockBacklight, StutterIInv DEF PtNext, IInv
<1>2. QED BY <1>1, InitIInv, PTL DEF PtSpec

\* Types, for every value of the constants.
THEOREM TypeCorrect == PtSpec => []PtTypeInv
<1>1. IInv => PtTypeInv
  BY DEF IInv
<1>2. QED BY <1>1, IInvAlways, PTL

\* The configurators of two kinds of display are never out of reset together.
THEOREM OneKind == PtSpec => []OneReleased
<1>1. IInv => OneReleased
  BY DEF IInv, Stages, AtMostOne, OneReleased
<1>2. QED BY <1>1, IInvAlways, PTL

\* The video chips' configurator is released only while those of a kind are.
THEOREM KindBeforeReady == PtSpec => []ReadyAfterKind
<1>1. IInv => ReadyAfterKind
  BY DEF IInv, Stages, Some, ReadyAfterKind
<1>2. QED BY <1>1, IInvAlways, PTL

\* Drivers are on only for the frozen type.
THEOREM BacklightAfterFreeze == PtSpec => []BacklightFitsType
<1>1. IInv => BacklightFitsType
  BY DEF IInv, Backlight, BacklightFitsType
<1>2. QED BY <1>1, IInvAlways, PTL

\* For every clock frequency and number of resets: one kind of display at most
\* is configured, before the video chips, with its own backlight (PuType).
THEOREM ReleaseIsSafe == PtSpec => []ReleaseSafe
<1>1. IInv => ReleaseSafe
  BY DEF IInv, Stages, Backlight, AtMostOne, Some, ReleaseSafe, OneReleased,
         ReadyAfterKind, BacklightFitsType
<1>2. QED BY <1>1, IInvAlways, PTL
=============================================================================
