--------------------------- MODULE FirmwareProofs ---------------------------
(***************************************************************************)
(* What the firmware promises, for every set of panels, every time-out and *)
(* any number of faults: MlSpec => []MlSafe for main() and its supervision *)
(* of the receivers, LcSpec => []LcSafe and LcSpec => LcHolds for the      *)
(* layers.                                                                 *)
(*                                                                         *)
(* MlSafe speaks of the loop and of the writes of the tables; MlInv says   *)
(* what holds at every other point of main() that leads there: which       *)
(* selects are on, how much of the EDID the table has written, since when  *)
(* the clock, the panel, the video output and the hot plug line are those  *)
(* of this boot.  LcBlanks is not inductive either: a layer is blanked     *)
(* when its timer is down to 0, so LcInv says how far the timer has come   *)
(* down after so many passes without a stable input.                       *)
(*                                                                         *)
(* The parts of the HAL that interrupts drive follow in the second half.   *)
(***************************************************************************)
EXTENDS MainLoop, LayerControl, MCInterrupts, SequenceTheorems, TLAPS

Adv == [maps : BOOLEAN, power : BOOLEAN, edid : 0..2, shown : BOOLEAN]

(* The bring-up, and what only the loop does; a table is written in both.  *)
BringUp == {"release", "clock", "global", "soft", "cvo", "tmds"}
LoopOnly == {"beat", "look", "info", "pulse", "unpulse", "main reset", "hpd"}
MlStages == /\ mlPc \in BringUp \cup {"outputs"} => ~mlBooted
            /\ mlPc \in LoopOnly => mlBooted
MlSelects ==
  /\ mlPc \in {"table", "deselect", "info"} => Selected = {mlChip}
  /\ mlPc \in BringUp \cup {"select", "outputs", "pulse", "unpulse", "main reset", "hpd"}
       => Selected = {}
  /\ mlPc \notin BringUp \cup {"clear", "unpulse"} => Released
EdidSegment(c) ==
  /\ mlRow = 4 => mlAdv[c].edid = 0
  /\ mlRow = 5 /\ mlAdv[c].maps => mlAdv[c].edid = 1
  /\ mlRow = 6 /\ mlAdv[c].maps => mlAdv[c].edid = 2
  /\ mlRow \in 4..6 => ~mlAdv[c].shown
MlEdids ==
  /\ \A c \in 0..1 : /\ mlAdv[c].shown => mlAdv[c].edid = 2 /\ mlAdv[c].maps
                     /\ ~mlAdv[c].maps => mlAdv[c].edid = 0
  /\ mlPc = "table" => EdidSegment(mlChip)
MlClocked == mlPc \notin {"clear", "release", "clock"} \/ mlBooted
               => mlClock = [on |-> TRUE, mode |-> SI5332Table(lcd_type)[2]]
MlPanelDark == ~mlBooted /\ mlPc \notin {"clear", "test"} => mlGpio \cap PanelBits = {}
MlPanelLit == mlBooted \/ mlPc = "test"
               => mlGpio \cap PanelBits = PanelReset(lcd_type) \cup Backlight(lcd_type)
MlLocks ==
  /\ mlPc \in {"soft", "cvo"} => mlLocked \/ mlFlicker
  /\ mlBooted \/ mlPc \notin {"clear", "release", "clock", "global", "soft", "cvo"}
       => mlCvo \/ mlFlicker
MlPulses ==
  /\ ~mlBooted /\ mlPc # "clear" => edp_timer = 0
  /\ (mlBooted \/ mlPc = "test") /\ lcd_type = MFD_15INCH_TYPE
       => ("DP_HPD" \notin mlGpio <=> edp_timer = EDP_TIMEOUT)
MlInv == /\ MlTypeInv /\ MlStages /\ MlSelects /\ MlEdids /\ MlClocked
         /\ MlPanelDark /\ MlPanelLit /\ MlLocks /\ MlPulses

LEMMA SelectNames == CS[0] = "ADV7613_CS0" /\ CS[1] = "ADV7613_CS1"
BY DEF CS

LEMMA PanelBitNames ==
  PanelBits = {"DP_RESET_N", "LVDS_RESET_N", "LVDS_LCD_SCAN", "OUT3_EN_N", "OUT1_EN_N",
               "LCD_BKLT_EN0", "LCD_BKLT_EN1"}
<1>1. PanelBits = (PanelReset(0) \cup Backlight(0)) \cup (PanelReset(1) \cup Backlight(1))
                  \cup (PanelReset(2) \cup Backlight(2)) \cup (PanelReset(3) \cup Backlight(3))
  BY 0..3 = {0, 1, 2, 3} DEF PanelBits
<1>2. QED
  BY <1>1 DEF PanelReset, Backlight, MFD_15INCH_TYPE, MFD_12INCH_TYPE, MFD_10INCH_TYPE

LEMMA OtherChip ==
  ASSUME mlChip \in 0..1, MlMainReset
  PROVE  mlChip' \in 0..1
<1>1. mlChip' = 1 - mlChip
  BY DEF MlMainReset
<1>2. QED BY <1>1

LEMMA AdvTyped ==
  ASSUME NEW r \in Adv, NEW s PROVE AdvWritten(r, s) \in Adv /\ AdvDefault \in Adv
<1>1. AdvDefault \in Adv
  BY DEF AdvDefault, Adv
<1>2. /\ \A b \in BOOLEAN : [r EXCEPT !.maps = b] \in Adv
      /\ \A b \in BOOLEAN : [r EXCEPT !.power = b] \in Adv
      /\ \A b \in BOOLEAN : [r EXCEPT !.shown = b] \in Adv
      /\ \A e \in 0..2 : [r EXCEPT !.edid = e] \in Adv
  BY Zenon DEF Adv
<1>3. [r EXCEPT !.shown = FALSE, !.edid = 0] \in Adv
  <2>1. 0 \in 0..2
    OBVIOUS
  <2>2. QED BY <2>1, Zenon DEF Adv
<1>4. (IF r.edid < 2 THEN r.edid + 1 ELSE 2) \in 0..2
  BY DEF Adv
<1>5. QED
  BY <1>1, <1>2, <1>3, <1>4, TRUE \in BOOLEAN, FALSE \in BOOLEAN, Zenon DEF AdvWritten

\* Hiding the EDID also forgets what was written of it.
LEMMA Hidden ==
  ASSUME NEW r \in Adv, r.maps
  PROVE  /\ AdvWritten(r, "hide").edid = 0 /\ ~AdvWritten(r, "hide").shown
         /\ AdvWritten(r, "hide").maps
<1>1. AdvWritten(r, "hide") = [r EXCEPT !.shown = FALSE, !.edid = 0]
  BY DEF AdvWritten
<1>2. AdvWritten(r, "hide").edid = 0
  BY <1>1 DEF Adv
<1>3. ~AdvWritten(r, "hide").shown
  BY <1>1 DEF Adv
<1>4. AdvWritten(r, "hide").maps <=> r.maps
  BY <1>1, Zenon DEF Adv
<1>5. QED BY <1>2, <1>3, <1>4

\* One row of the table, written to the receiver that is selected.
LEMMA RowWritten ==
  ASSUME MlTypeInv, MlSelects, MlEdids, MlTableRow
  PROVE  MlEdids'
<1>1. /\ Selected = {mlChip} /\ Released /\ mlPc = "table"
      /\ mlRow \in 1..6 /\ mlChip \in 0..1
  BY DEF MlTableRow, At, MlSelects, BringUp, MlTypeInv, adv7613_registers
<1>2. \/ mlRow < 6 /\ mlRow' = mlRow + 1 /\ mlPc' = "table"
      \/ mlRow' = 1 /\ mlPc' = "deselect"
  BY <1>1 DEF MlTableRow, Go, adv7613_registers
<1>3. mlChip' = mlChip
  BY DEF MlTableRow
<1>4. \A c \in 0..1 :
        mlAdv'[c] = IF c = mlChip THEN AdvWritten(mlAdv[c], adv7613_registers[mlRow])
                    ELSE mlAdv[c]
  BY <1>1 DEF MlTableRow
<1>5. mlAdv[mlChip] \in Adv
  BY <1>1 DEF MlTypeInv, Adv
<1> DEFINE r == mlAdv[mlChip]
           s == mlAdv'[mlChip]
<1>6. /\ r.shown => r.edid = 2 /\ r.maps
      /\ ~r.maps => r.edid = 0
      /\ EdidSegment(mlChip)
  BY <1>1 DEF MlEdids
<1>7. /\ s.shown => s.edid = 2 /\ s.maps
      /\ ~s.maps => s.edid = 0
      /\ mlRow = 3 => s.edid = 0
      /\ mlRow = 4 /\ s.maps => s.edid = 1
      /\ mlRow = 5 /\ s.maps => s.edid = 2
      /\ mlRow \in 3..5 => ~s.shown
  <2> USE <1>1, <1>4, <1>5, <1>6 DEF AdvWritten, adv7613_registers, EdidSegment, Adv
  <2>1. CASE mlRow = 1 BY <2>1
  <2>2. CASE mlRow = 2 BY <2>2
  <2>3. CASE mlRow = 3
    <3> HIDE DEF AdvWritten
    <3>1. s = AdvWritten(r, "hide")
      BY <2>3
    <3>2. CASE r.maps
      BY <3>1, <3>2, <2>3, Hidden
    <3>3. CASE ~r.maps
      BY <3>1, <3>3, <2>3 DEF AdvWritten
    <3>4. QED BY <3>2, <3>3
  <2>4. CASE mlRow = 4 BY <2>4
  <2>5. CASE mlRow = 5 BY <2>5
  <2>6. CASE mlRow = 6 BY <2>6
  <2>7. QED BY <2>1, <2>2, <2>3, <2>4, <2>5, <2>6
<1>8. QED BY <1>1, <1>2, <1>3, <1>4, <1>7 DEF MlEdids, EdidSegment

\* Releasing the DDR leaves the selects alone.
LEMMA ResetKeepsSelects ==
  ASSUME MlSelects, MlGlobalReset
  PROVE  MlSelects'
<1>1. \A x \in {"ADV7613_CS0", "ADV7613_CS1"} : x \in mlGpio' <=> x \in mlGpio
  BY DEF MlGlobalReset
<1>2. mlPc' \in {"soft", "clear"} /\ mlPc = "global"
  BY DEF MlGlobalReset, Go, At
<1>3. Selected = {}
  BY <1>2 DEF MlSelects, BringUp
<1>4. Selected' = {}
  BY <1>1, <1>3, SelectNames DEF Selected
<1>5. QED BY <1>2, <1>4 DEF MlSelects, BringUp

\* So does the end of the pulse on the reset line, and the main resets after it.
LEMMA PulseKeepsSelects ==
  ASSUME MlTypeInv, MlSelects, MlUnpulse \/ MlMainReset
  PROVE  MlSelects'
<1>1. CASE MlUnpulse
  <2>1. /\ mlGpio' = mlGpio \cup {"ADV7613_RESET"}
        /\ mlPc' = "main reset" /\ mlPc = "unpulse"
    BY <1>1 DEF MlUnpulse, At, Go
  <2>2. Selected = {}
    BY <2>1 DEF MlSelects
  <2>3. \A c \in 0..1 : CS[c] \notin mlGpio /\ CS[c] # "ADV7613_RESET"
    BY <2>2, SelectNames DEF Selected
  <2>4. Selected' = {}
    BY <2>1, <2>3 DEF Selected
  <2>5. QED BY <2>1, <2>4 DEF MlSelects, Released, BringUp
<1>2. CASE MlMainReset
  <2>1. /\ mlGpio' = mlGpio \ {CS[mlChip]}
        /\ mlPc' \in {"main reset", "select"} /\ mlPc = "main reset"
    BY <1>2 DEF MlMainReset, At, Go
  <2>2. Selected = {} /\ Released
    BY <2>1 DEF MlSelects, BringUp
  <2>3. Selected' = {}
    BY <2>1, <2>2 DEF Selected
  <2>4. mlChip \in {0, 1}
    BY DEF MlTypeInv
  <2>5. CS[mlChip] # "ADV7613_RESET"
    BY <2>4, SelectNames
  <2>6. Released'
    BY <2>1, <2>2, <2>5 DEF Released
  <2>7. QED BY <2>1, <2>3, <2>6 DEF MlSelects, BringUp
<1>3. QED BY <1>1, <1>2

\* Where main() is stays in its range.
LEMMA TypesPc ==
  ASSUME MlTypeInv, [MlNext]_mlVars
  PROVE  /\ mlPc' \in MlPcs /\ mlChip' \in 0..1
         /\ mlRow' \in 1..Len(adv7613_registers) /\ mlBooted' \in BOOLEAN
<1> USE DEF MlTypeInv, MlPcs, adv7613_registers, At, Go, mlVideo, mlBeats, mlInputs,
     mlProgram
<1>1. CASE MlClear BY <1>1 DEF MlClear
<1>2. CASE MlLatchPanel BY <1>2 DEF MlLatchPanel
<1>3. CASE MlStartClock BY <1>3 DEF MlStartClock
<1>4. CASE MlGlobalReset BY <1>4 DEF MlGlobalReset
<1>5. CASE MlSoftReset BY <1>5 DEF MlSoftReset
<1>6. CASE MlProgramCvo BY <1>6 DEF MlProgramCvo
<1>7. CASE MlReleaseAdv BY <1>7 DEF MlReleaseAdv
<1>8. CASE MlSelect BY <1>8 DEF MlSelect
<1>9. CASE MlTableRow
  <2>1. /\ mlPc \in MlPcs /\ mlChip \in 0..1 /\ mlRow \in 1..6 /\ mlBooted \in BOOLEAN
        /\ Len(adv7613_registers) = 6
    OBVIOUS
  <2>2. \/ mlRow < 6 /\ mlRow' = mlRow + 1 /\ mlPc' = mlPc
        \/ mlRow' = 1 /\ mlPc' = "deselect"
    BY <1>9, <2>1 DEF MlTableRow
  <2>3. mlChip' = mlChip /\ mlBooted' = mlBooted
    BY <1>9 DEF MlTableRow
  <2>4. mlPc' \in MlPcs
    BY <2>2
  <2>5. mlRow' \in 1..6
    <3> HIDE DEF MlTypeInv, MlPcs
    <3>1. QED BY <2>1, <2>2
  <2>6. QED BY <2>1, <2>3, <2>4, <2>5
<1>10. CASE MlDeselect BY <1>10 DEF MlDeselect
<1>11. CASE MlOutputs BY <1>11 DEF MlOutputs
<1>12. CASE MlTest BY <1>12 DEF MlTest
<1>13. CASE MlBeat BY <1>13 DEF MlBeat
<1>14. CASE MlLook BY <1>14 DEF MlLook
<1>15. CASE MlInfo BY <1>15 DEF MlInfo
<1>16. CASE MlPulse BY <1>16 DEF MlPulse
<1>17. CASE MlUnpulse BY <1>17 DEF MlUnpulse
<1>18. CASE MlMainReset
  <2>1. mlPc' \in {"main reset", "select"} /\ mlChip' = 1 - mlChip
    BY <1>18 DEF MlMainReset
  <2>2. mlRow' = mlRow /\ mlBooted' = mlBooted
    BY <1>18 DEF MlMainReset
  <2>3. mlPc' \in MlPcs
    BY <2>1
  <2>4. mlChip' \in 0..1
    BY <1>18, OtherChip
  <2>5. QED BY <2>2, <2>3, <2>4
<1>19. CASE MlHpd BY <1>19 DEF MlHpd
<1>20. CASE MlGainLock BY <1>20 DEF MlGainLock
<1>21. CASE MlLoseLock BY <1>21 DEF MlLoseLock
<1>22. CASE MlChangePanel BY <1>22 DEF MlChangePanel
<1>23. CASE MlPowerLoss BY <1>23 DEF MlPowerLoss
<1>24. CASE MlLinkChange BY <1>24 DEF MlLinkChange
<1>25. CASE UNCHANGED mlVars BY <1>25 DEF mlVars
<1>26. QED BY <1>1, <1>2, <1>3, <1>4, <1>5, <1>6, <1>7, <1>8, <1>9, <1>10, <1>11, <1>12,
     <1>13, <1>14, <1>15, <1>16, <1>17, <1>18, <1>19, <1>20, <1>21, <1>22, <1>23, <1>24,
     <1>25 DEF MlNext, MlFirmware

\* So do the panel type, the timer and the heart.
LEMMA TypesBeats ==
  ASSUME MlTypeInv, [MlNext]_mlVars
  PROVE  /\ lcd_type' \in 0..3 /\ edp_timer' \in 0..EDP_TIMEOUT
         /\ heart' \in 0..1 /\ heart_bit' \in BOOLEAN
<1> USE MlAssumption DEF MlTypeInv, RestartedTimer, NextHeart, NextEdpTimer,
     MFD_15INCH_TYPE, At, Go, mlVideo, mlBeats, mlInputs, mlProgram
<1>1. CASE MlClear
  <2>1. lcd_type' = lcd_type /\ edp_timer' = 0 /\ heart' = 0
    BY <1>1 DEF MlClear
  <2>2. lcd_type' \in 0..3 /\ edp_timer' \in 0..EDP_TIMEOUT /\ heart' \in 0..1
    BY <2>1
  <2>3. heart_bit' \in BOOLEAN
    BY <1>1 DEF MlClear
  <2>4. QED BY <2>2, <2>3
<1>2. CASE MlLatchPanel BY <1>2 DEF MlLatchPanel
<1>3. CASE MlStartClock BY <1>3 DEF MlStartClock
<1>4. CASE MlGlobalReset BY <1>4 DEF MlGlobalReset
<1>5. CASE MlSoftReset BY <1>5 DEF MlSoftReset
<1>6. CASE MlProgramCvo BY <1>6 DEF MlProgramCvo
<1>7. CASE MlReleaseAdv BY <1>7 DEF MlReleaseAdv
<1>8. CASE MlSelect BY <1>8 DEF MlSelect
<1>9. CASE MlTableRow BY <1>9 DEF MlTableRow
<1>10. CASE MlDeselect BY <1>10 DEF MlDeselect
<1>11. CASE MlOutputs BY <1>11 DEF MlOutputs
<1>12. CASE MlTest BY <1>12 DEF MlTest
<1>13. CASE MlBeat
  <2>1. lcd_type' = lcd_type /\ edp_timer' = edp_timer /\ heart' = NextHeart
    BY <1>13 DEF MlBeat
  <2>2. heart_bit' = ~heart_bit \/ heart_bit' = heart_bit
    BY <1>13 DEF MlBeat
  <2>3. heart_bit' \in BOOLEAN
    BY <2>2
  <2>4. QED BY <2>1, <2>3
<1>14. CASE MlLook BY <1>14 DEF MlLook
<1>15. CASE MlInfo BY <1>15 DEF MlInfo
<1>16. CASE MlPulse BY <1>16 DEF MlPulse
<1>17. CASE MlUnpulse BY <1>17 DEF MlUnpulse
<1>18. CASE MlMainReset BY <1>18 DEF MlMainReset
<1>19. CASE MlHpd BY <1>19 DEF MlHpd
<1>20. CASE MlGainLock BY <1>20 DEF MlGainLock
<1>21. CASE MlLoseLock BY <1>21 DEF MlLoseLock
<1>22. CASE MlChangePanel BY <1>22 DEF MlChangePanel
<1>23. CASE MlPowerLoss BY <1>23 DEF MlPowerLoss
<1>24. CASE MlLinkChange BY <1>24 DEF MlLinkChange
<1>25. CASE UNCHANGED mlVars BY <1>25 DEF mlVars
<1>26. QED BY <1>1, <1>2, <1>3, <1>4, <1>5, <1>6, <1>7, <1>8, <1>9, <1>10, <1>11, <1>12,
     <1>13, <1>14, <1>15, <1>16, <1>17, <1>18, <1>19, <1>20, <1>21, <1>22, <1>23, <1>24,
     <1>25 DEF MlNext, MlFirmware

\* Only bits that exist are set.
LEMMA TypesGpio ==
  ASSUME MlTypeInv, [MlNext]_mlVars
  PROVE  mlGpio' \subseteq MlOutputBits
<1> USE SelectNames DEF MlTypeInv, MlOutputBits, KeptBits, OthersOff, PanelReset,
     Backlight, MFD_15INCH_TYPE, MFD_12INCH_TYPE, MFD_10INCH_TYPE, At, Go, mlVideo,
     mlBeats, mlInputs, mlProgram
<1>1. CASE MlClear BY <1>1 DEF MlClear
<1>2. CASE MlLatchPanel BY <1>2 DEF MlLatchPanel
<1>3. CASE MlStartClock BY <1>3 DEF MlStartClock
<1>4. CASE MlGlobalReset BY <1>4 DEF MlGlobalReset
<1>5. CASE MlSoftReset BY <1>5 DEF MlSoftReset
<1>6. CASE MlProgramCvo BY <1>6 DEF MlProgramCvo
<1>7. CASE MlReleaseAdv BY <1>7 DEF MlReleaseAdv
<1>8. CASE MlSelect
  <2>1. mlChip = 0 \/ mlChip = 1
    OBVIOUS
  <2>2. CS[mlChip] \in {"ADV7613_CS0", "ADV7613_CS1"}
    BY <2>1
  <2>3. mlGpio' \subseteq mlGpio \cup {CS[mlChip]}
    BY <1>8 DEF MlSelect, MlLook
  <2>4. QED BY <2>2, <2>3
<1>9. CASE MlTableRow BY <1>9 DEF MlTableRow
<1>10. CASE MlDeselect BY <1>10 DEF MlDeselect
<1>11. CASE MlOutputs BY <1>11 DEF MlOutputs
<1>12. CASE MlTest BY <1>12 DEF MlTest
<1>13. CASE MlBeat BY <1>13 DEF MlBeat
<1>14. CASE MlLook
  <2>1. mlChip = 0 \/ mlChip = 1
    OBVIOUS
  <2>2. CS[mlChip] \in {"ADV7613_CS0", "ADV7613_CS1"}
    BY <2>1
  <2>3. mlGpio' \subseteq mlGpio \cup {CS[mlChip]}
    BY <1>14 DEF MlSelect, MlLook
  <2>4. QED BY <2>2, <2>3
<1>15. CASE MlInfo BY <1>15 DEF MlInfo
<1>16. CASE MlPulse BY <1>16 DEF MlPulse
<1>17. CASE MlUnpulse BY <1>17 DEF MlUnpulse
<1>18. CASE MlMainReset BY <1>18 DEF MlMainReset
<1>19. CASE MlHpd BY <1>19 DEF MlHpd
<1>20. CASE MlGainLock BY <1>20 DEF MlGainLock
<1>21. CASE MlLoseLock BY <1>21 DEF MlLoseLock
<1>22. CASE MlChangePanel BY <1>22 DEF MlChangePanel
<1>23. CASE MlPowerLoss BY <1>23 DEF MlPowerLoss
<1>24. CASE MlLinkChange BY <1>24 DEF MlLinkChange
<1>25. CASE UNCHANGED mlVars BY <1>25 DEF mlVars
<1>26. QED BY <1>1, <1>2, <1>3, <1>4, <1>5, <1>6, <1>7, <1>8, <1>9, <1>10, <1>11, <1>12,
     <1>13, <1>14, <1>15, <1>16, <1>17, <1>18, <1>19, <1>20, <1>21, <1>22, <1>23, <1>24,
     <1>25 DEF MlNext, MlFirmware

\* So do the clock generator and the video output.
LEMMA TypesVideo ==
  ASSUME MlTypeInv, [MlNext]_mlVars
  PROVE  /\ mlClock' \in [on : BOOLEAN, mode : {"none", "fhd", "xga", "vga"}]
         /\ mlCvo' \in BOOLEAN
<1> USE DEF MlTypeInv, SI5332After, SI5332Written, SI5332Table, si5332_fhd_registers,
     si5332_xga_registers, si5332_vga_registers, At, Go, mlVideo, mlBeats, mlInputs,
     mlProgram
<1>1. CASE MlClear BY <1>1 DEF MlClear
<1>2. CASE MlLatchPanel BY <1>2 DEF MlLatchPanel
<1>3. CASE MlStartClock BY <1>3 DEF MlStartClock
<1>4. CASE MlGlobalReset BY <1>4 DEF MlGlobalReset
<1>5. CASE MlSoftReset BY <1>5 DEF MlSoftReset
<1>6. CASE MlProgramCvo BY <1>6 DEF MlProgramCvo
<1>7. CASE MlReleaseAdv BY <1>7 DEF MlReleaseAdv
<1>8. CASE MlSelect BY <1>8 DEF MlSelect
<1>9. CASE MlTableRow BY <1>9 DEF MlTableRow
<1>10. CASE MlDeselect BY <1>10 DEF MlDeselect
<1>11. CASE MlOutputs BY <1>11 DEF MlOutputs
<1>12. CASE MlTest BY <1>12 DEF MlTest
<1>13. CASE MlBeat BY <1>13 DEF MlBeat
<1>14. CASE MlLook BY <1>14 DEF MlLook
<1>15. CASE MlInfo BY <1>15 DEF MlInfo
<1>16. CASE MlPulse BY <1>16 DEF MlPulse
<1>17. CASE MlUnpulse BY <1>17 DEF MlUnpulse
<1>18. CASE MlMainReset BY <1>18 DEF MlMainReset
<1>19. CASE MlHpd BY <1>19 DEF MlHpd
<1>20. CASE MlGainLock BY <1>20 DEF MlGainLock
<1>21. CASE MlLoseLock BY <1>21 DEF MlLoseLock
<1>22. CASE MlChangePanel BY <1>22 DEF MlChangePanel
<1>23. CASE MlPowerLoss BY <1>23 DEF MlPowerLoss
<1>24. CASE MlLinkChange BY <1>24 DEF MlLinkChange
<1>25. CASE UNCHANGED mlVars BY <1>25 DEF mlVars
<1>26. QED BY <1>1, <1>2, <1>3, <1>4, <1>5, <1>6, <1>7, <1>8, <1>9, <1>10, <1>11, <1>12,
     <1>13, <1>14, <1>15, <1>16, <1>17, <1>18, <1>19, <1>20, <1>21, <1>22, <1>23, <1>24,
     <1>25 DEF MlNext, MlFirmware

\* So do the registers of the receivers.
LEMMA TypesAdv ==
  ASSUME MlTypeInv, [MlNext]_mlVars
  PROVE  mlAdv' \in [0..1 -> Adv]
<1> USE AdvTyped DEF MlTypeInv, Adv, At, Go, mlVideo, mlBeats, mlInputs, mlProgram
<1>1. CASE MlClear BY <1>1 DEF MlClear
<1>2. CASE MlLatchPanel BY <1>2 DEF MlLatchPanel
<1>3. CASE MlStartClock BY <1>3 DEF MlStartClock
<1>4. CASE MlGlobalReset BY <1>4 DEF MlGlobalReset
<1>5. CASE MlSoftReset BY <1>5 DEF MlSoftReset
<1>6. CASE MlProgramCvo BY <1>6 DEF MlProgramCvo
<1>7. CASE MlReleaseAdv BY <1>7 DEF MlReleaseAdv
<1>8. CASE MlSelect BY <1>8 DEF MlSelect
<1>9. CASE MlTableRow
  <2>1. \A c \in 0..1 : mlAdv[c] \in Adv
    OBVIOUS
  <2>2. QED BY <1>9, <2>1, AdvTyped DEF MlTableRow
<1>10. CASE MlDeselect BY <1>10 DEF MlDeselect
<1>11. CASE MlOutputs BY <1>11 DEF MlOutputs
<1>12. CASE MlTest BY <1>12 DEF MlTest
<1>13. CASE MlBeat BY <1>13 DEF MlBeat
<1>14. CASE MlLook BY <1>14 DEF MlLook
<1>15. CASE MlInfo BY <1>15 DEF MlInfo
<1>16. CASE MlPulse BY <1>16 DEF MlPulse
<1>17. CASE MlUnpulse BY <1>17 DEF MlUnpulse
<1>18. CASE MlMainReset
  <2>1. \A c \in 0..1 : mlAdv[c] \in Adv
    OBVIOUS
  <2>2. QED BY <1>18, <2>1, AdvTyped DEF MlMainReset
<1>19. CASE MlHpd BY <1>19 DEF MlHpd
<1>20. CASE MlGainLock BY <1>20 DEF MlGainLock
<1>21. CASE MlLoseLock BY <1>21 DEF MlLoseLock
<1>22. CASE MlChangePanel BY <1>22 DEF MlChangePanel
<1>23. CASE MlPowerLoss BY <1>23 DEF MlPowerLoss
<1>24. CASE MlLinkChange BY <1>24 DEF MlLinkChange
<1>25. CASE UNCHANGED mlVars BY <1>25 DEF mlVars
<1>26. QED BY <1>1, <1>2, <1>3, <1>4, <1>5, <1>6, <1>7, <1>8, <1>9, <1>10, <1>11, <1>12,
     <1>13, <1>14, <1>15, <1>16, <1>17, <1>18, <1>19, <1>20, <1>21, <1>22, <1>23, <1>24,
     <1>25 DEF MlNext, MlFirmware

\* So do the inputs.
LEMMA TypesInputs ==
  ASSUME MlTypeInv, [MlNext]_mlVars
  PROVE  /\ mlPanel' \in MlPanels /\ mlLocked' \in BOOLEAN /\ mlReady' \in BOOLEAN
         /\ mlLink' \in BOOLEAN /\ mlFaults' \in 0..MlFaultMax
         /\ mlFlicker' \in BOOLEAN /\ mlTorn' \in BOOLEAN
<1> USE MlAssumption DEF MlTypeInv, MlFault, DdrLocked, At, Go, mlVideo, mlBeats,
     mlInputs, mlProgram
<1>1. CASE MlClear BY <1>1 DEF MlClear
<1>2. CASE MlLatchPanel BY <1>2 DEF MlLatchPanel
<1>3. CASE MlStartClock BY <1>3 DEF MlStartClock
<1>4. CASE MlGlobalReset BY <1>4 DEF MlGlobalReset
<1>5. CASE MlSoftReset BY <1>5 DEF MlSoftReset
<1>6. CASE MlProgramCvo BY <1>6 DEF MlProgramCvo
<1>7. CASE MlReleaseAdv BY <1>7 DEF MlReleaseAdv
<1>8. CASE MlSelect BY <1>8 DEF MlSelect
<1>9. CASE MlTableRow BY <1>9 DEF MlTableRow
<1>10. CASE MlDeselect BY <1>10 DEF MlDeselect
<1>11. CASE MlOutputs BY <1>11 DEF MlOutputs
<1>12. CASE MlTest BY <1>12 DEF MlTest
<1>13. CASE MlBeat BY <1>13 DEF MlBeat
<1>14. CASE MlLook BY <1>14 DEF MlLook
<1>15. CASE MlInfo BY <1>15 DEF MlInfo
<1>16. CASE MlPulse BY <1>16 DEF MlPulse
<1>17. CASE MlUnpulse BY <1>17 DEF MlUnpulse
<1>18. CASE MlMainReset BY <1>18 DEF MlMainReset
<1>19. CASE MlHpd BY <1>19 DEF MlHpd
<1>20. CASE MlGainLock BY <1>20 DEF MlGainLock
<1>21. CASE MlLoseLock
  <2>1. mlLocked' \in BOOLEAN /\ mlReady' \in BOOLEAN /\ mlFlicker' \in BOOLEAN
    BY <1>21 DEF MlLoseLock
  <2>2. mlFaults' \in 0..MlFaultMax
    BY <1>21 DEF MlLoseLock
  <2>3. QED BY <1>21, <2>1, <2>2 DEF MlLoseLock
<1>22. CASE MlChangePanel BY <1>22 DEF MlChangePanel
<1>23. CASE MlPowerLoss BY <1>23 DEF MlPowerLoss
<1>24. CASE MlLinkChange BY <1>24 DEF MlLinkChange
<1>25. CASE UNCHANGED mlVars BY <1>25 DEF mlVars
<1>26. QED BY <1>1, <1>2, <1>3, <1>4, <1>5, <1>6, <1>7, <1>8, <1>9, <1>10, <1>11, <1>12,
     <1>13, <1>14, <1>15, <1>16, <1>17, <1>18, <1>19, <1>20, <1>21, <1>22, <1>23, <1>24,
     <1>25 DEF MlNext, MlFirmware

LEMMA TypeStep == MlTypeInv /\ [MlNext]_mlVars => MlTypeInv'
BY TypesPc, TypesBeats, TypesGpio, TypesVideo, TypesAdv, TypesInputs DEF MlTypeInv, Adv

\* The loop is entered by the test of its condition and left by it.
LEMMA StagesStep ==
  ASSUME MlTypeInv, MlStages, [MlNext]_mlVars
  PROVE  MlStages'
<1> USE DEF MlTypeInv, MlStages, BringUp, LoopOnly, At, Go, mlVideo, mlBeats, mlInputs,
     mlProgram
<1>1. CASE MlClear BY <1>1 DEF MlClear
<1>2. CASE MlLatchPanel BY <1>2 DEF MlLatchPanel
<1>3. CASE MlStartClock BY <1>3 DEF MlStartClock
<1>4. CASE MlGlobalReset BY <1>4 DEF MlGlobalReset
<1>5. CASE MlSoftReset BY <1>5 DEF MlSoftReset
<1>6. CASE MlProgramCvo BY <1>6 DEF MlProgramCvo
<1>7. CASE MlReleaseAdv BY <1>7 DEF MlReleaseAdv
<1>8. CASE MlSelect BY <1>8 DEF MlSelect
<1>9. CASE MlTableRow BY <1>9 DEF MlTableRow
<1>10. CASE MlDeselect BY <1>10 DEF MlDeselect
<1>11. CASE MlOutputs BY <1>11 DEF MlOutputs
<1>12. CASE MlTest BY <1>12 DEF MlTest
<1>13. CASE MlBeat BY <1>13 DEF MlBeat
<1>14. CASE MlLook BY <1>14 DEF MlLook
<1>15. CASE MlInfo BY <1>15 DEF MlInfo
<1>16. CASE MlPulse BY <1>16 DEF MlPulse
<1>17. CASE MlUnpulse BY <1>17 DEF MlUnpulse
<1>18. CASE MlMainReset BY <1>18 DEF MlMainReset
<1>19. CASE MlHpd BY <1>19 DEF MlHpd
<1>20. CASE MlGainLock BY <1>20 DEF MlGainLock
<1>21. CASE MlLoseLock BY <1>21 DEF MlLoseLock
<1>22. CASE MlChangePanel BY <1>22 DEF MlChangePanel
<1>23. CASE MlPowerLoss BY <1>23 DEF MlPowerLoss
<1>24. CASE MlLinkChange BY <1>24 DEF MlLinkChange
<1>25. CASE UNCHANGED mlVars BY <1>25 DEF mlVars
<1>26. QED BY <1>1, <1>2, <1>3, <1>4, <1>5, <1>6, <1>7, <1>8, <1>9, <1>10, <1>11, <1>12,
     <1>13, <1>14, <1>15, <1>16, <1>17, <1>18, <1>19, <1>20, <1>21, <1>22, <1>23, <1>24,
     <1>25 DEF MlNext, MlFirmware

\* Every branch that writes a table or reads starts with the selects off.
LEMMA SelectsStep ==
  ASSUME MlTypeInv, MlStages, MlSelects, [MlNext]_mlVars
  PROVE  MlSelects'
<1> USE SelectNames DEF MlTypeInv, MlStages, BringUp, LoopOnly, MlSelects, Selected,
     Released, PanelReset, Backlight, MFD_15INCH_TYPE, MFD_12INCH_TYPE, MFD_10INCH_TYPE,
     KeptBits, OthersOff, At, Go, mlVideo, mlBeats, mlInputs, mlProgram
<1>1. CASE MlClear BY <1>1 DEF MlClear
<1>2. CASE MlLatchPanel BY <1>2 DEF MlLatchPanel
<1>3. CASE MlStartClock BY <1>3 DEF MlStartClock
<1>4. CASE MlGlobalReset
  BY <1>4, ResetKeepsSelects
<1>5. CASE MlSoftReset BY <1>5 DEF MlSoftReset
<1>6. CASE MlProgramCvo BY <1>6 DEF MlProgramCvo
<1>7. CASE MlReleaseAdv BY <1>7 DEF MlReleaseAdv
<1>8. CASE MlSelect BY <1>8 DEF MlSelect
<1>9. CASE MlTableRow BY <1>9 DEF MlTableRow
<1>10. CASE MlDeselect BY <1>10 DEF MlDeselect
<1>11. CASE MlOutputs BY <1>11 DEF MlOutputs
<1>12. CASE MlTest BY <1>12 DEF MlTest
<1>13. CASE MlBeat BY <1>13 DEF MlBeat
<1>14. CASE MlLook BY <1>14 DEF MlLook
<1>15. CASE MlInfo BY <1>15 DEF MlInfo
<1>16. CASE MlPulse BY <1>16 DEF MlPulse
<1>17. CASE MlUnpulse
  BY <1>17, PulseKeepsSelects
<1>18. CASE MlMainReset
  BY <1>18, PulseKeepsSelects
<1>19. CASE MlHpd BY <1>19 DEF MlHpd
<1>20. CASE MlGainLock BY <1>20 DEF MlGainLock
<1>21. CASE MlLoseLock BY <1>21 DEF MlLoseLock
<1>22. CASE MlChangePanel BY <1>22 DEF MlChangePanel
<1>23. CASE MlPowerLoss BY <1>23 DEF MlPowerLoss
<1>24. CASE MlLinkChange BY <1>24 DEF MlLinkChange
<1>25. CASE UNCHANGED mlVars BY <1>25 DEF mlVars
<1>26. QED BY <1>1, <1>2, <1>3, <1>4, <1>5, <1>6, <1>7, <1>8, <1>9, <1>10, <1>11, <1>12,
     <1>13, <1>14, <1>15, <1>16, <1>17, <1>18, <1>19, <1>20, <1>21, <1>22, <1>23, <1>24,
     <1>25 DEF MlNext, MlFirmware

\* The table hides the EDID before its first half and shows it after its second.
LEMMA EdidsStep ==
  ASSUME MlTypeInv, MlSelects, MlEdids, [MlNext]_mlVars
  PROVE  MlEdids'
<1> USE SelectNames DEF MlTypeInv, BringUp, Selected, Released, MlSelects, MlEdids,
     EdidSegment, AdvDefault, AdvWritten, adv7613_registers, At, Go, mlVideo, mlBeats,
     mlInputs, mlProgram
<1>1. CASE MlClear BY <1>1 DEF MlClear
<1>2. CASE MlLatchPanel BY <1>2 DEF MlLatchPanel
<1>3. CASE MlStartClock BY <1>3 DEF MlStartClock
<1>4. CASE MlGlobalReset BY <1>4 DEF MlGlobalReset
<1>5. CASE MlSoftReset BY <1>5 DEF MlSoftReset
<1>6. CASE MlProgramCvo BY <1>6 DEF MlProgramCvo
<1>7. CASE MlReleaseAdv BY <1>7 DEF MlReleaseAdv
<1>8. CASE MlSelect BY <1>8 DEF MlSelect
<1>9. CASE MlTableRow
  BY <1>9, RowWritten
<1>10. CASE MlDeselect BY <1>10 DEF MlDeselect
<1>11. CASE MlOutputs BY <1>11 DEF MlOutputs
<1>12. CASE MlTest BY <1>12 DEF MlTest
<1>13. CASE MlBeat BY <1>13 DEF MlBeat
<1>14. CASE MlLook BY <1>14 DEF MlLook
<1>15. CASE MlInfo BY <1>15 DEF MlInfo
<1>16. CASE MlPulse BY <1>16 DEF MlPulse
<1>17. CASE MlUnpulse BY <1>17 DEF MlUnpulse
<1>18. CASE MlMainReset BY <1>18 DEF MlMainReset
<1>19. CASE MlHpd BY <1>19 DEF MlHpd
<1>20. CASE MlGainLock BY <1>20 DEF MlGainLock
<1>21. CASE MlLoseLock BY <1>21 DEF MlLoseLock
<1>22. CASE MlChangePanel BY <1>22 DEF MlChangePanel
<1>23. CASE MlPowerLoss
  <2>1. PICK d \in 0..1 : mlAdv' = [mlAdv EXCEPT ![d] = AdvDefault]
    BY <1>23 DEF MlPowerLoss
  <2>2. UNCHANGED <<mlPc, mlRow, mlChip>>
    BY <1>23 DEF MlPowerLoss
  <2>3. \A c \in 0..1 : mlAdv'[c] = IF c = d THEN AdvDefault ELSE mlAdv[c]
    BY <2>1
  <2>4. mlChip \in 0..1
    OBVIOUS
  <2> HIDE DEF MlTypeInv, MlSelects
  <2>5. QED BY <2>2, <2>3, <2>4
<1>24. CASE MlLinkChange BY <1>24 DEF MlLinkChange
<1>25. CASE UNCHANGED mlVars BY <1>25 DEF mlVars
<1>26. QED BY <1>1, <1>2, <1>3, <1>4, <1>5, <1>6, <1>7, <1>8, <1>9, <1>10, <1>11, <1>12,
     <1>13, <1>14, <1>15, <1>16, <1>17, <1>18, <1>19, <1>20, <1>21, <1>22, <1>23, <1>24,
     <1>25 DEF MlNext, MlFirmware

\* The table of the latched panel ends with the outputs on.
LEMMA ClockStep ==
  ASSUME MlTypeInv, MlStages, MlClocked, [MlNext]_mlVars
  PROVE  MlClocked'
<1> USE DEF MlTypeInv, MlStages, BringUp, LoopOnly, MlClocked, SI5332After,
     SI5332Written, SI5332Table, si5332_fhd_registers, si5332_xga_registers,
     si5332_vga_registers, MFD_15INCH_TYPE, MFD_12INCH_TYPE, MFD_10INCH_TYPE, At, Go,
     mlVideo, mlBeats, mlInputs, mlProgram
<1>1. CASE MlClear BY <1>1 DEF MlClear
<1>2. CASE MlLatchPanel BY <1>2 DEF MlLatchPanel
<1>3. CASE MlStartClock BY <1>3 DEF MlStartClock
<1>4. CASE MlGlobalReset BY <1>4 DEF MlGlobalReset
<1>5. CASE MlSoftReset BY <1>5 DEF MlSoftReset
<1>6. CASE MlProgramCvo BY <1>6 DEF MlProgramCvo
<1>7. CASE MlReleaseAdv BY <1>7 DEF MlReleaseAdv
<1>8. CASE MlSelect BY <1>8 DEF MlSelect
<1>9. CASE MlTableRow BY <1>9 DEF MlTableRow
<1>10. CASE MlDeselect BY <1>10 DEF MlDeselect
<1>11. CASE MlOutputs BY <1>11 DEF MlOutputs
<1>12. CASE MlTest BY <1>12 DEF MlTest
<1>13. CASE MlBeat BY <1>13 DEF MlBeat
<1>14. CASE MlLook BY <1>14 DEF MlLook
<1>15. CASE MlInfo BY <1>15 DEF MlInfo
<1>16. CASE MlPulse BY <1>16 DEF MlPulse
<1>17. CASE MlUnpulse BY <1>17 DEF MlUnpulse
<1>18. CASE MlMainReset BY <1>18 DEF MlMainReset
<1>19. CASE MlHpd BY <1>19 DEF MlHpd
<1>20. CASE MlGainLock BY <1>20 DEF MlGainLock
<1>21. CASE MlLoseLock BY <1>21 DEF MlLoseLock
<1>22. CASE MlChangePanel BY <1>22 DEF MlChangePanel
<1>23. CASE MlPowerLoss BY <1>23 DEF MlPowerLoss
<1>24. CASE MlLinkChange BY <1>24 DEF MlLinkChange
<1>25. CASE UNCHANGED mlVars BY <1>25 DEF mlVars
<1>26. QED BY <1>1, <1>2, <1>3, <1>4, <1>5, <1>6, <1>7, <1>8, <1>9, <1>10, <1>11, <1>12,
     <1>13, <1>14, <1>15, <1>16, <1>17, <1>18, <1>19, <1>20, <1>21, <1>22, <1>23, <1>24,
     <1>25 DEF MlNext, MlFirmware

\* The start clears every bit of the panel, and only its last part sets them.
LEMMA DarkStep ==
  ASSUME MlTypeInv, MlStages, MlPanelDark, [MlNext]_mlVars
  PROVE  MlPanelDark'
<1> USE PanelBitNames DEF MlTypeInv, MlStages, BringUp, LoopOnly, MlPanelDark, CS,
     KeptBits, OthersOff, At, Go, mlVideo, mlBeats, mlInputs, mlProgram
<1>1. CASE MlClear BY <1>1 DEF MlClear
<1>2. CASE MlLatchPanel BY <1>2 DEF MlLatchPanel
<1>3. CASE MlStartClock BY <1>3 DEF MlStartClock
<1>4. CASE MlGlobalReset BY <1>4 DEF MlGlobalReset
<1>5. CASE MlSoftReset BY <1>5 DEF MlSoftReset
<1>6. CASE MlProgramCvo BY <1>6 DEF MlProgramCvo
<1>7. CASE MlReleaseAdv BY <1>7 DEF MlReleaseAdv
<1>8. CASE MlSelect BY <1>8 DEF MlSelect
<1>9. CASE MlTableRow BY <1>9 DEF MlTableRow
<1>10. CASE MlDeselect BY <1>10 DEF MlDeselect
<1>11. CASE MlOutputs BY <1>11 DEF MlOutputs
<1>12. CASE MlTest BY <1>12 DEF MlTest
<1>13. CASE MlBeat BY <1>13 DEF MlBeat
<1>14. CASE MlLook BY <1>14 DEF MlLook
<1>15. CASE MlInfo BY <1>15 DEF MlInfo
<1>16. CASE MlPulse BY <1>16 DEF MlPulse
<1>17. CASE MlUnpulse BY <1>17 DEF MlUnpulse
<1>18. CASE MlMainReset BY <1>18 DEF MlMainReset
<1>19. CASE MlHpd BY <1>19 DEF MlHpd
<1>20. CASE MlGainLock BY <1>20 DEF MlGainLock
<1>21. CASE MlLoseLock BY <1>21 DEF MlLoseLock
<1>22. CASE MlChangePanel BY <1>22 DEF MlChangePanel
<1>23. CASE MlPowerLoss BY <1>23 DEF MlPowerLoss
<1>24. CASE MlLinkChange BY <1>24 DEF MlLinkChange
<1>25. CASE UNCHANGED mlVars BY <1>25 DEF mlVars
<1>26. QED BY <1>1, <1>2, <1>3, <1>4, <1>5, <1>6, <1>7, <1>8, <1>9, <1>10, <1>11, <1>12,
     <1>13, <1>14, <1>15, <1>16, <1>17, <1>18, <1>19, <1>20, <1>21, <1>22, <1>23, <1>24,
     <1>25 DEF MlNext, MlFirmware

\* What the last part sets stays until the next start.
LEMMA LitStep ==
  ASSUME MlTypeInv, MlStages, MlPanelDark, MlPanelLit, [MlNext]_mlVars
  PROVE  MlPanelLit'
<1> USE PanelBitNames DEF MlTypeInv, MlStages, BringUp, LoopOnly, MlPanelDark,
     MlPanelLit, CS, KeptBits, OthersOff, PanelReset, Backlight, MFD_15INCH_TYPE,
     MFD_12INCH_TYPE, MFD_10INCH_TYPE, At, Go, mlVideo, mlBeats, mlInputs, mlProgram
<1>1. CASE MlClear BY <1>1 DEF MlClear
<1>2. CASE MlLatchPanel BY <1>2 DEF MlLatchPanel
<1>3. CASE MlStartClock BY <1>3 DEF MlStartClock
<1>4. CASE MlGlobalReset BY <1>4 DEF MlGlobalReset
<1>5. CASE MlSoftReset BY <1>5 DEF MlSoftReset
<1>6. CASE MlProgramCvo BY <1>6 DEF MlProgramCvo
<1>7. CASE MlReleaseAdv BY <1>7 DEF MlReleaseAdv
<1>8. CASE MlSelect BY <1>8 DEF MlSelect
<1>9. CASE MlTableRow BY <1>9 DEF MlTableRow
<1>10. CASE MlDeselect BY <1>10 DEF MlDeselect
<1>11. CASE MlOutputs BY <1>11 DEF MlOutputs
<1>12. CASE MlTest BY <1>12 DEF MlTest
<1>13. CASE MlBeat BY <1>13 DEF MlBeat
<1>14. CASE MlLook BY <1>14 DEF MlLook
<1>15. CASE MlInfo BY <1>15 DEF MlInfo
<1>16. CASE MlPulse BY <1>16 DEF MlPulse
<1>17. CASE MlUnpulse BY <1>17 DEF MlUnpulse
<1>18. CASE MlMainReset BY <1>18 DEF MlMainReset
<1>19. CASE MlHpd BY <1>19 DEF MlHpd
<1>20. CASE MlGainLock BY <1>20 DEF MlGainLock
<1>21. CASE MlLoseLock BY <1>21 DEF MlLoseLock
<1>22. CASE MlChangePanel BY <1>22 DEF MlChangePanel
<1>23. CASE MlPowerLoss BY <1>23 DEF MlPowerLoss
<1>24. CASE MlLinkChange BY <1>24 DEF MlLinkChange
<1>25. CASE UNCHANGED mlVars BY <1>25 DEF mlVars
<1>26. QED BY <1>1, <1>2, <1>3, <1>4, <1>5, <1>6, <1>7, <1>8, <1>9, <1>10, <1>11, <1>12,
     <1>13, <1>14, <1>15, <1>16, <1>17, <1>18, <1>19, <1>20, <1>21, <1>22, <1>23, <1>24,
     <1>25 DEF MlNext, MlFirmware

\* The banks are programmed under the lock that was tested two steps before.
LEMMA LocksStep ==
  ASSUME MlTypeInv, MlStages, MlLocks, [MlNext]_mlVars
  PROVE  MlLocks'
<1> USE DEF MlTypeInv, MlStages, BringUp, LoopOnly, MlLocks, DdrLocked, At, Go, mlVideo,
     mlBeats, mlInputs, mlProgram
<1>1. CASE MlClear BY <1>1 DEF MlClear
<1>2. CASE MlLatchPanel BY <1>2 DEF MlLatchPanel
<1>3. CASE MlStartClock BY <1>3 DEF MlStartClock
<1>4. CASE MlGlobalReset BY <1>4 DEF MlGlobalReset
<1>5. CASE MlSoftReset BY <1>5 DEF MlSoftReset
<1>6. CASE MlProgramCvo BY <1>6 DEF MlProgramCvo
<1>7. CASE MlReleaseAdv BY <1>7 DEF MlReleaseAdv
<1>8. CASE MlSelect BY <1>8 DEF MlSelect
<1>9. CASE MlTableRow BY <1>9 DEF MlTableRow
<1>10. CASE MlDeselect BY <1>10 DEF MlDeselect
<1>11. CASE MlOutputs BY <1>11 DEF MlOutputs
<1>12. CASE MlTest BY <1>12 DEF MlTest
<1>13. CASE MlBeat BY <1>13 DEF MlBeat
<1>14. CASE MlLook BY <1>14 DEF MlLook
<1>15. CASE MlInfo BY <1>15 DEF MlInfo
<1>16. CASE MlPulse BY <1>16 DEF MlPulse
<1>17. CASE MlUnpulse BY <1>17 DEF MlUnpulse
<1>18. CASE MlMainReset BY <1>18 DEF MlMainReset
<1>19. CASE MlHpd BY <1>19 DEF MlHpd
<1>20. CASE MlGainLock BY <1>20 DEF MlGainLock
<1>21. CASE MlLoseLock BY <1>21 DEF MlLoseLock
<1>22. CASE MlChangePanel BY <1>22 DEF MlChangePanel
<1>23. CASE MlPowerLoss BY <1>23 DEF MlPowerLoss
<1>24. CASE MlLinkChange BY <1>24 DEF MlLinkChange
<1>25. CASE UNCHANGED mlVars BY <1>25 DEF mlVars
<1>26. QED BY <1>1, <1>2, <1>3, <1>4, <1>5, <1>6, <1>7, <1>8, <1>9, <1>10, <1>11, <1>12,
     <1>13, <1>14, <1>15, <1>16, <1>17, <1>18, <1>19, <1>20, <1>21, <1>22, <1>23, <1>24,
     <1>25 DEF MlNext, MlFirmware

\* The timer and the hot plug line move together.
LEMMA PulsesStep ==
  ASSUME MlTypeInv, MlStages, MlPanelDark, MlPulses, [MlNext]_mlVars
  PROVE  MlPulses'
<1> USE SelectNames, PanelBitNames, MlAssumption DEF MlTypeInv, MlStages, BringUp,
     LoopOnly, MlPanelDark, MlPulses, CS, KeptBits, RestartedTimer, OthersOff,
     PanelReset, Backlight, NextEdpTimer, MFD_15INCH_TYPE, MFD_12INCH_TYPE,
     MFD_10INCH_TYPE, At, Go, mlVideo, mlBeats, mlInputs, mlProgram
<1>1. CASE MlClear BY <1>1 DEF MlClear
<1>2. CASE MlLatchPanel BY <1>2 DEF MlLatchPanel
<1>3. CASE MlStartClock BY <1>3 DEF MlStartClock
<1>4. CASE MlGlobalReset BY <1>4 DEF MlGlobalReset
<1>5. CASE MlSoftReset BY <1>5 DEF MlSoftReset
<1>6. CASE MlProgramCvo BY <1>6 DEF MlProgramCvo
<1>7. CASE MlReleaseAdv BY <1>7 DEF MlReleaseAdv
<1>8. CASE MlSelect BY <1>8 DEF MlSelect
<1>9. CASE MlTableRow BY <1>9 DEF MlTableRow
<1>10. CASE MlDeselect BY <1>10 DEF MlDeselect
<1>11. CASE MlOutputs BY <1>11 DEF MlOutputs
<1>12. CASE MlTest BY <1>12 DEF MlTest
<1>13. CASE MlBeat BY <1>13 DEF MlBeat
<1>14. CASE MlLook BY <1>14 DEF MlLook
<1>15. CASE MlInfo BY <1>15 DEF MlInfo
<1>16. CASE MlPulse BY <1>16 DEF MlPulse
<1>17. CASE MlUnpulse BY <1>17 DEF MlUnpulse
<1>18. CASE MlMainReset BY <1>18 DEF MlMainReset
<1>19. CASE MlHpd BY <1>19 DEF MlHpd
<1>20. CASE MlGainLock BY <1>20 DEF MlGainLock
<1>21. CASE MlLoseLock BY <1>21 DEF MlLoseLock
<1>22. CASE MlChangePanel BY <1>22 DEF MlChangePanel
<1>23. CASE MlPowerLoss BY <1>23 DEF MlPowerLoss
<1>24. CASE MlLinkChange BY <1>24 DEF MlLinkChange
<1>25. CASE UNCHANGED mlVars BY <1>25 DEF mlVars
<1>26. QED BY <1>1, <1>2, <1>3, <1>4, <1>5, <1>6, <1>7, <1>8, <1>9, <1>10, <1>11, <1>12,
     <1>13, <1>14, <1>15, <1>16, <1>17, <1>18, <1>19, <1>20, <1>21, <1>22, <1>23, <1>24,
     <1>25 DEF MlNext, MlFirmware

LEMMA InitMlInv == MlInit => MlInv
<1> SUFFICES ASSUME MlInit PROVE MlInv
  OBVIOUS
<1> USE DEF MlInit
<1>1. MlTypeInv
  <2>1. mlAdv \in [0..1 -> Adv]
    BY DEF Adv, AdvDefault
  <2>2. edp_timer \in 0..EDP_TIMEOUT /\ mlFaults \in 0..MlFaultMax
    BY MlAssumption
  <2>3. mlRow \in 1..Len(adv7613_registers) /\ mlPc \in MlPcs
    BY DEF adv7613_registers, MlPcs
  <2>4. mlClock \in [on : BOOLEAN, mode : {"none", "fhd", "xga", "vga"}]
    OBVIOUS
  <2>5. QED BY <2>1, <2>2, <2>3, <2>4, SMTT(30), ZenonT(40) DEF MlTypeInv, Adv
<1>2. MlStages /\ MlClocked /\ MlPanelDark /\ MlPanelLit /\ MlLocks /\ MlPulses
  BY DEF MlStages, MlClocked, MlPanelDark, MlPanelLit, MlLocks, MlPulses, BringUp, LoopOnly
<1>3. MlSelects
  BY DEF MlSelects, BringUp
<1>4. MlEdids
  BY DEF MlEdids, AdvDefault
<1>5. QED BY <1>1, <1>2, <1>3, <1>4 DEF MlInv

LEMMA NextMlInv == MlInv /\ [MlNext]_mlVars => MlInv'
BY TypeStep, StagesStep, SelectsStep, EdidsStep, ClockStep, DarkStep, LitStep, LocksStep,
   PulsesStep DEF MlInv

LEMMA MlInvSafe == MlInv => MlSafe
<1> SUFFICES ASSUME MlInv PROVE MlSafe
  OBVIOUS
<1>1. MlTypeInv
  BY DEF MlInv
<1>2. MlOneChip
  BY DEF MlInv, MlSelects, MlOneChip, At
<1>3. MlEdidWhole
  BY DEF MlInv, MlEdids, MlEdidWhole
<1>4. MlPanelFits
  BY DEF MlInv, MlClocked, MlPanelLit, MlPanelFits
<1>5. MlVideoOutputSet
  BY DEF MlInv, MlLocks, MlVideoOutputSet
<1>6. MlHpdPulse
  BY DEF MlInv, MlPulses, MlHpdPulse
<1>7. QED BY <1>1, <1>2, <1>3, <1>4, <1>5, <1>6 DEF MlSafe

\* At every write of main() one receiver is selected and no half EDID is shown; in its
\* loop the panel is the one that was latched, the video output is programmed and the
\* hot plug line is low for the pulse only (main.c), whatever fails and whenever.
THEOREM SupervisionIsSafe == MlSpec => []MlSafe
<1>1. MlInit => MlInv
  BY InitMlInv
<1>2. MlInv /\ [MlNext]_mlVars => MlInv'
  BY NextMlInv
<1>3. MlInv => MlSafe
  BY MlInvSafe
<1>4. QED BY <1>1, <1>2, <1>3, PTL DEF MlSpec

-----------------------------------------------------------------------------
(***************************************************************************)
(* The layers.                                                             *)
(***************************************************************************)

CountsDown(i) == layer_timer[i] = 0 \/ layer_timer[i] + lcDark[i] <= LAYER_TIMEOUT

LcInv == LcTypeInv /\ LcBlanks /\ \A i \in LcLayers : CountsDown(i)

LEMMA TimeoutNat == LAYER_TIMEOUT \in Nat
BY LcAssumption

LEMMA InitLcInv == LcInit => LcInv
<1> SUFFICES ASSUME LcInit PROVE LcInv
  OBVIOUS
<1>1. LcTypeInv
  <2>1. /\ layer_timer \in [LcLayers -> 0..LAYER_TIMEOUT]
        /\ lcDark \in [LcLayers -> 0..LAYER_TIMEOUT + 1]
        /\ lcSince \in [LcLayers -> 0..LAYER_TIMEOUT + 1]
    BY TimeoutNat DEF LcInit
  <2>2. /\ lcHostCtl \in [LcInputs -> BOOLEAN] /\ lcControl \in [LcInputs -> BOOLEAN]
        /\ lcStable \in [LcInputs -> BOOLEAN] /\ lcShow \in [LcLayers -> BOOLEAN]
        /\ lcEnable \in [LcLayers -> BOOLEAN] /\ lcQuiet \in BOOLEAN
    BY DEF LcInit
  <2>3. /\ lcPc = "inputs" /\ lcLayer \in Outputs
        /\ lcShared \in [Outputs -> LcInputs \cup {NoInput}]
        /\ lcSwitch \in [Outputs -> LcInputs \cup {NoInput}]
        /\ lcRouted \in [Outputs -> LcInputs \cup {NoInput}]
    BY DEF LcInit, Outputs
  <2>4. QED BY <2>1, <2>2, <2>3 DEF LcTypeInv
<1>2. ASSUME NEW i \in LcLayers
      PROVE  layer_timer[i] = 0 /\ ~(lcDark[i] > LAYER_TIMEOUT)
  BY TimeoutNat DEF LcInit
<1>3. QED BY <1>1, <1>2 DEF LcInv, LcBlanks, CountsDown

\* A pass with a stable input starts the count of dark ones anew.
LEMMA StableLcInv ==
  ASSUME LcInv, NEW i \in LcLayers, StablePass(i)
  PROVE  /\ layer_timer' \in [LcLayers -> 0..LAYER_TIMEOUT]
         /\ lcEnable' \in [LcLayers -> BOOLEAN]
         /\ lcDark' \in [LcLayers -> 0..LAYER_TIMEOUT + 1]
         /\ lcSince' \in [LcLayers -> 0..LAYER_TIMEOUT + 1]
         /\ LcBlanks' /\ \A j \in LcLayers : CountsDown(j)'
<1>1. /\ layer_timer \in [LcLayers -> 0..LAYER_TIMEOUT]
      /\ lcEnable \in [LcLayers -> BOOLEAN] /\ lcShow \in [LcLayers -> BOOLEAN]
      /\ lcDark \in [LcLayers -> 0..LAYER_TIMEOUT + 1]
      /\ lcSince \in [LcLayers -> 0..LAYER_TIMEOUT + 1]
  BY DEF LcInv, LcTypeInv
<1>2. lcDark' = [lcDark EXCEPT ![i] = 0]
  BY DEF StablePass
<1>3. CASE Ready(layer_timer[i])
  <2>1. layer_timer' = [layer_timer EXCEPT ![i] = @ + 1] /\ UNCHANGED <<lcEnable, lcSince>>
    BY <1>3 DEF StablePass
  <2>2. QED BY <1>1, <1>2, <1>3, <2>1, TimeoutNat DEF LcInv, Ready, LcBlanks, CountsDown
<1>4. CASE ~Ready(layer_timer[i])
  <2>1. /\ lcEnable' = [lcEnable EXCEPT ![i] = lcShow[i]]
        /\ lcSince' = [lcSince EXCEPT ![i] = 0] /\ layer_timer' = layer_timer
    BY <1>4 DEF StablePass
  <2>2. lcEnable' \in [LcLayers -> BOOLEAN]
    BY <1>1, <2>1
  <2>3. QED BY <1>1, <1>2, <2>1, <2>2, TimeoutNat DEF LcInv, LcBlanks, CountsDown
<1>5. QED BY <1>3, <1>4

\* When the count of dark passes leaves the time-out behind, the timer is 0.
LEMMA DarkLcInv ==
  ASSUME LcInv, NEW i \in LcLayers, DarkPass(i)
  PROVE  /\ layer_timer' \in [LcLayers -> 0..LAYER_TIMEOUT]
         /\ lcEnable' \in [LcLayers -> BOOLEAN]
         /\ lcDark' \in [LcLayers -> 0..LAYER_TIMEOUT + 1]
         /\ lcSince' \in [LcLayers -> 0..LAYER_TIMEOUT + 1]
         /\ LcBlanks' /\ \A j \in LcLayers : CountsDown(j)'
<1>1. /\ layer_timer \in [LcLayers -> 0..LAYER_TIMEOUT]
      /\ lcEnable \in [LcLayers -> BOOLEAN]
      /\ lcDark \in [LcLayers -> 0..LAYER_TIMEOUT + 1]
      /\ lcSince \in [LcLayers -> 0..LAYER_TIMEOUT + 1]
  BY DEF LcInv, LcTypeInv
<1>2. /\ lcDark' = [lcDark EXCEPT ![i] = Counted(@)]
      /\ lcSince' = [lcSince EXCEPT ![i] = Counted(@)]
      /\ layer_timer' = [layer_timer EXCEPT ![i] = IF @ > 0 THEN @ - 1 ELSE @]
      /\ lcEnable' = [lcEnable EXCEPT ![i] = IF Blanked(layer_timer[i]) THEN FALSE ELSE @]
  BY DEF DarkPass
<1>3. lcDark' \in [LcLayers -> 0..LAYER_TIMEOUT + 1]
      /\ lcSince' \in [LcLayers -> 0..LAYER_TIMEOUT + 1]
  BY <1>1, <1>2, TimeoutNat DEF Counted
<1>4. layer_timer' \in [LcLayers -> 0..LAYER_TIMEOUT]
  BY <1>1, <1>2, TimeoutNat
<1>5. lcEnable' \in [LcLayers -> BOOLEAN]
  BY <1>1, <1>2
<1>6. ASSUME NEW j \in LcLayers
      PROVE  CountsDown(j)' /\ (lcDark'[j] > LAYER_TIMEOUT => ~lcEnable'[j])
  <2>1. CASE j # i
    BY <1>1, <1>2, <2>1 DEF LcInv, LcBlanks, CountsDown
  <2>2. CASE j = i
    <3>1. CASE layer_timer[i] = 0
      BY <1>1, <1>2, <2>2, <3>1 DEF Blanked, CountsDown
    <3>2. CASE layer_timer[i] # 0
      <4>1. lcDark[i] + 1 <= LAYER_TIMEOUT /\ lcDark'[i] = lcDark[i] + 1
        BY <1>1, <1>2, <3>2, TimeoutNat DEF LcInv, CountsDown, Counted
      <4>2. QED BY <1>1, <1>2, <2>2, <3>2, <4>1, TimeoutNat DEF LcInv, CountsDown
    <3>3. QED BY <3>1, <3>2
  <2>3. QED BY <2>1, <2>2
<1>7. QED BY <1>3, <1>4, <1>5, <1>6 DEF LcBlanks

LEMMA LayerPassLcInv == ASSUME LcInv, LcLayerPass PROVE LcInv'
<1>1. /\ layer_timer' \in [LcLayers -> 0..LAYER_TIMEOUT]
      /\ lcEnable' \in [LcLayers -> BOOLEAN]
      /\ lcDark' \in [LcLayers -> 0..LAYER_TIMEOUT + 1]
      /\ lcSince' \in [LcLayers -> 0..LAYER_TIMEOUT + 1]
      /\ LcBlanks' /\ \A j \in LcLayers : CountsDown(j)'
  <2>1. CASE UNCHANGED lcMixer
    BY <2>1 DEF lcMixer, LcInv, LcTypeInv, LcBlanks, CountsDown
  <2>2. CASE lcLayer \in LcLayers /\ (StablePass(lcLayer) \/ DarkPass(lcLayer))
    BY <2>2, StableLcInv, DarkLcInv
  <2>3. QED BY <2>1, <2>2 DEF LcLayerPass
<1>2. /\ lcPc' \in {"inputs", "layers"} /\ lcLayer' \in Outputs
      /\ UNCHANGED <<lcHost, lcSwitch, lcRouted, lcControl, lcQuiet>>
  BY DEF LcLayerPass, Outputs
<1>3. LcTypeInv'
  BY <1>1, <1>2 DEF LcInv, LcTypeInv, lcHost
<1>4. QED BY <1>1, <1>3 DEF LcInv

\* The rest of a pass, the host and the inputs leave the mixer alone.
LEMMA OtherLcInv ==
  ASSUME LcInv, LcTypeInv', UNCHANGED lcMixer
  PROVE  LcInv'
BY DEF LcInv, LcBlanks, CountsDown, lcMixer

LEMMA PassTypes ==
  ASSUME LcTypeInv, LcCopyControls \/ LcCompare \/ LcWrite0 \/ LcWrite1
  PROVE  LcTypeInv'
<1>1. CASE LcCopyControls
  BY <1>1 DEF LcTypeInv, LcCopyControls, lcHost, lcMixer
<1>2. CASE LcCompare
  <2>1. lcPc' \in {"write 0", "layers"} /\ lcLayer' \in Outputs
    <3>1. lcLayer' = 0
      BY <1>2, Zenon DEF LcCompare
    <3>2. lcPc' \in {"write 0", "layers"}
      BY <1>2, Zenon DEF LcCompare
    <3>3. lcLayer' \in Outputs
      BY <3>1 DEF Outputs
    <3>4. QED BY <3>2, <3>3
  <2>2. UNCHANGED <<lcHost, lcSwitch, lcRouted, lcControl, lcMixer, lcQuiet>>
    BY <1>2 DEF LcCompare
  <2>3. QED BY <2>1, <2>2 DEF LcTypeInv, lcHost, lcMixer
<1>3. CASE LcWrite0
  BY <1>3 DEF LcTypeInv, LcWrite0, lcHost, lcMixer, Outputs
<1>4. CASE LcWrite1
  BY <1>4 DEF LcTypeInv, LcWrite1, lcHost, lcMixer, Outputs
<1>5. QED BY <1>1, <1>2, <1>3, <1>4

LEMMA AroundTypes == ASSUME LcTypeInv, LcAround PROVE LcTypeInv'
<1>1. CASE LcHostSwitches
  BY <1>1 DEF LcTypeInv, LcHostSwitches, lcFirmware, lcMixer
<1>2. CASE LcHostControls
  <2>1. lcHostCtl' \in [LcInputs -> BOOLEAN]
    BY <1>2 DEF LcTypeInv, LcHostControls
  <2>2. QED BY <1>2, <2>1 DEF LcTypeInv, LcHostControls, lcFirmware, lcMixer
<1>3. CASE LcHostShows
  <2>1. lcShow' \in [LcLayers -> BOOLEAN]
    BY <1>3 DEF LcTypeInv, LcHostShows
  <2>2. QED BY <1>3, <2>1 DEF LcTypeInv, LcHostShows, lcFirmware, lcMixer
<1>4. CASE LcInputChanges
  <2>1. lcStable' \in [LcInputs -> BOOLEAN]
    BY <1>4 DEF LcTypeInv, LcInputChanges
  <2>2. QED BY <1>4, <2>1 DEF LcTypeInv, LcInputChanges, lcFirmware, lcMixer
<1>5. CASE LcFallQuiet
  BY <1>5 DEF LcTypeInv, LcFallQuiet, lcFirmware, lcMixer, lcHost
<1>6. QED BY <1>1, <1>2, <1>3, <1>4, <1>5 DEF LcAround

LEMMA NextLcInv == LcInv /\ [LcNext]_lcVars => LcInv'
<1> SUFFICES ASSUME LcInv, [LcNext]_lcVars PROVE LcInv'
  OBVIOUS
<1>1. CASE LcLayerPass
  BY <1>1, LayerPassLcInv
<1>2. CASE LcCopyControls \/ LcCompare \/ LcWrite0 \/ LcWrite1
  <2>1. UNCHANGED lcMixer
    BY <1>2 DEF LcCopyControls, LcCompare, LcWrite0, LcWrite1
  <2>2. QED BY <1>2, <2>1, PassTypes, OtherLcInv DEF LcInv
<1>3. CASE LcAround
  <2>1. UNCHANGED lcMixer
    BY <1>3 DEF LcAround, LcHostSwitches, LcHostControls, LcHostShows, LcInputChanges,
                LcFallQuiet, lcFirmware
  <2>2. QED BY <1>3, <2>1, AroundTypes, OtherLcInv DEF LcInv
<1>4. CASE UNCHANGED lcVars
  BY <1>4 DEF lcVars, lcHost, lcMixer, LcInv, LcTypeInv, LcBlanks, CountsDown
<1>5. QED BY <1>1, <1>2, <1>3, <1>4 DEF LcNext, LcPass

\* For every time-out: a layer whose input has been gone for more than that
\* many passes in a row is blanked, whatever the host writes in between.
THEOREM LayersBlank == LcSpec => []LcSafe
<1>1. LcInv => LcSafe
  BY DEF LcInv, LcSafe
<1>2. QED BY <1>1, InitLcInv, NextLcInv, PTL DEF LcSpec
(***************************************************************************)
(* That a shown layer is not blanked early: since it was shown its timer   *)
(* has come down by one for each pass without an input, so the timer and   *)
(* those passes add up to the time-out.                                    *)
(***************************************************************************)
HoldInv == LcInv /\ \A i \in LcLayers : lcEnable[i] => layer_timer[i] + lcSince[i] >= LAYER_TIMEOUT

\* One pass over a layer keeps the sum, or starts it anew, or blanks the layer
\* for one of the two reasons.
LEMMA StableHolds ==
  ASSUME HoldInv, NEW i \in LcLayers, StablePass(i), NEW j \in LcLayers
  PROVE  /\ lcEnable'[j] => layer_timer'[j] + lcSince'[j] >= LAYER_TIMEOUT
         /\ lcEnable[j] /\ ~lcEnable'[j]
              => (layer_timer[j] = LAYER_TIMEOUT /\ ~lcShow[j]) \/ lcSince[j] >= LAYER_TIMEOUT
<1>1. /\ layer_timer \in [LcLayers -> 0..LAYER_TIMEOUT]
      /\ lcEnable \in [LcLayers -> BOOLEAN] /\ lcShow \in [LcLayers -> BOOLEAN]
      /\ lcSince \in [LcLayers -> 0..LAYER_TIMEOUT + 1]
  BY DEF HoldInv, LcInv, LcTypeInv
<1>2. CASE Ready(layer_timer[i])
  <2>1. layer_timer' = [layer_timer EXCEPT ![i] = @ + 1] /\ UNCHANGED <<lcEnable, lcSince>>
    BY <1>2 DEF StablePass
  <2>2. QED BY <1>1, <2>1, TimeoutNat DEF HoldInv
<1>3. CASE ~Ready(layer_timer[i])
  <2>1. /\ lcEnable' = [lcEnable EXCEPT ![i] = lcShow[i]]
        /\ lcSince' = [lcSince EXCEPT ![i] = 0] /\ layer_timer' = layer_timer
    BY <1>3 DEF StablePass
  <2>2. layer_timer[i] = LAYER_TIMEOUT
    BY <1>1, <1>3, TimeoutNat DEF Ready
  <2>3. QED BY <1>1, <2>1, <2>2, TimeoutNat DEF HoldInv
<1>4. QED BY <1>2, <1>3

LEMMA DarkHolds ==
  ASSUME HoldInv, NEW i \in LcLayers, DarkPass(i), NEW j \in LcLayers
  PROVE  /\ lcEnable'[j] => layer_timer'[j] + lcSince'[j] >= LAYER_TIMEOUT
         /\ lcEnable[j] /\ ~lcEnable'[j] => lcSince[j] >= LAYER_TIMEOUT
<1>1. /\ layer_timer \in [LcLayers -> 0..LAYER_TIMEOUT]
      /\ lcEnable \in [LcLayers -> BOOLEAN]
      /\ lcSince \in [LcLayers -> 0..LAYER_TIMEOUT + 1]
  BY DEF HoldInv, LcInv, LcTypeInv
<1>2. /\ lcSince' = [lcSince EXCEPT ![i] = Counted(@)]
      /\ layer_timer' = [layer_timer EXCEPT ![i] = IF @ > 0 THEN @ - 1 ELSE @]
      /\ lcEnable' = [lcEnable EXCEPT ![i] = IF Blanked(layer_timer[i]) THEN FALSE ELSE @]
  BY DEF DarkPass
<1>3. CASE j # i
  BY <1>1, <1>2, <1>3 DEF HoldInv
<1>4. CASE j = i /\ layer_timer[i] = 0
  <2>1. ~lcEnable'[i]
    BY <1>1, <1>2, <1>4 DEF Blanked
  <2>2. lcEnable[i] => lcSince[i] >= LAYER_TIMEOUT
    BY <1>1, <1>4, TimeoutNat DEF HoldInv
  <2>3. QED BY <1>4, <2>1, <2>2
<1>5. CASE j = i /\ layer_timer[i] # 0
  <2>1. lcEnable'[i] <=> lcEnable[i]
    BY <1>1, <1>2, <1>5 DEF Blanked
  <2>2. layer_timer'[i] = layer_timer[i] - 1
    BY <1>1, <1>2, <1>5
  <2>3. lcSince'[i] = IF lcSince[i] <= LAYER_TIMEOUT THEN lcSince[i] + 1 ELSE lcSince[i]
    BY <1>1, <1>2 DEF Counted
  <2>4. lcEnable[i] => layer_timer'[i] + lcSince'[i] >= LAYER_TIMEOUT
    BY <1>1, <1>5, <2>2, <2>3, TimeoutNat DEF HoldInv
  <2>5. QED BY <1>5, <2>1, <2>4
<1>6. QED BY <1>3, <1>4, <1>5

LEMMA StepHolds ==
  ASSUME HoldInv, [LcNext]_lcVars
  PROVE  /\ HoldInv'
         /\ \A j \in LcLayers :
              lcEnable[j] /\ ~lcEnable'[j]
                => (layer_timer[j] = LAYER_TIMEOUT /\ ~lcShow[j]) \/ lcSince[j] >= LAYER_TIMEOUT
<1>1. LcInv'
  BY NextLcInv DEF HoldInv
<1>2. CASE UNCHANGED lcMixer
  BY <1>1, <1>2 DEF HoldInv, lcMixer
<1>3. CASE lcLayer \in LcLayers /\ (StablePass(lcLayer) \/ DarkPass(lcLayer))
  BY <1>1, <1>3, StableHolds, DarkHolds DEF HoldInv
<1>4. UNCHANGED lcMixer \/ (lcLayer \in LcLayers /\ (StablePass(lcLayer) \/ DarkPass(lcLayer)))
  <2>1. CASE LcLayerPass
    BY <2>1 DEF LcLayerPass
  <2>2. CASE LcCopyControls \/ LcCompare \/ LcWrite0 \/ LcWrite1
    BY <2>2 DEF LcCopyControls, LcCompare, LcWrite0, LcWrite1
  <2>3. CASE LcAround
    BY <2>3 DEF LcAround, LcHostSwitches, LcHostControls, LcHostShows, LcInputChanges,
                LcFallQuiet, lcFirmware
  <2>4. CASE UNCHANGED lcVars
    BY <2>4 DEF lcVars
  <2>5. QED BY <2>1, <2>2, <2>3, <2>4 DEF LcNext, LcPass
<1>5. QED BY <1>2, <1>3, <1>4

\* A layer goes dark because the host hid it or because its input was away for
\* at least the time-out since it was shown, whatever the host switches.
THEOREM LayersHold == LcSpec => LcHolds
<1>1. LcInit => HoldInv
  BY InitLcInv DEF HoldInv, LcInit
<1>2. HoldInv /\ [LcNext]_lcVars => HoldInv'
  BY StepHolds
<1>3. HoldInv /\ [LcNext]_lcVars =>
        [\A i \in LcLayers :
           lcEnable[i] /\ ~lcEnable'[i]
             => (layer_timer[i] = LAYER_TIMEOUT /\ ~lcShow[i]) \/ lcSince[i] >= LAYER_TIMEOUT]_lcVars
  BY StepHolds
<1>4. QED BY <1>1, <1>2, <1>3, PTL DEF LcSpec, LcHolds

-----------------------------------------------------------------------------
(***************************************************************************)
(* The parts of the HAL that interrupts drive, for every number of lines,  *)
(* alarms and characters, any size of the rings and any nesting.           *)
(*                                                                         *)
(* Dispatch: the saved masks form a chain, in which each open handler      *)
(* holds the mask of the one it interrupted; only the innermost can be     *)
(* closed to interrupts, because nothing enters while it is.               *)
(*                                                                         *)
(* UART: each place on the way of a character holds a run of consecutive   *)
(* numbers, also between the copy of a call and the publication of its     *)
(* index.                                                                  *)
(*                                                                         *)
(* Alarms: whatever the list may be, all that alt_tick has passed is not   *)
(* due and all that it has not passed is reached from where it goes next.  *)
(* That it is one ring is said without induction: no set of alarms that is *)
(* closed under going back contains a listed one.                          *)
(***************************************************************************)
Frames == [id : Irqs, open : BOOLEAN, old : SUBSET Irqs, quiet : BOOLEAN]

\* The mask that the k-th handler of the stack puts in place.
MaskOf(k) == IF k <= Len(hiStack) THEN Below(hiStack[k].id) ELSE Irqs
Innermost == IF hiStack # <<>> /\ ~hiStack[1].open THEN 2 ELSE 1

Stacked == hiStack \in Seq(Frames)
ClosedOnTop == /\ \A k \in 2 .. Len(hiStack) : hiStack[k].open
               /\ hiPie => hiStack = <<>> \/ hiStack[1].open
MaskChain == /\ alt_priority_mask = MaskOf(Innermost)
             /\ \A k \in 1 .. Len(hiStack) :
                  hiStack[k].open => hiStack[k].old = MaskOf(k + 1)
EnabledMask == /\ hiEnable \in {alt_irq_active, alt_irq_active \cap alt_priority_mask}
               /\ hiStack = <<>> /\ hiPie => hiEnable = alt_irq_active
               /\ hiStack = <<>> /\ ~hiPie => alt_irq_active = {}
Untouched == ~hiTouched =>
               /\ hiEnable \subseteq alt_priority_mask
               /\ \A j, k \in 1 .. Len(hiStack) : j < k => hiStack[j].id < hiStack[k].id

HiInv == /\ HiTypeInv /\ HiNoNull /\ Stacked /\ ClosedOnTop
         /\ MaskChain /\ EnabledMask /\ Untouched

LEMMA IrqFacts == Irqs \subseteq Nat /\ \A i \in Irqs : Below(i) \subseteq Irqs
BY HiAssumption DEF Irqs, Below

LEMMA FrameFacts ==
  ASSUME NEW i \in Irqs
  PROVE  Frame(i) \in Frames /\ Frame(i).id = i /\ ~Frame(i).open
BY DEF Frame, Frames

\* The types of the stack follow from those of its frames.
LEMMA StackedTypes == Stacked => \A k \in DOMAIN hiStack : hiStack[k] \in Frames
BY ElementOfSeq DEF Stacked

LEMMA DomainFacts == Stacked => DOMAIN hiStack = 1 .. Len(hiStack) /\ Len(hiStack) \in Nat
                               /\ (hiStack = <<>> <=> Len(hiStack) = 0)
BY EmptySeq, LenProperties DEF Stacked

LEMMA InitHiInv == HiInit => HiInv
<1> SUFFICES ASSUME HiInit PROVE HiInv
  OBVIOUS
<1>1. /\ hiStack = <<>> /\ Len(hiStack) = 0 /\ hiStack \in Seq(Frames)
      /\ DOMAIN hiStack = {}
  BY DEF HiInit
<1>2. HiTypeInv
  BY <1>1 DEF HiInit, HiTypeInv
<1>3. HiNoNull /\ Stacked /\ EnabledMask
  BY <1>1 DEF HiInit, HiNoNull, Stacked, EnabledMask
<1>4. ClosedOnTop /\ MaskChain /\ Untouched
  BY <1>1 DEF HiInit, ClosedOnTop, MaskChain, MaskOf, Innermost, Untouched
<1>5. QED BY <1>2, <1>3, <1>4 DEF HiInv

\* Registering, enabling and disabling: all of alt_irq_active is written, and
\* with an open handler on the stack that counts as touched.
LEMMA WriteHiInv ==
  ASSUME HiInv, Booted, NEW active \in SUBSET Irqs, WriteActive(active),
         hiHandler' \in SUBSET Irqs, active \subseteq hiHandler'
  PROVE  HiInv'
<1>1. /\ alt_irq_active' = active /\ hiEnable' = active
      /\ hiTouched' = (hiTouched \/ SomeOpen)
      /\ UNCHANGED <<hiPie, alt_priority_mask, hiLines, hiStack, hiRaised>>
  BY DEF WriteActive
<1>2. HiTypeInv'
  BY <1>1 DEF HiInv, HiTypeInv
<1>3. HiNoNull' /\ Stacked' /\ ClosedOnTop' /\ MaskChain'
  BY <1>1 DEF HiInv, HiNoNull, Stacked, ClosedOnTop, MaskChain, MaskOf, Innermost
<1>4. EnabledMask'
  BY <1>1 DEF EnabledMask, Booted
<1>5. Untouched'
  <2> SUFFICES ASSUME ~hiTouched, ~SomeOpen PROVE Untouched'
    BY <1>1 DEF Untouched
  <2>1. Len(hiStack) \in Nat /\ \A k \in 1 .. Len(hiStack) : ~hiStack[k].open
    BY DomainFacts DEF SomeOpen, HiInv
  <2>2. alt_priority_mask = Irqs
    BY <2>1, DomainFacts DEF HiInv, ClosedOnTop, MaskChain, MaskOf, Innermost
  <2>3. QED BY <1>1, <2>2 DEF HiInv, Untouched
<1>6. QED BY <1>2, <1>3, <1>4, <1>5 DEF HiInv

LEMMA RegisterHiInv ==
  ASSUME HiInv, NEW i \in Irqs, NEW isr \in BOOLEAN, HiRegister(i, isr)
  PROVE  HiInv'
<1>1. /\ ActiveAfter(i, isr) \in SUBSET Irqs /\ hiHandler' \in SUBSET Irqs
      /\ ActiveAfter(i, isr) \subseteq hiHandler'
  BY DEF HiInv, HiTypeInv, HiNoNull, HiRegister, ActiveAfter
<1>2. QED BY <1>1, WriteHiInv DEF HiRegister

LEMMA EnableHiInv ==
  ASSUME HiInv, NEW i \in Irqs, HiEnable(i) \/ HiDisable(i) PROVE HiInv'
<1>1. CASE HiEnable(i)
  <2>1. /\ alt_irq_active \cup {i} \in SUBSET Irqs /\ hiHandler' \in SUBSET Irqs
        /\ alt_irq_active \cup {i} \subseteq hiHandler'
    BY <1>1 DEF HiInv, HiTypeInv, HiNoNull, HiEnable
  <2>2. QED BY <1>1, <2>1, WriteHiInv DEF HiEnable
<1>2. CASE HiDisable(i)
  <2>1. /\ alt_irq_active \ {i} \in SUBSET Irqs /\ hiHandler' \in SUBSET Irqs
        /\ alt_irq_active \ {i} \subseteq hiHandler'
    BY <1>2 DEF HiInv, HiTypeInv, HiNoNull, HiDisable
  <2>2. QED BY <1>2, <2>1, WriteHiInv DEF HiDisable
<1>3. QED BY <1>1, <1>2

\* The start of interrupts, and the lines of the devices.
LEMMA BootHiInv == ASSUME HiInv, HiBoot PROVE HiInv'
<1>1. alt_irq_active = {} /\ hiStack = <<>> /\ hiPie' = TRUE /\ hiEnable' = {}
  BY DEF HiInv, EnabledMask, HiBoot
<1>2. UNCHANGED <<alt_priority_mask, hiTables, hiLines, hiStack, hiTouched, hiRaised, hiCalled>>
  BY DEF HiBoot
<1>3. HiTypeInv' /\ HiNoNull'
  BY <1>1, <1>2 DEF HiInv, HiTypeInv, HiNoNull, hiTables
<1>4. Stacked' /\ ClosedOnTop' /\ MaskChain' /\ EnabledMask' /\ Untouched'
  BY <1>1, <1>2
  DEF HiInv, Stacked, ClosedOnTop, MaskChain, MaskOf, Innermost, EnabledMask,
                    Untouched, hiTables
<1>5. QED BY <1>3, <1>4 DEF HiInv

LEMMA RaiseHiInv ==
  ASSUME HiInv, NEW i \in Irqs, HiRaise(i)
  PROVE  HiInv'
<1>1. /\ hiLines' = hiLines \cup {i}
      /\ UNCHANGED <<hiCpu, hiTables, hiStack, hiTouched, hiCalled>>
  BY DEF HiRaise
<1>2. HiTypeInv' /\ HiNoNull'
  BY <1>1 DEF HiInv, HiTypeInv, HiNoNull, hiTables, hiCpu
<1>3. Stacked' /\ ClosedOnTop' /\ MaskChain' /\ EnabledMask' /\ Untouched'
  BY <1>1 DEF HiInv, Stacked, ClosedOnTop, MaskChain, MaskOf, Innermost, EnabledMask,
              Untouched, hiTables, hiCpu
<1>4. QED BY <1>2, <1>3 DEF HiInv

LEMMA EnterHiInv == ASSUME HiInv, HiEnter PROVE HiInv'
<1>1. PICK i \in Irqs : Lowest(i, Pending) /\ hiStack' = <<Frame(i)>> \o hiStack
  BY DEF HiEnter
<1>2. /\ hiPie /\ hiPie' = FALSE
      /\ UNCHANGED <<hiEnable, alt_priority_mask, hiTables, hiLines, hiTouched, hiRaised, hiCalled>>
  BY DEF HiEnter
<1>3. /\ hiStack \in Seq(Frames) /\ DOMAIN hiStack = 1 .. Len(hiStack)
      /\ Len(hiStack) \in Nat /\ (hiStack = <<>> <=> Len(hiStack) = 0)
  BY DomainFacts DEF HiInv, Stacked
<1>4. Frame(i) \in Frames /\ Frame(i).id = i /\ ~Frame(i).open
  BY FrameFacts
<1>5. /\ hiStack' \in Seq(Frames) /\ Len(hiStack') = Len(hiStack) + 1
      /\ hiStack'[1] = Frame(i)
      /\ \A k \in 2 .. Len(hiStack) + 1 : hiStack'[k] = hiStack[k - 1]
  <2>1. /\ <<Frame(i)>> \in Seq(Frames) /\ Len(<<Frame(i)>>) = 1
        /\ <<Frame(i)>>[1] = Frame(i)
    BY <1>4
  <2>2. QED BY <1>1, <1>3, <2>1, ConcatProperties
<1>6. \A k \in 1 .. Len(hiStack) : hiStack'[k + 1] = hiStack[k]
  BY <1>3, <1>5
<1>7. HiTypeInv'
  <2>1. Stacked'
    BY <1>5 DEF Stacked
  <2>2. \A k \in DOMAIN hiStack' : hiStack'[k] \in Frames
    BY <1>5, ElementOfSeq
  <2>3. QED BY <1>2, <2>2 DEF HiInv, HiTypeInv, hiTables, Frames
<1>8. HiNoNull'
  BY <1>2 DEF HiInv, HiNoNull, hiTables
<1>9. hiStack' # <<>>
  BY <1>3, <1>5
<1>10. ClosedOnTop'
  <2>1. \A k \in 1 .. Len(hiStack) : hiStack[k].open
    BY <1>2, <1>3 DEF HiInv, ClosedOnTop
  <2>2. \A k \in 2 .. Len(hiStack') : hiStack'[k].open
    BY <1>3, <1>5, <2>1
  <2>3. QED BY <1>2, <2>2 DEF ClosedOnTop
<1>11. \A k \in Nat \ {0} : MaskOf(k + 1)' = MaskOf(k)
  <2> SUFFICES ASSUME NEW k \in Nat \ {0} PROVE MaskOf(k + 1)' = MaskOf(k)
    OBVIOUS
  <2>1. CASE k <= Len(hiStack)
    <3>1. k \in 1 .. Len(hiStack) /\ k + 1 <= Len(hiStack')
      BY <1>3, <1>5, <2>1
    <3>2. QED BY <1>6, <2>1, <3>1 DEF MaskOf, Below
  <2>2. CASE ~(k <= Len(hiStack))
    BY <1>3, <1>5, <2>2 DEF MaskOf
  <2>3. QED BY <2>1, <2>2
<1>12. Innermost = 1 /\ Innermost' = 2
  BY <1>2, <1>4, <1>5, <1>9 DEF HiInv, ClosedOnTop, Innermost
<1>13. MaskChain'
  <2>1. alt_priority_mask' = MaskOf(Innermost)'
    <3>1. alt_priority_mask = MaskOf(1)
      BY <1>12 DEF HiInv, MaskChain
    <3>2. MaskOf(2)' = MaskOf(1)
      BY <1>11
    <3>3. MaskOf(Innermost)' = MaskOf(2)'
      BY <1>12 DEF MaskOf
    <3>4. QED BY <1>2, <3>1, <3>2, <3>3
  <2>2. ASSUME NEW k \in 1 .. Len(hiStack'), hiStack'[k].open
        PROVE  hiStack'[k].old = MaskOf(k + 1)'
    <3>1. k # 1
      BY <1>4, <1>5, <2>2
    <3>2. k - 1 \in 1 .. Len(hiStack) /\ hiStack'[k] = hiStack[k - 1]
      BY <1>3, <1>5, <3>1
    <3>3. hiStack[k - 1].old = MaskOf((k - 1) + 1)
      BY <2>2, <3>2 DEF HiInv, MaskChain
    <3>4. k \in Nat \ {0} /\ (k - 1) + 1 = k
      BY <1>3, <1>5
    <3>5. MaskOf(k + 1)' = MaskOf(k)
      BY <1>11, <3>4
    <3>6. QED BY <3>2, <3>3, <3>4, <3>5
  <2>3. QED BY <2>1, <2>2 DEF MaskChain
<1>14. EnabledMask'
  BY <1>2, <1>9 DEF HiInv, EnabledMask, hiTables
<1>15. Untouched'
  <2> SUFFICES ASSUME ~hiTouched PROVE Untouched'
    BY <1>2 DEF Untouched
  <2>1. i \in alt_priority_mask
    BY <1>1 DEF HiInv, Untouched, Lowest, Pending
  <2>2. \A k \in 1 .. Len(hiStack) : i < hiStack[k].id
    <3> SUFFICES ASSUME NEW k \in 1 .. Len(hiStack) PROVE i < hiStack[k].id
      OBVIOUS
    <3>1. /\ alt_priority_mask = Below(hiStack[1].id) /\ 1 \in DOMAIN hiStack
          /\ k \in DOMAIN hiStack
      BY <1>3, <1>12 DEF HiInv, MaskChain, MaskOf
    <3>2. hiStack[1].id \in Irqs /\ hiStack[k].id \in Irqs
      BY <3>1 DEF HiInv, HiTypeInv
    <3>3. i < hiStack[1].id /\ hiStack[1].id \in Nat /\ hiStack[k].id \in Nat
      BY <2>1, <3>1, <3>2, IrqFacts DEF Below
    <3>4. k = 1 \/ hiStack[1].id < hiStack[k].id
      BY <1>3 DEF HiInv, Untouched
    <3>5. QED BY <3>3, <3>4, IrqFacts
  <2>3. ASSUME NEW j \in 1 .. Len(hiStack'), NEW k \in 1 .. Len(hiStack'), j < k
        PROVE  hiStack'[j].id < hiStack'[k].id
    <3>1. k - 1 \in 1 .. Len(hiStack) /\ hiStack'[k] = hiStack[k - 1]
      BY <1>3, <1>5, <2>3
    <3>2. CASE j = 1
      BY <1>4, <1>5, <2>2, <3>1, <3>2
    <3>3. CASE j # 1
      <4>1. j - 1 \in 1 .. Len(hiStack) /\ hiStack'[j] = hiStack[j - 1] /\ j - 1 < k - 1
        BY <1>3, <1>5, <2>3, <3>3
      <4>2. QED BY <3>1, <4>1 DEF HiInv, Untouched
    <3>4. QED BY <3>2, <3>3
  <2>4. QED BY <1>2, <2>3 DEF HiInv, Untouched
<1>16. QED BY <1>5, <1>7, <1>8, <1>10, <1>13, <1>14, <1>15 DEF HiInv, Stacked

\* The innermost handler changes what is its own, and nothing below it moves.
LEMMA TopFacts ==
  ASSUME HiInv, hiStack # <<>>, NEW frame \in Frames, hiStack' = [hiStack EXCEPT ![1] = frame]
  PROVE  /\ hiStack' \in Seq(Frames) /\ Len(hiStack') = Len(hiStack)
         /\ Len(hiStack) \in Nat \ {0} /\ DOMAIN hiStack = 1 .. Len(hiStack)
         /\ DOMAIN hiStack' = 1 .. Len(hiStack) /\ hiStack' # <<>>
         /\ hiStack'[1] = frame /\ hiStack[1] \in Frames
         /\ \A k \in 2 .. Len(hiStack) : hiStack'[k] = hiStack[k]
         /\ \A k \in 2 .. Len(hiStack) + 1 : MaskOf(k)' = MaskOf(k)
         /\ \A k \in DOMAIN hiStack' : hiStack'[k] \in Frames
<1>1. /\ hiStack \in Seq(Frames) /\ DOMAIN hiStack = 1 .. Len(hiStack)
      /\ Len(hiStack) \in Nat \ {0}
  BY DomainFacts DEF HiInv, Stacked
<1>2. /\ hiStack' \in Seq(Frames) /\ Len(hiStack') = Len(hiStack)
      /\ \A k \in 1 .. Len(hiStack) : hiStack'[k] = IF k = 1 THEN frame ELSE hiStack[k]
  BY <1>1, ExceptSeq
<1>3. DOMAIN hiStack' = 1 .. Len(hiStack) /\ hiStack' # <<>>
  BY <1>1, <1>2, LenProperties, EmptySeq
<1>4. \A k \in DOMAIN hiStack' : hiStack'[k] \in Frames
  BY <1>2, <1>3, ElementOfSeq
<1>5. hiStack[1] \in Frames
  BY <1>1, ElementOfSeq
<1>6. \A k \in 2 .. Len(hiStack) : hiStack'[k] = hiStack[k]
  BY <1>1, <1>2
<1>7. \A k \in 2 .. Len(hiStack) + 1 : MaskOf(k)' = MaskOf(k)
  BY <1>1, <1>2, <1>6 DEF MaskOf, Below
<1>8. QED BY <1>1, <1>2, <1>3, <1>4, <1>5, <1>6, <1>7

LEMMA QuietHiInv == ASSUME HiInv, HiQuiet PROVE HiInv'
<1> DEFINE frame == [hiStack[1] EXCEPT !.quiet = TRUE]
<1>1. /\ hiStack # <<>> /\ hiStack' = [hiStack EXCEPT ![1] = frame]
      /\ hiLines' = hiLines \ {hiStack[1].id}
      /\ UNCHANGED <<hiCpu, hiTables, hiTouched, hiRaised, hiCalled>>
  BY DEF HiQuiet
<1>2. /\ hiStack \in Seq(Frames) /\ Len(hiStack) \in Nat \ {0} /\ hiStack[1] \in Frames
  BY <1>1, DomainFacts, ElementOfSeq DEF HiInv, Stacked
<1>3. /\ frame \in Frames /\ frame.id = hiStack[1].id /\ frame.open = hiStack[1].open
      /\ frame.old = hiStack[1].old
  BY <1>2 DEF Frames
<1> HIDE DEF frame
<1>4. /\ hiStack' \in Seq(Frames) /\ Len(hiStack') = Len(hiStack)
      /\ DOMAIN hiStack' = 1 .. Len(hiStack) /\ hiStack' # <<>> /\ hiStack'[1] = frame
      /\ \A k \in 2 .. Len(hiStack) : hiStack'[k] = hiStack[k]
      /\ \A k \in DOMAIN hiStack' : hiStack'[k] \in Frames
  BY <1>1, <1>3, TopFacts
<1>5. \A k \in 1 .. Len(hiStack) : /\ hiStack'[k].id = hiStack[k].id
                                   /\ hiStack'[k].open = hiStack[k].open
                                   /\ hiStack'[k].old = hiStack[k].old
  BY <1>2, <1>3, <1>4
<1>6. HiTypeInv' /\ HiNoNull'
  BY <1>1, <1>4 DEF HiInv, HiTypeInv, HiNoNull, hiCpu, hiTables, Frames
<1>7. \A k \in Nat \ {0} : MaskOf(k)' = MaskOf(k)
  BY <1>2, <1>4, <1>5 DEF MaskOf, Below
<1>8. ClosedOnTop' /\ Innermost' = Innermost
  BY <1>1, <1>2, <1>4, <1>5 DEF HiInv, ClosedOnTop, Innermost, hiCpu
<1>9. MaskChain'
  <2>1. MaskOf(Innermost)' = MaskOf(Innermost)
    BY <1>2, <1>4, <1>5, <1>8 DEF MaskOf, Below, Innermost
  <2>2. QED BY <1>1, <1>2, <1>4, <1>5, <1>7, <2>1 DEF HiInv, MaskChain, hiCpu
<1>10. EnabledMask' /\ Untouched'
  BY <1>1, <1>2, <1>4, <1>5 DEF HiInv, EnabledMask, Untouched, hiCpu, hiTables
<1>11. QED BY <1>4, <1>6, <1>8, <1>9, <1>10 DEF HiInv, Stacked

LEMMA OpenHiInv == ASSUME HiInv, HiOpen PROVE HiInv'
<1> DEFINE frame == [hiStack[1] EXCEPT !.open = TRUE, !.old = alt_priority_mask]
<1>1. /\ hiStack # <<>> /\ ~hiStack[1].open /\ hiPie'
      /\ alt_priority_mask' = Below(hiStack[1].id)
      /\ hiEnable' = alt_irq_active \cap alt_priority_mask'
      /\ UNCHANGED <<hiTables, hiLines, hiTouched, hiRaised, hiCalled>>
  BY DEF HiOpen
<1>2. /\ hiStack \in Seq(Frames) /\ Len(hiStack) \in Nat \ {0} /\ hiStack[1] \in Frames
      /\ DOMAIN hiStack = 1 .. Len(hiStack)
  BY <1>1, DomainFacts, ElementOfSeq DEF HiInv, Stacked
<1>3. /\ frame \in Frames /\ frame.id = hiStack[1].id /\ frame.open
      /\ frame.old = alt_priority_mask
  BY <1>2 DEF Frames, HiInv, HiTypeInv
<1>4. hiStack' = [hiStack EXCEPT ![1] = frame]
  BY <1>2 DEF HiOpen
<1> HIDE DEF frame
<1>5. /\ hiStack' \in Seq(Frames) /\ Len(hiStack') = Len(hiStack)
      /\ DOMAIN hiStack' = 1 .. Len(hiStack) /\ hiStack' # <<>> /\ hiStack'[1] = frame
      /\ \A k \in 2 .. Len(hiStack) : hiStack'[k] = hiStack[k]
      /\ \A k \in 2 .. Len(hiStack) + 1 : MaskOf(k)' = MaskOf(k)
      /\ \A k \in DOMAIN hiStack' : hiStack'[k] \in Frames
  BY <1>1, <1>3, <1>4, TopFacts
<1>6. alt_priority_mask' \subseteq Irqs /\ hiEnable' \subseteq Irqs
  BY <1>1, <1>2, IrqFacts DEF Frames
<1>7. HiTypeInv'
  BY <1>1, <1>5, <1>6 DEF HiInv, HiTypeInv, hiTables, Frames
<1>8. HiNoNull'
  BY <1>1 DEF HiInv, HiNoNull, hiTables
<1>9. ClosedOnTop'
  BY <1>1, <1>3, <1>5 DEF HiInv, ClosedOnTop
<1>10. MaskChain'
  <2>1. Innermost = 2 /\ Innermost' = 1
    BY <1>1, <1>3, <1>5 DEF Innermost
  <2>2. alt_priority_mask = MaskOf(2)
    BY <2>1 DEF HiInv, MaskChain
  <2>3. MaskOf(1)' = alt_priority_mask'
    BY <1>1, <1>2, <1>3, <1>5 DEF MaskOf
  <2>4. MaskOf(Innermost)' = MaskOf(1)'
    BY <2>1 DEF MaskOf
  <2>5. ASSUME NEW k \in 1 .. Len(hiStack'), hiStack'[k].open
        PROVE  hiStack'[k].old = MaskOf(k + 1)'
    <3>1. MaskOf(k + 1)' = MaskOf(k + 1)
      <4>1. k + 1 \in 2 .. Len(hiStack) + 1
        BY <1>2, <1>5
      <4>2. QED BY <1>5, <4>1
    <3>2. CASE k = 1
      BY <1>3, <1>5, <2>2, <3>1, <3>2
    <3>3. CASE k # 1
      <4>1. hiStack'[k] = hiStack[k] /\ k \in 1 .. Len(hiStack)
        BY <1>2, <1>5, <3>3
      <4>2. QED BY <2>5, <3>1, <4>1 DEF HiInv, MaskChain
    <3>4. QED BY <3>2, <3>3
  <2>6. QED BY <2>3, <2>4, <2>5 DEF MaskChain
<1>11. EnabledMask'
  BY <1>1, <1>5 DEF EnabledMask, hiTables
<1>12. Untouched'
  <2>1. \A k \in 1 .. Len(hiStack) : hiStack'[k].id = hiStack[k].id
    BY <1>2, <1>3, <1>5
  <2>2. QED BY <1>1, <1>5, <2>1 DEF HiInv, Untouched
<1>13. QED BY <1>5, <1>7, <1>8, <1>9, <1>10, <1>11, <1>12 DEF HiInv, Stacked

LEMMA CloseHiInv == ASSUME HiInv, HiClose PROVE HiInv'
<1> DEFINE frame == [hiStack[1] EXCEPT !.open = FALSE]
<1>1. /\ hiStack # <<>> /\ hiStack[1].open /\ hiPie' = FALSE
      /\ alt_priority_mask' = hiStack[1].old
      /\ hiEnable' = hiStack[1].old \cap alt_irq_active
      /\ UNCHANGED <<hiTables, hiLines, hiTouched, hiRaised, hiCalled>>
  BY DEF HiClose, Restored, EnabledAgain
<1>2. /\ hiStack \in Seq(Frames) /\ Len(hiStack) \in Nat \ {0} /\ hiStack[1] \in Frames
      /\ DOMAIN hiStack = 1 .. Len(hiStack)
  BY <1>1, DomainFacts, ElementOfSeq DEF HiInv, Stacked
<1>3. frame \in Frames /\ frame.id = hiStack[1].id /\ ~frame.open
  BY <1>2 DEF Frames
<1>4. hiStack' = [hiStack EXCEPT ![1] = frame]
  BY <1>2 DEF HiClose
<1> HIDE DEF frame
<1>5. /\ hiStack' \in Seq(Frames) /\ Len(hiStack') = Len(hiStack)
      /\ DOMAIN hiStack' = 1 .. Len(hiStack) /\ hiStack' # <<>> /\ hiStack'[1] = frame
      /\ \A k \in 2 .. Len(hiStack) : hiStack'[k] = hiStack[k]
      /\ \A k \in 2 .. Len(hiStack) + 1 : MaskOf(k)' = MaskOf(k)
      /\ \A k \in DOMAIN hiStack' : hiStack'[k] \in Frames
  BY <1>1, <1>3, <1>4, TopFacts
<1>6. alt_priority_mask' \subseteq Irqs /\ hiEnable' \subseteq Irqs
  BY <1>1, <1>2 DEF Frames
<1>7. HiTypeInv'
  BY <1>1, <1>5, <1>6 DEF HiInv, HiTypeInv, hiTables, Frames
<1>8. HiNoNull'
  BY <1>1 DEF HiInv, HiNoNull, hiTables
<1>9. ClosedOnTop'
  BY <1>1, <1>5 DEF HiInv, ClosedOnTop
<1>10. MaskChain'
  <2>1. Innermost' = 2
    BY <1>3, <1>5 DEF Innermost
  <2>2. hiStack[1].old = MaskOf(2)
    BY <1>1, <1>2 DEF HiInv, MaskChain
  <2>3. MaskOf(2)' = MaskOf(2)
    BY <1>2, <1>5
  <2>4. MaskOf(Innermost)' = MaskOf(2)'
    BY <2>1 DEF MaskOf
  <2>5. ASSUME NEW k \in 1 .. Len(hiStack'), hiStack'[k].open
        PROVE  hiStack'[k].old = MaskOf(k + 1)'
    <3>1. k # 1
      BY <1>3, <1>5, <2>5
    <3>2. /\ hiStack'[k] = hiStack[k] /\ k \in 1 .. Len(hiStack)
          /\ k + 1 \in 2 .. Len(hiStack) + 1
      BY <1>2, <1>5, <3>1
    <3>3. MaskOf(k + 1)' = MaskOf(k + 1)
      BY <1>5, <3>2
    <3>4. QED BY <2>5, <3>2, <3>3 DEF HiInv, MaskChain
  <2>6. QED BY <1>1, <2>2, <2>3, <2>4, <2>5 DEF MaskChain
<1>11. EnabledMask'
  BY <1>1, <1>5 DEF EnabledMask, hiTables
<1>12. Untouched'
  <2>1. \A k \in 1 .. Len(hiStack) : hiStack'[k].id = hiStack[k].id
    BY <1>2, <1>3, <1>5
  <2>2. QED BY <1>1, <1>5, <2>1 DEF HiInv, Untouched
<1>13. QED BY <1>5, <1>7, <1>8, <1>9, <1>10, <1>11, <1>12 DEF HiInv, Stacked

\* What interrupts while nothing has been touched is above the handler below.
LEMMA NextIsAbove ==
  ASSUME HiInv, ~hiTouched, hiStack # <<>>, ~hiStack[1].open, NEW i \in Pending,
         NEW k \in 2 .. Len(hiStack)
  PROVE  i < hiStack[k].id
<1>1. /\ DOMAIN hiStack = 1 .. Len(hiStack) /\ Len(hiStack) \in Nat
  BY DomainFacts DEF HiInv
<1>2. 2 \in DOMAIN hiStack /\ k \in DOMAIN hiStack
  BY <1>1
<1>3. hiStack[2].id \in Irqs /\ hiStack[k].id \in Irqs
  BY <1>2 DEF HiInv, HiTypeInv
<1>4. alt_priority_mask = Below(hiStack[2].id)
  <2>1. Innermost = 2
    BY DEF Innermost
  <2>2. alt_priority_mask = MaskOf(2)
    BY <2>1 DEF HiInv, MaskChain
  <2>3. 2 <= Len(hiStack)
    BY <1>1
  <2>4. QED BY <2>2, <2>3 DEF MaskOf
<1>5. i \in alt_priority_mask /\ i \in Irqs
  BY DEF HiInv, HiTypeInv, Untouched, Pending
<1>6. i \in Nat /\ hiStack[2].id \in Nat /\ hiStack[k].id \in Nat
  BY <1>3, <1>5, IrqFacts
<1>7. k = 2 \/ hiStack[2].id < hiStack[k].id
  <2>1. k # 2 => 2 \in 1 .. Len(hiStack) /\ k \in 1 .. Len(hiStack) /\ 2 < k
    BY <1>1
  <2>2. \A m, n \in 1 .. Len(hiStack) : m < n => hiStack[m].id < hiStack[n].id
    BY DEF HiInv, Untouched
  <2>3. QED BY <2>1, <2>2
<1>8. i < hiStack[2].id
  BY <1>4, <1>5, <1>6 DEF Below
<1>9. QED BY <1>6, <1>7, <1>8

\* The next pending interrupt in the place of the one that has returned.
LEMMA AgainHiInv ==
  ASSUME HiInv, hiStack # <<>>, ~hiStack[1].open, NEW i \in Irqs, i \in Pending,
         hiStack' = [hiStack EXCEPT ![1] = Frame(i)],
         UNCHANGED <<hiPie, hiTouched, hiEnable, alt_priority_mask, hiTables, hiLines,
                     hiRaised, hiCalled>>
  PROVE  HiInv'
<1>1. Frame(i) \in Frames /\ Frame(i).id = i /\ ~Frame(i).open
  BY FrameFacts
<1>2. /\ hiStack' \in Seq(Frames) /\ Len(hiStack') = Len(hiStack)
      /\ Len(hiStack) \in Nat \ {0}
      /\ DOMAIN hiStack' = 1 .. Len(hiStack) /\ hiStack' # <<>>
      /\ hiStack'[1] = Frame(i)
      /\ \A k \in 2 .. Len(hiStack) : hiStack'[k] = hiStack[k]
      /\ \A k \in 2 .. Len(hiStack) + 1 : MaskOf(k)' = MaskOf(k)
      /\ \A k \in DOMAIN hiStack' : hiStack'[k] \in Frames
  BY <1>1, TopFacts
<1>3. HiTypeInv'
  BY <1>2 DEF HiInv, HiTypeInv, hiTables, Frames
<1>4. HiNoNull'
  BY DEF HiInv, HiNoNull, hiTables
<1>5. ClosedOnTop'
  BY <1>2 DEF HiInv, ClosedOnTop
<1>6. MaskChain'
  <2>1. Innermost = 2 /\ Innermost' = 2
    BY <1>1, <1>2 DEF Innermost
  <2>2. alt_priority_mask = MaskOf(2)
    BY <2>1 DEF HiInv, MaskChain
  <2>3. MaskOf(2)' = MaskOf(2)
    BY <1>2
  <2>4. MaskOf(Innermost)' = MaskOf(2)'
    BY <2>1 DEF MaskOf
  <2>5. ASSUME NEW k \in 1 .. Len(hiStack'), hiStack'[k].open
        PROVE  hiStack'[k].old = MaskOf(k + 1)'
    <3>1. k # 1
      BY <1>1, <1>2, <2>5
    <3>2. /\ hiStack'[k] = hiStack[k] /\ k \in 1 .. Len(hiStack)
          /\ k + 1 \in 2 .. Len(hiStack) + 1
      BY <1>2, <3>1
    <3>3. MaskOf(k + 1)' = MaskOf(k + 1)
      BY <1>2, <3>2
    <3>4. QED BY <2>5, <3>2, <3>3 DEF HiInv, MaskChain
  <2>6. QED BY <2>2, <2>3, <2>4, <2>5 DEF MaskChain
<1>7. EnabledMask'
  BY <1>2 DEF HiInv, EnabledMask, hiTables
<1>8. Untouched'
  <2> SUFFICES ASSUME ~hiTouched, NEW j \in 1 .. Len(hiStack), NEW k \in 1 .. Len(hiStack), j < k
               PROVE  hiStack'[j].id < hiStack'[k].id
    BY <1>2 DEF HiInv, Untouched
  <2>1. k \in 2 .. Len(hiStack) /\ hiStack'[k] = hiStack[k]
    BY <1>2
  <2>2. CASE j = 1
    BY <1>1, <1>2, <2>1, <2>2, NextIsAbove
  <2>3. CASE j # 1
    <3>1. hiStack'[j] = hiStack[j]
      BY <1>2, <2>3
    <3>2. QED BY <2>1, <3>1 DEF HiInv, Untouched
  <2>4. QED BY <2>2, <2>3
<1>9. QED BY <1>2, <1>3, <1>4, <1>5, <1>6, <1>7, <1>8 DEF HiInv, Stacked

LEMMA ReturnHiInv == ASSUME HiInv, HiReturn PROVE HiInv'
<1>1. /\ hiStack # <<>> /\ ~hiStack[1].open
      /\ UNCHANGED <<hiEnable, alt_priority_mask, hiTables, hiLines, hiRaised, hiCalled>>
  BY DEF HiReturn
<1>2. CASE Pending # {}
  <2>1. PICK i \in Irqs : i \in Pending /\ hiStack' = [hiStack EXCEPT ![1] = Frame(i)]
    BY <1>2 DEF HiReturn, Lowest
  <2>2. UNCHANGED <<hiPie, hiTouched>>
    BY <1>2 DEF HiReturn
  <2>3. QED BY <1>1, <2>1, <2>2, AgainHiInv
<1>3. CASE Pending = {}
  <2>1. /\ hiStack' = Tail(hiStack) /\ hiPie' = TRUE
        /\ hiTouched' = (hiTouched /\ Len(hiStack) > 1)
    BY <1>3 DEF HiReturn
  <2>2. /\ hiStack \in Seq(Frames) /\ DOMAIN hiStack = 1 .. Len(hiStack)
        /\ Len(hiStack) \in Nat \ {0}
    BY <1>1, DomainFacts DEF HiInv, Stacked
  <2>3. /\ hiStack' \in Seq(Frames) /\ Len(hiStack') = Len(hiStack) - 1
        /\ \A k \in 1 .. Len(hiStack) - 1 : hiStack'[k] = hiStack[k + 1]
    BY <1>1, <2>1, <2>2, HeadTailProperties
  <2>4. /\ DOMAIN hiStack' = 1 .. Len(hiStack) - 1
        /\ hiStack' = <<>> <=> Len(hiStack) = 1
    BY <2>2, <2>3, LenProperties, EmptySeq
  <2>5. \A k \in DOMAIN hiStack' : hiStack'[k] \in Frames
    BY <2>3, <2>4, ElementOfSeq
  <2>6. \A k \in Nat \ {0} : MaskOf(k)' = MaskOf(k + 1)
    <3> SUFFICES ASSUME NEW k \in Nat \ {0} PROVE MaskOf(k)' = MaskOf(k + 1)
      OBVIOUS
    <3>1. CASE k <= Len(hiStack) - 1
      <4>1. k \in 1 .. Len(hiStack) - 1 /\ k + 1 <= Len(hiStack)
        BY <2>2, <3>1
      <4>2. hiStack'[k] = hiStack[k + 1]
        BY <2>3, <4>1
      <4>3. QED BY <2>3, <3>1, <4>1, <4>2 DEF MaskOf, Below
    <3>2. CASE ~(k <= Len(hiStack) - 1)
      BY <2>2, <2>3, <3>2 DEF MaskOf
    <3>3. QED BY <3>1, <3>2
  <2>7. HiTypeInv'
    BY <1>1, <2>1, <2>5 DEF HiInv, HiTypeInv, hiTables, Frames
  <2>8. HiNoNull'
    BY <1>1 DEF HiInv, HiNoNull, hiTables
  <2>9. \A k \in 1 .. Len(hiStack') : k + 1 \in 2 .. Len(hiStack) /\ hiStack'[k] = hiStack[k + 1]
    BY <2>2, <2>3
  <2>10. \A k \in 1 .. Len(hiStack') : hiStack'[k].open
    BY <2>9 DEF HiInv, ClosedOnTop
  <2>11. ClosedOnTop'
    <3>1. \A k \in 2 .. Len(hiStack') : hiStack'[k].open
      BY <2>2, <2>3, <2>10
    <3>2. hiStack' = <<>> \/ hiStack'[1].open
      BY <2>2, <2>3, <2>4, <2>10
    <3>3. QED BY <3>1, <3>2 DEF ClosedOnTop
  <2>12. alt_priority_mask = MaskOf(2) /\ Innermost' = 1
    BY <1>1, <2>2, <2>3, <2>4, <2>10 DEF HiInv, MaskChain, Innermost
  <2>13. MaskChain'
    <3>1. MaskOf(1)' = MaskOf(2)
      BY <2>6
    <3>2. MaskOf(Innermost)' = MaskOf(1)'
      BY <2>12 DEF MaskOf
    <3>3. ASSUME NEW k \in 1 .. Len(hiStack'), hiStack'[k].open
          PROVE  hiStack'[k].old = MaskOf(k + 1)'
      <4>1. /\ k + 1 \in 1 .. Len(hiStack) /\ k + 1 \in Nat \ {0}
            /\ hiStack'[k] = hiStack[k + 1]
        BY <2>2, <2>3, <2>9
      <4>2. hiStack[k + 1].old = MaskOf((k + 1) + 1)
        BY <3>3, <4>1 DEF HiInv, MaskChain
      <4>3. MaskOf(k + 1)' = MaskOf((k + 1) + 1)
        BY <2>6, <4>1
      <4>4. QED BY <4>1, <4>2, <4>3
    <3>4. QED BY <1>1, <2>12, <3>1, <3>2, <3>3 DEF MaskChain
  <2>14. hiStack' = <<>> => alt_priority_mask = Irqs
    <3>1. hiStack' = <<>> => ~(2 <= Len(hiStack))
      BY <2>4
    <3>2. QED BY <2>12, <3>1 DEF MaskOf
  <2>15. EnabledMask'
    <3>1. alt_irq_active \subseteq Irqs
      BY DEF HiInv, HiTypeInv
    <3>2. hiStack' = <<>> => hiEnable = alt_irq_active
      BY <2>14, <3>1 DEF HiInv, EnabledMask
    <3>3. QED BY <1>1, <2>1, <3>2 DEF HiInv, EnabledMask, hiTables
  <2>16. Untouched'
    <3>1. CASE Len(hiStack) = 1
      <4>1. hiEnable \subseteq alt_priority_mask
        BY <2>4, <2>14, <3>1 DEF HiInv, HiTypeInv
      <4>2. Len(hiStack') = 0
        BY <2>3, <3>1
      <4>3. QED BY <1>1, <4>1, <4>2 DEF Untouched
    <3>2. CASE Len(hiStack) # 1
      <4>1. hiTouched' = hiTouched
        BY <2>1, <2>2, <3>2 DEF HiInv, HiTypeInv
      <4>2. ASSUME ~hiTouched, NEW j \in 1 .. Len(hiStack'), NEW k \in 1 .. Len(hiStack'), j < k
            PROVE  hiStack'[j].id < hiStack'[k].id
        <5>1. /\ j + 1 \in 1 .. Len(hiStack) /\ k + 1 \in 1 .. Len(hiStack)
              /\ j + 1 < k + 1
              /\ hiStack'[j] = hiStack[j + 1] /\ hiStack'[k] = hiStack[k + 1]
          BY <2>2, <2>3, <2>9, <4>2
        <5>2. QED BY <4>2, <5>1 DEF HiInv, Untouched
      <4>3. QED BY <1>1, <4>1, <4>2 DEF HiInv, Untouched
    <3>3. QED BY <3>1, <3>2
  <2>17. QED BY <2>3, <2>7, <2>8, <2>11, <2>13, <2>15, <2>16 DEF HiInv, Stacked
<1>4. QED BY <1>2, <1>3

LEMMA StepHiInv == HiInv /\ [HiNextStep]_hiVars => HiInv'
<1> SUFFICES ASSUME HiInv, [HiNextStep]_hiVars PROVE HiInv'
  OBVIOUS
<1>1. CASE HiBoot \/ HiOpen
  BY <1>1, BootHiInv, OpenHiInv
<1>2. CASE HiServe
  BY <1>2, EnterHiInv, QuietHiInv, CloseHiInv, ReturnHiInv DEF HiServe
<1>3. CASE \E i \in Irqs : \/ HiRaise(i) \/ HiEnable(i) \/ HiDisable(i)
                          \/ \E isr \in BOOLEAN : HiRegister(i, isr)
  BY <1>3, RaiseHiInv, EnableHiInv, RegisterHiInv
<1>4. CASE UNCHANGED hiVars
  <2>1. UNCHANGED <<hiPie, hiEnable, alt_irq_active, alt_priority_mask, hiHandler, hiLines,
                    hiStack, hiTouched>>
    BY <1>4 DEF hiVars, hiCpu, hiTables
  <2>2. HiTypeInv' /\ HiNoNull'
    BY <2>1 DEF HiInv, HiTypeInv, HiNoNull
  <2>3. Stacked' /\ ClosedOnTop' /\ MaskChain' /\ EnabledMask' /\ Untouched'
    BY <2>1 DEF HiInv, Stacked, ClosedOnTop, MaskChain, MaskOf, Innermost, EnabledMask,
                Untouched
  <2>4. QED BY <2>2, <2>3 DEF HiInv
<1>5. QED BY <1>1, <1>2, <1>3, <1>4 DEF HiNextStep

\* The first open frame is the top one or the one below it, and it is its mask
\* that is in place.
LEMMA MaskIsRestored == HiInv => HiMaskRestored
<1> SUFFICES ASSUME HiInv PROVE HiMaskRestored
  OBVIOUS
<1> DEFINE first == CHOOSE k \in OpenFrames : \A j \in OpenFrames : k <= j
<1>1. /\ DOMAIN hiStack = 1 .. Len(hiStack) /\ Len(hiStack) \in Nat
      /\ (hiStack = <<>> <=> Len(hiStack) = 0)
  BY DomainFacts DEF HiInv
<1>2. OpenFrames = Innermost .. Len(hiStack)
  BY <1>1 DEF HiInv, ClosedOnTop, OpenFrames, Innermost
<1>3. Innermost \in {1, 2}
  BY DEF Innermost
<1>4. CASE OpenFrames = {}
  BY <1>1, <1>2, <1>3, <1>4 DEF HiInv, EnabledMask, HiMaskRestored, MaskChain, MaskOf
<1>5. CASE OpenFrames # {}
  <2>1. Innermost \in OpenFrames /\ \A j \in OpenFrames : Innermost <= j
    BY <1>1, <1>2, <1>3, <1>5
  <2>2. first \in OpenFrames /\ \A j \in OpenFrames : first <= j
    BY <2>1
  <2>3. first = Innermost
    BY <1>1, <1>2, <1>3, <2>1, <2>2
  <2>4. alt_priority_mask = Below(hiStack[first].id)
    BY <1>1, <1>2, <1>3, <2>1, <2>3 DEF HiInv, MaskChain, MaskOf
  <2> HIDE DEF first
  <2>5. QED BY <1>5, <2>4 DEF HiInv, EnabledMask, HiMaskRestored, first
<1>6. QED BY <1>4, <1>5

LEMMA HiInvSafe == HiInv => HiSafe
<1> SUFFICES ASSUME HiInv PROVE HiSafe
  OBVIOUS
<1>1. HiPriority
  <2>1. DOMAIN hiStack = 1 .. Len(hiStack)
    BY DomainFacts DEF HiInv
  <2>2. ~hiTouched => \A j, k \in 1 .. Len(hiStack) : j < k => hiStack[j].id < hiStack[k].id
    BY DEF HiInv, Untouched
  <2>3. QED BY <2>1, <2>2 DEF HiPriority
<1>2. QED BY <1>1, MaskIsRestored DEF HiInv, HiSafe

\* No null handler is called, the mask is put back in any nesting, and only a
\* higher priority interrupts a handler while no registration interferes
\* (alt_irq_handler.c, alt_iic_isr_register.c, alt_legacy_irq.h).
THEOREM DispatchIsSafe == HiSpec => []HiSafe
<1>1. HiSpec => []HiInv
  BY InitHiInv, StepHiInv, PTL DEF HiSpec
<1>2. QED BY <1>1, HiInvSafe, PTL

-----------------------------------------------------------------------------
\* The UART driver: a ring holds, from its tail on, exactly the characters
\* between those handed on and those taken in, and so does each FIFO after it.
Slot(x) == IF x < BUF_LEN THEN x ELSE x - BUF_LEN
RxUsed == Used(rx_in, rx_out)
RxBase == IF jtPc = "release" THEN jtTaken - jtN ELSE jtTaken
Fill == {"copy", "publish"}
Drain == {"take", "release"}
SmallPcs == {"small write", "small read"}

\* The small driver has no rings, and a call in progress fits what it found.
JtModes == /\ jtSmall => jtPc \in SmallPcs \cup {"idle"} /\ irq_enable = {}
           /\ jtSmall => rx_in = rx_out /\ tx_in = tx_out
           /\ jtPc \in SmallPcs => jtSmall
JtCalls == /\ jtPc \in {"write look", "write wait", "read look", "read wait"} \cup SmallPcs => jtLeft >= 1
           /\ jtPc \in Fill => /\ jtIn = tx_in /\ jtN \in 1 .. jtLeft
                               /\ jtIn + jtN <= BUF_LEN /\ jtN + TxWaiting < BUF_LEN
           /\ jtPc \in Drain => /\ jtOut = rx_out /\ jtN \in 1 .. jtLeft
                                /\ jtOut + jtN <= BUF_LEN /\ jtN <= RxUsed
\* Towards the host: FIFO, ring, and what a writer has copied but not published.
JtTxFifoHolds == \A k \in 1 .. Len(jtTxFifo) : jtTxFifo[k] = jtGot + k
JtTxCount == jtSent = jtGot + Len(jtTxFifo) + TxWaiting
JtTxHolds == \A k \in 0 .. TxWaiting - 1 :
               tx_buf[Slot(tx_out + k)] = jtGot + Len(jtTxFifo) + 1 + k
JtTxCopied == jtPc = "publish" => \A k \in 0 .. jtN - 1 : tx_buf[jtIn + k] = jtSent + 1 + k
\* From the host: a reader that has copied but not released still owns its slots.
JtRxFifoHolds == \A k \in 1 .. Len(jtRxFifo) : jtRxFifo[k] = RxBase + RxUsed + k
JtRxCount == jtPut = RxBase + RxUsed + Len(jtRxFifo)
JtRxHolds == \A k \in 0 .. RxUsed - 1 : rx_buf[Slot(rx_out + k)] = RxBase + 1 + k
JtInv == /\ JtTypeInv /\ JtModes /\ JtCalls /\ JtTxFifoHolds /\ JtTxCount /\ JtTxHolds /\ JtTxCopied
         /\ JtRxFifoHolds /\ JtRxCount /\ JtRxHolds /\ JtInterruptsOn

LEMMA ModFacts ==
  ASSUME NEW x \in 0 .. 2 * BUF_LEN - 1
  PROVE  x % BUF_LEN = Slot(x) /\ Slot(x) \in Slots
<1>1. BUF_LEN \in Nat /\ BUF_LEN > 1 BY JtAssumption
<1>2. CASE x < BUF_LEN BY <1>1, <1>2 DEF Slot, Slots
<1>3. CASE x >= BUF_LEN BY <1>1, <1>3 DEF Slot, Slots
<1>4. QED BY <1>1, <1>2, <1>3

LEMMA UsedFacts ==
  ASSUME NEW in \in Slots, NEW out \in Slots
  PROVE  /\ Used(in, out) = IF in >= out THEN in - out ELSE in + BUF_LEN - out
         /\ Used(in, out) \in Slots
<1>1. BUF_LEN \in Nat /\ BUF_LEN > 1 BY JtAssumption
<1>2. in + BUF_LEN - out \in 0 .. 2 * BUF_LEN - 1 BY <1>1 DEF Slots
<1>3. (in + BUF_LEN - out) % BUF_LEN = Slot(in + BUF_LEN - out) BY ModFacts, <1>2
<1>4. Used(in, out) = Slot(in + BUF_LEN - out) BY <1>3 DEF Used
<1>5. QED BY <1>1, <1>4 DEF Slot, Slots

LEMMA BufFacts == BUF_LEN \in Nat /\ BUF_LEN > 1 /\ JtFifo \in Nat /\ JtFifo > 0
BY JtAssumption

LEMMA JtUsed ==
  JtTypeInv => /\ TxWaiting = (IF tx_in >= tx_out THEN tx_in - tx_out ELSE tx_in + BUF_LEN - tx_out)
               /\ RxUsed = (IF rx_in >= rx_out THEN rx_in - rx_out ELSE rx_in + BUF_LEN - rx_out)
               /\ RxRoom = BUF_LEN - 1 - RxUsed
               /\ TxWaiting \in Slots /\ RxUsed \in Slots /\ RxRoom \in Slots
<1> SUFFICES ASSUME JtTypeInv PROVE JtUsed!2
  OBVIOUS
<1>1. /\ Used(tx_in, tx_out) \in Slots
      /\ Used(tx_in, tx_out) = IF tx_in >= tx_out THEN tx_in - tx_out ELSE tx_in + BUF_LEN - tx_out
  BY UsedFacts DEF JtTypeInv
<1>2. /\ Used(rx_in, rx_out) \in Slots
      /\ Used(rx_in, rx_out) = IF rx_in >= rx_out THEN rx_in - rx_out ELSE rx_in + BUF_LEN - rx_out
  BY UsedFacts DEF JtTypeInv
<1>3. RxRoom = BUF_LEN - 1 - RxUsed BY DEF RxRoom, RxUsed
<1>4. RxRoom \in Slots BY <1>2, <1>3, BufFacts DEF Slots, RxUsed
<1>5. QED BY <1>1, <1>2, <1>3, <1>4 DEF TxWaiting, RxUsed

TxPart == JtTxFifoHolds /\ JtTxCount /\ JtTxHolds /\ JtTxCopied
RxPart == JtRxFifoHolds /\ JtRxCount /\ JtRxHolds
TxQuiet == /\ UNCHANGED <<tx_in, tx_out, tx_buf, jtTxFifo, jtSent, jtGot>>
           /\ jtPc' = "publish" => jtPc = "publish" /\ UNCHANGED <<jtIn, jtN>>
RxQuiet == /\ UNCHANGED <<rx_in, rx_out, rx_buf, jtRxFifo, jtPut, jtTaken>>
           /\ jtPc' = "release" <=> jtPc = "release"
           /\ jtPc = "release" => UNCHANGED jtN

LEMMA TxKept == ASSUME TxPart, TxQuiet PROVE TxPart'
<1>1. TxWaiting' = TxWaiting BY DEF TxQuiet, TxWaiting, Used
<1>2. JtTxFifoHolds' /\ JtTxCount' BY <1>1 DEF TxPart, TxQuiet, JtTxFifoHolds, JtTxCount
<1>3. JtTxHolds' BY <1>1 DEF TxPart, TxQuiet, JtTxHolds, Slot
<1>4. JtTxCopied' BY <1>1 DEF TxPart, TxQuiet, JtTxCopied
<1>5. QED BY <1>2, <1>3, <1>4 DEF TxPart

LEMMA RxKept == ASSUME RxPart, RxQuiet PROVE RxPart'
<1>1. RxUsed' = RxUsed BY DEF RxQuiet, RxUsed, Used
<1>2. RxBase' = RxBase BY DEF RxQuiet, RxBase
<1>3. QED BY <1>1, <1>2 DEF RxPart, RxQuiet, JtRxFifoHolds, JtRxCount, JtRxHolds, Slot

\* The interrupt routine moves the front of the receive FIFO into the ring.
LEMMA JtReceives ==
  ASSUME JtTypeInv, RxPart, JtReceive, UNCHANGED <<rx_out, jtPut, jtTaken, jtPc, jtN>>
  PROVE  /\ RxPart' /\ RxUsed' >= RxUsed
         /\ rx_in' \in Slots /\ rx_buf' \in [Slots -> Nat] /\ jtRxFifo' \in Seq(Nat)
         /\ RI /\ Len(jtRxFifo) > RxRoom => rx_in' # rx_out'
         /\ rx_in = rx_out \/ rx_in' # rx_out'
<1> DEFINE m == IF RI THEN AtMost(Len(jtRxFifo), RxRoom) ELSE 0
<1>1. /\ m \in Nat /\ m <= RxRoom /\ m <= Len(jtRxFifo) /\ Len(jtRxFifo) \in Nat
      /\ RI /\ Len(jtRxFifo) > RxRoom => m = RxRoom
  <2>1. Len(jtRxFifo) \in Nat BY LenProperties DEF JtTypeInv
  <2>2. RxRoom \in Nat BY JtUsed, BufFacts DEF Slots
  <2>3. QED BY <2>1, <2>2 DEF AtMost
<1> HIDE DEF m
<1>2. /\ rx_in' = (rx_in + m) % BUF_LEN
      /\ rx_buf' = [k \in Slots |-> IF Used(k, rx_in) < m THEN jtRxFifo[Used(k, rx_in) + 1]
                                   ELSE rx_buf[k]]
      /\ jtRxFifo' = SubSeq(jtRxFifo, m + 1, Len(jtRxFifo))
  BY DEF JtReceive, m
<1>3. /\ rx_in \in Slots /\ rx_out \in Slots /\ BUF_LEN \in Nat /\ BUF_LEN > 1
      /\ RxUsed \in Slots
      /\ RxUsed = (IF rx_in >= rx_out THEN rx_in - rx_out ELSE rx_in + BUF_LEN - rx_out)
      /\ RxRoom = BUF_LEN - 1 - RxUsed
  BY JtUsed, BufFacts DEF JtTypeInv
<1>4. rx_in' = Slot(rx_in + m) /\ rx_in' \in Slots
  <2>1. rx_in + m \in 0 .. 2 * BUF_LEN - 1 BY <1>1, <1>3 DEF Slots
  <2>2. QED BY <2>1, <1>2, ModFacts
<1>5. RxUsed' = RxUsed + m
  <2>1. RxUsed' = (IF rx_in' >= rx_out THEN rx_in' - rx_out ELSE rx_in' + BUF_LEN - rx_out)
    BY UsedFacts, <1>3, <1>4 DEF RxUsed
  <2>2. QED BY <2>1, <1>1, <1>3, <1>4 DEF Slot, Slots
<1>6. /\ jtRxFifo' \in Seq(Nat) /\ Len(jtRxFifo') = Len(jtRxFifo) - m
      /\ \A k \in 1 .. Len(jtRxFifo) - m : jtRxFifo'[k] = jtRxFifo[m + k]
  <2>1. jtRxFifo \in Seq(Nat) BY DEF JtTypeInv
  <2>2. QED BY <1>1, <1>2, <2>1, SubSeqProperties, SMTT(30), ZenonT(40)
<1>7. RxBase' = RxBase /\ RxBase \in Int
  <2>1. jtTaken \in Int /\ jtN \in Int
    <3>1. jtTaken \in Nat /\ jtN \in 0 .. BUF_LEN BY DEF JtTypeInv
    <3>2. QED BY <3>1, BufFacts
  <2>2. QED BY <2>1 DEF RxBase
<1>8. JtRxFifoHolds'
  BY <1>1, <1>3, <1>5, <1>6, <1>7 DEF RxPart, JtRxFifoHolds, Slots
<1>9. JtRxCount'
  <2>1. jtPut = RxBase + RxUsed + Len(jtRxFifo) BY DEF RxPart, JtRxCount
  <2>2. jtPut' = RxBase + (RxUsed + m) + (Len(jtRxFifo) - m)
    BY <2>1, <1>1, <1>3, <1>7 DEF Slots
  <2>3. QED BY <2>2, <1>5, <1>6, <1>7 DEF JtRxCount
<1>10. ASSUME NEW j \in 0 .. RxUsed + m - 1
       PROVE  rx_buf'[Slot(rx_out + j)] = RxBase + 1 + j
  <2> DEFINE s == Slot(rx_out + j)
  <2>1. /\ s \in Slots
        /\ Used(s, rx_in) = IF s >= rx_in THEN s - rx_in ELSE s + BUF_LEN - rx_in
    <3>1. rx_out + j \in 0 .. 2 * BUF_LEN - 1 BY <1>1, <1>3 DEF Slots
    <3>2. s \in Slots BY <3>1, ModFacts
    <3>3. QED BY <3>2, <1>3, UsedFacts
  <2>2. rx_buf'[s] = IF Used(s, rx_in) < m THEN jtRxFifo[Used(s, rx_in) + 1] ELSE rx_buf[s]
    BY <1>2, <2>1
  <2>3. CASE j < RxUsed
    <3>1. Used(s, rx_in) = j + BUF_LEN - RxUsed
      BY <1>1, <1>3, <2>1, <2>3 DEF Slot, Slots
    <3> HIDE DEF s
    <3>a. Used(s, rx_in) >= BUF_LEN - RxUsed BY <1>3, <3>1 DEF Slots
    <3>b. m < BUF_LEN - RxUsed BY <1>1, <1>3 DEF Slots
    <3>c. ~(Used(s, rx_in) < m) BY <1>1, <1>3, <2>1, <3>a, <3>b DEF Slots
    <3>2. rx_buf'[s] = rx_buf[s] BY <3>c, <2>2
    <3>3. j \in 0 .. RxUsed - 1 BY <2>3, <1>3, <1>1 DEF Slots
    <3>4. QED BY <3>2, <3>3 DEF RxPart, JtRxHolds, s
  <2>4. CASE j >= RxUsed
    <3>1. Used(s, rx_in) = j - RxUsed BY <1>1, <1>3, <2>1, <2>4 DEF Slot, Slots
    <3> DEFINE n == j - RxUsed
    <3>2. n \in Nat /\ n < m /\ n + 1 \in 1 .. Len(jtRxFifo) /\ j = RxUsed + n
      BY <2>4, <1>1, <1>3 DEF Slots
    <3>3. rx_buf'[s] = jtRxFifo[n + 1] BY <3>1, <3>2, <2>2
    <3>4. jtRxFifo[n + 1] = RxBase + RxUsed + (n + 1) BY <3>2 DEF RxPart, JtRxFifoHolds
    <3> HIDE DEF n, s
    <3>5. QED BY <3>2, <3>3, <3>4, <1>7, <1>3 DEF Slots, s
  <2>5. QED BY <2>3, <2>4, <1>1, <1>3 DEF Slots
<1>11. JtRxHolds'
  <2>1. \A j \in 0 .. RxUsed' - 1 : rx_buf'[Slot(rx_out + j)] = RxBase' + 1 + j
    <3> SUFFICES ASSUME NEW j \in 0 .. RxUsed' - 1
                 PROVE  rx_buf'[Slot(rx_out + j)] = RxBase' + 1 + j
      OBVIOUS
    <3>1. j \in 0 .. RxUsed + m - 1 BY <1>1, <1>3, <1>5 DEF Slots
    <3>2. rx_buf'[Slot(rx_out + j)] = RxBase + 1 + j BY <3>1, <1>10
    <3>3. QED BY <3>2, <1>7
  <2>2. rx_out' = rx_out OBVIOUS
  <2>3. QED BY <2>1, <2>2 DEF JtRxHolds, Slot
<1>12. rx_buf' \in [Slots -> Nat]
  <2> SUFFICES ASSUME NEW k \in Slots PROVE rx_buf'[k] \in Nat
    BY <1>2
  <2>1. rx_buf[k] \in Nat BY DEF JtTypeInv
  <2>2. ASSUME Used(k, rx_in) < m PROVE jtRxFifo[Used(k, rx_in) + 1] \in Nat
    <3>1. Used(k, rx_in) \in Slots BY UsedFacts, <1>3
    <3>2. Used(k, rx_in) + 1 \in 1 .. Len(jtRxFifo) BY <3>1, <2>2, <1>1 DEF Slots
    <3>3. QED BY <3>2, ElementOfSeq DEF JtTypeInv
  <2>3. QED BY <1>2, <2>1, <2>2
<1>13. /\ RI /\ Len(jtRxFifo) > RxRoom => rx_in' # rx_out'
       /\ rx_in = rx_out \/ rx_in' # rx_out'
  <2>1. RxUsed' = 0 <=> rx_in' = rx_out'
    <3>1. RxUsed' = (IF rx_in' >= rx_out THEN rx_in' - rx_out ELSE rx_in' + BUF_LEN - rx_out)
      BY UsedFacts, <1>3, <1>4 DEF RxUsed
    <3>2. QED BY <3>1, <1>3, <1>4 DEF Slots
  <2>2. RI /\ Len(jtRxFifo) > RxRoom => RxUsed' = BUF_LEN - 1
    BY <1>1, <1>3, <1>5 DEF Slots
  <2>3. RxUsed # 0 => RxUsed' # 0
    BY <1>1, <1>3, <1>5 DEF Slots
  <2>4. rx_in # rx_out => RxUsed # 0
    BY <1>3 DEF Slots
  <2>5. QED BY <2>1, <2>2, <2>3, <2>4, <1>3
<1>14. RxUsed' >= RxUsed BY <1>1, <1>3, <1>5 DEF Slots
<1>15. QED BY <1>4, <1>6, <1>8, <1>9, <1>11, <1>12, <1>13, <1>14 DEF RxPart

LEMMA JtSends ==
  ASSUME JtTypeInv, TxPart, JtSend, UNCHANGED <<tx_in, tx_buf, jtSent, jtGot, jtPc, jtN, jtIn>>
  PROVE  /\ TxPart' /\ TxWaiting' \in 0 .. TxWaiting
         /\ tx_out' \in Slots /\ jtTxFifo' \in Seq(Nat)
         /\ WI /\ Drained(JtFifo - Len(jtTxFifo)) => tx_in' = tx_out'
         /\ tx_in' # tx_out' => tx_in # tx_out
<1> DEFINE space == JtFifo - Len(jtTxFifo)
           m == IF WI THEN AtMost(TxWaiting, space) ELSE 0
           sent == [k \in 1 .. m |-> tx_buf[(tx_out + k - 1) % BUF_LEN]]
<1>1. /\ m \in Nat /\ m <= TxWaiting /\ Len(jtTxFifo) \in Nat
      /\ WI /\ Drained(space) => m = TxWaiting
  <2>1. Len(jtTxFifo) \in Nat BY LenProperties DEF JtTypeInv
  <2>2. TxWaiting \in Nat BY JtUsed, BufFacts DEF Slots
  <2>3. space \in Int /\ (WI => space > 0) BY <2>1, BufFacts DEF WI
  <2>4. QED BY <2>1, <2>2, <2>3 DEF AtMost, Drained
<1>2. tx_out' = (tx_out + m) % BUF_LEN /\ jtTxFifo' = jtTxFifo \o sent
  BY DEF JtSend
<1> HIDE DEF m, space
<1>3. /\ tx_in \in Slots /\ tx_out \in Slots /\ BUF_LEN \in Nat /\ BUF_LEN > 1
      /\ TxWaiting \in Slots
      /\ TxWaiting = (IF tx_in >= tx_out THEN tx_in - tx_out ELSE tx_in + BUF_LEN - tx_out)
  BY JtUsed, BufFacts DEF JtTypeInv
<1>4. tx_out' = Slot(tx_out + m) /\ tx_out' \in Slots
  <2>1. tx_out + m \in 0 .. 2 * BUF_LEN - 1 BY <1>1, <1>3 DEF Slots
  <2>2. QED BY <2>1, <1>2, ModFacts
<1>5. TxWaiting' = TxWaiting - m
  <2>1. TxWaiting' = (IF tx_in >= tx_out' THEN tx_in - tx_out' ELSE tx_in + BUF_LEN - tx_out')
    BY UsedFacts, <1>3, <1>4 DEF TxWaiting
  <2>2. QED BY <2>1, <1>1, <1>3, <1>4 DEF Slot, Slots
<1>6. ASSUME NEW k \in 1 .. m
      PROVE  /\ sent[k] = jtGot + Len(jtTxFifo) + k /\ sent[k] \in Nat
  <2>1. tx_out + k - 1 \in 0 .. 2 * BUF_LEN - 1 BY <1>1, <1>3 DEF Slots
  <2>2. sent[k] = tx_buf[Slot(tx_out + k - 1)] BY <2>1, ModFacts
  <2> DEFINE n == k - 1
  <2>3. n \in 0 .. TxWaiting - 1 /\ tx_out + k - 1 = tx_out + n /\ k = 1 + n
    BY <1>1, <1>3 DEF Slots
  <2>4. tx_buf[Slot(tx_out + n)] = jtGot + Len(jtTxFifo) + 1 + n
    BY <2>3 DEF TxPart, JtTxHolds
  <2>5. jtGot \in Nat BY DEF JtTypeInv
  <2> HIDE DEF n, sent
  <2>6. QED BY <2>2, <2>3, <2>4, <2>5, <1>1
<1>7. sent \in Seq(Nat) /\ Len(sent) = m
  <2>1. sent \in [1 .. m -> Nat] BY <1>6
  <2> HIDE DEF sent
  <2>2. sent \in Seq(Nat) BY <1>1, <2>1, SeqDef
  <2>3. DOMAIN sent = 1 .. m /\ DOMAIN sent = 1 .. Len(sent) /\ Len(sent) \in Nat
    BY <2>1, <2>2, LenProperties
  <2>4. QED BY <2>2, <2>3, <1>1
<1> HIDE DEF sent
<1>8. /\ jtTxFifo' \in Seq(Nat) /\ Len(jtTxFifo') = Len(jtTxFifo) + m
      /\ \A k \in 1 .. Len(jtTxFifo) + m :
           jtTxFifo'[k] = IF k <= Len(jtTxFifo) THEN jtTxFifo[k] ELSE sent[k - Len(jtTxFifo)]
  <2>1. jtTxFifo \in Seq(Nat) BY DEF JtTypeInv
  <2>2. QED BY <2>1, <1>1, <1>2, <1>7, ConcatProperties
<1>9. /\ jtGot' = jtGot /\ jtGot \in Nat /\ jtSent' = jtSent
      /\ tx_buf' = tx_buf /\ tx_in' = tx_in
  BY DEF JtTypeInv
<1>10. JtTxFifoHolds'
  <2> SUFFICES ASSUME NEW k \in 1 .. Len(jtTxFifo) + m PROVE jtTxFifo'[k] = jtGot + k
    BY <1>8, <1>9 DEF JtTxFifoHolds
  <2>1. CASE k <= Len(jtTxFifo)
    <3>1. k \in 1 .. Len(jtTxFifo) /\ jtTxFifo'[k] = jtTxFifo[k] BY <2>1, <1>1, <1>8
    <3>2. QED BY <3>1 DEF TxPart, JtTxFifoHolds
  <2>2. CASE k > Len(jtTxFifo)
    <3>1. PICK l : l = Len(jtTxFifo) /\ l \in Nat
      BY <1>1
    <3>2. k - l \in 1 .. m
      <4>1. k \in 1 .. l + m /\ k > l /\ m \in Nat
        BY <1>1, <2>2, <3>1
      <4>2. QED BY ONLY <3>1, <4>1
    <3>3. jtTxFifo'[k] = IF k <= l THEN jtTxFifo[k] ELSE sent[k - l]
      BY <1>8, <3>1, Zenon
    <3>4. ~(k <= l)
      BY ONLY <3>1, <3>2
    <3>5. jtTxFifo'[k] = sent[k - l]
      BY ONLY <3>3, <3>4, Zenon
    <3>6. sent[k - l] = jtGot + l + (k - l)
      BY <1>6, <3>1, <3>2, Zenon
    <3>7. jtGot + l + (k - l) = jtGot + k
      BY ONLY <1>9, <3>1, k \in 1 .. Len(jtTxFifo) + m, <1>1
    <3>8. QED BY ONLY <3>5, <3>6, <3>7, Zenon
  <2>3. QED BY <2>1, <2>2, <1>1
<1>11. JtTxCount'
  <2>1. jtSent = jtGot + Len(jtTxFifo) + TxWaiting BY DEF TxPart, JtTxCount
  <2>2. jtSent' = jtGot + (Len(jtTxFifo) + m) + (TxWaiting - m)
    BY <2>1, <1>1, <1>3, <1>9 DEF Slots
  <2>3. QED BY <2>2, <1>5, <1>8, <1>9 DEF JtTxCount
<1>12. ASSUME NEW k \in 0 .. TxWaiting - m - 1
       PROVE  tx_buf[Slot(tx_out' + k)] = jtGot + Len(jtTxFifo) + m + 1 + k
  <2> DEFINE n == m + k
  <2>1. n \in 0 .. TxWaiting - 1 /\ Slot(tx_out' + k) = Slot(tx_out + n)
    BY <1>1, <1>3, <1>4 DEF Slot, Slots
  <2>2. tx_buf[Slot(tx_out + n)] = jtGot + Len(jtTxFifo) + 1 + n
    BY <2>1 DEF TxPart, JtTxHolds
  <2>3. QED BY <2>1, <2>2, <1>1, <1>9
<1>13. JtTxHolds'
  <2> SUFFICES ASSUME NEW k \in 0 .. TxWaiting' - 1
               PROVE  tx_buf'[Slot(tx_out' + k)] = jtGot' + Len(jtTxFifo') + 1 + k
    BY DEF JtTxHolds, Slot
  <2>1. k \in 0 .. TxWaiting - m - 1 BY <1>1, <1>3, <1>5 DEF Slots
  <2>2. tx_buf[Slot(tx_out' + k)] = jtGot + Len(jtTxFifo) + m + 1 + k BY <2>1, <1>12
  <2>3. QED BY <2>2, <1>8, <1>9, <1>1
<1>14. JtTxCopied'
  BY DEF TxPart, JtTxCopied
<1>15. TxWaiting' \in 0 .. TxWaiting
  BY <1>1, <1>3, <1>5 DEF Slots
<1>16. TxWaiting' = 0 <=> tx_in' = tx_out'
  <2>1. TxWaiting' = (IF tx_in >= tx_out' THEN tx_in - tx_out' ELSE tx_in + BUF_LEN - tx_out')
    BY UsedFacts, <1>3, <1>4 DEF TxWaiting
  <2>2. QED BY <2>1, <1>3, <1>4, <1>9 DEF Slots
<1>17. /\ WI /\ Drained(space) => tx_in' = tx_out'
       /\ tx_in' # tx_out' => tx_in # tx_out
  <2>1. TxWaiting = 0 <=> tx_in = tx_out BY <1>3 DEF Slots
  <2>2. QED BY <2>1, <1>1, <1>3, <1>5, <1>15, <1>16 DEF Slots
<1>18. QED BY <1>4, <1>8, <1>10, <1>11, <1>13, <1>14, <1>15, <1>17 DEF TxPart, space

CallTypes ==
  /\ jtPc \in {"idle", "write look", "copy", "publish", "kick", "write wait", "read look", "take",
               "release", "enable", "read wait", "close", "small write", "small read"}
  /\ jtLeft \in Nat /\ jtNonblock \in BOOLEAN /\ jtMoved \in BOOLEAN
  /\ jtIn \in Slots /\ jtOut \in Slots /\ jtN \in 0..BUF_LEN
DriverTypes == /\ jtSmall \in BOOLEAN /\ irq_enable \subseteq {"RE", "WE"}
               /\ jtTimeout \in Nat /\ host_inactive \in 0..JtForever
RxTypes == rx_in \in Slots /\ rx_out \in Slots /\ rx_buf \in [Slots -> Nat]
TxTypes == tx_in \in Slots /\ tx_out \in Slots /\ tx_buf \in [Slots -> Nat]
DeviceTypes == /\ jtRxFifo \in Seq(Nat) /\ jtTxFifo \in Seq(Nat)
               /\ jtAc \in BOOLEAN /\ jtHost \in BOOLEAN
CountTypes == jtSent \in Nat /\ jtGot \in Nat /\ jtPut \in Nat /\ jtTaken \in Nat

LEMMA JtTypeParts ==
  JtTypeInv <=> /\ CallTypes /\ DriverTypes /\ RxTypes /\ TxTypes /\ DeviceTypes /\ CountTypes
BY DEF JtTypeInv, CallTypes, DriverTypes, RxTypes, TxTypes, DeviceTypes, CountTypes

LEMMA NextTypeParts ==
  JtTypeInv' <=> /\ CallTypes' /\ DriverTypes' /\ RxTypes' /\ TxTypes' /\ DeviceTypes' /\ CountTypes'
BY JtTypeParts, PTL

ControlPart == JtTypeInv /\ JtModes /\ JtCalls /\ JtInterruptsOn

RingsStay == UNCHANGED <<rx_in, rx_out, rx_buf, tx_in, tx_out, tx_buf, jtRxFifo, jtTxFifo,
                         jtSent, jtGot, jtPut, jtTaken>>

LEMMA RingsStayFacts ==
  ASSUME RingsStay, JtTypeInv
  PROVE  /\ TxWaiting' = TxWaiting /\ RxUsed' = RxUsed /\ RxTypes' /\ TxTypes' /\ CountTypes'
         /\ jtRxFifo' \in Seq(Nat) /\ jtTxFifo' \in Seq(Nat)
<1>1. TxWaiting' = TxWaiting /\ RxUsed' = RxUsed
  BY DEF RingsStay, TxWaiting, RxUsed, Used
<1>2. /\ RxTypes' /\ TxTypes' /\ CountTypes' /\ jtRxFifo' \in Seq(Nat)
      /\ jtTxFifo' \in Seq(Nat)
  BY JtTypeParts DEF RingsStay, RxTypes, TxTypes, CountTypes, DeviceTypes
<1>3. QED BY <1>1, <1>2

LEMMA SpaceFacts ==
  ASSUME JtTypeInv
  PROVE  /\ TxSpace(tx_in, tx_out) \in Nat
         /\ tx_in + TxSpace(tx_in, tx_out) <= BUF_LEN
         /\ TxSpace(tx_in, tx_out) + TxWaiting < BUF_LEN
         /\ RxReady(rx_in, rx_out) \in Nat
         /\ rx_out + RxReady(rx_in, rx_out) <= BUF_LEN
         /\ RxReady(rx_in, rx_out) <= RxUsed
         /\ RxReady(rx_in, rx_out) = 0 => rx_in = rx_out
<1>1. /\ rx_in \in Int /\ rx_in >= 0 /\ rx_in < BUF_LEN
      /\ rx_out \in Int /\ rx_out >= 0 /\ rx_out < BUF_LEN
  BY JtTypeParts, BufFacts DEF RxTypes, Slots
<1>2. /\ tx_in \in Int /\ tx_in >= 0 /\ tx_in < BUF_LEN
      /\ tx_out \in Int /\ tx_out >= 0 /\ tx_out < BUF_LEN
  BY JtTypeParts, BufFacts DEF TxTypes, Slots
<1>3. /\ TxSpace(tx_in, tx_out) \in Nat
      /\ tx_in + TxSpace(tx_in, tx_out) <= BUF_LEN
      /\ TxSpace(tx_in, tx_out) + TxWaiting < BUF_LEN
  BY <1>2, JtUsed, BufFacts DEF TxSpace
<1>4. /\ RxReady(rx_in, rx_out) \in Nat
      /\ rx_out + RxReady(rx_in, rx_out) <= BUF_LEN
      /\ RxReady(rx_in, rx_out) <= RxUsed
      /\ RxReady(rx_in, rx_out) = 0 => rx_in = rx_out
  BY <1>1, JtUsed, BufFacts DEF RxReady
<1>5. QED BY <1>3, <1>4

LEMMA CallNumbers ==
  CallTypes => /\ jtLeft \in Nat /\ jtIn \in Slots /\ jtOut \in Slots
               /\ jtN \in Nat /\ jtN <= BUF_LEN
<1>1. CallTypes => /\ jtLeft \in Nat /\ jtIn \in Slots /\ jtOut \in Slots
                   /\ jtN \in 0 .. BUF_LEN
  BY Zenon DEF CallTypes
<1>2. jtN \in 0 .. BUF_LEN => jtN \in Nat /\ jtN <= BUF_LEN
  BY BufFacts
<1>3. QED BY <1>1, <1>2

LEMMA RingNumbers ==
  ASSUME JtTypeInv
  PROVE  /\ rx_in \in Nat /\ rx_out \in Nat /\ tx_in \in Nat /\ tx_out \in Nat
         /\ rx_in < BUF_LEN /\ rx_out < BUF_LEN /\ tx_in < BUF_LEN /\ tx_out < BUF_LEN
         /\ RxUsed \in Nat /\ TxWaiting \in Nat
<1>1. /\ rx_in \in Slots /\ rx_out \in Slots /\ tx_in \in Slots /\ tx_out \in Slots
      /\ RxUsed \in Slots /\ TxWaiting \in Slots
  BY JtTypeParts, JtUsed DEF RxTypes, TxTypes
<1>2. QED BY <1>1, BufFacts DEF Slots

LEMMA AtMostFacts ==
  ASSUME NEW n \in Nat, NEW left \in Nat
  PROVE  /\ AtMost(n, left) \in Nat /\ AtMost(n, left) <= left /\ AtMost(n, left) <= n
         /\ left >= 1 /\ AtMost(n, left) = 0 => n = 0
BY DEF AtMost

LEMMA Returned ==
  ASSUME JtReturn
  PROVE  CallTypes' /\ JtCalls' /\ jtPc' = "idle"
<1>1. /\ jtPc' = "idle" /\ jtLeft' = 0 /\ jtNonblock' = FALSE /\ jtMoved' = FALSE
      /\ jtIn' = 0 /\ jtOut' = 0 /\ jtN' = 0
  BY DEF JtReturn
<1>2. jtLeft' \in Nat /\ jtIn' \in Slots /\ jtOut' \in Slots /\ jtN' \in 0 .. BUF_LEN
  BY <1>1, BufFacts DEF Slots
<1>3. CallTypes'
  BY <1>1, <1>2, Zenon DEF CallTypes
<1>4. JtCalls'
  BY <1>1 DEF JtCalls, Fill, Drain, SmallPcs
<1>5. QED BY <1>1, <1>3, <1>4

LEMMA Continued ==
  ASSUME CallTypes, NEW pc \in {"write look", "write wait", "read look", "read wait", "enable"},
         JtContinue(pc), jtLeft >= 1 \/ pc = "enable"
  PROVE  CallTypes' /\ JtCalls' /\ jtPc' = pc
<1>1. jtPc' = pc /\ UNCHANGED <<jtLeft, jtNonblock, jtMoved, jtIn, jtOut, jtN>>
  BY DEF JtContinue
<1>2. CallTypes'
  BY <1>1, Zenon DEF CallTypes
<1>3. JtCalls'
  BY <1>1 DEF JtCalls, Fill, Drain, SmallPcs
<1>4. QED BY <1>1, <1>2, <1>3

FastStays == /\ RingsStay /\ ~jtSmall /\ jtSmall' = jtSmall
             /\ UNCHANGED <<jtTimeout, host_inactive, jtAc, jtHost>>

LEMMA FastKeeps ==
  ASSUME JtTypeInv, FastStays, irq_enable' \subseteq {"RE", "WE"}, CallTypes', JtCalls',
         JtInterruptsOn', jtPc' \notin SmallPcs \cup {"publish", "release"},
         jtPc # "release"
  PROVE  ControlPart' /\ TxQuiet /\ RxQuiet
<1>1. DriverTypes' /\ DeviceTypes'
  BY RingsStayFacts, JtTypeParts DEF FastStays, DriverTypes, DeviceTypes
<1>2. JtTypeInv'
  BY <1>1, RingsStayFacts, NextTypeParts DEF FastStays
<1>3. JtModes' BY DEF FastStays, JtModes
<1>4. TxQuiet /\ RxQuiet BY DEF FastStays, RingsStay, TxQuiet, RxQuiet
<1>5. QED BY <1>2, <1>3, <1>4 DEF ControlPart

LEMMA JtWriteWaitKeeps ==
  ASSUME JtInv, JtWriteWait
  PROVE  ControlPart' /\ TxQuiet /\ RxQuiet
<1> USE DEF JtWriteWait, JtAt
<1>1. JtTypeInv /\ CallTypes /\ irq_enable \subseteq {"RE", "WE"} /\ jtPc # "release"
  BY JtTypeParts DEF JtInv, DriverTypes
<1>2. FastStays /\ irq_enable' \subseteq {"RE", "WE"}
  BY <1>1 DEF FastStays, RingsStay, jtRx, jtTx, jtDevice, jtCounts, jtWatch
<1>3. CASE JtReturn
  <2>1. CallTypes' /\ JtCalls' /\ jtPc' = "idle"
    BY <1>3, Returned
  <2>2. JtInterruptsOn'
    BY <1>1, <1>2, <2>1 DEF JtInv, JtInterruptsOn, FastStays, RingsStay
  <2>3. QED BY <1>1, <1>2, <2>1, <2>2, FastKeeps DEF SmallPcs
<1>4. CASE JtContinue("write look") /\ jtLeft >= 1
  <2>1. CallTypes' /\ JtCalls' /\ jtPc' = "write look"
    BY <1>1, <1>4, Continued
  <2>2. JtInterruptsOn'
    BY <1>1, <1>2, <2>1 DEF JtInv, JtInterruptsOn, FastStays, RingsStay
  <2>3. QED BY <1>1, <1>2, <2>1, <2>2, FastKeeps DEF SmallPcs
<1>5. jtLeft >= 1 \/ JtReturn
  BY <1>1 DEF JtInv, JtCalls, CallTypes, SmallPcs
<1>6. QED BY <1>3, <1>4, <1>5

LEMMA JtReadWaitKeeps ==
  ASSUME JtInv, JtReadWait
  PROVE  ControlPart' /\ TxQuiet /\ RxQuiet
<1> USE DEF JtReadWait, JtAt
<1>1. JtTypeInv /\ CallTypes /\ irq_enable \subseteq {"RE", "WE"} /\ jtPc # "release"
  BY JtTypeParts DEF JtInv, DriverTypes
<1>2. FastStays /\ irq_enable' \subseteq {"RE", "WE"}
  BY <1>1 DEF FastStays, RingsStay, jtRx, jtTx, jtDevice, jtCounts, jtWatch
<1>3. CASE JtReturn
  <2>1. CallTypes' /\ JtCalls' /\ jtPc' = "idle"
    BY <1>3, Returned
  <2>2. JtInterruptsOn'
    BY <1>1, <1>2, <2>1 DEF JtInv, JtInterruptsOn, FastStays, RingsStay
  <2>3. QED BY <1>1, <1>2, <2>1, <2>2, FastKeeps DEF SmallPcs
<1>4. CASE JtContinue("read look") /\ jtLeft >= 1
  <2>1. CallTypes' /\ JtCalls' /\ jtPc' = "read look"
    BY <1>1, <1>4, Continued
  <2>2. JtInterruptsOn'
    BY <1>1, <1>2, <2>1 DEF JtInv, JtInterruptsOn, FastStays, RingsStay
  <2>3. QED BY <1>1, <1>2, <2>1, <2>2, FastKeeps DEF SmallPcs
<1>5. jtLeft >= 1 \/ JtReturn
  BY <1>1 DEF JtInv, JtCalls, CallTypes, SmallPcs
<1>6. QED BY <1>3, <1>4, <1>5

LEMMA JtEnableKeeps ==
  ASSUME JtInv, JtEnable
  PROVE  ControlPart' /\ TxQuiet /\ RxQuiet
<1> USE DEF JtEnable, JtAt, Enabled
<1>1. JtTypeInv /\ CallTypes /\ irq_enable \subseteq {"RE", "WE"} /\ jtPc # "release"
  BY JtTypeParts DEF JtInv, DriverTypes
<1>2. FastStays /\ irq_enable' \subseteq {"RE", "WE"}
  BY <1>1 DEF FastStays, RingsStay, jtRx, jtTx, jtDevice, jtCounts, jtWatch
<1>3. CASE JtReturn
  <2>1. CallTypes' /\ JtCalls' /\ jtPc' = "idle"
    BY <1>3, Returned
  <2>2. JtInterruptsOn'
    BY <1>1, <1>2, <2>1 DEF JtInv, JtInterruptsOn, FastStays, RingsStay
  <2>3. QED BY <1>1, <1>2, <2>1, <2>2, FastKeeps DEF SmallPcs
<1>4. QED BY <1>3

LEMMA JtCloseWaitKeeps ==
  ASSUME JtInv, JtCloseWait
  PROVE  ControlPart' /\ TxQuiet /\ RxQuiet
<1> USE DEF JtCloseWait, JtAt
<1>1. JtTypeInv /\ CallTypes /\ irq_enable \subseteq {"RE", "WE"} /\ jtPc # "release"
  BY JtTypeParts DEF JtInv, DriverTypes
<1>2. FastStays /\ irq_enable' \subseteq {"RE", "WE"}
  BY <1>1 DEF FastStays, RingsStay, jtRx, jtTx, jtDevice, jtCounts, jtWatch
<1>3. CASE JtReturn
  <2>1. CallTypes' /\ JtCalls' /\ jtPc' = "idle"
    BY <1>3, Returned
  <2>2. JtInterruptsOn'
    BY <1>1, <1>2, <2>1 DEF JtInv, JtInterruptsOn, FastStays, RingsStay
  <2>3. QED BY <1>1, <1>2, <2>1, <2>2, FastKeeps DEF SmallPcs
<1>4. QED BY <1>3

LEMMA FitsFacts ==
  ASSUME NEW n \in Nat, NEW space \in Nat, NEW in \in Nat, NEW w \in Nat,
         n <= space, in + space <= BUF_LEN, space + w < BUF_LEN
  PROVE  in + n <= BUF_LEN /\ n + w < BUF_LEN /\ n \in 0 .. BUF_LEN
BY BufFacts

LEMMA CountFacts ==
  ASSUME NEW most \in Int, NEW n \in 1 .. most
  PROVE  n \in Nat /\ n >= 1
OBVIOUS

LEMMA TwoFact == 2 \in Int
OBVIOUS

LEMMA JtKickKeeps ==
  ASSUME JtInv, JtKick
  PROVE  ControlPart' /\ TxQuiet /\ RxQuiet
<1>1. JtTypeInv /\ CallTypes /\ irq_enable \subseteq {"RE", "WE"}
  BY JtTypeParts DEF JtInv, DriverTypes
<1>2. /\ FastStays /\ irq_enable' = irq_enable \cup {"WE"} /\ jtPc = "kick"
      /\ JtReturn \/ (jtLeft > 0 /\ JtContinue("write wait"))
  BY DEF FastStays, RingsStay, jtRx, jtTx, jtDevice, jtCounts, jtWatch, JtKick, JtAt,
         Kicked
<1>3. jtLeft > 0 => jtLeft >= 1
  BY <1>1, CallNumbers
<1>4. CallTypes' /\ JtCalls' /\ jtPc' \in {"idle", "write wait"}
  BY <1>1, <1>2, <1>3, Returned, Continued
<1>5. JtInterruptsOn'
  BY <1>1, <1>2, <1>4 DEF JtInv, JtInterruptsOn, FastStays, RingsStay
<1>6. QED BY <1>1, <1>2, <1>4, <1>5, FastKeeps DEF SmallPcs

LEMMA JtWriteLookKeeps ==
  ASSUME JtInv, JtWriteLook
  PROVE  ControlPart' /\ TxQuiet /\ RxQuiet
<1>1. /\ JtTypeInv /\ CallTypes /\ irq_enable \subseteq {"RE", "WE"}
      /\ jtPc = "write look"
  BY JtTypeParts DEF JtInv, DriverTypes, JtWriteLook, JtAt
<1>a. jtLeft \in Nat /\ jtLeft >= 1
  BY <1>1, CallNumbers DEF JtInv, JtCalls
<1>b. tx_in \in Slots /\ tx_out \in Slots
  BY <1>1, JtTypeParts DEF TxTypes
<1>2. FastStays /\ irq_enable' \subseteq {"RE", "WE"} /\ irq_enable' = irq_enable
  BY <1>1
  DEF FastStays, RingsStay, jtRx, jtTx, jtDevice, jtCounts, jtWatch, JtWriteLook, JtAt
<1>3. /\ jtIn' = tx_in /\ jtOut' = tx_out /\ UNCHANGED <<jtLeft, jtNonblock, jtMoved>>
      /\ jtN' = AtMost(TxSpace(tx_in, tx_out), jtLeft)
      /\ jtPc' = IF jtN' = 0 THEN "kick" ELSE "copy"
  BY DEF JtWriteLook, JtGo
<1>4. /\ jtN' \in Nat /\ jtN' <= jtLeft /\ jtN' <= TxSpace(tx_in, tx_out)
  BY <1>1, <1>a, <1>3, SpaceFacts, AtMostFacts
<1>5. tx_in + jtN' <= BUF_LEN /\ jtN' + TxWaiting < BUF_LEN /\ jtN' \in 0 .. BUF_LEN
  <2>1. /\ TxSpace(tx_in, tx_out) \in Nat /\ tx_in + TxSpace(tx_in, tx_out) <= BUF_LEN
        /\ TxSpace(tx_in, tx_out) + TxWaiting < BUF_LEN /\ tx_in \in Nat
        /\ TxWaiting \in Nat
    BY <1>1, SpaceFacts, RingNumbers
  <2>2. jtN' \in Nat /\ jtN' <= TxSpace(tx_in, tx_out) BY <1>4
  <2>3. QED BY <2>1, <2>2, FitsFacts
<1>6. jtPc' \in {"kick", "copy"} /\ (jtPc' = "copy" => jtN' >= 1)
  BY <1>3, <1>4
<1>7. CallTypes'
  BY <1>1, <1>a, <1>b, <1>3, <1>5, <1>6, Zenon DEF CallTypes
<1>8. JtCalls'
  <2>1. TxWaiting' = TxWaiting /\ tx_in' = tx_in
    <3>1. RingsStay BY <1>2 DEF FastStays
    <3>2. QED BY <1>1, <3>1, RingsStayFacts DEF RingsStay
  <2>2. jtPc' = "copy" => jtN' \in 1 .. jtLeft' BY <1>a, <1>3, <1>4, <1>6
  <2>3. QED BY <1>3, <1>5, <1>6, <2>1, <2>2 DEF JtCalls, Fill, Drain, SmallPcs
<1>9. JtInterruptsOn'
  BY <1>1, <1>2, <1>6 DEF JtInv, JtInterruptsOn, FastStays, RingsStay
<1>10. QED BY <1>1, <1>2, <1>6, <1>7, <1>8, <1>9, FastKeeps DEF SmallPcs

LEMMA JtReadLookKeeps ==
  ASSUME JtInv, JtReadLook
  PROVE  ControlPart' /\ TxQuiet /\ RxQuiet
<1>1. /\ JtTypeInv /\ CallTypes /\ irq_enable \subseteq {"RE", "WE"}
      /\ jtPc = "read look"
  BY JtTypeParts DEF JtInv, DriverTypes, JtReadLook, JtAt
<1>a. jtLeft \in Nat /\ jtLeft >= 1
  BY <1>1, CallNumbers DEF JtInv, JtCalls
<1>b. rx_in \in Slots /\ rx_out \in Slots
  BY <1>1, JtTypeParts DEF RxTypes
<1>2. FastStays /\ irq_enable' \subseteq {"RE", "WE"} /\ irq_enable' = irq_enable
  BY <1>1
  DEF FastStays, RingsStay, jtRx, jtTx, jtDevice, jtCounts, jtWatch, JtReadLook, JtAt
<1> DEFINE n == AtMost(RxReady(rx_in, rx_out), jtLeft)
<1>3. n \in Nat /\ n <= jtLeft /\ n <= RxReady(rx_in, rx_out) /\ (n = 0 => rx_in = rx_out)
  BY <1>1, <1>a, SpaceFacts, AtMostFacts
<1>4. \/ n = 0 /\ ~jtMoved /\ JtReturn
      \/ /\ jtPc' = IF n > 0 THEN "take" ELSE IF jtMoved THEN "enable" ELSE "read wait"
         /\ jtIn' = rx_in /\ jtOut' = rx_out /\ jtN' = n
         /\ UNCHANGED <<jtLeft, jtNonblock, jtMoved>>
  BY DEF JtReadLook, JtGo
<1> HIDE DEF n
<1>5. "RE" \notin irq_enable /\ rx_in = rx_out => jtMoved
  BY <1>1, <1>2 DEF JtInv, JtInterruptsOn, FastStays
<1>6. CASE n = 0 /\ ~jtMoved /\ JtReturn
  <2>1. CallTypes' /\ JtCalls' /\ jtPc' = "idle"
    BY <1>6, Returned
  <2>2. JtInterruptsOn'
    BY <1>1, <1>2, <1>3, <1>5, <1>6, <2>1
    DEF JtInv, JtInterruptsOn, FastStays, RingsStay
  <2>3. QED BY <1>1, <1>2, <2>1, <2>2, FastKeeps DEF SmallPcs
<1>7. CASE /\ jtPc' = IF n > 0 THEN "take" ELSE IF jtMoved THEN "enable" ELSE "read wait"
           /\ jtIn' = rx_in /\ jtOut' = rx_out /\ jtN' = n
           /\ UNCHANGED <<jtLeft, jtNonblock, jtMoved>>
  <2>1. rx_out + n <= BUF_LEN /\ n <= RxUsed /\ n \in 0 .. BUF_LEN
    <3>1. /\ RxReady(rx_in, rx_out) \in Nat
          /\ rx_out + RxReady(rx_in, rx_out) <= BUF_LEN
          /\ RxReady(rx_in, rx_out) <= RxUsed /\ rx_out \in Nat /\ RxUsed \in Nat
      BY <1>1, SpaceFacts, RingNumbers
    <3>2. QED BY <1>3, <3>1, BufFacts
  <2>2. /\ jtPc' \in {"take", "enable", "read wait"} /\ (jtPc' = "take" => n >= 1)
        /\ jtPc' = "read wait" => ~jtMoved
        /\ jtPc' # "take" => n = 0
    <3>1. n > 0 <=> n # 0 BY <1>3
    <3>2. n > 0 => n >= 1 BY <1>3
    <3>3. QED BY <3>1, <3>2, <1>7
  <2>3. CallTypes'
    BY <1>1, <1>a, <1>b, <1>7, <2>1, <2>2, Zenon DEF CallTypes
  <2>4. JtCalls'
    <3>1. RxUsed' = RxUsed /\ rx_out' = rx_out
      <4>1. RingsStay BY <1>2 DEF FastStays
      <4>2. QED BY <1>1, <4>1, RingsStayFacts DEF RingsStay
    <3>2. jtPc' = "take" => n \in 1 .. jtLeft' BY <1>a, <1>3, <1>7, <2>2
    <3>3. jtLeft' >= 1 BY <1>a, <1>7
    <3>4. QED BY <1>7, <2>1, <2>2, <3>1, <3>2, <3>3 DEF JtCalls, Fill, Drain, SmallPcs
  <2>5. JtInterruptsOn'
    <3>1. rx_in = rx_out => jtPc' # "take"
      <4>1. rx_in = rx_out => RxReady(rx_in, rx_out) = 0
        <5>1. rx_in \in Nat /\ rx_out \in Nat BY <1>1, RingNumbers
        <5>2. QED BY <5>1 DEF RxReady
      <4>2. rx_in = rx_out => n = 0
        <5>1. 0 \in Nat /\ ~(1 <= 0) OBVIOUS
        <5>2. QED BY <4>1, <1>3
      <4>3. n = 0 => ~(n >= 1) OBVIOUS
      <4>4. QED BY <4>2, <4>3, <2>2
    <3>2. QED
      BY <1>1, <1>2, <1>3, <1>5, <2>2, <3>1
      DEF JtInv, JtInterruptsOn, FastStays, RingsStay
  <2>6. QED BY <1>1, <1>2, <2>2, <2>3, <2>4, <2>5, FastKeeps DEF SmallPcs
<1>8. QED BY <1>4, <1>6, <1>7

LEMMA JtBeginKeeps ==
  ASSUME JtInv, NEW pc \in {"write look", "read look", "close"} \cup SmallPcs, NEW most \in Int,
         jtSmall <=> pc \in SmallPcs, JtBegin(pc, most)
  PROVE  ControlPart' /\ TxQuiet /\ RxQuiet
<1>1. JtTypeInv /\ CallTypes /\ DriverTypes /\ DeviceTypes /\ jtPc = "idle"
  BY JtTypeParts DEF JtInv, JtBegin
<1>2. /\ jtPc' = pc /\ jtNonblock' \in BOOLEAN /\ jtMoved' = FALSE
      /\ UNCHANGED <<jtIn, jtOut, jtN>>
      /\ RingsStay
      /\ UNCHANGED <<jtSmall, irq_enable, jtTimeout, host_inactive, jtAc, jtHost>>
  BY DEF JtBegin, JtGo, RingsStay, jtRx, jtTx, jtDevice, jtCounts, jtWatch
<1>3. jtLeft' \in Nat /\ jtLeft' >= 1
  <2>1. jtLeft' \in 1 .. most BY Zenon DEF JtBegin
  <2>2. QED BY <2>1, CountFacts
<1>4. CallTypes'
  BY <1>1, <1>2, <1>3, Zenon DEF CallTypes, SmallPcs
<1>5. JtCalls'
  BY <1>2, <1>3 DEF JtCalls, Fill, Drain, SmallPcs
<1>6. DriverTypes' /\ DeviceTypes'
  BY <1>1, <1>2, RingsStayFacts DEF DriverTypes, DeviceTypes
<1>7. JtTypeInv'
  BY <1>1, <1>2, <1>4, <1>6, RingsStayFacts, NextTypeParts
<1>8. JtModes'
  BY <1>1, <1>2 DEF JtInv, JtModes, SmallPcs, RingsStay
<1>9. JtInterruptsOn'
  BY <1>1, <1>2 DEF JtInv, JtInterruptsOn, RingsStay
<1>10. TxQuiet /\ RxQuiet
  BY <1>1, <1>2 DEF RingsStay, TxQuiet, RxQuiet, SmallPcs
<1>11. QED BY <1>5, <1>7, <1>8, <1>9, <1>10 DEF ControlPart

\* Starting a call, closing, the timeout, the alarm and the host's departure.
AsideStays == /\ RingsStay /\ UNCHANGED <<jtSmall, irq_enable, jtPc, jtLeft, jtNonblock, jtMoved>>
              /\ UNCHANGED <<jtIn, jtOut, jtN>>

LEMMA AsideKeeps ==
  ASSUME JtInv, AsideStays, jtTimeout' \in Nat, host_inactive' \in 0 .. JtForever,
         jtAc' \in BOOLEAN, jtHost' \in BOOLEAN
  PROVE  ControlPart' /\ TxQuiet /\ RxQuiet
<1>1. JtTypeInv /\ CallTypes /\ DriverTypes
  BY JtTypeParts DEF JtInv
<1>2. CallTypes' /\ DriverTypes' /\ DeviceTypes'
  BY <1>1, RingsStayFacts, Zenon DEF AsideStays, CallTypes, DriverTypes, DeviceTypes
<1>3. JtTypeInv'
  BY <1>1, <1>2, RingsStayFacts, NextTypeParts DEF AsideStays
<1>4. TxWaiting' = TxWaiting /\ RxUsed' = RxUsed
  BY <1>1, RingsStayFacts DEF AsideStays
<1>5. JtModes' /\ JtInterruptsOn'
  BY DEF JtInv, JtModes, JtInterruptsOn, AsideStays, RingsStay
<1>6. JtCalls'
  BY <1>4 DEF JtInv, JtCalls, AsideStays, RingsStay
<1>7. TxQuiet /\ RxQuiet
  BY DEF AsideStays, RingsStay, TxQuiet, RxQuiet
<1>8. QED BY <1>3, <1>5, <1>6, <1>7 DEF ControlPart

LEMMA JtAsidesKeep ==
  ASSUME JtInv, JtIoctl \/ JtAlarm \/ JtHostLeaves
  PROVE  ControlPart' /\ TxQuiet /\ RxQuiet
<1>1. JtTypeInv /\ DriverTypes /\ DeviceTypes /\ JtForever \in Nat /\ JtForever > 2
  BY JtTypeParts, JtAssumption DEF JtInv
<1>2. /\ jtTimeout \in Nat /\ host_inactive \in 0 .. JtForever
      /\ jtAc \in BOOLEAN /\ jtHost \in BOOLEAN
  BY <1>1 DEF DriverTypes, DeviceTypes
<1>3. CASE JtIoctl
  <2>1. AsideStays /\ UNCHANGED <<host_inactive, jtAc, jtHost>>
    BY <1>3 DEF JtIoctl, AsideStays, RingsStay, jtCall, jtRx, jtTx, jtDevice, jtCounts
  <2>2. jtTimeout' \in Nat
    BY <1>1, <1>3, JtAssumption DEF JtIoctl
  <2>3. QED BY <1>2, <2>1, <2>2, AsideKeeps
<1>4. CASE JtAlarm
  <2>1. AsideStays /\ jtAc' = FALSE /\ UNCHANGED <<jtTimeout, jtHost>>
    BY <1>4 DEF JtAlarm, AsideStays, RingsStay, jtCall, jtRx, jtTx, jtDevice, jtCounts
  <2>2. host_inactive' \in 0 .. JtForever
    BY <1>1, <1>2, <1>4 DEF JtAlarm
  <2>3. QED BY <1>2, <2>1, <2>2, AsideKeeps
<1>5. CASE JtHostLeaves
  <2>1. AsideStays /\ jtHost' = FALSE /\ UNCHANGED <<jtTimeout, host_inactive, jtAc>>
    BY <1>5
    DEF JtHostLeaves, jtDriver, AsideStays, RingsStay, jtCall, jtRx, jtTx, jtWatch,
        jtCounts
  <2>2. QED BY <1>2, <2>1, AsideKeeps
<1>6. QED BY <1>3, <1>4, <1>5

LEMMA JtBeginsKeep ==
  ASSUME JtInv, JtWrite \/ JtRead \/ JtClose
  PROVE  ControlPart' /\ TxQuiet /\ RxQuiet
<1>1. JtMax - jtSent - jtPut \in Int /\ jtSmall \in BOOLEAN
  <2>1. jtSent \in Nat /\ jtPut \in Nat /\ jtSmall \in BOOLEAN
    BY JtTypeParts DEF JtInv, CountTypes, DriverTypes
  <2>2. QED BY <2>1, JtAssumption
<1>2. CASE JtWrite
  <2>1. JtBegin(IF jtSmall THEN "small write" ELSE "write look", JtMax - jtSent - jtPut)
    BY <1>2 DEF JtWrite
  <2>2. CASE jtSmall BY <1>1, <2>1, <2>2, JtBeginKeeps DEF SmallPcs
  <2>3. CASE ~jtSmall BY <1>1, <2>1, <2>3, JtBeginKeeps DEF SmallPcs
  <2>4. QED BY <2>2, <2>3
<1>3. CASE JtRead
  <2>1. JtBegin(IF jtSmall THEN "small read" ELSE "read look", 2)
    BY <1>3 DEF JtRead
  <2>2. CASE jtSmall
    <3>1. JtBegin("small read", 2) /\ 2 \in Int BY <2>1, <2>2, TwoFact
    <3>2. QED BY <2>1, <2>2, <3>1, JtBeginKeeps DEF SmallPcs
  <2>3. CASE ~jtSmall
    <3>1. JtBegin("read look", 2) /\ 2 \in Int BY <2>1, <2>3, TwoFact
    <3>2. QED BY <2>1, <2>3, <3>1, JtBeginKeeps DEF SmallPcs
  <2>4. QED BY <2>2, <2>3
<1>4. CASE JtClose
  <2>1. ~jtSmall /\ JtBegin("close", 1) /\ 1 \in Int
    BY <1>4 DEF JtClose
  <2>2. QED BY <2>1, JtBeginKeeps DEF SmallPcs
<1>5. QED BY <1>2, <1>3, <1>4

\* The rest of a step that moves bytes: what the call and the driver keep.
LEMMA JtCopyKeeps ==
  ASSUME JtInv, JtCopy
  PROVE  ControlPart' /\ TxPart' /\ RxQuiet
<1>1. /\ JtTypeInv /\ CallTypes /\ DriverTypes /\ DeviceTypes /\ RxTypes
      /\ TxTypes /\ CountTypes
  BY JtTypeParts DEF JtInv
<1>2. /\ jtPc = "copy" /\ jtPc' = "publish" /\ ~jtSmall
      /\ UNCHANGED <<jtLeft, jtNonblock, jtMoved, jtIn, jtOut, jtN, irq_enable, jtSmall,
                     jtTimeout, host_inactive, jtAc, jtHost>>
      /\ UNCHANGED <<rx_in, rx_out, rx_buf, tx_in, tx_out, jtRxFifo, jtTxFifo,
                     jtSent, jtGot, jtPut, jtTaken>>
  BY DEF JtCopy, JtAt, JtGo, jtRx, jtDevice, jtCounts, jtWatch
<1>3. tx_buf' = [k \in Slots |-> IF k \in jtIn..jtIn + jtN - 1 THEN jtSent + 1 + k - jtIn
                               ELSE tx_buf[k]]
  BY DEF JtCopy
<1>4. /\ jtIn = tx_in /\ jtN \in 1 .. jtLeft /\ jtIn + jtN <= BUF_LEN
      /\ jtN + TxWaiting < BUF_LEN
  BY <1>2 DEF JtInv, JtCalls, Fill
<1>5. jtIn \in Nat /\ jtN \in Nat /\ jtN >= 1 /\ jtSent \in Nat
  BY <1>1, <1>4, CallNumbers, RingNumbers DEF CountTypes
<1>6. TxWaiting' = TxWaiting /\ RxUsed' = RxUsed
  BY <1>2 DEF TxWaiting, RxUsed, Used
<1>7. tx_buf' \in [Slots -> Nat]
  <2> SUFFICES ASSUME NEW k \in Slots
               PROVE  (IF k \in jtIn..jtIn + jtN - 1 THEN jtSent + 1 + k - jtIn ELSE tx_buf[k]) \in Nat
    BY <1>3
  <2>1. tx_buf[k] \in Nat BY <1>1 DEF TxTypes
  <2>2. k \in Int BY BufFacts DEF Slots
  <2>3. k \in jtIn..jtIn + jtN - 1 => jtSent + 1 + k - jtIn \in Nat BY <2>2, <1>5
  <2>4. QED BY <2>1, <2>3
<1>8. TxTypes' /\ RxTypes' /\ CountTypes' /\ DriverTypes' /\ DeviceTypes'
  BY <1>1, <1>2, <1>7 DEF TxTypes, RxTypes, CountTypes, DriverTypes, DeviceTypes
<1>9. CallTypes'
  BY <1>1, <1>2, Zenon DEF CallTypes
<1>10. JtTypeInv'
  BY <1>8, <1>9, NextTypeParts
<1>11. JtModes' /\ JtInterruptsOn'
  BY <1>2 DEF JtInv, JtModes, JtInterruptsOn, SmallPcs
<1>12. JtCalls'
  BY <1>2, <1>4, <1>6 DEF JtCalls, Fill, Drain, SmallPcs
<1>13. RxQuiet
  BY <1>2 DEF RxQuiet
<1>14. JtTxFifoHolds' /\ JtTxCount'
  BY <1>2, <1>6 DEF JtInv, JtTxFifoHolds, JtTxCount
<1>15. JtTxHolds'
  <2> SUFFICES ASSUME NEW k \in 0 .. TxWaiting - 1
               PROVE  tx_buf'[Slot(tx_out + k)] = tx_buf[Slot(tx_out + k)]
    BY <1>2, <1>6 DEF JtInv, JtTxHolds, Slot
  <2>1. /\ tx_out \in Nat /\ tx_in \in Nat /\ tx_out < BUF_LEN /\ tx_in < BUF_LEN
        /\ BUF_LEN \in Nat
        /\ TxWaiting \in Nat /\ TxWaiting < BUF_LEN
        /\ TxWaiting = (IF tx_in >= tx_out THEN tx_in - tx_out ELSE tx_in + BUF_LEN - tx_out)
    BY <1>1, RingNumbers, BufFacts, JtUsed DEF Slots
  <2>2. Slot(tx_out + k) \in Slots
    <3>1. tx_out + k \in 0 .. 2 * BUF_LEN - 1 BY <2>1
    <3>2. QED BY <3>1, ModFacts
  <2>3. Slot(tx_out + k) \notin jtIn .. jtIn + jtN - 1
    BY <1>4, <1>5, <2>1 DEF Slot
  <2>4. QED BY <1>3, <2>2, <2>3
<1>16. JtTxCopied'
  <2> SUFFICES ASSUME NEW k \in 0 .. jtN - 1 PROVE tx_buf'[jtIn + k] = jtSent + 1 + k
    BY <1>2 DEF JtTxCopied
  <2>1. jtIn + k \in Slots BY <1>4, <1>5, BufFacts DEF Slots
  <2>2. jtIn + k \in jtIn .. jtIn + jtN - 1 BY <1>5
  <2>3. tx_buf'[jtIn + k] = jtSent + 1 + (jtIn + k) - jtIn BY <1>3, <2>1, <2>2
  <2>4. QED BY <2>3, <1>5
<1>17. QED BY <1>10, <1>11, <1>12, <1>13, <1>14, <1>15, <1>16 DEF ControlPart, TxPart

LEMMA JtPublishKeeps ==
  ASSUME JtInv, JtPublish
  PROVE  ControlPart' /\ TxPart' /\ RxQuiet
<1>1. /\ JtTypeInv /\ CallTypes /\ DriverTypes /\ DeviceTypes /\ RxTypes
      /\ TxTypes /\ CountTypes
  BY JtTypeParts DEF JtInv
<1>2. /\ jtPc = "publish" /\ ~jtSmall /\ jtMoved' = TRUE
      /\ UNCHANGED <<jtNonblock, jtIn, jtOut, jtN, irq_enable, jtSmall,
                     jtTimeout, host_inactive, jtAc, jtHost>>
      /\ UNCHANGED <<rx_in, rx_out, rx_buf, tx_buf, tx_out, jtRxFifo, jtTxFifo,
                     jtGot, jtPut, jtTaken>>
  BY DEF JtPublish, JtAt, JtGo, jtRx, jtDevice, jtCounts, jtWatch
<1>3. tx_in' = (jtIn + jtN) % BUF_LEN /\ jtPc' = IF jtLeft' > 0 THEN "write look" ELSE "kick"
  BY DEF JtPublish, Published, JtGo
<1>a. jtSent' = jtSent + jtN /\ jtLeft' = jtLeft - jtN
  BY DEF JtPublish
<1>4. /\ jtIn = tx_in /\ jtN \in 1 .. jtLeft /\ jtIn + jtN <= BUF_LEN
      /\ jtN + TxWaiting < BUF_LEN
  BY <1>2 DEF JtInv, JtCalls, Fill
<1>5. /\ jtIn \in Nat /\ jtN \in Nat /\ jtN >= 1 /\ jtSent \in Nat /\ jtGot \in Nat
      /\ jtLeft \in Nat /\ Len(jtTxFifo) \in Nat
  BY <1>1, <1>4, CallNumbers, RingNumbers, LenProperties DEF CountTypes, DeviceTypes
<1>6. jtLeft' \in Nat /\ (jtLeft' > 0 => jtLeft' >= 1)
  <2>1. jtN <= jtLeft BY <1>4, <1>5
  <2>2. QED BY <1>a, <1>5, <2>1
<1>7. jtPc' \in {"write look", "kick"} /\ (jtPc' = "write look" => jtLeft' >= 1)
  BY <1>3, <1>6
<1>8. tx_in' = Slot(jtIn + jtN) /\ tx_in' \in Slots
  <2>1. jtIn + jtN \in 0 .. 2 * BUF_LEN - 1 BY <1>4, <1>5, BufFacts
  <2>2. QED BY <2>1, <1>3, ModFacts
<1>9. /\ tx_out \in Nat /\ tx_in \in Nat /\ tx_out < BUF_LEN /\ tx_in < BUF_LEN
      /\ BUF_LEN \in Nat
      /\ TxWaiting \in Nat /\ TxWaiting < BUF_LEN
      /\ TxWaiting = (IF tx_in >= tx_out THEN tx_in - tx_out ELSE tx_in + BUF_LEN - tx_out)
  BY <1>1, RingNumbers, BufFacts, JtUsed DEF Slots
<1>10. TxWaiting' = TxWaiting + jtN
  <2>1. TxWaiting' = (IF tx_in' >= tx_out THEN tx_in' - tx_out ELSE tx_in' + BUF_LEN - tx_out)
    <3>1. tx_out \in Slots /\ tx_out' = tx_out BY <1>1, <1>2 DEF TxTypes
    <3>2. QED BY <3>1, <1>8, UsedFacts DEF TxWaiting
  <2>2. QED BY <2>1, <1>4, <1>5, <1>8, <1>9 DEF Slot
<1>11. RxUsed' = RxUsed
  BY <1>2 DEF RxUsed, Used
<1>12. TxTypes' /\ RxTypes' /\ DriverTypes' /\ DeviceTypes'
  BY <1>1, <1>2, <1>8 DEF TxTypes, RxTypes, DriverTypes, DeviceTypes
<1>13. CountTypes'
  <2>1. jtSent' \in Nat BY <1>a, <1>5
  <2>2. QED BY <1>1, <1>2, <2>1 DEF CountTypes
<1>14. CallTypes'
  BY <1>1, <1>2, <1>6, <1>7, Zenon DEF CallTypes
<1>15. JtTypeInv'
  BY <1>12, <1>13, <1>14, NextTypeParts
<1>16. JtModes' /\ JtInterruptsOn' /\ JtCalls'
  BY <1>2, <1>7 DEF JtInv, JtModes, JtInterruptsOn, JtCalls, SmallPcs, Fill, Drain
<1>17. RxQuiet
  BY <1>2, <1>7 DEF RxQuiet
<1>18. jtSent = jtGot + Len(jtTxFifo) + TxWaiting
  BY DEF JtInv, JtTxCount
<1>19. JtTxFifoHolds'
  BY <1>2 DEF JtInv, JtTxFifoHolds
<1>20. JtTxCount'
  <2>1. jtSent + jtN = jtGot + Len(jtTxFifo) + (TxWaiting + jtN) BY <1>5, <1>9, <1>18
  <2>2. QED BY <2>1, <1>2, <1>a, <1>10 DEF JtTxCount
<1>21. JtTxHolds'
  <2> SUFFICES ASSUME NEW k \in 0 .. TxWaiting + jtN - 1
               PROVE  tx_buf[Slot(tx_out + k)] = jtGot + Len(jtTxFifo) + 1 + k
    <3>1. ASSUME NEW k \in 0 .. TxWaiting' - 1 PROVE k \in 0 .. TxWaiting + jtN - 1
      BY <1>5, <1>9, <1>10
    <3>2. QED BY <3>1, <1>2 DEF JtTxHolds, Slot
  <2>1. CASE k < TxWaiting
    <3>1. k \in 0 .. TxWaiting - 1 BY <2>1, <1>9
    <3>2. QED BY <3>1 DEF JtInv, JtTxHolds
  <2>2. CASE k >= TxWaiting
    <3> DEFINE n == k - TxWaiting
    <3>1. n \in 0 .. jtN - 1 /\ k = TxWaiting + n /\ n \in Nat BY <2>2, <1>5, <1>9
    <3> HIDE DEF n
    <3>2. Slot(tx_out + k) = jtIn + n BY <3>1, <1>4, <1>5, <1>9 DEF Slot
    <3>3. tx_buf[jtIn + n] = jtSent + 1 + n BY <3>1, <1>2 DEF JtInv, JtTxCopied
    <3>4. QED BY <3>1, <3>2, <3>3, <1>5, <1>9, <1>18
  <2>3. QED BY <2>1, <2>2, <1>9, <1>5
<1>22. JtTxCopied'
  BY <1>7 DEF JtTxCopied
<1>23. QED BY <1>15, <1>16, <1>17, <1>19, <1>20, <1>21, <1>22 DEF ControlPart, TxPart

LEMMA EmptyFacts ==
  ASSUME JtTypeInv
  PROVE  (TxWaiting = 0 <=> tx_in = tx_out) /\ (RxUsed = 0 <=> rx_in = rx_out)
<1>1. /\ TxWaiting = (IF tx_in >= tx_out THEN tx_in - tx_out ELSE tx_in + BUF_LEN - tx_out)
      /\ RxUsed = (IF rx_in >= rx_out THEN rx_in - rx_out ELSE rx_in + BUF_LEN - rx_out)
  BY JtUsed
<1>2. /\ rx_in \in Nat /\ rx_out \in Nat /\ tx_in \in Nat /\ tx_out \in Nat
      /\ rx_out < BUF_LEN /\ tx_out < BUF_LEN /\ BUF_LEN \in Nat
  BY RingNumbers, BufFacts
<1>3. TxWaiting = 0 <=> tx_in = tx_out
  BY <1>1, <1>2
<1>4. RxUsed = 0 <=> rx_in = rx_out
  BY <1>1, <1>2
<1>5. QED BY <1>3, <1>4

LEMMA JtSmallWriteKeeps ==
  ASSUME JtInv, JtSmallWrite
  PROVE  ControlPart' /\ TxPart' /\ RxQuiet
<1>1. /\ JtTypeInv /\ CallTypes /\ DriverTypes /\ DeviceTypes /\ RxTypes /\ TxTypes
      /\ CountTypes
      /\ JtCalls /\ JtModes
  BY JtTypeParts DEF JtInv
<1>2. /\ jtPc = "small write" /\ jtSmall /\ tx_in = tx_out
      /\ JtReturn \/ UNCHANGED <<jtPc, jtNonblock, jtMoved, jtIn, jtOut, jtN>>
      /\ UNCHANGED <<irq_enable, jtSmall, jtTimeout, host_inactive, jtAc, jtHost>>
      /\ UNCHANGED <<rx_in, rx_out, rx_buf, tx_in, tx_buf, tx_out, jtRxFifo, jtGot, jtPut, jtTaken>>
  BY <1>1 DEF JtSmallWrite, JtModes, SmallPcs, jtRx, jtTx, jtWatch
<1>3. jtTxFifo' = Append(jtTxFifo, jtSent + 1) /\ jtSent' = jtSent + 1
  BY DEF JtSmallWrite
<1>4. JtReturn \/ (jtLeft # 1 /\ jtLeft' = jtLeft - 1)
  BY DEF JtSmallWrite
<1>5. /\ jtSent \in Nat /\ jtGot \in Nat /\ jtTxFifo \in Seq(Nat) /\ jtSent + 1 \in Nat
      /\ Len(jtTxFifo) \in Nat
  BY <1>1, LenProperties DEF CountTypes, DeviceTypes
<1>6. /\ jtTxFifo' \in Seq(Nat) /\ Len(jtTxFifo') = Len(jtTxFifo) + 1
      /\ \A k \in 1 .. Len(jtTxFifo) : jtTxFifo'[k] = jtTxFifo[k]
      /\ jtTxFifo'[Len(jtTxFifo) + 1] = jtSent + 1
  BY <1>3, <1>5, AppendProperties
<1>7. TxWaiting = 0 /\ TxWaiting' = 0 /\ RxUsed' = RxUsed
  <2>1. TxWaiting = 0 BY <1>1, <1>2, EmptyFacts
  <2>2. QED BY <2>1, <1>2 DEF TxWaiting, RxUsed, Used
<1>8. CallTypes' /\ JtCalls' /\ jtPc' \in {"idle", "small write"}
  <2>1. CASE JtReturn
    BY <2>1, Returned
  <2>2. CASE ~JtReturn
    <3>1. jtLeft \in Nat /\ jtLeft >= 1 BY <1>1, <1>2, CallNumbers DEF JtCalls, SmallPcs
    <3>2. jtLeft' \in Nat /\ jtLeft' >= 1 BY <2>2, <3>1, <1>4
    <3>3. CallTypes' BY <1>1, <1>2, <2>2, <3>2, Zenon DEF CallTypes
    <3>4. JtCalls' BY <1>2, <2>2, <3>2 DEF JtCalls, Fill, Drain, SmallPcs
    <3>5. QED BY <1>2, <2>2, <3>3, <3>4
  <2>3. QED BY <2>1, <2>2
<1>9. CountTypes' /\ TxTypes' /\ RxTypes' /\ DriverTypes' /\ DeviceTypes'
  BY <1>1, <1>2, <1>3, <1>5, <1>6
  DEF TxTypes, RxTypes, DriverTypes, DeviceTypes, CountTypes
<1>10. JtTypeInv'
  BY <1>8, <1>9, NextTypeParts
<1>11. JtModes' /\ JtInterruptsOn'
  BY <1>1, <1>2, <1>8 DEF JtModes, JtInterruptsOn, SmallPcs
<1>12. RxQuiet
  BY <1>2, <1>8 DEF RxQuiet
<1>13. jtSent = jtGot + Len(jtTxFifo)
  BY <1>5, <1>7 DEF JtInv, JtTxCount
<1>14. JtTxFifoHolds'
  <2> SUFFICES ASSUME NEW k \in 1 .. Len(jtTxFifo) + 1 PROVE jtTxFifo'[k] = jtGot + k
    BY <1>2, <1>6 DEF JtTxFifoHolds
  <2>1. CASE k = Len(jtTxFifo) + 1 BY <2>1, <1>5, <1>6, <1>13
  <2>2. CASE k # Len(jtTxFifo) + 1
    <3>1. k \in 1 .. Len(jtTxFifo) BY <2>2, <1>5
    <3>2. QED BY <3>1, <1>6 DEF JtInv, JtTxFifoHolds
  <2>3. QED BY <2>1, <2>2
<1>15. JtTxCount'
  <2>1. jtSent + 1 = jtGot + (Len(jtTxFifo) + 1) + 0 BY <1>5, <1>13
  <2>2. QED BY <2>1, <1>2, <1>3, <1>6, <1>7 DEF JtTxCount
<1>16. JtTxHolds' /\ JtTxCopied'
  <2>1. \A k \in 0 .. 0 - 1 : FALSE OBVIOUS
  <2>2. QED BY <2>1, <1>7, <1>8 DEF JtTxHolds, JtTxCopied
<1>17. QED BY <1>8, <1>10, <1>11, <1>12, <1>14, <1>15, <1>16 DEF ControlPart, TxPart

\* What a step of the host leaves to the driver.
HostStep == /\ UNCHANGED <<jtSmall, irq_enable, jtPc, jtLeft, jtNonblock, jtMoved, jtIn, jtOut, jtN>>
            /\ UNCHANGED <<jtTimeout, host_inactive, rx_in, rx_out, rx_buf, tx_in, tx_out, tx_buf, jtHost>>
            /\ jtAc' = TRUE

LEMMA HostStepKeeps ==
  ASSUME JtInv, HostStep, jtRxFifo' \in Seq(Nat), jtTxFifo' \in Seq(Nat), CountTypes'
  PROVE  ControlPart' /\ TxWaiting' = TxWaiting /\ RxUsed' = RxUsed
<1>1. /\ JtTypeInv /\ CallTypes /\ DriverTypes /\ DeviceTypes /\ RxTypes /\ TxTypes
      /\ CountTypes
  BY JtTypeParts DEF JtInv
<1>2. TxWaiting' = TxWaiting /\ RxUsed' = RxUsed
  BY DEF HostStep, TxWaiting, RxUsed, Used
<1>3. CallTypes'
  BY <1>1, Zenon DEF CallTypes, HostStep
<1>4. TxTypes' /\ RxTypes' /\ DriverTypes' /\ DeviceTypes'
  BY <1>1 DEF TxTypes, RxTypes, DriverTypes, DeviceTypes, HostStep
<1>5. JtTypeInv'
  BY <1>3, <1>4, NextTypeParts
<1>6. JtModes' /\ JtInterruptsOn'
  BY DEF JtInv, JtModes, JtInterruptsOn, HostStep
<1>7. JtCalls'
  BY <1>2 DEF JtInv, JtCalls, HostStep
<1>8. QED BY <1>2, <1>5, <1>6, <1>7 DEF ControlPart

LEMMA JtHostTakesKeeps ==
  ASSUME JtInv, JtHostTakes
  PROVE  ControlPart' /\ TxPart' /\ RxQuiet
<1>1. JtTypeInv /\ CallTypes /\ DeviceTypes /\ CountTypes
  BY JtTypeParts DEF JtInv
<1>2. /\ HostStep /\ jtRxFifo' = jtRxFifo /\ UNCHANGED <<jtSent, jtPut, jtTaken>>
  BY DEF JtHostTakes, HostStep, jtDriver, jtCall, jtWatch, jtRx, jtTx
<1>3. jtTxFifo # <<>> /\ jtTxFifo' = Tail(jtTxFifo) /\ jtGot' = jtGot + 1
  BY DEF JtHostTakes
<1>4. jtGot \in Nat /\ jtTxFifo \in Seq(Nat) /\ Len(jtTxFifo) \in Nat /\ jtSent \in Nat
  BY <1>1, LenProperties DEF CountTypes, DeviceTypes
<1>5. /\ jtTxFifo' \in Seq(Nat) /\ Len(jtTxFifo') = Len(jtTxFifo) - 1
      /\ \A k \in 1 .. Len(jtTxFifo) - 1 : jtTxFifo'[k] = jtTxFifo[k + 1]
  BY <1>3, <1>4, HeadTailProperties
<1>6. CountTypes'
  <2>1. jtGot' \in Nat BY <1>3, <1>4
  <2>2. QED BY <2>1, <1>1, <1>2 DEF CountTypes
<1>7. jtRxFifo' \in Seq(Nat)
  BY <1>1, <1>2 DEF DeviceTypes
<1>8. ControlPart' /\ TxWaiting' = TxWaiting /\ RxUsed' = RxUsed
  BY <1>2, <1>5, <1>6, <1>7, HostStepKeeps
<1>9. TxWaiting \in Nat
  BY <1>1, RingNumbers
<1>10. JtTxFifoHolds'
  <2> SUFFICES ASSUME NEW k \in 1 .. Len(jtTxFifo) - 1
               PROVE  jtTxFifo'[k] = (jtGot + 1) + k
    BY <1>3, <1>5 DEF JtTxFifoHolds
  <2>1. k + 1 \in 1 .. Len(jtTxFifo) BY <1>4
  <2>2. jtTxFifo[k + 1] = jtGot + (k + 1) BY <2>1 DEF JtInv, JtTxFifoHolds
  <2>3. QED BY <2>2, <1>4, <1>5
<1>11. JtTxCount'
  <2>1. jtSent = jtGot + Len(jtTxFifo) + TxWaiting BY DEF JtInv, JtTxCount
  <2>2. jtSent = (jtGot + 1) + (Len(jtTxFifo) - 1) + TxWaiting BY <2>1, <1>4, <1>9
  <2>3. QED BY <2>2, <1>2, <1>3, <1>5, <1>8 DEF JtTxCount
<1>12. JtTxHolds'
  <2>1. jtGot' + Len(jtTxFifo') = jtGot + Len(jtTxFifo) BY <1>3, <1>4, <1>5
  <2>2. UNCHANGED <<tx_buf, tx_out>> BY <1>2 DEF HostStep
  <2>3. QED BY <2>1, <2>2, <1>8 DEF JtInv, JtTxHolds, Slot
<1>13. JtTxCopied'
  BY <1>2 DEF JtInv, JtTxCopied, HostStep
<1>14. RxQuiet
  BY <1>2 DEF HostStep, RxQuiet
<1>15. QED BY <1>8, <1>10, <1>11, <1>12, <1>13, <1>14 DEF TxPart

LEMMA JtHostSendsKeeps ==
  ASSUME JtInv, JtHostSends
  PROVE  ControlPart' /\ TxQuiet /\ RxPart'
<1>1. JtTypeInv /\ CallTypes /\ DeviceTypes /\ CountTypes
  BY JtTypeParts DEF JtInv
<1>2. HostStep /\ jtTxFifo' = jtTxFifo /\ UNCHANGED <<jtSent, jtGot, jtTaken>>
  BY DEF JtHostSends, HostStep, jtDriver, jtCall, jtWatch, jtRx, jtTx
<1>3. jtRxFifo' = Append(jtRxFifo, jtPut + 1) /\ jtPut' = jtPut + 1
  BY DEF JtHostSends
<1>4. /\ jtPut \in Nat /\ jtRxFifo \in Seq(Nat) /\ Len(jtRxFifo) \in Nat
      /\ jtPut + 1 \in Nat
      /\ jtTaken \in Nat /\ jtN \in Nat
  BY <1>1, LenProperties, CallNumbers DEF CountTypes, DeviceTypes
<1>5. /\ jtRxFifo' \in Seq(Nat) /\ Len(jtRxFifo') = Len(jtRxFifo) + 1
      /\ \A k \in 1 .. Len(jtRxFifo) : jtRxFifo'[k] = jtRxFifo[k]
      /\ jtRxFifo'[Len(jtRxFifo) + 1] = jtPut + 1
  BY <1>3, <1>4, AppendProperties
<1>6. CountTypes' /\ jtTxFifo' \in Seq(Nat)
  BY <1>1, <1>2, <1>3, <1>4 DEF CountTypes, DeviceTypes
<1>7. ControlPart' /\ TxWaiting' = TxWaiting /\ RxUsed' = RxUsed
  BY <1>2, <1>5, <1>6, HostStepKeeps
<1>8. RxBase' = RxBase
  BY <1>2 DEF RxBase, HostStep
<1>9. RxUsed \in Nat /\ RxBase \in Int
  <2>1. RxUsed \in Nat BY <1>1, RingNumbers
  <2>2. RxBase \in Int BY <1>4 DEF RxBase
  <2>3. QED BY <2>1, <2>2
<1>10. jtPut = RxBase + RxUsed + Len(jtRxFifo)
  BY DEF JtInv, JtRxCount
<1>11. JtRxCount'
  <2>1. jtPut + 1 = RxBase + RxUsed + (Len(jtRxFifo) + 1) BY <1>4, <1>9, <1>10
  <2>2. QED BY <2>1, <1>3, <1>5, <1>7, <1>8 DEF JtRxCount
<1>12. JtRxFifoHolds'
  <2> SUFFICES ASSUME NEW k \in 1 .. Len(jtRxFifo) + 1
               PROVE  jtRxFifo'[k] = RxBase + RxUsed + k
    BY <1>5, <1>7, <1>8 DEF JtRxFifoHolds
  <2>1. CASE k = Len(jtRxFifo) + 1 BY <2>1, <1>4, <1>5, <1>9, <1>10
  <2>2. CASE k # Len(jtRxFifo) + 1
    <3>1. k \in 1 .. Len(jtRxFifo) BY <2>2, <1>4
    <3>2. QED BY <3>1, <1>5 DEF JtInv, JtRxFifoHolds
  <2>3. QED BY <2>1, <2>2
<1>13. JtRxHolds'
  BY <1>2, <1>7, <1>8 DEF JtInv, JtRxHolds, Slot, HostStep
<1>14. TxQuiet
  BY <1>2 DEF HostStep, TxQuiet
<1>15. QED BY <1>7, <1>11, <1>12, <1>13, <1>14 DEF RxPart

LEMMA JtTakeKeeps ==
  ASSUME JtInv, JtTake
  PROVE  ControlPart' /\ TxQuiet /\ RxPart'
<1>1. /\ JtTypeInv /\ CallTypes /\ DriverTypes /\ DeviceTypes /\ RxTypes
      /\ TxTypes /\ CountTypes
  BY JtTypeParts DEF JtInv
<1>2. /\ jtPc = "take" /\ jtPc' = "release" /\ ~jtSmall
      /\ UNCHANGED <<jtLeft, jtNonblock, jtMoved, jtIn, jtOut, jtN, irq_enable, jtSmall,
                     jtTimeout, host_inactive, jtAc, jtHost>>
      /\ UNCHANGED <<rx_in, rx_out, rx_buf, tx_in, tx_out, tx_buf, jtRxFifo, jtTxFifo,
                     jtSent, jtGot, jtPut>>
  BY DEF JtTake, JtAt, JtGo, jtRx, jtTx, jtDevice, jtWatch
<1>3. jtTaken' = jtTaken + jtN
  BY DEF JtTake
<1>4. jtTaken \in Nat /\ jtN \in Nat
  BY <1>1, CallNumbers DEF CountTypes
<1>5. TxWaiting' = TxWaiting /\ RxUsed' = RxUsed
  BY <1>2 DEF TxWaiting, RxUsed, Used
<1>6. RxBase' = RxBase
  <2>1. RxBase = jtTaken /\ RxBase' = jtTaken' - jtN BY <1>2 DEF RxBase
  <2>2. QED BY <2>1, <1>3, <1>4
<1>7. jtTaken' \in Nat
  BY <1>3, <1>4
<1>8. TxTypes' /\ RxTypes' /\ CountTypes' /\ DriverTypes' /\ DeviceTypes'
  BY <1>1, <1>2, <1>7 DEF TxTypes, RxTypes, CountTypes, DriverTypes, DeviceTypes
<1>9. CallTypes'
  BY <1>1, <1>2, Zenon DEF CallTypes
<1>10. JtTypeInv'
  BY <1>8, <1>9, NextTypeParts
<1>11. JtModes' /\ JtInterruptsOn'
  BY <1>2 DEF JtInv, JtModes, JtInterruptsOn, SmallPcs
<1>12. JtCalls'
  BY <1>2, <1>5 DEF JtInv, JtCalls, Fill, Drain, SmallPcs
<1>13. TxQuiet
  BY <1>2 DEF TxQuiet
<1>14. RxPart'
  BY <1>2, <1>5, <1>6 DEF JtInv, RxPart, JtRxFifoHolds, JtRxCount, JtRxHolds, Slot
<1>15. QED BY <1>10, <1>11, <1>12, <1>13, <1>14 DEF ControlPart

LEMMA JtReleaseKeeps ==
  ASSUME JtInv, JtRelease
  PROVE  ControlPart' /\ TxQuiet /\ RxPart'
<1>1. /\ JtTypeInv /\ CallTypes /\ DriverTypes /\ DeviceTypes /\ RxTypes
      /\ TxTypes /\ CountTypes
  BY JtTypeParts DEF JtInv
<1>2. /\ jtPc = "release" /\ ~jtSmall /\ jtMoved' = TRUE
      /\ UNCHANGED <<jtNonblock, jtIn, jtOut, jtN, irq_enable, jtSmall,
                     jtTimeout, host_inactive, jtAc, jtHost>>
      /\ UNCHANGED <<rx_in, rx_buf, tx_in, tx_out, tx_buf, jtRxFifo, jtTxFifo,
                     jtSent, jtGot, jtPut, jtTaken>>
  BY DEF JtRelease, JtAt, JtGo, jtTx, jtDevice, jtCounts, jtWatch
<1>3. rx_out' = (jtOut + jtN) % BUF_LEN /\ jtPc' = IF jtLeft' > 0 THEN "read look" ELSE "enable"
  BY DEF JtRelease, JtGo
<1>4. jtLeft' = jtLeft - jtN
  BY DEF JtRelease
<1>5. /\ jtOut = rx_out /\ jtN \in 1 .. jtLeft /\ jtOut + jtN <= BUF_LEN
      /\ jtN <= RxUsed
  BY <1>2 DEF JtInv, JtCalls, Drain
<1>6. /\ jtOut \in Nat /\ jtN \in Nat /\ jtN >= 1 /\ jtTaken \in Nat /\ jtLeft \in Nat
      /\ Len(jtRxFifo) \in Nat
  BY <1>1, <1>5, CallNumbers, RingNumbers, LenProperties DEF CountTypes, DeviceTypes
<1>7. jtLeft' \in Nat /\ (jtLeft' > 0 => jtLeft' >= 1)
  <2>1. jtN <= jtLeft BY <1>5, <1>6
  <2>2. QED BY <1>4, <1>6, <2>1
<1>8. jtPc' \in {"read look", "enable"} /\ (jtPc' = "read look" => jtLeft' >= 1)
  BY <1>3, <1>7
<1>9. rx_out' = Slot(jtOut + jtN) /\ rx_out' \in Slots
  <2>1. jtOut + jtN \in 0 .. 2 * BUF_LEN - 1 BY <1>5, <1>6, BufFacts
  <2>2. QED BY <2>1, <1>3, ModFacts
<1>10. /\ rx_out \in Nat /\ rx_in \in Nat /\ rx_out < BUF_LEN /\ rx_in < BUF_LEN
       /\ BUF_LEN \in Nat
       /\ RxUsed \in Nat /\ RxUsed < BUF_LEN
       /\ RxUsed = (IF rx_in >= rx_out THEN rx_in - rx_out ELSE rx_in + BUF_LEN - rx_out)
  BY <1>1, RingNumbers, BufFacts, JtUsed DEF Slots
<1>11. RxUsed' = RxUsed - jtN
  <2>1. RxUsed' = (IF rx_in >= rx_out' THEN rx_in - rx_out' ELSE rx_in + BUF_LEN - rx_out')
    <3>1. rx_in \in Slots /\ rx_in' = rx_in BY <1>1, <1>2 DEF RxTypes
    <3>2. QED BY <3>1, <1>9, UsedFacts DEF RxUsed
  <2>2. QED BY <2>1, <1>5, <1>6, <1>9, <1>10 DEF Slot
<1>12. TxWaiting' = TxWaiting
  BY <1>2 DEF TxWaiting, Used
<1>13. RxBase = jtTaken - jtN /\ RxBase' = jtTaken
  BY <1>2, <1>8 DEF RxBase
<1>14. TxTypes' /\ RxTypes' /\ CountTypes' /\ DriverTypes' /\ DeviceTypes'
  BY <1>1, <1>2, <1>9 DEF TxTypes, RxTypes, CountTypes, DriverTypes, DeviceTypes
<1>15. CallTypes'
  BY <1>1, <1>2, <1>7, <1>8, Zenon DEF CallTypes
<1>16. JtTypeInv'
  BY <1>14, <1>15, NextTypeParts
<1>17. JtModes' /\ JtInterruptsOn' /\ JtCalls'
  BY <1>2, <1>8 DEF JtInv, JtModes, JtInterruptsOn, JtCalls, SmallPcs, Fill, Drain
<1>18. TxQuiet
  BY <1>2, <1>8 DEF TxQuiet
<1>19. RxBase + RxUsed = RxBase' + RxUsed'
  BY <1>6, <1>10, <1>11, <1>13
<1>20. JtRxFifoHolds' /\ JtRxCount'
  BY <1>2, <1>19 DEF JtInv, JtRxFifoHolds, JtRxCount
<1>21. ASSUME NEW k \in 0 .. RxUsed - jtN - 1
       PROVE  rx_buf[Slot(rx_out' + k)] = jtTaken + 1 + k
  <2> DEFINE n == k + jtN
  <2>1. n \in 0 .. RxUsed - 1 BY <1>6, <1>10
  <2>2. Slot(rx_out' + k) = Slot(rx_out + n) BY <1>5, <1>6, <1>9, <1>10 DEF Slot
  <2>3. rx_buf[Slot(rx_out + n)] = RxBase + 1 + n BY <2>1 DEF JtInv, JtRxHolds
  <2>4. QED BY <2>2, <2>3, <1>6, <1>13
<1>22. JtRxHolds'
  <2> SUFFICES ASSUME NEW k \in 0 .. RxUsed' - 1
               PROVE  rx_buf'[Slot(rx_out' + k)] = RxBase' + 1 + k
    BY DEF JtRxHolds, Slot
  <2>1. k \in 0 .. RxUsed - jtN - 1 BY <1>6, <1>10, <1>11
  <2>2. rx_buf[Slot(rx_out' + k)] = jtTaken + 1 + k BY <2>1, <1>21
  <2>3. QED BY <2>2, <1>2, <1>13
<1>23. QED BY <1>16, <1>17, <1>18, <1>20, <1>22 DEF ControlPart, RxPart

LEMMA JtSmallReadKeeps ==
  ASSUME JtInv, JtSmallRead
  PROVE  ControlPart' /\ TxQuiet /\ RxPart'
<1>1. /\ JtTypeInv /\ CallTypes /\ DriverTypes /\ DeviceTypes /\ RxTypes /\ TxTypes
      /\ CountTypes
      /\ JtCalls /\ JtModes
  BY JtTypeParts DEF JtInv
<1>2. /\ jtPc = "small read" /\ jtSmall /\ rx_in = rx_out
      /\ UNCHANGED <<irq_enable, jtSmall, jtTimeout, host_inactive, jtAc, jtHost>>
      /\ UNCHANGED <<rx_in, rx_out, rx_buf, tx_in, tx_buf, tx_out, jtTxFifo, jtSent, jtGot, jtPut>>
  BY <1>1 DEF JtSmallRead, JtModes, SmallPcs, jtRx, jtTx, jtWatch
<1>3. \/ JtReturn
      \/ jtLeft # 1 /\ jtLeft' = jtLeft - 1 /\ jtMoved' = TRUE
         /\ UNCHANGED <<jtPc, jtNonblock, jtIn, jtOut, jtN>>
  BY DEF JtSmallRead
<1>4. \/ jtRxFifo # <<>> /\ jtRxFifo' = Tail(jtRxFifo) /\ jtTaken' = jtTaken + 1
      \/ UNCHANGED <<jtRxFifo, jtTaken>>
  BY DEF JtSmallRead
<1>5. /\ jtTaken \in Nat /\ jtRxFifo \in Seq(Nat) /\ Len(jtRxFifo) \in Nat
  BY <1>1, LenProperties DEF CountTypes, DeviceTypes
<1>6. RxUsed = 0 /\ RxUsed' = 0 /\ TxWaiting' = TxWaiting
  <2>1. RxUsed = 0 BY <1>1, <1>2, EmptyFacts
  <2>2. QED BY <2>1, <1>2 DEF TxWaiting, RxUsed, Used
<1>7. CallTypes' /\ JtCalls' /\ jtPc' \in {"idle", "small read"}
  <2>1. CASE JtReturn
    BY <2>1, Returned
  <2>2. CASE ~JtReturn
    <3>1. jtLeft \in Nat /\ jtLeft >= 1 BY <1>1, <1>2, CallNumbers DEF JtCalls, SmallPcs
    <3>2. jtLeft' \in Nat /\ jtLeft' >= 1
      <4>1. jtLeft # 1 /\ jtLeft' = jtLeft - 1 BY <2>2, <1>3
      <4>2. QED BY <3>1, <4>1
    <3>3. CallTypes' BY <1>1, <1>3, <2>2, <3>2, Zenon DEF CallTypes
    <3>4. JtCalls' BY <1>2, <1>3, <2>2, <3>2 DEF JtCalls, Fill, Drain, SmallPcs
    <3>5. QED BY <1>2, <1>3, <2>2, <3>3, <3>4
  <2>3. QED BY <2>1, <2>2
<1>8. /\ jtRxFifo' \in Seq(Nat) /\ jtTaken' \in Nat
      /\ jtTaken' + Len(jtRxFifo') = jtTaken + Len(jtRxFifo)
      /\ \A k \in 1 .. Len(jtRxFifo') : jtRxFifo'[k] = jtTaken' + k
  <2>1. \A k \in 1 .. Len(jtRxFifo) : jtRxFifo[k] = jtTaken + k
    <3>1. RxBase = jtTaken BY <1>2 DEF RxBase
    <3>2. \A k \in 1 .. Len(jtRxFifo) : jtRxFifo[k] = jtTaken + 0 + k
      BY <3>1, <1>6 DEF JtInv, JtRxFifoHolds
    <3>3. QED BY <3>2, <1>5
  <2>2. CASE UNCHANGED <<jtRxFifo, jtTaken>>
    BY <2>1, <2>2, <1>5
  <2>3. CASE jtRxFifo # <<>> /\ jtRxFifo' = Tail(jtRxFifo) /\ jtTaken' = jtTaken + 1
    <3>1. /\ jtRxFifo' \in Seq(Nat) /\ Len(jtRxFifo') = Len(jtRxFifo) - 1
          /\ \A k \in 1 .. Len(jtRxFifo) - 1 : jtRxFifo'[k] = jtRxFifo[k + 1]
      BY <2>3, <1>5, HeadTailProperties
    <3>2. ASSUME NEW k \in 1 .. Len(jtRxFifo) - 1 PROVE jtRxFifo'[k] = jtTaken' + k
      <4>1. k + 1 \in 1 .. Len(jtRxFifo) BY <1>5
      <4>2. jtRxFifo'[k] = jtTaken + (k + 1) BY <4>1, <2>1, <3>1
      <4>3. QED BY <4>2, <2>3, <1>5
    <3>3. jtTaken' \in Nat /\ jtTaken' + Len(jtRxFifo') = jtTaken + Len(jtRxFifo)
      BY <2>3, <3>1, <1>5
    <3>4. QED BY <3>1, <3>2, <3>3
  <2>4. QED BY <1>4, <2>2, <2>3
<1>9. CountTypes' /\ TxTypes' /\ RxTypes' /\ DriverTypes' /\ DeviceTypes'
  BY <1>1, <1>2, <1>8 DEF TxTypes, RxTypes, DriverTypes, DeviceTypes, CountTypes
<1>10. JtTypeInv'
  BY <1>7, <1>9, NextTypeParts
<1>11. JtModes' /\ JtInterruptsOn'
  BY <1>1, <1>2, <1>7 DEF JtModes, JtInterruptsOn, SmallPcs
<1>12. TxQuiet
  BY <1>2, <1>7 DEF TxQuiet
<1>13. RxBase' = jtTaken' /\ RxBase = jtTaken
  BY <1>2, <1>7 DEF RxBase
<1>14. JtRxFifoHolds'
  <2> SUFFICES ASSUME NEW k \in 1 .. Len(jtRxFifo')
               PROVE  jtRxFifo'[k] = jtTaken' + 0 + k
    BY <1>6, <1>13 DEF JtRxFifoHolds
  <2>1. jtTaken' + 0 + k = jtTaken' + k BY <1>8
  <2>2. QED BY <2>1, <1>8
<1>15. JtRxCount'
  <2>1. jtPut = jtTaken + 0 + Len(jtRxFifo) BY <1>6, <1>13 DEF JtInv, JtRxCount
  <2>2. Len(jtRxFifo') \in Nat BY <1>8, LenProperties
  <2>3. jtPut = jtTaken' + 0 + Len(jtRxFifo') BY <2>1, <2>2, <1>5, <1>8
  <2>4. QED BY <2>3, <1>2, <1>6, <1>13 DEF JtRxCount
<1>16. JtRxHolds'
  <2>1. \A k \in 0 .. 0 - 1 : FALSE OBVIOUS
  <2>2. QED BY <2>1, <1>6 DEF JtRxHolds
<1>17. QED BY <1>7, <1>10, <1>11, <1>12, <1>14, <1>15, <1>16 DEF ControlPart, RxPart

LEMMA SumBelow ==
  ASSUME NEW n \in Nat, NEW w \in Nat, NEW v \in 0 .. w, n + w < BUF_LEN
  PROVE  n + v < BUF_LEN
BY BufFacts

LEMMA PlusZero == ASSUME NEW n \in Nat PROVE n + 0 + 1 = n + 1
OBVIOUS

LEMMA JtIsrKeeps ==
  ASSUME JtInv, JtIsr
  PROVE  ControlPart' /\ TxPart' /\ RxPart'
<1>1. /\ JtTypeInv /\ CallTypes /\ DriverTypes /\ DeviceTypes /\ RxTypes /\ TxTypes
      /\ CountTypes
      /\ RxPart /\ TxPart /\ JtCalls
  BY JtTypeParts DEF JtInv, RxPart, TxPart
<1>2. /\ UNCHANGED <<jtSmall, jtPc, jtLeft, jtNonblock, jtMoved, jtIn, jtOut, jtN>>
      /\ UNCHANGED <<jtTimeout, host_inactive, rx_out, tx_in, tx_buf, jtAc, jtHost,
                     jtSent, jtGot, jtPut, jtTaken>>
      /\ JtReceive /\ JtSend
  BY DEF JtIsr, jtCall, jtWatch, jtCounts
<1>3. irq_enable' = (irq_enable \ (IF RI /\ Len(jtRxFifo) > RxRoom THEN {"RE"} ELSE {}))
                               \ (IF WI /\ Drained(JtFifo - Len(jtTxFifo)) THEN {"WE"} ELSE {})
  BY DEF JtIsr
<1>4. /\ RxPart' /\ RxUsed' >= RxUsed
      /\ rx_in' \in Slots /\ rx_buf' \in [Slots -> Nat] /\ jtRxFifo' \in Seq(Nat)
      /\ RI /\ Len(jtRxFifo) > RxRoom => rx_in' # rx_out'
      /\ rx_in = rx_out \/ rx_in' # rx_out'
  <2>1. UNCHANGED <<rx_out, jtPut, jtTaken, jtPc, jtN>> BY <1>2
  <2>2. QED BY <1>1, <1>2, <2>1, JtReceives
<1>5. /\ TxPart' /\ TxWaiting' \in 0 .. TxWaiting
      /\ tx_out' \in Slots /\ jtTxFifo' \in Seq(Nat)
      /\ WI /\ Drained(JtFifo - Len(jtTxFifo)) => tx_in' = tx_out'
      /\ tx_in' # tx_out' => tx_in # tx_out
  <2>1. UNCHANGED <<tx_in, tx_buf, jtSent, jtGot, jtPc, jtN, jtIn>> BY <1>2
  <2>2. QED BY <1>1, <1>2, <2>1, JtSends
<1>6. irq_enable' \subseteq irq_enable /\ ~jtSmall
  <2>1. irq_enable' \subseteq irq_enable BY <1>3
  <2>2. irq_enable # {} BY DEF JtIsr, RI, WI
  <2>3. QED BY <2>1, <2>2 DEF JtInv, JtModes
<1>7. CallTypes'
  BY <1>1, <1>2, Zenon DEF CallTypes
<1>8. CountTypes' /\ TxTypes' /\ RxTypes' /\ DriverTypes' /\ DeviceTypes'
  BY <1>1, <1>2, <1>4, <1>5, <1>6
  DEF TxTypes, RxTypes, DriverTypes, DeviceTypes, CountTypes
<1>9. JtTypeInv'
  BY <1>7, <1>8, NextTypeParts
<1>10. JtModes'
  BY <1>2, <1>6 DEF JtInv, JtModes
<1>11. JtCalls'
  <2>1. jtPc \in Fill => jtN + TxWaiting' < BUF_LEN
    <3> SUFFICES ASSUME jtPc \in Fill PROVE jtN + TxWaiting' < BUF_LEN
      OBVIOUS
    <3>1. jtN + TxWaiting < BUF_LEN BY <1>1 DEF JtCalls
    <3>2. jtN \in Nat /\ TxWaiting \in Nat BY <1>1, CallNumbers, RingNumbers
    <3>3. TxWaiting' \in 0 .. TxWaiting BY <1>5
    <3>4. QED BY <3>1, <3>2, <3>3, SumBelow
  <2>2. jtPc \in Drain => jtN <= RxUsed'
    <3> SUFFICES ASSUME jtPc \in Drain PROVE jtN <= RxUsed'
      OBVIOUS
    <3>1. jtN <= RxUsed BY <1>1 DEF JtCalls
    <3>2. jtN \in Nat /\ RxUsed \in Nat BY <1>1, CallNumbers, RingNumbers
    <3>3. RxUsed' \in Nat
      <4>1. rx_out \in Slots /\ rx_out' = rx_out BY <1>1, <1>2 DEF RxTypes
      <4>2. RxUsed' \in Slots BY <4>1, <1>4, UsedFacts DEF RxUsed
      <4>3. QED BY <4>2, BufFacts DEF Slots
    <3>4. RxUsed' >= RxUsed BY <1>4
    <3>5. QED BY <3>1, <3>2, <3>3, <3>4
  <2>3. QED BY <1>1, <1>2, <2>1, <2>2 DEF JtCalls
<1>12. "WE" \notin irq_enable' => tx_in' = tx_out' \/ "WE" \notin irq_enable
  BY <1>3, <1>5
<1>13. "RE" \notin irq_enable' => rx_in' # rx_out' \/ "RE" \notin irq_enable
  BY <1>3, <1>4
<1>14. JtInterruptsOn'
  BY <1>2, <1>4, <1>5, <1>12, <1>13 DEF JtInv, JtInterruptsOn
<1>15. QED BY <1>4, <1>5, <1>9, <1>10, <1>11, <1>14 DEF ControlPart

LEMMA JtParts == JtInv <=> ControlPart /\ TxPart /\ RxPart
BY DEF JtInv, ControlPart, TxPart, RxPart

LEMMA NextJtParts == JtInv' <=> ControlPart' /\ TxPart' /\ RxPart'
BY JtParts, PTL

LEMMA JtInitInv == JtInit => JtInv
<1> SUFFICES ASSUME JtInit PROVE JtInv
  OBVIOUS
<1>1. /\ jtPc = "idle" /\ jtLeft = 0 /\ jtNonblock = FALSE /\ jtMoved = FALSE
      /\ jtIn = 0 /\ jtOut = 0 /\ jtN = 0 /\ host_inactive = 0 /\ jtSmall \in BOOLEAN
      /\ rx_in = 0 /\ rx_out = 0 /\ rx_buf = [k \in Slots |-> 0]
      /\ tx_in = 0 /\ tx_out = 0 /\ tx_buf = [k \in Slots |-> 0]
      /\ jtRxFifo = <<>> /\ jtTxFifo = <<>> /\ jtAc = FALSE /\ jtHost = TRUE
      /\ jtSent = 0 /\ jtGot = 0 /\ jtPut = 0 /\ jtTaken = 0
      /\ irq_enable = IF jtSmall THEN {} ELSE {"RE"}
      /\ jtTimeout \in JtTimeouts
  BY DEF JtInit
<1>2. 0 \in Slots /\ 0 \in 0 .. BUF_LEN /\ 0 \in Nat
  BY BufFacts DEF Slots
<1>3. CallTypes
  BY <1>1, <1>2, Zenon DEF CallTypes
<1>4. DriverTypes /\ CountTypes
  BY <1>1, <1>2, JtAssumption DEF DriverTypes, CountTypes
<1>5. RxTypes /\ TxTypes /\ DeviceTypes
  BY <1>1, <1>2, EmptySeq DEF RxTypes, TxTypes, DeviceTypes
<1>6. JtTypeInv
  BY <1>3, <1>4, <1>5, JtTypeParts
<1>7. TxWaiting = 0 /\ RxUsed = 0
  BY <1>1, <1>6, EmptyFacts
<1>8. JtModes /\ JtInterruptsOn /\ JtCalls
  BY <1>1 DEF JtModes, JtInterruptsOn, JtCalls, SmallPcs, Fill, Drain
<1>9. Len(jtTxFifo) = 0 /\ Len(jtRxFifo) = 0 /\ RxBase = 0
  BY <1>1 DEF RxBase
<1>10. (\A k \in 1 .. 0 : FALSE) /\ (\A k \in 0 .. 0 - 1 : FALSE) /\ 0 + 0 + 0 = 0
  OBVIOUS
<1>11. TxPart
  BY <1>1, <1>7, <1>9, <1>10 DEF TxPart, JtTxFifoHolds, JtTxCount, JtTxHolds, JtTxCopied
<1>12. RxPart
  BY <1>1, <1>7, <1>9, <1>10 DEF RxPart, JtRxFifoHolds, JtRxCount, JtRxHolds
<1>13. QED BY <1>6, <1>8, <1>11, <1>12, JtParts DEF ControlPart

LEMMA JtStepInv ==
  ASSUME JtInv, JtNext
  PROVE  JtInv'
<1>1. TxPart /\ RxPart
  BY JtParts
<1>2. ControlPart' /\ (TxQuiet \/ TxPart') /\ (RxQuiet \/ RxPart')
  <2>1. CASE JtWrite \/ JtRead \/ JtClose BY <2>1, JtBeginsKeep
  <2>2. CASE JtIoctl \/ JtAlarm \/ JtHostLeaves BY <2>2, JtAsidesKeep
  <2>3. CASE JtWriteLook BY <2>3, JtWriteLookKeeps
  <2>4. CASE JtCopy BY <2>4, JtCopyKeeps
  <2>5. CASE JtPublish BY <2>5, JtPublishKeeps
  <2>6. CASE JtKick BY <2>6, JtKickKeeps
  <2>7. CASE JtWriteWait BY <2>7, JtWriteWaitKeeps
  <2>8. CASE JtReadLook BY <2>8, JtReadLookKeeps
  <2>9. CASE JtTake BY <2>9, JtTakeKeeps
  <2>10. CASE JtRelease BY <2>10, JtReleaseKeeps
  <2>11. CASE JtReadWait BY <2>11, JtReadWaitKeeps
  <2>12. CASE JtEnable BY <2>12, JtEnableKeeps
  <2>13. CASE JtCloseWait BY <2>13, JtCloseWaitKeeps
  <2>14. CASE JtSmallWrite BY <2>14, JtSmallWriteKeeps
  <2>15. CASE JtSmallRead BY <2>15, JtSmallReadKeeps
  <2>16. CASE JtIsr BY <2>16, JtIsrKeeps
  <2>17. CASE JtHostTakes BY <2>17, JtHostTakesKeeps
  <2>18. CASE JtHostSends BY <2>18, JtHostSendsKeeps
  <2>19. QED
    BY <2>1, <2>2, <2>3, <2>4, <2>5, <2>6, <2>7, <2>8, <2>9, <2>10, <2>11, <2>12,
                <2>13, <2>14, <2>15, <2>16, <2>17, <2>18 DEF JtNext, JtFast
<1>3. QED BY <1>1, <1>2, TxKept, RxKept, NextJtParts

LEMMA JtStutterInv ==
  ASSUME JtInv, UNCHANGED jtVars
  PROVE  JtInv'
<1>1. AsideStays /\ UNCHANGED <<jtTimeout, host_inactive, jtAc, jtHost>>
  BY DEF jtVars, AsideStays, RingsStay, jtCall, jtRx, jtTx, jtDevice, jtCounts, jtWatch
<1>2. /\ jtTimeout \in Nat /\ host_inactive \in 0 .. JtForever
      /\ jtAc \in BOOLEAN /\ jtHost \in BOOLEAN /\ TxPart /\ RxPart
  BY JtTypeParts, JtParts DEF JtInv, DriverTypes, DeviceTypes
<1>3. ControlPart' /\ TxQuiet /\ RxQuiet
  BY <1>1, <1>2, AsideKeeps
<1>4. QED BY <1>2, <1>3, TxKept, RxKept, NextJtParts

LEMMA HasFirst ==
  ASSUME NEW s \in Seq(Nat), s # <<>>
  PROVE  1 \in 1 .. Len(s)
<1>1. Len(s) \in Nat /\ Len(s) # 0 BY EmptySeq, LenProperties
<1>2. QED BY <1>1

\* What the rings hold is what the order properties say of them.
LEMMA JtInvSafe == JtInv => JtSafe
<1> SUFFICES ASSUME JtInv PROVE JtSafe
  OBVIOUS
<1>1. JtTypeInv /\ JtInterruptsOn /\ TxPart /\ RxPart
  BY JtParts DEF JtInv
<1>2. CallTypes /\ CountTypes /\ DeviceTypes
  BY <1>1, JtTypeParts
<1>3. JtTxOrder
  BY <1>1 DEF TxPart, JtTxOrder, JtTxFifoHolds, JtTxCount
<1>4. jtPc = "take" => \A k \in 0 .. jtN - 1 : rx_buf[jtOut + k] = jtTaken + 1 + k
  <2> SUFFICES ASSUME jtPc = "take", NEW k \in 0 .. jtN - 1
               PROVE  rx_buf[jtOut + k] = jtTaken + 1 + k
    OBVIOUS
  <2>1. jtOut = rx_out /\ jtOut + jtN <= BUF_LEN /\ jtN <= RxUsed
    BY DEF JtInv, JtCalls, Drain
  <2>2. jtN \in Nat /\ rx_out \in Nat /\ RxUsed \in Nat
    BY <1>1, <1>2, CallNumbers, RingNumbers
  <2>3. k \in 0 .. RxUsed - 1 /\ Slot(rx_out + k) = rx_out + k
    BY <2>1, <2>2, BufFacts DEF Slot
  <2>4. RxBase = jtTaken
    BY DEF RxBase
  <2>5. rx_buf[Slot(rx_out + k)] = RxBase + 1 + k
    BY <2>3, <1>1 DEF RxPart, JtRxHolds
  <2>6. QED BY <2>1, <2>3, <2>4, <2>5
<1>5. jtPc = "small read" /\ jtRxFifo # <<>> => jtRxFifo[1] = jtTaken + 1
  <2> SUFFICES ASSUME jtPc = "small read", jtRxFifo # <<>>
               PROVE  jtRxFifo[1] = jtTaken + 1
    OBVIOUS
  <2>1. RxUsed = 0 /\ RxBase = jtTaken
    BY <1>1, EmptyFacts DEF JtInv, JtModes, SmallPcs, RxBase
  <2>2. 1 \in 1 .. Len(jtRxFifo)
    <3>1. jtRxFifo \in Seq(Nat) BY <1>2 DEF DeviceTypes
    <3>2. QED BY <3>1, HasFirst
  <2>3. jtRxFifo[1] = jtTaken + 0 + 1
    BY <2>1, <2>2, <1>1 DEF RxPart, JtRxFifoHolds
  <2>4. jtTaken + 0 + 1 = jtTaken + 1
    <3>1. jtTaken \in Nat BY <1>2 DEF CountTypes
    <3>2. QED BY <3>1, PlusZero
  <2>5. QED BY <2>3, <2>4
<1>6. jtPut + (IF jtPc = "release" THEN jtN ELSE 0)
        = jtTaken + Used(rx_in, rx_out) + Len(jtRxFifo)
  <2>1. jtPut = RxBase + RxUsed + Len(jtRxFifo)
    BY <1>1 DEF RxPart, JtRxCount
  <2>2. /\ jtPut \in Nat /\ jtTaken \in Nat /\ jtN \in Nat /\ RxUsed \in Nat
        /\ Len(jtRxFifo) \in Nat
    BY <1>1, <1>2, CallNumbers, RingNumbers, LenProperties DEF CountTypes, DeviceTypes
  <2>3. CASE jtPc = "release"
    <3>1. RxBase = jtTaken - jtN BY <2>3 DEF RxBase
    <3>2. jtPut + jtN = jtTaken + RxUsed + Len(jtRxFifo) BY <3>1, <2>1, <2>2
    <3>3. QED BY <3>2, <2>3 DEF RxUsed
  <2>4. CASE jtPc # "release"
    <3>1. RxBase = jtTaken BY <2>4 DEF RxBase
    <3>2. jtPut + 0 = jtTaken + RxUsed + Len(jtRxFifo) BY <3>1, <2>1, <2>2
    <3>3. QED BY <3>2, <2>4 DEF RxUsed
  <2>5. QED BY <2>3, <2>4
<1>7. QED BY <1>1, <1>3, <1>4, <1>5, <1>6 DEF JtSafe, JtRxOrder

-----------------------------------------------------------------------------
\* The alarms: the links are each other's inverse.
Linked == \A n \in Nodes : haPrev[haNext[n]] = n /\ haNext[haPrev[n]] = n

\* Going back from a listed alarm leads to the head: there is no other ring.
OneRing == \A S \in SUBSET HaAlarms :
             (\A a \in S : haPrev[a] \in S) => \A a \in S : ~Listed(a)

\* The walk: where it is and where it goes next.
Cursor == /\ haAt = HaList => haSaved = HaList
          /\ haAt # HaList => /\ haSaved # haAt
                              /\ Listed(haAt) => haSaved = haNext[haAt]
          /\ haSaved # HaList => Listed(haSaved)

\* The time of an alarm in the list, on the clock that wraps.
OnClock(a) ==
  /\ haLeft[a] \in 0 .. HaRoll - 1
  /\ haTime[a] = IF NowRolled(a) THEN alt_nticks + haLeft[a] - HaRoll ELSE alt_nticks + haLeft[a]
Clocks == \A a \in HaAlarms : Listed(a) \/ a = haAt => OnClock(a)

\* What alt_tick has looked at is not due; the rest lies ahead of it.
Seen(a) == haLeft[a] > 0 /\ (haRollover[a] <=> NowRolled(a))
Ahead(S) == haSaved \in S /\ \A n \in S \ {HaList} : haNext[n] \in S
Walked == \A S \in SUBSET Nodes : Ahead(S) =>
            \A a \in HaAlarms : Listed(a) /\ a # haAt => Seen(a) \/ a \in S
HaInv == HaTypeInv /\ Linked /\ OneRing /\ Cursor /\ Clocks /\ Walked

LEMMA NodeFacts == /\ HaList \in Nodes /\ HaList \notin HaAlarms
                   /\ \A a \in HaAlarms : a \in Nodes /\ a # HaList
                   /\ \A n \in Nodes : n # HaList => n \in HaAlarms
BY HaAssumption DEF Nodes

LEMMA RollFacts == HaRoll \in Nat /\ HaRoll > 1
BY HaAssumption

LinkTypes == haNext \in [Nodes -> Nodes] /\ haPrev \in [Nodes -> Nodes]

LEMMA InsertKeeps ==
  ASSUME LinkTypes, Linked, OneRing, NEW a \in HaAlarms, ~Listed(a),
         haNext' = InsertedNext(a), haPrev' = InsertedPrev(a)
  PROVE  /\ LinkTypes' /\ Linked' /\ OneRing' /\ haNext'[a] # a
         /\ \A n \in Nodes : n # a /\ n # HaList => haNext'[n] = haNext[n]
<1> DEFINE first == haNext[HaList]
<1>1. a \in Nodes /\ a # HaList /\ HaList \in Nodes /\ first \in Nodes
  BY NodeFacts DEF LinkTypes
<1>2. haNext[a] = a /\ haPrev[a] = a /\ haPrev[first] = HaList
  BY <1>1 DEF Listed, Linked
<1>3. first # a
  BY <1>1, <1>2
<1>4. /\ haNext' = [haNext EXCEPT ![a] = first, ![HaList] = a]
      /\ haPrev' = [[haPrev EXCEPT ![first] = a] EXCEPT ![a] = HaList]
  BY DEF InsertedNext, InsertedPrev
<1> HIDE DEF first
<1>5. LinkTypes'
  BY <1>1, <1>4 DEF LinkTypes
<1>6. /\ haNext'[a] = first /\ haNext'[HaList] = a
      /\ \A n \in Nodes : n # a /\ n # HaList => haNext'[n] = haNext[n]
  BY <1>1, <1>4 DEF LinkTypes
<1>7. /\ haPrev'[first] = a /\ haPrev'[a] = HaList
      /\ \A n \in Nodes : n # a /\ n # first => haPrev'[n] = haPrev[n]
  BY <1>1, <1>3, <1>4 DEF LinkTypes
<1>8. Linked'
  <2> SUFFICES ASSUME NEW n \in Nodes
               PROVE  haPrev'[haNext'[n]] = n /\ haNext'[haPrev'[n]] = n
    BY DEF Linked
  <2>1. /\ haNext[n] \in Nodes /\ haPrev[haNext[n]] = n
        /\ haPrev[n] \in Nodes /\ haNext[haPrev[n]] = n
    BY DEF Linked, LinkTypes
  <2>2. haPrev'[haNext'[n]] = n
    <3>1. CASE n = a BY <3>1, <1>6, <1>7
    <3>2. CASE n = HaList BY <3>2, <1>6, <1>7
    <3>3. CASE n # a /\ n # HaList
      <4>1. haNext'[n] = haNext[n] BY <3>3, <1>6
      <4>2. haNext[n] # a /\ haNext[n] # first BY <2>1, <3>3, <1>2
      <4>3. QED BY <4>1, <4>2, <2>1, <1>7
    <3>4. QED BY <3>1, <3>2, <3>3
  <2>3. haNext'[haPrev'[n]] = n
    <3>1. CASE n = a BY <3>1, <1>6, <1>7
    <3>2. CASE n = first BY <3>2, <1>6, <1>7
    <3>3. CASE n # a /\ n # first
      <4>1. haPrev'[n] = haPrev[n] BY <3>3, <1>7
      <4>2. haPrev[n] # a /\ haPrev[n] # HaList BY <2>1, <3>3, <1>2 DEF first
      <4>3. QED BY <4>1, <4>2, <2>1, <1>6
    <3>4. QED BY <3>1, <3>2, <3>3
  <2>4. QED BY <2>2, <2>3
<1>9. OneRing'
  <2> SUFFICES ASSUME NEW S \in SUBSET HaAlarms, \A b \in S : haPrev'[b] \in S, NEW b \in S
               PROVE  haNext'[b] = b
    BY DEF OneRing, Listed
  <2>1. HaList \notin S /\ S \subseteq Nodes BY NodeFacts
  <2>2. a \notin S BY <2>1, <1>7
  <2>3. first \notin S BY <2>2, <1>7
  <2>4. \A c \in S : haPrev[c] \in S BY <2>1, <2>2, <2>3, <1>7
  <2>5. haNext[b] = b BY <2>4 DEF OneRing, Listed
  <2>6. QED BY <2>1, <2>2, <2>5, <1>6
<1>10. QED BY <1>3, <1>5, <1>6, <1>8, <1>9

\* A listed alarm cannot have its neighbour on both sides: the head is there.
LEMMA NoPair ==
  ASSUME LinkTypes, Linked, OneRing, NEW a \in HaAlarms, NEW b \in HaAlarms,
         haNext[a] = b, haNext[b] = a
  PROVE  a = b
<1>1. haPrev[b] = a /\ haPrev[a] = b
  BY NodeFacts DEF Linked
<1>2. {a, b} \in SUBSET HaAlarms /\ \A c \in {a, b} : haPrev[c] \in {a, b}
  BY <1>1
<1>3. ~Listed(a)
  BY <1>2 DEF OneRing
<1>4. QED BY <1>3 DEF Listed

LEMMA RemoveKeeps ==
  ASSUME LinkTypes, Linked, OneRing, NEW a \in HaAlarms,
         haNext' = RemovedNext(a), haPrev' = RemovedPrev(a)
  PROVE  /\ LinkTypes' /\ Linked' /\ OneRing' /\ haNext'[a] = a
         /\ \A n \in Nodes : n # a /\ n # haPrev[a] => haNext'[n] = haNext[n]
         /\ haPrev[a] # a => haNext'[haPrev[a]] = haNext[a]
         /\ \A b \in HaAlarms : b # a => (haNext'[b] # b <=> Listed(b))
<1> DEFINE p == haPrev[a]
           q == haNext[a]
<1>1. a \in Nodes /\ a # HaList /\ HaList \in Nodes /\ p \in Nodes /\ q \in Nodes
  BY NodeFacts DEF LinkTypes
<1>2. haNext[p] = a /\ haPrev[q] = a
  BY <1>1 DEF Linked
<1>3. /\ haNext' = [[haNext EXCEPT ![p] = q] EXCEPT ![a] = a]
      /\ haPrev' = [[haPrev EXCEPT ![q] = p] EXCEPT ![a] = a]
  BY DEF RemovedNext, RemovedPrev
<1>4. p = a <=> q = a
  BY <1>2
<1> HIDE DEF p, q
<1>5. LinkTypes'
  BY <1>1, <1>3 DEF LinkTypes
<1>6. /\ haNext'[a] = a /\ (p # a => haNext'[p] = q)
      /\ \A n \in Nodes : n # a /\ n # p => haNext'[n] = haNext[n]
  BY <1>1, <1>3 DEF LinkTypes
<1>7. /\ haPrev'[a] = a /\ (q # a => haPrev'[q] = p)
      /\ \A n \in Nodes : n # a /\ n # q => haPrev'[n] = haPrev[n]
  BY <1>1, <1>3 DEF LinkTypes
<1>8. Linked'
  <2> SUFFICES ASSUME NEW n \in Nodes
               PROVE  haPrev'[haNext'[n]] = n /\ haNext'[haPrev'[n]] = n
    BY DEF Linked
  <2>1. /\ haNext[n] \in Nodes /\ haPrev[haNext[n]] = n
        /\ haPrev[n] \in Nodes /\ haNext[haPrev[n]] = n
    BY DEF Linked, LinkTypes
  <2>2. haPrev'[haNext'[n]] = n
    <3>1. CASE n = a BY <3>1, <1>6, <1>7
    <3>2. CASE n = p /\ n # a BY <3>2, <1>4, <1>6, <1>7
    <3>3. CASE n # a /\ n # p
      <4>1. haNext'[n] = haNext[n] BY <3>3, <1>6
      <4>2. haNext[n] # a /\ haNext[n] # q BY <2>1, <3>3, <1>2 DEF p
      <4>3. QED BY <4>1, <4>2, <2>1, <1>7
    <3>4. QED BY <3>1, <3>2, <3>3
  <2>3. haNext'[haPrev'[n]] = n
    <3>1. CASE n = a BY <3>1, <1>6, <1>7
    <3>2. CASE n = q /\ n # a BY <3>2, <1>4, <1>6, <1>7
    <3>3. CASE n # a /\ n # q
      <4>1. haPrev'[n] = haPrev[n] BY <3>3, <1>7
      <4>2. haPrev[n] # a /\ haPrev[n] # p BY <2>1, <3>3, <1>2 DEF q
      <4>3. QED BY <4>1, <4>2, <2>1, <1>6
    <3>4. QED BY <3>1, <3>2, <3>3
  <2>4. QED BY <2>2, <2>3
<1>9. ASSUME NEW b \in HaAlarms, b # a PROVE haNext'[b] # b <=> Listed(b)
  <2>1. b \in Nodes BY NodeFacts
  <2>2. CASE b # p BY <2>1, <2>2, <1>6, <1>9 DEF Listed
  <2>3. CASE b = p
    <3>1. haNext[b] = a /\ haNext'[b] = q BY <2>3, <1>2, <1>6, <1>9
    <3>2. q # b
      <4>1. SUFFICES ASSUME q = b PROVE FALSE
        OBVIOUS
      <4>2. QED BY <3>1, <4>1, <1>9, NoPair DEF q
    <3>3. QED BY <3>1, <3>2, <1>9 DEF Listed
  <2>4. QED BY <2>2, <2>3
<1>10. OneRing'
  <2> SUFFICES ASSUME NEW S \in SUBSET HaAlarms, \A b \in S : haPrev'[b] \in S, NEW b \in S
               PROVE  haNext'[b] = b
    BY DEF OneRing, Listed
  <2>1. CASE q \in S /\ q # a
    <3> DEFINE T == S \cup {a}
    <3>1. p \in S BY <2>1, <1>7
    <3>2. T \in SUBSET HaAlarms OBVIOUS
    <3>3. ASSUME NEW c \in T PROVE haPrev[c] \in T
      <4>1. CASE c = a BY <4>1, <3>1 DEF p
      <4>2. CASE c = q BY <4>2, <1>2
      <4>3. CASE c # a /\ c # q
        <5>1. c \in S /\ c \in Nodes BY <4>3, NodeFacts
        <5>2. QED BY <4>3, <5>1, <1>7
      <4>4. QED BY <4>1, <4>2, <4>3
    <3>4. ~Listed(q) BY <3>2, <3>3, <2>1 DEF OneRing
    <3>5. haNext[q] = q BY <3>4 DEF Listed
    <3>6. haPrev[haNext[q]] = q BY <1>1 DEF Linked
    <3>7. QED BY <3>5, <3>6, <1>2, <2>1
  <2>2. CASE ~(q \in S /\ q # a)
    <3> DEFINE T == S \ {a}
    <3>1. T \in SUBSET HaAlarms OBVIOUS
    <3>2. ASSUME NEW c \in T PROVE haPrev[c] \in T
      <4>1. c \in Nodes /\ c # a /\ c # q /\ c \in S BY <2>2, NodeFacts
      <4>2. haPrev[c] \in S BY <4>1, <1>7
      <4>3. haPrev[c] # a
        <5>1. haNext[haPrev[c]] = c BY <4>1 DEF Linked
        <5>2. QED BY <5>1, <4>1 DEF q
      <4>4. QED BY <4>2, <4>3
    <3>3. \A c \in T : ~Listed(c) BY <3>1, <3>2 DEF OneRing
    <3>4. CASE b = a BY <3>4, <1>6
    <3>5. CASE b # a BY <3>3, <3>5, <1>9
    <3>6. QED BY <3>4, <3>5
  <2>3. QED BY <2>1, <2>2
<1>11. QED BY <1>5, <1>6, <1>8, <1>9, <1>10 DEF p, q

-----------------------------------------------------------------------------
Wrapped(x) == IF x < HaRoll THEN x ELSE x - HaRoll

LEMMA WrapFacts ==
  ASSUME NEW x \in 0 .. 2 * HaRoll - 1
  PROVE  x % HaRoll = Wrapped(x) /\ Wrapped(x) \in 0 .. HaRoll - 1
<1>1. CASE x < HaRoll BY <1>1, RollFacts DEF Wrapped
<1>2. CASE x >= HaRoll BY <1>2, RollFacts DEF Wrapped
<1>3. QED BY <1>1, <1>2, RollFacts

LEMMA ClockNumbers ==
  ASSUME HaTypeInv, NEW a \in HaAlarms
  PROVE  /\ alt_nticks \in Nat /\ alt_nticks < HaRoll /\ haTime[a] \in Nat /\ haTime[a] < HaRoll
         /\ haLeft[a] \in Int /\ haRollover[a] \in BOOLEAN
<1>1. /\ alt_nticks \in 0 .. HaRoll - 1 /\ haTime[a] \in 0 .. HaRoll - 1
      /\ haLeft[a] \in Int /\ haRollover[a] \in BOOLEAN
  BY DEF HaTypeInv
<1>2. QED BY <1>1, RollFacts

LEMMA SameClock ==
  ASSUME NEW a \in HaAlarms, haLeft'[a] = haLeft[a], haTime'[a] = haTime[a],
         haRollover'[a] = haRollover[a], alt_nticks' = alt_nticks
  PROVE  /\ OnClock(a) => OnClock(a)'
         /\ Seen(a) => Seen(a)'
BY DEF OnClock, Seen, NowRolled

\* A time that was just asked for.
LEMMA NewClock ==
  ASSUME HaTypeInv, NEW a \in HaAlarms, NEW ticks \in 1 .. HaRoll - 1, haLeft'[a] = ticks,
         haTime'[a] = (alt_nticks + ticks) % HaRoll, haRollover'[a] = (haTime'[a] < alt_nticks),
         alt_nticks' = alt_nticks
  PROVE  OnClock(a)' /\ Seen(a)'
<1>1. /\ alt_nticks \in Nat /\ alt_nticks < HaRoll /\ ticks \in Nat
      /\ ticks > 0 /\ ticks < HaRoll
  BY ClockNumbers, RollFacts
<1>2. haTime'[a] = Wrapped(alt_nticks + ticks)
  <2>1. alt_nticks + ticks \in 0 .. 2 * HaRoll - 1 BY <1>1, RollFacts
  <2>2. (alt_nticks + ticks) % HaRoll = Wrapped(alt_nticks + ticks)
    BY <2>1, WrapFacts
  <2>3. QED BY <2>2, Zenon
<1>3. haLeft'[a] \in 0 .. HaRoll - 1 /\ haLeft'[a] > 0
  BY <1>1, RollFacts
<1>4. CASE alt_nticks + ticks < HaRoll
  <2>1. haTime'[a] = alt_nticks' + haLeft'[a] /\ ~(haTime'[a] < alt_nticks)
    BY <1>1, <1>2, <1>4, RollFacts DEF Wrapped
  <2>2. ~haRollover'[a] BY <2>1
  <2>3. QED BY <1>3, <2>1, <2>2 DEF OnClock, Seen, NowRolled
<1>5. CASE alt_nticks + ticks >= HaRoll
  <2>1. /\ haTime'[a] = alt_nticks' + haLeft'[a] - HaRoll /\ haTime'[a] < alt_nticks
        /\ alt_nticks' # 0
    BY <1>1, <1>2, <1>5, RollFacts DEF Wrapped
  <2>2. haRollover'[a] BY <2>1
  <2>3. QED BY <1>3, <2>1, <2>2 DEF OnClock, Seen, NowRolled
<1>6. QED BY <1>1, <1>4, <1>5, RollFacts

\* One tick later, also over the wrap of the counter.
LEMMA TickClock ==
  ASSUME HaTypeInv, NEW a \in HaAlarms, OnClock(a), Seen(a), haLeft'[a] = haLeft[a] - 1,
         haTime'[a] = haTime[a], haRollover'[a] = haRollover[a],
         alt_nticks' = (alt_nticks + 1) % HaRoll
  PROVE  OnClock(a)'
<1>1. /\ alt_nticks \in Nat /\ alt_nticks < HaRoll /\ haTime[a] \in Nat
      /\ haTime[a] < HaRoll
      /\ haLeft[a] \in Int /\ haRollover[a] \in BOOLEAN
  BY ClockNumbers
<1>2. alt_nticks' = Wrapped(alt_nticks + 1)
  <2>1. alt_nticks + 1 \in 0 .. 2 * HaRoll - 1 BY <1>1, RollFacts
  <2>2. (alt_nticks + 1) % HaRoll = Wrapped(alt_nticks + 1)
    BY <2>1, WrapFacts
  <2>3. QED BY <2>2, Zenon
<1>3. haLeft[a] > 0 /\ haLeft[a] < HaRoll /\ haLeft'[a] \in 0 .. HaRoll - 1
  BY <1>1, RollFacts DEF OnClock, Seen
<1>4. CASE haRollover[a]
  <2>1. haTime[a] = alt_nticks + haLeft[a] - HaRoll BY <1>4 DEF OnClock, Seen
  <2>2. CASE alt_nticks + 1 < HaRoll
    <3>1. alt_nticks' # 0 /\ haTime[a] = alt_nticks' + haLeft'[a] - HaRoll
      BY <1>1, <1>2, <1>3, <2>1, <2>2, RollFacts DEF Wrapped
    <3>2. QED BY <3>1, <1>3, <1>4 DEF OnClock, NowRolled
  <2>3. CASE ~(alt_nticks + 1 < HaRoll)
    <3>1. alt_nticks' = 0 /\ haTime[a] = alt_nticks' + haLeft'[a]
      BY <1>1, <1>2, <1>3, <2>1, <2>3, RollFacts DEF Wrapped
    <3>2. QED BY <3>1, <1>3, <1>4 DEF OnClock, NowRolled
  <2>4. QED BY <2>2, <2>3
<1>5. CASE ~haRollover[a]
  <2>1. haTime[a] = alt_nticks + haLeft[a] BY <1>5 DEF OnClock, NowRolled
  <2>2. haTime[a] = alt_nticks' + haLeft'[a]
    BY <1>1, <1>2, <1>3, <2>1, RollFacts DEF Wrapped
  <2>3. QED BY <2>2, <1>3, <1>5 DEF OnClock, NowRolled
<1>6. QED BY <1>4, <1>5

LEMMA DueFacts ==
  ASSUME HaTypeInv, NEW a \in HaAlarms, OnClock(a)
  PROVE  /\ Due(a) <=> haLeft[a] <= 0
         /\ haLeft[a] >= 0 /\ haLeft[a] < HaRoll
         /\ Due(a) => haTime[a] = alt_nticks /\ haLeft[a] = 0
         /\ ~Due(a) => haLeft[a] > 0
<1>1. /\ alt_nticks \in Nat /\ alt_nticks < HaRoll /\ haTime[a] \in Nat
      /\ haTime[a] < HaRoll
      /\ haLeft[a] \in Int /\ haLeft[a] >= 0 /\ haLeft[a] < HaRoll
  BY ClockNumbers, RollFacts DEF OnClock
<1>2. CASE NowRolled(a)
  <2>1. haTime[a] = alt_nticks + haLeft[a] - HaRoll BY <1>2 DEF OnClock
  <2>2. haLeft[a] > 0 BY <2>1, <1>1, RollFacts
  <2>3. ~Due(a) BY <1>2 DEF Due
  <2>4. ~(haLeft[a] <= 0) BY <1>1, <2>2
  <2>5. QED BY <2>2, <2>3, <2>4, <1>1
<1>3. CASE ~NowRolled(a)
  <2>1. haTime[a] = alt_nticks + haLeft[a] BY <1>3 DEF OnClock
  <2>2. Due(a) <=> haTime[a] <= alt_nticks BY <1>3 DEF Due
  <2>3. haTime[a] <= alt_nticks <=> haLeft[a] <= 0 BY <2>1, <1>1
  <2>4. haLeft[a] <= 0 => haTime[a] = alt_nticks /\ haLeft[a] = 0 BY <2>1, <1>1
  <2>5. ~(haLeft[a] <= 0) => haLeft[a] > 0 BY <1>1
  <2>6. QED BY <2>2, <2>3, <2>4, <2>5, <1>1
<1>4. QED BY <1>2, <1>3

LEMMA PassClock ==
  ASSUME HaTypeInv, NEW a \in HaAlarms, OnClock(a), ~Due(a), haLeft'[a] = haLeft[a],
         haTime'[a] = haTime[a], haRollover'[a] = NowRolled(a), alt_nticks' = alt_nticks
  PROVE  OnClock(a)' /\ Seen(a)'
<1>1. haLeft[a] > 0
  BY DueFacts
<1>2. NowRolled(a)' <=> NowRolled(a)
  BY DEF NowRolled
<1>3. haRollover'[a] <=> NowRolled(a)'
  BY <1>2
<1>4. QED BY <1>1, <1>2, <1>3 DEF OnClock, Seen

-----------------------------------------------------------------------------

LEMMA TypesHave == HaTypeInv => LinkTypes /\ haAt \in Nodes /\ haSaved \in Nodes
BY DEF HaTypeInv, LinkTypes

\* What the walk does next: the node after a listed one is listed or the head.
LEMMA NextFacts ==
  ASSUME LinkTypes, Linked, NEW a \in HaAlarms, Listed(a)
  PROVE  haNext[a] \in Nodes /\ haNext[a] # a /\ (haNext[a] # HaList => Listed(haNext[a]))
<1>1. a \in Nodes /\ haNext[a] \in Nodes /\ haPrev[haNext[a]] = a /\ haNext[a] # a
  BY NodeFacts DEF LinkTypes, Linked, Listed
<1>2. haNext[haNext[a]] # haNext[a]
  <2>1. haPrev[haNext[haNext[a]]] = haNext[a] BY <1>1 DEF Linked
  <2>2. QED BY <2>1, <1>1
<1>3. QED BY <1>1, <1>2 DEF Listed

LEMMA FirstFacts ==
  ASSUME LinkTypes, Linked
  PROVE  haNext[HaList] \in Nodes /\ (haNext[HaList] # HaList => Listed(haNext[HaList]))
<1>1. HaList \in Nodes /\ haNext[HaList] \in Nodes /\ haPrev[haNext[HaList]] = HaList
  BY NodeFacts DEF LinkTypes, Linked
<1>2. haNext[HaList] # HaList => haNext[haNext[HaList]] # haNext[HaList]
  <2>1. haPrev[haNext[haNext[HaList]]] = haNext[HaList] BY <1>1 DEF Linked
  <2>2. QED BY <2>1, <1>1
<1>3. QED BY <1>1, <1>2 DEF Listed

LEMMA HaStartKeeps ==
  ASSUME HaInv, NEW a \in HaAlarms, HaStart(a)
  PROVE  HaInv'
<1>1. /\ HaTypeInv /\ Linked /\ OneRing /\ Cursor /\ Clocks /\ Walked /\ LinkTypes
      /\ haAt \in Nodes /\ haSaved \in Nodes
  BY TypesHave DEF HaInv
<1>2. /\ ~Listed(a) /\ a # haAt /\ haNext' = InsertedNext(a)
      /\ haPrev' = InsertedPrev(a)
      /\ alt_nticks' = alt_nticks /\ haAt' = haAt /\ haSaved' = haSaved
  BY DEF HaStart
<1>3. PICK delay \in HaDelays :
        /\ haTime' = [haTime EXCEPT ![a] = DueTick(delay + alt_nticks + 1)]
        /\ haRollover' = [haRollover EXCEPT ![a] = Rolled(DueTick(delay + alt_nticks + 1), alt_nticks)]
        /\ haLeft' = [haLeft EXCEPT ![a] = delay + 1]
  BY DEF HaStart
<1>4. /\ LinkTypes' /\ Linked' /\ OneRing' /\ haNext'[a] # a
      /\ \A n \in Nodes : n # a /\ n # HaList => haNext'[n] = haNext[n]
  BY <1>1, <1>2, InsertKeeps
<1> DEFINE time == DueTick(delay + alt_nticks + 1)
<1>5. /\ delay + 1 \in 1 .. HaRoll - 1 /\ time = (alt_nticks + (delay + 1)) % HaRoll
      /\ time \in 0 .. HaRoll - 1
  <2>1. delay \in 0 .. HaRoll - 2 BY HaAssumption
  <2>2. alt_nticks \in Nat /\ alt_nticks < HaRoll BY <1>1, ClockNumbers
  <2>3. /\ delay + 1 \in 1 .. HaRoll - 1
        /\ delay + alt_nticks + 1 = alt_nticks + (delay + 1)
        /\ delay + alt_nticks + 1 \in 0 .. 2 * HaRoll - 1
    BY <2>1, <2>2, RollFacts
  <2>4. (delay + alt_nticks + 1) % HaRoll \in 0 .. HaRoll - 1
    BY <2>3, WrapFacts
  <2>5. QED BY <2>3, <2>4 DEF DueTick
<1>6. /\ haTime' = [haTime EXCEPT ![a] = time]
      /\ haRollover' = [haRollover EXCEPT ![a] = (time < alt_nticks)]
  BY <1>3 DEF Rolled
<1> HIDE DEF time
<1>7. /\ haTime \in [HaAlarms -> 0..HaRoll - 1] /\ haRollover \in [HaAlarms -> BOOLEAN]
      /\ haLeft \in [HaAlarms -> Int] /\ alt_nticks \in 0 .. HaRoll - 1
  BY <1>1 DEF HaTypeInv
<1>8. /\ haTime' \in [HaAlarms -> 0..HaRoll - 1]
      /\ haRollover' \in [HaAlarms -> BOOLEAN]
      /\ haLeft' \in [HaAlarms -> Int]
  <2>1. delay + 1 \in Int BY <1>5, RollFacts
  <2>2. (time < alt_nticks) \in BOOLEAN OBVIOUS
  <2>3. QED BY <1>3, <1>5, <1>6, <1>7, <2>1, <2>2
<1>9. HaTypeInv'
  BY <1>1, <1>2, <1>4, <1>7, <1>8 DEF HaTypeInv, LinkTypes
<1>10. /\ haTime'[a] = time /\ haRollover'[a] = (time < alt_nticks)
       /\ haLeft'[a] = delay + 1
       /\ \A b \in HaAlarms : b # a => /\ haTime'[b] = haTime[b] /\ haRollover'[b] = haRollover[b]
                                       /\ haLeft'[b] = haLeft[b]
  BY <1>3, <1>6, <1>7
<1>11. OnClock(a)' /\ Seen(a)'
  BY <1>1, <1>2, <1>5, <1>10, NewClock
<1>12. \A b \in HaAlarms : b # a => (haNext'[b] # b <=> Listed(b))
  BY <1>4, NodeFacts DEF Listed
<1>13. Cursor'
  <2>1. haSaved # a
    BY <1>1, <1>2, NodeFacts DEF Cursor
  <2>2. haSaved # HaList => haNext'[haSaved] # haSaved
    BY <2>1, <1>1, <1>12, NodeFacts DEF Cursor
  <2>3. haAt # HaList /\ haNext'[haAt] # haAt => haSaved = haNext'[haAt]
    <3> SUFFICES ASSUME haAt # HaList, haNext'[haAt] # haAt
                 PROVE  haSaved = haNext'[haAt]
      OBVIOUS
    <3>1. haNext'[haAt] = haNext[haAt] BY <1>1, <1>2, <1>4
    <3>2. QED BY <3>1, <1>1 DEF Cursor, Listed
  <2>4. (haAt = HaList => haSaved = HaList) /\ (haAt # HaList => haSaved # haAt)
    BY <1>1 DEF Cursor
  <2>5. QED BY <1>2, <2>2, <2>3, <2>4 DEF Cursor, Listed
<1>14. Clocks'
  <2> SUFFICES ASSUME NEW b \in HaAlarms, haNext'[b] # b \/ b = haAt PROVE OnClock(b)'
    BY <1>2 DEF Clocks, Listed
  <2>1. CASE b = a BY <2>1, <1>11
  <2>2. CASE b # a
    <3>1. OnClock(b) BY <2>2, <1>1, <1>12 DEF Clocks
    <3>2. QED BY <2>2, <3>1, <1>2, <1>10, SameClock
  <2>3. QED BY <2>1, <2>2
<1>15. Walked'
  <2> SUFFICES ASSUME NEW S \in SUBSET Nodes, Ahead(S)',
                      NEW b \in HaAlarms, haNext'[b] # b, b # haAt
               PROVE  Seen(b)' \/ b \in S
    BY <1>2 DEF Walked, Listed
  <2>1. CASE b = a BY <2>1, <1>11
  <2>2. CASE b # a
    <3>1. Ahead(S)
      <4>1. haSaved \in S /\ \A n \in S \ {HaList} : haNext'[n] \in S BY <1>2 DEF Ahead
      <4>2. ASSUME NEW n \in S \ {HaList} PROVE haNext[n] \in S
        <5>1. CASE n = a BY <5>1, <1>2 DEF Listed
        <5>2. CASE n # a BY <5>2, <4>1, <1>4
        <5>3. QED BY <5>1, <5>2
      <4>3. QED BY <4>1, <4>2 DEF Ahead
    <3>2. Seen(b) \/ b \in S BY <2>2, <3>1, <1>1, <1>12 DEF Walked
    <3>3. Seen(b) => Seen(b)' BY <2>2, <1>2, <1>10, SameClock
    <3>4. QED BY <3>2, <3>3
  <2>3. QED BY <2>1, <2>2
<1>16. QED BY <1>4, <1>9, <1>13, <1>14, <1>15 DEF HaInv

LEMMA HaTickKeeps ==
  ASSUME HaInv, HaTick
  PROVE  HaInv'
<1>1. /\ HaTypeInv /\ Linked /\ OneRing /\ Cursor /\ Clocks /\ Walked /\ LinkTypes
  BY TypesHave DEF HaInv
<1>2. /\ haAt = HaList /\ alt_nticks' = (alt_nticks + 1) % HaRoll
      /\ haLeft' = [a \in HaAlarms |-> IF Listed(a) /\ haLeft[a] >= 0 THEN haLeft[a] - 1 ELSE haLeft[a]]
      /\ haAt' = haNext[HaList]
      /\ haSaved' = (IF haNext[HaList] = HaList THEN HaList ELSE haNext[haNext[HaList]])
      /\ UNCHANGED <<haNext, haPrev, haTime, haRollover>>
  BY DEF HaTick, HaVisit, haLinks
<1>3. /\ haTime \in [HaAlarms -> 0..HaRoll - 1] /\ haRollover \in [HaAlarms -> BOOLEAN]
      /\ haLeft \in [HaAlarms -> Int] /\ alt_nticks \in 0 .. HaRoll - 1
  BY <1>1 DEF HaTypeInv
<1>4. alt_nticks' \in 0 .. HaRoll - 1
  <2>1. alt_nticks + 1 \in 0 .. 2 * HaRoll - 1 BY <1>3, RollFacts
  <2>2. (alt_nticks + 1) % HaRoll \in 0 .. HaRoll - 1 BY <2>1, WrapFacts
  <2>3. QED BY <2>2, <1>2
<1>5. haLeft' \in [HaAlarms -> Int]
  BY <1>2, <1>3
<1> DEFINE first == haNext[HaList]
<1>6. /\ first \in Nodes
      /\ first # HaList => /\ first \in HaAlarms /\ Listed(first) /\ haNext[first] \in Nodes
                           /\ haNext[first] # first
                           /\ (haNext[first] # HaList => Listed(haNext[first]))
  BY <1>1, FirstFacts, NextFacts, NodeFacts
<1>7. HaTypeInv'
  <2>1. haAt' \in Nodes /\ haSaved' \in Nodes BY <1>2, <1>6, NodeFacts
  <2>2. QED BY <1>1, <1>2, <1>3, <1>4, <1>5, <2>1 DEF HaTypeInv
<1>8. Linked' /\ OneRing'
  BY <1>1, <1>2 DEF Linked, OneRing, Listed
<1>9. Cursor'
  BY <1>2, <1>6 DEF Cursor, Listed
\* Everything in the list had been looked at before the tick.
<1>10. ASSUME NEW a \in HaAlarms, Listed(a) PROVE OnClock(a) /\ Seen(a)
  <2>1. {HaList} \in SUBSET Nodes /\ Ahead({HaList})
    BY <1>1, <1>2, NodeFacts DEF Ahead, Cursor
  <2>2. a # HaList /\ a # haAt BY <1>2, NodeFacts
  <2>3. QED BY <1>1, <1>10, <2>1, <2>2 DEF Walked, Clocks
<1>11. Clocks'
  <2> SUFFICES ASSUME NEW a \in HaAlarms, Listed(a) PROVE OnClock(a)'
    <3>1. \A a \in HaAlarms : haNext'[a] # a \/ a = haAt' => Listed(a)
      BY <1>2, <1>6, NodeFacts DEF Listed
    <3>2. QED BY <3>1 DEF Clocks, Listed
  <2>1. OnClock(a) /\ Seen(a) BY <1>10
  <2>2. haLeft'[a] = haLeft[a] - 1
    <3>1. haLeft[a] >= 0 BY <1>1, <2>1, DueFacts
    <3>2. QED BY <3>1, <1>2
  <2>3. QED BY <1>1, <1>2, <2>1, <2>2, TickClock
<1>12. Walked'
  <2> SUFFICES ASSUME NEW S \in SUBSET Nodes, Ahead(S)',
                      NEW b \in HaAlarms, Listed(b), b # first
               PROVE  b \in S
    BY <1>2 DEF Walked, Listed
  <2>1. haSaved' \in S /\ \A n \in S \ {HaList} : haNext[n] \in S BY <1>2 DEF Ahead
  <2> DEFINE C == {c \in HaAlarms : c \notin S /\ c # first}
  <2>2. ASSUME NEW c \in C PROVE haPrev[c] \in C
    <3>1. c \in Nodes /\ haPrev[c] \in Nodes /\ haNext[haPrev[c]] = c
      BY <1>1, NodeFacts DEF LinkTypes, Linked
    <3>2. haPrev[c] # HaList BY <3>1
    <3>3. haPrev[c] \notin S BY <2>1, <3>1, <3>2
    <3>4. haPrev[c] # first
      <4> SUFFICES ASSUME haPrev[c] = first PROVE FALSE
        OBVIOUS
      <4>1. first # HaList /\ haNext[first] = c BY <3>1, <3>2
      <4>2. haSaved' = c BY <4>1, <1>2
      <4>3. QED BY <4>2, <2>1
    <3>5. QED BY <3>1, <3>2, <3>3, <3>4, NodeFacts
  <2>3. C \in SUBSET HaAlarms OBVIOUS
  <2>4. \A c \in C : ~Listed(c) BY <2>2, <2>3, <1>1 DEF OneRing
  <2>5. QED BY <2>4
<1>13. QED BY <1>7, <1>8, <1>9, <1>11, <1>12 DEF HaInv

\* The walk goes on from haAt while its links and clocks stay.
LEMMA MovesOn ==
  ASSUME HaInv, NEW a \in HaAlarms, haAt = a, haAt' = haSaved,
         haSaved' = (IF haSaved = HaList THEN HaList ELSE haNext[haSaved]),
         UNCHANGED alt_nticks,
         \A b \in HaAlarms : b # a => /\ haLeft'[b] = haLeft[b] /\ haTime'[b] = haTime[b]
                                     /\ haRollover'[b] = haRollover[b],
         haTime' \in [HaAlarms -> 0..HaRoll - 1], haRollover' \in [HaAlarms -> BOOLEAN],
         haLeft' \in [HaAlarms -> Int],
         haNext'[a] = a \/ (OnClock(a)' /\ Seen(a)'),
         LinkTypes', Linked', OneRing',
         \A b \in HaAlarms : b # a => (haNext'[b] # b <=> Listed(b)),
         \A n \in Nodes : n # a /\ n # haPrev[a] => haNext'[n] = haNext[n]
  PROVE  HaInv'
<1>1. /\ HaTypeInv /\ Linked /\ OneRing /\ Cursor /\ Clocks /\ Walked /\ LinkTypes
      /\ a \in Nodes /\ haSaved \in Nodes /\ a # HaList
  BY TypesHave, NodeFacts DEF HaInv
<1> DEFINE s == haSaved
<1>2. /\ s # a /\ (s # HaList => s \in HaAlarms /\ Listed(s))
      /\ (Listed(a) => s = haNext[a])
  BY <1>1, NodeFacts DEF Cursor
<1>3. s # HaList => /\ haNext[s] \in Nodes /\ haNext[s] # s
                    /\ (haNext[s] # HaList => Listed(haNext[s]) /\ haNext[s] \in HaAlarms)
  BY <1>1, <1>2, NextFacts, NodeFacts
\* Two alarms alone are never a ring.
<1>4. s # HaList => haNext[s] # a
  <2> SUFFICES ASSUME s # HaList, haNext[s] = a PROVE FALSE
    OBVIOUS
  <2>1. Listed(a)
    <3>1. s \in Nodes /\ haPrev[haNext[s]] = s BY <1>1 DEF Linked
    <3>2. haPrev[a] = s BY <3>1
    <3>3. haNext[a] # a
      <4>1. haPrev[haNext[a]] = a BY <1>1 DEF Linked
      <4>2. QED BY <4>1, <3>2, <1>2
    <3>4. QED BY <3>3 DEF Listed
  <2>2. haNext[a] = s BY <2>1, <1>2
  <2>3. QED BY <2>2, <1>1, <1>2, NoPair
<1>5. HaTypeInv'
  <2>1. alt_nticks' \in 0 .. HaRoll - 1 BY <1>1 DEF HaTypeInv
  <2>2. haAt' \in Nodes /\ haSaved' \in Nodes BY <1>1, <1>3, NodeFacts
  <2>3. QED BY <2>1, <2>2 DEF HaTypeInv, LinkTypes
<1>6. Cursor'
  <2>1. haSaved' # HaList => haNext'[haSaved'] # haSaved'
    BY <1>2, <1>3, <1>4 DEF Listed
  <2>2. s # HaList => haNext'[s] = haNext[s]
    <3> SUFFICES ASSUME s # HaList PROVE haNext'[s] = haNext[s]
      OBVIOUS
    <3>1. s # haPrev[a]
      <4>1. haNext[haPrev[a]] = a BY <1>1 DEF Linked
      <4>2. QED BY <4>1, <1>4
    <3>2. QED BY <3>1, <1>1, <1>2
  <2>3. haAt' = HaList => haSaved' = HaList OBVIOUS
  <2>4. haAt' # HaList => haSaved' # haAt' /\ haSaved' = haNext'[haAt']
    BY <1>3, <2>2
  <2>5. QED BY <2>1, <2>3, <2>4 DEF Cursor, Listed
<1>7. Clocks'
  <2> SUFFICES ASSUME NEW b \in HaAlarms, haNext'[b] # b \/ b = haAt' PROVE OnClock(b)'
    BY DEF Clocks, Listed
  <2>1. CASE b = a BY <2>1, <1>2
  <2>2. CASE b # a
    <3>1. Listed(b) BY <2>2, <1>2, NodeFacts
    <3>2. OnClock(b) BY <3>1, <1>1 DEF Clocks
    <3>3. QED BY <2>2, <3>2, SameClock
  <2>3. QED BY <2>1, <2>2
<1>8. Walked'
  <2> SUFFICES ASSUME NEW S \in SUBSET Nodes, Ahead(S)',
                      NEW b \in HaAlarms, haNext'[b] # b, b # s
               PROVE  Seen(b)' \/ b \in S
    BY DEF Walked, Listed
  <2>1. CASE b = a BY <2>1
  <2>2. CASE b # a
    <3>1. Listed(b) /\ (Seen(b) => Seen(b)')
      BY <2>2, SameClock
    <3> DEFINE T == S \cup {s, a}
    <3>2. haSaved' \in S /\ \A n \in S \ {HaList} : haNext'[n] \in S BY DEF Ahead
    <3>3. T \in SUBSET Nodes BY <1>1
    <3>4. CASE Listed(a)
      <4>1. ASSUME NEW n \in T \ {HaList} PROVE haNext[n] \in T
        <5>1. CASE n = a BY <5>1, <1>2 DEF Listed
        <5>2. CASE n = s BY <5>2, <3>2
        <5>3. CASE n # a /\ n # s /\ n = haPrev[a]
          <6>1. haNext[haPrev[a]] = a BY <1>1 DEF Linked
          <6>2. QED BY <6>1, <5>3
        <5>4. CASE n # a /\ n # s /\ n # haPrev[a]
          <6>1. haNext'[n] = haNext[n] BY <5>4, <3>3
          <6>2. QED BY <6>1, <3>2, <5>4
        <5>5. QED BY <5>1, <5>2, <5>3, <5>4
      <4>2. Ahead(T) BY <4>1 DEF Ahead
      <4>3. Seen(b) \/ b \in T BY <4>2, <3>1, <3>3, <2>2, <1>1 DEF Walked
      <4>4. QED BY <4>3, <3>1, <2>2
    <3>5. CASE ~Listed(a)
      <4> DEFINE U == (S \cup {s}) \ {a}
      <4>1. haNext[a] = a /\ haPrev[a] = a
        BY <3>5, <1>1 DEF Listed, Linked
      <4>2. ASSUME NEW n \in U \ {HaList} PROVE haNext[n] \in U
        <5>1. haNext[n] # a
          <6>1. haPrev[haNext[n]] = n BY <1>1, <3>3 DEF Linked
          <6>2. QED BY <6>1, <4>1
        <5>2. CASE n = s BY <5>1, <5>2, <3>2
        <5>3. CASE n # s
          <6>1. haNext'[n] = haNext[n] BY <4>1, <3>3
          <6>2. QED BY <6>1, <3>2, <5>1, <5>3
        <5>4. QED BY <5>2, <5>3
      <4>3. Ahead(U) BY <4>2, <1>2 DEF Ahead
      <4>4. U \in SUBSET Nodes BY <3>3
      <4>5. Seen(b) \/ b \in U BY <4>3, <4>4, <3>1, <2>2, <1>1 DEF Walked
      <4>6. QED BY <4>5, <3>1
    <3>6. QED BY <3>4, <3>5
  <2>3. QED BY <2>1, <2>2
<1>9. QED BY <1>5, <1>6, <1>7, <1>8 DEF HaInv

LEMMA HaStopKeeps ==
  ASSUME HaInv, NEW a \in HaAlarms, HaStop(a)
  PROVE  HaInv'
<1>1. /\ HaTypeInv /\ Linked /\ OneRing /\ Cursor /\ Clocks /\ Walked /\ LinkTypes
      /\ haAt \in Nodes /\ haSaved \in Nodes /\ a \in Nodes /\ a # HaList
  BY TypesHave, NodeFacts DEF HaInv
<1>3. haNext' = RemovedNext(a) /\ haPrev' = RemovedPrev(a)
  BY DEF HaStop, HaStopped
<1>4. /\ LinkTypes' /\ Linked' /\ OneRing' /\ haNext'[a] = a
      /\ \A n \in Nodes : n # a /\ n # haPrev[a] => haNext'[n] = haNext[n]
      /\ \A b \in HaAlarms : b # a => (haNext'[b] # b <=> Listed(b))
  BY <1>1, <1>3, RemoveKeeps
<1>5. haAt = HaList \/ haAt = a
  BY DEF HaStop
<1>6. haSaved # a /\ (haSaved # HaList => haAt = a)
  BY <1>1, <1>5 DEF Cursor
<1>7. UNCHANGED <<alt_nticks, haTime, haRollover, haAt, haSaved, haLeft>>
  BY DEF HaStop
<1>8. HaTypeInv'
  BY <1>1, <1>4, <1>7 DEF HaTypeInv, LinkTypes
<1>9. Cursor'
  <2>1. haSaved # HaList => haNext'[haSaved] # haSaved
    BY <1>1, <1>4, <1>6, NodeFacts DEF Cursor, Listed
  <2>2. haAt # HaList => haNext'[haAt] = haAt
    BY <1>4, <1>5
  <2>3. QED BY <2>1, <2>2, <1>1, <1>7 DEF Cursor, Listed
<1>10. \A b \in HaAlarms : (OnClock(b) => OnClock(b)') /\ (Seen(b) => Seen(b)')
  BY <1>7, SameClock
<1>11. Clocks'
  <2> SUFFICES ASSUME NEW b \in HaAlarms, haNext'[b] # b \/ b = haAt PROVE OnClock(b)'
    BY <1>7 DEF Clocks, Listed
  <2>1. Listed(b) \/ b = haAt BY <1>4
  <2>2. OnClock(b) BY <2>1, <1>1 DEF Clocks
  <2>3. QED BY <2>2, <1>10
<1>12. Walked'
  <2> SUFFICES ASSUME NEW S \in SUBSET Nodes, Ahead(S)',
                      NEW b \in HaAlarms, haNext'[b] # b, b # haAt
               PROVE  Seen(b)' \/ b \in S
    BY <1>7 DEF Walked, Listed
  <2>1. b # a /\ Listed(b) BY <1>4
  <2>2. CASE haAt = a
    <3> DEFINE T == S \cup {a}
    <3>1. haSaved \in S /\ \A n \in S \ {HaList} : haNext'[n] \in S BY <1>7 DEF Ahead
    <3>2. haNext[a] = a \/ haNext[a] = haSaved BY <2>2, <1>1 DEF Cursor, Listed
    <3>3. ASSUME NEW n \in T \ {HaList} PROVE haNext[n] \in T
      <4>1. CASE n = a BY <4>1, <3>1, <3>2
      <4>2. CASE n = haPrev[a]
        <5>1. haNext[haPrev[a]] = a BY <1>1 DEF Linked
        <5>2. QED BY <5>1, <4>2
      <4>3. CASE n # a /\ n # haPrev[a]
        <5>1. n \in Nodes /\ n \in S \ {HaList} BY <4>3
        <5>2. haNext'[n] = haNext[n] BY <5>1, <4>3, <1>4
        <5>3. QED BY <5>1, <5>2, <3>1
      <4>4. QED BY <4>1, <4>2, <4>3
    <3>4. Ahead(T) BY <3>1, <3>3 DEF Ahead
    <3>5. T \in SUBSET Nodes BY <1>1
    <3>6. Seen(b) \/ b \in T BY <3>4, <3>5, <2>1, <2>2, <1>1 DEF Walked
    <3>7. QED BY <3>6, <2>1, <1>10
  <2>3. CASE haAt = HaList
    <3>1. {HaList} \in SUBSET Nodes /\ Ahead({HaList})
      BY <2>3, <1>1, NodeFacts DEF Ahead, Cursor
    <3>2. b # HaList BY NodeFacts
    <3>3. Seen(b) BY <3>1, <3>2, <2>1, <2>3, <1>1 DEF Walked
    <3>4. QED BY <3>3, <1>10
  <2>4. QED BY <2>2, <2>3, <1>5
<1>13. QED BY <1>4, <1>8, <1>9, <1>11, <1>12 DEF HaInv

LEMMA HaPassKeeps == ASSUME HaInv, HaPass PROVE HaInv'
<1>0. PICK a \in HaAlarms : haAt = a
  BY TypesHave, NodeFacts DEF HaInv, HaPass
<1>1. /\ HaTypeInv /\ Linked /\ OneRing /\ Clocks /\ LinkTypes /\ a \in HaAlarms
  BY TypesHave, NodeFacts, <1>0 DEF HaInv, HaPass
<1>2. /\ ~Due(a) /\ haRollover' = [haRollover EXCEPT ![a] = NowRolled(a)]
      /\ haAt' = haSaved
      /\ haSaved' = (IF haSaved = HaList THEN HaList ELSE haNext[haSaved])
      /\ UNCHANGED <<alt_nticks, haNext, haPrev, haTime, haLeft>>
  BY <1>0 DEF HaPass, HaVisit, haLinks
<1>3. /\ haTime \in [HaAlarms -> 0..HaRoll - 1] /\ haRollover \in [HaAlarms -> BOOLEAN]
      /\ haLeft \in [HaAlarms -> Int]
  BY <1>1 DEF HaTypeInv
<1>4. NowRolled(a) \in BOOLEAN
  BY <1>1, <1>3 DEF NowRolled
<1>5. /\ haRollover' \in [HaAlarms -> BOOLEAN] /\ haRollover'[a] = NowRolled(a)
      /\ \A b \in HaAlarms : b # a => haRollover'[b] = haRollover[b]
  BY <1>1, <1>2, <1>3, <1>4, Zenon
<1>6. OnClock(a)
  BY <1>0, <1>1 DEF Clocks
<1>7. OnClock(a)' /\ Seen(a)'
  BY <1>1, <1>2, <1>5, <1>6, PassClock
<1>8. LinkTypes' /\ Linked' /\ OneRing'
  BY <1>1, <1>2 DEF LinkTypes, Linked, OneRing, Listed
<1>9. \A b \in HaAlarms : b # a => (haNext'[b] # b <=> Listed(b))
  BY <1>2 DEF Listed
<1>10. haAt = a
  BY <1>0
<1>11. QED BY <1>1, <1>2, <1>3, <1>5, <1>7, <1>8, <1>9, <1>10, MovesOn

LEMMA HaDoneKeeps == ASSUME HaInv, HaDone PROVE HaInv'
<1>0. PICK a \in HaAlarms : haAt = a
  BY TypesHave, NodeFacts DEF HaInv, HaDone
<1>1. /\ HaTypeInv /\ Linked /\ OneRing /\ Clocks /\ Cursor /\ LinkTypes
      /\ a \in HaAlarms
      /\ a \in Nodes /\ haSaved \in Nodes
  BY TypesHave, NodeFacts, <1>0 DEF HaInv, HaDone
<1>2. /\ haRollover' = [haRollover EXCEPT ![a] = FALSE]
      /\ haNext' = RemovedNext(a) /\ haPrev' = RemovedPrev(a)
      /\ haAt' = haSaved
      /\ haSaved' = (IF haSaved = HaList THEN HaList ELSE haNext[haSaved])
      /\ UNCHANGED <<alt_nticks, haTime, haLeft>>
  BY <1>0 DEF HaDone, HaVisit, HaStopped
<1>3. /\ haTime \in [HaAlarms -> 0..HaRoll - 1] /\ haRollover \in [HaAlarms -> BOOLEAN]
      /\ haLeft \in [HaAlarms -> Int]
  BY <1>1 DEF HaTypeInv
<1>4. /\ haRollover' \in [HaAlarms -> BOOLEAN]
      /\ \A b \in HaAlarms : b # a => haRollover'[b] = haRollover[b]
  BY <1>1, <1>2, <1>3
<1>5. haAt = a
  BY <1>0
<1>6. /\ LinkTypes' /\ Linked' /\ OneRing' /\ haNext'[a] = a
      /\ \A n \in Nodes : n # a /\ n # haPrev[a] => haNext'[n] = haNext[n]
      /\ \A b \in HaAlarms : b # a => (haNext'[b] # b <=> Listed(b))
  BY <1>1, <1>2, RemoveKeeps
<1>7. QED BY <1>1, <1>2, <1>3, <1>4, <1>5, <1>6, MovesOn

LEMMA HaRepeatKeeps == ASSUME HaInv, HaRepeat PROVE HaInv'
<1>0. PICK a \in HaAlarms : haAt = a
  BY TypesHave, NodeFacts DEF HaInv, HaRepeat
<1>1. /\ HaTypeInv /\ Linked /\ OneRing /\ Clocks /\ LinkTypes /\ a \in HaAlarms
  BY TypesHave, NodeFacts, <1>0 DEF HaInv, HaRepeat
<1>2. PICK ticks \in HaAgain :
        /\ haTime' = [haTime EXCEPT ![a] = DueTick(haTime[a] + ticks)]
        /\ haRollover' = [haRollover EXCEPT ![a] = Rolled(DueTick(haTime[a] + ticks), alt_nticks)]
        /\ haLeft' = [haLeft EXCEPT ![a] = haLeft[a] + ticks]
  BY <1>0 DEF HaRepeat
<1>3. /\ Due(a) /\ haAt' = haSaved
      /\ haSaved' = (IF haSaved = HaList THEN HaList ELSE haNext[haSaved])
      /\ UNCHANGED <<alt_nticks, haNext, haPrev>>
  BY <1>0 DEF HaRepeat, HaVisit, haLinks
<1>4. /\ haTime \in [HaAlarms -> 0..HaRoll - 1] /\ haRollover \in [HaAlarms -> BOOLEAN]
      /\ haLeft \in [HaAlarms -> Int]
  BY <1>1 DEF HaTypeInv
<1>5. OnClock(a)
  BY <1>0, <1>1 DEF Clocks
<1>6. haAt = a
  BY <1>0
<1>7. haTime[a] = alt_nticks /\ haLeft[a] = 0
  BY <1>1, <1>3, <1>5, DueFacts
<1>8. ticks \in 1 .. HaRoll - 1
  BY HaAssumption
<1> DEFINE time == (alt_nticks + ticks) % HaRoll
<1>9. /\ haTime' = [haTime EXCEPT ![a] = time]
      /\ haRollover' = [haRollover EXCEPT ![a] = (time < alt_nticks)]
      /\ haLeft' = [haLeft EXCEPT ![a] = 0 + ticks]
  BY <1>2, <1>7 DEF DueTick, Rolled
<1>10. time \in 0 .. HaRoll - 1 /\ 0 + ticks = ticks /\ ticks \in Int
  <2>1. alt_nticks \in Nat /\ alt_nticks < HaRoll BY <1>1, ClockNumbers
  <2>2. alt_nticks + ticks \in 0 .. 2 * HaRoll - 1 /\ 0 + ticks = ticks /\ ticks \in Int
    BY <2>1, <1>8, RollFacts
  <2>3. time \in 0 .. HaRoll - 1 BY <2>2, WrapFacts
  <2>4. QED BY <2>2, <2>3
<1>11. (time < alt_nticks) \in BOOLEAN
  OBVIOUS
<1> HIDE DEF time
<1>12. /\ haTime' \in [HaAlarms -> 0..HaRoll - 1]
       /\ haRollover' \in [HaAlarms -> BOOLEAN]
       /\ haLeft' \in [HaAlarms -> Int]
       /\ haTime'[a] = time /\ haRollover'[a] = (time < alt_nticks)
       /\ haLeft'[a] = ticks
       /\ \A b \in HaAlarms : b # a => /\ haTime'[b] = haTime[b] /\ haRollover'[b] = haRollover[b]
                                       /\ haLeft'[b] = haLeft[b]
  BY <1>1, <1>4, <1>9, <1>10, <1>11
<1>13. OnClock(a)' /\ Seen(a)'
  <2>1. haTime'[a] = (alt_nticks + ticks) % HaRoll BY <1>12 DEF time
  <2>2. haRollover'[a] = (haTime'[a] < alt_nticks) BY <1>12
  <2>3. QED BY <2>1, <2>2, <1>1, <1>3, <1>8, <1>12, NewClock
<1>14. LinkTypes' /\ Linked' /\ OneRing'
  BY <1>1, <1>3 DEF LinkTypes, Linked, OneRing, Listed
<1>15. \A b \in HaAlarms : b # a => (haNext'[b] # b <=> Listed(b))
  BY <1>3 DEF Listed
<1>16. QED BY <1>1, <1>3, <1>6, <1>12, <1>13, <1>14, <1>15, MovesOn

LEMMA HaInitInv == HaInit => HaInv
<1> SUFFICES ASSUME HaInit PROVE HaInv
  OBVIOUS
<1>1. /\ haNext = [n \in Nodes |-> n] /\ haPrev = [n \in Nodes |-> n]
      /\ haAt = HaList /\ haSaved = HaList
  BY DEF HaInit
<1>2. \A a \in HaAlarms : ~Listed(a) /\ a # haAt
  BY <1>1, NodeFacts DEF Listed
<1>3. HaTypeInv
  <2>1. 0 \in 0 .. HaRoll - 1 /\ 0 \in Int BY RollFacts
  <2>2. QED BY <1>1, <2>1, NodeFacts DEF HaInit, HaTypeInv
<1>4. Linked /\ OneRing /\ Cursor
  BY <1>1, <1>2 DEF Linked, OneRing, Cursor
<1>5. Clocks /\ Walked
  BY <1>2 DEF Clocks, Walked
<1>6. QED BY <1>3, <1>4, <1>5 DEF HaInv

LEMMA HaStepInv == ASSUME HaInv, HaNextStep PROVE HaInv'
<1>1. CASE HaTick BY <1>1, HaTickKeeps
<1>2. CASE HaServe BY <1>2, HaPassKeeps, HaDoneKeeps, HaRepeatKeeps DEF HaServe
<1>3. ASSUME NEW a \in HaAlarms, HaStart(a) \/ HaStop(a) PROVE HaInv'
  BY <1>3, HaStartKeeps, HaStopKeeps
<1>4. QED BY <1>1, <1>2, <1>3 DEF HaNextStep

LEMMA HaStutterInv == ASSUME HaInv, UNCHANGED haVars PROVE HaInv'
<1>1. UNCHANGED <<alt_nticks, haNext, haPrev, haTime, haRollover, haAt, haSaved, haLeft>>
  BY DEF haVars, haLinks
<1>2. HaTypeInv' /\ Linked' /\ OneRing' /\ Cursor'
  BY <1>1 DEF HaInv, HaTypeInv, Linked, OneRing, Cursor, Listed
<1>3. Clocks' /\ Walked'
  BY <1>1 DEF HaInv, Clocks, OnClock, NowRolled, Walked, Ahead, Seen, Listed
<1>4. QED BY <1>2, <1>3 DEF HaInv

LEMMA HaInvSafe == HaInv => HaSafe
<1> SUFFICES ASSUME HaInv PROVE HaSafe
  OBVIOUS
<1>1. /\ HaTypeInv /\ Linked /\ OneRing /\ Cursor /\ Clocks /\ Walked /\ LinkTypes
      /\ haAt \in Nodes
  BY TypesHave DEF HaInv
<1>2. HaRing
  <2>1. haNext[HaList] = HaList => \A a \in HaAlarms : ~Listed(a)
    <3> SUFFICES ASSUME haNext[HaList] = HaList PROVE \A a \in HaAlarms : ~Listed(a)
      OBVIOUS
    <3>1. ASSUME NEW a \in HaAlarms PROVE haPrev[a] \in HaAlarms
      <4>1. a \in Nodes /\ haPrev[a] \in Nodes /\ haNext[haPrev[a]] = a /\ a # HaList
        BY <1>1, NodeFacts DEF LinkTypes, Linked
      <4>2. QED BY <4>1, NodeFacts
    <3>2. QED BY <3>1, <1>1 DEF OneRing
  <2>2. ASSUME \A a \in HaAlarms : ~Listed(a) PROVE haNext[HaList] = HaList
    <3>1. /\ haNext[HaList] \in Nodes
          /\ haNext[HaList] # HaList => Listed(haNext[HaList])
      BY <1>1, FirstFacts
    <3>2. QED BY <3>1, <2>2, NodeFacts
  <2>3. QED BY <2>1, <2>2, <1>1 DEF HaRing, Linked, Cursor
<1>3. HaOnTime
  <2>1. ASSUME haAt # HaList
        PROVE  (Due(haAt) <=> haLeft[haAt] <= 0) /\ haLeft[haAt] >= 0
    <3>1. haAt \in HaAlarms /\ OnClock(haAt) BY <2>1, <1>1, NodeFacts DEF Clocks
    <3>2. QED BY <3>1, <1>1, DueFacts
  <2>2. ASSUME haAt = HaList, NEW a \in HaAlarms, Listed(a) PROVE haLeft[a] > 0
    <3>1. {HaList} \in SUBSET Nodes /\ Ahead({HaList})
      BY <2>2, <1>1, NodeFacts DEF Ahead, Cursor
    <3>2. a # HaList BY NodeFacts
    <3>3. QED BY <3>1, <3>2, <2>2, <1>1 DEF Walked, Seen
  <2>3. QED BY <2>1, <2>2 DEF HaOnTime
<1>4. QED BY <1>1, <1>2, <1>3 DEF HaSafe

-----------------------------------------------------------------------------
\* One part moves, the others stand still.
SafeInv == JtInv /\ HaInv

LEMMA InitSafeInv == Init => SafeInv
BY JtInitInv, HaInitInv DEF Init, SafeInv

LEMMA StepSafeInv ==
  ASSUME SafeInv, Uart(JtNext) \/ Alarms(HaNextStep) \/ Interrupts(HiNextStep)
  PROVE  SafeInv'
<1>1. CASE Uart(JtNext)
  <2>1. JtInv' BY <1>1, JtStepInv DEF Uart, SafeInv
  <2>2. HaInv' BY <1>1, HaStutterInv DEF Uart, SafeInv
  <2>3. QED BY <2>1, <2>2 DEF SafeInv
<1>2. CASE Alarms(HaNextStep)
  <2>1. JtInv' BY <1>2, JtStutterInv DEF Alarms, SafeInv
  <2>2. HaInv' BY <1>2, HaStepInv DEF Alarms, SafeInv
  <2>3. QED BY <2>1, <2>2 DEF SafeInv
<1>3. CASE Interrupts(HiNextStep)
  <2>1. JtInv' BY <1>3, JtStutterInv DEF Interrupts, SafeInv
  <2>2. HaInv' BY <1>3, HaStutterInv DEF Interrupts, SafeInv
  <2>3. QED BY <2>1, <2>2 DEF SafeInv
<1>4. QED BY <1>1, <1>2, <1>3

LEMMA StutterSafeInv == ASSUME SafeInv, UNCHANGED vars PROVE SafeInv'
BY JtStutterInv, HaStutterInv DEF vars, SafeInv

\* Every character goes through FIFO and ring once and in order, in both
\* directions and whatever is interrupted, and the interrupt that empties or
\* fills a ring stays enabled (altera_avalon_jtag_uart_read.c and _write.c);
\* the list of alarms stays one ring, and a callback runs at its tick over any
\* wrap of the clock (alt_tick.c, alt_alarm_start.c, alt_llist.h).
THEOREM UartAndAlarmsAreSafe == Spec => []UartAndAlarmsSafe
<1>1. SafeInv => UartAndAlarmsSafe
  BY JtInvSafe, HaInvSafe DEF SafeInv, UartAndAlarmsSafe
<1>2. QED BY <1>1, InitSafeInv, StepSafeInv, StutterSafeInv, PTL DEF Spec

=============================================================================
