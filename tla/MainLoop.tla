------------------------------ MODULE MainLoop ------------------------------
(***************************************************************************)
(* main() of the Nios II firmware: bring-up, restart and the supervision   *)
(* of the two HDMI receivers.                                              *)
(*                                                                         *)
(* One boot clears every output, latches the panel type, starts the clock  *)
(* generator for it, releases the DDR, programs the video output and the   *)
(* two ADV7613 (one I2C address, a chip select each) and switches the      *)
(* panel on.  The loop then watches the inputs that make it start over,    *)
(* beats the heart, reprograms the receivers when one reads as powered     *)
(* down and pulses the hot plug line of the eDP sink.  What a pass does    *)
(* with the video inputs and layers is module LayerControl.                *)
(*                                                                         *)
(* A register table is a sequence of segments, as far as their order       *)
(* matters.  Around the firmware: the DDR controllers lose and regain      *)
(* their PLL lock, the panel strap changes, the receivers lose power at    *)
(* any moment, and the link of the sink comes and goes.                    *)
(***************************************************************************)
EXTENDS Integers, Sequences

CONSTANTS MlPanels,     \* values of the panel strap that occur
          EDP_TIMEOUT,  \* passes with the link down before the hot plug pulse
          MlFaultMax    \* bound: losses of lock or power and strap changes

MFD_15INCH_TYPE == 2
MFD_12INCH_TYPE == 1
MFD_10INCH_TYPE == 0

ASSUME MlAssumption == /\ MlPanels \subseteq 0..3 /\ MlPanels # {}
                       /\ EDP_TIMEOUT \in Nat \ {0}
                       /\ MlFaultMax \in Nat

VARIABLES mlPc,        \* where main() is
          mlChip,      \* the receiver that is being programmed or read
          mlRow,       \* row of adv7613_registers that is written next
          mlBooted,    \* FALSE until the loop is entered
          lcd_type, edp_timer, heart, heart_bit,
          mlGpio,      \* the bits that are set in the output port
          mlClock,     \* the SI5332: running or not, and with which dividers
          mlCvo,       \* both banks of the video output programmed in this boot
          mlAdv,       \* registers of the two receivers
          mlPanel, mlLocked, mlReady, mlLink,   \* the input port
          mlFaults,    \* faults so far
          mlFlicker,   \* history: the lock was lost since the boot tested it
          mlTorn       \* history: a receiver lost power between its maps and its
                       \* power-up being written

mlVars == <<mlPc, mlChip, mlRow, mlBooted, lcd_type, edp_timer, heart, heart_bit,
            mlGpio, mlClock, mlCvo, mlAdv, mlPanel, mlLocked, mlReady, mlLink,
            mlFaults, mlFlicker, mlTorn>>
mlVideo == <<mlClock, mlCvo>>
mlBeats == <<lcd_type, edp_timer, heart, heart_bit>>
mlInputs == <<mlPanel, mlLocked, mlReady, mlLink, mlFaults, mlFlicker, mlTorn>>

CS == [c \in 0..1 |-> IF c = 0 THEN "ADV7613_CS0" ELSE "ADV7613_CS1"]

(* The registers of a receiver after reset or power-up: powered down, no   *)
(* I2C maps assigned, the EDID hidden.                                     *)
AdvDefault == [maps |-> FALSE, power |-> FALSE, edid |-> 0, shown |-> FALSE]

(* The table: IO registers with the addresses of the maps, power-up, EDID  *)
(* off through the repeater map, the EDID in two halves, EDID on.          *)
Adv7613ShownFirst == <<"maps", "power", "hide", "show", "half", "half">>
adv7613_registers == <<"maps", "power", "hide", "half", "half", "show">>

(* One segment written to a receiver.  Registers outside the IO map are    *)
(* there only once the maps have their addresses.                          *)
AdvWritten(r, segment) ==
  CASE segment = "maps" -> [r EXCEPT !.maps = TRUE]
    [] segment = "power" -> [r EXCEPT !.power = TRUE]
    [] segment = "hide" /\ r.maps -> [r EXCEPT !.shown = FALSE, !.edid = 0]
    [] segment = "half" /\ r.maps -> [r EXCEPT !.edid = IF @ < 2 THEN @ + 1 ELSE 2]
    [] segment = "show" /\ r.maps -> [r EXCEPT !.shown = TRUE]
    [] OTHER -> r

Selected == {c \in 0..1 : CS[c] \in mlGpio}
Released == "ADV7613_RESET" \in mlGpio

PanelReset(t) ==
  CASE t = MFD_15INCH_TYPE -> {"DP_RESET_N"}
    [] t \in {MFD_12INCH_TYPE, MFD_10INCH_TYPE} -> {"LVDS_RESET_N", "LVDS_LCD_SCAN"}
    [] OTHER -> {}
Backlight(t) ==
  CASE t = MFD_15INCH_TYPE -> {"OUT3_EN_N", "LCD_BKLT_EN0", "LCD_BKLT_EN1"}
    [] t = MFD_12INCH_TYPE -> {"LCD_BKLT_EN0"}
    [] t = MFD_10INCH_TYPE -> {"OUT1_EN_N", "LCD_BKLT_EN1"}
    [] OTHER -> {}

(* The tables of the clock generator: outputs off, dividers, outputs on.   *)
si5332_fhd_registers == <<"off", "fhd", "on">>
si5332_xga_registers == <<"off", "xga", "on">>
si5332_vga_registers == <<"off", "vga", "on">>
SI5332Table(t) ==
  CASE t = MFD_15INCH_TYPE -> si5332_fhd_registers
    [] t \in {MFD_12INCH_TYPE, MFD_10INCH_TYPE} -> si5332_xga_registers
    [] OTHER -> si5332_vga_registers
SI5332Written(k, row) == CASE row = "off" -> [k EXCEPT !.on = FALSE]
                           [] row = "on" -> [k EXCEPT !.on = TRUE]
                           [] OTHER -> [k EXCEPT !.mode = row]
SI5332After(k, table) ==
  SI5332Written(SI5332Written(SI5332Written(k, table[1]), table[2]), table[3])

MlInit == /\ mlPc = "clear" /\ mlChip = 0 /\ mlRow = 1 /\ mlBooted = FALSE
          /\ lcd_type = 0 /\ edp_timer = 0 /\ heart = 0 /\ heart_bit = FALSE
          /\ mlGpio = {} /\ mlClock = [on |-> FALSE, mode |-> "none"] /\ mlCvo = FALSE
          /\ mlAdv = [c \in 0..1 |-> AdvDefault]
          /\ mlPanel \in MlPanels /\ mlLocked = FALSE /\ mlReady = FALSE
          /\ mlLink = FALSE /\ mlFaults = 0 /\ mlFlicker = FALSE
          /\ mlTorn = FALSE

Go(pc) == mlPc' = pc
At(pc) == mlPc = pc

(* Small parts of main() with a plausible slip next to each.               *)
PanelBits == UNION {PanelReset(t) \cup Backlight(t) : t \in 0..3}
KeptBitsPanel == mlGpio \cap PanelBits
KeptBits == {}
RestartedTimerNot == edp_timer
RestartedTimer == 0
DdrLockedUntested == TRUE
DdrLocked == mlLocked
NextHeartStuck == IF heart < 1 THEN heart + 1 ELSE heart
NextHeart == IF heart < 1 THEN heart + 1 ELSE 0
OthersOffNot == mlGpio
OthersOff == mlGpio \ {CS[0], CS[1]}
PowerDownFirstOnly == mlChip = 0 /\ \E c \in Selected : ~mlAdv[c].power
PowerDown == \E c \in Selected : ~mlAdv[c].power
NextEdpTimerLate == IF edp_timer <= EDP_TIMEOUT THEN edp_timer + 1 ELSE 0
NextEdpTimer == IF edp_timer < EDP_TIMEOUT THEN edp_timer + 1 ELSE 0

(* Every output off: the receivers and the DDR are in reset.               *)
MlClear ==
  /\ At("clear") /\ Go("release")
  /\ edp_timer' = RestartedTimer /\ heart' = 0 /\ heart_bit' = FALSE /\ mlGpio' = KeptBits
  /\ mlAdv' = [c \in 0..1 |-> AdvDefault] /\ mlCvo' = FALSE /\ mlReady' = FALSE
  /\ mlBooted' = FALSE
  /\ UNCHANGED <<mlChip, mlRow, lcd_type, mlClock, mlPanel, mlLocked, mlLink,
                 mlFaults, mlFlicker, mlTorn>>

MlLatchPanel ==
  /\ At("release") /\ Go("clock")
  /\ mlGpio' = mlGpio \cup {"IP_RESET_N"} /\ lcd_type' = mlPanel
  /\ UNCHANGED <<mlChip, mlRow, mlBooted, edp_timer, heart, heart_bit, mlAdv,
                 mlVideo, mlInputs>>

(* The SI5332 is stopped, set up and started by one table.                 *)
MlStartClock ==
  /\ At("clock") /\ Go("global")
  /\ mlClock' = SI5332After(mlClock, SI5332Table(lcd_type))
  /\ UNCHANGED <<mlChip, mlRow, mlBooted, mlBeats, mlGpio, mlCvo, mlAdv, mlInputs>>

(* continue: without the lock the boot starts over.                        *)
MlGlobalReset ==
  /\ At("global")
  /\ IF DdrLocked
       THEN /\ Go("soft") /\ mlFlicker' = FALSE
            /\ mlGpio' = mlGpio \cup {"DDR_GLOBAL_RESET"}
       ELSE Go("clear") /\ UNCHANGED <<mlGpio, mlFlicker>>
  /\ UNCHANGED <<mlChip, mlRow, mlBooted, mlBeats, mlVideo, mlAdv,
                 mlPanel, mlLocked, mlReady, mlLink, mlFaults, mlTorn>>

MlSoftReset ==
  /\ At("soft") /\ Go("cvo")
  /\ mlGpio' = mlGpio \cup {"DDR_SOFT_RESET"}
  /\ UNCHANGED <<mlChip, mlRow, mlBooted, mlBeats, mlVideo, mlAdv, mlInputs>>

(* The lock is looked at again: without it the banks are left alone, and   *)
(* the boot goes on.                                                       *)
MlProgramCvo ==
  /\ At("cvo") /\ Go("tmds") /\ mlCvo' = mlLocked
  /\ UNCHANGED <<mlChip, mlRow, mlBooted, mlBeats, mlGpio, mlClock, mlAdv, mlInputs>>

(* TMDS171, then the receivers come out of reset; the DDR that has its     *)
(* clock is calibrated by the end of the waits.                            *)
MlReleaseAdv ==
  /\ At("tmds") /\ Go("select") /\ mlChip' = 0
  /\ mlGpio' = mlGpio \cup {"TMDS171_OE", "ADV7613_RESET"}
  /\ mlReady' = mlLocked
  /\ UNCHANGED <<mlRow, mlBooted, mlBeats, mlVideo, mlAdv, mlPanel, mlLocked, mlLink,
                 mlFaults, mlFlicker, mlTorn>>

MlSelect ==
  /\ At("select") /\ Go("table") /\ mlRow' = 1
  /\ mlGpio' = mlGpio \cup {CS[mlChip]}
  /\ UNCHANGED <<mlChip, mlBooted, mlBeats, mlVideo, mlAdv, mlInputs>>

(* i2c_write reaches every receiver that is selected and out of reset.     *)
MlTableRow ==
  /\ At("table")
  /\ mlAdv' = [c \in 0..1 |-> IF c \in Selected /\ Released
                             THEN AdvWritten(mlAdv[c], adv7613_registers[mlRow])
                             ELSE mlAdv[c]]
  /\ IF mlRow < Len(adv7613_registers)
       THEN mlRow' = mlRow + 1 /\ UNCHANGED mlPc
       ELSE mlRow' = 1 /\ Go("deselect")
  /\ UNCHANGED <<mlChip, mlBooted, mlBeats, mlGpio, mlVideo, mlInputs>>

MlDeselect ==
  /\ At("deselect")
  /\ mlGpio' = mlGpio \ {CS[mlChip]} /\ mlChip' = 1 - mlChip
  /\ Go(IF mlChip = 0 THEN "select" ELSE IF mlBooted THEN "hpd" ELSE "outputs")
  /\ UNCHANGED <<mlRow, mlBooted, mlBeats, mlVideo, mlAdv, mlInputs>>

(* ADV7181 with the select of the second ADV7613 left on, then the panel.  *)
MlOutputs ==
  /\ At("outputs") /\ Go("test")
  /\ mlGpio' = mlGpio \cup {"ADV7181_RESET", CS[1], "AV_RESET_N", "TMDS_RESET_N", "IMX6_ALPHA"}
                      \cup PanelReset(lcd_type) \cup Backlight(lcd_type)
                      \cup (IF lcd_type = MFD_15INCH_TYPE THEN {"DP_HPD"} ELSE {})
  /\ UNCHANGED <<mlChip, mlRow, mlBooted, mlBeats, mlVideo, mlAdv, mlInputs>>

(* The condition of the loop.                                              *)
MlTest ==
  /\ At("test")
  /\ IF mlLocked /\ mlReady /\ lcd_type = mlPanel
       THEN Go("beat") /\ mlBooted' = TRUE
       ELSE Go("clear") /\ UNCHANGED mlBooted
  /\ UNCHANGED <<mlChip, mlRow, mlBeats, mlGpio, mlVideo, mlAdv, mlInputs>>

(* The alpha output as the host asks, the heart at every second pass.      *)
MlBeat ==
  /\ At("beat") /\ Go("look") /\ mlChip' = 0
  /\ heart' = NextHeart
  /\ heart_bit' = IF heart' = 0 THEN ~heart_bit ELSE heart_bit
  /\ \E alpha \in {{}, {"IMX6_ALPHA"}} :
       mlGpio' = (mlGpio \ {"IMX6_ALPHA", "HEART_BEAT"}) \cup alpha
                 \cup (IF heart_bit' THEN {"HEART_BEAT"} ELSE {})
  /\ UNCHANGED <<mlRow, mlBooted, lcd_type, edp_timer, mlVideo, mlAdv, mlInputs>>

(* get_adv_info: both selects off, then the one on; at the end of the      *)
(* reads it goes off again.                                                *)
MlLook ==
  /\ At("look") /\ Go("info")
  /\ mlGpio' = OthersOff \cup {CS[mlChip]}
  /\ UNCHANGED <<mlChip, mlRow, mlBooted, mlBeats, mlVideo, mlAdv, mlInputs>>

(* get_adv_info(0) || get_adv_info(1)                                      *)
MlInfo ==
  /\ At("info") /\ mlGpio' = mlGpio \ {CS[mlChip]}
  /\ mlChip' = IF PowerDown THEN 0 ELSE 1 - mlChip
  /\ Go(IF PowerDown THEN "pulse" ELSE IF mlChip = 0 THEN "look" ELSE "hpd")
  /\ UNCHANGED <<mlRow, mlBooted, mlBeats, mlVideo, mlAdv, mlInputs>>

(* reset_flash_adv7613: the reset line, the main reset of each receiver,   *)
(* then both tables again.                                                 *)
MlPulse ==
  /\ At("pulse") /\ Go("unpulse")
  /\ mlGpio' = mlGpio \ {"ADV7613_RESET"} /\ mlAdv' = [c \in 0..1 |-> AdvDefault]
  /\ UNCHANGED <<mlChip, mlRow, mlBooted, mlBeats, mlVideo, mlInputs>>

MlUnpulse ==
  /\ At("unpulse") /\ Go("main reset")
  /\ mlGpio' = mlGpio \cup {"ADV7613_RESET"}
  /\ UNCHANGED <<mlChip, mlRow, mlBooted, mlBeats, mlVideo, mlAdv, mlInputs>>

MlMainReset ==
  /\ At("main reset") /\ mlChip' = 1 - mlChip
  /\ Go(IF mlChip = 0 THEN "main reset" ELSE "select")
  /\ mlGpio' = mlGpio \ {CS[mlChip]}
  /\ mlAdv' = [c \in 0..1 |-> IF c \in Selected \cup {mlChip} THEN AdvDefault ELSE mlAdv[c]]
  /\ UNCHANGED <<mlRow, mlBooted, mlBeats, mlVideo, mlInputs>>

(* Pulse of the hot plug line while the 15 inch panel has no link.         *)
MlHpd ==
  /\ At("hpd") /\ Go("test")
  /\ IF lcd_type = MFD_15INCH_TYPE /\ ~mlLink
       THEN /\ edp_timer' = NextEdpTimer
            /\ mlGpio' = CASE edp_timer < EDP_TIMEOUT - 1 -> mlGpio
                          [] edp_timer = EDP_TIMEOUT - 1 -> mlGpio \ {"DP_HPD"}
                          [] OTHER -> mlGpio \cup {"DP_HPD"}
       ELSE UNCHANGED <<edp_timer, mlGpio>>
  /\ UNCHANGED <<mlChip, mlRow, mlBooted, lcd_type, heart, heart_bit, mlVideo, mlAdv, mlInputs>>

MlFirmware == \/ MlClear \/ MlLatchPanel \/ MlStartClock \/ MlGlobalReset
              \/ MlSoftReset \/ MlProgramCvo \/ MlReleaseAdv \/ MlSelect
              \/ MlTableRow \/ MlDeselect \/ MlOutputs \/ MlTest \/ MlBeat
              \/ MlLook \/ MlInfo \/ MlPulse \/ MlUnpulse \/ MlMainReset \/ MlHpd

-----------------------------------------------------------------------------
(* Around the firmware.                                                    *)

MlFault == mlFaults < MlFaultMax /\ mlFaults' = mlFaults + 1
mlProgram == <<mlPc, mlChip, mlRow, mlBooted, lcd_type, edp_timer, heart, heart_bit,
               mlGpio, mlClock, mlCvo>>

MlGainLock ==
  /\ ~mlLocked /\ mlLocked' = TRUE
  /\ UNCHANGED <<mlProgram, mlAdv, mlPanel, mlReady, mlLink, mlFaults, mlFlicker,
                 mlTorn>>

(* The lock goes, with the calibration or too short for that.              *)
MlLoseLock ==
  /\ MlFault /\ mlLocked /\ mlLocked' = FALSE /\ mlFlicker' = TRUE
  /\ mlReady' \in {mlReady, FALSE}
  /\ UNCHANGED <<mlProgram, mlAdv, mlPanel, mlLink, mlTorn>>

MlChangePanel ==
  /\ MlFault /\ mlPanel' \in MlPanels \ {mlPanel}
  /\ UNCHANGED <<mlProgram, mlAdv, mlLocked, mlReady, mlLink, mlFlicker, mlTorn>>

MlPowerLoss ==
  /\ MlFault
  /\ \E c \in 0..1 :
       /\ mlAdv' = [mlAdv EXCEPT ![c] = AdvDefault]
       /\ mlTorn' = (mlTorn \/ (At("table") /\ mlRow = 2 /\ c \in Selected))
  /\ UNCHANGED <<mlProgram, mlPanel, mlLocked, mlReady, mlLink, mlFlicker>>

MlLinkChange ==
  /\ mlLink' = ~mlLink
  /\ UNCHANGED <<mlProgram, mlAdv, mlPanel, mlLocked, mlReady, mlFaults, mlFlicker, mlTorn>>

MlNext == MlFirmware \/ MlGainLock \/ MlLoseLock \/ MlChangePanel \/ MlPowerLoss \/ MlLinkChange

(* The processor never stops, and the lock that was lost comes back.       *)
MlSpec == MlInit /\ [][MlNext]_mlVars /\ WF_mlVars(MlFirmware) /\ WF_mlVars(MlGainLock)

-----------------------------------------------------------------------------
MlOutputBits == {"IP_RESET_N", "DDR_GLOBAL_RESET", "DDR_SOFT_RESET", "TMDS171_OE",
                 "ADV7613_RESET", CS[0], CS[1], "ADV7181_RESET", "AV_RESET_N",
                 "TMDS_RESET_N", "IMX6_ALPHA", "DP_RESET_N", "DP_HPD", "LVDS_RESET_N",
                 "LVDS_LCD_SCAN", "OUT3_EN_N", "OUT1_EN_N", "LCD_BKLT_EN0",
                 "LCD_BKLT_EN1", "HEART_BEAT"}
MlPcs == {"clear", "release", "clock", "global", "soft", "cvo", "tmds", "select", "table",
          "deselect", "outputs", "test", "beat", "look", "info", "pulse", "unpulse",
          "main reset", "hpd"}

(* The registers and the port hold what their types allow.                 *)
MlTypeInv ==
  /\ mlPc \in MlPcs /\ mlChip \in 0..1 /\ mlRow \in 1..Len(adv7613_registers)
  /\ mlBooted \in BOOLEAN /\ lcd_type \in 0..3 /\ edp_timer \in 0..EDP_TIMEOUT
  /\ heart \in 0..1 /\ heart_bit \in BOOLEAN /\ mlGpio \subseteq MlOutputBits
  /\ mlClock \in [on : BOOLEAN, mode : {"none", "fhd", "xga", "vga"}] /\ mlCvo \in BOOLEAN
  /\ mlAdv \in [0..1 -> [maps : BOOLEAN, power : BOOLEAN, edid : 0..2, shown : BOOLEAN]]
  /\ mlPanel \in MlPanels /\ mlLocked \in BOOLEAN /\ mlReady \in BOOLEAN
  /\ mlLink \in BOOLEAN /\ mlFaults \in 0..MlFaultMax /\ mlFlicker \in BOOLEAN
  /\ mlTorn \in BOOLEAN

(* The two receivers share their I2C address: whatever happened before,    *)
(* one select is on while a table is written or the registers are read     *)
(* (the boot leaves the second select on when it enters the loop).         *)
MlOneChip == At("table") \/ At("info") => Selected = {mlChip}

(* A source that looks at the EDID never reads half of one: not while the  *)
(* table is being written, not after a loss of power in the middle of it.  *)
MlEdidWhole == \A c \in 0..1 : mlAdv[c].shown => mlAdv[c].edid = 2

(* In the loop the panel, its clock and its backlight are those of the     *)
(* panel type that was latched; nothing of an earlier type is left on.     *)
MlPanelFits ==
  mlBooted =>
    /\ mlClock = [on |-> TRUE, mode |-> SI5332Table(lcd_type)[2]]
    /\ mlGpio \cap PanelBits = PanelReset(lcd_type) \cup Backlight(lcd_type)

(* The loop runs with a programmed video output, unless the lock was lost  *)
(* between the first look at it and this moment.                           *)
MlVideoOutputSet == mlBooted => mlCvo \/ mlFlicker

(* The hot plug line is low in the loop exactly while the pulse lasts.     *)
MlHpdPulse ==
  mlBooted /\ lcd_type = MFD_15INCH_TYPE
     => ("DP_HPD" \notin mlGpio <=> edp_timer = EDP_TIMEOUT)

(* Once the faults are over the latched panel type is the strap's and both *)
(* receivers are up for good with their EDID: every loss of power is found *)
(* and every reason to start over ends.  POWER_DOWN is all that is looked  *)
(* at, so a receiver that lost its maps just before its power-up was       *)
(* written stays without them; mlTorn excepts that moment.                 *)
MlRecovers == <>[](/\ mlBooted /\ lcd_type = mlPanel
                   /\ \A c \in 0..1 : mlAdv[c].power /\ (mlAdv[c].shown \/ mlTorn))

(* A loop that is not left beats the heart.                                *)
MlHeartBeats == []<>("HEART_BEAT" \in mlGpio) /\ []<>("HEART_BEAT" \notin mlGpio)

(* What holds at every write of main(): one receiver selected, no half EDID*)
(* shown; and in its loop: the panel that was latched, a programmed video  *)
(* output, and a hot plug line that is low for the pulse only.             *)
MlSafe == /\ MlTypeInv /\ MlOneChip /\ MlEdidWhole
          /\ MlPanelFits /\ MlVideoOutputSet /\ MlHpdPulse
=============================================================================
