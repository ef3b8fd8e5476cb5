---------------------------- MODULE Adv7181Status ----------------------------
(***************************************************************************)
(* The printer of the ADV7181's state (adv7181_debug.h; no file includes   *)
(* it).  A pass reads the four status registers, then the settings, then   *)
(* the measured words, each with a read of its own, and prints what their  *)
(* bits say; adv7181d_readall copies all registers to memory.              *)
(*                                                                         *)
(* A text is abstracted to the value it stands for, the texts for reserved *)
(* values to "Reserved".  The chip is external: while a pass reads, it may *)
(* lose its lock and measure anew.                                         *)
(***************************************************************************)
EXTENDS Integers, Sequences, FiniteSets

CONSTANTS StBytes,   \* values of a byte of a measured word
          StMoves    \* how often the chip measures anew

ASSUME StAssumption == StBytes \subseteq 0..255 /\ StMoves \in Nat

VARIABLES stByte,    \* the byte in the registers of the settings
          stProc,    \* who reads: nobody, adv7181d_status or adv7181d_readall
          stPos,     \* where it is
          stLost,    \* LOST_LOCK of STATUS1: set by the chip, cleared by a read
          stOwed,    \* a lock was lost and neither printed nor copied yet
          stHi, stLo,    \* the two registers of the word that is measured
          stGot,     \* of the word at stPos: the bytes read, unread ones absent
          stStill,   \* since the first of them the word has not changed
          stTold,    \* the word printed last: its bytes, stStill, the chip's bytes then
          stMoved

stVars == <<stByte, stProc, stPos, stLost, stOwed, stHi, stLo, stGot, stStill, stTold, stMoved>>

-----------------------------------------------------------------------------
(* What the decoders show: a field, the register it is read from, its      *)
(* place in it and the values that have a text of their own.               *)
Field(name, of, at, width, known) ==
  [name |-> name, of |-> of, at |-> at, width |-> width, known |-> known]
Bit(name, of, at) == Field(name, of, at, 1, {0, 1})

Bits(of, names) == {Bit(names[n], of, n - 1) : n \in DOMAIN names}

INCTRL_DECODE == {Field("INSEL", 0, 0, 4, 0..11 \cup {13, 15}), Field("VIDSEL", 0, 4, 4, 0..15)}
VIDEO_SELECTION_DECODE == {Bit("ENVSPROC", 1, 3), Bit("BETACAM", 1, 5), Bit("ENHSPLL", 1, 6)}
OUTPUT_CONTROL_DECODE == {Bit("SD_DUP_AV", 3, 0), Field("OF_SEL", 3, 2, 4, 0..3),
                          Bit("TOD", 3, 6), Bit("VBI_EN", 3, 7)}
EX_OUTPUT_CONTROL_DECODE == {Bit("RANGE", 4, 0), Bit("EN_SFL_PIN", 4, 1), Bit("BL_C_VBI", 4, 2),
                             Bit("TIM_OE", 4, 3), Bit("BT656_4", 4, 7)}
(* The standards that have a text depend on the primary mode.              *)
Standards(prim) == CASE prim = 0 -> {2, 10, 11, 14, 15}
                     [] prim = 1 -> 0..3 \cup 6..10 \cup 12..15
                     [] prim = 2 -> 0..4 \cup 8..13
                     [] OTHER -> {}
VIDEO_STANDART_DECODE(prim) == {Field("PRIM_MODE", 5, 0, 4, 0..2),
                                Field("VID_STD", 6, 0, 4, Standards(prim % 16))}
POWER_MENEGEMENT_DECODE == {Bit("FB_PWRDN", 15, 1), Bit("PWRDN_0", 15, 2), Bit("CP_PWRDN", 15, 3),
                            Bit("PWRSAV", 15, 4), Bit("PWRDN_1", 15, 5), Bit("RESET", 15, 7)}
ADC_CONTROL_DECODE == {Field("Range", 58, 4, 4, {1, 2})} \cup Bits(58, <<"ADC0", "ADC1", "ADC2", "ADC3">>)
BIAS_CTRL_DECODE == {Bit("EN_INTERNAL_RES", 59, 0), Field("IBIAS_SET", 59, 3, 5, 0..31)}
TTLC_CTRL_DECODE == {Field("PLL_QPUMP", 60, 0, 3, 0..7), Field("SOG_SYNC_LEVEL", 60, 3, 5, 0..31)}
(* Its own register is read from 60 as well, and TLLC_ctrl is passed.      *)
MANUAL_WINDOW_DECODE == {Field("CKILLTHR", 60, 4, 3, 0..6)}
\* Mutant: COL is taken from the place of CIL.
LOCK_CNT_DECODEColShifted == {Field("CIL", 81, 3, 3, 0..7), Field("COL", 81, 3, 3, 0..7),
                              Bit("SRLS", 81, 6), Bit("FSCLE", 81, 7)}
LOCK_CNT_DECODE == {Field("CIL", 81, 3, 3, 0..7), Field("COL", 81, 0, 3, 0..7),
                    Bit("SRLS", 81, 6), Bit("FSCLE", 81, 7)}
CONFIGURE1_DECODE == {Field("SDM_SEL", 105, 0, 2, {0, 3}), Bit("INV_DINCLK", 105, 5),
                      Bit("SYN_LO_TRIG", 105, 6), Bit("TRI_LEVEL", 105, 7)}
TLLC_PA_DECODE == {Field("DLL_PH", 105, 0, 5, 0..31), Bit("BYP_DLL", 105, 5)}
CP_OUT_SEL_DECODE == {Field("CPOP_SEL", 107, 0, 4, {1, 3, 4}), Bit("F_OUT_SEL", 107, 6),
                      Bit("HS_OUT_SEL", 107, 7)}
CP_MEASURE_CTRL_DECODE == {Field("ISD_THR", 131, 0, 8, 0..255), Bit("ISFD_AVG", 132, 0),
                           Field("CP_GAIN_FILT", 132, 4, 4, 0..11)}
CP_DETECTION_CTRL_DECODE == {Bit("DS_OUT", 133, 0), Bit("SSPD_CONT", 133, 1),
                             Field("SYN_SRC", 133, 3, 3, 0..3), Bit("POL_HSCS", 133, 5),
                             Bit("POL_VS", 133, 6), Bit("POL_MAN_EN", 133, 7)}
CP_MISC_CTRL_DECODE == {Bit("STDI_CONT", 134, 1), Bit("STDI_LINE_COUNT_MODE", 134, 3),
                        Bit("CPOP_INV_Crb", 134, 4)}
CP_TLLC_CONTROL_DECODE == {Bit("PLL_DLL_UPD_VS_EN", 135, 4), Bit("PLL_DIV_MAN_EN", 135, 7),
                           Bit("SWAP_CR_CB_WB", 137, 4), Field("VCO_RANGE", 137, 5, 2, 0..3),
                           Bit("VCO_RANGE_MAN", 137, 7)}
CP_DEF_COLOR_DECODE == {Bit("CP_DEF_COL_FORCE", 191, 0), Bit("CP_DEF_COL_AUTO", 191, 1),
                        Bit("CP_DEF_COL_MAN_VAL", 191, 2), Field("DEF_COL_CHA", 192, 0, 8, 0..255),
                        Field("DEF_COL_CHB", 193, 0, 8, 0..255), Field("DEF_COL_CHC", 194, 0, 8, 0..255)}
ADC_SWITCH_DECODE == {Field("ADC0_SW", 195, 0, 4, 1..6 \cup {9, 11, 13, 14}),
                      Field("ADC1_SW", 195, 4, 4, 3..6 \cup {11, 13, 14}),
                      Field("ADC2_SW", 196, 0, 4, {2, 4, 5, 6, 13, 14}),
                      Bit("SOG_SEL", 196, 6), Bit("ADC_SW_MAN_EN", 196, 7)}
DDR_MODE_DECODE == Bits(201, <<"DPP_CP_BYPASS", "DDS_DIN_CLK_EN", "DDR_I2C_RC_FIRST", "DDR_EN">>)
(* The detected standard is taken from bit 0, where IN_LOCK is: of its     *)
(* eight texts only two are ever printed.                                  *)
STATUS_DECODE ==
  {Field("REVISION", 17, 0, 8, 0..255), Field("AD_RESULT", 16, 0, 1, 0..7), Bit("COL_KILL", 16, 7)}
  \cup Bits(16, <<"IN_LOCK", "LOST_LOCK", "FSC_LOCK", "FOLLOW_PW">>)
  \cup Bits(18, <<"MCVS_DET", "MCVS_T3", "MV_PS_DET", "MV_AGC", "LL_NSTD", "FSC_NSTD",
                  "CP_FREE_RUN", "TLLC_PLL_LOCK">>)
  \cup Bits(19, <<"INST_HLOCK", "GEMD", "SD_OP_50Hz", "CVBS", "FREE_RUN_ACT", "STD_FLD_LEN",
                  "INTERLACE", "PAL_SW_LOCK">>)

Fields(prim) ==
  INCTRL_DECODE \cup VIDEO_SELECTION_DECODE \cup OUTPUT_CONTROL_DECODE \cup EX_OUTPUT_CONTROL_DECODE
  \cup VIDEO_STANDART_DECODE(prim) \cup POWER_MENEGEMENT_DECODE \cup ADC_CONTROL_DECODE
  \cup BIAS_CTRL_DECODE \cup TTLC_CTRL_DECODE \cup MANUAL_WINDOW_DECODE \cup LOCK_CNT_DECODE
  \cup CONFIGURE1_DECODE \cup TLLC_PA_DECODE \cup CP_OUT_SEL_DECODE \cup CP_MEASURE_CTRL_DECODE
  \cup CP_DETECTION_CTRL_DECODE \cup CP_MISC_CTRL_DECODE \cup CP_TLLC_CONTROL_DECODE
  \cup CP_DEF_COLOR_DECODE \cup ADC_SWITCH_DECODE \cup DDR_MODE_DECODE \cup STATUS_DECODE

(* The words of two registers: bits of the high one are masked and shifted *)
(* over the low one.  PLL_DIV_RATIO masks with 0x0F << 8, IFSD shifts bit  *)
(* 1 by 8; CALIB and LCVS have no low register.                            *)
Word(name, at, width, up, low) ==
  [name |-> name, at |-> at, width |-> width, up |-> up, low |-> low]
StWords == <<Word("PLL_DIV_RATIO", 8, 4, 8, TRUE), Word("FIELD_LENGTH", 0, 5, 8, TRUE),
           Word("CP_AGC", 0, 2, 8, TRUE), Word("ISD", 0, 1, 8, TRUE), Word("IFSD", 1, 1, 9, TRUE),
           Word("CALIB", 2, 3, 8, FALSE), Word("HSD_CHA", 0, 2, 8, TRUE),
           Word("HSD_CHB", 2, 2, 8, TRUE), Word("HSD_CHC", 4, 2, 8, TRUE),
           Word("HSD_FB", 0, 4, 8, TRUE), Word("PKV_CHA", 0, 2, 8, TRUE),
           Word("PKV_CHB", 2, 2, 8, TRUE), Word("PKV_CHC", 4, 2, 8, TRUE),
           Word("BL", 0, 6, 8, TRUE), Word("LCF", 0, 3, 8, TRUE), Word("LCVS", 3, 5, 0, FALSE)>>
BitsOf(byte, at, width) == (byte \div 2^at) % 2^width
WordOf(w, hi, lo) == BitsOf(hi, w.at, w.width) * 2^w.up + (IF w.low THEN lo ELSE 0)

-----------------------------------------------------------------------------
StInit == /\ stByte \in 0..255 /\ stProc = "idle" /\ stPos = 0
          /\ stLost = FALSE /\ stOwed = FALSE
          /\ stHi = 0 /\ stLo = 0 /\ stGot = <<>> /\ stStill = TRUE
          /\ stTold = <<>> /\ stMoved = 0

(* The chip.                                                               *)
StLoseLock == /\ stLost' = TRUE /\ stOwed' = TRUE
              /\ UNCHANGED <<stByte, stProc, stPos, stHi, stLo, stGot, stStill, stTold, stMoved>>
StMeasure == /\ stProc = "status" /\ stMoved < StMoves /\ stMoved' = stMoved + 1
             /\ stHi' \in StBytes /\ stLo' \in StBytes
             /\ stStill' = (stStill /\ stGot = <<>>)
             /\ UNCHANGED <<stByte, stProc, stPos, stLost, stOwed, stGot, stTold>>

StCall == /\ stProc = "idle" /\ stByte = 0 /\ stProc' \in {"status", "readall"}
          /\ stPos' = 0 /\ stMoved' = 0 /\ stGot' = <<>> /\ stStill' = TRUE /\ stTold' = <<>>
          /\ UNCHANGED <<stByte, stLost, stOwed, stHi, stLo>>

(* One read of STATUS1 serves all of its fields; every read clears the     *)
(* flag.                                                                   *)
\* Mutant: the register is read once for each of its fields.
LossReadTwice == stLost' = FALSE /\ stOwed' = stOwed
LossRead == stLost' = FALSE /\ stOwed' = (stOwed /\ ~stLost)
StStatus == /\ stProc = "status" /\ stPos = 0 /\ stPos' = 1 /\ LossRead
            /\ UNCHANGED <<stByte, stProc, stHi, stLo, stGot, stStill, stTold, stMoved>>

(* The two reads of a word come in the order the compiler chooses.         *)
HasRead(r) == r \in DOMAIN stGot
Got(r, v) == [x \in DOMAIN stGot \cup {r} |-> IF x = r THEN v ELSE stGot[x]]
Needed == IF StWords[stPos].low THEN {"hi", "lo"} ELSE {"hi"}
StRead == /\ stProc = "status" /\ stPos \in 1..Len(StWords)
          /\ \E r \in Needed : /\ ~HasRead(r)
                               /\ stGot' = Got(r, IF r = "hi" THEN stHi ELSE stLo)
          /\ UNCHANGED <<stByte, stProc, stPos, stLost, stOwed, stHi, stLo, stStill, stTold, stMoved>>
StPrint ==
  /\ stProc = "status" /\ stPos \in 1..Len(StWords) /\ \A r \in Needed : HasRead(r)
  /\ stTold' = [of |-> stPos, still |-> stStill, hi |-> stGot["hi"],
                lo |-> IF HasRead("lo") THEN stGot["lo"] ELSE 0, now |-> [hi |-> stHi, lo |-> stLo]]
  /\ stPos' = stPos + 1 /\ stProc' = IF stPos = Len(StWords) THEN "idle" ELSE "status"
  /\ stGot' = <<>> /\ stStill' = TRUE
  /\ UNCHANGED <<stByte, stLost, stOwed, stHi, stLo, stMoved>>

(* adv7181d_readall: the copy of register 16 takes the flag with it.       *)
StReadAll == /\ stProc = "readall" /\ stPos' = stPos + 1
             /\ IF stPos = 16 THEN LossRead ELSE UNCHANGED <<stLost, stOwed>>
             /\ stProc' = IF stPos = 255 THEN "idle" ELSE "readall"
             /\ UNCHANGED <<stByte, stHi, stLo, stGot, stStill, stTold, stMoved>>

StNext == StLoseLock \/ StMeasure \/ StCall \/ StStatus \/ StRead \/ StPrint \/ StReadAll
StSpec == StInit /\ [][StNext]_stVars

-----------------------------------------------------------------------------
(* The printer's place and the chip's registers are in range.              *)
StTypeInv == /\ stByte \in 0..255 /\ stProc \in {"idle", "status", "readall"} /\ stPos \in 0..256
             /\ stLost \in BOOLEAN /\ stOwed \in BOOLEAN /\ stStill \in BOOLEAN
             /\ stHi \in 0..255 /\ stLo \in 0..255 /\ DOMAIN stGot \subseteq {"hi", "lo"}

(* A bit is shown as one field only, so two fields of a register never     *)
(* contradict each other -- but for the five pairs that the printer takes  *)
(* from the wrong place: bit 0 of STATUS1, bit 5 of CP_DET_CTRL, and the   *)
(* registers 0x3C and 0x69 that two decoders read.                         *)
Overlapping == {{"AD_RESULT", "IN_LOCK"}, {"SYN_SRC", "POL_HSCS"}, {"CKILLTHR", "SOG_SYNC_LEVEL"},
                {"DLL_PH", "SDM_SEL"}, {"BYP_DLL", "INV_DINCLK"}}
Covers(f) == f.at..f.at + f.width - 1
StOneField ==
  \A f, g \in Fields(stByte) :
    f.of = g.of /\ f.name # g.name /\ {f.name, g.name} \notin Overlapping
      => Covers(f) \cap Covers(g) = {}

(* Every text can be printed: a field is as wide as the values it names.   *)
(* Of AD_RESULT's texts six cannot.                                        *)
StEveryText ==
  \A f \in Fields(stByte) : f.name # "AD_RESULT" => f.known \subseteq 0..2^f.width - 1

(* A word that did not change between its two reads is printed as the      *)
(* number the chip has, high bits on top of the low byte, whichever was    *)
(* read first -- but for the PLL ratio, which loses its high bits, and     *)
(* IFSD, whose high bit is printed one place too far up.                   *)
StWordWhole ==
  stTold # <<>> /\ stTold.still =>
    LET w == StWords[stTold.of]
    IN  w.low /\ w.name \notin {"PLL_DIV_RATIO", "IFSD"}
          => WordOf(w, stTold.hi, stTold.lo) = BitsOf(stTold.now.hi, w.at, w.width) * 256 + stTold.now.lo

(* A loss of lock is printed or copied once: until then the chip has its   *)
(* flag, whatever else has been read.                                      *)
StLossKept == stOwed => stLost

StSafe == StTypeInv /\ StOneField /\ StEveryText /\ StWordWhole /\ StLossKept
=============================================================================
