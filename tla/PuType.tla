------------------------------- MODULE PuType -------------------------------
(***************************************************************************)
(* The panel type and what hangs on it: qsys/pu/pu.sv, lines 632 to 674    *)
(* and 776 to 860.  The type read from the panel runs through three pairs  *)
(* of flip-flops; while two of them agree the resets of the configurators  *)
(* are released, for the kind of display the type stands for.  After       *)
(* CLOCK_FREQ edges the pipeline is frozen and the backlight enabled.      *)
(***************************************************************************)
EXTENDS Naturals, FiniteSets

CONSTANTS
  CLOCK_FREQ,   \* edges until the type is frozen: one second
  Scan,         \* edges between two changes of pu_type_reg, at least
  Resets        \* bound on the resets after power-up

ASSUME TypeAssumption ==
  CLOCK_FREQ \in Nat /\ Scan \in Nat /\ Resets \in Nat

Types == {"15INCH", "12INCH", "10INCH", "UNKNOWN"}
Kinds == {"fhd", "xga", "vga"}
Kind(t) == CASE t = "15INCH" -> "fhd" [] t = "UNKNOWN" -> "vga" [] OTHER -> "xga"
Drivers(t) == CASE t = "15INCH" -> {0, 1} [] t = "12INCH" -> {0}
                [] t = "10INCH" -> {1}    [] OTHER -> {}

VARIABLES
  pu_type_reg, pu_type_meta, latch_new, latch_old,  \* pu_type_latch[1:0], [3:2]
  pu_type, stable, is,          \* pu_type_stable; pu_type_fhd, _xga, _vga
  first, second, reset_n,       \* {fhd,xga,vga}_reset_n_reg[0], [1], _reset_n
  ready, ready_n,               \* pu_ready_reset_n_reg, pu_ready_reset_n
  pu_timer, drv_en,
  quiet, resets,                \* edges since pu_type_reg changed; resets so far
  late                          \* history: a change just before the freeze

pipe  == <<pu_type_meta, latch_new, latch_old>>
outs  == <<pu_type, stable, is, reset_n, ready_n>>
ptVars == <<pu_type_reg, pipe, outs, first, second, ready, pu_timer, drv_en, quiet, resets, late>>

None == [k \in Kinds |-> FALSE]

PtInit ==
  /\ pu_type_reg = "10INCH" /\ pu_type_meta = "10INCH"
  /\ latch_new = "10INCH" /\ latch_old = "10INCH"
  /\ pu_type = "10INCH" /\ stable = FALSE /\ is = None
  /\ first = None /\ second = None /\ reset_n = None
  /\ ready = <<FALSE, FALSE, FALSE>> /\ ready_n = FALSE
  /\ pu_timer = 0 /\ drv_en = {} /\ quiet = 0 /\ resets = 0 /\ late = FALSE

\* reset_n clears some of the registers; the others keep what they had.
Reset ==
  /\ resets < Resets /\ resets' = resets + 1
  /\ pu_type_reg' = "10INCH" /\ pu_type_meta' = "10INCH"
  /\ latch_new' = "10INCH" /\ latch_old' = "10INCH"
  /\ first' = None /\ second' = None /\ ready' = <<FALSE, FALSE, FALSE>>
  /\ pu_timer' = 0 /\ drv_en' = {} /\ quiet' = 0 /\ late' = FALSE
  /\ UNCHANGED outs

\* A status without error commits the type read from the panel (PuMaster).
ReadType ==
  \/ /\ pu_type_reg' = pu_type_reg /\ UNCHANGED late
     /\ quiet' = IF quiet < Scan THEN quiet + 1 ELSE quiet
  \/ /\ quiet = Scan /\ quiet' = 0
     /\ pu_type_reg' \in Types \ {pu_type_reg}
     /\ late' = (late \/ pu_timer + 3 \in CLOCK_FREQ .. CLOCK_FREQ + 2)

SampleOneMore ==
  IF pu_timer <= CLOCK_FREQ
  THEN /\ pu_timer' = pu_timer + 1 /\ pu_type_meta' = pu_type_reg
       /\ latch_new' = pu_type_meta /\ latch_old' = latch_new
  ELSE UNCHANGED <<pu_timer, pipe>>
Sample ==
  IF pu_timer < CLOCK_FREQ
  THEN /\ pu_timer' = pu_timer + 1 /\ pu_type_meta' = pu_type_reg
       /\ latch_new' = pu_type_meta /\ latch_old' = latch_new
  ELSE UNCHANGED <<pu_timer, pipe>>

\* The operators ...Ungated, ...Held, ...UntilFrozen, ...OneMore and ...AtOnce are
\* faulty variants of the one below them; nothing uses them.
ReadyBits == IF stable THEN <<TRUE, ready[1], ready[2]>> ELSE <<FALSE, FALSE, FALSE>>
ReleaseUngated ==
  /\ first' = is /\ second' = [k \in Kinds |-> second[k] \/ first[k]]
  /\ ready' = ReadyBits
ReleaseHeld ==
  /\ first'  = [k \in Kinds |-> stable /\ is[k]]
  /\ second' = [k \in Kinds |-> stable /\ first[k]]
  /\ ready' = IF stable THEN <<TRUE, ready[1], ready[2]>> ELSE ready
ReleaseUntilFrozen ==
  /\ first'  = [k \in Kinds |-> stable /\ is[k]]
  /\ second' = [k \in Kinds |-> stable /\ first[k]]
  /\ ready' = IF pu_timer < CLOCK_FREQ THEN ReadyBits ELSE <<FALSE, FALSE, FALSE>>
Release ==
  /\ first'  = [k \in Kinds |-> stable /\ is[k]]
  /\ second' = [k \in Kinds |-> stable /\ first[k]]
  /\ ready' = ReadyBits

Outputs ==
  /\ pu_type' = latch_new /\ stable' = (latch_old = latch_new)
  /\ is' = [k \in Kinds |-> Kind(latch_old) = k]
  /\ reset_n' = second /\ ready_n' = ready[3]

EnableBacklightAtOnce ==
  \E powered \in BOOLEAN : drv_en' = IF powered THEN Drivers(latch_old) ELSE {}
\* pwr_status_mcu[1:0] = 3 switches the drivers off.
EnableBacklight ==
  \E powered \in BOOLEAN :
    drv_en' = IF pu_timer < CLOCK_FREQ THEN drv_en
              ELSE IF powered THEN Drivers(latch_old) ELSE {}

PtClock ==
  /\ ReadType /\ Sample /\ Release /\ Outputs /\ EnableBacklight
  /\ UNCHANGED resets

PtNext == Reset \/ PtClock

PtSpec     == PtInit /\ [][PtNext]_ptVars
PtFairSpec == PtSpec /\ WF_ptVars(PtClock)
-----------------------------------------------------------------------------
(* Properties.                                                             *)

PtTypeInv ==
  /\ {pu_type_reg, pu_type_meta, latch_new, latch_old, pu_type} \subseteq Types
  /\ stable \in BOOLEAN /\ is \in [Kinds -> BOOLEAN]
  /\ first \in [Kinds -> BOOLEAN] /\ second \in [Kinds -> BOOLEAN]
  /\ reset_n \in [Kinds -> BOOLEAN]
  /\ ready \in BOOLEAN \X BOOLEAN \X BOOLEAN /\ ready_n \in BOOLEAN
  /\ pu_timer \in 0 .. CLOCK_FREQ /\ drv_en \subseteq {0, 1}
  /\ quiet \in 0 .. Scan /\ resets \in 0 .. Resets /\ late \in BOOLEAN

\* Never are the configurators of two kinds of display out of reset: they
\* write the same clock generator.
OneReleased == \A j, k \in Kinds : reset_n[j] /\ reset_n[k] => j = k

\* The video chips' configurator (pu_ready_reset) is released only while the
\* configurators of one kind of display are, also across a reset that keeps
\* the output registers.
ReadyAfterKind == ready_n => \E k \in Kinds : reset_n[k]

\* The drivers that are on are those of the frozen type: none is switched on
\* for a type that was seen on the way, or before the type is frozen.
BacklightFitsType ==
  /\ drv_en \subseteq Drivers(latch_old)
  /\ drv_en # {} => pu_timer = CLOCK_FREQ

\* Unless the type changes in the last three edges before the freeze, the display
\* runs with one type for ever: its kind released, the others not, and pu_type
\* telling the same.  (After such a change every reset stays held.)
PanelSettles ==
  <>[](late \/
       /\ ready_n /\ pu_type = latch_old
       /\ \A k \in Kinds : reset_n[k] <=> Kind(pu_type) = k)

\* What is released and switched on fits one type of panel: one kind of
\* configurators, the video chips only behind it, the backlight of the frozen
\* type only.
ReleaseSafe == PtTypeInv /\ OneReleased /\ ReadyAfterKind /\ BacklightFitsType
=============================================================================
