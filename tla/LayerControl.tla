---------------------------- MODULE LayerControl ----------------------------
(***************************************************************************)
(* What a pass of the firmware's loop does with the video inputs, the      *)
(* switch and the two switched layers of the mixer, while the host writes  *)
(* its wishes to the shared RAM and the inputs become stable or unstable,  *)
(* at any moment.                                                          *)
(*                                                                         *)
(* A pass copies the controls of the inputs, compares the switch with the  *)
(* shared RAM and writes it when they differ (four reads, two writes, and  *)
(* the host in between), and shows or blanks each layer by a timer that    *)
(* counts passes with a stable input up and passes without one down.       *)
(***************************************************************************)
EXTENDS Integers

CONSTANTS LcInputs,       \* values of an output that select an input (2, 4, 8, 16)
          LcLayers,       \* the layers that are followed, a subset of {0, 1}
          LAYER_TIMEOUT

NoInput == 0
Outputs == 0..1

ASSUME LcAssumption == /\ LcInputs # {} /\ LcInputs \subseteq {2, 4, 8, 16}
                       /\ LcLayers \subseteq Outputs /\ LAYER_TIMEOUT \in Nat

VARIABLES lcPc,        \* where the pass is
          lcLayer,     \* the layer that is looked at next
          lcShared,    \* sw[0].output, written by the host
          lcSwitch,    \* Output_Ctrl of the switch
          lcRouted,    \* the outputs the switch took over at the last Output_Switch
          lcHostCtl,   \* cvi[].control, written by the host
          lcControl,   \* Control of the inputs
          lcStable,    \* bit 10 of the Status of the inputs
          lcShow,      \* mix[0].layer[].control, written by the host
          layer_timer,
          lcEnable,    \* Enable of the layers
          lcDark,      \* history: the last passes without a stable input, in a row
          lcSince,     \* history: passes without one since Enable was last written from lcShow
          lcQuiet      \* the host and the inputs no longer change

lcHost == <<lcShared, lcHostCtl, lcStable, lcShow>>
lcMixer == <<layer_timer, lcEnable, lcDark, lcSince>>
lcVars == <<lcPc, lcLayer, lcHost, lcSwitch, lcRouted, lcControl, lcMixer, lcQuiet>>

(* At boot the outputs are set to 2 and 4; the host may have changed them   *)
(* before the first pass.                                                  *)
LcInit ==
  /\ lcPc = "inputs" /\ lcLayer = 0
  /\ lcShared \in [Outputs -> LcInputs \cup {NoInput}]
  /\ lcSwitch = [o \in Outputs |-> NoInput] /\ lcRouted = lcSwitch
  /\ lcHostCtl = [n \in LcInputs |-> TRUE] /\ lcControl = [n \in LcInputs |-> FALSE]
  /\ lcStable = [n \in LcInputs |-> FALSE]
  /\ lcShow = [i \in LcLayers |-> FALSE]
  /\ layer_timer = [i \in LcLayers |-> 0]
  /\ lcEnable = [i \in LcLayers |-> FALSE]
  /\ lcDark = [i \in LcLayers |-> 0] /\ lcSince = [i \in LcLayers |-> 0]
  /\ lcQuiet = FALSE

(* cviN->Control = shared control, for every input.                        *)
LcCopyControls ==
  /\ lcPc = "inputs" /\ lcPc' = "compare" /\ lcControl' = lcHostCtl
  /\ UNCHANGED <<lcLayer, lcHost, lcSwitch, lcRouted, lcMixer, lcQuiet>>

(* Both outputs are compared; one that differs makes both be written.      *)
SwitchDiffersOne == lcSwitch[0] # lcShared[0]
SwitchDiffers == \E o \in Outputs : lcSwitch[o] # lcShared[o]

LcCompare ==
  /\ lcPc = "compare"
  /\ lcPc' = IF SwitchDiffers THEN "write 0" ELSE "layers"
  /\ lcLayer' = 0
  /\ UNCHANGED <<lcHost, lcSwitch, lcRouted, lcControl, lcMixer, lcQuiet>>

(* Each write reads the shared RAM again.                                  *)
LcWrite0 ==
  /\ lcPc = "write 0" /\ lcPc' = "write 1"
  /\ lcSwitch' = [lcSwitch EXCEPT ![0] = lcShared[0]]
  /\ UNCHANGED <<lcLayer, lcHost, lcRouted, lcControl, lcMixer, lcQuiet>>

LcWrite1 ==
  /\ lcPc = "write 1" /\ lcPc' = "layers"
  /\ lcSwitch' = [lcSwitch EXCEPT ![1] = lcShared[1]] /\ lcRouted' = lcSwitch'
  /\ UNCHANGED <<lcLayer, lcHost, lcControl, lcMixer, lcQuiet>>

(* The input the host wants on output i decides, not the one the switch    *)
(* has; an output without an input leaves the layer as it is.              *)
Source(i) == lcShared[i]
Controlled(i) == Source(i) \in LcInputs /\ lcControl[Source(i)]

(* layer_timer and Enable of a layer after a pass with a stable input and   *)
(* after one without.                                                      *)
Counted(n) == IF n <= LAYER_TIMEOUT THEN n + 1 ELSE n
ReadyPassed(t) == t <= LAYER_TIMEOUT
Ready(t) == t < LAYER_TIMEOUT
BlankedNever(t) == t < 0
BlankedEarly(t) == t <= 1
Blanked(t) == t = 0

StablePass(i) ==
  /\ lcDark' = [lcDark EXCEPT ![i] = 0]
  /\ IF Ready(layer_timer[i])
       THEN /\ layer_timer' = [layer_timer EXCEPT ![i] = @ + 1]
            /\ UNCHANGED <<lcEnable, lcSince>>
       ELSE /\ lcEnable' = [lcEnable EXCEPT ![i] = lcShow[i]]
            /\ lcSince' = [lcSince EXCEPT ![i] = 0] /\ UNCHANGED layer_timer

DarkPass(i) ==
  /\ lcDark' = [lcDark EXCEPT ![i] = Counted(@)]
  /\ lcSince' = [lcSince EXCEPT ![i] = Counted(@)]
  /\ layer_timer' = [layer_timer EXCEPT ![i] = IF @ > 0 THEN @ - 1 ELSE @]
  /\ lcEnable' = [lcEnable EXCEPT ![i] = IF Blanked(layer_timer[i]) THEN FALSE ELSE @]

LcLayerPass ==
  /\ lcPc = "layers"
  /\ IF lcLayer \in LcLayers /\ Controlled(lcLayer)
       THEN IF lcStable[Source(lcLayer)] THEN StablePass(lcLayer) ELSE DarkPass(lcLayer)
       ELSE UNCHANGED lcMixer
  /\ IF lcLayer = 0 THEN lcLayer' = 1 /\ UNCHANGED lcPc ELSE lcLayer' = 0 /\ lcPc' = "inputs"
  /\ UNCHANGED <<lcHost, lcSwitch, lcRouted, lcControl, lcQuiet>>

LcPass == LcCopyControls \/ LcCompare \/ LcWrite0 \/ LcWrite1 \/ LcLayerPass

-----------------------------------------------------------------------------
lcFirmware == <<lcPc, lcLayer, lcSwitch, lcRouted, lcControl, lcMixer>>

LcHostSwitches ==
  /\ \E o \in Outputs, n \in LcInputs \cup {NoInput} : lcShared' = [lcShared EXCEPT ![o] = n]
  /\ UNCHANGED <<lcFirmware, lcHostCtl, lcStable, lcShow, lcQuiet>>
LcHostControls ==
  /\ \E n \in LcInputs : lcHostCtl' = [lcHostCtl EXCEPT ![n] = ~@]
  /\ UNCHANGED <<lcFirmware, lcShared, lcStable, lcShow, lcQuiet>>
LcHostShows ==
  /\ \E i \in LcLayers : lcShow' = [lcShow EXCEPT ![i] = ~@]
  /\ UNCHANGED <<lcFirmware, lcShared, lcHostCtl, lcStable, lcQuiet>>
LcInputChanges ==
  /\ \E n \in LcInputs : lcStable' = [lcStable EXCEPT ![n] = ~@]
  /\ UNCHANGED <<lcFirmware, lcShared, lcHostCtl, lcShow, lcQuiet>>
LcFallQuiet == lcQuiet' = TRUE /\ UNCHANGED <<lcFirmware, lcHost>>

LcAround == ~lcQuiet /\ (LcHostSwitches \/ LcHostControls \/ LcHostShows \/ LcInputChanges
                         \/ LcFallQuiet)
LcNext == LcPass \/ LcAround

(* The loop goes on; nothing is assumed of the host and the inputs.        *)
LcSpec == LcInit /\ [][LcNext]_lcVars /\ WF_lcVars(LcPass)

-----------------------------------------------------------------------------
(* The state variables hold what their types allow; the timers stay within *)
(* their range.                                                            *)
LcTypeInv ==
  /\ lcPc \in {"inputs", "compare", "write 0", "write 1", "layers"} /\ lcLayer \in Outputs
  /\ lcShared \in [Outputs -> LcInputs \cup {NoInput}]
  /\ lcSwitch \in [Outputs -> LcInputs \cup {NoInput}]
  /\ lcRouted \in [Outputs -> LcInputs \cup {NoInput}]
  /\ lcHostCtl \in [LcInputs -> BOOLEAN] /\ lcControl \in [LcInputs -> BOOLEAN]
  /\ lcStable \in [LcInputs -> BOOLEAN] /\ lcShow \in [LcLayers -> BOOLEAN]
  /\ layer_timer \in [LcLayers -> 0..LAYER_TIMEOUT] /\ lcEnable \in [LcLayers -> BOOLEAN]
  /\ lcDark \in [LcLayers -> 0..LAYER_TIMEOUT + 1]
  /\ lcSince \in [LcLayers -> 0..LAYER_TIMEOUT + 1] /\ lcQuiet \in BOOLEAN

(* A layer whose input has been gone for more than LAYER_TIMEOUT passes in *)
(* a row is blanked, whatever the host switched meanwhile.                 *)
LcBlanks == \A i \in LcLayers : lcDark[i] > LAYER_TIMEOUT => ~lcEnable[i]

(* A layer goes dark for a reason: the host hid it while its input was     *)
(* stable, or at least LAYER_TIMEOUT passes before this one had no stable  *)
(* input since it was shown; a shorter interruption never blanks it.       *)
LcHolds ==
  [][\A i \in LcLayers :
       lcEnable[i] /\ ~lcEnable'[i]
         => (layer_timer[i] = LAYER_TIMEOUT /\ ~lcShow[i]) \/ lcSince[i] >= LAYER_TIMEOUT]_lcVars

(* When the host and the inputs keep still, the switch ends up with the    *)
(* outputs the host asked for, although the host may have written them     *)
(* between the comparison and the writes; and each layer that has a        *)
(* running input is shown exactly if the host wants it and it is stable.   *)
LcSettled ==
  /\ lcRouted = lcShared
  /\ \A i \in LcLayers :
       Controlled(i) => lcEnable[i] = (lcStable[Source(i)] /\ lcShow[i])
LcSettles == lcQuiet ~> []LcSettled

(* Timers in their range, and no layer shown long after its input has gone.*)
LcSafe == LcTypeInv /\ LcBlanks
=============================================================================
