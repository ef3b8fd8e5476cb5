------------------------------ MODULE VipMixer ------------------------------
(***************************************************************************)
(* The mixer of drivers/vip (Mixer.hpp, Mixer.cpp, MixerLayer.hpp).  Every *)
(* input is a layer object with its own five registers behind those of the *)
(* background.  The mixing mode and the blending mode of a layer share one *)
(* register that cannot be read back; the object keeps a copy of it and    *)
(* each setter replaces its own two bits.                                  *)
(*                                                                         *)
(* The registers are modelled as the address space they are in, so that    *)
(* layers could overwrite each other or the background.                    *)
(***************************************************************************)
EXTENDS Integers, Sequences, FiniteSets

CONSTANTS
    VmInputs,     \* num_inputs
    VmWords,      \* values of positions, sizes and colours
    VmReset       \* the content of a register nobody wrote

ASSUME VmAssumption == VmInputs \in Nat

Layers == 0 .. VmInputs - 1
Modes == 0 .. 2                 \* disabled, enabled, consumed
Blends == 0 .. 2                \* no alpha, static alpha, alpha in the stream

MIX_TPG_WIDTH == 3
MIX_TPG_HEIGHT == 4
MIX_TPG_COLOR_1 == 5
MIX_LAYER_BASE == 8
REGISTER_POSITION_X == 0
REGISTER_POSITION_Y == 1
REGISTER_CONTROL == 2
REGISTER_DISPLAY_ORDER == 3
REGISTER_LAYER_ALPHA == 4

\* Mutant: the count of registers is that of the last one.
LastLayerRegister == 4

NUMBER_LAYER_REGISTERS == 5

VARIABLES
    vmRegs,       \* the registers of the core
    vmControl,    \* layer_control of each layer
    vmAsked,      \* what the program last asked of each layer
    vmBack        \* and of the background

vmVars == <<vmRegs, vmControl, vmAsked, vmBack>>

Address(l, r) == MIX_LAYER_BASE + l * NUMBER_LAYER_REGISTERS + r
Addresses == 0 .. MIX_LAYER_BASE + VmInputs * 5 - 1

----------------------------------------------------------------------------
\* layer_control with its mixing mode (bits 0 and 1, mask 0xFC) replaced, and
\* with its blending mode (bits 2 and 3, mask 0xF3) replaced.
WithMode(c, m) == (c \div 4) * 4 + m

\* Mutant: mask 0xF0, the mixing mode is lost.
BlendOverAll(c, a) == (c \div 16) * 16 + a * 4

WithBlend(c, a) == (c \div 16) * 16 + a * 4 + (c % 4)

\* The layer as its constructor leaves it.
NewLayer(l) == [x |-> 0, y |-> 0, mode |-> 0, blend |-> 0, order |-> l,
                alpha |-> 0]

\* MixerLayer::MixerLayer and Mixer::Mixer: each layer writes its registers
\* in turn, then the background is made black.
Constructed ==
    LET owner(a) == (a - MIX_LAYER_BASE) \div NUMBER_LAYER_REGISTERS
        reg(a) == (a - MIX_LAYER_BASE) % NUMBER_LAYER_REGISTERS
        written == {Address(l, r) : l \in Layers, r \in 0 .. 4}
    IN  [a \in Addresses |->
           CASE a \in MIX_TPG_COLOR_1 .. MIX_TPG_COLOR_1 + 2 -> 0
             [] a \in written ->
                  IF reg(a) = REGISTER_DISPLAY_ORDER THEN owner(a) ELSE 0
             [] OTHER -> VmReset]

VmInit ==
    /\ vmRegs = Constructed
    /\ vmControl = [l \in Layers |-> 0]
    /\ vmAsked = [l \in Layers |-> NewLayer(l)]
    /\ vmBack = [w |-> VmReset, h |-> VmReset, c |-> <<0, 0, 0>>]

LayerWrite(l, r, v) == vmRegs' = [vmRegs EXCEPT ![Address(l, r)] = v]

set_mixing_mode(l) ==
    /\ \E m \in Modes :
         /\ vmControl' = [vmControl EXCEPT ![l] = WithMode(@, m)]
         /\ vmAsked' = [vmAsked EXCEPT ![l].mode = m]
    /\ LayerWrite(l, REGISTER_CONTROL, vmControl'[l])
    /\ UNCHANGED vmBack

set_alpha_blending_mode(l) ==
    /\ \E a \in Blends :
         /\ vmControl' = [vmControl EXCEPT ![l] = WithBlend(@, a)]
         /\ vmAsked' = [vmAsked EXCEPT ![l].blend = a]
    /\ LayerWrite(l, REGISTER_CONTROL, vmControl'[l])
    /\ UNCHANGED vmBack

set_offset(l) ==
    /\ \E x, y \in VmWords :
         /\ vmRegs' = [vmRegs EXCEPT ![Address(l, REGISTER_POSITION_X)] = x,
                                     ![Address(l, REGISTER_POSITION_Y)] = y]
         /\ vmAsked' = [vmAsked EXCEPT ![l].x = x, ![l].y = y]
    /\ UNCHANGED <<vmControl, vmBack>>

set_layer_position(l) ==
    /\ \E p \in Layers :
         /\ LayerWrite(l, REGISTER_DISPLAY_ORDER, p)
         /\ vmAsked' = [vmAsked EXCEPT ![l].order = p]
    /\ UNCHANGED <<vmControl, vmBack>>

set_static_alpha_value(l) ==
    /\ \E v \in VmWords :
         /\ LayerWrite(l, REGISTER_LAYER_ALPHA, v)
         /\ vmAsked' = [vmAsked EXCEPT ![l].alpha = v]
    /\ UNCHANGED <<vmControl, vmBack>>

set_background_resolution ==
    /\ \E w, h \in VmWords :
         /\ vmRegs' = [vmRegs EXCEPT ![MIX_TPG_WIDTH] = w,
                                     ![MIX_TPG_HEIGHT] = h]
         /\ vmBack' = [vmBack EXCEPT !.w = w, !.h = h]
    /\ UNCHANGED <<vmControl, vmAsked>>

set_background_color ==
    /\ \E c \in VmWords :
         /\ vmRegs' = [vmRegs EXCEPT ![MIX_TPG_COLOR_1] = c,
                                     ![MIX_TPG_COLOR_1 + 1] = c,
                                     ![MIX_TPG_COLOR_1 + 2] = c]
         /\ vmBack' = [vmBack EXCEPT !.c = <<c, c, c>>]
    /\ UNCHANGED <<vmControl, vmAsked>>

VmNext ==
    \/ \E l \in Layers :
         \/ set_mixing_mode(l) \/ set_alpha_blending_mode(l)
         \/ set_offset(l) \/ set_layer_position(l) \/ set_static_alpha_value(l)
    \/ set_background_resolution \/ set_background_color

VmSpec == VmInit /\ [][VmNext]_vmVars

----------------------------------------------------------------------------
(* Properties.                                                             *)

\* The core shows what was asked: after any sequence of setters, of any
\* layers, every register holds what was last asked of its own layer, and
\* the background what was asked of it (Mixer.cpp 8-19, MixerLayer.hpp
\* 26-34: the registers of the layers lie apart).
VmAsAsked ==
    /\ \A l \in Layers :
         /\ vmRegs[Address(l, REGISTER_POSITION_X)] = vmAsked[l].x
         /\ vmRegs[Address(l, REGISTER_POSITION_Y)] = vmAsked[l].y
         /\ vmRegs[Address(l, REGISTER_DISPLAY_ORDER)] = vmAsked[l].order
         /\ vmRegs[Address(l, REGISTER_LAYER_ALPHA)] = vmAsked[l].alpha
    /\ vmRegs[MIX_TPG_WIDTH] = vmBack.w /\ vmRegs[MIX_TPG_HEIGHT] = vmBack.h
    /\ <<vmRegs[MIX_TPG_COLOR_1], vmRegs[MIX_TPG_COLOR_1 + 1],
         vmRegs[MIX_TPG_COLOR_1 + 2]>> = vmBack.c

\* The two modes of a layer are kept apart in the register they share,
\* whatever the order in which they are set: bits 0 and 1 are the mixing mode
\* last asked, bits 2 and 3 the blending mode (MixerLayer.hpp 49-52, 112-115).
VmModesApart ==
    \A l \in Layers :
        LET c == vmRegs[Address(l, REGISTER_CONTROL)]
        IN  c % 4 = vmAsked[l].mode /\ (c \div 4) % 4 = vmAsked[l].blend

\* Every register of the mixer holds what was last asked for it.
VmSafe == VmAsAsked /\ VmModesApart
=============================================================================
