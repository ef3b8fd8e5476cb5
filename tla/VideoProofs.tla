---------------------------- MODULE VideoProofs ----------------------------
(***************************************************************************)
(* The drivers of the video cores, for every number of interrupts, banks,  *)
(* inputs and every value that fits a register.                            *)
(***************************************************************************)
EXTENDS MCVideo, SequenceTheorems, WellFoundedInduction, TLAPS

(***************************************************************************)
(* VipMixer's registers hold what was asked.  The argument is that no two  *)
(* registers have one address, and that the copy of the control register   *)
(* is the register and fits four bits, so that what one setter keeps of it *)
(* is what the other one wrote.                                            *)
(***************************************************************************)

Registers == 0 .. 4

VmTypes ==
  /\ vmRegs \in [Addresses -> Int \cup VmWords \cup {VmReset}]
  /\ vmControl \in [Layers -> 0 .. 15]
  /\ vmAsked \in [Layers -> [x : VmWords \cup {0}, y : VmWords \cup {0}, mode : Modes,
                             blend : Blends, order : Layers, alpha : VmWords \cup {0}]]
  /\ vmBack \in [w : VmWords \cup {VmReset}, h : VmWords \cup {VmReset},
                 c : (VmWords \cup {0}) \X (VmWords \cup {0}) \X (VmWords \cup {0})]

\* The copy is the register, and its two parts are what was asked.
CopyWhole ==
  \A l \in Layers : /\ vmRegs[Address(l, REGISTER_CONTROL)] = vmControl[l]
                    /\ vmControl[l] = vmAsked[l].blend * 4 + vmAsked[l].mode

VmInv == VmTypes /\ VmAsAsked /\ CopyWhole

\* Registers of the layers lie above those of the background, and apart.
LEMMA Apart ==
  /\ \A l \in Layers, r \in Registers : Address(l, r) \in Addresses /\ Address(l, r) >= 8
  /\ \A l, k \in Layers, r, s \in Registers :
       Address(l, r) = Address(k, s) => l = k /\ r = s
  /\ 0 .. 7 \subseteq Addresses
BY VmAssumption DEF Address, Addresses, Layers, Registers, MIX_LAYER_BASE,
                    NUMBER_LAYER_REGISTERS

\* Replacing one of the two modes keeps the other.
LEMMA ModesApart ==
  ASSUME NEW b \in Blends, NEW m \in Modes, NEW c, c = b * 4 + m
  PROVE  /\ c \in 0 .. 15 /\ c % 4 = m /\ (c \div 4) % 4 = b
         /\ \A n \in Modes : WithMode(c, n) = b * 4 + n
         /\ \A a \in Blends : WithBlend(c, a) = a * 4 + m
BY DEF Blends, Modes, WithMode, WithBlend

LEMMA InitVmInv == VmInit => VmInv
<1> SUFFICES ASSUME VmInit PROVE VmInv
  OBVIOUS
<1>1. \A l \in Layers, r \in Registers :
        /\ (Address(l, r) - MIX_LAYER_BASE) \div NUMBER_LAYER_REGISTERS = l
        /\ (Address(l, r) - MIX_LAYER_BASE) % NUMBER_LAYER_REGISTERS = r
  BY VmAssumption DEF Layers, Registers, Address, MIX_LAYER_BASE, NUMBER_LAYER_REGISTERS
<1>2. \A l \in Layers, r \in Registers :
        vmRegs[Address(l, r)] = IF r = REGISTER_DISPLAY_ORDER THEN l ELSE 0
  <2> TAKE l \in Layers, r \in Registers
  <2>1. /\ Address(l, r) \in Addresses
        /\ Address(l, r) \notin MIX_TPG_COLOR_1 .. MIX_TPG_COLOR_1 + 2
        /\ Address(l, r) \in {Address(k, q) : k \in Layers, q \in 0 .. 4}
    BY Apart DEF MIX_TPG_COLOR_1, Registers
  <2>2. QED BY <1>1, <2>1 DEF VmInit, Constructed
<1>3. \A a \in 0 .. 7 :
        vmRegs[a] = IF a \in 5 .. 7 THEN 0 ELSE VmReset
  <2> TAKE a \in 0 .. 7
  <2>1. a \in Addresses /\ a \notin {Address(k, q) : k \in Layers, q \in 0 .. 4}
    BY Apart DEF Registers
  <2>2. MIX_TPG_COLOR_1 .. MIX_TPG_COLOR_1 + 2 = 5 .. 7
    BY DEF MIX_TPG_COLOR_1
  <2>3. QED BY <2>1, <2>2 DEF VmInit, Constructed
<1>4. vmRegs \in [Addresses -> Int \cup VmWords \cup {VmReset}]
  <2>1. ASSUME NEW a \in Addresses PROVE vmRegs[a] \in Int \cup {VmReset}
    <3>1. CASE a \in 0 .. 7
      BY <1>3, <3>1
    <3>2. CASE a \notin 0 .. 7
      <4>1. PICK l \in Layers, r \in Registers : a = Address(l, r)
        <5> DEFINE l == (a - 8) \div 5
                   r == (a - 8) % 5
        <5>1. l \in Layers /\ r \in Registers /\ a = Address(l, r)
          BY <3>2, VmAssumption DEF Addresses, Layers, Registers, Address,
                                    MIX_LAYER_BASE, NUMBER_LAYER_REGISTERS
        <5>2. QED BY <5>1
      <4>2. QED BY <1>2, <4>1 DEF Layers
    <3>3. QED BY <3>1, <3>2
  <2>2. \E f \in [Addresses -> Int \cup {VmReset}] : f = vmRegs
    <3>1. vmRegs = [a \in Addresses |-> vmRegs[a]]
      BY DEF VmInit, Constructed
    <3>2. QED BY <2>1, <3>1
  <2>3. QED BY <2>2
<1>5. VmTypes
  BY <1>4 DEF VmInit, VmTypes, NewLayer, Modes, Blends
<1>6. VmAsAsked
  <2>1. \A l \in Layers : /\ vmRegs[Address(l, 0)] = 0 /\ vmRegs[Address(l, 1)] = 0
                          /\ vmRegs[Address(l, 3)] = l /\ vmRegs[Address(l, 4)] = 0
    BY <1>2 DEF Registers, REGISTER_DISPLAY_ORDER
  <2>2. \A l \in Layers : vmAsked[l] = NewLayer(l)
    BY DEF VmInit
  <2>3. QED BY <1>3, <2>1, <2>2 DEF VmInit, VmAsAsked, NewLayer,
                REGISTER_POSITION_X, REGISTER_POSITION_Y, REGISTER_DISPLAY_ORDER,
                REGISTER_LAYER_ALPHA, MIX_TPG_WIDTH, MIX_TPG_HEIGHT, MIX_TPG_COLOR_1
<1>7. CopyWhole
  BY <1>2 DEF CopyWhole, VmInit, NewLayer, Registers, REGISTER_CONTROL,
              REGISTER_DISPLAY_ORDER
<1>8. QED BY <1>5, <1>6, <1>7 DEF VmInv

\* A write to one register of a layer leaves every other register alone.
LEMMA WriteOne ==
  ASSUME VmTypes, NEW l \in Layers, NEW r \in Registers,
         NEW v \in Int \cup VmWords \cup {VmReset}, LayerWrite(l, r, v)
  PROVE  /\ vmRegs' \in [Addresses -> Int \cup VmWords \cup {VmReset}]
         /\ vmRegs'[Address(l, r)] = v
         /\ \A k \in Layers, q \in Registers :
              k # l \/ q # r => vmRegs'[Address(k, q)] = vmRegs[Address(k, q)]
         /\ \A a \in 0 .. 7 : vmRegs'[a] = vmRegs[a]
<1>1. Address(l, r) \in Addresses /\ Address(l, r) >= 8
  BY Apart
<1>2. \A k \in Layers, q \in Registers :
        k # l \/ q # r => Address(k, q) # Address(l, r)
  BY Apart
<1>3. QED BY <1>1, <1>2, Apart DEF LayerWrite, VmTypes

\* The background is asked for and written together, and apart from layers.
LEMMA BackKept ==
  ASSUME VmAsAsked, \A a \in 0 .. 7 : vmRegs'[a] = vmRegs[a], UNCHANGED vmBack
  PROVE  /\ vmRegs'[MIX_TPG_WIDTH] = vmBack'.w /\ vmRegs'[MIX_TPG_HEIGHT] = vmBack'.h
         /\ <<vmRegs'[MIX_TPG_COLOR_1], vmRegs'[MIX_TPG_COLOR_1 + 1],
              vmRegs'[MIX_TPG_COLOR_1 + 2]>> = vmBack'.c
BY DEF VmAsAsked, MIX_TPG_WIDTH, MIX_TPG_HEIGHT, MIX_TPG_COLOR_1

LEMMA ModeVmInv ==
  ASSUME VmInv, NEW l \in Layers, set_mixing_mode(l) \/ set_alpha_blending_mode(l)
  PROVE  VmInv'
<1>0. VmTypes /\ VmAsAsked /\ CopyWhole
  BY DEF VmInv
<1>1. PICK b \in Blends, m \in Modes :
        /\ vmAsked' \in {[vmAsked EXCEPT ![l].mode = m], [vmAsked EXCEPT ![l].blend = b]}
        /\ vmAsked'[l].mode = m /\ vmAsked'[l].blend = b
        /\ vmControl' = [vmControl EXCEPT ![l] = b * 4 + m]
  <2>1. PICK b0 \in Blends, m0 \in Modes :
          vmAsked[l].blend = b0 /\ vmAsked[l].mode = m0 /\ vmControl[l] = b0 * 4 + m0
    BY <1>0 DEF VmTypes, CopyWhole
  <2>2. /\ \A n \in Modes : WithMode(vmControl[l], n) = b0 * 4 + n
        /\ \A a \in Blends : WithBlend(vmControl[l], a) = a * 4 + m0
    BY <2>1, ModesApart
  <2>3. CASE set_mixing_mode(l)
    <3>1. PICK m \in Modes :
            /\ vmControl' = [vmControl EXCEPT ![l] = WithMode(@, m)]
            /\ vmAsked' = [vmAsked EXCEPT ![l].mode = m]
      BY <2>3 DEF set_mixing_mode
    <3>2. vmControl' = [vmControl EXCEPT ![l] = b0 * 4 + m]
      BY <2>2, <3>1
    <3>3. vmAsked'[l].mode = m /\ vmAsked'[l].blend = b0
      BY <1>0, <2>1, <3>1 DEF VmTypes
    <3>4. QED BY <3>1, <3>2, <3>3
  <2>4. CASE set_alpha_blending_mode(l)
    <3>1. PICK b \in Blends :
            /\ vmControl' = [vmControl EXCEPT ![l] = WithBlend(@, b)]
            /\ vmAsked' = [vmAsked EXCEPT ![l].blend = b]
      BY <2>4 DEF set_alpha_blending_mode
    <3>2. vmControl' = [vmControl EXCEPT ![l] = b * 4 + m0]
      BY <2>2, <3>1
    <3>3. vmAsked'[l].mode = m0 /\ vmAsked'[l].blend = b
      BY <1>0, <2>1, <3>1 DEF VmTypes
    <3>4. QED BY <3>1, <3>2, <3>3
  <2>5. QED BY <2>3, <2>4
<1>2. b * 4 + m \in 0 .. 15
  BY DEF Blends, Modes
<1>3. vmControl' \in [Layers -> 0 .. 15] /\ vmControl'[l] = b * 4 + m
  BY <1>0, <1>1, <1>2 DEF VmTypes
<1>4. LayerWrite(l, REGISTER_CONTROL, vmControl'[l]) /\ UNCHANGED vmBack
  BY DEF set_mixing_mode, set_alpha_blending_mode
<1>5. REGISTER_CONTROL = 2 /\ 2 \in Registers
  BY DEF REGISTER_CONTROL, Registers
<1>6. /\ vmRegs' \in [Addresses -> Int \cup VmWords \cup {VmReset}]
      /\ vmRegs'[Address(l, 2)] = b * 4 + m
      /\ \A k \in Layers, q \in Registers :
           k # l \/ q # 2 => vmRegs'[Address(k, q)] = vmRegs[Address(k, q)]
      /\ \A a \in 0 .. 7 : vmRegs'[a] = vmRegs[a]
  BY <1>0, <1>2, <1>3, <1>4, <1>5, WriteOne
<1>7. /\ vmAsked' \in [Layers -> [x : VmWords \cup {0}, y : VmWords \cup {0}, mode : Modes,
                                  blend : Blends, order : Layers, alpha : VmWords \cup {0}]]
      /\ \A k \in Layers : /\ k # l => vmAsked'[k] = vmAsked[k]
                           /\ vmAsked'[k].x = vmAsked[k].x /\ vmAsked'[k].y = vmAsked[k].y
                           /\ vmAsked'[k].order = vmAsked[k].order
                           /\ vmAsked'[k].alpha = vmAsked[k].alpha
  BY <1>0, <1>1 DEF VmTypes
<1>8. VmTypes'
  BY <1>0, <1>3, <1>4, <1>6, <1>7 DEF VmTypes
<1>9. CopyWhole'
  <2> SUFFICES ASSUME NEW k \in Layers
               PROVE  /\ vmRegs'[Address(k, 2)] = vmControl'[k]
                      /\ vmControl'[k] = vmAsked'[k].blend * 4 + vmAsked'[k].mode
    BY <1>5 DEF CopyWhole
  <2>1. CASE k = l
    BY <1>1, <1>3, <1>6, <2>1
  <2>2. CASE k # l
    BY <1>0, <1>1, <1>5, <1>6, <1>7, <2>2 DEF CopyWhole, VmTypes
  <2>3. QED BY <2>1, <2>2
<1>10. VmAsAsked'
  <2>1. \A k \in Layers, q \in {0, 1, 3, 4} :
          vmRegs'[Address(k, q)] = vmRegs[Address(k, q)]
    BY <1>6 DEF Registers
  <2>2. QED BY <1>0, <1>4, <1>6, <1>7, <2>1, BackKept
            DEF VmAsAsked, REGISTER_POSITION_X, REGISTER_POSITION_Y,
                REGISTER_DISPLAY_ORDER, REGISTER_LAYER_ALPHA
<1>11. QED BY <1>8, <1>9, <1>10 DEF VmInv

\* What the other setters of a layer keep: its control register, and the
\* modes asked of it.
LEMMA ControlKept ==
  ASSUME CopyWhole, UNCHANGED vmControl,
         \A k \in Layers : /\ vmRegs'[Address(k, 2)] = vmRegs[Address(k, 2)]
                           /\ vmAsked'[k].mode = vmAsked[k].mode
                           /\ vmAsked'[k].blend = vmAsked[k].blend
  PROVE  CopyWhole'
BY DEF CopyWhole, REGISTER_CONTROL

LEMMA OrderVmInv ==
  ASSUME VmInv, NEW l \in Layers, set_layer_position(l) \/ set_static_alpha_value(l)
  PROVE  VmInv'
<1>0. VmTypes /\ VmAsAsked /\ CopyWhole
  BY DEF VmInv
<1>1. UNCHANGED <<vmControl, vmBack>>
  BY DEF set_layer_position, set_static_alpha_value
<1>2. CASE set_layer_position(l)
  <2>1. PICK p \in Layers : LayerWrite(l, 3, p) /\ vmAsked' = [vmAsked EXCEPT ![l].order = p]
    BY <1>2 DEF set_layer_position, REGISTER_DISPLAY_ORDER
  <2>2. 3 \in Registers /\ p \in Int \cup VmWords \cup {VmReset}
    BY DEF Registers, Layers
  <2>3. /\ vmRegs' \in [Addresses -> Int \cup VmWords \cup {VmReset}]
        /\ vmRegs'[Address(l, 3)] = p
        /\ \A k \in Layers, q \in Registers :
             k # l \/ q # 3 => vmRegs'[Address(k, q)] = vmRegs[Address(k, q)]
        /\ \A a \in 0 .. 7 : vmRegs'[a] = vmRegs[a]
    BY <1>0, <2>1, <2>2, WriteOne
  <2>4. VmTypes'
    BY <1>0, <1>1, <2>1, <2>3 DEF VmTypes
  <2>5. CopyWhole'
    BY <1>0, <1>1, <2>1, <2>3, ControlKept DEF VmTypes, Registers
  <2>6. VmAsAsked'
    <3>1. \A k \in Layers : /\ vmRegs'[Address(k, 0)] = vmAsked'[k].x
                            /\ vmRegs'[Address(k, 1)] = vmAsked'[k].y
                            /\ vmRegs'[Address(k, 3)] = vmAsked'[k].order
                            /\ vmRegs'[Address(k, 4)] = vmAsked'[k].alpha
      BY <1>0, <2>1, <2>3 DEF VmTypes, VmAsAsked, Registers, REGISTER_POSITION_X,
         REGISTER_POSITION_Y, REGISTER_DISPLAY_ORDER, REGISTER_LAYER_ALPHA
    <3>2. QED BY <1>0, <1>1, <2>3, <3>1, BackKept DEF VmAsAsked, REGISTER_POSITION_X,
              REGISTER_POSITION_Y, REGISTER_DISPLAY_ORDER, REGISTER_LAYER_ALPHA
  <2>7. QED BY <2>4, <2>5, <2>6 DEF VmInv
<1>3. CASE set_static_alpha_value(l)
  <2>1. PICK v \in VmWords : LayerWrite(l, 4, v) /\ vmAsked' = [vmAsked EXCEPT ![l].alpha = v]
    BY <1>3 DEF set_static_alpha_value, REGISTER_LAYER_ALPHA
  <2>2. 4 \in Registers
    BY DEF Registers
  <2>3. /\ vmRegs' \in [Addresses -> Int \cup VmWords \cup {VmReset}]
        /\ vmRegs'[Address(l, 4)] = v
        /\ \A k \in Layers, q \in Registers :
             k # l \/ q # 4 => vmRegs'[Address(k, q)] = vmRegs[Address(k, q)]
        /\ \A a \in 0 .. 7 : vmRegs'[a] = vmRegs[a]
    BY <1>0, <2>1, <2>2, WriteOne
  <2>4. VmTypes'
    BY <1>0, <1>1, <2>1, <2>3, SMTT(30), ZenonT(40) DEF VmTypes
  <2>5. CopyWhole'
    BY <1>0, <1>1, <2>1, <2>3, ControlKept DEF VmTypes, Registers
  <2>6. VmAsAsked'
    <3>1. \A k \in Layers : /\ vmRegs'[Address(k, 0)] = vmAsked'[k].x
                            /\ vmRegs'[Address(k, 1)] = vmAsked'[k].y
                            /\ vmRegs'[Address(k, 3)] = vmAsked'[k].order
                            /\ vmRegs'[Address(k, 4)] = vmAsked'[k].alpha
      BY <1>0, <2>1, <2>3 DEF VmTypes, VmAsAsked, Registers, REGISTER_POSITION_X,
         REGISTER_POSITION_Y, REGISTER_DISPLAY_ORDER, REGISTER_LAYER_ALPHA
    <3>2. QED BY <1>0, <1>1, <2>3, <3>1, BackKept DEF VmAsAsked, REGISTER_POSITION_X,
              REGISTER_POSITION_Y, REGISTER_DISPLAY_ORDER, REGISTER_LAYER_ALPHA
  <2>7. QED BY <2>4, <2>5, <2>6 DEF VmInv
<1>4. QED BY <1>2, <1>3

LEMMA OffsetVmInv == ASSUME VmInv, NEW l \in Layers, set_offset(l) PROVE VmInv'
<1>0. VmTypes /\ VmAsAsked /\ CopyWhole
  BY DEF VmInv
<1>1. PICK x, y \in VmWords :
        /\ vmRegs' = [vmRegs EXCEPT ![Address(l, 0)] = x, ![Address(l, 1)] = y]
        /\ vmAsked' = [vmAsked EXCEPT ![l].x = x, ![l].y = y]
        /\ UNCHANGED <<vmControl, vmBack>>
  BY DEF set_offset, REGISTER_POSITION_X, REGISTER_POSITION_Y
<1>2. /\ vmRegs' \in [Addresses -> Int \cup VmWords \cup {VmReset}]
      /\ vmRegs'[Address(l, 0)] = x /\ vmRegs'[Address(l, 1)] = y
      /\ \A k \in Layers, q \in Registers :
           k # l \/ q \notin {0, 1} => vmRegs'[Address(k, q)] = vmRegs[Address(k, q)]
      /\ \A a \in 0 .. 7 : vmRegs'[a] = vmRegs[a]
  <2>1. 0 \in Registers /\ 1 \in Registers
    BY DEF Registers
  <2>2. /\ Address(l, 0) \in Addresses /\ Address(l, 1) \in Addresses
        /\ Address(l, 0) # Address(l, 1)
        /\ Address(l, 0) >= 8 /\ Address(l, 1) >= 8
        /\ \A k \in Layers, q \in Registers : k # l \/ q \notin {0, 1} =>
             Address(k, q) # Address(l, 0) /\ Address(k, q) # Address(l, 1)
    BY <2>1, Apart
  <2>3. QED BY <1>0, <1>1, <2>2, Apart DEF VmTypes
<1>a. vmAsked' = [vmAsked EXCEPT ![l] = [vmAsked[l] EXCEPT !.x = x, !.y = y]]
  <2> DEFINE new == [vmAsked[l] EXCEPT !.x = x, !.y = y]
             half == [vmAsked EXCEPT ![l] = [vmAsked[l] EXCEPT !.x = x]]
  <2>1. half \in [Layers -> [x : VmWords \cup {0}, y : VmWords \cup {0}, mode : Modes,
                             blend : Blends, order : Layers, alpha : VmWords \cup {0}]]
    BY <1>0 DEF VmTypes
  <2>2. vmAsked' = [half EXCEPT ![l] = [half[l] EXCEPT !.y = y]]
    BY <1>1
  <2>3. half[l] = [vmAsked[l] EXCEPT !.x = x]
    BY <1>0 DEF VmTypes
  <2>4. [half[l] EXCEPT !.y = y] = new
    BY <2>3
  <2>5. [half EXCEPT ![l] = new] = [vmAsked EXCEPT ![l] = new]
    BY <1>0 DEF VmTypes
  <2>6. QED BY <2>2, <2>4, <2>5
<1>b. /\ vmAsked' \in [Layers -> [x : VmWords \cup {0}, y : VmWords \cup {0}, mode : Modes,
                                  blend : Blends, order : Layers, alpha : VmWords \cup {0}]]
      /\ vmAsked'[l].x = x /\ vmAsked'[l].y = y
      /\ \A k \in Layers : /\ k # l => vmAsked'[k] = vmAsked[k]
                           /\ vmAsked'[k].mode = vmAsked[k].mode
                           /\ vmAsked'[k].blend = vmAsked[k].blend
                           /\ vmAsked'[k].order = vmAsked[k].order
                           /\ vmAsked'[k].alpha = vmAsked[k].alpha
  <2> DEFINE new == [vmAsked[l] EXCEPT !.x = x, !.y = y]
  <2>1. /\ vmAsked[l] \in [x : VmWords \cup {0}, y : VmWords \cup {0}, mode : Modes,
                            blend : Blends, order : Layers, alpha : VmWords \cup {0}]
        /\ vmAsked' = [vmAsked EXCEPT ![l] = new]
    BY <1>0, <1>a DEF VmTypes
  <2>2. /\ new \in [x : VmWords \cup {0}, y : VmWords \cup {0}, mode : Modes,
                     blend : Blends, order : Layers, alpha : VmWords \cup {0}]
        /\ new.x = x /\ new.y = y /\ new.mode = vmAsked[l].mode
        /\ new.blend = vmAsked[l].blend /\ new.order = vmAsked[l].order
        /\ new.alpha = vmAsked[l].alpha
    BY <2>1
  <2> HIDE DEF new
  <2>3. QED BY <1>0, <2>1, <2>2 DEF VmTypes
<1>3. VmTypes'
  BY <1>0, <1>1, <1>2, <1>b DEF VmTypes
<1>4. CopyWhole'
  <2>1. 2 \in Registers /\ 2 \notin {0, 1}
    BY DEF Registers
  <2>2. \A k \in Layers : vmRegs'[Address(k, 2)] = vmRegs[Address(k, 2)]
    BY <1>2, <2>1
  <2>3. UNCHANGED vmControl
    BY <1>1
  <2>4. QED BY <1>0, <1>b, <2>2, <2>3, ControlKept
<1>5. VmAsAsked'
  <2>1. \A k \in Layers : /\ vmRegs'[Address(k, 0)] = vmAsked'[k].x
                          /\ vmRegs'[Address(k, 1)] = vmAsked'[k].y
                          /\ vmRegs'[Address(k, 3)] = vmAsked'[k].order
                          /\ vmRegs'[Address(k, 4)] = vmAsked'[k].alpha
    BY <1>0, <1>2, <1>b DEF VmAsAsked, Registers, REGISTER_POSITION_X,
       REGISTER_POSITION_Y, REGISTER_DISPLAY_ORDER, REGISTER_LAYER_ALPHA
  <2>2. QED BY <1>0, <1>1, <1>2, <2>1, BackKept DEF VmAsAsked, REGISTER_POSITION_X,
            REGISTER_POSITION_Y, REGISTER_DISPLAY_ORDER, REGISTER_LAYER_ALPHA
<1>6. QED BY <1>3, <1>4, <1>5 DEF VmInv

\* Writing the background alone keeps the invariant when what is written is
\* what is asked.
LEMMA BackgroundVmInv ==
  ASSUME VmInv, UNCHANGED <<vmControl, vmAsked>>,
         vmRegs' \in [Addresses -> Int \cup VmWords \cup {VmReset}],
         \A k \in Layers, q \in Registers : vmRegs'[Address(k, q)] = vmRegs[Address(k, q)],
         vmBack' \in [w : VmWords \cup {VmReset}, h : VmWords \cup {VmReset},
                      c : (VmWords \cup {0}) \X (VmWords \cup {0}) \X (VmWords \cup {0})],
         vmRegs'[3] = vmBack'.w, vmRegs'[4] = vmBack'.h,
         <<vmRegs'[5], vmRegs'[6], vmRegs'[7]>> = vmBack'.c
  PROVE  VmInv'
<1>0. VmTypes /\ VmAsAsked /\ CopyWhole
  BY DEF VmInv
<1>1. VmTypes'
  BY <1>0 DEF VmTypes
<1>2. CopyWhole'
  BY <1>0, ControlKept DEF Registers
<1>3. VmAsAsked'
  <2>1. \A k \in Layers : /\ vmRegs'[Address(k, 0)] = vmRegs[Address(k, 0)]
                          /\ vmRegs'[Address(k, 1)] = vmRegs[Address(k, 1)]
                          /\ vmRegs'[Address(k, 3)] = vmRegs[Address(k, 3)]
                          /\ vmRegs'[Address(k, 4)] = vmRegs[Address(k, 4)]
    BY DEF Registers
  <2>2. MIX_TPG_COLOR_1 = 5 /\ MIX_TPG_COLOR_1 + 1 = 6 /\ MIX_TPG_COLOR_1 + 2 = 7
    BY DEF MIX_TPG_COLOR_1
  <2>3. QED BY <1>0, <2>1, <2>2 DEF VmAsAsked, REGISTER_POSITION_X, REGISTER_POSITION_Y,
            REGISTER_DISPLAY_ORDER, REGISTER_LAYER_ALPHA, MIX_TPG_WIDTH, MIX_TPG_HEIGHT
<1>4. QED BY <1>1, <1>2, <1>3 DEF VmInv

\* The background's registers lie below those of the layers.
LEMMA ResolutionVmInv == ASSUME VmInv, set_background_resolution PROVE VmInv'
<1>0. VmTypes /\ VmAsAsked /\ CopyWhole
  BY DEF VmInv
<1>1. PICK w, h \in VmWords : /\ vmRegs' = [vmRegs EXCEPT ![3] = w, ![4] = h]
                              /\ vmBack' = [vmBack EXCEPT !.w = w, !.h = h]
                              /\ UNCHANGED <<vmControl, vmAsked>>
  BY DEF set_background_resolution, MIX_TPG_WIDTH, MIX_TPG_HEIGHT
<1>2. /\ 3 \in Addresses /\ 4 \in Addresses
      /\ 5 \in Addresses /\ 6 \in Addresses /\ 7 \in Addresses
  BY Apart
<1>3. /\ vmRegs' \in [Addresses -> Int \cup VmWords \cup {VmReset}]
      /\ vmRegs'[3] = w /\ vmRegs'[4] = h
      /\ vmRegs'[5] = vmRegs[5] /\ vmRegs'[6] = vmRegs[6] /\ vmRegs'[7] = vmRegs[7]
  BY <1>0, <1>1, <1>2 DEF VmTypes
<1>4. \A k \in Layers, q \in Registers : vmRegs'[Address(k, q)] = vmRegs[Address(k, q)]
  BY <1>0, <1>1, <1>2, Apart DEF VmTypes
<1>5. /\ vmBack' \in [w : VmWords \cup {VmReset}, h : VmWords \cup {VmReset},
                      c : (VmWords \cup {0}) \X (VmWords \cup {0}) \X (VmWords \cup {0})]
      /\ vmBack'.w = w /\ vmBack'.h = h /\ vmBack'.c = vmBack.c
  BY <1>0, <1>1 DEF VmTypes
<1>6. <<vmRegs'[5], vmRegs'[6], vmRegs'[7]>> = vmBack'.c
  <2>1. MIX_TPG_COLOR_1 = 5 /\ MIX_TPG_COLOR_1 + 1 = 6 /\ MIX_TPG_COLOR_1 + 2 = 7
    BY DEF MIX_TPG_COLOR_1
  <2>2. <<vmRegs[5], vmRegs[6], vmRegs[7]>> = vmBack.c
    BY <1>0, <2>1 DEF VmAsAsked
  <2>3. QED BY <1>3, <1>5, <2>2
<1>7. QED BY <1>1, <1>3, <1>4, <1>5, <1>6, BackgroundVmInv

LEMMA ColorVmInv == ASSUME VmInv, set_background_color PROVE VmInv'
<1>0. VmTypes /\ VmAsAsked /\ CopyWhole
  BY DEF VmInv
<1>1. PICK c \in VmWords : /\ vmRegs' = [vmRegs EXCEPT ![5] = c, ![6] = c, ![7] = c]
                           /\ vmBack' = [vmBack EXCEPT !.c = <<c, c, c>>]
                           /\ UNCHANGED <<vmControl, vmAsked>>
  <2>1. MIX_TPG_COLOR_1 = 5 /\ MIX_TPG_COLOR_1 + 1 = 6 /\ MIX_TPG_COLOR_1 + 2 = 7
    BY DEF MIX_TPG_COLOR_1
  <2>2. QED BY <2>1 DEF set_background_color
<1>2. /\ 3 \in Addresses /\ 4 \in Addresses
      /\ 5 \in Addresses /\ 6 \in Addresses /\ 7 \in Addresses
  BY Apart
<1>3. /\ vmRegs' \in [Addresses -> Int \cup VmWords \cup {VmReset}]
      /\ vmRegs'[3] = vmRegs[3] /\ vmRegs'[4] = vmRegs[4]
      /\ vmRegs'[5] = c /\ vmRegs'[6] = c /\ vmRegs'[7] = c
  BY <1>0, <1>1, <1>2 DEF VmTypes
<1>4. \A k \in Layers, q \in Registers : vmRegs'[Address(k, q)] = vmRegs[Address(k, q)]
  <2> TAKE k \in Layers, q \in Registers
  <2>1. Address(k, q) \in Addresses /\ Address(k, q) \notin {5, 6, 7}
    BY Apart
  <2>2. QED BY <1>0, <1>1, <1>2, <2>1 DEF VmTypes
<1>5. /\ vmBack' \in [w : VmWords \cup {VmReset}, h : VmWords \cup {VmReset},
                      c : (VmWords \cup {0}) \X (VmWords \cup {0}) \X (VmWords \cup {0})]
      /\ vmBack'.w = vmBack.w /\ vmBack'.h = vmBack.h /\ vmBack'.c = <<c, c, c>>
  BY <1>0, <1>1 DEF VmTypes
<1>6. QED BY <1>0, <1>1, <1>3, <1>4, <1>5, BackgroundVmInv
          DEF VmAsAsked, MIX_TPG_WIDTH, MIX_TPG_HEIGHT

LEMMA NextVmInv == VmInv /\ [VmNext]_vmVars => VmInv'
<1> SUFFICES ASSUME VmInv, [VmNext]_vmVars PROVE VmInv'
  OBVIOUS
<1>1. CASE UNCHANGED vmVars
  BY <1>1 DEF vmVars, VmInv, VmTypes, VmAsAsked, CopyWhole
<1>2. CASE VmNext
  BY <1>2, ModeVmInv, OrderVmInv, OffsetVmInv, ResolutionVmInv,
     ColorVmInv DEF VmNext
<1>3. QED BY <1>1, <1>2

\* For every number of inputs: after any setters of any layers every register
\* holds what was last asked of its own layer, and the two modes of a layer are
\* apart in the register they share.
THEOREM MixerShowsWhatWasAsked == VmSpec => []VmSafe
<1>1. VmInv => VmSafe
  <2> SUFFICES ASSUME VmInv PROVE VmAsAsked /\ VmModesApart
    BY DEF VmSafe
  <2>1. ASSUME NEW l \in Layers
        PROVE  LET c == vmRegs[Address(l, REGISTER_CONTROL)]
               IN  c % 4 = vmAsked[l].mode /\ (c \div 4) % 4 = vmAsked[l].blend
    <3>1. /\ vmAsked[l].blend \in Blends /\ vmAsked[l].mode \in Modes
          /\ vmRegs[Address(l, REGISTER_CONTROL)] = vmAsked[l].blend * 4 + vmAsked[l].mode
      BY DEF VmInv, VmTypes, CopyWhole
    <3>2. QED BY <3>1, ModesApart
  <2>2. QED BY <2>1 DEF VmInv, VmModesApart
<1>2. QED BY <1>1, InitVmInv, NextVmInv, PTL DEF VmSpec

(***************************************************************************)
(* The interrupts that the handler of a core clears.                       *)
(***************************************************************************)
\* What the callback returned is part of what was read, and nothing at rest.
VcMaskInv ==
  /\ vcMask \subseteq vcStatus
  /\ vcIsr \in {"out", "read"} => vcMask = {}

LEMMA StepMaskInv == VcMaskInv /\ [VcNext]_vcVars => VcMaskInv'
<1> SUFFICES ASSUME VcMaskInv, [VcNext]_vcVars PROVE VcMaskInv'
  OBVIOUS
<1>1. CASE VcStep \/ VcConstruct \/ VcDestruct \/ VcCall \/ VcInitCvo
  BY <1>1 DEF VcMaskInv, VcStep, VcConstruct, VcDestruct, VcCall, VcInitCvo
<1>2. CASE register_user_isr \/ VcRaise
  BY <1>2 DEF VcMaskInv, register_user_isr, VcRaise
<1>3. CASE VcEnter
  <2>1. vcStatus' = vcRaised /\ vcMask' = vcMask /\ vcIsr = "out"
    BY <1>3 DEF VcEnter
  <2>2. QED BY <2>1 DEF VcMaskInv
<1>4. CASE VcCallUser
  BY <1>4 DEF VcMaskInv, VcCallUser
<1>5. CASE VcLeave
  BY <1>5 DEF VcMaskInv, VcLeave
<1>6. CASE UNCHANGED vcVars
  BY <1>6 DEF VcMaskInv, vcVars
<1>7. QED BY <1>1, <1>2, <1>3, <1>4, <1>5, <1>6 DEF VcNext

LEMMA StepSeenFirst ==
  VcMaskInv /\ [VcNext]_vcVars
    => [vcIsr = "call" /\ vcIsr' = "out" => vcRaised \ vcStatus \subseteq vcRaised']_vcVars
BY DEF VcMaskInv, VcNext, vcVars, VcStep, VcConstruct, VcDestruct, VcCall, VcInitCvo,
       register_user_isr, VcRaise, VcEnter, VcCallUser, VcLeave, Cleared

\* The handler of a core clears no interrupt it did not read (VipCore.cpp 50-60).
THEOREM SeenBeforeCleared == VcSpec => VcSeenFirst
<1>1. VcInit => VcMaskInv
  BY DEF VcInit, VcMaskInv
<1>2. QED BY <1>1, StepMaskInv, StepSeenFirst, PTL DEF VcSpec, VcSeenFirst

(***************************************************************************)
(* The object of a core: copy of control, callback and banks of timings.   *)
(* A method is a chain of steps, and what may follow a step says where in  *)
(* a method a thread is.  From that come: the callback pointer is known    *)
(* before the handler is registered (VcPointer); what a thread is about to *)
(* write is the copy, and at rest the copy is the register, unless the     *)
(* callback changed control inside a method of main (VcCopy); a bank that  *)
(* is being written is not valid, and the words so far are of one timing   *)
(* (VcBanked).                                                             *)
(***************************************************************************)

VcSteps ==
  {[do |-> "load"], [do |-> "control"]}
    \cup [do : {"store"}, set : SUBSET ControlBits, clear : SUBSET ControlBits]
    \cup [do : {"put"}, value : {{VcGo}}] \cup [do : {"clear"}, bits : SUBSET VcIrqs]
    \cup [do : {"serve"}, is : BOOLEAN] \cup [do : {"user"}, is : {"null", VcJunk}]
    \cup [do : {"select"}, bank : VcBanks] \cup [do : {"valid"}, is : BOOLEAN]
    \cup [do : {"word"}, at : 1 .. VcFields, mode : VcModes]

\* What may come after a step of a method.
Follows(s, t) ==
  /\ s.do = "load" => t.do = "store"
  /\ s.do = "store" => t.do = "control"
  /\ s.do = "control" => t.do = "user" /\ t.is = "null"
  /\ s.do = "user" => s.is = "null" /\ t.do = "clear"
  /\ s.do = "clear" => t.do = "serve" /\ t.is = TRUE
  /\ s.do = "serve" => s.is = FALSE /\ t.do = "user" /\ t.is = VcJunk
  /\ s.do = "put" => t.do = "select"
  /\ s.do = "select" => t.do = "valid"
  /\ s.do = "valid" => IF s.is = TRUE THEN t.do = "put" ELSE t.do = "word" /\ t.at = 1
  /\ s.do = "word" => IF s.at = VcFields THEN t.do = "valid" /\ t.is = TRUE
                      ELSE t.do = "word" /\ t.at = s.at + 1 /\ t.mode = s.mode
\* What may end a method.
Ends(s) ==
  /\ s.do \notin {"load", "store", "word", "select"}
  /\ s.do = "user" => s.is = VcJunk
  /\ s.do = "serve" => s.is = TRUE

Chain(q) ==
  /\ q \in Seq(VcSteps)
  /\ \A i \in 1 .. Len(q) - 1 : Follows(q[i], q[i + 1])
  /\ q # <<>> => Ends(q[Len(q)])
  /\ \A i \in 1 .. Len(q) : q[i].do = "user" /\ q[i].is = "null" => Len(q) >= i + 2

Doing(w, kinds) == vcTodo[w] # <<>> /\ Head(vcTodo[w]).do \in kinds

VcShapes ==
  /\ DOMAIN vcTodo = Who /\ \A w \in Who : Chain(vcTodo[w])
  /\ \A i \in 1 .. Len(vcTodo["callback"]) :
       vcTodo["callback"][i].do \notin {"put", "user", "serve"}
  /\ \A i \in 1 .. Len(vcTodo["main"]) :
       IF vcProgram = "struct" THEN vcTodo["main"][i].do \in {"put"} \cup BankKinds
       ELSE vcTodo["main"][i].do # "put"
  /\ vcIsr # "call" => vcTodo["callback"] = <<>>
  /\ vcIsr # "out" => vcServed
  /\ vcProgram = "struct" => ~vcServed

\* The constructor has written the control register and not yet registered the handler.
Building ==
  /\ Doing("main", {"user", "clear", "serve"})
  /\ LET s == Head(vcTodo["main"]) IN
       /\ s.do = "user" => s.is = "null"
       /\ s.do = "serve" => s.is = TRUE
       /\ s.do = "clear" => Len(vcTodo["main"]) > 1

VcPointer ==
  /\ vcServed => vcCallback # VcJunk
  /\ Building /\ ~Doing("main", {"user"}) => vcCallback # VcJunk
  /\ Doing("main", {"user"}) /\ Head(vcTodo["main"]).is = VcJunk => ~vcServed

VcCopy ==
  /\ Doing("callback", ControlKinds) /\ Doing("main", ControlKinds) => vcCrossed
  /\ Doing("main", {"control"}) /\ ~vcCrossed => vcTmp["main"] = vcControl
  /\ Doing("callback", {"control"}) => vcTmp["callback"] = vcControl
  /\ /\ (vcServed \/ Building) /\ ~vcCrossed
     /\ ~Doing("main", ControlKinds) /\ ~Doing("callback", ControlKinds)
     => vcControl = vcRegister

Whole(b) == \A j, k \in 1 .. VcFields : vcBank[b].word[j] = vcBank[b].word[k]
VcBanked ==
  /\ Doing("callback", BankKinds) /\ Doing("main", BankKinds) => vcSuspect = VcBanks
  /\ \A w \in Who : Doing(w, {"word"}) /\ vcSelect \in VcBanks \ vcSuspect =>
       /\ ~vcBank[vcSelect].valid
       /\ \A j \in 1 .. Head(vcTodo[w]).at - 1 :
            vcBank[vcSelect].word[j] = Head(vcTodo[w]).mode
  /\ \A b \in VcBanks \ vcSuspect :
       Whole(b) \/ (b = vcSelect /\ \E w \in Who : Doing(w, {"word"}))

VcInv == VcTypeInv /\ VcMaskInv /\ VcShapes /\ VcPointer /\ VcCopy /\ VcBanked

\* The fields of each kind of step.
LEMMA StepFields ==
  ASSUME NEW s \in VcSteps
  PROVE  /\ s.do \in {"load", "control", "store", "put", "clear", "serve", "user", "select", "valid", "word"}
         /\ s.do = "store" => s.set \in SUBSET ControlBits /\ s.clear \in SUBSET ControlBits
         /\ s.do = "put" => s.value = {VcGo}
         /\ s.do = "clear" => s.bits \in SUBSET VcIrqs
         /\ s.do \in {"serve", "valid"} => s.is \in BOOLEAN
         /\ s.do = "user" => s.is \in {"null", VcJunk}
         /\ s.do = "select" => s.bank \in VcBanks
         /\ s.do = "word" => s.at \in 1 .. VcFields /\ s.mode \in VcModes
BY DEF VcSteps

\* What is left of a chain after its first step.
LEMMA ChainRest ==
  ASSUME NEW q, NEW r \in Seq(VcSteps), Chain(q), q # <<>>, Len(r) = Len(q) - 1,
         \A i \in 1 .. Len(r) : r[i] = q[i + 1]
  PROVE  /\ Chain(r)
         /\ r # <<>> => Follows(q[1], r[1])
         /\ r = <<>> => Ends(q[1])
         /\ (q[1].do = "user" /\ q[1].is = "null") => Len(q) >= 3
<1>1. q \in Seq(VcSteps) /\ Len(q) \in Nat /\ Len(q) > 0 /\ Len(r) \in Nat
  BY DEF Chain
<1>2. r = <<>> <=> Len(r) = 0
  BY EmptySeq
<1>3. \A i \in 1 .. Len(r) - 1 : Follows(r[i], r[i + 1])
  <2> TAKE i \in 1 .. Len(r) - 1
  <2>1. i + 1 \in 1 .. Len(q) - 1 /\ i \in 1 .. Len(r) /\ i + 1 \in 1 .. Len(r)
    BY <1>1
  <2>2. r[i] = q[i + 1] /\ r[i + 1] = q[(i + 1) + 1]
    BY <2>1
  <2>3. Follows(q[i + 1], q[(i + 1) + 1])
    BY <2>1 DEF Chain
  <2>4. QED BY <2>2, <2>3
<1>4. r # <<>> => Ends(r[Len(r)])
  <2> HAVE r # <<>>
  <2>1. Len(r) \in 1 .. Len(r) /\ Len(r) + 1 = Len(q)
    BY <1>1, <1>2
  <2>2. r[Len(r)] = q[Len(q)]
    BY <2>1
  <2>3. QED BY <2>2 DEF Chain
<1>5. \A i \in 1 .. Len(r) : r[i].do = "user" /\ r[i].is = "null" => Len(r) >= i + 2
  <2> TAKE i \in 1 .. Len(r)
  <2>1. i + 1 \in 1 .. Len(q) /\ r[i] = q[i + 1]
    BY <1>1
  <2>2. q[i + 1].do = "user" /\ q[i + 1].is = "null" => Len(q) >= (i + 1) + 2
    BY <2>1 DEF Chain
  <2>3. QED BY <1>1, <2>1, <2>2
<1>6. r # <<>> => Follows(q[1], r[1])
  <2> HAVE r # <<>>
  <2>1. 1 \in 1 .. Len(q) - 1 /\ 1 \in 1 .. Len(r)
    BY <1>1, <1>2
  <2>2. Follows(q[1], q[1 + 1]) /\ r[1] = q[1 + 1]
    BY <2>1 DEF Chain
  <2>3. QED BY <2>2
<1>7. r = <<>> => Ends(q[1])
  <2> HAVE r = <<>>
  <2>1. Len(q) = 1
    BY <1>1, <1>2
  <2>2. QED BY <2>1 DEF Chain
<1>8. (q[1].do = "user" /\ q[1].is = "null") => Len(q) >= 3
  <2>1. 1 \in 1 .. Len(q)
    BY <1>1
  <2>2. q[1].do = "user" /\ q[1].is = "null" => Len(q) >= 1 + 2
    BY <2>1 DEF Chain
  <2>3. QED BY <2>2
<1>9. QED BY <1>3, <1>4, <1>5, <1>6, <1>7, <1>8 DEF Chain

LEMMA ChainTail ==
  ASSUME NEW q, Chain(q), q # <<>>
  PROVE  /\ Head(q) \in VcSteps /\ Head(q) = q[1] /\ Len(q) \in Nat /\ Len(Tail(q)) = Len(q) - 1
         /\ \A i \in 1 .. Len(Tail(q)) : Tail(q)[i] = q[i + 1]
         /\ Chain(Tail(q))
         /\ Tail(q) # <<>> => Follows(Head(q), Head(Tail(q)))
         /\ Tail(q) = <<>> => Ends(Head(q))
         /\ (Head(q).do = "user" /\ Head(q).is = "null") => Len(q) >= 3
<1>1. q \in Seq(VcSteps)
  BY DEF Chain
<1>2. /\ Head(q) \in VcSteps /\ Head(q) = q[1] /\ Len(q) \in Nat
      /\ Tail(q) \in Seq(VcSteps) /\ Len(Tail(q)) = Len(q) - 1
      /\ \A i \in 1 .. Len(Tail(q)) : Tail(q)[i] = q[i + 1]
  BY <1>1, HeadTailProperties
<1>3. /\ Chain(Tail(q))
      /\ Tail(q) # <<>> => Follows(q[1], Tail(q)[1])
      /\ Tail(q) = <<>> => Ends(q[1])
      /\ (q[1].do = "user" /\ q[1].is = "null") => Len(q) >= 3
  BY <1>2, ChainRest
<1>4. Tail(q) # <<>> => Head(Tail(q)) = Tail(q)[1]
  BY <1>2
<1>5. QED BY <1>2, <1>3, <1>4

LEMMA EmptyChain == Chain(<<>>)
BY DEF Chain

LEMMA ChangeChain ==
  ASSUME NEW s \in SUBSET ControlBits, NEW c \in SUBSET ControlBits
  PROVE  /\ Chain(ChangeControl(s, c)) /\ ChangeControl(s, c) # <<>>
         /\ \A i \in 1 .. Len(ChangeControl(s, c)) : ChangeControl(s, c)[i].do \in ControlKinds
<1> DEFINE m == ChangeControl(s, c)
           a == [do |-> "load"]
           b == [do |-> "store", set |-> s, clear |-> c]
           d == [do |-> "control"]
<1>1. a \in VcSteps /\ b \in VcSteps /\ d \in VcSteps
  BY DEF VcSteps
<1>2. m = <<a, b, d>> /\ m \in Seq(VcSteps) /\ Len(m) = 3 /\ m[1] = a /\ m[2] = b /\ m[3] = d
  BY <1>1 DEF ChangeControl
<1>3. Follows(a, b) /\ Follows(b, d) /\ Ends(d)
  BY DEF Follows, Ends
<1> HIDE DEF m
<1>4. \A i \in 1 .. Len(m) : m[i] \in {a, b, d}
  BY <1>2
<1>5. \A i \in 1 .. Len(m) - 1 : Follows(m[i], m[i + 1])
  BY <1>2, <1>3
<1>6. Chain(m)
  BY <1>2, <1>3, <1>4, <1>5 DEF Chain
<1>7. QED BY <1>2, <1>4, <1>6 DEF m, ControlKinds

LEMMA WriteChain ==
  ASSUME NEW v \in SUBSET ControlBits
  PROVE  LET m == write_control_register(v) IN
         /\ Chain(m) /\ Len(m) = 2 /\ m[1].do = "store" /\ \A i \in 1 .. Len(m) : m[i].do \in {"store", "control"}
<1> DEFINE m == write_control_register(v)
           b == [do |-> "store", set |-> v, clear |-> ControlBits]
           d == [do |-> "control"]
<1>1. b \in VcSteps /\ d \in VcSteps
  BY DEF VcSteps
<1>2. m = <<b, d>> /\ m \in Seq(VcSteps) /\ Len(m) = 2 /\ m[1] = b /\ m[2] = d
  BY <1>1 DEF write_control_register
<1>3. Follows(b, d) /\ Ends(d)
  BY DEF Follows, Ends
<1> HIDE DEF m
<1>4. \A i \in 1 .. Len(m) : m[i] \in {b, d}
  BY <1>2
<1>5. \A i \in 1 .. Len(m) - 1 : Follows(m[i], m[i + 1])
  BY <1>2, <1>3
<1>6. Chain(m)
  BY <1>2, <1>3, <1>4, <1>5 DEF Chain
<1>7. m[1].do = "store"
  BY <1>2
<1>8. QED BY <1>2, <1>4, <1>6, <1>7 DEF m

LEMMA ClearChain ==
  ASSUME NEW b \in VcIrqs
  PROVE  LET m == clear_interrupt(b) IN Chain(m) /\ Len(m) = 1 /\ m[1].do = "clear"
<1> DEFINE m == clear_interrupt(b)
           a == [do |-> "clear", bits |-> {b}]
<1>1. a \in VcSteps
  BY DEF VcSteps
<1>2. m = <<a>> /\ m \in Seq(VcSteps) /\ Len(m) = 1 /\ m[1] = a
  BY <1>1 DEF clear_interrupt
<1>3. Ends(a)
  BY DEF Ends
<1> HIDE DEF m
<1>4. Chain(m)
  BY <1>2, <1>3 DEF Chain
<1>5. QED BY <1>2, <1>4 DEF m

LEMMA ValidChain ==
  ASSUME NEW b \in VcBanks, NEW v \in BOOLEAN
  PROVE  LET m == <<SelectBank(b), Valid(v)>> IN
         Chain(m) /\ Len(m) = 2 /\ m[1].do = "select" /\ m[2].do = "valid"
<1> DEFINE m == <<SelectBank(b), Valid(v)>>
<1>1. SelectBank(b) \in VcSteps /\ Valid(v) \in VcSteps
  BY DEF VcSteps, SelectBank, Valid
<1>2. m \in Seq(VcSteps) /\ Len(m) = 2 /\ m[1] = SelectBank(b) /\ m[2] = Valid(v)
  BY <1>1
<1>3. /\ Follows(SelectBank(b), Valid(v)) /\ Ends(Valid(v))
      /\ SelectBank(b).do = "select" /\ Valid(v).do = "valid"
  BY DEF Follows, Ends, SelectBank, Valid
<1> HIDE DEF m
<1>4. \A i \in 1 .. Len(m) : m[i] \in {SelectBank(b), Valid(v)}
  BY <1>2
<1>5. \A i \in 1 .. Len(m) - 1 : Follows(m[i], m[i + 1])
  BY <1>2, <1>3
<1>6. Chain(m)
  BY <1>2, <1>3, <1>4, <1>5 DEF Chain
<1>7. QED BY <1>2, <1>3, <1>6 DEF m

LEMMA ConstructChain ==
  /\ Chain(Construct) /\ Len(Construct) = 5 /\ Construct[1].do = "store"
  /\ \A i \in 1 .. Len(Construct) : Construct[i].do # "put"
<1> DEFINE m == Construct
           a == [do |-> "store", set |-> {}, clear |-> ControlBits]
           b == [do |-> "control"]
           c == [do |-> "user", is |-> "null"]
           d == [do |-> "clear", bits |-> VcIrqs]
           e == [do |-> "serve", is |-> TRUE]
<1>1. a \in VcSteps /\ b \in VcSteps /\ c \in VcSteps /\ d \in VcSteps /\ e \in VcSteps
  BY DEF VcSteps
<1>2. /\ m = <<a, b, c, d, e>> /\ m \in Seq(VcSteps) /\ Len(m) = 5
      /\ m[1] = a /\ m[2] = b /\ m[3] = c /\ m[4] = d /\ m[5] = e
  BY <1>1 DEF Construct
<1>3. /\ Follows(a, b) /\ Follows(b, c) /\ Follows(c, d) /\ Follows(d, e) /\ Ends(e)
      /\ a.do = "store" /\ b.do = "control" /\ c.do = "user" /\ d.do = "clear" /\ e.do = "serve"
  BY DEF Follows, Ends
<1> HIDE DEF m, a, b, c, d, e
<1>4. \A i \in 1 .. Len(m) : i \in {1, 2, 3, 4, 5}
  BY <1>2
<1>5. \A i \in 1 .. Len(m) - 1 : Follows(m[i], m[i + 1])
  BY <1>2, <1>3
<1>6. \A i \in 1 .. Len(m) : m[i].do = "user" => i = 3
  BY <1>2, <1>3, <1>4
<1>7. Chain(m)
  BY <1>2, <1>3, <1>5, <1>6 DEF Chain
<1>8. m[1].do = "store" /\ \A i \in 1 .. Len(m) : m[i].do # "put"
  BY <1>2, <1>3, <1>4
<1>9. QED BY <1>2, <1>7, <1>8 DEF m

LEMMA DestructChain ==
  ASSUME VcJunk # "null"
  PROVE  /\ Chain(Destruct) /\ Len(Destruct) = 2 /\ Destruct[1].do = "serve" /\ Destruct[1].is = FALSE
         /\ \A i \in 1 .. Len(Destruct) : Destruct[i].do # "put"
<1> DEFINE m == Destruct
           a == [do |-> "serve", is |-> FALSE]
           b == [do |-> "user", is |-> VcJunk]
<1>1. a \in VcSteps /\ b \in VcSteps
  BY DEF VcSteps
<1>2. m = <<a, b>> /\ m \in Seq(VcSteps) /\ Len(m) = 2 /\ m[1] = a /\ m[2] = b
  BY <1>1 DEF Destruct
<1>3. /\ Follows(a, b) /\ Ends(b) /\ a.do = "serve" /\ a.is = FALSE
      /\ b.do = "user" /\ b.is # "null"
  BY DEF Follows, Ends
<1> HIDE DEF m, a, b
<1>4. \A i \in 1 .. Len(m) : m[i] \in {a, b}
  BY <1>2
<1>5. \A i \in 1 .. Len(m) - 1 : Follows(m[i], m[i + 1])
  BY <1>2, <1>3
<1>6. Chain(m)
  BY <1>2, <1>3, <1>4, <1>5 DEF Chain
<1>7. QED BY <1>2, <1>3, <1>4, <1>6 DEF m

\* The steps of set_output_mode, by their place.
LEMMA ModeSteps ==
  ASSUME NEW b \in VcBanks, NEW m \in VcModes
  PROVE  LET q == set_output_mode(b, m) IN
         /\ q \in Seq(VcSteps) /\ Len(q) = VcFields + 3
         /\ q[1] = SelectBank(b) /\ q[2] = Valid(FALSE) /\ q[VcFields + 3] = Valid(TRUE)
         /\ \A k \in 1 .. VcFields : q[k + 2] = [do |-> "word", at |-> k, mode |-> m]
<1> DEFINE a == <<SelectBank(b), Valid(FALSE)>>
           w == Words(m)
           z == <<Valid(TRUE)>>
           q == set_output_mode(b, m)
<1>1. VcFields \in Nat /\ VcFields > 0
  BY VcAssumption
<1>2. a \in Seq(VcSteps) /\ Len(a) = 2 /\ a[1] = SelectBank(b) /\ a[2] = Valid(FALSE)
  BY DEF VcSteps, SelectBank, Valid
<1>3. w \in Seq(VcSteps) /\ Len(w) = VcFields
  <2>1. \A k \in 1 .. VcFields : [do |-> "word", at |-> k, mode |-> m] \in VcSteps
    BY DEF VcSteps
  <2>2. w \in [1 .. VcFields -> VcSteps]
    BY <2>1 DEF Words
  <2>3. QED BY <1>1, <2>2, SeqDef, LenProperties
<1>4. \A k \in 1 .. VcFields : w[k] = [do |-> "word", at |-> k, mode |-> m]
  BY DEF Words
<1>5. z \in Seq(VcSteps) /\ Len(z) = 1 /\ z[1] = Valid(TRUE)
  BY DEF VcSteps, Valid
<1>6. q = (a \o w) \o z
  BY DEF set_output_mode
<1> HIDE DEF a, w, z, q
<1>7. /\ a \o w \in Seq(VcSteps) /\ Len(a \o w) = VcFields + 2
      /\ \A i \in 1 .. VcFields + 2 : (a \o w)[i] = IF i <= 2 THEN a[i] ELSE w[i - 2]
  <2>1. /\ a \o w \in Seq(VcSteps) /\ Len(a \o w) = Len(a) + Len(w)
        /\ \A i \in 1 .. Len(a) + Len(w) :
             (a \o w)[i] = IF i <= Len(a) THEN a[i] ELSE w[i - Len(a)]
    BY <1>2, <1>3, ConcatProperties, Zenon
  <2>2. Len(a) + Len(w) = VcFields + 2
    BY <1>1, <1>2, <1>3
  <2>3. QED BY <2>1, <2>2, <1>2, Zenon
<1>8. /\ q \in Seq(VcSteps) /\ Len(q) = VcFields + 3
      /\ \A i \in 1 .. VcFields + 3 :
           q[i] = IF i <= VcFields + 2 THEN (a \o w)[i] ELSE z[i - (VcFields + 2)]
  <2> DEFINE v == a \o w
  <2>0. v \in Seq(VcSteps) /\ Len(v) = VcFields + 2 /\ q = v \o z
    BY <1>6, <1>7
  <2> HIDE DEF v
  <2>1. /\ v \o z \in Seq(VcSteps) /\ Len(v \o z) = Len(v) + Len(z)
        /\ \A i \in 1 .. Len(v) + Len(z) :
             (v \o z)[i] = IF i <= Len(v) THEN v[i] ELSE z[i - Len(v)]
    BY <2>0, <1>5, ConcatProperties, Zenon
  <2>2. Len(v) + Len(z) = VcFields + 3
    BY <1>1, <2>0, <1>5
  <2>3. /\ q \in Seq(VcSteps) /\ Len(q) = VcFields + 3
        /\ \A i \in 1 .. VcFields + 3 :
             q[i] = IF i <= VcFields + 2 THEN v[i] ELSE z[i - (VcFields + 2)]
    BY <2>0, <2>1, <2>2, Zenon
  <2>4. QED BY <2>3 DEF v
<1>9. q[1] = SelectBank(b) /\ q[2] = Valid(FALSE)
  <2>1. /\ 1 \in 1 .. VcFields + 2 /\ 2 \in 1 .. VcFields + 2 /\ 1 <= 2 /\ 2 <= 2
        /\ 1 \in 1 .. VcFields + 3 /\ 2 \in 1 .. VcFields + 3
        /\ 1 <= VcFields + 2 /\ 2 <= VcFields + 2
    BY <1>1
  <2>2. (a \o w)[1] = a[1] /\ (a \o w)[2] = a[2]
    BY <1>7, <2>1, Zenon
  <2>3. q[1] = (a \o w)[1] /\ q[2] = (a \o w)[2]
    BY <1>8, <2>1, Zenon
  <2>4. QED BY <1>2, <2>2, <2>3
<1>10. q[VcFields + 3] = Valid(TRUE)
  <2>1. VcFields + 3 \in 1 .. VcFields + 3 /\ ~(VcFields + 3 <= VcFields + 2)
        /\ (VcFields + 3) - (VcFields + 2) = 1
    BY <1>1
  <2>2. QED BY <1>5, <1>8, <2>1
<1>11. \A k \in 1 .. VcFields : q[k + 2] = [do |-> "word", at |-> k, mode |-> m]
  <2> TAKE k \in 1 .. VcFields
  <2>1. k + 2 \in 1 .. VcFields + 3 /\ k + 2 <= VcFields + 2 /\ ~(k + 2 <= 2) /\ (k + 2) - 2 = k
        /\ k + 2 \in 1 .. VcFields + 2
    BY <1>1
  <2>2. q[k + 2] = (a \o w)[k + 2]
    BY <1>8, <2>1
  <2>3. (a \o w)[k + 2] = w[k]
    BY <1>7, <2>1
  <2>4. QED BY <1>4, <2>2, <2>3
<1>12. QED BY <1>8, <1>9, <1>10, <1>11 DEF q

\* What set_output_mode does is a chain of steps at the banks.
LEMMA ModeChain ==
  ASSUME NEW b \in VcBanks, NEW m \in VcModes
  PROVE  LET q == set_output_mode(b, m) IN
         /\ Chain(q) /\ Len(q) >= 3 /\ q[1].do = "select" /\ q[Len(q)] = Valid(TRUE)
         /\ \A i \in 1 .. Len(q) : q[i].do \in BankKinds
<1> DEFINE q == set_output_mode(b, m)
<1>1. VcFields \in Nat /\ VcFields > 0
  BY VcAssumption
<1>2. /\ q \in Seq(VcSteps) /\ Len(q) = VcFields + 3
      /\ q[1] = SelectBank(b) /\ q[2] = Valid(FALSE) /\ q[VcFields + 3] = Valid(TRUE)
      /\ \A k \in 1 .. VcFields : q[k + 2] = [do |-> "word", at |-> k, mode |-> m]
  BY ModeSteps
<1> HIDE DEF q
<1>3. \A i \in 1 .. Len(q) : i = 1 \/ i = 2 \/ i = VcFields + 3 \/ (i - 2 \in 1 .. VcFields /\ i = (i - 2) + 2)
  BY <1>1, <1>2
<1>4. \A i \in 1 .. Len(q) : q[i].do \in BankKinds
  <2> TAKE i \in 1 .. Len(q)
  <2>1. CASE i = 1 \/ i = 2 \/ i = VcFields + 3
    BY <1>2, <2>1 DEF BankKinds, SelectBank, Valid
  <2>2. CASE i - 2 \in 1 .. VcFields /\ i = (i - 2) + 2
    <3>1. q[i] = [do |-> "word", at |-> i - 2, mode |-> m]
      BY <1>2, <2>2
    <3>2. QED BY <3>1 DEF BankKinds
  <2>3. QED BY <1>3, <2>1, <2>2
<1>5. \A i \in 1 .. Len(q) - 1 : Follows(q[i], q[i + 1])
  <2> TAKE i \in 1 .. Len(q) - 1
  <2>1. CASE i = 1
    <3>0. i + 1 = 2
      BY <2>1
    <3>1. q[i] = SelectBank(b) /\ q[i + 1] = Valid(FALSE)
      BY <1>2, <2>1, <3>0, Zenon
    <3>2. QED BY <3>1 DEF Follows, SelectBank, Valid
  <2>2. CASE i = 2
    <3>0. 1 \in 1 .. VcFields /\ i + 1 = 1 + 2
      BY <1>1, <2>2
    <3>1. q[1 + 2] = [do |-> "word", at |-> 1, mode |-> m] /\ q[i] = Valid(FALSE)
      BY <1>2, <2>2, <3>0, Zenon
    <3>2. QED BY <3>0, <3>1 DEF Follows, Valid
  <2>3. CASE i > 2 /\ i < VcFields + 2
    <3>1. i - 2 \in 1 .. VcFields /\ i - 1 \in 1 .. VcFields /\ i = (i - 2) + 2 /\ i + 1 = (i - 1) + 2
          /\ i - 2 # VcFields /\ i - 1 = (i - 2) + 1
      BY <1>1, <1>2, <2>3
    <3>2. /\ q[i] = [do |-> "word", at |-> i - 2, mode |-> m]
          /\ q[i + 1] = [do |-> "word", at |-> i - 1, mode |-> m]
      BY <1>2, <3>1
    <3>3. QED BY <3>1, <3>2 DEF Follows
  <2>4. CASE i = VcFields + 2
    <3>1. i - 2 \in 1 .. VcFields /\ i = (i - 2) + 2 /\ i + 1 = VcFields + 3 /\ i - 2 = VcFields
      BY <1>1, <1>2, <2>4
    <3>2. q[i] = [do |-> "word", at |-> i - 2, mode |-> m] /\ q[i + 1] = Valid(TRUE)
      BY <1>2, <3>1
    <3>3. QED BY <3>1, <3>2 DEF Follows, Valid
  <2>5. QED BY <1>1, <1>2, <2>1, <2>2, <2>3, <2>4
<1>6. Ends(q[Len(q)])
  BY <1>2 DEF Ends, Valid
<1>7. \A i \in 1 .. Len(q) : q[i].do # "user"
  BY <1>4 DEF BankKinds
<1>8. Chain(q)
  BY <1>2, <1>5, <1>6, <1>7 DEF Chain
<1>9. QED BY <1>1, <1>2, <1>4, <1>8 DEF q, SelectBank

\* Two chains one after the other.
LEMMA ConcatChain ==
  ASSUME NEW p, NEW q, Chain(p), Chain(q), p # <<>>, q # <<>>, Follows(p[Len(p)], q[1]),
         \A i \in 1 .. Len(p) : p[i].do # "user"
  PROVE  /\ Chain(p \o q) /\ Len(p \o q) = Len(p) + Len(q)
         /\ \A i \in 1 .. Len(p) + Len(q) : (p \o q)[i] = IF i <= Len(p) THEN p[i] ELSE q[i - Len(p)]
<1>1. p \in Seq(VcSteps) /\ q \in Seq(VcSteps) /\ Len(p) \in Nat /\ Len(q) \in Nat
      /\ Len(p) > 0 /\ Len(q) > 0
  BY DEF Chain
<1> DEFINE r == p \o q
<1>2. /\ r \in Seq(VcSteps) /\ Len(r) = Len(p) + Len(q)
      /\ \A i \in 1 .. Len(p) + Len(q) : r[i] = IF i <= Len(p) THEN p[i] ELSE q[i - Len(p)]
  BY <1>1, ConcatProperties, Zenon
<1> HIDE DEF r
<1>3. \A i \in 1 .. Len(r) - 1 : Follows(r[i], r[i + 1])
  <2> TAKE i \in 1 .. Len(r) - 1
  <2>1. CASE i < Len(p)
    <3>1. i \in 1 .. Len(p) - 1 /\ r[i] = p[i] /\ r[i + 1] = p[i + 1]
      BY <1>1, <1>2, <2>1
    <3>2. QED BY <3>1 DEF Chain
  <2>2. CASE i = Len(p)
    <3>1. r[i] = p[Len(p)] /\ r[i + 1] = q[1]
      BY <1>1, <1>2, <2>2
    <3>2. QED BY <3>1
  <2>3. CASE i > Len(p)
    <3>1. i - Len(p) \in 1 .. Len(q) - 1 /\ r[i] = q[i - Len(p)] /\ r[i + 1] = q[(i - Len(p)) + 1]
      BY <1>1, <1>2, <2>3
    <3>2. QED BY <3>1 DEF Chain
  <2>4. QED BY <1>1, <1>2, <2>1, <2>2, <2>3
<1>4. Ends(r[Len(r)])
  <2>1. r[Len(r)] = q[Len(q)]
    BY <1>1, <1>2
  <2>2. QED BY <2>1 DEF Chain
<1>5. \A i \in 1 .. Len(r) : r[i].do = "user" /\ r[i].is = "null" => Len(r) >= i + 2
  <2> SUFFICES ASSUME NEW i \in 1 .. Len(r), r[i].do = "user", r[i].is = "null"
               PROVE  Len(r) >= i + 2
    OBVIOUS
  <2>1. i > Len(p) /\ i - Len(p) \in 1 .. Len(q) /\ r[i] = q[i - Len(p)]
    BY <1>1, <1>2
  <2>2. Len(q) >= (i - Len(p)) + 2
    BY <2>1 DEF Chain
  <2>3. QED BY <1>1, <1>2, <2>1, <2>2
<1>6. Chain(r)
  BY <1>2, <1>3, <1>4, <1>5 DEF Chain
<1>7. QED BY <1>2, <1>6 DEF r

\* What init_cvo does: the same between two writes of the control register.
LEMMA InitCvoChain ==
  ASSUME NEW m \in VcModes
  PROVE  LET q == init_cvo(m) IN
         /\ Chain(q) /\ q # <<>> /\ q[1].do = "put"
         /\ \A i \in 1 .. Len(q) : q[i].do \in {"put"} \cup BankKinds
<1> DEFINE go == <<[do |-> "put", value |-> {VcGo}]>>
           s == set_output_mode(1, m)
           q == init_cvo(m)
<1>1. Chain(go) /\ Len(go) = 1 /\ go # <<>> /\ go[1].do = "put"
  BY DEF Chain, VcSteps, Ends
<1>2. 1 \in VcBanks
  BY VcAssumption
<1>3. /\ Chain(s) /\ Len(s) >= 3 /\ s[1].do = "select" /\ s[Len(s)] = Valid(TRUE)
      /\ \A i \in 1 .. Len(s) : s[i].do \in BankKinds
  BY <1>2, ModeChain
<1>4. q = (go \o s) \o go
  BY DEF init_cvo
<1> HIDE DEF go, s, q
<1>5. s # <<>> /\ Len(s) \in Nat
  BY <1>3, EmptySeq DEF Chain
<1>6. Follows(go[Len(go)], s[1]) /\ \A i \in 1 .. Len(go) : go[i].do = "put"
  BY <1>1, <1>3 DEF Follows
<1> DEFINE v == go \o s
<1>7. /\ Chain(v) /\ Len(v) = Len(go) + Len(s)
      /\ \A i \in 1 .. Len(go) + Len(s) : v[i] = IF i <= Len(go) THEN go[i] ELSE s[i - Len(go)]
  BY <1>1, <1>3, <1>5, <1>6, ConcatChain, ZenonT(40)
<1> HIDE DEF v
<1>8. \A i \in 1 .. Len(v) : v[i].do \in {"put"} \cup BankKinds
  BY <1>1, <1>3, <1>5, <1>6, <1>7
<1>9. v # <<>> /\ v[1] = go[1] /\ v[Len(v)] = Valid(TRUE)
  <2>1. /\ 1 \in 1 .. Len(go) + Len(s) /\ 1 <= Len(go) /\ Len(v) \in 1 .. Len(go) + Len(s)
        /\ ~(Len(v) <= Len(go)) /\ Len(v) - Len(go) = Len(s) /\ Len(v) # 0
    BY <1>1, <1>3, <1>5, <1>7
  <2>2. v[1] = go[1] /\ v[Len(v)] = s[Len(s)]
    BY <1>7, <2>1, Zenon
  <2>3. v # <<>>
    BY <2>1, EmptySeq, Zenon
  <2>4. QED BY <1>3, <2>2, <2>3
<1>10. Follows(v[Len(v)], go[1])
  BY <1>1, <1>9 DEF Follows, Valid
<1>11. \A i \in 1 .. Len(v) : v[i].do # "user"
  BY <1>8 DEF BankKinds
<1> DEFINE r == v \o go
<1>12. /\ Chain(r) /\ Len(r) = Len(v) + Len(go)
       /\ \A i \in 1 .. Len(v) + Len(go) : r[i] = IF i <= Len(v) THEN v[i] ELSE go[i - Len(v)]
  BY <1>1, <1>7, <1>9, <1>10, <1>11, ConcatChain, Zenon
<1>13. q = r
  BY <1>4 DEF v
<1> HIDE DEF r
<1>14. \A i \in 1 .. Len(r) : r[i].do \in {"put"} \cup BankKinds
  BY <1>1, <1>5, <1>7, <1>8, <1>12
<1>15. r # <<>> /\ r[1] = v[1]
  BY <1>1, <1>5, <1>7, <1>12, EmptySeq
<1>16. QED BY <1>1, <1>9, <1>12, <1>13, <1>14, <1>15 DEF q

\* What every method of the program is.
MethodFits(q) ==
  /\ Chain(q) /\ Len(q) > 0
  /\ \A i \in 1 .. Len(q) : q[i].do \notin {"put", "user", "serve"}
  /\ q[1].do = "clear" => Len(q) = 1
  /\ q[1].do \in BankKinds => q[1].do = "select"
  /\ q[1].do # "control"

\* Every method a program may call.
LEMMA MethodChains ==
  ASSUME NEW m \in Methods
  PROVE  /\ Chain(m) /\ m # <<>> /\ Len(m) \in Nat /\ Head(m) = m[1]
         /\ \A i \in 1 .. Len(m) : m[i].do \notin {"put", "user", "serve"}
         /\ m[1].do = "clear" => Len(m) = 1
         /\ m[1].do \in BankKinds => m[1].do = "select"
         /\ m[1].do # "control"
<1>1. ControlBits \in SUBSET ControlBits /\ {VcGo} \in SUBSET ControlBits
      /\ \A b \in VcIrqs : {b} \in SUBSET ControlBits
  BY DEF ControlBits
<1>2. \A s, c \in SUBSET ControlBits : MethodFits(ChangeControl(s, c))
  <2> TAKE s, c \in SUBSET ControlBits
  <2>1. Len(ChangeControl(s, c)) = 3
    BY DEF ChangeControl
  <2>2. QED BY <2>1, ChangeChain DEF MethodFits, ChangeControl, ControlKinds, BankKinds
<1>3. \A v \in SUBSET ControlBits : MethodFits(write_control_register(v))
  BY WriteChain DEF MethodFits, BankKinds
<1>4. \A b \in VcIrqs : MethodFits(clear_interrupt(b))
  BY ClearChain DEF MethodFits, BankKinds
<1>5. \A b \in VcBanks, v \in BOOLEAN : MethodFits(<<SelectBank(b), Valid(v)>>)
  <2> TAKE b \in VcBanks, v \in BOOLEAN
  <2> DEFINE q == <<SelectBank(b), Valid(v)>>
  <2>1. Chain(q) /\ Len(q) = 2 /\ q[1].do = "select" /\ q[2].do = "valid"
    BY ValidChain
  <2> HIDE DEF q
  <2>2. MethodFits(q)
    BY <2>1 DEF MethodFits, BankKinds
  <2>3. QED BY <2>2 DEF q
<1>6. \A b \in VcBanks, n \in VcModes : MethodFits(set_output_mode(b, n))
  <2> TAKE b \in VcBanks, n \in VcModes
  <2> DEFINE q == set_output_mode(b, n)
  <2>1. /\ Chain(q) /\ Len(q) >= 3 /\ q[1].do = "select" /\ Len(q) \in Nat
        /\ \A i \in 1 .. Len(q) : q[i].do \in BankKinds
    <3>1. /\ Chain(q) /\ Len(q) >= 3 /\ q[1].do = "select"
          /\ \A i \in 1 .. Len(q) : q[i].do \in BankKinds
      BY ModeChain
    <3> HIDE DEF q
    <3>2. q \in Seq(VcSteps)
      BY <3>1 DEF Chain
    <3>3. QED BY <3>1, <3>2, LenProperties
  <2> HIDE DEF q
  <2>2. MethodFits(q)
    BY <2>1 DEF MethodFits, BankKinds
  <2>3. QED BY <2>2 DEF q
<1>7. ASSUME m \in ControlMethods PROVE MethodFits(m)
  <2>0. {} \in SUBSET ControlBits
    OBVIOUS
  <2>1. CASE m = start
    BY <1>1, <1>2, <2>0, <2>1 DEF start
  <2>2. CASE m = stop
    BY <1>1, <1>2, <2>0, <2>2 DEF stop
  <2>3. CASE m = write_control_register({VcGo})
    BY <1>1, <1>3, <2>3
  <2>4. CASE \E b \in VcIrqs : m = set_control_bit(b)
    BY <1>1, <1>2, <2>0, <2>4 DEF set_control_bit
  <2>5. CASE \E b \in VcIrqs : m = unset_control_bit(b)
    BY <1>1, <1>2, <2>0, <2>5 DEF unset_control_bit
  <2>6. CASE \E b \in VcIrqs : m = clear_interrupt(b)
    BY <1>4, <2>6
  <2>7. QED BY <1>7, <2>1, <2>2, <2>3, <2>4, <2>5, <2>6 DEF ControlMethods
<1>8. ASSUME m \in BankMethods \cup {write_control_register(ControlBits)} PROVE MethodFits(m)
  <2>1. CASE \E b \in VcBanks, n \in VcModes : m = set_output_mode(b, n)
    BY <1>6, <2>1
  <2>2. CASE \E b \in VcBanks : m = validate_output_mode(b)
    BY <1>5, <2>2 DEF validate_output_mode
  <2>3. CASE \E b \in VcBanks : m = invalidate_output_mode(b)
    BY <1>5, <2>3 DEF invalidate_output_mode
  <2>4. CASE m = write_control_register(ControlBits)
    BY <1>1, <1>3, <2>4
  <2>5. QED BY <1>8, <2>1, <2>2, <2>3, <2>4 DEF BankMethods
<1>9. MethodFits(m)
  BY <1>7, <1>8, Zenon DEF Methods
<1>10. m \in Seq(VcSteps) /\ Len(m) > 0
  BY <1>9 DEF MethodFits, Chain
<1>11. m # <<>> /\ Len(m) \in Nat /\ Head(m) = m[1]
  BY <1>10, EmptySeq
<1>12. QED BY <1>9, <1>11 DEF MethodFits

\* The thread w does step h of its method and has r left.
Does(w, h, r) ==
  /\ w \in Who /\ h \in VcSteps /\ Chain(r) /\ vcTodo[w] # <<>> /\ h = Head(vcTodo[w])
  /\ Len(vcTodo[w]) = Len(r) + 1 /\ Len(r) \in Nat
  /\ \A i \in 1 .. Len(r) : r[i] = vcTodo[w][i + 1]
  /\ h = vcTodo[w][1] /\ r # <<>> => Head(r) = r[1] /\ Len(r) > 0
  /\ r # <<>> => Follows(h, Head(r)) /\ Head(r) \in VcSteps
  /\ r = <<>> => Ends(h) /\ Len(r) = 0
  /\ h.do = "user" /\ h.is = "null" => Len(r) >= 2
  /\ vcTodo' = [vcTodo EXCEPT ![w] = r] /\ vcTodo'[w] = r
  /\ \A v \in Who : v # w => vcTodo'[v] = vcTodo[v]
  /\ w = "main" => vcIsr = "out" /\ vcTodo["callback"] = <<>>
  /\ w = "callback" => vcIsr = "call" /\ h.do \notin {"put", "user", "serve"}
  /\ w = Running
  /\ UNCHANGED <<vcIsr, vcStatus, vcMask, vcCrossed, vcProgram>>
  /\ vcSuspect' = IF h.do = "valid" /\ ~h.is /\ w = "main" /\ Len(vcTodo["main"]) > 1
                  THEN vcSuspect \ {vcSelect} ELSE vcSuspect

\* A step of a method, seen from the thread that runs.
LEMMA StepDoes ==
  ASSUME VcInv, VcStep
  PROVE  \E w, h, r :
           Does(w, h, r) /\ (Load(h) \/ Store(h) \/ WriteControl(h) \/ ClearRaised(h) \/ Serve(h) \/ WriteBank(h))
<1>1. PICK w : w = Running
  OBVIOUS
<1>2. /\ w \in Who /\ (w = "main" => vcIsr = "out") /\ (w = "callback" => vcIsr = "call")
  BY <1>1 DEF Running, VcStep, Who
<1>3. VcShapes /\ DOMAIN vcTodo = Who
  BY DEF VcInv, VcShapes
<1>4. PICK q : q = vcTodo[w]
  OBVIOUS
<1>5. q # <<>> /\ Chain(q)
  BY <1>1, <1>2, <1>3, <1>4 DEF VcStep, VcShapes
<1>6. PICK h, r : h = Head(q) /\ r = Tail(q)
  OBVIOUS
<1>7. /\ h \in VcSteps /\ h = q[1] /\ Len(q) \in Nat /\ Len(r) = Len(q) - 1
      /\ \A i \in 1 .. Len(r) : r[i] = q[i + 1]
      /\ Chain(r)
      /\ r # <<>> => Follows(h, Head(r))
      /\ r = <<>> => Ends(h)
      /\ (h.do = "user" /\ h.is = "null") => Len(q) >= 3
  BY <1>5, <1>6, ChainTail
<1>8. r \in Seq(VcSteps) /\ q \in Seq(VcSteps)
  BY <1>5, <1>7 DEF Chain
<1>9. /\ Len(r) \in Nat /\ Len(q) = Len(r) + 1
      /\ r # <<>> => Head(r) = r[1] /\ Len(r) > 0 /\ Head(r) \in VcSteps
      /\ r = <<>> => Len(r) = 0
  <2>1. r # <<>> => Head(r) = r[1] /\ Head(r) \in VcSteps
    BY <1>8
  <2>2. Len(r) \in Nat /\ (r = <<>> <=> Len(r) = 0)
    BY <1>8, EmptySeq
  <2>3. QED BY <1>7, <2>1, <2>2
<1>10. /\ vcTodo' = [vcTodo EXCEPT ![w] = r] /\ vcTodo'[w] = r
       /\ \A v \in Who : v # w => vcTodo'[v] = vcTodo[v]
  BY <1>1, <1>2, <1>3, <1>4, <1>6 DEF VcStep
<1>11. w = "main" => vcTodo["callback"] = <<>>
  BY <1>2, <1>3 DEF VcShapes
<1>12. w = "callback" => h.do \notin {"put", "user", "serve"}
  <2> HAVE w = "callback"
  <2>1. 1 \in 1 .. Len(q)
    BY <1>9
  <2>2. QED BY <2>1, <1>3, <1>4, <1>7 DEF VcShapes
<1>13. /\ Load(h) \/ Store(h) \/ WriteControl(h) \/ ClearRaised(h) \/ Serve(h) \/ WriteBank(h)
       /\ vcSuspect' = IF h.do = "valid" /\ ~h.is /\ w = "main" /\ Len(vcTodo["main"]) > 1
                       THEN vcSuspect \ {vcSelect} ELSE vcSuspect
       /\ UNCHANGED <<vcIsr, vcStatus, vcMask, vcCrossed, vcProgram>>
  BY <1>1, <1>4, <1>6, Zenon DEF VcStep
<1>14. (h.do = "user" /\ h.is = "null") => Len(r) >= 2
  BY <1>7, <1>9
<1>15. Does(w, h, r)
  BY <1>1, <1>2, <1>4, <1>5, <1>6, <1>7, <1>9, <1>10, <1>11, <1>12, <1>13, <1>14 DEF Does
<1>16. QED BY <1>13, <1>15

\* A step of a method keeps the types.
LEMMA StepTypes ==
  ASSUME VcInv, NEW w, NEW h, NEW r, Does(w, h, r),
         Load(h) \/ Store(h) \/ WriteControl(h) \/ ClearRaised(h) \/ Serve(h) \/ WriteBank(h)
  PROVE  VcTypeInv' /\ VcMaskInv'
<1>1. VcTypeInv /\ VcMaskInv /\ w \in Who /\ h \in VcSteps /\ w = Running
  BY DEF VcInv, Does
<1>2. VcMaskInv'
  BY <1>1 DEF Does, VcMaskInv
<1>3. /\ vcProgram' \in {"control", "banks", "struct"}
      /\ DOMAIN vcTodo' = Who /\ vcIsr' \in {"out", "read", "call"}
      /\ vcStatus' \subseteq VcIrqs /\ vcMask' \subseteq vcStatus'
      /\ vcCrossed' \in BOOLEAN /\ vcSuspect' \subseteq VcBanks
  BY <1>1 DEF Does, VcTypeInv
<1>4. CASE Load(h)
  <2>1. vcTmp' \in [Who -> SUBSET ControlBits]
    BY <1>1, <1>4 DEF Load, VcTypeInv
  <2>2. QED BY <1>1, <1>2, <1>3, <1>4, <2>1, Zenon DEF Load, VcTypeInv
<1>5. CASE Store(h)
  <2>1. h.set \in SUBSET ControlBits /\ vcTmp[w] \in SUBSET ControlBits
    BY <1>1, <1>5, StepFields DEF Store, VcTypeInv
  <2>2. vcControl' \subseteq ControlBits /\ vcTmp' \in [Who -> SUBSET ControlBits]
    BY <1>1, <1>5, <2>1 DEF Store, VcTypeInv
  <2>3. QED BY <1>1, <1>2, <1>3, <1>5, <2>2, Zenon DEF Store, VcTypeInv
<1>6. CASE WriteControl(h)
  <2>1. vcRegister' \subseteq ControlBits
    BY <1>1, <1>6, StepFields DEF WriteControl, VcTypeInv, ControlBits
  <2>2. vcTmp' \in [Who -> SUBSET ControlBits]
    BY <1>1, <1>6 DEF WriteControl, VcTypeInv
  <2>3. QED BY <1>1, <1>2, <1>3, <1>6, <2>1, <2>2, Zenon DEF WriteControl, VcTypeInv
<1>7. CASE ClearRaised(h)
  <2>1. vcRaised' \subseteq VcIrqs
    BY <1>1, <1>7 DEF ClearRaised, VcTypeInv
  <2>2. QED BY <1>1, <1>2, <1>3, <1>7, <2>1, Zenon DEF ClearRaised, VcTypeInv
<1>8. CASE Serve(h)
  <2>1. vcServed' \in BOOLEAN /\ vcCallback' \in {"null", "set", VcJunk}
    BY <1>1, <1>8, StepFields DEF Serve, VcTypeInv
  <2>2. QED BY <1>1, <1>2, <1>3, <1>8, <2>1, Zenon DEF Serve, VcTypeInv
<1>9. CASE WriteBank(h)
  <2>1. vcSelect' \in VcBanks \cup {VcJunk}
    BY <1>1, <1>9, StepFields DEF WriteBank, VcTypeInv
  <2>2. vcBank' \in [VcBanks ->
                     [valid : BOOLEAN, word : [1 .. VcFields -> VcModes \cup {VcJunk}]]]
    <3>1. CASE h.do = "select"
      BY <1>1, <1>9, <3>1 DEF WriteBank, VcTypeInv
    <3>2. CASE h.do = "valid"
      <4>1. h.is \in BOOLEAN
        BY <1>1, <3>2, StepFields
      <4>2. QED BY <1>1, <1>9, <3>2, <4>1 DEF WriteBank, VcTypeInv, Selected
    <3>3. CASE h.do = "word"
      <4>1. h.at \in 1 .. VcFields /\ h.mode \in VcModes
        BY <1>1, <3>3, StepFields
      <4>2. vcSelect \in VcBanks /\ vcBank' = [vcBank EXCEPT ![vcSelect].word[h.at] = h.mode]
        BY <1>9, <3>3 DEF WriteBank, Selected
      <4>3. vcBank[vcSelect] \in [valid : BOOLEAN, word : [1 .. VcFields -> VcModes \cup {VcJunk}]]
        BY <1>1, <4>2 DEF VcTypeInv
      <4>4. vcBank[vcSelect].word \in [1 .. VcFields -> VcModes \cup {VcJunk}]
        BY <4>3
      <4>5. [vcBank[vcSelect].word EXCEPT ![h.at] = h.mode] \in [1 .. VcFields -> VcModes \cup {VcJunk}]
        BY <4>1, <4>4
      <4>6. QED BY <1>1, <4>2, <4>3, <4>5 DEF VcTypeInv
    <3>4. QED BY <1>9, <3>1, <3>2, <3>3 DEF WriteBank
  <2>3. QED BY <1>1, <1>2, <1>3, <1>9, <2>1, <2>2, Zenon DEF WriteBank, VcTypeInv
<1>10. QED BY <1>2, <1>4, <1>5, <1>6, <1>7, <1>8, <1>9

\* A step leaves every method a chain and every thread in a method it may run.
LEMMA StepShapes ==
  ASSUME VcInv, NEW w, NEW h, NEW r, Does(w, h, r),
         Load(h) \/ Store(h) \/ WriteControl(h) \/ ClearRaised(h) \/ Serve(h) \/ WriteBank(h)
  PROVE  VcShapes'
<1>1. VcShapes /\ VcTypeInv /\ h \in VcSteps
  BY DEF VcInv, Does
<1>2. DOMAIN vcTodo' = Who /\ \A v \in Who : Chain(vcTodo'[v])
  BY <1>1 DEF Does, VcShapes
<1>3. \A i \in 1 .. Len(vcTodo'["callback"]) :
        vcTodo'["callback"][i].do \notin {"put", "user", "serve"}
  <2>1. CASE w = "main"
    BY <1>1, <2>1 DEF Does, VcShapes, Who
  <2>2. CASE w = "callback"
    <3>1. /\ vcTodo'["callback"] = r /\ Len(vcTodo["callback"]) = Len(r) + 1 /\ Len(r) \in Nat
          /\ \A i \in 1 .. Len(r) : r[i] = vcTodo["callback"][i + 1]
      BY <2>2 DEF Does
    <3>2. \A i \in 1 .. Len(vcTodo["callback"]) :
            vcTodo["callback"][i].do \notin {"put", "user", "serve"}
      BY <1>1, Zenon DEF VcShapes
    <3>3. ASSUME NEW i \in 1 .. Len(r)
          PROVE  r[i].do \notin {"put", "user", "serve"}
      <4>1. i + 1 \in 1 .. Len(vcTodo["callback"]) /\ r[i] = vcTodo["callback"][i + 1]
        BY ONLY <3>1, <3>3
      <4>2. QED BY ONLY <3>2, <4>1, Zenon
    <3>4. QED BY ONLY <3>1, <3>3, Zenon
  <2>3. QED BY <2>1, <2>2 DEF Does, Who
<1>4. \A i \in 1 .. Len(vcTodo'["main"]) :
        IF vcProgram' = "struct" THEN vcTodo'["main"][i].do \in {"put"} \cup BankKinds
        ELSE vcTodo'["main"][i].do # "put"
  <2>1. CASE w = "callback"
    BY <1>1, <2>1 DEF Does, VcShapes, Who
  <2>2. CASE w = "main"
    <3>1. /\ vcTodo'["main"] = r /\ Len(vcTodo["main"]) = Len(r) + 1 /\ Len(r) \in Nat
          /\ \A i \in 1 .. Len(r) : r[i] = vcTodo["main"][i + 1]
          /\ vcProgram' = vcProgram
      BY <2>2 DEF Does
    <3>2. ASSUME NEW i \in 1 .. Len(r)
          PROVE  r[i] = vcTodo["main"][i + 1] /\ i + 1 \in 1 .. Len(vcTodo["main"])
      BY <3>1
    <3>3. QED BY <1>1, <3>1, <3>2 DEF VcShapes
  <2>3. QED BY <2>1, <2>2 DEF Does, Who
<1>5. vcIsr' # "call" => vcTodo'["callback"] = <<>>
  BY <1>1 DEF Does, VcShapes, Who
<1>6. (vcIsr' # "out" => vcServed') /\ (vcProgram' = "struct" => ~vcServed')
  <2>1. vcIsr' = vcIsr /\ vcProgram' = vcProgram
    BY DEF Does
  <2>2. CASE h.do # "serve"
    <3>1. vcServed' = vcServed
      BY <2>2 DEF Load, Store, WriteControl, ClearRaised, Serve, WriteBank
    <3>2. QED BY <1>1, <2>1, <3>1 DEF VcShapes
  <2>3. CASE h.do = "serve"
    <3>1. w = "main" /\ vcIsr = "out"
      BY <2>3 DEF Does, Who
    <3>2. 1 \in 1 .. Len(vcTodo["main"]) /\ vcTodo["main"][1].do = "serve"
      BY <2>3, <3>1 DEF Does
    <3>3. vcProgram # "struct"
      BY <1>1, <3>2 DEF VcShapes, BankKinds
    <3>4. QED BY <2>1, <3>1, <3>3
  <2>4. QED BY <2>2, <2>3
<1>7. QED BY <1>2, <1>3, <1>4, <1>5, <1>6 DEF VcShapes

\* The callback pointer is given its value before the handler is registered.
LEMMA StepPointer ==
  ASSUME VcInv, NEW w, NEW h, NEW r, Does(w, h, r),
         Load(h) \/ Store(h) \/ WriteControl(h) \/ ClearRaised(h) \/ Serve(h) \/ WriteBank(h)
  PROVE  VcPointer'
<1>1. VcShapes /\ VcTypeInv /\ VcPointer /\ h \in VcSteps /\ VcJunk # "null"
  BY VcAssumption DEF VcInv, Does
<1>2. CASE w = "callback"
  <2>1. vcServed' = vcServed /\ vcCallback' = vcCallback /\ vcTodo'["main"] = vcTodo["main"]
    BY <1>2 DEF Does, Who, Load, Store, WriteControl, ClearRaised, Serve, WriteBank
  <2>2. QED BY <1>1, <2>1 DEF VcPointer, Building, Doing
<1>3. CASE w = "main"
  <2>1. /\ vcTodo["main"] # <<>> /\ Head(vcTodo["main"]) = h /\ vcTodo'["main"] = r
        /\ Len(vcTodo["main"]) = Len(r) + 1 /\ Len(r) \in Nat
        /\ r # <<>> => Follows(h, Head(r)) /\ Len(r) > 0
    BY <1>3 DEF Does
  <2>2. CASE h.do \notin {"user", "serve"}
    <3>1. vcServed' = vcServed /\ vcCallback' = vcCallback
      BY <2>2 DEF Load, Store, WriteControl, ClearRaised, Serve, WriteBank
    <3>2. vcServed' => vcCallback' # VcJunk
      BY <1>1, <3>1 DEF VcPointer
    <3>3. ASSUME Doing("main", {"user"})' PROVE Head(r).is = "null"
      BY <1>1, <2>1, <2>2, <3>3, StepFields DEF Doing, Follows
    <3>4. ASSUME Doing("main", {"clear"})' PROVE FALSE
      BY <1>1, <2>1, <2>2, <3>4, StepFields DEF Doing, Follows
    <3>5. ASSUME Doing("main", {"serve"})' PROVE vcCallback # VcJunk
      <4>1. h.do = "clear"
        BY <1>1, <2>1, <2>2, <3>5, StepFields DEF Doing, Follows
      <4>2. Len(vcTodo["main"]) > 1
        BY <2>1, <3>5 DEF Doing
      <4>3. Building /\ ~Doing("main", {"user"})
        BY <2>1, <4>1, <4>2 DEF Building, Doing
      <4>4. QED BY <1>1, <4>3 DEF VcPointer
    <3>6. QED BY <1>1, <2>1, <3>1, <3>2, <3>3, <3>4, <3>5 DEF VcPointer, Building, Doing
  <2>3. CASE h.do = "user"
    <3>1. vcServed' = vcServed /\ vcCallback' = h.is
      BY <2>3 DEF Load, Store, WriteControl, ClearRaised, Serve, WriteBank
    <3>2. CASE h.is = "null"
      <4>1. vcCallback' # VcJunk
        BY <1>1, <3>1, <3>2
      <4>2. ~Doing("main", {"user"})'
        BY <2>1, <2>3, <3>2 DEF Doing, Follows
      <4>3. QED BY <4>1, <4>2 DEF VcPointer, Doing
    <3>3. CASE h.is # "null"
      <4>1. h.is = VcJunk
        BY <1>1, <2>3, <3>3, StepFields
      <4>2. ~vcServed
        BY <1>1, <2>1, <2>3, <4>1 DEF VcPointer, Doing
      <4>3. r = <<>>
        BY <2>1, <2>3, <3>3 DEF Follows
      <4>4. QED BY <2>1, <3>1, <4>2, <4>3 DEF VcPointer, Building, Doing
    <3>4. QED BY <3>2, <3>3
  <2>4. CASE h.do = "serve"
    <3>1. vcServed' = h.is /\ vcCallback' = vcCallback /\ h.is \in BOOLEAN
      BY <1>1, <2>4, StepFields DEF Load, Store, WriteControl, ClearRaised, Serve, WriteBank
    <3>2. CASE h.is = TRUE
      <4>1. Building /\ ~Doing("main", {"user"})
        BY <2>1, <2>4, <3>2 DEF Building, Doing
      <4>2. vcCallback' # VcJunk
        BY <1>1, <3>1, <4>1 DEF VcPointer
      <4>3. r = <<>>
        BY <2>1, <2>4, <3>2 DEF Follows
      <4>4. QED BY <2>1, <4>2, <4>3 DEF VcPointer, Building, Doing
    <3>3. CASE h.is = FALSE
      <4>1. ~vcServed'
        BY <3>1, <3>3
      <4>2. r # <<>> => Head(r).do = "user" /\ Head(r).is = VcJunk
        BY <2>1, <2>4 DEF Follows
      <4>3. ~Building'
        BY <1>1, <2>1, <4>2 DEF Building, Doing
      <4>4. QED BY <4>1, <4>3 DEF VcPointer
    <3>4. QED BY <3>1, <3>2, <3>3
  <2>5. QED BY <2>2, <2>3, <2>4
<1>4. QED BY <1>2, <1>3 DEF Does, Who

\* Steps of main: what it is about to write is the copy, unless crossed.
LEMMA StepCopyMain ==
  ASSUME VcInv, NEW h, NEW r, Does("main", h, r),
         Load(h) \/ Store(h) \/ WriteControl(h) \/ ClearRaised(h) \/ Serve(h) \/ WriteBank(h)
  PROVE  VcCopy'
<1>1. VcShapes /\ VcTypeInv /\ VcCopy /\ h \in VcSteps /\ VcJunk # "null" /\ Running = "main"
  BY VcAssumption DEF VcInv, Does
<1>2. /\ vcTodo["main"] # <<>> /\ Head(vcTodo["main"]) = h /\ vcTodo'["main"] = r
      /\ Len(vcTodo["main"]) = Len(r) + 1 /\ Len(r) \in Nat
      /\ r # <<>> => Follows(h, Head(r)) /\ Len(r) > 0
      /\ r = <<>> => Ends(h)
      /\ vcTodo["callback"] = <<>> /\ vcTodo'["callback"] = <<>> /\ vcCrossed' = vcCrossed
  BY DEF Does, Who
<1>3. /\ h.do \in {"load", "control", "store", "put", "clear", "serve", "user", "select", "valid", "word"}
      /\ h.do \in {"serve"} => h.is \in BOOLEAN
  BY <1>1, StepFields
<1>4. ~Doing("callback", ControlKinds)' /\ ~Doing("callback", {"control"})'
      /\ ~Doing("callback", ControlKinds)
  BY <1>2 DEF Doing
<1>5. CASE Load(h) \/ Store(h)
  <2>1. Doing("main", ControlKinds)'
    BY <1>2, <1>5 DEF Load, Store, Doing, Follows, Ends, ControlKinds
  <2>2. Doing("main", {"control"})' => vcTmp'["main"] = vcControl'
    BY <1>1, <1>2, <1>5 DEF Load, Store, Doing, Follows, VcTypeInv, Who
  <2>3. QED BY <1>4, <2>1, <2>2 DEF VcCopy
<1>6. CASE WriteControl(h)
  <2>1. ~Doing("main", ControlKinds)' /\ ~Doing("main", {"control"})'
    BY <1>2, <1>6 DEF WriteControl, Doing, Follows, ControlKinds
  <2>2. CASE h.do = "put"
    <3>1. 1 \in 1 .. Len(vcTodo["main"]) /\ vcTodo["main"][1].do = "put"
      BY <1>2, <2>2 DEF Does
    <3>2. ~vcServed /\ vcServed' = vcServed
      BY <1>1, <1>6, <3>1 DEF VcShapes, WriteControl
    <3>3. ~Building'
      BY <1>2, <2>2 DEF Building, Doing, Follows
    <3>4. QED BY <1>4, <2>1, <3>2, <3>3 DEF VcCopy
  <2>3. CASE h.do = "control"
    <3>1. vcRegister' = vcTmp["main"] /\ vcControl' = vcControl
      BY <1>1, <1>6, <2>3 DEF WriteControl
    <3>2. ~vcCrossed => vcTmp["main"] = vcControl
      BY <1>1, <1>2, <2>3 DEF VcCopy, Doing
    <3>3. QED BY <1>2, <1>4, <2>1, <3>1, <3>2 DEF VcCopy
  <2>4. QED BY <1>6, <2>2, <2>3 DEF WriteControl
<1>7. CASE ClearRaised(h) \/ Serve(h) \/ WriteBank(h)
  <2>1. h.do \in {"clear", "serve", "user", "select", "valid", "word"}
        /\ vcControl' = vcControl /\ vcRegister' = vcRegister
    BY <1>7 DEF ClearRaised, Serve, WriteBank
  <2>2. ~Doing("main", ControlKinds)
    BY <1>2, <2>1 DEF Doing, ControlKinds
  <2>3. ~Doing("main", ControlKinds)' /\ ~Doing("main", {"control"})'
    BY <1>2, <2>1 DEF Doing, Follows, ControlKinds
  <2>4. (vcServed' \/ Building') => (vcServed \/ Building)
    <3>1. CASE h.do \notin {"serve"}
      <4>1. vcServed' = vcServed
        BY <1>7, <3>1 DEF ClearRaised, Serve, WriteBank
      <4>2. Building' => Building
        BY <1>2, <2>1, <3>1 DEF Building, Doing, Follows
      <4>3. QED BY <4>1, <4>2
    <3>2. CASE h.do = "serve"
      <4>1. vcServed' = h.is /\ h.is \in BOOLEAN
        BY <1>3, <1>7, <3>2 DEF ClearRaised, Serve, WriteBank
      <4>2. ~Building'
        BY <1>1, <1>2, <3>2 DEF Building, Doing, Follows
      <4>3. h.is = TRUE => Building
        BY <1>2, <3>2 DEF Building, Doing
      <4>4. QED BY <4>1, <4>2, <4>3
    <3>3. QED BY <3>1, <3>2
  <2>5. QED BY <1>1, <1>2, <1>4, <2>1, <2>2, <2>3, <2>4 DEF VcCopy
<1>8. QED BY <1>5, <1>6, <1>7

\* Steps of the callback, which nothing interrupts.
LEMMA StepCopyCallback ==
  ASSUME VcInv, NEW h, NEW r, Does("callback", h, r),
         Load(h) \/ Store(h) \/ WriteControl(h) \/ ClearRaised(h) \/ Serve(h) \/ WriteBank(h)
  PROVE  VcCopy'
<1>1. VcShapes /\ VcTypeInv /\ VcCopy /\ h \in VcSteps /\ Running = "callback"
  BY VcAssumption DEF VcInv, Does
<1>2. /\ vcTodo["callback"] # <<>> /\ Head(vcTodo["callback"]) = h /\ vcTodo'["callback"] = r
      /\ r # <<>> => Follows(h, Head(r))
      /\ r = <<>> => Ends(h)
      /\ vcTodo'["main"] = vcTodo["main"] /\ vcCrossed' = vcCrossed
      /\ h.do \notin {"put", "user", "serve"}
  BY DEF Does, Who
<1>3. h.do \in {"load", "control", "store", "clear", "select", "valid", "word"}
  BY <1>1, <1>2, StepFields
<1>4. /\ vcServed' = vcServed /\ (Building' <=> Building)
      /\ Doing("main", ControlKinds)' <=> Doing("main", ControlKinds)
      /\ Doing("main", {"control"})' <=> Doing("main", {"control"})
  BY <1>2, <1>3 DEF Doing, Building, Load, Store, WriteControl, ClearRaised, Serve, WriteBank
<1>5. CASE Load(h) \/ Store(h)
  <2>1. Doing("callback", ControlKinds)' /\ Doing("callback", ControlKinds)
    BY <1>2, <1>5 DEF Load, Store, Doing, Follows, Ends, ControlKinds
  <2>2. Doing("callback", {"control"})' => vcTmp'["callback"] = vcControl'
    BY <1>1, <1>2, <1>5 DEF Load, Store, Doing, Follows, VcTypeInv, Who
  <2>3. Doing("main", ControlKinds) => vcCrossed
    BY <1>1, <2>1 DEF VcCopy
  <2>4. Doing("main", {"control"}) => Doing("main", ControlKinds)
    BY DEF Doing, ControlKinds
  <2>5. QED BY <1>2, <1>4, <2>1, <2>2, <2>3, <2>4 DEF VcCopy
<1>6. CASE WriteControl(h)
  <2>1. ~Doing("callback", ControlKinds)' /\ ~Doing("callback", {"control"})'
    BY <1>2, <1>3, <1>6 DEF WriteControl, Doing, Follows, ControlKinds
  <2>2. /\ vcRegister' = vcTmp["callback"] /\ vcControl' = vcControl
        /\ vcTmp'["main"] = vcTmp["main"]
    BY <1>1, <1>3, <1>6 DEF WriteControl, VcTypeInv, Who
  <2>3. vcTmp["callback"] = vcControl
    BY <1>1, <1>2, <1>3, <1>6 DEF WriteControl, VcCopy, Doing
  <2>4. QED BY <1>1, <1>2, <1>4, <2>1, <2>2, <2>3 DEF VcCopy
<1>7. CASE ClearRaised(h) \/ Serve(h) \/ WriteBank(h)
  <2>1. h.do \in {"clear", "select", "valid", "word"}
        /\ vcControl' = vcControl /\ vcRegister' = vcRegister /\ vcTmp' = vcTmp
    BY <1>3, <1>7 DEF ClearRaised, Serve, WriteBank
  <2>2. ~Doing("callback", ControlKinds)
    BY <1>2, <2>1 DEF Doing, ControlKinds
  <2>3. ~Doing("callback", ControlKinds)' /\ ~Doing("callback", {"control"})'
    BY <1>2, <2>1 DEF Doing, Follows, ControlKinds
  <2>4. QED BY <1>1, <1>2, <1>4, <2>1, <2>2, <2>3 DEF VcCopy
<1>8. QED BY <1>5, <1>6, <1>7

\* Steps of either thread at a bank.
LEMMA StepBanked ==
  ASSUME VcInv, NEW w, NEW h, NEW r, Does(w, h, r),
         Load(h) \/ Store(h) \/ WriteControl(h) \/ ClearRaised(h) \/ Serve(h) \/ WriteBank(h)
  PROVE  VcBanked'
<1>1. VcShapes /\ VcTypeInv /\ VcBanked /\ h \in VcSteps /\ w \in Who /\ VcFields \in Nat
  BY VcAssumption DEF VcInv, Does
<1>2. /\ vcTodo[w] # <<>> /\ Head(vcTodo[w]) = h /\ vcTodo'[w] = r
      /\ Len(vcTodo[w]) = Len(r) + 1 /\ Len(r) \in Nat
      /\ r # <<>> => Follows(h, Head(r)) /\ Len(r) > 0 /\ Head(r) \in VcSteps
      /\ r = <<>> => Ends(h) /\ Len(r) = 0
      /\ \A v \in Who : v # w => vcTodo'[v] = vcTodo[v]
      /\ w = "main" => vcTodo["callback"] = <<>>
      /\ vcSuspect' = IF h.do = "valid" /\ ~h.is /\ w = "main" /\ Len(vcTodo["main"]) > 1
                      THEN vcSuspect \ {vcSelect} ELSE vcSuspect
  BY DEF Does
\* While this thread is at a bank the other is not, unless all banks are suspect.
<1>3. ASSUME NEW v \in Who, v # w, Doing(v, BankKinds), h.do \in BankKinds
      PROVE  vcSuspect = VcBanks /\ w = "callback"
  BY <1>1, <1>2, <1>3 DEF VcBanked, Doing, Who
<1>4. ASSUME Doing("callback", BankKinds)', Doing("main", BankKinds)'
      PROVE  vcSuspect' = VcBanks
  <2>1. w = "callback"
    <3>1. CASE w = "main"
      <4>1. vcTodo["callback"] = <<>> /\ vcTodo'["callback"] = vcTodo["callback"]
        BY <1>2, <3>1 DEF Who
      <4>2. vcTodo'["callback"] # <<>>
        BY <1>4 DEF Doing
      <4>3. QED BY <4>1, <4>2
    <3>2. QED BY <1>1, <3>1 DEF Who
  <2>2. h.do \in BankKinds
    BY <1>1, <1>2, <1>4, <2>1, StepFields DEF Doing, Follows, BankKinds, Does
  <2>3. QED BY <1>2, <1>3, <1>4, <2>1, <2>2 DEF Doing, Who
<1>5. CASE h.do \notin BankKinds
  <2>1. vcSelect' = vcSelect /\ vcBank' = vcBank /\ vcSuspect' = vcSuspect
    BY <1>2, <1>5 DEF Load, Store, WriteControl, ClearRaised, Serve, WriteBank, BankKinds
  <2>2. \A v \in Who : Doing(v, {"word"})' <=> Doing(v, {"word"})
    BY <1>1, <1>2, <1>5, StepFields DEF Doing, Follows, BankKinds
  <2>3. \A v \in Who : Doing(v, {"word"}) => vcTodo'[v] = vcTodo[v]
    BY <1>2, <1>5 DEF Doing, BankKinds
  <2>4. \A b \in VcBanks \ vcSuspect : Whole(b)' <=> Whole(b)
    BY <2>1 DEF Whole
  <2>5. QED BY <1>1, <1>4, <2>1, <2>2, <2>3, <2>4 DEF VcBanked
<1>6. CASE h.do \in BankKinds
  <2>1. WriteBank(h)
    BY <1>6 DEF Load, Store, WriteControl, ClearRaised, Serve, BankKinds
  <2>2. CASE \E v \in Who : v # w /\ Doing(v, BankKinds)
    <3>1. vcSuspect = VcBanks /\ w = "callback"
      BY <1>3, <1>6, <2>2
    <3>2. vcSuspect' = VcBanks
      BY <1>2, <3>1
    <3>3. QED BY <1>4, <3>2 DEF VcBanked
  <2>3. CASE \A v \in Who : v # w => ~Doing(v, BankKinds)
    <3>1. \A v \in Who : v # w => ~Doing(v, {"word"}) /\ ~Doing(v, {"word"})'
      BY <1>2, <2>3 DEF Doing, BankKinds
    <3>2. CASE h.do = "select"
      <4>1. ~Doing(w, {"word"}) /\ ~Doing(w, {"word"})' /\ vcBank' = vcBank /\ vcSuspect' = vcSuspect
        BY <1>2, <2>1, <3>2 DEF Doing, Follows, WriteBank
      <4>2. \A b \in VcBanks \ vcSuspect : Whole(b)
        BY <1>1, <3>1, <4>1 DEF VcBanked
      <4>3. \A b \in VcBanks \ vcSuspect : Whole(b)'
        BY <4>1, <4>2 DEF Whole
      <4>4. QED BY <1>4, <3>1, <4>1, <4>3 DEF VcBanked
    <3>3. CASE h.do = "valid"
      <4>1. /\ vcSelect \in VcBanks /\ vcSelect' = vcSelect /\ h.is \in BOOLEAN
            /\ vcBank' = [vcBank EXCEPT ![vcSelect].valid = h.is]
        BY <1>1, <2>1, <3>3, StepFields DEF WriteBank, Selected
      <4>2. ~Doing(w, {"word"})
        BY <1>2, <3>3 DEF Doing
      <4>3. \A b \in VcBanks \ vcSuspect : Whole(b)
        BY <1>1, <3>1, <4>2 DEF VcBanked
      <4>4. \A b \in VcBanks : vcBank'[b].word = vcBank[b].word
        BY <1>1, <4>1 DEF VcTypeInv
      <4>5. \A b \in VcBanks \ vcSuspect : Whole(b)'
        BY <4>3, <4>4 DEF Whole
      <4>6. CASE h.is = TRUE
        <5>1. ~Doing(w, {"word"})' /\ vcSuspect' = vcSuspect
          BY <1>2, <3>3, <4>6 DEF Doing, Follows
        <5>2. QED BY <1>4, <3>1, <4>5, <5>1 DEF VcBanked
      <4>7. CASE h.is = FALSE
        <5>1. vcBank'[vcSelect].valid = FALSE
          BY <1>1, <4>1, <4>7 DEF VcTypeInv
        <5>2. Doing(w, {"word"})' => Head(vcTodo'[w]).at = 1
          BY <1>2, <3>3, <4>7 DEF Doing, Follows
        <5>3. ASSUME NEW b \in VcBanks \ vcSuspect'
              PROVE  Whole(b)' \/ (b = vcSelect' /\ \E v \in Who : Doing(v, {"word"})')
          <6>1. CASE b \notin vcSuspect
            BY <4>5, <5>3, <6>1
          <6>2. CASE b \in vcSuspect
            <7>1. b = vcSelect /\ w = "main" /\ Len(vcTodo["main"]) > 1
              BY <1>2, <5>3, <6>2
            <7>2. r # <<>>
              BY <1>2, <7>1
            <7>3. Doing(w, {"word"})'
              BY <1>2, <3>3, <4>7, <7>2 DEF Doing, Follows
            <7>4. QED BY <1>1, <4>1, <7>1, <7>3
          <6>3. QED BY <6>1, <6>2
        <5>4. ASSUME NEW v \in Who, Doing(v, {"word"})', vcSelect' \in VcBanks \ vcSuspect'
              PROVE  /\ ~vcBank'[vcSelect'].valid
                     /\ \A j \in 1 .. Head(vcTodo'[v]).at - 1 :
                          vcBank'[vcSelect'].word[j] = Head(vcTodo'[v]).mode
          BY <3>1, <4>1, <5>1, <5>2, <5>4
        <5>5. QED BY <1>4, <5>3, <5>4 DEF VcBanked
      <4>8. QED BY <4>1, <4>6, <4>7
    <3>4. CASE h.do = "word"
      <4>1. /\ vcSelect \in VcBanks /\ vcSelect' = vcSelect /\ vcSuspect' = vcSuspect
            /\ h.at \in 1 .. VcFields
            /\ vcBank' = [vcBank EXCEPT ![vcSelect].word[h.at] = h.mode]
        BY <1>1, <1>2, <2>1, <3>4, StepFields DEF WriteBank, Selected
      <4>2. /\ vcBank'[vcSelect].valid = vcBank[vcSelect].valid
            /\ vcBank'[vcSelect].word[h.at] = h.mode
            /\ \A j \in 1 .. VcFields : j # h.at => vcBank'[vcSelect].word[j] = vcBank[vcSelect].word[j]
            /\ \A b \in VcBanks : b # vcSelect => vcBank'[b] = vcBank[b]
        BY <1>1, <4>1 DEF VcTypeInv
      <4>3. vcSelect \notin vcSuspect =>
              /\ ~vcBank[vcSelect].valid
              /\ \A j \in 1 .. h.at - 1 : vcBank[vcSelect].word[j] = h.mode
        BY <1>1, <1>2, <3>4, <4>1 DEF VcBanked, Doing
      <4>4. \A b \in VcBanks \ vcSuspect : b # vcSelect => Whole(b)'
        BY <1>1, <4>2 DEF VcBanked, Whole
      <4>5. vcSelect \notin vcSuspect =>
              /\ ~vcBank'[vcSelect].valid
              /\ \A j \in 1 .. h.at : vcBank'[vcSelect].word[j] = h.mode
        BY <4>1, <4>2, <4>3
      <4>6. r # <<>>
        BY <1>2, <3>4 DEF Ends
      <4>7. CASE h.at = VcFields
        <5>1. ~Doing(w, {"word"})'
          BY <1>2, <3>4, <4>6, <4>7 DEF Doing, Follows
        <5>2. vcSelect \notin vcSuspect => Whole(vcSelect)'
          <6> HAVE vcSelect \notin vcSuspect
          <6>1. \A j \in 1 .. VcFields : vcBank'[vcSelect].word[j] = h.mode
            BY <4>5, <4>7
          <6>2. \A j, k \in 1 .. VcFields : vcBank'[vcSelect'].word[j] = vcBank'[vcSelect'].word[k]
            BY <4>1, <6>1
          <6>3. QED BY <6>2 DEF Whole
        <5>3. QED BY <1>4, <3>1, <4>1, <4>4, <5>1, <5>2 DEF VcBanked
      <4>8. CASE h.at # VcFields
        <5>1. Doing(w, {"word"})' /\ Head(vcTodo'[w]).at = h.at + 1 /\ Head(vcTodo'[w]).mode = h.mode
          BY <1>2, <3>4, <4>6, <4>8 DEF Doing, Follows
        <5>2. (h.at + 1) - 1 = h.at
          BY <4>1
        <5>3. ASSUME NEW v \in Who, Doing(v, {"word"})', vcSelect' \in VcBanks \ vcSuspect'
              PROVE  /\ ~vcBank'[vcSelect'].valid
                     /\ \A j \in 1 .. Head(vcTodo'[v]).at - 1 :
                          vcBank'[vcSelect'].word[j] = Head(vcTodo'[v]).mode
          BY <3>1, <4>1, <4>5, <5>1, <5>2, <5>3
        <5>4. \A b \in VcBanks \ vcSuspect' :
                Whole(b)' \/ (b = vcSelect' /\ \E v \in Who : Doing(v, {"word"})')
          BY <1>1, <4>1, <4>4, <5>1
        <5>5. QED BY <1>4, <5>3, <5>4 DEF VcBanked
      <4>9. QED BY <4>7, <4>8
    <3>5. QED BY <1>6, <3>2, <3>3, <3>4 DEF BankKinds
  <2>4. QED BY <2>2, <2>3
<1>7. QED BY <1>5, <1>6

\* A step of a method keeps the invariant.
LEMMA StepMethod == VcInv /\ VcStep => VcInv'
<1> SUFFICES ASSUME VcInv, VcStep PROVE VcInv'
  OBVIOUS
<1>1. PICK w, h, r :
        Does(w, h, r) /\ (Load(h) \/ Store(h) \/ WriteControl(h) \/ ClearRaised(h) \/ Serve(h) \/ WriteBank(h))
  BY StepDoes
<1>2. VcTypeInv' /\ VcMaskInv'
  BY <1>1, StepTypes
<1>3. VcShapes'
  BY <1>1, StepShapes
<1>4. VcPointer'
  BY <1>1, StepPointer
<1>5. VcCopy'
  <2>1. CASE w = "main"
    BY <1>1, <2>1, StepCopyMain
  <2>2. CASE w = "callback"
    BY <1>1, <2>2, StepCopyCallback
  <2>3. QED BY <1>1, <2>1, <2>2 DEF Does, Who
<1>6. VcBanked'
  BY <1>1, StepBanked
<1>7. QED BY <1>2, <1>3, <1>4, <1>5, <1>6 DEF VcInv

\* main, at rest, starts a method.
LEMMA StartMain ==
  ASSUME VcInv, Idle, NEW m, Chain(m), m # <<>>, Head(m) = m[1], Len(m) \in Nat,
         vcTodo' = [vcTodo EXCEPT !["main"] = m],
         \A i \in 1 .. Len(m) :
           IF vcProgram = "struct" THEN m[i].do \in {"put"} \cup BankKinds ELSE m[i].do # "put",
         m[1].do \notin {"word", "control", "user"},
         m[1].do = "serve" => m[1].is # TRUE,
         m[1].do = "clear" => Len(m) = 1,
         vcCrossed' = FALSE \/ vcCrossed' = vcCrossed,
         m[1].do \notin ControlKinds => vcCrossed' = vcCrossed \/ ~vcServed,
         UNCHANGED <<vcControl, vcRegister, vcRaised, vcServed, vcCallback, vcTmp, vcIsr,
                     vcStatus, vcMask, vcSelect, vcBank, vcSuspect, vcProgram>>
  PROVE  VcInv'
<1>1. /\ VcTypeInv /\ VcMaskInv /\ VcShapes /\ VcPointer /\ VcCopy /\ VcBanked
      /\ vcTodo["main"] = <<>> /\ vcIsr = "out" /\ vcTodo["callback"] = <<>>
  BY DEF VcInv, Idle, VcShapes
<1>2. vcTodo'["main"] = m /\ vcTodo'["callback"] = <<>> /\ DOMAIN vcTodo' = Who
  BY <1>1 DEF VcTypeInv, Who
<1>3. VcTypeInv' /\ VcMaskInv'
  <2>1. vcCrossed' \in BOOLEAN
    BY <1>1 DEF VcTypeInv
  <2>2. QED BY <1>1, <1>2, <2>1, Zenon DEF VcTypeInv, VcMaskInv
<1>4. VcShapes'
  BY <1>1, <1>2, EmptyChain DEF VcShapes, Who
<1>5. ~Building' /\ ~Doing("main", {"user"})'
  <2>1. ~Doing("main", {"user"})'
    BY <1>2 DEF Doing
  <2>2. ASSUME Building' PROVE FALSE
    <3>1. /\ m[1].do \in {"user", "clear", "serve"}
          /\ m[1].do = "serve" => m[1].is = TRUE
          /\ m[1].do = "clear" => Len(m) > 1
      BY <1>2, <2>2 DEF Building, Doing
    <3>2. m[1].do # "serve"
      BY <3>1, Zenon
    <3>3. m[1].do # "user"
      BY Zenon
    <3>4. m[1].do \in {"user", "clear", "serve"}
      BY <3>1, Zenon
    <3>5. m[1].do = "clear"
      <4>1. PICK k : k = m[1].do
        OBVIOUS
      <4>2. k \in {"user", "clear", "serve"} /\ k # "serve" /\ k # "user"
        BY <3>2, <3>3, <3>4, <4>1, Zenon
      <4>3. k = "clear"
        BY ONLY <4>2
      <4>4. QED BY <4>1, <4>3, Zenon
    <3>6. Len(m) > 1
      BY <3>1, <3>5, Zenon
    <3>7. Len(m) = 1
      BY <3>5, Zenon
    <3>8. QED BY ONLY <3>6, <3>7
  <2>3. QED BY <2>1, <2>2
<1>6. VcPointer'
  BY <1>1, <1>5 DEF VcPointer
<1>7. VcCopy'
  <2>1. /\ ~Doing("main", {"control"})' /\ ~Doing("callback", ControlKinds)'
        /\ ~Doing("callback", {"control"})'
        /\ ~Doing("main", ControlKinds) /\ ~Doing("callback", ControlKinds)
    BY <1>1, <1>2 DEF Doing
  <2>2. Doing("main", ControlKinds)' \/ vcCrossed' = vcCrossed \/ ~vcServed
    BY <1>2 DEF Doing
  <2>3. QED BY <1>1, <1>5, <2>1, <2>2 DEF VcCopy
<1>8. VcBanked'
  <2>1. /\ ~Doing("callback", BankKinds)'
        /\ \A w \in Who : ~Doing(w, {"word"})' /\ ~Doing(w, {"word"})
    BY <1>1, <1>2 DEF Doing, Who
  <2>2. \A b \in VcBanks \ vcSuspect : Whole(b)
    BY <1>1, <2>1 DEF VcBanked
  <2>3. \A b \in VcBanks \ vcSuspect' : Whole(b)'
    BY <2>2 DEF Whole
  <2>4. QED BY <2>1, <2>3 DEF VcBanked
<1>9. QED BY <1>3, <1>4, <1>6, <1>7, <1>8 DEF VcInv

LEMMA StepConstruct == VcInv /\ VcConstruct => VcInv'
<1> SUFFICES ASSUME VcInv, VcConstruct PROVE VcInv'
  OBVIOUS
<1> DEFINE m == Construct
<1>1. /\ Chain(m) /\ Len(m) = 5 /\ m[1].do = "store" /\ \A i \in 1 .. Len(m) : m[i].do # "put"
  BY ConstructChain
<1>2. /\ Idle /\ vcProgram # "struct" /\ ~vcServed /\ vcTodo' = [vcTodo EXCEPT !["main"] = m] /\ vcCrossed' = FALSE
      /\ UNCHANGED <<vcControl, vcRegister, vcRaised, vcServed, vcCallback, vcTmp, vcIsr,
                     vcStatus, vcMask, vcSelect, vcBank, vcSuspect, vcProgram>>
  BY DEF VcConstruct
<1> HIDE DEF m
<1>3. m \in Seq(VcSteps) /\ m # <<>>
  BY <1>1, EmptySeq DEF Chain
<1>4. Head(m) = m[1] /\ Len(m) \in Nat
  BY <1>1, <1>3
<1>5. QED BY <1>1, <1>2, <1>3, <1>4, StartMain

LEMMA StepDestruct == VcInv /\ VcDestruct => VcInv'
<1> SUFFICES ASSUME VcInv, VcDestruct PROVE VcInv'
  OBVIOUS
<1> DEFINE m == Destruct
<1>1. /\ Chain(m) /\ Len(m) = 2 /\ m[1].do = "serve" /\ m[1].is = FALSE
      /\ \A i \in 1 .. Len(m) : m[i].do # "put"
  BY DestructChain, VcAssumption
<1>2. /\ Idle /\ vcServed /\ vcTodo' = [vcTodo EXCEPT !["main"] = m] /\ vcCrossed' = vcCrossed
      /\ UNCHANGED <<vcControl, vcRegister, vcRaised, vcServed, vcCallback, vcTmp, vcIsr,
                     vcStatus, vcMask, vcSelect, vcBank, vcSuspect, vcProgram>>
  BY DEF VcDestruct
<1>3. vcProgram # "struct"
  BY <1>2 DEF VcInv, VcShapes
<1> HIDE DEF m
<1>4. m \in Seq(VcSteps) /\ m # <<>>
  BY <1>1, EmptySeq DEF Chain
<1>5. Head(m) = m[1] /\ Len(m) \in Nat
  BY <1>1, <1>4
<1>6. QED BY <1>1, <1>2, <1>3, <1>4, <1>5, StartMain

LEMMA StepCall == VcInv /\ VcCall => VcInv'
<1> SUFFICES ASSUME VcInv, VcCall PROVE VcInv'
  OBVIOUS
<1>1. PICK m \in Methods :
        /\ vcTodo' = [vcTodo EXCEPT !["main"] = m]
        /\ vcCrossed' = IF m[1].do \in ControlKinds THEN FALSE ELSE vcCrossed
  BY DEF VcCall
<1>2. /\ Idle /\ vcServed
      /\ UNCHANGED <<vcControl, vcRegister, vcRaised, vcServed, vcCallback, vcTmp, vcIsr,
                     vcStatus, vcMask, vcSelect, vcBank, vcSuspect, vcProgram>>
  BY DEF VcCall
<1>3. vcProgram # "struct"
  BY <1>2 DEF VcInv, VcShapes
<1>4. /\ Chain(m) /\ m # <<>> /\ Len(m) \in Nat /\ Head(m) = m[1] /\ Len(m) > 0
      /\ \A i \in 1 .. Len(m) : m[i].do \notin {"put", "user", "serve"}
      /\ m[1].do = "clear" => Len(m) = 1
      /\ m[1].do \in BankKinds => m[1].do = "select"
      /\ m[1].do # "control"
  <2>1. /\ Chain(m) /\ m # <<>> /\ Len(m) \in Nat /\ Head(m) = m[1]
        /\ \A i \in 1 .. Len(m) : m[i].do \notin {"put", "user", "serve"}
        /\ m[1].do = "clear" => Len(m) = 1
        /\ m[1].do \in BankKinds => m[1].do = "select"
        /\ m[1].do # "control"
    BY MethodChains
  <2>2. m \in Seq(VcSteps)
    BY <2>1 DEF Chain
  <2>3. Len(m) > 0
    BY <2>1, <2>2, EmptySeq
  <2>4. QED BY <2>1, <2>3
<1>5. m[1].do \notin {"word", "control", "user", "serve"}
  BY <1>4 DEF BankKinds
<1>6. QED BY <1>1, <1>2, <1>3, <1>4, <1>5, StartMain

LEMMA StepInitCvo == VcInv /\ VcInitCvo => VcInv'
<1> SUFFICES ASSUME VcInv, VcInitCvo PROVE VcInv'
  OBVIOUS
<1>1. PICK n \in VcModes : vcTodo' = [vcTodo EXCEPT !["main"] = init_cvo(n)]
  BY DEF VcInitCvo
<1> DEFINE m == init_cvo(n)
<1>2. /\ Idle /\ vcProgram = "struct" /\ vcTodo' = [vcTodo EXCEPT !["main"] = m] /\ vcCrossed' = vcCrossed
      /\ UNCHANGED <<vcControl, vcRegister, vcRaised, vcServed, vcCallback, vcTmp, vcIsr,
                     vcStatus, vcMask, vcSelect, vcBank, vcSuspect, vcProgram>>
  BY <1>1 DEF VcInitCvo
<1>3. /\ Chain(m) /\ m # <<>> /\ m[1].do = "put"
      /\ \A i \in 1 .. Len(m) : m[i].do \in {"put"} \cup BankKinds
  BY InitCvoChain
<1> HIDE DEF m
<1>4. Head(m) = m[1] /\ Len(m) \in Nat
  BY <1>3 DEF Chain
<1>5. QED BY <1>2, <1>3, <1>4, StartMain

\* What neither the methods nor their registers see.
LEMMA Elsewhere ==
  ASSUME VcInv, UNCHANGED <<vcTodo, vcTmp, vcControl, vcRegister, vcServed, vcSelect, vcBank,
                            vcCrossed, vcSuspect, vcProgram>>
  PROVE  VcCopy' /\ VcBanked' /\ (vcCallback' # VcJunk \/ vcCallback' = vcCallback => VcPointer')
<1>1. VcCopy /\ VcBanked /\ VcPointer
  BY DEF VcInv
<1>2. VcCopy'
  BY <1>1 DEF VcCopy, Doing, Building
<1>3. VcBanked'
  BY <1>1 DEF VcBanked, Doing, Whole
<1>4. vcCallback' # VcJunk \/ vcCallback' = vcCallback => VcPointer'
  BY <1>1 DEF VcPointer, Doing, Building
<1>5. QED BY <1>2, <1>3, <1>4

LEMMA StepOutside ==
  VcInv /\ (register_user_isr \/ VcRaise \/ VcEnter \/ VcLeave \/ UNCHANGED vcVars) => VcInv'
<1> SUFFICES ASSUME VcInv, register_user_isr \/ VcRaise \/ VcEnter \/ VcLeave \/ UNCHANGED vcVars
             PROVE  VcInv'
  OBVIOUS
<1>1. VcTypeInv /\ VcMaskInv /\ VcShapes
  BY DEF VcInv
<1>2. VcMaskInv'
  BY <1>1, StepMaskInv DEF VcNext
<1>3. UNCHANGED <<vcTodo, vcTmp, vcControl, vcRegister, vcServed, vcSelect, vcBank,
                  vcCrossed, vcSuspect, vcProgram>>
  BY DEF register_user_isr, VcRaise, VcEnter, VcLeave, vcVars
<1>4. vcCallback' # VcJunk \/ vcCallback' = vcCallback
  BY VcAssumption DEF register_user_isr, VcRaise, VcEnter, VcLeave, vcVars
<1>5. VcCopy' /\ VcBanked' /\ VcPointer'
  BY <1>3, <1>4, Elsewhere
<1>6. VcTypeInv'
  <2>1. vcCallback' \in {"null", "set", VcJunk} /\ vcIsr' \in {"out", "read", "call"}
        /\ vcRaised' \subseteq VcIrqs /\ vcStatus' \subseteq VcIrqs /\ vcMask' \subseteq vcStatus'
    <3>1. CASE register_user_isr
      BY <1>1, <3>1 DEF VcTypeInv, register_user_isr
    <3>2. CASE VcRaise
      BY <1>1, <3>2 DEF VcTypeInv, VcRaise
    <3>3. CASE VcEnter
      BY <1>1, <3>3 DEF VcTypeInv, VcEnter, VcMaskInv
    <3>4. CASE VcLeave
      BY <1>1, <3>4 DEF VcTypeInv, VcLeave, Cleared
    <3>5. CASE UNCHANGED vcVars
      BY <1>1, <3>5 DEF VcTypeInv, vcVars
    <3>6. QED BY <3>1, <3>2, <3>3, <3>4, <3>5
  <2>2. QED BY <1>1, <1>3, <2>1, Zenon DEF VcTypeInv
<1>7. /\ vcIsr' # "call" => vcTodo["callback"] = <<>>
      /\ vcIsr' # "out" => vcServed
  BY <1>1 DEF VcShapes, register_user_isr, VcRaise, VcEnter, VcLeave, vcVars
<1>8. VcShapes'
  BY <1>1, <1>3, <1>7 DEF VcShapes
<1>9. QED BY <1>2, <1>5, <1>6, <1>8 DEF VcInv

\* The handler calls the callback, which calls a method or none.
LEMMA StepCallUser == VcInv /\ VcCallUser => VcInv'
<1> SUFFICES ASSUME VcInv, VcCallUser PROVE VcInv'
  OBVIOUS
<1>1. /\ VcTypeInv /\ VcMaskInv /\ VcShapes /\ VcPointer /\ VcCopy /\ VcBanked
      /\ vcTodo["callback"] = <<>> /\ vcServed /\ vcIsr = "read" /\ vcIsr' = "call"
  BY DEF VcInv, VcShapes, VcCallUser
<1>2. VcMaskInv'
  BY <1>1, StepMaskInv DEF VcNext
<1>3. UNCHANGED <<vcControl, vcRegister, vcRaised, vcServed, vcCallback, vcTmp, vcStatus,
                  vcSelect, vcBank, vcProgram>>
  BY DEF VcCallUser
\* What the callback runs.
<1>4. PICK m :
        /\ m = <<>> \/ m \in Methods
        /\ vcTodo'["callback"] = m /\ vcTodo'["main"] = vcTodo["main"] /\ DOMAIN vcTodo' = Who
        /\ m = <<>> => vcCrossed' = vcCrossed /\ vcSuspect' = vcSuspect
        /\ m # <<>> =>
             /\ vcCrossed' = (vcCrossed \/ (m[1].do \in ControlKinds /\ MainInside(ControlKinds)))
             /\ vcSuspect' = IF m[1].do = "select" /\ MainInside(BankKinds)
                             THEN VcBanks ELSE vcSuspect
  <2>1. CASE vcCallback # "set"
    <3>1. UNCHANGED <<vcTodo, vcCrossed, vcSuspect>>
      BY <2>1 DEF VcCallUser
    <3>2. vcTodo'["callback"] = <<>> /\ DOMAIN vcTodo' = Who
      BY <1>1, <3>1 DEF VcTypeInv
    <3>3. QED BY <3>1, <3>2
  <2>2. CASE vcCallback = "set"
    <3>1. PICK m \in Methods \cup {<<>>} :
            /\ vcTodo' = [vcTodo EXCEPT !["callback"] = m]
            /\ vcCrossed' = (vcCrossed \/ (m # <<>> /\ m[1].do \in ControlKinds /\ MainInside(ControlKinds)))
            /\ vcSuspect' = IF m # <<>> /\ m[1].do = "select" /\ MainInside(BankKinds)
                            THEN VcBanks ELSE vcSuspect
      BY <2>2 DEF VcCallUser
    <3>2. /\ vcTodo'["callback"] = m /\ vcTodo'["main"] = vcTodo["main"] /\ DOMAIN vcTodo' = Who
      BY <1>1, <3>1 DEF VcTypeInv, Who
    <3>3. m = <<>> => vcCrossed' = vcCrossed /\ vcSuspect' = vcSuspect
      BY <1>1, <3>1 DEF VcTypeInv
    <3>4. QED BY <3>1, <3>2, <3>3
  <2>3. QED BY <2>1, <2>2
<1>5. /\ Chain(m)
      /\ \A i \in 1 .. Len(m) : m[i].do \notin {"put", "user", "serve"}
      /\ m # <<>> => /\ Head(m) = m[1]
                     /\ m[1].do \in BankKinds => m[1].do = "select"
                     /\ m[1].do # "control"
  BY <1>4, MethodChains, EmptyChain
<1>6. \A kinds : Doing("main", kinds) => MainInside(kinds)
  <2> TAKE kinds
  <2> HAVE Doing("main", kinds)
  <2>1. vcTodo["main"] # <<>> /\ Head(vcTodo["main"]) = vcTodo["main"][1] /\ 1 \in 1 .. Len(vcTodo["main"])
    <3>1. vcTodo["main"] \in Seq(VcSteps) /\ vcTodo["main"] # <<>>
      BY <1>1 DEF VcShapes, Chain, Who, Doing
    <3>2. QED BY <3>1, EmptySeq
  <2>2. QED BY <2>1 DEF Doing, MainInside
<1>7. /\ Building' <=> Building
      /\ \A kinds : Doing("main", kinds)' <=> Doing("main", kinds)
      /\ \A kinds : ~Doing("callback", kinds)
      /\ \A kinds : Doing("callback", kinds)' => m # <<>> /\ m[1].do \in kinds
  BY <1>1, <1>4, <1>5 DEF Doing, Building
<1>8. vcCrossed => vcCrossed'
  BY <1>4
<1>9. VcTypeInv'
  <2>1. /\ vcCrossed' \in BOOLEAN /\ vcSuspect' \subseteq VcBanks /\ vcIsr' \in {"out", "read", "call"}
        /\ DOMAIN vcTodo' = Who
    BY <1>1, <1>4 DEF VcTypeInv
  <2>2. vcMask' \subseteq vcStatus'
    BY <1>2 DEF VcMaskInv
  <2>3. QED BY <1>1, <1>3, <2>1, <2>2, Zenon DEF VcTypeInv
<1>10. VcShapes'
  <2>1. vcTodo'["callback"] = m /\ Chain(vcTodo'["main"]) /\ Chain(vcTodo'["callback"])
    BY <1>1, <1>4, <1>5 DEF VcShapes, Who
  <2>2. QED BY <1>1, <1>3, <1>4, <1>5, <2>1 DEF VcShapes, Who
<1>11. VcPointer'
  <2>1. Doing("main", {"user"})' <=> Doing("main", {"user"})
    BY <1>7
  <2>2. QED BY <1>1, <1>3, <1>4, <1>7, <2>1 DEF VcPointer
<1>12. VcCopy'
  <2>1. Doing("callback", ControlKinds)' /\ Doing("main", ControlKinds)' => vcCrossed'
    BY <1>4, <1>6, <1>7
  <2>2. ~Doing("callback", {"control"})' /\ ~Doing("callback", ControlKinds)
    BY <1>5, <1>7
  <2>3. /\ Doing("main", {"control"})' <=> Doing("main", {"control"})
        /\ Doing("main", ControlKinds)' <=> Doing("main", ControlKinds)
    BY <1>7
  <2>4. QED BY <1>1, <1>3, <1>7, <1>8, <2>1, <2>2, <2>3 DEF VcCopy
<1>13. VcBanked'
  <2>1. Doing("callback", BankKinds)' /\ Doing("main", BankKinds)' => vcSuspect' = VcBanks
    BY <1>4, <1>5, <1>6, <1>7
  <2>2. ~Doing("callback", {"word"})' /\ ~Doing("callback", {"word"})
    BY <1>5, <1>7 DEF BankKinds
  <2>3. /\ \A w \in Who : Doing(w, {"word"})' <=> Doing(w, {"word"})
        /\ \A w \in Who : Doing(w, {"word"}) => w = "main"
    BY <1>7, <2>2 DEF Who
  <2>4. CASE vcSuspect' = VcBanks
    BY <2>1, <2>4 DEF VcBanked
  <2>5. CASE vcSuspect' = vcSuspect
    <3>1. \A b \in VcBanks : Whole(b)' <=> Whole(b)
      BY <1>3 DEF Whole
    <3>2. QED BY <1>1, <1>3, <1>4, <2>1, <2>3, <2>5, <3>1 DEF VcBanked
  <2>6. QED BY <1>4, <2>4, <2>5
<1>14. QED BY <1>2, <1>9, <1>10, <1>11, <1>12, <1>13 DEF VcInv

LEMMA InitVcInv == VcInit => VcInv
<1> SUFFICES ASSUME VcInit PROVE VcInv
  OBVIOUS
<1>1. vcTodo["main"] = <<>> /\ vcTodo["callback"] = <<>> /\ DOMAIN vcTodo = Who /\ vcIsr = "out"
      /\ vcServed = FALSE
  BY DEF VcInit, Who
<1>2. VcTypeInv
  <2>1. vcBank \in [VcBanks ->
                     [valid : BOOLEAN, word : [1 .. VcFields -> VcModes \cup {VcJunk}]]]
    BY DEF VcInit, Blank
  <2>2. vcTmp \in [Who -> SUBSET ControlBits] /\ vcMask \subseteq vcStatus
    BY DEF VcInit
  <2>3. vcRegister \subseteq ControlBits /\ vcRaised \subseteq VcIrqs /\ vcControl \subseteq ControlBits
    BY DEF VcInit
  <2>4. QED BY <1>1, <2>1, <2>2, <2>3 DEF VcInit, VcTypeInv
<1>3. VcMaskInv
  BY DEF VcInit, VcMaskInv
<1>4. VcShapes
  BY <1>1, EmptyChain DEF VcShapes, Who
<1>5. \A w \in Who : \A kinds : ~Doing(w, kinds)
  BY <1>1 DEF Doing, Who
<1>6. VcPointer /\ VcCopy
  BY <1>1, <1>5 DEF VcPointer, VcCopy, Building, Who
<1>7. VcBanked
  <2>1. \A b \in VcBanks : Whole(b)
    BY DEF Whole, VcInit, Blank
  <2>2. QED BY <1>5, <2>1 DEF VcBanked, Who
<1>8. QED BY <1>2, <1>3, <1>4, <1>6, <1>7 DEF VcInv

LEMMA KeptIsSafe == VcInv => VcSafe
<1> SUFFICES ASSUME VcInv PROVE VcSafe
  OBVIOUS
<1>1. VcTypeInv /\ VcShapes /\ VcPointer /\ VcCopy /\ VcBanked
  BY DEF VcInv
<1>2. VcCopyIsControl
  <2> SUFFICES ASSUME vcServed, Idle, ~vcCrossed PROVE vcControl = vcRegister
    BY DEF VcCopyIsControl
  <2>1. vcTodo["main"] = <<>> /\ vcTodo["callback"] = <<>>
    BY <1>1 DEF Idle, VcShapes
  <2>2. ~Doing("main", ControlKinds) /\ ~Doing("callback", ControlKinds)
    BY <2>1 DEF Doing
  <2>3. QED BY <1>1, <2>2 DEF VcCopy
<1>3. VcCallbackKnown
  BY <1>1 DEF VcCallbackKnown, VcPointer
<1>4. VcBankWhole
  <2> SUFFICES ASSUME NEW b \in VcBanks \ vcSuspect, vcBank[b].valid
               PROVE  \A j, k \in 1 .. VcFields : vcBank[b].word[j] = vcBank[b].word[k]
    BY DEF VcBankWhole
  <2>1. Whole(b) \/ (b = vcSelect /\ \E w \in Who : Doing(w, {"word"}))
    BY <1>1 DEF VcBanked
  <2>2. ASSUME b = vcSelect, NEW w \in Who, Doing(w, {"word"}) PROVE FALSE
    BY <1>1, <2>2 DEF VcBanked
  <2>3. QED BY <2>1, <2>2 DEF Whole
<1>5. QED BY <1>1, <1>2, <1>3, <1>4 DEF VcSafe

\* Copy of control, callback and banks of timings, whole whenever looked at
\* (VipCore.hpp 50-118, VipCore.cpp 5-60, Clocked_Video_Output.cpp 7-62).
THEOREM CoreCopiesWhole == VcSpec => []VcSafe
<1>1. VcInv /\ [VcNext]_vcVars => VcInv'
  BY StepMethod, StepConstruct, StepDestruct, StepCall, StepInitCvo, StepOutside, StepCallUser DEF VcNext
<1>2. QED BY <1>1, InitVcInv, KeptIsSafe, PTL DEF VcSpec

(***************************************************************************)
(* The clocked video input.  A size that was read after the stream was     *)
(* found stable is the input's as long as the status interrupt has not     *)
(* fired: losing the stability fires it, and without losing it the size    *)
(* does not change.                                                        *)
(***************************************************************************)

Unchanged0 == "status" \in viOn /\ "status" \notin viFired

ViFresh == viAsked.stable = "yes" /\ Unchanged0 =>
  /\ "stable" \in viStatus
  /\ viAsked.width \in {0, viFormat.width} /\ viAsked.height \in {0, viFormat.height}

Answers == [stable : {"?", "yes", "no"}, width : Nat, height : Nat, still : BOOLEAN]

ViInv == /\ ViTypeInv /\ viAsked \in Answers /\ ViFresh /\ ViSizesAgree
         /\ viFlow => "producing" \in viStatus
         /\ ViStopped /\ ViOverflowKept

\* A new status that keeps or loses the stability.
LEMMA FreshAfterStatus ==
  ASSUME ViInv, NEW s, s \subseteq StatusBits, NewStatus(s),
         UNCHANGED <<viFormat, viOn, viAsked>>
  PROVE  /\ viStatus' \subseteq StatusBits /\ viFired' \subseteq Interrupts
         /\ ViFresh' /\ ViSizesAgree'
<1>1. ViTypeInv /\ ViFresh /\ ViSizesAgree
  BY DEF ViInv
<1>2. viStatus' = s /\ viFired \subseteq viFired' /\ viFired' \subseteq viFired \cup {"status"}
      /\ ("status" \in viOn /\ s # viStatus => "status" \in viFired')
  BY DEF NewStatus
<1>3. viFired' \subseteq Interrupts
  BY <1>1, <1>2 DEF ViTypeInv, Interrupts
<1>4. ViFresh'
  BY <1>1, <1>2 DEF ViFresh, Unchanged0
<1>5. ViSizesAgree'
  BY <1>1 DEF ViSizesAgree
<1>6. QED BY <1>2, <1>3, <1>4, <1>5

LEMMA SignalViInv == ASSUME ViInv, NEW bit \in ViSignals, Signal(bit) PROVE ViInv'
<1> DEFINE s == IF bit \in viStatus THEN viStatus \ {bit} ELSE viStatus \cup {bit}
<1>1. /\ ViTypeInv /\ viAsked \in Answers /\ ViStopped /\ ViOverflowKept
      /\ viFlow => "producing" \in viStatus
  BY DEF ViInv
<1>2. bit \in StatusBits /\ bit # "producing" /\ bit # "overflow"
  BY ViAssumption
<1>3. s \subseteq StatusBits /\ NewStatus(s) /\ viStatus' = s
      /\ UNCHANGED <<viFormat, viGo, viOn, viFlow, viAsked, viLoss, viWait>>
  BY <1>1, <1>2 DEF Signal, ViTypeInv, NewStatus
<1>4. /\ ("producing" \in s) <=> ("producing" \in viStatus)
      /\ ("overflow" \in s) <=> ("overflow" \in viStatus)
  BY <1>2
<1> HIDE DEF s
<1>5. viStatus' \subseteq StatusBits /\ viFired' \subseteq Interrupts /\ ViFresh' /\ ViSizesAgree'
  BY <1>3, FreshAfterStatus
<1>6. ViTypeInv' /\ (viAsked \in Answers)' /\ ViStopped' /\ ViOverflowKept'
      /\ (viFlow => "producing" \in viStatus)'
  BY <1>1, <1>3, <1>4, <1>5 DEF ViTypeInv, ViStopped, ViOverflowKept, is_overflowed,
                                read_status_register_bit
<1>7. QED BY <1>5, <1>6 DEF ViInv

LEMMA CoreViInv == ViInv /\ Core => ViInv'
<1> SUFFICES ASSUME ViInv, Core PROVE ViInv'
  OBVIOUS
<1>1. /\ ViTypeInv /\ viAsked \in Answers /\ ViStopped /\ ViOverflowKept
      /\ ViFresh /\ ViSizesAgree
      /\ viFlow => "producing" \in viStatus
  BY DEF ViInv
<1>2. CASE \E bit \in ViSignals : Signal(bit)
  BY <1>2, SignalViInv
<1>3. CASE NewFormat
  <2>1. "stable" \notin viStatus /\ viFormat' \in ViFormats
        /\ UNCHANGED <<viStatus, viFired, viGo, viOn, viFlow, viAsked, viLoss, viWait>>
    BY <1>3 DEF NewFormat
  <2>2. ViFresh'
    BY <1>1, <2>1 DEF ViFresh, Unchanged0
  <2>3. ViTypeInv' /\ (viAsked \in Answers)' /\ ViStopped' /\ ViOverflowKept' /\ ViSizesAgree'
        /\ (viFlow => "producing" \in viStatus)'
    BY <1>1, <2>1 DEF ViTypeInv, ViStopped, ViOverflowKept, is_overflowed, ViSizesAgree,
                      read_status_register_bit
  <2>4. QED BY <2>2, <2>3 DEF ViInv
<1>4. CASE FieldStarts
  <2> DEFINE s == viStatus \cup {"producing"}
  <2>1. s \subseteq StatusBits /\ NewStatus(s) /\ viStatus' = s /\ viGo
        /\ UNCHANGED <<viFormat, viGo, viOn, viAsked, viLoss, viWait>>
    BY <1>1, <1>4 DEF FieldStarts, ViTypeInv, NewStatus, StatusBits
  <2>2. viStatus' \subseteq StatusBits /\ viFired' \subseteq Interrupts /\ ViFresh' /\ ViSizesAgree'
    BY <2>1, FreshAfterStatus
  <2>3. ViTypeInv' /\ (viAsked \in Answers)' /\ ViStopped' /\ ViOverflowKept'
        /\ (viFlow => "producing" \in viStatus)'
    BY <1>1, <2>1, <2>2 DEF ViTypeInv, ViStopped, ViOverflowKept, is_overflowed,
                            read_status_register_bit
  <2>4. QED BY <2>2, <2>3 DEF ViInv
<1>5. CASE FieldEnds
  <2>1. /\ viFlow' = FALSE /\ viFired \subseteq viFired' /\ viFired' \subseteq viFired \cup Interrupts
        /\ viStatus' \in {viStatus, viStatus \ {"producing"}}
        /\ ~viGo => viStatus' = viStatus \ {"producing"}
        /\ UNCHANGED <<viFormat, viGo, viOn, viAsked, viLoss, viWait>>
    BY <1>5 DEF FieldEnds, Interrupts
  <2>2. /\ viStatus' \subseteq StatusBits /\ ("overflow" \in viStatus' <=> "overflow" \in viStatus)
        /\ ("stable" \in viStatus' <=> "stable" \in viStatus)
    BY <1>1, <2>1 DEF ViTypeInv
  <2>3. ViFresh' /\ ViSizesAgree'
    BY <1>1, <2>1, <2>2 DEF ViFresh, Unchanged0, ViSizesAgree
  <2>4. ViTypeInv' /\ (viAsked \in Answers)' /\ ViStopped' /\ ViOverflowKept'
        /\ (viFlow => "producing" \in viStatus)'
    BY <1>1, <2>1, <2>2 DEF ViTypeInv, ViStopped, ViOverflowKept, is_overflowed,
                            read_status_register_bit
  <2>5. QED BY <2>3, <2>4 DEF ViInv
<1>6. CASE GoesOut
  <2> DEFINE s == viStatus \ {"producing"}
  <2>1. s \subseteq StatusBits /\ NewStatus(s) /\ viStatus' = s /\ ~viFlow
        /\ UNCHANGED <<viFormat, viGo, viOn, viFlow, viAsked, viLoss, viWait>>
    BY <1>1, <1>6 DEF GoesOut, ViTypeInv, NewStatus
  <2>2. viStatus' \subseteq StatusBits /\ viFired' \subseteq Interrupts /\ ViFresh' /\ ViSizesAgree'
    BY <2>1, FreshAfterStatus
  <2>3. ViTypeInv' /\ (viAsked \in Answers)' /\ ViStopped' /\ ViOverflowKept'
        /\ (viFlow => "producing" \in viStatus)'
    BY <1>1, <2>1, <2>2 DEF ViTypeInv, ViStopped, ViOverflowKept, is_overflowed,
                            read_status_register_bit
  <2>4. QED BY <2>2, <2>3 DEF ViInv
<1>7. CASE Overflows
  <2> DEFINE s == viStatus \cup {"overflow"}
  <2>1. s \subseteq StatusBits /\ NewStatus(s) /\ viStatus' = s /\ viFlow /\ viLoss' = "new"
        /\ UNCHANGED <<viFormat, viGo, viOn, viFlow, viAsked, viWait>>
    BY <1>1, <1>7 DEF Overflows, ViTypeInv, NewStatus, StatusBits
  <2>2. viStatus' \subseteq StatusBits /\ viFired' \subseteq Interrupts /\ ViFresh' /\ ViSizesAgree'
    BY <2>1, FreshAfterStatus
  <2>3. ViTypeInv' /\ (viAsked \in Answers)' /\ ViStopped' /\ ViOverflowKept'
        /\ (viFlow => "producing" \in viStatus)'
    BY <1>1, <2>1, <2>2 DEF ViTypeInv, ViStopped, ViOverflowKept, is_overflowed,
                            read_status_register_bit
  <2>4. QED BY <2>2, <2>3 DEF ViInv
<1>8. QED BY <1>2, <1>3, <1>4, <1>5, <1>6, <1>7 DEF Core

\* What the program learns; the answer is fresh because it is read now.
LEMMA AskViInv == ViInv /\ Ask => ViInv'
<1> SUFFICES ASSUME ViInv, Ask PROVE ViInv'
  OBVIOUS
<1>1. /\ ViTypeInv /\ viAsked \in Answers /\ ViStopped /\ ViOverflowKept
      /\ ViFresh /\ ViSizesAgree
      /\ viFlow => "producing" \in viStatus
  BY DEF ViInv
<1>2. UNCHANGED <<viStatus, viFormat, viFired, viFlow, viGo, viOn, viLoss, viWait>>
  BY DEF Ask, Core0
<1>3. viFormat.width \in Nat /\ viFormat.height \in Nat
      /\ viFormat = [width |-> viFormat.width, height |-> viFormat.height]
  BY <1>1, ViAssumption DEF ViTypeInv
<1>4. viAsked' \in Answers /\ ViFresh' /\ ViSizesAgree'
  <2>1. CASE AskStable
    <3>1. viAsked' = [stable |-> IF is_stream_stable THEN "yes" ELSE "no",
                      width |-> 0, height |-> 0, still |-> FALSE]
      BY <2>1 DEF AskStable, Unknown
    <3>2. viAsked'.stable = "yes" => "stable" \in viStatus
      BY <3>1 DEF is_stream_stable
    <3>3. QED BY <1>2, <3>1, <3>2 DEF Answers, ViFresh, ViSizesAgree
  <2>2. CASE get_width
    <3>1. viAsked' = [stable |-> viAsked.stable, width |-> viFormat.width,
                      height |-> viAsked.height, still |-> FALSE]
      BY <1>1, <2>2 DEF get_width, Learns, Answers
    <3>2. QED BY <1>1, <1>2, <1>3, <3>1 DEF Answers, ViFresh, ViSizesAgree, Unchanged0
  <2>3. CASE get_height_f0
    <3>1. viAsked' = [stable |-> viAsked.stable, width |-> viAsked.width,
                      height |-> viFormat.height, still |-> FALSE]
      BY <1>1, <2>3 DEF get_height_f0, Learns, Answers
    <3>2. QED BY <1>1, <1>2, <1>3, <3>1 DEF Answers, ViFresh, ViSizesAgree, Unchanged0
  <2>4. CASE AskStill
    <3>1. viAsked' = [stable |-> viAsked.stable, width |-> viAsked.width,
                      height |-> viAsked.height, still |-> Unchanged0]
      BY <1>1, <2>4 DEF AskStill, Answers, Unchanged0, has_status_update_interrupt_fired
    <3>2. viAsked' \in Answers
      BY <1>1, <3>1 DEF Answers, Unchanged0
    <3>3. viAsked'.still = Unchanged0 /\ viAsked'.stable = viAsked.stable
          /\ viAsked'.width = viAsked.width /\ viAsked'.height = viAsked.height
      BY <3>1, Zenon
    <3>4. ViFresh'
      BY <1>1, <1>2, <3>3 DEF ViFresh, Unchanged0
    <3>5. ViSizesAgree'
      <4> SUFFICES ASSUME viAsked'.stable = "yes", viAsked'.still,
                          0 \notin {viAsked'.width, viAsked'.height}
                   PROVE  [width |-> viAsked'.width, height |-> viAsked'.height] \in ViFormats
        BY DEF ViSizesAgree
      <4>1. Unchanged0
        BY <3>3, Zenon
      <4>2. viAsked.width = viFormat.width /\ viAsked.height = viFormat.height
        BY <1>1, <3>3, <4>1 DEF ViFresh
      <4>3. QED BY <1>1, <1>3, <3>3, <4>2 DEF ViTypeInv
    <3>6. QED BY <3>2, <3>4, <3>5
  <2>5. QED BY <2>1, <2>2, <2>3, <2>4 DEF Ask
<1>5. ViTypeInv' /\ ViStopped' /\ ViOverflowKept' /\ (viFlow => "producing" \in viStatus)'
  BY <1>1, <1>2 DEF ViTypeInv, ViStopped, ViOverflowKept, is_overflowed, read_status_register_bit
<1>6. QED BY <1>4, <1>5 DEF ViInv

\* The other accesses: they leave the answers alone, or forget them.
LEMMA ProgramViInv ==
  ASSUME ViInv, \/ input_start \/ stop_and_wait \/ Polls \/ Control \/ Clear
                \/ LookOverflow \/ clear_overflow_flag \/ UNCHANGED viVars
  PROVE  ViInv'
<1>1. /\ ViTypeInv /\ viAsked \in Answers /\ ViStopped /\ ViOverflowKept
      /\ ViFresh /\ ViSizesAgree
      /\ viFlow => "producing" \in viStatus
  BY DEF ViInv
<1>2. CASE input_start \/ stop_and_wait \/ Polls \/ LookOverflow \/ UNCHANGED viVars
  <2>1. UNCHANGED <<viStatus, viFormat, viFired, viOn, viFlow, viAsked>>
    BY <1>2 DEF input_start, stop_and_wait, Polls, LookOverflow, viVars, Core0
  <2>2. ViFresh' /\ ViSizesAgree'
    BY <1>1, <2>1 DEF ViFresh, ViSizesAgree, Unchanged0
  <2>3. ViStopped' /\ ViOverflowKept' /\ viLoss' \in {"none", "seen", "new", "lost"}
    BY <1>1, <1>2, <2>1 DEF input_start, stop_and_wait, Polls, LookOverflow, viVars, ViStopped,
       ViOverflowKept, is_overflowed, read_status_register_bit, is_running, ViTypeInv
  <2>4. QED BY <1>1, <2>1, <2>2, <2>3 DEF ViInv, ViTypeInv
<1>3. CASE Control
  <2>1. /\ viAsked' = Unknown /\ UNCHANGED <<viStatus, viFormat, viFired, viFlow, viGo, viLoss, viWait>>
        /\ viOn' \subseteq Interrupts
    BY <1>1, <1>3 DEF Control, Core0, enable_status_update_interrupt,
       disable_status_update_interrupt, enable_end_of_field_frame_interrupt,
       disable_end_of_field_frame_interrupt, enable_interrupt, disable_interrupt, ViTypeInv, Interrupts
  <2>2. (viAsked \in Answers)' /\ ViFresh' /\ ViSizesAgree'
    BY <2>1 DEF Unknown, Answers, ViFresh, ViSizesAgree
  <2>3. QED BY <1>1, <2>1, <2>2 DEF ViInv, ViTypeInv, ViStopped, ViOverflowKept, is_overflowed,
                                   read_status_register_bit
<1>4. CASE Clear
  <2>1. UNCHANGED <<viStatus, viFormat, viGo, viOn, viFlow, viLoss, viWait>>
        /\ viFired' \subseteq Interrupts
    BY <1>1, <1>4 DEF Clear, ViTypeInv, clear_status_update_interrupt,
       clear_end_of_field_frame_interrupt, clear_input_interrupt
  <2>2. CASE clear_status_update_interrupt
    <3>1. viAsked' = Unknown
      BY <2>2 DEF clear_status_update_interrupt
    <3>2. (viAsked \in Answers)' /\ ViFresh' /\ ViSizesAgree'
      BY <3>1 DEF Unknown, Answers, ViFresh, ViSizesAgree
    <3>3. QED BY <1>1, <2>1, <3>2 DEF ViInv, ViTypeInv, ViStopped, ViOverflowKept, is_overflowed,
                                     read_status_register_bit
  <2>3. CASE clear_end_of_field_frame_interrupt
    <3>1. viAsked' = viAsked /\ viFired' = viFired \ {"field"}
      BY <2>3 DEF clear_end_of_field_frame_interrupt, clear_input_interrupt
    <3>2. ViFresh' /\ ViSizesAgree'
      BY <1>1, <2>1, <3>1 DEF ViFresh, ViSizesAgree, Unchanged0
    <3>3. QED BY <1>1, <2>1, <3>1, <3>2 DEF ViInv, ViTypeInv, ViStopped, ViOverflowKept,
                                           is_overflowed, read_status_register_bit
  <2>4. QED BY <1>4, <2>2, <2>3 DEF Clear
<1>5. CASE clear_overflow_flag
  <2> DEFINE s == viStatus \ {"overflow"}
  <2>1. s \subseteq StatusBits /\ NewStatus(s) /\ viStatus' = s
        /\ viLoss' \in {"none", "lost"}
        /\ UNCHANGED <<viFormat, viGo, viOn, viFlow, viAsked, viWait>>
    BY <1>1, <1>5 DEF clear_overflow_flag, ViTypeInv, NewStatus
  <2>2. viStatus' \subseteq StatusBits /\ viFired' \subseteq Interrupts /\ ViFresh' /\ ViSizesAgree'
    BY <2>1, FreshAfterStatus
  <2>3. ViTypeInv' /\ (viAsked \in Answers)' /\ ViStopped' /\ ViOverflowKept'
        /\ (viFlow => "producing" \in viStatus)'
    BY <1>1, <2>1, <2>2 DEF ViTypeInv, ViStopped, ViOverflowKept, is_overflowed,
                            read_status_register_bit
  <2>4. QED BY <2>2, <2>3 DEF ViInv
<1>6. QED BY <1>2, <1>3, <1>4, <1>5

\* Sizes of one format, a stop that has come, overflows kept
\* (Clocked_Video_Input.hpp).
THEOREM InputTellsTheTruth == ViSpec => []ViSafe
<1>1. ViInit => ViInv
  BY DEF ViInit, ViInv, ViTypeInv, ViFresh, ViSizesAgree, ViStopped, ViOverflowKept, Answers,
         Unknown, StatusBits, Interrupts
<1>2. ViInv /\ [ViNext]_viVars => ViInv'
  BY CoreViInv, AskViInv, ProgramViInv DEF ViNext
<1>3. ViInv => ViSafe
  BY DEF ViInv, ViSafe
<1>4. QED BY <1>1, <1>2, <1>3, PTL DEF ViSpec

(***************************************************************************)
(* The clipper.  A method is four writes; after each of them the registers *)
(* hold the new values of what was written and the old ones of the rest.   *)
(***************************************************************************)

Mixed(xf, xo, yf, yo) == [x |-> [from |-> xf, other |-> xo], y |-> [from |-> yf, other |-> yo]]

\* What is left of a method, and the registers then.
ClStage ==
  LET b == clBefore  a == clAfter IN
  \/ clTodo = <<>> /\ clRegister = a
  \/ clTodo = <<set_bottom_offset(a)>> /\ clRegister = Mixed(a.x.from, a.x.other, a.y.from, b.y.other)
  \/ IF clRectangle
     THEN \/ /\ clTodo = <<set_left_offset(a), set_top_offset(a), set_width(a), set_height(a)>>
             /\ clRegister = b
          \/ /\ clTodo = <<set_top_offset(a), set_width(a), set_height(a)>>
             /\ clRegister = Mixed(a.x.from, b.x.other, b.y.from, b.y.other)
          \/ /\ clTodo = <<set_width(a), set_height(a)>>
             /\ clRegister = Mixed(a.x.from, b.x.other, a.y.from, b.y.other)
     ELSE \/ /\ clTodo = <<set_left_offset(a), set_right_offset(a), set_top_offset(a), set_bottom_offset(a)>>
             /\ clRegister = b
          \/ /\ clTodo = <<set_right_offset(a), set_top_offset(a), set_bottom_offset(a)>>
             /\ clRegister = Mixed(a.x.from, b.x.other, b.y.from, b.y.other)
          \/ /\ clTodo = <<set_top_offset(a), set_bottom_offset(a)>>
             /\ clRegister = Mixed(a.x.from, a.x.other, b.y.from, b.y.other)

ClInv == clRectangle \in BOOLEAN /\ clBefore \in Windows /\ clAfter \in Windows /\ ClStage

LEMMA WindowShape ==
  ASSUME NEW w \in Windows
  PROVE  /\ w \in [x : Sides, y : Sides] /\ w.x \in Sides /\ w.y \in Sides
         /\ Inside(w.x) /\ Inside(w.y)
         /\ w.x.from \in Offsets /\ w.x.other \in Offsets /\ w.y.from \in Offsets /\ w.y.other \in Offsets
         /\ w = Mixed(w.x.from, w.x.other, w.y.from, w.y.other)
<1>1. w \in [x : Sides, y : Sides] /\ Inside(w.x) /\ Inside(w.y)
  BY DEF Windows
<1>2. QED BY <1>1 DEF Sides, Mixed

LEMMA Lists ==
  /\ \A p : <<p>> # <<>> /\ Head(<<p>>) = p /\ Tail(<<p>>) = <<>>
  /\ \A p, q : <<p, q>> # <<>> /\ Head(<<p, q>>) = p /\ Tail(<<p, q>>) = <<q>>
  /\ \A p, q, r : <<p, q, r>> # <<>> /\ Head(<<p, q, r>>) = p /\ Tail(<<p, q, r>>) = <<q, r>>
  /\ \A p, q, r, s : /\ <<p, q, r, s>> # <<>> /\ Head(<<p, q, r, s>>) = p
                     /\ Tail(<<p, q, r, s>>) = <<q, r, s>>
OBVIOUS

\* One write changes one register.
LEMMA WriteOnePart ==
  /\ \A xf, xo, yf, yo, v : [Mixed(xf, xo, yf, yo) EXCEPT !["x"]["from"] = v] = Mixed(v, xo, yf, yo)
  /\ \A xf, xo, yf, yo, v : [Mixed(xf, xo, yf, yo) EXCEPT !["x"]["other"] = v] = Mixed(xf, v, yf, yo)
  /\ \A xf, xo, yf, yo, v : [Mixed(xf, xo, yf, yo) EXCEPT !["y"]["from"] = v] = Mixed(xf, xo, v, yo)
  /\ \A xf, xo, yf, yo, v : [Mixed(xf, xo, yf, yo) EXCEPT !["y"]["other"] = v] = Mixed(xf, xo, yf, v)
BY DEF Mixed

\* What a side may be between the writes: old, new, or new beside old.
LEMMA SideBetween ==
  ASSUME NEW b, NEW a, b \in Sides, a \in Sides, Inside(b), Inside(a), clRectangle \in BOOLEAN
  PROVE  /\ Inside([from |-> b.from, other |-> b.other]) /\ Inside([from |-> a.from, other |-> a.other])
         /\ ~Inside([from |-> a.from, other |-> b.other]) => b.from < a.from
<1>1. ClSize \in Nat /\ b.from \in 0 .. ClSize /\ b.other \in 0 .. ClSize /\ a.from \in 0 .. ClSize
      /\ a.other \in 0 .. ClSize
  BY ClAssumption DEF Sides, Offsets
<1>2. QED BY <1>1 DEF Inside

\* A method's stage tells what a picture that begins now is cut by.
LEMMA StageIsSafe == ClInv => ClSafe
<1> SUFFICES ASSUME ClInv PROVE ClSafe
  OBVIOUS
<1> DEFINE b == clBefore  a == clAfter
<1>1. a \in Windows /\ b \in Windows /\ clRectangle \in BOOLEAN /\ ClStage
  BY DEF ClInv
<1>2. /\ a.x \in Sides /\ a.y \in Sides /\ Inside(a.x) /\ Inside(a.y)
      /\ b.x \in Sides /\ b.y \in Sides /\ Inside(b.x) /\ Inside(b.y)
      /\ a.x.from \in Offsets /\ a.x.other \in Offsets /\ a.y.from \in Offsets /\ a.y.other \in Offsets
      /\ b.x.from \in Offsets /\ b.x.other \in Offsets /\ b.y.from \in Offsets /\ b.y.other \in Offsets
      /\ a = Mixed(a.x.from, a.x.other, a.y.from, a.y.other)
      /\ b = Mixed(b.x.from, b.x.other, b.y.from, b.y.other)
  BY <1>1, WindowShape
<1>3. \/ clRegister \in {a, b}
      \/ /\ clTodo # <<>>
         /\ clRegister \in {Mixed(a.x.from, b.x.other, b.y.from, b.y.other),
                            Mixed(a.x.from, b.x.other, a.y.from, b.y.other),
                            Mixed(a.x.from, a.x.other, b.y.from, b.y.other),
                            Mixed(a.x.from, a.x.other, a.y.from, b.y.other)}
  BY <1>1, Lists, SMTT(30), ZenonT(40) DEF ClStage
<1> DEFINE bx == [from |-> b.x.from, other |-> b.x.other]
           by == [from |-> b.y.from, other |-> b.y.other]
           ax == [from |-> a.x.from, other |-> a.x.other]
           ay == [from |-> a.y.from, other |-> a.y.other]
           nx == [from |-> a.x.from, other |-> b.x.other]
           ny == [from |-> a.y.from, other |-> b.y.other]
<1>4. /\ a = [x |-> ax, y |-> ay] /\ b = [x |-> bx, y |-> by]
      /\ {ax, ay, bx, by, nx, ny} \subseteq Sides
  BY <1>2 DEF Mixed, Sides
<1>5. PICK u, v \in Sides : /\ clRegister = [x |-> u, y |-> v]
                            /\ u \in {ax, bx} \/ (clTodo # <<>> /\ u = nx)
                            /\ v \in {ay, by} \/ (clTodo # <<>> /\ v = ny)
  <2> HIDE DEF ax, ay, bx, by, nx, ny, a, b
  <2>1. \/ clRegister \in {[x |-> ax, y |-> ay], [x |-> bx, y |-> by]}
        \/ /\ clTodo # <<>>
           /\ clRegister \in {[x |-> nx, y |-> by], [x |-> nx, y |-> ny],
                              [x |-> ax, y |-> by], [x |-> ax, y |-> ny]}
    BY <1>3, <1>4 DEF ax, ay, bx, by, nx, ny, Mixed
  <2>2. QED BY ONLY <1>4, <2>1
<1>6. /\ ClTypeInv
      /\ clRegister.x \in {ax, bx} \/ (clTodo # <<>> /\ clRegister.x = nx)
      /\ clRegister.y \in {ay, by} \/ (clTodo # <<>> /\ clRegister.y = ny)
  <2> HIDE DEF ax, ay, bx, by, nx, ny, a, b
  <2>1. clRegister.x = u /\ clRegister.y = v
    BY <1>5
  <2>2. QED BY <1>5, <2>1 DEF ClTypeInv
<1>7. /\ ~Inside(clRegister.x) => clTodo # <<>> /\ b.x.from < a.x.from
      /\ ~Inside(clRegister.y) => clTodo # <<>> /\ b.y.from < a.y.from
  <2>1. /\ Inside([from |-> b.x.from, other |-> b.x.other]) /\ Inside([from |-> a.x.from, other |-> a.x.other])
        /\ ~Inside([from |-> a.x.from, other |-> b.x.other]) => b.x.from < a.x.from
    BY <1>1, <1>2, SideBetween
  <2>2. /\ Inside([from |-> b.y.from, other |-> b.y.other]) /\ Inside([from |-> a.y.from, other |-> a.y.other])
        /\ ~Inside([from |-> a.y.from, other |-> b.y.other]) => b.y.from < a.y.from
    BY <1>1, <1>2, SideBetween
  <2> HIDE DEF ax, ay, bx, by, nx, ny, a, b
  <2>3. QED BY <1>6, <2>1, <2>2 DEF ax, ay, bx, by, nx, ny
<1>8. ClAsAsked
  BY <1>1, Lists DEF ClStage, ClAsAsked
<1>9. QED BY <1>6, <1>7, <1>8 DEF ClSafe, ClOutsideOnly

LEMMA WriteClInv == ClInv /\ Write => ClInv'
<1> SUFFICES ASSUME ClInv, Write PROVE ClInv'
  OBVIOUS
<1> DEFINE b == clBefore  a == clAfter  s == Head(clTodo)
<1>1. a \in Windows /\ b \in Windows /\ clRectangle \in BOOLEAN /\ ClStage
  BY DEF ClInv
<1>2. /\ a = Mixed(a.x.from, a.x.other, a.y.from, a.y.other)
      /\ b = Mixed(b.x.from, b.x.other, b.y.from, b.y.other)
  BY <1>1, WindowShape
<1>3. /\ clTodo # <<>> /\ clTodo' = Tail(clTodo) /\ UNCHANGED <<clRectangle, clBefore, clAfter>>
      /\ clRegister' = [clRegister EXCEPT ![s.axis][s.part] = s.to]
  BY DEF Write
<1>4. ClStage'
  <2>1. CASE clTodo = <<set_bottom_offset(a)>> /\ clRegister = Mixed(a.x.from, a.x.other, a.y.from, b.y.other)
    <3>1. s = [axis |-> "y", part |-> "other", to |-> a.y.other] /\ clTodo' = <<>>
      BY <1>3, <2>1, Lists DEF set_bottom_offset
    <3>2. clRegister' = Mixed(a.x.from, a.x.other, a.y.from, a.y.other)
      <4>1. s.axis = "y" /\ s.part = "other" /\ s.to = a.y.other BY <3>1
      <4>2. clRegister' = [clRegister EXCEPT !["y"]["other"] = a.y.other] BY <1>3, <4>1
      <4>3. QED BY ONLY <2>1, <4>2, WriteOnePart
    <3>3. QED BY <1>2, <1>3, <3>1, <3>2 DEF ClStage
  <2>2. CASE clRectangle /\ clRegister = b
             /\ clTodo = <<set_left_offset(a), set_top_offset(a), set_width(a), set_height(a)>>
    <3>1. s = [axis |-> "x", part |-> "from", to |-> a.x.from]
          /\ clTodo' = <<set_top_offset(a), set_width(a), set_height(a)>>
      BY <1>3, <2>2, Lists DEF set_left_offset
    <3>2. clRegister' = Mixed(a.x.from, b.x.other, b.y.from, b.y.other)
      <4>1. s.axis = "x" /\ s.part = "from" /\ s.to = a.x.from BY <3>1
      <4>2. clRegister' = [clRegister EXCEPT !["x"]["from"] = a.x.from] BY <1>3, <4>1
      <4>3. clRegister = Mixed(b.x.from, b.x.other, b.y.from, b.y.other)
        BY <1>2, <2>2
      <4>4. QED BY ONLY <4>2, <4>3, WriteOnePart
    <3>3. QED BY <1>3, <2>2, <3>1, <3>2 DEF ClStage, set_left_offset, set_top_offset, set_width,
                   set_height
  <2>3. CASE clRectangle /\ clTodo = <<set_top_offset(a), set_width(a), set_height(a)>>
             /\ clRegister = Mixed(a.x.from, b.x.other, b.y.from, b.y.other)
    <3>1. s = [axis |-> "y", part |-> "from", to |-> a.y.from] /\ clTodo' = <<set_width(a), set_height(a)>>
      BY <1>3, <2>3, Lists DEF set_top_offset
    <3>2. clRegister' = Mixed(a.x.from, b.x.other, a.y.from, b.y.other)
      <4>1. s.axis = "y" /\ s.part = "from" /\ s.to = a.y.from BY <3>1
      <4>2. clRegister' = [clRegister EXCEPT !["y"]["from"] = a.y.from] BY <1>3, <4>1
      <4>3. QED BY ONLY <2>3, <4>2, WriteOnePart
    <3>3. QED BY <1>3, <2>3, <3>1, <3>2 DEF ClStage, set_width, set_height
  <2>4. CASE clRectangle /\ clTodo = <<set_width(a), set_height(a)>>
             /\ clRegister = Mixed(a.x.from, b.x.other, a.y.from, b.y.other)
    <3>1. s = [axis |-> "x", part |-> "other", to |-> a.x.other] /\ clTodo' = <<set_height(a)>>
      BY <1>3, <2>4, Lists DEF set_width
    <3>2. clRegister' = Mixed(a.x.from, a.x.other, a.y.from, b.y.other)
      <4>1. s.axis = "x" /\ s.part = "other" /\ s.to = a.x.other BY <3>1
      <4>2. clRegister' = [clRegister EXCEPT !["x"]["other"] = a.x.other] BY <1>3, <4>1
      <4>3. QED BY ONLY <2>4, <4>2, WriteOnePart
    <3>3. QED BY <1>3, <3>1, <3>2 DEF ClStage, set_height, set_bottom_offset
  <2>5. CASE ~clRectangle /\ clRegister = b
             /\ clTodo = <<set_left_offset(a), set_right_offset(a), set_top_offset(a), set_bottom_offset(a)>>
    <3>1. s = [axis |-> "x", part |-> "from", to |-> a.x.from]
          /\ clTodo' = <<set_right_offset(a), set_top_offset(a), set_bottom_offset(a)>>
      BY <1>3, <2>5, Lists DEF set_left_offset
    <3>2. clRegister' = Mixed(a.x.from, b.x.other, b.y.from, b.y.other)
      <4>1. s.axis = "x" /\ s.part = "from" /\ s.to = a.x.from BY <3>1
      <4>2. clRegister' = [clRegister EXCEPT !["x"]["from"] = a.x.from] BY <1>3, <4>1
      <4>3. clRegister = Mixed(b.x.from, b.x.other, b.y.from, b.y.other)
        BY <1>2, <2>5
      <4>4. QED BY ONLY <4>2, <4>3, WriteOnePart
    <3>3. QED BY <1>3, <2>5, <3>1, <3>2 DEF ClStage, set_left_offset, set_right_offset, set_top_offset,
                   set_bottom_offset
  <2>6. CASE ~clRectangle /\ clTodo = <<set_right_offset(a), set_top_offset(a), set_bottom_offset(a)>>
             /\ clRegister = Mixed(a.x.from, b.x.other, b.y.from, b.y.other)
    <3>1. s = [axis |-> "x", part |-> "other", to |-> a.x.other]
          /\ clTodo' = <<set_top_offset(a), set_bottom_offset(a)>>
      BY <1>3, <2>6, Lists DEF set_right_offset
    <3>2. clRegister' = Mixed(a.x.from, a.x.other, b.y.from, b.y.other)
      <4>1. s.axis = "x" /\ s.part = "other" /\ s.to = a.x.other BY <3>1
      <4>2. clRegister' = [clRegister EXCEPT !["x"]["other"] = a.x.other] BY <1>3, <4>1
      <4>3. QED BY ONLY <2>6, <4>2, WriteOnePart
    <3>3. QED BY <1>3, <2>6, <3>1, <3>2 DEF ClStage, set_top_offset, set_bottom_offset
  <2>7. CASE ~clRectangle /\ clTodo = <<set_top_offset(a), set_bottom_offset(a)>>
             /\ clRegister = Mixed(a.x.from, a.x.other, b.y.from, b.y.other)
    <3>1. s = [axis |-> "y", part |-> "from", to |-> a.y.from] /\ clTodo' = <<set_bottom_offset(a)>>
      BY <1>3, <2>7, Lists DEF set_top_offset
    <3>2. clRegister' = Mixed(a.x.from, a.x.other, a.y.from, b.y.other)
      <4>1. s.axis = "y" /\ s.part = "from" /\ s.to = a.y.from BY <3>1
      <4>2. clRegister' = [clRegister EXCEPT !["y"]["from"] = a.y.from] BY <1>3, <4>1
      <4>3. QED BY ONLY <2>7, <4>2, WriteOnePart
    <3>3. QED BY <1>3, <3>1, <3>2 DEF ClStage, set_bottom_offset
  <2>8. \/ clTodo = <<set_bottom_offset(a)>> /\ clRegister = Mixed(a.x.from, a.x.other, a.y.from, b.y.other)
        \/ clRectangle /\ clRegister = b
             /\ clTodo = <<set_left_offset(a), set_top_offset(a), set_width(a), set_height(a)>>
        \/ clRectangle /\ clTodo = <<set_top_offset(a), set_width(a), set_height(a)>>
             /\ clRegister = Mixed(a.x.from, b.x.other, b.y.from, b.y.other)
        \/ clRectangle /\ clTodo = <<set_width(a), set_height(a)>>
             /\ clRegister = Mixed(a.x.from, b.x.other, a.y.from, b.y.other)
        \/ ~clRectangle /\ clRegister = b
             /\ clTodo = <<set_left_offset(a), set_right_offset(a), set_top_offset(a), set_bottom_offset(a)>>
        \/ ~clRectangle /\ clTodo = <<set_right_offset(a), set_top_offset(a), set_bottom_offset(a)>>
             /\ clRegister = Mixed(a.x.from, b.x.other, b.y.from, b.y.other)
        \/ ~clRectangle /\ clTodo = <<set_top_offset(a), set_bottom_offset(a)>>
             /\ clRegister = Mixed(a.x.from, a.x.other, b.y.from, b.y.other)
    BY <1>1, <1>3, Zenon DEF ClStage
  <2>9. QED BY <2>1, <2>2, <2>3, <2>4, <2>5, <2>6, <2>7, <2>8
<1>5. Windows' = Windows
  BY <1>3 DEF Windows, Inside
<1>6. QED BY <1>1, <1>3, <1>4, <1>5 DEF ClInv

\* What the clipper cuts is what was asked for, or between it and what was
\* asked for before (Clipper.cpp, Clipper.hpp).
THEOREM CutAsAsked == ClSpec => []ClSafe
<1>1. ClInit => ClInv
  BY DEF ClInit, ClInv, ClStage
<1>2. ClInv /\ [ClNext]_clVars => ClInv'
  <2> SUFFICES ASSUME ClInv, [ClNext]_clVars PROVE ClInv'
    OBVIOUS
  <2>1. clBefore \in Windows /\ clAfter \in Windows /\ clRectangle \in BOOLEAN /\ ClStage
    BY DEF ClInv
  <2>2. CASE Method
    <3>1. clTodo = <<>> /\ UNCHANGED <<clRectangle, clRegister>> /\ clBefore' = clRegister
      BY <2>2 DEF Method
    <3>2. PICK w \in Windows : /\ clTodo' = IF clRectangle THEN set_rectangle(w) ELSE set_offsets(w)
                               /\ clAfter' = w
      BY <2>2 DEF Method
    <3>3. clRegister = clAfter
      BY <2>1, <3>1, Lists DEF ClStage
    <3>4. ClStage'
      BY <3>1, <3>2 DEF ClStage, set_rectangle, set_offsets
    <3>5. Windows' = Windows
      BY <3>1 DEF Windows, Inside
    <3>6. QED BY <2>1, <3>1, <3>2, <3>3, <3>4, <3>5 DEF ClInv
  <2>3. CASE Write
    BY <2>3, WriteClInv
  <2>4. CASE StartStop \/ UNCHANGED clVars
    BY <2>1, <2>4 DEF StartStop, clVars, ClInv, ClStage, Windows, Inside
  <2>5. QED BY <2>2, <2>3, <2>4 DEF ClNext
<1>3. QED BY <1>1, <1>2, StageIsSafe, PTL DEF ClSpec

(***************************************************************************)
(* The scaler's coefficients.  A job is what one call of apply programs;   *)
(* what is left to do is a chain of its writes, and the write that comes   *)
(* next says what is staged and what is stored.                            *)
(***************************************************************************)
Select(f, b) == [do |-> "bank", of |-> f, bank |-> b]
Use(f, b) == [do |-> "read", of |-> f, bank |-> b]
Jobs == [set : [Filters -> VsSets], bank : [Filters -> CoeffBanks], edge : BOOLEAN]
TapOf(J, f, i, j) == WriteTap(f, J.set[f], i, j)
CommitOf(J, f, i) == Commit(f, i, J.edge)
AnyWrite == {WriteTap(f, s, i, j) : f \in Filters, s \in VsSets, i \in Nat, j \in Nat}
              \cup {Commit(f, i, e) : f \in Filters, i \in Nat, e \in BOOLEAN}
              \cup {Select(f, b) : f \in Filters, b \in CoeffBanks}
              \cup {Use(f, b) : f \in Filters, b \in CoeffBanks}

\* What a write is followed by.
BankChosen(J, s, t) ==
  \/ s = Select("h", J.bank["h"]) /\ t = Select("v", J.bank["v"])
  \/ s = Select("v", J.bank["v"]) /\ t = TapOf(J, "h", 0, 1)
Tapped(J, s, t) ==
  \E f \in Filters : \E i \in Phases(f), j \in Taps(f) :
    /\ s = TapOf(J, f, i, j)
    /\ t = IF j < VsTaps[f] THEN TapOf(J, f, i, j + 1) ELSE CommitOf(J, f, i)
Committed(J, s, t) ==
  \E f \in Filters : \E i \in Phases(f) :
    /\ s = CommitOf(J, f, i)
    /\ t = IF i + 1 < VsPhases[f] THEN TapOf(J, f, i + 1, 1)
           ELSE IF f = "h" THEN TapOf(J, "v", 0, 1) ELSE Use("h", J.bank["h"])
Then(J, s, t) ==
  \/ BankChosen(J, s, t) \/ Tapped(J, s, t) \/ Committed(J, s, t)
  \/ (s = Use("h", J.bank["h"]) /\ t = Use("v", J.bank["v"]))
Linked(J, a, first, last) ==
  /\ a \in Seq(AnyWrite) /\ a # <<>> /\ a[1] = first /\ a[Len(a)] = last
  /\ \A k \in 1 .. Len(a) - 1 : Then(J, a[k], a[k + 1])

\* A set or nothing is in a bank.
WholeSet(f, row) == \/ \E s \in VsSets : row = [i \in Phases(f) |-> Meant(f, s, i)]
                    \/ row = [i \in Phases(f) |-> Never(f)]
Settled == \A f \in Filters, b \in CoeffBanks, e \in BOOLEAN : WholeSet(f, vsMemory[f][b][e])
Writing(J, f, i) ==
  /\ \A g \in Filters, b \in CoeffBanks, e \in BOOLEAN :
       ~(g = f /\ b = J.bank[f] /\ e = J.edge) => WholeSet(g, vsMemory[g][b][e])
  /\ \A k \in Phases(f) : k < i => vsMemory[f][J.bank[f]][J.edge][k] = Meant(f, J.set[f], k)
Staged(J, f, i, j) == \A k \in Taps(f) : k < j => vsStaged[k] = Coefficient(f, J.set[f], i, k)
Spared(J, f) == vsRead[f] = 1 - J.bank[f]
Aimed(J) == \A f \in Filters : Spared(J, f) /\ vsWrite[f] = J.bank[f]
AtTap(J, s) ==
  \E f \in Filters : \E i \in Phases(f), j \in Taps(f) :
    s = TapOf(J, f, i, j) /\ Writing(J, f, i) /\ Staged(J, f, i, j)
AtCommit(J, s) ==
  \E f \in Filters : \E i \in Phases(f) :
    s = CommitOf(J, f, i) /\ Writing(J, f, i) /\ Staged(J, f, i, VsTaps[f] + 1)
Before(J, s) ==
  \/ /\ Settled /\ Spared(J, "h") /\ Spared(J, "v")
     /\ \/ s = Select("h", J.bank["h"])
        \/ s = Select("v", J.bank["v"]) /\ vsWrite["h"] = J.bank["h"]
  \/ Aimed(J) /\ (AtTap(J, s) \/ AtCommit(J, s))
  \/ Settled /\ (s = Use("h", J.bank["h"]) \/ s = Use("v", J.bank["v"]))

Values(f) == {Meant(f, s, i) : s \in VsSets, i \in Phases(f)} \cup {Never(f)}
Rows == UNION {[Phases(f) -> Values(f)] : f \in Filters}
VsTypes ==
  /\ vsWrite \in [Filters -> CoeffBanks] /\ vsRead \in [Filters -> CoeffBanks]
  /\ vsStaged = [j \in Stages |-> vsStaged[j]]
  /\ vsMemory \in [Filters -> [CoeffBanks -> [BOOLEAN -> Rows]]]
  /\ \A f \in Filters, b \in CoeffBanks, e \in BOOLEAN : vsMemory[f][b][e] \in [Phases(f) -> Values(f)]
VsRuns == \/ vsTodo = <<>> /\ Settled
          \/ \E J \in Jobs : Linked(J, vsTodo, vsTodo[1], Use("v", J.bank["v"])) /\ Before(J, vsTodo[1])
VsInv == VsTypes /\ VsPhaseWhole /\ VsRuns

\* Quotients and remainders.
LEMMA Parted ==
  ASSUME NEW a \in Int, NEW b \in Nat \ {0}
  PROVE  \E q \in Int, r \in 0 .. b - 1 : q = a \div b /\ r = a % b /\ a = b * q + r
<1>1. a \div b \in Int /\ a % b \in 0 .. b - 1 /\ a = b * (a \div b) + (a % b)
  OBVIOUS
<1>2. QED BY <1>1, Zenon

LEMMA Times ==
  ASSUME NEW a \in Nat, NEW b \in Int, NEW c \in Int, b <= c
  PROVE  a * b <= a * c
OBVIOUS

LEMMA PartedOnce ==
  ASSUME NEW b \in Nat \ {0}, NEW q \in Int, NEW r \in 0 .. b - 1, NEW p \in Int, NEW s \in 0 .. b - 1,
         b * q + r = b * p + s
  PROVE  q = p /\ r = s
<1>1. CASE q < p
  <2>1. b * (q + 1) <= b * p
    BY <1>1, Times
  <2>2. b * (q + 1) = b * q + b
    OBVIOUS
  <2>3. QED BY <2>1, <2>2
<1>2. CASE p < q
  <2>1. b * (p + 1) <= b * q
    BY <1>2, Times
  <2>2. b * (p + 1) = b * p + b
    OBVIOUS
  <2>3. QED BY <2>1, <2>2
<1>3. QED BY <1>1, <1>2

\* The next number has the next remainder, or the next quotient and none.
LEMMA NextParted ==
  ASSUME NEW a \in Nat, NEW b \in Nat \ {0}, NEW p \in Nat, a < p * b
  PROVE  /\ a \div b \in 0 .. p - 1 /\ a % b \in 0 .. b - 1
         /\ (a % b) + 1 < b => (a + 1) \div b = a \div b /\ (a + 1) % b = (a % b) + 1
         /\ ~((a % b) + 1 < b) => (a + 1) \div b = (a \div b) + 1 /\ (a + 1) % b = 0
         /\ a + 1 = p * b => a \div b = p - 1 /\ a % b = b - 1
<1>1. PICK q \in Int, r \in 0 .. b - 1 : q = a \div b /\ r = a % b /\ a = b * q + r
  BY Parted
<1>2. PICK u \in Int, t \in 0 .. b - 1 : u = (a + 1) \div b /\ t = (a + 1) % b /\ a + 1 = b * u + t
  BY Parted
<1>3. q \in 0 .. p - 1
  <2>1. q >= 0
    <3>1. SUFFICES ASSUME q <= -1 PROVE FALSE
      BY <1>1
    <3>2. b * q <= b * (-1)
      BY <3>1, Times
    <3>3. b * (-1) = -b
      OBVIOUS
    <3>4. QED BY <1>1, <3>2, <3>3
  <2>2. q < p
    <3>1. SUFFICES ASSUME p <= q PROVE FALSE
      BY <1>1
    <3>2. b * p <= b * q
      BY <3>1, Times
    <3>3. b * p = p * b
      OBVIOUS
    <3>4. QED BY <1>1, <3>2, <3>3
  <2>3. QED BY <2>1, <2>2
<1>4. CASE r + 1 < b
  <2>1. a + 1 = b * q + (r + 1) /\ r + 1 \in 0 .. b - 1
    BY <1>1, <1>4
  <2>2. u = q /\ t = r + 1
    <3>1. PICK x \in 0 .. b - 1 : x = r + 1
      BY <2>1
    <3>2. b * q + x = b * u + t
      BY <1>2, <2>1, <3>1
    <3>3. q \in Int /\ u \in Int /\ t \in 0 .. b - 1
      BY <1>1, <1>2
    <3>4. q = u /\ x = t
      BY <3>2, <3>3, PartedOnce, ZenonT(40)
    <3>5. QED BY <3>1, <3>4
  <2>3. a + 1 # p * b
    <3>1. SUFFICES ASSUME a + 1 = p * b PROVE FALSE
      OBVIOUS
    <3>2. PICK x \in 0 .. b - 1, z \in 0 .. b - 1 : x = r + 1 /\ z = 0
      BY <2>1
    <3>3. PICK y \in Int : y = p
      OBVIOUS
    <3>4. b * q + x = b * y + z /\ q \in Int
      BY <1>1, <2>1, <3>1, <3>2, <3>3
    <3>5. q = y /\ x = z
      BY <3>4, PartedOnce, ZenonT(40)
    <3>6. QED BY <1>1, <3>2, <3>5
  <2>4. QED BY <1>1, <1>2, <1>3, <1>4, <2>2, <2>3
<1>5. CASE ~(r + 1 < b)
  <2>1. b * (q + 1) = b * q + b
    OBVIOUS
  <2>2. r + 1 = b
    BY <1>1, <1>5
  <2>3. a + 1 = b * (q + 1) + 0 /\ 0 \in 0 .. b - 1 /\ q + 1 \in Int
    BY <1>1, <2>1, <2>2
  <2>4. u = q + 1 /\ t = 0
    BY <1>2, <2>3, PartedOnce
  <2>5. a + 1 = p * b => q = p - 1
    <3>1. SUFFICES ASSUME a + 1 = p * b PROVE q = p - 1
      OBVIOUS
    <3>2. a + 1 = b * p + 0
      BY <3>1
    <3>3. q + 1 = p
      BY <2>3, <3>2, PartedOnce
    <3>4. QED BY <1>1, <3>3
  <2>6. QED BY <1>1, <1>2, <1>3, <1>5, <2>2, <2>4, <2>5
<1>6. QED BY <1>1, <1>4, <1>5

\* A filter has a tap and a phase, and they are numbered.
LEMMA ScalerSize ==
  /\ Filters = {"h", "v"} /\ \A f \in Filters : VsTaps[f] \in Nat \ {0} /\ VsPhases[f] \in Nat \ {0}
  /\ \A f \in Filters : /\ Taps(f) = 1 .. VsTaps[f] /\ Phases(f) = 0 .. VsPhases[f] - 1
                          /\ 1 \in Taps(f) /\ 0 \in Phases(f) /\ VsPhases[f] - 1 \in Phases(f)
                          /\ Phases(f) \subseteq Nat /\ Taps(f) \subseteq Nat
BY VsAssumption DEF Filters, Taps, Phases

\* What a job is made of.
LEMMA WritesAre ==
  ASSUME NEW J \in Jobs, NEW f \in Filters
  PROVE  /\ \A i \in Phases(f), j \in Taps(f) : TapOf(J, f, i, j) \in AnyWrite
         /\ \A i \in Phases(f) : CommitOf(J, f, i) \in AnyWrite
         /\ Select(f, J.bank[f]) \in AnyWrite /\ Use(f, J.bank[f]) \in AnyWrite
         /\ J.set[f] \in VsSets /\ J.bank[f] \in CoeffBanks /\ J.edge \in BOOLEAN
<1>1. J.set[f] \in VsSets /\ J.bank[f] \in CoeffBanks /\ J.edge \in BOOLEAN
  BY DEF Jobs
<1>2. Phases(f) \subseteq Nat /\ Taps(f) \subseteq Nat
  BY ScalerSize
<1>3. \A i \in Phases(f), j \in Taps(f) : TapOf(J, f, i, j) \in AnyWrite
  BY <1>1, <1>2 DEF TapOf, AnyWrite
<1>4. \A i \in Phases(f) : CommitOf(J, f, i) \in AnyWrite
  BY <1>1, <1>2 DEF CommitOf, AnyWrite
<1>5. Select(f, J.bank[f]) \in AnyWrite /\ Use(f, J.bank[f]) \in AnyWrite
  BY <1>1 DEF AnyWrite
<1>6. QED BY <1>1, <1>3, <1>4, <1>5

\* Chains are put together where one follows the other.
LEMMA LinkConcat ==
  ASSUME NEW J, NEW a, NEW b, NEW p, NEW q, NEW s, NEW t, Linked(J, a, p, q), Linked(J, b, s, t),
         Then(J, q, s), NEW c, c = a \o b
  PROVE  Linked(J, c, p, t)
<1>1. /\ a \in Seq(AnyWrite) /\ b \in Seq(AnyWrite) /\ a # <<>> /\ b # <<>>
      /\ a[1] = p /\ a[Len(a)] = q /\ b[1] = s /\ b[Len(b)] = t
      /\ \A k \in 1 .. Len(a) - 1 : Then(J, a[k], a[k + 1])
      /\ \A k \in 1 .. Len(b) - 1 : Then(J, b[k], b[k + 1])
  BY Zenon DEF Linked
<1>2. Len(a) \in Nat \ {0} /\ Len(b) \in Nat \ {0}
  BY <1>1, EmptySeq
<1>3. /\ c \in Seq(AnyWrite) /\ Len(c) = Len(a) + Len(b)
      /\ \A i \in 1 .. Len(a) + Len(b) : c[i] = IF i <= Len(a) THEN a[i] ELSE b[i - Len(a)]
  BY ONLY <1>1, c = a \o b, ConcatProperties
<1>4. ASSUME NEW i \in 1 .. Len(c) - 1
      PROVE  Then(J, c[i], c[i + 1])
  <2>1. CASE i < Len(a)
    <3>1. i \in 1 .. Len(a) - 1 /\ c[i] = a[i] /\ c[i + 1] = a[i + 1]
      BY <1>2, <1>3, <2>1
    <3>2. QED BY <1>1, <3>1, Zenon
  <2>2. CASE i = Len(a)
    <3>1. c[i] = q /\ c[i + 1] = s
      BY <1>1, <1>2, <1>3, <2>2
    <3>2. QED BY <3>1
  <2>3. CASE i > Len(a)
    <3>1. i - Len(a) \in 1 .. Len(b) - 1 /\ c[i] = b[i - Len(a)] /\ c[i + 1] = b[(i - Len(a)) + 1]
      BY <1>2, <1>3, <2>3
    <3>2. QED BY <1>1, <3>1, Zenon
  <2>4. QED BY <1>2, <2>1, <2>2, <2>3
<1>5. c # <<>> /\ c[1] = p /\ c[Len(c)] = t
  BY <1>1, <1>2, <1>3
<1>6. QED BY <1>3, <1>4, <1>5, Zenon DEF Linked

LEMMA LinkOne ==
  ASSUME NEW J, NEW s \in AnyWrite, NEW a, a = <<s>>
  PROVE  Linked(J, a, s, s)
<1>1. a \in Seq(AnyWrite) /\ a # <<>> /\ a[1] = s /\ Len(a) = 1
  OBVIOUS
<1>2. 1 .. Len(a) - 1 = {}
  BY <1>1
<1>3. QED BY <1>1, <1>2, Zenon DEF Linked

\* One phase: its taps, then its number.
LEMMA PhaseIs ==
  ASSUME NEW J \in Jobs, NEW f \in Filters, NEW i \in Phases(f), NEW w,
         w = WritePhase(f, J.set[f], J.edge, i)
  PROVE  \A j \in 1 .. VsTaps[f] + 1 :
           w[j] = IF j <= VsTaps[f] THEN TapOf(J, f, i, j) ELSE CommitOf(J, f, i)
<1>1. VsTaps[f] \in Nat \ {0} /\ Taps(f) = 1 .. VsTaps[f]
  BY ScalerSize
<1>2. PICK a : a = [j \in Taps(f) |-> TapOf(J, f, i, j)]
  OBVIOUS
<1>3. a = WriteTaps(f, J.set[f], i)
  BY <1>2 DEF WriteTaps, TapOf
<1>4. a \in Seq(AnyWrite) /\ Len(a) = VsTaps[f]
  <2>1. \A j \in 1 .. VsTaps[f] : TapOf(J, f, i, j) \in AnyWrite
    BY <1>1, WritesAre
  <2>2. QED BY <1>1, <1>2, <2>1
<1>5. PICK b : b = <<CommitOf(J, f, i)>>
  OBVIOUS
<1>6. b \in Seq(AnyWrite) /\ Len(b) = 1 /\ b[1] = CommitOf(J, f, i)
  BY <1>5, WritesAre
<1>7. w = a \o b
  BY <1>3, <1>5 DEF WritePhase, CommitOf
<1>8. \A j \in 1 .. Len(a) + Len(b) : w[j] = IF j <= Len(a) THEN a[j] ELSE b[j - Len(a)]
  BY ONLY <1>4, <1>6, <1>7, ConcatProperties
<1>9. \A j \in 1 .. VsTaps[f] : a[j] = TapOf(J, f, i, j)
  BY <1>1, <1>2
<1>10. QED BY <1>1, <1>4, <1>6, <1>8, <1>9

\* What write_coeffs writes is a chain.
LEMMA BlockIs ==
  ASSUME NEW J \in Jobs, NEW f \in Filters, NEW w, w = write_coeffs(f, J.set[f], J.edge)
  PROVE  Linked(J, w, TapOf(J, f, 0, 1), CommitOf(J, f, VsPhases[f] - 1))
<1>1. PICK n, p : n = VsTaps[f] + 1 /\ p = VsPhases[f]
  OBVIOUS
<1>2. /\ n \in Nat \ {0} /\ p \in Nat \ {0} /\ n > 1 /\ VsTaps[f] = n - 1
      /\ Taps(f) = 1 .. n - 1 /\ Phases(f) = 0 .. p - 1
  <2>1. VsTaps[f] \in Nat \ {0} /\ VsPhases[f] \in Nat \ {0}
    BY ScalerSize
  <2>2. n \in Nat \ {0} /\ p \in Nat \ {0} /\ n > 1 /\ VsTaps[f] = n - 1
    BY <1>1, <2>1
  <2>3. Taps(f) = 1 .. VsTaps[f] /\ Phases(f) = 0 .. VsPhases[f] - 1
    BY Zenon DEF Taps, Phases
  <2>4. QED BY <1>1, <2>2, <2>3
<1>3. p * n \in Nat /\ p * n >= n
  <2>1. n * 1 <= n * p
    BY <1>2, Times
  <2>2. n * p = p * n /\ n * p \in Int
    BY <1>2
  <2>3. QED BY <1>2, <2>1, <2>2
<1>4. PICK m : m = p * n
  OBVIOUS
<1>5. w = [k \in 1 .. m |-> WritePhase(f, J.set[f], J.edge, (k - 1) \div n)[((k - 1) % n) + 1]]
  BY <1>1, <1>4 DEF write_coeffs
<1>6. m \in Nat /\ m >= n
  BY <1>3, <1>4
<1>7. ASSUME NEW k \in 1 .. m
      PROVE  /\ (k - 1) \div n \in 0 .. p - 1 /\ (k - 1) % n \in 0 .. n - 1
             /\ ((k - 1) % n) + 1 < n => k \div n = (k - 1) \div n /\ k % n = ((k - 1) % n) + 1
             /\ ~(((k - 1) % n) + 1 < n) => k \div n = ((k - 1) \div n) + 1 /\ k % n = 0
             /\ k = m => (k - 1) \div n = p - 1 /\ (k - 1) % n = n - 1
  <2>1. PICK a \in Nat : a = k - 1
    BY <1>6
  <2>2. a < p * n /\ a + 1 = k
    BY <1>4, <1>6, <2>1
  <2>3. /\ a \div n \in 0 .. p - 1 /\ a % n \in 0 .. n - 1
        /\ (a % n) + 1 < n => (a + 1) \div n = a \div n /\ (a + 1) % n = (a % n) + 1
        /\ ~((a % n) + 1 < n) => (a + 1) \div n = (a \div n) + 1 /\ (a + 1) % n = 0
        /\ a + 1 = p * n => a \div n = p - 1 /\ a % n = n - 1
    BY <1>2, <2>2, NextParted, Zenon
  <2>4. QED BY <1>4, <2>1, <2>2, <2>3, Zenon
<1>8. ASSUME NEW k \in 1 .. m
      PROVE  /\ ((k - 1) % n) + 1 < n => w[k] = TapOf(J, f, (k - 1) \div n, ((k - 1) % n) + 1)
             /\ ~(((k - 1) % n) + 1 < n) => w[k] = CommitOf(J, f, (k - 1) \div n)
             /\ w[k] \in AnyWrite
  <2>1. PICK i, r : i = (k - 1) \div n /\ r = (k - 1) % n
    OBVIOUS
  <2>2. i \in Phases(f) /\ r \in 0 .. n - 1 /\ r + 1 \in 1 .. VsTaps[f] + 1
    <3>1. i \in 0 .. p - 1 /\ r \in 0 .. n - 1
      BY <1>7, <2>1, Zenon
    <3>2. QED BY <1>2, <3>1
  <2>3. PICK x : x = WritePhase(f, J.set[f], J.edge, i)
    OBVIOUS
  <2>4. \A j \in 1 .. VsTaps[f] + 1 : x[j] = IF j <= VsTaps[f] THEN TapOf(J, f, i, j) ELSE CommitOf(J, f, i)
    BY <2>2, <2>3, PhaseIs
  <2>5. w[k] = x[r + 1]
    BY <1>5, <2>1, <2>3
  <2>6. w[k] = IF r + 1 <= VsTaps[f] THEN TapOf(J, f, i, r + 1) ELSE CommitOf(J, f, i)
    BY <2>2, <2>4, <2>5, Zenon
  <2>7. r + 1 < n => w[k] = TapOf(J, f, i, r + 1) /\ r + 1 \in Taps(f)
    BY <1>2, <2>2, <2>6
  <2>8. ~(r + 1 < n) => w[k] = CommitOf(J, f, i)
    BY <1>2, <2>2, <2>6
  <2>9. w[k] \in AnyWrite
    BY <2>2, <2>7, <2>8, WritesAre
  <2>10. QED BY <2>1, <2>7, <2>8, <2>9
<1>9. w \in Seq(AnyWrite) /\ Len(w) = m /\ w # <<>>
  BY <1>2, <1>5, <1>6, <1>8
<1>10. w[1] = TapOf(J, f, 0, 1)
  <2>1. 1 \in 1 .. m
    BY <1>2, <1>6
  <2>2. 0 = n * 0 + 0 /\ 0 \in 0 .. n - 1
    BY <1>2
  <2>3. PICK q \in Int, r \in 0 .. n - 1 : q = 0 \div n /\ r = 0 % n /\ 0 = n * q + r
    BY <1>2, Parted
  <2>4. q = 0 /\ r = 0
    BY <1>2, <2>2, <2>3, PartedOnce
  <2>5. (1 - 1) \div n = 0 /\ (1 - 1) % n = 0
    BY <2>3, <2>4
  <2>6. QED BY <1>2, <1>8, <2>1, <2>5
<1>11. w[m] = CommitOf(J, f, p - 1)
  <2>1. m \in 1 .. m
    BY <1>2, <1>6
  <2>2. (m - 1) \div n = p - 1 /\ (m - 1) % n = n - 1
    BY <1>7, <2>1
  <2>3. ~((n - 1) + 1 < n)
    BY <1>2
  <2>4. QED BY <1>8, <2>1, <2>2, <2>3
<1>12. ASSUME NEW k \in 1 .. m - 1
       PROVE  Then(J, w[k], w[k + 1])
  <2>1. k \in 1 .. m /\ k + 1 \in 1 .. m /\ (k + 1) - 1 = k
    BY <1>6
  <2>2. PICK i, r : i = (k - 1) \div n /\ r = (k - 1) % n
    OBVIOUS
  <2>3. /\ i \in 0 .. p - 1 /\ r \in 0 .. n - 1
        /\ r + 1 < n => k \div n = i /\ k % n = r + 1
        /\ ~(r + 1 < n) => k \div n = i + 1 /\ k % n = 0
    BY <1>7, <2>1, <2>2
  <2>4. /\ k \div n \in 0 .. p - 1
        /\ (k % n) + 1 < n => w[k + 1] = TapOf(J, f, k \div n, (k % n) + 1)
        /\ ~((k % n) + 1 < n) => w[k + 1] = CommitOf(J, f, k \div n)
    BY <1>7, <1>8, <2>1
  <2>5. i \in Phases(f)
    BY <1>2, <2>3
  <2>6. CASE r + 1 < n
    <3>1. w[k] = TapOf(J, f, i, r + 1) /\ r + 1 \in Taps(f)
      BY <1>2, <1>8, <2>1, <2>2, <2>3, <2>6
    <3>2. w[k + 1] = IF r + 1 < VsTaps[f] THEN TapOf(J, f, i, (r + 1) + 1) ELSE CommitOf(J, f, i)
      BY <1>2, <2>3, <2>4, <2>6
    <3>3. Tapped(J, w[k], w[k + 1])
      BY <2>5, <3>1, <3>2, Zenon DEF Tapped
    <3>4. QED BY <3>3, Zenon DEF Then
  <2>7. CASE ~(r + 1 < n)
    <3>1. w[k] = CommitOf(J, f, i)
      BY <1>8, <2>1, <2>2, <2>7
    <3>2. i + 1 < VsPhases[f] /\ w[k + 1] = TapOf(J, f, i + 1, 1)
      BY <1>1, <1>2, <2>3, <2>4, <2>7, SMTT(30), ZenonT(40)
    <3>3. Committed(J, w[k], w[k + 1])
      BY <2>5, <3>1, <3>2, Zenon DEF Committed
    <3>4. QED BY <3>3, Zenon DEF Then
  <2>8. QED BY <2>6, <2>7
<1>13. QED BY <1>1, <1>9, <1>10, <1>11, <1>12, Zenon DEF Linked

\* The whole of a job.
LEMMA JobIs ==
  ASSUME NEW J \in Jobs, NEW w,
         w = apply(J.set["h"], J.set["v"], J.bank["h"], J.bank["v"], J.edge)
               \o set_read_bank("h", J.bank["h"]) \o set_read_bank("v", J.bank["v"])
  PROVE  Linked(J, w, Select("h", J.bank["h"]), Use("v", J.bank["v"]))
<1>1. "h" \in Filters /\ "v" \in Filters /\ VsPhases["h"] \in Nat \ {0} /\ VsPhases["v"] \in Nat \ {0}
  BY ScalerSize
<1>2. PICK a : a = set_write_bank("h", J.bank["h"]) \o set_write_bank("v", J.bank["v"])
  OBVIOUS
<1>3. PICK b : b = a \o write_coeffs("h", J.set["h"], J.edge)
  OBVIOUS
<1>4. PICK c : c = b \o write_coeffs("v", J.set["v"], J.edge)
  OBVIOUS
<1>5. PICK d : d = c \o set_read_bank("h", J.bank["h"])
  OBVIOUS
<1>6. w = d \o set_read_bank("v", J.bank["v"])
  BY <1>2, <1>3, <1>4, <1>5, Zenon DEF apply
<1>7. /\ Linked(J, set_write_bank("h", J.bank["h"]), Select("h", J.bank["h"]), Select("h", J.bank["h"]))
      /\ Linked(J, set_write_bank("v", J.bank["v"]), Select("v", J.bank["v"]), Select("v", J.bank["v"]))
      /\ Linked(J, set_read_bank("h", J.bank["h"]), Use("h", J.bank["h"]), Use("h", J.bank["h"]))
      /\ Linked(J, set_read_bank("v", J.bank["v"]), Use("v", J.bank["v"]), Use("v", J.bank["v"]))
  <2>1. \A f \in Filters : Select(f, J.bank[f]) \in AnyWrite /\ Use(f, J.bank[f]) \in AnyWrite
    BY WritesAre
  <2>2. \A f \in Filters : /\ set_write_bank(f, J.bank[f]) = <<Select(f, J.bank[f])>>
                           /\ set_read_bank(f, J.bank[f]) = <<Use(f, J.bank[f])>>
    BY Zenon DEF set_write_bank, set_read_bank, Select, Use
  <2>3. QED BY <1>1, <2>1, <2>2, LinkOne
<1>8. /\ Linked(J, write_coeffs("h", J.set["h"], J.edge), TapOf(J, "h", 0, 1), CommitOf(J, "h", VsPhases["h"] - 1))
      /\ Linked(J, write_coeffs("v", J.set["v"], J.edge), TapOf(J, "v", 0, 1), CommitOf(J, "v", VsPhases["v"] - 1))
  BY <1>1, BlockIs
<1>9. Linked(J, a, Select("h", J.bank["h"]), Select("v", J.bank["v"]))
  <2>1. Then(J, Select("h", J.bank["h"]), Select("v", J.bank["v"]))
    BY Zenon DEF Then, BankChosen
  <2>2. QED BY <1>2, <1>7, <2>1, LinkConcat, Zenon
<1>10. Linked(J, b, Select("h", J.bank["h"]), CommitOf(J, "h", VsPhases["h"] - 1))
  <2>1. Then(J, Select("v", J.bank["v"]), TapOf(J, "h", 0, 1))
    BY Zenon DEF Then, BankChosen
  <2>2. QED BY <1>3, <1>8, <1>9, <2>1, LinkConcat, Zenon
<1>11. ASSUME NEW f \in Filters
       PROVE  Then(J, CommitOf(J, f, VsPhases[f] - 1),
                   IF f = "h" THEN TapOf(J, "v", 0, 1) ELSE Use("h", J.bank["h"]))
  <2>1. PICK i : i = VsPhases[f] - 1
    OBVIOUS
  <2>2. i \in Phases(f) /\ ~(i + 1 < VsPhases[f])
    BY <2>1, ScalerSize
  <2>3. PICK t : t = IF f = "h" THEN TapOf(J, "v", 0, 1) ELSE Use("h", J.bank["h"])
    OBVIOUS
  <2>4. Committed(J, CommitOf(J, f, i), t)
    BY <2>2, <2>3, Zenon DEF Committed
  <2>5. QED BY <2>1, <2>3, <2>4, Zenon DEF Then
<1>12. Linked(J, c, Select("h", J.bank["h"]), CommitOf(J, "v", VsPhases["v"] - 1))
  <2>1. Then(J, CommitOf(J, "h", VsPhases["h"] - 1), TapOf(J, "v", 0, 1))
    BY <1>1, <1>11
  <2>2. QED BY <1>4, <1>8, <1>10, <2>1, LinkConcat, Zenon
<1>13. Linked(J, d, Select("h", J.bank["h"]), Use("h", J.bank["h"]))
  <2>1. Then(J, CommitOf(J, "v", VsPhases["v"] - 1), Use("h", J.bank["h"]))
    BY <1>1, <1>11
  <2>2. QED BY <1>5, <1>7, <1>12, <2>1, LinkConcat, Zenon
<1>14. Then(J, Use("h", J.bank["h"]), Use("v", J.bank["v"]))
  BY Zenon DEF Then
<1>15. QED BY <1>6, <1>7, <1>13, <1>14, LinkConcat, Zenon

LEMMA InitVsInv == VsInit => VsInv
<1> SUFFICES ASSUME VsInit PROVE VsInv
  OBVIOUS
<1>1. /\ vsStaged = [j \in Stages |-> VsNone]
      /\ vsMemory = [f \in Filters |-> [b \in CoeffBanks |-> [e \in BOOLEAN |->
                       [i \in Phases(f) |-> Never(f)]]]]
      /\ vsWrite = [f \in Filters |-> 0] /\ vsRead = [f \in Filters |-> 0] /\ vsTodo = <<>>
  BY DEF VsInit, Never
<1>2. \A f \in Filters, b \in CoeffBanks, e \in BOOLEAN : vsMemory[f][b][e] = [i \in Phases(f) |-> Never(f)]
  BY <1>1
<1>3. \A f \in Filters : [i \in Phases(f) |-> Never(f)] \in [Phases(f) -> Values(f)] /\ Never(f) \in Values(f)
  BY DEF Values
<1>4. vsMemory \in [Filters -> [CoeffBanks -> [BOOLEAN -> Rows]]]
  <2>1. \A f \in Filters : [i \in Phases(f) |-> Never(f)] \in Rows
    BY <1>3, Zenon DEF Rows
  <2>2. \A f \in Filters : [b \in CoeffBanks |-> [e \in BOOLEAN |-> [i \in Phases(f) |-> Never(f)]]]
                             \in [CoeffBanks -> [BOOLEAN -> Rows]]
    BY <2>1
  <2>3. QED BY <1>1, <2>2, Zenon
<1>5. VsTypes
  <2>1. vsWrite \in [Filters -> CoeffBanks] /\ vsRead \in [Filters -> CoeffBanks]
    BY <1>1 DEF CoeffBanks
  <2>2. vsStaged = [j \in Stages |-> vsStaged[j]]
    BY <1>1
  <2>3. \A f \in Filters, b \in CoeffBanks, e \in BOOLEAN : vsMemory[f][b][e] \in [Phases(f) -> Values(f)]
    BY <1>2, <1>3
  <2>4. QED BY <1>4, <2>1, <2>2, <2>3, Zenon DEF VsTypes
<1>6. Settled
  BY <1>2, Zenon DEF Settled, WholeSet
<1>7. VsPhaseWhole
  <2>1. ASSUME NEW f \in Filters, NEW b \in CoeffBanks, NEW e \in BOOLEAN, NEW i \in Phases(f)
        PROVE  vsMemory[f][b][e][i] \in {Meant(f, s, i) : s \in VsSets} \cup {Never(f)}
    <3>1. vsMemory[f][b][e][i] = [k \in Phases(f) |-> Never(f)][i]
      BY <1>2, Zenon
    <3>2. [k \in Phases(f) |-> Never(f)][i] = Never(f)
      BY Zenon
    <3>3. QED BY <3>1, <3>2, Zenon
  <2>2. QED BY <2>1, Zenon DEF VsPhaseWhole
<1>8. QED BY <1>1, <1>5, <1>6, <1>7, Zenon DEF VsInv, VsRuns

\* apply is called when the last one is through.
LEMMA ApplyVsInv == VsInv /\ VsApply => VsInv'
<1> SUFFICES ASSUME VsInv, VsApply PROVE VsInv'
  OBVIOUS
<1>1. /\ vsTodo = <<>> /\ vsStaged' = vsStaged /\ vsMemory' = vsMemory
      /\ vsWrite' = vsWrite /\ vsRead' = vsRead
  BY DEF VsApply
<1>2. PICK h \in VsSets, v \in VsSets, e \in BOOLEAN :
        vsTodo' = apply(h, v, 1 - vsRead["h"], 1 - vsRead["v"], e) \o set_read_bank("h", 1 - vsRead["h"])
                    \o set_read_bank("v", 1 - vsRead["v"])
  BY Zenon DEF VsApply
<1>3. PICK J : J = [set |-> [f \in Filters |-> IF f = "h" THEN h ELSE v],
                    bank |-> [f \in Filters |-> 1 - vsRead[f]], edge |-> e]
  OBVIOUS
<1>4. /\ J \in Jobs /\ J.set["h"] = h /\ J.set["v"] = v /\ J.edge = e
      /\ J.bank["h"] = 1 - vsRead["h"] /\ J.bank["v"] = 1 - vsRead["v"]
  <2>1. \A f \in Filters : vsRead[f] \in {0, 1}
    BY DEF VsInv, VsTypes, CoeffBanks
  <2>2. [f \in Filters |-> 1 - vsRead[f]] \in [Filters -> CoeffBanks]
    BY <2>1 DEF CoeffBanks
  <2>3. [f \in Filters |-> IF f = "h" THEN h ELSE v] \in [Filters -> VsSets]
    OBVIOUS
  <2>4. "h" \in Filters /\ "v" \in Filters /\ "h" # "v"
    BY DEF Filters
  <2>5. QED BY <1>3, <2>2, <2>3, <2>4 DEF Jobs
<1>5. Linked(J, vsTodo', Select("h", J.bank["h"]), Use("v", J.bank["v"]))
  BY <1>2, <1>4, JobIs
<1>6. Settled
  <2>1. ASSUME NEW K, Linked(K, vsTodo, vsTodo[1], Use("v", K.bank["v"]))
        PROVE  FALSE
    BY <1>1, <2>1 DEF Linked
  <2>2. QED BY <2>1, Zenon DEF VsInv, VsRuns
<1>7. \A f \in Filters : vsRead[f] \in {0, 1}
  BY DEF VsInv, VsTypes, CoeffBanks
<1>8. Settled' /\ Spared(J, "h")' /\ Spared(J, "v")'
  <2>1. Settled'
    BY <1>1, <1>6 DEF Settled, WholeSet
  <2>2. "h" \in Filters /\ "v" \in Filters
    BY DEF Filters
  <2>3. QED BY <1>1, <1>4, <1>7, <2>1, <2>2 DEF Spared
<1>9. Before(J, vsTodo[1])'
  <2>1. vsTodo'[1] = Select("h", J.bank["h"])
    BY <1>5 DEF Linked
  <2>2. QED BY <1>8, <2>1, Zenon DEF Before
<1>10. VsRuns'
  <2>1. Linked(J, vsTodo', vsTodo'[1], Use("v", J.bank["v"]))
    BY <1>5 DEF Linked
  <2>2. QED BY <1>4, <1>9, <2>1 DEF VsRuns
<1>11. VsTypes'
  BY <1>1 DEF VsInv, VsTypes
<1>12. VsPhaseWhole'
  BY <1>1 DEF VsInv, VsPhaseWhole
<1>13. QED BY <1>10, <1>11, <1>12 DEF VsInv

\* The write at the head is made; the next one, if any, follows it in the chain.
LEMMA NextWrite ==
  ASSUME NEW J, NEW last, NEW a, Linked(J, a, a[1], last), NEW b, b = Tail(a)
  PROVE  /\ b \in Seq(AnyWrite) /\ Head(a) = a[1]
         /\ \/ b = <<>> /\ a[1] = last
            \/ Linked(J, b, b[1], last) /\ Then(J, a[1], b[1])
<1>1. a \in Seq(AnyWrite) /\ a # <<>> /\ a[Len(a)] = last /\ \A k \in 1 .. Len(a) - 1 : Then(J, a[k], a[k + 1])
  BY Zenon DEF Linked
<1>2. /\ Len(a) \in Nat \ {0} /\ Head(a) = a[1] /\ b \in Seq(AnyWrite) /\ Len(b) = Len(a) - 1
      /\ \A k \in 1 .. Len(a) - 1 : b[k] = a[k + 1]
  BY <1>1, EmptySeq, HeadTailProperties
<1>3. CASE Len(a) = 1
  BY <1>1, <1>2, <1>3, EmptySeq
<1>4. CASE Len(a) > 1
  <2>1. b # <<>> /\ b[1] = a[2] /\ 1 \in 1 .. Len(a) - 1
    <3>1. 1 \in 1 .. Len(a) - 1 /\ Len(b) # 0 /\ 1 + 1 = 2
      BY <1>2, <1>4
    <3>2. b[1] = a[1 + 1]
      BY <1>2, <3>1, Zenon
    <3>3. b # <<>>
      BY <1>2, <3>1, EmptySeq, Zenon
    <3>4. QED BY <3>1, <3>2, <3>3
  <2>2. b[Len(b)] = last
    BY <1>1, <1>2, <1>4
  <2>3. \A k \in 1 .. Len(b) - 1 : Then(J, b[k], b[k + 1])
    <3> TAKE k \in 1 .. Len(b) - 1
    <3>1. k \in 1 .. Len(a) - 1 /\ k + 1 \in 1 .. Len(a) - 1
      BY <1>2
    <3>2. b[k] = a[k + 1] /\ b[k + 1] = a[(k + 1) + 1]
      BY <1>2, <3>1
    <3>3. QED BY <1>1, <3>1, <3>2
  <2>4. Then(J, a[1], b[1])
    BY <1>1, <2>1
  <2>5. Linked(J, b, b[1], last)
    BY <1>2, <2>1, <2>2, <2>3, Zenon DEF Linked
  <2>6. QED BY <1>2, <2>4, <2>5, Zenon
<1>5. Len(a) = 1 \/ Len(a) > 1
  BY <1>2
<1>6. QED BY <1>3, <1>4, <1>5, Zenon

\* A commit changes one phase.
Stored(m, f, b, e, i, v) ==
  /\ m \in [Filters -> [CoeffBanks -> [BOOLEAN -> Rows]]]
  /\ \A g \in Filters, c \in CoeffBanks, d \in BOOLEAN :
       /\ m[g][c][d] \in [Phases(g) -> Values(g)]
       /\ ~(g = f /\ c = b /\ d = e) => m[g][c][d] = vsMemory[g][c][d]
  /\ m[f][b][e] = [vsMemory[f][b][e] EXCEPT ![i] = v]

LEMMA StoredElsewhere ==
  ASSUME NEW m, NEW f, NEW b, NEW e, NEW i, NEW v, Stored(m, f, b, e, i, v),
         NEW g \in Filters, NEW c \in CoeffBanks, NEW d \in BOOLEAN,
         ~(g = f /\ c = b /\ d = e)
  PROVE  m[g][c][d] = vsMemory[g][c][d]
BY SMT DEF Stored

LEMMA StoreOne ==
  ASSUME VsTypes, NEW f \in Filters, NEW b \in CoeffBanks, NEW e \in BOOLEAN, NEW i \in Phases(f),
         NEW v \in Values(f), NEW m, m = [vsMemory EXCEPT ![f][b][e][i] = v]
  PROVE  Stored(m, f, b, e, i, v)
<1>1. PICK x : x = [vsMemory[f][b][e] EXCEPT ![i] = v]
  OBVIOUS
<1>2. x \in [Phases(f) -> Values(f)] /\ x \in Rows
  <2>1. vsMemory[f][b][e] \in [Phases(f) -> Values(f)]
    BY Zenon DEF VsTypes
  <2>2. PICK y : y = vsMemory[f][b][e]
    OBVIOUS
  <2>3. x \in [Phases(f) -> Values(f)]
    BY <1>1, <2>1, <2>2
  <2>4. QED BY <2>3, Zenon DEF Rows
<1>3. PICK y : y = [vsMemory[f][b] EXCEPT ![e] = x]
  OBVIOUS
<1>4. PICK z : z = [vsMemory[f] EXCEPT ![b] = y]
  OBVIOUS
<1>5. m = [vsMemory EXCEPT ![f] = z]
  BY <1>1, <1>3, <1>4
<1>6. /\ vsMemory \in [Filters -> [CoeffBanks -> [BOOLEAN -> Rows]]]
      /\ vsMemory[f] \in [CoeffBanks -> [BOOLEAN -> Rows]] /\ vsMemory[f][b] \in [BOOLEAN -> Rows]
      /\ \A g \in Filters, c \in CoeffBanks, d \in BOOLEAN : vsMemory[g][c][d] \in [Phases(g) -> Values(g)]
  BY DEF VsTypes
<1>7. y \in [BOOLEAN -> Rows] /\ y[e] = x /\ \A d \in BOOLEAN : d # e => y[d] = vsMemory[f][b][d]
  BY <1>2, <1>3, <1>6
<1>8. z \in [CoeffBanks -> [BOOLEAN -> Rows]] /\ z[b] = y /\ \A c \in CoeffBanks : c # b => z[c] = vsMemory[f][c]
  BY <1>4, <1>6, <1>7
<1>9. /\ m \in [Filters -> [CoeffBanks -> [BOOLEAN -> Rows]]]
      /\ m[f] = z /\ \A g \in Filters : g # f => m[g] = vsMemory[g]
  BY <1>5, <1>6, <1>8
<1>10. \A g \in Filters, c \in CoeffBanks, d \in BOOLEAN :
         ~(g = f /\ c = b /\ d = e) => m[g][c][d] = vsMemory[g][c][d]
  BY <1>7, <1>8, <1>9
<1>11. m[f][b][e] = x
  BY <1>7, <1>8, <1>9
<1>12. \A g \in Filters, c \in CoeffBanks, d \in BOOLEAN : m[g][c][d] \in [Phases(g) -> Values(g)]
  <2>1. ASSUME NEW g \in Filters, NEW c \in CoeffBanks, NEW d \in BOOLEAN
        PROVE  m[g][c][d] \in [Phases(g) -> Values(g)]
    <3>1. CASE g = f /\ c = b /\ d = e
      BY <1>2, <1>11, <3>1, Zenon
    <3>2. CASE ~(g = f /\ c = b /\ d = e)
      BY <1>6, <1>10, <3>2, Zenon
    <3>3. QED BY <3>1, <3>2, Zenon
  <2>2. QED BY <2>1, Zenon
<1>13. m[f][b][e] = [vsMemory[f][b][e] EXCEPT ![i] = v]
  BY <1>1, <1>11, Zenon
<1>14. \A g \in Filters, c \in CoeffBanks, d \in BOOLEAN :
         /\ m[g][c][d] \in [Phases(g) -> Values(g)]
         /\ ~(g = f /\ c = b /\ d = e) => m[g][c][d] = vsMemory[g][c][d]
  BY <1>10, <1>12, Zenon
<1>15. m \in [Filters -> [CoeffBanks -> [BOOLEAN -> Rows]]]
  BY <1>9
<1>16. QED BY <1>13, <1>14, <1>15 DEF Stored

\* The kind of a write says which step makes it.
LEMMA WriteMade ==
  ASSUME NEW s, VsWriteTap(s) \/ VsCommit(s) \/ VsSelect(s)
  PROVE  /\ s.do = "tap" => VsWriteTap(s)
         /\ s.do = "phase" => VsCommit(s)
         /\ s.do = "bank" => /\ vsWrite' = [vsWrite EXCEPT ![s.of] = s.bank] /\ vsRead' = vsRead
                             /\ vsStaged' = vsStaged /\ vsMemory' = vsMemory
         /\ s.do = "read" => /\ vsRead' = [vsRead EXCEPT ![s.of] = s.bank] /\ vsWrite' = vsWrite
                             /\ vsStaged' = vsStaged /\ vsMemory' = vsMemory
BY DEF VsWriteTap, VsCommit, VsSelect

\* A write is followed by one write only.
LEMMA NextIs ==
  ASSUME NEW J, NEW s, NEW t, Then(J, s, t)
  PROVE  /\ s = Select("h", J.bank["h"]) => t = Select("v", J.bank["v"])
         /\ s = Select("v", J.bank["v"]) => t = TapOf(J, "h", 0, 1)
         /\ s = Use("h", J.bank["h"]) => t = Use("v", J.bank["v"])
         /\ s # Use("v", J.bank["v"])
<1>1. ASSUME NEW f, NEW i, NEW j
      PROVE  TapOf(J, f, i, j).do = "tap" /\ CommitOf(J, f, i).do = "phase"
  BY DEF TapOf, WriteTap, CommitOf, Commit
<1>2. ASSUME NEW f, NEW b
      PROVE  /\ Select(f, b).do = "bank" /\ Select(f, b).of = f
             /\ Use(f, b).do = "read" /\ Use(f, b).of = f
  BY DEF Select, Use
<1>3. s.do \in {"bank", "read"} => \/ BankChosen(J, s, t)
                                   \/ s = Use("h", J.bank["h"]) /\ t = Use("v", J.bank["v"])
  <2>1. Tapped(J, s, t) => s.do = "tap"
    BY <1>1, Zenon DEF Tapped
  <2>2. Committed(J, s, t) => s.do = "phase"
    BY <1>1, Zenon DEF Committed
  <2>3. QED BY <2>1, <2>2 DEF Then
<1>4. Select("h", J.bank["h"]) # Select("v", J.bank["v"]) /\ Use("h", J.bank["h"]) # Use("v", J.bank["v"])
  BY <1>2
<1>5. QED BY <1>2, <1>3, <1>4 DEF BankChosen

LEMMA NextOfTap ==
  ASSUME NEW J, NEW f \in Filters, NEW i \in Phases(f), NEW j \in Taps(f),
         NEW t, Then(J, TapOf(J, f, i, j), t)
  PROVE  t = IF j < VsTaps[f] THEN TapOf(J, f, i, j + 1) ELSE CommitOf(J, f, i)
<1>1. PICK s : s = TapOf(J, f, i, j)
  OBVIOUS
<1>2. s.do = "tap" /\ s.coeff = <<f, J.set[f], i, j>>
  BY <1>1 DEF TapOf, WriteTap, Coefficient
<1>3. ASSUME NEW g, NEW k, NEW b
      PROVE  Select(g, b).do = "bank" /\ Use(g, b).do = "read" /\ CommitOf(J, g, k).do = "phase"
  BY DEF Select, Use, CommitOf, Commit
<1>4. ~BankChosen(J, s, t) /\ s # Use("h", J.bank["h"])
  BY <1>2, <1>3 DEF BankChosen
<1>5. ~Committed(J, s, t)
  BY <1>2, <1>3 DEF Committed
<1>6. Tapped(J, s, t)
  BY <1>1, <1>4, <1>5, Zenon DEF Then
<1>7. PICK g \in Filters : \E k \in Phases(g), l \in Taps(g) :
        /\ s = TapOf(J, g, k, l)
        /\ t = IF l < VsTaps[g] THEN TapOf(J, g, k, l + 1) ELSE CommitOf(J, g, k)
  BY <1>6, Zenon DEF Tapped
<1>8. PICK k \in Phases(g), l \in Taps(g) :
        /\ s = TapOf(J, g, k, l)
        /\ t = IF l < VsTaps[g] THEN TapOf(J, g, k, l + 1) ELSE CommitOf(J, g, k)
  BY <1>7, Zenon
<1>9. s.coeff = <<g, J.set[g], k, l>>
  BY <1>8 DEF TapOf, WriteTap, Coefficient
<1>10. f = g /\ i = k /\ j = l
  BY <1>2, <1>9
<1>11. QED BY <1>8, <1>10

LEMMA NextOfCommit ==
  ASSUME NEW J, NEW f \in Filters, NEW i \in Phases(f), NEW t, Then(J, CommitOf(J, f, i), t)
  PROVE  t = IF i + 1 < VsPhases[f] THEN TapOf(J, f, i + 1, 1)
             ELSE IF f = "h" THEN TapOf(J, "v", 0, 1) ELSE Use("h", J.bank["h"])
<1>1. PICK s : s = CommitOf(J, f, i)
  OBVIOUS
<1>2. s.do = "phase" /\ s.of = f /\ s.at = i
  BY <1>1 DEF CommitOf, Commit
<1>3. ASSUME NEW g, NEW k, NEW l, NEW b
      PROVE  Select(g, b).do = "bank" /\ Use(g, b).do = "read" /\ TapOf(J, g, k, l).do = "tap"
  BY DEF Select, Use, TapOf, WriteTap
<1>4. ~BankChosen(J, s, t) /\ s # Use("h", J.bank["h"])
  BY <1>2, <1>3 DEF BankChosen
<1>5. ~Tapped(J, s, t)
  BY <1>2, <1>3 DEF Tapped
<1>6. Committed(J, s, t)
  BY <1>1, <1>4, <1>5, Zenon DEF Then
<1>7. PICK g \in Filters : \E k \in Phases(g) :
        /\ s = CommitOf(J, g, k)
        /\ t = IF k + 1 < VsPhases[g] THEN TapOf(J, g, k + 1, 1)
               ELSE IF g = "h" THEN TapOf(J, "v", 0, 1) ELSE Use("h", J.bank["h"])
  BY <1>6, Zenon DEF Committed
<1>8. PICK k \in Phases(g) :
        /\ s = CommitOf(J, g, k)
        /\ t = IF k + 1 < VsPhases[g] THEN TapOf(J, g, k + 1, 1)
               ELSE IF g = "h" THEN TapOf(J, "v", 0, 1) ELSE Use("h", J.bank["h"])
  BY <1>7, Zenon
<1>9. s.of = g /\ s.at = k
  BY <1>8 DEF CommitOf, Commit
<1>10. QED BY <1>2, <1>8, <1>9

\* The selects, the taps and the commits.
LEMMA StepSelect ==
  ASSUME VsInv, NEW J \in Jobs, NEW s, VsSelect(s),
         \E f \in Filters : s = Select(f, J.bank[f]) \/ s = Use(f, J.bank[f])
  PROVE  VsTypes' /\ VsPhaseWhole' /\ vsMemory' = vsMemory /\ vsStaged' = vsStaged
<1>1. PICK f \in Filters : s = Select(f, J.bank[f]) \/ s = Use(f, J.bank[f])
  OBVIOUS
<1>2. s.of = f /\ s.bank = J.bank[f] /\ J.bank[f] \in CoeffBanks
  <2>1. J.bank[f] \in CoeffBanks
    BY WritesAre
  <2>2. s.of = f /\ s.bank = J.bank[f]
    BY <1>1 DEF Select, Use
  <2>3. QED BY <2>1, <2>2
<1>3. vsMemory' = vsMemory /\ vsStaged' = vsStaged
  BY DEF VsSelect
<1>4. vsWrite \in [Filters -> CoeffBanks] /\ vsRead \in [Filters -> CoeffBanks]
  BY DEF VsInv, VsTypes
<1>5. vsWrite' \in [Filters -> CoeffBanks] /\ vsRead' \in [Filters -> CoeffBanks]
  BY <1>2, <1>4 DEF VsSelect
<1>6. VsPhaseWhole'
  BY <1>3 DEF VsInv, VsPhaseWhole
<1>7. QED BY <1>3, <1>5, <1>6 DEF VsInv, VsTypes

LEMMA StepTap ==
  ASSUME VsInv, NEW J \in Jobs, NEW f \in Filters, NEW i \in Phases(f), NEW j \in Taps(f),
         NEW s, s = TapOf(J, f, i, j), Writing(J, f, i), Staged(J, f, i, j), VsWriteTap(s), Aimed(J)
  PROVE  /\ VsTypes' /\ VsPhaseWhole' /\ Aimed(J)' /\ Writing(J, f, i)'
         /\ Staged(J, f, i, j + 1)'
<1>1. /\ s.at = j /\ s.coeff = Coefficient(f, J.set[f], i, j) /\ j \in Stages
      /\ vsMemory' = vsMemory /\ vsWrite' = vsWrite /\ vsRead' = vsRead
      /\ vsStaged' = [vsStaged EXCEPT ![s.at] = s.coeff]
  <2>1. j \in Stages
    BY ScalerSize DEF Stages
  <2>2. s.at = j /\ s.coeff = Coefficient(f, J.set[f], i, j)
    BY DEF TapOf, WriteTap
  <2>3. QED BY <2>1, <2>2 DEF VsWriteTap
<1>2. vsStaged = [k \in Stages |-> vsStaged[k]]
  BY DEF VsInv, VsTypes
<1>3. /\ vsStaged'[j] = Coefficient(f, J.set[f], i, j)
      /\ \A k \in Stages : k # j => vsStaged'[k] = vsStaged[k]
      /\ vsStaged' = [k \in Stages |-> vsStaged'[k]]
  BY <1>1, <1>2
<1>4. Staged(J, f, i, j + 1)'
  <2>1. ASSUME NEW k \in Taps(f), k < j + 1
        PROVE  vsStaged'[k] = Coefficient(f, J.set[f], i, k)
    <3>1. k \in Stages /\ k \in Nat /\ j \in Nat
      BY ScalerSize DEF Stages
    <3>2. k = j \/ (k # j /\ k < j)
      BY <2>1, <3>1
    <3>3. k < j => vsStaged[k] = Coefficient(f, J.set[f], i, k)
      BY DEF Staged
    <3>4. QED BY <1>3, <3>1, <3>2, <3>3
  <2>2. QED BY <2>1, Zenon DEF Staged
<1>5. Writing(J, f, i)'
  BY <1>1 DEF Writing, WholeSet
<1>6. Aimed(J)'
  BY <1>1 DEF Aimed, Spared
<1>7. VsPhaseWhole'
  BY <1>1 DEF VsInv, VsPhaseWhole
<1>8. VsTypes'
  BY <1>1, <1>3 DEF VsInv, VsTypes
<1>9. QED BY <1>4, <1>5, <1>6, <1>7, <1>8

LEMMA StepCommit ==
  ASSUME VsInv, NEW J \in Jobs, NEW f \in Filters, NEW i \in Phases(f),
         NEW s, s = CommitOf(J, f, i), Writing(J, f, i), Staged(J, f, i, VsTaps[f] + 1),
         VsCommit(s), Aimed(J)
  PROVE  /\ VsTypes' /\ VsPhaseWhole' /\ Aimed(J)' /\ Writing(J, f, i + 1)'
         /\ ~(i + 1 < VsPhases[f]) => Settled'
<1>1. /\ s.of = f /\ s.at = i /\ s.edge = J.edge /\ vsWrite[f] = J.bank[f]
      /\ J.bank[f] \in CoeffBanks /\ J.edge \in BOOLEAN /\ J.set[f] \in VsSets
      /\ vsStaged' = vsStaged /\ vsWrite' = vsWrite /\ vsRead' = vsRead
  <2>1. s.of = f /\ s.at = i /\ s.edge = J.edge
    BY DEF CommitOf, Commit
  <2>2. vsWrite[f] = J.bank[f]
    BY DEF Aimed
  <2>3. QED BY <2>1, <2>2, WritesAre DEF VsCommit
<1>2. PICK b, e : b = J.bank[f] /\ e = J.edge
  OBVIOUS
<1>3. PICK v : v = Meant(f, J.set[f], i)
  OBVIOUS
<1>4. [j \in Taps(f) |-> vsStaged[j]] = v
  <2>1. \A j \in Taps(f) : vsStaged[j] = Coefficient(f, J.set[f], i, j)
    <3>1. \A j \in Taps(f) : j < VsTaps[f] + 1
      BY ScalerSize
    <3>2. QED BY <3>1, Zenon DEF Staged
  <2>2. QED BY <1>3, <2>1 DEF Meant
<1>5. v \in Values(f) /\ b \in CoeffBanks /\ e \in BOOLEAN
  BY <1>1, <1>2, <1>3 DEF Values
<1>6. PICK m : m = [vsMemory EXCEPT ![f][b][e][i] = v]
  OBVIOUS
<1>7. vsMemory' = m
  BY <1>1, <1>2, <1>4, <1>6 DEF VsCommit
<1>8. /\ m \in [Filters -> [CoeffBanks -> [BOOLEAN -> Rows]]]
      /\ \A g \in Filters, c \in CoeffBanks, d \in BOOLEAN :
           /\ m[g][c][d] \in [Phases(g) -> Values(g)]
           /\ ~(g = f /\ c = b /\ d = e) => m[g][c][d] = vsMemory[g][c][d]
      /\ m[f][b][e] = [vsMemory[f][b][e] EXCEPT ![i] = v]
  <2>1. VsTypes
    BY DEF VsInv
  <2>2. Stored(m, f, b, e, i, v)
    BY <1>5, <1>6, <2>1, StoreOne, Zenon
  <2>3. QED BY <2>2, Zenon DEF Stored
<1>9. PICK x : x = m[f][b][e]
  OBVIOUS
<1>10. x \in [Phases(f) -> Values(f)] /\ x[i] = v /\ \A k \in Phases(f) : k # i => x[k] = vsMemory[f][b][e][k]
  <2>1. vsMemory[f][b][e] \in [Phases(f) -> Values(f)]
    BY <1>5 DEF VsInv, VsTypes
  <2>2. PICK y : y = vsMemory[f][b][e]
    OBVIOUS
  <2>3. x = [y EXCEPT ![i] = v]
    BY <1>8, <1>9, <2>2, Zenon
  <2>4. y \in [Phases(f) -> Values(f)]
    BY <2>1, <2>2, Zenon
  <2>5. x \in [Phases(f) -> Values(f)] /\ x[i] = v /\ \A k \in Phases(f) : k # i => x[k] = y[k]
    BY <1>5, <2>3, <2>4
  <2>6. QED BY <2>2, <2>5, Zenon
<1>11. VsTypes'
  BY <1>1, <1>7, <1>8 DEF VsInv, VsTypes
<1>12. ASSUME NEW g \in Filters, NEW c \in CoeffBanks, NEW d \in BOOLEAN, NEW k \in Phases(g)
       PROVE  m[g][c][d][k] \in {Meant(g, t, k) : t \in VsSets} \cup {Never(g)}
  <2>1. vsMemory[g][c][d][k] \in {Meant(g, t, k) : t \in VsSets} \cup {Never(g)}
    BY Zenon DEF VsInv, VsPhaseWhole
  <2>2. CASE ~(g = f /\ c = b /\ d = e)
    BY <1>8, <2>1, <2>2
  <2>3. CASE g = f /\ c = b /\ d = e
    <3>1. k # i => m[g][c][d][k] = vsMemory[g][c][d][k]
      BY <1>9, <1>10, <2>3
    <3>2. k = i => m[g][c][d][k] = Meant(g, J.set[f], k)
      BY <1>3, <1>9, <1>10, <2>3
    <3>3. QED BY <1>1, <2>1, <3>1, <3>2
  <2>4. QED BY <2>2, <2>3
<1>13. VsPhaseWhole'
  BY <1>7, <1>12 DEF VsPhaseWhole
<1>14. Aimed(J)'
  BY <1>1 DEF Aimed, Spared
<1>15. ASSUME NEW k \in Phases(f), k < i + 1
       PROVE  x[k] = Meant(f, J.set[f], k)
  <2>1. k \in Nat /\ i \in Nat
    BY ScalerSize
  <2>2. k = i \/ (k # i /\ k < i)
    BY <1>15, <2>1
  <2>3. k < i => vsMemory[f][b][e][k] = Meant(f, J.set[f], k)
    BY <1>2, Zenon DEF Writing
  <2>4. QED BY <1>3, <1>10, <2>2, <2>3
<1>16. \A g \in Filters, c \in CoeffBanks, d \in BOOLEAN :
         ~(g = f /\ c = b /\ d = e) => WholeSet(g, m[g][c][d])
  <2>0. Stored(m, f, b, e, i, v)
    BY ONLY <1>8, Zenon DEF Stored
  <2>1. \A g \in Filters, c \in CoeffBanks, d \in BOOLEAN :
          ~(g = f /\ c = b /\ d = e) => WholeSet(g, vsMemory[g][c][d])
    BY <1>2, Zenon DEF Writing
  <2>2. ASSUME NEW g \in Filters, NEW c \in CoeffBanks, NEW d \in BOOLEAN, ~(g = f /\ c = b /\ d = e)
        PROVE  WholeSet(g, m[g][c][d])
    <3>1. WholeSet(g, vsMemory[g][c][d])
      BY <2>1, <2>2, Zenon
    <3>2. m[g][c][d] = vsMemory[g][c][d]
      BY ONLY <2>0, <2>2, StoredElsewhere, g \in Filters, c \in CoeffBanks, d \in BOOLEAN, SMT
    <3>3. QED BY ONLY <3>1, <3>2, Zenon
  <2>3. QED BY ONLY <2>2, Zenon
<1>17. Writing(J, f, i + 1)'
  <2>1. \A g \in Filters, c \in CoeffBanks, d \in BOOLEAN :
          ~(g = f /\ c = J.bank[f] /\ d = J.edge) => WholeSet(g, vsMemory[g][c][d])'
    BY <1>2, <1>7, <1>16, Zenon DEF WholeSet
  <2>2. \A k \in Phases(f) : k < i + 1 => vsMemory'[f][J.bank[f]][J.edge][k] = Meant(f, J.set[f], k)
    BY <1>2, <1>7, <1>9, <1>15, Zenon
  <2>3. QED BY <2>1, <2>2, Zenon DEF Writing
<1>18. ASSUME ~(i + 1 < VsPhases[f])
       PROVE  Settled'
  <2>1. \A k \in Phases(f) : k < i + 1
    BY <1>18, ScalerSize, SMTT(30), ZenonT(40)
  <2>2. x = [k \in Phases(f) |-> Meant(f, J.set[f], k)]
    BY <1>10, <1>15, <2>1
  <2>3. WholeSet(f, x)
    BY <1>1, <2>2, Zenon DEF WholeSet
  <2>4. \A g \in Filters, c \in CoeffBanks, d \in BOOLEAN : WholeSet(g, m[g][c][d])
    BY <1>9, <1>16, <2>3, Zenon
  <2>5. QED BY <1>7, <2>4, Zenon DEF Settled, WholeSet
<1>19. QED BY <1>11, <1>13, <1>14, <1>17, <1>18

\* Before the first write of a filter.
LEMMA FilterBegun ==
  ASSUME NEW J, NEW f \in Filters
  PROVE  Settled' => Writing(J, f, 0)' /\ Staged(J, f, 0, 1)'
<1>1. \A k \in Phases(f) : ~(k < 0)
  BY ScalerSize
<1>2. \A k \in Taps(f) : ~(k < 1)
  BY ScalerSize
<1>3. QED BY <1>1, <1>2, Zenon DEF Writing, Staged, Settled

\* A write is made as Before says it may be: its effect, and what it leaves for
\* the write that comes after it.
LEMMA MakeWrite ==
  ASSUME VsInv, NEW J \in Jobs, NEW s, Before(J, s), VsWriteTap(s) \/ VsCommit(s) \/ VsSelect(s)
  PROVE  /\ VsTypes' /\ VsPhaseWhole'
         /\ s = Use("v", J.bank["v"]) => Settled'
         /\ \A t : Then(J, s, t) => Before(J, t)'
<1>1. "h" \in Filters /\ "v" \in Filters /\ vsWrite \in [Filters -> CoeffBanks]
  BY DEF Filters, VsInv, VsTypes
<1>2. CASE s = Select("h", J.bank["h"]) /\ Settled /\ Spared(J, "h") /\ Spared(J, "v")
  <2>1. /\ s.do = "bank" /\ s.of = "h" /\ s.bank = J.bank["h"]
        /\ VsSelect(s) /\ vsRead' = vsRead /\ vsMemory' = vsMemory
        /\ vsWrite' = [vsWrite EXCEPT !["h"] = J.bank["h"]]
    BY <1>2 DEF Select, VsWriteTap, VsCommit, VsSelect
  <2>2. VsTypes' /\ VsPhaseWhole'
    BY <1>1, <1>2, <2>1, StepSelect, Zenon
  <2>3. Settled' /\ Spared(J, "h")' /\ Spared(J, "v")'
    BY <1>2, <2>1 DEF Settled, WholeSet, Spared
  <2>4. vsWrite'["h"] = J.bank["h"]
    BY <1>1, <2>1
  <2>5. ASSUME NEW t, Then(J, s, t)
        PROVE  Before(J, t)'
    <3>1. t = Select("v", J.bank["v"])
      BY <1>2, <2>5, NextIs, Zenon
    <3>2. QED BY <2>3, <2>4, <3>1, Zenon DEF Before
  <2>6. QED BY <2>2, <2>3, <2>5
<1>3. CASE /\ s = Select("v", J.bank["v"]) /\ Settled /\ Spared(J, "h") /\ Spared(J, "v")
           /\ vsWrite["h"] = J.bank["h"]
  <2>1. /\ s.do = "bank" /\ s.of = "v" /\ s.bank = J.bank["v"]
        /\ VsSelect(s) /\ vsRead' = vsRead /\ vsMemory' = vsMemory
        /\ vsWrite' = [vsWrite EXCEPT !["v"] = J.bank["v"]]
    BY <1>3 DEF Select, VsWriteTap, VsCommit, VsSelect
  <2>2. VsTypes' /\ VsPhaseWhole'
    BY <1>1, <1>3, <2>1, StepSelect, Zenon
  <2>3. Settled' /\ Spared(J, "h")' /\ Spared(J, "v")'
    BY <1>3, <2>1 DEF Settled, WholeSet, Spared
  <2>4. Aimed(J)'
    <3>1. vsWrite'["h"] = J.bank["h"] /\ vsWrite'["v"] = J.bank["v"]
      BY <1>1, <1>3, <2>1
    <3>2. QED BY <2>3, <3>1 DEF Aimed, Filters
  <2>5. ASSUME NEW t, Then(J, s, t)
        PROVE  Before(J, t)'
    <3>1. t = TapOf(J, "h", 0, 1)
      BY <1>3, <2>5, NextIs, Zenon
    <3>2. AtTap(J, t)'
      <4>1. Writing(J, "h", 0)' /\ Staged(J, "h", 0, 1)'
        BY <1>1, <2>3, FilterBegun
      <4>2. 0 \in Phases("h") /\ 1 \in Taps("h")
        BY <1>1, ScalerSize
      <4>3. QED BY <1>1, <3>1, <4>1, <4>2, Zenon DEF AtTap
    <3>3. QED BY <2>4, <3>2, Zenon DEF Before
  <2>6. QED BY <2>2, <2>3, <2>5
<1>4. CASE Aimed(J) /\ AtTap(J, s)
  <2>1. PICK f \in Filters : \E i \in Phases(f), j \in Taps(f) :
          s = TapOf(J, f, i, j) /\ Writing(J, f, i) /\ Staged(J, f, i, j)
    BY <1>4, Zenon DEF AtTap
  <2>2. PICK i \in Phases(f), j \in Taps(f) :
          s = TapOf(J, f, i, j) /\ Writing(J, f, i) /\ Staged(J, f, i, j)
    BY <2>1, Zenon
  <2>3. s.do = "tap"
    BY <2>2 DEF TapOf, WriteTap
  <2>4. VsWriteTap(s)
    BY <2>3, WriteMade
  <2>5. /\ VsTypes' /\ VsPhaseWhole' /\ Aimed(J)' /\ Writing(J, f, i)' /\ Staged(J, f, i, j + 1)'
    BY <1>4, <2>2, <2>4, StepTap, Zenon
  <2>6. ASSUME NEW t, Then(J, s, t)
        PROVE  Before(J, t)'
    <3>1. t = IF j < VsTaps[f] THEN TapOf(J, f, i, j + 1) ELSE CommitOf(J, f, i)
      BY <2>2, <2>6, NextOfTap, Zenon
    <3>2. CASE j < VsTaps[f]
      <4>1. j + 1 \in Taps(f)
        BY <3>2, ScalerSize
      <4>2. AtTap(J, t)'
        BY <2>2, <2>5, <3>1, <3>2, <4>1, Zenon DEF AtTap
      <4>3. QED BY <2>5, <4>2, Zenon DEF Before
    <3>3. CASE ~(j < VsTaps[f])
      <4>1. j + 1 = VsTaps[f] + 1
        BY <3>3, ScalerSize
      <4>2. AtCommit(J, t)'
        BY <2>2, <2>5, <3>1, <3>3, <4>1, Zenon DEF AtCommit
      <4>3. QED BY <2>5, <4>2, Zenon DEF Before
    <3>4. QED BY <3>2, <3>3
  <2>7. s # Use("v", J.bank["v"])
    BY <2>3 DEF Use
  <2>8. QED BY <2>5, <2>6, <2>7
<1>5. CASE Aimed(J) /\ AtCommit(J, s)
  <2>1. PICK f \in Filters : \E i \in Phases(f) :
          s = CommitOf(J, f, i) /\ Writing(J, f, i) /\ Staged(J, f, i, VsTaps[f] + 1)
    BY <1>5, Zenon DEF AtCommit
  <2>2. PICK i \in Phases(f) :
          s = CommitOf(J, f, i) /\ Writing(J, f, i) /\ Staged(J, f, i, VsTaps[f] + 1)
    BY <2>1, Zenon
  <2>3. s.do = "phase"
    BY <2>2 DEF CommitOf, Commit
  <2>4. VsCommit(s)
    BY <2>3, WriteMade
  <2>5. /\ VsTypes' /\ VsPhaseWhole' /\ Aimed(J)' /\ Writing(J, f, i + 1)'
        /\ ~(i + 1 < VsPhases[f]) => Settled'
    BY <1>5, <2>2, <2>4, StepCommit, Zenon
  <2>6. ASSUME NEW t, Then(J, s, t)
        PROVE  Before(J, t)'
    <3>1. t = IF i + 1 < VsPhases[f] THEN TapOf(J, f, i + 1, 1)
              ELSE IF f = "h" THEN TapOf(J, "v", 0, 1) ELSE Use("h", J.bank["h"])
      BY <2>2, <2>6, NextOfCommit, Zenon
    <3>2. CASE i + 1 < VsPhases[f]
      <4>1. i + 1 \in Phases(f) /\ 1 \in Taps(f)
        BY <3>2, ScalerSize
      <4>2. Staged(J, f, i + 1, 1)'
        <5>1. \A k \in Taps(f) : ~(k < 1)
          BY ScalerSize, SMTT(30), ZenonT(40)
        <5>2. QED BY <5>1, Zenon DEF Staged
      <4>3. AtTap(J, t)'
        BY <2>5, <3>1, <3>2, <4>1, <4>2, Zenon DEF AtTap
      <4>4. QED BY <2>5, <4>3, Zenon DEF Before
    <3>3. CASE ~(i + 1 < VsPhases[f]) /\ f = "h"
      <4>1. Writing(J, "v", 0)' /\ Staged(J, "v", 0, 1)'
        BY <1>1, <2>5, <3>3, FilterBegun
      <4>2. 0 \in Phases("v") /\ 1 \in Taps("v") /\ t = TapOf(J, "v", 0, 1)
        BY <1>1, <3>1, <3>3, ScalerSize
      <4>3. AtTap(J, t)'
        BY <1>1, <4>1, <4>2, Zenon DEF AtTap
      <4>4. QED BY <2>5, <4>3, Zenon DEF Before
    <3>4. CASE ~(i + 1 < VsPhases[f]) /\ f # "h"
      <4>1. Settled' /\ t = Use("h", J.bank["h"])
        BY <2>5, <3>1, <3>4
      <4>2. QED BY <4>1, Zenon DEF Before
    <3>5. QED BY <3>2, <3>3, <3>4
  <2>7. s # Use("v", J.bank["v"])
    BY <2>3 DEF Use
  <2>8. QED BY <2>5, <2>6, <2>7
<1>6. CASE Settled /\ (s = Use("h", J.bank["h"]) \/ s = Use("v", J.bank["v"]))
  <2>1. s.do = "read"
    BY <1>6 DEF Use
  <2>2. VsSelect(s) /\ vsMemory' = vsMemory
    BY <2>1 DEF VsWriteTap, VsCommit, VsSelect
  <2>3. VsTypes' /\ VsPhaseWhole'
    BY <1>1, <1>6, <2>2, StepSelect, Zenon
  <2>4. Settled'
    BY <1>6, <2>2 DEF Settled, WholeSet
  <2>5. ASSUME NEW t, Then(J, s, t)
        PROVE  Before(J, t)'
    <3>1. t = Use("v", J.bank["v"])
      BY <1>6, <2>5, NextIs, Zenon
    <3>2. QED BY <2>4, <3>1, Zenon DEF Before
  <2>6. QED BY <2>3, <2>4, <2>5
<1>7. QED BY <1>2, <1>3, <1>4, <1>5, <1>6, Zenon DEF Before

LEMMA StepVsInv == VsInv /\ VsStep => VsInv'
<1> SUFFICES ASSUME VsInv, VsStep PROVE VsInv'
  OBVIOUS
<1>1. PICK J \in Jobs : Linked(J, vsTodo, vsTodo[1], Use("v", J.bank["v"])) /\ Before(J, vsTodo[1])
  BY Zenon DEF VsInv, VsRuns, VsStep
<1>2. PICK s, a, b : s = vsTodo[1] /\ a = vsTodo /\ b = vsTodo'
  OBVIOUS
<1>3. b = Tail(a) /\ Linked(J, a, a[1], Use("v", J.bank["v"])) /\ a[1] = s
  BY <1>1, <1>2 DEF VsStep
<1>4. /\ b \in Seq(AnyWrite) /\ Head(a) = a[1]
      /\ \/ b = <<>> /\ a[1] = Use("v", J.bank["v"])
         \/ Linked(J, b, b[1], Use("v", J.bank["v"])) /\ Then(J, a[1], b[1])
  BY <1>3, NextWrite, ZenonT(40)
<1>5. VsWriteTap(s) \/ VsCommit(s) \/ VsSelect(s)
  BY <1>2, <1>3, <1>4, Zenon DEF VsStep
<1>6. /\ VsTypes' /\ VsPhaseWhole'
      /\ s = Use("v", J.bank["v"]) => Settled'
      /\ \A t : Then(J, s, t) => Before(J, t)'
  BY <1>1, <1>2, <1>5, MakeWrite, Zenon
<1>7. CASE b = <<>> /\ a[1] = Use("v", J.bank["v"])
  <2>1. Settled' /\ vsTodo' = <<>>
    BY <1>2, <1>3, <1>6, <1>7, Zenon
  <2>2. QED BY <1>6, <2>1, Zenon DEF VsInv, VsRuns
<1>8. CASE Linked(J, b, b[1], Use("v", J.bank["v"])) /\ Then(J, a[1], b[1])
  <2>1. PICK t : t = b[1]
    OBVIOUS
  <2>2. Before(J, t)'
    BY <1>3, <1>6, <1>8, <2>1, Zenon
  <2>3. t = vsTodo'[1]
    BY <1>2, <2>1
  <2>4. Before(J, vsTodo[1])'
    BY <2>2, <2>3, Zenon DEF Before, AtTap, AtCommit
  <2>5. Linked(J, vsTodo', vsTodo'[1], Use("v", J.bank["v"]))
    BY <1>2, <1>8, Zenon
  <2>6. VsRuns'
    BY <2>4, <2>5, Zenon DEF VsRuns
  <2>7. QED BY <1>6, <2>6, Zenon DEF VsInv
<1>9. QED BY <1>4, <1>7, <1>8, Zenon

LEMMA VsInvSafe == VsInv => VsSafe
<1> SUFFICES ASSUME VsInv PROVE VsSafe
  OBVIOUS
<1>1. VsPhaseWhole
  BY DEF VsInv
<1>2. ASSUME NEW f \in Filters, NEW e \in BOOLEAN
      PROVE  WholeSet(f, vsMemory[f][vsRead[f]][e])
  <2>1. vsRead[f] \in CoeffBanks
    BY DEF VsInv, VsTypes
  <2>2. CASE Settled
    BY <2>1, <2>2, Zenon DEF Settled
  <2>3. ASSUME NEW J \in Jobs, NEW g \in Filters, NEW i, Aimed(J), Writing(J, g, i)
        PROVE  WholeSet(f, vsMemory[f][vsRead[f]][e])
    <3>1. J.bank[g] \in {0, 1} /\ vsRead[g] = 1 - J.bank[g]
      BY <2>3, WritesAre DEF Aimed, Spared, CoeffBanks
    <3>2. vsRead[g] # J.bank[g]
      BY <3>1
    <3>3. ~(f = g /\ vsRead[f] = J.bank[g] /\ e = J.edge)
      BY <3>2
    <3>4. QED BY <2>1, <2>3, <3>3, Zenon DEF Writing
  <2>4. CASE \E J \in Jobs : Before(J, vsTodo[1])
    <3>1. PICK J \in Jobs : Before(J, vsTodo[1])
      BY <2>4
    <3>2. CASE Aimed(J) /\ AtTap(J, vsTodo[1])
      BY <2>3, <3>2, Zenon DEF AtTap
    <3>3. CASE Aimed(J) /\ AtCommit(J, vsTodo[1])
      BY <2>3, <3>3, Zenon DEF AtCommit
    <3>4. QED BY <2>2, <3>1, <3>2, <3>3, Zenon DEF Before
  <2>5. QED BY <2>2, <2>4, Zenon DEF VsInv, VsRuns
<1>3. VsReadWhole
  BY <1>2, Zenon DEF VsReadWhole, WholeSet
<1>4. QED BY <1>1, <1>3 DEF VsSafe

\* A phase in the scaler's memory is a whole phase of one set, although the two
\* filters stage their taps in the same registers, and the bank that is read
\* holds one whole set (or nothing), for every number of taps, of phases and
\* of sets (Scaler.cpp 20-75).
THEOREM CoefficientsWhole == VsSpec => []VsSafe
<1>1. VsInv /\ UNCHANGED vsVars => VsInv'
  <2> SUFFICES ASSUME VsInv, UNCHANGED vsVars PROVE VsInv'
    OBVIOUS
  <2>1. /\ vsStaged' = vsStaged /\ vsMemory' = vsMemory /\ vsWrite' = vsWrite
        /\ vsRead' = vsRead /\ vsTodo' = vsTodo
    BY DEF vsVars
  <2>2. VsTypes' /\ VsPhaseWhole'
    BY <2>1 DEF VsInv, VsTypes, VsPhaseWhole
  <2>3. Settled => Settled'
    BY <2>1 DEF Settled, WholeSet
  <2>4. ASSUME NEW J \in Jobs, NEW s, Before(J, s)
        PROVE  Before(J, s)'
    <3>1. \A f \in Filters, i \in Int : Writing(J, f, i) => Writing(J, f, i)'
      BY <2>1 DEF Writing, WholeSet
    <3>2. \A f, i, j : Staged(J, f, i, j) => Staged(J, f, i, j)'
      BY <2>1, Zenon DEF Staged
    <3>3. /\ Aimed(J) => Aimed(J)'
          /\ \A f : Spared(J, f) => Spared(J, f)'
      BY <2>1, Zenon DEF Aimed, Spared
    <3>4. \A f \in Filters : Phases(f) \subseteq Int
      BY ScalerSize
    <3>5. AtTap(J, s) => AtTap(J, s)'
      BY <3>1, <3>2, <3>4, Zenon DEF AtTap
    <3>6. AtCommit(J, s) => AtCommit(J, s)'
      BY <3>1, <3>2, <3>4, Zenon DEF AtCommit
    <3>7. QED BY <2>1, <2>3, <2>4, <3>3, <3>5, <3>6, Zenon DEF Before
  <2>5. VsRuns'
    <3>1. CASE vsTodo = <<>> /\ Settled
      BY <2>1, <2>3, <3>1, Zenon DEF VsRuns
    <3>2. ASSUME NEW J \in Jobs, Linked(J, vsTodo, vsTodo[1], Use("v", J.bank["v"])), Before(J, vsTodo[1])
          PROVE  VsRuns'
      <4>1. PICK s : s = vsTodo[1]
        OBVIOUS
      <4>2. Before(J, s)'
        BY <2>4, <3>2, <4>1, Zenon
      <4>3. Before(J, vsTodo[1])'
        BY <2>1, <4>1, <4>2, Zenon DEF Before, AtTap, AtCommit
      <4>4. QED BY <2>1, <3>2, <4>3, Zenon DEF VsRuns
    <3>3. QED BY <3>1, <3>2, Zenon DEF VsInv, VsRuns
  <2>6. QED BY <2>2, <2>5, Zenon DEF VsInv
<1>2. VsInv /\ [VsNext]_vsVars => VsInv'
  BY <1>1, ApplyVsInv, StepVsInv DEF VsNext
<1>3. QED BY InitVsInv, <1>2, VsInvSafe, PTL DEF VsSpec

(***************************************************************************)
(* The arithmetic.  Euclid's algorithm is defined for all numbers because  *)
(* the second one falls, and what divides both numbers divides the second  *)
(* one and the remainder.                                                  *)
(***************************************************************************)
LEMMA LeastNat ==
  ASSUME NEW T, T \subseteq Nat, T # {}
  PROVE  \E x \in T : \A y \in T : x <= y
<1> DEFINE R == OpToRel(<, Nat)
<1>1. IsWellFoundedOn(R, Nat)
  BY NatLessThanWellFounded
<1>2. \E x \in T : \A y \in T : ~(<<y, x>> \in R)
  <2> HIDE DEF R
  <2>1. QED BY <1>1, WFMin
<1>3. \A x, y \in Nat : <<y, x>> \in R <=> y < x
  BY DEF OpToRel
<1>4. PICK x \in T : \A y \in T : ~(<<y, x>> \in R)
  BY <1>2
<1>5. \A y \in T : ~(y < x)
  BY <1>3, <1>4
<1>6. QED BY <1>5

\* The pairs of numbers, and what Euclid's algorithm says of one of them.
Pairs == (0 .. VqMax) \X (0 .. VqMax)
EuclidAt(g, p) == g[p] = IF p[2] = 0 THEN p[1] ELSE g[<<p[2], p[1] % p[2]>>]
EuclidUpTo(g, n) == g \in [Pairs -> Nat] /\ \A p \in Pairs : p[2] <= n => EuclidAt(g, p)

LEMMA RemainderPair ==
  ASSUME NEW p \in Pairs, p[2] # 0
  PROVE  <<p[2], p[1] % p[2]>> \in Pairs /\ p[1] % p[2] < p[2] /\ p[1] % p[2] \in 0 .. VqMax
<1>1. p[1] \in 0 .. VqMax /\ p[2] \in 0 .. VqMax /\ VqMax \in Nat
  BY VqAssumption DEF Pairs
<1>2. PICK a, b : a = p[1] /\ b = p[2]
  OBVIOUS
<1>3. a \in Int /\ b \in Nat \ {0}
  BY <1>1, <1>2
<1>4. a % b \in 0 .. b - 1
  BY <1>3
<1>5. a % b \in 0 .. VqMax /\ a % b < b
  BY <1>1, <1>2, <1>4
<1>6. QED BY <1>1, <1>2, <1>5 DEF Pairs

LEMMA EuclidStep ==
  ASSUME NEW n \in Nat, n # 0, NEW g, EuclidUpTo(g, n - 1)
  PROVE  \E h : EuclidUpTo(h, n)
<1>1. PICK h : h = [p \in Pairs |-> IF p[2] = n THEN g[<<p[2], p[1] % p[2]>>] ELSE g[p]]
  OBVIOUS
<1>2. g \in [Pairs -> Nat]
  BY DEF EuclidUpTo
<1>3. \A p \in Pairs : p[2] \in 0 .. VqMax /\ p[2] \in Nat
  BY VqAssumption DEF Pairs
<1>4. h \in [Pairs -> Nat]
  <2>1. ASSUME NEW p \in Pairs
        PROVE  (IF p[2] = n THEN g[<<p[2], p[1] % p[2]>>] ELSE g[p]) \in Nat
    <3>1. p[2] = n => <<p[2], p[1] % p[2]>> \in Pairs
      BY RemainderPair, Zenon
    <3>2. QED BY <1>2, <3>1
  <2>2. QED BY <1>1, <2>1
<1>5. ASSUME NEW p \in Pairs, p[2] <= n
      PROVE  EuclidAt(h, p)
  <2>1. CASE p[2] = 0
    <3>1. h[p] = g[p]
      BY <1>1, <2>1
    <3>2. EuclidAt(g, p)
      BY <2>1 DEF EuclidUpTo
    <3>3. QED BY <2>1, <3>1, <3>2, Zenon DEF EuclidAt
  <2>2. CASE p[2] # 0
    <3>1. PICK q : q = <<p[2], p[1] % p[2]>>
      OBVIOUS
    <3>2. q \in Pairs /\ q[2] < p[2] /\ q[2] # n
      <4>1. q \in Pairs /\ p[1] % p[2] < p[2] /\ p[1] % p[2] \in 0 .. VqMax
        BY <2>2, <3>1, RemainderPair, Zenon
      <4>2. q[2] = p[1] % p[2]
        BY <3>1
      <4>3. q[2] < p[2] /\ q[2] \in Int /\ p[2] \in Int
        BY <1>3, <4>1, <4>2, VqAssumption
      <4>4. QED BY <1>5, <4>1, <4>3
    <3>3. h[q] = g[q]
      BY <1>1, <3>2
    <3>4. CASE p[2] = n
      <4>1. h[p] = g[q]
        BY <1>1, <3>1, <3>4
      <4>2. QED BY <2>2, <3>1, <3>3, <4>1, Zenon DEF EuclidAt
    <3>5. CASE p[2] # n
      <4>1. h[p] = g[p]
        BY <1>1, <3>5
      <4>2. p[2] <= n - 1
        BY <1>3, <1>5, <3>5
      <4>3. EuclidAt(g, p)
        BY <4>2 DEF EuclidUpTo
      <4>4. QED BY <2>2, <3>1, <3>3, <4>1, <4>3, Zenon DEF EuclidAt
    <3>6. QED BY <3>4, <3>5
  <2>3. QED BY <2>1, <2>2
<1>6. QED BY <1>4, <1>5, Zenon DEF EuclidUpTo

LEMMA EuclidExists == \A n \in Nat : \E g : EuclidUpTo(g, n)
<1> DEFINE T == {n \in Nat : ~\E g : EuclidUpTo(g, n)}
<1>1. SUFFICES T = {}
  BY Zenon
<1>2. SUFFICES ASSUME T # {} PROVE FALSE
  OBVIOUS
<1>3. PICK n \in T : \A m \in T : n <= m
  <2>1. T \subseteq Nat
    OBVIOUS
  <2> HIDE DEF T
  <2>2. QED BY <1>2, <2>1, LeastNat, Zenon
<1>4. n \in Nat /\ ~\E g : EuclidUpTo(g, n)
  BY <1>3, Zenon
<1>5. CASE n = 0
  <2>1. PICK g : g = [p \in Pairs |-> p[1]]
    OBVIOUS
  <2>2. \A p \in Pairs : p[1] \in Nat /\ p[2] \in Nat
    BY VqAssumption DEF Pairs
  <2>3. g \in [Pairs -> Nat]
    BY <2>1, <2>2
  <2>4. \A p \in Pairs : p[2] <= 0 => EuclidAt(g, p)
    BY <2>1, <2>2 DEF EuclidAt
  <2>5. EuclidUpTo(g, n)
    BY <1>5, <2>3, <2>4 DEF EuclidUpTo
  <2>6. QED BY <1>4, <2>5, Zenon
<1>6. CASE n # 0
  <2>1. n - 1 \in Nat /\ ~(n <= n - 1)
    BY <1>4, <1>6
  <2>2. n - 1 \notin T
    BY <1>3, <2>1, Zenon
  <2>3. PICK g : EuclidUpTo(g, n - 1)
    BY <2>1, <2>2, Zenon
  <2>4. QED BY <1>4, <1>6, <2>3, EuclidStep, Zenon
<1>7. QED BY <1>5, <1>6

\* The function that gcd_ordered is.
LEMMA EuclidIs == \A p \in Pairs : EuclidAt(GcdOrdered, p)
<1>1. VqMax \in Nat
  BY VqAssumption
<1>2. PICK g : EuclidUpTo(g, VqMax)
  BY <1>1, EuclidExists, Zenon
<1>3. \A p \in Pairs : p[2] <= VqMax /\ EuclidAt(g, p)
  <2>1. \A p \in Pairs : p[2] <= VqMax
    BY VqAssumption DEF Pairs
  <2>2. QED BY <1>2, <2>1, Zenon DEF EuclidUpTo
<1>4. g = [p \in Pairs |-> IF p[2] = 0 THEN p[1] ELSE g[<<p[2], p[1] % p[2]>>]]
  <2>1. g = [p \in Pairs |-> g[p]]
    BY <1>2 DEF EuclidUpTo
  <2>2. QED BY <1>3, <2>1 DEF EuclidAt
<1>5. GcdOrdered = [p \in Pairs |-> IF p[2] = 0 THEN p[1] ELSE GcdOrdered[<<p[2], p[1] % p[2]>>]]
  BY <1>4, Zenon DEF GcdOrdered, Pairs
<1>6. QED BY <1>5 DEF EuclidAt

LEMMA DividesIs ==
  ASSUME NEW d \in Nat \ {0}, NEW n \in Int
  PROVE  Divides(d, n) <=> \E q \in Int : n = d * q
<1>1. PICK q \in Int, r \in 0 .. d - 1 : q = n \div d /\ r = n % d /\ n = d * q + r
  BY Parted
<1>2. ASSUME Divides(d, n)
      PROVE  n = d * q
  <2>1. r = 0
    BY <1>1, <1>2 DEF Divides
  <2>2. d * q \in Int
    OBVIOUS
  <2>3. QED BY <1>1, <2>1, <2>2
<1>3. ASSUME NEW p \in Int, n = d * p
      PROVE  Divides(d, n)
  <2>1. PICK z \in 0 .. d - 1 : z = 0
    OBVIOUS
  <2>2. d * p \in Int
    OBVIOUS
  <2>3. d * p + z = d * q + r
    BY <1>1, <1>3, <2>1, <2>2
  <2>4. p = q /\ z = r
    BY <1>1, <2>1, <2>3, PartedOnce, Zenon
  <2>5. QED BY <1>1, <2>1, <2>4 DEF Divides
<1>4. QED BY <1>1, <1>2, <1>3, Zenon

\* What divides two numbers divides their remainder, and the other way round.
LEMMA RemainderDivides ==
  ASSUME NEW a \in Nat, NEW b \in Nat \ {0}, NEW d \in Nat \ {0}, Divides(d, b)
  PROVE  Divides(d, a) <=> Divides(d, a % b)
<1>1. PICK q \in Int, r \in 0 .. b - 1 : q = a \div b /\ r = a % b /\ a = b * q + r
  BY Parted
<1>2. PICK y \in Int : b = d * y
  <2>1. b \in Int
    OBVIOUS
  <2>2. QED BY <2>1, DividesIs, Zenon
<1>3. r \in Int /\ a \in Int
  BY <1>1
<1>4. ASSUME NEW x \in Int, a = d * x
      PROVE  Divides(d, r)
  <2>1. d * (x - y * q) = d * x - (d * y) * q
    OBVIOUS
  <2>2. d * x \in Int /\ b * q \in Int
    OBVIOUS
  <2>3. r = d * x - (d * y) * q
    <3>1. b * q = (d * y) * q
      BY <1>2, Zenon
    <3>2. r = d * x - b * q
      BY <1>1, <1>4, <2>2
    <3>3. QED BY <3>1, <3>2, Zenon
  <2>4. PICK z \in Int : z = x - y * q
    OBVIOUS
  <2>5. r = d * z
    BY <2>1, <2>3, <2>4
  <2>6. QED BY <1>3, <2>5, DividesIs, Zenon
<1>5. ASSUME NEW x \in Int, r = d * x
      PROVE  Divides(d, a)
  <2>1. d * (y * q + x) = (d * y) * q + d * x
    OBVIOUS
  <2>2. d * x \in Int /\ b * q \in Int
    OBVIOUS
  <2>3. a = (d * y) * q + d * x
    BY <1>1, <1>2, <1>5, <2>2
  <2>4. PICK z \in Int : z = y * q + x
    OBVIOUS
  <2>5. a = d * z
    BY <2>1, <2>3, <2>4
  <2>6. QED BY <1>3, <2>5, DividesIs, Zenon
<1>6. Divides(d, a) => Divides(d, r)
  BY <1>3, <1>4, DividesIs, Zenon
<1>7. Divides(d, r) => Divides(d, a)
  BY <1>3, <1>5, DividesIs, Zenon
<1>8. QED BY <1>1, <1>6, <1>7, Zenon

\* The greatest common divisor, as it is defined.
Greatest(g, a, b) ==
  /\ g \in Nat \ {0} /\ Divides(g, a) /\ Divides(g, b)
  /\ \A d \in Nat : d > g => ~(Divides(d, a) /\ Divides(d, b))

LEMMA GreatestOfOne ==
  ASSUME NEW a \in Nat \ {0}
  PROVE  Greatest(a, a, 0)
<1>1. Divides(a, a)
  <2>1. a = a * 1
    OBVIOUS
  <2>2. QED BY <2>1, DividesIs
<1>2. Divides(a, 0)
  <2>1. 0 = a * 0
    OBVIOUS
  <2>2. QED BY <2>1, DividesIs
<1>3. ASSUME NEW d \in Nat, d > a
      PROVE  ~Divides(d, a)
  <2>1. SUFFICES ASSUME Divides(d, a) PROVE FALSE
    OBVIOUS
  <2>2. d \in Nat \ {0} /\ a \in Int
    BY <1>3
  <2>3. PICK q \in Int : a = d * q
    BY <2>1, <2>2, DividesIs, Zenon
  <2>4. CASE q <= 0
    <3>1. d * q <= d * 0
      BY <2>4, Times
    <3>2. QED BY <2>3, <3>1
  <2>5. CASE q >= 1
    <3>1. d * 1 <= d * q
      BY <2>5, Times
    <3>2. QED BY <1>3, <2>3, <3>1
  <2>6. QED BY <2>4, <2>5
<1>4. QED BY <1>1, <1>2, <1>3 DEF Greatest

LEMMA GreatestOfRest ==
  ASSUME NEW a \in Nat, NEW b \in Nat \ {0}, NEW g, Greatest(g, b, a % b)
  PROVE  Greatest(g, a, b)
<1>1. g \in Nat \ {0} /\ Divides(g, b) /\ Divides(g, a % b)
  BY Zenon DEF Greatest
<1>2. Divides(g, a)
  BY <1>1, RemainderDivides, Zenon
<1>3. ASSUME NEW d \in Nat, d > g, Divides(d, a), Divides(d, b)
      PROVE  FALSE
  <2>1. d \in Nat \ {0}
    BY <1>1, <1>3
  <2>2. Divides(d, a % b)
    BY <1>3, <2>1, RemainderDivides, Zenon
  <2>3. QED BY <1>3, <2>2, Zenon DEF Greatest
<1>4. QED BY <1>1, <1>2, <1>3, Zenon DEF Greatest

\* By the least second number for which it would be wrong.
LEMMA EuclidGreatest ==
  \A b \in 0 .. VqMax : \A a \in 0 .. VqMax : a + b > 0 => Greatest(GcdOrdered[<<a, b>>], a, b)
<1> DEFINE Wrong(a, b) == a + b > 0 /\ ~Greatest(GcdOrdered[<<a, b>>], a, b)
           T == {b \in 0 .. VqMax : \E a \in 0 .. VqMax : Wrong(a, b)}
<1>1. SUFFICES T = {}
  BY Zenon
<1>2. SUFFICES ASSUME T # {} PROVE FALSE
  OBVIOUS
<1>3. PICK b \in T : \A m \in T : b <= m
  <2>1. T \subseteq Nat
    BY VqAssumption
  <2> HIDE DEF T
  <2>2. QED BY <1>2, <2>1, LeastNat, Zenon
<1>4. PICK a \in 0 .. VqMax : Wrong(a, b)
  BY <1>3, Zenon
<1>5. PICK p : p = <<a, b>>
  OBVIOUS
<1>6. b \in 0 .. VqMax /\ a \in Nat /\ b \in Nat /\ VqMax \in Nat
  BY <1>3, VqAssumption
<1>7. p \in Pairs /\ p[1] = a /\ p[2] = b
  BY <1>5, <1>6 DEF Pairs
<1>8. GcdOrdered[p] = IF b = 0 THEN a ELSE GcdOrdered[<<b, a % b>>]
  <2>1. EuclidAt(GcdOrdered, p)
    BY <1>7, EuclidIs, Zenon
  <2>2. QED BY <1>7, <2>1, Zenon DEF EuclidAt
<1>9. CASE b = 0
  <2>1. a \in Nat \ {0}
    BY <1>4, <1>6, <1>9
  <2>2. Greatest(a, a, 0)
    BY <2>1, GreatestOfOne, Zenon
  <2>3. QED BY <1>4, <1>5, <1>8, <1>9, <2>2, Zenon
<1>10. CASE b # 0
  <2>1. PICK c : c = a % b
    OBVIOUS
  <2>2. c \in 0 .. VqMax /\ c < b
    BY <1>7, <1>10, <2>1, RemainderPair, Zenon
  <2>3. c \in Nat /\ ~(b <= c) /\ b + c > 0 /\ b \in Nat \ {0}
    BY <1>6, <1>10, <2>2
  <2>4. c \notin T
    BY <1>3, <2>3, Zenon
  <2>5. ~Wrong(b, c)
    BY <1>6, <2>2, <2>4, Zenon
  <2>6. Greatest(GcdOrdered[<<b, c>>], b, c)
    BY <2>3, <2>5, Zenon
  <2>7. Greatest(GcdOrdered[<<a, b>>], b, a % b)
    BY <1>5, <1>8, <1>10, <2>1, <2>6, Zenon
  <2>8. Greatest(GcdOrdered[<<a, b>>], a, b)
    BY <1>6, <2>3, <2>7, GreatestOfRest, Zenon
  <2>9. QED BY <1>4, <2>8, Zenon
<1>11. QED BY <1>9, <1>10

LEMMA GcdIs ==
  ASSUME NEW a \in 0 .. VqMax, NEW b \in 0 .. VqMax, a + b > 0
  PROVE  Greatest(gcd(a, b), a, b)
<1>1. a \in Int /\ b \in Int /\ b + a > 0
  BY VqAssumption
<1>2. Greatest(GcdOrdered[<<a, b>>], a, b)
  BY EuclidGreatest, Zenon
<1>3. Greatest(GcdOrdered[<<b, a>>], b, a)
  BY <1>1, EuclidGreatest, Zenon
<1>4. Greatest(GcdOrdered[<<b, a>>], a, b)
  BY <1>3, Zenon DEF Greatest
<1>5. QED BY <1>2, <1>4, Zenon DEF gcd, gcd_ordered

\* A coefficient's word has room for a number.
LEMMA PowerIs ==
  ASSUME NEW n \in 0 .. 31
  PROVE  2 ^ n \in Nat \ {0}
<1>1. \E e \in 0 .. 31 : n = e
  OBVIOUS
<1>2. CASE n = 0
  BY <1>2
<1>3. CASE n = 1
  BY <1>3
<1>4. CASE n = 2
  BY <1>4
<1>5. CASE n = 3
  BY <1>5
<1>6. CASE n = 4
  BY <1>6
<1>7. CASE n = 5
  BY <1>7
<1>8. CASE n = 6
  BY <1>8
<1>9. CASE n = 7
  BY <1>9
<1>10. CASE n = 8
  BY <1>10
<1>11. CASE n = 9
  BY <1>11
<1>12. CASE n = 10
  BY <1>12
<1>13. CASE n = 11
  BY <1>13
<1>14. CASE n = 12
  BY <1>14
<1>15. CASE n = 13
  BY <1>15
<1>16. CASE n = 14
  BY <1>16
<1>17. CASE n = 15
  BY <1>17
<1>18. CASE n = 16
  BY <1>18
<1>19. CASE n = 17
  BY <1>19
<1>20. CASE n = 18
  BY <1>20
<1>21. CASE n = 19
  BY <1>21
<1>22. CASE n = 20
  BY <1>22
<1>23. CASE n = 21
  BY <1>23
<1>24. CASE n = 22
  BY <1>24
<1>25. CASE n = 23
  BY <1>25
<1>26. CASE n = 24
  BY <1>26
<1>27. CASE n = 25
  BY <1>27
<1>28. CASE n = 26
  BY <1>28
<1>29. CASE n = 27
  BY <1>29
<1>30. CASE n = 28
  BY <1>30
<1>31. CASE n = 29
  BY <1>31
<1>32. CASE n = 30
  BY <1>32
<1>33. CASE n = 31
  BY <1>33
<1>34. QED BY <1>2, <1>3, <1>4, <1>5, <1>6, <1>7, <1>8, <1>9, <1>10, <1>11, <1>12, <1>13, <1>14, <1>15, <1>16, <1>17, <1>18, <1>19, <1>20, <1>21, <1>22, <1>23, <1>24, <1>25, <1>26, <1>27, <1>28, <1>29, <1>30, <1>31, <1>32, <1>33

LEMMA AbsIs ==
  ASSUME NEW n \in Int
  PROVE  Abs(n) \in Nat /\ (n >= 0 => Abs(n) = n) /\ (n < 0 => Abs(n) = -n)
BY DEF Abs

\* Rounding leaves half a unit at most.
LEMMA RoundedNear ==
  ASSUME NEW x \in Int
  PROVE  /\ Rounded(x) \in Int
         /\ 2 * (x - Rounded(x) * VqScale) <= VqScale /\ 2 * (Rounded(x) * VqScale - x) <= VqScale
<1>1. PICK s, h : s = VqScale /\ h = VqScale \div 2
  OBVIOUS
<1>2. s \in Nat \ {0} /\ h \in Nat /\ s = 2 * h
  BY <1>1, VqAssumption
<1>3. PICK m \in Nat : m = Abs(x) /\ (x >= 0 => m = x) /\ (x < 0 => m = -x)
  BY AbsIs
<1>4. PICK q \in Int, r \in 0 .. s - 1 : q = (m + h) \div s /\ r = (m + h) % s /\ m + h = s * q + r
  <2>1. m + h \in Int
    BY <1>2, <1>3
  <2>2. QED BY <1>2, <2>1, Parted
<1>5. Rounded(x) = IF x >= 0 THEN q ELSE -q
  BY <1>1, <1>3, <1>4 DEF Rounded
<1>6. PICK y \in Int : y = s * q
  BY <1>2
<1>7. q * s = y /\ (-q) * s = -y
  BY <1>2, <1>6
<1>8. 2 * (m - y) <= s /\ 2 * (y - m) <= s
  <2>1. m + h = y + r
    BY <1>4, <1>6, Zenon
  <2>2. r \in Nat /\ r <= s - 1
    BY <1>2
  <2>3. QED BY <1>2, <1>3, <1>6, <2>1, <2>2
<1>9. CASE x >= 0
  <2>1. Rounded(x) = q /\ q * VqScale = y
    BY <1>1, <1>5, <1>7, <1>9
  <2>2. QED BY <1>1, <1>2, <1>3, <1>8, <1>9, <2>1
<1>10. CASE ~(x >= 0)
  <2>1. Rounded(x) = -q /\ (-q) * VqScale = -y
    BY <1>1, <1>5, <1>7, <1>10
  <2>2. x = -m
    BY <1>3, <1>10
  <2>3. QED BY <1>1, <1>2, <1>3, <1>8, <2>1, <2>2
<1>11. QED BY <1>9, <1>10

\* No number between the bounds is nearer than the one that is taken.
LEMMA NearestTaken ==
  ASSUME NEW x \in Int, NEW l \in Int, NEW u \in Int, l <= u,
         NEW t, t = IF Rounded(x) < l THEN l ELSE IF Rounded(x) > u THEN u ELSE Rounded(x),
         NEW z \in l .. u
  PROVE  t \in l .. u /\ Abs(x - t * VqScale) <= Abs(x - z * VqScale)
<1>1. PICK s \in Nat \ {0}, r \in Int : s = VqScale /\ r = Rounded(x)
  BY RoundedNear, VqAssumption
<1>2. PICK e \in Int : e = r * s
  BY <1>1
<1>3. 2 * (x - e) <= s /\ 2 * (e - x) <= s
  BY <1>1, <1>2, RoundedNear
<1>4. t \in l .. u /\ t \in Int /\ z \in Int
  BY <1>1
<1>5. PICK a \in Int, b \in Int : a = t * s /\ b = z * s
  BY <1>1, <1>4
<1>6. ASSUME NEW i \in Int, NEW j \in Int, i < j
      PROVE  i * s + s <= j * s
  <2>1. s * (i + 1) <= s * j
    BY <1>6, Times
  <2>2. s * (i + 1) = i * s + s /\ s * j = j * s
    OBVIOUS
  <2>3. QED BY <2>1, <2>2
<1>7. ASSUME NEW i \in Int, NEW j \in Int, i <= j
      PROVE  i * s <= j * s
  <2>1. s * i <= s * j
    BY <1>7, Times
  <2>2. s * i = i * s /\ s * j = j * s
    OBVIOUS
  <2>3. QED BY <2>1, <2>2
<1>8. Abs(x - a) <= Abs(x - b)
  <2>1. CASE r < l
    <3>1. t = l /\ r < t /\ t <= z
      BY <1>1, <1>4, <2>1
    <3>2. e + s <= a /\ a <= b
      BY <1>2, <1>4, <1>5, <1>6, <1>7, <3>1
    <3>3. x - a <= 0 /\ x - b <= x - a
      BY <1>1, <1>3, <3>2
    <3>4. QED BY <1>5, <3>3 DEF Abs
  <2>2. CASE r > u
    <3>1. t = u /\ t < r /\ z <= t
      BY <1>1, <1>4, <2>2
    <3>2. a + s <= e /\ b <= a
      BY <1>2, <1>4, <1>5, <1>6, <1>7, <3>1
    <3>3. x - a >= 0 /\ x - b >= x - a
      BY <1>1, <1>3, <3>2
    <3>4. QED BY <1>5, <3>3 DEF Abs
  <2>3. CASE ~(r < l) /\ ~(r > u)
    <3>1. t = r /\ a = e
      BY <1>1, <1>2, <1>5, <2>3
    <3>2. CASE z = t
      <4>1. a = b
        BY <1>5, <3>2
      <4>2. QED BY <1>5, <4>1 DEF Abs
    <3>3. CASE z < t
      <4>1. b + s <= a
        BY <1>4, <1>5, <1>6, <3>3
      <4>2. QED BY <1>1, <1>2, <1>3, <1>5, <3>1, <4>1 DEF Abs
    <3>4. CASE t < z
      <4>1. a + s <= b
        BY <1>4, <1>5, <1>6, <3>4
      <4>2. QED BY <1>1, <1>2, <1>3, <1>5, <3>1, <4>1 DEF Abs
    <3>5. QED BY <1>4, <3>2, <3>3, <3>4
  <2>4. QED BY <2>1, <2>2, <2>3
<1>9. QED BY <1>1, <1>4, <1>5, <1>8

\* The taps in use are some of the taps, in their middle.
LEMMA WindowIs ==
  ASSUME NEW taps \in Nat \ {0}, NEW in \in Nat \ {0}, NEW out \in Nat \ {0}, NEW w, w = window(taps, in, out)
  PROVE  /\ w.first >= 0 /\ w.used >= 1 /\ taps - (w.first + w.used) >= 0
         /\ Abs(w.first - (taps - (w.first + w.used))) <= 1
<1>1. PICK whole \in Int : Lobes(taps, in, out) = IF whole < 1 THEN 1 ELSE AtMost(whole, 2)
  <2>1. (taps * out) \div (2 * in) \in Int /\ taps \div 2 \in Int
    <3>1. taps * out \in Int /\ 2 * in \in Nat \ {0}
      OBVIOUS
    <3>2. QED BY <3>1
  <2>2. QED BY <2>1 DEF Lobes
<1>2. PICK l \in 1 .. 2 : l = Lobes(taps, in, out)
  BY <1>1 DEF AtMost
<1>3. Ceil(2 * l * in, out) \in Nat \ {0}
  <2>1. PICK n \in Nat \ {0} : n = 2 * l * in
    <3>1. 2 * l * in \in Nat \ {0}
      <4>1. l = 1 \/ l = 2
        OBVIOUS
      <4>2. QED BY <4>1
    <3>2. QED BY <3>1
  <2>2. PICK q \in Int, r \in 0 .. out - 1 :
          q = (n + out - 1) \div out /\ r = (n + out - 1) % out /\ n + out - 1 = out * q + r
    <3>1. n + out - 1 \in Int
      OBVIOUS
    <3>2. QED BY <3>1, Parted
  <2>3. q >= 1
    <3>1. SUFFICES ASSUME q <= 0 PROVE FALSE
      OBVIOUS
    <3>2. out * q <= out * 0
      BY <3>1, Times
    <3>3. QED BY <2>2, <3>2
  <2>4. QED BY <2>1, <2>2, <2>3 DEF Ceil
<1>4. PICK used \in 1 .. taps : used = TapsInUse(taps, in, out)
  <2>1. PICK ideal \in Nat \ {0} : TapsInUse(taps, in, out) = AtMost(ideal, taps)
    <3>1. 2 * l \in Nat \ {0}
      OBVIOUS
    <3>2. QED BY <1>2, <1>3, <3>1 DEF TapsInUse
  <2>2. QED BY <2>1 DEF AtMost
<1>5. w.used = used /\ w.first = ((taps - 1) \div 2) - ((used - 1) \div 2)
  BY <1>4 DEF window, CoeffOffset
<1>6. PICK f \in Int : f = w.first
  BY <1>5
<1>7. f >= 0 /\ taps - (f + used) >= 0 /\ f - (taps - (f + used)) \in -1 .. 1
  BY <1>5, <1>6
<1>8. QED BY <1>5, <1>6, <1>7 DEF Abs

LEMMA InitVqSafe == VqInit => VqSafe
BY DEF VqInit, VqSafe, VqGcd, VqQuantised, VqWindow

LEMMA CallGcdSafe == CallGcd => VqSafe'
<1> SUFFICES ASSUME CallGcd PROVE VqSafe'
  OBVIOUS
<1>1. PICK a \in 0 .. VqMax, b \in 0 .. VqMax :
        vqCall' = [fn |-> "gcd", a |-> a, b |-> b] /\ vqResult' = gcd(a, b)
  BY Zenon DEF CallGcd
<1>2. vqCall'.fn = "gcd" /\ vqCall'.a = a /\ vqCall'.b = b
  BY <1>1
<1>3. PICK g : g = vqResult'
  OBVIOUS
<1>4. ASSUME a + b > 0
      PROVE  /\ g > 0 /\ Divides(g, a) /\ Divides(g, b)
             /\ \A d \in g + 1 .. VqMax : ~(Divides(d, a) /\ Divides(d, b))
  <2>1. Greatest(g, a, b)
    BY <1>1, <1>3, <1>4, GcdIs, Zenon
  <2>2. g \in Nat \ {0} /\ Divides(g, a) /\ Divides(g, b)
    BY <2>1, Zenon DEF Greatest
  <2>3. ASSUME NEW d \in g + 1 .. VqMax
        PROVE  ~(Divides(d, a) /\ Divides(d, b))
    <3>1. d \in Nat /\ d > g
      BY <2>2, VqAssumption
    <3>2. QED BY <2>1, <3>1, Zenon DEF Greatest
  <2>4. g > 0
    BY <2>2
  <2>5. QED BY <2>2, <2>3, <2>4
<1>5. VqGcd'
  BY <1>2, <1>3, <1>4 DEF VqGcd
<1>6. QED BY <1>2, <1>5 DEF VqSafe, VqQuantised, VqWindow

LEMMA CallQuantizeSafe == CallQuantize => VqSafe'
<1> SUFFICES ASSUME CallQuantize PROVE VqSafe'
  OBVIOUS
<1>1. PICK s \in BOOLEAN, i \in VqBits, f \in VqBits, v \in VqValues :
        /\ i + f < 32
        /\ vqCall' = [fn |-> "quantize", signed |-> s, ib |-> i, fb |-> f, v |-> v]
        /\ vqResult' = quantize_coefficient(s, i, f, v)
  BY Zenon DEF CallQuantize
<1>2. /\ vqCall'.fn = "quantize" /\ vqCall'.signed = s /\ vqCall'.ib = i /\ vqCall'.fb = f
      /\ vqCall'.v = v
  BY <1>1
<1>3. i + f \in 0 .. 31 /\ f \in 0 .. 31 /\ v \in Int
  BY <1>1, VqAssumption
<1>4. PICK p \in Nat \ {0}, c \in Nat \ {0} : p = 2 ^ f /\ c = 2 ^ (i + f)
  BY <1>3, PowerIs
<1>5. PICK x \in Int : x = v * p
  BY <1>3, <1>4
<1>6. PICK l \in Int, u \in Int : l = Lower(s, i + f) /\ u = Upper(i + f) /\ l <= u /\ u = c - 1
                                  /\ l = IF s THEN -c ELSE 0
  BY <1>4 DEF Lower, Upper
<1>7. PICK t : t = IF Rounded(x) < l THEN l ELSE IF Rounded(x) > u THEN u ELSE Rounded(x)
  OBVIOUS
<1>8. vqResult' = t
  BY <1>1, <1>4, <1>5, <1>6, <1>7, Zenon DEF quantize_coefficient
<1>9. \A z \in l .. u : t \in l .. u /\ Abs(x - t * VqScale) <= Abs(x - z * VqScale)
  BY <1>6, <1>7, NearestTaken, Zenon
<1>10. t \in l .. u
  <2>1. l \in l .. u
    BY <1>6
  <2>2. QED BY <1>9, <2>1, Zenon
<1>11. VqQuantised'
  <2>1. /\ (IF s THEN -(2 ^ (i + f)) ELSE 0) = l /\ 2 ^ (i + f) - 1 = u
        /\ v * 2 ^ f = x
    BY <1>4, <1>5, <1>6
  <2>2. t \in (IF s THEN -(2 ^ (i + f)) ELSE 0) .. (2 ^ (i + f) - 1)
    BY <1>10, <2>1, Zenon
  <2>3. \A z \in (IF s THEN -(2 ^ (i + f)) ELSE 0) .. (2 ^ (i + f) - 1) :
          Abs(v * 2 ^ f - t * VqScale) <= Abs(v * 2 ^ f - z * VqScale)
    BY <1>9, <2>1, Zenon
  <2>4. QED BY <1>2, <1>8, <2>2, <2>3, Zenon DEF VqQuantised
<1>12. QED BY <1>2, <1>11 DEF VqSafe, VqGcd, VqWindow

LEMMA CallWindowSafe == CallWindow => VqSafe'
<1> SUFFICES ASSUME CallWindow PROVE VqSafe'
  OBVIOUS
<1>1. PICK t \in VqTaps, in \in VqSizes, out \in VqSizes :
        /\ vqCall' = [fn |-> "window", taps |-> t, in |-> in, out |-> out]
        /\ vqResult' = window(t, in, out)
  BY Zenon DEF CallWindow
<1>2. vqCall'.fn = "window" /\ vqCall'.taps = t
  BY <1>1
<1>3. t \in Nat \ {0} /\ in \in Nat \ {0} /\ out \in Nat \ {0}
  BY VqAssumption
<1>4. PICK w : w = vqResult'
  OBVIOUS
<1>5. /\ w.first >= 0 /\ w.used >= 1 /\ t - (w.first + w.used) >= 0
      /\ Abs(w.first - (t - (w.first + w.used))) <= 1
  BY <1>1, <1>3, <1>4, WindowIs, Zenon
<1>6. VqWindow'
  BY <1>2, <1>4, <1>5, Zenon DEF VqWindow
<1>7. QED BY <1>2, <1>6 DEF VqSafe, VqGcd, VqQuantised

\* The arithmetic does what the drivers use it for, for every bound, scale and
\* set of arguments: gcd is the greatest common divisor, a quantised
\* coefficient (a fraction, where the code has a float) the nearest number of
\* its bits, and the taps in use lie in the middle of the taps (VipMath.cpp
\* 17-61, ScalerCoefficientsSet.cpp 25-35).
THEOREM ArithmeticIsRight == VqSpec => []VqSafe
<1>1. VqSafe /\ [VqNext]_vqVars => VqSafe'
  <2> SUFFICES ASSUME VqSafe, [VqNext]_vqVars PROVE VqSafe'
    OBVIOUS
  <2>1. CASE VqDone
    BY <2>1 DEF VqDone, VqSafe, VqGcd, VqQuantised, VqWindow
  <2>2. CASE UNCHANGED vqVars
    BY <2>2 DEF vqVars, VqSafe, VqGcd, VqQuantised, VqWindow
  <2>3. QED BY <2>1, <2>2, CallGcdSafe, CallQuantizeSafe, CallWindowSafe DEF VqNext
<1>2. QED BY InitVqSafe, <1>1, PTL DEF VqSpec

(***************************************************************************)
(* The printer of the ADV7181's state.                                     *)
(***************************************************************************)
(* Where a field is taken from, and that its texts fit.                    *)
Placed(f, name, of, at, width) ==
  f.name = name /\ f.of = of /\ f.at = at /\ f.width = width
Named(f, name, width) == name = "AD_RESULT" \/ f.known \subseteq 0..2^width - 1
Shown(f, name, of, at, width) == Placed(f, name, of, at, width) /\ Named(f, name, width)
Fits(f) == f.name # "AD_RESULT" => f.known \subseteq 0..2^f.width - 1
ShownApart(f, g) ==
  f.of = g.of /\ f.name # g.name /\ {f.name, g.name} \notin Overlapping
    => Covers(f) \cap Covers(g) = {}

LEMMA ShownFits == ASSUME NEW f, NEW n, NEW o, NEW a, NEW w, Shown(f, n, o, a, w)
                   PROVE  Fits(f)
BY DEF Shown, Placed, Named, Fits

LEMMA OneBeforeOther ==
  ASSUME NEW f, NEW g, f.at \in Int, f.width \in Int, g.at \in Int, g.width \in Int,
         f.at + f.width <= g.at \/ g.at + g.width <= f.at
  PROVE  Covers(f) \cap Covers(g) = {}
BY SMT DEF Covers

LEMMA FourBits ==
  ASSUME NEW of, NEW a, NEW b, NEW c, NEW d, NEW f \in Bits(of, <<a, b, c, d>>)
  PROVE  f \in {Bit(a, of, 0), Bit(b, of, 1), Bit(c, of, 2), Bit(d, of, 3)}
<1>1. PICK n \in DOMAIN <<a, b, c, d>> : f = Bit(<<a, b, c, d>>[n], of, n - 1)
  BY Zenon DEF Bits
<1>2. n \in 1..4
  BY ONLY <1>1, SMT
<1>. QED BY ONLY <1>1, <1>2, SMT DEF Bit, Field

LEMMA EightBits ==
  ASSUME NEW of, NEW a, NEW b, NEW c, NEW d, NEW r, NEW s, NEW t, NEW u,
         NEW f \in Bits(of, <<a, b, c, d, r, s, t, u>>)
  PROVE  f \in {Bit(a, of, 0), Bit(b, of, 1), Bit(c, of, 2), Bit(d, of, 3),
                Bit(r, of, 4), Bit(s, of, 5), Bit(t, of, 6), Bit(u, of, 7)}
<1>1. PICK n \in DOMAIN <<a, b, c, d, r, s, t, u>> :
        f = Bit(<<a, b, c, d, r, s, t, u>>[n], of, n - 1)
  BY Zenon DEF Bits
<1>2. n \in 1..8
  BY ONLY <1>1, SMT
<1>. QED BY ONLY <1>1, <1>2, SMT DEF Bit, Field

InctrlPlaces(f) ==
  \/ Shown(f, "INSEL", 0, 0, 4)
  \/ Shown(f, "VIDSEL", 0, 4, 4)

LEMMA InctrlShown == ASSUME NEW f \in INCTRL_DECODE PROVE InctrlPlaces(f)
BY SMT DEF INCTRL_DECODE, Field, Bit, Shown, Placed, Named, InctrlPlaces

VideoSelectionPlaces(f) ==
  \/ Shown(f, "ENVSPROC", 1, 3, 1)
  \/ Shown(f, "BETACAM", 1, 5, 1)
  \/ Shown(f, "ENHSPLL", 1, 6, 1)

LEMMA VideoSelectionShown == ASSUME NEW f \in VIDEO_SELECTION_DECODE PROVE VideoSelectionPlaces(f)
BY SMT DEF VIDEO_SELECTION_DECODE, Field, Bit, Shown, Placed, Named, VideoSelectionPlaces

OutputControlPlaces(f) ==
  \/ Shown(f, "SD_DUP_AV", 3, 0, 1)
  \/ Shown(f, "OF_SEL", 3, 2, 4)
  \/ Shown(f, "TOD", 3, 6, 1)
  \/ Shown(f, "VBI_EN", 3, 7, 1)

LEMMA OutputControlShown == ASSUME NEW f \in OUTPUT_CONTROL_DECODE PROVE OutputControlPlaces(f)
BY SMT DEF OUTPUT_CONTROL_DECODE, Field, Bit, Shown, Placed, Named, OutputControlPlaces

ExOutputControlPlaces(f) ==
  \/ Shown(f, "RANGE", 4, 0, 1)
  \/ Shown(f, "EN_SFL_PIN", 4, 1, 1)
  \/ Shown(f, "BL_C_VBI", 4, 2, 1)
  \/ Shown(f, "TIM_OE", 4, 3, 1)
  \/ Shown(f, "BT656_4", 4, 7, 1)

LEMMA ExOutputControlShown == ASSUME NEW f \in EX_OUTPUT_CONTROL_DECODE
    PROVE ExOutputControlPlaces(f)
BY SMT DEF EX_OUTPUT_CONTROL_DECODE, Field, Bit, Shown, Placed, Named, ExOutputControlPlaces

VideoStandartPlaces(f) ==
  \/ Shown(f, "PRIM_MODE", 5, 0, 4)
  \/ Shown(f, "VID_STD", 6, 0, 4)

LEMMA VideoStandartShown == ASSUME NEW p \in Int, NEW f \in VIDEO_STANDART_DECODE(p)
    PROVE VideoStandartPlaces(f)
<1>1. Standards(p % 16) \subseteq 0..15
  BY SMT DEF Standards
<1>2. CASE f = Field("PRIM_MODE", 5, 0, 4, 0..2)
  BY <1>2, SMT DEF Field, Shown, Placed, Named, VideoStandartPlaces
<1>3. CASE f = Field("VID_STD", 6, 0, 4, Standards(p % 16))
  <2>1. PICK k : k = Standards(p % 16)
    OBVIOUS
  <2>. QED BY ONLY <1>3, <1>1, <2>1, SMT DEF Field, Shown, Placed, Named, VideoStandartPlaces
<1>. QED BY <1>2, <1>3, Zenon DEF VIDEO_STANDART_DECODE

PowerMenegementPlaces(f) ==
  \/ Shown(f, "FB_PWRDN", 15, 1, 1)
  \/ Shown(f, "PWRDN_0", 15, 2, 1)
  \/ Shown(f, "CP_PWRDN", 15, 3, 1)
  \/ Shown(f, "PWRSAV", 15, 4, 1)
  \/ Shown(f, "PWRDN_1", 15, 5, 1)
  \/ Shown(f, "RESET", 15, 7, 1)

LEMMA PowerMenegementShown == ASSUME NEW f \in POWER_MENEGEMENT_DECODE
    PROVE PowerMenegementPlaces(f)
BY SMT DEF POWER_MENEGEMENT_DECODE, Field, Bit, Shown, Placed, Named, PowerMenegementPlaces

AdcControlPlaces(f) ==
  \/ Shown(f, "Range", 58, 4, 4)
  \/ Shown(f, "ADC0", 58, 0, 1)
  \/ Shown(f, "ADC1", 58, 1, 1)
  \/ Shown(f, "ADC2", 58, 2, 1)
  \/ Shown(f, "ADC3", 58, 3, 1)

LEMMA AdcControlShown == ASSUME NEW f \in ADC_CONTROL_DECODE PROVE AdcControlPlaces(f)
<1>1. CASE f \in Bits(58, <<"ADC0", "ADC1", "ADC2", "ADC3">>)
  <2>1. f \in {Bit("ADC0", 58, 0), Bit("ADC1", 58, 1), Bit("ADC2", 58, 2), Bit("ADC3", 58, 3)}
    BY ONLY <1>1, FourBits, Zenon
  <2>. QED BY ONLY <2>1, SMT DEF Bit, Field, Shown, Placed, Named, AdcControlPlaces
<1>2. CASE f \notin UNION {Bits(58, <<"ADC0", "ADC1", "ADC2", "ADC3">>)}
  BY <1>2, SMT DEF ADC_CONTROL_DECODE, Field, Bit, Shown, Placed, Named, AdcControlPlaces
<1>. QED BY <1>1, <1>2, Zenon

BiasCtrlPlaces(f) ==
  \/ Shown(f, "EN_INTERNAL_RES", 59, 0, 1)
  \/ Shown(f, "IBIAS_SET", 59, 3, 5)

LEMMA BiasCtrlShown == ASSUME NEW f \in BIAS_CTRL_DECODE PROVE BiasCtrlPlaces(f)
BY SMT DEF BIAS_CTRL_DECODE, Field, Bit, Shown, Placed, Named, BiasCtrlPlaces

TtlcCtrlPlaces(f) ==
  \/ Shown(f, "PLL_QPUMP", 60, 0, 3)
  \/ Shown(f, "SOG_SYNC_LEVEL", 60, 3, 5)
  \/ Shown(f, "CKILLTHR", 60, 4, 3)

LEMMA TtlcCtrlShown == ASSUME NEW f \in (TTLC_CTRL_DECODE \cup MANUAL_WINDOW_DECODE)
    PROVE TtlcCtrlPlaces(f)
BY SMT DEF TTLC_CTRL_DECODE, MANUAL_WINDOW_DECODE, Field, Bit, Shown, Placed, Named,
    TtlcCtrlPlaces

LockCntPlaces(f) ==
  \/ Shown(f, "CIL", 81, 3, 3)
  \/ Shown(f, "COL", 81, 0, 3)
  \/ Shown(f, "SRLS", 81, 6, 1)
  \/ Shown(f, "FSCLE", 81, 7, 1)

LEMMA LockCntShown == ASSUME NEW f \in LOCK_CNT_DECODE PROVE LockCntPlaces(f)
BY SMT DEF LOCK_CNT_DECODE, Field, Bit, Shown, Placed, Named, LockCntPlaces

Configure1Places(f) ==
  \/ Shown(f, "SDM_SEL", 105, 0, 2)
  \/ Shown(f, "INV_DINCLK", 105, 5, 1)
  \/ Shown(f, "SYN_LO_TRIG", 105, 6, 1)
  \/ Shown(f, "TRI_LEVEL", 105, 7, 1)
  \/ Shown(f, "DLL_PH", 105, 0, 5)
  \/ Shown(f, "BYP_DLL", 105, 5, 1)

LEMMA Configure1Shown == ASSUME NEW f \in (CONFIGURE1_DECODE \cup TLLC_PA_DECODE)
    PROVE Configure1Places(f)
BY SMT DEF CONFIGURE1_DECODE, TLLC_PA_DECODE, Field, Bit, Shown, Placed, Named, Configure1Places

CpOutSelPlaces(f) ==
  \/ Shown(f, "CPOP_SEL", 107, 0, 4)
  \/ Shown(f, "F_OUT_SEL", 107, 6, 1)
  \/ Shown(f, "HS_OUT_SEL", 107, 7, 1)

LEMMA CpOutSelShown == ASSUME NEW f \in CP_OUT_SEL_DECODE PROVE CpOutSelPlaces(f)
BY SMT DEF CP_OUT_SEL_DECODE, Field, Bit, Shown, Placed, Named, CpOutSelPlaces

CpMeasureCtrlPlaces(f) ==
  \/ Shown(f, "ISD_THR", 131, 0, 8)
  \/ Shown(f, "ISFD_AVG", 132, 0, 1)
  \/ Shown(f, "CP_GAIN_FILT", 132, 4, 4)

LEMMA CpMeasureCtrlShown == ASSUME NEW f \in CP_MEASURE_CTRL_DECODE PROVE CpMeasureCtrlPlaces(f)
BY SMT DEF CP_MEASURE_CTRL_DECODE, Field, Bit, Shown, Placed, Named, CpMeasureCtrlPlaces

CpDetectionCtrlPlaces(f) ==
  \/ Shown(f, "DS_OUT", 133, 0, 1)
  \/ Shown(f, "SSPD_CONT", 133, 1, 1)
  \/ Shown(f, "SYN_SRC", 133, 3, 3)
  \/ Shown(f, "POL_HSCS", 133, 5, 1)
  \/ Shown(f, "POL_VS", 133, 6, 1)
  \/ Shown(f, "POL_MAN_EN", 133, 7, 1)

LEMMA CpDetectionCtrlShown == ASSUME NEW f \in CP_DETECTION_CTRL_DECODE
    PROVE CpDetectionCtrlPlaces(f)
BY SMT DEF CP_DETECTION_CTRL_DECODE, Field, Bit, Shown, Placed, Named, CpDetectionCtrlPlaces

CpMiscCtrlPlaces(f) ==
  \/ Shown(f, "STDI_CONT", 134, 1, 1)
  \/ Shown(f, "STDI_LINE_COUNT_MODE", 134, 3, 1)
  \/ Shown(f, "CPOP_INV_Crb", 134, 4, 1)

LEMMA CpMiscCtrlShown == ASSUME NEW f \in CP_MISC_CTRL_DECODE PROVE CpMiscCtrlPlaces(f)
BY SMT DEF CP_MISC_CTRL_DECODE, Field, Bit, Shown, Placed, Named, CpMiscCtrlPlaces

CpTllcControlPlaces(f) ==
  \/ Shown(f, "PLL_DLL_UPD_VS_EN", 135, 4, 1)
  \/ Shown(f, "PLL_DIV_MAN_EN", 135, 7, 1)
  \/ Shown(f, "SWAP_CR_CB_WB", 137, 4, 1)
  \/ Shown(f, "VCO_RANGE", 137, 5, 2)
  \/ Shown(f, "VCO_RANGE_MAN", 137, 7, 1)

LEMMA CpTllcControlShown == ASSUME NEW f \in CP_TLLC_CONTROL_DECODE PROVE CpTllcControlPlaces(f)
BY SMT DEF CP_TLLC_CONTROL_DECODE, Field, Bit, Shown, Placed, Named, CpTllcControlPlaces

CpDefColorPlaces(f) ==
  \/ Shown(f, "CP_DEF_COL_FORCE", 191, 0, 1)
  \/ Shown(f, "CP_DEF_COL_AUTO", 191, 1, 1)
  \/ Shown(f, "CP_DEF_COL_MAN_VAL", 191, 2, 1)
  \/ Shown(f, "DEF_COL_CHA", 192, 0, 8)
  \/ Shown(f, "DEF_COL_CHB", 193, 0, 8)
  \/ Shown(f, "DEF_COL_CHC", 194, 0, 8)

LEMMA CpDefColorShown == ASSUME NEW f \in CP_DEF_COLOR_DECODE PROVE CpDefColorPlaces(f)
BY SMT DEF CP_DEF_COLOR_DECODE, Field, Bit, Shown, Placed, Named, CpDefColorPlaces

AdcSwitchPlaces(f) ==
  \/ Shown(f, "ADC0_SW", 195, 0, 4)
  \/ Shown(f, "ADC1_SW", 195, 4, 4)
  \/ Shown(f, "ADC2_SW", 196, 0, 4)
  \/ Shown(f, "SOG_SEL", 196, 6, 1)
  \/ Shown(f, "ADC_SW_MAN_EN", 196, 7, 1)

LEMMA AdcSwitchShown == ASSUME NEW f \in ADC_SWITCH_DECODE PROVE AdcSwitchPlaces(f)
BY SMT DEF ADC_SWITCH_DECODE, Field, Bit, Shown, Placed, Named, AdcSwitchPlaces

DdrModePlaces(f) ==
  \/ Shown(f, "DPP_CP_BYPASS", 201, 0, 1)
  \/ Shown(f, "DDS_DIN_CLK_EN", 201, 1, 1)
  \/ Shown(f, "DDR_I2C_RC_FIRST", 201, 2, 1)
  \/ Shown(f, "DDR_EN", 201, 3, 1)

LEMMA DdrModeShown == ASSUME NEW f \in DDR_MODE_DECODE PROVE DdrModePlaces(f)
<1>1. CASE f \in Bits(201, <<"DPP_CP_BYPASS", "DDS_DIN_CLK_EN", "DDR_I2C_RC_FIRST", "DDR_EN">>)
  <2>1. f \in {Bit("DPP_CP_BYPASS", 201, 0), Bit("DDS_DIN_CLK_EN", 201, 1),
      Bit("DDR_I2C_RC_FIRST", 201, 2), Bit("DDR_EN", 201, 3)}
    BY ONLY <1>1, FourBits, SMT
  <2>. QED BY ONLY <2>1, SMT DEF Bit, Field, Shown, Placed, Named, DdrModePlaces
<1>. QED BY <1>1, Zenon DEF DDR_MODE_DECODE

StatusPlaces(f) ==
  \/ Shown(f, "REVISION", 17, 0, 8)
  \/ Shown(f, "AD_RESULT", 16, 0, 1)
  \/ Shown(f, "COL_KILL", 16, 7, 1)
  \/ Shown(f, "IN_LOCK", 16, 0, 1)
  \/ Shown(f, "LOST_LOCK", 16, 1, 1)
  \/ Shown(f, "FSC_LOCK", 16, 2, 1)
  \/ Shown(f, "FOLLOW_PW", 16, 3, 1)
  \/ Shown(f, "MCVS_DET", 18, 0, 1)
  \/ Shown(f, "MCVS_T3", 18, 1, 1)
  \/ Shown(f, "MV_PS_DET", 18, 2, 1)
  \/ Shown(f, "MV_AGC", 18, 3, 1)
  \/ Shown(f, "LL_NSTD", 18, 4, 1)
  \/ Shown(f, "FSC_NSTD", 18, 5, 1)
  \/ Shown(f, "CP_FREE_RUN", 18, 6, 1)
  \/ Shown(f, "TLLC_PLL_LOCK", 18, 7, 1)
  \/ Shown(f, "INST_HLOCK", 19, 0, 1)
  \/ Shown(f, "GEMD", 19, 1, 1)
  \/ Shown(f, "SD_OP_50Hz", 19, 2, 1)
  \/ Shown(f, "CVBS", 19, 3, 1)
  \/ Shown(f, "FREE_RUN_ACT", 19, 4, 1)
  \/ Shown(f, "STD_FLD_LEN", 19, 5, 1)
  \/ Shown(f, "INTERLACE", 19, 6, 1)
  \/ Shown(f, "PAL_SW_LOCK", 19, 7, 1)

LEMMA StatusShown == ASSUME NEW f \in STATUS_DECODE PROVE StatusPlaces(f)
<1>1. CASE f \in Bits(16, <<"IN_LOCK", "LOST_LOCK", "FSC_LOCK", "FOLLOW_PW">>)
  <2>1. f \in {Bit("IN_LOCK", 16, 0), Bit("LOST_LOCK", 16, 1), Bit("FSC_LOCK", 16, 2),
      Bit("FOLLOW_PW", 16, 3)}
    BY ONLY <1>1, FourBits, Zenon
  <2>. QED BY ONLY <2>1, SMT DEF Bit, Field, Shown, Placed, Named, StatusPlaces
<1>2. CASE f \in Bits(18, <<"MCVS_DET", "MCVS_T3", "MV_PS_DET", "MV_AGC", "LL_NSTD", "FSC_NSTD",
    "CP_FREE_RUN", "TLLC_PLL_LOCK">>)
  <2>1. f \in {Bit("MCVS_DET", 18, 0), Bit("MCVS_T3", 18, 1), Bit("MV_PS_DET", 18, 2),
      Bit("MV_AGC", 18, 3), Bit("LL_NSTD", 18, 4), Bit("FSC_NSTD", 18, 5), Bit("CP_FREE_RUN", 18,
      6), Bit("TLLC_PLL_LOCK", 18, 7)}
    BY ONLY <1>2, EightBits, Zenon
  <2>. QED BY ONLY <2>1, SMT DEF Bit, Field, Shown, Placed, Named, StatusPlaces
<1>3. CASE f \in Bits(19, <<"INST_HLOCK", "GEMD", "SD_OP_50Hz", "CVBS", "FREE_RUN_ACT",
    "STD_FLD_LEN", "INTERLACE", "PAL_SW_LOCK">>)
  <2>1. f \in {Bit("INST_HLOCK", 19, 0), Bit("GEMD", 19, 1), Bit("SD_OP_50Hz", 19, 2),
      Bit("CVBS", 19, 3), Bit("FREE_RUN_ACT", 19, 4), Bit("STD_FLD_LEN", 19, 5), Bit("INTERLACE",
      19, 6), Bit("PAL_SW_LOCK", 19, 7)}
    BY ONLY <1>3, EightBits, Zenon
  <2>. QED BY ONLY <2>1, SMT DEF Bit, Field, Shown, Placed, Named, StatusPlaces
<1>4. CASE f \notin UNION {Bits(16, <<"IN_LOCK", "LOST_LOCK", "FSC_LOCK", "FOLLOW_PW">>),
    Bits(18, <<"MCVS_DET", "MCVS_T3", "MV_PS_DET", "MV_AGC", "LL_NSTD", "FSC_NSTD",
    "CP_FREE_RUN", "TLLC_PLL_LOCK">>), Bits(19, <<"INST_HLOCK", "GEMD", "SD_OP_50Hz", "CVBS",
    "FREE_RUN_ACT", "STD_FLD_LEN", "INTERLACE", "PAL_SW_LOCK">>)}
  BY <1>4, SMT DEF STATUS_DECODE, Field, Bit, Shown, Placed, Named, StatusPlaces
<1>. QED BY <1>1, <1>2, <1>3, <1>4, Zenon

(* The pairs that may meet, in either order.                               *)
Meet(f, g, a, b) == (f.name = a /\ g.name = b) \/ (f.name = b /\ g.name = a)
LEMMA MayMeet ==
  ASSUME NEW f, NEW g, {f.name, g.name} \notin Overlapping
  PROVE  /\ ~Meet(f, g, "AD_RESULT", "IN_LOCK")
         /\ ~Meet(f, g, "SYN_SRC", "POL_HSCS")
         /\ ~Meet(f, g, "CKILLTHR", "SOG_SYNC_LEVEL")
         /\ ~Meet(f, g, "DLL_PH", "SDM_SEL")
         /\ ~Meet(f, g, "BYP_DLL", "INV_DINCLK")
<1>1. ~Meet(f, g, "AD_RESULT", "IN_LOCK")
  <2>1. {f.name, g.name} # {"AD_RESULT", "IN_LOCK"}
    BY Zenon DEF Overlapping
  <2>. QED BY ONLY <2>1, Zenon DEF Meet
<1>2. ~Meet(f, g, "SYN_SRC", "POL_HSCS")
  <2>1. {f.name, g.name} # {"SYN_SRC", "POL_HSCS"}
    BY Zenon DEF Overlapping
  <2>. QED BY ONLY <2>1, Zenon DEF Meet
<1>3. ~Meet(f, g, "CKILLTHR", "SOG_SYNC_LEVEL")
  <2>1. {f.name, g.name} # {"CKILLTHR", "SOG_SYNC_LEVEL"}
    BY Zenon DEF Overlapping
  <2>. QED BY ONLY <2>1, Zenon DEF Meet
<1>4. ~Meet(f, g, "DLL_PH", "SDM_SEL")
  <2>1. {f.name, g.name} # {"DLL_PH", "SDM_SEL"}
    BY Zenon DEF Overlapping
  <2>. QED BY ONLY <2>1, Zenon DEF Meet
<1>5. ~Meet(f, g, "BYP_DLL", "INV_DINCLK")
  <2>1. {f.name, g.name} # {"BYP_DLL", "INV_DINCLK"}
    BY Zenon DEF Overlapping
  <2>. QED BY ONLY <2>1, Zenon DEF Meet
<1>. QED BY <1>1, <1>2, <1>3, <1>4, <1>5, Zenon

LEMMA InctrlApart ==
  ASSUME NEW f, NEW g, InctrlPlaces(f), InctrlPlaces(g)
  PROVE  f.of \in {0} /\ ShownApart(f, g)
<1>1. f.of \in {0}
  BY SMT DEF InctrlPlaces, Shown, Placed
<1>2. ASSUME f.of = g.of, f.name # g.name, {f.name, g.name} \notin Overlapping
      PROVE  /\ f.at \in Int /\ f.width \in Int /\ g.at \in Int /\ g.width \in Int
             /\ (f.at + f.width <= g.at \/ g.at + g.width <= f.at)
  BY ONLY InctrlPlaces(f), InctrlPlaces(g), <1>2, SMT DEF InctrlPlaces, Shown, Placed
<1>3. ShownApart(f, g)
  BY ONLY <1>2, OneBeforeOther, Zenon DEF ShownApart
<1>. QED BY ONLY <1>1, <1>3

LEMMA VideoSelectionApart ==
  ASSUME NEW f, NEW g, VideoSelectionPlaces(f), VideoSelectionPlaces(g)
  PROVE  f.of \in {1} /\ ShownApart(f, g)
<1>1. f.of \in {1}
  BY SMT DEF VideoSelectionPlaces, Shown, Placed
<1>2. ASSUME f.of = g.of, f.name # g.name, {f.name, g.name} \notin Overlapping
      PROVE  /\ f.at \in Int /\ f.width \in Int /\ g.at \in Int /\ g.width \in Int
             /\ (f.at + f.width <= g.at \/ g.at + g.width <= f.at)
  BY ONLY VideoSelectionPlaces(f), VideoSelectionPlaces(g), <1>2, SMT DEF VideoSelectionPlaces,
      Shown, Placed
<1>3. ShownApart(f, g)
  BY ONLY <1>2, OneBeforeOther, Zenon DEF ShownApart
<1>. QED BY ONLY <1>1, <1>3

LEMMA OutputControlApart ==
  ASSUME NEW f, NEW g, OutputControlPlaces(f), OutputControlPlaces(g)
  PROVE  f.of \in {3} /\ ShownApart(f, g)
<1>1. f.of \in {3}
  BY SMT DEF OutputControlPlaces, Shown, Placed
<1>2. ASSUME f.of = g.of, f.name # g.name, {f.name, g.name} \notin Overlapping
      PROVE  /\ f.at \in Int /\ f.width \in Int /\ g.at \in Int /\ g.width \in Int
             /\ (f.at + f.width <= g.at \/ g.at + g.width <= f.at)
  BY ONLY OutputControlPlaces(f), OutputControlPlaces(g), <1>2, SMT DEF OutputControlPlaces,
      Shown, Placed
<1>3. ShownApart(f, g)
  BY ONLY <1>2, OneBeforeOther, Zenon DEF ShownApart
<1>. QED BY ONLY <1>1, <1>3

LEMMA ExOutputControlApart ==
  ASSUME NEW f, NEW g, ExOutputControlPlaces(f), ExOutputControlPlaces(g)
  PROVE  f.of \in {4} /\ ShownApart(f, g)
<1>1. f.of \in {4}
  BY SMT DEF ExOutputControlPlaces, Shown, Placed
<1>2. ASSUME f.of = g.of, f.name # g.name, {f.name, g.name} \notin Overlapping
      PROVE  /\ f.at \in Int /\ f.width \in Int /\ g.at \in Int /\ g.width \in Int
             /\ (f.at + f.width <= g.at \/ g.at + g.width <= f.at)
  BY ONLY ExOutputControlPlaces(f), ExOutputControlPlaces(g), <1>2,
      SMT DEF ExOutputControlPlaces, Shown, Placed
<1>3. ShownApart(f, g)
  BY ONLY <1>2, OneBeforeOther, Zenon DEF ShownApart
<1>. QED BY ONLY <1>1, <1>3

LEMMA VideoStandartApart ==
  ASSUME NEW f, NEW g, VideoStandartPlaces(f), VideoStandartPlaces(g)
  PROVE  f.of \in {5, 6} /\ ShownApart(f, g)
<1>1. f.of \in {5, 6}
  BY SMT DEF VideoStandartPlaces, Shown, Placed
<1>2. ASSUME f.of = g.of, f.name # g.name, {f.name, g.name} \notin Overlapping
      PROVE  /\ f.at \in Int /\ f.width \in Int /\ g.at \in Int /\ g.width \in Int
             /\ (f.at + f.width <= g.at \/ g.at + g.width <= f.at)
  BY ONLY VideoStandartPlaces(f), VideoStandartPlaces(g), <1>2, SMT DEF VideoStandartPlaces,
      Shown, Placed
<1>3. ShownApart(f, g)
  BY ONLY <1>2, OneBeforeOther, Zenon DEF ShownApart
<1>. QED BY ONLY <1>1, <1>3

LEMMA PowerMenegementApart ==
  ASSUME NEW f, NEW g, PowerMenegementPlaces(f), PowerMenegementPlaces(g)
  PROVE  f.of \in {15} /\ ShownApart(f, g)
<1>1. f.of \in {15}
  BY SMT DEF PowerMenegementPlaces, Shown, Placed
<1>2. ASSUME f.of = g.of, f.name # g.name, {f.name, g.name} \notin Overlapping
      PROVE  /\ f.at \in Int /\ f.width \in Int /\ g.at \in Int /\ g.width \in Int
             /\ (f.at + f.width <= g.at \/ g.at + g.width <= f.at)
  BY ONLY PowerMenegementPlaces(f), PowerMenegementPlaces(g), <1>2,
      SMT DEF PowerMenegementPlaces, Shown, Placed
<1>3. ShownApart(f, g)
  BY ONLY <1>2, OneBeforeOther, Zenon DEF ShownApart
<1>. QED BY ONLY <1>1, <1>3

LEMMA AdcControlApart ==
  ASSUME NEW f, NEW g, AdcControlPlaces(f), AdcControlPlaces(g)
  PROVE  f.of \in {58} /\ ShownApart(f, g)
<1>1. f.of \in {58}
  BY SMT DEF AdcControlPlaces, Shown, Placed
<1>2. ASSUME f.of = g.of, f.name # g.name, {f.name, g.name} \notin Overlapping
      PROVE  /\ f.at \in Int /\ f.width \in Int /\ g.at \in Int /\ g.width \in Int
             /\ (f.at + f.width <= g.at \/ g.at + g.width <= f.at)
  BY ONLY AdcControlPlaces(f), AdcControlPlaces(g), <1>2, SMT DEF AdcControlPlaces, Shown, Placed
<1>3. ShownApart(f, g)
  BY ONLY <1>2, OneBeforeOther, Zenon DEF ShownApart
<1>. QED BY ONLY <1>1, <1>3

LEMMA BiasCtrlApart ==
  ASSUME NEW f, NEW g, BiasCtrlPlaces(f), BiasCtrlPlaces(g)
  PROVE  f.of \in {59} /\ ShownApart(f, g)
<1>1. f.of \in {59}
  BY SMT DEF BiasCtrlPlaces, Shown, Placed
<1>2. ASSUME f.of = g.of, f.name # g.name, {f.name, g.name} \notin Overlapping
      PROVE  /\ f.at \in Int /\ f.width \in Int /\ g.at \in Int /\ g.width \in Int
             /\ (f.at + f.width <= g.at \/ g.at + g.width <= f.at)
  BY ONLY BiasCtrlPlaces(f), BiasCtrlPlaces(g), <1>2, SMT DEF BiasCtrlPlaces, Shown, Placed
<1>3. ShownApart(f, g)
  BY ONLY <1>2, OneBeforeOther, Zenon DEF ShownApart
<1>. QED BY ONLY <1>1, <1>3

LEMMA TtlcCtrlApart ==
  ASSUME NEW f, NEW g, TtlcCtrlPlaces(f), TtlcCtrlPlaces(g)
  PROVE  f.of \in {60} /\ ShownApart(f, g)
<1>1. f.of \in {60}
  BY SMT DEF TtlcCtrlPlaces, Shown, Placed
<1>2. ASSUME f.of = g.of, f.name # g.name, {f.name, g.name} \notin Overlapping
      PROVE  /\ f.at \in Int /\ f.width \in Int /\ g.at \in Int /\ g.width \in Int
             /\ (f.at + f.width <= g.at \/ g.at + g.width <= f.at)
  <2>1. ~Meet(f, g, "CKILLTHR", "SOG_SYNC_LEVEL")
    BY ONLY <1>2, MayMeet, Zenon
  <2>. QED BY ONLY TtlcCtrlPlaces(f), TtlcCtrlPlaces(g), <1>2, <2>1, SMT DEF TtlcCtrlPlaces,
      Shown, Placed, Meet
<1>3. ShownApart(f, g)
  BY ONLY <1>2, OneBeforeOther, Zenon DEF ShownApart
<1>. QED BY ONLY <1>1, <1>3

LEMMA LockCntApart ==
  ASSUME NEW f, NEW g, LockCntPlaces(f), LockCntPlaces(g)
  PROVE  f.of \in {81} /\ ShownApart(f, g)
<1>1. f.of \in {81}
  BY SMT DEF LockCntPlaces, Shown, Placed
<1>2. ASSUME f.of = g.of, f.name # g.name, {f.name, g.name} \notin Overlapping
      PROVE  /\ f.at \in Int /\ f.width \in Int /\ g.at \in Int /\ g.width \in Int
             /\ (f.at + f.width <= g.at \/ g.at + g.width <= f.at)
  BY ONLY LockCntPlaces(f), LockCntPlaces(g), <1>2, SMT DEF LockCntPlaces, Shown, Placed
<1>3. ShownApart(f, g)
  BY ONLY <1>2, OneBeforeOther, Zenon DEF ShownApart
<1>. QED BY ONLY <1>1, <1>3

LEMMA Configure1ShownApart ==
  ASSUME NEW f, NEW g, Configure1Places(f), Configure1Places(g)
  PROVE  f.of \in {105} /\ ShownApart(f, g)
<1>1. f.of \in {105}
  BY SMT DEF Configure1Places, Shown, Placed
<1>2. ASSUME f.of = g.of, f.name # g.name, {f.name, g.name} \notin Overlapping
      PROVE  /\ f.at \in Int /\ f.width \in Int /\ g.at \in Int /\ g.width \in Int
             /\ (f.at + f.width <= g.at \/ g.at + g.width <= f.at)
  <2>1. ~Meet(f, g, "DLL_PH", "SDM_SEL") /\ ~Meet(f, g, "BYP_DLL", "INV_DINCLK")
    BY ONLY <1>2, MayMeet, Zenon
  <2>. QED BY ONLY Configure1Places(f), Configure1Places(g), <1>2, <2>1,
      SMT DEF Configure1Places, Shown, Placed, Meet
<1>3. ShownApart(f, g)
  BY ONLY <1>2, OneBeforeOther, Zenon DEF ShownApart
<1>. QED BY ONLY <1>1, <1>3

LEMMA CpOutSelApart ==
  ASSUME NEW f, NEW g, CpOutSelPlaces(f), CpOutSelPlaces(g)
  PROVE  f.of \in {107} /\ ShownApart(f, g)
<1>1. f.of \in {107}
  BY SMT DEF CpOutSelPlaces, Shown, Placed
<1>2. ASSUME f.of = g.of, f.name # g.name, {f.name, g.name} \notin Overlapping
      PROVE  /\ f.at \in Int /\ f.width \in Int /\ g.at \in Int /\ g.width \in Int
             /\ (f.at + f.width <= g.at \/ g.at + g.width <= f.at)
  BY ONLY CpOutSelPlaces(f), CpOutSelPlaces(g), <1>2, SMT DEF CpOutSelPlaces, Shown, Placed
<1>3. ShownApart(f, g)
  BY ONLY <1>2, OneBeforeOther, Zenon DEF ShownApart
<1>. QED BY ONLY <1>1, <1>3

LEMMA CpMeasureCtrlApart ==
  ASSUME NEW f, NEW g, CpMeasureCtrlPlaces(f), CpMeasureCtrlPlaces(g)
  PROVE  f.of \in {131, 132} /\ ShownApart(f, g)
<1>1. f.of \in {131, 132}
  BY SMT DEF CpMeasureCtrlPlaces, Shown, Placed
<1>2. ASSUME f.of = g.of, f.name # g.name, {f.name, g.name} \notin Overlapping
      PROVE  /\ f.at \in Int /\ f.width \in Int /\ g.at \in Int /\ g.width \in Int
             /\ (f.at + f.width <= g.at \/ g.at + g.width <= f.at)
  BY ONLY CpMeasureCtrlPlaces(f), CpMeasureCtrlPlaces(g), <1>2, SMT DEF CpMeasureCtrlPlaces,
      Shown, Placed
<1>3. ShownApart(f, g)
  BY ONLY <1>2, OneBeforeOther, Zenon DEF ShownApart
<1>. QED BY ONLY <1>1, <1>3

LEMMA CpDetectionCtrlApart ==
  ASSUME NEW f, NEW g, CpDetectionCtrlPlaces(f), CpDetectionCtrlPlaces(g)
  PROVE  f.of \in {133} /\ ShownApart(f, g)
<1>1. f.of \in {133}
  BY SMT DEF CpDetectionCtrlPlaces, Shown, Placed
<1>2. ASSUME f.of = g.of, f.name # g.name, {f.name, g.name} \notin Overlapping
      PROVE  /\ f.at \in Int /\ f.width \in Int /\ g.at \in Int /\ g.width \in Int
             /\ (f.at + f.width <= g.at \/ g.at + g.width <= f.at)
  <2>1. ~Meet(f, g, "SYN_SRC", "POL_HSCS")
    BY ONLY <1>2, MayMeet, Zenon
  <2>. QED BY ONLY CpDetectionCtrlPlaces(f), CpDetectionCtrlPlaces(g), <1>2, <2>1,
      SMT DEF CpDetectionCtrlPlaces, Shown, Placed, Meet
<1>3. ShownApart(f, g)
  BY ONLY <1>2, OneBeforeOther, Zenon DEF ShownApart
<1>. QED BY ONLY <1>1, <1>3

LEMMA CpMiscCtrlApart ==
  ASSUME NEW f, NEW g, CpMiscCtrlPlaces(f), CpMiscCtrlPlaces(g)
  PROVE  f.of \in {134} /\ ShownApart(f, g)
<1>1. f.of \in {134}
  BY SMT DEF CpMiscCtrlPlaces, Shown, Placed
<1>2. ASSUME f.of = g.of, f.name # g.name, {f.name, g.name} \notin Overlapping
      PROVE  /\ f.at \in Int /\ f.width \in Int /\ g.at \in Int /\ g.width \in Int
             /\ (f.at + f.width <= g.at \/ g.at + g.width <= f.at)
  BY ONLY CpMiscCtrlPlaces(f), CpMiscCtrlPlaces(g), <1>2, SMT DEF CpMiscCtrlPlaces, Shown, Placed
<1>3. ShownApart(f, g)
  BY ONLY <1>2, OneBeforeOther, Zenon DEF ShownApart
<1>. QED BY ONLY <1>1, <1>3

LEMMA CpTllcControlApart ==
  ASSUME NEW f, NEW g, CpTllcControlPlaces(f), CpTllcControlPlaces(g)
  PROVE  f.of \in {135, 137} /\ ShownApart(f, g)
<1>1. f.of \in {135, 137}
  BY SMT DEF CpTllcControlPlaces, Shown, Placed
<1>2. ASSUME f.of = g.of, f.name # g.name, {f.name, g.name} \notin Overlapping
      PROVE  /\ f.at \in Int /\ f.width \in Int /\ g.at \in Int /\ g.width \in Int
             /\ (f.at + f.width <= g.at \/ g.at + g.width <= f.at)
  BY ONLY CpTllcControlPlaces(f), CpTllcControlPlaces(g), <1>2, SMT DEF CpTllcControlPlaces,
      Shown, Placed
<1>3. ShownApart(f, g)
  BY ONLY <1>2, OneBeforeOther, Zenon DEF ShownApart
<1>. QED BY ONLY <1>1, <1>3

LEMMA CpDefColorApart ==
  ASSUME NEW f, NEW g, CpDefColorPlaces(f), CpDefColorPlaces(g)
  PROVE  f.of \in {191, 192, 193, 194} /\ ShownApart(f, g)
<1>1. f.of \in {191, 192, 193, 194}
  BY SMT DEF CpDefColorPlaces, Shown, Placed
<1>2. ASSUME f.of = g.of, f.name # g.name, {f.name, g.name} \notin Overlapping
      PROVE  /\ f.at \in Int /\ f.width \in Int /\ g.at \in Int /\ g.width \in Int
             /\ (f.at + f.width <= g.at \/ g.at + g.width <= f.at)
  BY ONLY CpDefColorPlaces(f), CpDefColorPlaces(g), <1>2, SMT DEF CpDefColorPlaces, Shown, Placed
<1>3. ShownApart(f, g)
  BY ONLY <1>2, OneBeforeOther, Zenon DEF ShownApart
<1>. QED BY ONLY <1>1, <1>3

LEMMA AdcSwitchApart ==
  ASSUME NEW f, NEW g, AdcSwitchPlaces(f), AdcSwitchPlaces(g)
  PROVE  f.of \in {195, 196} /\ ShownApart(f, g)
<1>1. f.of \in {195, 196}
  BY SMT DEF AdcSwitchPlaces, Shown, Placed
<1>2. ASSUME f.of = g.of, f.name # g.name, {f.name, g.name} \notin Overlapping
      PROVE  /\ f.at \in Int /\ f.width \in Int /\ g.at \in Int /\ g.width \in Int
             /\ (f.at + f.width <= g.at \/ g.at + g.width <= f.at)
  BY ONLY AdcSwitchPlaces(f), AdcSwitchPlaces(g), <1>2, SMT DEF AdcSwitchPlaces, Shown, Placed
<1>3. ShownApart(f, g)
  BY ONLY <1>2, OneBeforeOther, Zenon DEF ShownApart
<1>. QED BY ONLY <1>1, <1>3

LEMMA DdrModeApart ==
  ASSUME NEW f, NEW g, DdrModePlaces(f), DdrModePlaces(g)
  PROVE  f.of \in {201} /\ ShownApart(f, g)
<1>1. f.of \in {201}
  BY SMT DEF DdrModePlaces, Shown, Placed
<1>2. ASSUME f.of = g.of, f.name # g.name, {f.name, g.name} \notin Overlapping
      PROVE  /\ f.at \in Int /\ f.width \in Int /\ g.at \in Int /\ g.width \in Int
             /\ (f.at + f.width <= g.at \/ g.at + g.width <= f.at)
  BY ONLY DdrModePlaces(f), DdrModePlaces(g), <1>2, SMT DEF DdrModePlaces, Shown, Placed
<1>3. ShownApart(f, g)
  BY ONLY <1>2, OneBeforeOther, Zenon DEF ShownApart
<1>. QED BY ONLY <1>1, <1>3

LEMMA StatusApart ==
  ASSUME NEW f, NEW g, StatusPlaces(f), StatusPlaces(g)
  PROVE  f.of \in {16, 17, 18, 19} /\ ShownApart(f, g)
<1>1. f.of \in {16, 17, 18, 19}
  BY SMT DEF StatusPlaces, Shown, Placed
<1>2. ASSUME f.of = g.of, f.name # g.name, {f.name, g.name} \notin Overlapping
      PROVE  /\ f.at \in Int /\ f.width \in Int /\ g.at \in Int /\ g.width \in Int
             /\ (f.at + f.width <= g.at \/ g.at + g.width <= f.at)
  <2>1. ~Meet(f, g, "AD_RESULT", "IN_LOCK")
    BY ONLY <1>2, MayMeet, Zenon
  <2>. QED BY ONLY StatusPlaces(f), StatusPlaces(g), <1>2, <2>1, SMT DEF StatusPlaces, Shown,
      Placed, Meet
<1>3. ShownApart(f, g)
  BY ONLY <1>2, OneBeforeOther, Zenon DEF ShownApart
<1>. QED BY ONLY <1>1, <1>3

(* A field belongs to the group of decoders that read its register.        *)
InGroup(f) ==
  \/ InctrlPlaces(f) /\ f.of \in {0}
  \/ VideoSelectionPlaces(f) /\ f.of \in {1}
  \/ OutputControlPlaces(f) /\ f.of \in {3}
  \/ ExOutputControlPlaces(f) /\ f.of \in {4}
  \/ VideoStandartPlaces(f) /\ f.of \in {5, 6}
  \/ PowerMenegementPlaces(f) /\ f.of \in {15}
  \/ AdcControlPlaces(f) /\ f.of \in {58}
  \/ BiasCtrlPlaces(f) /\ f.of \in {59}
  \/ TtlcCtrlPlaces(f) /\ f.of \in {60}
  \/ LockCntPlaces(f) /\ f.of \in {81}
  \/ Configure1Places(f) /\ f.of \in {105}
  \/ CpOutSelPlaces(f) /\ f.of \in {107}
  \/ CpMeasureCtrlPlaces(f) /\ f.of \in {131, 132}
  \/ CpDetectionCtrlPlaces(f) /\ f.of \in {133}
  \/ CpMiscCtrlPlaces(f) /\ f.of \in {134}
  \/ CpTllcControlPlaces(f) /\ f.of \in {135, 137}
  \/ CpDefColorPlaces(f) /\ f.of \in {191, 192, 193, 194}
  \/ AdcSwitchPlaces(f) /\ f.of \in {195, 196}
  \/ DdrModePlaces(f) /\ f.of \in {201}
  \/ StatusPlaces(f) /\ f.of \in {16, 17, 18, 19}

LEMMA FieldGroups == ASSUME NEW p \in Int, NEW f \in Fields(p) PROVE InGroup(f)
<1>1. CASE f \in INCTRL_DECODE
  <2>1. InctrlPlaces(f)
    BY ONLY <1>1, InctrlShown
  <2>2. f.of \in {0}
    BY ONLY <2>1, InctrlApart
  <2>. QED BY ONLY <2>1, <2>2 DEF InGroup
<1>2. CASE f \in VIDEO_SELECTION_DECODE
  <2>1. VideoSelectionPlaces(f)
    BY ONLY <1>2, VideoSelectionShown
  <2>2. f.of \in {1}
    BY ONLY <2>1, VideoSelectionApart
  <2>. QED BY ONLY <2>1, <2>2 DEF InGroup
<1>3. CASE f \in OUTPUT_CONTROL_DECODE
  <2>1. OutputControlPlaces(f)
    BY ONLY <1>3, OutputControlShown
  <2>2. f.of \in {3}
    BY ONLY <2>1, OutputControlApart
  <2>. QED BY ONLY <2>1, <2>2 DEF InGroup
<1>4. CASE f \in EX_OUTPUT_CONTROL_DECODE
  <2>1. ExOutputControlPlaces(f)
    BY ONLY <1>4, ExOutputControlShown
  <2>2. f.of \in {4}
    BY ONLY <2>1, ExOutputControlApart
  <2>. QED BY ONLY <2>1, <2>2 DEF InGroup
<1>5. CASE f \in VIDEO_STANDART_DECODE(p)
  <2>1. VideoStandartPlaces(f)
    BY ONLY <1>5, VideoStandartShown, p \in Int
  <2>2. f.of \in {5, 6}
    BY ONLY <2>1, VideoStandartApart
  <2>. QED BY ONLY <2>1, <2>2 DEF InGroup
<1>6. CASE f \in POWER_MENEGEMENT_DECODE
  <2>1. PowerMenegementPlaces(f)
    BY ONLY <1>6, PowerMenegementShown
  <2>2. f.of \in {15}
    BY ONLY <2>1, PowerMenegementApart
  <2>. QED BY ONLY <2>1, <2>2 DEF InGroup
<1>7. CASE f \in ADC_CONTROL_DECODE
  <2>1. AdcControlPlaces(f)
    BY ONLY <1>7, AdcControlShown
  <2>2. f.of \in {58}
    BY ONLY <2>1, AdcControlApart
  <2>. QED BY ONLY <2>1, <2>2 DEF InGroup
<1>8. CASE f \in BIAS_CTRL_DECODE
  <2>1. BiasCtrlPlaces(f)
    BY ONLY <1>8, BiasCtrlShown
  <2>2. f.of \in {59}
    BY ONLY <2>1, BiasCtrlApart
  <2>. QED BY ONLY <2>1, <2>2 DEF InGroup
<1>9. CASE f \in (TTLC_CTRL_DECODE \cup MANUAL_WINDOW_DECODE)
  <2>1. TtlcCtrlPlaces(f)
    BY ONLY <1>9, TtlcCtrlShown
  <2>2. f.of \in {60}
    BY ONLY <2>1, TtlcCtrlApart
  <2>. QED BY ONLY <2>1, <2>2 DEF InGroup
<1>10. CASE f \in LOCK_CNT_DECODE
  <2>1. LockCntPlaces(f)
    BY ONLY <1>10, LockCntShown
  <2>2. f.of \in {81}
    BY ONLY <2>1, LockCntApart
  <2>. QED BY ONLY <2>1, <2>2 DEF InGroup
<1>11. CASE f \in (CONFIGURE1_DECODE \cup TLLC_PA_DECODE)
  <2>1. Configure1Places(f)
    BY ONLY <1>11, Configure1Shown
  <2>2. f.of \in {105}
    BY ONLY <2>1, Configure1ShownApart
  <2>. QED BY ONLY <2>1, <2>2 DEF InGroup
<1>12. CASE f \in CP_OUT_SEL_DECODE
  <2>1. CpOutSelPlaces(f)
    BY ONLY <1>12, CpOutSelShown
  <2>2. f.of \in {107}
    BY ONLY <2>1, CpOutSelApart
  <2>. QED BY ONLY <2>1, <2>2 DEF InGroup
<1>13. CASE f \in CP_MEASURE_CTRL_DECODE
  <2>1. CpMeasureCtrlPlaces(f)
    BY ONLY <1>13, CpMeasureCtrlShown
  <2>2. f.of \in {131, 132}
    BY ONLY <2>1, CpMeasureCtrlApart
  <2>. QED BY ONLY <2>1, <2>2 DEF InGroup
<1>14. CASE f \in CP_DETECTION_CTRL_DECODE
  <2>1. CpDetectionCtrlPlaces(f)
    BY ONLY <1>14, CpDetectionCtrlShown
  <2>2. f.of \in {133}
    BY ONLY <2>1, CpDetectionCtrlApart
  <2>. QED BY ONLY <2>1, <2>2 DEF InGroup
<1>15. CASE f \in CP_MISC_CTRL_DECODE
  <2>1. CpMiscCtrlPlaces(f)
    BY ONLY <1>15, CpMiscCtrlShown
  <2>2. f.of \in {134}
    BY ONLY <2>1, CpMiscCtrlApart
  <2>. QED BY ONLY <2>1, <2>2 DEF InGroup
<1>16. CASE f \in CP_TLLC_CONTROL_DECODE
  <2>1. CpTllcControlPlaces(f)
    BY ONLY <1>16, CpTllcControlShown
  <2>2. f.of \in {135, 137}
    BY ONLY <2>1, CpTllcControlApart
  <2>. QED BY ONLY <2>1, <2>2 DEF InGroup
<1>17. CASE f \in CP_DEF_COLOR_DECODE
  <2>1. CpDefColorPlaces(f)
    BY ONLY <1>17, CpDefColorShown
  <2>2. f.of \in {191, 192, 193, 194}
    BY ONLY <2>1, CpDefColorApart
  <2>. QED BY ONLY <2>1, <2>2 DEF InGroup
<1>18. CASE f \in ADC_SWITCH_DECODE
  <2>1. AdcSwitchPlaces(f)
    BY ONLY <1>18, AdcSwitchShown
  <2>2. f.of \in {195, 196}
    BY ONLY <2>1, AdcSwitchApart
  <2>. QED BY ONLY <2>1, <2>2 DEF InGroup
<1>19. CASE f \in DDR_MODE_DECODE
  <2>1. DdrModePlaces(f)
    BY ONLY <1>19, DdrModeShown
  <2>2. f.of \in {201}
    BY ONLY <2>1, DdrModeApart
  <2>. QED BY ONLY <2>1, <2>2 DEF InGroup
<1>20. CASE f \in STATUS_DECODE
  <2>1. StatusPlaces(f)
    BY ONLY <1>20, StatusShown
  <2>2. f.of \in {16, 17, 18, 19}
    BY ONLY <2>1, StatusApart
  <2>. QED BY ONLY <2>1, <2>2 DEF InGroup
<1>. QED BY <1>1, <1>2, <1>3, <1>4, <1>5, <1>6, <1>7, <1>8, <1>9, <1>10, <1>11, <1>12, <1>13,
    <1>14, <1>15, <1>16, <1>17, <1>18, <1>19, <1>20, Zenon DEF Fields

LEMMA FieldFits == ASSUME NEW p \in Int, NEW f \in Fields(p) PROVE Fits(f)
<1>1. CASE InctrlPlaces(f)
  BY ONLY <1>1, ShownFits DEF InctrlPlaces
<1>2. CASE VideoSelectionPlaces(f)
  BY ONLY <1>2, ShownFits DEF VideoSelectionPlaces
<1>3. CASE OutputControlPlaces(f)
  BY ONLY <1>3, ShownFits DEF OutputControlPlaces
<1>4. CASE ExOutputControlPlaces(f)
  BY ONLY <1>4, ShownFits DEF ExOutputControlPlaces
<1>5. CASE VideoStandartPlaces(f)
  BY ONLY <1>5, ShownFits DEF VideoStandartPlaces
<1>6. CASE PowerMenegementPlaces(f)
  BY ONLY <1>6, ShownFits DEF PowerMenegementPlaces
<1>7. CASE AdcControlPlaces(f)
  BY ONLY <1>7, ShownFits DEF AdcControlPlaces
<1>8. CASE BiasCtrlPlaces(f)
  BY ONLY <1>8, ShownFits DEF BiasCtrlPlaces
<1>9. CASE TtlcCtrlPlaces(f)
  BY ONLY <1>9, ShownFits DEF TtlcCtrlPlaces
<1>10. CASE LockCntPlaces(f)
  BY ONLY <1>10, ShownFits DEF LockCntPlaces
<1>11. CASE Configure1Places(f)
  BY ONLY <1>11, ShownFits DEF Configure1Places
<1>12. CASE CpOutSelPlaces(f)
  BY ONLY <1>12, ShownFits DEF CpOutSelPlaces
<1>13. CASE CpMeasureCtrlPlaces(f)
  BY ONLY <1>13, ShownFits DEF CpMeasureCtrlPlaces
<1>14. CASE CpDetectionCtrlPlaces(f)
  BY ONLY <1>14, ShownFits DEF CpDetectionCtrlPlaces
<1>15. CASE CpMiscCtrlPlaces(f)
  BY ONLY <1>15, ShownFits DEF CpMiscCtrlPlaces
<1>16. CASE CpTllcControlPlaces(f)
  BY ONLY <1>16, ShownFits DEF CpTllcControlPlaces
<1>17. CASE CpDefColorPlaces(f)
  BY ONLY <1>17, ShownFits DEF CpDefColorPlaces
<1>18. CASE AdcSwitchPlaces(f)
  BY ONLY <1>18, ShownFits DEF AdcSwitchPlaces
<1>19. CASE DdrModePlaces(f)
  BY ONLY <1>19, ShownFits DEF DdrModePlaces
<1>20. CASE StatusPlaces(f)
  BY ONLY <1>20, ShownFits DEF StatusPlaces
<1>. QED BY ONLY f \in Fields(p), p \in Int, FieldGroups, <1>1, <1>2, <1>3, <1>4, <1>5, <1>6,
    <1>7, <1>8, <1>9, <1>10, <1>11, <1>12, <1>13, <1>14, <1>15, <1>16, <1>17, <1>18, <1>19,
    <1>20, Zenon DEF InGroup

LEMMA FieldsApart == ASSUME NEW p \in Int, NEW f \in Fields(p), NEW g \in Fields(p)
    PROVE ShownApart(f, g)
<1>1. SUFFICES ASSUME f.of = g.of PROVE ShownApart(f, g)
  BY Zenon DEF ShownApart
<1>2. InGroup(f) /\ InGroup(g)
  BY FieldGroups, Zenon
<1>3. CASE InctrlPlaces(f) /\ f.of \in {0}
  <2>1. InctrlPlaces(g)
    BY ONLY <1>1, <1>2, <1>3, SMT DEF InGroup
  <2>. QED BY ONLY <1>3, <2>1, InctrlApart
<1>4. CASE VideoSelectionPlaces(f) /\ f.of \in {1}
  <2>1. VideoSelectionPlaces(g)
    BY ONLY <1>1, <1>2, <1>4, SMT DEF InGroup
  <2>. QED BY ONLY <1>4, <2>1, VideoSelectionApart
<1>5. CASE OutputControlPlaces(f) /\ f.of \in {3}
  <2>1. OutputControlPlaces(g)
    BY ONLY <1>1, <1>2, <1>5, SMT DEF InGroup
  <2>. QED BY ONLY <1>5, <2>1, OutputControlApart
<1>6. CASE ExOutputControlPlaces(f) /\ f.of \in {4}
  <2>1. ExOutputControlPlaces(g)
    BY ONLY <1>1, <1>2, <1>6, SMT DEF InGroup
  <2>. QED BY ONLY <1>6, <2>1, ExOutputControlApart
<1>7. CASE VideoStandartPlaces(f) /\ f.of \in {5, 6}
  <2>1. VideoStandartPlaces(g)
    BY ONLY <1>1, <1>2, <1>7, SMT DEF InGroup
  <2>. QED BY ONLY <1>7, <2>1, VideoStandartApart
<1>8. CASE PowerMenegementPlaces(f) /\ f.of \in {15}
  <2>1. PowerMenegementPlaces(g)
    BY ONLY <1>1, <1>2, <1>8, SMT DEF InGroup
  <2>. QED BY ONLY <1>8, <2>1, PowerMenegementApart
<1>9. CASE AdcControlPlaces(f) /\ f.of \in {58}
  <2>1. AdcControlPlaces(g)
    BY ONLY <1>1, <1>2, <1>9, SMT DEF InGroup
  <2>. QED BY ONLY <1>9, <2>1, AdcControlApart
<1>10. CASE BiasCtrlPlaces(f) /\ f.of \in {59}
  <2>1. BiasCtrlPlaces(g)
    BY ONLY <1>1, <1>2, <1>10, SMT DEF InGroup
  <2>. QED BY ONLY <1>10, <2>1, BiasCtrlApart
<1>11. CASE TtlcCtrlPlaces(f) /\ f.of \in {60}
  <2>1. TtlcCtrlPlaces(g)
    BY ONLY <1>1, <1>2, <1>11, SMT DEF InGroup
  <2>. QED BY ONLY <1>11, <2>1, TtlcCtrlApart
<1>12. CASE LockCntPlaces(f) /\ f.of \in {81}
  <2>1. LockCntPlaces(g)
    BY ONLY <1>1, <1>2, <1>12, SMT DEF InGroup
  <2>. QED BY ONLY <1>12, <2>1, LockCntApart
<1>13. CASE Configure1Places(f) /\ f.of \in {105}
  <2>1. Configure1Places(g)
    BY ONLY <1>1, <1>2, <1>13, SMT DEF InGroup
  <2>. QED BY ONLY <1>13, <2>1, Configure1ShownApart
<1>14. CASE CpOutSelPlaces(f) /\ f.of \in {107}
  <2>1. CpOutSelPlaces(g)
    BY ONLY <1>1, <1>2, <1>14, SMT DEF InGroup
  <2>. QED BY ONLY <1>14, <2>1, CpOutSelApart
<1>15. CASE CpMeasureCtrlPlaces(f) /\ f.of \in {131, 132}
  <2>1. CpMeasureCtrlPlaces(g)
    BY ONLY <1>1, <1>2, <1>15, SMT DEF InGroup
  <2>. QED BY ONLY <1>15, <2>1, CpMeasureCtrlApart
<1>16. CASE CpDetectionCtrlPlaces(f) /\ f.of \in {133}
  <2>1. CpDetectionCtrlPlaces(g)
    BY ONLY <1>1, <1>2, <1>16, SMT DEF InGroup
  <2>. QED BY ONLY <1>16, <2>1, CpDetectionCtrlApart
<1>17. CASE CpMiscCtrlPlaces(f) /\ f.of \in {134}
  <2>1. CpMiscCtrlPlaces(g)
    BY ONLY <1>1, <1>2, <1>17, SMT DEF InGroup
  <2>. QED BY ONLY <1>17, <2>1, CpMiscCtrlApart
<1>18. CASE CpTllcControlPlaces(f) /\ f.of \in {135, 137}
  <2>1. CpTllcControlPlaces(g)
    BY ONLY <1>1, <1>2, <1>18, SMT DEF InGroup
  <2>. QED BY ONLY <1>18, <2>1, CpTllcControlApart
<1>19. CASE CpDefColorPlaces(f) /\ f.of \in {191, 192, 193, 194}
  <2>1. CpDefColorPlaces(g)
    BY ONLY <1>1, <1>2, <1>19, SMT DEF InGroup
  <2>. QED BY ONLY <1>19, <2>1, CpDefColorApart
<1>20. CASE AdcSwitchPlaces(f) /\ f.of \in {195, 196}
  <2>1. AdcSwitchPlaces(g)
    BY ONLY <1>1, <1>2, <1>20, SMT DEF InGroup
  <2>. QED BY ONLY <1>20, <2>1, AdcSwitchApart
<1>21. CASE DdrModePlaces(f) /\ f.of \in {201}
  <2>1. DdrModePlaces(g)
    BY ONLY <1>1, <1>2, <1>21, SMT DEF InGroup
  <2>. QED BY ONLY <1>21, <2>1, DdrModeApart
<1>22. CASE StatusPlaces(f) /\ f.of \in {16, 17, 18, 19}
  <2>1. StatusPlaces(g)
    BY ONLY <1>1, <1>2, <1>22, SMT DEF InGroup
  <2>. QED BY ONLY <1>22, <2>1, StatusApart
<1>. QED BY ONLY <1>2, <1>3, <1>4, <1>5, <1>6, <1>7, <1>8, <1>9, <1>10, <1>11, <1>12, <1>13,
    <1>14, <1>15, <1>16, <1>17, <1>18, <1>19, <1>20, <1>21, <1>22, SMT DEF InGroup

LEMMA Sixteen == Len(StWords) = 16
BY SMT DEF StWords, Word

LEMMA TopOfByte == ASSUME NEW n, n = 8 PROVE 2^n = 256
OBVIOUS

(* The words of two registers have their high bits over the low byte.      *)
LEMMA LowWords ==
  ASSUME NEW i \in 1..16, StWords[i].low, StWords[i].name \notin {"PLL_DIV_RATIO", "IFSD"}
  PROVE  StWords[i].up = 8
BY SMT DEF StWords, Word

(* A byte that was read while the word stood still is the chip's byte.     *)
StGotFresh ==
  stStill => /\ HasRead("hi") => stGot["hi"] = stHi
             /\ HasRead("lo") => stGot["lo"] = stLo
StToldFresh ==
  stTold # <<>> => /\ stTold.of \in 1..16
                   /\ stTold.still => /\ stTold.hi = stTold.now.hi
                                      /\ StWords[stTold.of].low => stTold.lo = stTold.now.lo
StPlaces == /\ stProc = "status" => stPos \in 0..16
            /\ stProc = "readall" => stPos \in 0..255

StInv == StTypeInv /\ StPlaces /\ StGotFresh /\ StToldFresh /\ StLossKept

LEMMA NothingRead == DOMAIN <<>> = {}
BY SMT

LEMMA InitSt == StInit => StInv
<1>. SUFFICES ASSUME StInit PROVE StInv
  OBVIOUS
<1>1. stGot = <<>> /\ stTold = <<>> /\ stStill = TRUE /\ stLost = FALSE /\ stOwed = FALSE
  BY Zenon DEF StInit
<1>2. StGotFresh /\ StToldFresh /\ StLossKept
  BY ONLY <1>1, NothingRead, Zenon DEF StGotFresh, StToldFresh, StLossKept, HasRead
<1>3. StTypeInv /\ StPlaces
  <2>1. DOMAIN stGot \subseteq {"hi", "lo"}
    BY ONLY <1>1, NothingRead, Zenon
  <2>2. /\ stByte \in 0..255 /\ stProc = "idle" /\ stPos = 0 /\ stHi = 0 /\ stLo = 0
    BY Zenon DEF StInit
  <2>3. /\ stLost \in BOOLEAN /\ stOwed \in BOOLEAN /\ stStill \in BOOLEAN
    BY ONLY <1>1, Zenon
  <2>4. /\ stPos \in 0..256 /\ stPos \in 0..16 /\ stPos \in 0..255
        /\ stHi \in 0..255 /\ stLo \in 0..255
    BY ONLY <2>2, SMT
  <2>. QED BY ONLY <2>1, <2>2, <2>3, <2>4, Zenon DEF StTypeInv, StPlaces
<1>. QED BY <1>2, <1>3, Zenon DEF StInv

LEMMA StepSt == StInv /\ [StNext]_stVars => StInv'
<1>. SUFFICES ASSUME StInv, [StNext]_stVars PROVE StInv'
  OBVIOUS
<1>0. StTypeInv /\ StPlaces /\ StGotFresh /\ StToldFresh /\ StLossKept
  BY Zenon DEF StInv
<1>1. CASE StLoseLock
  <2>1. StTypeInv' /\ StPlaces' /\ StLossKept'
    BY ONLY <1>0, <1>1, SMT DEF StLoseLock, StTypeInv, StPlaces, StLossKept
  <2>2. StGotFresh' /\ StToldFresh'
    BY ONLY <1>0, <1>1, Zenon DEF StLoseLock, StGotFresh, StToldFresh, HasRead
  <2>. QED BY <2>1, <2>2, Zenon DEF StInv
<1>2. CASE StMeasure
  <2>1. StTypeInv' /\ StPlaces' /\ StLossKept'
    BY ONLY <1>0, <1>2, StAssumption, SMT DEF StMeasure, StTypeInv, StPlaces, StLossKept
  <2>2. StGotFresh'
    BY ONLY <1>2, NothingRead, Zenon DEF StMeasure, StGotFresh, HasRead
  <2>3. StToldFresh'
    BY ONLY <1>0, <1>2, Zenon DEF StMeasure, StToldFresh
  <2>. QED BY <2>1, <2>2, <2>3, Zenon DEF StInv
<1>3. CASE StCall
  <2>1. StTypeInv' /\ StPlaces' /\ StLossKept'
    BY ONLY <1>0, <1>3, SMT DEF StCall, StTypeInv, StPlaces, StLossKept
  <2>2. StGotFresh'
    BY ONLY <1>3, NothingRead, Zenon DEF StCall, StGotFresh, HasRead
  <2>3. StToldFresh'
    BY ONLY <1>3, Zenon DEF StCall, StToldFresh
  <2>. QED BY <2>1, <2>2, <2>3, Zenon DEF StInv
<1>4. CASE StStatus
  <2>0. /\ stLost' \in BOOLEAN /\ stOwed' \in BOOLEAN /\ (stOwed' => stLost')
    BY ONLY <1>0, <1>4, Zenon DEF StStatus, LossRead, StTypeInv, StLossKept
  <2>1. StTypeInv' /\ StPlaces' /\ StLossKept'
    BY ONLY <1>0, <1>4, <2>0, SMT DEF StStatus, StTypeInv, StPlaces, StLossKept
  <2>2. StGotFresh' /\ StToldFresh'
    BY ONLY <1>0, <1>4, Zenon DEF StStatus, StGotFresh, StToldFresh, HasRead
  <2>. QED BY <2>1, <2>2, Zenon DEF StInv
<1>5. CASE StRead
  <2>1. PICK r \in Needed : stGot' = Got(r, IF r = "hi" THEN stHi ELSE stLo)
    BY <1>5, Zenon DEF StRead
  <2>2. r \in {"hi", "lo"}
    BY ONLY <2>1, Zenon DEF Needed
  <2>3. UNCHANGED <<stByte, stProc, stPos, stLost, stOwed, stHi, stLo, stStill, stTold, stMoved>>
    BY <1>5, Zenon DEF StRead
  <2>4. DOMAIN stGot' = DOMAIN stGot \cup {r}
    BY ONLY <2>1, SMT DEF Got
  <2>5. \A x \in DOMAIN stGot' :
          stGot'[x] = IF x = r THEN IF r = "hi" THEN stHi ELSE stLo ELSE stGot[x]
    BY ONLY <2>1, SMT DEF Got
  <2>6. StTypeInv' /\ StPlaces' /\ StLossKept'
    BY ONLY <1>0, <2>2, <2>3, <2>4, SMT DEF StTypeInv, StPlaces, StLossKept
  <2>7. StGotFresh'
    BY ONLY <1>0, <2>2, <2>3, <2>4, <2>5, SMT DEF StGotFresh, HasRead
  <2>8. StToldFresh'
    BY ONLY <1>0, <2>3, Zenon DEF StToldFresh
  <2>. QED BY <2>6, <2>7, <2>8, Zenon DEF StInv
<1>6. CASE StPrint
  <2>1. /\ stProc = "status" /\ stPos \in 1..16 /\ stPos' = stPos + 1
        /\ stProc' = IF stPos = 16 THEN "idle" ELSE "status"
        /\ UNCHANGED <<stByte, stLost, stOwed, stHi, stLo, stMoved>>
    BY ONLY <1>6, Sixteen, SMT DEF StPrint
  <2>2. stGot' = <<>> /\ stStill' = TRUE /\ (\A r \in Needed : HasRead(r))
    BY ONLY <1>6, Zenon DEF StPrint
  <2>3. stTold' = [of |-> stPos, still |-> stStill, hi |-> stGot["hi"],
                   lo |-> IF HasRead("lo") THEN stGot["lo"] ELSE 0,
                   now |-> [hi |-> stHi, lo |-> stLo]]
    BY ONLY <1>6, Zenon DEF StPrint
  <2>4. DOMAIN stGot' = {}
    BY ONLY <2>2, SMT
  <2>5. StTypeInv'
    BY ONLY <1>0, <2>1, <2>2, <2>4, SMT DEF StTypeInv
  <2>6. StPlaces' /\ StLossKept'
    BY ONLY <1>0, <2>1, SMT DEF StPlaces, StLossKept
  <2>7. StGotFresh'
    BY ONLY <2>4, SMT DEF StGotFresh, HasRead
  <2>8. /\ stTold'.of = stPos /\ stTold'.still = stStill /\ stTold'.hi = stGot["hi"]
        /\ stTold'.lo = (IF HasRead("lo") THEN stGot["lo"] ELSE 0)
        /\ stTold'.now.hi = stHi /\ stTold'.now.lo = stLo
    BY ONLY <2>3, Zenon
  <2>9. HasRead("hi") /\ (StWords[stPos].low => HasRead("lo"))
    BY ONLY <2>2, Zenon DEF Needed
  <2>10. StToldFresh'
    <3>1. stTold'.of \in 1..16
      BY ONLY <2>8, <2>1, Zenon
    <3>2. ASSUME stTold'.still
          PROVE  /\ stTold'.hi = stTold'.now.hi
                 /\ StWords[stTold'.of].low => stTold'.lo = stTold'.now.lo
      BY ONLY <3>2, <1>0, <2>8, <2>9, Zenon DEF StGotFresh
    <3>. QED BY ONLY <3>1, <3>2, Zenon DEF StToldFresh
  <2>. QED BY <2>5, <2>6, <2>7, <2>10, Zenon DEF StInv
<1>7. CASE StReadAll
  <2>0. /\ stLost' \in BOOLEAN /\ stOwed' \in BOOLEAN /\ (stOwed' => stLost')
    BY ONLY <1>0, <1>7, Zenon DEF StReadAll, LossRead, StTypeInv, StLossKept
  <2>1. StTypeInv' /\ StPlaces' /\ StLossKept'
    BY ONLY <1>0, <1>7, <2>0, SMT DEF StReadAll, StTypeInv, StPlaces, StLossKept
  <2>2. StGotFresh' /\ StToldFresh'
    BY ONLY <1>0, <1>7, Zenon DEF StReadAll, StGotFresh, StToldFresh, HasRead
  <2>. QED BY <2>1, <2>2, Zenon DEF StInv
<1>8. CASE UNCHANGED stVars
  <2>1. StTypeInv' /\ StPlaces' /\ StLossKept'
    BY ONLY <1>0, <1>8, SMT DEF stVars, StTypeInv, StPlaces, StLossKept
  <2>2. StGotFresh'
    BY ONLY <1>0, <1>8, SMT DEF stVars, StGotFresh, HasRead
  <2>3. StToldFresh'
    BY ONLY <1>0, <1>8, SMT DEF stVars, StToldFresh
  <2>. QED BY <2>1, <2>2, <2>3, Zenon DEF StInv
<1>. QED BY <1>1, <1>2, <1>3, <1>4, <1>5, <1>6, <1>7, <1>8, Zenon DEF StNext

LEMMA StInvSafe == StInv => StSafe
<1>. SUFFICES ASSUME StInv PROVE StSafe
  OBVIOUS
<1>1. StTypeInv /\ StLossKept /\ StToldFresh /\ stByte \in Int
  BY SMT DEF StInv, StTypeInv
<1>2. StOneField
  BY ONLY <1>1, FieldsApart, Zenon DEF StOneField, ShownApart
<1>3. StEveryText
  BY ONLY <1>1, FieldFits, Zenon DEF StEveryText, Fits
<1>4. ASSUME stTold # <<>>, stTold.still, StWords[stTold.of].low,
             StWords[stTold.of].name \notin {"PLL_DIV_RATIO", "IFSD"}
      PROVE  WordOf(StWords[stTold.of], stTold.hi, stTold.lo)
               = BitsOf(stTold.now.hi, StWords[stTold.of].at, StWords[stTold.of].width) * 256
                   + stTold.now.lo
  <2>1. /\ stTold.of \in 1..16 /\ stTold.hi = stTold.now.hi /\ stTold.lo = stTold.now.lo
    BY ONLY <1>1, <1>4, Zenon DEF StToldFresh
  <2>2. 2^StWords[stTold.of].up = 256
    BY ONLY <2>1, <1>4, LowWords, TopOfByte, Zenon
  <2>. QED BY ONLY <2>1, <2>2, <1>4, Zenon DEF WordOf
<1>5. StWordWhole
  BY ONLY <1>4, Zenon DEF StWordWhole
<1>. QED BY <1>1, <1>2, <1>3, <1>5, Zenon DEF StSafe

(* adv7181d_status shows every bit as one field and every text, prints a   *)
(* word that stood still as the chip has it, and loses no loss of lock:    *)
(* adv7181_debug.h.                                                        *)
THEOREM PrinterTellsTheChip == StSpec => []StSafe
<1>1. StInit => StInv
  BY InitSt
<1>2. StInv /\ [StNext]_stVars => StInv'
  BY StepSt
<1>3. StInv => StSafe
  BY StInvSafe
<1>. QED BY <1>1, <1>2, <1>3, PTL DEF StSpec

(***************************************************************************)
(* The drivers side by side: each is its own specification.                *)
(***************************************************************************)
LEMMA EachAlone == 
  Spec => VmSpec /\ VcSpec /\ VsSpec /\ ViSpec /\ ClSpec /\ VqSpec /\ StSpec
<1>1. Init => VmInit /\ VcInit /\ VsInit /\ ViInit /\ ClInit /\ VqInit /\ StInit
  BY DEF Init
<1>2. [Next]_vars =>
        /\ [VmNext]_vmVars /\ [VcNext]_vcVars /\ [VsNext]_vsVars
        /\ [ViNext]_viVars /\ [ClNext]_clVars /\ [VqNext]_vqVars /\ [StNext]_stVars
  <2> SUFFICES ASSUME [Next]_vars
               PROVE  /\ [VmNext]_vmVars /\ [VcNext]_vcVars /\ [VsNext]_vsVars
                      /\ [ViNext]_viVars /\ [ClNext]_clVars
                      /\ [VqNext]_vqVars /\ [StNext]_stVars
    OBVIOUS
  <2>1. CASE Output
    BY <2>1 DEF Output
  <2>2. CASE Mixer
    BY <2>2 DEF Mixer
  <2>3. CASE Input
    BY <2>3 DEF Input
  <2>4. CASE Clipper
    BY <2>4 DEF Clipper
  <2>5. CASE Scaler
    BY <2>5 DEF Scaler
  <2>6. CASE Arithmetic
    BY <2>6 DEF Arithmetic
  <2>7. CASE Status
    BY <2>7 DEF Status
  <2>8. CASE UNCHANGED vars
    BY <2>8 DEF vars
  <2>9. QED BY <2>1, <2>2, <2>3, <2>4, <2>5, <2>6, <2>7, <2>8 DEF Next
<1>3. QED BY <1>1, <1>2, PTL DEF Spec, VmSpec, VcSpec, VsSpec, ViSpec, ClSpec, VqSpec, StSpec

\* Mixer and core objects and the scaler's coefficients, whatever they run
\* beside (MixerLayer.hpp 49-140, VipCore.hpp 50-118, VipCore.cpp 5-60,
\* Clocked_Video_Output.cpp 7-62, Scaler.cpp 20-75).
THEOREM ObjectsAreSafe == Spec => []ObjectsSafe
BY EachAlone, MixerShowsWhatWasAsked, CoreCopiesWhole, CoefficientsWhole, PTL DEF ObjectsSafe

\* What is told of the input and what is cut out of it, whatever they run
\* beside (Clocked_Video_Input.hpp, Clipper.hpp, Clipper.cpp).
THEOREM InputIsSafe == Spec => []VideoInputSafe
BY EachAlone, InputTellsTheTruth, CutAsAsked, PTL DEF VideoInputSafe

\* The numbers computed for a scaler and the texts of the status printer,
\* whatever they run beside (VipMath.cpp, ScalerCoefficientsSet.cpp,
\* adv7181_debug.h).
THEOREM DriversAreSafe == Spec => []VideoDriversSafe
BY EachAlone, ArithmeticIsRight, PrinterTellsTheChip, PTL DEF VideoDriversSafe
=============================================================================
