------------------------------ MODULE VipCore ------------------------------
(***************************************************************************)
(* The C++ base class of the video cores (drivers/vip/inc/VipCore.hpp) and *)
(* the clocked video output built on it.  The control register cannot be   *)
(* read back, so the object keeps a copy and every method reads the copy,  *)
(* changes it, stores it and writes it to the core: three steps between    *)
(* which the interrupt of the core may run a callback of the program that  *)
(* calls methods of the same object.  The timings of the output are held   *)
(* in banks behind one bank-select register, written in some thirty writes *)
(* bracketed by clearing and setting the bank's valid flag.  video.h       *)
(* writes the same bank without an object, from one program and no         *)
(* interrupt.                                                              *)
(*                                                                         *)
(* A method is the sequence of its writes (vcTodo); the words of a timing  *)
(* are abstracted to VcFields of them.                                     *)
(***************************************************************************)
EXTENDS Integers, Sequences, FiniteSets

CONSTANTS
    VcIrqs,       \* interrupt bits of the core (VcGo is the go bit)
    VcGo,         \* REGISTER_CONTROL bit 0
    VcBanks,      \* the banks of timings
    VcModes,      \* the timings a program sets
    VcFields,     \* how many words stand for the words of a timing
    VcJunk        \* the content of memory nobody has written

ASSUME VcAssumption ==
    VcFields \in Nat \ {0} /\ VcGo \notin VcIrqs /\ 1 \in VcBanks
    /\ VcJunk \notin {"null", "set"}

VARIABLES
    vcProgram,    \* what the program uses: an object's "control" or
                  \* "banks", or the "struct" of video.h
    vcControl,    \* control_reg, the copy
    vcRegister,   \* the control register of the core
    vcRaised,     \* the interrupt register of the core
    vcServed,     \* whether the object's handler is registered
    vcCallback,   \* user_isr: "null", "set" or VcJunk
    vcTodo,       \* what is left of the method that main and the callback run
    vcTmp,        \* the copy as each of them last read it
    vcIsr,        \* "out", "read" (status read) or "call" (in the callback)
    vcStatus,     \* what the handler read from the interrupt register
    vcMask,       \* what the callback returned
    vcSelect,     \* the bank-select register
    vcBank,       \* the banks: their valid flag and their words
    vcCrossed,    \* the callback changed control inside a method of main
    vcSuspect     \* banks a method of main was crossed by the callback on

vcVars == <<vcControl, vcRegister, vcRaised, vcServed, vcCallback, vcTodo,
            vcTmp, vcIsr, vcStatus, vcMask, vcSelect, vcBank, vcCrossed,
            vcSuspect, vcProgram>>

ControlBits == VcIrqs \cup {VcGo}
Who == {"main", "callback"}

----------------------------------------------------------------------------
(* The methods, as the sequences of what they do.                          *)

\* control_reg = control_reg | set & ~clear; reg_write(REGISTER_CONTROL, ..)
ChangeControl(set, clear) ==
    <<[do |-> "load"], [do |-> "store", set |-> set, clear |-> clear],
      [do |-> "control"]>>

\* Mutant: the bit above is set.
SetNextBit(b) == ChangeControl({b + 1}, {})

\* Mutant: the bit is cleared in the copy but not in the core.
UnsetInCopyOnly(b) ==
    <<[do |-> "load"], [do |-> "store", set |-> {}, clear |-> {b}]>>

start == ChangeControl({VcGo}, {})
stop == ChangeControl({}, {VcGo})
set_control_bit(b) == ChangeControl({b}, {})
unset_control_bit(b) == ChangeControl({}, {b})
write_control_register(v) ==
    <<[do |-> "store", set |-> v, clear |-> ControlBits], [do |-> "control"]>>
clear_interrupt(b) == <<[do |-> "clear", bits |-> {b}]>>

SelectBank(b) == [do |-> "select", bank |-> b]
Valid(v) == [do |-> "valid", is |-> v]
Words(m) == [k \in 1 .. VcFields |-> [do |-> "word", at |-> k, mode |-> m]]

\* Mutant: the bank is not invalidated first.
set_output_mode_live(b, m) == <<SelectBank(b)>> \o Words(m) \o <<Valid(TRUE)>>

set_output_mode(b, m) ==
    <<SelectBank(b), Valid(FALSE)>> \o Words(m) \o <<Valid(TRUE)>>

validate_output_mode(b) == <<SelectBank(b), Valid(TRUE)>>
invalidate_output_mode(b) == <<SelectBank(b), Valid(FALSE)>>

\* video.h, which has no object: the bank it writes is the first, and the
\* control register is written before and after.
init_cvo(m) ==
    LET go == <<[do |-> "put", value |-> {VcGo}]>>
    IN  go \o set_output_mode(1, m) \o go

\* Mutant: the handler is registered before the callback is set to NULL.
ConstructServedFirst ==
    <<[do |-> "store", set |-> {}, clear |-> ControlBits], [do |-> "control"],
      [do |-> "clear", bits |-> VcIrqs], [do |-> "serve", is |-> TRUE],
      [do |-> "user", is |-> "null"]>>

\* VipCore::VipCore with an interrupt number, and ~VipCore.
Construct ==
    <<[do |-> "store", set |-> {}, clear |-> ControlBits], [do |-> "control"],
      [do |-> "user", is |-> "null"], [do |-> "clear", bits |-> VcIrqs],
      [do |-> "serve", is |-> TRUE]>>

Destruct == <<[do |-> "serve", is |-> FALSE], [do |-> "user", is |-> VcJunk]>>

\* What the program may call on a live object; the callback the same, apart
\* from registering a callback and from the destructor.
ControlMethods ==
    {start, stop, write_control_register({VcGo})}
      \cup {set_control_bit(b) : b \in VcIrqs}
      \cup {unset_control_bit(b) : b \in VcIrqs}
      \cup {clear_interrupt(b) : b \in VcIrqs}
BankMethods ==
    {set_output_mode(b, m) : b \in VcBanks, m \in VcModes}
      \cup {validate_output_mode(b) : b \in VcBanks}
      \cup {invalidate_output_mode(b) : b \in VcBanks}
Methods ==
    IF vcProgram = "control" THEN ControlMethods
    ELSE BankMethods \cup {write_control_register(ControlBits)}

----------------------------------------------------------------------------
Blank == [valid |-> FALSE, word |-> [k \in 1 .. VcFields |-> VcJunk]]

\* Memory and the core before the object is constructed; an earlier program
\* may have left the core with interrupts enabled and raised.
VcInit ==
    /\ vcProgram \in {"control", "banks", "struct"}
    /\ vcControl = {} /\ vcRegister \in {{}, ControlBits}
    /\ vcRaised \in {{}, VcIrqs}
    /\ vcProgram # "control" => vcRegister = {} /\ vcRaised = {}
    /\ vcServed = FALSE /\ vcCallback = VcJunk
    /\ vcTodo = [w \in Who |-> <<>>] /\ vcTmp = [w \in Who |-> {}]
    /\ vcIsr = "out" /\ vcStatus = {} /\ vcMask = {}
    /\ vcSelect = VcJunk
    /\ vcBank = [b \in VcBanks |-> Blank]
    /\ vcCrossed = FALSE /\ vcSuspect = {}

\* The thread that runs: the handler of the interrupt preempts main.
Running == IF vcIsr = "out" THEN "main" ELSE "callback"

\* Whether main is inside a method that does one of these.
MainInside(kinds) ==
    \E i \in 1 .. Len(vcTodo["main"]) : vcTodo["main"][i].do \in kinds

ControlKinds == {"load", "store", "control"}
BankKinds == {"select", "valid", "word"}

Selected == vcSelect \in VcBanks

----------------------------------------------------------------------------
(* One step of a method.                                                   *)

Load(s) ==
    /\ s.do = "load"
    /\ vcTmp' = [vcTmp EXCEPT ![Running] = vcControl]
    /\ UNCHANGED <<vcControl, vcRegister, vcRaised, vcServed, vcCallback,
                   vcSelect, vcBank>>

\* The value main writes next is the one it computed: it is in a machine
\* register, not read from the object again.
Store(s) ==
    /\ s.do = "store"
    /\ LET v == (vcTmp[Running] \ s.clear) \cup s.set
       IN  vcTmp' = [vcTmp EXCEPT ![Running] = v] /\ vcControl' = v
    /\ UNCHANGED <<vcRegister, vcRaised, vcServed, vcCallback, vcSelect,
                   vcBank>>

WriteControl(s) ==
    /\ \/ s.do = "control" /\ vcRegister' = vcTmp[Running]
       \/ s.do = "put" /\ vcRegister' = s.value
    /\ vcTmp' = [vcTmp EXCEPT ![Running] = {}]
    /\ UNCHANGED <<vcControl, vcRaised, vcServed, vcCallback, vcSelect,
                   vcBank>>

ClearRaised(s) ==
    /\ s.do = "clear"
    /\ vcRaised' = vcRaised \ s.bits
    /\ UNCHANGED <<vcControl, vcRegister, vcTmp, vcServed, vcCallback,
                   vcSelect, vcBank>>

\* alt_ic_isr_register and the member user_isr.
Serve(s) ==
    /\ \/ s.do = "serve" /\ vcServed' = s.is /\ UNCHANGED vcCallback
       \/ s.do = "user" /\ vcCallback' = s.is /\ UNCHANGED vcServed
    /\ UNCHANGED <<vcControl, vcRegister, vcTmp, vcRaised, vcSelect, vcBank>>

\* A write to the banks goes to whichever bank is selected.
WriteBank(s) ==
    /\ \/ s.do = "select" /\ vcSelect' = s.bank /\ UNCHANGED vcBank
       \/ /\ s.do = "valid" /\ Selected
          /\ vcBank' = [vcBank EXCEPT ![vcSelect].valid = s.is]
          /\ UNCHANGED vcSelect
       \/ /\ s.do = "word" /\ Selected
          /\ vcBank' = [vcBank EXCEPT ![vcSelect].word[s.at] = s.mode]
          /\ UNCHANGED vcSelect
    /\ UNCHANGED <<vcControl, vcRegister, vcTmp, vcRaised, vcServed,
                   vcCallback>>

\* The running method does its next step.  The bank that main invalidates
\* in order to write all its words is no longer suspect.
VcStep ==
    /\ Running = "callback" => vcIsr = "call"
    /\ vcTodo[Running] # <<>>
    /\ LET s == Head(vcTodo[Running])
       IN  /\ \/ Load(s) \/ Store(s) \/ WriteControl(s)
              \/ ClearRaised(s) \/ Serve(s) \/ WriteBank(s)
           /\ vcSuspect' = IF s.do = "valid" /\ ~s.is /\ Running = "main"
                              /\ Len(vcTodo["main"]) > 1
                           THEN vcSuspect \ {vcSelect} ELSE vcSuspect
    /\ vcTodo' = [vcTodo EXCEPT ![Running] = Tail(@)]
    /\ UNCHANGED <<vcIsr, vcStatus, vcMask, vcCrossed, vcProgram>>

----------------------------------------------------------------------------
(* The program.                                                            *)

Idle == vcTodo["main"] = <<>> /\ vcIsr = "out"

VcConstruct ==
    /\ Idle /\ ~vcServed /\ vcProgram # "struct"
    /\ vcTodo' = [vcTodo EXCEPT !["main"] = Construct]
    /\ vcCrossed' = FALSE
    /\ UNCHANGED <<vcControl, vcRegister, vcRaised, vcServed, vcCallback,
                   vcTmp, vcIsr, vcStatus, vcMask, vcSelect, vcBank,
                   vcSuspect, vcProgram>>

VcDestruct ==
    /\ Idle /\ vcServed
    /\ vcTodo' = [vcTodo EXCEPT !["main"] = Destruct]
    /\ UNCHANGED <<vcControl, vcRegister, vcRaised, vcServed, vcCallback,
                   vcTmp, vcIsr, vcStatus, vcMask, vcSelect, vcBank,
                   vcCrossed, vcSuspect, vcProgram>>

\* Control that main writes anew is no longer crossed.
VcCall ==
    /\ Idle /\ vcServed
    /\ \E m \in Methods :
         /\ vcTodo' = [vcTodo EXCEPT !["main"] = m]
         /\ vcCrossed' = IF m[1].do \in ControlKinds THEN FALSE ELSE vcCrossed
    /\ UNCHANGED <<vcControl, vcRegister, vcRaised, vcServed, vcCallback,
                   vcTmp, vcIsr, vcStatus, vcMask, vcSelect, vcBank,
                   vcSuspect, vcProgram>>

VcInitCvo ==
    /\ Idle /\ vcProgram = "struct"
    /\ \E m \in VcModes : vcTodo' = [vcTodo EXCEPT !["main"] = init_cvo(m)]
    /\ UNCHANGED <<vcControl, vcRegister, vcRaised, vcServed, vcCallback,
                   vcTmp, vcIsr, vcStatus, vcMask, vcSelect, vcBank,
                   vcCrossed, vcSuspect, vcProgram>>

register_user_isr ==
    /\ Idle /\ vcServed
    /\ vcCallback' \in {"null", "set"}
    /\ UNCHANGED <<vcControl, vcRegister, vcRaised, vcServed, vcTodo, vcTmp,
                   vcIsr, vcStatus, vcMask, vcSelect, vcBank, vcCrossed,
                   vcSuspect, vcProgram>>

----------------------------------------------------------------------------
(* The core and its interrupt.                                             *)

\* Bound: a program that uses the banks has one interrupt at a time.
VcRaise ==
    /\ vcProgram = "control" \/ vcRaised = {}
    /\ \E b \in VcIrqs \ vcRaised : vcRaised' = vcRaised \cup {b}
    /\ UNCHANGED <<vcControl, vcRegister, vcServed, vcCallback, vcTodo,
                   vcTmp, vcIsr, vcStatus, vcMask, vcSelect, vcBank,
                   vcCrossed, vcSuspect, vcProgram>>

\* isr(): the interrupt register is read.
VcEnter ==
    /\ vcIsr = "out" /\ vcServed /\ vcRaised \cap vcRegister # {}
    /\ vcIsr' = "read" /\ vcStatus' = vcRaised
    /\ UNCHANGED <<vcControl, vcRegister, vcRaised, vcServed, vcCallback,
                   vcTodo, vcTmp, vcMask, vcSelect, vcBank, vcCrossed,
                   vcSuspect, vcProgram>>

\* Without a callback everything read is cleared; a callback calls at most
\* one method and returns what it read or nothing.
VcCallUser ==
    /\ vcIsr = "read" /\ vcIsr' = "call"
    /\ \/ /\ vcCallback # "set" /\ vcMask' = vcStatus
          /\ UNCHANGED <<vcTodo, vcCrossed, vcSuspect>>
       \/ /\ vcCallback = "set"
          /\ vcMask' \in {vcStatus, {}}
          /\ \E m \in Methods \cup {<<>>} :
               /\ vcTodo' = [vcTodo EXCEPT !["callback"] = m]
               /\ vcCrossed' =
                    (vcCrossed \/ /\ m # <<>> /\ m[1].do \in ControlKinds
                                  /\ MainInside(ControlKinds))
               /\ vcSuspect' =
                    IF m # <<>> /\ m[1].do = "select" /\ MainInside(BankKinds)
                    THEN VcBanks ELSE vcSuspect
    /\ UNCHANGED <<vcControl, vcRegister, vcRaised, vcServed, vcCallback,
                   vcTmp, vcStatus, vcSelect, vcBank, vcProgram>>

\* Mutant: every interrupt is cleared, as in the constructor.
ClearedAll == VcIrqs

\* The interrupts the handler clears.
Cleared == vcMask

VcLeave ==
    /\ vcIsr = "call" /\ vcTodo["callback"] = <<>>
    /\ vcRaised' = vcRaised \ Cleared
    /\ vcIsr' = "out" /\ vcStatus' = {} /\ vcMask' = {}
    /\ UNCHANGED <<vcControl, vcRegister, vcServed, vcCallback, vcTodo,
                   vcTmp, vcSelect, vcBank, vcCrossed, vcSuspect, vcProgram>>

VcNext ==
    \/ VcStep \/ VcConstruct \/ VcDestruct \/ VcCall \/ VcInitCvo
    \/ register_user_isr \/ VcRaise \/ VcEnter \/ VcCallUser \/ VcLeave

VcSpec == VcInit /\ [][VcNext]_vcVars

----------------------------------------------------------------------------
(* Properties.                                                             *)

\* Every variable has its type; interrupts are handed out only while raised.
VcTypeInv ==
    /\ vcProgram \in {"control", "banks", "struct"}
    /\ vcControl \subseteq ControlBits /\ vcRegister \subseteq ControlBits
    /\ vcRaised \subseteq VcIrqs /\ vcServed \in BOOLEAN
    /\ vcCallback \in {"null", "set", VcJunk}
    /\ DOMAIN vcTodo = Who /\ vcTmp \in [Who -> SUBSET ControlBits]
    /\ vcIsr \in {"out", "read", "call"}
    /\ vcStatus \subseteq VcIrqs /\ vcMask \subseteq vcStatus
    /\ vcSelect \in VcBanks \cup {VcJunk}
    /\ vcBank \in [VcBanks ->
                     [valid : BOOLEAN,
                      word : [1 .. VcFields -> VcModes \cup {VcJunk}]]]
    /\ vcCrossed \in BOOLEAN /\ vcSuspect \subseteq VcBanks

\* Between methods the copy of the control register is what the core holds,
\* so the next method changes its own bit and no other, unless the callback
\* changed control while main was inside a method that does (VipCore.hpp
\* 50-118: read, store and write of the copy with interrupts enabled).
VcCopyIsControl ==
    (vcServed /\ Idle /\ ~vcCrossed) => vcControl = vcRegister

\* While the handler of the object is registered its callback pointer has
\* been given a value (VipCore.cpp 5-26: an interrupt may come at once).
VcCallbackKnown == vcServed => vcCallback # VcJunk

\* A handler clears no interrupt it did not read: one raised while it runs is
\* still raised when it has left (VipCore.cpp 50-60).
VcSeenFirst ==
    [][vcIsr = "call" /\ vcIsr' = "out"
         => vcRaised \ vcStatus \subseteq vcRaised']_vcVars

\* A bank the core may use holds one timing, whole, or nothing a program
\* wrote, at every instant of a change of timings, unless a callback wrote
\* the bank-select register while main was writing a bank
\* (Clocked_Video_Output.cpp 7-62).
VcBankWhole ==
    \A b \in VcBanks \ vcSuspect :
        vcBank[b].valid =>
            \A j, k \in 1 .. VcFields : vcBank[b].word[j] = vcBank[b].word[k]

\* The copy of the control register, the callback and the banks of timings are
\* whole whenever the core or its handler looks at them.
VcSafe == VcTypeInv /\ VcCopyIsControl /\ VcCallbackKnown /\ VcBankWhole
=============================================================================
