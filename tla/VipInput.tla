------------------------------- MODULE VipInput -------------------------------
(***************************************************************************)
(* The clocked video input (Clocked_Video_Input.hpp) and the questions of  *)
(* VipCore.hpp it is asked through.  Every question is a read of its own,  *)
(* and the video changes between two of them: the program learns a size    *)
(* from two registers, clears an overflow it saw a moment ago, and waits   *)
(* for a stop that comes at the end of a field.                            *)
(*                                                                         *)
(* The core is external, known from the comments of the class: a status    *)
(* bit that changes fires the status interrupt if it is enabled, and the   *)
(* sizes change only while the width is not stable.                        *)
(***************************************************************************)
EXTENDS Integers, Sequences

CONSTANTS ViFormats,    \* the sizes a source may have
          ViSignals     \* the status bits that its signal changes

StatusBits == {"producing", "interlaced", "stable", "overflow", "valid", "locked"}
Interrupts == {"status", "field"}
ASSUME ViAssumption == /\ ViSignals \subseteq StatusBits \ {"producing", "overflow"}
                       /\ ViFormats \subseteq [width : Nat, height : Nat]

VARIABLES viStatus,   \* the status register: the bits that are set
          viFormat,   \* what the size registers are taken from
          viFired,    \* the interrupt register
          viGo, viOn, \* the control register: go bit, enabled interrupts
          viFlow,     \* a field is passing through
          viAsked,    \* what the program learnt since it cleared the interrupt
          viLoss,     \* overflows: "none", "seen" by the program, "new"
          viWait      \* stop_and_wait: "no", "waits", "stopped"
viVars == <<viStatus, viFormat, viFired, viGo, viOn, viFlow, viAsked, viLoss, viWait>>

Unknown == [stable |-> "?", width |-> 0, height |-> 0, still |-> FALSE]

ViInit ==
  /\ viStatus = {} /\ viFormat \in ViFormats /\ viFired = {} /\ viGo = FALSE
  /\ viOn = {} /\ viFlow = FALSE /\ viAsked = Unknown /\ viLoss = "none" /\ viWait = "no"

-----------------------------------------------------------------------------
(* The core.                                                               *)
NewStatus(s) == /\ viStatus' = s
                /\ viFired' = IF s # viStatus /\ "status" \in viOn THEN viFired \cup {"status"} ELSE viFired
Signal(bit) == /\ bit = "stable" /\ bit \notin viStatus => "locked" \in viStatus
               /\ bit = "locked" => "stable" \notin viStatus
               /\ NewStatus(IF bit \in viStatus THEN viStatus \ {bit} ELSE viStatus \cup {bit})
               /\ UNCHANGED <<viFormat, viGo, viOn, viFlow, viAsked, viLoss, viWait>>
NewFormat == /\ "stable" \notin viStatus
             /\ viFormat' \in ViFormats
             /\ UNCHANGED <<viStatus, viFired, viGo, viOn, viFlow, viAsked, viLoss, viWait>>
FieldStarts == /\ viGo /\ "stable" \in viStatus /\ ~viFlow /\ viFlow' = TRUE
               /\ NewStatus(viStatus \cup {"producing"})
               /\ UNCHANGED <<viFormat, viGo, viOn, viAsked, viLoss, viWait>>
FieldEnds == /\ viFlow /\ viFlow' = FALSE
             /\ LET s == IF viGo THEN viStatus ELSE viStatus \ {"producing"}
                IN  /\ viStatus' = s
                    /\ viFired' = viFired \cup ({"field"} \cap viOn)
                                   \cup (IF s # viStatus THEN {"status"} \cap viOn ELSE {})
             /\ UNCHANGED <<viFormat, viGo, viOn, viAsked, viLoss, viWait>>
GoesOut == /\ ~viGo /\ ~viFlow /\ "producing" \in viStatus
           /\ NewStatus(viStatus \ {"producing"})
           /\ UNCHANGED <<viFormat, viGo, viOn, viFlow, viAsked, viLoss, viWait>>
Overflows == /\ viFlow /\ NewStatus(viStatus \cup {"overflow"}) /\ viLoss' = "new"
             /\ UNCHANGED <<viFormat, viGo, viOn, viFlow, viAsked, viWait>>
Core == \/ \E bit \in ViSignals : Signal(bit)
        \/ NewFormat \/ FieldStarts \/ FieldEnds \/ GoesOut \/ Overflows

-----------------------------------------------------------------------------
(* The program: one access of a register each.                             *)
Program == viWait # "waits"
Core0 == <<viStatus, viFormat, viFired, viFlow>>
input_start == /\ Program /\ viGo' = TRUE /\ viWait' = "no"
         /\ UNCHANGED <<Core0, viOn, viAsked, viLoss>>
stop_and_wait == /\ Program /\ viGo' = FALSE /\ viWait' = "waits"
                 /\ UNCHANGED <<Core0, viOn, viAsked, viLoss>>
is_running == "producing" \in viStatus
Polls == /\ viWait = "waits" /\ ~is_running /\ viWait' = "stopped"
         /\ UNCHANGED <<Core0, viGo, viOn, viAsked, viLoss>>

enable_interrupt(i) == viOn' = viOn \cup {i}
disable_interrupt(i) == viOn' = viOn \ {i}
enable_status_update_interrupt == enable_interrupt("status")
disable_status_update_interrupt == disable_interrupt("status")
enable_end_of_field_frame_interrupt == enable_interrupt("field")
disable_end_of_field_frame_interrupt == disable_interrupt("field")
Control == /\ Program
           /\ \/ enable_status_update_interrupt \/ disable_status_update_interrupt
              \/ enable_end_of_field_frame_interrupt \/ disable_end_of_field_frame_interrupt
           /\ viAsked' = Unknown        \* a new start: nothing is known any more
           /\ UNCHANGED <<Core0, viGo, viLoss, viWait>>

clear_input_interrupt(i) == viFired' = viFired \ {i}
clear_status_update_interrupt == clear_input_interrupt("status") /\ viAsked' = Unknown
clear_end_of_field_frame_interrupt == clear_input_interrupt("field") /\ UNCHANGED viAsked
Clear == /\ Program /\ (clear_status_update_interrupt \/ clear_end_of_field_frame_interrupt)
         /\ UNCHANGED <<viStatus, viFormat, viGo, viOn, viFlow, viLoss, viWait>>

(* Questions.  All but the stability ask for one bit.                      *)
read_status_register_bit(bit) == bit \in viStatus
is_producing_data == is_running
is_interlaced == read_status_register_bit("interlaced")
is_input_width_stable == read_status_register_bit("stable")
is_valid_resolution == read_status_register_bit("valid")
is_locked == read_status_register_bit("locked")
is_overflowed == read_status_register_bit("overflow")
\* Mutant: the width's bit is left out.
NoWidthBit == {"locked", "valid"} \subseteq viStatus
is_stream_stable == {"locked", "stable", "valid"} \subseteq viStatus

Learns(field, value) == viAsked' = [viAsked EXCEPT ![field] = value, !.still = FALSE]
has_status_update_interrupt_fired == "status" \in viFired
has_end_of_field_frame_interrupt_fired == "field" \in viFired
(* The interrupt is asked last: what was read is good if it has not fired. *)
AskStill == viAsked' = [viAsked EXCEPT !.still = "status" \in viOn /\ ~has_status_update_interrupt_fired]
AskStable == viAsked' = [Unknown EXCEPT !.stable = IF is_stream_stable THEN "yes" ELSE "no"]
get_width == Learns("width", viFormat.width)
get_height_f0 == Learns("height", viFormat.height)
Ask == /\ Program /\ (AskStable \/ get_width \/ get_height_f0 \/ AskStill)
       /\ UNCHANGED <<Core0, viGo, viOn, viLoss, viWait>>

(* The overflow bit is sticky; a program clears it after it saw it.        *)
LookOverflow == /\ Program /\ is_overflowed /\ viLoss' = "seen"
                /\ UNCHANGED <<Core0, viGo, viOn, viAsked, viWait>>
clear_overflow_flag == /\ Program /\ viLoss # "none"
                       /\ NewStatus(viStatus \ {"overflow"})
                       /\ viLoss' = IF viLoss = "seen" THEN "none" ELSE "lost"
                       /\ UNCHANGED <<viFormat, viGo, viOn, viFlow, viAsked, viWait>>

ViNext == \/ Core \/ input_start \/ stop_and_wait \/ Polls \/ Control \/ Clear \/ Ask
          \/ LookOverflow \/ clear_overflow_flag
ViSpec == ViInit /\ [][ViNext]_viVars

-----------------------------------------------------------------------------
(* Registers hold what they can hold; a field passes only when the width   *)
(* was stable at its start.                                                *)
ViTypeInv ==
  /\ viStatus \subseteq StatusBits /\ viFired \subseteq Interrupts /\ viOn \subseteq Interrupts
  /\ viFormat \in ViFormats /\ viLoss \in {"none", "seen", "new", "lost"}

(* A width and a height read after the stream was found stable, with the   *)
(* status interrupt clear, enabled and not fired since, are of one format; *)
(* neither the stability nor the interrupt alone is enough.                *)
ViSizesAgree ==
  viAsked.stable = "yes" /\ viAsked.still /\ 0 \notin {viAsked.width, viAsked.height}
    => [width |-> viAsked.width, height |-> viAsked.height] \in ViFormats

(* After stop_and_wait the core produces nothing until it is started.      *)
ViStopped == viWait = "stopped" /\ ~viGo => "producing" \notin viStatus /\ ~viFlow

(* An overflow stays in the register until the program clears the flag.    *)
ViOverflowKept == viLoss \in {"seen", "new"} => is_overflowed

ViSafe == ViTypeInv /\ ViSizesAgree /\ ViStopped /\ ViOverflowKept

-------------------------------------------------------------------------------
(***************************************************************************)
(* The clipper (Clipper.hpp, Clipper.cpp): four registers, written one by  *)
(* one, that say which part of a picture passes -- offsets from the four   *)
(* sides, or a corner with width and height.  The core takes them over at  *)
(* the start of a picture, which may lie between two writes.               *)
(*                                                                         *)
(* A side is [from, other]: the left (top) offset and, in the register     *)
(* after it, the right (bottom) offset or the width (height).              *)
(***************************************************************************)

CONSTANT ClSize      \* pixels and lines of a picture

ASSUME ClAssumption == ClSize \in Nat \ {0}

VARIABLES clRectangle,   \* rectangle_mode
          clRegister,    \* the registers, of both directions
          clTodo,        \* the writes that the method running has left
          clBefore,      \* the registers when it began, and
          clAfter,       \* what it was asked to set
          clRun          \* the core takes pictures, each as the registers say
clVars == <<clRectangle, clRegister, clTodo, clBefore, clAfter, clRun>>

Offsets == 0 .. ClSize
Sides == [from : Offsets, other : Offsets]
(* A side leaves something of the picture and nothing beyond it.           *)
Inside(s) == IF clRectangle THEN s.other > 0 /\ s.from + s.other <= ClSize
                            ELSE s.from + s.other < ClSize
Windows == {w \in [x : Sides, y : Sides] : Inside(w.x) /\ Inside(w.y)}

set_left_offset(w) == [axis |-> "x", part |-> "from", to |-> w.x.from]
set_top_offset(w) == [axis |-> "y", part |-> "from", to |-> w.y.from]
set_right_offset(w) == [axis |-> "x", part |-> "other", to |-> w.x.other]
set_bottom_offset(w) == [axis |-> "y", part |-> "other", to |-> w.y.other]
set_width(w) == [axis |-> "x", part |-> "other", to |-> w.x.other]
set_height(w) == [axis |-> "y", part |-> "other", to |-> w.y.other]

set_offsets(w) == <<set_left_offset(w), set_right_offset(w), set_top_offset(w), set_bottom_offset(w)>>
\* Mutant: the sizes before the corner.
set_sizes_first(w) == <<set_width(w), set_height(w), set_left_offset(w), set_top_offset(w)>>
set_rectangle(w) == <<set_left_offset(w), set_top_offset(w), set_width(w), set_height(w)>>

ClInit ==
  /\ clRectangle \in BOOLEAN
  /\ clRegister \in Windows
  /\ clTodo = <<>> /\ clBefore = clRegister /\ clAfter = clRegister
  /\ clRun = FALSE

Method == /\ clTodo = <<>>
          /\ \E w \in Windows :
               /\ clTodo' = IF clRectangle THEN set_rectangle(w) ELSE set_offsets(w)
               /\ clAfter' = w
          /\ clBefore' = clRegister
          /\ UNCHANGED <<clRectangle, clRegister, clRun>>
Write == /\ clTodo # <<>>
         /\ clRegister' = [clRegister EXCEPT ![Head(clTodo).axis][Head(clTodo).part] = Head(clTodo).to]
         /\ clTodo' = Tail(clTodo)
         /\ UNCHANGED <<clRectangle, clBefore, clAfter, clRun>>
(* start, and stop_and_wait, which returns between two pictures.           *)
StartStop == /\ clTodo = <<>> /\ clRun' = ~clRun
             /\ UNCHANGED <<clRectangle, clRegister, clTodo, clBefore, clAfter>>

ClNext == Method \/ Write \/ StartStop
ClSpec == ClInit /\ [][ClNext]_clVars

-----------------------------------------------------------------------------
(* Registers hold offsets of the picture.                                  *)
ClTypeInv == clRegister \in [x : Sides, y : Sides]

(* A picture that begins at this moment is cut by a window that leaves it, *)
(* or leaves nothing of it, only if the core runs while a method moves the *)
(* left or top side inwards: moving outwards, or changing sizes alone, is  *)
(* safe at any moment, because both methods write the left and top offset  *)
(* before the other side.                                                  *)
ClOutsideOnly ==
  clRun => /\ ~Inside(clRegister.x) => clTodo # <<>> /\ clBefore.x.from < clAfter.x.from
           /\ ~Inside(clRegister.y) => clTodo # <<>> /\ clBefore.y.from < clAfter.y.from

(* A picture that begins between two methods is cut as the last one asked. *)
ClAsAsked == clTodo = <<>> => clRegister = clAfter

ClSafe == ClTypeInv /\ ClOutsideOnly /\ ClAsAsked
===============================================================================
