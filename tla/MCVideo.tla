------------------------------ MODULE MCVideo ------------------------------
(***************************************************************************)
(* The drivers of the video cores and the status printer of a video chip   *)
(* for TLC, one at a time: "core" says which one runs; the others stay in  *)
(* one of their initial states.                                            *)
(***************************************************************************)
EXTENDS VipCore, VipScaler, VipMixer, VipInput, Adv7181Status

MCTaps == [h |-> 3, v |-> 2]
MCPhases == [h |-> 1, v |-> 2]
MCValues == -40 .. 40
MCTapCounts == 1 .. 9
MCSizes == 1 .. 9
MCPictures == {[width |-> 640, height |-> 480], [width |-> 800, height |-> 600]}

VARIABLE core
vars == <<core, vcVars, vsVars, vmVars, vqVars, viVars, clVars, stVars>>

Init == /\ core \in {"output", "scaler", "mixer", "math", "input", "clipper", "status"}
        /\ VsInit /\ VmInit /\ VqInit
        /\ VcInit
        /\ core # "output" => vcProgram = "struct" /\ vcRegister = {} /\ vcRaised = {}
        /\ ViInit /\ (core # "input" => viFormat = [width |-> 640, height |-> 480])
        /\ ClInit
        /\ core # "clipper" => /\ clRectangle /\ clRegister.x = [from |-> 0, other |-> 2]
                               /\ clRegister.y = [from |-> 0, other |-> 2]
        /\ StInit /\ (core # "status" => stByte = 0)

Output == /\ core = "output" /\ VcNext
          /\ UNCHANGED <<core, vsVars, vmVars, vqVars, viVars, clVars, stVars>>
Scaler == /\ core = "scaler" /\ VsNext
          /\ UNCHANGED <<core, vcVars, vmVars, vqVars, viVars, clVars, stVars>>
Mixer == /\ core = "mixer" /\ VmNext
         /\ UNCHANGED <<core, vcVars, vsVars, vqVars, viVars, clVars, stVars>>
Arithmetic == /\ core = "math" /\ VqNext
              /\ UNCHANGED <<core, vcVars, vsVars, vmVars, viVars, clVars, stVars>>
Input == /\ core = "input" /\ ViNext
         /\ UNCHANGED <<core, vcVars, vsVars, vmVars, vqVars, clVars, stVars>>
Clipper == /\ core = "clipper" /\ ClNext
           /\ UNCHANGED <<core, vcVars, vsVars, vmVars, vqVars, viVars, stVars>>
Status == /\ core = "status" /\ StNext
          /\ UNCHANGED <<core, vcVars, vsVars, vmVars, vqVars, viVars, clVars>>

Next == Output \/ Scaler \/ Mixer \/ Arithmetic \/ Input \/ Clipper \/ Status
Spec == Init /\ [][Next]_vars
-----------------------------------------------------------------------------
(* What the drivers promise, asked where they run.                         *)

\* What the object of a core or of a mixer's layer keeps is what the core has,
\* and what a scaler filters with is a whole set of coefficients (VipCore.hpp,
\* Clocked_Video_Output.cpp, MixerLayer.hpp, Scaler.cpp).
ObjectsSafe == VmSafe /\ VcSafe /\ VsSafe

\* The coefficients and sizes computed for a scaler fit it, and the texts of
\* the status printer are what its chip shows (VipMath.cpp,
\* ScalerCoefficientsSet.cpp, adv7181_debug.h).
VideoDriversSafe == /\ core = "math" => VqSafe
                    /\ core = "status" => StSafe

\* What a driver tells of its input, and what it cuts out of it, is what the
\* input shows (Clocked_Video_Input.hpp, Clipper.hpp).
VideoInputSafe == /\ core = "input" => ViSafe
                  /\ core = "clipper" => ClSafe
=============================================================================
