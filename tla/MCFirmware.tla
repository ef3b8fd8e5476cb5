----------------------------- MODULE MCFirmware -----------------------------
(***************************************************************************)
(* The firmware, one part at a time: "part" says which part runs, the      *)
(* other stays in one of its initial states.  The parts are independent    *)
(* but for the thread that executes them in turn.                          *)
(***************************************************************************)
EXTENDS MainLoop, LayerControl

VARIABLE part
vars == <<part, mlVars, lcVars>>

Init == /\ part \in {"supervision", "layers"}
        /\ MlInit /\ LcInit
        /\ part # "supervision" => mlPanel = MFD_15INCH_TYPE
        /\ part # "layers" => lcShared = lcSwitch

Supervision == part = "supervision" /\ MlNext /\ UNCHANGED <<part, lcVars>>
Layers == part = "layers" /\ LcNext /\ UNCHANGED <<part, mlVars>>

(* Each part keeps the fairness of its own specification.                  *)
Spec == /\ Init /\ [][Supervision \/ Layers]_vars
        /\ WF_vars(part = "supervision" /\ MlFirmware /\ UNCHANGED <<part, lcVars>>)
        /\ WF_vars(part = "supervision" /\ MlGainLock /\ UNCHANGED <<part, lcVars>>)
        /\ WF_vars(part = "layers" /\ LcPass /\ UNCHANGED <<part, mlVars>>)

(* The liveness properties of the part that runs.                          *)
Recovers == part = "supervision" => MlRecovers
HeartBeats == part = "supervision" => MlHeartBeats

\* With the faults over both receivers are up for good and the loop beats its
\* heart (adv7613_regs.h:414-490, main.c:291-310), and an image and a switch that
\* the host leaves alone become what it asked for (main.c:312-423).
FirmwareLive == Recovers /\ HeartBeats /\ LcSettles
=============================================================================
