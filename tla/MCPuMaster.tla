----------------------------- MODULE MCPuMaster -----------------------------
(***************************************************************************)
(* The panel for TLC, its two halves one at a time: the master with its    *)
(* scripts in full, one encoder, counts that saturate at one step, two     *)
(* levels of brightness; and the type of the panel with the resets that    *)
(* hang on it.  "half" says which one runs; the other stays where it       *)
(* starts.                                                                 *)
(***************************************************************************)
EXTENDS PuMaster, PuType

OneEncoder == {0}
\* A host at any pace and a bridge that fails once; a host that spaces its
\* accesses, on a bridge that does not.
FastAndSpaced ==
  {[uses |-> {6}, spaced |-> FALSE, errors |-> 1, pins |-> {0, 1, 3}],
   [uses |-> {1, 6}, spaced |-> TRUE, errors |-> 0, pins |-> {0, 1}]}

VARIABLE half

\* The type's half runs in one of the surroundings: it does not look at them.
PanelInit ==
  /\ half \in {"scan", "type"} /\ Init /\ PtInit
  /\ half = "type" => around.spaced

PanelScan == half = "scan" /\ Next /\ UNCHANGED <<half, ptVars>>
PanelType == half = "type" /\ PtNext /\ UNCHANGED <<half, vars>>
PanelNext == PanelScan \/ PanelType

PanelSpec ==
  /\ PanelInit /\ [][PanelNext]_<<half, vars, ptVars>>
  /\ WF_vars(half = "scan" /\ Clock(TRUE)) /\ WF_ptVars(half = "type" /\ PtClock)

\* The master samples the encoders again and again, whatever the host asks for
\* and however often it is refused (amm_state, pu.sv).
ScanAlive == half = "scan" => ScanGoesOn

\* The resets and the type come to rest together, after any number of resets
\* and of changes of the type that come before the last three edges of the
\* first second (pu_timer, pu.sv).
TypeSettles == half = "type" => PanelSettles
=============================================================================
