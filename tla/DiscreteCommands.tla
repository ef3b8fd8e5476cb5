--------------------------- MODULE DiscreteCommands ---------------------------
(***************************************************************************)
(* The discrete commands in, qsys/discr_cmd_in/discr_cmd_in.sv, and a host *)
(* that is told of them by interrupt.  One step is one edge of clk.  The   *)
(* flags are cleared by the read that tells them, some edges later: what   *)
(* changes in between is in no flag.  The host therefore reads the inputs  *)
(* after the flags, and leaves an edge free before it does.  The number of *)
(* the board, which two registers repeat, is left out.                     *)
(***************************************************************************)
EXTENDS Integers

CONSTANTS DiInputs,      \* the inputs: COUNT of them
          DiWanted,      \* those the host unmasks
          DiSettings     \* values it writes to register 0

VARIABLES
  diState, diAddress, diData,     \* ams_state, ams_address_d, ams_writedata_d
  diAnswer,                       \* ams_readdata when it is valid: <<>> or <<it>>
  diSet, diMask,                  \* dc_vwet .. dc_sense as a set; dc_mask
  diClear, diAck, diInt, diIntD,  \* dc_int_clear, dc_int_ack, dc_int, dc_int_d
  diStatus, diStatusD,            \* dc_status, dc_status_d
  diLines, diIrq,                 \* vwet, ths_int, ths_sel, sense; irq
  diIn,                           \* dc_in
  diHost,                         \* the host's access on the bus
  diStep, diKnown, diCalled       \* the host: next access, inputs known, interrupted

diRegs == <<diState, diAddress, diData, diAnswer, diSet, diMask, diClear>>
diPipe == <<diAck, diInt, diIntD, diStatus, diStatusD, diLines, diIrq>>
diSoft == <<diHost, diStep, diKnown, diCalled>>
diVars == <<diRegs, diPipe, diIn, diSoft>>

DiNoAccess == [op |-> "none"]
DiReads(a) == [op |-> "read", address |-> a, data |-> {}]
DiWrites(a, d) == [op |-> "write", address |-> a, data |-> d]

DiInit ==
  /\ diState = "RESET" /\ diAddress = 0 /\ diData = {} /\ diAnswer = <<>>
  /\ diSet = {} /\ diMask = {} /\ diClear = FALSE /\ diAck = FALSE
  /\ diInt = {} /\ diIntD = {} /\ diStatus = {} /\ diStatusD = {}
  /\ diLines = {} /\ diIrq \in BOOLEAN          \* irq has no reset
  /\ diIn \in SUBSET DiInputs
  /\ diHost = DiNoAccess /\ diStep = "mask" /\ diKnown = {} /\ diCalled = FALSE
-----------------------------------------------------------------------------
\* ams_waitrequest, registered with the state.
DiTaken == diState \in {"WRITE", "READ"}

DiIdle ==
  /\ diState = "IDLE"
  /\ diState' = [none |-> "IDLE", read |-> "READ", write |-> "WRITE"][diHost.op]
  /\ IF diHost = DiNoAccess THEN diAddress' = 0 /\ diData' = {}
                            ELSE diAddress' = diHost.address /\ diData' = diHost.data
  /\ diClear' = (diClear /\ ~diAck)
  /\ diAnswer' = <<>> /\ UNCHANGED <<diSet, diMask>>

DiWrite ==
  /\ diState = "WRITE" /\ diState' = "IDLE" /\ diAnswer' = <<>>
  /\ diSet'  = IF diAddress = 0 THEN diData ELSE diSet
  /\ diMask' = IF diAddress = 3 THEN diData ELSE diMask
  /\ UNCHANGED <<diAddress, diData, diClear>>

DiReadKeeps ==
  /\ diState = "READ" /\ diState' = "IDLE"
  /\ diAnswer' = <<<<diSet, diStatus, diInt, diMask>>[diAddress + 1]>>
  /\ diClear' = FALSE
  /\ UNCHANGED <<diAddress, diData, diSet, diMask>>
DiRead ==
  /\ diState = "READ" /\ diState' = "IDLE"
  /\ diAnswer' = <<<<diSet, diStatus, diInt, diMask>>[diAddress + 1]>>
  /\ diClear' = (diClear \/ diAddress = 2)
  /\ UNCHANGED <<diAddress, diData, diSet, diMask>>

DiReset ==
  /\ diState = "RESET" /\ diState' = "IDLE"
  /\ diSet' = {} /\ diMask' = {} /\ diClear' = FALSE /\ diAnswer' = <<>>
  /\ UNCHANGED <<diAddress, diData>>

\* The inputs that change from dc_status_d to dc_status.
DiChanged == (diStatus \union diStatusD) \ (diStatus \intersect diStatusD)

DiLinesOf(s) ==
  (s \intersect {"ths_int", "ths_sel"})
  \union (IF "vwet" \in s /\ (IF "ths_int" \in s THEN "sense" ELSE "ths_sel") \notin s
          THEN {"vwet"} ELSE {})
  \union (IF (IF "ths_int" \in s THEN "sense" ELSE "ths_sel") \in s THEN {"sense"} ELSE {})

DiFlags ==
  /\ diAck' = diClear
  /\ diInt'  = IF diClear THEN {} ELSE diInt \union (DiChanged \intersect diMask)
  /\ diIntD' = IF diClear THEN {} ELSE diInt
  /\ diIrq' = (diInt # diIntD)
  /\ diStatus' = diStatusD /\ diStatusD' = diIn
  /\ diLines' = DiLinesOf(diSet)

\* The host: unmasks, then reads flags and inputs once, and again whenever it
\* is interrupted; in between it may write the settings.
DiIssue ==
  \/ diStep = "mask" /\ diHost' = DiWrites(3, DiWanted) /\ diStep' = "flags"
  \/ diStep = "flags" /\ diHost' = DiReads(2) /\ diStep' = "status"
  \/ diStep = "status" /\ diHost = DiNoAccess /\ diHost' = DiReads(1) /\ diStep' = "known"
  \/ /\ diStep = "idle"
     /\ \E s \in DiSettings : diHost' = DiWrites(0, s) /\ UNCHANGED diStep
DiHostStep ==
  /\ \/ diHost # DiNoAccess /\ ~DiTaken /\ UNCHANGED <<diHost, diStep>>
     \/ diHost = DiNoAccess /\ diStep = "idle" /\ diCalled /\ diStep' = "flags" /\ UNCHANGED diHost
     \/ diHost = DiNoAccess /\ diStep = "known" /\ diAnswer # <<>> /\ diStep' = "idle"
        /\ UNCHANGED diHost
     \/ (diHost = DiNoAccess \/ DiTaken) /\ DiIssue
     \/ (diHost = DiNoAccess \/ DiTaken) /\ diHost' = DiNoAccess /\ UNCHANGED diStep
  /\ diKnown' = IF diStep = "known" /\ diAnswer # <<>> THEN diAnswer[1] ELSE diKnown
  /\ diCalled' = (diIrq \/ (diCalled /\ ~(diStep = "idle" /\ diStep' = "flags")))

DiNext ==
  /\ DiIdle \/ DiWrite \/ DiRead \/ DiReset
  /\ DiFlags /\ DiHostStep
  /\ diIn' \in SUBSET DiInputs
-----------------------------------------------------------------------------
DiTypeInv ==
  /\ diState \in {"RESET", "IDLE", "WRITE", "READ"} /\ diAddress \in 0 .. 3
  /\ diMask \in {{}, DiWanted} /\ diSet \in {{}} \union DiSettings
  /\ diInt \subseteq DiWanted /\ diIntD \subseteq diInt
  /\ diStep \in {"mask", "flags", "status", "known", "idle"}

\* A host that has seen to its last interrupt knows every input it unmasked, as
\* soon as the inputs have been still for three edges: what the clearing of the
\* flags loses is in the inputs read after it (discr_cmd_in.sv:122-133, 184-192).
DiHostKnows ==
  /\ diStep = "idle" /\ ~diCalled /\ ~diIrq /\ diInt = diIntD
  /\ diStatus = diStatusD /\ diStatusD = diIn
  => diKnown \intersect DiWanted = diIn \intersect DiWanted

DiSafe == DiTypeInv /\ DiHostKnows

-------------------------------------------------------------------------------
(***************************************************************************)
(* The discrete commands out, qsys/discr_cmd_out/discr_cmd_out.sv: an      *)
(* output is on while the host commands it, no fault is seen on it, and    *)
(* the host has not been silent for TIMEOUT.  One step is one edge of clk, *)
(* with any access of the host and any faults.                             *)
(***************************************************************************)

CONSTANTS DoOutputs,     \* the outputs: COUNT of them
          DoTimeout      \* TIMEOUT: edges of silence

ASSUME DoAssumption == DoTimeout \in Nat

VARIABLES
  doState, doAddress, doData,      \* ams_state, ams_address_d, ams_writedata_d
  doAnswer,                        \* ams_readdata when it is valid: <<>> or <<it>>
  doControl, doTimer, doTimedOut,  \* dc_control, dc_timer, dc_timeout
  doStatus, doStatusD, doControlD, \* dc_status, dc_status_d, dc_control_d
  doOut, doIrq,                    \* out, irq
  doSilent, doFaulty, doTold       \* history: edges of silence, edges of each fault
                                   \* and the outputs the host wants, both capped

doRegs == <<doState, doAddress, doData, doAnswer, doControl, doTimer, doTimedOut>>
doPipe == <<doStatus, doStatusD, doControlD, doOut, doIrq>>
doVars == <<doRegs, doPipe, doSilent, doFaulty, doTold>>

DoInit ==
  /\ doState = "RESET" /\ doAddress = 0 /\ doData = {} /\ doAnswer = <<>>
  /\ doControl = {} /\ doTimer = 0 /\ doTimedOut = FALSE
  /\ doStatus = {} /\ doStatusD = {} /\ doControlD = {} /\ doOut = {}
  /\ doIrq \in BOOLEAN                        \* irq has no reset
  /\ doSilent = 0 /\ doFaulty = [o \in DoOutputs |-> 0] /\ doTold = <<{}, {}, {}>>
-----------------------------------------------------------------------------
\* An access starts the silence again, a read as well as a write.
DoTake(state, address, data) ==
  /\ doState = "IDLE" /\ doState' = state
  /\ doAddress' = address /\ doData' = data /\ doAnswer' = <<>>
  /\ doTimer' = 0 /\ doTimedOut' = FALSE /\ doSilent' = 0
  /\ UNCHANGED doControl

DoSilenceLate ==
  /\ doState = "IDLE" /\ doAddress' = 0 /\ doData' = {} /\ doAnswer' = <<>>
  /\ doTimer' = IF doTimer < DoTimeout THEN doTimer + 1 ELSE doTimer
  /\ doTimedOut' = (DoTimeout > 0 /\ doTimer >= DoTimeout)
  /\ doSilent' = IF doSilent > DoTimeout THEN doSilent ELSE doSilent + 1
  /\ UNCHANGED <<doState, doControl>>
DoSilence ==
  /\ doState = "IDLE" /\ doAddress' = 0 /\ doData' = {} /\ doAnswer' = <<>>
  /\ doTimer' = IF doTimer < DoTimeout - 1 THEN doTimer + 1 ELSE doTimer
  /\ doTimedOut' = (DoTimeout > 0 /\ doTimer >= DoTimeout - 1)
  /\ doSilent' = IF doSilent > DoTimeout THEN doSilent ELSE doSilent + 1
  /\ UNCHANGED <<doState, doControl>>

DoWrite ==
  /\ doState = "WRITE" /\ doState' = "IDLE" /\ doAnswer' = <<>>
  /\ doControl' = IF doAddress = 0 THEN doData ELSE doControl
  /\ UNCHANGED <<doAddress, doData, doTimer, doTimedOut, doSilent>>

DoRead ==
  /\ doState = "READ" /\ doState' = "IDLE"
  /\ doAnswer' = <<CASE doAddress = 0 -> doControl [] doAddress = 1 -> doStatus
                     [] OTHER -> "DEADC0DE">>
  /\ UNCHANGED <<doAddress, doData, doControl, doTimer, doTimedOut, doSilent>>

DoReset ==
  /\ doState = "RESET" /\ doState' = "IDLE"
  /\ doControl' = {} /\ doTimer' = 0 /\ doTimedOut' = FALSE /\ doAnswer' = <<>>
  /\ UNCHANGED <<doAddress, doData, doSilent>>

DoDrive(fault) ==
  /\ doStatus' = fault /\ doStatusD' = doStatus
  /\ doIrq' = (doStatus # doStatusD)
  /\ doControlD' = doControl \ doStatus
  /\ doOut' = IF doTimedOut THEN {} ELSE doControlD
  /\ doFaulty' = [o \in DoOutputs |->
       IF o \notin fault THEN 0 ELSE IF doFaulty[o] = 3 THEN 3 ELSE doFaulty[o] + 1]
  /\ doTold' = <<doControl', doTold[1], doTold[2]>>

DoNext ==
  /\ \/ \E a \in 0 .. 2 : DoTake("READ", a, {})
     \/ \E a \in 0 .. 1, d \in SUBSET DoOutputs : DoTake("WRITE", a, d)
     \/ DoSilence \/ DoWrite \/ DoRead \/ DoReset
  /\ \E fault \in SUBSET DoOutputs : DoDrive(fault)
-----------------------------------------------------------------------------
DoTypeInv ==
  /\ doState \in {"RESET", "IDLE", "WRITE", "READ"} /\ doAddress \in 0 .. 2
  /\ doControl \subseteq DoOutputs /\ doTimer \in 0 .. DoTimeout
  /\ doTimedOut \in BOOLEAN /\ doSilent \in 0 .. DoTimeout + 1
  /\ doStatus \subseteq DoOutputs /\ doControlD \subseteq DoOutputs

\* A host that is silent for TIMEOUT edges and one more has every output off;
\* one that comes back before TIMEOUT is never cut off.
DoSilenced ==
  DoTimeout > 0 => /\ doSilent > DoTimeout => doOut = {}
                   /\ doSilent < DoTimeout => ~doTimedOut

\* An output whose fault has lasted three edges is off, however the host writes
\* and reads meanwhile, and nothing is on that the host did not ask for.
DoFaultOff ==
  \A o \in doOut : doFaulty[o] < 3 /\ o \in doTold[3]

DoSafe == DoTypeInv /\ DoSilenced /\ DoFaultOff
===============================================================================
