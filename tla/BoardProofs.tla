---------------------------- MODULE BoardProofs ----------------------------
(***************************************************************************)
(* Proofs about the board: an inductive invariant for each of its slaves   *)
(* (DiscreteCommands, FlashBoot, Arinc429 and Backlight) with the safety   *)
(* of their composition in MCBoard, and one for the configurators with     *)
(* theirs.  All hold for every value of the constants, the reset chain     *)
(* being at most three long.                                               *)
(***************************************************************************)
EXTENDS MCBoard, TLAPS, FiniteSetTheorems, SequenceTheorems

-----------------------------------------------------------------------------
(* The discrete commands out.                                              *)

DoTypes ==
  /\ doState \in {"RESET", "IDLE", "WRITE", "READ"} /\ doAddress \in 0 .. 2
  /\ doData \subseteq DoOutputs /\ doControl \subseteq DoOutputs
  /\ doSilent \in 0 .. DoTimeout + 1
  /\ doStatus \subseteq DoOutputs /\ doControlD \subseteq DoOutputs
  /\ doOut \subseteq DoOutputs /\ doFaulty \in [DoOutputs -> 0 .. 3]

\* The timer follows the silence until it stands at TIMEOUT - 1; an access that
\* is being served has ended the silence.
DoTiming ==
  /\ doTimer = IF DoTimeout = 0 THEN 0
               ELSE IF doSilent < DoTimeout THEN doSilent ELSE DoTimeout - 1
  /\ doTimedOut <=> (DoTimeout > 0 /\ doSilent >= DoTimeout)
  /\ doState # "IDLE" => doSilent = 0
  /\ DoTimeout > 0 /\ doSilent > DoTimeout => doOut = {}

\* A fault is in the status after one edge, out of the command after two and
\* out of the output after three; what the host wants takes as many.
DoStages ==
  /\ \A o \in DoOutputs : /\ doFaulty[o] >= 1 => o \in doStatus
                          /\ doFaulty[o] >= 2 => o \notin doControlD
                          /\ doFaulty[o] >= 3 => o \notin doOut
  /\ doTold[1] = doControl /\ doControlD \subseteq doTold[2] /\ doOut \subseteq doTold[3]

DoInv == DoTypes /\ DoTiming /\ DoStages /\ doTimedOut \in BOOLEAN

\* The outputs start within their invariant.
LEMMA DoInitInv == DoInit => DoInv
<1> SUFFICES ASSUME DoInit PROVE DoInv
  OBVIOUS
<1>1. DoTypes
  BY DoAssumption DEF DoInit, DoTypes
<1>2. DoTiming
  <2>1. ~doTimedOut
    BY DEF DoInit
  <2>2. QED BY <2>1, DoAssumption DEF DoInit, DoTiming
<1>3. DoStages
  BY DEF DoInit, DoStages
<1>4. doTimedOut \in BOOLEAN
  BY DEF DoInit
<1>5. QED BY <1>1, <1>2, <1>3, <1>4 DEF DoInv

\* The invariant of the outputs has what DoSafe asks for.
LEMMA DoInvSafe == DoInv => DoSafe
<1> SUFFICES ASSUME DoInv PROVE DoSafe
  OBVIOUS
<1>1. DoTypeInv
  <2>1. doTimer \in 0 .. DoTimeout
    BY DoAssumption DEF DoInv, DoTypes, DoTiming
  <2>2. QED BY <2>1 DEF DoInv, DoTypes, DoTypeInv
<1>2. DoSilenced
  BY DoAssumption DEF DoInv, DoTypes, DoTiming, DoSilenced
<1>3. DoFaultOff
  BY DEF DoInv, DoTypes, DoStages, DoFaultOff
<1>4. QED BY <1>1, <1>2, <1>3 DEF DoSafe

\* One edge of discr_cmd_out keeps it: every access, the silence and the reset
\* on the host's side, and on the other side the three registers of an output.
LEMMA DoNextInv == DoInv /\ DoNext => DoInv'
<1> SUFFICES ASSUME DoInv, DoNext PROVE DoInv'
  OBVIOUS
<1>1. PICK fault \in SUBSET DoOutputs : DoDrive(fault)
  BY DEF DoNext
<1>2. \/ \E state \in {"READ", "WRITE"}, a \in 0 .. 2, d \in SUBSET DoOutputs : DoTake(state, a, d)
      \/ DoSilence \/ DoWrite \/ DoRead \/ DoReset
  <2>1. 0 .. 1 \subseteq 0 .. 2 /\ {} \in SUBSET DoOutputs
    OBVIOUS
  <2>2. QED BY <2>1, Zenon DEF DoNext
<1>3. doFaulty' \in [DoOutputs -> 0 .. 3]
  BY <1>1 DEF DoDrive, DoInv, DoTypes
<1>4. DoStages'
  <2>1. ASSUME NEW o \in DoOutputs
        PROVE  /\ doFaulty'[o] >= 1 => o \in doStatus'
               /\ doFaulty'[o] >= 2 => o \notin doControlD'
               /\ doFaulty'[o] >= 3 => o \notin doOut'
    BY <1>1 DEF DoDrive, DoInv, DoTypes, DoStages
  <2>2. doTold' = <<doControl', doTold[1], doTold[2]>>
    BY <1>1 DEF DoDrive
  <2>3. doControlD' \subseteq doControl /\ doOut' \subseteq doControlD
    BY <1>1 DEF DoDrive
  <2>4. QED BY <2>1, <2>2, <2>3 DEF DoStages, DoInv
<1>5. /\ doStatus' \subseteq DoOutputs /\ doControlD' \subseteq DoOutputs
      /\ doOut' \subseteq DoOutputs
  BY <1>1 DEF DoDrive, DoInv, DoTypes
<1>6. DoTimeout > 0 /\ doTimedOut => doOut' = {}
  BY <1>1 DEF DoDrive
<1>7. doTimedOut' \in BOOLEAN
  BY <1>2, Zenon DEF DoTake, DoSilence, DoWrite, DoRead, DoReset, DoInv
<1> DEFINE Slave == /\ doState \in {"RESET", "IDLE", "WRITE", "READ"} /\ doAddress \in 0 .. 2
                    /\ doData \subseteq DoOutputs /\ doControl \subseteq DoOutputs
                    /\ doSilent \in 0 .. DoTimeout + 1 /\ DoTiming
<1>8. Slave'
  <2> USE DoAssumption DEF DoInv, DoTypes, DoTiming
  <2>1. ASSUME NEW state \in {"READ", "WRITE"}, NEW a \in 0 .. 2, NEW d \in SUBSET DoOutputs,
               DoTake(state, a, d)
        PROVE  Slave'
    <3>1. ~doTimedOut'
      BY <2>1 DEF DoTake
    <3>2. QED BY <2>1, <3>1 DEF DoTake
  <2>2. CASE DoSilence
    <3>1. doTimedOut' <=> (DoTimeout > 0 /\ doTimer >= DoTimeout - 1)
      BY <2>2, Zenon DEF DoSilence
    <3>2. QED BY <2>2, <3>1, <1>6 DEF DoSilence
  <2>3. CASE DoWrite
    BY <2>3 DEF DoWrite
  <2>4. CASE DoRead
    BY <2>4 DEF DoRead
  <2>5. CASE DoReset
    <3>1. ~doTimedOut'
      BY <2>5 DEF DoReset
    <3>2. QED BY <2>5, <3>1 DEF DoReset
  <2>6. QED BY <1>2, <2>1, <2>2, <2>3, <2>4, <2>5
<1>9. QED BY <1>3, <1>4, <1>5, <1>7, <1>8 DEF DoInv, DoTypes
-----------------------------------------------------------------------------
(* The discrete commands in.                                               *)

\* Where the host is in its round says what is on the bus, how far the clearing
\* of the flags has come and whether the inputs are unmasked.
DiPhase(step, host, states) == diStep = step /\ diHost = host /\ diState \in states
DiCleared == ~diClear /\ ~diAck
DiWay ==
  \/ DiPhase("mask", DiNoAccess, {"RESET", "IDLE"}) /\ DiCleared
  \/ DiPhase("flags", DiWrites(3, DiWanted), {"RESET", "IDLE", "WRITE"}) /\ DiCleared
  \/ /\ diMask = DiWanted
     /\ \/ DiPhase("flags", DiNoAccess, {"IDLE"}) /\ DiCleared
        \/ DiPhase("status", DiReads(2), {"IDLE", "READ"}) /\ DiCleared
        \/ DiPhase("status", DiNoAccess, {"IDLE"})
        \/ DiPhase("known", DiReads(1), {"IDLE"}) /\ (diClear => diAck) /\ diAnswer = <<>>
        \/ DiPhase("known", DiReads(1), {"READ"}) /\ ~diClear /\ diAnswer = <<>>
        \/ DiPhase("known", DiNoAccess, {"IDLE"}) /\ DiCleared
        \/ DiPhase("idle", DiNoAccess, {"IDLE"}) /\ DiCleared
        \/ \E s \in DiSettings :
             DiPhase("idle", DiWrites(0, s), {"IDLE", "WRITE"}) /\ DiCleared

DiTypes ==
  /\ diMask \in {{}, DiWanted} /\ diSet \in {{}} \union DiSettings
  /\ diAddress \in 0 .. 3
  /\ diInt \subseteq DiWanted /\ diIntD \subseteq diInt
  /\ diState \in {"WRITE", "READ"} => diAddress = diHost.address /\ diData = diHost.data
  /\ diClear \in BOOLEAN /\ diAck \in BOOLEAN /\ diIrq \in BOOLEAN /\ diCalled \in BOOLEAN

\* A flag that is set after the clearing interrupts the host.
DiTells ==
  /\ diStep \in {"known", "idle"} \/ (diStep = "status" /\ diHost = DiNoAccess /\ (diClear => diAck))
  /\ diInt # {}
  => diInt # diIntD \/ diIrq \/ diCalled

\* What has changed since the host read the inputs is in the flags.
DiSeen == IF diStep = "known" /\ diAnswer # <<>> THEN diAnswer[1] ELSE diKnown
DiNothingLost ==
  diStep = "idle" \/ (diStep = "known" /\ diHost = DiNoAccess)
  => \A i \in DiWanted : (i \in DiSeen <=> i \in diStatus) \/ i \in diInt

DiInv == DiWay /\ DiTypes /\ DiTells /\ DiNothingLost

\* The accesses differ.
LEMMA DiBus ==
  /\ DiNoAccess.op = "none"
  /\ \A a : /\ DiReads(a).op = "read" /\ DiReads(a) # DiNoAccess
            /\ DiReads(a).address = a /\ DiReads(a).data = {}
  /\ \A a, d : /\ DiWrites(a, d).op = "write" /\ DiWrites(a, d) # DiNoAccess
               /\ DiWrites(a, d).address = a /\ DiWrites(a, d).data = d
BY DEF DiNoAccess, DiReads, DiWrites

\* The host starts with the read of the inputs, or with the write of the mask.
LEMMA DiInitInv == DiInit => DiInv
<1> SUFFICES ASSUME DiInit PROVE DiInv
  OBVIOUS
<1>1. DiWay
  BY DEF DiInit, DiWay, DiPhase, DiCleared
<1>2. DiTypes
  <2>1. diClear \in BOOLEAN /\ diAck \in BOOLEAN /\ diIrq \in BOOLEAN /\ diCalled \in BOOLEAN
    BY DEF DiInit
  <2>2. QED BY <2>1 DEF DiInit, DiTypes
<1>3. DiTells /\ DiNothingLost
  BY DEF DiInit, DiTells, DiNothingLost
<1>4. QED BY <1>1, <1>2, <1>3 DEF DiInv

\* The registers of the slave: what one edge makes of them, in each state.
DiSlaveStep ==
  /\ diState = "RESET" => /\ diState' = "IDLE" /\ ~diClear' /\ diMask' = {} /\ diSet' = {}
                          /\ diAddress' = diAddress /\ diData' = diData
  /\ diState = "IDLE" /\ diHost = DiNoAccess => diState' = "IDLE" /\ diAddress' = 0
  /\ diState = "IDLE" /\ diHost # DiNoAccess =>
       /\ diHost.op = "read" => diState' = "READ"
       /\ diHost.op = "write" => diState' = "WRITE"
       /\ diAddress' = diHost.address /\ diData' = diHost.data
  /\ diState = "IDLE" => /\ diMask' = diMask /\ diSet' = diSet /\ diAnswer' = <<>>
                         /\ diClear' <=> diClear /\ ~diAck
  /\ diState = "WRITE" => /\ diState' = "IDLE" /\ (diClear' <=> diClear)
                          /\ diMask' = IF diAddress = 3 THEN diData ELSE diMask
                          /\ diSet' = IF diAddress = 0 THEN diData ELSE diSet
                          /\ diAddress' = diAddress /\ diData' = diData
  /\ diState = "READ" => /\ diState' = "IDLE" /\ diMask' = diMask /\ diSet' = diSet
                         /\ diClear' <=> diClear \/ diAddress = 2
                         /\ diAddress = 1 => diAnswer' = <<diStatus>>
                         /\ diAddress' = diAddress /\ diData' = diData
  /\ diAck' <=> diClear
  /\ diClear' \in BOOLEAN /\ diAck' \in BOOLEAN /\ diIrq' \in BOOLEAN

\* The step of the slave, one equation to a register.
LEMMA DiSlave ==
  ASSUME DiIdle \/ DiWrite \/ DiRead \/ DiReset, DiFlags, DiTypes
  PROVE  DiSlaveStep
<1>1. diState = "RESET" => DiReset
  BY DEF DiIdle, DiWrite, DiRead, DiReset
<1>2. diState = "IDLE" => DiIdle
  BY DEF DiIdle, DiWrite, DiRead, DiReset
<1>3. diState = "WRITE" => DiWrite
  BY DEF DiIdle, DiWrite, DiRead, DiReset
<1>4. diState = "READ" => DiRead
  BY DEF DiIdle, DiWrite, DiRead, DiReset
<1>5. diState = "RESET" => /\ diState' = "IDLE" /\ ~diClear' /\ diMask' = {} /\ diSet' = {}
                           /\ diAddress' = diAddress /\ diData' = diData
  BY <1>1 DEF DiReset
<1>6. diState = "IDLE" /\ diHost = DiNoAccess => diState' = "IDLE" /\ diAddress' = 0
  BY <1>2 DEF DiIdle, DiNoAccess
<1>7. diState = "IDLE" /\ diHost # DiNoAccess =>
        /\ diHost.op = "read" => diState' = "READ"
        /\ diHost.op = "write" => diState' = "WRITE"
        /\ diAddress' = diHost.address /\ diData' = diHost.data
  BY <1>2 DEF DiIdle
<1>8. diState = "IDLE" => /\ diMask' = diMask /\ diSet' = diSet /\ diAnswer' = <<>>
                          /\ diClear' <=> diClear /\ ~diAck
  BY <1>2, Zenon DEF DiIdle
<1>9. diState = "WRITE" => /\ diState' = "IDLE" /\ (diClear' <=> diClear)
                           /\ diMask' = IF diAddress = 3 THEN diData ELSE diMask
                           /\ diSet' = IF diAddress = 0 THEN diData ELSE diSet
                           /\ diAddress' = diAddress /\ diData' = diData
  BY <1>3 DEF DiWrite
<1>10. diState = "READ" => /\ diState' = "IDLE" /\ diMask' = diMask /\ diSet' = diSet
                           /\ diClear' <=> diClear \/ diAddress = 2
                           /\ diAddress' = diAddress /\ diData' = diData
  BY <1>4, Zenon DEF DiRead
<1>11. diState = "READ" /\ diAddress = 1 => diAnswer' = <<diStatus>>
  BY <1>4 DEF DiRead
<1>12. (diAck' <=> diClear) /\ diAck' \in BOOLEAN /\ diIrq' \in BOOLEAN
  BY Zenon DEF DiFlags, DiTypes
<1>13. diClear' \in BOOLEAN
  BY Zenon DEF DiTypes, DiIdle, DiWrite, DiRead, DiReset
<1>14. QED BY <1>5, <1>6, <1>7, <1>8, <1>9, <1>10, <1>11, <1>12, <1>13 DEF DiSlaveStep

\* The host: what one edge makes of its access and of its place in the round.
DiHostRound ==
  /\ diHost # DiNoAccess /\ ~DiTaken => diHost' = diHost /\ diStep' = diStep
  /\ DiTaken /\ diStep = "flags" => \/ diHost' = DiReads(2) /\ diStep' = "status"
                                    \/ diHost' = DiNoAccess /\ diStep' = "flags"
  /\ DiTaken /\ diHost # DiNoAccess /\ diStep \in {"status", "known"} =>
       diHost' = DiNoAccess /\ diStep' = diStep
  /\ DiTaken /\ diHost # DiNoAccess /\ diStep = "idle" =>
       /\ diStep' = "idle"
       /\ diHost' = DiNoAccess \/ \E s \in DiSettings : diHost' = DiWrites(0, s)
  /\ diHost = DiNoAccess =>
       \/ diHost' = DiNoAccess /\ diStep' = diStep
       \/ diStep = "mask" /\ diHost' = DiWrites(3, DiWanted) /\ diStep' = "flags"
       \/ diStep = "flags" /\ diHost' = DiReads(2) /\ diStep' = "status"
       \/ diStep = "status" /\ diHost' = DiReads(1) /\ diStep' = "known"
       \/ diStep = "known" /\ diHost' = DiNoAccess /\ diStep' = "idle" /\ diAnswer # <<>>
       \/ diStep = "idle" /\ diHost' = DiNoAccess /\ diStep' = "flags"
       \/ diStep = "idle" /\ diStep' = "idle" /\ \E s \in DiSettings : diHost' = DiWrites(0, s)

\* The step of the host, one equation to a place in its round.
LEMMA DiRound == DiHostStep => DiHostRound
BY DEF DiHostStep, DiIssue, DiHostRound

\* The host and the slave stay in step.
LEMMA DiWayStep ==
  ASSUME DiWay, DiSlaveStep, DiHostRound,
         diState \in {"WRITE", "READ"} => diAddress = diHost.address /\ diData = diHost.data
  PROVE  DiWay'
<1>1. DiTaken <=> diState \in {"WRITE", "READ"}
  BY DEF DiTaken
<1>2. CASE DiPhase("mask", DiNoAccess, {"RESET", "IDLE"}) /\ DiCleared
  <2>1. diState' = "IDLE" /\ DiCleared'
    BY <1>2 DEF DiPhase, DiCleared, DiSlaveStep
  <2>2. \/ diHost' = DiNoAccess /\ diStep' = "mask"
        \/ diHost' = DiWrites(3, DiWanted) /\ diStep' = "flags"
    BY <1>2 DEF DiPhase, DiHostRound
  <2>3. QED BY <2>1, <2>2 DEF DiWay, DiPhase
<1>3. CASE DiPhase("flags", DiWrites(3, DiWanted), {"RESET", "IDLE", "WRITE"}) /\ DiCleared
  <2>1. DiCleared'
    BY <1>3 DEF DiPhase, DiCleared, DiSlaveStep
  <2>2. CASE diState \in {"RESET", "IDLE"}
    <3>1. diState' \in {"IDLE", "WRITE"}
      BY <1>3, <2>2, DiBus DEF DiPhase, DiSlaveStep
    <3>2. diHost' = DiWrites(3, DiWanted) /\ diStep' = "flags"
      BY <1>1, <1>3, <2>2, DiBus DEF DiPhase, DiHostRound
    <3>3. QED BY <2>1, <3>1, <3>2 DEF DiWay, DiPhase
  <2>3. CASE diState = "WRITE"
    <3>1. diState' = "IDLE" /\ diMask' = DiWanted
      BY <1>3, <2>3, DiBus DEF DiPhase, DiSlaveStep
    <3>2. \/ diHost' = DiReads(2) /\ diStep' = "status"
          \/ diHost' = DiNoAccess /\ diStep' = "flags"
      BY <1>1, <1>3, <2>3 DEF DiPhase, DiHostRound
    <3>3. QED BY <2>1, <3>1, <3>2 DEF DiWay, DiPhase
  <2>4. QED BY <1>3, <2>2, <2>3 DEF DiPhase
<1>5. CASE diMask = DiWanted /\ DiPhase("flags", DiNoAccess, {"IDLE"}) /\ DiCleared
  <2>1. diState' = "IDLE" /\ DiCleared' /\ diMask' = DiWanted
    BY <1>5 DEF DiPhase, DiCleared, DiSlaveStep
  <2>2. \/ diHost' = DiNoAccess /\ diStep' = "flags"
        \/ diHost' = DiReads(2) /\ diStep' = "status"
    BY <1>5 DEF DiPhase, DiHostRound
  <2>3. QED BY <2>1, <2>2 DEF DiWay, DiPhase
<1>6. CASE diMask = DiWanted /\ DiPhase("status", DiReads(2), {"IDLE", "READ"}) /\ DiCleared
  <2>1. CASE diState = "IDLE"
    <3>1. diState' = "READ" /\ DiCleared' /\ diMask' = DiWanted
      BY <1>6, <2>1, DiBus DEF DiPhase, DiCleared, DiSlaveStep
    <3>2. diHost' = DiReads(2) /\ diStep' = "status"
      BY <1>1, <1>6, <2>1, DiBus DEF DiPhase, DiHostRound
    <3>3. QED BY <3>1, <3>2 DEF DiWay, DiPhase
  <2>2. CASE diState = "READ"
    <3>1. diState' = "IDLE" /\ diMask' = DiWanted
      BY <1>6, <2>2 DEF DiSlaveStep
    <3>2. diHost' = DiNoAccess /\ diStep' = "status"
      BY <1>1, <1>6, <2>2, DiBus DEF DiPhase, DiHostRound
    <3>3. QED BY <3>1, <3>2 DEF DiWay, DiPhase
  <2>3. QED BY <1>6, <2>1, <2>2 DEF DiPhase
<1>7. CASE diMask = DiWanted /\ DiPhase("status", DiNoAccess, {"IDLE"})
  <2>1. /\ diState' = "IDLE" /\ diMask' = DiWanted /\ diAnswer' = <<>>
        /\ diClear' => diAck'
    BY <1>7 DEF DiPhase, DiSlaveStep
  <2>2. \/ diHost' = DiNoAccess /\ diStep' = "status"
        \/ diHost' = DiReads(1) /\ diStep' = "known"
    BY <1>7 DEF DiPhase, DiHostRound
  <2>3. QED BY <2>1, <2>2 DEF DiWay, DiPhase
<1>8. CASE /\ diMask = DiWanted /\ DiPhase("known", DiReads(1), {"IDLE"})
           /\ (diClear => diAck) /\ diAnswer = <<>>
  <2>1. diState' = "READ" /\ diMask' = DiWanted /\ diAnswer' = <<>> /\ ~diClear'
    BY <1>8, DiBus DEF DiPhase, DiSlaveStep
  <2>2. diHost' = DiReads(1) /\ diStep' = "known"
    BY <1>1, <1>8, DiBus DEF DiPhase, DiHostRound
  <2>3. QED BY <2>1, <2>2 DEF DiWay, DiPhase
<1>9. CASE /\ diMask = DiWanted /\ DiPhase("known", DiReads(1), {"READ"})
           /\ ~diClear /\ diAnswer = <<>>
  <2>1. diState' = "IDLE" /\ diMask' = DiWanted /\ DiCleared'
    BY <1>9, DiBus DEF DiPhase, DiSlaveStep, DiCleared
  <2>2. diHost' = DiNoAccess /\ diStep' = "known"
    BY <1>1, <1>9, DiBus DEF DiPhase, DiHostRound
  <2>3. QED BY <2>1, <2>2 DEF DiWay, DiPhase
<1>10. CASE diMask = DiWanted /\ DiPhase("known", DiNoAccess, {"IDLE"}) /\ DiCleared
  <2>1. diState' = "IDLE" /\ diMask' = DiWanted /\ DiCleared'
    BY <1>10 DEF DiPhase, DiSlaveStep, DiCleared
  <2>2. diHost' = DiNoAccess /\ diStep' \in {"known", "idle"}
    BY <1>10 DEF DiPhase, DiHostRound
  <2>3. QED BY <2>1, <2>2 DEF DiWay, DiPhase
<1>11. CASE diMask = DiWanted /\ DiPhase("idle", DiNoAccess, {"IDLE"}) /\ DiCleared
  <2>1. diState' = "IDLE" /\ diMask' = DiWanted /\ DiCleared'
    BY <1>11 DEF DiPhase, DiSlaveStep, DiCleared
  <2>2. \/ diHost' = DiNoAccess /\ diStep' \in {"flags", "idle"}
        \/ diStep' = "idle" /\ \E s \in DiSettings : diHost' = DiWrites(0, s)
    BY <1>11 DEF DiPhase, DiHostRound
  <2>3. QED BY <2>1, <2>2 DEF DiWay, DiPhase
<1>12. ASSUME NEW s \in DiSettings, diMask = DiWanted, DiCleared,
              DiPhase("idle", DiWrites(0, s), {"IDLE", "WRITE"})
       PROVE  DiWay'
  <2>1. CASE diState = "IDLE"
    <3>1. diState' = "WRITE" /\ diMask' = DiWanted /\ DiCleared'
      BY <1>12, <2>1, DiBus DEF DiPhase, DiSlaveStep, DiCleared
    <3>2. diHost' = DiWrites(0, s) /\ diStep' = "idle"
      BY <1>1, <1>12, <2>1, DiBus DEF DiPhase, DiHostRound
    <3>3. QED BY <3>1, <3>2 DEF DiWay, DiPhase
  <2>2. CASE diState = "WRITE"
    <3>1. diState' = "IDLE" /\ diMask' = DiWanted /\ DiCleared'
      BY <1>12, <2>2, DiBus DEF DiPhase, DiSlaveStep, DiCleared
    <3>2. diStep' = "idle" /\ (diHost' = DiNoAccess \/ \E t \in DiSettings : diHost' = DiWrites(0, t))
      BY <1>1, <1>12, <2>2, DiBus DEF DiPhase, DiHostRound
    <3>3. QED BY <3>1, <3>2 DEF DiWay, DiPhase
  <2>3. QED BY <1>12, <2>1, <2>2 DEF DiPhase
<1>13. QED BY <1>2, <1>3, <1>5, <1>6, <1>7, <1>8, <1>9, <1>10, <1>11, <1>12 DEF DiWay

\* The registers keep their ranges.
LEMMA DiTypesStep ==
  ASSUME DiWay, DiTypes, DiSlaveStep, DiHostRound, DiFlags, DiHostStep
  PROVE  DiTypes'
<1>1. /\ diAddress' \in 0 .. 3
      /\ diState' \in {"WRITE", "READ"} => diAddress' = diHost'.address /\ diData' = diHost'.data
  <2>1. CASE diState = "IDLE" /\ diHost # DiNoAccess
    <3>1. diHost' = diHost
      BY <2>1 DEF DiHostRound, DiTaken
    <3>2. diHost.op \in {"read", "write"} /\ diHost.address \in 0 .. 3
      BY <2>1, DiBus DEF DiWay, DiPhase
    <3>3. QED BY <2>1, <3>1, <3>2 DEF DiSlaveStep
  <2>2. CASE ~(diState = "IDLE" /\ diHost # DiNoAccess)
    <3>1. diState \in {"RESET", "IDLE", "WRITE", "READ"}
      BY DEF DiWay, DiPhase
    <3>2. diState' = "IDLE" /\ diAddress' \in {0, diAddress}
      BY <2>2, <3>1 DEF DiSlaveStep
    <3>3. QED BY <3>2 DEF DiTypes
  <2>3. QED BY <2>1, <2>2
<1>2. diMask' \in {{}, DiWanted} /\ diSet' \in {{}} \union DiSettings
  <2>1. CASE diState = "WRITE"
    <3>1. \/ diAddress = 3 /\ diData = DiWanted
          \/ diAddress = 0 /\ diData \in DiSettings
      BY <2>1, DiBus DEF DiWay, DiPhase, DiTypes
    <3>2. QED BY <2>1, <3>1 DEF DiSlaveStep, DiTypes
  <2>2. CASE diState \in {"RESET", "IDLE", "READ"}
    BY <2>2 DEF DiSlaveStep, DiTypes
  <2>3. QED BY <2>1, <2>2 DEF DiWay, DiPhase
<1>3. diInt' \subseteq DiWanted /\ diIntD' \subseteq diInt'
  BY DEF DiFlags, DiTypes
<1>4. diCalled' \in BOOLEAN
  BY Zenon DEF DiHostStep
<1>5. QED BY <1>1, <1>2, <1>3, <1>4 DEF DiTypes, DiSlaveStep

\* A flag that is set is told.
LEMMA DiTellsStep ==
  ASSUME DiWay, DiTypes, DiTells, DiSlaveStep, DiHostRound, DiFlags, DiHostStep
  PROVE  DiTells'
<1> SUFFICES ASSUME \/ diStep' \in {"known", "idle"}
                    \/ diStep' = "status" /\ diHost' = DiNoAccess /\ (diClear' => diAck'),
                    diInt' # {}
             PROVE  diInt' # diIntD' \/ diIrq' \/ diCalled'
  BY DEF DiTells
<1>1. ~diClear /\ diIntD' = diInt
  BY DEF DiFlags
<1>2. \/ diStep \in {"known", "idle"}
      \/ diStep = "status" /\ diHost = DiNoAccess /\ (diClear => diAck)
  <2>1. diStep \in {"status", "known", "idle"}
    BY DiBus DEF DiHostRound, DiWay, DiPhase, DiTaken
  <2>2. CASE diStep = "status"
    <3>1. CASE diHost = DiNoAccess
      BY <1>1, <2>2, <3>1
    <3>2. CASE diHost # DiNoAccess
      <4>1. DiPhase("status", DiReads(2), {"IDLE", "READ"}) /\ DiCleared
        BY <2>2, <3>2 DEF DiWay, DiPhase
      <4>2. diState = "READ" /\ diStep' = "status"
        BY <3>2, <4>1, DiBus DEF DiHostRound, DiPhase, DiTaken
      <4>3. diClear' /\ ~diAck'
        BY <4>1, <4>2, DiBus DEF DiSlaveStep, DiPhase, DiCleared, DiTypes
      <4>4. QED BY <4>2, <4>3
    <3>3. QED BY <3>1, <3>2
  <2>3. QED BY <2>1, <2>2
<1>3. diIrq' <=> diInt # diIntD
  BY Zenon DEF DiFlags
<1>4. diCalled' <=> (diIrq \/ (diCalled /\ ~(diStep = "idle" /\ diStep' = "flags")))
  BY Zenon DEF DiHostStep
<1>5. CASE diInt' = diInt
  BY <1>2, <1>3, <1>4, <1>5 DEF DiTells
<1>6. CASE diInt' # diInt
  BY <1>1, <1>6
<1>7. QED BY <1>5, <1>6

\* A change the host has not read stays in the flags.
LEMMA DiNothingLostStep ==
  ASSUME DiWay, DiTypes, DiNothingLost, DiSlaveStep, DiHostRound, DiFlags, DiHostStep
  PROVE  DiNothingLost'
<1> SUFFICES ASSUME diStep' = "idle" \/ (diStep' = "known" /\ diHost' = DiNoAccess), NEW i \in DiWanted
             PROVE  (i \in DiSeen' <=> i \in diStatus') \/ i \in diInt'
  BY DEF DiNothingLost
<1>1. diStatus' = diStatusD
  BY DEF DiFlags
<1>2. diKnown' = IF diStep = "known" /\ diAnswer # <<>> THEN diAnswer[1] ELSE diKnown
  BY DEF DiHostStep
<1>3. CASE /\ diMask = DiWanted /\ DiPhase("known", DiReads(1), {"READ"})
           /\ ~diClear /\ diAnswer = <<>>
  <2>1. diAnswer' = <<diStatus>> /\ diStep' = "known"
    BY <1>3, DiBus DEF DiPhase, DiTypes, DiSlaveStep, DiHostRound, DiTaken
  <2>2. DiSeen' = diStatus
    BY <2>1 DEF DiSeen
  <2>3. diInt' = diInt \union (DiChanged \intersect DiWanted)
    BY <1>3 DEF DiFlags
  <2>4. QED BY <1>1, <2>2, <2>3 DEF DiChanged
<1>4. CASE ~(/\ diMask = DiWanted /\ DiPhase("known", DiReads(1), {"READ"})
             /\ ~diClear /\ diAnswer = <<>>)
  <2>1. /\ diStep = "idle" \/ (diStep = "known" /\ diHost = DiNoAccess)
        /\ diMask = DiWanted /\ ~diClear
    BY <1>4, DiBus DEF DiWay, DiPhase, DiHostRound, DiTaken, DiCleared
  <2>2. (i \in DiSeen <=> i \in diStatus) \/ i \in diInt
    BY <2>1 DEF DiNothingLost
  <2>3. DiSeen' = DiSeen
    <3>1. diState \in {"IDLE", "WRITE"}
      BY <2>1, DiBus DEF DiWay, DiPhase
    <3>2. diStep' = "known" => diAnswer' = <<>>
      BY <2>1, <3>1 DEF DiWay, DiPhase, DiSlaveStep, DiHostRound
    <3>3. QED BY <1>2, <3>2 DEF DiSeen
  <2>4. diInt' = diInt \union (DiChanged \intersect DiWanted)
    BY <2>1 DEF DiFlags
  <2>5. QED BY <1>1, <2>2, <2>3, <2>4 DEF DiChanged
<1>5. QED BY <1>3, <1>4

\* One edge keeps the invariant of the inputs.
LEMMA DiNextInv == DiInv /\ DiNext => DiInv'
<1> SUFFICES ASSUME DiInv, DiNext PROVE DiInv'
  OBVIOUS
<1>1. DiWay /\ DiTypes /\ DiTells /\ DiNothingLost
  BY DEF DiInv
<1>2. DiFlags /\ DiHostStep /\ (DiIdle \/ DiWrite \/ DiRead \/ DiReset)
  BY DEF DiNext
<1>3. DiSlaveStep /\ DiHostRound
  BY <1>1, <1>2, DiSlave, DiRound
<1>4. DiWay'
  BY <1>1, <1>3, DiWayStep DEF DiTypes
<1>5. DiTypes' /\ DiTells' /\ DiNothingLost'
  BY <1>1, <1>2, <1>3, DiTypesStep, DiTellsStep, DiNothingLostStep
<1>6. QED BY <1>4, <1>5 DEF DiInv

\* The invariant of the inputs has what DiSafe asks for.
LEMMA DiInvSafe == DiInv => DiSafe
<1> SUFFICES ASSUME DiInv PROVE DiSafe
  OBVIOUS
<1>1. DiTypeInv
  BY DEF DiInv, DiWay, DiPhase, DiTypes, DiTypeInv
<1>2. ASSUME diStep = "idle", ~diCalled, ~diIrq, diInt = diIntD, diStatus = diStatusD,
             diStatusD = diIn
      PROVE  diKnown \intersect DiWanted = diIn \intersect DiWanted
  <2>1. diInt = {} /\ DiSeen = diKnown
    BY <1>2 DEF DiInv, DiTells, DiSeen
  <2>2. \A i \in DiWanted : i \in diKnown <=> i \in diIn
    BY <1>2, <2>1 DEF DiInv, DiNothingLost
  <2>3. QED BY <2>2
<1>3. QED BY <1>1, <1>2 DEF DiSafe, DiHostKnows
-----------------------------------------------------------------------------
(* The flash and the watchdog.                                             *)

\* The set-up: what is presented, in each state, is what comes after what has
\* been taken; the kicks: how long ago the last one can be.
FlRuTypes ==
  /\ flRuState \in {"RU_IDLE", "RU_WDT_TIMEOUT", "RU_PAGE_SELECT", "RU_CONF_MODE",
                    "RU_WDT_ENABLE", "RU_WDT_RESET"}
  /\ flTimer \in 0 .. FlInterval /\ flCntrRu \in 0 .. FlSettle
  /\ flCnfgrd \in BOOLEAN /\ flSince \in Nat
FlTook(n) == flRuTaken = SubSeq(FlSetUp, 1, n)
FlRuSetUp ==
  ~flCnfgrd =>
    /\ flSince = 0
    /\ \/ flRuState \in {"RU_IDLE", "RU_WDT_TIMEOUT"} /\ flRuWrite = FlNoRegister /\ FlTook(0)
       \/ flRuState = "RU_PAGE_SELECT" /\ flRuWrite = "WDT_TIMEOUT" /\ FlTook(0)
       \/ flRuState = "RU_CONF_MODE" /\ flRuWrite = "PAGE_SELECT" /\ FlTook(1)
       \/ flRuState = "RU_WDT_ENABLE" /\ flRuWrite = "CONF_MODE" /\ FlTook(2)
FlRuKicks ==
  flCnfgrd =>
    /\ \/ flRuState = "RU_IDLE" /\ flRuWrite \in {FlNoRegister, "WDT_ENABLE"} /\ flSince <= flTimer
       \/ /\ flRuState = "RU_WDT_RESET" /\ flRuWrite = FlNoRegister /\ flSince <= FlInterval + 1
       \/ flRuState = "RU_IDLE" /\ flRuWrite = "WDT_RESET" /\ flTimer = 0 /\ flSince <= FlInterval + 2
    /\ FlTook(3) \/ (flRuWrite # "WDT_ENABLE" /\ FlTook(4))

FlRuInv == FlRuTypes /\ FlRuSetUp /\ FlRuKicks

\* The pass over the flash, up to word n of burst b: the CRC, the commands the
\* slave has taken and the words it still owes.
FlCrcOf(b, n) ==
  {<<"burst", c, i>> : c \in 0 .. b - 1, i \in 1 .. FlWords} \union {<<"burst", b, i>> : i \in 1 .. n}
FlLogOf(n) == [i \in 1 .. n |-> IF i = 1 THEN FlCsr ELSE <<"burst", i - 2>>]
FlRestOf(b, n) == [i \in 1 .. FlWords - n |-> <<"burst", b, n + i>>]

FlTypes ==
  /\ flRead \in BOOLEAN /\ flWrite \in BOOLEAN /\ flCompleted \in BOOLEAN /\ flMissed \in BOOLEAN
  /\ flCntr \in 0 .. FlWords
FlPass ==
  ~flCompleted =>
    /\ flAsked \in {FlNothing, FlEarly}
    /\ \/ /\ flState \in {"IDLE", "FOURBYTE", "WRWT"} /\ ~flRead /\ (flWrite => flState = "WRWT")
          /\ IF flState = "WRWT" THEN flWrite /\ flAddress = FlCsr ELSE flAddress = <<"burst", 0>>
          /\ flCrc = {} /\ flQueue = <<>> /\ flLog = <<>>
       \/ \E b \in 0 .. FlBursts :
            /\ flState = "READ" /\ ~flRead /\ ~flWrite /\ flAddress = <<"burst", b>>
            /\ flCrc = FlCrcOf(b, 0) /\ flQueue = <<>>
            /\ ~flMissed => flLog = FlLogOf(b + 1)
       \/ \E b \in 0 .. FlBursts - 1 :
            /\ flState = "ACK" /\ ~flWrite /\ flAddress = <<"burst", b>>
            /\ flCrc = FlCrcOf(b, flCntr) /\ flQueue \in {<<>>, FlRestOf(b, flCntr)}
            /\ flRead => flCntr = 0 /\ flQueue = <<>>
            /\ ~flMissed => flLog = FlLogOf(IF flRead THEN b + 1 ELSE b + 2)
FlPassed ==
  flCompleted => /\ flState = "IDLE" /\ flCrc = FlWhole
                 /\ ~flMissed => flLog = FlLogOf(FlBursts + 1)

\* After the pass one read of the host is on its way at most, and as long as it is
\* the host waits for it; what comes back is what it asked for.
FlOneRead ==
  flCompleted =>
    /\ flOp.op = "read" => ~flRead /\ flQueue = <<>> /\ FlPending
                           /\ (flAsked # FlEarly => FlTarget(flOp) = flAsked)
    /\ flRead => flQueue = <<>> /\ FlPending /\ (flAsked # FlEarly => flAddress = flAsked)
    /\ flQueue = <<>> \/ \E w : /\ flQueue = <<w>> /\ FlPending
                                /\ flAsked # FlEarly => w = flAsked

FlInv == FlTypes /\ FlPass /\ FlPassed /\ FlOneRead /\ FlAnswers

\* The set-up, write by write.
LEMMA FlSetUps ==
  /\ SubSeq(FlSetUp, 1, 0) = <<>>
  /\ \A n \in 0 .. 4 : Len(SubSeq(FlSetUp, 1, n)) = n
  /\ \A n \in 0 .. 3 :
       Append(SubSeq(FlSetUp, 1, n), FlSetUp[n + 1]) = SubSeq(FlSetUp, 1, n + 1)
<1> DEFINE Registers == {"WDT_TIMEOUT", "PAGE_SELECT", "CONF_MODE", "WDT_ENABLE"}
<1>1. FlSetUp \in Seq(Registers) /\ Len(FlSetUp) = 4
  <2>1. \A a, b, c, d \in Registers : <<a, b, c, d>> \in Seq(Registers) /\ Len(<<a, b, c, d>>) = 4
    OBVIOUS
  <2>2. QED BY <2>1 DEF FlSetUp
<1> HIDE DEF Registers, FlSetUp
<1>6. \A i \in 1 .. 4 : FlSetUp[i] \in Registers
  <2>1. FlSetUp \in [1 .. 4 -> Registers]
    BY <1>1, LenProperties
  <2>2. QED BY <2>1
<1>2. SubSeq(FlSetUp, 1, 0) = <<>>
  BY SubSeqEmpty
<1>3. \A n \in 0 .. 4 : SubSeq(FlSetUp, 1, n) \in Seq(Registers) /\ Len(SubSeq(FlSetUp, 1, n)) = n
  <2> SUFFICES ASSUME NEW n \in 0 .. 4
               PROVE  SubSeq(FlSetUp, 1, n) \in Seq(Registers) /\ Len(SubSeq(FlSetUp, 1, n)) = n
    OBVIOUS
  <2>1. \A i \in 1 .. n : FlSetUp[i] \in Registers
    BY <1>6
  <2>2. QED BY <2>1, SubSeqProperties
<1>4. ASSUME NEW n \in 0 .. 3
      PROVE  Append(SubSeq(FlSetUp, 1, n), FlSetUp[n + 1]) = SubSeq(FlSetUp, 1, n + 1)
  <2>1. FlSetUp[n + 1] \in Registers
    BY <1>6
  <2>2. Append(SubSeq(FlSetUp, 1, n), FlSetUp[n + 1])
          = SubSeq(FlSetUp, 1, n) \o <<FlSetUp[n + 1]>>
    BY <1>3, <2>1, AppendIsConcat
  <2>3. 1 \in 1 .. Len(FlSetUp) /\ n + 1 \in 1 .. Len(FlSetUp)
    BY <1>1
  <2>4. SubSeq(FlSetUp, 1, n + 1) = SubSeq(FlSetUp, 1, n + 1 - 1) \o <<FlSetUp[n + 1]>>
    BY <1>1, <2>3, SubSeqRecursiveSecond
  <2>5. n + 1 - 1 = n
    OBVIOUS
  <2>6. QED BY <2>2, <2>4, <2>5
<1>5. QED BY <1>2, <1>3, <1>4

\* The watchdog starts within its invariant.
LEMMA FlRuInitInv == FlRuInit => FlRuInv
<1> SUFFICES ASSUME FlRuInit PROVE FlRuInv
  OBVIOUS
<1>1. flCnfgrd = FALSE
  BY DEF FlRuInit
<1>2. FlRuTypes
  <2>1. flTimer \in 0 .. FlInterval /\ flCntrRu \in 0 .. FlSettle /\ flSince \in Nat
    BY FlAssumption DEF FlRuInit
  <2>2. QED BY <1>1, <2>1 DEF FlRuInit, FlRuTypes
<1>3. FlTook(0) /\ flSince = 0 /\ flRuState = "RU_IDLE" /\ flRuWrite = FlNoRegister
  BY FlSetUps DEF FlRuInit, FlTook
<1>4. QED BY <1>1, <1>2, <1>3 DEF FlRuInv, FlRuSetUp, FlRuKicks

\* One edge of the remote update half keeps it, whatever its slave says.
LEMMA FlRuNextInv == FlRuInv /\ FlRuNext => FlRuInv'
<1> SUFFICES ASSUME FlRuInv, NEW wait \in BOOLEAN, FlRuClock(wait) PROVE FlRuInv'
  BY DEF FlRuNext
<1> USE FlAssumption
<1>1. FlRuTypes /\ FlRuSetUp /\ FlRuKicks /\ FlRuStep(wait)
  BY DEF FlRuInv, FlRuClock
<1>2. flTimer' = IF flRuState = "RU_IDLE" /\ flTimer # FlInterval THEN flTimer + 1 ELSE 0
  BY DEF FlRuClock
<1>3. flSince' = IF ~flCnfgrd \/ flRuWrite = "WDT_RESET" THEN 0 ELSE flSince + 1
  BY DEF FlRuClock
<1>4. flRuTaken' = IF flRuWrite \in {FlNoRegister, "WDT_RESET"} \/ wait THEN flRuTaken
                   ELSE Append(flRuTaken, flRuWrite)
  BY DEF FlRuClock
<1>5. flCnfgrd' <=> (flCnfgrd \/ (flRuState = "RU_WDT_ENABLE" /\ ~wait))
  BY Zenon DEF FlRuClock
<1>6. /\ flRuState = "RU_IDLE" =>
           /\ flRuWrite' = FlNoRegister
           /\ flRuState' = IF ~flCnfgrd THEN "RU_WDT_TIMEOUT"
                           ELSE IF flTimer = FlInterval THEN "RU_WDT_RESET" ELSE "RU_IDLE"
      /\ flRuState = "RU_WDT_TIMEOUT" =>
           \/ flRuWrite' = "WDT_TIMEOUT" /\ flRuState' = "RU_PAGE_SELECT"
           \/ UNCHANGED <<flRuWrite, flRuState>>
      /\ flRuState = "RU_PAGE_SELECT" =>
           IF wait THEN UNCHANGED <<flRuWrite, flRuState>>
           ELSE flRuWrite' = "PAGE_SELECT" /\ flRuState' = "RU_CONF_MODE"
      /\ flRuState = "RU_CONF_MODE" =>
           IF wait THEN UNCHANGED <<flRuWrite, flRuState>>
           ELSE flRuWrite' = "CONF_MODE" /\ flRuState' = "RU_WDT_ENABLE"
      /\ flRuState = "RU_WDT_ENABLE" =>
           IF wait THEN UNCHANGED <<flRuWrite, flRuState>>
           ELSE flRuWrite' = "WDT_ENABLE" /\ flRuState' = "RU_IDLE"
      /\ flRuState = "RU_WDT_RESET" => flRuWrite' = "WDT_RESET" /\ flRuState' = "RU_IDLE"
  BY <1>1 DEF FlRuStep, FlPresent
<1>7. FlRuTypes'
  <2>1. flCnfgrd' \in BOOLEAN
    BY Zenon DEF FlRuClock
  <2>2. flCntrRu' \in 0 .. FlSettle
    BY <1>1 DEF FlRuClock, FlRuTypes
  <2>3. flTimer' \in 0 .. FlInterval /\ flSince' \in Nat
    BY <1>1, <1>2, <1>3 DEF FlRuTypes
  <2>4. flRuState' \in {"RU_IDLE", "RU_WDT_TIMEOUT", "RU_PAGE_SELECT", "RU_CONF_MODE",
                        "RU_WDT_ENABLE", "RU_WDT_RESET"}
    BY <1>1, <1>6 DEF FlRuTypes
  <2>5. QED BY <2>1, <2>2, <2>3, <2>4 DEF FlRuTypes
<1>8. \A n \in 0 .. 3 : FlTook(n) /\ flRuWrite = FlSetUp[n + 1] =>
        /\ wait => FlTook(n)'
        /\ ~wait => FlTook(n + 1)'
  <2>1. \A n \in 0 .. 3 : FlSetUp[n + 1] \notin {FlNoRegister, "WDT_RESET"}
    BY DEF FlSetUp, FlNoRegister
  <2>2. QED BY <1>4, <2>1, FlSetUps DEF FlTook
<1>9. \A n \in 0 .. 4 : FlTook(n) /\ flRuWrite \in {FlNoRegister, "WDT_RESET"} => FlTook(n)'
  BY <1>4 DEF FlTook
<1>10. /\ FlSetUp[1] = "WDT_TIMEOUT" /\ FlSetUp[2] = "PAGE_SELECT" /\ FlSetUp[3] = "CONF_MODE"
       /\ FlSetUp[4] = "WDT_ENABLE"
  BY DEF FlSetUp
<1>11. CASE ~flCnfgrd
  <2>1. CASE flRuState = "RU_IDLE"
    <3>1. ~flCnfgrd' /\ flRuState' = "RU_WDT_TIMEOUT" /\ flRuWrite' = FlNoRegister /\ flSince' = 0
      BY <1>3, <1>5, <1>6, <1>11, <2>1
    <3>2. FlTook(0)'
      BY <1>1, <1>9, <1>11, <2>1 DEF FlRuSetUp
    <3>3. QED BY <1>7, <3>1, <3>2 DEF FlRuInv, FlRuSetUp, FlRuKicks
  <2>2. CASE flRuState = "RU_WDT_TIMEOUT"
    <3>1. /\ ~flCnfgrd' /\ flSince' = 0
          /\ \/ flRuState' = "RU_PAGE_SELECT" /\ flRuWrite' = "WDT_TIMEOUT"
             \/ flRuState' = "RU_WDT_TIMEOUT" /\ flRuWrite' = FlNoRegister
      BY <1>1, <1>3, <1>5, <1>6, <1>11, <2>2 DEF FlRuSetUp
    <3>2. FlTook(0)'
      BY <1>1, <1>9, <1>11, <2>2 DEF FlRuSetUp
    <3>3. QED BY <1>7, <3>1, <3>2 DEF FlRuInv, FlRuSetUp, FlRuKicks
  <2>3. CASE flRuState = "RU_PAGE_SELECT"
    <3>1. /\ ~flCnfgrd' /\ flSince' = 0
          /\ wait => flRuState' = "RU_PAGE_SELECT" /\ flRuWrite' = "WDT_TIMEOUT"
          /\ ~wait => flRuState' = "RU_CONF_MODE" /\ flRuWrite' = "PAGE_SELECT"
      BY <1>1, <1>3, <1>5, <1>6, <1>11, <2>3 DEF FlRuSetUp
    <3>2. FlTook(0) /\ flRuWrite = FlSetUp[0 + 1]
      BY <1>1, <1>10, <1>11, <2>3 DEF FlRuSetUp
    <3>3. (wait => FlTook(0)') /\ (~wait => FlTook(0 + 1)')
      BY <1>8, <3>2
    <3>4. QED BY <1>7, <3>1, <3>3 DEF FlRuInv, FlRuSetUp, FlRuKicks
  <2>4. CASE flRuState = "RU_CONF_MODE"
    <3>1. /\ ~flCnfgrd' /\ flSince' = 0
          /\ wait => flRuState' = "RU_CONF_MODE" /\ flRuWrite' = "PAGE_SELECT"
          /\ ~wait => flRuState' = "RU_WDT_ENABLE" /\ flRuWrite' = "CONF_MODE"
      BY <1>1, <1>3, <1>5, <1>6, <1>11, <2>4 DEF FlRuSetUp
    <3>2. FlTook(1) /\ flRuWrite = FlSetUp[1 + 1]
      BY <1>1, <1>10, <1>11, <2>4 DEF FlRuSetUp
    <3>3. (wait => FlTook(1)') /\ (~wait => FlTook(1 + 1)')
      BY <1>8, <3>2
    <3>4. QED BY <1>7, <3>1, <3>3 DEF FlRuInv, FlRuSetUp, FlRuKicks
  <2>5. CASE flRuState = "RU_WDT_ENABLE"
    <3>1. FlTook(2) /\ flRuWrite = FlSetUp[2 + 1]
      BY <1>1, <1>10, <1>11, <2>5 DEF FlRuSetUp
    <3>2. (wait => FlTook(2)') /\ (~wait => FlTook(2 + 1)')
      BY <1>8, <3>1
    <3>3. CASE wait
      <4>1. /\ ~flCnfgrd' /\ flSince' = 0
            /\ flRuState' = "RU_WDT_ENABLE" /\ flRuWrite' = "CONF_MODE"
        BY <1>1, <1>3, <1>5, <1>6, <1>11, <2>5, <3>3 DEF FlRuSetUp
      <4>2. QED BY <1>7, <3>2, <3>3, <4>1 DEF FlRuInv, FlRuSetUp, FlRuKicks
    <3>4. CASE ~wait
      <4>1. /\ flCnfgrd' /\ flSince' = 0 /\ flTimer' = 0
            /\ flRuState' = "RU_IDLE" /\ flRuWrite' = "WDT_ENABLE"
        BY <1>1, <1>2, <1>3, <1>5, <1>6, <1>11, <2>5, <3>4 DEF FlRuSetUp
      <4>2. QED BY <1>7, <3>2, <3>4, <4>1 DEF FlRuInv, FlRuSetUp, FlRuKicks
    <3>5. QED BY <3>3, <3>4
  <2>6. QED BY <1>1, <1>11, <2>1, <2>2, <2>3, <2>4, <2>5 DEF FlRuSetUp
<1>12. CASE flCnfgrd
  <2>1. flCnfgrd'
    BY <1>5, <1>12
  <2>2. flRuState \in {"RU_IDLE", "RU_WDT_RESET"}
    BY <1>1, <1>12 DEF FlRuKicks
  <2>3. /\ flRuState = "RU_IDLE" => /\ flRuWrite' = FlNoRegister
                                    /\ flTimer = FlInterval => flRuState' = "RU_WDT_RESET"
                                    /\ flTimer # FlInterval => flRuState' = "RU_IDLE"
        /\ flRuState = "RU_WDT_RESET" => flRuWrite' = "WDT_RESET" /\ flRuState' = "RU_IDLE"
    BY <1>6, <1>12
  <2>4. /\ \/ flRuState' = "RU_IDLE" /\ flRuWrite' \in {FlNoRegister, "WDT_ENABLE"} /\ flSince' <= flTimer'
           \/ flRuState' = "RU_WDT_RESET" /\ flRuWrite' = FlNoRegister /\ flSince' <= FlInterval + 1
           \/ /\ flRuState' = "RU_IDLE" /\ flRuWrite' = "WDT_RESET" /\ flTimer' = 0
              /\ flSince' <= FlInterval + 2
    <3>1. CASE flRuState = "RU_IDLE" /\ flRuWrite = "WDT_RESET"
      BY <1>1, <1>2, <1>3, <1>12, <2>3, <3>1 DEF FlRuKicks, FlNoRegister
    <3>2. CASE flRuState = "RU_IDLE" /\ flRuWrite # "WDT_RESET"
      BY <1>1, <1>2, <1>3, <1>12, <2>3, <3>2 DEF FlRuKicks, FlRuTypes
    <3>3. CASE flRuState = "RU_WDT_RESET"
      BY <1>1, <1>2, <1>3, <1>12, <2>3, <3>3 DEF FlRuKicks, FlRuTypes, FlNoRegister
    <3>4. QED BY <2>2, <3>1, <3>2, <3>3
  <2>5. FlTook(3)' \/ FlTook(4)'
    <3>1. CASE flRuWrite = "WDT_ENABLE"
      <4>1. FlTook(3) /\ flRuWrite = FlSetUp[3 + 1]
        BY <1>1, <1>10, <1>12, <3>1 DEF FlRuKicks
      <4>2. (wait => FlTook(3)') /\ (~wait => FlTook(3 + 1)')
        BY <1>8, <4>1
      <4>3. QED BY <4>2
    <3>2. CASE flRuWrite # "WDT_ENABLE"
      <4>1. flRuWrite \in {FlNoRegister, "WDT_RESET"}
        BY <1>1, <1>12, <3>2 DEF FlRuKicks
      <4>2. QED BY <1>1, <1>9, <1>12, <4>1 DEF FlRuKicks
    <3>3. QED BY <3>1, <3>2
  <2>6. flRuWrite' # "WDT_ENABLE"
    BY <2>2, <2>3 DEF FlNoRegister
  <2>7. QED BY <1>7, <2>1, <2>4, <2>5, <2>6 DEF FlRuInv, FlRuSetUp, FlRuKicks
<1>13. QED BY <1>11, <1>12

\* The watchdog is set up in order and kicked in time.
LEMMA FlRuInvSafe == FlRuInv => FlWatchdog
<1> SUFFICES ASSUME FlRuInv PROVE FlWatchdog
  OBVIOUS
<1> USE FlAssumption
<1>1. \E n \in 0 .. 4 : FlTook(n) /\ (flCnfgrd => n >= 3)
  BY DEF FlRuInv, FlRuSetUp, FlRuKicks
<1>2. flRuTaken \in {SubSeq(FlSetUp, 1, n) : n \in 0 .. 4} /\ (flCnfgrd => Len(flRuTaken) >= 3)
  BY <1>1, FlSetUps DEF FlTook
<1>3. flSince <= FlInterval + 3
  BY DEF FlRuInv, FlRuTypes, FlRuSetUp, FlRuKicks
<1>4. QED BY <1>2, <1>3 DEF FlWatchdog

\* What the flash still owes of a burst, word by word.
LEMMA FlRests ==
  ASSUME NEW b \in Nat
  PROVE  /\ FlRestOf(b, 0) = [i \in 1 .. FlWords |-> <<"burst", b, i>>]
         /\ FlRestOf(b, FlWords) = <<>>
         /\ \A n \in 0 .. FlWords :
              /\ Len(FlRestOf(b, n)) = FlWords - n
              /\ FlRestOf(b, n) \o <<>> = FlRestOf(b, n) /\ <<>> \o FlRestOf(b, n) = FlRestOf(b, n)
         /\ \A n \in 0 .. FlWords - 1 : /\ FlRestOf(b, n) # <<>>
                                        /\ Head(FlRestOf(b, n)) = <<"burst", b, n + 1>>
                                        /\ Tail(FlRestOf(b, n)) = FlRestOf(b, n + 1)
<1> USE FlAssumption
<1> DEFINE D == {<<"burst", b, i>> : i \in Nat}
<1>1. ASSUME NEW n \in 0 .. FlWords
      PROVE  /\ FlRestOf(b, n) \in Seq(D) /\ Len(FlRestOf(b, n)) = FlWords - n
             /\ \A i \in 1 .. FlWords - n : FlRestOf(b, n)[i] = <<"burst", b, n + i>>
  <2>1. FlWords - n \in Nat /\ \A i \in 1 .. FlWords - n : <<"burst", b, n + i>> \in D
    OBVIOUS
  <2>2. FlRestOf(b, n) \in [1 .. FlWords - n -> D]
    BY <2>1 DEF FlRestOf
  <2>3. FlRestOf(b, n) \in Seq(D)
    BY <2>1, <2>2, SeqDef
  <2>4. QED BY <2>1, <2>2, <2>3, LenProperties DEF FlRestOf
<1> HIDE DEF D
<1>2. FlRestOf(b, 0) = [i \in 1 .. FlWords |-> <<"burst", b, i>>]
  BY DEF FlRestOf
<1>3. FlRestOf(b, FlWords) = <<>>
  <2>1. FlRestOf(b, FlWords) \in Seq(D) /\ Len(FlRestOf(b, FlWords)) = 0
    BY <1>1
  <2>2. QED BY <2>1, EmptySeq
<1>4. ASSUME NEW n \in 0 .. FlWords
      PROVE  FlRestOf(b, n) \o <<>> = FlRestOf(b, n) /\ <<>> \o FlRestOf(b, n) = FlRestOf(b, n)
  BY <1>1, ConcatEmptySeq
<1>5. ASSUME NEW n \in 0 .. FlWords - 1
      PROVE  /\ FlRestOf(b, n) # <<>>
             /\ Head(FlRestOf(b, n)) = <<"burst", b, n + 1>>
             /\ Tail(FlRestOf(b, n)) = FlRestOf(b, n + 1)
  <2> DEFINE q == FlRestOf(b, n)
  <2>1. n \in 0 .. FlWords /\ n + 1 \in 0 .. FlWords
    OBVIOUS
  <2>2. q \in Seq(D) /\ Len(q) = FlWords - n
        /\ \A i \in 1 .. FlWords - n : q[i] = <<"burst", b, n + i>>
    BY <1>1, <2>1
  <2>3. q # <<>>
    BY <2>2, EmptySeq
  <2>4. FlRestOf(b, n + 1) \in Seq(D) /\ Len(FlRestOf(b, n + 1)) = FlWords - (n + 1)
        /\ \A i \in 1 .. FlWords - (n + 1) : FlRestOf(b, n + 1)[i] = <<"burst", b, (n + 1) + i>>
    BY <1>1, <2>1
  <2> HIDE DEF q
  <2>5. Tail(q) \in Seq(D) /\ Len(Tail(q)) = FlWords - (n + 1)
        /\ \A i \in 1 .. Len(Tail(q)) : Tail(q)[i] = q[i + 1]
    BY <2>2, <2>3, HeadTailProperties
  <2>6. \A i \in 1 .. FlWords - (n + 1) : Tail(q)[i] = <<"burst", b, (n + 1) + i>>
    <3>1. SUFFICES ASSUME NEW i \in 1 .. FlWords - (n + 1)
                   PROVE  Tail(q)[i] = <<"burst", b, (n + 1) + i>>
      OBVIOUS
    <3>2. i + 1 \in 1 .. FlWords - n /\ n + (i + 1) = (n + 1) + i
      OBVIOUS
    <3>3. QED BY <2>2, <2>5, <3>2
  <2>7. Tail(q) = FlRestOf(b, n + 1)
    BY <2>4, <2>5, <2>6, SeqEqual
  <2>8. Head(q) = <<"burst", b, n + 1>>
    <3>1. 1 \in 1 .. FlWords - n
      OBVIOUS
    <3>2. Head(q) = q[1]
      BY <2>2, <2>3
    <3>3. QED BY <2>2, <3>1, <3>2
  <2>9. QED BY <2>3, <2>7, <2>8 DEF q
<1>6. QED BY <1>1, <1>2, <1>3, <1>4, <1>5

\* What the flash has been told, command by command.
LEMMA FlLogs ==
  /\ Append(<<>>, FlCsr) = FlLogOf(1)
  /\ \A n \in Nat : Append(FlLogOf(n + 1), <<"burst", n>>) = FlLogOf(n + 2)
  /\ \A n \in Nat : Len(FlLogOf(n)) = n /\ \A i \in 1 .. n : FlLogOf(n)[i] = IF i = 1 THEN FlCsr ELSE <<"burst", i - 2>>
<1> DEFINE D == {FlCsr} \union {<<"burst", i>> : i \in Nat}
<1>1. ASSUME NEW n \in Nat
      PROVE  /\ FlLogOf(n) \in Seq(D) /\ Len(FlLogOf(n)) = n
             /\ \A i \in 1 .. n : FlLogOf(n)[i] = IF i = 1 THEN FlCsr ELSE <<"burst", i - 2>>
  <2>1. \A i \in 1 .. n : (IF i = 1 THEN FlCsr ELSE <<"burst", i - 2>>) \in D
    OBVIOUS
  <2>2. FlLogOf(n) \in [1 .. n -> D]
    BY <2>1 DEF FlLogOf
  <2>3. FlLogOf(n) \in Seq(D)
    BY <2>2, SeqDef
  <2>4. QED BY <2>2, <2>3, LenProperties DEF FlLogOf
<1>2. FlCsr \in D /\ \A n \in Nat : <<"burst", n>> \in D
  OBVIOUS
<1> HIDE DEF D
<1>3. Append(<<>>, FlCsr) = FlLogOf(1)
  <2>1. <<>> \in Seq(D) /\ Len(<<>>) = 0
    BY EmptySeq
  <2>2. Append(<<>>, FlCsr) \in Seq(D) /\ Len(Append(<<>>, FlCsr)) = 1
        /\ Append(<<>>, FlCsr)[1] = FlCsr
    BY <1>2, <2>1, AppendProperties
  <2>3. FlLogOf(1) \in Seq(D) /\ Len(FlLogOf(1)) = 1 /\ FlLogOf(1)[1] = FlCsr
    <3>1. 1 \in Nat /\ 1 \in 1 .. 1
      OBVIOUS
    <3>2. QED BY <1>1, <3>1
  <2>4. QED BY <2>2, <2>3, SeqEqual
<1>4. ASSUME NEW n \in Nat
      PROVE  Append(FlLogOf(n + 1), <<"burst", n>>) = FlLogOf(n + 2)
  <2> DEFINE s == FlLogOf(n + 1)
             t == FlLogOf(n + 2)
             x == <<"burst", n>>
  <2>0. n + 1 \in Nat /\ n + 2 \in Nat
    OBVIOUS
  <2>1. s \in Seq(D) /\ Len(s) = n + 1
        /\ \A i \in 1 .. n + 1 : s[i] = IF i = 1 THEN FlCsr ELSE <<"burst", i - 2>>
    BY <1>1, <2>0
  <2>2. t \in Seq(D) /\ Len(t) = n + 2
        /\ \A i \in 1 .. n + 2 : t[i] = IF i = 1 THEN FlCsr ELSE <<"burst", i - 2>>
    BY <1>1, <2>0
  <2>3. x \in D
    BY <1>2
  <2> HIDE DEF s, t
  <2>4. Append(s, x) \in Seq(D) /\ Len(Append(s, x)) = Len(s) + 1
        /\ (\A i \in 1 .. Len(s) : Append(s, x)[i] = s[i]) /\ Append(s, x)[Len(s) + 1] = x
    BY <2>1, <2>3, AppendProperties
  <2>5. \A i \in 1 .. n + 2 : Append(s, x)[i] = t[i]
    <3>1. SUFFICES ASSUME NEW i \in 1 .. n + 2 PROVE Append(s, x)[i] = t[i]
      OBVIOUS
    <3>2. CASE i = n + 2
      <4>1. i # 1 /\ i - 2 = n
        BY <3>2
      <4>2. t[i] = x
        BY <2>2, <4>1
      <4>3. QED BY <2>1, <2>4, <3>2, <4>2
    <3>3. CASE i \in 1 .. n + 1
      BY <2>1, <2>2, <2>4, <3>3
    <3>4. i = n + 2 \/ i \in 1 .. n + 1
      OBVIOUS
    <3>5. QED BY <3>2, <3>3, <3>4
  <2>6. Append(s, x) = t
    BY <2>1, <2>2, <2>4, <2>5, SeqEqual
  <2>7. QED BY <2>6 DEF s, t
<1>5. QED BY <1>1, <1>3, <1>4

\* The exclusive or over the words that have come, word by word.
LEMMA FlCrcs ==
  /\ FlCrcOf(0, 0) = {} /\ FlCrcOf(FlBursts, 0) = FlWhole
  /\ \A b \in Nat : FlCrcOf(b, FlWords) = FlCrcOf(b + 1, 0)
  /\ \A b \in Nat, n \in Nat :
       LET w == <<"burst", b, n + 1>>
       IN  (FlCrcOf(b, n) \union {w}) \ (FlCrcOf(b, n) \intersect {w}) = FlCrcOf(b, n + 1)
<1> USE FlAssumption
<1>1. FlCrcOf(0, 0) = {}
  BY DEF FlCrcOf
<1>2. FlCrcOf(FlBursts, 0) = FlWhole
  BY DEF FlCrcOf, FlWhole
<1>3. ASSUME NEW b \in Nat PROVE FlCrcOf(b, FlWords) = FlCrcOf(b + 1, 0)
  <2>1. 0 .. (b + 1) - 1 = (0 .. b - 1) \union {b}
    OBVIOUS
  <2>2. 1 .. 0 = {}
    OBVIOUS
  <2>3. QED BY <2>1, <2>2 DEF FlCrcOf
<1>4. ASSUME NEW b \in Nat, NEW n \in Nat
      PROVE  (FlCrcOf(b, n) \union {<<"burst", b, n + 1>>}) \ (FlCrcOf(b, n) \intersect {<<"burst", b, n + 1>>})
               = FlCrcOf(b, n + 1)
  <2>1. <<"burst", b, n + 1>> \notin FlCrcOf(b, n)
    BY DEF FlCrcOf
  <2>2. 1 .. n + 1 = (1 .. n) \union {n + 1}
    OBVIOUS
  <2>3. FlCrcOf(b, n + 1) = FlCrcOf(b, n) \union {<<"burst", b, n + 1>>}
    BY <2>2 DEF FlCrcOf
  <2>4. QED BY <2>1, <2>3
<1>5. QED BY <1>1, <1>2, <1>3, <1>4

\* The pass over the flash starts within its invariant.
LEMMA FlInitInv == FlInit => FlInv
<1> SUFFICES ASSUME FlInit PROVE FlInv
  OBVIOUS
<1>1. ~flRead /\ ~flWrite /\ ~flCompleted /\ ~flMissed
  BY DEF FlInit
<1>2. FlTypes
  <2>1. flCntr \in 0 .. FlWords
    BY FlAssumption DEF FlInit
  <2>2. QED BY <1>1, <2>1 DEF FlInit, FlTypes
<1>3. FlPass
  BY <1>1 DEF FlInit, FlPass
<1>4. QED BY <1>1, <1>2, <1>3 DEF FlInv, FlPassed, FlOneRead, FlAnswers

\* What one edge makes of the slave's words and of the history.
FlSlaveStep(wait, valid) ==
  /\ flQueue' = (IF valid THEN Tail(flQueue) ELSE flQueue)
                \o (IF flRead /\ ~wait THEN FlGiven(flAddress) ELSE <<>>)
  /\ flMissed' <=> (flMissed \/ (wait /\ (flRead \/ flWrite)))
  /\ flCompleted \/ wait \/ ~(flRead \/ flWrite) => flLog' = flLog
  /\ ~(flCompleted \/ wait \/ ~(flRead \/ flWrite)) => flLog' = Append(flLog, flAddress)

\* The step of the slave, one equation to a variable.
LEMMA FlSlaves ==
  ASSUME NEW wait \in BOOLEAN, NEW valid \in BOOLEAN, FlSlave(wait, valid)
  PROVE  FlSlaveStep(wait, valid) /\ flMissed' \in BOOLEAN
<1>1. flMissed' <=> (flMissed \/ (wait /\ (flRead \/ flWrite)))
  BY Zenon DEF FlSlave
<1>2. flMissed' \in BOOLEAN
  BY Zenon DEF FlSlave
<1>3. QED BY <1>1, <1>2 DEF FlSlave, FlSlaveStep

\* The pass, state by state.
LEMMA FlPassStep ==
  ASSUME FlTypes, FlPass, ~flCompleted, NEW wait \in BOOLEAN, NEW valid \in BOOLEAN,
         valid => flQueue # <<>>,
         FlIdle \/ FlFourByte \/ FlWriteWait \/ FlReadBurst \/ FlAck(valid),
         FlSlaveStep(wait, valid), flMissed' \in BOOLEAN,
         flAsked' \in {FlNothing, FlEarly}
  PROVE  /\ FlTypes' /\ FlPass' /\ FlPassed'
         /\ flCompleted' => ~valid /\ ~flRead' /\ flQueue' = <<>>
<1> USE FlAssumption
<1> DEFINE Goal == /\ FlTypes' /\ FlPass' /\ FlPassed'
                   /\ flCompleted' => ~valid /\ ~flRead' /\ flQueue' = <<>>
<1>1. <<>> \o <<>> = <<>>
  OBVIOUS
<1>2. CASE flState \in {"IDLE", "FOURBYTE", "WRWT"}
  <2>1. /\ ~flRead /\ (flWrite => flState = "WRWT") /\ flCrc = {} /\ flQueue = <<>> /\ flLog = <<>>
        /\ IF flState = "WRWT" THEN flWrite /\ flAddress = FlCsr ELSE flAddress = <<"burst", 0>>
    BY <1>2 DEF FlPass
  <2>2. flQueue' = <<>> /\ ~valid
    BY <1>1, <2>1 DEF FlSlaveStep
  <2>3. CASE flState = "IDLE"
    <3>1. FlIdle
      BY <2>3 DEF FlFourByte, FlWriteWait, FlReadBurst, FlAck
    <3>2. /\ flState' = "FOURBYTE" /\ flRead' = FALSE /\ flWrite' = FALSE
          /\ flAddress' = flAddress /\ flCntr' = flCntr /\ flCrc' = flCrc
          /\ flCompleted' = flCompleted
      BY <3>1 DEF FlIdle, FlKeepCommand
    <3>3. flLog' = <<>>
      BY <2>1, <2>3 DEF FlSlaveStep
    <3>4. QED BY <2>1, <2>2, <2>3, <3>2, <3>3 DEF FlTypes, FlPass, FlPassed
  <2>4. CASE flState = "FOURBYTE"
    <3>1. FlFourByte
      BY <2>4 DEF FlIdle, FlWriteWait, FlReadBurst, FlAck
    <3>2. /\ flState' = "WRWT" /\ flRead' = FALSE /\ flWrite' = TRUE
          /\ flAddress' = FlCsr /\ flCntr' = flCntr /\ flCrc' = flCrc
          /\ flCompleted' = flCompleted
      BY <3>1 DEF FlFourByte
    <3>3. flLog' = <<>>
      BY <2>1, <2>4 DEF FlSlaveStep
    <3>4. QED BY <2>1, <2>2, <3>2, <3>3 DEF FlTypes, FlPass, FlPassed
  <2>5. CASE flState = "WRWT"
    <3>1. FlWriteWait
      BY <2>5 DEF FlIdle, FlFourByte, FlReadBurst, FlAck
    <3>2. /\ flState' = "READ" /\ flRead' = FALSE /\ flWrite' = FALSE
          /\ flAddress' = <<"burst", 0>> /\ flCntr' = flCntr /\ flCrc' = flCrc
          /\ flCompleted' = flCompleted
      BY <3>1 DEF FlWriteWait, FlKeepCommand
    <3>3. ~flMissed' => flLog' = FlLogOf(0 + 1)
      BY <2>1, <2>5, FlLogs DEF FlSlaveStep
    <3>4. flCrc' = FlCrcOf(0, 0) /\ 0 \in 0 .. FlBursts
      BY <2>1, <3>2, FlCrcs
    <3>5. FlTypes' /\ ~flCompleted'
      BY <3>2 DEF FlTypes
    <3>6. FlPass'
      BY <2>2, <3>2, <3>3, <3>4 DEF FlPass
    <3>7. QED BY <3>5, <3>6 DEF FlPassed
  <2>6. QED BY <1>2, <2>3, <2>4, <2>5
<1>3. ASSUME NEW b \in 0 .. FlBursts, flState = "READ", ~flRead, ~flWrite,
             flAddress = <<"burst", b>>, flCrc = FlCrcOf(b, 0), flQueue = <<>>,
             ~flMissed => flLog = FlLogOf(b + 1)
      PROVE  Goal
  <2>1. FlReadBurst
    BY <1>3 DEF FlIdle, FlFourByte, FlWriteWait, FlAck
  <2>2. /\ flCntr' = 0 /\ flWrite' = FALSE /\ flAddress' = flAddress /\ flCrc' = flCrc
        /\ b < FlBursts => flRead' = TRUE /\ flState' = "ACK" /\ flCompleted' = flCompleted
        /\ ~(b < FlBursts) => flRead' = FALSE /\ flState' = "IDLE" /\ flCompleted' = TRUE
    <3>1. flAddress[2] = b
      BY <1>3
    <3>2. QED BY <2>1, <3>1 DEF FlReadBurst
  <2>3. flQueue' = <<>> /\ flLog' = flLog /\ (flMissed' <=> flMissed)
    BY <1>1, <1>3 DEF FlSlaveStep
  <2>4. FlTypes'
    <3>1. flCntr' \in 0 .. FlWords
      BY <2>2
    <3>2. flRead' \in BOOLEAN /\ flWrite' \in BOOLEAN /\ flCompleted' \in BOOLEAN
      <4>1. CASE b < FlBursts
        BY <2>2, <4>1 DEF FlTypes
      <4>2. CASE ~(b < FlBursts)
        BY <2>2, <4>2
      <4>3. QED BY <4>1, <4>2
    <3>3. QED BY <3>1, <3>2 DEF FlTypes
  <2>5. CASE b < FlBursts
    <3>1. b \in 0 .. FlBursts - 1
      BY <2>5
    <3>2. FlPass'
      BY <1>3, <2>2, <2>3, <2>5, <3>1 DEF FlPass
    <3>3. QED BY <2>2, <2>4, <2>5, <3>2 DEF FlPassed
  <2>6. CASE ~(b < FlBursts)
    <3>1. b = FlBursts
      BY <2>6
    <3>2. FlPassed'
      <4>1. flCrc' = FlWhole
        BY <1>3, <2>2, <3>1, FlCrcs
      <4>2. flState' = "IDLE" /\ (~flMissed' => flLog' = FlLogOf(FlBursts + 1))
        BY <1>3, <2>2, <2>3, <2>6, <3>1
      <4>3. QED BY <4>1, <4>2 DEF FlPassed, FlWhole
    <3>3. QED BY <1>3, <2>2, <2>3, <2>4, <2>6, <3>2 DEF FlPass
  <2>7. QED BY <2>5, <2>6
<1>4. ASSUME NEW b \in 0 .. FlBursts - 1, flState = "ACK", ~flWrite,
             flAddress = <<"burst", b>>, flCrc = FlCrcOf(b, flCntr),
             flQueue \in {<<>>, FlRestOf(b, flCntr)}, flRead => flCntr = 0 /\ flQueue = <<>>,
             ~flMissed => flLog = FlLogOf(IF flRead THEN b + 1 ELSE b + 2)
      PROVE  Goal
  <2> DEFINE n == flCntr
  <2>1. FlAck(valid)
    BY <1>4 DEF FlIdle, FlFourByte, FlWriteWait, FlReadBurst
  <2>2. b \in Nat /\ n \in 0 .. FlWords
    BY DEF FlTypes
  <2>3. /\ flRead' = FALSE /\ flWrite' = FALSE /\ flCompleted' = flCompleted
        /\ n = FlWords => flState' = "READ" /\ flAddress' = <<"burst", b + 1>>
        /\ n # FlWords => flState' = flState /\ flAddress' = flAddress
    <3>1. flAddress[2] = b
      BY <1>4
    <3>2. QED BY <2>1, <3>1 DEF FlAck, FlKeepCommand
  <2>4. ~flMissed' => flLog' = FlLogOf(b + 2)
    <3>1. CASE flRead
      <4>1. ~flMissed' => ~flMissed /\ ~wait
        BY <3>1 DEF FlSlaveStep
      <4>2. ~flMissed' => flLog' = Append(FlLogOf(b + 1), <<"burst", b>>)
        BY <1>4, <3>1, <4>1 DEF FlSlaveStep
      <4>3. QED BY <2>2, <4>2, FlLogs
    <3>2. CASE ~flRead
      BY <1>4, <3>2 DEF FlSlaveStep
    <3>3. QED BY <3>1, <3>2
  <2>5. CASE valid
    <3>1. ~flRead /\ flQueue = FlRestOf(b, n)
      BY <1>4, <2>5
    <3>2. n \in 0 .. FlWords - 1
      BY <2>2, <2>5, <3>1, FlRests
    <3>3. Head(flQueue) = <<"burst", b, n + 1>> /\ flQueue' = FlRestOf(b, n + 1)
      <4>1. Tail(flQueue) = FlRestOf(b, n + 1) /\ Head(flQueue) = <<"burst", b, n + 1>>
        BY <2>2, <3>1, <3>2, FlRests
      <4>2. n + 1 \in 0 .. FlWords
        BY <3>2
      <4>3. FlRestOf(b, n + 1) \o <<>> = FlRestOf(b, n + 1)
        BY <2>2, <4>2, FlRests
      <4>4. QED BY <2>5, <3>1, <4>1, <4>3 DEF FlSlaveStep
    <3>4. flCntr' = n + 1 /\ flCrc' = FlCrcOf(b, n + 1)
      <4>1. /\ flCrc' = (flCrc \union {<<"burst", b, n + 1>>})
                          \ (flCrc \intersect {<<"burst", b, n + 1>>})
            /\ flCntr' = n + 1
        BY <2>1, <2>5, <3>3 DEF FlAck
      <4>2. n \in Nat
        BY <2>2
      <4>3. QED BY <1>4, <2>2, <4>1, <4>2, FlCrcs
    <3>5. n # FlWords /\ n + 1 \in 0 .. FlWords
      BY <3>2
    <3>6. FlTypes'
      BY <2>3, <3>4, <3>5 DEF FlTypes
    <3>7. FlPass'
      BY <1>4, <2>3, <2>4, <3>3, <3>4, <3>5 DEF FlPass
    <3>8. QED BY <2>3, <3>6, <3>7 DEF FlPassed
  <2>6. CASE ~valid
    <3>1. flCntr' = n /\ flCrc' = flCrc
      BY <2>1, <2>6 DEF FlAck
    <3>2. flQueue' \in {<<>>, FlRestOf(b, n)}
      <4>1. CASE flRead
        <5>1. FlGiven(flAddress) = FlRestOf(b, 0) /\ n = 0
          <6>1. flAddress[2] = b
            BY <1>4
          <6>2. QED BY <1>4, <2>2, <4>1, <6>1, FlRests DEF FlGiven
        <5>2. flQueue' = IF wait THEN <<>> \o <<>> ELSE <<>> \o FlRestOf(b, 0)
          BY <1>4, <2>6, <4>1, <5>1 DEF FlSlaveStep
        <5>3. <<>> \o FlRestOf(b, 0) = FlRestOf(b, 0)
          BY <2>2, FlRests
        <5>4. QED BY <1>1, <5>1, <5>2, <5>3
      <4>2. CASE ~flRead
        <5>1. flQueue' = flQueue \o <<>>
          BY <2>6, <4>2 DEF FlSlaveStep
        <5>2. FlRestOf(b, n) \o <<>> = FlRestOf(b, n)
          BY <2>2, FlRests
        <5>3. QED BY <1>1, <1>4, <5>1, <5>2
      <4>3. QED BY <4>1, <4>2
    <3>3. FlTypes'
      BY <2>2, <2>3, <3>1 DEF FlTypes
    <3>4. CASE n # FlWords
      <4>1. FlPass'
        BY <1>4, <2>3, <2>4, <3>1, <3>2, <3>4 DEF FlPass
      <4>2. QED BY <2>3, <3>3, <4>1 DEF FlPassed
    <3>5. CASE n = FlWords
      <4>1. flQueue' = <<>> /\ b + 1 \in 0 .. FlBursts /\ flCrc' = FlCrcOf(b + 1, 0)
        BY <1>4, <2>2, <3>1, <3>2, <3>5, FlRests, FlCrcs
      <4>2. ~flMissed' => flLog' = FlLogOf((b + 1) + 1)
        <5>1. (b + 1) + 1 = b + 2
          BY <2>2
        <5>2. QED BY <2>4, <5>1
      <4>3. FlPass'
        BY <2>3, <3>5, <4>1, <4>2 DEF FlPass
      <4>4. QED BY <2>3, <3>3, <4>3 DEF FlPassed
    <3>6. QED BY <3>4, <3>5
  <2>7. QED BY <2>5, <2>6
<1>5. QED BY <1>2, <1>3, <1>4 DEF FlPass

\* After the pass: the host's read goes from its own stage to the command and
\* from there to the flash, and no other is begun on the way.
LEMMA FlTargets == \A access : FlTarget(access) \notin {FlNothing, FlEarly}
BY DEF FlTarget, FlNothing, FlEarly

\* An edge after the pass: the read is in one place only, and comes back right.
LEMMA FlAfterStep ==
  ASSUME FlTypes, FlPassed, FlOneRead, flCompleted,
         NEW wait \in BOOLEAN, NEW valid \in BOOLEAN, valid => flQueue # <<>>,
         FlIdle \/ FlFourByte \/ FlWriteWait \/ FlReadBurst \/ FlAck(valid),
         FlSlaveStep(wait, valid), flMissed' \in BOOLEAN,
         NEW access \in FlAccesses, FlHostSide(access, valid)
  PROVE  flCompleted' /\ FlTypes' /\ FlPassed' /\ FlOneRead' /\ FlAnswers'
<1>1. flState = "IDLE"
  BY DEF FlPassed
<1>2. FlIdle
  BY <1>1 DEF FlFourByte, FlWriteWait, FlReadBurst, FlAck
<1>3. /\ flState' = flState /\ flAddress' = FlTarget(flOp) /\ flCntr' = flCntr /\ flCrc' = flCrc
      /\ flCompleted' = flCompleted
  BY <1>2 DEF FlIdle
<1>4. (flRead' <=> flOp.op = "read") /\ (flWrite' <=> flOp.op = "write")
  BY <1>2, Zenon DEF FlIdle
<1>5. flRead' \in BOOLEAN /\ flWrite' \in BOOLEAN
  BY <1>2, Zenon DEF FlIdle
<1>6. FlTypes'
  BY <1>3, <1>5 DEF FlTypes
<1>7. FlPassed'
  <2>1. flLog' = flLog /\ (~flMissed' => ~flMissed)
    BY DEF FlSlaveStep
  <2>2. QED BY <1>1, <1>3, <2>1 DEF FlPassed, FlWhole
<1>8. /\ flOp' = access /\ (access.op = "read" => ~FlPending)
      /\ access.op = "read" => flAsked' = FlTarget(access) /\ flOffset' = flOffset
      /\ access.op # "read" => flAsked' = IF FlPending THEN flAsked ELSE FlNothing
      /\ ~valid => flAnswer' = FlNothing
      /\ valid /\ flLines' # "offset" => flAnswer' = Head(flQueue)
  BY DEF FlHostSide
<1>9. <<>> \o <<>> = <<>> /\ (\A w : <<>> \o <<w>> = <<w>> /\ <<w>> \o <<>> = <<w>>)
  OBVIOUS
<1>10. flRead /\ ~wait => FlGiven(flAddress) = <<flAddress>>
  BY <1>1 DEF FlGiven
<1>11. flQueue' = (IF valid THEN Tail(flQueue) ELSE flQueue)
                  \o (IF flRead /\ ~wait THEN <<flAddress>> ELSE <<>>)
  BY <1>10 DEF FlSlaveStep
<1>12. CASE flOp.op = "read"
  <2>1. ~flRead /\ flQueue = <<>> /\ FlPending /\ ~valid /\ access.op # "read"
    BY <1>8, <1>12 DEF FlOneRead
  <2>2. flQueue' = <<>> /\ flAnswer' = FlNothing /\ flAsked' = flAsked
    BY <1>8, <1>9, <1>11, <2>1
  <2>3. FlPending' /\ (flAsked' # FlEarly => flAddress' = flAsked')
    BY <1>3, <1>12, <2>1, <2>2 DEF FlPending, FlOneRead
  <2>4. QED BY <1>3, <1>6, <1>7, <1>8, <2>1, <2>2, <2>3 DEF FlOneRead, FlAnswers
<1>13. CASE flRead
  <2>1. flOp.op # "read" /\ flQueue = <<>> /\ FlPending /\ ~valid /\ access.op # "read"
    BY <1>8, <1>13 DEF FlOneRead
  <2>2. flAnswer' = FlNothing /\ flAsked' = flAsked /\ ~flRead'
    BY <1>4, <1>8, <2>1
  <2>3. flQueue' = IF wait THEN <<>> ELSE <<flAddress>>
    BY <1>9, <1>11, <1>13, <2>1
  <2>4. FlPending'
    BY <2>1, <2>2 DEF FlPending
  <2>5. flAsked' # FlEarly => flAddress = flAsked'
    BY <1>13, <2>2 DEF FlOneRead
  <2>6. QED BY <1>3, <1>6, <1>7, <1>8, <2>1, <2>2, <2>3, <2>4, <2>5 DEF FlOneRead, FlAnswers
<1>14. ASSUME NEW w, flQueue = <<w>>, FlPending, flAsked # FlEarly => w = flAsked
       PROVE  flCompleted' /\ FlTypes' /\ FlPassed' /\ FlOneRead' /\ FlAnswers'
  <2>1. flQueue # <<>> /\ Head(flQueue) = w /\ Tail(flQueue) = <<>>
    BY <1>14
  <2>2. ~flRead /\ flOp.op # "read" /\ access.op # "read"
    BY <1>8, <1>14, <2>1 DEF FlOneRead
  <2>3. flAsked' = flAsked /\ ~flRead'
    BY <1>4, <1>8, <1>14, <2>2
  <2>4. flQueue' = IF valid THEN <<>> ELSE <<w>>
    BY <1>9, <1>11, <1>14, <2>1, <2>2
  <2>5. FlAnswers'
    <3>1. CASE valid
      BY <1>8, <1>14, <2>1, <2>3, <3>1 DEF FlAnswers
    <3>2. CASE ~valid
      BY <1>8, <3>2 DEF FlAnswers
    <3>3. QED BY <3>1, <3>2
  <2>6. ~valid => FlPending'
    BY <1>8, <1>14, <2>3 DEF FlPending
  <2>7. QED BY <1>3, <1>6, <1>7, <1>8, <1>14, <2>2, <2>3, <2>4, <2>5, <2>6 DEF FlOneRead
<1>15. CASE flOp.op # "read" /\ ~flRead /\ flQueue = <<>>
  <2>1. ~valid /\ flAnswer' = FlNothing /\ ~flRead' /\ flQueue' = <<>>
    BY <1>4, <1>8, <1>9, <1>11, <1>15
  <2>2. access.op = "read" => FlPending' /\ FlTarget(flOp)' = flAsked'
    <3>1. SUFFICES ASSUME access.op = "read" PROVE FlPending' /\ FlTarget(flOp)' = flAsked'
      OBVIOUS
    <3>2. flAsked' = FlTarget(access) /\ flOffset' = flOffset /\ flOp' = access
      BY <1>8, <3>1
    <3>3. FlTarget(flOp)' = FlTarget(access)
      BY <3>2 DEF FlTarget
    <3>4. QED BY <2>1, <3>2, <3>3, FlTargets DEF FlPending
  <2>3. QED BY <1>3, <1>6, <1>7, <1>8, <2>1, <2>2 DEF FlOneRead, FlAnswers
<1>16. QED BY <1>12, <1>13, <1>14, <1>15 DEF FlOneRead

\* One edge keeps the invariant of the flash, before and after the pass.
LEMMA FlNextInv == FlInv /\ FlNext => FlInv'
<1> SUFFICES ASSUME FlInv, NEW wait \in BOOLEAN, NEW valid \in BOOLEAN, FlClock(wait, valid)
             PROVE  FlInv'
  BY DEF FlNext
<1>1. PICK access \in FlAccesses : FlHostSide(access, valid)
  BY DEF FlClock
<1>2. /\ valid => flQueue # <<>>
      /\ FlIdle \/ FlFourByte \/ FlWriteWait \/ FlReadBurst \/ FlAck(valid)
      /\ FlSlave(wait, valid)
  BY DEF FlClock
<1>3. FlSlaveStep(wait, valid) /\ flMissed' \in BOOLEAN
  BY <1>2, FlSlaves
<1>4. FlTypes /\ FlPass /\ FlPassed /\ FlOneRead
  BY DEF FlInv
<1>5. CASE flCompleted
  <2>1. flCompleted' /\ FlTypes' /\ FlPassed' /\ FlOneRead' /\ FlAnswers'
    BY <1>1, <1>2, <1>3, <1>4, <1>5, FlAfterStep
  <2>2. QED BY <2>1 DEF FlInv, FlPass
<1>6. CASE ~flCompleted
  <2>1. flAsked' \in {FlNothing, FlEarly} /\ (flOp'.op = "read" => flAsked' = FlEarly)
        /\ (~valid => flAnswer' = FlNothing)
    BY <1>1, <1>4, <1>6 DEF FlHostSide, FlPass
  <2>2. FlTypes' /\ FlPass' /\ FlPassed' /\ (flCompleted' => ~valid /\ ~flRead' /\ flQueue' = <<>>)
    BY <1>2, <1>3, <1>4, <1>6, <2>1, FlPassStep
  <2>3. FlOneRead'
    <3>1. FlEarly # FlNothing
      BY DEF FlEarly, FlNothing
    <3>2. flCompleted' /\ flOp'.op = "read" => FlPending'
      BY <2>1, <2>2, <3>1 DEF FlPending
    <3>3. QED BY <2>1, <2>2, <3>2 DEF FlOneRead
  <2>4. FlAnswers'
    BY <2>1, <2>2 DEF FlAnswers
  <2>5. QED BY <2>2, <2>3, <2>4 DEF FlInv
<1>7. QED BY <1>5, <1>6

\* The two invariants have what FlSafe asks for.
LEMMA FlInvSafe == FlRuInv /\ FlInv => FlSafe
<1> SUFFICES ASSUME FlRuInv, FlInv PROVE FlSafe
  OBVIOUS
<1> USE FlAssumption
<1>1. FlTypes /\ FlPass /\ FlPassed /\ FlOneRead /\ FlAnswers
  BY DEF FlInv
<1>2. flState \in {"IDLE", "FOURBYTE", "WRWT", "ACK", "READ"}
  BY <1>1 DEF FlTypes, FlPass, FlPassed
<1>3. Len(flQueue) <= FlWords + 1
  <2>1. Len(<<>>) = 0 /\ \A w : Len(<<w>>) = 1
    OBVIOUS
  <2>2. CASE flQueue = <<>>
    BY <2>1, <2>2
  <2>3. CASE flCompleted
    <3>1. flQueue = <<>> \/ \E w : flQueue = <<w>>
      BY <1>1, <2>3 DEF FlOneRead
    <3>2. QED BY <2>1, <3>1
  <2>4. CASE ~flCompleted /\ flQueue # <<>>
    <3>1. PICK b \in 0 .. FlBursts - 1 : flQueue = FlRestOf(b, flCntr)
      BY <1>1, <2>4 DEF FlPass
    <3>2. b \in Nat /\ flCntr \in 0 .. FlWords
      BY <1>1 DEF FlTypes
    <3>3. Len(flQueue) = FlWords - flCntr
      BY <3>1, <3>2, FlRests
    <3>4. QED BY <3>2, <3>3
  <2>5. QED BY <2>2, <2>3, <2>4
<1>4. FlTypeInv
  BY <1>1, <1>2, <1>3 DEF FlTypeInv, FlTypes, FlRuInv, FlRuTypes
<1>5. FlWatchdog
  BY FlRuInvSafe
<1>6. ASSUME ~flMissed, flLog # <<>>
      PROVE  \E n \in Nat : flLog = FlLogOf(n + 1)
  <2>1. CASE flCompleted
    <3>1. flLog = FlLogOf(FlBursts + 1) /\ FlBursts \in Nat
      BY <1>1, <1>6, <2>1 DEF FlPassed
    <3>2. QED BY <3>1
  <2>2. CASE ~flCompleted
    <3>1. \E b \in 0 .. FlBursts : flLog = FlLogOf(b + 1) \/ flLog = FlLogOf(b + 2)
      BY <1>1, <1>6, <2>2 DEF FlPass
    <3>2. PICK b \in 0 .. FlBursts : flLog = FlLogOf(b + 1) \/ flLog = FlLogOf(b + 2)
      BY <3>1
    <3>3. b \in Nat /\ b + 1 \in Nat /\ b + 2 = (b + 1) + 1
      OBVIOUS
    <3>4. QED BY <3>2, <3>3
  <2>3. QED BY <2>1, <2>2
<1>7. ASSUME ~flMissed, flLog # <<>>
      PROVE  flLog[1] = FlCsr /\ \A i \in 2 .. Len(flLog) : flLog[i] = <<"burst", i - 2>>
  <2>1. PICK n \in Nat : flLog = FlLogOf(n + 1)
    BY <1>6, <1>7
  <2>2. n + 1 \in Nat
    OBVIOUS
  <2>3. Len(flLog) = n + 1 /\ \A i \in 1 .. n + 1 : flLog[i] = IF i = 1 THEN FlCsr ELSE <<"burst", i - 2>>
    BY <2>1, <2>2, FlLogs
  <2>4. 1 \in 1 .. n + 1 /\ \A i \in 2 .. n + 1 : i \in 1 .. n + 1 /\ i # 1
    OBVIOUS
  <2>5. QED BY <2>3, <2>4
<1>8. FlCrcWhole
  BY <1>1, <1>7 DEF FlCrcWhole, FlPassed
<1>9. QED BY <1>1, <1>4, <1>5, <1>8 DEF FlSafe
-----------------------------------------------------------------------------
(* The bus interface of the ARINC 429 channels.                            *)

AbTypes ==
  /\ abTo \in AbReadable \union AbWritable
  /\ abRd \subseteq 0 .. 3 /\ abPause \in 0 .. AbPace + 3
  /\ abMaskWr \subseteq AbReceivers /\ abTrWr \subseteq AbReceivers \union AbTransmitters

\* The pause of the host covers the way of its access.
AbPhase ==
  /\ abRd = {} \/ \E r \in 0 .. 3 : abRd = {r} /\ abPause = AbPace + 3 - r /\ abTo \in AbReadable
  /\ abWr => abRd = {} /\ abPause = AbPace /\ abTo \in AbWritable

\* The strobes are those that are owed; none is there.
AbLit ==
  /\ abMaskWr  = IF abOwed.strobe = "mask" THEN {abOwed.channel} ELSE {}
  /\ abBufRd   = IF abOwed.strobe = "take" THEN {abOwed.channel} ELSE {}
  /\ abTrWr    = IF abOwed.strobe = "send" THEN {abOwed.channel} ELSE {}
  /\ abClear   = IF abOwed.strobe = "clear rx" THEN {abOwed.channel} ELSE {}
  /\ abClearTx = IF abOwed.strobe = "clear tx" THEN {abOwed.channel} ELSE {}
AbDark ==
  abMaskWr = {} /\ abBufRd = {} /\ abTrWr = {} /\ abClear = {} /\ abClearTx = {}

\* Where the access is says which strobes there are and what is still owed.
AbOwes ==
  /\ abWr => AbDark /\ abOwed = AbCauses(abTo, "write", abData)
  /\ 0 \in abRd => AbDark /\ abOwed = AbCauses(abTo, "read", 0)
  /\ 1 \in abRd => /\ abOwed = AbCauses(abTo, "read", 0)
                   /\ IF abTo.reg = "buffer" THEN AbLit ELSE AbDark
  /\ 2 \in abRd \/ 3 \in abRd =>
       AbDark /\ abOwed = IF abTo.reg = "intflag" THEN AbCauses(abTo, "read", 0) ELSE AbNothing
  /\ abRd = {} /\ ~abWr => AbLit

\* What is owed is for the channel, the register and the data that are latched.
AbFits ==
  abOwed # AbNothing =>
    /\ abOwed.strobe \in {"mask", "take", "send", "clear rx", "clear tx"}
    /\ abOwed.channel = abTo.channel
    /\ abOwed.strobe \in {"mask", "send"} => abOwed.data = abData
    /\ abOwed.strobe = "mask" => abTo.reg = "mask"
    /\ abOwed.strobe = "clear rx" => abTo.reg = "intflag" /\ abTo.branch = "rx"
    /\ abOwed.strobe = "clear tx" => abTo.reg = "intflag" /\ abTo.branch = "tx"

AbInv == AbTypes /\ AbPhase /\ AbOwes /\ AbFits /\ AbAnswers /\ abWr \in BOOLEAN

\* The bus interface starts within its invariant.
LEMMA AbInitInv == AbInit => AbInv
<1> SUFFICES ASSUME AbInit PROVE AbInv
  OBVIOUS
<1>1. AbTypes
  BY AbAssumption DEF AbInit, AbTypes, AbReadable, AbAddress
<1>2. ~abWr /\ abRd = {}
  BY DEF AbInit
<1>3. AbLit /\ abOwed = AbNothing
  BY DEF AbInit, AbLit, AbNothing
<1>4. QED BY <1>1, <1>2, <1>3 DEF AbInit, AbInv, AbPhase, AbOwes, AbFits, AbAnswers

\* What an access owes is for its own channel and its own register.
LEMMA AbCausesFit ==
  ASSUME NEW to, NEW data
  PROVE  /\ to \in AbWritable =>
              LET c == AbCauses(to, "write", data)
              IN  IF to.reg = "mask" THEN c = [strobe |-> "mask", channel |-> to.channel, data |-> data]
                  ELSE IF to.reg = "buffer"
                  THEN c = [strobe |-> "send", channel |-> to.channel, data |-> data]
                  ELSE c = AbNothing
         /\ to \in AbReadable =>
              LET c == AbCauses(to, "read", data)
              IN  IF to.reg = "buffer" THEN c = [strobe |-> "take", channel |-> to.channel, data |-> 0]
                  ELSE IF to.reg = "intflag"
                  THEN /\ c.channel = to.channel
                       /\ to.branch = "rx" => c.strobe = "clear rx"
                       /\ to.branch # "rx" => c.strobe = "clear tx"
                  ELSE c = AbNothing
BY DEF AbCauses, AbWritable, AbReadable

\* The registers of the two branches.
LEMMA AbShapes ==
  /\ \A to \in AbWritable : /\ to.reg = "mask" => to.branch = "rx"
                            /\ to.reg = "buffer" => to.branch = "tx"
                            /\ to.reg \in {"config", "intmask", "mask", "buffer"}
  /\ \A to \in AbReadable : /\ to.reg \in {"config", "intflag", "flags", "buffer"}
                            /\ to.reg = "buffer" => to.branch = "rx"
                            /\ to.branch \in {"rx", "tx"}
BY DEF AbWritable, AbReadable

\* No strobe is there when every register of strobes is empty,
LEMMA AbActiveDark == AbActive = {} <=> AbDark
BY DEF AbActive, AbDark

\* and otherwise it is the one that is owed.
LEMMA AbLitActive ==
  ASSUME AbLit, abOwed.strobe \in {"mask", "take", "send", "clear rx", "clear tx"}
  PROVE  AbActive = {<<abOwed.strobe, abOwed.channel>>}
BY DEF AbLit, AbActive

\* Sets with one strobe at most.
LEMMA AbSets ==
  \A c : {} \union {c} = {c} /\ {} \ {c} = {} /\ {c} \ {c} = {}
OBVIOUS

\* From the dark, a strobe is what its condition says.
LEMMA AbFromDark ==
  ASSUME AbDark, AbStrobes
  PROVE  LET lit(b) == IF b THEN {abTo.channel} ELSE {}
         IN  /\ abMaskWr' = lit(abTo.reg = "mask" /\ abWr)
             /\ abBufRd' = lit(0 \in abRd /\ abTo.branch = "rx" /\ abTo.reg = "buffer")
             /\ abTrWr' = lit(abWr /\ abTo.branch = "tx" /\ abTo.reg = "buffer")
             /\ abClear' = lit(abTo.branch = "rx" /\ abTo.reg = "intflag" /\ 3 \in abRd)
             /\ abClearTx' = lit(abTo.branch = "tx" /\ abTo.reg = "intflag" /\ 3 \in abRd)
BY AbSets DEF AbStrobes, AbSet, AbDark

\* A strobe is taken back by its own channel and register.
LEMMA AbFades ==
  ASSUME AbLit, AbFits, AbStrobes, abRd = {}, ~abWr
  PROVE  AbDark'
<1>1. CASE abOwed = AbNothing
  <2>1. AbDark
    BY <1>1 DEF AbLit, AbDark, AbNothing
  <2>2. QED BY <2>1, AbFromDark DEF AbDark
<1>2. CASE abOwed # AbNothing
  <2>1. CASE abOwed.strobe = "mask"
    BY <1>2, <2>1, AbSets DEF AbStrobes, AbSet, AbLit, AbDark, AbFits
  <2>2. CASE abOwed.strobe = "take"
    BY <1>2, <2>2, AbSets DEF AbStrobes, AbSet, AbLit, AbDark, AbFits
  <2>3. CASE abOwed.strobe = "send"
    BY <1>2, <2>3, AbSets DEF AbStrobes, AbSet, AbLit, AbDark, AbFits
  <2>4. CASE abOwed.strobe = "clear rx"
    BY <1>2, <2>4, AbSets DEF AbStrobes, AbSet, AbLit, AbDark, AbFits
  <2>5. CASE abOwed.strobe = "clear tx"
    BY <1>2, <2>5, AbSets DEF AbStrobes, AbSet, AbLit, AbDark, AbFits
  <2>6. QED BY <1>2, <2>1, <2>2, <2>3, <2>4, <2>5 DEF AbFits
<1>3. QED BY <1>1, <1>2

\* An edge without an access: the strobes follow the access on its way.
LEMMA AbStrobesOn ==
  ASSUME AbInv, AbStrobes, abOwed' = AbLeft
  PROVE  /\ abWr => AbLit' /\ abOwed' = abOwed
         /\ 0 \in abRd => (IF abTo.reg = "buffer" THEN AbLit' ELSE AbDark') /\ abOwed' = abOwed
         /\ 1 \in abRd => AbDark' /\ abOwed' = IF abTo.reg = "buffer" THEN AbNothing ELSE abOwed
         /\ 2 \in abRd => AbDark' /\ abOwed' = abOwed
         /\ 3 \in abRd => AbLit' /\ abOwed' = abOwed
         /\ abRd = {} /\ ~abWr => AbDark' /\ abOwed' = AbNothing
<1>1. CASE abWr
  <2>1. AbDark /\ abRd = {} /\ abTo \in AbWritable /\ abOwed = AbCauses(abTo, "write", abData)
    BY <1>1 DEF AbInv, AbPhase, AbOwes
  <2>2. abOwed' = abOwed
    BY <2>1, AbActiveDark DEF AbLeft
  <2>3. CASE abTo.reg = "mask"
    <3>1. abOwed = [strobe |-> "mask", channel |-> abTo.channel, data |-> abData]
      BY <2>1, <2>3, AbCausesFit
    <3>2. AbLit'
      <4>1. /\ abMaskWr' = {abTo.channel} /\ abBufRd' = {} /\ abTrWr' = {}
            /\ abClear' = {} /\ abClearTx' = {}
        BY <1>1, <2>1, <2>3, <3>1, AbFromDark
      <4>2. QED BY <2>2, <3>1, <4>1 DEF AbLit
    <3>3. QED BY <1>1, <2>1, <2>2, <3>2
  <2>4. CASE abTo.reg = "buffer"
    <3>1. abOwed = [strobe |-> "send", channel |-> abTo.channel, data |-> abData] /\ abTo.branch = "tx"
      BY <2>1, <2>4, AbCausesFit, AbShapes
    <3>2. AbLit'
      <4>1. /\ abMaskWr' = {} /\ abBufRd' = {} /\ abTrWr' = {abTo.channel}
            /\ abClear' = {} /\ abClearTx' = {}
        BY <1>1, <2>1, <2>4, <3>1, AbFromDark
      <4>2. QED BY <2>2, <3>1, <4>1 DEF AbLit
    <3>3. QED BY <1>1, <2>1, <2>2, <3>2
  <2>5. CASE abTo.reg \notin {"mask", "buffer"}
    <3>1. abOwed = AbNothing /\ abTo.reg \in {"config", "intmask"}
      BY <2>1, <2>5, AbCausesFit, AbShapes
    <3>2. AbLit'
      <4>1. /\ abMaskWr' = {} /\ abBufRd' = {} /\ abTrWr' = {}
            /\ abClear' = {} /\ abClearTx' = {}
        BY <1>1, <2>1, <2>5, <3>1, AbFromDark
      <4>2. QED BY <2>2, <3>1, <4>1 DEF AbLit, AbNothing
    <3>3. QED BY <1>1, <2>1, <2>2, <3>2
  <2>6. QED BY <2>3, <2>4, <2>5
<1>2. ASSUME NEW r \in 0 .. 3, abRd = {r}
      PROVE  ~abWr /\ abTo \in AbReadable
  BY <1>2 DEF AbInv, AbPhase
<1>3. CASE abRd = {0}
  <2>1. AbDark /\ ~abWr /\ abTo \in AbReadable /\ abOwed = AbCauses(abTo, "read", 0)
    BY <1>2, <1>3 DEF AbInv, AbOwes
  <2>2. abOwed' = abOwed
    BY <2>1, AbActiveDark DEF AbLeft
  <2>3. CASE abTo.reg = "buffer"
    <3>1. abOwed = [strobe |-> "take", channel |-> abTo.channel, data |-> 0] /\ abTo.branch = "rx"
      BY <2>1, <2>3, AbCausesFit, AbShapes
    <3>2. AbLit'
      <4>1. /\ abMaskWr' = {} /\ abBufRd' = {abTo.channel} /\ abTrWr' = {}
            /\ abClear' = {} /\ abClearTx' = {}
        BY <1>3, <2>1, <2>3, <3>1, AbFromDark
      <4>2. QED BY <2>2, <3>1, <4>1 DEF AbLit
    <3>3. QED BY <1>3, <2>1, <2>2, <2>3, <3>2
  <2>4. CASE abTo.reg # "buffer"
    <3>1. abTo.reg # "mask"
      BY <2>1, AbShapes
    <3>2. AbDark'
      BY <1>3, <2>1, <2>4, <3>1, AbFromDark DEF AbDark
    <3>3. QED BY <1>3, <2>1, <2>2, <2>4, <3>2
  <2>5. QED BY <2>3, <2>4
<1>4. CASE abRd = {1}
  <2>1. ~abWr /\ abTo \in AbReadable /\ abOwed = AbCauses(abTo, "read", 0)
    BY <1>2, <1>4 DEF AbInv, AbOwes
  <2>2. abTo.reg # "mask"
    BY <2>1, AbShapes
  <2>3. CASE abTo.reg = "buffer"
    <3>1. AbLit
      BY <1>4, <2>3 DEF AbInv, AbOwes
    <3>2. abOwed = [strobe |-> "take", channel |-> abTo.channel, data |-> 0]
      BY <2>1, <2>3, AbCausesFit
    <3>3. abOwed' = AbNothing
      BY <3>1, <3>2, AbLitActive DEF AbLeft
    <3>4. AbDark'
      <4>1. /\ abMaskWr = {} /\ abBufRd = {abTo.channel} /\ abTrWr = {}
            /\ abClear = {} /\ abClearTx = {}
        BY <3>1, <3>2 DEF AbLit
      <4>2. QED BY <1>4, <2>1, <2>3, <4>1, AbSets DEF AbStrobes, AbSet, AbDark
    <3>5. QED BY <1>4, <2>1, <2>3, <3>3, <3>4
  <2>4. CASE abTo.reg # "buffer"
    <3>1. AbDark
      BY <1>4, <2>4 DEF AbInv, AbOwes
    <3>2. AbDark' /\ abOwed' = abOwed
      BY <1>4, <2>1, <2>2, <2>4, <3>1, AbActiveDark, AbFromDark DEF AbDark, AbLeft
    <3>3. QED BY <1>4, <2>1, <2>4, <3>2
  <2>5. QED BY <2>3, <2>4
<1>5. CASE abRd = {2}
  <2>1. AbDark /\ ~abWr /\ abTo \in AbReadable
    BY <1>2, <1>5 DEF AbInv, AbOwes
  <2>2. abTo.reg # "mask"
    BY <2>1, AbShapes
  <2>3. AbDark' /\ abOwed' = abOwed
    BY <1>5, <2>1, <2>2, AbActiveDark, AbFromDark DEF AbDark, AbLeft
  <2>4. QED BY <1>5, <2>1, <2>3
<1>6. CASE abRd = {3}
  <2>1. AbDark /\ ~abWr /\ abTo \in AbReadable
        /\ abOwed = IF abTo.reg = "intflag" THEN AbCauses(abTo, "read", 0) ELSE AbNothing
    BY <1>2, <1>6 DEF AbInv, AbOwes
  <2>2. abTo.reg # "mask" /\ abTo.branch \in {"rx", "tx"}
    BY <2>1, AbShapes
  <2>3. abOwed' = abOwed
    BY <2>1, AbActiveDark DEF AbLeft
  <2>4. CASE abTo.reg = "intflag"
    <3>1. /\ abOwed.channel = abTo.channel
          /\ abTo.branch = "rx" => abOwed.strobe = "clear rx"
          /\ abTo.branch # "rx" => abOwed.strobe = "clear tx"
      BY <2>1, <2>4, AbCausesFit
    <3>2. /\ abMaskWr' = {} /\ abBufRd' = {} /\ abTrWr' = {}
          /\ abClear' = (IF abTo.branch = "rx" THEN {abTo.channel} ELSE {})
          /\ abClearTx' = (IF abTo.branch = "rx" THEN {} ELSE {abTo.channel})
      BY <1>6, <2>1, <2>2, <2>4, AbFromDark
    <3>3. AbLit'
      <4>1. CASE abTo.branch = "rx"
        <5>1. abOwed'.strobe = "clear rx" /\ abOwed'.channel = abTo.channel
          BY <2>3, <3>1, <4>1
        <5>2. QED BY <3>2, <4>1, <5>1 DEF AbLit
      <4>2. CASE abTo.branch # "rx"
        <5>1. abOwed'.strobe = "clear tx" /\ abOwed'.channel = abTo.channel
          BY <2>3, <3>1, <4>2
        <5>2. QED BY <3>2, <4>2, <5>1 DEF AbLit
      <4>3. QED BY <4>1, <4>2
    <3>4. QED BY <1>6, <2>1, <2>3, <3>3
  <2>5. CASE abTo.reg # "intflag"
    <3>1. AbLit'
      BY <1>6, <2>1, <2>2, <2>3, <2>5, AbFromDark DEF AbLit, AbDark, AbNothing
    <3>2. QED BY <1>6, <2>1, <2>3, <3>1
  <2>6. QED BY <2>4, <2>5
<1>7. CASE abRd = {} /\ ~abWr
  <2>1. AbLit /\ AbFits
    BY <1>7 DEF AbInv, AbOwes
  <2>2. AbDark'
    BY <1>7, <2>1, AbFades
  <2>3. abOwed' = AbNothing
    <3>1. CASE abOwed = AbNothing
      <4>1. AbDark
        BY <2>1, <3>1 DEF AbLit, AbDark, AbNothing
      <4>2. QED BY <3>1, <4>1, AbActiveDark DEF AbLeft
    <3>2. CASE abOwed # AbNothing
      BY <2>1, <3>2, AbLitActive DEF AbLeft, AbFits
    <3>3. QED BY <3>1, <3>2
  <2>4. QED BY <1>7, <2>2, <2>3
<1>8. QED
  BY <1>1, <1>3, <1>4, <1>5, <1>6, <1>7 DEF AbInv, AbPhase

\* An access comes when the one before has caused what it is for.
LEMMA AbAccessOn ==
  ASSUME AbInv, AbStrobes, abPause = 0
  PROVE  abRd = {} /\ ~abWr /\ AbDark'
<1>1. AbPace \in Nat /\ AbPace > 0
  BY AbAssumption
<1>2. ~abWr
  BY <1>1 DEF AbInv, AbPhase
<1>3. abRd = {}
  BY <1>1 DEF AbInv, AbPhase
<1>4. AbLit /\ AbFits
  BY <1>2, <1>3 DEF AbInv, AbOwes
<1>5. QED BY <1>2, <1>3, <1>4, AbFades

\* One edge of the bus interface keeps it.
LEMMA AbNextInv == AbInv /\ AbClock => AbInv'
<1> SUFFICES ASSUME AbInv, AbClock PROVE AbInv'
  OBVIOUS
<1> USE AbAssumption
<1>1. AbStrobes /\ AbRegisters
  BY DEF AbClock
<1>2. /\ abTo.channel \in AbReceivers \union AbTransmitters
      /\ abTo.reg = "mask" => abTo.channel \in AbReceivers
  BY DEF AbInv, AbTypes, AbReadable, AbWritable
<1>3. abMaskWr' \subseteq AbReceivers /\ abTrWr' \subseteq AbReceivers \union AbTransmitters
  BY <1>1, <1>2 DEF AbStrobes, AbSet, AbInv, AbTypes
<1>4. abRd = {} \/ \E r \in 0 .. 3 : abRd = {r}
  BY DEF AbInv, AbPhase
<1>5. \A r \in 0 .. 3 : {b + 1 : b \in {r} \ {3}} = IF r = 3 THEN {} ELSE {r + 1}
  OBVIOUS
<1>6. {b + 1 : b \in {} \ {3}} = {}
  OBVIOUS
<1>7. CASE AbQuiet
  <2>1. abWr' = FALSE /\ abTo' = abTo /\ abData' = abData /\ abOwed' = AbLeft
    BY <1>7 DEF AbQuiet
  <2>2. abRd' = {b + 1 : b \in abRd \ {3}}
    BY <1>7 DEF AbQuiet
  <2>3. abPause' = IF abPause = 0 THEN 0 ELSE abPause - 1
    BY <1>7 DEF AbQuiet
  <2>4. AbTypes'
    BY <1>3, <1>4, <1>5, <1>6, <2>1, <2>2, <2>3 DEF AbInv, AbTypes
  <2>5. AbPhase'
    BY <1>4, <1>5, <1>6, <2>1, <2>2, <2>3 DEF AbInv, AbTypes, AbPhase
  <2>6. AbFits'
    <3>1. abOwed' \in {abOwed, AbNothing}
      BY <2>1 DEF AbLeft
    <3>2. QED BY <2>1, <3>1 DEF AbInv, AbFits, AbNothing
  <2>7. AbOwes'
    <3>1. /\ abWr => AbLit' /\ abOwed' = abOwed
          /\ 0 \in abRd => (IF abTo.reg = "buffer" THEN AbLit' ELSE AbDark') /\ abOwed' = abOwed
          /\ 1 \in abRd => AbDark' /\ abOwed' = IF abTo.reg = "buffer" THEN AbNothing ELSE abOwed
          /\ 2 \in abRd => AbDark' /\ abOwed' = abOwed
          /\ 3 \in abRd => AbLit' /\ abOwed' = abOwed
          /\ abRd = {} /\ ~abWr => AbDark' /\ abOwed' = AbNothing
      BY <1>1, <2>1, AbStrobesOn
    <3>2. AbDark' /\ abOwed' = AbNothing => AbLit'
      BY DEF AbDark, AbLit, AbNothing
    <3>4. CASE 0 \in abRd
      <4>1. abRd = {0} /\ abRd' = {1} /\ abOwed = AbCauses(abTo, "read", 0)
        BY <1>4, <1>5, <2>2, <3>4 DEF AbInv, AbOwes
      <4>2. QED BY <2>1, <3>1, <4>1 DEF AbOwes
    <3>5. CASE 1 \in abRd
      <4>1. abRd = {1} /\ abRd' = {2} /\ abOwed = AbCauses(abTo, "read", 0) /\ abTo \in AbReadable
        BY <1>4, <1>5, <2>2, <3>5 DEF AbInv, AbOwes, AbPhase
      <4>2. abTo.reg \notin {"buffer", "intflag"} => abOwed = AbNothing
        BY <4>1, AbCausesFit
      <4>3. QED BY <2>1, <3>1, <4>1, <4>2 DEF AbOwes
    <3>6. CASE 2 \in abRd
      <4>1. abRd = {2} /\ abRd' = {3}
        BY <1>4, <1>5, <2>2, <3>6
      <4>2. QED BY <2>1, <3>1, <4>1 DEF AbOwes, AbInv
    <3>7. CASE abRd \in {{}, {3}}
      <4>1. abRd' = {}
        BY <1>5, <1>6, <2>2, <3>7
      <4>2. QED BY <2>1, <3>1, <3>2, <3>7, <4>1 DEF AbOwes
    <3>8. QED BY <1>4, <3>4, <3>5, <3>6, <3>7
  <2>8. AbAnswers'
    <3>1. 3 \in abRd' => 2 \in abRd /\ abTo \in AbReadable
      BY <1>4, <1>5, <1>6, <2>2 DEF AbInv, AbPhase
    <3>2. QED BY <1>1, <2>1, <3>1 DEF AbAnswers, AbRegisters
  <2>9. abWr' \in BOOLEAN
    BY <2>1
  <2>10. QED BY <2>4, <2>5, <2>6, <2>7, <2>8, <2>9 DEF AbInv
<1>8. ASSUME NEW to \in AbWritable, NEW data, AbWrite(to, data)
      PROVE  AbInv'
  <2>1. abRd = {} /\ ~abWr /\ AbDark'
    BY <1>1, <1>8, AbAccessOn DEF AbWrite
  <2>2. /\ abTo' = to /\ abData' = data /\ abPause' = AbPace
        /\ abOwed' = AbCauses(to, "write", data)
    BY <1>8 DEF AbWrite
  <2>3. abRd' = {}
    BY <1>6, <1>8, <2>1 DEF AbWrite
  <2>4. abWr' = TRUE
    BY <1>8 DEF AbWrite
  <2>5. AbTypes'
    BY <1>3, <2>2, <2>3 DEF AbTypes
  <2>6. AbPhase'
    BY <2>2, <2>3 DEF AbPhase
  <2>7. AbFits'
    <3>1. to.reg = "mask" =>
            abOwed' = [strobe |-> "mask", channel |-> to.channel, data |-> data]
      BY <2>2, AbCausesFit
    <3>2. to.reg = "buffer" =>
            abOwed' = [strobe |-> "send", channel |-> to.channel, data |-> data]
      BY <2>2, AbCausesFit
    <3>3. to.reg \notin {"mask", "buffer"} => abOwed' = AbNothing
      BY <2>2, AbCausesFit
    <3>4. CASE to.reg = "mask"
      <4>1. abOwed'.strobe = "mask" /\ abOwed'.channel = to.channel /\ abOwed'.data = data
        BY <3>1, <3>4
      <4>2. QED BY <2>2, <3>4, <4>1 DEF AbFits
    <3>5. CASE to.reg = "buffer"
      <4>1. abOwed'.strobe = "send" /\ abOwed'.channel = to.channel /\ abOwed'.data = data
        BY <3>2, <3>5
      <4>2. QED BY <2>2, <4>1 DEF AbFits
    <3>6. CASE to.reg \notin {"mask", "buffer"}
      BY <3>3, <3>6 DEF AbFits, AbNothing
    <3>7. QED BY <3>4, <3>5, <3>6
  <2>8. AbOwes'
    BY <2>1, <2>2, <2>3, <2>4 DEF AbOwes
  <2>9. AbAnswers'
    BY <2>3 DEF AbAnswers
  <2>10. QED BY <2>4, <2>5, <2>6, <2>7, <2>8, <2>9 DEF AbInv
<1>9. ASSUME NEW to \in AbReadable, AbReads(to)
      PROVE  AbInv'
  <2>1. abRd = {} /\ ~abWr /\ AbDark'
    BY <1>1, <1>9, AbAccessOn DEF AbReads
  <2>2. abTo' = to /\ abPause' = AbPace + 3 /\ abOwed' = AbCauses(to, "read", 0)
    BY <1>9 DEF AbReads
  <2>3. abRd' = {0}
    BY <1>6, <1>9, <2>1 DEF AbReads
  <2>4. abWr' = FALSE
    BY <1>9 DEF AbReads
  <2>5. AbTypes'
    BY <1>3, <2>2, <2>3 DEF AbTypes
  <2>6. AbPhase'
    BY <2>2, <2>3, <2>4 DEF AbPhase
  <2>7. AbFits'
    <3>1. to.reg = "buffer" => abOwed'.strobe = "take" /\ abOwed'.channel = to.channel
      <4>1. to.reg = "buffer" =>
              AbCauses(to, "read", 0) = [strobe |-> "take", channel |-> to.channel, data |-> 0]
        BY AbCausesFit
      <4>2. QED BY <2>2, <4>1
    <3>2. to.reg = "intflag" => /\ abOwed'.channel = to.channel
                                /\ to.branch = "rx" => abOwed'.strobe = "clear rx"
                                /\ to.branch # "rx" => abOwed'.strobe = "clear tx"
      BY <2>2, AbCausesFit
    <3>3. to.reg \notin {"buffer", "intflag"} => abOwed' = AbNothing
      BY <2>2, AbCausesFit
    <3>4. to.branch \in {"rx", "tx"}
      BY AbShapes
    <3>5. QED BY <2>2, <3>1, <3>2, <3>3, <3>4 DEF AbFits
  <2>8. AbOwes'
    BY <2>1, <2>2, <2>3, <2>4 DEF AbOwes
  <2>9. AbAnswers'
    BY <2>3 DEF AbAnswers
  <2>10. QED BY <2>4, <2>5, <2>6, <2>7, <2>8, <2>9 DEF AbInv
<1>10. QED BY <1>7, <1>8, <1>9 DEF AbClock

\* The invariant of the bus interface has what AbSafe asks for.
LEMMA AbInvSafe == AbInv => AbSafe
<1> SUFFICES ASSUME AbInv PROVE AbSafe
  OBVIOUS
<1> USE AbAssumption
<1>1. AbTypeInv
  <2>1. Cardinality(abRd) <= 1
    <3>1. abRd = {} \/ \E r \in 0 .. 3 : abRd = {r}
      BY DEF AbInv, AbPhase
    <3>2. \A r : Cardinality({r}) = 1
      BY FS_Singleton
    <3>3. Cardinality({}) = 0
      BY FS_EmptySet
    <3>4. CASE abRd = {}
      BY <3>3, <3>4
    <3>5. ASSUME NEW r \in 0 .. 3, abRd = {r} PROVE Cardinality(abRd) <= 1
      <4>1. Cardinality(abRd) = 1
        BY <3>2, <3>5
      <4>2. QED BY <4>1
    <3>6. QED BY <3>1, <3>4, <3>5
  <2>2. QED BY <2>1 DEF AbInv, AbTypes, AbTypeInv
<1>2. AbActive # {} => AbLit
  <2>1. AbActive # {} => ~AbDark
    BY AbActiveDark
  <2>2. QED BY <2>1 DEF AbInv, AbPhase, AbOwes
<1>3. AbActive # {} => /\ AbActive = {<<abOwed.strobe, abOwed.channel>>}
                       /\ abTo.channel = abOwed.channel
                       /\ abOwed.strobe \in {"mask", "send"} => abData = abOwed.data
  <2> SUFFICES ASSUME AbActive # {}
               PROVE  /\ AbActive = {<<abOwed.strobe, abOwed.channel>>}
                      /\ abTo.channel = abOwed.channel
                      /\ abOwed.strobe \in {"mask", "send"} => abData = abOwed.data
    OBVIOUS
  <2>1. AbLit /\ ~AbDark
    BY <1>2, AbActiveDark
  <2>2. abOwed # AbNothing
    <3>1. AbNothing.strobe = "none"
      BY DEF AbNothing
    <3>2. abOwed.strobe # "none"
      BY <2>1 DEF AbLit, AbDark
    <3>3. QED BY <3>1, <3>2
  <2>3. abOwed.strobe \in {"mask", "take", "send", "clear rx", "clear tx"}
    BY <2>2 DEF AbInv, AbFits
  <2>4. AbActive = {<<abOwed.strobe, abOwed.channel>>}
    BY <2>1, <2>3, AbLitActive
  <2>5. QED BY <2>2, <2>4 DEF AbInv, AbFits
<1>4. abPause = 0 /\ abRd = {} => abOwed = AbNothing \/ AbActive # {}
  <2>1. SUFFICES ASSUME abPause = 0, abRd = {}, abOwed # AbNothing PROVE AbActive # {}
    OBVIOUS
  <2>2. ~abWr
    BY <2>1 DEF AbInv, AbPhase
  <2>3. QED BY <2>1, <2>2, AbLitActive DEF AbInv, AbOwes, AbFits
<1>5. QED BY <1>1, <1>3, <1>4 DEF AbInv, AbSafe, AbOnce
-----------------------------------------------------------------------------
(* A transmitter.                                                          *)

AtTypes ==
  /\ Len(atFifo) <= AtSize /\ atVisible \in 0 .. Len(atFifo)
  /\ atDeaf \in 0 .. AtDeafMax /\ atState \in {"IDLE", "SEND", "DONE"}
  /\ atFlag \in BOOLEAN /\ atWrEn \in BOOLEAN /\ atWrEn0 \in BOOLEAN /\ atWrEn1 \in BOOLEAN
  /\ atOff \in BOOLEAN

\* One word at a time, whatever the line does: a request is two edges after the
\* one before at the least, for a word that is there, and a word that is taken is
\* still in q when it may start; when a word is done nothing is on its way.
AtIdlePipe == ~atFlag /\ ~atWrEn /\ ~atWrEn0 /\ ~atWrEn1
AtPipe ==
  /\ ~(atFlag /\ atWrEn) /\ ~(atWrEn /\ atWrEn0) /\ ~(atWrEn0 /\ atWrEn1)
  /\ atWrEn => atVisible > 0
  /\ atFlight = <<>> \/ atFlight = <<atQ>>
  /\ atWrEn0 \/ atWrEn1 => atFlight = <<atQ>>
  /\ atState = "DONE" => AtIdlePipe /\ atDeaf = AtDeafMax

\* Since the line has sent a word it is in one of these.
AtOn ==
  /\ atDivider # 0
  /\ \/ atState \in {"SEND", "DONE"} /\ AtIdlePipe /\ atFlight = <<>>
     \/ /\ atState = "IDLE" /\ AtIdlePipe /\ atFlight = <<>> /\ atDeaf = AtDeafMax
     \/ /\ atState = "IDLE" /\ atDeaf = 0 /\ (atFlag \/ atWrEn) /\ ~atWrEn0 /\ ~atWrEn1
        /\ atFlight = <<>>
     \/ /\ atState = "IDLE" /\ atDeaf = 0 /\ ~atFlag /\ ~atWrEn /\ (atWrEn0 \/ atWrEn1)

AtInv == AtTypes /\ AtPipe /\ (~atOff => AtOn)

\* The FIFO of a transmitter loses its oldest word,
LEMMA AtTails ==
  ASSUME NEW D, NEW s \in Seq(D), NEW p \in 0 .. 1, p <= Len(s)
  PROVE  SubSeq(s, 1 + p, Len(s)) \in Seq(D) /\ Len(SubSeq(s, 1 + p, Len(s))) = Len(s) - p
OBVIOUS

\* and gets a new one at its end, unless it is cleared.
LEMMA AtFifoStep ==
  ASSUME NEW D, NEW wr \in BOOLEAN, NEW data \in D, NEW late \in BOOLEAN,
         AtTypes, AtPipe, atFifo \in Seq(D), AtFifo(wr, data, late)
  PROVE  /\ atFifo' \in Seq(D) /\ Len(atFifo') <= AtSize /\ atVisible' \in 0 .. Len(atFifo')
         /\ ~AtPop => /\ atQ' = atQ
                      /\ atVisible > 0 => atVisible' > 0
         /\ AtPop => atFifo # <<>>
<1> USE AtAssumption
<1> DEFINE popped == IF AtPop /\ atFifo # <<>> THEN 1 ELSE 0
           kept == SubSeq(atFifo, 1 + popped, Len(atFifo))
<1>1. Len(atFifo) \in Nat /\ atVisible \in Nat /\ (atVisible > 0 => atFifo # <<>>)
  BY DEF AtTypes
<1>2. AtPop => atVisible > 0
  BY DEF AtPop, AtPipe
<1>3. kept \in Seq(D) /\ Len(kept) = Len(atFifo) - popped
  <2>1. popped \in 0 .. 1 /\ popped <= Len(atFifo)
    BY <1>1
  <2> HIDE DEF popped
  <2>2. QED BY <2>1, AtTails
<1>4. popped \in 0 .. 1 /\ popped <= atVisible /\ (AtPop <=> popped = 1)
  BY <1>1, <1>2
<1>5. /\ atQ' = IF popped = 1 THEN atFifo[1] ELSE atQ
      /\ atVisible' = IF late THEN atVisible - popped ELSE Len(kept)
      /\ atFifo' \in {kept, Append(kept, data)}
      /\ atFifo' = kept \/ Len(atFifo) # AtSize
  BY DEF AtFifo
<1> HIDE DEF popped, kept
<1>6. /\ Append(kept, data) \in Seq(D) /\ Len(Append(kept, data)) = Len(kept) + 1
  BY <1>3
<1>7. atVisible <= Len(atFifo) /\ Len(atFifo) <= AtSize
  BY DEF AtTypes
<1>8. atFifo' \in Seq(D) /\ Len(atFifo') \in {Len(kept), Len(kept) + 1}
  BY <1>3, <1>5, <1>6
<1>9. Len(atFifo') <= AtSize
  BY <1>1, <1>3, <1>4, <1>5, <1>6, <1>7
<1>10. atVisible' \in 0 .. Len(kept)
  BY <1>1, <1>3, <1>4, <1>5, <1>7
<1>11. atVisible' \in 0 .. Len(atFifo')
  BY <1>1, <1>3, <1>4, <1>8, <1>10
<1>12. ~AtPop => atQ' = atQ /\ (atVisible > 0 => atVisible' > 0)
  BY <1>1, <1>3, <1>4, <1>5, <1>7
<1>13. QED BY <1>1, <1>2, <1>8, <1>9, <1>11, <1>12

\* The transmitter starts within its invariant.
LEMMA AtInitInv == AtInit => AtInv
<1> USE AtAssumption
<1> SUFFICES ASSUME AtInit PROVE AtInv
  OBVIOUS
<1>1. Len(atFifo) = 0
  BY DEF AtInit
<1>2. AtTypes
  <2>1. Len(atFifo) <= AtSize /\ atVisible \in 0 .. Len(atFifo) /\ atDeaf \in 0 .. AtDeafMax
    BY <1>1 DEF AtInit
  <2>2. QED BY <2>1 DEF AtInit, AtTypes
<1>3. AtPipe
  BY DEF AtInit, AtPipe
<1>4. atOff
  BY DEF AtInit
<1>5. QED BY <1>2, <1>3, <1>4 DEF AtInv

\* One edge of the transmitter keeps it, whatever its inputs and its line do.
LEMMA AtNextInv ==
  ASSUME NEW D, NEW wr \in BOOLEAN, NEW data \in D, NEW clear \in BOOLEAN, NEW speed,
         NEW done \in BOOLEAN, NEW late \in BOOLEAN,
         AtInv, atFifo \in Seq(D), AtClock(wr, data, clear, speed, done, late)
  PROVE  AtInv' /\ atFifo' \in Seq(D)
<1> USE AtAssumption
<1>1. AtTypes /\ AtPipe /\ AtController(clear) /\ AtFifo(wr, data, late)
      /\ AtLine(speed, done) /\ AtHistory
  BY DEF AtInv, AtClock
<1>2. /\ atFifo' \in Seq(D) /\ Len(atFifo') <= AtSize /\ atVisible' \in 0 .. Len(atFifo')
      /\ ~AtPop => /\ atQ' = atQ
                   /\ atVisible > 0 => atVisible' > 0
      /\ AtPop => atFifo # <<>>
  BY <1>1, AtFifoStep
<1>3. (atWrEn' <=> AtFetch) /\ (atWrEn0' <=> atWrEn) /\ (atWrEn1' <=> atWrEn0)
  BY <1>1 DEF AtController
<1>4. /\ AtFetch => ~atFlag'
      /\ ~AtFetch /\ AtReady /\ atDeaf > 0 => atFlag'
      /\ ~AtFetch /\ ~(AtReady /\ atDeaf > 0) => (atFlag' <=> atFlag /\ atDeaf < AtDeafMax)
  BY <1>1, Zenon DEF AtController, AtFlagStep
<1>5. atDeaf' = IF AtReady THEN 0 ELSE IF atDeaf = AtDeafMax THEN atDeaf ELSE atDeaf + 1
  BY <1>1 DEF AtController
<1>6. AtFetch => atFlag /\ atVisible > 0
  BY DEF AtFetch
<1>7. AtPop <=> atWrEn /\ ~atWrEn0
  BY DEF AtPop
<1>8. done => atState = "SEND" /\ atDeaf = AtDeafMax /\ AtIdlePipe
  BY <1>1 DEF AtLine, AtIdlePipe
<1>9. /\ atState' \in {"IDLE", "SEND", "DONE"}
      /\ atState' = "DONE" => done
      /\ atState' = "SEND" => atState = "SEND" \/ (atState = "IDLE" /\ atWrEn1)
      /\ atDivider # 0 /\ atDivider' # 0 =>
           /\ atState = "IDLE" => atState' = IF atWrEn1 THEN "SEND" ELSE "IDLE"
           /\ atState = "SEND" => atState' = IF done THEN "DONE" ELSE "SEND"
           /\ atState = "DONE" => atState' = "IDLE"
  BY <1>1 DEF AtLine, AtTypes
<1>10. atOff' <=> (atDivider' = 0 \/ (atOff /\ atState # "DONE"))
  BY <1>1, Zenon DEF AtHistory
<1>11. /\ AtPop => atFlight' = <<atQ'>>
       /\ ~AtPop /\ ((atState = "IDLE" /\ atState' = "SEND") \/ (atOff /\ atState = "DONE"))
            => atFlight' = <<>>
       /\ ~AtPop /\ ~(atState = "IDLE" /\ atState' = "SEND") /\ ~(atOff /\ atState = "DONE")
            => atFlight' = atFlight
  BY <1>1, Zenon DEF AtHistory
<1>12. AtTypes'
  <2>1. atFlag' \in BOOLEAN
    BY <1>1, <1>4, Zenon DEF AtController, AtFlagStep, AtTypes
  <2>2. atWrEn' \in BOOLEAN /\ atWrEn0' \in BOOLEAN /\ atWrEn1' \in BOOLEAN /\ atOff' \in BOOLEAN
    BY <1>1, Zenon DEF AtController, AtFetch, AtHistory, AtTypes
  <2>3. atDeaf' \in 0 .. AtDeafMax
    BY <1>1, <1>5 DEF AtTypes
  <2>4. QED BY <1>2, <1>9, <2>1, <2>2, <2>3 DEF AtTypes
<1>13. AtPipe'
  <2>1. ~(atFlag' /\ atWrEn') /\ ~(atWrEn' /\ atWrEn0') /\ ~(atWrEn0' /\ atWrEn1')
    BY <1>1, <1>3, <1>4, <1>6 DEF AtPipe
  <2>2. atWrEn' => atVisible' > 0
    BY <1>1, <1>2, <1>3, <1>6, <1>7 DEF AtPipe
  <2>3. atFlight' = <<>> \/ atFlight' = <<atQ'>>
    BY <1>1, <1>2, <1>11 DEF AtPipe
  <2>4. atWrEn0' \/ atWrEn1' => atFlight' = <<atQ'>>
    <3>1. CASE atWrEn
      BY <1>1, <1>7, <1>11, <3>1 DEF AtPipe
    <3>2. CASE atWrEn0
      <4>1. ~AtPop /\ ~atWrEn1 /\ atFlight = <<atQ>> /\ atState # "DONE"
        BY <1>1, <1>7, <3>2 DEF AtPipe, AtIdlePipe
      <4>2. ~(atState = "IDLE" /\ atState' = "SEND")
        BY <1>9, <4>1
      <4>3. QED BY <1>2, <1>11, <4>1, <4>2
    <3>3. QED BY <1>3, <3>1, <3>2
  <2>5. atState' = "DONE" => AtIdlePipe' /\ atDeaf' = AtDeafMax
    BY <1>1, <1>3, <1>4, <1>5, <1>6, <1>8, <1>9 DEF AtIdlePipe, AtReady
  <2>6. QED BY <2>1, <2>2, <2>3, <2>4, <2>5 DEF AtPipe
<1>14. ASSUME ~atOff' PROVE AtOn'
  <2>1. atDivider' # 0 /\ (~atOff \/ atState = "DONE")
    BY <1>10, <1>14
  <2>2. CASE atState = "DONE"
    <3>1. AtIdlePipe /\ atDeaf = AtDeafMax
      BY <1>1, <2>2 DEF AtPipe
    <3>2. atState' = "IDLE"
      BY <1>8, <1>9, <2>2
    <3>3. AtIdlePipe' /\ atDeaf' = AtDeafMax
      BY <1>3, <1>4, <1>5, <1>6, <2>2, <3>1 DEF AtIdlePipe, AtReady
    <3>4. atFlight' = <<>>
      <4>1. ~AtPop
        BY <1>7, <3>1 DEF AtIdlePipe
      <4>2. CASE atOff
        BY <1>11, <2>2, <4>1, <4>2
      <4>3. CASE ~atOff
        BY <1>11, <2>2, <4>1, <4>3 DEF AtInv, AtOn
      <4>4. QED BY <4>2, <4>3
    <3>5. QED BY <2>1, <3>2, <3>3, <3>4 DEF AtOn
  <2>3. CASE ~atOff /\ atState # "DONE"
    <3>1. AtOn
      BY <2>3 DEF AtInv
    <3>2. CASE atState = "SEND"
      <4>1. AtIdlePipe /\ atFlight = <<>> /\ ~AtReady /\ ~AtPop
        BY <1>7, <3>1, <3>2 DEF AtOn, AtReady, AtIdlePipe
      <4>2. atState' \in {"SEND", "DONE"}
        BY <1>9, <2>1, <3>1, <3>2 DEF AtOn
      <4>3. AtIdlePipe' /\ atFlight' = <<>>
        BY <1>3, <1>4, <1>6, <1>11, <3>2, <4>1 DEF AtIdlePipe
      <4>4. QED BY <2>1, <4>2, <4>3 DEF AtOn
    <3>3. CASE atState = "IDLE"
      <4>1. AtReady /\ atDeaf' = 0 /\ atState' = IF atWrEn1 THEN "SEND" ELSE "IDLE"
        BY <1>5, <1>9, <2>1, <3>1, <3>3 DEF AtOn, AtReady
      <4>2. CASE AtIdlePipe /\ atFlight = <<>> /\ atDeaf = AtDeafMax
        <5>1. atFlag' /\ ~atWrEn' /\ ~atWrEn0' /\ ~atWrEn1' /\ atFlight' = <<>>
          BY <1>3, <1>4, <1>6, <1>7, <1>11, <3>3, <4>1, <4>2 DEF AtIdlePipe
        <5>2. QED BY <2>1, <4>1, <4>2, <5>1 DEF AtOn, AtIdlePipe
      <4>3. CASE atDeaf = 0 /\ atFlag /\ ~atWrEn0 /\ ~atWrEn1 /\ atFlight = <<>>
        <5>1. ~atWrEn /\ ~AtPop
          BY <1>1, <1>7, <4>3 DEF AtPipe
        <5>2. (atFlag' \/ atWrEn') /\ ~atWrEn0' /\ ~atWrEn1' /\ atFlight' = <<>>
          BY <1>3, <1>4, <1>11, <3>3, <4>1, <4>3, <5>1
        <5>3. QED BY <2>1, <4>1, <4>3, <5>2 DEF AtOn
      <4>4. CASE atDeaf = 0 /\ atWrEn /\ ~atWrEn0 /\ ~atWrEn1 /\ atFlight = <<>>
        <5>1. ~atFlag
          BY <1>1, <4>4 DEF AtPipe
        <5>2. ~atFlag' /\ ~atWrEn' /\ atWrEn0'
          BY <1>3, <1>4, <1>6, <4>4, <5>1
        <5>3. QED BY <2>1, <4>1, <4>4, <5>2 DEF AtOn
      <4>5. CASE atDeaf = 0 /\ ~atFlag /\ ~atWrEn /\ atWrEn0
        <5>1. ~atWrEn1
          BY <1>1, <4>5 DEF AtPipe
        <5>2. ~atFlag' /\ ~atWrEn' /\ ~atWrEn0' /\ atWrEn1'
          BY <1>3, <1>4, <1>6, <4>5
        <5>3. QED BY <2>1, <4>1, <5>1, <5>2 DEF AtOn
      <4>6. CASE atDeaf = 0 /\ ~atFlag /\ ~atWrEn /\ ~atWrEn0 /\ atWrEn1
        <5>1. atState' = "SEND" /\ ~AtPop
          BY <1>7, <4>1, <4>6
        <5>2. AtIdlePipe' /\ atFlight' = <<>>
          BY <1>3, <1>4, <1>6, <1>11, <3>3, <4>6, <5>1 DEF AtIdlePipe
        <5>3. QED BY <2>1, <5>1, <5>2 DEF AtOn
      <4>7. QED BY <3>1, <3>3, <4>2, <4>3, <4>4, <4>5, <4>6 DEF AtOn
    <3>4. QED BY <1>1, <2>3, <3>2, <3>3 DEF AtTypes
  <2>4. QED BY <2>1, <2>2, <2>3
<1>15. QED BY <1>2, <1>12, <1>13, <1>14 DEF AtInv

\* The invariant of the transmitter has what AtSafe asks for.
LEMMA AtInvSafe ==
  ASSUME NEW D, AtInv, atFifo \in Seq(D)
  PROVE  AtSafe
<1>1. Len(atFlight) <= 1
  <2>1. CASE atFlight = <<>>
    BY <2>1
  <2>2. CASE atFlight = <<atQ>>
    BY <2>2
  <2>3. QED BY <2>1, <2>2 DEF AtInv, AtPipe
<1>2. AtTypeInv
  BY <1>1 DEF AtInv, AtTypes, AtTypeInv
<1>3. AtReady /\ atWrEn1 => atFlight = <<atQ>>
  BY DEF AtInv, AtPipe
<1>4. ASSUME AtPop, ~atOff
      PROVE  atFifo # <<>> /\ atFlight = <<>> /\ atState = "IDLE"
  <2>1. atWrEn /\ AtOn /\ AtPipe /\ atVisible > 0 /\ atVisible <= Len(atFifo)
    BY <1>4 DEF AtPop, AtInv, AtPipe, AtTypes
  <2>2. atFifo # <<>>
    BY <2>1 DEF AtInv, AtTypes
  <2>3. QED BY <2>1, <2>2 DEF AtOn, AtIdlePipe
<1>5. QED BY <1>2, <1>3, <1>4 DEF AtSafe, AtOrder
-----------------------------------------------------------------------------
(* The backlight.                                                          *)

BkTypes ==
  /\ bkState \in {"RESET", "IDLE", "READ", "ACK"} /\ bkTimer \in 0 .. BkRest
  /\ bkPage \in 0 .. 2 * BkChannels + 1
  /\ bkMinRead \in BOOLEAN /\ bkMaxRead \in BOOLEAN /\ bkRead \in BOOLEAN
  /\ bkTransaction \in BOOLEAN /\ bkLoad \in BOOLEAN /\ bkCrossed \in BOOLEAN
  /\ bkLatch \in BOOLEAN /\ bkMeta \in BOOLEAN /\ bkNight \in BOOLEAN
  /\ DOMAIN bkMinimum = 0 .. BkLast /\ DOMAIN bkMaximum = 0 .. BkLast
  /\ DOMAIN bkValues = BkPages
  /\ bkShift \in Seq(BOOLEAN) /\ Len(bkShift) = 4

\* One read at a time: what a change leaves behind is answered in the rest.
BkOneRead ==
  /\ bkState \in {"READ", "ACK"} => bkPage <= 2 * BkChannels
  /\ bkState # "IDLE" => bkTimer = 0
  /\ bkState = "RESET" => ~bkRead
  /\ bkState \in {"RESET", "READ"} => bkPending = <<>>
  /\ bkState = "READ" => (bkTransaction <=> bkRead)
  /\ bkState = "ACK" => ~bkRead /\ \E w : bkPending = <<w>>
  /\ bkState = "IDLE" => /\ bkPending = <<>> \/ (~bkRead /\ \E w : bkPending = <<w>>)
                         /\ bkTimer >= 1 => ~bkRead
                         /\ bkTimer >= 3 => bkPending = <<>>

\* A load is over before the rest is.
BkLoadsInRest ==
  /\ bkLoad => bkState = "IDLE" /\ bkTimer = 0
  /\ \A i \in 1 .. 4 : bkShift[i] => bkState = "IDLE" /\ bkTimer = i

\* What has been read since the last change is of its table, up to the page.
BkMinimaOf(table, n) == \A c \in 0 .. BkLast : c < n => bkMinimum[c] = BkWord(table, "minimum", c)
BkMaximaOf(table, n) == \A c \in 0 .. BkLast : c < n => bkMaximum[c] = BkWord(table, "maximum", c)
BkValuesOf(table, n) == \A p \in BkPages : p < n => bkValues[p] = BkWord(table, "value", p)
BkWholeOf(table) ==
  BkMinimaOf(table, BkChannels) /\ BkMaximaOf(table, BkChannels)
  /\ BkValuesOf(table, 2 * BkChannels + 1)

BkPassOf(table) ==
  /\ bkMinRead => BkMinimaOf(table, BkChannels)
  /\ bkMaxRead => BkMaximaOf(table, BkChannels)
  /\ bkState \in {"READ", "ACK"} =>
       /\ BkKind = "minimum" => bkPage <= BkLast /\ BkMinimaOf(table, bkPage)
       /\ BkKind = "maximum" => bkPage <= BkLast /\ BkMaximaOf(table, bkPage)
       /\ BkKind = "value" => BkValuesOf(table, bkPage)
  /\ bkState = "READ" /\ bkRead => bkAddress = BkWord(table, BkKind, bkPage)
  /\ bkState = "ACK" => bkPending = <<BkWord(table, BkKind, bkPage)>>

BkInv ==
  /\ BkTypes /\ BkOneRead /\ BkLoadsInRest
  /\ ~bkCrossed => BkPassOf(BkTable)
  /\ ~bkCrossed /\ BkLoading => \E table \in {"day", "night"} : BkWholeOf(table)

\* Sequences of one word at most.
LEMMA BkSeqs ==
  /\ \A w, a : /\ Tail(<<w>>) = <<>> /\ Head(<<w>>) = w /\ <<>> \o <<a>> = <<a>>
               /\ <<w>> \o <<>> = <<w>> /\ Len(<<w>>) = 1 /\ <<w>> # <<>>
  /\ <<>> \o <<>> = <<>> /\ Len(<<>>) = 0
OBVIOUS

\* The delay line of the valid bits.
LEMMA BkShifts ==
  ASSUME NEW s \in Seq(BOOLEAN), Len(s) = 4, NEW l \in BOOLEAN, NEW t, t = <<l>> \o SubSeq(s, 1, 3)
  PROVE  /\ Len(t) = 4 /\ t \in Seq(BOOLEAN)
         /\ t[1] = l /\ t[2] = s[1] /\ t[3] = s[2] /\ t[4] = s[3]
BY SMTT(30), ZenonT(40)

\* The backlight starts within its invariant.
LEMMA BkInitInv == BkInit => BkInv
<1> SUFFICES ASSUME BkInit PROVE BkInv
  OBVIOUS
<1> USE BkAssumption
<1>1. BkTypes
  BY DEF BkInit, BkTypes, BkPages, BkLast
<1>2. ~bkLoad /\ \A i \in 1 .. 4 : ~bkShift[i]
  BY DEF BkInit
<1>3. BkOneRead
  BY DEF BkInit, BkOneRead
<1>4. BkPassOf(BkTable)
  BY DEF BkInit, BkPassOf
<1>5. QED BY <1>1, <1>2, <1>3, <1>4 DEF BkInv, BkLoadsInRest, BkLoading

\* The ROM: with at most one word on its way.
LEMMA BkRomStep ==
  ASSUME BkTypes, BkOneRead, NEW wait \in BOOLEAN, NEW valid \in BOOLEAN, BkRom(wait, valid)
  PROVE  /\ bkState \in {"RESET"} => bkPending' = <<>> /\ ~valid
         /\ bkState = "READ" => /\ ~valid
                                /\ bkRead /\ ~wait => bkPending' = <<bkAddress>>
                                /\ ~(bkRead /\ ~wait) => bkPending' = <<>>
         /\ bkState = "ACK" => /\ valid => bkPending' = <<>>
                               /\ ~valid => bkPending' = bkPending
         /\ bkState = "IDLE" => /\ bkPending' = <<>> \/ \E w : bkPending' = <<w>>
                                /\ bkTimer >= 2 => bkPending' = <<>>
<1>1. CASE bkPending = <<>>
  <2>1. ~valid
    BY <1>1 DEF BkRom
  <2>2. bkPending' = IF bkRead /\ ~wait THEN <<bkAddress>> ELSE <<>>
    BY <1>1, <2>1, BkSeqs DEF BkRom
  <2>3. bkState \in {"RESET", "ACK"} => ~bkRead
    BY DEF BkOneRead
  <2>4. bkState = "IDLE" /\ bkTimer >= 2 => ~bkRead
    BY DEF BkOneRead, BkTypes
  <2>5. QED BY <1>1, <2>1, <2>2, <2>3, <2>4
<1>2. ASSUME NEW w, bkPending = <<w>>
      PROVE  /\ bkState \in {"RESET"} => bkPending' = <<>> /\ ~valid
             /\ bkState = "READ" => /\ ~valid
                                    /\ bkRead /\ ~wait => bkPending' = <<bkAddress>>
                                    /\ ~(bkRead /\ ~wait) => bkPending' = <<>>
             /\ bkState = "ACK" => /\ valid => bkPending' = <<>>
                                   /\ ~valid => bkPending' = bkPending
             /\ bkState = "IDLE" => /\ bkPending' = <<>> \/ \E v : bkPending' = <<v>>
                                    /\ bkTimer >= 2 => bkPending' = <<>>
  <2>1. bkPending # <<>> /\ ~bkRead /\ bkState \in {"ACK", "IDLE"}
    BY <1>2, BkSeqs DEF BkOneRead, BkTypes
  <2>2. bkPending' = IF valid THEN <<>> ELSE <<w>>
    BY <1>2, <2>1, BkSeqs DEF BkRom
  <2>3. bkState = "IDLE" /\ bkTimer >= 2 => valid
    BY <2>1 DEF BkRom, BkTypes
  <2>4. QED BY <1>2, <2>1, <2>2, <2>3
<1>3. QED BY <1>1, <1>2 DEF BkOneRead, BkTypes

\* A word that comes is stored at its page only.
LEMMA BkStores ==
  ASSUME NEW register, NEW word
  PROVE  /\ DOMAIN BkStore(register, word) = DOMAIN register
         /\ \A p \in DOMAIN register :
              BkStore(register, word)[p] = IF p = bkPage THEN word ELSE register[p]
BY DEF BkStore

\* One edge of the backlight keeps it.
LEMMA BkNextInv == BkInv /\ BkNext => BkInv'
<1> SUFFICES ASSUME BkInv, NEW wait \in BOOLEAN, NEW valid \in BOOLEAN, BkClock(wait, valid)
             PROVE  BkInv'
  BY DEF BkNext
<1> USE BkAssumption
<1>1. BkTypes /\ BkOneRead /\ BkLoadsInRest
  BY DEF BkInv
<1>2. BkRom(wait, valid) /\ BkAround
  BY DEF BkClock
<1>3. BkIdle \/ BkReadStep(wait) \/ BkReset \/ (~valid /\ BkWaits)
      \/ (valid /\ BkAnswered(Head(bkPending)))
  BY DEF BkClock
<1>4. /\ bkShift' \in Seq(BOOLEAN) /\ Len(bkShift') = 4 /\ bkShift'[1] = bkLoad
      /\ bkShift'[2] = bkShift[1] /\ bkShift'[3] = bkShift[2] /\ bkShift'[4] = bkShift[3]
  BY <1>1, <1>2, BkShifts DEF BkTypes, BkAround
<1>5. bkMeta' \in BOOLEAN /\ bkLatch' \in BOOLEAN /\ bkNight' \in BOOLEAN
  BY <1>1, <1>2 DEF BkTypes, BkAround
<1>6. bkCrossed' \in BOOLEAN
  <2>1. CASE BkTurns
    BY <1>2, <2>1, Zenon DEF BkAround
  <2>2. CASE ~BkTurns
    BY <1>1, <1>2, <2>2 DEF BkAround, BkTypes
  <2>3. QED BY <2>1, <2>2
<1>7. BkTypes'
  <2>1. bkMinRead' \in BOOLEAN /\ bkMaxRead' \in BOOLEAN /\ bkLoad' \in BOOLEAN
    BY <1>1, <1>3, Zenon
       DEF BkTypes, BkIdle, BkReadStep, BkReset, BkWaits, BkAnswered, BkFlagsOr
  <2>2. bkRead' \in BOOLEAN /\ bkTransaction' \in BOOLEAN
    BY <1>1, <1>3, Zenon DEF BkTypes, BkIdle, BkReadStep, BkReset, BkWaits, BkAnswered
  <2>3. /\ bkState' \in {"RESET", "IDLE", "READ", "ACK"} /\ bkTimer' \in 0 .. BkRest
        /\ bkPage' \in 0 .. 2 * BkChannels + 1
    BY <1>1, <1>3
       DEF BkTypes, BkOneRead, BkIdle, BkReadStep, BkReset, BkWaits, BkAnswered, BkStateOr
  <2>4. /\ DOMAIN bkMinimum' = 0 .. BkLast /\ DOMAIN bkMaximum' = 0 .. BkLast
        /\ DOMAIN bkValues' = BkPages
    BY <1>1, <1>3, BkStores
       DEF BkTypes, BkIdle, BkReadStep, BkReset, BkWaits, BkAnswered, bkTables
  <2>5. QED BY <1>4, <1>5, <1>6, <2>1, <2>2, <2>3, <2>4 DEF BkTypes, BkPages, BkLast
<1>8. BkOneRead'
  <2>1. CASE BkIdle
    <3>1. bkPage' = 0 /\ bkRead' = FALSE /\ bkState' \in {"READ", "IDLE"}
      BY <2>1 DEF BkIdle
    <3>2. /\ bkState' = "READ" => bkTimer' = 0 /\ bkTimer >= 6
          /\ bkState' = "IDLE" => bkTimer' = bkTimer + 1
      BY <1>1, <2>1 DEF BkIdle, BkTypes
    <3>3. /\ bkPending' = <<>> \/ \E w : bkPending' = <<w>>
          /\ bkTimer >= 2 => bkPending' = <<>>
      BY <1>1, <1>2, <2>1, BkRomStep DEF BkIdle
    <3>4. bkTransaction' = FALSE
      BY <2>1 DEF BkIdle
    <3>5. QED BY <1>1, <3>1, <3>2, <3>3, <3>4 DEF BkOneRead, BkTypes
  <2>2. CASE BkReadStep(wait)
    <3>1. bkTimer' = 0 /\ bkPage' = bkPage /\ bkPage <= 2 * BkChannels /\ ~valid
      BY <1>1, <1>2, <2>2, BkRomStep DEF BkReadStep, BkOneRead
    <3>2. bkTransaction <=> bkRead
      BY <1>1, <2>2 DEF BkReadStep, BkOneRead
    <3>3. CASE ~wait /\ bkTransaction
      <4>1. bkState' = "ACK" /\ ~bkRead'
        BY <2>2, <3>3 DEF BkReadStep
      <4>2. bkPending' = <<bkAddress>>
        BY <1>1, <1>2, <2>2, <3>2, <3>3, BkRomStep DEF BkReadStep
      <4>3. QED BY <3>1, <4>1, <4>2 DEF BkOneRead
    <3>4. CASE ~(~wait /\ bkTransaction)
      <4>1. bkState' \in {"READ", "IDLE"} /\ bkRead' /\ bkTransaction'
        BY <2>2, <3>4 DEF BkReadStep, BkStateOr
      <4>2. bkPending' = <<>>
        BY <1>1, <1>2, <2>2, <3>2, <3>4, BkRomStep DEF BkReadStep
      <4>3. QED BY <3>1, <4>1, <4>2 DEF BkOneRead
    <3>5. QED BY <3>3, <3>4
  <2>3. CASE BkReset
    BY <1>1, <1>2, <2>3, BkRomStep DEF BkReset, BkOneRead
  <2>4. CASE ~valid /\ BkWaits
    <3>1. bkPending' = bkPending
      BY <1>1, <1>2, <2>4, BkRomStep DEF BkWaits
    <3>2. bkState' \in {"ACK", "IDLE"} /\ ~bkRead' /\ bkPage' = bkPage /\ bkTimer' = bkTimer
      BY <2>4 DEF BkWaits, BkStateOr
    <3>3. QED BY <1>1, <2>4, <3>1, <3>2 DEF BkWaits, BkOneRead
  <2>5. CASE valid /\ BkAnswered(Head(bkPending))
    <3>1. bkPending' = <<>>
      BY <1>1, <1>2, <2>5, BkRomStep DEF BkAnswered
    <3>2. /\ bkState' \in {"READ", "IDLE"} /\ ~bkRead' /\ ~bkTransaction' /\ bkTimer' = bkTimer
          /\ bkState' = "READ" => bkPage' <= 2 * BkChannels
      BY <1>1, <2>5 DEF BkAnswered, BkLast, BkTypes
    <3>3. QED BY <1>1, <2>5, <3>1, <3>2 DEF BkAnswered, BkOneRead
  <2>6. QED BY <1>3, <2>1, <2>2, <2>3, <2>4, <2>5
<1>9. BkLoadsInRest'
  <2>1. CASE BkIdle
    <3>1. ~bkLoad' /\ bkTimer' = IF bkTimer = BkRest THEN 0 ELSE bkTimer + 1
      BY <2>1 DEF BkIdle
    <3>2. bkTimer # BkRest => bkState' = "IDLE"
      BY <2>1 DEF BkIdle
    <3>3. QED BY <1>1, <1>4, <3>1, <3>2 DEF BkLoadsInRest, BkTypes
  <2>2. CASE ~BkIdle
    <3>1. bkState # "IDLE"
      BY <1>3, <2>2 DEF BkReadStep, BkReset, BkWaits, BkAnswered
    <3>2. ~bkLoad /\ \A i \in 1 .. 4 : ~bkShift[i]
      BY <1>1, <3>1 DEF BkLoadsInRest
    <3>3. \A i \in 1 .. 4 : ~bkShift'[i]
      BY <1>4, <3>2
    <3>4. bkLoad' => bkState' = "IDLE" /\ bkTimer' = 0
      <4>1. ASSUME BkAnswered(Head(bkPending)), bkLoad'
            PROVE  bkState' = "IDLE" /\ bkTimer' = bkTimer
        <5>1. BkKind = "value" /\ bkPage = 2 * BkChannels
          BY <4>1, Zenon DEF BkAnswered
        <5>2. QED BY <1>1, <4>1, <5>1 DEF BkAnswered, BkTypes
      <4>2. CASE BkReadStep(wait) \/ BkReset \/ BkWaits
        BY <3>2, <4>2 DEF BkReadStep, BkReset, BkWaits
      <4>3. QED BY <1>1, <1>3, <2>2, <3>1, <4>1, <4>2 DEF BkOneRead
    <3>5. QED BY <3>3, <3>4 DEF BkLoadsInRest
  <2>3. QED BY <2>1, <2>2
<1>10. ASSUME ~bkCrossed' PROVE BkPassOf(BkTable)'
  <2>1. CASE BkTurns
    <3>1. bkState \in {"RESET", "IDLE"}
      BY <1>1, <1>2, <1>10, <2>1 DEF BkAround, BkTypes
    <3>2. ~bkMinRead' /\ ~bkMaxRead'
      BY <1>3, <2>1, <3>1, Zenon
         DEF BkIdle, BkReadStep, BkReset, BkWaits, BkAnswered, BkFlagsOr
    <3>3. ~bkRead' /\ bkPage' = 0 /\ bkState' \in {"READ", "IDLE"}
      BY <1>3, <3>1 DEF BkIdle, BkReadStep, BkReset, BkWaits, BkAnswered
    <3>4. QED BY <3>2, <3>3 DEF BkPassOf, BkKind, BkMinimaOf, BkLast
  <2>2. CASE ~BkTurns
    <3>1. ~bkCrossed /\ BkTable' = BkTable
      BY <1>2, <1>10, <2>2 DEF BkAround, BkTurns, BkTable
    <3>2. BkPassOf(BkTable)
      BY <3>1 DEF BkInv
    <3>3. BkFlagsOr => (bkMinRead' <=> bkMinRead) /\ (bkMaxRead' <=> bkMaxRead)
      BY <2>2, Zenon DEF BkFlagsOr
    <3>4. CASE BkIdle
      <4>1. /\ ~bkRead' /\ bkPage' = 0 /\ bkState' \in {"READ", "IDLE"}
            /\ BkFlagsOr /\ UNCHANGED bkTables
        BY <3>4 DEF BkIdle
      <4>2. QED BY <3>1, <3>2, <3>3, <4>1
                DEF BkPassOf, BkMinimaOf, BkMaximaOf, BkValuesOf, BkKind, BkLast, BkPages, bkTables
    <3>5. CASE BkReadStep(wait)
      <4>1. bkPage' = bkPage /\ BkFlagsOr /\ UNCHANGED bkTables /\ bkState = "READ"
        BY <3>5 DEF BkReadStep
      <4>2. BkKind' = BkKind
        BY <3>3, <4>1 DEF BkKind
      <4>3. /\ bkState' = "ACK" => bkPending' = <<BkWord(BkTable, BkKind, bkPage)>>
            /\ bkState' = "READ" => bkAddress' = BkWord(BkTable, BkKind, bkPage)
        <5>1. bkTransaction <=> bkRead
          BY <1>1, <4>1 DEF BkOneRead
        <5>2. CASE ~wait /\ bkTransaction
          <6>1. bkState' = "ACK" /\ bkPending' = <<bkAddress>>
            BY <1>1, <1>2, <3>5, <4>1, <5>1, <5>2, BkRomStep DEF BkReadStep
          <6>2. QED BY <3>2, <4>1, <5>1, <5>2, <6>1 DEF BkPassOf
        <5>3. CASE ~(~wait /\ bkTransaction)
          <6>1. bkState' = "READ" /\ bkAddress' = BkWord(BkTable, BkKind, bkPage)
            BY <2>2, <3>5, <5>3 DEF BkReadStep, BkStateOr
          <6>2. QED BY <6>1
        <5>4. QED BY <5>2, <5>3
      <4>4. QED BY <3>1, <3>2, <3>3, <4>1, <4>2, <4>3
                DEF BkPassOf, BkMinimaOf, BkMaximaOf, BkValuesOf, bkTables
    <3>6. CASE BkReset
      <4>1. ~bkMinRead' /\ ~bkMaxRead' /\ bkState' = "IDLE"
        BY <3>6 DEF BkReset
      <4>2. QED BY <4>1 DEF BkPassOf
    <3>7. CASE ~valid /\ BkWaits
      <4>1. bkPending' = bkPending
        BY <1>1, <1>2, <3>7, BkRomStep DEF BkWaits
      <4>2. /\ bkState = "ACK" /\ bkState' = "ACK" /\ bkPage' = bkPage /\ BkFlagsOr
            /\ UNCHANGED bkTables
        BY <2>2, <3>7 DEF BkWaits, BkStateOr
      <4>3. BkKind' = BkKind
        BY <3>3, <4>2 DEF BkKind
      <4>4. QED BY <3>1, <3>2, <3>3, <4>1, <4>2, <4>3
                DEF BkPassOf, BkMinimaOf, BkMaximaOf, BkValuesOf, bkTables
    <3>8. CASE valid /\ BkAnswered(Head(bkPending))
      <4> DEFINE word == BkWord(BkTable, BkKind, bkPage)
      <4>1. bkState = "ACK" /\ BkAnswered(word)
        <5>1. bkState = "ACK"
          BY <3>8 DEF BkAnswered
        <5>2. Head(bkPending) = word
          BY <3>2, <5>1, BkSeqs DEF BkPassOf
        <5>3. QED BY <3>8, <5>1, <5>2
      <4> HIDE DEF word
      <4>2. /\ bkMinRead' <=> (bkMinRead \/ (BkKind = "minimum" /\ bkPage >= BkLast))
            /\ bkMaxRead' <=> (bkMaxRead \/ (BkKind = "maximum" /\ bkPage >= BkLast))
        BY <2>2, <4>1, Zenon DEF BkAnswered
      <4>3. /\ bkPage' = bkPage + 1 /\ ~bkRead' /\ bkState' \in {"READ", "IDLE"}
            /\ bkState' = "READ" =>
                 bkPage < (IF BkKind = "value" THEN 2 * BkChannels ELSE BkLast)
        BY <4>1 DEF BkAnswered
      <4>4. bkPage \in Nat
        BY <1>1 DEF BkTypes
      <4>5. CASE BkKind = "minimum"
        <5>1. /\ bkMinimum' = BkStore(bkMinimum, word) /\ bkMaximum' = bkMaximum
              /\ bkPage <= BkLast /\ BkMinimaOf(BkTable, bkPage)
          BY <3>2, <4>1, <4>5 DEF BkAnswered, BkPassOf
        <5>2. \A c \in 0 .. BkLast : bkMinimum'[c] = IF c = bkPage THEN word ELSE bkMinimum[c]
          <6>1. DOMAIN bkMinimum = 0 .. BkLast
            BY <1>1 DEF BkTypes
          <6>2. \A c \in DOMAIN bkMinimum :
                  BkStore(bkMinimum, word)[c] = IF c = bkPage THEN word ELSE bkMinimum[c]
            BY BkStores
          <6>3. QED BY <5>1, <6>1, <6>2
        <5>3. \A c \in 0 .. BkLast :
                c < bkPage + 1 => bkMinimum'[c] = BkWord(BkTable, "minimum", c)
          BY <4>4, <4>5, <5>1, <5>2 DEF BkMinimaOf, word
        <5>4. ~bkMinRead
          BY <4>5 DEF BkKind
        <5>5. bkMinRead' => BkMinimaOf(BkTable, BkChannels)'
          BY <3>1, <4>2, <4>4, <5>1, <5>3, <5>4 DEF BkMinimaOf, BkLast
        <5>6. bkMaxRead' => BkMaximaOf(BkTable, BkChannels)'
          BY <3>1, <3>2, <4>2, <4>5, <5>1 DEF BkPassOf, BkMaximaOf
        <5>7. bkState' = "READ" => bkPage + 1 <= BkLast /\ BkKind' = "minimum"
          BY <4>2, <4>3, <4>4, <4>5, <5>4 DEF BkKind, BkLast
        <5>8. bkState' = "READ" => BkMinimaOf(BkTable, bkPage)'
          BY <3>1, <4>3, <5>3 DEF BkMinimaOf
        <5>9. QED BY <4>3, <5>5, <5>6, <5>7, <5>8 DEF BkPassOf
      <4>6. CASE BkKind = "maximum"
        <5>1. /\ bkMaximum' = BkStore(bkMaximum, word) /\ bkMinimum' = bkMinimum
              /\ bkPage <= BkLast /\ BkMaximaOf(BkTable, bkPage)
          BY <3>2, <4>1, <4>6 DEF BkAnswered, BkPassOf
        <5>2. \A c \in 0 .. BkLast : bkMaximum'[c] = IF c = bkPage THEN word ELSE bkMaximum[c]
          <6>1. DOMAIN bkMaximum = 0 .. BkLast
            BY <1>1 DEF BkTypes
          <6>2. \A c \in DOMAIN bkMaximum :
                  BkStore(bkMaximum, word)[c] = IF c = bkPage THEN word ELSE bkMaximum[c]
            BY BkStores
          <6>3. QED BY <5>1, <6>1, <6>2
        <5>3. \A c \in 0 .. BkLast :
                c < bkPage + 1 => bkMaximum'[c] = BkWord(BkTable, "maximum", c)
          BY <4>4, <4>6, <5>1, <5>2 DEF BkMaximaOf, word
        <5>4. bkMinRead /\ ~bkMaxRead
          BY <4>6 DEF BkKind
        <5>5. bkMaxRead' => BkMaximaOf(BkTable, BkChannels)'
          BY <3>1, <4>2, <4>4, <5>1, <5>3, <5>4 DEF BkMaximaOf, BkLast
        <5>6. bkMinRead' => BkMinimaOf(BkTable, BkChannels)'
          BY <3>1, <3>2, <5>1, <5>4 DEF BkPassOf, BkMinimaOf
        <5>7. bkState' = "READ" => bkPage + 1 <= BkLast /\ BkKind' = "maximum"
          BY <4>2, <4>3, <4>4, <4>6, <5>4 DEF BkKind, BkLast
        <5>8. bkState' = "READ" => BkMaximaOf(BkTable, bkPage)'
          BY <3>1, <4>3, <5>3 DEF BkMaximaOf
        <5>9. QED BY <4>3, <5>5, <5>6, <5>7, <5>8 DEF BkPassOf
      <4>7. CASE BkKind = "value"
        <5>1. /\ bkValues' = BkStore(bkValues, word) /\ bkMinimum' = bkMinimum
              /\ bkMaximum' = bkMaximum /\ BkValuesOf(BkTable, bkPage)
          BY <3>2, <4>1, <4>7 DEF BkAnswered, BkPassOf
        <5>2. \A p \in BkPages : bkValues'[p] = IF p = bkPage THEN word ELSE bkValues[p]
          BY <1>1, <5>1, BkStores DEF BkTypes
        <5>3. \A p \in BkPages :
                p < bkPage + 1 => bkValues'[p] = BkWord(BkTable, "value", p)
          BY <4>4, <4>7, <5>1, <5>2 DEF BkValuesOf, BkPages, word
        <5>4. bkMinRead /\ bkMaxRead
          BY <4>7 DEF BkKind
        <5>5. /\ BkMinimaOf(BkTable, BkChannels)' /\ BkMaximaOf(BkTable, BkChannels)'
          BY <3>1, <3>2, <5>1, <5>4 DEF BkPassOf, BkMinimaOf, BkMaximaOf
        <5>6. BkKind' = "value"
          BY <4>2, <5>4 DEF BkKind
        <5>7. BkValuesOf(BkTable, bkPage)'
          BY <3>1, <4>3, <5>3 DEF BkValuesOf
        <5>8. QED BY <4>3, <5>5, <5>6, <5>7 DEF BkPassOf
      <4>8. QED BY <4>5, <4>6, <4>7 DEF BkKind
    <3>9. QED BY <1>3, <3>4, <3>5, <3>6, <3>7, <3>8
  <2>3. QED BY <2>1, <2>2
<1>11. ASSUME ~bkCrossed', BkLoading' PROVE \E table \in {"day", "night"} : BkWholeOf(table)'
  <2>1. CASE bkLoad'
    <3>1. /\ valid /\ BkAnswered(Head(bkPending)) /\ bkState = "ACK"
          /\ BkKind = "value" /\ bkPage = 2 * BkChannels
      <4>1. BkAnswered(Head(bkPending)) /\ valid
        <5>1. ~bkLoad \/ bkState = "IDLE"
          BY <1>1 DEF BkLoadsInRest
        <5>2. QED BY <1>3, <2>1, <5>1 DEF BkIdle, BkReadStep, BkReset, BkWaits
      <4>2. QED BY <2>1, <4>1, Zenon DEF BkAnswered
    <3>2. ~BkTurns /\ ~bkCrossed
      BY <1>2, <1>11, <3>1 DEF BkAround
    <3>3. BkPassOf(BkTable)
      BY <3>2 DEF BkInv
    <3>4. BkMinimaOf(BkTable, BkChannels) /\ BkMaximaOf(BkTable, BkChannels)
      BY <3>1, <3>3 DEF BkPassOf, BkKind
    <3>5. BkValuesOf(BkTable, 2 * BkChannels)
      BY <3>1, <3>3 DEF BkPassOf
    <3>6. /\ bkMinimum' = bkMinimum /\ bkMaximum' = bkMaximum
          /\ bkValues' = BkStore(bkValues, BkWord(BkTable, "value", bkPage))
      <4>1. Head(bkPending) = BkWord(BkTable, "value", bkPage)
        BY <3>1, <3>3, BkSeqs DEF BkPassOf
      <4>2. QED BY <3>1, <4>1 DEF BkAnswered
    <3>7. \A p \in BkPages :
            bkValues'[p] = IF p = bkPage THEN BkWord(BkTable, "value", bkPage) ELSE bkValues[p]
      BY <1>1, <3>6, BkStores DEF BkTypes
    <3>8. \A p \in BkPages : bkValues'[p] = BkWord(BkTable, "value", p)
      BY <3>1, <3>5, <3>7 DEF BkValuesOf, BkPages
    <3>9. BkTable \in {"day", "night"}
      BY DEF BkTable
    <3>10. \A table : table = BkTable => BkWholeOf(table)'
      BY <3>4, <3>6, <3>8 DEF BkWholeOf, BkMinimaOf, BkMaximaOf, BkValuesOf
    <3>11. QED BY <3>9, <3>10
  <2>2. CASE ~bkLoad'
    <3>1. bkLoad \/ bkShift[1] \/ bkShift[2] \/ bkShift[3]
      <4>1. \E i \in 1 .. 4 : bkShift'[i]
        BY <1>11, <2>2 DEF BkLoading
      <4>2. QED BY <1>4, <4>1
    <3>2. BkLoading /\ bkState = "IDLE"
      BY <1>1, <3>1 DEF BkLoading, BkLoadsInRest
    <3>3. ~bkCrossed
      <4>1. CASE BkTurns
        BY <1>2, <1>11, <3>2, <4>1, Zenon DEF BkAround
      <4>2. CASE ~BkTurns
        BY <1>2, <1>11, <4>2 DEF BkAround
      <4>3. QED BY <4>1, <4>2
    <3>4. UNCHANGED bkTables
      BY <1>3, <3>2 DEF BkIdle, BkReadStep, BkReset, BkWaits, BkAnswered
    <3>5. PICK table \in {"day", "night"} : BkWholeOf(table)
      BY <3>2, <3>3 DEF BkInv
    <3>6. BkWholeOf(table)'
      BY <3>4, <3>5 DEF BkWholeOf, BkMinimaOf, BkMaximaOf, BkValuesOf, bkTables
    <3>7. QED BY <3>6
  <2>3. QED BY <2>1, <2>2
<1>12. QED BY <1>7, <1>8, <1>9, <1>10, <1>11 DEF BkInv

\* The invariant of the backlight has what BkSafe asks for.
LEMMA BkInvSafe == BkInv => BkSafe
<1> SUFFICES ASSUME BkInv PROVE BkSafe
  OBVIOUS
<1> USE BkAssumption
<1>1. BkTypeInv
  <2>1. Len(bkPending) <= 1
    <3>1. bkPending = <<>> \/ \E w : bkPending = <<w>>
      BY DEF BkInv, BkOneRead, BkTypes
    <3>2. CASE bkPending = <<>>
      BY <3>2, BkSeqs
    <3>3. ASSUME NEW w, bkPending = <<w>> PROVE Len(bkPending) <= 1
      BY <3>3
    <3>4. QED BY <3>1, <3>2, <3>3
  <2>2. QED BY <2>1 DEF BkInv, BkTypes, BkTypeInv
<1>2. BkOneTable
  <2>1. SUFFICES ASSUME bkShift[4], ~bkCrossed
                 PROVE  \E table \in {"day", "night"} :
                          /\ \A c \in 0 .. BkLast : /\ bkMinimum[c] = BkWord(table, "minimum", c)
                                                    /\ bkMaximum[c] = BkWord(table, "maximum", c)
                          /\ \A p \in BkPages : bkValues[p] = BkWord(table, "value", p)
    BY DEF BkOneTable
  <2>2. PICK table \in {"day", "night"} : BkWholeOf(table)
    BY <2>1 DEF BkInv, BkLoading
  <2>3. QED BY <2>2 DEF BkWholeOf, BkMinimaOf, BkMaximaOf, BkValuesOf, BkLast, BkPages
<1>3. QED BY <1>1, <1>2 DEF BkSafe
-----------------------------------------------------------------------------
(* The board: the parts keep their invariants side by side.  The strobes   *)
(* and the data of the bus interface are the inputs of the transmitter, so *)
(* what it can write is among the data the bus interface can hold.         *)

AbDatas == {0} \union AbWords \union AbSpeeds
BoardInv ==
  /\ DiInv /\ DoInv /\ FlRuInv /\ FlInv /\ AbInv /\ AtInv /\ BkInv
  /\ abData \in AbDatas /\ atFifo \in Seq(AbDatas)

\* The data latched by the bus interface are those of an access.
LEMMA AbDataStep == abData \in AbDatas /\ AbClock => abData' \in AbDatas
<1> SUFFICES ASSUME abData \in AbDatas, AbClock PROVE abData' \in AbDatas
  OBVIOUS
<1>1. CASE AbQuiet
  BY <1>1 DEF AbQuiet
<1>2. ASSUME NEW to \in AbWritable, NEW data \in AbValues(to), AbWrite(to, data)
      PROVE  abData' \in AbDatas
  <2>1. AbValues(to) \subseteq AbDatas
    BY DEF AbValues, AbDatas
  <2>2. QED BY <1>2, <2>1 DEF AbWrite
<1>3. ASSUME NEW to \in AbReadable, AbReads(to)
      PROVE  abData' \in AbDatas
  BY <1>3 DEF AbReads
<1>4. QED BY <1>1, <1>2, <1>3 DEF AbClock

\* What a part does not touch keeps its invariant.
LEMMA DiKept == DiInv /\ UNCHANGED diVars => DiInv'
BY DEF diVars, diRegs, diPipe, diSoft, DiInv, DiWay, DiTypes, DiTells, DiNothingLost, DiSeen, DiPhase, DiCleared

\* The same of the outputs.
LEMMA DoKept == DoInv /\ UNCHANGED doVars => DoInv'
BY DEF doVars, doRegs, doPipe, DoInv, DoTypes, DoTiming, DoStages

\* The same of the watchdog.
LEMMA FlRuKept == FlRuInv /\ UNCHANGED flRuVars => FlRuInv'
BY DEF flRuVars, FlRuInv, FlRuTypes, FlRuSetUp, FlRuKicks, FlTook

\* The same of the flash.
LEMMA FlKept == FlInv /\ UNCHANGED flVars => FlInv'
BY DEF flVars, FlInv, FlTypes, FlPass, FlPassed, FlOneRead, FlAnswers, FlPending, FlTarget

\* The same of the bus interface.
LEMMA AbKept == AbInv /\ abData \in AbDatas /\ UNCHANGED abVars => AbInv' /\ abData' \in AbDatas
<1> SUFFICES ASSUME AbInv, abData \in AbDatas, UNCHANGED abVars
             PROVE  AbInv' /\ abData' \in AbDatas
  OBVIOUS
<1>1. AbTypes' /\ AbPhase' /\ AbFits' /\ AbAnswers' /\ abWr' \in BOOLEAN /\ abData' \in AbDatas
  BY DEF abVars, AbInv, AbTypes, AbPhase, AbFits, AbAnswers
<1>2. (AbDark' <=> AbDark) /\ (AbLit' <=> AbLit)
  BY DEF abVars, AbDark, AbLit
<1>3. AbOwes'
  BY <1>2 DEF abVars, AbInv, AbOwes
<1>4. QED BY <1>1, <1>3 DEF AbInv

\* The same of the transmitter.
LEMMA AtKept ==
  AtInv /\ atFifo \in Seq(AbDatas) /\ UNCHANGED atVars => AtInv' /\ atFifo' \in Seq(AbDatas)
BY DEF atVars, AtInv, AtTypes, AtPipe, AtOn, AtIdlePipe

\* The same of the backlight.
LEMMA BkKept == BkInv /\ UNCHANGED bkVars => BkInv'
<1> SUFFICES ASSUME BkInv, UNCHANGED bkVars PROVE BkInv'
  OBVIOUS
<1> USE DEF bkVars, bkInputs, bkTables
<1>1. BkTypes' /\ BkOneRead' /\ BkLoadsInRest'
  BY DEF BkInv, BkTypes, BkOneRead, BkLoadsInRest
<1>2. BkTable' = BkTable /\ BkKind' = BkKind /\ (BkLoading' <=> BkLoading)
  BY DEF BkTable, BkKind, BkLoading
<1>3. \A table : (BkWholeOf(table) => BkWholeOf(table)') /\ (BkPassOf(table) => BkPassOf(table)')
  BY <1>2 DEF BkWholeOf, BkPassOf, BkMinimaOf, BkMaximaOf, BkValuesOf
<1>4. (~bkCrossed => BkPassOf(BkTable))'
  BY <1>2, <1>3 DEF BkInv
<1>5. (~bkCrossed /\ BkLoading => \E table \in {"day", "night"} : BkWholeOf(table))'
  BY <1>2, <1>3 DEF BkInv
<1>6. QED BY <1>1, <1>4, <1>5 DEF BkInv

\* Every part starts within its invariant, with an empty FIFO.
LEMMA BoardInitInv == BoardInit => BoardInv
<1> SUFFICES ASSUME BoardInit PROVE BoardInv
  OBVIOUS
<1>1. DiInit /\ DoInit /\ FlRuInit /\ FlInit /\ AbInit /\ AtInit /\ BkInit
  BY DEF BoardInit
<1>2. DiInv /\ DoInv /\ FlRuInv /\ FlInv /\ AbInv /\ AtInv /\ BkInv
  BY <1>1, DiInitInv, DoInitInv, FlRuInitInv, FlInitInv, AbInitInv, AtInitInv, BkInitInv
<1>3. abData \in AbDatas
  BY <1>1 DEF AbInit, AbDatas
<1>4. atFifo \in Seq(AbDatas)
  BY <1>1 DEF AtInit
<1>5. QED BY <1>2, <1>3, <1>4 DEF BoardInv

\* A step of the board is one of a part, or of a transmitter and its bus interface.
LEMMA BoardNextInv == BoardInv /\ [BoardNext]_boardVars => BoardInv'
<1> SUFFICES ASSUME BoardInv, [BoardNext]_boardVars PROVE BoardInv'
  OBVIOUS
<1>0. /\ DiInv /\ DoInv /\ FlRuInv /\ FlInv /\ AbInv /\ AtInv /\ BkInv
      /\ abData \in AbDatas /\ atFifo \in Seq(AbDatas)
  BY DEF BoardInv
<1>1. /\ UNCHANGED diVars => DiInv'
      /\ UNCHANGED doVars => DoInv'
      /\ UNCHANGED flRuVars => FlRuInv'
      /\ UNCHANGED flVars => FlInv'
      /\ UNCHANGED abVars => AbInv' /\ abData' \in AbDatas
      /\ UNCHANGED atVars => AtInv' /\ atFifo' \in Seq(AbDatas)
      /\ UNCHANGED bkVars => BkInv'
  BY <1>0, DiKept, DoKept, FlRuKept, FlKept, AbKept, AtKept, BkKept
<1>2. CASE Chain(Next)
  BY <1>1, <1>2 DEF Chain, BoardInv
<1>3. CASE Inputs(DiNext)
  BY <1>0, <1>1, <1>3, DiNextInv DEF Inputs, BoardInv
<1>4. CASE Outputs(DoNext)
  BY <1>0, <1>1, <1>4, DoNextInv DEF Outputs, BoardInv
<1>5. CASE Watchdog(FlRuNext)
  BY <1>0, <1>1, <1>5, FlRuNextInv DEF Watchdog, BoardInv
<1>6. CASE Flash(FlNext)
  BY <1>0, <1>1, <1>6, FlNextInv DEF Flash, BoardInv
<1>7. CASE BusAlone(AbClock)
  BY <1>0, <1>1, <1>7, AbNextInv, AbDataStep DEF BusAlone, BoardInv
<1>8. CASE Dimming(BkNext)
  BY <1>0, <1>1, <1>8, BkNextInv DEF Dimming, BoardInv
<1>9. ASSUME NEW done \in BOOLEAN, NEW late \in BOOLEAN, Transmit(Sends(done, late))
      PROVE  BoardInv'
  <2>1. AbClock /\ AtClock(0 \in abTrWr, abData, 0 \in abClearTx, abSpeed[0], done, late)
    BY <1>9 DEF Transmit, Sends
  <2>2. (0 \in abTrWr) \in BOOLEAN /\ (0 \in abClearTx) \in BOOLEAN
    OBVIOUS
  <2>3. AbInv' /\ abData' \in AbDatas
    BY <1>0, <2>1, AbNextInv, AbDataStep
  <2>4. AtInv' /\ atFifo' \in Seq(AbDatas)
    BY <1>0, <2>1, <2>2, AtNextInv, SMT, ZenonT(40)
  <2>5. QED BY <1>1, <1>9, <2>3, <2>4 DEF Transmit, BoardInv
<1>10. CASE UNCHANGED boardVars
  BY <1>1, <1>10 DEF boardVars, BoardInv
<1>11. QED BY <1>2, <1>3, <1>4, <1>5, <1>6, <1>7, <1>8, <1>9, <1>10 DEF BoardNext

\* Whatever the host, the flash, the ROM, the line and the inputs do, the host of
\* the discrete inputs knows them, outputs go off with silence and faults, the
\* remote update block is set up in order and kicked in time, every word of the
\* flash enters the CRC once and the host gets the word it asked for, an access to
\* an ARINC channel causes what it is for exactly once, a transmitter sends its
\* words in order, and the modulators follow one table (discr_cmd_in.sv,
\* discr_cmd_out.sv, asmi_cntrlr.sv, arinc429.sv, arinc_tx_controller.sv,
\* backlight_control.sv).
THEOREM BoardIsSafe == BoardSpec => []BoardSafe
<1>1. BoardInv => BoardSafe
  BY DiInvSafe, DoInvSafe, FlInvSafe, AbInvSafe, AtInvSafe, BkInvSafe DEF BoardInv, BoardSafe
<1>2. QED BY BoardInitInv, BoardNextInv, <1>1, PTL DEF BoardSpec

-----------------------------------------------------------------------------
(***************************************************************************)
(* The configurators: every set of them, of tables, buses and delays, and  *)
(* every reset chain that is at most three long.                           *)
(***************************************************************************)

Transfers == [unit : Units \union {"free", "foreign"}, entry : Int, old : BOOLEAN]

Types ==
  /\ rom_addr \in [Units -> Nat] /\ rom_data \in [Units -> Nat]
  /\ amm_write \in [Units -> BOOLEAN] /\ outs \in [Units -> Int]
  /\ cntr \in [Units -> Nat] /\ delay_cntr \in [Units -> Nat]
  /\ completed \in [Units -> BOOLEAN] /\ synced \in [Units -> BOOLEAN]
  /\ bus \in [Buses -> Transfers] /\ sent \in [Units -> Seq(Int)]

\* The transfer on u's bus is one of u's, taken since the last reset.
Fresh(u) == bus[Bus[u]].unit = u /\ ~bus[Bus[u]].old

\* The address counts the entries taken: those carried out and the one on the bus.
Counted(u) == rom_addr[u] = Len(sent[u]) + (IF Fresh(u) THEN 1 ELSE 0)
Carried(u) ==
  /\ Fresh(u) => bus[Bus[u]].entry = Len(sent[u])
  /\ \A i \in DOMAIN sent[u] : sent[u][i] = i - 1

\* The pipeline behind the address has caught up before a write is raised.
CaughtUp(u) ==
  /\ rom_addr[u] <= Size(u)
  /\ cntr[u] >= 1 => rom_data[u] = rom_addr[u]
  /\ amm_write[u] => /\ outs[u] = rom_addr[u] /\ rom_data[u] = rom_addr[u]
                     /\ rom_addr[u] < Size(u)
  /\ synced[u] => rom_data[u] <= rom_addr[u]

\* What completed means, and that a unit which has written is not in reset.
Complete(u) == completed[u] => rom_addr[u] = Size(u) /\ rom_data[u] = Size(u)
Allowed(u)  == Fresh(u) => \A p \in Parents[u] : completed[p]

\* The outputs show the entry that is carried out or the one after it.
Shown(u) ==
  Fresh(u) => /\ rom_data[u] - bus[Bus[u]].entry \in {0, 1}
              /\ outs[u] - bus[Bus[u]].entry \in {0, 1}

BusOf == \A b \in Buses : bus[b].unit \in Units => b = Bus[bus[b].unit]

UnitInv(u) ==
  Counted(u) /\ Carried(u) /\ CaughtUp(u) /\ Complete(u) /\ Allowed(u) /\ Shown(u)
IInv == Types /\ BusOf /\ \A u \in Units : UnitInv(u)

LEMMA BusInBuses == \A u \in Units : Bus[u] \in Buses
BY DEF Buses

LEMMA InitIInv == Init => IInv
<1> SUFFICES ASSUME Init PROVE IInv
  OBVIOUS
<1>1. Types
  BY DEF Init, Types, Transfers, Free, Zero
<1>2. \A b \in Buses : bus[b].unit = "free"
  BY DEF Init, Free
<1>3. BusOf
  BY <1>2, UnitAssumption DEF BusOf
<1>4. ASSUME NEW u \in Units PROVE UnitInv(u)
  <2>1. ~Fresh(u)
    BY <1>2, BusInBuses, UnitAssumption DEF Fresh
  <2>2. sent[u] = <<>> /\ rom_addr[u] = 0 /\ rom_data[u] = 0 /\ cntr[u] = 0
        /\ amm_write[u] = FALSE /\ completed[u] = FALSE
    BY DEF Init
  <2>3. QED BY <2>1, <2>2, UnitAssumption
            DEF UnitInv, Counted, Carried, CaughtUp, Complete, Allowed, Shown
<1>5. QED BY <1>1, <1>3, <1>4 DEF IInv

\* The units that a change holds in reset include all those behind one of them.
LEMMA BehindClosed ==
  ASSUME NEW S0 \in SUBSET Units, NEW u \in Units, NEW p \in Parents[u],
         p \in Behind(Behind(S0))
  PROVE  u \in Behind(Behind(S0))
<1>1. p \in Units
  BY UnitAssumption
<1>2. CASE p \in Behind(S0)
  BY <1>2 DEF Behind
<1>3. CASE p \notin Behind(S0)
  <2>1. PICK q \in Parents[p] : q \in Behind(S0)
    BY <1>1, <1>3 DEF Behind
  <2>2. CASE q \in S0
    BY <1>1, <1>3, <2>1, <2>2 DEF Behind
  <2>3. CASE q \notin S0
    BY <2>1, <2>3, UnitAssumption DEF Behind
  <2>4. QED BY <2>2, <2>3
<1>4. QED BY <1>2, <1>3

LEMMA ChangeIInv == ASSUME IInv, Change PROVE IInv'
<1> DEFINE S0 == {u \in Units : ~Outside(u, kind', ready', check')}
           S  == Behind(Behind(S0))
<1>1. Reset(S) /\ Restart(S)
  BY DEF Change
<1>2. S \subseteq Units
  BY DEF Behind
<1> HIDE DEF S
<1>3. Types'
  <2>1. bus' \in [Buses -> Transfers]
    BY <1>1 DEF IInv, Types, Restart, Transfers
  <2>2. sent' \in [Units -> Seq(Int)]
    BY <1>1 DEF IInv, Types, Restart
  <2>3. QED BY <1>1, <2>1, <2>2 DEF IInv, Types, Reset, Zero
<1>4. \A b \in Buses : /\ bus'[b].unit = bus[b].unit /\ bus'[b].entry = bus[b].entry
                       /\ bus'[b].old = (bus[b].old \/ bus[b].unit \in S)
  BY <1>1 DEF IInv, Types, Restart, Transfers
<1>5. BusOf'
  BY <1>4 DEF IInv, BusOf
<1>6. ASSUME NEW u \in Units PROVE UnitInv(u)'
  <2>1. Fresh(u)' <=> Fresh(u) /\ u \notin S
    BY <1>4, BusInBuses DEF Fresh
  <2>2. CASE u \in S
    <3>1. rom_addr'[u] = 0 /\ amm_write'[u] = FALSE /\ cntr'[u] = 0 /\ sent'[u] = <<>>
          /\ completed'[u] = FALSE /\ synced'[u] = FALSE
      BY <1>1, <2>2 DEF Reset, Restart
    <3>2. QED BY <2>1, <2>2, <3>1, UnitAssumption
              DEF UnitInv, Counted, Carried, CaughtUp, Complete, Allowed, Shown
  <2>3. CASE u \notin S
    <3>1. /\ rom_addr'[u] = rom_addr[u] /\ amm_write'[u] = amm_write[u]
          /\ cntr'[u] = cntr[u] /\ sent'[u] = sent[u] /\ outs'[u] = outs[u]
          /\ completed'[u] = completed[u] /\ synced'[u] = synced[u]
          /\ rom_data'[u] = rom_data[u]
      BY <1>1, <2>3 DEF IInv, Types, Reset, Restart
    <3>2. Allowed(u)'
      <4>1. \A p \in Parents[u] : p \notin S
        BY <2>3, BehindClosed DEF S
      <4>2. \A p \in Parents[u] : completed'[p] = completed[p]
        BY <1>1, <4>1, UnitAssumption DEF IInv, Types, Reset
      <4>3. QED BY <2>1, <4>2 DEF IInv, UnitInv, Allowed
    <3>3. Counted(u)' /\ Carried(u)'
      BY <1>4, <2>1, <2>3, <3>1, BusInBuses DEF IInv, UnitInv, Counted, Carried
    <3>4. CaughtUp(u)' /\ Complete(u)'
      BY <3>1 DEF IInv, UnitInv, CaughtUp, Complete
    <3>5. Shown(u)'
      BY <1>4, <2>1, <3>1, BusInBuses DEF IInv, UnitInv, Shown
    <3>6. QED BY <3>2, <3>3, <3>4, <3>5 DEF UnitInv
  <2>4. QED BY <2>2, <2>3
<1>7. QED BY <1>3, <1>5, <1>6 DEF IInv

\* A unit that nothing disturbs keeps its part of the invariant.
LEMMA Undisturbed ==
  ASSUME IInv, NEW v \in Units,
         rom_addr'[v] = rom_addr[v], rom_data'[v] = rom_data[v],
         amm_write'[v] = amm_write[v], outs'[v] = outs[v], cntr'[v] = cntr[v],
         completed'[v] = completed[v], synced'[v] = synced[v], sent'[v] = sent[v],
         Fresh(v)' = Fresh(v), Fresh(v) => bus'[Bus[v]] = bus[Bus[v]],
         \A p \in Parents[v] : completed[p] => completed'[p]
  PROVE  UnitInv(v)'
<1>1. Counted(v)' /\ Carried(v)'
  BY DEF IInv, UnitInv, Counted, Carried
<1>2. CaughtUp(v)' /\ Complete(v)' /\ Allowed(v)'
  BY DEF IInv, UnitInv, CaughtUp, Complete, Allowed
<1>3. Shown(v)'
  BY DEF IInv, UnitInv, Shown
<1>4. QED BY <1>1, <1>2, <1>3 DEF UnitInv

LEMMA WorkTypes == ASSUME IInv, NEW u \in Units, Work(u) PROVE Types'
<1>1. /\ rom_addr' \in [Units -> Nat] /\ rom_data' \in [Units -> Nat]
      /\ outs' \in [Units -> Int]
  BY DEF IInv, Types, Work, NextAddress
<1>2. cntr' \in [Units -> Nat] /\ delay_cntr' \in [Units -> Nat]
  BY DEF IInv, Types, Work, NextCount
<1>3. amm_write' \in [Units -> BOOLEAN]
  <2>1. amm_write[u] \in BOOLEAN /\ (rom_data[u] < Size(u)) \in BOOLEAN
    BY DEF IInv, Types
  <2> DEFINE Below == rom_data[u] < Size(u)
             Taken == Accepts(u)
             Full  == cntr[u] = Gap
  <2>3. NextWrite(u) = IF ~amm_write[u] /\ Full THEN Below ELSE amm_write[u] /\ ~Taken
    BY DEF NextWrite
  <2> HIDE DEF Below, Taken, Full
  <2>4. NextWrite(u) \in BOOLEAN
    BY <2>1, <2>3, Zenon DEF Below
  <2>2. QED BY <2>4 DEF IInv, Types, Work
<1>4. completed' \in [Units -> BOOLEAN] /\ synced' \in [Units -> BOOLEAN]
  BY DEF IInv, Types, Work, Completed
<1>5. bus' \in [Buses -> Transfers]
  BY BusInBuses DEF IInv, Types, Work, Transfers
<1>6. sent' \in [Units -> Seq(Int)]
  BY DEF IInv, Types, Work
<1>7. QED BY <1>1, <1>2, <1>3, <1>4, <1>5, <1>6 DEF Types

LEMMA WorkIInv == ASSUME IInv, NEW u \in Units, Released(u), synced[u], Work(u) PROVE IInv'
<1>1. Types'
  BY WorkTypes
<1>2. /\ rom_addr'[u] = NextAddress(u) /\ rom_data'[u] = rom_addr[u]
      /\ outs'[u] = rom_data[u] /\ cntr'[u] = NextCount(u)
      /\ amm_write'[u] = NextWrite(u) /\ completed'[u] = Completed(u)
      /\ synced' = synced /\ sent' = sent
  BY DEF IInv, Types, Work
<1>3. UnitInv(u) /\ Gap \in Nat \ {0} /\ Size(u) \in Nat
  BY UnitAssumption DEF IInv
<1>4. BusOf'
  <2>1. CASE Accepts(u)
    BY <2>1, BusInBuses DEF IInv, Types, BusOf, Work
  <2>2. CASE ~Accepts(u)
    BY <2>2 DEF IInv, BusOf, Work
  <2>3. QED BY <2>1, <2>2
<1>5. \A p \in Units : completed[p] => completed'[p]
  BY <1>2, <1>3 DEF IInv, Types, UnitInv, Complete, Completed, Work
<1>6. UnitInv(u)'
  <2>1. CASE Accepts(u)
    <3>1. /\ bus[Bus[u]] = Free /\ amm_write[u]
          /\ bus'[Bus[u]] = [unit |-> u, entry |-> outs[u], old |-> FALSE]
      BY <2>1, BusInBuses DEF IInv, Types, Work, Accepts
    <3>2. ~Fresh(u) /\ Fresh(u)'
      BY <3>1, UnitAssumption DEF Fresh, Free
    <3>3. /\ outs[u] = rom_addr[u] /\ rom_addr[u] < Size(u) /\ rom_data[u] = rom_addr[u]
          /\ rom_addr[u] = Len(sent[u])
      BY <1>3, <3>1, <3>2 DEF UnitInv, Counted, CaughtUp
    <3>4. rom_addr'[u] = rom_addr[u] + 1 /\ cntr'[u] = 0 /\ amm_write'[u] = FALSE
      BY <1>2, <2>1, <3>1 DEF NextAddress, NextCount, NextWrite
    <3>5. Counted(u)' /\ Carried(u)'
      <4>1. sent'[u] = sent[u] /\ Len(sent[u]) \in Nat
        BY <1>2 DEF IInv, Types
      <4>2. Counted(u)'
        BY <3>2, <3>3, <3>4, <4>1 DEF Counted
      <4>3. Carried(u)'
        BY <1>3, <3>1, <3>3, <4>1 DEF UnitInv, Carried
      <4>4. QED BY <4>2, <4>3
    <3>6. rom_data'[u] = rom_addr[u] /\ ~completed'[u] /\ rom_addr[u] \in Nat
      <4>1. rom_addr[u] \in Nat /\ rom_data[u] \in Nat
        BY DEF IInv, Types
      <4>2. rom_data[u] # Size(u)
        BY <1>3, <3>3, <4>1
      <4>3. ~Completed(u)
        BY <4>2 DEF Completed
      <4>4. QED BY <1>2, <4>1, <4>3
    <3>7. CaughtUp(u)' /\ Complete(u)'
      BY <1>3, <3>3, <3>4, <3>6 DEF CaughtUp, Complete
    <3>8. Allowed(u)'
      BY <1>5, UnitAssumption DEF Allowed, Released
    <3>9. Shown(u)'
      BY <1>2, <3>1, <3>3, <3>6 DEF Shown
    <3>10. QED BY <3>5, <3>7, <3>8, <3>9 DEF UnitInv
  <2>2. CASE ~Accepts(u)
    <3>1. bus' = bus /\ rom_addr'[u] = rom_addr[u] /\ Fresh(u)' = Fresh(u)
      BY <1>2, <2>2 DEF Work, NextAddress, Fresh
    <3>2. Counted(u)' /\ Carried(u)'
      BY <1>2, <1>3, <3>1 DEF UnitInv, Counted, Carried
    <3>3. amm_write'[u] => rom_data[u] = rom_addr[u] /\ rom_addr[u] < Size(u)
      BY <1>2, <1>3, <2>2 DEF IInv, Types, UnitInv, CaughtUp, NextWrite
    <3>4. CaughtUp(u)'
      BY <1>2, <1>3, <3>1, <3>3 DEF IInv, Types, UnitInv, CaughtUp
    <3>5. Complete(u)'
      BY <1>2, <1>3, <3>1 DEF IInv, Types, UnitInv, CaughtUp, Complete, Completed
    <3>6. Allowed(u)'
      BY <1>3, <1>5, <3>1, UnitAssumption DEF UnitInv, Allowed
    <3>7. Shown(u)'
      <4>1. Fresh(u) => rom_addr[u] - bus[Bus[u]].entry = 1
        BY <1>3 DEF IInv, Types, UnitInv, Counted, Carried
      <4>2. QED BY <1>2, <1>3, <3>1, <4>1 DEF UnitInv, Shown
    <3>8. QED BY <3>2, <3>4, <3>5, <3>6, <3>7 DEF UnitInv
  <2>3. QED BY <2>1, <2>2
<1>7. ASSUME NEW v \in Units, v # u PROVE UnitInv(v)'
  <2>1. /\ rom_addr'[v] = rom_addr[v] /\ rom_data'[v] = rom_data[v]
        /\ amm_write'[v] = amm_write[v] /\ outs'[v] = outs[v] /\ cntr'[v] = cntr[v]
        /\ completed'[v] = completed[v] /\ synced'[v] = synced[v] /\ sent'[v] = sent[v]
    BY <1>2, <1>7 DEF IInv, Types, Work
  <2>2. Fresh(v)' = Fresh(v) /\ (Fresh(v) => bus'[Bus[v]] = bus[Bus[v]])
    <3>1. CASE Accepts(u) /\ Bus[v] = Bus[u]
      <4>1. bus[Bus[v]].unit = "free" /\ bus'[Bus[v]].unit = u
        BY <3>1, BusInBuses DEF IInv, Types, Work, Accepts, Free
      <4>2. QED BY <1>7, <4>1, UnitAssumption DEF Fresh
    <3>2. CASE ~(Accepts(u) /\ Bus[v] = Bus[u])
      <4>1. bus'[Bus[v]] = bus[Bus[v]]
        BY <3>2, BusInBuses DEF IInv, Types, Work
      <4>2. QED BY <4>1 DEF Fresh
    <3>3. QED BY <3>1, <3>2
  <2>3. \A p \in Parents[v] : completed[p] => completed'[p]
    BY <1>5, UnitAssumption
  <2>4. QED BY <2>1, <2>2, <2>3, Undisturbed
<1>8. QED BY <1>1, <1>4, <1>6, <1>7 DEF IInv

LEMMA HeldIInv == ASSUME IInv, NEW u \in Units, Held(u) PROVE IInv'
<1>1. /\ UNCHANGED <<rom_addr, amm_write, outs, cntr, delay_cntr, completed, bus, sent>>
      /\ rom_data' = [rom_data EXCEPT ![u] = rom_addr[u]]
  BY DEF Held
<1>2. Types'
  BY <1>1 DEF IInv, Types, Held
<1>3. BusOf'
  BY <1>1 DEF IInv, BusOf
<1>4. UnitInv(u)'
  <2>1. rom_data'[u] = rom_addr[u] /\ rom_addr[u] \in Nat /\ Size(u) \in Nat
    BY <1>1, UnitAssumption DEF IInv, Types
  <2>2. amm_write[u] => outs[u] = rom_addr[u] /\ rom_addr[u] < Size(u)
    BY DEF IInv, UnitInv, CaughtUp
  <2>3. CaughtUp(u)'
    BY <1>1, <2>1, <2>2 DEF IInv, UnitInv, CaughtUp
  <2>4. Complete(u)'
    BY <1>1, <2>1 DEF IInv, UnitInv, Complete
  <2>5. Counted(u)' /\ Carried(u)' /\ Allowed(u)'
    BY <1>1 DEF IInv, UnitInv, Counted, Carried, Allowed, Fresh
  <2>6. Shown(u)'
    <3>1. Fresh(u) => rom_addr[u] - bus[Bus[u]].entry = 1
      BY DEF IInv, Types, UnitInv, Counted, Carried
    <3>2. QED BY <1>1, <2>1, <3>1 DEF IInv, UnitInv, Shown, Fresh
  <2>7. QED BY <2>3, <2>4, <2>5, <2>6 DEF UnitInv
<1>5. ASSUME NEW v \in Units, v # u PROVE UnitInv(v)'
  <2>1. rom_data'[v] = rom_data[v] /\ synced'[v] = synced[v] /\ Fresh(v)' = Fresh(v)
    BY <1>1, <1>5 DEF IInv, Types, Held, Fresh
  <2>2. QED BY <1>1, <2>1, Undisturbed
<1>6. QED BY <1>2, <1>3, <1>4, <1>5 DEF IInv

LEMMA DoneIInv == ASSUME IInv, NEW b \in Buses, Done(b) PROVE IInv'
<1>1. UNCHANGED regs /\ bus'[b] = Free /\ \A c \in Buses \ {b} : bus'[c] = bus[c]
  BY DEF IInv, Types, Done
<1>2. Types'
  <2>1. Free \in Transfers
    BY DEF Free, Transfers
  <2>2. bus' \in [Buses -> Transfers] /\ bus[b].entry \in Int
    BY <2>1 DEF IInv, Types, Done, Transfers
  <2>3. sent' \in [Units -> Seq(Int)]
    BY <2>2 DEF IInv, Types, Done
  <2>4. QED BY <1>1, <2>2, <2>3 DEF IInv, Types, regs
<1>3. BusOf'
  BY <1>1, UnitAssumption DEF IInv, BusOf, Free
<1>4. ASSUME NEW u \in Units PROVE UnitInv(u)'
  <2>1. CASE bus[b].unit = u /\ ~bus[b].old
    <3>1. Bus[u] = b /\ Fresh(u)
      BY <2>1 DEF IInv, BusOf, Fresh
    <3>2. ~Fresh(u)'
      BY <1>1, <3>1, UnitAssumption DEF Fresh, Free
    <3>3. sent'[u] = Append(sent[u], Len(sent[u])) /\ sent[u] \in Seq(Int)
      BY <2>1, <3>1 DEF IInv, Types, UnitInv, Carried, Done
    <3>4. Len(sent'[u]) = Len(sent[u]) + 1
      BY <3>3
    <3>5. Counted(u)'
      <4>1. rom_addr[u] = Len(sent[u]) + 1 /\ rom_addr'[u] = rom_addr[u]
        BY <1>1, <3>1 DEF IInv, UnitInv, Counted, regs
      <4>2. QED BY <3>2, <3>3, <3>4, <4>1 DEF Counted
    <3>6. Carried(u)'
      BY <3>1, <3>2, <3>3 DEF IInv, UnitInv, Carried
    <3>7. CaughtUp(u)' /\ Complete(u)' /\ Allowed(u)' /\ Shown(u)'
      BY <1>1, <3>2 DEF IInv, UnitInv, CaughtUp, Complete, Allowed, Shown, regs
    <3>8. QED BY <3>5, <3>6, <3>7 DEF UnitInv
  <2>2. CASE ~(bus[b].unit = u /\ ~bus[b].old)
    <3>1. sent'[u] = sent[u]
      BY <2>2 DEF Done
    <3>2. Fresh(u)' = Fresh(u) /\ (Fresh(u) => bus'[Bus[u]] = bus[Bus[u]])
      BY <1>1, <2>2, BusInBuses, UnitAssumption DEF Fresh, Free
    <3>3. QED BY <1>1, <3>1, <3>2, Undisturbed DEF regs
  <2>3. QED BY <2>1, <2>2
<1>5. QED BY <1>2, <1>3, <1>4 DEF IInv

LEMMA OtherIInv == ASSUME IInv, NEW b \in Buses, Other(b) PROVE IInv'
<1>1. UNCHANGED <<regs, sent>> /\ bus[b].unit = "free" /\ bus'[b] = Alien
      /\ \A c \in Buses \ {b} : bus'[c] = bus[c]
  BY DEF IInv, Types, Other, Free
<1>2. Types'
  <2>1. Alien \in Transfers
    BY DEF Alien, Transfers
  <2>2. QED BY <1>1, <2>1 DEF IInv, Types, Other, regs
<1>3. BusOf'
  BY <1>1, UnitAssumption DEF IInv, BusOf, Alien
<1>4. ASSUME NEW u \in Units PROVE UnitInv(u)'
  <2>1. Fresh(u)' = Fresh(u) /\ (Fresh(u) => bus'[Bus[u]] = bus[Bus[u]])
    BY <1>1, BusInBuses, UnitAssumption DEF Fresh, Alien
  <2>2. QED BY <1>1, <2>1, Undisturbed DEF regs
<1>5. QED BY <1>2, <1>3, <1>4 DEF IInv

LEMMA StutterIInv == ASSUME IInv, UNCHANGED vars PROVE IInv'
BY DEF IInv, Types, BusOf, UnitInv, Counted, Carried, CaughtUp, Complete, Allowed,
       Shown, Fresh, vars, regs

LEMMA IInvAlways == Spec => []IInv
<1>1. Init => IInv
  BY InitIInv
<1>2. IInv /\ [Next]_vars => IInv'
  <2> SUFFICES ASSUME IInv, [Next]_vars PROVE IInv'
    OBVIOUS
  <2>1. CASE Change
    BY <2>1, ChangeIInv
  <2>2. ASSUME NEW u \in Units, Edge(u) PROVE IInv'
    BY <2>2, WorkIInv, HeldIInv DEF Edge
  <2>3. ASSUME NEW b \in Buses, Done(b) PROVE IInv'
    BY <2>3, DoneIInv
  <2>4. ASSUME NEW b \in Foreign, Other(b) PROVE IInv'
    BY <2>4, OtherIInv, UnitAssumption
  <2>5. CASE UNCHANGED vars
    BY <2>5, StutterIInv
  <2>6. QED BY <2>1, <2>2, <2>3, <2>4, <2>5 DEF Next
<1>3. QED BY <1>1, <1>2, PTL DEF Spec

\* Every table is carried out in order, entry by entry, whatever the resets,
\* the gaps and the other masters of the bus do (configurator.sv 53-75).
THEOREM TablesInOrder == Spec => []InOrder
<1>1. IInv => InOrder
  BY UnitAssumption DEF IInv, Types, UnitInv, Counted, Carried, CaughtUp, InOrder
<1>2. QED BY <1>1, IInvAlways, PTL

\* No configurator's write is on a bus before the tables of those that release
\* its reset are out, except for the last entry if that is on another bus
\* (configurator.sv 74 and the resets of qsys.qsys).
THEOREM ParentsFirst == Spec => []AfterParents
<1>1. ASSUME IInv, NEW b \in Buses, NEW u \in Units, bus[b].unit = u, ~bus[b].old,
             NEW p \in Parents[u]
      PROVE  Len(sent[p]) >= Size(p) - (IF Bus[p] = Bus[u] THEN 0 ELSE 1)
  <2>1. p \in Units /\ b = Bus[u] /\ Fresh(u)
    BY <1>1, UnitAssumption DEF IInv, BusOf, Fresh
  <2>2. completed[p] /\ rom_addr[p] = Size(p) /\ Size(p) \in Nat
    BY <1>1, <2>1, UnitAssumption DEF IInv, UnitInv, Allowed, Complete
  <2>3. Len(sent[p]) + (IF Fresh(p) THEN 1 ELSE 0) = Size(p) /\ Len(sent[p]) \in Nat
    BY <1>1, <2>1, <2>2 DEF IInv, Types, UnitInv, Counted
  <2>4. Fresh(p) /\ Bus[p] = Bus[u] => p = u
    BY <1>1, <2>1 DEF Fresh
  <2>5. p # u
    BY <1>1, <2>1, UnitAssumption
  <2>6. CASE Bus[p] = Bus[u]
    <3>1. ~Fresh(p)
      BY <2>4, <2>5, <2>6
    <3>2. QED BY <2>2, <2>3, <2>6, <3>1
  <2>7. CASE Bus[p] # Bus[u]
    <3>1. CASE Fresh(p)
      BY <2>2, <2>3, <2>7, <3>1
    <3>2. CASE ~Fresh(p)
      BY <2>2, <2>3, <2>7, <3>2
    <3>3. QED BY <3>1, <3>2
  <2>8. QED BY <2>6, <2>7
<1>2. IInv => AfterParents
  BY <1>1 DEF AfterParents
<1>3. QED BY <1>2, IInvAlways, PTL

\* The chip select of an entry is its own or the next one's until the slave has
\* carried it out (configurator.sv 69-70).
THEOREM SelectNotFurther == Spec => []OwnOrNextSelect
<1>1. ASSUME IInv, NEW b \in Buses, NEW u \in Units, bus[b].unit = u, ~bus[b].old
      PROVE  LET i == bus[b].entry + 1
             IN  Selected(u) \in {Chips[u][i]} \union
                                 (IF i < Size(u) THEN {Chips[u][i + 1]} ELSE {None})
  <2> DEFINE e == bus[b].entry
  <2>1. b = Bus[u] /\ Fresh(u)
    BY <1>1 DEF IInv, BusOf, Fresh
  <2>2. e \in Nat /\ e + 1 = rom_addr[u] /\ rom_addr[u] <= Size(u)
    BY <1>1, <2>1 DEF IInv, Types, UnitInv, Counted, Carried, CaughtUp
  <2>3. outs[u] \in Int /\ (outs[u] = e \/ outs[u] = e + 1)
    <3>1. outs[u] \in Int /\ outs[u] - e \in {0, 1}
      BY <1>1, <2>1 DEF IInv, Types, UnitInv, Shown
    <3>2. QED BY <2>2, <3>1
  <2>4. DOMAIN Chips[u] = 1 .. Size(u) /\ Size(u) \in Nat
    BY UnitAssumption
  <2> HIDE DEF e
  <2>5. CASE outs[u] = e
    BY <2>2, <2>4, <2>5 DEF Selected, e
  <2>6. CASE outs[u] = e + 1
    <3>1. CASE e + 1 < Size(u)
      BY <2>2, <2>4, <2>6, <3>1 DEF Selected, e
    <3>2. CASE ~(e + 1 < Size(u))
      BY <2>2, <2>4, <2>6, <3>2 DEF Selected, e
    <3>3. QED BY <3>1, <3>2
  <2>7. QED BY <2>3, <2>5, <2>6
<1>2. IInv => OwnOrNextSelect
  BY <1>1 DEF OwnOrNextSelect
<1>3. QED BY <1>2, IInvAlways, PTL

\* What the ranges need beyond the invariant: upper bounds, and the environment.
Ranges(u) ==
  /\ rom_data[u] <= Size(u) /\ outs[u] \in Zero .. Size(u)
  /\ cntr[u] <= Gap /\ delay_cntr[u] <= Delay[u]
Environment ==
  /\ kind \in Kinds \union {None} /\ ready \in BOOLEAN /\ check \in BOOLEAN
  /\ changes \in 0 .. Changes

LEMMA EdgeRanges ==
  ASSUME IInv, \A v \in Units : Ranges(v), NEW u \in Units, Edge(u), NEW v \in Units
  PROVE  Ranges(v)'
<1>0. /\ rom_addr[v] \in Nat /\ rom_data[v] \in Nat /\ outs[v] \in Int
      /\ cntr[v] \in Nat /\ delay_cntr[v] \in Nat /\ rom_addr[v] <= Size(v)
      /\ Size(v) \in Nat /\ Gap \in Nat /\ Delay[v] \in Nat
  BY UnitAssumption DEF IInv, Types, UnitInv, CaughtUp
<1>1. CASE Work(u) /\ v = u
  <2>1. /\ rom_data'[v] = rom_addr[v] /\ outs'[v] = rom_data[v]
        /\ cntr'[v] = NextCount(v)
        /\ delay_cntr'[v] = IF delay_cntr[v] = Delay[v] THEN delay_cntr[v]
                                                       ELSE delay_cntr[v] + 1
    BY <1>1 DEF IInv, Types, Work
  <2>2. cntr'[v] <= Gap
    BY <1>0, <2>1 DEF Ranges, NextCount
  <2>3. QED BY <1>0, <2>1, <2>2 DEF Ranges, Zero
<1>2. CASE Held(u) /\ v = u
  <2>1. rom_data'[v] = rom_addr[v]
    BY <1>2 DEF IInv, Types, Held
  <2>2. outs' = outs /\ cntr' = cntr /\ delay_cntr' = delay_cntr
    BY <1>2 DEF Held
  <2>3. QED BY <1>0, <2>1, <2>2 DEF Ranges
<1>3. CASE v # u
  <2>1. /\ rom_data'[v] = rom_data[v] /\ outs'[v] = outs[v]
        /\ cntr'[v] = cntr[v] /\ delay_cntr'[v] = delay_cntr[v]
    BY <1>3 DEF IInv, Types, Edge, Work, Held
  <2>2. QED BY <2>1 DEF Ranges
<1>4. QED BY <1>1, <1>2, <1>3 DEF Edge

LEMMA ChangeRanges ==
  ASSUME IInv, \A v \in Units : Ranges(v), Environment, Change
  PROVE  (\A v \in Units : Ranges(v)') /\ Environment'
<1>0. Changes \in Nat
  BY UnitAssumption
<1>1. Environment'
  <2>1. changes' \in 0 .. Changes
    BY <1>0 DEF Environment, Change
  <2>2. kind' \in Kinds \union {None} /\ ready' \in BOOLEAN /\ check' \in BOOLEAN
    BY Zenon DEF Environment, Change
  <2>3. QED BY <2>1, <2>2 DEF Environment, Kinds
<1>2. PICK S : Reset(S)
  BY DEF Change
<1>3. ASSUME NEW v \in Units PROVE Ranges(v)'
  <2>1. Size(v) \in Nat /\ Gap \in Nat /\ Delay[v] \in Nat
    BY UnitAssumption
  <2>2. /\ rom_data' = rom_data /\ outs'[v] \in {Zero, outs[v]}
        /\ cntr'[v] \in {0, cntr[v]} /\ delay_cntr'[v] \in {0, delay_cntr[v]}
    BY <1>2 DEF Reset
  <2>3. Ranges(v)
    OBVIOUS
  <2>4. 0 <= Gap /\ 0 <= Delay[v] /\ Zero \in Zero .. Size(v)
    BY <2>1 DEF Zero
  <2>5. QED BY <2>2, <2>3, <2>4 DEF Ranges
<1>4. QED BY <1>1, <1>3

LEMMA RangesAlways == Spec => []((\A v \in Units : Ranges(v)) /\ Environment)
<1> DEFINE R == (\A v \in Units : Ranges(v)) /\ Environment
<1>1. ASSUME Init PROVE R
  <2>1. Environment
    <3>1. Changes \in Nat
      BY UnitAssumption
    <3>2. kind \in Kinds \union {None} /\ ready \in BOOLEAN /\ check \in BOOLEAN
      BY <1>1, Zenon DEF Init
    <3>3. QED BY <1>1, <3>1, <3>2 DEF Init, Environment
  <2>2. ASSUME NEW v \in Units PROVE Ranges(v)
    <3>1. Size(v) \in Nat /\ Gap \in Nat /\ Delay[v] \in Nat
      BY UnitAssumption
    <3>2. rom_data[v] = 0 /\ outs[v] = Zero /\ cntr[v] = 0 /\ delay_cntr[v] = 0
      BY <1>1 DEF Init
    <3>3. QED BY <3>1, <3>2 DEF Ranges, Zero
  <2>3. QED BY <2>1, <2>2
<1>2. IInv /\ R /\ [Next]_vars => R'
  <2> SUFFICES ASSUME IInv, R, [Next]_vars PROVE R'
    OBVIOUS
  <2>1. CASE Change
    BY <2>1, ChangeRanges
  <2>2. ASSUME NEW u \in Units, Edge(u) PROVE R'
    <3>1. Environment'
      BY <2>2 DEF Environment, Edge, Work, Held, env
    <3>2. QED BY <2>2, <3>1, EdgeRanges
  <2>3. CASE UNCHANGED <<regs, env>>
    BY <2>3 DEF Ranges, Environment, regs, env
  <2>4. QED BY <2>1, <2>2, <2>3 DEF Next, Done, Other, vars
<1>3. QED BY <1>1, <1>2, IInvAlways, PTL DEF Spec

\* The three, and the types, are what the runs check together.
THEOREM ChainIsSafe == Spec => []ChainSafe
<1>1. IInv /\ (\A v \in Units : Ranges(v)) /\ Environment => TypeInv
  <2> SUFFICES ASSUME IInv, \A v \in Units : Ranges(v), Environment PROVE TypeInv
    OBVIOUS
  <2>1. ASSUME NEW u \in Units
        PROVE  /\ rom_addr[u] \in 0 .. Size(u) /\ rom_data[u] \in 0 .. Size(u)
               /\ amm_write[u] \in BOOLEAN /\ outs[u] \in Zero .. Size(u)
               /\ cntr[u] \in 0 .. Gap /\ delay_cntr[u] \in 0 .. Delay[u]
               /\ completed[u] \in BOOLEAN /\ synced[u] \in BOOLEAN
    <3>1. Size(u) \in Nat /\ Gap \in Nat /\ Delay[u] \in Nat
      BY UnitAssumption
    <3>2. rom_addr[u] <= Size(u)
      BY DEF IInv, UnitInv, CaughtUp
    <3>3. QED BY <3>1, <3>2 DEF IInv, Types, Ranges
  <2>2. \A b \in Buses : bus[b].unit \in Units \union {"free", "foreign"}
    BY DEF IInv, Types, Transfers
  <2>3. QED BY <2>1, <2>2 DEF TypeInv, Environment
<1>2. TypeInv /\ InOrder /\ AfterParents /\ OwnOrNextSelect => ChainSafe
  BY DEF ChainSafe
<1>3. QED BY <1>1, <1>2, IInvAlways, RangesAlways, TablesInOrder, ParentsFirst,
             SelectNotFurther, PTL
=============================================================================
