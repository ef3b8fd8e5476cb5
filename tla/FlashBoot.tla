----------------------------- MODULE FlashBoot ------------------------------
(***************************************************************************)
(* qsys/asmi_cntrlr/asmi_cntrlr.sv.  Its two halves share the clock only:  *)
(* one sets up the watchdog of the remote update block and then kicks it;  *)
(* the other puts the flash into its four-byte mode, reads it from end to  *)
(* end for the CRC, and then lets the host through.  Neither holds its     *)
(* last or only command until it is taken: what meets a slave that waits   *)
(* is lost (flMissed).  Words are named by their address, and the CRC, an  *)
(* exclusive or, is the set of those that entered it an odd number of      *)
(* times.                                                                  *)
(***************************************************************************)
EXTENDS Integers, Sequences

CONSTANTS
  FlInterval,      \* INTERVAL: edges between two kicks
  FlSettle,        \* edges before the first write: cntr_ru[4], 16
  FlWords,         \* words of a burst: cntr[6], 64
  FlBursts,        \* bursts up to address bit 25: 131072
  FlHost,          \* addresses the host uses in the window, below the offset
  FlOffsets        \* values of the offset register

ASSUME FlAssumption ==
  /\ FlInterval \in Nat \ {0} /\ FlSettle \in Nat
  /\ FlWords \in Nat \ {0} /\ FlBursts \in Nat \ {0}

VARIABLES
  flRuState, flRuWrite, flCnfgrd, flTimer, flCntrRu,   \* flRuWrite: the register
  flRuTaken, flSince,              \* history: commands taken, edges since a kick
  flState, flRead, flWrite, flAddress, flCntr, flCrc, flCompleted,
  flOp, flOffset,                  \* the host's access, a clock later; mem_offset
  flAnswer,                        \* ams_readdata when it is valid, or none
  flLines,                         \* what ams_address shows: the last access
  flQueue,                         \* words the flash has yet to give
  flLog, flMissed, flAsked         \* history

flRuVars == <<flRuState, flRuWrite, flCnfgrd, flTimer, flCntrRu, flRuTaken, flSince>>
flVars == <<flState, flRead, flWrite, flAddress, flCntr, flCrc, flCompleted, flOp, flOffset,
            flAnswer, flLines, flQueue, flLog, flMissed, flAsked>>

FlNothing == <<>>
FlNoRegister == "none"
FlEarly   == <<"early">>             \* a read before the pass is over
FlQuiet == [op |-> "none", space |-> "flash", word |-> "none"]

FlRuInit ==
  /\ flRuState = "RU_IDLE" /\ flRuWrite = FlNoRegister /\ flCnfgrd = FALSE
  /\ flTimer = 0 /\ flCntrRu = 0
  /\ flRuTaken = <<>> /\ flSince = 0

FlInit ==
  /\ flState = "IDLE" /\ flRead = FALSE /\ flWrite = FALSE
  /\ flAddress = <<"burst", 0>> /\ flCntr = 0 /\ flCrc = {} /\ flCompleted = FALSE
  /\ flOp = FlQuiet /\ flOffset \in FlOffsets                \* mem_offset has no reset
  /\ flAnswer = FlNothing /\ flLines = "flash"
  /\ flQueue = <<>> /\ flLog = <<>> /\ flMissed = FALSE /\ flAsked = FlNothing
-----------------------------------------------------------------------------
(* The watchdog.  Each write of the set-up is presented when the one before *)
(* has been taken; the last, like every kick, is presented for one edge.    *)
FlSetUp == <<"WDT_TIMEOUT", "PAGE_SELECT", "CONF_MODE", "WDT_ENABLE">>

FlPresent(reg, next) == flRuWrite' = reg /\ flRuState' = next

FlRuStepHasty(wait) ==
  CASE flRuState = "RU_IDLE" ->
         FlPresent(FlNoRegister, IF ~flCnfgrd THEN "RU_WDT_TIMEOUT"
                              ELSE IF flTimer = FlInterval THEN "RU_WDT_RESET" ELSE "RU_IDLE")
    [] flRuState = "RU_WDT_TIMEOUT" /\ flCntrRu = FlSettle ->
         FlPresent("WDT_TIMEOUT", "RU_PAGE_SELECT")
    [] flRuState = "RU_PAGE_SELECT" -> FlPresent("PAGE_SELECT", "RU_CONF_MODE")
    [] flRuState = "RU_CONF_MODE" /\ ~wait -> FlPresent("CONF_MODE", "RU_WDT_ENABLE")
    [] flRuState = "RU_WDT_ENABLE" /\ ~wait -> FlPresent("WDT_ENABLE", "RU_IDLE")
    [] flRuState = "RU_WDT_RESET" -> FlPresent("WDT_RESET", "RU_IDLE")
    [] OTHER -> UNCHANGED <<flRuWrite, flRuState>>
FlRuStep(wait) ==
  CASE flRuState = "RU_IDLE" ->
         FlPresent(FlNoRegister, IF ~flCnfgrd THEN "RU_WDT_TIMEOUT"
                              ELSE IF flTimer = FlInterval THEN "RU_WDT_RESET" ELSE "RU_IDLE")
    [] flRuState = "RU_WDT_TIMEOUT" /\ flCntrRu = FlSettle ->
         FlPresent("WDT_TIMEOUT", "RU_PAGE_SELECT")
    [] flRuState = "RU_PAGE_SELECT" /\ ~wait -> FlPresent("PAGE_SELECT", "RU_CONF_MODE")
    [] flRuState = "RU_CONF_MODE" /\ ~wait -> FlPresent("CONF_MODE", "RU_WDT_ENABLE")
    [] flRuState = "RU_WDT_ENABLE" /\ ~wait -> FlPresent("WDT_ENABLE", "RU_IDLE")
    [] flRuState = "RU_WDT_RESET" -> FlPresent("WDT_RESET", "RU_IDLE")
    [] OTHER -> UNCHANGED <<flRuWrite, flRuState>>

\* One edge; "wait" is the slave's waitrequest at it.
FlRuClock(wait) ==
  /\ FlRuStep(wait)
  /\ flCnfgrd' = (flCnfgrd \/ (flRuState = "RU_WDT_ENABLE" /\ ~wait))
  /\ flTimer' = IF flRuState = "RU_IDLE" /\ flTimer # FlInterval THEN flTimer + 1 ELSE 0
  /\ flCntrRu' = IF flRuState = "RU_IDLE" \/ flCntrRu = FlSettle THEN 0 ELSE flCntrRu + 1
  \* A kick is looked at when it is presented, the set-up when it is taken.
  /\ flSince' = IF ~flCnfgrd \/ flRuWrite = "WDT_RESET" THEN 0 ELSE flSince + 1
  /\ flRuTaken' = IF flRuWrite \in {FlNoRegister, "WDT_RESET"} \/ wait THEN flRuTaken
                  ELSE Append(flRuTaken, flRuWrite)

FlRuNext == \E wait \in BOOLEAN : FlRuClock(wait)
-----------------------------------------------------------------------------
(* The flash.  A command is on the bus for one edge.                       *)
FlKeepCommand == flRead' = FALSE /\ flWrite' = FALSE

FlCsr == <<"csr", "4C">>           \* ASMI_CSR + 4C: four-byte addresses
FlTarget(access) ==
  CASE access.space = "csr" -> <<"csr", access.word>>
    [] access.space = "offset" -> <<"csr", "64">>          \* 10064 is in the CSR space
    [] OTHER -> <<flOffset, access.word>>

FlIdle ==
  /\ flState = "IDLE"
  /\ IF flCompleted
     THEN /\ flRead' = (flOp.op = "read") /\ flWrite' = (flOp.op = "write")
          /\ flAddress' = FlTarget(flOp) /\ UNCHANGED flState
     ELSE /\ flState' = "FOURBYTE" /\ FlKeepCommand /\ UNCHANGED flAddress
  /\ UNCHANGED <<flCntr, flCrc, flCompleted>>
FlFourByte ==
  /\ flState = "FOURBYTE" /\ flState' = "WRWT"
  /\ flRead' = FALSE /\ flWrite' = TRUE /\ flAddress' = FlCsr
  /\ UNCHANGED <<flCntr, flCrc, flCompleted>>
FlWriteWaitAnswered ==
  /\ flState = "WRWT" /\ flState' = IF flQueue # <<>> THEN "READ" ELSE "WRWT"
  /\ FlKeepCommand /\ flAddress' = <<"burst", 0>>
  /\ UNCHANGED <<flCntr, flCrc, flCompleted>>
FlWriteWait ==
  /\ flState = "WRWT" /\ flState' = "READ"
  /\ FlKeepCommand /\ flAddress' = <<"burst", 0>>
  /\ UNCHANGED <<flCntr, flCrc, flCompleted>>
FlReadBurst ==
  /\ flState = "READ" /\ flCntr' = 0 /\ flWrite' = FALSE
  /\ IF flAddress[2] < FlBursts
     THEN flRead' = TRUE /\ flState' = "ACK" /\ UNCHANGED flCompleted
     ELSE flRead' = FALSE /\ flState' = "IDLE" /\ flCompleted' = TRUE
  /\ UNCHANGED <<flAddress, flCrc>>
FlAckEarly(valid) ==
  /\ flState = "ACK" /\ FlKeepCommand
  /\ IF valid THEN /\ flCrc' = (flCrc \union {Head(flQueue)}) \ (flCrc \intersect {Head(flQueue)})
                   /\ flCntr' = flCntr + 1
              ELSE UNCHANGED <<flCrc, flCntr>>
  /\ IF flCntr = FlWords - 1
     THEN flState' = "READ" /\ flAddress' = <<"burst", flAddress[2] + 1>>
     ELSE UNCHANGED <<flState, flAddress>>
  /\ UNCHANGED flCompleted
FlAck(valid) ==
  /\ flState = "ACK" /\ FlKeepCommand
  /\ IF valid THEN /\ flCrc' = (flCrc \union {Head(flQueue)}) \ (flCrc \intersect {Head(flQueue)})
                   /\ flCntr' = flCntr + 1
              ELSE UNCHANGED <<flCrc, flCntr>>
  /\ IF flCntr = FlWords
     THEN flState' = "READ" /\ flAddress' = <<"burst", flAddress[2] + 1>>
     ELSE UNCHANGED <<flState, flAddress>>
  /\ UNCHANGED flCompleted

\* The slave: takes what is presented unless it waits, gives words in order.
FlGiven(address) ==
  IF flState = "IDLE" THEN <<address>>
  ELSE [i \in 1 .. FlWords |-> <<"burst", address[2], i>>]
FlSlave(wait, valid) ==
  /\ flQueue' = (IF valid THEN Tail(flQueue) ELSE flQueue)
                \o (IF flRead /\ ~wait THEN FlGiven(flAddress) ELSE <<>>)
  /\ flMissed' = (flMissed \/ (wait /\ (flRead \/ flWrite)))
  /\ flLog' = IF flCompleted \/ wait \/ ~(flRead \/ flWrite) THEN flLog
              ELSE Append(flLog, flAddress)

\* The host's side: one read at a time.  What the flash answers passes through,
\* unless ams_address shows the offset register at that edge.
FlPending == flAsked # FlNothing /\ flAnswer = FlNothing
FlHostSide(access, valid) ==
  /\ access.op = "read" => ~FlPending
  /\ flOp' = access /\ flLines' = IF access.op = "none" THEN flLines ELSE access.space
  /\ flOffset' = IF access.op = "write" /\ access.space = "offset" THEN access.word ELSE flOffset
  /\ flAnswer' = IF ~valid THEN FlNothing
                 ELSE IF flLines' = "offset" THEN <<"offset", flOffset>> ELSE Head(flQueue)
  /\ flAsked' = IF access.op = "read"
                THEN IF flCompleted THEN FlTarget(access) ELSE FlEarly
                ELSE IF FlPending THEN flAsked ELSE FlNothing

\* A write to the offset register goes to the flash's registers as well.
FlAccesses ==
  {FlQuiet} \union [op : {"read", "write"}, space : {"flash", "csr"}, word : FlHost]
            \union [op : {"read", "write"}, space : {"offset"}, word : FlOffsets]

FlClock(wait, valid) ==
  /\ valid => flQueue # <<>>
  /\ FlIdle \/ FlFourByte \/ FlWriteWait \/ FlReadBurst \/ FlAck(valid)
  /\ FlSlave(wait, valid)
  /\ \E access \in FlAccesses : FlHostSide(access, valid)

FlNext == \E wait, valid \in BOOLEAN : FlClock(wait, valid)
-----------------------------------------------------------------------------
FlTypeInv ==
  /\ flRuState \in {"RU_IDLE", "RU_WDT_TIMEOUT", "RU_PAGE_SELECT", "RU_CONF_MODE",
                    "RU_WDT_ENABLE", "RU_WDT_RESET"}
  /\ flTimer \in 0 .. FlInterval /\ flCntrRu \in 0 .. FlSettle
  /\ flState \in {"IDLE", "FOURBYTE", "WRWT", "ACK", "READ"}
  /\ flCntr \in 0 .. FlWords /\ Len(flQueue) <= FlWords + 1

\* The set-up reaches the remote update block in its order, each write once,
\* at most the last one missing, and then the watchdog is kicked in time
\* (asmi_cntrlr.sv:71-125).
FlWatchdog ==
  /\ flRuTaken \in {SubSeq(FlSetUp, 1, n) : n \in 0 .. 4}
  /\ flCnfgrd => Len(flRuTaken) >= 3
  /\ flSince <= FlInterval + 3

\* When the pass is over every word of the flash has entered the CRC once, read
\* burst by burst in four-byte mode unless that very write met a slave that
\* waits (asmi_cntrlr.sv:164-206).
FlWhole == {<<"burst", b, i>> : b \in 0 .. FlBursts - 1, i \in 1 .. FlWords}
FlCrcWhole ==
  /\ flCompleted => flCrc = FlWhole
  /\ ~flMissed /\ flLog # <<>> =>
       /\ flLog[1] = FlCsr
       /\ \A i \in 2 .. Len(flLog) : flLog[i] = <<"burst", i - 2>>

\* After the pass the host gets the word it asked for, with the offset it had
\* set when it asked, unless it has gone on to the offset register meanwhile
\* (asmi_cntrlr.sv:170-176, 224-235).
FlAnswers ==
  flCompleted /\ flAnswer # FlNothing /\ flAsked # FlEarly /\ flLines # "offset"
  => flAnswer = flAsked

FlSafe == FlTypeInv /\ FlWatchdog /\ FlCrcWhole /\ FlAnswers

\* The pass comes to an end, unless one of its commands met a slave that waits.
FlCompleted == flCompleted \/ flMissed
FlCompletes == <>FlCompleted
=============================================================================
