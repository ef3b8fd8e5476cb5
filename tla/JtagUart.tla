------------------------------ MODULE JtagUart ------------------------------
(***************************************************************************)
(* The JTAG UART driver of the HAL: altera_avalon_jtag_uart_write, _read,  *)
(* _close and _ioctl in the foreground, the interrupt routine, the alarm   *)
(* that watches for the host, and around them the device's two FIFOs with  *)
(* the debug host at their other end.  With jtSmall the polled ("small")   *)
(* driver runs, which has neither rings nor interrupts.                    *)
(*                                                                         *)
(* Bytes are numbered in the order they are written, so that what a buffer *)
(* should hold is known from two numbers.  The interrupt routine is one    *)
(* step: it runs to its end before the foreground goes on.  The foreground *)
(* is interrupted between its reads of the ring indices, its copy and the  *)
(* update of the index.                                                    *)
(***************************************************************************)
EXTENDS Integers, Sequences

CONSTANTS BUF_LEN,     \* ALTERA_AVALON_JTAG_UART_BUF_LEN: one slot stays empty
          JtFifo,      \* depth of the device's FIFOs
          JtMax,       \* bound: bytes in the two directions together
          JtTimeouts,  \* arguments of TIOCSTIMEOUT
          JtForever    \* INT_MAX - 1: never reached

ASSUME JtAssumption == /\ BUF_LEN \in Nat \ {0, 1} /\ JtFifo \in Nat \ {0} /\ JtMax \in Nat
                       /\ JtTimeouts \subseteq Nat /\ JtForever \in Nat \ {0, 1, 2}
                       /\ \A t \in JtTimeouts : t < JtForever

VARIABLES jtSmall,          \* the polled driver is used
          jtPc,             \* where the foreground is
          jtLeft,           \* count or space: bytes the call still wants to move
          jtNonblock,       \* O_NONBLOCK in the flags of the call
          jtMoved,          \* ptr # start: the call has moved a byte
          jtIn, jtOut, jtN, \* locals in, out and n
          irq_enable, jtTimeout, host_inactive,
          rx_in, rx_out, rx_buf, tx_in, tx_out, tx_buf,
          jtRxFifo, jtTxFifo,  \* the FIFOs of the device
          jtAc,             \* AC: the host was active since AC was cleared
          jtHost,           \* the host is connected
          jtSent, jtGot,    \* bytes given to write, bytes the host has taken
          jtPut, jtTaken    \* bytes the host has sent, bytes read has returned

jtCall == <<jtPc, jtLeft, jtNonblock, jtMoved, jtIn, jtOut, jtN>>
jtRx == <<rx_in, rx_out, rx_buf>>
jtTx == <<tx_in, tx_out, tx_buf>>
jtDevice == <<jtRxFifo, jtTxFifo, jtAc, jtHost>>
jtCounts == <<jtSent, jtGot, jtPut, jtTaken>>
jtWatch == <<jtTimeout, host_inactive>>
jtVars == <<jtSmall, jtCall, irq_enable, jtWatch, jtRx, jtTx, jtDevice, jtCounts>>

Slots == 0..BUF_LEN - 1

JtInit ==
  /\ jtSmall \in BOOLEAN
  /\ jtPc = "idle" /\ jtLeft = 0 /\ jtNonblock = FALSE /\ jtMoved = FALSE
  /\ jtIn = 0 /\ jtOut = 0 /\ jtN = 0
  /\ irq_enable = IF jtSmall THEN {} ELSE {"RE"}
  /\ jtTimeout \in {t \in JtTimeouts : t >= 2} /\ host_inactive = 0
  /\ rx_in = 0 /\ rx_out = 0 /\ rx_buf = [k \in Slots |-> 0]
  /\ tx_in = 0 /\ tx_out = 0 /\ tx_buf = [k \in Slots |-> 0]
  /\ jtRxFifo = <<>> /\ jtTxFifo = <<>> /\ jtAc = FALSE /\ jtHost = TRUE
  /\ jtSent = 0 /\ jtGot = 0 /\ jtPut = 0 /\ jtTaken = 0

JtGo(pc) == jtPc' = pc
JtAt(pc) == ~jtSmall /\ jtPc = pc

(* The locals of a call are gone when it returns.                          *)
JtReturn == /\ jtPc' = "idle" /\ jtLeft' = 0 /\ jtNonblock' = FALSE /\ jtMoved' = FALSE
            /\ jtIn' = 0 /\ jtOut' = 0 /\ jtN' = 0
JtContinue(pc) == jtPc' = pc /\ UNCHANGED <<jtLeft, jtNonblock, jtMoved, jtIn, jtOut, jtN>>

-----------------------------------------------------------------------------
(* write                                                                   *)

JtBegin(pc, most) ==
  /\ jtPc = "idle" /\ JtGo(pc)
  /\ jtLeft' \in 1..most /\ jtNonblock' \in BOOLEAN /\ jtMoved' = FALSE
  /\ UNCHANGED <<jtSmall, jtIn, jtOut, jtN, irq_enable, jtWatch, jtRx, jtTx, jtDevice, jtCounts>>
JtWrite == JtBegin(IF jtSmall THEN "small write" ELSE "write look", JtMax - jtSent - jtPut)
JtRead == JtBegin(IF jtSmall THEN "small read" ELSE "read look", 2)

(* Free slots from "in" to the end of the ring or to the slot before "out".*)
TxSpaceFull(in, out) == IF in < out THEN out - in ELSE BUF_LEN - in
TxSpace(in, out) ==
  IF in < out THEN out - 1 - in ELSE IF out > 0 THEN BUF_LEN - in ELSE BUF_LEN - 1 - in

AtMost(n, left) == IF n > left THEN left ELSE n

JtWriteLook ==
  /\ JtAt("write look")
  /\ jtIn' = tx_in /\ jtOut' = tx_out
  /\ jtN' = AtMost(TxSpace(tx_in, tx_out), jtLeft)
  /\ JtGo(IF jtN' = 0 THEN "kick" ELSE "copy")
  /\ UNCHANGED <<jtSmall, jtLeft, jtNonblock, jtMoved, irq_enable, jtWatch, jtRx, jtTx,
                 jtDevice, jtCounts>>

JtCopy ==
  /\ JtAt("copy") /\ JtGo("publish")
  /\ tx_buf' = [k \in Slots |-> IF k \in jtIn..jtIn + jtN - 1 THEN jtSent + 1 + k - jtIn
                               ELSE tx_buf[k]]
  /\ UNCHANGED <<jtSmall, jtLeft, jtNonblock, jtMoved, jtIn, jtOut, jtN, irq_enable, jtWatch,
                 jtRx, tx_in, tx_out, jtDevice, jtCounts>>

PublishedUnwrapped == jtIn + jtN
Published == (jtIn + jtN) % BUF_LEN
JtPublish ==
  /\ JtAt("publish")
  /\ tx_in' = Published
  /\ jtSent' = jtSent + jtN /\ jtLeft' = jtLeft - jtN /\ jtMoved' = TRUE
  /\ JtGo(IF jtLeft' > 0 THEN "write look" ELSE "kick")
  /\ UNCHANGED <<jtSmall, jtNonblock, jtIn, jtOut, jtN, irq_enable, jtWatch, jtRx,
                 tx_out, tx_buf, jtDevice, jtGot, jtPut, jtTaken>>

(* With interrupts off; what is left is given up or waited for.            *)
KickedWhenFull == IF jtLeft > 0 THEN irq_enable \cup {"WE"} ELSE irq_enable
Kicked == irq_enable \cup {"WE"}
JtKick ==
  /\ JtAt("kick") /\ irq_enable' = Kicked
  /\ IF jtLeft > 0 /\ ~jtNonblock THEN JtContinue("write wait") ELSE JtReturn
  /\ UNCHANGED <<jtSmall, jtWatch, jtRx, jtTx,
                 jtDevice, jtCounts>>

HostGivenAlways == TRUE
HostGiven == host_inactive < jtTimeout

(* A host that was inactive for a second ends the call with what was moved.*)
JtWriteWait ==
  /\ JtAt("write wait") /\ ~(jtOut = tx_out /\ HostGiven)
  /\ IF host_inactive > 0 THEN JtReturn ELSE JtContinue("write look")
  /\ UNCHANGED <<jtSmall, irq_enable, jtWatch,
                 jtRx, jtTx, jtDevice, jtCounts>>

-----------------------------------------------------------------------------
(* read                                                                    *)

RxReady(in, out) == IF in >= out THEN in - out ELSE BUF_LEN - out

(* Nothing there: return what was read, give up, or wait.                  *)
JtReadLook ==
  /\ JtAt("read look")
  /\ LET n == AtMost(RxReady(rx_in, rx_out), jtLeft)
     IN  \/ /\ n = 0 /\ ~jtMoved /\ jtNonblock /\ JtReturn
         \/ /\ n > 0 \/ jtMoved \/ ~jtNonblock
            /\ JtGo(IF n > 0 THEN "take" ELSE IF jtMoved THEN "enable" ELSE "read wait")
            /\ jtIn' = rx_in /\ jtOut' = rx_out /\ jtN' = n
            /\ UNCHANGED <<jtLeft, jtNonblock, jtMoved>>
  /\ UNCHANGED <<jtSmall, irq_enable, jtWatch, jtRx, jtTx,
                 jtDevice, jtCounts>>

(* memcpy, then the index.                                                 *)
JtTake ==
  /\ JtAt("take") /\ JtGo("release") /\ jtTaken' = jtTaken + jtN
  /\ UNCHANGED <<jtSmall, jtLeft, jtNonblock, jtMoved, jtIn, jtOut, jtN, irq_enable, jtWatch,
                 jtRx, jtTx, jtDevice, jtSent, jtGot, jtPut>>

JtRelease ==
  /\ JtAt("release")
  /\ rx_out' = (jtOut + jtN) % BUF_LEN
  /\ jtLeft' = jtLeft - jtN /\ jtMoved' = TRUE
  /\ JtGo(IF jtLeft' > 0 THEN "read look" ELSE "enable")
  /\ UNCHANGED <<jtSmall, jtNonblock, jtIn, jtOut, jtN, irq_enable, jtWatch, rx_in, rx_buf,
                 jtTx, jtDevice, jtCounts>>

JtReadWait ==
  /\ JtAt("read wait") /\ ~(jtIn = rx_in /\ HostGiven)
  /\ IF jtIn = rx_in THEN JtReturn ELSE JtContinue("read look")
  /\ UNCHANGED <<jtSmall, irq_enable, jtWatch,
                 jtRx, jtTx, jtDevice, jtCounts>>

(* There is space in the ring again: receive interrupts on.                *)
EnabledNot == irq_enable
Enabled == irq_enable \cup {"RE"}
JtEnable ==
  /\ JtAt("enable") /\ JtReturn /\ irq_enable' = Enabled
  /\ UNCHANGED <<jtSmall, jtWatch, jtRx, jtTx,
                 jtDevice, jtCounts>>

-----------------------------------------------------------------------------
(* close, ioctl and the polled driver                                      *)

JtClose ==
  /\ ~jtSmall /\ JtBegin("close", 1)
JtCloseWait ==
  /\ JtAt("close")
  /\ ~(tx_out # tx_in /\ HostGiven) \/ jtNonblock
  /\ JtReturn
  /\ UNCHANGED <<jtSmall, irq_enable, jtWatch,
                 jtRx, jtTx, jtDevice, jtCounts>>

(* TIOCSTIMEOUT: less than two seconds means never.                        *)
JtIoctl ==
  /\ JtAt("idle")
  /\ \E t \in JtTimeouts : jtTimeout' = IF t >= 2 THEN t ELSE JtForever
  /\ UNCHANGED <<jtSmall, jtCall, irq_enable, host_inactive, jtRx, jtTx, jtDevice, jtCounts>>

JtSmallWrite ==
  /\ jtPc = "small write" /\ Len(jtTxFifo) < JtFifo
  /\ jtTxFifo' = Append(jtTxFifo, jtSent + 1) /\ jtSent' = jtSent + 1
  /\ IF jtLeft = 1 THEN JtReturn
     ELSE jtLeft' = jtLeft - 1 /\ UNCHANGED <<jtPc, jtNonblock, jtMoved, jtIn, jtOut, jtN>>
  /\ UNCHANGED <<jtSmall, irq_enable, jtWatch, jtRx, jtTx,
                 jtRxFifo, jtAc, jtHost, jtGot, jtPut, jtTaken>>

JtSmallRead ==
  /\ jtPc = "small read"
  /\ \/ /\ jtRxFifo # <<>> /\ jtRxFifo' = Tail(jtRxFifo) /\ jtTaken' = jtTaken + 1
        /\ IF jtLeft = 1 THEN JtReturn
           ELSE /\ jtLeft' = jtLeft - 1 /\ jtMoved' = TRUE
                /\ UNCHANGED <<jtPc, jtNonblock, jtIn, jtOut, jtN>>
     \/ /\ jtRxFifo = <<>> /\ (jtMoved \/ jtNonblock) /\ JtReturn
        /\ UNCHANGED <<jtRxFifo, jtTaken>>
  /\ UNCHANGED <<jtSmall, irq_enable, jtWatch, jtRx, jtTx,
                 jtTxFifo, jtAc, jtHost, jtSent, jtGot, jtPut>>

-----------------------------------------------------------------------------
(* The interrupt routine: what the receive ring has room for is taken, and *)
(* receive interrupts go off if something stays in the FIFO; what the FIFO *)
(* has room for is sent, and transmit interrupts go off if there is less.  *)

Used(in, out) == (in + BUF_LEN - out) % BUF_LEN
RxRoomAll == BUF_LEN
RxRoom == BUF_LEN - 1 - Used(rx_in, rx_out)
TxWaiting == Used(tx_in, tx_out)

RI == "RE" \in irq_enable /\ jtRxFifo # <<>>
WI == "WE" \in irq_enable /\ Len(jtTxFifo) < JtFifo
Drained(space) == space > TxWaiting

JtReceive ==
  LET m == IF RI THEN AtMost(Len(jtRxFifo), RxRoom) ELSE 0
  IN  /\ rx_in' = (rx_in + m) % BUF_LEN
      /\ rx_buf' = [k \in Slots |-> IF Used(k, rx_in) < m THEN jtRxFifo[Used(k, rx_in) + 1]
                                   ELSE rx_buf[k]]
      /\ jtRxFifo' = SubSeq(jtRxFifo, m + 1, Len(jtRxFifo))

JtSend ==
  LET space == JtFifo - Len(jtTxFifo)
      m == IF WI THEN AtMost(TxWaiting, space) ELSE 0
  IN  /\ jtTxFifo' = jtTxFifo \o [k \in 1..m |-> tx_buf[(tx_out + k - 1) % BUF_LEN]]
      /\ tx_out' = (tx_out + m) % BUF_LEN

JtIsr ==
  /\ RI \/ WI
  /\ JtReceive /\ JtSend
  /\ irq_enable' = (irq_enable \ (IF RI /\ Len(jtRxFifo) > RxRoom THEN {"RE"} ELSE {}))
                               \ (IF WI /\ Drained(JtFifo - Len(jtTxFifo)) THEN {"WE"} ELSE {})
  /\ UNCHANGED <<jtSmall, jtCall, jtWatch, rx_out, tx_in, tx_buf, jtAc, jtHost, jtCounts>>

(* Every second: seconds without a sign of the host.                       *)
JtAlarm ==
  /\ ~jtSmall /\ jtAc' = FALSE
  /\ host_inactive' = IF jtAc THEN 0
                      ELSE IF host_inactive < JtForever - 1 THEN host_inactive + 1
                      ELSE host_inactive
  /\ UNCHANGED <<jtSmall, jtCall, irq_enable, jtTimeout, jtRx, jtTx, jtRxFifo, jtTxFifo, jtHost,
                 jtCounts>>

(* The debug host.                                                         *)
Writing == jtPc \in {"write look", "copy", "publish", "kick", "write wait", "small write"}
JtBelowBound == jtPut + jtSent + (IF Writing THEN jtLeft ELSE 0) < JtMax
jtDriver == <<jtSmall, jtCall, irq_enable, jtWatch, jtRx, jtTx>>
JtHostTakes ==
  /\ jtHost /\ jtTxFifo # <<>> /\ jtTxFifo' = Tail(jtTxFifo) /\ jtGot' = jtGot + 1
  /\ jtAc' = TRUE
  /\ UNCHANGED <<jtDriver, jtRxFifo, jtHost, jtSent, jtPut, jtTaken>>
JtHostSends ==
  /\ jtHost /\ Len(jtRxFifo) < JtFifo /\ JtBelowBound
  /\ jtRxFifo' = Append(jtRxFifo, jtPut + 1) /\ jtPut' = jtPut + 1 /\ jtAc' = TRUE
  /\ UNCHANGED <<jtDriver, jtTxFifo, jtHost, jtSent, jtGot, jtTaken>>
JtHostLeaves ==
  /\ jtHost /\ jtHost' = FALSE
  /\ UNCHANGED <<jtDriver, jtRxFifo, jtTxFifo, jtAc, jtCounts>>

JtFast == \/ JtWriteLook \/ JtCopy \/ JtPublish \/ JtKick \/ JtWriteWait
          \/ JtReadLook \/ JtTake \/ JtRelease \/ JtReadWait \/ JtEnable
          \/ JtCloseWait
JtNext == \/ JtWrite \/ JtRead \/ JtClose \/ JtIoctl \/ JtFast \/ JtSmallWrite \/ JtSmallRead
          \/ JtIsr \/ JtAlarm \/ JtHostTakes \/ JtHostSends \/ JtHostLeaves

(* The processor runs, interrupts are served, the alarm goes off, and a    *)
(* host that stays connected takes what is in the FIFO.                    *)
JtSpec == /\ JtInit /\ [][JtNext]_jtVars
          /\ WF_jtVars(JtFast) /\ WF_jtVars(JtIsr) /\ WF_jtVars(JtAlarm) /\ WF_jtVars(JtHostTakes)

-----------------------------------------------------------------------------
(* Indices stay inside their rings, locals inside theirs.                  *)
JtTypeInv ==
  /\ jtSmall \in BOOLEAN
  /\ jtPc \in {"idle", "write look", "copy", "publish", "kick", "write wait", "read look", "take",
               "release", "enable", "read wait", "close", "small write", "small read"}
  /\ jtLeft \in Nat /\ jtNonblock \in BOOLEAN /\ jtMoved \in BOOLEAN
  /\ jtIn \in Slots /\ jtOut \in Slots /\ jtN \in 0..BUF_LEN
  /\ irq_enable \subseteq {"RE", "WE"} /\ jtTimeout \in Nat /\ host_inactive \in 0..JtForever
  /\ rx_in \in Slots /\ rx_out \in Slots /\ rx_buf \in [Slots -> Nat]
  /\ tx_in \in Slots /\ tx_out \in Slots /\ tx_buf \in [Slots -> Nat]
  /\ jtRxFifo \in Seq(Nat) /\ jtTxFifo \in Seq(Nat) /\ jtAc \in BOOLEAN /\ jtHost \in BOOLEAN
  /\ jtSent \in Nat /\ jtGot \in Nat /\ jtPut \in Nat /\ jtTaken \in Nat

(* What the host takes next is the next byte that write accepted: none is  *)
(* lost, doubled or overtaken, although the interrupt routine empties the  *)
(* ring while write fills it.                                              *)
JtTxOrder ==
  /\ \A k \in 1..Len(jtTxFifo) : jtTxFifo[k] = jtGot + k
  /\ ~jtSmall => jtSent = jtGot + Len(jtTxFifo) + TxWaiting

(* The bytes read copies are the next ones the host sent, and none of them *)
(* gets lost in a full ring.                                               *)
JtRxOrder ==
  /\ jtPc = "take" => \A k \in 0..jtN - 1 : rx_buf[jtOut + k] = jtTaken + 1 + k
  /\ jtPc = "small read" /\ jtRxFifo # <<>> => jtRxFifo[1] = jtTaken + 1
  /\ jtPut + (IF jtPc = "release" THEN jtN ELSE 0)
       = jtTaken + Used(rx_in, rx_out) + Len(jtRxFifo)

(* Transmit interrupts are off only if there is nothing to send or write   *)
(* is on its way to turn them on; receive interrupts only if the ring      *)
(* holds bytes or read is about to turn them on.                           *)
JtInterruptsOn ==
  ~jtSmall =>
    /\ "WE" \notin irq_enable /\ tx_in # tx_out
         => jtPc \in {"write look", "copy", "publish", "kick"}
    /\ "RE" \notin irq_enable /\ rx_in = rx_out
         => jtPc = "enable" \/ (jtPc = "read look" /\ jtMoved)

(* A byte that write accepted reaches the host if it stays connected.      *)
JtDelivered == jtSent > jtGot ~> jtSent = jtGot \/ ~jtHost

(* With interrupts every call returns although the host has left, unless   *)
(* the timeout was set to never.                                           *)
JtReturns == ~jtSmall /\ ~jtHost ~> jtPc = "idle" \/ jtTimeout = JtForever

(* Both rings deliver in order and lose nothing between the interrupt and  *)
(* the caller, and no interrupt is left off that somebody waits for.       *)
JtSafe == JtTypeInv /\ JtTxOrder /\ JtRxOrder /\ JtInterruptsOn

(* What was accepted is delivered while the host is there, and calls return*)
(* when it is not.                                                         *)
JtLive == JtDelivered /\ JtReturns
=============================================================================
