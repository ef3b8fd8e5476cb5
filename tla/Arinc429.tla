------------------------------- MODULE Arinc429 -------------------------------
(***************************************************************************)
(* qsys/arinc429/arinc429.sv: the host's accesses to the receivers and     *)
(* transmitters.  Address and data are latched with the access; what it    *)
(* causes follows one to four edges later, as a strobe of the channel that *)
(* is latched at that moment.  Nothing takes a strobe back but the same    *)
(* channel and register one edge later, so the host has to leave an edge   *)
(* free after every write and after every answer, which nothing enforces   *)
(* (AbPace).  Of an address the model keeps branch, channel and register.  *)
(***************************************************************************)
EXTENDS Integers, Sequences, FiniteSets

CONSTANTS AbReceivers, AbTransmitters,   \* channel numbers
          AbWords,                       \* words a host writes to a transmitter
          AbSpeeds,                      \* speeds it sets
          AbPace                         \* edges it leaves free

\* Without an edge of its own after every access a strobe stays.
ASSUME AbAssumption == 0 \in AbReceivers /\ AbPace \in Nat \ {0}

VARIABLES
  abTo,                      \* addr, rec_trans_number, reciever_transmitter, conf_bit
  abWr, abData, abRd,        \* wr, wr_data, rd (the set of its bits that are 1)
  abMaskWr, abBufRd, abTrWr, \* rx_mask_wr, rx_buf_rd, tr_buf_wr: channels
  abClear, abClearTx,        \* IRQ_clear, IRQ_clear_tx: channels
  abSpeed,                   \* txconfig, its speed; the other registers are like it
  abRead,                    \* ams_readdata: the register it was taken from
  abPause,                   \* the host: edges before its next access
  abOwed                     \* history: what the last access still has to cause

abVars == <<abTo, abWr, abData, abRd, abMaskWr, abBufRd, abTrWr, abClear, abClearTx,
            abSpeed, abRead, abPause, abOwed>>

AbAddress(branch, channel, reg) == [branch |-> branch, channel |-> channel, reg |-> reg]
AbZero == AbAddress("none", 0, "zero")
AbNothing == [strobe |-> "none", channel |-> 0, data |-> 0]

\* The registers of the two branches: read, written.
AbReadable ==
  [branch : {"rx"}, channel : AbReceivers, reg : {"config", "intflag", "flags", "buffer"}]
  \union [branch : {"tx"}, channel : AbTransmitters, reg : {"config", "intflag"}]
AbWritable ==
  [branch : {"rx"}, channel : AbReceivers, reg : {"config", "intmask", "mask"}]
  \union [branch : {"tx"}, channel : AbTransmitters, reg : {"config", "intmask", "buffer"}]

AbInit ==
  /\ abTo = AbAddress("rx", 0, "buffer") /\ abWr = FALSE /\ abData = 0 /\ abRd = {}
  /\ abMaskWr = {} /\ abBufRd = {} /\ abTrWr = {} /\ abClear = {} /\ abClearTx = {}
  /\ abSpeed = [t \in AbTransmitters |-> 0] /\ abRead = AbZero
  /\ abPause = 0 /\ abOwed = AbNothing
-----------------------------------------------------------------------------
\* One bit of a register of strobes follows its condition, the others stay.
AbSet(strobes, condition) ==
  IF condition THEN strobes \union {abTo.channel} ELSE strobes \ {abTo.channel}

AbStrobesSticky ==
  /\ abMaskWr' = IF abTo.reg = "mask" THEN AbSet(abMaskWr, abWr) ELSE abMaskWr
  /\ abBufRd' = IF abTo.branch = "rx" /\ abTo.reg = "buffer" THEN AbSet(abBufRd, 0 \in abRd)
                ELSE abBufRd
  /\ abTrWr' = IF abWr /\ abTo.branch = "tx" /\ abTo.reg = "buffer"
               THEN AbSet(abTrWr, TRUE) ELSE abTrWr
  /\ abClear' = IF abTo.branch = "rx" /\ abTo.reg = "intflag" THEN AbSet(abClear, 3 \in abRd)
                ELSE abClear
  /\ abClearTx' = IF abTo.branch = "tx" /\ abTo.reg = "intflag" THEN AbSet(abClearTx, 3 \in abRd)
                  ELSE abClearTx
AbStrobes ==
  /\ abMaskWr' = IF abTo.reg = "mask" THEN AbSet(abMaskWr, abWr) ELSE abMaskWr
  /\ abBufRd' = AbSet(abBufRd, 0 \in abRd /\ abTo.branch = "rx" /\ abTo.reg = "buffer")
  /\ abTrWr' = AbSet(abTrWr, abWr /\ abTo.branch = "tx" /\ abTo.reg = "buffer")
  /\ abClear' = IF abTo.branch = "rx" /\ abTo.reg = "intflag" THEN AbSet(abClear, 3 \in abRd)
                ELSE abClear
  /\ abClearTx' = IF abTo.branch = "tx" /\ abTo.reg = "intflag" THEN AbSet(abClearTx, 3 \in abRd)
                  ELSE abClearTx

\* ams_readdata: the buffer and the flags always, the registers on rd[2] only.
AbRegisters ==
  /\ abRead' = IF abTo.reg \in {"buffer", "flags"} \/ (2 \in abRd /\ abTo \in AbReadable)
               THEN abTo ELSE AbZero
  /\ abSpeed' = IF abWr /\ abTo.branch = "tx" /\ abTo.reg = "config"
                THEN [abSpeed EXCEPT ![abTo.channel] = abData] ELSE abSpeed

\* What an access has to cause, besides the registers it writes.
AbCauses(to, op, data) ==
  CASE op = "write" /\ to.reg = "mask"   -> [strobe |-> "mask", channel |-> to.channel, data |-> data]
    [] op = "write" /\ to.reg = "buffer" -> [strobe |-> "send", channel |-> to.channel, data |-> data]
    [] op = "read" /\ to.reg = "buffer"  -> [strobe |-> "take", channel |-> to.channel, data |-> 0]
    [] op = "read" /\ to.reg = "intflag" ->
         [strobe |-> IF to.branch = "rx" THEN "clear rx" ELSE "clear tx", channel |-> to.channel, data |-> 0]
    [] OTHER -> AbNothing

AbActive ==
  {<<"mask", c>> : c \in abMaskWr} \union {<<"take", c>> : c \in abBufRd}
  \union {<<"send", c>> : c \in abTrWr} \union {<<"clear rx", c>> : c \in abClear}
  \union {<<"clear tx", c>> : c \in abClearTx}
AbLeft == IF AbActive = {} THEN abOwed ELSE AbNothing

AbQuiet ==
  /\ abWr' = FALSE /\ abRd' = {b + 1 : b \in abRd \ {3}} /\ UNCHANGED <<abTo, abData>>
  /\ abPause' = (IF abPause = 0 THEN 0 ELSE abPause - 1) /\ abOwed' = AbLeft
AbWrite(to, data) ==
  /\ abPause = 0 /\ abTo' = to /\ abWr' = TRUE /\ abData' = data
  /\ abRd' = {b + 1 : b \in abRd \ {3}}
  /\ abPause' = AbPace /\ abOwed' = AbCauses(to, "write", data)
AbReads(to) ==
  /\ abPause = 0 /\ abTo' = to /\ abWr' = FALSE /\ UNCHANGED abData
  /\ abRd' = {0} \union {b + 1 : b \in abRd \ {3}}
  /\ abPause' = AbPace + 3 /\ abOwed' = AbCauses(to, "read", 0)

AbValues(to) ==
  CASE to.branch = "tx" /\ to.reg = "config" -> AbSpeeds
    [] to.branch = "tx" /\ to.reg = "buffer" -> AbWords
    [] OTHER -> {0}

\* One edge of clk.
AbClock ==
  /\ AbStrobes /\ AbRegisters
  /\ \/ AbQuiet
     \/ \E to \in AbWritable : \E data \in AbValues(to) : AbWrite(to, data)
     \/ \E to \in AbReadable : AbReads(to)
-----------------------------------------------------------------------------
AbTypeInv ==
  /\ abTo \in AbReadable \union AbWritable
  /\ abWr \in BOOLEAN /\ abRd \subseteq 0 .. 3 /\ abPause \in 0 .. AbPace + 3
  /\ abMaskWr \subseteq AbReceivers /\ abTrWr \subseteq AbReceivers \union AbTransmitters
  /\ Cardinality(abRd) <= 1

\* Every access causes what it is for exactly once: a strobe is that of the last
\* access, for its channel, with its data and address still latched, and it is
\* there for one edge; and none is missing when the next access comes
\* (arinc429.sv:51-53, 79-81).
AbOnce ==
  /\ AbActive # {} => /\ AbActive = {<<abOwed.strobe, abOwed.channel>>}
                      /\ abTo.channel = abOwed.channel
                      /\ abOwed.strobe \in {"mask", "send"} => abData = abOwed.data
  /\ abPause = 0 /\ abRd = {} => abOwed = AbNothing \/ AbActive # {}

\* What the host reads is the register it asked for (arinc429.sv:56-90).
AbAnswers == 3 \in abRd => abRead = abTo

AbSafe == AbTypeInv /\ AbOnce /\ AbAnswers

-------------------------------------------------------------------------------
(***************************************************************************)
(* One transmitter: arinc_tx_controller.sv, which takes words from a FIFO  *)
(* when the line is ready, and the handshake of arinc429_tx.sv.  The FIFO  *)
(* (dcfifo) is external: its read side sees a word some edges after it was *)
(* written, its write side sees a place that became free likewise.  The    *)
(* bits on the line are left out: in SEND the word is on it until          *)
(* send_compl_pe, long after the pipeline of the controller has run empty. *)
(***************************************************************************)

CONSTANTS AtSize,        \* words the FIFO holds: 512
          AtDeafMax      \* bits of Tr_Ready_sig: 8

ASSUME AtAssumption == AtSize \in Nat /\ AtDeafMax \in Nat \ {0}

VARIABLES
  atFifo, atVisible,             \* the words; how many the read side sees
  atQ,                           \* q_sig
  atWrEn, atWrEn0, atWrEn1,      \* WrEn (and rdreq), WrEn_sig[0] (rdreq_sig), [1]
  atDeaf,                        \* edges since Tr_Ready was 1: Tr_Ready_sig
  atFlag,                        \* fifo_wr_sig
  atDone,                        \* txintflag[1]
  atState, atDivider, atWord,    \* StateAvlTx, clk_devider, sig_data
  atFlight, atOff                \* history: the word taken from the FIFO that has not
                                 \* been started; nothing sent since the line was off
atVars == <<atFifo, atVisible, atQ, atWrEn, atWrEn0, atWrEn1, atDeaf, atFlag, atDone,
            atState, atDivider, atWord, atFlight, atOff>>

AtJunk == 0
AtInit ==
  /\ atFifo = <<>> /\ atVisible = 0 /\ atQ = AtJunk
  /\ atWrEn = FALSE /\ atWrEn0 = FALSE /\ atWrEn1 = FALSE
  /\ atDeaf = AtDeafMax /\ atFlag = FALSE /\ atDone = FALSE
  /\ atState = "IDLE" /\ atDivider = 0 /\ atWord = AtJunk
  /\ atFlight = <<>> /\ atOff = TRUE
-----------------------------------------------------------------------------
AtReady == atState = "IDLE" /\ atDivider # 0
AtFetch == atVisible > 0 /\ atFlag                 \* a word is asked of the FIFO
AtPop   == atWrEn /\ ~atWrEn0                      \* rdreq && !rdreq_sig

\* fifo_wr_sig: one word is taken for each time the line becomes ready.
AtFlagKept ==
  atFlag' = ((atFlag \/ (AtReady /\ atDeaf > 0)) /\ (AtReady \/ atDeaf < AtDeafMax))
AtFlagStep ==
  atFlag' = IF AtFetch THEN FALSE
            ELSE IF AtReady /\ atDeaf > 0 THEN TRUE
            ELSE atFlag /\ atDeaf < AtDeafMax

AtController(clear) ==
  /\ AtFlagStep
  /\ atWrEn' = AtFetch /\ atWrEn0' = atWrEn /\ atWrEn1' = atWrEn0
  /\ atDeaf' = IF AtReady THEN 0 ELSE IF atDeaf = AtDeafMax THEN atDeaf ELSE atDeaf + 1
  /\ atDone' = (~clear /\ (atDone \/ (AtReady /\ atDeaf = AtDeafMax)))

\* The FIFO; "late": its sides have not yet seen what the other did.
AtFifo(wr, data, late) ==
  LET popped  == IF AtPop /\ atFifo # <<>> THEN 1 ELSE 0
      full    == Len(atFifo) = AtSize \/ (late /\ Len(atFifo) = AtSize - 1)
      kept    == SubSeq(atFifo, 1 + popped, Len(atFifo))
  IN  /\ atQ' = IF popped = 1 THEN atFifo[1] ELSE atQ
      /\ atFifo' = IF wr /\ ~full THEN Append(kept, data) ELSE kept
      /\ atVisible' = IF late THEN atVisible - popped ELSE Len(kept)

\* The line: with clk_devider 0 it is in reset, at once and whatever it does.
AtLine(speed, done) ==
  /\ done => atState = "SEND" /\ atDeaf = AtDeafMax /\ ~(atFlag \/ atWrEn \/ atWrEn0 \/ atWrEn1)
  /\ atDivider' = IF atState = "SEND" THEN atDivider ELSE speed
  /\ IF atDivider = 0 \/ atDivider' = 0
     THEN atState' = "IDLE" /\ atWord' = AtJunk
     ELSE /\ \/ atState = "IDLE" /\ atState' = IF atWrEn1 THEN "SEND" ELSE "IDLE"
             \/ atState = "SEND" /\ atState' = IF done THEN "DONE" ELSE "SEND"
             \/ atState = "DONE" /\ atState' = "IDLE"
          /\ atWord' = IF atState = "IDLE" THEN atQ ELSE atWord

AtHistory ==
  /\ atFlight' = IF AtPop THEN <<atQ'>>
                 ELSE IF \/ atState = "IDLE" /\ atState' = "SEND"
                         \/ atOff /\ atState = "DONE" THEN <<>>
                 ELSE atFlight
  /\ atOff' = (atDivider' = 0 \/ (atOff /\ atState # "DONE"))

\* One edge of clk.
AtClock(wr, data, clear, speed, done, late) ==
  /\ AtController(clear) /\ AtFifo(wr, data, late) /\ AtLine(speed, done) /\ AtHistory
-----------------------------------------------------------------------------
AtTypeInv ==
  /\ Len(atFifo) <= AtSize /\ atVisible \in 0 .. Len(atFifo)
  /\ atDeaf \in 0 .. AtDeafMax /\ atFlag \in BOOLEAN
  /\ atState \in {"IDLE", "SEND", "DONE"} /\ Len(atFlight) <= 1

\* What starts is the word that was taken last and it starts once; from the first
\* word that a line has sent since it was switched on, a word is taken only when
\* the one before has been started, and never from an empty FIFO or under a word
\* on the line (arinc_tx_controller.sv:82-97).
AtOrder ==
  /\ AtReady /\ atWrEn1 => atFlight = <<atQ>>
  /\ AtPop /\ ~atOff => atFifo # <<>> /\ atFlight = <<>> /\ atState = "IDLE"

AtSafe == AtTypeInv /\ AtOrder

\* While the line is on, the words in the FIFO are sent.
AtMoved == atFifo = <<>> \/ atDivider = 0 \/ atState = "SEND"
AtGoesOn == []<>AtMoved
===============================================================================
