------------------------- MODULE ArincRxController -------------------------
(***************************************************************************)
(* One ARINC 429 receive channel: qsys/arinc429/arinc_rx_controller.sv.    *)
(* A step is one rising edge of clk, with the inputs of that edge          *)
(* chosen by the environment, or one host write between two edges.         *)
(*                                                                         *)
(* A received word is represented by its label, arincDataOut[7:0].  All    *)
(* labels of the model lie in one 32-label group of the mask RAM, so the   *)
(* mask words and the flag words are sets of labels.  The 1024-word        *)
(* buffer is 0..Top-1: labels address its low part 0..Lo-1 (address mode)  *)
(* and Lo..Top-1 is the ring of the FIFO mode.                             *)
(***************************************************************************)
EXTENDS Naturals, Sequences

CONSTANTS
  Top,          \* words of ram_buf_inst: 2^10 in the code
  Lo,           \* first address of the ring, number of labels: 256
  Modes,        \* values the host gives rxconfig[2]: TRUE is address mode
  ParityOff,    \* rxconfig[6]: words with bad parity are kept
  PolledHost    \* the host reads when the count is not 0, one read at a time

ASSUME RingAssumption ==
  /\ Lo \in Nat \ {0} /\ Top \in Nat /\ Lo < Top
  /\ Modes \subseteq BOOLEAN /\ Modes # {}
  /\ ParityOff \in BOOLEAN /\ PolledHost \in BOOLEAN

Labels  == 0 .. Lo - 1
NoWord  == Lo          \* no word arrives at this edge
Ring    == Lo .. Top - 1
Size    == Top - Lo
DiffMax == Top - 1

VARIABLES
  on, addrMode,               \* rxconfig[1:0] # 0, rxconfig[2]
  state, cnt,                 \* the state machine
  readed_addr, diff,          \* head of the ring, words in it
  RxFlag_sig, bufer_rd_sig,   \* latched requests of receiver and host
  recieved_word, ParErr,      \* outputs of arinc429_rx, held until the next word
  bufer_addr_b, bufer_we_b, ram_buf, bufer_q,
  bufer_addr, rd2,            \* host address register, rd[2] of arinc429.sv
  mask_flags_addr, flag_we, flags_data, flag_mask_q, ram_mask,
  rxintflag                   \* bits 0 (parity), 2 (&diff), 3 (new word)

\* Kept for the properties only.
VARIABLES
  overrun,    \* a word was stored on top of words not read yet
  headRead,   \* the host was given the word at the head of the ring
  asked,      \* the label whose flag the pending host read is to clear
  received    \* labels stored in address mode since their flag was cleared

config  == <<on, addrMode>>
fsm     == <<state, cnt>>
fifo    == <<readed_addr, diff>>
latches == <<RxFlag_sig, bufer_rd_sig>>
input   == <<recieved_word, ParErr, bufer_addr, rd2>>
bufport == <<bufer_addr_b, bufer_we_b, ram_buf, bufer_q>>
mskport == <<mask_flags_addr, flag_we, flags_data, flag_mask_q, ram_mask>>
history == <<overrun, headRead, asked, received>>
vars    == <<config, fsm, fifo, latches, input, bufport, mskport, rxintflag,
             history>>

Init ==
  /\ on = TRUE /\ addrMode \in Modes
  /\ state = "waiting" /\ cnt = 0
  /\ readed_addr = Lo /\ diff = 0
  /\ RxFlag_sig = FALSE /\ bufer_rd_sig = FALSE
  /\ recieved_word = 0 /\ ParErr = FALSE /\ bufer_addr = 0 /\ rd2 = FALSE
  /\ bufer_addr_b = 0 /\ bufer_we_b = FALSE
  /\ ram_buf = [a \in 0 .. Top - 1 |-> 0] /\ bufer_q = 0
  /\ mask_flags_addr = "mask" /\ flag_we = FALSE
  /\ flags_data = {} /\ flag_mask_q = {}
  /\ \E m \in SUBSET Labels :
       ram_mask = [w \in {"mask", "flags"} |-> IF w = "mask" THEN m ELSE {}]
  /\ rxintflag = [par |-> FALSE, full |-> FALSE, new |-> FALSE]
  /\ overrun = FALSE /\ headRead = FALSE /\ asked = 0 /\ received = {}
-----------------------------------------------------------------------------
\* addr_to_write with its 11 bits, and the address put on port b: a carry out
\* of bit 9 adds cout = Lo, and the sum is cut to the width of the port.
addr_to_write == readed_addr + diff
Cut(x)        == IF x >= Top THEN x - Top ELSE x
WriteAddrNoCarry == Cut(addr_to_write)
WriteAddr     == IF addr_to_write >= Top THEN Cut(Cut(addr_to_write) + Lo)
                                         ELSE addr_to_write

\* The ring slot i places after the head, and the word it holds once the
\* write that is on port b has been done.
Slot(i)  == IF readed_addr + i >= Top THEN readed_addr + i - Size
                                      ELSE readed_addr + i
Settled  == IF bufer_we_b THEN [ram_buf EXCEPT ![bufer_addr_b] = recieved_word]
                          ELSE ram_buf
Contents == [i \in 1 .. diff |-> Settled[Slot(i - 1)]]

mask_accepted == recieved_word \in flag_mask_q
NextHeadNoWrap == readed_addr + 1
NextHead      == IF readed_addr = Top - 1 THEN Lo ELSE readed_addr + 1
RejectsParityBlind == RxFlag_sig /\ ~ParityOff
RejectsNone   == FALSE
Rejects       == RxFlag_sig /\ ~ParityOff /\ ParErr
Checks        == addrMode /\ bufer_rd_sig
Pops          == state = "waiting" /\ ~addrMode /\ bufer_rd_sig /\ diff # 0
Stores        == state = "arinc_event" /\ cnt = 5 /\ mask_accepted
ReadTakenForgets == Checks
ReadTaken     == Checks \/ Pops
ClearedFlagsAll == flag_mask_q \ Labels
ClearedFlags  == flag_mask_q \ {bufer_addr}
\* The edge at which a polling host is given the word at the head.
GivesHead     == PolledHost /\ rd2 /\ ~addrMode /\ diff # 0 /\ bufer_q = Contents[1]
-----------------------------------------------------------------------------
\* What every edge does: the two RAMs, the latches, the host's data register.
\* rx is a new word or NoWord, rd the bufer_rd pulse, clear the IRQ_clear
\* level, a the address register after the edge.
NewWord(rx, bad) == IF rx = NoWord THEN UNCHANGED <<recieved_word, ParErr>>
                                   ELSE recieved_word' = rx /\ ParErr' = bad

Edge(rx, bad, rd, a) ==
  /\ NewWord(rx, bad)
  /\ bufer_addr' = a /\ rd2' = rd
  /\ asked' = IF rd /\ addrMode THEN a ELSE asked
  /\ ram_buf' = Settled
  /\ bufer_q' = ram_buf[IF addrMode THEN bufer_addr ELSE readed_addr]
  /\ ram_mask' = IF flag_we THEN [ram_mask EXCEPT ![mask_flags_addr] = flags_data]
                            ELSE ram_mask
  /\ flag_mask_q' = ram_mask'[mask_flags_addr]
  /\ UNCHANGED config

\* rxintflag: cleared by the host, then set by what this edge finds.
Flags(clear, par, new) ==
  rxintflag' = [par  |-> par \/ (rxintflag.par /\ ~clear),
                full |-> (diff = DiffMax) /\ ~clear,
                new  |-> new \/ (rxintflag.new /\ ~clear)]

\* waiting: flush when the channel is off, take a word, serve a read.  The
\* assignments of the read come last and win over the others.
Waiting(rx, bad, rd, clear, a) ==
  /\ state = "waiting"
  /\ Edge(rx, bad, rd, a)
  /\ Flags(clear, Rejects, FALSE)
  /\ cnt' = 0 /\ flag_we' = FALSE /\ bufer_we_b' = FALSE
  /\ flags_data' = flag_mask_q
  /\ state' = IF Checks THEN "flag_check"
              ELSE IF RxFlag_sig /\ ~Rejects THEN "arinc_event" ELSE "waiting"
  /\ RxFlag_sig'   = (rx # NoWord /\ ~RxFlag_sig)
  /\ bufer_rd_sig' = (~ReadTaken /\ (bufer_rd_sig \/ rd))
  /\ IF Pops THEN readed_addr' = NextHead /\ diff' = diff - 1
     ELSE IF ~on THEN readed_addr' = Lo /\ diff' = 0
     ELSE UNCHANGED fifo
  /\ overrun'  = (overrun /\ (on \/ Pops))
  /\ headRead' = (~Pops /\ on /\ (headRead \/ GivesHead))
  /\ UNCHANGED <<mask_flags_addr, bufer_addr_b, received>>
-----------------------------------------------------------------------------
\* arinc_event: eight edges that look the label up in the mask, store the
\* word, and in address mode write the flag word of the label's group.
MaskAddressKept ==
  mask_flags_addr' = IF cnt = 0 THEN "mask" ELSE mask_flags_addr
MaskAddress ==
  mask_flags_addr' = CASE cnt = 0 -> "mask" [] cnt = 6 -> "flags"
                       [] OTHER   -> mask_flags_addr

Store ==
  /\ bufer_we_b' = TRUE
  /\ bufer_addr_b' = IF addrMode THEN recieved_word ELSE WriteAddr
  /\ diff' = IF addrMode \/ diff = DiffMax THEN diff ELSE diff + 1
  /\ overrun' = (overrun \/ (~addrMode /\ diff >= Size))
  /\ received' = IF addrMode THEN received \union {recieved_word} ELSE received

ArincEvent(rx, bad, rd, clear, a) ==
  /\ state = "arinc_event"
  /\ Edge(rx, bad, rd, a)
  /\ Flags(clear, FALSE, Stores)
  /\ flags_data' = flag_mask_q \union {recieved_word}
  /\ MaskAddress
  /\ IF Stores THEN Store
     ELSE bufer_we_b' = FALSE /\ UNCHANGED <<bufer_addr_b, diff, overrun, received>>
  /\ flag_we' = (cnt = 7 /\ mask_accepted /\ addrMode)
  /\ cnt'   = IF cnt = 7 THEN 0 ELSE cnt + 1
  /\ state' = IF cnt = 7 THEN "waiting" ELSE "arinc_event"
  /\ RxFlag_sig' = (RxFlag_sig \/ rx # NoWord)
  /\ bufer_rd_sig' = (bufer_rd_sig \/ rd)
  /\ headRead' = (headRead \/ GivesHead)
  /\ UNCHANGED readed_addr

\* flag_check: four edges that take the bit of the word the host read out of
\* the flag word.
FlagCheck(rx, bad, rd, clear, a) ==
  /\ state = "flag_check"
  /\ Edge(rx, bad, rd, a)
  /\ Flags(clear, FALSE, FALSE)
  /\ flags_data' = ClearedFlags
  /\ mask_flags_addr' = IF cnt = 0 THEN "flags" ELSE mask_flags_addr
  /\ flag_we' = (cnt = 3) /\ bufer_we_b' = FALSE
  /\ cnt'   = cnt + 1
  /\ state' = IF cnt = 3 THEN "waiting" ELSE "flag_check"
  /\ received' = IF cnt = 3 THEN received \ {asked} ELSE received
  /\ RxFlag_sig' = (RxFlag_sig \/ rx # NoWord)
  /\ bufer_rd_sig' = (bufer_rd_sig \/ rd)
  /\ headRead' = (headRead \/ GivesHead)
  /\ UNCHANGED <<readed_addr, diff, bufer_addr_b, overrun>>
-----------------------------------------------------------------------------
\* The environment.  A word takes 32 bit times, thousands of edges at the
\* fastest ARINC speed, so the next one never meets the one before.  Speed 00
\* does not stop it at once: arinc429_rx takes a new speed only in the gap
\* after a word, so a word may still come when the channel is off.
WordMayArrive == ~RxFlag_sig /\ state # "arinc_event"

\* A polling host has seen a count other than 0 (FIFO) and lets a read finish
\* before the next access; any other host reads at any edge.  The count came
\* through the four stages of rd, so it is older than the write on port b.
Quiet       == ~bufer_rd_sig /\ ~rd2 /\ state # "flag_check" /\ ~flag_we
CountSeen   == diff > 1 \/ (diff = 1 /\ ~bufer_we_b)
HostMayRead == ~PolledHost \/ (Quiet /\ on /\ (addrMode \/ CountSeen))

Clock ==
  \E rx \in Labels \union {NoWord}, bad, rd, clear \in BOOLEAN, a \in Labels :
    /\ rx # NoWord => WordMayArrive
    /\ rx = NoWord => ~bad
    /\ rd => HostMayRead
    /\ a # bufer_addr => addrMode /\ (~PolledHost \/ Quiet)
    /\ \/ Waiting(rx, bad, rd, clear, a)
       \/ ArincEvent(rx, bad, rd, clear, a)
       \/ FlagCheck(rx, bad, rd, clear, a)

\* The host writes rxconfig: switch the channel on or off, change the mode.
Configure ==
  /\ on' \in BOOLEAN /\ addrMode' \in Modes
  /\ config' # config
  /\ PolledHost => Quiet /\ state = "waiting" /\ ~RxFlag_sig
  /\ UNCHANGED <<fsm, fifo, latches, input, bufport, mskport, rxintflag, history>>

Next == Clock \/ Configure

Spec     == Init /\ [][Next]_vars
FairSpec == Spec /\ WF_vars(Clock)
-----------------------------------------------------------------------------
(* Properties.                                                             *)

\* Types.  The count is one of diff's 10 bits, the head never leaves the ring.
TypeInv ==
  /\ on \in BOOLEAN /\ addrMode \in Modes
  /\ state \in {"waiting", "arinc_event", "flag_check"} /\ cnt \in 0 .. 7
  /\ readed_addr \in Ring /\ diff \in 0 .. DiffMax
  /\ RxFlag_sig \in BOOLEAN /\ bufer_rd_sig \in BOOLEAN
  /\ recieved_word \in Labels /\ ParErr \in BOOLEAN
  /\ bufer_addr \in Labels /\ rd2 \in BOOLEAN
  /\ bufer_addr_b \in 0 .. Top - 1 /\ bufer_we_b \in BOOLEAN
  /\ ram_buf \in [0 .. Top - 1 -> Labels] /\ bufer_q \in Labels
  /\ mask_flags_addr \in {"mask", "flags"} /\ flag_we \in BOOLEAN
  /\ flags_data \in SUBSET Labels /\ flag_mask_q \in SUBSET Labels
  /\ ram_mask \in [{"mask", "flags"} -> SUBSET Labels]
  /\ rxintflag \in [par : BOOLEAN, full : BOOLEAN, new : BOOLEAN]
  /\ overrun \in BOOLEAN /\ headRead \in BOOLEAN
  /\ asked \in Labels /\ received \in SUBSET Labels

\* The ring is a FIFO queue of the accepted words for as long as the host
\* keeps up: stores, pops, the wrap of both addresses and the two-edge write
\* through port b never reorder, lose or overwrite a word before an overrun.
Fifo == INSTANCE WordFifo WITH
          Word <- Labels, Capacity <- Size, word <- recieved_word,
          queue <- IF overrun THEN <<>> ELSE Contents, lost <- overrun
IsFifo == Fifo!Spec

\* A host that polls the count gets each word exactly once: a word leaves the
\* ring only when it was put in the host's data register, and is not put there
\* twice, whatever the latched read met in the state machine.
ExactlyOnce ==
  [][ /\ Pops /\ ~overrun => headRead \/ GivesHead
      /\ GivesHead => ~headRead ]_vars

\* Nothing of a word with bad parity reaches the buffer, unless rxconfig[6].
BadParityKeptOut == state = "arinc_event" => ParityOff \/ ~ParErr

\* FIFO mode: every good word that arrives is taken out of the latch and
\* looked up, whatever the host reads meanwhile.
WordTaken == (RxFlag_sig /\ ~ParErr /\ ~addrMode) ~> state = "arinc_event"

\* Address mode: a flag goes out only by the host's read of that very label.
FlagGoesByItsRead ==
  [][ \A l \in ram_mask["flags"] : l \in ram_mask'["flags"] \/ l = asked ]_vars

\* Address mode: when the machine is at rest every label received since its
\* flag was last cleared has its flag set.
ReceivedIsFlagged ==
  state = "waiting" /\ ~flag_we => received \subseteq ram_mask["flags"]

\* What "flags of the received words" (arinc429.sv) says: a flag that is set
\* belongs to a word that was received.  The code breaks it: the flag word it
\* writes is built from the mask word still on the RAM's output.
FlagMeansReceived == ram_mask["flags"] \subseteq received

\* The registers in their ranges, and no word of bad parity on its way into
\* the buffer.
RxSafe == TypeInv /\ BadParityKeptOut
=============================================================================
