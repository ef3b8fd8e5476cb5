--------------------------- MODULE ArincRxProofs ---------------------------
(***************************************************************************)
(* The receive channel keeps its types, and in any mode, with any host, it *)
(* implements WordFifo, for every size of the ring.  With a host that      *)
(* polls the count and lets a read finish, every label received has its    *)
(* flag, a flag goes by the read of its label only, and every word is read *)
(* once.                                                                   *)
(***************************************************************************)
EXTENDS ArincRxController, SequenceTheorems, TLAPS

\* Inductive: the four edges of flag_check keep cnt in range, and the count
\* is within the ring as long as no overrun is recorded.
IInv ==
  /\ TypeInv
  /\ state = "flag_check" => cnt <= 3
  /\ ~overrun => diff <= Size

LEMMA ConstFacts ==
  /\ Lo \in Nat /\ Top \in Nat /\ 0 < Lo /\ Lo < Top
  /\ Size \in Nat /\ Size <= DiffMax /\ DiffMax \in Nat /\ 0 < Size
  /\ 0 \in Labels /\ Labels \subseteq 0 .. Top - 1 /\ Ring \subseteq 0 .. Top - 1
  /\ NoWord \notin Labels
BY RingAssumption DEF Size, DiffMax, Labels, Ring, NoWord

\* The address the code computes is a word of the RAM, and while the ring is
\* not full it is the slot after the last word.
LEMMA WriteAddrFacts ==
  ASSUME TypeInv
  PROVE  /\ WriteAddr \in 0 .. Top - 1
         /\ diff < Size => WriteAddr = Slot(diff)
BY ConstFacts DEF TypeInv, WriteAddr, Cut, addr_to_write, Slot, Ring, DiffMax, Size

\* Every edge keeps the types of what Edge assigns.
LEMMA EdgeTypes ==
  ASSUME TypeInv,
         NEW rx \in Labels \union {NoWord}, NEW bad \in BOOLEAN,
         NEW rd \in BOOLEAN, NEW a \in Labels, Edge(rx, bad, rd, a)
  PROVE  /\ on' \in BOOLEAN /\ addrMode' \in Modes
         /\ recieved_word' \in Labels /\ ParErr' \in BOOLEAN
         /\ bufer_addr' \in Labels /\ rd2' \in BOOLEAN /\ asked' \in Labels
         /\ ram_buf' \in [0 .. Top - 1 -> Labels] /\ bufer_q' \in Labels
         /\ ram_mask' \in [{"mask", "flags"} -> SUBSET Labels]
         /\ flag_mask_q' \in SUBSET Labels
<1>1. on' \in BOOLEAN /\ addrMode' \in Modes
  BY DEF Edge, config, TypeInv
<1>2. recieved_word' \in Labels /\ ParErr' \in BOOLEAN
  BY DEF Edge, NewWord, TypeInv
<1>3. bufer_addr' \in Labels /\ rd2' \in BOOLEAN /\ asked' \in Labels
  BY DEF Edge, TypeInv
<1>4. ram_buf' \in [0 .. Top - 1 -> Labels]
  BY DEF Edge, Settled, TypeInv
<1>5. bufer_q' \in Labels
  BY ConstFacts DEF Edge, TypeInv, Ring
<1>6. ram_mask' \in [{"mask", "flags"} -> SUBSET Labels]
  BY DEF Edge, TypeInv
<1>7. flag_mask_q' \in SUBSET Labels
  BY <1>6 DEF Edge, TypeInv
<1>8. QED BY <1>1, <1>2, <1>3, <1>4, <1>5, <1>6, <1>7

LEMMA InitIInv == Init => IInv
<1> SUFFICES ASSUME Init PROVE IInv
  OBVIOUS
<1>1. /\ on \in BOOLEAN /\ addrMode \in Modes
      /\ state \in {"waiting", "arinc_event", "flag_check"} /\ cnt \in 0 .. 7
      /\ readed_addr \in Ring /\ diff \in 0 .. DiffMax
      /\ recieved_word \in Labels /\ bufer_addr \in Labels
      /\ bufer_addr_b \in 0 .. Top - 1
      /\ ram_buf \in [0 .. Top - 1 -> Labels] /\ bufer_q \in Labels
      /\ mask_flags_addr \in {"mask", "flags"}
      /\ flags_data \in SUBSET Labels /\ flag_mask_q \in SUBSET Labels
      /\ asked \in Labels /\ received \in SUBSET Labels
  BY ConstFacts DEF Init, Ring
<1>2. ram_mask \in [{"mask", "flags"} -> SUBSET Labels]
  BY DEF Init
<1>3. rxintflag \in [par : BOOLEAN, full : BOOLEAN, new : BOOLEAN]
  BY DEF Init
<1>4. /\ RxFlag_sig \in BOOLEAN /\ bufer_rd_sig \in BOOLEAN
      /\ ParErr \in BOOLEAN /\ rd2 \in BOOLEAN /\ bufer_we_b \in BOOLEAN
      /\ flag_we \in BOOLEAN /\ overrun \in BOOLEAN /\ headRead \in BOOLEAN
  BY DEF Init
<1>5. TypeInv
  BY <1>1, <1>2, <1>3, <1>4, Zenon DEF TypeInv
<1>6. state # "flag_check" /\ diff <= Size
  BY ConstFacts DEF Init
<1>7. QED BY <1>5, <1>6 DEF IInv

LEMMA WaitingIInv ==
  ASSUME IInv,
         NEW rx \in Labels \union {NoWord}, NEW bad \in BOOLEAN, NEW rd \in BOOLEAN,
         NEW clear \in BOOLEAN, NEW a \in Labels, Waiting(rx, bad, rd, clear, a)
  PROVE  IInv'
<1>0. TypeInv BY DEF IInv
<1>1. Edge(rx, bad, rd, a) BY DEF Waiting
<1>2. /\ readed_addr' \in Ring /\ diff' \in 0 .. DiffMax
      /\ ~overrun' => diff' <= Size
  <2>1. CASE Pops
    BY <2>1, <1>0, ConstFacts DEF IInv, TypeInv, Waiting, Pops, NextHead, Ring, DiffMax
  <2>2. CASE ~Pops /\ ~on
    BY <2>2, <1>0, ConstFacts DEF IInv, TypeInv, Waiting, Ring
  <2>3. CASE ~Pops /\ on
    BY <2>3, <1>0, ConstFacts DEF IInv, TypeInv, Waiting, fifo
  <2>4. QED BY <2>1, <2>2, <2>3
<1>3. rxintflag' \in [par : BOOLEAN, full : BOOLEAN, new : BOOLEAN]
  BY <1>0 DEF Waiting, Flags, TypeInv, Rejects
<1>4. /\ state' \in {"waiting", "arinc_event", "flag_check"}
      /\ cnt' \in 0 .. 7
      /\ state' = "flag_check" => cnt' <= 3
      /\ RxFlag_sig' \in BOOLEAN /\ bufer_rd_sig' \in BOOLEAN
      /\ bufer_addr_b' \in 0 .. Top - 1 /\ bufer_we_b' \in BOOLEAN
      /\ mask_flags_addr' \in {"mask", "flags"} /\ flag_we' \in BOOLEAN
      /\ flags_data' \in SUBSET Labels
      /\ overrun' \in BOOLEAN /\ headRead' \in BOOLEAN
      /\ received' \in SUBSET Labels
  <2>1. cnt' = 0
    BY DEF Waiting
  <2>2. /\ cnt' \in 0 .. 7
        /\ state' = "flag_check" => cnt' <= 3
    BY <2>1
  <2>3. state' \in {"waiting", "arinc_event", "flag_check"}
    BY DEF Waiting
  <2>4. /\ RxFlag_sig' \in BOOLEAN /\ bufer_rd_sig' \in BOOLEAN
        /\ bufer_we_b' \in BOOLEAN /\ flag_we' \in BOOLEAN
        /\ overrun' \in BOOLEAN /\ headRead' \in BOOLEAN
    BY DEF Waiting
  <2>5. /\ bufer_addr_b' \in 0 .. Top - 1
        /\ mask_flags_addr' \in {"mask", "flags"}
        /\ flags_data' \in SUBSET Labels /\ received' \in SUBSET Labels
    BY <1>0 DEF Waiting, TypeInv
  <2>6. QED BY <2>2, <2>3, <2>4, <2>5
<1>5. /\ on' \in BOOLEAN /\ addrMode' \in Modes
      /\ recieved_word' \in Labels /\ ParErr' \in BOOLEAN
      /\ bufer_addr' \in Labels /\ rd2' \in BOOLEAN /\ asked' \in Labels
      /\ ram_buf' \in [0 .. Top - 1 -> Labels] /\ bufer_q' \in Labels
      /\ ram_mask' \in [{"mask", "flags"} -> SUBSET Labels]
      /\ flag_mask_q' \in SUBSET Labels
  BY <1>0, <1>1, EdgeTypes
<1>6. TypeInv'
  BY <1>2, <1>3, <1>4, <1>5, Zenon DEF TypeInv
<1>7. QED BY <1>2, <1>4, <1>6, Zenon DEF IInv

LEMMA ArincEventIInv ==
  ASSUME IInv,
         NEW rx \in Labels \union {NoWord}, NEW bad \in BOOLEAN, NEW rd \in BOOLEAN,
         NEW clear \in BOOLEAN, NEW a \in Labels, ArincEvent(rx, bad, rd, clear, a)
  PROVE  IInv'
<1>0. TypeInv BY DEF IInv
<1>1. Edge(rx, bad, rd, a) BY DEF ArincEvent
<1>2. /\ diff' \in 0 .. DiffMax
      /\ ~overrun' => diff' <= Size
      /\ bufer_addr_b' \in 0 .. Top - 1 /\ bufer_we_b' \in BOOLEAN
      /\ overrun' \in BOOLEAN /\ received' \in SUBSET Labels
  <2>1. CASE Stores
    <3>1. Store BY <2>1 DEF ArincEvent
    <3>2. bufer_addr_b' \in 0 .. Top - 1
      BY <3>1, <1>0, ConstFacts, WriteAddrFacts DEF TypeInv, Store
    <3>3. diff' \in 0 .. DiffMax
      BY <3>1, <1>0, ConstFacts DEF TypeInv, Store
    <3>4. ~overrun' => ~overrun /\ (addrMode \/ ~(diff >= Size))
      BY <3>1, <1>0, Zenon DEF TypeInv, Store
    <3>5. ASSUME ~overrun' PROVE diff' <= Size
      BY <3>1, <3>4, <3>5, <1>0, ConstFacts DEF IInv, TypeInv, Store
    <3>6. /\ bufer_we_b' \in BOOLEAN /\ overrun' \in BOOLEAN
          /\ received' \in SUBSET Labels
      BY <3>1, <1>0 DEF TypeInv, Store
    <3>7. QED BY <3>2, <3>3, <3>5, <3>6
  <2>2. CASE ~Stores
    BY <2>2, <1>0 DEF IInv, TypeInv, ArincEvent
  <2>3. QED BY <2>1, <2>2
<1>3. rxintflag' \in [par : BOOLEAN, full : BOOLEAN, new : BOOLEAN]
  BY <1>0 DEF ArincEvent, Flags, TypeInv, Stores, mask_accepted
<1>4. /\ state' \in {"waiting", "arinc_event", "flag_check"}
      /\ cnt' \in 0 .. 7
      /\ state' = "flag_check" => cnt' <= 3
      /\ readed_addr' \in Ring
      /\ RxFlag_sig' \in BOOLEAN /\ bufer_rd_sig' \in BOOLEAN
      /\ mask_flags_addr' \in {"mask", "flags"} /\ flag_we' \in BOOLEAN
      /\ flags_data' \in SUBSET Labels /\ headRead' \in BOOLEAN
  BY <1>0 DEF ArincEvent, TypeInv, MaskAddress
<1>5. /\ on' \in BOOLEAN /\ addrMode' \in Modes
      /\ recieved_word' \in Labels /\ ParErr' \in BOOLEAN
      /\ bufer_addr' \in Labels /\ rd2' \in BOOLEAN /\ asked' \in Labels
      /\ ram_buf' \in [0 .. Top - 1 -> Labels] /\ bufer_q' \in Labels
      /\ ram_mask' \in [{"mask", "flags"} -> SUBSET Labels]
      /\ flag_mask_q' \in SUBSET Labels
  BY <1>0, <1>1, EdgeTypes
<1>6. TypeInv'
  BY <1>2, <1>3, <1>4, <1>5, Zenon DEF TypeInv
<1>7. QED BY <1>2, <1>4, <1>6, Zenon DEF IInv

LEMMA FlagCheckIInv ==
  ASSUME IInv,
         NEW rx \in Labels \union {NoWord}, NEW bad \in BOOLEAN, NEW rd \in BOOLEAN,
         NEW clear \in BOOLEAN, NEW a \in Labels, FlagCheck(rx, bad, rd, clear, a)
  PROVE  IInv'
<1>0. TypeInv BY DEF IInv
<1>1. Edge(rx, bad, rd, a) BY DEF FlagCheck
<1>2. /\ readed_addr' \in Ring /\ diff' \in 0 .. DiffMax
      /\ ~overrun' => diff' <= Size
      /\ overrun' \in BOOLEAN /\ received' \in SUBSET Labels
      /\ bufer_addr_b' \in 0 .. Top - 1 /\ bufer_we_b' \in BOOLEAN
  BY <1>0 DEF IInv, TypeInv, FlagCheck
<1>3. rxintflag' \in [par : BOOLEAN, full : BOOLEAN, new : BOOLEAN]
  BY <1>0 DEF FlagCheck, Flags, TypeInv
<1>4. /\ state' \in {"waiting", "arinc_event", "flag_check"} /\ cnt' \in 0 .. 7
      /\ state' = "flag_check" => cnt' <= 3
      /\ RxFlag_sig' \in BOOLEAN /\ bufer_rd_sig' \in BOOLEAN
      /\ mask_flags_addr' \in {"mask", "flags"} /\ flag_we' \in BOOLEAN
      /\ flags_data' \in SUBSET Labels /\ headRead' \in BOOLEAN
  BY <1>0 DEF IInv, FlagCheck, TypeInv, ClearedFlags
<1>5. /\ on' \in BOOLEAN /\ addrMode' \in Modes
      /\ recieved_word' \in Labels /\ ParErr' \in BOOLEAN
      /\ bufer_addr' \in Labels /\ rd2' \in BOOLEAN /\ asked' \in Labels
      /\ ram_buf' \in [0 .. Top - 1 -> Labels] /\ bufer_q' \in Labels
      /\ ram_mask' \in [{"mask", "flags"} -> SUBSET Labels]
      /\ flag_mask_q' \in SUBSET Labels
  BY <1>0, <1>1, EdgeTypes
<1>6. TypeInv'
  BY <1>2, <1>3, <1>4, <1>5, Zenon DEF TypeInv
<1>7. QED BY <1>2, <1>4, <1>6, Zenon DEF IInv

LEMMA NextIInv == IInv /\ [Next]_vars => IInv'
<1> SUFFICES ASSUME IInv, [Next]_vars PROVE IInv'
  OBVIOUS
<1>1. CASE Clock
  BY <1>1, WaitingIInv, ArincEventIInv, FlagCheckIInv DEF Clock
<1>2. CASE Configure
  BY <1>2 DEF Configure, IInv, TypeInv, fsm, fifo, latches, input, bufport,
              mskport, history
<1>3. CASE UNCHANGED vars
  BY <1>3 DEF IInv, TypeInv, vars, config, fsm, fifo, latches, input, bufport,
              mskport, history
<1>4. QED BY <1>1, <1>2, <1>3 DEF Next

LEMMA IInvAlways == Spec => []IInv
BY InitIInv, NextIInv, PTL DEF Spec

\* For every ring size the head stays in the ring, the count in its width and
\* the write address in the RAM.
THEOREM TypeCorrect == Spec => []TypeInv
<1>1. IInv => TypeInv BY DEF IInv
<1>2. QED BY <1>1, IInvAlways, PTL

\* A word of bad parity is turned away in "waiting", and none can arrive while
\* an accepted one is looked up, so the parity looked at is the word's own.
LEMMA NextParity ==
  BadParityKeptOut /\ [Next]_vars => BadParityKeptOut'
<1> SUFFICES ASSUME BadParityKeptOut, [Next]_vars, state' = "arinc_event"
             PROVE  ParityOff \/ ~ParErr'
  BY DEF BadParityKeptOut
<1>1. CASE Clock
  <2>1. PICK rx \in Labels \union {NoWord}, bad, rd, clear \in BOOLEAN, a \in Labels :
          /\ rx # NoWord => WordMayArrive
          /\ \/ Waiting(rx, bad, rd, clear, a)
             \/ ArincEvent(rx, bad, rd, clear, a)
             \/ FlagCheck(rx, bad, rd, clear, a)
    BY <1>1 DEF Clock
  <2>2. CASE Waiting(rx, bad, rd, clear, a)
    <3>1. RxFlag_sig /\ ~Rejects
      BY <2>2 DEF Waiting
    <3>2. ParErr' = ParErr
      BY <2>1, <2>2, <3>1 DEF Waiting, Edge, NewWord, WordMayArrive
    <3>3. QED BY <3>1, <3>2 DEF Rejects
  <2>3. CASE ArincEvent(rx, bad, rd, clear, a)
    BY <2>1, <2>3 DEF ArincEvent, Edge, NewWord, WordMayArrive, BadParityKeptOut
  <2>4. CASE FlagCheck(rx, bad, rd, clear, a)
    BY <2>4 DEF FlagCheck
  <2>5. QED BY <2>1, <2>2, <2>3, <2>4
<1>2. CASE Configure \/ UNCHANGED vars
  BY <1>2 DEF Configure, vars, fsm, input, BadParityKeptOut
<1>3. QED BY <1>1, <1>2 DEF Next

\* For every ring size, mode and host: the registers stay in their ranges and
\* no word of bad parity is on its way into the buffer.
THEOREM ReceiverSafe == Spec => []RxSafe
<1>1. Init => BadParityKeptOut
  BY DEF Init, BadParityKeptOut
<1>2. TypeInv /\ BadParityKeptOut => RxSafe
  BY DEF RxSafe
<1>3. QED BY <1>1, <1>2, NextParity, TypeCorrect, PTL DEF Spec
-----------------------------------------------------------------------------
(* The ring is a FIFO queue.                                               *)

\* While the count is within the ring the queue is a sequence of that length.
ContentsOK ==
  TypeInv /\ diff <= Size =>
    /\ Contents \in Seq(Labels) /\ Len(Contents) = diff
    /\ \A i \in 1 .. diff : Contents[i] = Settled[Slot(i - 1)]

LEMMA ContentsSeq == ContentsOK
<1> SUFFICES ASSUME TypeInv, diff <= Size
             PROVE  /\ Contents \in Seq(Labels) /\ Len(Contents) = diff
                    /\ \A i \in 1 .. diff : Contents[i] = Settled[Slot(i - 1)]
  BY DEF ContentsOK
<1>1. Settled \in [0 .. Top - 1 -> Labels]
  BY DEF Settled, TypeInv
<1>2. \A i \in 1 .. diff : Slot(i - 1) \in 0 .. Top - 1
  BY ConstFacts DEF Slot, TypeInv, Ring, Size
<1>3. Contents \in [1 .. diff -> Labels]
  BY <1>1, <1>2 DEF Contents
<1>4. diff \in Nat
  BY ConstFacts DEF TypeInv
<1>5. Contents \in Seq(Labels)
  BY <1>3, <1>4, SeqDef
<1>6. DOMAIN Contents = 1 .. diff
  BY DEF Contents
<1>7. Len(Contents) = diff
  BY <1>4, <1>5, <1>6, LenProperties
<1>8. QED BY <1>5, <1>7 DEF Contents

\* An edge that neither stores, pops nor flushes leaves the queue alone: the
\* write on port b moves into the RAM, where Contents saw it already.
LEMMA QuietEdge ==
  ASSUME ram_buf' = Settled, bufer_we_b' = FALSE,
         readed_addr' = readed_addr, diff' = diff
  PROVE  Contents' = Contents
BY DEF Contents, Settled, Slot

LEMMA InitFifo == Init => Fifo!Init
<1> SUFFICES ASSUME Init PROVE Fifo!Init
  OBVIOUS
<1>1. recieved_word \in Labels
  BY ConstFacts DEF Init, Labels
<1>2. ~overrun /\ Contents = <<>>
  BY DEF Init, Contents
<1>3. QED BY <1>1, <1>2 DEF Init, Fifo!Init

\* A pop takes the first word: each slot comes one step nearer to the head.
LEMMA PopGets ==
  ASSUME IInv, IInv', ~overrun, ~overrun', Pops,
         ram_buf' = Settled, bufer_we_b' = FALSE,
         readed_addr' = NextHead, diff' = diff - 1
  PROVE  Contents # <<>> /\ Contents' = Tail(Contents)
<1>1. /\ Contents \in Seq(Labels) /\ Len(Contents) = diff
      /\ \A i \in 1 .. diff : Contents[i] = Settled[Slot(i - 1)]
  BY ContentsSeq DEF IInv, ContentsOK
<1>2. /\ Contents' \in Seq(Labels) /\ Len(Contents') = diff'
      /\ \A i \in 1 .. diff' : Contents'[i] = Settled'[Slot(i - 1)']
  <2>1. ContentsOK'
    BY ContentsSeq, PTL
  <2>2. QED BY <2>1 DEF IInv, ContentsOK
<1>3. diff \in Nat /\ diff # 0
  BY ConstFacts DEF Pops, IInv, TypeInv
<1>4. Contents # <<>>
  BY <1>1, <1>3, EmptySeq
<1>5. /\ Tail(Contents) \in Seq(Labels) /\ Len(Tail(Contents)) = diff - 1
      /\ \A i \in 1 .. diff - 1 : Tail(Contents)[i] = Contents[i + 1]
  BY <1>1, <1>4, HeadTailProperties
<1>6. \A i \in 1 .. diff - 1 : Slot(i - 1)' = Slot(i)
  <2> TAKE i \in 1 .. diff - 1
  <2>1. /\ readed_addr \in Lo .. Top - 1 /\ diff <= Top - Lo
        /\ Lo \in Nat /\ Top \in Nat /\ i \in Nat /\ 0 < i /\ i < diff
    BY <1>3, ConstFacts DEF IInv, TypeInv, Ring, Size
  <2>2. CASE readed_addr = Top - 1
    BY <2>1, <2>2, <1>3 DEF Slot, NextHead, Size
  <2>3. CASE readed_addr # Top - 1
    BY <2>1, <2>3, <1>3 DEF Slot, NextHead, Size
  <2>4. QED BY <2>2, <2>3
<1>7. Settled' = Settled
  BY DEF Settled
<1>8. \A i \in 1 .. diff - 1 : Contents'[i] = Tail(Contents)[i]
  <2> TAKE i \in 1 .. diff - 1
  <2>1. i + 1 \in 1 .. diff /\ (i + 1) - 1 = i
    BY <1>3
  <2>2. Contents'[i] = Settled[Slot(i)]
    BY <1>2, <1>6, <1>7
  <2>3. Contents[i + 1] = Settled[Slot(i)]
    BY <1>1, <2>1
  <2>4. QED BY <1>5, <2>2, <2>3
<1>9. QED BY <1>2, <1>4, <1>5, <1>8, SeqEqual

\* A store below the size of the ring appends the word: the address is the
\* slot after the last, and no slot that holds an unread word.
LEMMA StorePuts ==
  ASSUME IInv, IInv', ~overrun, ~overrun', diff < Size, diff' = diff + 1,
         readed_addr' = readed_addr, recieved_word' = recieved_word,
         ram_buf' = Settled, bufer_we_b' = TRUE, bufer_addr_b' = WriteAddr
  PROVE  Contents' = Append(Contents, recieved_word)
<1>0. diff \in Nat /\ recieved_word \in Labels
  BY ConstFacts DEF IInv, TypeInv
<1>1. /\ Contents \in Seq(Labels) /\ Len(Contents) = diff
      /\ \A i \in 1 .. diff : Contents[i] = Settled[Slot(i - 1)]
  BY ContentsSeq DEF IInv, ContentsOK
<1>2. /\ Contents' \in Seq(Labels) /\ Len(Contents') = diff'
      /\ \A i \in 1 .. diff' : Contents'[i] = Settled'[Slot(i - 1)']
  <2>1. ContentsOK'
    BY ContentsSeq, PTL
  <2>2. QED BY <2>1 DEF IInv, ContentsOK
<1>3. /\ Append(Contents, recieved_word) \in Seq(Labels)
      /\ Len(Append(Contents, recieved_word)) = diff + 1
      /\ \A i \in 1 .. diff : Append(Contents, recieved_word)[i] = Contents[i]
      /\ Append(Contents, recieved_word)[diff + 1] = recieved_word
  BY <1>0, <1>1, AppendProperties
<1>4. WriteAddr \in 0 .. Top - 1 /\ WriteAddr = Slot(diff)
  BY WriteAddrFacts DEF IInv
<1>5. Settled \in [0 .. Top - 1 -> Labels]
  BY DEF Settled, IInv, TypeInv
<1>6. Settled' = [Settled EXCEPT ![WriteAddr] = recieved_word]
  BY DEF Settled
<1>7. \A i \in 1 .. diff + 1 : Slot(i - 1)' = Slot(i - 1)
  BY DEF Slot
<1>8. \A i \in 1 .. diff : Slot(i - 1) \in 0 .. Top - 1 /\ Slot(i - 1) # Slot(diff)
  BY <1>0, ConstFacts DEF IInv, TypeInv, Slot, Ring, Size
<1>9. \A i \in 1 .. diff : Contents'[i] = Contents[i]
  <2> TAKE i \in 1 .. diff
  <2>1. i \in 1 .. diff' /\ i \in 1 .. diff + 1
    BY <1>0
  <2>2. Contents'[i] = Settled'[Slot(i - 1)]
    BY <1>2, <1>7, <2>1
  <2>3. Settled'[Slot(i - 1)] = Settled[Slot(i - 1)]
    BY <1>4, <1>5, <1>6, <1>8
  <2>4. QED BY <1>1, <2>2, <2>3
<1>10. Contents'[diff + 1] = recieved_word
  <2>1. diff + 1 \in 1 .. diff' /\ diff + 1 \in 1 .. diff + 1 /\ (diff + 1) - 1 = diff
    BY <1>0
  <2>2. Contents'[diff + 1] = Settled'[Slot(diff)]
    BY <1>2, <1>7, <2>1
  <2>3. QED BY <2>2, <1>4, <1>5, <1>6
<1>11. \A i \in 1 .. diff + 1 : Contents'[i] = Append(Contents, recieved_word)[i]
  <2> TAKE i \in 1 .. diff + 1
  <2>1. CASE i \in 1 .. diff
    BY <2>1, <1>3, <1>9
  <2>2. CASE i = diff + 1
    BY <2>2, <1>3, <1>10
  <2>3. i \in 1 .. diff \/ i = diff + 1
    BY <1>0
  <2>4. QED BY <2>1, <2>2, <2>3
<1>12. QED BY <1>2, <1>3, <1>11, SeqEqual

\* A store outside the ring (address mode) does not touch the queue.
LEMMA StoreAside ==
  ASSUME IInv, ~overrun, diff' = diff, readed_addr' = readed_addr,
         recieved_word' = recieved_word, ram_buf' = Settled, bufer_we_b' = TRUE,
         bufer_addr_b' = recieved_word
  PROVE  Contents' = Contents
<1>1. Settled \in [0 .. Top - 1 -> Labels]
  BY DEF Settled, IInv, TypeInv
<1>2. Settled' = [Settled EXCEPT ![recieved_word] = recieved_word]
  BY DEF Settled
<1>3. \A i \in 1 .. diff : Slot(i - 1) \in 0 .. Top - 1 /\ Slot(i - 1) # recieved_word
  BY ConstFacts DEF IInv, TypeInv, Slot, Ring, Size, Labels
<1>4. \A i \in 1 .. diff : Settled'[Slot(i - 1)] = Settled[Slot(i - 1)]
  BY <1>1, <1>2, <1>3
<1>5. \A i \in 1 .. diff : Slot(i - 1)' = Slot(i - 1)
  BY DEF Slot
<1>6. QED BY <1>4, <1>5 DEF Contents

LEMMA WaitingFifo ==
  ASSUME IInv, IInv',
         NEW rx \in Labels \union {NoWord}, NEW bad \in BOOLEAN, NEW rd \in BOOLEAN,
         NEW clear \in BOOLEAN, NEW a \in Labels, Waiting(rx, bad, rd, clear, a)
  PROVE  [Fifo!Next]_Fifo!queueVars
<1>1. ram_buf' = Settled /\ bufer_we_b' = FALSE
  BY DEF Waiting, Edge
<1>2. overrun \in BOOLEAN /\ overrun' = (overrun /\ (on \/ Pops))
  BY DEF Waiting, IInv, TypeInv
<1>word. recieved_word' \in Labels
  BY DEF IInv, TypeInv
<1>3. CASE Pops
  <2>1. readed_addr' = NextHead /\ diff' = diff - 1
    BY <1>3 DEF Waiting
  <2>2. overrun' = overrun
    BY <1>2, <1>3
  <2>3. CASE overrun
    BY <1>word, <2>2, <2>3 DEF Fifo!Next, Fifo!Arrive
  <2>4. CASE ~overrun
    <3>1. Contents # <<>> /\ Contents' = Tail(Contents)
      BY <1>1, <1>3, <2>1, <2>2, <2>4, PopGets
    <3>2. Fifo!Get
      BY <1>word, <3>1, <2>2, <2>4 DEF Fifo!Get
    <3>3. QED BY <3>2 DEF Fifo!Next
  <2>5. QED BY <2>3, <2>4
<1>4. CASE ~Pops /\ ~on
  <2>1. diff' = 0 /\ overrun' = FALSE
    BY <1>2, <1>4 DEF Waiting
  <2>2. Contents' = <<>>
    BY <2>1 DEF Contents
  <2>3. Fifo!Flush
    BY <1>word, <2>1, <2>2 DEF Fifo!Flush
  <2>4. QED BY <2>3 DEF Fifo!Next
<1>5. CASE ~Pops /\ on
  <2>1. readed_addr' = readed_addr /\ diff' = diff
    BY <1>5 DEF Waiting, fifo
  <2>2. Contents' = Contents /\ overrun' = overrun
    BY <1>1, <1>2, <1>5, <2>1, QuietEdge
  <2>3. QED BY <1>word, <2>2 DEF Fifo!Next, Fifo!Arrive
<1>6. QED BY <1>3, <1>4, <1>5

LEMMA ArincEventFifo ==
  ASSUME IInv, IInv',
         NEW rx \in Labels \union {NoWord}, NEW bad \in BOOLEAN, NEW rd \in BOOLEAN,
         NEW clear \in BOOLEAN, NEW a \in Labels, ArincEvent(rx, bad, rd, clear, a),
         rx # NoWord => WordMayArrive
  PROVE  [Fifo!Next]_Fifo!queueVars
<1>1. ram_buf' = Settled /\ readed_addr' = readed_addr
  BY DEF ArincEvent, Edge
<1>2. recieved_word' = recieved_word
  BY DEF ArincEvent, Edge, NewWord, WordMayArrive
<1>3. overrun \in BOOLEAN /\ diff \in Nat /\ recieved_word \in Labels
  BY ConstFacts DEF IInv, TypeInv
<1>4. CASE ~Stores
  <2>1. bufer_we_b' = FALSE /\ diff' = diff /\ overrun' = overrun
    BY <1>4 DEF ArincEvent
  <2>2. Contents' = Contents
    BY <1>1, <2>1, QuietEdge
  <2>3. QED BY <1>2, <2>1, <2>2 DEF Fifo!queueVars
<1>5. CASE Stores
  <2>1. Store
    BY <1>5 DEF ArincEvent
  <2>2. CASE overrun
    <3>1. overrun'
      BY <2>1, <2>2 DEF Store
    <3>2. overrun' = overrun
      BY <3>1, <2>2, <1>3 DEF IInv, TypeInv
    <3>3. QED BY <1>2, <2>2, <3>2 DEF Fifo!queueVars
  <2>3. CASE ~overrun /\ addrMode
    <3>1. /\ bufer_we_b' = TRUE /\ bufer_addr_b' = recieved_word /\ diff' = diff
          /\ overrun' = overrun
      BY <2>1, <2>3, <1>3 DEF Store
    <3>2. Contents' = Contents
      BY <1>1, <1>2, <2>3, <3>1, StoreAside
    <3>3. QED BY <1>2, <3>1, <3>2 DEF Fifo!queueVars
  <2>4. CASE ~overrun /\ ~addrMode /\ diff < Size
    <3>1. diff # DiffMax /\ ~(diff >= Size)
      BY <2>4, <1>3, ConstFacts
    <3>2. /\ bufer_we_b' = TRUE /\ bufer_addr_b' = WriteAddr /\ diff' = diff + 1
          /\ ~overrun' /\ overrun' = overrun
      BY <2>1, <2>4, <3>1, <1>3 DEF Store
    <3>3. Contents' = Append(Contents, recieved_word)
      BY <1>1, <1>2, <2>4, <3>2, StorePuts
    <3>4. Len(Contents) = diff
      BY <2>4, ContentsSeq DEF ContentsOK, IInv
    <3>5. Fifo!Put
      BY <1>2, <2>4, <3>2, <3>3, <3>4 DEF Fifo!Put
    <3>6. QED BY <3>5 DEF Fifo!Next
  <2>5. CASE ~overrun /\ ~addrMode /\ ~(diff < Size)
    <3>1. diff = Size /\ diff >= Size
      BY <2>5, <1>3, ConstFacts DEF IInv
    <3>2. overrun' = TRUE
      BY <2>1, <2>5, <3>1 DEF Store
    <3>3. Len(Contents) = Size
      BY <2>5, <3>1, ContentsSeq DEF ContentsOK, IInv
    <3>4. Fifo!Overrun
      BY <1>2, <2>5, <3>2, <3>3 DEF Fifo!Overrun
    <3>5. QED BY <3>4 DEF Fifo!Next
  <2>6. QED BY <2>2, <2>3, <2>4, <2>5
<1>6. QED BY <1>4, <1>5

LEMMA FlagCheckFifo ==
  ASSUME IInv', NEW rx \in Labels \union {NoWord}, NEW bad \in BOOLEAN, NEW rd \in BOOLEAN,
         NEW clear \in BOOLEAN, NEW a \in Labels, FlagCheck(rx, bad, rd, clear, a)
  PROVE  [Fifo!Next]_Fifo!queueVars
<1>1. /\ ram_buf' = Settled /\ bufer_we_b' = FALSE /\ readed_addr' = readed_addr
      /\ diff' = diff /\ overrun' = overrun
  BY DEF FlagCheck, Edge
<1>2. Contents' = Contents
  BY <1>1, QuietEdge
<1>3. recieved_word' \in Labels
  BY DEF IInv, TypeInv
<1>4. QED BY <1>1, <1>2, <1>3 DEF Fifo!Next, Fifo!Arrive

LEMMA NextFifo == IInv /\ IInv' /\ [Next]_vars => [Fifo!Next]_Fifo!queueVars
<1> SUFFICES ASSUME IInv, IInv', [Next]_vars PROVE [Fifo!Next]_Fifo!queueVars
  OBVIOUS
<1>1. CASE Clock
  BY <1>1, WaitingFifo, ArincEventFifo, FlagCheckFifo DEF Clock
<1>2. CASE Configure \/ UNCHANGED vars
  <2>1. UNCHANGED <<readed_addr, diff, ram_buf, bufer_we_b, bufer_addr_b,
                    recieved_word, overrun>>
    BY <1>2 DEF Configure, vars, fifo, bufport, input, history
  <2>2. Contents' = Contents
    BY <2>1 DEF Contents, Settled, Slot
  <2>3. QED BY <2>1, <2>2 DEF Fifo!queueVars
<1>3. QED BY <1>1, <1>2 DEF Next

\* For every ring size, mode and host: stored words leave in order, and none is
\* lost or overwritten before an overrun.
THEOREM RingIsFifo == Spec => IsFifo
<1>1. Init => Fifo!Init
  BY InitFifo
<1>2. IInv /\ IInv' /\ [Next]_vars => [Fifo!Next]_Fifo!queueVars
  BY NextFifo
<1>3. QED BY <1>1, <1>2, IInvAlways, PTL DEF Spec, IsFifo, Fifo!Spec
-----------------------------------------------------------------------------
(* A polling host: the flags of the address mode, and reads of the FIFO.   *)

\* While an access is on its way the host's address is that of the read.
ReadInv ==
  /\ PolledHost
  /\ (bufer_rd_sig \/ rd2 \/ state = "flag_check") /\ addrMode => asked = bufer_addr
  /\ state = "flag_check" => addrMode
  /\ flag_we => state = "waiting" /\ addrMode
\* The mask and the flag word pass through the output of the RAM at their edges
\* of arinc_event and flag_check; labels received are unmasked, flags are too.
FlagInv ==
  /\ received \subseteq ram_mask["mask"] /\ ram_mask["flags"] \subseteq ram_mask["mask"]
  /\ state = "arinc_event" => /\ cnt \in 1 .. 6 => mask_flags_addr = "mask"
                              /\ cnt = 7 => mask_flags_addr = "flags"
                              /\ cnt >= 2 => flag_mask_q = ram_mask["mask"]
  /\ state = "flag_check" => /\ cnt >= 1 => mask_flags_addr = "flags"
                             /\ cnt >= 2 => flag_mask_q = ram_mask["flags"]
  /\ flag_we => /\ mask_flags_addr = "flags" /\ received \subseteq flags_data
                /\ flags_data \subseteq ram_mask["mask"]
                /\ ram_mask["flags"] \subseteq flags_data \union {asked}
  /\ ~flag_we => received \subseteq ram_mask["flags"]
                   \union (IF /\ state = "arinc_event" /\ cnt \in {6, 7}
                              /\ addrMode /\ recieved_word \in ram_mask["mask"]
                           THEN {recieved_word} ELSE {})

\* What the host does at an edge with an access on its way: nothing.
LEMMA HostWaits ==
  ASSUME PolledHost, NEW rx \in Labels \union {NoWord}, NEW bad \in BOOLEAN, NEW rd \in BOOLEAN,
         NEW a \in Labels, TypeInv, Edge(rx, bad, rd, a), rd => HostMayRead,
         a # bufer_addr => addrMode /\ (~PolledHost \/ Quiet)
  PROVE  /\ addrMode' = addrMode
         /\ ~Quiet => bufer_addr' = bufer_addr /\ asked' = asked /\ ~rd
         /\ rd /\ addrMode => asked' = bufer_addr'
         /\ rd2' => rd
         /\ rd => Quiet
BY DEF Edge, HostMayRead, config, TypeInv

\* An edge keeps that.
LEMMA NextRead == TypeInv /\ ReadInv /\ [Next]_vars => ReadInv'
<1> SUFFICES ASSUME TypeInv, ReadInv, [Next]_vars PROVE ReadInv'
  OBVIOUS
<1>1. ASSUME NEW rx \in Labels \union {NoWord}, NEW bad \in BOOLEAN, NEW rd \in BOOLEAN,
             NEW clear \in BOOLEAN, NEW a \in Labels, rd => HostMayRead,
             a # bufer_addr => addrMode /\ (~PolledHost \/ Quiet),
             \/ Waiting(rx, bad, rd, clear, a)
             \/ ArincEvent(rx, bad, rd, clear, a)
             \/ FlagCheck(rx, bad, rd, clear, a)
      PROVE  ReadInv'
  <2>1. Edge(rx, bad, rd, a) /\ PolledHost
    BY <1>1 DEF Waiting, ArincEvent, FlagCheck, ReadInv
  <2>2. /\ addrMode' = addrMode
        /\ ~Quiet => bufer_addr' = bufer_addr /\ asked' = asked /\ ~rd
        /\ rd /\ addrMode => asked' = bufer_addr'
        /\ (rd2' => rd) /\ (rd => Quiet)
    BY <1>1, <2>1, HostWaits
  <2>3. CASE Waiting(rx, bad, rd, clear, a)
    <3>1. /\ ~flag_we' /\ (state' = "flag_check" => addrMode /\ bufer_rd_sig)
          /\ bufer_rd_sig' => bufer_rd_sig \/ rd
      BY <2>3 DEF Waiting, Checks
    <3>2. bufer_rd_sig => ~Quiet
      BY DEF Quiet
    <3>3. QED BY <2>1, <2>2, <3>1, <3>2 DEF ReadInv
  <2>4. CASE ArincEvent(rx, bad, rd, clear, a)
    <3>1. /\ state = "arinc_event"
          /\ flag_we' => cnt = 7 /\ addrMode
          /\ cnt = 7 => state' = "waiting"
          /\ state' # "flag_check"
          /\ bufer_rd_sig' => bufer_rd_sig \/ rd
      BY <2>4 DEF ArincEvent
    <3>2. bufer_rd_sig => ~Quiet
      BY DEF Quiet
    <3>3. QED BY <2>1, <2>2, <3>1, <3>2 DEF ReadInv
  <2>5. CASE FlagCheck(rx, bad, rd, clear, a)
    <3>1. state = "flag_check" /\ ~Quiet
      BY <2>5 DEF FlagCheck, Quiet
    <3>2. flag_we' => state' = "waiting"
      BY <2>5 DEF FlagCheck
    <3>3. QED BY <2>1, <2>2, <3>1, <3>2 DEF ReadInv
  <2>6. QED BY <1>1, <2>3, <2>4, <2>5
<1>2. CASE Clock
  BY <1>1, <1>2 DEF Clock
<1>3. CASE Configure
  BY <1>3 DEF Configure, ReadInv, Quiet, fsm, latches, input, mskport, history
<1>4. CASE UNCHANGED vars
  BY <1>4 DEF ReadInv, vars, config, fsm, latches, input, mskport, history
<1>5. QED BY <1>2, <1>3, <1>4 DEF Next

\* One edge, or one write of the host, keeps the flags.
LEMMA NextFlag == TypeInv /\ ReadInv /\ FlagInv /\ [Next]_vars => FlagInv'
<1> SUFFICES ASSUME TypeInv, ReadInv, FlagInv, [Next]_vars PROVE FlagInv'
  OBVIOUS
<1>1. ASSUME NEW rx \in Labels \union {NoWord}, NEW bad \in BOOLEAN, NEW rd \in BOOLEAN,
             NEW clear \in BOOLEAN, NEW a \in Labels, rd => HostMayRead,
             rx # NoWord => WordMayArrive,
             a # bufer_addr => addrMode /\ (~PolledHost \/ Quiet),
             \/ Waiting(rx, bad, rd, clear, a)
             \/ ArincEvent(rx, bad, rd, clear, a)
             \/ FlagCheck(rx, bad, rd, clear, a)
      PROVE  FlagInv'
  <2>1. Edge(rx, bad, rd, a) /\ PolledHost
    BY <1>1 DEF Waiting, ArincEvent, FlagCheck, ReadInv
  <2>2. /\ addrMode' = addrMode
        /\ ~Quiet => bufer_addr' = bufer_addr /\ asked' = asked /\ ~rd
    BY <1>1, <2>1, HostWaits
  <2>3. /\ flag_mask_q' = ram_mask'[mask_flags_addr]
        /\ ram_mask' = IF flag_we THEN [ram_mask EXCEPT ![mask_flags_addr] = flags_data] ELSE ram_mask
        /\ ram_mask \in [{"mask", "flags"} -> SUBSET Labels]
    BY <2>1 DEF Edge, TypeInv
  <2>4. CASE Waiting(rx, bad, rd, clear, a)
    <3>1. /\ ~flag_we' /\ cnt' = 0 /\ received' = received
          /\ state' \in {"waiting", "arinc_event", "flag_check"}
      BY <2>4 DEF Waiting
    <3>2. CASE flag_we
      <4>1. ram_mask'["mask"] = ram_mask["mask"] /\ ram_mask'["flags"] = flags_data
        BY <2>3, <3>2 DEF FlagInv
      <4>2. QED BY <3>1, <3>2, <4>1 DEF FlagInv
    <3>3. CASE ~flag_we
      <4>1. state = "waiting" /\ ram_mask' = ram_mask
        BY <2>3, <2>4, <3>3 DEF Waiting
      <4>2. QED BY <3>1, <3>3, <4>1 DEF FlagInv
    <3>4. QED BY <3>2, <3>3
  <2>5. CASE ArincEvent(rx, bad, rd, clear, a)
    <3>1. state = "arinc_event" /\ ~flag_we /\ ram_mask' = ram_mask
      BY <2>3, <2>5 DEF ArincEvent, ReadInv
    <3>2. /\ flags_data' = flag_mask_q \union {recieved_word} /\ MaskAddress
          /\ flag_we' <=> (cnt = 7 /\ mask_accepted /\ addrMode)
          /\ cnt' = IF cnt = 7 THEN 0 ELSE cnt + 1
          /\ state' = IF cnt = 7 THEN "waiting" ELSE "arinc_event"
          /\ Stores => received' = IF addrMode THEN received \union {recieved_word} ELSE received
          /\ ~Stores => received' = received
      <4>1. flag_we' <=> (cnt = 7 /\ mask_accepted /\ addrMode)
        BY <2>5, Zenon DEF ArincEvent
      <4>2. QED BY <2>5, <4>1 DEF ArincEvent, Store
    <3>3. recieved_word' = recieved_word
      BY <1>1, <2>1, <3>1 DEF Edge, NewWord, WordMayArrive
    <3>4. cnt \in 0 .. 7 /\ recieved_word \in Labels
      BY DEF TypeInv
    <3>5. CASE cnt \in 0 .. 4
      BY <2>2, <2>3, <3>1, <3>2, <3>3, <3>5 DEF FlagInv, MaskAddress, Stores
    <3>6. CASE cnt = 5
      <4>1. mask_accepted <=> recieved_word \in ram_mask["mask"]
        BY <3>1, <3>6 DEF FlagInv, mask_accepted
      <4>2. QED BY <2>2, <2>3, <3>1, <3>2, <3>3, <3>6, <4>1 DEF FlagInv, MaskAddress, Stores
    <3>7. CASE cnt = 6
      BY <2>2, <2>3, <3>1, <3>2, <3>3, <3>7 DEF FlagInv, MaskAddress, Stores
    <3>8. CASE cnt = 7
      <4>1. mask_accepted <=> recieved_word \in ram_mask["mask"]
        BY <3>1, <3>8 DEF FlagInv, mask_accepted
      <4>2. flag_mask_q = ram_mask["mask"] /\ mask_flags_addr' = "flags" /\ state' = "waiting"
            /\ received' = received
        BY <3>1, <3>2, <3>8 DEF FlagInv, MaskAddress, Stores
      <4>3. QED BY <2>2, <3>1, <3>2, <3>8, <4>1, <4>2 DEF FlagInv
    <3>9. QED BY <3>4, <3>5, <3>6, <3>7, <3>8
  <2>6. CASE FlagCheck(rx, bad, rd, clear, a)
    <3>1. /\ state = "flag_check" /\ ~flag_we /\ ram_mask' = ram_mask
          /\ asked' = asked /\ asked = bufer_addr
      BY <2>2, <2>3, <2>6 DEF FlagCheck, ReadInv, Quiet
    <3>2. /\ flags_data' = flag_mask_q \ {bufer_addr}
          /\ mask_flags_addr' = IF cnt = 0 THEN "flags" ELSE mask_flags_addr
          /\ flag_we' <=> cnt = 3
          /\ cnt' = cnt + 1
          /\ state' = IF cnt = 3 THEN "waiting" ELSE "flag_check"
          /\ received' = IF cnt = 3 THEN received \ {asked} ELSE received
      <4>1. flag_we' <=> cnt = 3
        BY <2>6, Zenon DEF FlagCheck
      <4>2. QED BY <2>6, <4>1 DEF FlagCheck, ClearedFlags
    <3>3. cnt \in 0 .. 7
      BY DEF TypeInv
    <3>4. CASE cnt = 3
      BY <2>2, <3>1, <3>2, <3>4 DEF FlagInv
    <3>5. CASE cnt # 3
      BY <2>2, <2>3, <3>1, <3>2, <3>3, <3>5 DEF FlagInv
    <3>6. QED BY <3>4, <3>5
  <2>7. QED BY <1>1, <2>4, <2>5, <2>6
<1>2. CASE Clock
  BY <1>1, <1>2 DEF Clock
<1>3. CASE Configure
  <2>1. ~flag_we /\ state = "waiting"
    BY <1>3 DEF Configure, ReadInv, Quiet
  <2>2. QED BY <1>3, <2>1 DEF Configure, FlagInv, fsm, latches, input, mskport, history
<1>4. CASE UNCHANGED vars
  BY <1>4 DEF FlagInv, vars, config, fsm, latches, input, mskport, history
<1>5. QED BY <1>2, <1>3, <1>4 DEF Next

\* One read at a time: its word is at the head of the ring, in the data register
\* or on its way there, until the machine takes the read.
OnceInv ==
  /\ bufer_we_b => /\ state = "arinc_event" /\ cnt = 6
                   /\ ~addrMode /\ ~overrun => diff > 0 /\ bufer_addr_b = Slot(diff - 1)
  /\ rd2 => bufer_rd_sig /\ ~headRead
  /\ headRead => bufer_rd_sig /\ ~addrMode
  /\ bufer_rd_sig => on
  /\ bufer_rd_sig /\ ~addrMode =>
       diff # 0 /\ (~overrun => headRead \/ (rd2 /\ bufer_q = Contents[1]))

\* Another slot of the ring is not the head's.
LEMMA SlotsApart ==
  ASSUME TypeInv, NEW i \in 1 .. Size - 1
  PROVE  Slot(i) # readed_addr
BY ConstFacts DEF TypeInv, Slot, Ring, Size

\* The edge of a read in FIFO mode puts the word at the head in the register.
LEMMA ReadGetsHead ==
  ASSUME IInv, IInv', OnceInv, ~addrMode, ~overrun, CountSeen,
         bufer_q' = ram_buf[readed_addr], ram_buf' = Settled, readed_addr' = readed_addr,
         diff' # 0, ~overrun',
         bufer_we_b' => diff < Size /\ bufer_addr_b' = WriteAddr
  PROVE  bufer_q' = Contents'[1]
<1>1. TypeInv /\ TypeInv' /\ diff <= Size
  BY DEF IInv
<1>2. readed_addr \in 0 .. Top - 1 /\ bufer_addr_b \in 0 .. Top - 1
      /\ bufer_addr_b' \in 0 .. Top - 1 /\ diff \in Nat
  BY <1>1, ConstFacts DEF TypeInv
<1>3. Settled[readed_addr] = ram_buf[readed_addr]
  <2>1. CASE bufer_we_b
    <3>1. bufer_addr_b = Slot(diff - 1) /\ diff > 1
      BY <2>1 DEF OnceInv, CountSeen
    <3>2. diff - 1 \in 1 .. Size - 1
      BY <1>1, <1>2, <3>1, ConstFacts
    <3>3. bufer_addr_b # readed_addr
      BY <1>1, <3>1, <3>2, SlotsApart
    <3>4. QED BY <1>1, <1>2, <3>3 DEF Settled, TypeInv
  <2>2. CASE ~bufer_we_b
    BY <2>2 DEF Settled
  <2>3. QED BY <2>1, <2>2
<1>4. Settled'[readed_addr] = Settled[readed_addr]
  <2>1. CASE bufer_we_b'
    <3>1. bufer_addr_b' = Slot(diff) /\ diff \in 1 .. Size - 1
      BY <1>1, <1>2, <2>1, ConstFacts, WriteAddrFacts DEF CountSeen
    <3>2. bufer_addr_b' # readed_addr
      BY <1>1, <3>1, SlotsApart
    <3>3. ram_buf' \in [0 .. Top - 1 -> Labels]
      BY <1>1 DEF TypeInv
    <3>4. Settled' = [ram_buf' EXCEPT ![bufer_addr_b'] = recieved_word']
      BY <2>1 DEF Settled
    <3>5. QED BY <1>2, <3>2, <3>3, <3>4
  <2>2. CASE ~bufer_we_b'
    BY <2>2 DEF Settled
  <2>3. QED BY <2>1, <2>2
<1>5. Contents'[1] = Settled'[readed_addr']
  <2>1. diff' \in Nat /\ 1 \in 1 .. diff' /\ diff' <= Size
    BY <1>1, ConstFacts DEF TypeInv, IInv
  <2>2. Slot(1 - 1)' = readed_addr'
    BY <1>1, ConstFacts DEF Slot, TypeInv, Ring
  <2>3. ContentsOK'
    BY ContentsSeq, PTL
  <2>4. QED BY <1>1, <2>1, <2>2, <2>3 DEF ContentsOK
<1>6. QED BY <1>3, <1>4, <1>5

\* One edge keeps the read, whatever state the machine is in.
LEMMA NextOnce == IInv /\ IInv' /\ ReadInv /\ OnceInv /\ [Next]_vars => OnceInv'
<1> SUFFICES ASSUME IInv, IInv', ReadInv, OnceInv, [Next]_vars PROVE OnceInv'
  OBVIOUS
<1>0. TypeInv /\ PolledHost
  BY DEF IInv, ReadInv
<1>1. ASSUME NEW rx \in Labels \union {NoWord}, NEW bad \in BOOLEAN, NEW rd \in BOOLEAN,
             NEW clear \in BOOLEAN, NEW a \in Labels, rd => HostMayRead,
             a # bufer_addr => addrMode /\ (~PolledHost \/ Quiet),
             \/ Waiting(rx, bad, rd, clear, a)
             \/ ArincEvent(rx, bad, rd, clear, a)
             \/ FlagCheck(rx, bad, rd, clear, a)
      PROVE  OnceInv'
  <2>1. Edge(rx, bad, rd, a)
    BY <1>1 DEF Waiting, ArincEvent, FlagCheck
  <2>2. /\ addrMode' = addrMode /\ on' = on /\ (rd2' <=> rd)
        /\ bufer_q' = ram_buf[IF addrMode THEN bufer_addr ELSE readed_addr]
        /\ ram_buf' = Settled
    BY <2>1 DEF Edge, config
  <2>3. rd => /\ ~bufer_rd_sig /\ ~rd2 /\ ~headRead /\ ~GivesHead /\ on /\ ~Pops /\ ~Checks
              /\ ~addrMode => CountSeen
    BY <1>0, <1>1 DEF HostMayRead, Quiet, OnceInv, GivesHead, Pops, Checks
  <2>4. bufer_rd_sig /\ ~addrMode /\ ~overrun => headRead \/ GivesHead
    BY <1>0 DEF OnceInv, GivesHead
  <2>5. headRead \/ GivesHead => bufer_rd_sig /\ ~addrMode
    BY DEF OnceInv, GivesHead
  \* What the three states have in common.
  <2>6. ASSUME bufer_rd_sig' => bufer_rd_sig \/ rd,
               rd => bufer_rd_sig',
               headRead' => headRead \/ GivesHead,
               headRead' => bufer_rd_sig',
               bufer_rd_sig' /\ bufer_rd_sig /\ ~addrMode /\ ~overrun' => headRead',
               bufer_rd_sig' /\ ~addrMode => diff' # 0,
               ~addrMode /\ rd /\ ~overrun' =>
                 /\ ~overrun /\ readed_addr' = readed_addr
                 /\ bufer_we_b' => diff < Size /\ bufer_addr_b' = WriteAddr,
               bufer_we_b' => /\ state' = "arinc_event" /\ cnt' = 6
                              /\ ~addrMode /\ ~overrun' => diff' > 0 /\ bufer_addr_b' = Slot(diff - 1)'
        PROVE  OnceInv'
    <3>1. ~addrMode /\ rd /\ ~overrun' => bufer_q' = Contents'[1]
      BY <2>2, <2>3, <2>6, ReadGetsHead
    <3>2. rd2' => bufer_rd_sig' /\ ~headRead'
      BY <2>2, <2>3, <2>6
    <3>3. headRead' => bufer_rd_sig' /\ ~addrMode'
      BY <2>2, <2>5, <2>6
    <3>4. bufer_rd_sig' => on'
      BY <2>2, <2>3, <2>6 DEF OnceInv
    <3>5. bufer_rd_sig' /\ ~addrMode' /\ ~overrun' => headRead' \/ (rd2' /\ bufer_q' = Contents'[1])
      BY <2>2, <2>6, <3>1
    <3>6. QED BY <2>2, <2>6, <3>2, <3>3, <3>4, <3>5 DEF OnceInv
  <2>7. CASE Waiting(rx, bad, rd, clear, a)
    <3>1. /\ ~bufer_we_b'
          /\ bufer_rd_sig' <=> (~ReadTaken /\ (bufer_rd_sig \/ rd))
          /\ headRead' <=> (~Pops /\ on /\ (headRead \/ GivesHead))
          /\ overrun' <=> (overrun /\ (on \/ Pops))
          /\ ~Pops /\ on => readed_addr' = readed_addr /\ diff' = diff
      <4>1. overrun' <=> (overrun /\ (on \/ Pops))
        BY <2>7, Zenon DEF Waiting
      <4>2. (bufer_rd_sig' <=> (~ReadTaken /\ (bufer_rd_sig \/ rd))) /\ ~bufer_we_b'
        BY <2>7, Zenon DEF Waiting
      <4>3. headRead' <=> (~Pops /\ on /\ (headRead \/ GivesHead))
        BY <2>7, Zenon DEF Waiting
      <4>4. QED BY <2>7, <4>1, <4>2, <4>3 DEF Waiting, fifo
    <3>2. rd => ~ReadTaken
      BY <2>3 DEF ReadTaken
    <3>3. bufer_rd_sig' => ~Pops /\ on
      BY <2>3, <3>1 DEF ReadTaken, OnceInv
    <3>4. headRead' => bufer_rd_sig'
      BY <2>5, <3>1 DEF ReadTaken, Checks
    <3>5. rd /\ ~addrMode => diff # 0
      BY <2>3 DEF CountSeen
    <3>6. bufer_rd_sig' /\ ~addrMode => diff' # 0
      BY <3>1, <3>3, <3>5 DEF OnceInv
    <3>7. rd /\ ~overrun' => ~overrun
      BY <2>3, <3>1
    <3>8. QED BY <2>3, <2>4, <2>6, <3>1, <3>2, <3>3, <3>4, <3>6, <3>7
  <2>8. CASE ArincEvent(rx, bad, rd, clear, a)
    <3>1. /\ bufer_rd_sig' <=> (bufer_rd_sig \/ rd)
          /\ headRead' <=> (headRead \/ GivesHead)
          /\ readed_addr' = readed_addr
          /\ state = "arinc_event"
          /\ ~Stores => ~bufer_we_b' /\ diff' = diff /\ overrun' = overrun
          /\ Stores => /\ Store /\ cnt = 5 /\ cnt' = 6 /\ state' = "arinc_event"
      <4>1. (bufer_rd_sig' <=> (bufer_rd_sig \/ rd)) /\ (headRead' <=> (headRead \/ GivesHead))
        BY <2>8, Zenon DEF ArincEvent
      <4>2. QED BY <2>8, <4>1 DEF ArincEvent, Stores
    <3>2. rd /\ ~addrMode => diff # 0
      BY <2>3 DEF CountSeen
    <3>3. CASE Stores
      <4>1. /\ bufer_we_b' /\ bufer_addr_b' = (IF addrMode THEN recieved_word ELSE WriteAddr)
            /\ diff' = IF addrMode \/ diff = DiffMax THEN diff ELSE diff + 1
        BY <3>1, <3>3 DEF Store
      <4>2. overrun' <=> (overrun \/ (~addrMode /\ diff >= Size))
        BY <3>1, <3>3, Zenon DEF Store
      <4>3. diff \in 0 .. DiffMax
        BY <1>0 DEF TypeInv
      <4>4. ~addrMode /\ ~overrun' => diff < Size /\ ~overrun
        BY <4>2, <4>3, ConstFacts
      <4>5. ~addrMode /\ ~overrun' => diff' = diff + 1 /\ bufer_addr_b' = Slot(diff)
        BY <1>0, <4>1, <4>3, <4>4, ConstFacts, WriteAddrFacts
      <4>6. ~addrMode /\ ~overrun' => diff' > 0 /\ bufer_addr_b' = Slot(diff - 1)'
        <5>1. (diff + 1) - 1 = diff
          BY <4>3
        <5>2. ASSUME ~addrMode, ~overrun' PROVE Slot(diff - 1)' = Slot(diff)
          BY <3>1, <4>5, <5>1, <5>2 DEF Slot
        <5>3. QED BY <4>3, <4>5, <5>2
      <4>7. diff # 0 => diff' # 0
        BY <4>1, <4>3, ConstFacts
      <4>8. bufer_rd_sig' /\ ~addrMode => diff' # 0
        BY <3>1, <3>2, <4>7 DEF OnceInv
      <4>9. bufer_rd_sig' /\ bufer_rd_sig /\ ~addrMode /\ ~overrun' => headRead'
        BY <2>4, <3>1, <4>4
      <4>10. headRead' => bufer_rd_sig'
        BY <2>5, <3>1
      <4>11. QED BY <2>6, <3>1, <3>3, <4>1, <4>4, <4>6, <4>8, <4>9, <4>10
    <3>4. CASE ~Stores
      <4>1. bufer_rd_sig' /\ ~addrMode => diff' # 0
        BY <3>1, <3>2, <3>4 DEF OnceInv
      <4>2. bufer_rd_sig' /\ bufer_rd_sig /\ ~addrMode /\ ~overrun' => headRead'
        BY <2>4, <3>1, <3>4
      <4>3. headRead' => bufer_rd_sig'
        BY <2>5, <3>1
      <4>4. QED BY <2>6, <3>1, <3>4, <4>1, <4>2, <4>3
    <3>5. QED BY <3>3, <3>4
  <2>9. CASE FlagCheck(rx, bad, rd, clear, a)
    <3>1. addrMode /\ ~bufer_we_b'
      BY <2>9 DEF FlagCheck, ReadInv
    <3>2. (bufer_rd_sig' <=> (bufer_rd_sig \/ rd)) /\ (headRead' <=> (headRead \/ GivesHead))
      BY <2>9, Zenon DEF FlagCheck
    <3>3. QED BY <2>5, <2>6, <3>1, <3>2
  <2>10. QED BY <1>1, <2>7, <2>8, <2>9
<1>2. CASE Clock
  BY <1>1, <1>2 DEF Clock
<1>3. CASE Configure
  <2>1. ~bufer_rd_sig /\ ~rd2 /\ ~headRead /\ state = "waiting"
    BY <1>0, <1>3 DEF Configure, Quiet, OnceInv
  <2>2. ~bufer_we_b
    BY <2>1 DEF OnceInv
  <2>3. ~bufer_rd_sig' /\ ~rd2' /\ ~headRead' /\ ~bufer_we_b'
    BY <1>3, <2>1, <2>2 DEF Configure, latches, input, bufport, history
  <2>4. QED BY <2>3 DEF OnceInv
<1>4. CASE UNCHANGED vars
  <2>1. Contents' = Contents /\ Slot(diff - 1)' = Slot(diff - 1)
    BY <1>4 DEF Contents, Settled, Slot, vars, fifo, input, bufport
  <2>2. QED BY <1>4, <2>1 DEF OnceInv, vars, config, fsm, fifo, latches, input, bufport, history
<1>5. QED BY <1>2, <1>3, <1>4 DEF Next

\* The channel starts without a read and without flags.
LEMMA HostInits == Init /\ PolledHost => ReadInv /\ FlagInv /\ OnceInv
<1> SUFFICES ASSUME Init, PolledHost PROVE ReadInv /\ FlagInv /\ OnceInv
  OBVIOUS
<1>1. ~bufer_rd_sig /\ ~rd2 /\ ~headRead /\ ~bufer_we_b /\ ~flag_we /\ state = "waiting"
  BY DEF Init
<1>2. ram_mask["flags"] = {} /\ received = {}
  BY DEF Init
<1>3. QED BY <1>1, <1>2 DEF ReadInv, FlagInv, OnceInv

\* All of it.
HostInv == IInv /\ ReadInv /\ FlagInv /\ OnceInv

\* So the three hold all the time.
LEMMA HostInvAlways == PolledHost /\ Spec => []HostInv
<1>1. Init /\ PolledHost => HostInv
  BY InitIInv, HostInits DEF HostInv
<1>2. HostInv /\ [Next]_vars => HostInv'
  <2>1. IInv => TypeInv
    BY DEF IInv
  <2>2. QED BY <2>1, NextIInv, NextRead, NextFlag, NextOnce DEF HostInv
<1>3. QED BY <1>1, <1>2, PTL DEF Spec

\* Address mode, for every number of labels and a host that lets a read finish:
\* when the machine is at rest every label received since its flag was last
\* cleared has its flag set (arinc_rx_controller.sv, arinc_event and flag_check).
THEOREM ReceivedAreFlagged == PolledHost /\ Spec => []ReceivedIsFlagged
<1>1. HostInv => ReceivedIsFlagged
  BY DEF HostInv, FlagInv, ReceivedIsFlagged
<1>2. QED BY <1>1, HostInvAlways, PTL

\* Address mode, with the same host: a flag goes out only by the read of its own
\* label, although each read and each word rewrites the flags of 32 labels.
THEOREM FlagsGoByReads == PolledHost /\ Spec => FlagGoesByItsRead
<1>1. HostInv /\ [Next]_vars =>
        [\A l \in ram_mask["flags"] : l \in ram_mask'["flags"] \/ l = asked]_vars
  <2> SUFFICES ASSUME HostInv, [Next]_vars
               PROVE  \/ \A l \in ram_mask["flags"] : l \in ram_mask'["flags"] \/ l = asked
                      \/ UNCHANGED vars
    OBVIOUS
  <2>1. /\ ram_mask \in [{"mask", "flags"} -> SUBSET Labels]
        /\ flag_we => mask_flags_addr = "flags" /\ ram_mask["flags"] \subseteq flags_data \union {asked}
    BY DEF HostInv, IInv, TypeInv, FlagInv
  <2>2. CASE Clock
    <3>1. ram_mask' = IF flag_we THEN [ram_mask EXCEPT ![mask_flags_addr] = flags_data] ELSE ram_mask
      <4>1. PICK rx \in Labels \union {NoWord}, bad, rd, clear \in BOOLEAN, a \in Labels :
              \/ Waiting(rx, bad, rd, clear, a)
              \/ ArincEvent(rx, bad, rd, clear, a)
              \/ FlagCheck(rx, bad, rd, clear, a)
        BY <2>2 DEF Clock
      <4>2. Edge(rx, bad, rd, a)
        BY <4>1 DEF Waiting, ArincEvent, FlagCheck
      <4>3. QED BY <4>2 DEF Edge
    <3>2. CASE flag_we
      <4>1. ram_mask'["flags"] = flags_data
        BY <2>1, <3>1, <3>2
      <4>2. QED BY <2>1, <3>2, <4>1
    <3>3. CASE ~flag_we
      BY <3>1, <3>3
    <3>4. QED BY <3>2, <3>3
  <2>3. CASE Configure
    BY <2>3 DEF Configure, mskport
  <2>4. QED BY <2>2, <2>3 DEF Next
<1>2. QED BY <1>1, HostInvAlways, PTL DEF Spec, FlagGoesByItsRead

\* FIFO mode, with the same host: a word leaves the ring only after it was put in
\* the host's data register, and is put there once.
THEOREM WordsReadOnce == PolledHost /\ Spec => ExactlyOnce
<1>1. HostInv => (Pops /\ ~overrun => headRead \/ GivesHead) /\ (GivesHead => ~headRead)
  BY DEF HostInv, OnceInv, ReadInv, Pops, GivesHead
<1>2. QED BY <1>1, HostInvAlways, PTL DEF Spec, ExactlyOnce
=============================================================================
