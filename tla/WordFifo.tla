------------------------------ MODULE WordFifo ------------------------------
(***************************************************************************)
(* What a receive channel in FIFO mode promises its host: the words it     *)
(* accepts are kept in order and leave from the front, until one more word *)
(* than the ring holds has come.  From that overrun until the channel is   *)
(* switched off nothing is promised.                                       *)
(***************************************************************************)
EXTENDS Naturals, Sequences

CONSTANTS Word, Capacity
VARIABLES
  word,     \* the word received last
  queue,    \* the words accepted and not read yet
  lost      \* the queue has overrun

queueVars == <<word, queue, lost>>

Init == word \in Word /\ queue = <<>> /\ lost = FALSE

Arrive == word' \in Word /\ UNCHANGED <<queue, lost>>

Put ==
  /\ ~lost /\ Len(queue) < Capacity
  /\ queue' = Append(queue, word)
  /\ UNCHANGED <<word, lost>>

\* The host takes a word; another may arrive at the same edge.
Get ==
  /\ ~lost /\ queue # <<>>
  /\ queue' = Tail(queue)
  /\ word' \in Word /\ UNCHANGED lost

Overrun ==
  /\ Len(queue) = Capacity
  /\ queue' = <<>> /\ lost' = TRUE
  /\ UNCHANGED word

Flush == queue' = <<>> /\ lost' = FALSE /\ word' \in Word

Next == Arrive \/ Put \/ Get \/ Overrun \/ Flush

Spec == Init /\ [][Next]_queueVars
=============================================================================
