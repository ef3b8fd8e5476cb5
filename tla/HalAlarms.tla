------------------------------ MODULE HalAlarms ------------------------------
(***************************************************************************)
(* The alarms of the HAL: alt_alarm_start and alt_alarm_stop, the tick of  *)
(* the system clock that serves them, and the doubly linked list they are  *)
(* kept in.  Ticks are counted modulo 2^32, here modulo HaRoll.  The       *)
(* system clock runs: without one alt_alarm_start does nothing.            *)
(*                                                                         *)
(* alt_tick runs at interrupt level: the foreground stands still, but the  *)
(* callback of an alarm may start other alarms and stop its own, and so    *)
(* may, between two alarms, an interrupt of higher priority start one.     *)
(* haLeft is history: the ticks an alarm has to go, on a clock that never  *)
(* wraps, and -1 once it is late.                                          *)
(***************************************************************************)
EXTENDS Integers

CONSTANTS HaAlarms, HaList,  \* alarms; alt_alarm_list
          HaRoll,            \* 2^32
          HaDelays,          \* nticks of alt_alarm_start
          HaAgain            \* non-zero answers of callbacks

(* nticks = 2^32 - 1 is left out: the "+ 1" makes it due at the next tick. *)
ASSUME HaAssumption == /\ HaRoll \in Nat \ {0, 1} /\ HaList \notin HaAlarms
                       /\ HaDelays \subseteq 0..HaRoll - 2 /\ HaAgain \subseteq 1..HaRoll - 1

Nodes == HaAlarms \cup {HaList}

VARIABLES alt_nticks,
          haNext, haPrev,    \* the links of every alarm and of the list head
          haTime, haRollover,
          haAt,              \* alt_tick: alarm (the head: alt_tick has returned)
          haSaved,           \*           next
          haLeft

haLinks == <<haNext, haPrev>>
haVars == <<alt_nticks, haLinks, haTime, haRollover, haAt, haSaved, haLeft>>

HaInit ==
  /\ alt_nticks = 0
  /\ haNext = [n \in Nodes |-> n] /\ haPrev = [n \in Nodes |-> n]
  /\ haTime = [a \in HaAlarms |-> 0] /\ haRollover = [a \in HaAlarms |-> FALSE]
  /\ haAt = HaList /\ haSaved = HaList
  /\ haLeft = [a \in HaAlarms |-> 0]

(* alt_llist_insert puts an element behind the head, alt_llist_remove      *)
(* leaves it pointing to itself.                                           *)
InsertedNext(a) == [haNext EXCEPT ![a] = haNext[HaList], ![HaList] = a]
InsertedPrev(a) == [[haPrev EXCEPT ![haNext[HaList]] = a] EXCEPT ![a] = HaList]
RemovedNext(a) == [[haNext EXCEPT ![haPrev[a]] = haNext[a]] EXCEPT ![a] = a]
RemovedPrevNot(a) == [haPrev EXCEPT ![a] = a]
RemovedPrev(a) == [[haPrev EXCEPT ![haNext[a]] = haPrev[a]] EXCEPT ![a] = a]

Listed(a) == haNext[a] # a

DueTickUnwrapped(ticks) == ticks
DueTick(ticks) == ticks % HaRoll
RolledNever(time, now) == FALSE
Rolled(time, now) == time < now

(* alt_alarm_start, by the foreground, a callback or a nested interrupt.   *)
(* An alarm in the list or in its callback is not started again.           *)
HaStart(a) ==
  /\ ~Listed(a) /\ a # haAt
  /\ \E delay \in HaDelays :
       LET time == DueTick(delay + alt_nticks + 1)
       IN  /\ haTime' = [haTime EXCEPT ![a] = time]
           /\ haRollover' = [haRollover EXCEPT ![a] = Rolled(time, alt_nticks)]
           /\ haLeft' = [haLeft EXCEPT ![a] = delay + 1]
  /\ haNext' = InsertedNext(a) /\ haPrev' = InsertedPrev(a)
  /\ UNCHANGED <<alt_nticks, haAt, haSaved>>

(* alt_tick: count, then take the first alarm.                             *)
HaVisit(a) == haAt' = a /\ haSaved' = IF a = HaList THEN HaList ELSE haNext[a]
HaTick ==
  /\ haAt = HaList /\ alt_nticks' = (alt_nticks + 1) % HaRoll
  /\ haLeft' = [a \in HaAlarms |-> IF Listed(a) /\ haLeft[a] >= 0 THEN haLeft[a] - 1 ELSE haLeft[a]]
  /\ HaVisit(haNext[HaList])
  /\ UNCHANGED <<haLinks, haTime, haRollover>>

NowRolledForever(a) == haRollover[a]
NowRolled(a) == haRollover[a] /\ alt_nticks # 0
Due(a) == haTime[a] <= alt_nticks /\ ~NowRolled(a)

HaStopped(a) == haNext' = RemovedNext(a) /\ haPrev' = RemovedPrev(a)

(* alt_alarm_stop by the foreground, harmless if the alarm has been taken  *)
(* out before (one that was never started has no links and is not stopped);*)
(* by a callback only for its own alarm.                                   *)
HaStop(a) ==
  /\ haAt = HaList \/ (haAt = a /\ Due(a))
  /\ HaStopped(a)
  /\ UNCHANGED <<alt_nticks, haTime, haRollover, haAt, haSaved, haLeft>>

(* An alarm of the walk: not due, or its callback answers.                 *)
HaPass ==
  /\ haAt # HaList /\ ~Due(haAt)
  /\ haRollover' = [haRollover EXCEPT ![haAt] = NowRolled(haAt)]
  /\ HaVisit(haSaved)
  /\ UNCHANGED <<alt_nticks, haLinks, haTime, haLeft>>

HaDone ==
  /\ haAt # HaList /\ Due(haAt)
  /\ haRollover' = [haRollover EXCEPT ![haAt] = FALSE]
  /\ HaStopped(haAt) /\ HaVisit(haSaved)
  /\ UNCHANGED <<alt_nticks, haTime, haLeft>>

HaRepeat ==
  /\ haAt # HaList /\ Due(haAt)
  /\ \E ticks \in HaAgain :
       LET time == DueTick(haTime[haAt] + ticks)
       IN  /\ haTime' = [haTime EXCEPT ![haAt] = time]
           /\ haRollover' = [haRollover EXCEPT ![haAt] = Rolled(time, alt_nticks)]
           /\ haLeft' = [haLeft EXCEPT ![haAt] = haLeft[haAt] + ticks]
  /\ HaVisit(haSaved)
  /\ UNCHANGED <<alt_nticks, haLinks>>

HaServe == HaPass \/ HaDone \/ HaRepeat
HaNextStep == HaTick \/ HaServe \/ \E a \in HaAlarms : HaStart(a) \/ HaStop(a)

(* The clock ticks and its interrupt runs to the end.                      *)
HaSpec == HaInit /\ [][HaNextStep]_haVars /\ WF_haVars(HaTick) /\ WF_haVars(HaServe)

-----------------------------------------------------------------------------
(* Counters are below their modulus, links and cursors lead to alarms.     *)
HaTypeInv ==
  /\ alt_nticks \in 0..HaRoll - 1
  /\ haNext \in [Nodes -> Nodes] /\ haPrev \in [Nodes -> Nodes]
  /\ haTime \in [HaAlarms -> 0..HaRoll - 1] /\ haRollover \in [HaAlarms -> BOOLEAN]
  /\ haAt \in Nodes /\ haSaved \in Nodes /\ haLeft \in [HaAlarms -> Int]

(* The list stays a ring through the head both ways, whatever is started   *)
(* and stopped, an alarm that stops itself and answers zero included, and  *)
(* the alarm that alt_tick will look at next is still in it.               *)
HaRing ==
  /\ \A n \in Nodes : haPrev[haNext[n]] = n
  /\ haNext[HaList] = HaList <=> \A a \in HaAlarms : ~Listed(a)
  /\ haSaved # HaList => Listed(haSaved)

(* The callback runs at exactly the tick it was asked for: not early when  *)
(* the counter is about to wrap, not late when it has wrapped.             *)
HaOnTime ==
  /\ haAt # HaList => (Due(haAt) <=> haLeft[haAt] <= 0) /\ haLeft[haAt] >= 0
  /\ haAt = HaList => \A a \in HaAlarms : Listed(a) => haLeft[a] > 0

(* Every alarm in the list comes due or is taken out, over any wrap.       *)
HaComesDue == \A a \in HaAlarms : Listed(a) ~> ~Listed(a) \/ (haAt = a /\ Due(a))

(* The list is whole and every callback runs at its tick.                  *)
HaSafe == HaTypeInv /\ HaRing /\ HaOnTime
=============================================================================
