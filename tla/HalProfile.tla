------------------------------ MODULE HalProfile ------------------------------
(***************************************************************************)
(* Profiling in the HAL: mcount, called at the start of every function, in *)
(* the foreground and in interrupt routines, and sbrk, from which it takes *)
(* its memory.                                                             *)
(*                                                                         *)
(* An interrupt routine's mcount is one step.  The foreground is           *)
(* interrupted between any two of its steps; __mcount_record turns         *)
(* interrupts off for the step that allocates and links.  All functions    *)
(* share a bucket of the hash.                                             *)
(***************************************************************************)
EXTENDS Integers, Sequences, FiniteSetsExt

CONSTANTS HpFuncs, HpCallers,  \* functions called, and call sites
          HpEntry,             \* size of an mcount_fn_entry and of an mcount_fn_arc
          MCOUNT_SLAB_INCREMENT,
          HpHistogram,         \* size of the histogram
          HpMallocs,           \* what malloc asks of sbrk
          HpLimit,             \* __alt_heap_limit - __alt_heap_start
          HpMaxCalls           \* bound on calls of mcount, all together

ASSUME HpAssumption == /\ HpFuncs # {} /\ HpCallers # {}
                       /\ HpEntry \in Nat \ {0} /\ MCOUNT_SLAB_INCREMENT \in Nat
                       /\ HpEntry <= MCOUNT_SLAB_INCREMENT /\ HpEntry % 4 = 0
                       /\ HpHistogram \in Nat \ {0} /\ HpMallocs \subseteq Nat \ {0}
                       /\ HpLimit \in Nat /\ HpMaxCalls \in Nat

Calls == [self : HpFuncs, from : HpCallers]

VARIABLES hpEntries,  \* mcount_fn_entry in the order of creation, each with its arcs
          hpNeedInit, \* pcsample_need_init
          hpRate,     \* the system clock runs
          hpStarts,   \* how often s_nios2_pcsample_alarm was started
          hpMem,      \* heap_end, the slab, what was handed out
          hpPc, hpCall, hpFn, hpArc, hpCount,  \* the foreground in mcount
          hpCalls,    \* history: calls of every arc
          hpBreaks    \* history: those made by interrupts of a foreground mcount

hpFg == <<hpPc, hpCall, hpFn, hpArc, hpCount>>
hpVars == <<hpEntries, hpNeedInit, hpRate, hpStarts, hpMem, hpFg, hpCalls, hpBreaks>>

HpInit ==
  /\ hpEntries = <<>> /\ hpNeedInit = TRUE /\ hpRate = FALSE /\ hpStarts = 0
  /\ hpMem = [end |-> 0, got |-> 0, ptr |-> 0, left |-> 0, blocks |-> {}, given |-> 0, refused |-> FALSE]
  /\ hpPc = "idle" /\ hpCall = (CHOOSE c \in Calls : TRUE) /\ hpFn = 0 /\ hpArc = 0 /\ hpCount = 0
  /\ hpCalls = [c \in Calls |-> 0] /\ hpBreaks = [c \in Calls |-> 0]

-----------------------------------------------------------------------------
(* Memory                                                                  *)

AlignedNot(a) == a
Aligned(a) == ((a + 3) \div 4) * 4

(* sbrk aligns heap_end even if it then refuses.                           *)
Sbrk(mem, incr) ==
  LET start == Aligned(mem.end)
  IN  IF start + incr > HpLimit THEN [mem EXCEPT !.end = start, !.got = -1, !.refused = TRUE]
      ELSE [mem EXCEPT !.end = start + incr, !.got = start]

Owned(mem, at, size) == [mem EXCEPT !.blocks = @ \cup {[at |-> at, size |-> size]}, !.given = @ + 1]

(* mcount_allocate: what is left of a slab is dropped.  It does not look   *)
(* whether sbrk refused; the model stops there.                            *)
SlabFitsLate(mem) == mem.left > 0
SlabFits(mem) == HpEntry <= mem.left
Slab(mem) ==
  IF SlabFits(mem) THEN mem
  ELSE LET m == Sbrk(mem, MCOUNT_SLAB_INCREMENT)
       IN  [m EXCEPT !.ptr = m.got, !.left = MCOUNT_SLAB_INCREMENT]
Allocated(mem) ==
  LET m == Slab(mem)
  IN  Owned([m EXCEPT !.ptr = @ + HpEntry, !.left = @ - HpEntry], m.ptr, HpEntry)

HpMalloc ==
  /\ ~hpMem.refused
  /\ \E n \in HpMallocs : LET m == Sbrk(hpMem, n)
                          IN  hpMem' = IF m.refused THEN m ELSE Owned(m, m.got, n)
  /\ UNCHANGED <<hpEntries, hpNeedInit, hpRate, hpStarts, hpFg, hpCalls, hpBreaks>>

HpClockStarts == /\ ~hpRate /\ hpRate' = TRUE
                 /\ UNCHANGED <<hpEntries, hpNeedInit, hpStarts, hpMem, hpFg, hpCalls, hpBreaks>>

(* nios2_pcsample_init: 1 without a clock; else the histogram and, since a *)
(* refusal is -1 and not 0, always the alarm.                              *)
InitMem(mem) == IF ~hpRate THEN mem
                ELSE LET m == Sbrk(mem, HpHistogram)
                     IN  IF m.refused THEN m ELSE Owned(m, m.got, HpHistogram)

-----------------------------------------------------------------------------
(* The lists grow at the head, so a walk finds the youngest entry.         *)

Youngest(S) == IF S = {} THEN 0 ELSE CHOOSE k \in S : \A j \in S : j <= k
FnOf(c) == Youngest({k \in DOMAIN hpEntries : hpEntries[k].self = c.self})
ArcOf(fn, c) ==
  IF fn = 0 THEN 0
  ELSE Youngest({k \in DOMAIN hpEntries[fn].arcs : hpEntries[fn].arcs[k].from = c.from})

Counted(fn, arc, count) == [hpEntries EXCEPT ![fn].arcs[arc].count = count]
ArcUncounted(c) == [from |-> c.from, count |-> 0]
Arc(c) == [from |-> c.from, count |-> 1]
RecordedAnew(fn, c) == Append(hpEntries, [self |-> c.self, arcs |-> <<Arc(c)>>])
Recorded(fn, c) ==
  IF fn = 0 THEN Append(hpEntries, [self |-> c.self, arcs |-> <<Arc(c)>>])
  ELSE [hpEntries EXCEPT ![fn].arcs = Append(@, Arc(c))]
RecordMem(fn, mem) == IF fn = 0 THEN Allocated(Allocated(mem)) ELSE Allocated(mem)

MoreCalls == FoldSet(LAMBDA c, n : n + hpCalls[c], 0, Calls) < HpMaxCalls
Made(c) == hpCalls' = [hpCalls EXCEPT ![c] = @ + 1]
(* mcount in the foreground: find the function, then the arc; count it by  *)
(* load, add and store, or record it.                                      *)
HpBegin ==
  /\ hpPc = "idle" /\ MoreCalls /\ \E c \in Calls : hpCall' = c /\ hpFn' = FnOf(c)
  /\ hpPc' = "arc" /\ UNCHANGED <<hpArc, hpCount>>
  /\ UNCHANGED <<hpEntries, hpNeedInit, hpRate, hpStarts, hpMem, hpCalls, hpBreaks>>
HpFindArc ==
  /\ hpPc = "arc" /\ hpArc' = ArcOf(hpFn, hpCall)
  /\ hpPc' = IF hpArc' # 0 THEN "load" ELSE "test"
  /\ UNCHANGED <<hpCall, hpFn, hpCount>>
  /\ UNCHANGED <<hpEntries, hpNeedInit, hpRate, hpStarts, hpMem, hpCalls, hpBreaks>>
HpLoad ==
  /\ hpPc = "load" /\ hpCount' = hpEntries[hpFn].arcs[hpArc].count /\ hpPc' = "store"
  /\ UNCHANGED <<hpCall, hpFn, hpArc>>
  /\ UNCHANGED <<hpEntries, hpNeedInit, hpRate, hpStarts, hpMem, hpCalls, hpBreaks>>

HpReturn == /\ hpPc' = "idle" /\ hpFn' = 0 /\ hpArc' = 0 /\ hpCount' = 0
            /\ hpCall' = CHOOSE c \in Calls : TRUE
HpStore ==
  /\ hpPc = "store" /\ HpReturn /\ Made(hpCall)
  /\ hpEntries' = Counted(hpFn, hpArc, hpCount + 1)
  /\ UNCHANGED <<hpNeedInit, hpRate, hpStarts, hpMem, hpBreaks>>

(* __mcount_record: test and clear pcsample_need_init, start the sampler,  *)
(* keep its answer.                                                        *)
HpTest ==
  /\ hpPc = "test" /\ hpPc' = IF hpNeedInit THEN "claim" ELSE "record"
  /\ UNCHANGED <<hpCall, hpFn, hpArc, hpCount>>
  /\ UNCHANGED <<hpEntries, hpNeedInit, hpRate, hpStarts, hpMem, hpCalls, hpBreaks>>
HpClaim ==
  /\ hpPc = "claim" /\ hpPc' = "init" /\ hpNeedInit' = FALSE
  /\ UNCHANGED <<hpCall, hpFn, hpArc, hpCount>>
  /\ UNCHANGED <<hpEntries, hpRate, hpStarts, hpMem, hpCalls, hpBreaks>>
HpSampler ==
  /\ hpPc = "init" /\ hpPc' = "record"
  /\ hpNeedInit' = ~hpRate /\ hpMem' = InitMem(hpMem)
  /\ hpStarts' = IF hpRate THEN hpStarts + 1 ELSE hpStarts
  /\ UNCHANGED <<hpCall, hpFn, hpArc, hpCount>>
  /\ UNCHANGED <<hpEntries, hpRate, hpCalls, hpBreaks>>
HpRecord ==
  /\ hpPc = "record" /\ HpReturn /\ Made(hpCall)
  /\ hpEntries' = Recorded(hpFn, hpCall) /\ hpMem' = RecordMem(hpFn, hpMem)
  /\ UNCHANGED <<hpNeedInit, hpRate, hpStarts, hpBreaks>>

(* mcount in an interrupt routine.                                         *)
HpInterrupt(c) ==
  LET fn == FnOf(c)
      arc == ArcOf(fn, c)
      starts == arc = 0 /\ hpNeedInit
  IN  /\ MoreCalls /\ Made(c)
      /\ hpBreaks' = [hpBreaks EXCEPT ![c] = IF hpPc = "idle" THEN @ ELSE @ + 1]
      /\ IF arc # 0 THEN hpEntries' = Counted(fn, arc, hpEntries[fn].arcs[arc].count + 1)
                     ELSE hpEntries' = Recorded(fn, c)
      /\ hpNeedInit' = IF starts THEN ~hpRate ELSE hpNeedInit
      /\ hpStarts' = IF starts /\ hpRate THEN hpStarts + 1 ELSE hpStarts
      /\ hpMem' = IF arc # 0 THEN hpMem
                  ELSE RecordMem(fn, IF starts THEN InitMem(hpMem) ELSE hpMem)
      /\ UNCHANGED <<hpRate, hpFg>>

HpForeground == HpBegin \/ HpFindArc \/ HpLoad \/ HpStore
                \/ HpTest \/ HpClaim \/ HpSampler \/ HpRecord
HpNextStep == /\ ~hpMem.refused
              /\ HpMalloc \/ HpClockStarts \/ HpForeground \/ \E c \in Calls : HpInterrupt(c)
HpSpec == HpInit /\ [][HpNextStep]_hpVars

-----------------------------------------------------------------------------
(* The lists hold arcs of functions, the slab is no larger than it was.    *)
HpTypeInv ==
  /\ \A k \in DOMAIN hpEntries :
       /\ hpEntries[k].self \in HpFuncs
       /\ \A j \in DOMAIN hpEntries[k].arcs :
            hpEntries[k].arcs[j] \in [from : HpCallers, count : Nat]
  /\ hpNeedInit \in BOOLEAN /\ hpRate \in BOOLEAN /\ hpStarts \in Nat
  /\ hpMem.left \in 0..MCOUNT_SLAB_INCREMENT
  /\ hpPc \in {"idle", "arc", "load", "store", "test", "claim", "init", "record"}
  /\ hpCall \in Calls /\ hpFn \in Nat /\ hpArc \in Nat /\ hpCount \in Nat

(* What was handed out is inside the heap, on word boundaries, and does    *)
(* not overlap, entries cut from slabs included.                           *)
HpDisjoint ==
  ~hpMem.refused =>
    /\ \A b \in hpMem.blocks : b.at % 4 = 0 /\ 0 <= b.at /\ b.at + b.size <= hpMem.end
    /\ Cardinality(hpMem.blocks) = hpMem.given
    /\ \A b, c \in hpMem.blocks : b # c => b.at + b.size <= c.at \/ c.at + c.size <= b.at

(* The entry that each copy of an arc is in, with its place there.         *)
Copies(c) == {at \in UNION {{k} \X DOMAIN hpEntries[k].arcs : k \in DOMAIN hpEntries} :
                hpEntries[at[1]].self = c.self /\ hpEntries[at[1]].arcs[at[2]].from = c.from}

(* Interrupts between the walk and the insertion leave a second entry of   *)
(* the function or a second copy of the arc, but no more: with both, three *)
(* copies of an arc in two entries.                                        *)
HpFewCopies ==
  /\ \A f \in HpFuncs : Cardinality({k \in DOMAIN hpEntries : hpEntries[k].self = f}) <= 2
  /\ \A c \in Calls : Cardinality(Copies(c)) <= 3

(* Over all copies of an arc no call is counted twice, and a call is lost  *)
(* only to an interrupt of an mcount in the foreground.                    *)
Total(c) == FoldSet(LAMBDA p, n : n + hpEntries[p[1]].arcs[p[2]].count, 0, Copies(c))
HpCounted == \A c \in Calls : /\ Total(c) <= hpCalls[c]
                              /\ Total(c) + hpBreaks[c] >= hpCalls[c]

(* Memory handed out lies apart, and interrupts cost copies of an arc and  *)
(* single counts but no more.                                              *)
HpSafe == HpTypeInv /\ HpDisjoint /\ HpFewCopies /\ HpCounted
=============================================================================
