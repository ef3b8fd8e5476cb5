------------------------------ MODULE HalCaches ------------------------------
(***************************************************************************)
(* The cache routines of the HAL, with what is built on them: alt_load,    *)
(* which copies the program's sections to RAM, the handler for fatal ECC   *)
(* errors, and uncached memory.  A loop goes over its region one line a    *)
(* step, with interrupt handlers between the steps.                        *)
(*                                                                         *)
(* Caches are direct mapped.  What a line holds is abstracted to whether   *)
(* it is what was written last, by the program or by a device.  This       *)
(* build's processor has no caches (system.h:72-125), so its routines but  *)
(* alt_dcache_flush_no_writeback are compiled empty.                       *)
(***************************************************************************)
EXTENDS Integers, Sequences

CONSTANTS HkLine,      \* bytes of a line
          HkLines,     \* lines of memory
          HkSets,      \* lines of each cache
          HkLengths,   \* lengths of regions
          HkSections   \* of alt_load: [from, to, end], in lines

ASSUME HkAssumption ==
  /\ HkLine \in Nat \ {0} /\ HkSets \in Nat \ {0} /\ HkLines \in Nat /\ HkLines > HkSets
  /\ HkLengths \subseteq Nat
  /\ HkSections \in Seq([from : Nat, to : Nat, end : Nat]) /\ Len(HkSections) = 3
  /\ \A i \in 1 .. Len(HkSections) :
       HkSections[i].to <= HkSections[i].end /\ HkSections[i].end <= HkLines

VARIABLES hkUse,     \* what the memory is used for
          hkMem,     \* the lines of memory that hold what was written last
          hkD, hkI,  \* the caches: what is in each set
          hkLoop,    \* the loop that runs
          hkDone,    \* the loop that ended with the last step
          hkLost,    \* lines whose data was thrown away by that loop
          hkBlock    \* bytes of the uncached block: [from, to), to = 0: none
hkVars == <<hkUse, hkMem, hkD, hkI, hkLoop, hkDone, hkLost, hkBlock>>

LineOf(address) == address \div HkLine
SetOf(line) == line % HkSets
LinesOf(start, len) == IF len = 0 THEN {} ELSE LineOf(start) .. LineOf(start + len - 1)
Empty == [line |-> -1, dirty |-> FALSE, fresh |-> TRUE]
NoLoop == [op |-> "none", start |-> 0, len |-> 0, at |-> 0, end |-> 0, then |-> <<>>]

HkInit == /\ hkUse \in {"data", "code", "load", "uncached"}
          /\ hkMem = 0 .. HkLines - 1
          /\ hkD = [s \in 0 .. HkSets - 1 |-> Empty] /\ hkI = hkD
          /\ hkLoop = NoLoop /\ hkDone = NoLoop /\ hkLost = {}
          /\ hkBlock = [from |-> 0, to |-> 0]

-----------------------------------------------------------------------------
(* The processor.  A line that is displaced is written back if it is       *)
(* dirty; a store makes every older copy stale.                            *)
In(cache, line) == cache[SetOf(line)].line = line
WrittenBack(mem, e) == IF ~e.dirty THEN mem ELSE IF e.fresh THEN mem \cup {e.line} ELSE mem \ {e.line}
StaleIn(cache, line) == [s \in DOMAIN cache |-> IF cache[s].line = line
                                                  THEN [cache[s] EXCEPT !.fresh = FALSE] ELSE cache[s]]
Displace(line) == IF In(hkD, line) THEN hkMem ELSE WrittenBack(hkMem, hkD[SetOf(line)])
Stores(line) == /\ hkMem' = Displace(line) \ {line}
                /\ hkD' = [hkD EXCEPT ![SetOf(line)] = [line |-> line, dirty |-> TRUE, fresh |-> TRUE]]
                /\ hkI' = StaleIn(hkI, line)
Loads(line) == /\ ~In(hkD, line) /\ hkMem' = Displace(line)
               /\ hkD' = [hkD EXCEPT ![SetOf(line)] = [line |-> line, dirty |-> FALSE, fresh |-> line \in hkMem]]
               /\ UNCHANGED hkI
Fetches(line) == /\ ~In(hkI, line) /\ UNCHANGED <<hkMem, hkD>>
                 /\ hkI' = [hkI EXCEPT ![SetOf(line)] = [line |-> line, dirty |-> FALSE, fresh |-> line \in hkMem]]
(* Past the cache: a device, or the program in uncached memory.            *)
WritesMemory(line) == /\ hkMem' = hkMem \cup {line}
                      /\ hkD' = StaleIn(hkD, line) /\ hkI' = StaleIn(hkI, line)

(* While a loop runs, only interrupt handlers do, on other lines than the  *)
(* region's; while alt_load runs nothing does, but the processor fetches   *)
(* ahead.  A device is given memory that is not dirty in the cache.  Bytes *)
(* outside the uncached block belong to others.                            *)
Dirty(line) == In(hkD, line) /\ hkD[SetOf(line)].dirty
Free(line) == line \notin LinesOf(hkLoop.start, hkLoop.len)
HasOthers(line) == \E a \in line * HkLine .. line * HkLine + HkLine - 1 : a \notin hkBlock.from .. hkBlock.to - 1
BlockLines == LinesOf(hkBlock.from, hkBlock.to - hkBlock.from)
Access(line) ==
  /\ Free(line) \/ hkUse = "load"
  /\ CASE hkUse = "data" -> Stores(line) \/ Loads(line) \/ (~Dirty(line) /\ WritesMemory(line))
       [] hkUse = "code" -> Fetches(line) \/ (hkLoop = NoLoop /\ WritesMemory(line))
       [] hkUse = "load" -> Fetches(line)
       [] OTHER -> \/ HasOthers(line) /\ (Stores(line) \/ Loads(line))
                   \/ hkLoop = NoLoop /\ line \in BlockLines /\ WritesMemory(line)
  /\ hkDone' = NoLoop /\ UNCHANGED <<hkUse, hkLoop, hkLost, hkBlock>>

-----------------------------------------------------------------------------
(* The instructions: flushda and initda look for the line, flushd and      *)
(* flushi take what is in the set.                                         *)
DropD(s) == hkD' = [hkD EXCEPT ![s] = Empty]
flushda(line) == IF In(hkD, line) THEN hkMem' = WrittenBack(hkMem, hkD[SetOf(line)]) /\ DropD(SetOf(line))
                                  ELSE UNCHANGED <<hkMem, hkD>>
initda(line) == /\ IF In(hkD, line) THEN DropD(SetOf(line)) ELSE UNCHANGED hkD
                /\ hkLost' = IF Dirty(line) THEN hkLost \cup {line} ELSE hkLost
                /\ hkMem' = IF Dirty(line) THEN hkMem \cup {line} ELSE hkMem   \* what it holds now counts
flushd(line) == hkMem' = WrittenBack(hkMem, hkD[SetOf(line)]) /\ DropD(SetOf(line))
flushi(line) == hkI' = [hkI EXCEPT ![SetOf(line)] = Empty]
Instruction(op, line) ==
  CASE op = "copy" -> Stores(line) /\ UNCHANGED hkLost
    [] op \in {"flushda", "ecc", "malloc"} -> flushda(line) /\ UNCHANGED <<hkI, hkLost>>
    [] op = "initda" -> initda(line) /\ UNCHANGED hkI
    [] op = "flushd" -> flushd(line) /\ UNCHANGED <<hkI, hkLost>>
    [] OTHER -> flushi(line) /\ UNCHANGED <<hkMem, hkD, hkLost>>

(* The loops.  "at" goes in steps of a line from the start, which need not *)
(* be aligned; an unaligned region has one step more, after its end.       *)
Size == HkSets * HkLine
Region(op, start, len, clipped) == [op |-> op, start |-> start, len |-> len, at |-> start,
                                    end |-> start + clipped, then |-> <<>>]
alt_dcache_flush(start, len) == Region("flushda", start, len, len)
alt_dcache_flush_no_writeback(start, len) == Region("initda", start, len, len)
alt_icache_flush(start, len) == Region("flushi", start, len, IF len > Size THEN Size ELSE len)
alt_dcache_flush_all == Region("flushd", 0, Size, Size)
alt_icache_flush_all == alt_icache_flush(0, Size)
\* Mutant: an unaligned end has no line of its own.
NoneMore(loop) == 0
OneMore(loop) == IF loop.start % HkLine # 0 THEN HkLine ELSE 0
Over(loop) == LET rounds == (loop.end - loop.start + HkLine - 1) \div HkLine
              IN  loop.at >= loop.start + rounds * HkLine + OneMore(loop)

Iterate == /\ hkLoop.op # "none" /\ ~Over(hkLoop)
           /\ Instruction(hkLoop.op, LineOf(hkLoop.at))
           /\ hkLoop' = [hkLoop EXCEPT !.at = @ + HkLine]
           /\ hkDone' = NoLoop /\ UNCHANGED <<hkUse, hkBlock>>
Return == /\ hkLoop.op # "none" /\ Over(hkLoop)
          /\ hkLoop' = IF hkLoop.then = <<>> THEN NoLoop
                       ELSE [Head(hkLoop.then) EXCEPT !.then = Tail(hkLoop.then)]
          /\ hkDone' = hkLoop
          /\ UNCHANGED <<hkUse, hkMem, hkD, hkI, hkLost, hkBlock>>

-----------------------------------------------------------------------------
(* The callers.                                                            *)
Call(loop) == hkLoop = NoLoop /\ hkLoop' = loop /\ hkDone' = NoLoop /\ hkLost' = {}
Flush == /\ \E start \in 0 .. HkLine, len \in HkLengths :
              \/ hkUse = "data" /\ Call(alt_dcache_flush(start, len))
              \/ hkUse = "data" /\ Call(alt_dcache_flush_no_writeback(start, len))
              \/ hkUse = "code" /\ Call(alt_icache_flush(start, len))
         /\ UNCHANGED <<hkUse, hkMem, hkD, hkI, hkBlock>>

(* The variable of the ECC handler, in line 0, is read past the cache.     *)
alt_ecc_fatal_exception_register ==
  /\ hkUse = "data" /\ Call([alt_dcache_flush(0, 1) EXCEPT !.op = "ecc"])
  /\ Stores(0) /\ UNCHANGED <<hkUse, hkBlock>>

(* Sections that are not in their place are copied, then both caches are   *)
(* flushed.  Reading the copy's source changes nothing that matters here.  *)
Copy(s) == Region("copy", s.to * HkLine, (s.end - s.to) * HkLine, (s.end - s.to) * HkLine)
alt_load_section(s) == IF s.to # s.from THEN <<Copy(s)>> ELSE <<>>
\* Mutant: the instruction cache is flushed before the data cache.
LoadFlushesCodeFirst == LET all == alt_load_section(HkSections[1]) \o alt_load_section(HkSections[2])
                                     \o alt_load_section(HkSections[3])
                        IN  all \o <<alt_icache_flush_all, alt_dcache_flush_all>>
alt_load == LET all == alt_load_section(HkSections[1]) \o alt_load_section(HkSections[2])
                         \o alt_load_section(HkSections[3])
            IN  all \o <<alt_dcache_flush_all, alt_icache_flush_all>>
Load == /\ hkUse = "load" /\ Call([Head(alt_load) EXCEPT !.then = Tail(alt_load)])
        /\ UNCHANGED <<hkUse, hkMem, hkD, hkI, hkBlock>>

(* A block of whole lines, flushed, then used past the cache.              *)
Rounded(size) == ((size + HkLine - 1) \div HkLine) * HkLine
alt_uncached_malloc ==
  /\ hkUse = "uncached" /\ hkBlock.to = 0
  /\ \E line \in 0 .. HkLines - 1, size \in HkLengths \ {0} :
       /\ line * HkLine + Rounded(size) <= HkLines * HkLine
       /\ hkBlock' = [from |-> line * HkLine, to |-> line * HkLine + Rounded(size)]
       /\ Call([alt_dcache_flush(line * HkLine, Rounded(size)) EXCEPT !.op = "malloc"])
  /\ UNCHANGED <<hkUse, hkMem, hkD, hkI>>
alt_uncached_free ==
  /\ hkBlock.to > 0 /\ hkLoop = NoLoop
  /\ hkBlock' = [from |-> 0, to |-> 0] /\ hkDone' = NoLoop
  /\ UNCHANGED <<hkUse, hkMem, hkD, hkI, hkLoop, hkLost>>

HkNext == \/ \E line \in 0 .. HkLines - 1 : Access(line)
          \/ Iterate \/ Return \/ Flush \/ alt_ecc_fatal_exception_register \/ Load
          \/ alt_uncached_malloc \/ alt_uncached_free
HkSpec == HkInit /\ [][HkNext]_hkVars

-----------------------------------------------------------------------------
(* Sets hold lines that belong to them; loops stay within two lines of     *)
(* their region.                                                           *)
HkTypeInv == /\ hkMem \subseteq 0 .. HkLines - 1 /\ hkLost \subseteq 0 .. HkLines - 1
             /\ \A c \in {hkD, hkI}, s \in DOMAIN hkD : c[s].line \in {-1} \cup {l \in 0 .. HkLines - 1 : SetOf(l) = s}
             /\ hkLoop.at <= hkLoop.end + 2 * HkLine

(* After a flush a device, or a handler that reads past the cache, finds   *)
(* in memory what was written last, whatever the region's alignment.       *)
Region_(loop) == LinesOf(loop.start, loop.len) \cap (0 .. HkLines - 1)
HkWritten == hkDone.op \in {"flushda", "ecc", "malloc"} =>
               \A l \in Region_(hkDone) : l \in hkMem /\ ~In(hkD, l)

(* After a flush without write-back no line of the region is cached; what  *)
(* it threw away lies in the region's lines or, only if the region is      *)
(* unaligned, in the line right after them.                                *)
HkThrown ==
  /\ hkDone.op = "initda" => \A l \in Region_(hkDone) : ~In(hkD, l)
  /\ hkLoop.op = "initda" =>
       \A l \in hkLost : \/ l \in Region_(hkLoop)
                         \/ hkLoop.start % HkLine # 0 /\ l <= LineOf(hkLoop.start + hkLoop.len) + 1

(* After a flush of instructions no line of the region is stale, however   *)
(* much longer than the cache it is.                                       *)
HkCodeSeen == hkUse = "code" /\ hkDone.op = "flushi" => \A l \in Region_(hkDone) : ~In(hkI, l)

(* After alt_load every section is in memory, and nothing stale of it in   *)
(* the instruction cache, although the processor fetches all the time.     *)
Loaded == UNION {HkSections[i].to .. HkSections[i].end - 1 : i \in 1 .. Len(HkSections)}
HkLoadSeen == hkUse = "load" /\ hkDone.op # "none" /\ hkLoop = NoLoop =>
                \A l \in Loaded : l \in hkMem /\ (In(hkI, l) => hkI[SetOf(l)].fresh)

(* What is written past the cache into an uncached block stays in memory:  *)
(* no cached line that is written back later lies over it.                 *)
HkBlockKept == hkBlock.to > 0 /\ hkLoop = NoLoop =>
                 \A l \in BlockLines : l \in hkMem /\ ~Dirty(l)

HkSafe == HkTypeInv /\ HkWritten /\ HkThrown /\ HkCodeSeen /\ HkLoadSeen /\ HkBlockKept
=============================================================================
