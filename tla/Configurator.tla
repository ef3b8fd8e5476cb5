---------------------------- MODULE Configurator ----------------------------
(***************************************************************************)
(* The configurators of qsys/configurator/configurator.sv as               *)
(* qsys/qsys.qsys wires them: each writes a table from its ROM, the end of *)
(* one table releases the reset of the next configurators, and those of    *)
(* one bus share a slave that takes a write long before it has carried it  *)
(* out.  The panel (PuType) and the ADV7613 checker hold the first reset.  *)
(***************************************************************************)
EXTENDS Integers, Sequences, SequencesExt, FiniteSets

CONSTANTS
  Units,       \* the configurators
  Parents,     \* Parents[u]: those whose reset_source resets u
  Bus,         \* Bus[u]: the slave u writes to
  KindOf,      \* KindOf[u]: the display that pu_0 releases u for, or "any"
  Checked,     \* those reset by pu_ready_reset and the checker
  Chips,       \* Chips[u]: the chip select of each entry of u's table
  Delay,       \* Delay[u]: edges before the first write: DELAY_MS
  Gap,         \* edges between two writes: 32
  Changes,     \* bound on the changes of the panel and the checker
  Foreign      \* buses with a master that is not a configurator

Size(u)  == Len(Chips[u])
Kinds    == {KindOf[u] : u \in Units} \ {"any"}
Buses    == {Bus[u] : u \in Units}
Free     == [unit |-> "free", entry |-> 0, old |-> FALSE]
Alien    == [unit |-> "foreign", entry |-> 0, old |-> FALSE]
Zero     == -1     \* what the outputs show after reset: no entry, no chip
None     == "none"

ASSUME UnitAssumption ==
  /\ "free" \notin Units /\ "foreign" \notin Units
  /\ Parents \in [Units -> SUBSET Units] /\ Checked \subseteq Units
  /\ \A u \in Units : Size(u) \in Nat \ {0} /\ DOMAIN Chips[u] = 1 .. Size(u)
  /\ \A u \in Units : Delay[u] \in Nat
  /\ \A u \in Units : \A p \in Parents[u] : \A q \in Parents[p] : Parents[q] = {}
  /\ Gap \in Nat \ {0} /\ Changes \in Nat /\ Foreign \subseteq Buses

VARIABLES
  rom_addr, rom_data,     \* indices into the table; Size(u) is the FFFFFFFF
  amm_write, outs,        \* outs: the entry on amm_address, _writedata, gp_outs
  cntr, delay_cntr, completed,
  synced,                 \* the reset controller has seen an edge since assertion
  kind, ready, check,     \* outputs of pu_0 and avm_adv7613_check_0
  bus,                    \* the transfer each slave carries out
  sent,                   \* history: entries transferred since the reset
  changes

regs == <<rom_addr, rom_data, amm_write, outs, cntr, delay_cntr, completed, synced>>
env  == <<kind, ready, check, changes>>
vars == <<regs, env, bus, sent>>

Init ==
  /\ rom_addr = [u \in Units |-> 0] /\ rom_data = [u \in Units |-> 0]
  /\ amm_write = [u \in Units |-> FALSE] /\ outs = [u \in Units |-> Zero]
  /\ cntr = [u \in Units |-> 0] /\ delay_cntr = [u \in Units |-> 0]
  /\ completed = [u \in Units |-> FALSE] /\ synced = [u \in Units |-> FALSE]
  /\ kind = None /\ ready = FALSE /\ check = TRUE /\ changes = 0
  /\ bus = [b \in Buses |-> Free] /\ sent = [u \in Units |-> <<>>]
-----------------------------------------------------------------------------
\* The reset inputs of u that come from outside.
Outside(u, k, r, c) == (KindOf[u] \in {"any", k}) /\ (u \in Checked => r /\ c)
Released(u) == Outside(u, kind, ready, check) /\ \A p \in Parents[u] : completed[p]

\* A unit in reset has completed = 0, which resets those behind it.
Behind(S) == S \union {u \in Units : Parents[u] \intersect S # {}}

ResetKeepsCompleted(S) ==
  /\ rom_addr'   = [u \in Units |-> IF u \in S THEN 0 ELSE rom_addr[u]]
  /\ amm_write'  = [u \in Units |-> amm_write[u] /\ u \notin S]
  /\ outs'       = [u \in Units |-> IF u \in S THEN Zero ELSE outs[u]]
  /\ cntr'       = [u \in Units |-> IF u \in S THEN 0 ELSE cntr[u]]
  /\ delay_cntr' = [u \in Units |-> IF u \in S THEN 0 ELSE delay_cntr[u]]
  /\ synced'     = [u \in Units |-> synced[u] /\ u \notin S]
  /\ UNCHANGED <<rom_data, completed>>
Reset(S) ==
  /\ rom_addr'   = [u \in Units |-> IF u \in S THEN 0 ELSE rom_addr[u]]
  /\ amm_write'  = [u \in Units |-> amm_write[u] /\ u \notin S]
  /\ outs'       = [u \in Units |-> IF u \in S THEN Zero ELSE outs[u]]
  /\ cntr'       = [u \in Units |-> IF u \in S THEN 0 ELSE cntr[u]]
  /\ delay_cntr' = [u \in Units |-> IF u \in S THEN 0 ELSE delay_cntr[u]]
  /\ completed'  = [u \in Units |-> completed[u] /\ u \notin S]
  /\ synced'     = [u \in Units |-> synced[u] /\ u \notin S]
  /\ UNCHANGED rom_data       \* the output of the ROM has no reset

\* A transfer that is on the bus goes on; it no longer belongs to the table.
Restart(S) ==
  /\ sent' = [u \in Units |-> IF u \in S THEN <<>> ELSE sent[u]]
  /\ bus'  = [b \in Buses |-> IF bus[b].unit \in S
                              THEN [bus[b] EXCEPT !.old = TRUE] ELSE bus[b]]

\* The panel or the checker changes its reset outputs.  The panel releases a
\* kind before it is ready and holds both together (ReadyAfterKind).
Change ==
  /\ changes < Changes /\ changes' = changes + 1
  /\ \/ kind = None /\ kind' \in Kinds /\ UNCHANGED <<ready, check>>
     \/ kind # None /\ ~ready /\ ready' = TRUE /\ UNCHANGED <<kind, check>>
     \/ kind # None /\ kind' = None /\ ready' = FALSE /\ UNCHANGED check
     \/ check' = ~check /\ UNCHANGED <<kind, ready>>
  /\ \E S \in {Behind(Behind({u \in Units : ~Outside(u, kind', ready', check')}))} :
       Reset(S) /\ Restart(S)

Accepts(u) == amm_write[u] /\ bus[Bus[u]] = Free

\* One edge of the clock of u, out of reset.
NextCountKept(u) ==
  IF delay_cntr[u] = Delay[u] /\ cntr[u] < Gap THEN cntr[u] + 1 ELSE cntr[u]
NextCountAfter(u) ==
  IF Accepts(u) THEN 0
  ELSE IF delay_cntr[u] > Delay[u] /\ cntr[u] < Gap THEN cntr[u] + 1 ELSE cntr[u]
NextCount(u) ==
  IF Accepts(u) THEN 0
  ELSE IF delay_cntr[u] = Delay[u] /\ cntr[u] < Gap THEN cntr[u] + 1 ELSE cntr[u]

NextAddressTwice(u) ==
  IF Accepts(u) \/ (~amm_write[u] /\ cntr[u] = Gap /\ rom_data[u] < Size(u))
  THEN rom_addr[u] + 1 ELSE rom_addr[u]
NextAddress(u) == IF Accepts(u) THEN rom_addr[u] + 1 ELSE rom_addr[u]

NextWriteAny(u) ==
  IF ~amm_write[u] /\ cntr[u] = Gap THEN TRUE ELSE amm_write[u] /\ ~Accepts(u)
NextWrite(u) ==
  IF ~amm_write[u] /\ cntr[u] = Gap THEN rom_data[u] < Size(u)
                                    ELSE amm_write[u] /\ ~Accepts(u)

CompletedEarly(u) == rom_addr[u] >= Size(u) - 1
Completed(u)      == rom_data[u] = Size(u)

Work(u) ==
  /\ rom_addr'   = [rom_addr EXCEPT ![u] = NextAddress(u)]
  /\ rom_data'   = [rom_data EXCEPT ![u] = rom_addr[u]]
  /\ outs'       = [outs EXCEPT ![u] = rom_data[u]]
  /\ cntr'       = [cntr EXCEPT ![u] = NextCount(u)]
  /\ amm_write'  = [amm_write EXCEPT ![u] = NextWrite(u)]
  /\ delay_cntr' = [delay_cntr EXCEPT ![u] = IF @ = Delay[u] THEN @ ELSE @ + 1]
  /\ completed'  = [completed EXCEPT ![u] = Completed(u)]
  /\ bus' = IF Accepts(u)
            THEN [bus EXCEPT ![Bus[u]] = [unit |-> u, entry |-> outs[u], old |-> FALSE]]
            ELSE bus
  /\ UNCHANGED <<synced, env, sent>>

\* An edge in reset: only the ROM follows its address.
Held(u) ==
  /\ rom_data' = [rom_data EXCEPT ![u] = rom_addr[u]]
  /\ synced'   = [synced EXCEPT ![u] = Released(u) /\ rom_data[u] = rom_addr[u]]
  /\ UNCHANGED <<rom_addr, amm_write, outs, cntr, delay_cntr, completed, env, bus, sent>>

Edge(u) == IF Released(u) /\ synced[u] THEN Work(u) ELSE Held(u)

\* The slave has carried out what it took.
Done(b) ==
  /\ bus[b] # Free /\ bus' = [bus EXCEPT ![b] = Free]
  /\ sent' = [u \in Units |-> IF bus[b].unit = u /\ ~bus[b].old
                              THEN Append(sent[u], bus[b].entry) ELSE sent[u]]
  /\ UNCHANGED <<regs, env>>

\* Another master of the slave: the checker, the host.
Other(b) ==
  /\ bus[b] = Free /\ bus' = [bus EXCEPT ![b] = Alien]
  /\ UNCHANGED <<regs, env, sent>>

Next ==
  \/ Change
  \/ \E u \in Units : Edge(u)
  \/ \E b \in Buses : Done(b)
  \/ \E b \in Foreign : Other(b)

Spec == Init /\ [][Next]_vars
\* The clocks run, a slave finishes, and its arbiter takes the masters in turn.
FairSpec ==
  /\ Spec
  /\ \A u \in Units : WF_vars(Edge(u)) /\ SF_vars(Accepts(u) /\ Edge(u))
  /\ \A b \in Buses : WF_vars(Done(b))
-----------------------------------------------------------------------------
(* Properties.                                                             *)

TypeInv ==
  /\ \A u \in Units :
       /\ rom_addr[u] \in 0 .. Size(u) /\ rom_data[u] \in 0 .. Size(u)
       /\ amm_write[u] \in BOOLEAN /\ outs[u] \in Zero .. Size(u)
       /\ cntr[u] \in 0 .. Gap /\ delay_cntr[u] \in 0 .. Delay[u]
       /\ completed[u] \in BOOLEAN /\ synced[u] \in BOOLEAN
  /\ kind \in Kinds \union {None} /\ ready \in BOOLEAN /\ check \in BOOLEAN
  /\ \A b \in Buses : bus[b].unit \in Units \union {"free", "foreign"}
  /\ changes \in 0 .. Changes

\* Each table goes out in order, every entry once, whatever other masters do
\* and whenever a reset restarts it: the entry on the bus is three registers
\* behind the address, and the bus takes it at an edge of its own choice.
InOrder ==
  \A u \in Units : Len(sent[u]) <= Size(u) /\ \A i \in DOMAIN sent[u] : sent[u][i] = i - 1

\* A configurator writes only after the tables of those before it have been
\* carried out.  On another bus, the last entry may still be on its way, for
\* completed says that it was taken, not that it arrived.
AfterParents ==
  \A b \in Buses, u \in Units : bus[b].unit = u /\ ~bus[b].old =>
    \A p \in Parents[u] :
      Len(sent[p]) >= Size(p) - (IF Bus[p] = Bus[u] THEN 0 ELSE 1)

\* The chip that gp_outs selects while entry i is carried out.
Selected(u) == IF outs[u] + 1 \in DOMAIN Chips[u] THEN Chips[u][outs[u] + 1] ELSE None

\* An entry is carried out with its own chip selected or with that of the next
\* entry, never with a third: gp_outs is not held until the transfer ends, but
\* it cannot run further ahead.
OwnOrNextSelect ==
  \A b \in Buses, u \in Units : bus[b].unit = u /\ ~bus[b].old =>
    LET i == bus[b].entry + 1
    IN  Selected(u) \in {Chips[u][i]} \union
                        (IF i < Size(u) THEN {Chips[u][i + 1]} ELSE {None})

\* When the panel and the checker have settled, every configurator they
\* release completes its table.
Settled(u) == Outside(u, kind, ready, check)
AllConfigured ==
  \A u \in Units :
    LET Above == {u} \union Parents[u] \union UNION {Parents[p] : p \in Parents[u]}
    IN  <>[]((\A v \in Above : Settled(v)) => completed[u])

\* The chain of tables: each in order, after those it depends on, and with no
\* third chip selected.
ChainSafe == TypeInv /\ InOrder /\ AfterParents /\ OwnOrNextSelect
=============================================================================
