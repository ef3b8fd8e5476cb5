---------------------------- MODULE LibraryProofs ---------------------------
(***************************************************************************)
(* The parts of the HAL that MCLibrary runs: the descriptors, for every    *)
(* number of callers, descriptors, devices and file systems; the clock,    *)
(* for every word, tick rate and time set; calls that go to a driver, for  *)
(* every number of callers and descriptors; the device lists, for every    *)
(* set of names and every length of the lists; the caches, for every size, *)
(* layout of sections and length of a region; and the life of a program,   *)
(* for every length of the lists of constructors.                          *)
(*                                                                         *)
(* That a device has one lock at most rests on what alt_fd_lock does not   *)
(* search: the highest descriptor.  The invariant says why that is enough: *)
(* a descriptor that shares a locked device lies above the locked one, or  *)
(* belongs to an open that has not looked for locks yet.                   *)
(***************************************************************************)
EXTENDS MCLibrary, FiniteSetTheorems, SequenceTheorems, WellFoundedInduction, TLAPS

HasDevice == \A f \in Standard : hfDev[f] # HfNone

\* Until the streams are redirected nothing has been opened or locked.
Starting ==
  hfStart # <<>> => /\ \A t \in HfCallers : hfPc[t] = "idle"
                    /\ hfOpen = {}
                    /\ \A f \in Fds : "EXCL" \notin hfFlags[f]

\* What has flags of a device is a device, below the high water mark.
Flagged ==
  \A f \in Fds : "DEV" \in hfFlags[f] \/ "EXCL" \in hfFlags[f] =>
                   hfDev[f] \in HfDevices /\ f <= alt_max_fd

\* An open that is not done has no lock.
Unlocked == \A t \in HfCallers : hfPc[t] \in {"got", "opening"} =>
                                   "EXCL" \notin hfFlags[hfFd[t]]

Got(f) == \E t \in HfCallers : hfPc[t] = "got" /\ hfFd[t] = f
Above(f, g) == "EXCL" \in hfFlags[g] /\ hfDev[f] = hfDev[g] => g < f \/ Got(f)
LocksBelow == \A f, g \in Fds : f # g => Above(f, g)

HfInv == /\ HfTypeInv /\ HfNoLeak /\ HfHighWater /\ HasDevice /\ Starting
         /\ Flagged /\ Unlocked /\ LocksBelow

LEMMA Constants ==
  /\ ALT_MAX_FD \in Nat /\ ALT_MAX_FD > 3 /\ Standard \subseteq Fds /\ Fds \subseteq Nat
  /\ HfNull \in HfDevices /\ HfConsole \in HfDevices /\ HfNone \notin Targets
  /\ HfDevices \subseteq Targets
BY HfAssumption DEF Standard, Fds, Targets

\* alt_get_fd takes a free descriptor, which is no standard one.
LEMMA FirstFreeFacts ==
  ASSUME HfInv, NEW f \in Fds, FirstFree(f)
  PROVE  /\ f \in Fds \ Standard /\ hfDev[f] = HfNone
         /\ ~Held(f) /\ hfFlags[f] = {}
         /\ f \in Nat /\ f >= 3 /\ f < ALT_MAX_FD
<1>1. hfDev[f] = HfNone
  BY DEF FirstFree, FreeFds
<1>2. f \notin Standard
  BY <1>1 DEF HfInv, HasDevice
<1>3. ~Held(f) /\ hfFlags[f] = {}
  BY <1>1, <1>2 DEF HfInv, HfNoLeak
<1>4. f \in Nat /\ f >= 3 /\ f < ALT_MAX_FD
  BY <1>2, Constants DEF Fds, Standard
<1>5. QED BY <1>1, <1>2, <1>3, <1>4

LEMMA HighestFacts ==
  ASSUME HfTypeInv, NEW f \in Fds
  PROVE  /\ Highest(f) \in -1 .. ALT_MAX_FD - 1 /\ Highest(f) >= f
         /\ Highest(f) >= alt_max_fd
BY Constants DEF HfTypeInv, Highest, Fds

LEMMA InitHfInv == HfInit => HfInv
<1> SUFFICES ASSUME HfInit PROVE HfInv
  OBVIOUS
<1>1. \A f \in Fds : hfDev[f] = IF f \in Standard THEN HfNull ELSE HfNone
  BY DEF HfInit
<1>2. \A f \in Fds : hfFlags[f] = {}
  BY DEF HfInit
<1>3. \A t \in HfCallers : hfPc[t] = "idle" /\ hfFd[t] = -1
  BY DEF HfInit
<1>4. HfTypeInv
  <2>1. hfDev \in [Fds -> Targets \cup {HfNone}]
    BY Constants DEF HfInit
  <2>2. hfStart \in Seq(Standard)
    BY DEF HfInit, Standard
  <2>3. alt_max_fd \in -1 .. ALT_MAX_FD - 1
    BY Constants DEF HfInit
  <2>4. hfFd \in [HfCallers -> -1 .. ALT_MAX_FD - 1]
    BY Constants DEF HfInit
  <2>5. QED BY <2>1, <2>2, <2>3, <2>4 DEF HfInit, HfTypeInv
<1>5. HfNoLeak
  BY <1>1, <1>2, <1>3 DEF HfNoLeak, Held, HfInit
<1>6. HfHighWater
  BY <1>1 DEF HfHighWater
<1>7. HasDevice
  BY <1>1, Constants DEF HasDevice, Targets
<1>8. Starting
  BY <1>2, <1>3 DEF Starting, HfInit
<1>9. Flagged /\ Unlocked /\ LocksBelow
  BY <1>2, <1>3 DEF Flagged, Unlocked, LocksBelow, Above
<1>10. QED BY <1>4, <1>5, <1>6, <1>7, <1>8, <1>9 DEF HfInv

\* While calls run the streams have been redirected, and a busy caller's
\* descriptor is its own.
LEMMA BusyFacts ==
  ASSUME HfInv, NEW t \in HfCallers, hfPc[t] \in {"got", "opening"}
  PROVE  /\ hfFd[t] \in Fds \ Standard /\ hfFd[t] \notin hfOpen
         /\ hfDev[hfFd[t]] # HfNone /\ hfDev[hfFd[t]] \in Targets
         /\ hfFd[t] <= alt_max_fd /\ "EXCL" \notin hfFlags[hfFd[t]]
         /\ \A u \in HfCallers \ {t} : hfPc[u] # "idle" => hfFd[u] # hfFd[t]
         /\ hfStart = <<>>
<1>1. hfFd[t] \in Fds \ Standard /\ hfFd[t] \notin hfOpen
  BY DEF HfInv, HfNoLeak
<1>2. hfDev[hfFd[t]] # HfNone
  BY <1>1 DEF HfInv, HfNoLeak, Held
<1>3. hfDev[hfFd[t]] \in Targets
  BY <1>1, <1>2 DEF HfInv, HfTypeInv
<1>4. hfFd[t] <= alt_max_fd
  BY <1>1, <1>2 DEF HfInv, HfHighWater
<1>5. \A u \in HfCallers \ {t} : hfPc[u] # "idle" => hfFd[u] # hfFd[t]
  BY <1>1 DEF HfInv, HfNoLeak
<1>6. "EXCL" \notin hfFlags[hfFd[t]] /\ hfStart = <<>>
  BY DEF HfInv, Unlocked, Starting
<1>7. QED BY <1>1, <1>2, <1>3, <1>4, <1>5, <1>6

LEMMA RedirectHfInv == ASSUME HfInv, HfRedirect PROVE HfInv'
<1>1. /\ hfStart # <<>> /\ hfStart' = Tail(hfStart) /\ UNCHANGED <<hfPc, hfFd, hfOpen>>
      /\ hfStart \in Seq(Standard) /\ Head(hfStart) \in Standard
      /\ hfStart' \in Seq(Standard)
  <2>1. hfStart # <<>> /\ hfStart' = Tail(hfStart) /\ UNCHANGED <<hfPc, hfFd, hfOpen>>
    BY DEF HfRedirect
  <2>2. hfStart \in Seq(Standard)
    BY DEF HfInv, HfTypeInv
  <2>3. QED BY <2>1, <2>2, HeadTailProperties
<1>2. /\ \A t \in HfCallers : hfPc[t] = "idle"
      /\ hfOpen = {} /\ \A f \in Fds : "EXCL" \notin hfFlags[f]
  BY <1>1 DEF HfInv, Starting
<1>3. PICK n \in Fds : FirstFree(n) /\ alt_max_fd' \in {alt_max_fd, Highest(n)}
  BY DEF HfRedirect
<1>4. \A g \in Fds : FirstFree(g) =>
        /\ Highest(g) \in -1 .. ALT_MAX_FD - 1
        /\ Highest(g) >= 3 /\ Highest(g) >= alt_max_fd
  <2> SUFFICES ASSUME NEW g \in Fds, FirstFree(g)
               PROVE  /\ Highest(g) \in -1 .. ALT_MAX_FD - 1
                      /\ Highest(g) >= 3 /\ Highest(g) >= alt_max_fd
    OBVIOUS
  <2>1. g \in Nat /\ g >= 3
    BY FirstFreeFacts
  <2>2. /\ Highest(g) \in -1 .. ALT_MAX_FD - 1 /\ Highest(g) >= g
        /\ Highest(g) >= alt_max_fd
    BY HighestFacts DEF HfInv
  <2>3. QED BY <2>1, <2>2, Constants
<1>5. /\ alt_max_fd \in -1 .. ALT_MAX_FD - 1
      /\ alt_max_fd' \in -1 .. ALT_MAX_FD - 1 /\ alt_max_fd' >= alt_max_fd
  BY <1>3, <1>4 DEF HfInv, HfTypeInv
<1>6. \/ UNCHANGED <<hfDev, hfFlags>>
      \/ /\ hfDev' = [hfDev EXCEPT ![Head(hfStart)] = HfConsole]
         /\ hfFlags' = [hfFlags EXCEPT ![Head(hfStart)] = {"DEV"}]
         /\ alt_max_fd' >= 3
  <2>1. CASE UNCHANGED <<hfDev, hfFlags>>
    BY <2>1
  <2>2. CASE ~UNCHANGED <<hfDev, hfFlags>>
    <3>1. /\ hfDev' = [hfDev EXCEPT ![Head(hfStart)] = HfConsole]
          /\ hfFlags' = [hfFlags EXCEPT ![Head(hfStart)] = {"DEV"}]
      BY <2>2, Zenon DEF HfRedirect
    <3>2. PICK f \in Fds : FirstFree(f) /\ alt_max_fd' = Highest(f)
      BY <2>2, Zenon DEF HfRedirect
    <3>3. QED BY <1>4, <3>1, <3>2
  <2>3. QED BY <2>1, <2>2
<1>7. /\ hfDev' \in [Fds -> Targets \cup {HfNone}]
      /\ hfFlags' \in [Fds -> SUBSET {"DEV", "EXCL", "NONBLOCK"}]
  <2>1. /\ hfDev \in [Fds -> Targets \cup {HfNone}]
        /\ hfFlags \in [Fds -> SUBSET {"DEV", "EXCL", "NONBLOCK"}]
    BY DEF HfInv, HfTypeInv
  <2>2. HfConsole \in Targets \cup {HfNone}
    BY Constants DEF Targets
  <2>3. {"DEV"} \in SUBSET {"DEV", "EXCL", "NONBLOCK"}
    OBVIOUS
  <2>4. CASE UNCHANGED <<hfDev, hfFlags>>
    BY <2>1, <2>4
  <2>5. CASE /\ hfDev' = [hfDev EXCEPT ![Head(hfStart)] = HfConsole]
             /\ hfFlags' = [hfFlags EXCEPT ![Head(hfStart)] = {"DEV"}]
             /\ alt_max_fd' >= 3
    <3>1. hfDev' \in [Fds -> Targets \cup {HfNone}]
      BY <2>1, <2>2, <2>5, Zenon
    <3>2. hfFlags' \in [Fds -> SUBSET {"DEV", "EXCL", "NONBLOCK"}]
      BY <2>1, <2>3, <2>5, Zenon
    <3>3. QED BY <3>1, <3>2
  <2>6. QED BY <1>6, <2>4, <2>5, Zenon
<1>8. HfTypeInv'
  BY <1>1, <1>5, <1>7 DEF HfInv, HfTypeInv
<1>9. \A f \in Fds \ Standard : hfDev'[f] = hfDev[f] /\ hfFlags'[f] = hfFlags[f]
  BY <1>1, <1>6 DEF HfInv, HfTypeInv
<1>10. \A f \in Standard : hfDev'[f] # HfNone
  BY <1>1, <1>6, Constants DEF HfInv, HfTypeInv, HasDevice
<1>11. \A f \in Fds : "EXCL" \notin hfFlags'[f]
  BY <1>1, <1>2, <1>6 DEF HfInv, HfTypeInv
<1>12. Flagged'
  <2> SUFFICES ASSUME NEW f \in Fds, "DEV" \in hfFlags'[f]
               PROVE  hfDev'[f] \in HfDevices /\ f <= alt_max_fd'
    BY <1>11 DEF Flagged
  <2>1. CASE UNCHANGED <<hfDev, hfFlags>>
    BY <1>5, <2>1, Constants DEF HfInv, HfTypeInv, Flagged
  <2>2. CASE /\ hfDev' = [hfDev EXCEPT ![Head(hfStart)] = HfConsole]
             /\ hfFlags' = [hfFlags EXCEPT ![Head(hfStart)] = {"DEV"}]
             /\ alt_max_fd' >= 3
    <3>1. CASE f = Head(hfStart)
      BY <1>1, <1>5, <2>2, <3>1, Constants DEF HfInv, HfTypeInv, Standard
    <3>2. CASE f # Head(hfStart)
      <4>1. hfDev'[f] = hfDev[f] /\ hfFlags'[f] = hfFlags[f]
        BY <2>2, <3>2 DEF HfInv, HfTypeInv
      <4>2. hfDev[f] \in HfDevices /\ f <= alt_max_fd
        BY <4>1 DEF HfInv, Flagged
      <4>3. f \in Int /\ alt_max_fd \in Int /\ alt_max_fd' \in Int
        BY <1>5, Constants
      <4>4. f <= alt_max_fd'
        BY <1>5, <4>2, <4>3
      <4>5. QED BY <4>1, <4>2, <4>4
    <3>3. QED BY <3>1, <3>2
  <2>3. QED BY <1>6, <2>1, <2>2
<1>13. HfNoLeak'
  BY <1>1, <1>2, <1>9 DEF HfInv, HfNoLeak, Held
<1>14. HfHighWater'
  BY <1>5, <1>9, Constants DEF HfInv, HfHighWater
<1>15. HasDevice' /\ Starting' /\ Unlocked' /\ LocksBelow'
  BY <1>1, <1>2, <1>10, <1>11 DEF HasDevice, Starting, Unlocked, LocksBelow, Above
<1>16. QED BY <1>8, <1>12, <1>13, <1>14, <1>15 DEF HfInv

\* What a step of caller t leaves alone.
Others(t) == \A u \in HfCallers \ {t} : hfPc'[u] = hfPc[u] /\ hfFd'[u] = hfFd[u]

LEMMA MoveFacts ==
  ASSUME HfInv, NEW t \in HfCallers, NEW f \in -1 .. ALT_MAX_FD - 1,
         NEW pc \in {"idle", "got", "opening", "closing"}, HfMove(t, pc, f)
  PROVE  /\ hfPc'[t] = pc /\ hfFd'[t] = f /\ Others(t)
         /\ hfPc' \in [HfCallers -> {"idle", "got", "opening", "closing"}]
         /\ hfFd' \in [HfCallers -> -1 .. ALT_MAX_FD - 1]
BY DEF HfInv, HfTypeInv, HfMove, Others

LEMMA GetHfInv ==
  ASSUME HfInv, NEW t \in HfCallers, HfGet(t)
  PROVE  HfInv'
<1>1. PICK f \in Fds, d \in Targets :
        /\ FirstFree(f) /\ hfDev' = [hfDev EXCEPT ![f] = d]
        /\ alt_max_fd' = Highest(f) /\ HfMove(t, "got", f)
  BY DEF HfGet
<1>2. /\ hfStart = <<>> /\ hfPc[t] = "idle" /\ UNCHANGED <<hfFlags, hfStart, hfOpen>>
  BY DEF HfGet, HfReady
<1>3. /\ f \notin Standard /\ hfDev[f] = HfNone /\ ~Held(f) /\ hfFlags[f] = {}
      /\ f \in -1 .. ALT_MAX_FD - 1
  BY <1>1, FirstFreeFacts, Constants DEF Fds
<1>4. /\ hfPc'[t] = "got" /\ hfFd'[t] = f /\ Others(t)
      /\ hfPc' \in [HfCallers -> {"idle", "got", "opening", "closing"}]
      /\ hfFd' \in [HfCallers -> -1 .. ALT_MAX_FD - 1]
  BY <1>1, <1>3, MoveFacts
<1>5. /\ alt_max_fd' \in -1 .. ALT_MAX_FD - 1 /\ alt_max_fd' >= f
      /\ alt_max_fd' >= alt_max_fd /\ alt_max_fd \in -1 .. ALT_MAX_FD - 1
  BY <1>1, HighestFacts DEF HfInv, HfTypeInv
<1>6. /\ hfDev' \in [Fds -> Targets \cup {HfNone}] /\ hfDev'[f] = d /\ d # HfNone
      /\ \A g \in Fds \ {f} : hfDev'[g] = hfDev[g]
  BY <1>1, Constants DEF HfInv, HfTypeInv
<1>7. HfTypeInv'
  BY <1>2, <1>4, <1>5, <1>6 DEF HfInv, HfTypeInv
<1>8. HfNoLeak'
  <2>1. ASSUME NEW g \in Fds \ Standard
        PROVE  /\ hfDev'[g] # HfNone <=> Held(g)'
               /\ hfDev'[g] = HfNone => hfFlags'[g] = {}
    <3>1. CASE g = f
      BY <1>4, <1>6, <3>1 DEF Held
    <3>2. CASE g # f
      <4>1. Held(g)' <=> Held(g)
        BY <1>2, <1>4, <3>2 DEF Held, Others
      <4>2. QED BY <1>2, <1>6, <3>2, <4>1 DEF HfInv, HfNoLeak
    <3>3. QED BY <3>1, <3>2
  <2>2. ASSUME NEW u \in HfCallers, hfPc'[u] # "idle"
        PROVE  /\ hfFd'[u] \in Fds /\ (hfPc'[u] # "closing" => hfFd'[u] \notin Standard)
               /\ hfFd'[u] \notin hfOpen'
               /\ \A v \in HfCallers \ {u} :
                    hfPc'[v] # "idle" /\ hfFd'[v] = hfFd'[u] => hfFd'[u] \in Standard
    <3>1. CASE u = t
      BY <1>2, <1>3, <1>4, <3>1 DEF Held, Others
    <3>2. CASE u # t
      <4>1. hfPc'[u] = hfPc[u] /\ hfFd'[u] = hfFd[u] /\ hfFd[u] # f
        BY <1>3, <1>4, <2>2, <3>2 DEF Held, Others
      <4>2. QED BY <1>2, <1>4, <2>2, <4>1 DEF HfInv, HfNoLeak, Others
    <3>3. QED BY <3>1, <3>2
  <2>3. QED BY <2>1, <2>2 DEF HfNoLeak
<1>9. HfHighWater'
  <2> SUFFICES ASSUME NEW g \in Fds \ Standard, hfDev'[g] # HfNone
               PROVE  g <= alt_max_fd'
    BY DEF HfHighWater
  <2>1. CASE g = f
    BY <1>5, <2>1
  <2>2. CASE g # f
    <3>1. g <= alt_max_fd
      BY <1>6, <2>2 DEF HfInv, HfHighWater
    <3>2. QED BY <1>5, <3>1, Constants
  <2>3. QED BY <2>1, <2>2
<1>10. HasDevice' /\ Starting'
  BY <1>2, <1>3, <1>6, Constants DEF HfInv, HasDevice, Starting
<1>11. Flagged'
  <2> SUFFICES ASSUME NEW g \in Fds, "DEV" \in hfFlags'[g] \/ "EXCL" \in hfFlags'[g]
               PROVE  hfDev'[g] \in HfDevices /\ g <= alt_max_fd'
    BY DEF Flagged
  <2>1. g # f /\ hfDev[g] \in HfDevices /\ g <= alt_max_fd
    BY <1>2, <1>3 DEF HfInv, Flagged
  <2>2. QED BY <1>5, <1>6, <2>1, Constants
<1>12. Unlocked'
  BY <1>2, <1>3, <1>4 DEF HfInv, Unlocked, Others
<1>13. LocksBelow'
  <2> SUFFICES ASSUME NEW x \in Fds, NEW g \in Fds, x # g,
                      "EXCL" \in hfFlags'[g], hfDev'[x] = hfDev'[g]
               PROVE  g < x \/ Got(x)'
    BY DEF LocksBelow, Above
  <2>1. g # f
    BY <1>2, <1>3
  <2>2. CASE x = f
    BY <1>4, <2>2 DEF Got
  <2>3. CASE x # f
    <3>1. g < x \/ Got(x)
      BY <1>2, <1>6, <2>1, <2>3 DEF HfInv, LocksBelow, Above
    <3>2. Got(x) => Got(x)'
      BY <1>2, <1>4 DEF Got, Others
    <3>3. QED BY <3>1, <3>2
  <2>4. QED BY <2>2, <2>3
<1>14. QED BY <1>7, <1>8, <1>9, <1>10, <1>11, <1>12, <1>13 DEF HfInv

\* A call that ends by giving its descriptor back.
LEMMA ReleasedHfInv ==
  ASSUME HfInv, NEW t \in HfCallers, hfPc[t] # "idle", Release(hfFd[t]),
         HfMove(t, "idle", -1), UNCHANGED <<alt_max_fd, hfStart, hfOpen>>
  PROVE  HfInv'
<1> DEFINE f == hfFd[t]
<1>1. f \in Fds /\ f \notin hfOpen
  BY DEF HfInv, HfNoLeak
<1>2. -1 \in -1 .. ALT_MAX_FD - 1
  BY Constants
<1>3. /\ hfPc'[t] = "idle" /\ Others(t)
      /\ hfPc' \in [HfCallers -> {"idle", "got", "opening", "closing"}]
      /\ hfFd' \in [HfCallers -> -1 .. ALT_MAX_FD - 1]
  BY <1>2, MoveFacts
<1>4. hfStart = <<>>
  BY DEF HfInv, Starting
<1>5. /\ hfDev' \in [Fds -> Targets \cup {HfNone}]
      /\ hfFlags' \in [Fds -> SUBSET {"DEV", "EXCL", "NONBLOCK"}]
      /\ \A g \in Fds : g # f \/ g \in Standard =>
            hfDev'[g] = hfDev[g] /\ hfFlags'[g] = hfFlags[g]
      /\ f \notin Standard => hfDev'[f] = HfNone /\ hfFlags'[f] = {}
  BY <1>1 DEF HfInv, HfTypeInv, Release
<1> HIDE DEF f
<1>6. HfTypeInv'
  BY <1>3, <1>5 DEF HfInv, HfTypeInv
<1>7. HfNoLeak'
  <2>1. ASSUME NEW g \in Fds \ Standard
        PROVE  /\ hfDev'[g] # HfNone <=> Held(g)'
               /\ hfDev'[g] = HfNone => hfFlags'[g] = {}
    <3>1. CASE g = f
      <4>1. \A u \in HfCallers \ {t} : hfPc[u] # "idle" => hfFd[u] # f
        BY <3>1 DEF HfInv, HfNoLeak, f
      <4>2. ~Held(g)'
        BY <1>1, <1>3, <3>1, <4>1 DEF Held, Others
      <4>3. QED BY <1>5, <3>1, <4>2
    <3>2. CASE g # f
      <4>1. Held(g)' <=> Held(g)
        BY <1>3, <3>2 DEF Held, Others, f
      <4>2. QED BY <1>5, <3>2, <4>1 DEF HfInv, HfNoLeak
    <3>3. QED BY <3>1, <3>2
  <2>2. \A u \in HfCallers : hfPc'[u] # "idle" =>
           u # t /\ hfPc'[u] = hfPc[u] /\ hfFd'[u] = hfFd[u]
    BY <1>3 DEF Others
  <2>3. ASSUME NEW u \in HfCallers, hfPc'[u] # "idle"
        PROVE  /\ hfFd'[u] \in Fds /\ (hfPc'[u] # "closing" => hfFd'[u] \notin Standard)
               /\ hfFd'[u] \notin hfOpen'
               /\ \A v \in HfCallers \ {u} :
                    hfPc'[v] # "idle" /\ hfFd'[v] = hfFd'[u] => hfFd'[u] \in Standard
    BY <2>2, <2>3 DEF HfInv, HfNoLeak
  <2>4. QED BY <2>1, <2>3 DEF HfNoLeak
<1>8. HfHighWater' /\ HasDevice' /\ Starting'
  BY <1>1, <1>4, <1>5, Constants DEF HfInv, HfHighWater, HasDevice, Starting
<1>9. \A g \in Fds : hfFlags'[g] # {} => hfDev'[g] = hfDev[g] /\ hfFlags'[g] = hfFlags[g]
  BY <1>5
<1>10. Flagged'
  BY <1>9 DEF HfInv, Flagged
<1>11. Unlocked'
  <2> SUFFICES ASSUME NEW u \in HfCallers, hfPc'[u] \in {"got", "opening"}
               PROVE  "EXCL" \notin hfFlags'[hfFd'[u]]
    BY DEF Unlocked
  <2>1. hfPc'[u] = hfPc[u] /\ hfFd'[u] = hfFd[u]
    BY <1>3 DEF Others
  <2>2. hfFd[u] \in Fds /\ "EXCL" \notin hfFlags[hfFd[u]]
    BY <2>1, BusyFacts
  <2>3. QED BY <1>9, <2>1, <2>2
<1>12. LocksBelow'
  <2> SUFFICES ASSUME NEW x \in Fds, NEW g \in Fds, x # g,
                      "EXCL" \in hfFlags'[g], hfDev'[x] = hfDev'[g]
               PROVE  g < x \/ Got(x)'
    BY DEF LocksBelow, Above
  <2>1. "EXCL" \in hfFlags[g] /\ hfDev'[g] = hfDev[g] /\ hfDev[g] \in HfDevices
    BY <1>9 DEF HfInv, Flagged
  <2>2. x # f \/ x \in Standard
    BY <1>5, <2>1, Constants
  <2>3. g < x \/ Got(x)
    BY <1>5, <2>1, <2>2 DEF HfInv, LocksBelow, Above
  <2>4. Got(x) => Got(x)'
    <3> SUFFICES ASSUME NEW u \in HfCallers, hfPc[u] = "got", hfFd[u] = x
                 PROVE  Got(x)'
      BY DEF Got
    <3>1. x \notin Standard
      BY BusyFacts
    <3>2. u # t
      BY <2>2, <3>1 DEF f
    <3>3. QED BY <1>3, <3>2 DEF Got, Others
  <2>5. QED BY <2>3, <2>4
<1>13. QED BY <1>6, <1>7, <1>8, <1>10, <1>11, <1>12 DEF HfInv

\* open finds no lock: what it has searched is all there can be.
LEMMA NoLockAnywhere ==
  ASSUME HfInv, NEW f \in Fds, ~(hfDev[f] \in HfDevices /\ FileLocked(f)),
         NEW g \in Fds \ {f}, hfDev[g] = hfDev[f]
  PROVE  "EXCL" \notin hfFlags[g]
<1> SUFFICES ASSUME "EXCL" \in hfFlags[g] PROVE FALSE
  OBVIOUS
<1>1. hfDev[g] \in HfDevices /\ g <= alt_max_fd
  BY DEF HfInv, Flagged
<1>2. g \in 0 .. alt_max_fd
  BY <1>1, Constants DEF HfInv, HfTypeInv, Fds
<1>3. FileLocked(f)
  BY <1>2 DEF FileLocked
<1>4. QED BY <1>1, <1>3

LEMMA CheckHfInv ==
  ASSUME HfInv, NEW t \in HfCallers, HfCheck(t)
  PROVE  HfInv'
<1> DEFINE f == hfFd[t]
<1>1. hfPc[t] = "got" /\ UNCHANGED <<alt_max_fd, hfStart, hfOpen>>
  BY DEF HfCheck
<1>2. CASE hfDev[f] \in HfDevices /\ FileLocked(f)
  BY <1>1, <1>2, ReleasedHfInv DEF HfCheck, GivenBack
<1>3. CASE ~(hfDev[f] \in HfDevices /\ FileLocked(f))
  <2>1. /\ f \in Fds \ Standard /\ f \notin hfOpen /\ hfDev[f] \in Targets
        /\ hfDev[f] # HfNone /\ f <= alt_max_fd /\ hfStart = <<>>
        /\ \A u \in HfCallers \ {t} : hfPc[u] # "idle" => hfFd[u] # f
    BY <1>1, BusyFacts
  <2>2. /\ hfFlags' = [hfFlags EXCEPT ![f] = IF hfDev[f] \in HfDevices THEN {"DEV"} ELSE {}]
        /\ HfMove(t, "opening", f) /\ UNCHANGED hfDev
    BY <1>3 DEF HfCheck
  <2>3. /\ hfPc'[t] = "opening" /\ hfFd'[t] = f /\ Others(t)
        /\ hfPc' \in [HfCallers -> {"idle", "got", "opening", "closing"}]
        /\ hfFd' \in [HfCallers -> -1 .. ALT_MAX_FD - 1]
    <3>1. f \in -1 .. ALT_MAX_FD - 1
      BY <2>1, Constants DEF Fds
    <3>2. QED BY <2>2, <3>1, MoveFacts
  <2>4. \A u \in HfCallers : hfFd'[u] = hfFd[u]
    BY <2>3 DEF Others
  <2>5. \A u \in HfCallers : hfPc'[u] # "idle" <=> hfPc[u] # "idle"
    BY <1>1, <2>3 DEF Others
  <2>6. /\ hfFlags' \in [Fds -> SUBSET {"DEV", "EXCL", "NONBLOCK"}]
        /\ "EXCL" \notin hfFlags'[f]
        /\ "DEV" \in hfFlags'[f] => hfDev[f] \in HfDevices
        /\ \A g \in Fds \ {f} : hfFlags'[g] = hfFlags[g]
    BY <2>1, <2>2 DEF HfInv, HfTypeInv
  <2> HIDE DEF f
  <2>7. HfTypeInv'
    BY <1>1, <2>2, <2>3, <2>6 DEF HfInv, HfTypeInv
  <2>8. HfNoLeak'
    <3>1. \A g \in Fds : Held(g)' <=> Held(g)
      BY <1>1, <2>4, <2>5 DEF Held
    <3>2. ASSUME NEW g \in Fds \ Standard
          PROVE  /\ hfDev'[g] # HfNone <=> Held(g)'
                 /\ hfDev'[g] = HfNone => hfFlags'[g] = {}
      BY <2>1, <2>2, <2>6, <3>1 DEF HfInv, HfNoLeak
    <3>3. ASSUME NEW u \in HfCallers, hfPc'[u] # "idle"
          PROVE  /\ hfFd'[u] \in Fds /\ (hfPc'[u] # "closing" => hfFd'[u] \notin Standard)
                 /\ hfFd'[u] \notin hfOpen'
                 /\ \A v \in HfCallers \ {u} :
                      hfPc'[v] # "idle" /\ hfFd'[v] = hfFd'[u] => hfFd'[u] \in Standard
      <4>1. CASE u = t
        BY <1>1, <2>1, <2>3, <2>4, <2>5, <4>1
      <4>2. CASE u # t
        <5>1. hfPc'[u] = hfPc[u]
          BY <2>3, <4>2 DEF Others
        <5>2. QED BY <1>1, <2>4, <2>5, <3>3, <5>1 DEF HfInv, HfNoLeak
      <4>3. QED BY <4>1, <4>2
    <3>4. QED BY <3>2, <3>3 DEF HfNoLeak
  <2>9. HfHighWater' /\ HasDevice' /\ Starting'
    BY <1>1, <2>1, <2>2 DEF HfInv, HfHighWater, HasDevice, Starting
  <2>10. Flagged'
    BY <1>1, <2>1, <2>2, <2>6 DEF HfInv, Flagged
  <2>11. Unlocked'
    <3> SUFFICES ASSUME NEW u \in HfCallers, hfPc'[u] \in {"got", "opening"}
                 PROVE  "EXCL" \notin hfFlags'[hfFd'[u]]
      BY DEF Unlocked
    <3>1. CASE u = t
      BY <2>3, <2>6, <3>1
    <3>2. CASE u # t
      <4>1. hfPc'[u] = hfPc[u] /\ hfFd'[u] = hfFd[u]
        BY <2>3, <3>2 DEF Others
      <4>2. hfFd[u] \in Fds \ {f} /\ "EXCL" \notin hfFlags[hfFd[u]]
        BY <2>1, <3>2, <4>1, BusyFacts
      <4>3. QED BY <2>6, <4>1, <4>2
    <3>3. QED BY <3>1, <3>2
  <2>12. LocksBelow'
    <3> SUFFICES ASSUME NEW x \in Fds, NEW g \in Fds, x # g,
                        "EXCL" \in hfFlags'[g], hfDev'[x] = hfDev'[g]
                 PROVE  g < x \/ Got(x)'
      BY DEF LocksBelow, Above
    <3>1. g # f /\ "EXCL" \in hfFlags[g] /\ hfDev[x] = hfDev[g]
      BY <2>2, <2>6
    <3>2. x # f
      BY <1>3, <2>1, <3>1, NoLockAnywhere DEF f
    <3>3. g < x \/ Got(x)
      BY <3>1 DEF HfInv, LocksBelow, Above
    <3>4. Got(x) => Got(x)'
      BY <2>3, <3>2 DEF Got, Others, f
    <3>5. QED BY <3>3, <3>4
  <2>13. QED BY <2>7, <2>8, <2>9, <2>10, <2>11, <2>12 DEF HfInv
<1>4. QED BY <1>2, <1>3

LEMMA OpenedHfInv ==
  ASSUME HfInv, NEW t \in HfCallers, HfOpened(t)
  PROVE  HfInv'
<1> DEFINE f == hfFd[t]
<1>1. /\ hfPc[t] = "opening" /\ HfMove(t, "idle", -1)
      /\ UNCHANGED <<alt_max_fd, hfStart>>
  BY DEF HfOpened
<1>2. CASE Release(hfFd[t]) /\ UNCHANGED hfOpen
  BY <1>1, <1>2, ReleasedHfInv
<1>3. CASE hfOpen' = hfOpen \cup {f} /\ UNCHANGED <<hfDev, hfFlags>>
  <2>1. /\ f \in Fds \ Standard /\ hfStart = <<>>
        /\ \A u \in HfCallers \ {t} : hfPc[u] # "idle" => hfFd[u] # f
    BY <1>1, BusyFacts
  <2>2. /\ hfPc'[t] = "idle" /\ Others(t)
        /\ hfPc' \in [HfCallers -> {"idle", "got", "opening", "closing"}]
        /\ hfFd' \in [HfCallers -> -1 .. ALT_MAX_FD - 1]
    <3>1. -1 \in -1 .. ALT_MAX_FD - 1
      BY Constants
    <3>2. QED BY <1>1, <3>1, MoveFacts
  <2>3. \A u \in HfCallers : hfPc'[u] # "idle" =>
           u # t /\ hfPc'[u] = hfPc[u] /\ hfFd'[u] = hfFd[u] /\ hfFd[u] # f
    BY <2>1, <2>2 DEF Others
  <2>4. HfTypeInv'
    BY <1>1, <1>3, <2>1, <2>2 DEF HfInv, HfTypeInv
  <2>5. \A g \in Fds : Held(g)' <=> Held(g)
    <3> SUFFICES ASSUME NEW g \in Fds PROVE Held(g)' <=> Held(g)
      OBVIOUS
    <3>1. CASE g = f
      BY <1>1, <1>3, <3>1 DEF Held
    <3>2. CASE g # f
      BY <1>3, <2>2, <3>2 DEF Held, Others
    <3>3. QED BY <3>1, <3>2
  <2> HIDE DEF f
  <2>6. HfNoLeak'
    <3>1. ASSUME NEW u \in HfCallers, hfPc'[u] # "idle"
          PROVE  /\ hfFd'[u] \in Fds /\ (hfPc'[u] # "closing" => hfFd'[u] \notin Standard)
                 /\ hfFd'[u] \notin hfOpen'
                 /\ \A v \in HfCallers \ {u} :
                      hfPc'[v] # "idle" /\ hfFd'[v] = hfFd'[u] => hfFd'[u] \in Standard
      BY <1>3, <2>3, <3>1 DEF HfInv, HfNoLeak
    <3>2. QED BY <1>3, <2>5, <3>1 DEF HfInv, HfNoLeak
  <2>7. HfHighWater' /\ HasDevice' /\ Starting' /\ Flagged'
    BY <1>1, <1>3, <2>1 DEF HfInv, HfHighWater, HasDevice, Starting, Flagged
  <2>8. Unlocked'
    BY <1>3, <2>3 DEF HfInv, Unlocked
  <2>9. LocksBelow'
    <3>1. \A x : Got(x) => Got(x)'
      BY <1>1, <2>2 DEF Got, Others
    <3>2. QED BY <1>3, <3>1 DEF HfInv, LocksBelow, Above
  <2>10. QED BY <2>4, <2>6, <2>7, <2>8, <2>9 DEF HfInv
<1>4. QED BY <1>2, <1>3 DEF HfOpened

LEMMA CloseHfInv ==
  ASSUME HfInv, NEW t \in HfCallers, HfClose(t)
  PROVE  HfInv'
<1>1. PICK f \in Usable : hfOpen' = hfOpen \ {f} /\ HfMove(t, "closing", f)
  BY DEF HfClose
<1>2. /\ hfStart = <<>> /\ hfPc[t] = "idle"
      /\ UNCHANGED <<hfDev, hfFlags, alt_max_fd, hfStart>>
  BY DEF HfClose, HfReady
<1>3. f \in Fds /\ f \in -1 .. ALT_MAX_FD - 1
  BY Constants DEF Usable, HfInv, HfTypeInv, Fds
<1>4. /\ hfPc'[t] = "closing" /\ hfFd'[t] = f /\ Others(t)
      /\ hfPc' \in [HfCallers -> {"idle", "got", "opening", "closing"}]
      /\ hfFd' \in [HfCallers -> -1 .. ALT_MAX_FD - 1]
  BY <1>1, <1>3, MoveFacts
<1>5. HfTypeInv'
  BY <1>1, <1>2, <1>4 DEF HfInv, HfTypeInv
<1>6. \A u \in HfCallers \ {t} : hfPc[u] # "idle" /\ hfFd[u] = f => f \in Standard
  BY DEF HfInv, HfNoLeak, Usable
<1>7. \A g \in Fds \ Standard : Held(g)' <=> Held(g)
  <2> SUFFICES ASSUME NEW g \in Fds \ Standard PROVE Held(g)' <=> Held(g)
    OBVIOUS
  <2>1. CASE g = f
    BY <1>4, <2>1 DEF Held, Usable
  <2>2. CASE g # f
    BY <1>1, <1>2, <1>4, <2>2 DEF Held, Others
  <2>3. QED BY <2>1, <2>2
<1>8. HfNoLeak'
  <2>1. ASSUME NEW u \in HfCallers, hfPc'[u] # "idle"
        PROVE  /\ hfFd'[u] \in Fds /\ (hfPc'[u] # "closing" => hfFd'[u] \notin Standard)
               /\ hfFd'[u] \notin hfOpen'
               /\ \A v \in HfCallers \ {u} :
                    hfPc'[v] # "idle" /\ hfFd'[v] = hfFd'[u] => hfFd'[u] \in Standard
    <3>1. CASE u = t
      BY <1>1, <1>3, <1>4, <1>6, <3>1 DEF Others
    <3>2. CASE u # t
      <4>1. hfPc'[u] = hfPc[u] /\ hfFd'[u] = hfFd[u]
        BY <1>4, <3>2 DEF Others
      <4>2. hfFd[u] \in Fds /\ (hfPc[u] # "closing" => hfFd[u] \notin Standard) /\ hfFd[u] \notin hfOpen'
        BY <1>1, <2>1, <4>1 DEF HfInv, HfNoLeak
      <4>3. ASSUME NEW v \in HfCallers \ {u}, hfPc'[v] # "idle", hfFd'[v] = hfFd'[u]
            PROVE  hfFd'[u] \in Standard
        <5>1. CASE v = t
          BY <1>4, <1>6, <2>1, <3>2, <4>1, <4>3, <5>1
        <5>2. CASE v # t
          BY <1>4, <2>1, <4>1, <4>3, <5>2 DEF HfInv, HfNoLeak, Others
        <5>3. QED BY <5>1, <5>2
      <4>4. QED BY <4>1, <4>2, <4>3
    <3>3. QED BY <3>1, <3>2
  <2>2. QED BY <1>2, <1>7, <2>1 DEF HfInv, HfNoLeak
<1>9. HfHighWater' /\ HasDevice' /\ Starting' /\ Flagged'
  BY <1>2 DEF HfInv, HfHighWater, HasDevice, Starting, Flagged
<1>10. Unlocked'
  BY <1>2, <1>4 DEF HfInv, Unlocked, Others
<1>11. LocksBelow'
  <2>1. \A x : Got(x) => Got(x)'
    BY <1>2, <1>4 DEF Got, Others
  <2>2. QED BY <1>2, <2>1 DEF HfInv, LocksBelow, Above
<1>12. QED BY <1>5, <1>8, <1>9, <1>10, <1>11 DEF HfInv

LEMMA ClosedHfInv ==
  ASSUME HfInv, NEW t \in HfCallers, HfClosed(t)
  PROVE  HfInv'
BY ReleasedHfInv DEF HfClosed

\* The calls that change the flags of a descriptor in use.  One that is added
\* to the locks must have no other descriptor of its device below it.
LEMMA FlagsHfInv ==
  ASSUME HfInv, NEW f \in Usable, hfStart = <<>>,
         NEW flags \in SUBSET {"DEV", "EXCL", "NONBLOCK"},
         hfFlags' = [hfFlags EXCEPT ![f] = flags],
         "DEV" \in flags <=> "DEV" \in hfFlags[f],
         "EXCL" \in flags /\ "EXCL" \notin hfFlags[f] =>
            /\ "DEV" \in hfFlags[f]
            /\ \A g \in Fds \ {f} : hfDev[g] = hfDev[f] => f < g,
         UNCHANGED <<hfDev, alt_max_fd, hfStart, hfPc, hfFd, hfOpen>>
  PROVE  HfInv'
<1>1. f \in Fds
  BY Constants DEF Usable, HfInv, HfTypeInv
<1>2. /\ hfFlags'[f] = flags /\ \A g \in Fds \ {f} : hfFlags'[g] = hfFlags[g]
      /\ hfFlags' \in [Fds -> SUBSET {"DEV", "EXCL", "NONBLOCK"}]
  BY <1>1 DEF HfInv, HfTypeInv
<1>3. HfTypeInv'
  BY <1>2 DEF HfInv, HfTypeInv
<1>4. \A g \in Fds : Held(g)' <=> Held(g)
  BY DEF Held
<1>5. f \in Standard \/ hfDev[f] # HfNone
  BY <1>1 DEF Usable, HfInv, HfNoLeak, Held
<1>6. HfNoLeak'
  <2>1. ASSUME NEW g \in Fds \ Standard
        PROVE  /\ hfDev'[g] # HfNone <=> Held(g)'
               /\ hfDev'[g] = HfNone => hfFlags'[g] = {}
    BY <1>2, <1>4, <1>5 DEF HfInv, HfNoLeak
  <2>2. QED BY <2>1 DEF HfInv, HfNoLeak
<1>7. HfHighWater' /\ HasDevice' /\ Starting'
  BY DEF HfInv, HfHighWater, HasDevice, Starting
<1>8. Flagged'
  BY <1>1, <1>2 DEF HfInv, Flagged
<1>9. Unlocked'
  <2> SUFFICES ASSUME NEW u \in HfCallers, hfPc[u] \in {"got", "opening"}
               PROVE  "EXCL" \notin hfFlags'[hfFd[u]]
    BY DEF Unlocked
  <2>1. /\ hfFd[u] \in Fds /\ hfFd[u] \notin Usable
        /\ "EXCL" \notin hfFlags[hfFd[u]]
    BY BusyFacts DEF Usable
  <2>2. QED BY <1>2, <2>1
<1>10. LocksBelow'
  <2> SUFFICES ASSUME NEW x \in Fds, NEW g \in Fds, x # g,
                      "EXCL" \in hfFlags'[g], hfDev[x] = hfDev[g]
               PROVE  g < x \/ Got(x)'
    BY DEF LocksBelow, Above
  <2>1. CASE "EXCL" \in hfFlags[g]
    BY <2>1 DEF HfInv, LocksBelow, Above, Got
  <2>2. CASE "EXCL" \notin hfFlags[g]
    BY <1>2, <2>2
  <2>3. QED BY <2>1, <2>2
<1>11. QED BY <1>3, <1>6, <1>7, <1>8, <1>9, <1>10 DEF HfInv

LEMMA LockHfInv ==
  ASSUME HfInv, NEW t \in HfCallers, HfLock(t)
  PROVE  HfInv'
<1>1. PICK f \in Usable : /\ "DEV" \in hfFlags[f] /\ ~SharedDescriptor(f)
                           /\ hfFlags' = [hfFlags EXCEPT ![f] = @ \cup {"EXCL"}]
  BY DEF HfLock
<1>2. f \in Fds
  BY Constants DEF Usable, HfInv, HfTypeInv
<1>3. ASSUME NEW g \in Fds \ {f}, hfDev[g] = hfDev[f] PROVE f < g
  <2>1. f <= alt_max_fd
    BY <1>1, <1>2 DEF HfInv, Flagged
  <2>2. g \notin 0 .. alt_max_fd - 1
    BY <1>1, <1>3 DEF SharedDescriptor
  <2>3. QED BY <1>2, <2>1, <2>2, Constants DEF HfInv, HfTypeInv
<1>4. /\ hfFlags[f] \cup {"EXCL"} \in SUBSET {"DEV", "EXCL", "NONBLOCK"}
      /\ hfFlags' = [hfFlags EXCEPT ![f] = hfFlags[f] \cup {"EXCL"}]
  BY <1>1, <1>2 DEF HfInv, HfTypeInv
<1>5. QED BY <1>1, <1>3, <1>4, FlagsHfInv DEF HfLock, HfReady

LEMMA UnlockHfInv ==
  ASSUME HfInv, NEW t \in HfCallers, HfUnlock(t)
  PROVE  HfInv'
<1>1. PICK f \in Usable : hfFlags' = [hfFlags EXCEPT ![f] = @ \ {"EXCL"}]
  BY DEF HfUnlock
<1>2. f \in Fds
  BY Constants DEF Usable, HfInv, HfTypeInv
<1>3. /\ hfFlags[f] \ {"EXCL"} \in SUBSET {"DEV", "EXCL", "NONBLOCK"}
      /\ hfFlags' = [hfFlags EXCEPT ![f] = hfFlags[f] \ {"EXCL"}]
  BY <1>1, <1>2 DEF HfInv, HfTypeInv
<1>4. QED BY <1>3, FlagsHfInv DEF HfUnlock, HfReady

LEMMA FcntlHfInv ==
  ASSUME HfInv, NEW t \in HfCallers, HfFcntl(t)
  PROVE  HfInv'
<1>1. PICK f \in Usable, flags \in {{}, {"NONBLOCK"}} :
        hfFlags' = [hfFlags EXCEPT ![f] = (@ \ FcntlMask) \cup flags]
  BY DEF HfFcntl
<1>2. f \in Fds
  BY Constants DEF Usable, HfInv, HfTypeInv
<1>3. /\ (hfFlags[f] \ FcntlMask) \cup flags \in SUBSET {"DEV", "EXCL", "NONBLOCK"}
      /\ hfFlags' = [hfFlags EXCEPT ![f] = (hfFlags[f] \ FcntlMask) \cup flags]
  BY <1>1, <1>2 DEF HfInv, HfTypeInv
<1>4. /\ "DEV" \in (hfFlags[f] \ FcntlMask) \cup flags <=> "DEV" \in hfFlags[f]
      /\ "EXCL" \in (hfFlags[f] \ FcntlMask) \cup flags <=> "EXCL" \in hfFlags[f]
  BY DEF FcntlMask
<1>5. QED BY <1>3, <1>4, FlagsHfInv DEF HfFcntl, HfReady

LEMMA StepHfInv == HfInv /\ [HfNext]_hfVars => HfInv'
<1> SUFFICES ASSUME HfInv, [HfNext]_hfVars PROVE HfInv'
  OBVIOUS
<1>1. CASE HfRedirect
  BY <1>1, RedirectHfInv
<1>2. CASE \E t \in HfCallers :
             HfGet(t) \/ HfCheck(t) \/ HfOpened(t) \/ HfClose(t) \/ HfClosed(t)
             \/ HfLock(t) \/ HfUnlock(t) \/ HfFcntl(t)
  BY <1>2, GetHfInv, CheckHfInv, OpenedHfInv, CloseHfInv, ClosedHfInv, LockHfInv,
     UnlockHfInv, FcntlHfInv
<1>3. CASE UNCHANGED hfVars
  BY <1>3 DEF hfVars, HfInv, HfTypeInv, HfNoLeak, Held, HfHighWater, HasDevice,
              Starting, Flagged, Unlocked, LocksBelow, Above, Got
<1>4. QED BY <1>1, <1>2, <1>3 DEF HfNext

LEMMA HfInvAlways == HfSpec => []HfInv
<1>1. QED BY InitHfInv, StepHfInv, PTL DEF HfSpec

\* Of two descriptors of a device that are both locked each would be below the
\* other, as neither belongs to an open that has not looked yet.
LEMMA HfInvSafe == HfInv => HfSafe
<1> SUFFICES ASSUME HfInv, NEW f \in Fds, NEW g \in Fds, f # g, hfDev[f] = hfDev[g],
                    "EXCL" \in hfFlags[f], "EXCL" \in hfFlags[g]
             PROVE  FALSE
  BY DEF HfSafe, HfOneExclusive, HfInv
<1>1. ~Got(f) /\ ~Got(g)
  BY DEF HfInv, Unlocked, Got
<1>2. g < f /\ f < g
  BY <1>1 DEF HfInv, LocksBelow, Above
<1>3. QED BY <1>2, Constants

\* The pool of descriptors is sound: none is lost, and a device has at most
\* one lock (alt_get_fd.c, alt_release_fd.c, alt_ioctl.c).
THEOREM DescriptorsSafe == HfSpec => []HfSafe
<1>1. QED BY HfInvAlways, HfInvSafe, PTL

\* An open passes by no lock, and only an unlock or a close ends one
\* (alt_open.c, alt_fcntl.c).
LEMMA StepLockedOut ==
  ASSUME HfInv, HfNext, NEW t \in HfCallers, hfPc[t] = "got", hfPc'[t] = "opening",
         NEW g \in Fds \ {hfFd[t]}, hfDev[g] = hfDev[hfFd[t]]
  PROVE  "EXCL" \notin hfFlags[g]
<1>1. hfPc \in [HfCallers -> {"idle", "got", "opening", "closing"}]
  BY DEF HfInv, HfTypeInv
<1>2. HfCheck(t)
  <2>1. CASE HfRedirect
    BY <2>1 DEF HfRedirect
  <2>2. ASSUME NEW u \in HfCallers,
               HfGet(u) \/ HfOpened(u) \/ HfClose(u) \/ HfClosed(u)
        PROVE  hfPc'[t] \in {hfPc[t], "got", "idle", "closing"}
    BY <1>1, <2>2 DEF HfGet, HfOpened, HfClose, HfClosed, HfMove
  <2>3. ASSUME NEW u \in HfCallers, HfLock(u) \/ HfUnlock(u) \/ HfFcntl(u)
        PROVE  hfPc'[t] = hfPc[t]
    BY <2>3 DEF HfLock, HfUnlock, HfFcntl
  <2>4. ASSUME NEW u \in HfCallers \ {t}, HfCheck(u) PROVE hfPc'[t] = hfPc[t]
    BY <1>1, <2>4 DEF HfCheck, HfMove
  <2>5. QED BY <2>1, <2>2, <2>3, <2>4 DEF HfNext
<1>3. hfFd[t] \in Fds
  BY BusyFacts
<1>4. ~(hfDev[hfFd[t]] \in HfDevices /\ FileLocked(hfFd[t]))
  BY <1>1, <1>2 DEF HfCheck, HfMove
<1>5. QED BY <1>3, <1>4, NoLockAnywhere

LEMMA StepLockKept ==
  ASSUME HfInv, HfNext, NEW f \in Fds, "EXCL" \in hfFlags[f] \ hfFlags'[f]
  PROVE  \E t \in HfCallers : HfUnlock(t) \/ HfClosed(t)
<1>1. hfFlags \in [Fds -> SUBSET {"DEV", "EXCL", "NONBLOCK"}]
  BY DEF HfInv, HfTypeInv
<1>2. ~HfRedirect
  BY DEF HfRedirect, HfInv, Starting
<1>3. ASSUME NEW t \in HfCallers, HfGet(t) \/ HfClose(t) PROVE FALSE
  BY <1>3 DEF HfGet, HfClose
<1>4. ASSUME NEW t \in HfCallers, HfCheck(t) \/ HfOpened(t) PROVE FALSE
  <2>1. hfPc[t] \in {"got", "opening"}
    BY <1>4 DEF HfCheck, HfOpened
  <2>2. hfFd[t] # f /\ hfFd[t] \in Fds
    BY <2>1, BusyFacts
  <2>3. QED BY <1>1, <1>4, <2>2 DEF HfCheck, HfOpened, GivenBack, Release
<1>5. ASSUME NEW t \in HfCallers, HfLock(t) \/ HfFcntl(t) PROVE FALSE
  BY <1>1, <1>5 DEF HfLock, HfFcntl, FcntlMask
<1>6. QED BY <1>2, <1>3, <1>4, <1>5 DEF HfNext

\* A locked device is not opened again, and its lock stays until it is given
\* up: the property of the library's run.
THEOREM LocksHold == HfSpec => HfLocks
<1>1. HfInv /\ [HfNext]_hfVars =>
        [\A t \in HfCallers : hfPc[t] = "got" /\ hfPc'[t] = "opening" =>
           \A g \in Fds \ {hfFd[t]} :
             hfDev[g] = hfDev[hfFd[t]] => "EXCL" \notin hfFlags[g]]_hfVars
  BY StepLockedOut
<1>2. HfInv /\ [HfNext]_hfVars =>
        [(\E f \in Fds : "EXCL" \in hfFlags[f] \ hfFlags'[f])
            => \E t \in HfCallers : HfUnlock(t) \/ HfClosed(t)]_hfVars
  BY StepLockKept
<1>3. QED BY <1>1, <1>2, HfInvAlways, PTL DEF HfSpec, HfLocks, HfLockedOut, HfLockKept

(***************************************************************************)
(* The clock.  Division by a product of constants is beyond the provers,   *)
(* so quotients and remainders are named and what relates them is said of  *)
(* any numbers.                                                            *)
(***************************************************************************)
LEMMA DivMod ==
  ASSUME NEW a \in Int, NEW b \in Nat \ {0}
  PROVE  /\ a \div b \in Int /\ a % b \in 0 .. b - 1
         /\ a = b * (a \div b) + (a % b)
OBVIOUS

LEMMA DivModAre ==
  ASSUME NEW a \in Int, NEW b \in Nat \ {0}
  PROVE  \E q \in Int, r \in 0 .. b - 1 : q = a \div b /\ r = a % b /\ a = b * q + r
BY DivMod, Zenon

LEMMA Monotone ==
  ASSUME NEW a \in Nat, NEW b \in Int, NEW c \in Int, b <= c
  PROVE  a * b <= a * c
OBVIOUS

LEMMA DivUnique ==
  ASSUME NEW b \in Nat \ {0}, NEW q \in Int, NEW r \in 0 .. b - 1, NEW p \in Int, NEW s \in 0 .. b - 1,
         b * q + r = b * p + s
  PROVE  q = p /\ r = s
<1>1. CASE q < p
  <2>1. b * (q + 1) <= b * p
    BY <1>1, Monotone
  <2>2. b * (q + 1) = b * q + b
    OBVIOUS
  <2>3. QED BY <2>1, <2>2
<1>2. CASE p < q
  <2>1. b * (p + 1) <= b * q
    BY <1>2, Monotone
  <2>2. b * (p + 1) = b * p + b
    OBVIOUS
  <2>3. QED BY <2>1, <2>2
<1>3. QED BY <1>1, <1>2

LEMMA DivModIs ==
  ASSUME NEW a \in Int, NEW b \in Nat \ {0}, NEW q \in Int, NEW r \in 0 .. b - 1, a = b * q + r
  PROVE  a \div b = q /\ a % b = r
BY DivMod, DivUnique

LEMMA Distributes ==
  ASSUME NEW a \in Int, NEW q \in Int, NEW r \in Int, NEW t \in Int
  PROVE  (a * q + r) * t = (a * t) * q + r * t
OBVIOUS

LEMMA Carries ==
  ASSUME NEW s \in Int, NEW d \in Int, NEW u \in Int, NEW m \in Int, NEW v \in Int, v = u * d + m
  PROVE  (s + d) * u + m = s * u + v
OBVIOUS

LEMMA Periods ==
  /\ HcRate \in Nat \ {0} /\ ALT_US \in Nat \ {0} /\ TickUs \in Nat \ {0}
  /\ ALT_US = HcRate * TickUs
<1>1. /\ HcRate \in Nat \ {0} /\ ALT_US \in Nat /\ ALT_US % HcRate = 0
      /\ ALT_US > HcRate
  BY HcAssumption
<1>2. ALT_US = HcRate * (ALT_US \div HcRate) + (ALT_US % HcRate)
  BY <1>1, DivMod
<1>3. TickUs \in Int /\ ALT_US = HcRate * TickUs
  BY <1>1, <1>2, DivMod DEF TickUs
<1>4. TickUs > 0
  <2>1. TickUs <= 0 => HcRate * TickUs <= HcRate * 0
    BY <1>1, <1>3, Monotone
  <2>2. QED BY <2>1, <1>1, <1>3
<1>5. QED BY <1>1, <1>3, <1>4

\* n ticks are q whole seconds and r ticks of the period.
LEMMA SecondsOf ==
  ASSUME NEW n \in Nat, NEW q \in Int, NEW r \in 0 .. HcRate - 1, n = HcRate * q + r
  PROVE  /\ q \in Nat
         /\ (n * TickUs) % ALT_US = r * TickUs
         /\ r * TickUs \in 0 .. ALT_US - 1
         /\ q * ALT_US + r * TickUs = n * TickUs
<1>2. q \in Nat
  <2>1. q < 0 => HcRate * q <= HcRate * (-1)
    BY Periods, Monotone
  <2>2. QED BY <2>1, Periods
<1>3. r * TickUs \in 0 .. ALT_US - 1
  <2>1. TickUs * r <= TickUs * (HcRate - 1)
    BY Periods, Monotone
  <2>2. TickUs * (HcRate - 1) = ALT_US - TickUs
    BY Periods
  <2>3. TickUs * 0 <= TickUs * r
    BY Periods, Monotone
  <2>4. r * TickUs = TickUs * r /\ TickUs * r \in Int
    BY Periods
  <2>5. QED BY <2>1, <2>2, <2>3, <2>4, Periods
<1>4. n * TickUs = ALT_US * q + r * TickUs
  BY Periods, Distributes
<1>6. (n * TickUs) % ALT_US = r * TickUs
  <2>1. PICK m \in Int : m = n * TickUs
    BY Periods
  <2>2. PICK s \in 0 .. ALT_US - 1 : s = r * TickUs
    BY <1>3
  <2>3. m = ALT_US * q + s
    BY <1>4, <2>1, <2>2
  <2>4. m % ALT_US = s
    BY <2>3, Periods, DivModIs
  <2>5. QED BY <2>1, <2>2, <2>4
<1>7. q * ALT_US = ALT_US * q
  BY Periods
<1>8. QED BY <1>2, <1>3, <1>4, <1>6, <1>7

LEMMA WholeSeconds ==
  ASSUME NEW n \in Nat
  PROVE  /\ n \div HcRate \in Nat /\ n % HcRate \in 0 .. HcRate - 1
         /\ (n * TickUs) % ALT_US = (n % HcRate) * TickUs
         /\ (n % HcRate) * TickUs \in 0 .. ALT_US - 1
         /\ (n \div HcRate) * ALT_US + (n % HcRate) * TickUs = n * TickUs
<1>1. PICK q \in Int, r \in 0 .. HcRate - 1 :
        q = n \div HcRate /\ r = n % HcRate /\ n = HcRate * q + r
  BY Periods, DivMod
<1>2. QED BY <1>1, SecondsOf

(* What gettimeofday reports n ticks after the reset.                      *)
TimeAt(reset, n) ==
  LET t == [sec |-> reset.sec + n \div HcRate, usec |-> reset.usec + ((n * TickUs) % ALT_US)]
  IN  IF t.usec < 0 /\ t.sec <= 0 THEN [sec |-> 0, usec |-> 0] ELSE Carried(t)

Resets == [sec : Int, usec : -ALT_US + 1 .. ALT_US - 1]

LEMMA TimeOfDayAt == TimeOfDay = TimeAt(hcReset, hcTicks) /\ TimeOfDay' = TimeAt(hcReset', hcTicks')
BY DEF TimeOfDay, TimeAt, UsSinceReset

LEMMA ReportedAt ==
  ASSUME NEW reset \in Resets, NEW n \in Nat
  PROVE  /\ TimeAt(reset, n).usec \in 0 .. ALT_US - 1
         /\ reset.sec + n \div HcRate > 0 =>
              /\ TimeAt(reset, n).sec \in Int
              /\ TimeAt(reset, n).sec * ALT_US + TimeAt(reset, n).usec
                   = (reset.sec * ALT_US + reset.usec) + n * TickUs
<1>1. PICK q \in Nat, u \in 0 .. ALT_US - 1 :
        q = n \div HcRate /\ u = (n * TickUs) % ALT_US /\ q * ALT_US + u = n * TickUs
  BY WholeSeconds
<1>2. PICK s \in Int, v \in Int : s = reset.sec + q /\ v = reset.usec + u
  BY <1>1, Periods DEF Resets
<1>3. PICK d \in Int, m \in 0 .. ALT_US - 1 : d = v \div ALT_US /\ m = v % ALT_US /\ v = ALT_US * d + m
  <2>1. /\ v \div ALT_US \in Int /\ v % ALT_US \in 0 .. ALT_US - 1
        /\ v = ALT_US * (v \div ALT_US) + (v % ALT_US)
    BY Periods, DivMod
  <2>2. QED BY <2>1, Zenon
<1>4. TimeAt(reset, n) = IF v < 0 /\ s <= 0 THEN [sec |-> 0, usec |-> 0] ELSE [sec |-> s + d, usec |-> m]
  BY <1>1, <1>2, <1>3 DEF TimeAt, Carried
<1>5. TimeAt(reset, n).usec \in 0 .. ALT_US - 1
  BY <1>3, <1>4, Periods
<1>6. ASSUME s > 0
      PROVE  /\ TimeAt(reset, n).sec \in Int
             /\ TimeAt(reset, n).sec * ALT_US + TimeAt(reset, n).usec
                  = (reset.sec * ALT_US + reset.usec) + n * TickUs
  <2>1. TimeAt(reset, n).sec = s + d /\ TimeAt(reset, n).usec = m
    BY <1>4, <1>6
  <2>2. (s + d) * ALT_US + m = s * ALT_US + v
    <3>1. s \in Int /\ d \in Int /\ m \in Int /\ ALT_US \in Int /\ v \in Int
      BY <1>2, <1>3, Periods
    <3>2. QED BY <3>1, <1>3, Carries
  <2>3. PICK a \in Int : a = reset.sec
    BY DEF Resets
  <2>4. (a + q) * ALT_US = a * ALT_US + q * ALT_US
    BY <2>3, Periods
  <2>5. s * ALT_US + v = (a * ALT_US + reset.usec) + n * TickUs
    <3>1. reset.usec \in Int /\ a * ALT_US \in Int /\ q * ALT_US \in Int
      BY Periods DEF Resets
    <3>2. s * ALT_US = a * ALT_US + q * ALT_US
      BY <1>2, <2>3, <2>4
    <3>3. QED BY <1>1, <1>2, <3>1, <3>2
  <2>6. QED BY <2>1, <2>2, <2>3, <2>5, <1>2, <1>3
<1>7. QED BY <1>1, <1>2, <1>5, <1>6

\* A time that is set is what is read at once, as long as the product in
\* settimeofday fits a word.
LEMMA SetIsRead ==
  ASSUME NEW t \in Times, NEW n \in Nat, n * TickUs < HcWord, HcTimes \subseteq Nat,
         NEW reset, reset = [sec |-> t.sec - n \div HcRate,
                             usec |-> t.usec - (((n * TickUs) % HcWord) % ALT_US)]
  PROVE  TimeAt(reset, n) = t
<1>1. PICK q \in Nat, u \in 0 .. ALT_US - 1 :
        q = n \div HcRate /\ u = (n * TickUs) % ALT_US /\ q * ALT_US + u = n * TickUs
  BY WholeSeconds
<1>2. (n * TickUs) % HcWord = n * TickUs
  <2>1. PICK m \in Nat : m = n * TickUs
    BY Periods
  <2>2. HcWord \in Nat \ {0} /\ m < HcWord /\ m = HcWord * 0 + m
    BY <2>1, HcAssumption, Periods
  <2>3. m % HcWord = m
    BY <2>2, DivModIs
  <2>4. QED BY <2>1, <2>3
<1>3. PICK s \in Nat, v \in 0 .. ALT_US - 1 : t = [sec |-> s, usec |-> v]
  BY Periods DEF Times
<1>4. reset.sec = s - q /\ reset.usec = v - u
  BY <1>1, <1>2, <1>3
<1>5. v \div ALT_US = 0 /\ v % ALT_US = v
  <2>1. v = ALT_US * 0 + v
    BY Periods
  <2>2. QED BY <2>1, Periods, DivModIs
<1>6. reset.sec + q = s /\ reset.usec + u = v
  BY <1>1, <1>4
<1>7. QED BY <1>1, <1>3, <1>5, <1>6 DEF TimeAt, Carried

(* The busy loop: its turns are at least one for each turn asked for.      *)

LEMMA LoopsEnough ==
  ASSUME NEW turns \in Int, NEW us \in Nat, us > 0, turns >= us * PerUs
  PROVE  (turns + us) * HcCycles > us * HcMhz
<1>1. /\ HcMhz \in Nat /\ HcCycles \in Nat \ {0} /\ HcMhz >= HcCycles
  BY HcAssumption
<1>2. PerUs \in Int /\ HcMhz < HcCycles * (PerUs + 1)
  <2>1. /\ HcMhz \div HcCycles \in Int /\ HcMhz % HcCycles \in 0 .. HcCycles - 1
        /\ HcMhz = HcCycles * (HcMhz \div HcCycles) + (HcMhz % HcCycles)
    BY <1>1, DivMod
  <2>2. PICK q \in Int, r \in 0 .. HcCycles - 1 : q = HcMhz \div HcCycles /\ HcMhz = HcCycles * q + r
    BY <2>1, Zenon
  <2>3. HcCycles * (q + 1) = HcCycles * q + HcCycles /\ HcCycles * q \in Int
    BY <1>1, <2>2
  <2>4. HcMhz < HcCycles * (q + 1)
    BY <1>1, <2>2, <2>3
  <2>5. QED BY <2>2, <2>4 DEF PerUs
<1>3. PICK p \in Int : p = PerUs + 1
  BY <1>2
<1>4. HcCycles * (us * p) <= HcCycles * (turns + us)
  <2>1. us * p = us * PerUs + us
    BY <1>2, <1>3
  <2>2. us * p \in Int /\ us * p <= turns + us
    BY <1>2, <1>3, <2>1
  <2>3. QED BY <1>1, <2>2, Monotone
<1>5. us * HcMhz < us * (HcCycles * p)
  <2>1. us * (HcMhz + 1) <= us * (HcCycles * p)
    BY <1>1, <1>2, <1>3, Monotone
  <2>2. us * (HcMhz + 1) = us * HcMhz + us
    BY <1>1
  <2>3. us * HcMhz \in Int /\ us * (HcCycles * p) \in Int
    BY <1>1, <1>3
  <2>4. QED BY <2>1, <2>2, <2>3
<1>6. us * (HcCycles * p) = HcCycles * (us * p)
  BY <1>1, <1>3
<1>7. (turns + us) * HcCycles = HcCycles * (turns + us)
  BY <1>1
<1>8. /\ us * HcMhz \in Int /\ us * (HcCycles * p) \in Int
      /\ HcCycles * (turns + us) \in Int
  BY <1>1, <1>3
<1>9. QED BY <1>4, <1>5, <1>6, <1>7, <1>8

(* How many turns, with so many outer ones and so many in the last.        *)
TurnsOf(big, last, again) == IF big = 0 THEN IF last = 0 THEN 1 ELSE last
                             ELSE Outer(big, again) + Turns(last)

LEMMA MostPositive == MostUs \in Nat \ {0} /\ PerUs \in Nat \ {0} /\ PerUs * MostUs <= HcIntMax
<1>1. /\ HcMhz \in Nat /\ HcCycles \in Nat \ {0} /\ HcMhz >= HcCycles
      /\ HcIntMax \in Nat
      /\ HcIntMax >= HcMhz
  BY HcAssumption
<1>2. PICK p \in Nat \ {0} : p = PerUs /\ p <= HcIntMax
  <2>1. /\ HcMhz \div HcCycles \in Int /\ HcMhz % HcCycles \in 0 .. HcCycles - 1
        /\ HcMhz = HcCycles * (HcMhz \div HcCycles) + (HcMhz % HcCycles)
    BY <1>1, DivMod
  <2>2. PICK q \in Int, r \in 0 .. HcCycles - 1 : q = HcMhz \div HcCycles /\ HcMhz = HcCycles * q + r
    BY <2>1, Zenon
  <2>3. q > 0
    <3>1. q <= 0 => HcCycles * q <= HcCycles * 0
      BY <1>1, <2>2, Monotone
    <3>2. QED BY <1>1, <2>2, <3>1
  <2>4. q <= HcMhz
    <3>1. q * 1 <= q * HcCycles
      BY <1>1, <2>2, <2>3, Monotone
    <3>2. q * HcCycles = HcCycles * q /\ q * 1 = q
      BY <1>1, <2>2
    <3>3. QED BY <1>1, <2>2, <3>1, <3>2
  <2>5. QED BY <1>1, <2>2, <2>3, <2>4 DEF PerUs
<1>3. PICK m \in Nat \ {0} : m = MostUs /\ p * m <= HcIntMax
  <2>1. /\ HcIntMax \div p \in Int /\ HcIntMax % p \in 0 .. p - 1
        /\ HcIntMax = p * (HcIntMax \div p) + (HcIntMax % p)
    BY <1>1, <1>2, DivMod
  <2>2. PICK q \in Int, r \in 0 .. p - 1 : q = HcIntMax \div p /\ HcIntMax = p * q + r
    BY <2>1, Zenon
  <2>3. q > 0
    <3>1. q <= 0 => p * q <= p * 0
      BY <1>2, <2>2, Monotone
    <3>2. QED BY <1>1, <1>2, <2>2, <3>1
  <2>4. p * q <= HcIntMax
    <3>1. p * q \in Int
      BY <1>2, <2>2
    <3>2. QED BY <2>2, <3>1
  <2>5. MostUs = HcIntMax \div p
    BY <1>2 DEF MostUs
  <2>6. QED BY <2>2, <2>3, <2>4, <2>5
<1>4. QED BY <1>2, <1>3

LEMMA SleepTurns ==
  ASSUME NEW us \in Nat, us > 0, NEW again \in {HcIntMax, HcWord}
  PROVE  LET turns == TurnsOf(us \div MostUs, (us - (us \div MostUs) * MostUs) * PerUs, again)
         IN  turns \in Int /\ turns >= us * PerUs
<1>1. /\ HcMhz \in Nat /\ HcCycles \in Nat \ {0} /\ HcMhz >= HcCycles
      /\ HcIntMax \in Nat
      /\ HcIntMax >= HcMhz /\ HcWord \in Nat /\ 2 * HcIntMax < HcWord
  BY HcAssumption
<1>2. PICK p \in Nat \ {0} : p = PerUs
  BY MostPositive
<1>3. PICK m \in Nat \ {0} : m = MostUs /\ p * m <= HcIntMax
  BY <1>2, MostPositive
<1>4. PICK b \in Nat, r \in 0 .. m - 1 : b = us \div MostUs /\ us = m * b + r
  <2>1. /\ us \div m \in Int /\ us % m \in 0 .. m - 1 /\ us = m * (us \div m) + (us % m)
    BY <1>3, DivMod
  <2>2. PICK q \in Int, r \in 0 .. m - 1 : q = us \div m /\ us = m * q + r
    BY <2>1, Zenon
  <2>3. q >= 0
    <3>1. q <= -1 => m * q <= m * (-1)
      BY <1>3, <2>2, Monotone
    <3>2. QED BY <1>3, <2>2, <3>1
  <2>4. QED BY <1>3, <2>2, <2>3
<1>5. b * MostUs = m * b /\ us - b * MostUs = r
  BY <1>3, <1>4
<1>6. PICK l \in Nat : l = (us - b * MostUs) * PerUs /\ l = r * p
  BY <1>2, <1>4, <1>5
<1>7. us * PerUs = b * (p * m) + l
  <2>1. (m * b + r) * p = (m * p) * b + r * p
    BY <1>2, <1>3, <1>4, Distributes
  <2>2. (m * p) * b = b * (p * m)
    BY <1>2, <1>3, <1>4
  <2>3. QED BY <1>2, <1>4, <1>6, <2>1, <2>2
<1>8. b * (p * m) <= b * HcIntMax /\ b * (p * m) \in Nat /\ b * HcIntMax \in Nat
  BY <1>1, <1>2, <1>3, <1>4, Monotone
<1>9. Turns(l) \in Nat /\ Turns(l) >= l
  BY <1>1, <1>6 DEF Turns
<1>10. b # 0 => Outer(b, again) \in Int /\ Outer(b, again) >= b * HcIntMax
  <2>1. SUFFICES ASSUME b # 0
                 PROVE  Outer(b, again) \in Int /\ Outer(b, again) >= b * HcIntMax
    OBVIOUS
  <2>2. again \in Nat /\ HcIntMax <= again
    BY <1>1
  <2>3. (b - 1) * HcIntMax <= (b - 1) * again
    BY <1>1, <1>4, <2>1, <2>2, Monotone
  <2>4. (b - 1) * HcIntMax = b * HcIntMax - HcIntMax
    BY <1>1, <1>4
  <2>5. (b - 1) * again \in Int
    BY <1>4, <2>2
  <2>6. QED BY <1>1, <1>8, <2>3, <2>4, <2>5 DEF Outer
<1>11. TurnsOf(b, l, again) \in Int /\ TurnsOf(b, l, again) >= us * PerUs
  <2>1. CASE b = 0
    <3>1. b * (p * m) = 0
      BY <1>2, <1>3, <2>1
    <3>2. TurnsOf(b, l, again) \in Int /\ TurnsOf(b, l, again) >= l
      BY <1>6, <2>1 DEF TurnsOf
    <3>3. QED BY <1>6, <1>7, <3>1, <3>2
  <2>2. CASE b # 0
    <3>1. TurnsOf(b, l, again) = Outer(b, again) + Turns(l)
      BY <2>2 DEF TurnsOf
    <3>2. QED BY <1>6, <1>7, <1>8, <1>9, <1>10, <2>2, <3>1
  <2>3. QED BY <2>1, <2>2
<1>12. QED BY <1>4, <1>6, <1>11, Zenon

HcInv ==
  /\ hcRate \in {0, HcRate} /\ hcTicks \in 0..HcWord - 1 /\ hcZone \in BOOLEAN
  /\ hcReset \in Resets /\ hcSlept \in [us : Nat, turns : Int] /\ HcSleepsEnough

LEMMA HcInvKeeps == HcInv => HcTypeInv /\ HcSleepsEnough
<1> SUFFICES ASSUME HcInv PROVE HcTypeInv /\ HcSleepsEnough
  OBVIOUS
<1>1. hcReset \in Resets /\ hcTicks \in Nat
  BY HcAssumption DEF HcInv
<1>2. TimeOfDay.usec \in 0 .. ALT_US - 1
  BY <1>1, ReportedAt, TimeOfDayAt, Zenon
<1>3. QED BY <1>2 DEF HcInv, HcTypeInv, Resets

LEMMA InitHcInv == HcInit => HcInv
<1> SUFFICES ASSUME HcInit PROVE HcInv
  OBVIOUS
<1>1. hcReset \in Resets
  BY Periods DEF HcInit, Resets
<1>2. hcTicks \in 0..HcWord - 1
  BY HcAssumption DEF HcInit
<1>3. hcSlept = [us |-> 0, turns |-> -1]
  BY DEF HcInit
<1>4. hcSlept \in [us : Nat, turns : Int] /\ HcSleepsEnough
  BY <1>3 DEF HcSleepsEnough
<1>5. QED BY <1>1, <1>2, <1>4 DEF HcInit, HcInv

LEMMA SetHcInv == ASSUME HcInv, NEW t \in Times, HcSet(t) PROVE HcInv'
<1>1. hcTicks \in Nat /\ HcWord \in Nat \ {0}
  BY HcAssumption DEF HcInv
<1>2. UsForSet \in 0 .. ALT_US - 1
  <2>1. PICK m \in Nat : m = hcTicks * TickUs
    BY <1>1, Periods
  <2>2. PICK w \in Int : w = m % HcWord
    BY <1>1, <2>1, DivMod
  <2>3. w % ALT_US \in 0 .. ALT_US - 1
    BY <2>2, Periods, DivMod
  <2>4. QED BY <2>1, <2>2, <2>3 DEF UsForSet
<1>3. hcTicks \div HcRate \in Nat
  BY <1>1, WholeSeconds
<1>4. t.sec \in Int /\ t.usec \in 0 .. ALT_US - 1
  <2>1. HcTimes \subseteq Int
    BY HcAssumption
  <2>2. QED BY <2>1 DEF Times
<1>5. PICK u \in 0 .. ALT_US - 1, q \in Nat : u = UsForSet /\ q = hcTicks \div HcRate
  BY <1>2, <1>3
<1>6. hcReset' = [sec |-> t.sec - q, usec |-> t.usec - u]
  BY <1>5 DEF HcSet
<1>7. hcReset' \in Resets
  BY <1>4, <1>6, Periods DEF Resets
<1>8. QED BY <1>7 DEF HcInv, HcSet, HcSleepsEnough

LEMMA SleepHcInv ==
  ASSUME HcInv, NEW us \in HcSleeps, HcSleep(us)
  PROVE  HcInv'
<1>1. us \in Nat
  BY HcAssumption
<1>2. PICK again \in {HcIntMax, HcWord} :
        hcSlept' = [us |-> us, turns |-> TurnsOf(us \div MostUs,
                                                 (us - (us \div MostUs) * MostUs) * PerUs, again)]
  BY Zenon DEF HcSleep, TurnsOf
<1>3. hcSlept' \in [us : Nat, turns : Int] /\ HcSleepsEnough'
  <2>1. CASE us > 0
    <3>1. PICK k \in Int : /\ k = TurnsOf(us \div MostUs, (us - (us \div MostUs) * MostUs) * PerUs, again)
                           /\ k >= us * PerUs
      BY <1>1, <2>1, SleepTurns
    <3>2. hcSlept' = [us |-> us, turns |-> k]
      BY <1>2, <3>1
    <3>3. (k + us) * HcCycles > us * HcMhz
      BY <1>1, <2>1, <3>1, LoopsEnough
    <3>4. QED BY <1>1, <3>2, <3>3 DEF HcSleepsEnough
  <2>2. CASE us = 0
    <3>1. PICK k : k = TurnsOf(us \div MostUs, (us - (us \div MostUs) * MostUs) * PerUs, again)
      OBVIOUS
    <3>2. k = 1
      <4>1. us \div MostUs = 0
        BY <2>2, MostPositive
      <4>2. (us - (us \div MostUs) * MostUs) * PerUs = 0
        BY <2>2, <4>1, MostPositive
      <4>3. QED BY <3>1, <4>1, <4>2 DEF TurnsOf
    <3>3. QED BY <1>2, <2>2, <3>1, <3>2 DEF HcSleepsEnough
  <2>3. QED BY <1>1, <2>1, <2>2
<1>4. QED BY <1>3 DEF HcInv, HcSleep

LEMMA StepHcInv == HcInv /\ [HcNextStep]_hcVars => HcInv'
<1> SUFFICES ASSUME HcInv, [HcNextStep]_hcVars PROVE HcInv'
  OBVIOUS
<1>1. CASE HcSysclkInit
  BY <1>1 DEF HcInv, HcSysclkInit, HcSleepsEnough
<1>2. CASE HcTick
  <2>1. hcTicks' \in 0 .. HcWord - 1
    <3>1. hcTicks + 1 \in Int /\ HcWord \in Nat \ {0}
      BY HcAssumption DEF HcInv
    <3>2. QED BY <1>2, <3>1, DivMod DEF HcTick
  <2>2. QED BY <1>2, <2>1 DEF HcInv, HcTick, HcSleepsEnough
<1>3. CASE \E t \in Times : HcSet(t)
  BY <1>3, SetHcInv
<1>4. CASE \E us \in HcSleeps : HcSleep(us)
  BY <1>4, SleepHcInv
<1>5. CASE UNCHANGED hcVars
  BY <1>5 DEF HcInv, hcVars, HcSleepsEnough
<1>6. QED BY <1>1, <1>2, <1>3, <1>4, <1>5 DEF HcNextStep

LEMMA TickMovesOn ==
  ASSUME HcInv, HcTick, hcTicks' # 0, hcReset.sec + hcTicks \div HcRate > 0
  PROVE  TimeOfDay'.sec * ALT_US + TimeOfDay'.usec
           = TimeOfDay.sec * ALT_US + TimeOfDay.usec + TickUs
<1>1. hcReset \in Resets /\ hcTicks \in Nat /\ hcReset' = hcReset
  BY HcAssumption DEF HcInv, HcTick
<1>2. hcTicks' = hcTicks + 1
  <2>1. PICK n \in 0 .. HcWord - 1 : n = hcTicks
    BY DEF HcInv
  <2>2. HcWord \in Nat \ {0}
    BY HcAssumption DEF HcInv
  <2>3. CASE n + 1 < HcWord
    <3>1. n + 1 = HcWord * 0 + (n + 1)
      BY <2>2
    <3>2. (n + 1) % HcWord = n + 1
      BY <2>2, <2>3, <3>1, DivModIs
    <3>3. QED BY <2>1, <3>2 DEF HcTick
  <2>4. CASE n + 1 = HcWord
    <3>1. HcWord = HcWord * 1 + 0
      BY <2>2
    <3>2. HcWord % HcWord = 0
      BY <2>2, <3>1, DivModIs
    <3>3. QED BY <2>1, <2>4, <3>2 DEF HcTick
  <2>5. QED BY <2>1, <2>2, <2>3, <2>4
<1>3. hcReset.sec + hcTicks' \div HcRate > 0
  <2>1. PICK q \in Int, r \in 0 .. HcRate - 1 :
          q = hcTicks \div HcRate /\ hcTicks = HcRate * q + r
    BY <1>1, Periods, DivModAre
  <2>2. PICK p \in Int, s \in 0 .. HcRate - 1 :
          p = hcTicks' \div HcRate /\ hcTicks' = HcRate * p + s
    BY <1>1, <1>2, Periods, DivModAre
  <2>3. q <= p
    <3>1. p + 1 <= q => HcRate * (p + 1) <= HcRate * q
      BY <2>1, <2>2, Periods, Monotone
    <3>2. /\ HcRate * (p + 1) = HcRate * p + HcRate /\ HcRate * p \in Int
          /\ HcRate * q \in Int
      BY <2>1, <2>2, Periods
    <3>3. QED BY <1>1, <1>2, <2>1, <2>2, <3>1, <3>2, Periods
  <2>4. hcReset.sec \in Int
    BY <1>1 DEF Resets
  <2>5. QED BY <2>1, <2>2, <2>3, <2>4
<1>4. /\ TimeAt(hcReset, hcTicks).sec * ALT_US + TimeAt(hcReset, hcTicks).usec
           = (hcReset.sec * ALT_US + hcReset.usec) + hcTicks * TickUs
      /\ TimeAt(hcReset, hcTicks').sec * ALT_US + TimeAt(hcReset, hcTicks').usec
           = (hcReset.sec * ALT_US + hcReset.usec) + hcTicks' * TickUs
  BY <1>1, <1>2, <1>3, ReportedAt
<1>5. hcTicks' * TickUs = hcTicks * TickUs + TickUs
  BY <1>1, <1>2, Periods
<1>6. /\ TimeOfDay = TimeAt(hcReset, hcTicks) /\ TimeOfDay' = TimeAt(hcReset, hcTicks')
  BY <1>1, TimeOfDayAt
<1>7. PICK c \in Int : c = hcReset.sec * ALT_US + hcReset.usec
  BY <1>1, Periods DEF Resets
<1>8. hcTicks * TickUs \in Int /\ TickUs \in Int
  BY <1>1, Periods
<1>9. QED BY <1>4, <1>5, <1>6, <1>7, <1>8

LEMMA SetReadsBack ==
  ASSUME HcInv, NEW t \in Times, hcTicks * TickUs < HcWord, HcSet(t)
  PROVE  TimeOfDay' = t
<1>1. hcTicks \in Nat /\ hcTicks' = hcTicks
  BY HcAssumption DEF HcInv, HcSet
<1>2. hcReset' = [sec |-> t.sec - hcTicks \div HcRate,
                  usec |-> t.usec - (((hcTicks * TickUs) % HcWord) % ALT_US)]
  BY DEF HcSet, UsForSet
<1>3. TimeAt(hcReset', hcTicks) = t
  BY <1>1, <1>2, SetIsRead, HcAssumption
<1>4. QED BY <1>1, <1>3, TimeOfDayAt

\* For every rate, word and time: gettimeofday moves on by one period of a tick
\* through every carry and borrow, reads what settimeofday was given while the
\* product of ticks fits a word, and the busy loop is long enough
\* (alt_gettod.c, alt_settod.c, altera_nios2_gen2 alt_busy_sleep.c).
THEOREM ClockIsKept == HcSpec => HcKept
<1>1. HcInv => HcTypeInv /\ HcSleepsEnough
  BY HcInvKeeps
<1>2. HcInv /\ [HcNextStep]_hcVars =>
        [HcTick /\ hcTicks' # 0 /\ hcReset.sec + hcTicks \div HcRate > 0
           => TimeOfDay'.sec * ALT_US + TimeOfDay'.usec
                = TimeOfDay.sec * ALT_US + TimeOfDay.usec + TickUs]_hcVars
  BY TickMovesOn
<1>3. HcInv /\ [HcNextStep]_hcVars =>
        [\A t \in Times : hcTicks * TickUs < HcWord /\ HcSet(t) => TimeOfDay' = t]_hcVars
  BY SetReadsBack
<1>4. QED BY InitHcInv, StepHcInv, <1>1, <1>2, <1>3, PTL
          DEF HcSpec, HcKept, HcMovesOn, HcSetIsReadEarly

(***************************************************************************)
(* Calls that hand on to a driver.  A call that passed its check and whose *)
(* descriptor was not closed since still finds the device and the mode it  *)
(* saw, because a descriptor in use is not opened again; a failed call of  *)
(* which no other caller wrote over errno still finds its reason there.    *)
(***************************************************************************)
IoWhys == {"EIO", "EBADFD", "EACCES", "ENOTSUP", "ENOTTY", "ENOSYS"}
IoCalls == [at : {"call"}, call : SystemCalls, fd : IoFds, seen : {"none", "null", "dev"}, late : BOOLEAN]
IoFails == [at : {"failed"}, why : IoWhys, but : {"nothing", "other", "quiet"}]

IoTypes ==
  /\ ioForm \in {"list", "direct"}
  /\ ioDev \in [IoFds -> {"none", "null", "dev"}]
  /\ ioMode \in [IoFds -> {"r", "w", "rw"}]
  /\ ioCall \in [IoCallers -> {IoIdle} \cup IoCalls \cup IoFails]
  /\ ioNote.what \in {"nothing", "fault", "wrong way", "misled"}

\* What call c finds when it goes on to the driver.
AsChecked(c) ==
  c.at = "call" =>
    /\ ioForm = "list"
    /\ c.call.function \in ioHas[c.seen] /\ c.seen # "none"
    /\ ~c.late => ioDev[c.fd] = c.seen /\ ioMode[c.fd] \in c.call.modes
ReasonKept(c) == c.at = "failed" /\ c.but = "nothing" => ioErrno = c.why

IoInv == /\ IoTypes /\ IoNoSurprise /\ IoReason
         /\ ioHas["none"] = {}
         /\ \A t \in IoCallers : AsChecked(ioCall[t]) /\ ReasonKept(ioCall[t])

LEMMA IoKinds ==
  /\ \A c \in IoCalls : c.at = "call" /\ c.at # "failed"
  /\ \A c \in IoFails : c.at = "failed" /\ c.at # "call"
  /\ IoIdle.at = "idle"
BY DEF IoCalls, IoFails, IoIdle

LEMMA InitIoInv == IoInit => IoInv
<1> SUFFICES ASSUME IoInit PROVE IoInv
  OBVIOUS
<1>1. IoTypes
  BY DEF IoInit, IoTypes, Fine
<1>2. IoNoSurprise /\ IoReason
  BY DEF IoInit, IoNoSurprise, IoReason, Fine
<1>3. ioHas["none"] = {}
  BY DEF IoInit
<1>4. \A t \in IoCallers : ioCall[t].at = "idle"
  BY DEF IoInit, IoIdle
<1>5. QED BY <1>1, <1>2, <1>3, <1>4 DEF IoInv, AsChecked, ReasonKept

\* A step that ends a call of t with a reason in errno.
LEMMA ToldKeeps ==
  ASSUME IoInv, NEW t \in IoCallers, NEW why \in IoWhys, Told(t, why, ioCall), UNCHANGED ioTable
  PROVE  /\ ioCall' \in [IoCallers -> {IoIdle} \cup IoCalls \cup IoFails]
         /\ \A u \in IoCallers : AsChecked(ioCall[u])' /\ ReasonKept(ioCall[u])'
<1>1. ioErrno' = why
      /\ ioCall' = [u \in IoCallers |-> IF u = t THEN Failing(why, "nothing") ELSE Overwritten(ioCall[u])]
  BY DEF Told
<1>2. Failing(why, "nothing") \in IoFails
  BY DEF Failing, IoFails
<1>3. ASSUME NEW c \in {IoIdle} \cup IoCalls \cup IoFails
      PROVE  /\ c.at # "failed" => Overwritten(c) = c
             /\ c.at = "failed" => Overwritten(c) \in IoFails /\ Overwritten(c).but = "other"
  BY IoKinds DEF Overwritten, IoFails, IoIdle
<1>4. ioCall' \in [IoCallers -> {IoIdle} \cup IoCalls \cup IoFails]
  BY <1>1, <1>2, <1>3 DEF IoInv, IoTypes
<1>5. ASSUME NEW u \in IoCallers
      PROVE  AsChecked(ioCall[u])' /\ ReasonKept(ioCall[u])'
  <2>1. CASE u = t
    BY <1>1, <1>2, <2>1, IoKinds DEF AsChecked, ReasonKept, Failing
  <2>2. CASE u # t /\ ioCall[u].at # "failed"
    BY <1>1, <1>3, <2>2 DEF IoInv, IoTypes, AsChecked, ReasonKept, ioTable
  <2>3. CASE u # t /\ ioCall[u].at = "failed"
    BY <1>1, <1>3, <2>3, IoKinds DEF IoInv, IoTypes, AsChecked, ReasonKept
  <2>4. QED BY <2>1, <2>2, <2>3
<1>6. QED BY <1>4, <1>5

\* A step that changes the call of t alone, and errno not.
LEMMA OneCallKeeps ==
  ASSUME IoInv, NEW t \in IoCallers, UNCHANGED <<ioTable, ioErrno>>,
         NEW c \in {IoIdle} \cup IoCalls \cup IoFails, ioCall' = [ioCall EXCEPT ![t] = c],
         AsChecked(c), c.at = "failed" => c.but # "nothing"
  PROVE  /\ ioCall' \in [IoCallers -> {IoIdle} \cup IoCalls \cup IoFails]
         /\ \A u \in IoCallers : AsChecked(ioCall[u])' /\ ReasonKept(ioCall[u])'
BY DEF IoInv, IoTypes, AsChecked, ReasonKept, ioTable

LEMMA SucceedsKeeps ==
  ASSUME IoInv, NEW t \in IoCallers, UNCHANGED ioTable, Succeeds(t)
  PROVE  /\ ioCall' \in [IoCallers -> {IoIdle} \cup IoCalls \cup IoFails]
         /\ \A u \in IoCallers : AsChecked(ioCall[u])' /\ ReasonKept(ioCall[u])'
<1>1. AsChecked(IoIdle) /\ IoIdle.at = "idle"
  BY DEF AsChecked, IoIdle
<1>2. ioCall' = [ioCall EXCEPT ![t] = IoIdle] /\ UNCHANGED <<ioTable, ioErrno>>
  BY DEF Succeeds
<1>3. QED BY <1>1, <1>2, OneCallKeeps

LEMMA ReturnedKeeps ==
  ASSUME IoInv, NEW t \in IoCallers, NEW why \in IoWhys, UNCHANGED ioTable, ReturnedOnly(t, why)
  PROVE  /\ ioCall' \in [IoCallers -> {IoIdle} \cup IoCalls \cup IoFails]
         /\ \A u \in IoCallers : AsChecked(ioCall[u])' /\ ReasonKept(ioCall[u])'
<1>1. Failing(why, "quiet") \in IoFails /\ Failing(why, "quiet").but = "quiet"
  BY DEF Failing, IoFails
<1>2. AsChecked(Failing(why, "quiet"))
  BY <1>1, IoKinds DEF AsChecked
<1>3. /\ ioCall' = [ioCall EXCEPT ![t] = Failing(why, "quiet")]
      /\ UNCHANGED <<ioTable, ioErrno>>
  BY DEF ReturnedOnly
<1>4. QED BY <1>1, <1>2, <1>3, OneCallKeeps

LEMMA DriverFailedKeeps ==
  ASSUME IoInv, NEW t \in IoCallers, UNCHANGED ioTable, NEW op, DriverFailed(t, op)
  PROVE  /\ ioCall' \in [IoCallers -> {IoIdle} \cup IoCalls \cup IoFails]
         /\ \A u \in IoCallers : AsChecked(ioCall[u])' /\ ReasonKept(ioCall[u])'
BY ToldKeeps, ReturnedKeeps DEF DriverFailed, IoWhys

LEMMA Together ==
  ASSUME IoInv, UNCHANGED ioTable, IoNoSurprise', IoReason',
         ioNote'.what \in {"nothing", "fault", "wrong way", "misled"},
         ioCall' \in [IoCallers -> {IoIdle} \cup IoCalls \cup IoFails],
         \A u \in IoCallers : AsChecked(ioCall[u])' /\ ReasonKept(ioCall[u])'
  PROVE  IoInv'
BY DEF IoInv, IoTypes, ioTable

LEMMA FineIsNoSurprise ==
  ioNote' = Fine => IoNoSurprise' /\ IoReason' /\ ioNote'.what = "nothing"
BY DEF Fine, IoNoSurprise, IoReason

LEMMA OpenIoInv ==
  ASSUME IoInv, NEW t \in IoCallers, IoOpen(t)
  PROVE  IoInv'
<1>1. /\ ioNote' = Fine /\ UNCHANGED <<ioForm, ioHas, ioCall, ioErrno>>
      /\ ioDev[IoOpened] = "none"
  BY DEF IoOpen
<1>2. PICK d \in {"null", "dev"}, m \in {"r", "w"} :
        ioDev' = [ioDev EXCEPT ![IoOpened] = d] /\ ioMode' = [ioMode EXCEPT ![IoOpened] = m]
  BY DEF IoOpen
<1>3. IoTypes'
  BY <1>1, <1>2 DEF IoInv, IoTypes, Fine
<1>4. ASSUME NEW u \in IoCallers
      PROVE  AsChecked(ioCall[u])' /\ ReasonKept(ioCall[u])'
  <2>1. CASE ioCall[u].at = "call"
    <3>1. ioCall[u] \in IoCalls
      BY <2>1, IoKinds DEF IoInv, IoTypes
    <3>2. ~ioCall[u].late => ioCall[u].fd # IoOpened
      BY <1>1, <2>1 DEF IoInv, AsChecked
    <3>3. QED BY <1>1, <1>2, <2>1, <3>1, <3>2, IoAssumption
              DEF IoInv, IoTypes, AsChecked, ReasonKept, IoCalls
  <2>2. CASE ioCall[u].at # "call"
    BY <1>1, <2>2 DEF IoInv, AsChecked, ReasonKept
  <2>3. QED BY <2>1, <2>2
<1>5. QED BY <1>1, <1>3, <1>4, FineIsNoSurprise DEF IoInv

LEMMA CloseIoInv ==
  ASSUME IoInv, NEW t \in IoCallers, IoClose(t)
  PROVE  IoInv'
<1>1. /\ ioNote' = Fine /\ UNCHANGED <<ioForm, ioHas, ioErrno>>
      /\ ioDev' = [ioDev EXCEPT ![IoOpened] = "none"]
      /\ ioMode' = [ioMode EXCEPT ![IoOpened] = "r"]
      /\ ioCall' = [u \in IoCallers |-> ClosedUnder(ioCall[u])]
  BY DEF IoClose
<1>2. ASSUME NEW c \in {IoIdle} \cup IoCalls \cup IoFails
      PROVE  /\ ClosedUnder(c) \in {IoIdle} \cup IoCalls \cup IoFails
             /\ c.at = "call" => /\ ClosedUnder(c).at = "call" /\ ClosedUnder(c).call = c.call
                                 /\ ClosedUnder(c).fd = c.fd
                                 /\ ClosedUnder(c).seen = c.seen
                                 /\ c.fd \in IoFds
                                 /\ c.fd = IoOpened => ClosedUnder(c).late
                                 /\ c.fd # IoOpened => ClosedUnder(c).late = c.late
             /\ c.at # "call" => ClosedUnder(c) = c
  <2>1. CASE c \in IoCalls
    BY <2>1 DEF ClosedUnder, IoCalls
  <2>2. CASE c \notin IoCalls
    <3>1. c.at # "call"
      BY <2>2, IoKinds
    <3>2. QED BY <3>1 DEF ClosedUnder
  <2>3. QED BY <2>1, <2>2
<1>3. IoTypes'
  BY <1>1, <1>2 DEF IoInv, IoTypes, Fine
<1>4. ASSUME NEW u \in IoCallers
      PROVE  AsChecked(ioCall[u])' /\ ReasonKept(ioCall[u])'
  <2>1. /\ ioCall[u] \in {IoIdle} \cup IoCalls \cup IoFails
        /\ ioCall'[u] = ClosedUnder(ioCall[u])
    BY <1>1 DEF IoInv, IoTypes
  <2>2. CASE ioCall[u].at = "call"
    <3>1. ioCall'[u].at = "call"
      BY <1>2, <2>1, <2>2
    <3>2. AsChecked(ioCall[u])
      BY DEF IoInv
    <3>3. AsChecked(ioCall[u])'
      <4> DEFINE c == ioCall[u]
                 e == ioCall'[u]
      <4>1. /\ e.call = c.call /\ e.fd = c.fd /\ e.seen = c.seen /\ c.fd \in IoFds
            /\ e.late <=> c.late \/ c.fd = IoOpened
        BY <1>2, <2>1, <2>2
      <4>2. /\ ioForm = "list" /\ c.call.function \in ioHas[c.seen] /\ c.seen # "none"
            /\ ~c.late => ioDev[c.fd] = c.seen /\ ioMode[c.fd] \in c.call.modes
        BY <2>2, <3>2 DEF AsChecked
      <4>3. c.fd # IoOpened => ioDev'[c.fd] = ioDev[c.fd] /\ ioMode'[c.fd] = ioMode[c.fd]
        BY <1>1, <4>1 DEF IoInv, IoTypes
      <4>4. ~e.late => ioDev'[e.fd] = e.seen /\ ioMode'[e.fd] \in e.call.modes
        BY <4>1, <4>2, <4>3
      <4>5. ioForm' = "list" /\ e.call.function \in ioHas'[e.seen] /\ e.seen # "none"
        BY <1>1, <4>1, <4>2
      <4>6. QED BY <4>4, <4>5 DEF AsChecked
    <3>4. QED BY <3>1, <3>3 DEF ReasonKept
  <2>3. CASE ioCall[u].at # "call"
    <3>1. ioCall'[u] = ioCall[u]
      BY <1>2, <2>1, <2>3
    <3>2. QED BY <1>1, <2>3, <3>1 DEF IoInv, AsChecked, ReasonKept
  <2>4. QED BY <2>2, <2>3
<1>5. QED BY <1>1, <1>3, <1>4, FineIsNoSurprise DEF IoInv

LEMMA CallKinds ==
  \A c \in SystemCalls :
    /\ c.own \in IoWhys \cup {"ok"}
    /\ c.op # "isatty" => c.function = c.op
BY DEF SystemCalls, alt_write, alt_read, alt_lseek, alt_fstat, alt_isatty, alt_ioctl,
       CallOf, IoWhys

LEMMA CheckIoInv ==
  ASSUME IoInv, NEW t \in IoCallers, IoCheck(t)
  PROVE  IoInv'
<1>1. ioNote' = Fine /\ UNCHANGED ioTable /\ ioForm = "list"
  BY DEF IoCheck
<1>2. PICK c \in SystemCalls, fd \in {f \in IoFds : ioDev[f] # "none"} \cup {-1} :
        IF fd < 0 THEN Told(t, "EBADFD", ioCall)
        ELSE IF Passes(c, fd)
          THEN ioCall' = [ioCall EXCEPT ![t] = Calling(c, fd)] /\ UNCHANGED ioErrno
        ELSE IF c.own = "ok" THEN Succeeds(t) ELSE Told(t, c.own, ioCall)
  BY Zenon DEF IoCheck
<1>3. /\ ioCall' \in [IoCallers -> {IoIdle} \cup IoCalls \cup IoFails]
      /\ \A u \in IoCallers : AsChecked(ioCall[u])' /\ ReasonKept(ioCall[u])'
  <2>1. CASE fd < 0
    BY <1>1, <1>2, <2>1, ToldKeeps DEF IoWhys
  <2>2. CASE ~(fd < 0) /\ Passes(c, fd)
    <3>1. fd \in IoFds /\ ioDev[fd] # "none"
      BY <2>2
    <3>2. /\ Calling(c, fd) \in IoCalls /\ Calling(c, fd).at = "call"
          /\ Calling(c, fd).call = c /\ Calling(c, fd).fd = fd
          /\ Calling(c, fd).seen = ioDev[fd]
      BY <3>1 DEF Calling, IoCalls, IoInv, IoTypes
    <3>3. AsChecked(Calling(c, fd))
      BY <1>1, <2>2, <3>1, <3>2 DEF AsChecked, Passes
    <3>4. /\ ioCall' = [ioCall EXCEPT ![t] = Calling(c, fd)]
          /\ UNCHANGED <<ioTable, ioErrno>>
      BY <1>1, <1>2, <2>2
    <3>5. QED BY <3>2, <3>3, <3>4, OneCallKeeps
  <2>3. CASE ~(fd < 0) /\ ~Passes(c, fd) /\ c.own = "ok"
    BY <1>1, <1>2, <2>3, SucceedsKeeps
  <2>4. CASE ~(fd < 0) /\ ~Passes(c, fd) /\ c.own # "ok"
    BY <1>1, <1>2, <2>4, CallKinds, ToldKeeps
  <2>5. QED BY <2>1, <2>2, <2>3, <2>4
<1>4. QED BY <1>1, <1>3, FineIsNoSurprise, Together

LEMMA DriveIoInv ==
  ASSUME IoInv, NEW t \in IoCallers, IoDrive(t)
  PROVE  IoInv'
<1> DEFINE k == ioCall[t]
<1>1. k.at = "call" /\ UNCHANGED ioTable
  BY DEF IoDrive
<1>2. k \in IoCalls /\ AsChecked(k)
  BY <1>1, IoKinds DEF IoInv, IoTypes
<1>3. /\ ioForm = "list" /\ k.call \in SystemCalls /\ k.call.function \in ioHas[k.seen]
      /\ k.seen # "none"
      /\ ~k.late => ioDev[k.fd] = k.seen /\ ioMode[k.fd] \in k.call.modes
  BY <1>1, <1>2 DEF AsChecked, IoCalls
<1>4. PICK d \in {k.seen, ioDev[k.fd]} :
        IF ~There(k.call.op, d)
         THEN /\ ioNote' = Note("fault", IF k.late THEN "closed" ELSE "none")
              /\ ioCall' = [ioCall EXCEPT ![t] = IoIdle] /\ UNCHANGED ioErrno
         ELSE /\ ioNote' = IF ioMode[k.fd] \in k.call.modes THEN Fine
                           ELSE Note("wrong way", IF k.late THEN "closed" ELSE "none")
              /\ \/ Succeeds(t)
                 \/ k.call.op # "isatty" /\ DriverFailed(t, k.call.op)
  BY Zenon DEF IoDrive
<1>5. ~k.late => There(k.call.op, d)
  BY <1>3, <1>4, CallKinds DEF There
<1>6. CASE ~There(k.call.op, d)
  <2>1. ioNote' = Note("fault", "closed")
    BY <1>4, <1>5, <1>6
  <2>2. Succeeds(t)
    BY <1>4, <1>6 DEF Succeeds
  <2>3. IoNoSurprise' /\ IoReason' /\ ioNote'.what = "fault"
    BY <1>1, <1>3, <2>1 DEF IoNoSurprise, IoReason, Note, ioTable
  <2>4. QED BY <1>1, <2>2, <2>3, SucceedsKeeps, Together
<1>7. CASE There(k.call.op, d)
  <2>1. ioNote' = Fine \/ ioNote' = Note("wrong way", "closed")
    BY <1>3, <1>4, <1>7
  <2>2. IoNoSurprise' /\ IoReason' /\ ioNote'.what \in {"nothing", "wrong way"}
    <3>1. CASE ioNote' = Fine
      BY <3>1, FineIsNoSurprise
    <3>2. CASE ioNote' = Note("wrong way", "closed")
      <4>1. ioForm' = "list"
        BY <1>1, <1>3 DEF ioTable
      <4>2. QED BY <3>2, <4>1 DEF IoNoSurprise, IoReason, Note
    <3>3. QED BY <2>1, <3>1, <3>2
  <2>3. Succeeds(t) \/ DriverFailed(t, k.call.op)
    BY <1>4, <1>7
  <2>4. QED BY <1>1, <2>2, <2>3, SucceedsKeeps, DriverFailedKeeps, Together
<1>8. QED BY <1>6, <1>7

LEMMA DirectIoInv ==
  ASSUME IoInv, NEW t \in IoCallers, IoDirect(t)
  PROVE  IoInv'
<1>1. UNCHANGED ioTable
  BY DEF IoDirect
<1>2. PICK c \in DirectCalls, fd \in IoFds \cup {-1} :
        IF fd \notin c.streams
         THEN /\ IF c.sets THEN Told(t, c.own, ioCall) ELSE ReturnedOnly(t, c.own)
              /\ ioNote' = Fine
         ELSE /\ Succeeds(t) \/ (c.sets /\ DriverFailed(t, c.call.op))
              /\ ioNote' = IF StreamMode(fd) \in c.call.modes THEN Fine ELSE Note("wrong way", "none")
  BY Zenon DEF IoDirect
<1>3. c.own \in IoWhys
  BY DEF DirectCalls, DirectWrite, DirectRead, DirectLseek, DirectFstat, DirectIsatty,
         DirectIoctl,
         Direct, IoWhys
<1>4. fd \in c.streams => StreamMode(fd) \in c.call.modes
  BY DEF DirectCalls, DirectWrite, DirectRead, DirectLseek, DirectFstat, DirectIsatty,
         DirectIoctl,
         Direct, StreamMode, alt_write, alt_read, alt_lseek, alt_fstat, alt_isatty, alt_ioctl, CallOf,
         AnyMode
<1>5. ioNote' = Fine
  BY <1>2, <1>4
<1>6. \/ Told(t, c.own, ioCall) \/ ReturnedOnly(t, c.own)
      \/ Succeeds(t) \/ DriverFailed(t, c.call.op)
  BY <1>2
<1>7. QED
  BY <1>1, <1>3, <1>5, <1>6, ToldKeeps, ReturnedKeeps, SucceedsKeeps, DriverFailedKeeps,
             FineIsNoSurprise, Together

LEMMA LookIoInv ==
  ASSUME IoInv, NEW t \in IoCallers, IoLook(t)
  PROVE  IoInv'
<1> DEFINE c == ioCall[t]
<1>1. /\ c.at = "failed" /\ UNCHANGED <<ioTable, ioErrno>>
      /\ ioNote' = IF ioErrno = c.why THEN Fine ELSE Note("misled", c.but)
      /\ Succeeds(t)
  BY DEF IoLook, Succeeds
<1>2. c \in IoFails /\ ReasonKept(c)
  BY <1>1, IoKinds DEF IoInv, IoTypes
<1>3. ioErrno # c.why => c.but \in {"other", "quiet"}
  BY <1>1, <1>2 DEF ReasonKept, IoFails
<1>4. IoNoSurprise' /\ IoReason' /\ ioNote'.what \in {"nothing", "misled"}
  BY <1>1, <1>3, FineIsNoSurprise DEF IoNoSurprise, IoReason, Note
<1>5. QED BY <1>1, <1>4, SucceedsKeeps, Together

LEMMA StepIoInv == IoInv /\ [IoNext]_ioVars => IoInv'
<1>1. ASSUME IoInv, UNCHANGED ioVars PROVE IoInv'
  BY <1>1
  DEF IoInv, ioVars, ioTable, IoTypes, IoNoSurprise, IoReason, AsChecked, ReasonKept
<1>2. QED
  BY <1>1, OpenIoInv, CloseIoInv, CheckIoInv, DriveIoInv, DirectIoInv, LookIoInv
  DEF IoNext

LEMMA IoInvSafe == IoInv => IoSafe
<1> SUFFICES ASSUME IoInv PROVE IoSafe
  OBVIOUS
<1>1. \A t \in IoCallers : ioCall[t].at \in {"idle", "call", "failed"}
  BY IoKinds DEF IoInv, IoTypes
<1>2. QED BY <1>1 DEF IoInv, IoTypes, IoTypeInv, IoSafe

(***************************************************************************)
(* Names and the drivers found by them.                                    *)
(***************************************************************************)

LEMMA LeastNat ==
  ASSUME NEW T, T \subseteq Nat, T # {}
  PROVE  \E x \in T : \A y \in T : x <= y
<1> DEFINE R == OpToRel(<, Nat)
<1>1. IsWellFoundedOn(R, Nat)
  BY NatLessThanWellFounded
<1>2. \E x \in T : \A y \in T : ~(<<y, x>> \in R)
  <2> HIDE DEF R
  <2>1. QED BY <1>1, WFMin
<1>3. \A x, y \in Nat : <<y, x>> \in R <=> y < x
  BY DEF OpToRel
<1>4. PICK x \in T : \A y \in T : ~(<<y, x>> \in R)
  BY <1>2
<1>5. \A y \in T : ~(y < x)
  BY <1>3, <1>4
<1>6. QED BY <1>5

\* SelectInSeq takes the least index of those that pass.
LEMMA LeastIs ==
  ASSUME NEW T, T \subseteq Nat, T # {}
  PROVE  Min(T) \in T /\ \A y \in T : Min(T) <= y
<1>1. \E x \in T : \A y \in T : x =< y
  BY LeastNat
<1>2. QED BY <1>1, Zenon DEF Min

DvNamed == DvNames \cup {<<DvSlash>>}

LEMMA NameFacts ==
  \A n \in DvNamed : /\ Len(n) \in Nat \ {0}
                     /\ DOMAIN n = 1 .. Len(n)
                     /\ n \in Seq(Range(n))
<1> SUFFICES ASSUME NEW n \in DvNamed
             PROVE  Len(n) \in Nat \ {0} /\ DOMAIN n = 1 .. Len(n) /\ n \in Seq(Range(n))
  OBVIOUS
<1>1. PICK S : n \in Seq(S) /\ n # <<>>
  <2>1. CASE n \in DvNames
    BY <2>1, DvAssumption
  <2>2. CASE n = <<DvSlash>>
    <3>1. n \in Seq({DvSlash}) /\ n # <<>>
      BY <2>2
    <3>2. QED BY <3>1
  <2>3. QED BY <2>1, <2>2 DEF DvNamed
<1>2. Len(n) \in Nat \ {0} /\ DOMAIN n = 1 .. Len(n)
  BY <1>1
<1>3. \A i \in 1 .. Len(n) : n[i] \in Range(n)
  BY <1>2 DEF Range
<1>4. n \in Seq(Range(n))
  BY <1>1, <1>3
<1>5. QED BY <1>2, <1>4

LEMMA NoNul == \A n \in DvNames : \A i \in 1 .. Len(n) : n[i] # DvNul
<1> SUFFICES ASSUME NEW n \in DvNames, NEW i \in 1 .. Len(n), n[i] = DvNul
             PROVE  FALSE
  OBVIOUS
<1>1. n[i] \in Range(n)
  BY NameFacts DEF Range, DvNamed
<1>2. QED BY <1>1, DvAssumption

\* A device answers to its whole name only, whatever follows it in memory.
LEMMA SameName ==
  ASSUME NEW a \in DvNamed, NEW b \in DvNames, NEW beyond
  PROVE  SameBytes(a, b, Len(b) + 1, beyond) <=> a = b
<1>1. /\ Len(a) \in Nat \ {0} /\ Len(b) \in Nat \ {0}
      /\ a \in Seq(Range(a)) /\ b \in Seq(Range(b))
  BY NameFacts DEF DvNamed
<1>2. a = b => SameBytes(a, b, Len(b) + 1, beyond)
  BY DEF SameBytes
<1>3. ASSUME SameBytes(a, b, Len(b) + 1, beyond)
      PROVE  a = b
  <2>1. \A i \in 1 .. Len(b) : Byte(a, i, beyond) = b[i]
    BY <1>1, <1>3 DEF SameBytes, Byte
  <2>2. Byte(a, Len(b) + 1, beyond) = DvNul
    BY <1>1, <1>3 DEF SameBytes, Byte
  <2>3. ~(Len(a) > Len(b))
    <3>1. SUFFICES ASSUME Len(a) > Len(b) PROVE FALSE
      OBVIOUS
    <3>2. a[Len(b) + 1] = DvNul /\ Len(b) + 1 \in 1 .. Len(a)
      BY <1>1, <2>2, <3>1 DEF Byte
    <3>3. a \in DvNames
      <4>1. Len(a) # 1
        BY <1>1, <3>1
      <4>2. Len(<<DvSlash>>) = 1
        OBVIOUS
      <4>3. QED BY <4>1, <4>2 DEF DvNamed
    <3>4. QED BY <3>2, <3>3, NoNul
  <2>4. ~(Len(a) < Len(b))
    <3>1. SUFFICES ASSUME Len(a) < Len(b) PROVE FALSE
      OBVIOUS
    <3>2. Len(a) + 1 \in 1 .. Len(b)
      BY <1>1, <3>1
    <3>3. Byte(a, Len(a) + 1, beyond) = DvNul
      BY <1>1 DEF Byte
    <3>4. QED BY <2>1, <3>2, <3>3, NoNul
  <2>5. Len(a) = Len(b)
    BY <1>1, <2>3, <2>4
  <2>6. \A i \in 1 .. Len(b) : a[i] = b[i]
    BY <1>1, <2>1, <2>5 DEF Byte
  <2>7. QED BY <1>1, <2>5, <2>6, SeqEqual
<1>4. QED BY <1>2, <1>3

\* A file system owns the names below its mount point.
LEMMA OwnsBelow ==
  ASSUME NEW mount \in DvNames, NEW name \in DvNames, NEW beyond
  PROVE  Owns(mount, name, beyond) <=> Stripped(mount) \in Parts(name)
<1> DEFINE len == MountLength(mount)
<1>1. /\ Len(mount) \in Nat \ {0} /\ Len(name) \in Nat \ {0}
      /\ mount \in Seq(Range(mount)) /\ name \in Seq(Range(name))
  BY NameFacts DEF DvNamed
<1>2. len \in 0 .. Len(mount)
  BY <1>1 DEF MountLength
<1>3. \A i \in 1 .. len : Byte(mount, i, beyond) = mount[i]
  BY <1>1, <1>2 DEF Byte
<1>4. /\ Stripped(mount) = SubSeq(mount, 1, len)
      /\ Len(SubSeq(mount, 1, len)) = len
      /\ \A i \in 1 .. len : SubSeq(mount, 1, len)[i] = mount[i]
  BY <1>1, <1>2 DEF Stripped
<1>5. \A j \in 0 .. Len(name) : /\ Len(SubSeq(name, 1, j)) = j
                                /\ \A i \in 1 .. j : SubSeq(name, 1, j)[i] = name[i]
  BY <1>1
<1> HIDE DEF len
<1>6. ASSUME Owns(mount, name, beyond)
      PROVE  Stripped(mount) \in Parts(name)
  <2>1. /\ Byte(name, len + 1, beyond) \in {DvSlash, DvNul}
        /\ \A i \in 1 .. len : Byte(mount, i, beyond) = Byte(name, i, beyond)
    BY <1>6 DEF Owns, EndsThere, SameBytes, len
  <2>2. len <= Len(name)
    <3>1. SUFFICES ASSUME len > Len(name) PROVE FALSE
      BY <1>1, <1>2
    <3>2. Len(name) + 1 \in 1 .. len /\ Len(name) + 1 \in 1 .. Len(mount)
      BY <1>1, <1>2, <3>1
    <3>3. Byte(name, Len(name) + 1, beyond) = DvNul
      BY <1>1 DEF Byte
    <3>4. mount[Len(name) + 1] = DvNul
      BY <1>3, <2>1, <3>2, <3>3
    <3>5. QED BY <3>2, <3>4, NoNul
  <2>3. \A i \in 1 .. len : mount[i] = name[i]
    BY <1>1, <1>2, <1>3, <2>1, <2>2 DEF Byte
  <2>4. len = Len(name) \/ name[len + 1] = DvSlash
    <3>1. SUFFICES ASSUME len # Len(name) PROVE name[len + 1] = DvSlash
      OBVIOUS
    <3>2. len + 1 \in 1 .. Len(name)
      BY <1>1, <1>2, <2>2, <3>1
    <3>3. Byte(name, len + 1, beyond) = name[len + 1] /\ name[len + 1] # DvNul
      BY <1>1, <3>2, NoNul DEF Byte
    <3>4. QED BY <2>1, <3>3
  <2>5. SubSeq(mount, 1, len) = SubSeq(name, 1, len)
    <3>1. /\ SubSeq(mount, 1, len) \in Seq(Range(mount))
          /\ SubSeq(name, 1, len) \in Seq(Range(name))
      BY <1>1, <1>2, <2>2
    <3>2. QED BY <1>2, <1>4, <1>5, <2>2, <2>3, <3>1, SeqEqual
  <2>6. len \in {j \in 0 .. Len(name) : j = Len(name) \/ name[j + 1] = DvSlash}
    BY <1>1, <1>2, <2>2, <2>4
  <2>7. QED BY <1>4, <2>5, <2>6 DEF Parts
<1>7. ASSUME Stripped(mount) \in Parts(name)
      PROVE  Owns(mount, name, beyond)
  <2>1. PICK j \in 0 .. Len(name) : /\ j = Len(name) \/ name[j + 1] = DvSlash
                                    /\ SubSeq(mount, 1, len) = SubSeq(name, 1, j)
    BY <1>4, <1>7 DEF Parts
  <2>2. len = j
    BY <1>4, <1>5, <2>1
  <2>3. \A i \in 1 .. len : mount[i] = name[i]
    BY <1>4, <1>5, <2>1, <2>2
  <2>4. Byte(name, len + 1, beyond) \in {DvSlash, DvNul}
    <3>1. CASE len = Len(name)
      BY <1>1, <3>1 DEF Byte
    <3>2. CASE len # Len(name)
      BY <1>1, <2>1, <2>2, <3>2 DEF Byte
    <3>3. QED BY <3>1, <3>2
  <2>5. \A i \in 1 .. len : Byte(mount, i, beyond) = Byte(name, i, beyond)
    BY <1>1, <1>2, <1>3, <2>1, <2>2, <2>3 DEF Byte
  <2>6. QED BY <2>4, <2>5 DEF Owns, EndsThere, SameBytes, len
<1>8. QED BY <1>6, <1>7

DvFunctions == DevFunctions \cup TxFunctions \cup RxFunctions \cup FlashFunctions
DvEntries == [name : DvNamed, has : SUBSET DvFunctions]
FsEntries == [name : DvNames, has : SUBSET DvFunctions]

(* Of what a driver of another kind than "file" is called for, each has    *)
(* all.                                                                    *)
Full(d) == FunctionsOf[dvKind] \ {"open", "close"} \subseteq d.has

DvTypes ==
  /\ dvKind \in DvKinds
  /\ dvList \in Seq(DvEntries) /\ dvFs \in Seq(FsEntries)
  /\ dvHandle \in {Unopened, Null} \cup DvEntries
  /\ dvErrno \in {"ok", "EINVAL", "ENODEV"}
Registered ==
  dvKind # "file" => /\ \A i \in 1 .. Len(dvList) : Full(dvList[i])
                     /\ dvHandle \in DvEntries => Full(dvHandle)

DvInv == DvTypes /\ Registered /\ DvHarmless /\ DvReason

LEMMA EntryFacts ==
  /\ Null \notin DvEntries /\ Unopened \notin DvEntries /\ Null # Unopened
  /\ DvNull \in DvEntries /\ FsEntries \subseteq DvEntries
<1>1. \A d \in DvEntries : d.name # <<>>
  <2> SUFFICES ASSUME NEW d \in DvEntries PROVE d.name # <<>>
    OBVIOUS
  <2>1. d.name \in DvNamed
    BY DEF DvEntries
  <2>2. Len(d.name) # 0
    BY <2>1, NameFacts
  <2>3. QED BY <2>2
<1>2. Null.name = <<>> /\ Unopened.name = <<>> /\ Null.has = {} /\ Unopened.has # {}
  BY DEF Null, Unopened
<1>3. DvNull \in DvEntries /\ FsEntries \subseteq DvEntries
  BY DEF DvNull, DvEntries, FsEntries, DvNamed, DvFunctions, DevFunctions
<1>4. QED BY <1>1, <1>2, <1>3

LEMMA NamedFacts ==
  ASSUME dvKind \in DvKinds, NEW d \in Named
  PROVE  d \in FsEntries /\ (dvKind # "file" => Full(d)) /\ d # Null
<1>1. PICK n \in DvNames, h \in Drivers(dvKind) : d = [name |-> n, has |-> h]
  BY DEF Named
<1>2. h \in SUBSET DvFunctions
  BY <1>1
  DEF Drivers, FunctionsOf, DvKinds, DvFunctions, DevFunctions, TxFunctions,
      RxFunctions,
              FlashFunctions
<1>3. FunctionsOf[dvKind] \ {"open", "close"} \subseteq h
  BY <1>1
  DEF Drivers, FunctionsOf, DvKinds, DevFunctions, TxFunctions, RxFunctions,
      FlashFunctions
<1>4. d \in FsEntries
  BY <1>1, <1>2 DEF FsEntries
<1>5. QED BY <1>1, <1>3, <1>4, EntryFacts DEF Full

LEMMA InitDvInv == DvInit => DvInv
<1> SUFFICES ASSUME DvInit PROVE DvInv
  OBVIOUS
<1>1. dvList \in Seq(DvEntries)
  <2>1. CASE dvKind = "file"
    BY <2>1, EntryFacts DEF DvInit
  <2>2. CASE dvKind # "file"
    BY <2>2 DEF DvInit
  <2>3. QED BY <2>1, <2>2
<1>2. DvTypes
  BY <1>1 DEF DvInit, DvTypes
<1>3. Registered
  BY EntryFacts DEF DvInit, Registered
<1>4. DvHarmless /\ DvReason
  BY EntryFacts DEF DvInit, DvHarmless, DvReason
<1>5. QED BY <1>2, <1>3, <1>4 DEF DvInv

LEMMA Prepended ==
  ASSUME NEW S, NEW s \in Seq(S), NEW d \in S
  PROVE  /\ <<d>> \o s \in Seq(S) /\ Len(<<d>> \o s) = Len(s) + 1
         /\ (<<d>> \o s)[1] = d
         /\ \A i \in 2 .. Len(s) + 1 : (<<d>> \o s)[i] = s[i - 1]
OBVIOUS

LEMMA RegisterDvInv ==
  ASSUME DvInv, NEW k \in DvKinds, Register(k)
  PROVE  DvInv'
<1>1. /\ DvRuns /\ UNCHANGED <<dvKind, dvFs, dvHandle, dvFault>> /\ dvKind \in DvKinds
      /\ dvList \in Seq(DvEntries)
  BY DEF Register, DvInv, DvTypes
<1>2. PICK d \in Named \cup {Null} : Insert(d)
  BY DEF Register
<1>3. CASE d = Null
  BY <1>1, <1>2, <1>3
  DEF Insert, DvInv, DvTypes, Registered, Full, DvHarmless, DvReason, DvRuns
<1>4. CASE d # Null
  <2>1. dvList' = <<d>> \o dvList /\ dvErrno' = dvErrno
    BY <1>2, <1>4 DEF Insert
  <2>2. d \in DvEntries /\ (dvKind # "file" => Full(d))
    BY <1>1, <1>4, NamedFacts, EntryFacts
  <2>3. dvList' \in Seq(DvEntries)
    BY <1>1, <2>1, <2>2, Prepended
  <2>4. Registered'
    <3>1. SUFFICES ASSUME dvKind # "file", NEW i \in 1 .. Len(dvList')
                   PROVE  Full(dvList'[i])
      BY <1>1 DEF DvInv, Registered, Full
    <3>2. CASE i = 1
      BY <1>1, <2>1, <2>2, <3>1, <3>2, Prepended
    <3>3. CASE i # 1
      <4>1. i \in 2 .. Len(dvList) + 1 /\ i - 1 \in 1 .. Len(dvList)
        BY <1>1, <2>1, <2>2, <3>3, Prepended
      <4>2. dvList'[i] = dvList[i - 1]
        BY <1>1, <2>1, <2>2, <4>1, Prepended
      <4>3. QED BY <3>1, <4>1, <4>2 DEF DvInv, Registered
    <3>4. QED BY <3>2, <3>3
  <2>5. QED BY <1>1, <2>1, <2>3, <2>4 DEF DvInv, DvTypes, DvHarmless, DvReason, DvRuns
<1>5. QED BY <1>3, <1>4

LEMMA RegisterFsDvInv == ASSUME DvInv, RegisterFs PROVE DvInv'
<1>1. /\ DvRuns /\ UNCHANGED <<dvKind, dvList, dvHandle, dvErrno, dvFault>>
      /\ dvKind \in DvKinds
      /\ dvFs \in Seq(FsEntries)
  BY DEF RegisterFs, DvInv, DvTypes
<1>2. PICK d \in Named \cup {Null} : dvFs' = IF d = Null THEN dvFs ELSE <<d>> \o dvFs
  BY DEF RegisterFs
<1>3. dvFs' \in Seq(FsEntries)
  BY <1>1, <1>2, NamedFacts, Prepended
<1>4. QED BY <1>1, <1>3 DEF DvInv, DvTypes, Registered, Full, DvHarmless, DvReason

\* What the search returns is 0 or the least index that passes.
LEMMA FindDev ==
  ASSUME NEW name, NEW list \in Seq(DvEntries), NEW beyond
  PROVE  LET i == alt_find_dev(name, list, beyond)
             Is(j) == SameBytes(list[j].name, name, Len(name) + 1, beyond)
         IN  \/ i = 0 /\ \A j \in 1 .. Len(list) : ~Is(j)
             \/ i \in 1 .. Len(list) /\ Is(i) /\ \A j \in 1 .. i - 1 : ~Is(j)
<1> DEFINE I == {j \in 1 .. Len(list) : SameBytes(list[j].name, name, Len(name) + 1, beyond)}
<1>1. alt_find_dev(name, list, beyond) = IF I # {} THEN Min(I) ELSE 0
  BY DEF alt_find_dev, SelectInSeq
<1>2. I \subseteq Nat
  OBVIOUS
<1>3. CASE I = {}
  BY <1>1, <1>3
<1>4. CASE I # {}
  <2>1. Min(I) \in I /\ \A y \in I : Min(I) <= y
    <3> HIDE DEF I
    <3>1. QED BY <1>2, <1>4, LeastIs
  <2>2. PICK m : m = alt_find_dev(name, list, beyond)
    OBVIOUS
  <2>3. m \in I /\ \A y \in I : m <= y
    BY <1>1, <1>4, <2>1, <2>2
  <2>4. m \in 1 .. Len(list) /\ SameBytes(list[m].name, name, Len(name) + 1, beyond)
    BY <2>3
  <2>5. ASSUME NEW j \in 1 .. m - 1
        PROVE  ~SameBytes(list[j].name, name, Len(name) + 1, beyond)
    <3>1. j \in 1 .. Len(list) /\ ~(m <= j)
      BY <2>4
    <3>2. QED BY <2>3, <3>1
  <2>6. QED BY <2>2, <2>4, <2>5
<1>5. QED BY <1>3, <1>4

LEMMA FindFile ==
  ASSUME dvFs \in Seq(FsEntries), NEW name, NEW beyond
  PROVE  LET i == alt_find_file(name, beyond)
             Is(j) == Owns(dvFs[j].name, name, beyond)
         IN  \/ i = 0 /\ \A j \in 1 .. Len(dvFs) : ~Is(j)
             \/ i \in 1 .. Len(dvFs) /\ Is(i) /\ \A j \in 1 .. i - 1 : ~Is(j)
<1> DEFINE I == {j \in 1 .. Len(dvFs) : Owns(dvFs[j].name, name, beyond)}
<1>1. alt_find_file(name, beyond) = IF I # {} THEN Min(I) ELSE 0
  BY DEF alt_find_file, SelectInSeq
<1>2. I \subseteq Nat
  OBVIOUS
<1>3. CASE I = {}
  BY <1>1, <1>3
<1>4. CASE I # {}
  <2>1. Min(I) \in I /\ \A y \in I : Min(I) <= y
    <3> HIDE DEF I
    <3>1. QED BY <1>2, <1>4, LeastIs
  <2>2. PICK m : m = alt_find_file(name, beyond)
    OBVIOUS
  <2>3. m \in I /\ \A y \in I : m <= y
    BY <1>1, <1>4, <2>1, <2>2
  <2>4. m \in 1 .. Len(dvFs) /\ Owns(dvFs[m].name, name, beyond)
    BY <2>3
  <2>5. ASSUME NEW j \in 1 .. m - 1 PROVE ~Owns(dvFs[j].name, name, beyond)
    <3>1. j \in 1 .. Len(dvFs) /\ ~(m <= j)
      BY <2>4
    <3>2. QED BY <2>3, <3>1
  <2>6. QED BY <2>2, <2>4, <2>5
<1>5. QED BY <1>3, <1>4

\* An open leaves an entry, NULL or nothing.
LEMMA FoundFacts ==
  ASSUME DvInv, NEW name, NEW beyond
  PROVE  LET d == Found(dvList, alt_find_dev(name, dvList, beyond))
         IN  /\ d \in DvEntries \cup {Null}
             /\ dvKind # "file" /\ d # Null => Full(d)
<1>1. dvList \in Seq(DvEntries) /\ Registered
  BY DEF DvInv, DvTypes
<1>2. PICK i \in 0 .. Len(dvList) : i = alt_find_dev(name, dvList, beyond)
  BY <1>1, FindDev
<1>3. i # 0 => dvList[i] \in DvEntries /\ (dvKind # "file" => Full(dvList[i]))
  BY <1>1, <1>2 DEF Registered
<1>4. QED BY <1>2, <1>3 DEF Found

LEMMA HandleDvInv ==
  ASSUME DvInv, DvRuns, UNCHANGED <<dvKind, dvList, dvFs, dvFault>>,
         dvHandle' \in {Unopened, Null} \cup DvEntries,
         dvKind # "file" /\ dvHandle' \in DvEntries => Full(dvHandle'),
         dvErrno' \in {"ok", "EINVAL", "ENODEV"}, DvReason'
  PROVE  DvInv'
BY DEF DvInv, DvTypes, Registered, Full, DvHarmless, DvRuns

LEMMA OpenDvInv ==
  ASSUME DvInv, NEW name \in DvNames, NEW beyond \in DvBeyond,
         \/ alt_dma_txchan_open(name, beyond) \/ alt_dma_rxchan_open(name, beyond)
         \/ alt_flash_open_dev(name, beyond) \/ OpenFile(name, beyond)
  PROVE  DvInv'
<1>0. dvErrno \in {"ok", "EINVAL", "ENODEV"}
  BY DEF DvInv, DvTypes
<1>1. CASE alt_dma_txchan_open(name, beyond) \/ alt_dma_rxchan_open(name, beyond)
  <2>1. /\ dvHandle' = Found(dvList, alt_find_dev(name, dvList, beyond))
        /\ DvRuns /\ UNCHANGED <<dvKind, dvList, dvFs, dvFault>>
        /\ dvErrno' = IF dvHandle' = Null THEN "ENODEV" ELSE dvErrno
    BY <1>1 DEF alt_dma_txchan_open, alt_dma_rxchan_open, OpenIn, ErrnoIfNull
  <2>2. DvReason' /\ dvErrno' \in {"ok", "EINVAL", "ENODEV"}
    BY <1>0, <2>1 DEF DvReason
  <2>3. QED BY <2>1, <2>2, FoundFacts, HandleDvInv, EntryFacts
<1>2. CASE alt_flash_open_dev(name, beyond)
  <2>1. /\ dvHandle' \in {Found(dvList, alt_find_dev(name, dvList, beyond)), Null}
        /\ DvRuns /\ dvKind = "flash"
        /\ UNCHANGED <<dvKind, dvList, dvFs, dvErrno, dvFault>>
    BY <1>2 DEF alt_flash_open_dev
  <2>2. DvReason' /\ dvErrno' \in {"ok", "EINVAL", "ENODEV"}
    BY <1>0, <2>1 DEF DvReason
  <2>3. QED BY <2>1, <2>2, FoundFacts, HandleDvInv, EntryFacts
<1>3. CASE OpenFile(name, beyond)
  <2>1. /\ DvRuns /\ dvKind = "file" /\ UNCHANGED <<dvKind, dvList, dvFs, dvFault>>
        /\ dvErrno' = IF dvHandle' = Null THEN "ENODEV" ELSE dvErrno
        /\ dvHandle' = IF alt_find_dev(name, dvList, beyond) # 0
                       THEN dvList[alt_find_dev(name, dvList, beyond)]
                       ELSE Found(dvFs, alt_find_file(name, beyond))
    BY <1>3 DEF OpenFile, ErrnoIfNull
  <2>2. dvList \in Seq(DvEntries) /\ dvFs \in Seq(FsEntries)
    BY DEF DvInv, DvTypes
  <2>3. PICK i \in 0 .. Len(dvList) : i = alt_find_dev(name, dvList, beyond)
    BY <2>2, FindDev
  <2>4. PICK j \in 0 .. Len(dvFs) : j = alt_find_file(name, beyond)
    BY <2>2, FindFile
  <2>5. dvHandle' \in DvEntries \cup {Null}
    BY <2>1, <2>2, <2>3, <2>4, EntryFacts DEF Found
  <2>6. DvReason' /\ dvErrno' \in {"ok", "EINVAL", "ENODEV"}
    BY <1>0, <2>1 DEF DvReason
  <2>7. QED BY <2>1, <2>5, <2>6, HandleDvInv
<1>4. QED BY <1>1, <1>2, <1>3

\* A call through the handle reaches a function the driver has, or NULL.
LEMMA CallDvInv ==
  ASSUME DvInv, UNCHANGED <<dvKind, dvList, dvFs, dvHandle, dvErrno>>, DvHarmless'
  PROVE  DvInv'
BY DEF DvInv, DvTypes, Registered, Full, DvReason

LEMMA ThroughDvInv ==
  ASSUME DvInv, NEW k \in {"tx", "rx", "flash"}, NEW f \in FunctionsOf[k] \ {"open", "close"},
         NEW checked \in BOOLEAN, checked \/ k = "flash", Through(k, f, checked)
  PROVE  DvInv'
<1>1. /\ dvKind = k /\ dvHandle # Unopened
      /\ UNCHANGED <<dvKind, dvList, dvFs, dvHandle, dvErrno>>
      /\ dvFault' = IF f \notin dvHandle.has /\ ~(checked /\ dvHandle = Null) THEN f ELSE "none"
  BY DEF Through
<1>2. dvHandle \in DvEntries => f \in dvHandle.has
  BY <1>1 DEF DvInv, Registered, Full
<1>3. dvHandle \in DvEntries \cup {Null}
  BY <1>1 DEF DvInv, DvTypes
<1>4. DvHarmless'
  BY <1>1, <1>2, <1>3 DEF DvHarmless
<1>5. QED BY <1>1, <1>4, CallDvInv

LEMMA StepDvInv == DvInv /\ [DvNext]_dvVars => DvInv'
<1> SUFFICES ASSUME DvInv, [DvNext]_dvVars PROVE DvInv'
  OBVIOUS
<1>1. CASE RegisterDev \/ RegisterTx \/ RegisterRx \/ RegisterFlash
  BY <1>1, RegisterDvInv DEF RegisterDev, RegisterTx, RegisterRx, RegisterFlash, DvKinds
<1>2. CASE RegisterFs
  BY <1>2, RegisterFsDvInv
<1>3. CASE \E name \in DvNames, beyond \in DvBeyond :
             \/ alt_dma_txchan_open(name, beyond) \/ alt_dma_rxchan_open(name, beyond)
             \/ alt_flash_open_dev(name, beyond) \/ OpenFile(name, beyond)
  BY <1>3, OpenDvInv
<1>4. CASE alt_dma_txchan_send \/ alt_dma_txchan_space \/ alt_dma_txchan_ioctl
  <2>1. {"send", "space", "ioctl"} \subseteq FunctionsOf["tx"] \ {"open", "close"}
    BY DEF FunctionsOf, TxFunctions
  <2>2. QED BY <1>4, <2>1, ThroughDvInv
            DEF alt_dma_txchan_send, alt_dma_txchan_space, alt_dma_txchan_ioctl
<1>5. CASE alt_dma_rxchan_prepare \/ alt_dma_rxchan_ioctl
  <2>1. {"prepare", "ioctl"} \subseteq FunctionsOf["rx"] \ {"open", "close"}
    BY DEF FunctionsOf, RxFunctions
  <2>2. QED BY <1>5, <2>1, ThroughDvInv DEF alt_dma_rxchan_prepare, alt_dma_rxchan_ioctl
<1>6. CASE alt_dma_rxchan_depth
  <2>1. DvHarmless'
    BY <1>6 DEF alt_dma_rxchan_depth, DvHarmless
  <2>2. QED BY <1>6, <2>1, CallDvInv DEF alt_dma_rxchan_depth
<1>7. CASE \/ alt_lock_flash \/ alt_write_flash \/ alt_read_flash \/ alt_get_flash_info
           \/ alt_erase_flash_block \/ alt_write_flash_block
  <2>1. {"lock", "write", "read", "get_info", "erase_block", "write_block"}
          \subseteq FunctionsOf["flash"] \ {"open", "close"}
    BY DEF FunctionsOf, FlashFunctions
  <2>2. QED BY <1>7, <2>1, ThroughDvInv
            DEF alt_lock_flash, alt_write_flash, alt_read_flash, alt_get_flash_info,
                alt_erase_flash_block, alt_write_flash_block
<1>8. CASE alt_flash_close_dev
  <2>1. /\ DvRuns /\ dvKind = "flash" /\ dvHandle' \in {dvHandle, Unopened}
        /\ UNCHANGED <<dvKind, dvList, dvFs, dvErrno, dvFault>>
    BY <1>8 DEF alt_flash_close_dev
  <2>2. DvReason'
    BY <2>1 DEF DvReason
  <2>3. QED BY <2>1, <2>2, HandleDvInv, EntryFacts DEF DvInv, DvTypes, Registered
<1>9. CASE UNCHANGED dvVars
  BY <1>9 DEF dvVars, DvInv, DvTypes, Registered, Full, DvHarmless, DvReason
<1>10. QED BY <1>1, <1>2, <1>3, <1>4, <1>5, <1>6, <1>7, <1>8, <1>9 DEF DvNext

LEMMA DvInvSafe == DvInv => DvSafe
<1> SUFFICES ASSUME DvInv PROVE DvSafe
  OBVIOUS
<1>1. dvList \in Seq(DvEntries) /\ dvFs \in Seq(FsEntries)
  BY DEF DvInv, DvTypes
<1>2. ASSUME NEW name \in DvNames, NEW beyond \in DvBeyond
      PROVE  LET i == alt_find_file(name, beyond)
                 Owner(d) == Stripped(d.name) \in Parts(name)
             IN  IF i = 0 THEN ~\E d \in Range(dvFs) : Owner(d)
                 ELSE Owner(dvFs[i]) /\ ~\E j \in 1 .. i - 1 : Owner(dvFs[j])
  <2>1. \A j \in 1 .. Len(dvFs) :
          Owns(dvFs[j].name, name, beyond) <=> Stripped(dvFs[j].name) \in Parts(name)
    <3> SUFFICES ASSUME NEW j \in 1 .. Len(dvFs)
                 PROVE  Owns(dvFs[j].name, name, beyond) <=> Stripped(dvFs[j].name) \in Parts(name)
      OBVIOUS
    <3>1. dvFs[j].name \in DvNames
      <4>1. dvFs[j] \in FsEntries
        BY <1>1
      <4>2. QED BY <4>1 DEF FsEntries
    <3>2. QED BY <3>1, OwnsBelow
  <2>2. Range(dvFs) = {dvFs[j] : j \in 1 .. Len(dvFs)}
    BY <1>1 DEF Range
  <2>3. PICK i : i = alt_find_file(name, beyond)
    OBVIOUS
  <2>4. \/ i = 0 /\ \A j \in 1 .. Len(dvFs) : ~(Stripped(dvFs[j].name) \in Parts(name))
        \/ /\ i \in 1 .. Len(dvFs) /\ Stripped(dvFs[i].name) \in Parts(name)
           /\ \A j \in 1 .. i - 1 : ~(Stripped(dvFs[j].name) \in Parts(name))
    <3>1. \/ i = 0 /\ \A j \in 1 .. Len(dvFs) : ~Owns(dvFs[j].name, name, beyond)
          \/ /\ i \in 1 .. Len(dvFs) /\ Owns(dvFs[i].name, name, beyond)
             /\ \A j \in 1 .. i - 1 : ~Owns(dvFs[j].name, name, beyond)
      BY <1>1, <2>3, FindFile
    <3>2. i \in 1 .. Len(dvFs) => \A j \in 1 .. i - 1 : j \in 1 .. Len(dvFs)
      BY <1>1
    <3>3. QED BY <2>1, <3>1, <3>2
  <2>5. QED BY <2>2, <2>3, <2>4
<1>3. ASSUME NEW name \in DvNames, NEW beyond \in DvBeyond
      PROVE  LET i == alt_find_dev(name, dvList, beyond)
             IN  IF i = 0 THEN ~\E d \in Range(dvList) : d.name = name
                 ELSE dvList[i].name = name /\ ~\E j \in 1 .. i - 1 : dvList[j].name = name
  <2>1. \A j \in 1 .. Len(dvList) :
          SameBytes(dvList[j].name, name, Len(name) + 1, beyond) <=> dvList[j].name = name
    <3> SUFFICES ASSUME NEW j \in 1 .. Len(dvList)
                 PROVE  SameBytes(dvList[j].name, name, Len(name) + 1, beyond) <=> dvList[j].name = name
      OBVIOUS
    <3>1. dvList[j].name \in DvNamed
      <4>1. dvList[j] \in DvEntries
        BY <1>1
      <4>2. QED BY <4>1 DEF DvEntries
    <3>2. QED BY <3>1, SameName
  <2>2. Range(dvList) = {dvList[j] : j \in 1 .. Len(dvList)}
    BY <1>1 DEF Range
  <2>3. PICK i : i = alt_find_dev(name, dvList, beyond)
    OBVIOUS
  <2>4. \/ i = 0 /\ \A j \in 1 .. Len(dvList) : dvList[j].name # name
        \/ /\ i \in 1 .. Len(dvList) /\ dvList[i].name = name
           /\ \A j \in 1 .. i - 1 : dvList[j].name # name
    <3>1. \/ i = 0 /\ \A j \in 1 .. Len(dvList) :
                        ~SameBytes(dvList[j].name, name, Len(name) + 1, beyond)
          \/ /\ i \in 1 .. Len(dvList)
             /\ SameBytes(dvList[i].name, name, Len(name) + 1, beyond)
             /\ \A j \in 1 .. i - 1 : ~SameBytes(dvList[j].name, name, Len(name) + 1, beyond)
      BY <1>1, <2>3, FindDev
    <3>2. i \in 1 .. Len(dvList) => \A j \in 1 .. i - 1 : j \in 1 .. Len(dvList)
      BY <1>1
    <3>3. QED BY <2>1, <3>1, <3>2
  <2>5. QED BY <2>2, <2>3, <2>4
<1>4. DvFoundIsOwner
  BY <1>2, <1>3 DEF DvFoundIsOwner
<1>5. \A d \in Range(dvList) \cup Range(dvFs) \cup {dvHandle} : d.name \in DvNames \cup {<<>>, <<DvSlash>>}
  <2>1. \A d \in Range(dvList) \cup Range(dvFs) : d \in DvEntries
    BY <1>1, EntryFacts DEF Range
  <2>2. \A d \in DvEntries : d.name \in DvNames \cup {<<DvSlash>>}
    BY DEF DvEntries, DvNamed
  <2>3. /\ dvHandle \in DvEntries \cup {Null, Unopened} /\ Null.name = <<>>
        /\ Unopened.name = <<>>
    BY DEF DvInv, DvTypes, Null, Unopened
  <2>4. QED BY <2>1, <2>2, <2>3
<1>6. QED BY <1>4, <1>5 DEF DvInv, DvTypes, DvTypeInv, DvSafe

(***************************************************************************)
(* The caches.  What a loop has passed are the lines from its start to the *)
(* one it is at; what an interrupt handler may touch are others.           *)
(***************************************************************************)
MemLines == 0 .. HkLines - 1
CacheSets == 0 .. HkSets - 1
CacheLines == [line : {-1} \cup MemLines, dirty : BOOLEAN, fresh : BOOLEAN]
HkOps == {"flushda", "ecc", "initda", "flushi", "flushd", "copy", "malloc"}
HkLater == [op : HkOps, start : Nat, len : Nat, at : Nat, end : Nat, then : {<<>>}]
HkLoops == [op : HkOps \cup {"none"}, start : Nat, len : Nat, at : Nat, end : Nat,
            then : Seq(HkLater)]

HkTypes == /\ hkUse \in {"data", "code", "load", "uncached"}
           /\ hkLost \in SUBSET MemLines
           /\ hkLoop \in HkLoops /\ hkBlock \in [from : Nat, to : Nat]

\* A set holds a line of its own.
Homes(cache) == \A s \in CacheSets : cache[s].line = -1 \/ SetOf(cache[s].line) = s

\* What was written last is in memory or, dirty, in the cache.
Coherent == /\ \A s \in CacheSets : hkD[s].dirty => hkD[s].fresh /\ hkD[s].line \in MemLines
            /\ \A l \in MemLines : l \in hkMem \/ (In(hkD, l) /\ hkD[SetOf(l)].dirty)

HkMemory == /\ hkMem \in SUBSET MemLines
            /\ hkD \in [CacheSets -> CacheLines] /\ hkI \in [CacheSets -> CacheLines]
            /\ Homes(hkD) /\ Homes(hkI) /\ Coherent

\* What each loop goes over, and what is left to do after it.
Clipped(L) == IF L.op = "flushi" /\ L.len > Size THEN Size ELSE L.len
HkShape(L) == /\ L.end = L.start + Clipped(L) /\ L.start <= L.at
              /\ L.at % HkLine = L.start % HkLine /\ L.at <= L.end + 2 * HkLine
              /\ L.op = "copy" => L.start % HkLine = 0 /\ L.start + L.len <= HkLines * HkLine
CopyLoops == {Copy(HkSections[i]) : i \in 1 .. 3}
Plan(t) == /\ Len(t) >= 2
           /\ t[Len(t) - 1] = alt_dcache_flush_all /\ t[Len(t)] = alt_icache_flush_all
           /\ \A i \in 1 .. Len(t) - 2 : t[i] \in CopyLoops
HkThen(L) == CASE L.op = "copy" -> Plan(L.then)
               [] L.op = "flushd" -> L.then = <<alt_icache_flush_all>>
               [] OTHER -> L.then = <<>>
WholeCache(L) == L.op = "flushd" \/ (L.op = "flushi" /\ hkUse = "load") => L.start = 0 /\ L.len = Size
OpsOf(use) == CASE use = "data" -> {"flushda", "ecc", "initda"}
                [] use = "code" -> {"flushi"}
                [] use = "load" -> {"copy", "flushd", "flushi"}
                [] OTHER -> {"malloc"}
HkRuns == hkLoop.op # "none" => /\ HkShape(hkLoop) /\ HkThen(hkLoop) /\ WholeCache(hkLoop)
                                /\ hkLoop.op \in OpsOf(hkUse)
HkRests == hkLoop.op = "none" => hkLoop = NoLoop

\* What the loop has passed it has flushed, and nothing has come back.
PassedBy(L) == LineOf(L.start) .. LineOf(L.at) - 1
PassedData == hkLoop.op \in {"flushda", "ecc", "initda", "malloc"} =>
                \A l \in PassedBy(hkLoop) : l \in LinesOf(hkLoop.start, hkLoop.len) => ~In(hkD, l)
PassedCode == hkUse = "code" /\ hkLoop.op = "flushi" =>
                \A p \in PassedBy(hkLoop), l \in LinesOf(hkLoop.start, hkLoop.len) :
                  SetOf(l) = SetOf(p) => ~In(hkI, l)
PassedLoad == /\ hkLoop.op = "flushd" => \A p \in PassedBy(hkLoop) : hkD[SetOf(p)].line = -1
              /\ hkUse = "load" /\ hkLoop.op = "flushi" =>
                   /\ \A s \in CacheSets : hkD[s].line = -1
                   /\ \A p \in PassedBy(hkLoop) : hkI[SetOf(p)].fresh

\* Nothing but instructions is cached while code is written.
DataUnused == hkUse = "code" => \A s \in CacheSets : hkD[s].line = -1

\* The block is of whole lines, none of them in the cache once it is given.
BlockWhole == /\ hkBlock.to = 0 => hkBlock.from = 0
              /\ hkBlock.to > 0 =>
                   /\ hkUse = "uncached" /\ hkBlock.from < hkBlock.to
                   /\ hkBlock.from % HkLine = 0 /\ hkBlock.to % HkLine = 0
                   /\ hkBlock.to <= HkLines * HkLine
BlockClean == /\ hkLoop.op = "malloc" => /\ hkBlock.to > 0 /\ hkLoop.start = hkBlock.from
                                         /\ hkLoop.len = hkBlock.to - hkBlock.from
              /\ hkBlock.to > 0 /\ hkLoop.op = "none" => \A l \in BlockLines : ~In(hkD, l)

HkInv == /\ HkTypes /\ HkMemory /\ HkRuns /\ HkRests
         /\ PassedData /\ PassedCode /\ PassedLoad /\ DataUnused /\ BlockWhole /\ BlockClean
         /\ HkWritten /\ HkThrown /\ HkCodeSeen /\ HkLoadSeen

(***************************************************************************)
(* Lines and sets.                                                         *)
(***************************************************************************)
LEMMA HkConstants ==
  /\ HkLine \in Nat \ {0} /\ HkSets \in Nat \ {0} /\ HkLines \in Nat
  /\ Size \in Nat /\ Size > 0 /\ Size = HkLine * HkSets /\ HkLine * HkLines \in Nat
<1>1. HkLine \in Nat \ {0} /\ HkSets \in Nat \ {0} /\ HkLines \in Nat
  BY HkAssumption
<1>2. Size = HkLine * HkSets /\ HkLine * 1 <= HkLine * HkSets
  BY <1>1, Monotone DEF Size
<1>3. HkLine * HkSets \in Nat /\ HkLine * HkLines \in Nat
  BY <1>1
<1>4. QED BY <1>1, <1>2, <1>3

LEMMA DivMonotone ==
  ASSUME NEW h \in Nat \ {0}, NEW a \in Nat, NEW b \in Nat, a <= b
  PROVE  a \div h <= b \div h
<1>1. PICK q \in Int, r \in 0 .. h - 1 : q = a \div h /\ r = a % h /\ a = h * q + r
  BY DivModAre
<1>2. PICK p \in Int, t \in 0 .. h - 1 : p = b \div h /\ t = b % h /\ b = h * p + t
  BY DivModAre
<1>3. SUFFICES ASSUME p < q PROVE FALSE
  BY <1>1, <1>2
<1>4. h * (p + 1) <= h * q
  BY <1>3, Monotone
<1>5. h * (p + 1) = h * p + h
  OBVIOUS
<1>6. QED BY <1>1, <1>2, <1>4, <1>5

LEMMA DivShift ==
  ASSUME NEW h \in Nat \ {0}, NEW a \in Int, NEW k \in Int
  PROVE  /\ (a + k * h) \div h = (a \div h) + k
         /\ (a + k * h) % h = a % h
<1>1. PICK q \in Int, r \in 0 .. h - 1 : q = a \div h /\ r = a % h /\ a = h * q + r
  BY DivModAre
<1>2. h * (q + k) = h * q + k * h
  OBVIOUS
<1>3. a + k * h \in Int /\ q + k \in Int /\ a + k * h = h * (q + k) + r
  BY <1>1, <1>2
<1>4. (a + k * h) \div h = q + k /\ (a + k * h) % h = r
  BY <1>3, DivModIs, Zenon
<1>5. QED BY <1>1, <1>4, Zenon

\* Numbers with the same remainder that are less than a line apart are ordered.
LEMMA SameRest ==
  ASSUME NEW h \in Nat \ {0}, NEW a \in Nat, NEW b \in Nat, a % h = b % h, a < b + h
  PROVE  a <= b
<1>1. PICK q \in Int, r \in 0 .. h - 1 : q = a \div h /\ r = a % h /\ a = h * q + r
  BY DivModAre
<1>2. PICK p \in Int, t \in 0 .. h - 1 : p = b \div h /\ t = b % h /\ b = h * p + t
  BY DivModAre
<1>3. h * (p + 1) = h * p + h
  OBVIOUS
<1>4. SUFFICES ASSUME q > p PROVE FALSE
  <2>1. q <= p => h * q <= h * p
    BY Monotone
  <2>2. QED BY <1>1, <1>2, <2>1
<1>5. h * (p + 1) <= h * q
  BY <1>4, Monotone
<1>6. QED BY <1>1, <1>2, <1>3, <1>5

LEMMA LineFacts ==
  ASSUME NEW a \in Nat
  PROVE  /\ LineOf(a) \in Nat /\ LineOf(a + HkLine) = LineOf(a) + 1
         /\ (a + HkLine) % HkLine = a % HkLine
         /\ \A b \in Nat : a <= b => LineOf(a) <= LineOf(b)
         /\ LineOf(a * HkLine) = a /\ (a * HkLine) % HkLine = 0
<1>1. HkLine \in Nat \ {0}
  BY HkConstants
<1>2. LineOf(a) \in Nat
  <2>1. 0 \div HkLine = 0
    BY <1>1, DivModIs
  <2>2. 0 \div HkLine <= a \div HkLine
    BY <1>1, DivMonotone
  <2>3. a \div HkLine \in Int
    BY <1>1
  <2>4. QED BY <2>1, <2>2, <2>3 DEF LineOf
<1>3. LineOf(a + HkLine) = LineOf(a) + 1 /\ (a + HkLine) % HkLine = a % HkLine
  <2>1. 1 * HkLine = HkLine
    BY <1>1
  <2>2. a \in Int /\ 1 \in Int
    OBVIOUS
  <2>3. (a + 1 * HkLine) \div HkLine = (a \div HkLine) + 1 /\ (a + 1 * HkLine) % HkLine = a % HkLine
    BY <1>1, <2>2, DivShift, Zenon
  <2>4. QED BY <2>1, <2>3, Zenon DEF LineOf
<1>4. \A b \in Nat : a <= b => LineOf(a) <= LineOf(b)
  BY <1>1, DivMonotone DEF LineOf
<1>5. LineOf(a * HkLine) = a /\ (a * HkLine) % HkLine = 0
  <2>1. a * HkLine = HkLine * a + 0 /\ a * HkLine \in Int
    BY <1>1
  <2>2. QED BY <1>1, <2>1, DivModIs DEF LineOf
<1>6. QED BY <1>2, <1>3, <1>4, <1>5

LEMMA SetFacts ==
  /\ \A l \in Nat : SetOf(l) \in CacheSets
  /\ \A s \in CacheSets : SetOf(s) = s
  /\ \A first \in Nat, l \in Nat :
       first <= l => \E p \in first .. first + HkSets - 1 : SetOf(p) = SetOf(l)
<1>1. HkSets \in Nat \ {0}
  BY HkConstants
<1>2. \A l \in Nat : SetOf(l) \in CacheSets
  BY <1>1, DivMod DEF SetOf, CacheSets
<1>3. ASSUME NEW s \in CacheSets PROVE SetOf(s) = s
  <2>1. s \in 0 .. HkSets - 1 /\ s \in Int /\ s = HkSets * 0 + s
    BY <1>1 DEF CacheSets
  <2>2. QED BY <1>1, <2>1, DivModIs DEF SetOf
<1>4. ASSUME NEW first \in Nat, NEW l \in Nat, first <= l
      PROVE  \E p \in first .. first + HkSets - 1 : SetOf(p) = SetOf(l)
  <2>1. PICK q \in Int, r \in 0 .. HkSets - 1 : l - first = HkSets * q + r
    BY <1>1, DivModAre, l - first \in Int
  <2>2. l = (first + r) + q * HkSets
    BY <1>1, <2>1
  <2>3. SetOf(l) = SetOf(first + r)
    BY <1>1, <2>2, DivShift, first + r \in Int DEF SetOf
  <2>4. QED BY <1>1, <2>3
<1>5. QED BY <1>2, <1>3, <1>4

\* How far a loop goes: not further than a line beyond its region while it
\* runs, and beyond the region when it is over.
LEMMA Rounds ==
  ASSUME NEW h \in Nat \ {0}, NEW n \in Nat
  PROVE  \E k \in Nat : /\ k = (n + h - 1) \div h /\ n <= k * h /\ k * h <= n + h - 1
<1>1. n + h - 1 \in Nat
  OBVIOUS
<1>2. PICK q \in Int, r \in 0 .. h - 1 : q = (n + h - 1) \div h /\ n + h - 1 = h * q + r
  BY <1>1, DivModAre
<1>3. q * h = h * q /\ q * h = n + h - 1 - r
  BY <1>2
<1>4. q >= 0
  <2>1. q < 0 => h * (q + 1) <= h * 0
    BY Monotone
  <2>2. h * (q + 1) = h * q + h
    OBVIOUS
  <2>3. QED BY <1>2, <2>1, <2>2
<1>5. QED BY <1>2, <1>3, <1>4

LEMMA GoesOn ==
  ASSUME NEW L \in HkLoops, HkShape(L), ~Over(L)
  PROVE  /\ L.at + HkLine <= L.end + 2 * HkLine
         /\ L.start % HkLine # 0 => L.at <= L.end + HkLine
         /\ L.start % HkLine = 0 => L.at + 1 <= L.end
<1>1. HkLine \in Nat \ {0} /\ L.start \in Nat /\ L.len \in Nat /\ L.at \in Nat /\ L.end \in Nat
      /\ Size \in Nat
  BY HkConstants DEF HkLoops
<1>2. Clipped(L) \in Nat /\ L.end - L.start = Clipped(L)
  BY <1>1 DEF HkShape, Clipped
<1>3. PICK k \in Nat : /\ k = (L.end - L.start + HkLine - 1) \div HkLine
                       /\ Clipped(L) <= k * HkLine /\ k * HkLine <= Clipped(L) + HkLine - 1
  BY <1>1, <1>2, Rounds
<1>4. k * HkLine \in Nat /\ L.at < L.start + k * HkLine + OneMore(L)
  BY <1>1, <1>3 DEF Over, OneMore
<1>5. (L.start + k * HkLine) % HkLine = L.at % HkLine /\ L.start + k * HkLine \in Nat
  <2>1. L.start \in Int /\ k \in Int
    BY <1>1
  <2>2. (L.start + k * HkLine) % HkLine = L.start % HkLine
    BY <1>1, <2>1, DivShift, Zenon
  <2>3. L.at % HkLine = L.start % HkLine
    BY DEF HkShape
  <2>4. QED BY <1>1, <1>4, <2>2, <2>3
<1>6. CASE L.start % HkLine # 0
  <2>1. L.at <= L.start + k * HkLine
    <3>1. L.at < (L.start + k * HkLine) + HkLine
      BY <1>4, <1>6 DEF OneMore
    <3>2. QED BY <1>1, <1>5, <3>1, SameRest, Zenon
  <2>2. QED BY <1>1, <1>2, <1>3, <1>6, <2>1 DEF HkShape
<1>7. CASE L.start % HkLine = 0
  <2>1. L.at < L.start + k * HkLine
    BY <1>1, <1>4, <1>7 DEF OneMore
  <2>2. L.at + HkLine <= L.start + k * HkLine
    <3>1. (L.at + HkLine) % HkLine = L.at % HkLine
      BY <1>1, LineFacts
    <3>2. (L.at + HkLine) % HkLine = (L.start + k * HkLine) % HkLine
      BY <1>5, <3>1, Zenon
    <3>3. L.at + HkLine \in Nat /\ L.at + HkLine < (L.start + k * HkLine) + HkLine
      BY <1>1, <1>4, <2>1
    <3>4. QED BY <1>1, <1>5, <3>2, <3>3, SameRest, Zenon
  <2>3. QED BY <1>1, <1>2, <1>3, <1>7, <2>2 DEF HkShape
<1>8. QED BY <1>6, <1>7

LEMMA Covers ==
  ASSUME NEW L \in HkLoops, HkShape(L), Over(L)
  PROVE  /\ L.len > 0 => LineOf(L.at) > LineOf(L.start + Clipped(L) - 1)
         /\ \A l \in LinesOf(L.start, Clipped(L)) : l \in PassedBy(L)
<1>1. HkLine \in Nat \ {0} /\ L.start \in Nat /\ L.len \in Nat /\ L.at \in Nat /\ L.end \in Nat
      /\ Size \in Nat /\ Size > 0
  BY HkConstants DEF HkLoops
<1>2. Clipped(L) \in Nat /\ L.end - L.start = Clipped(L) /\ (L.len > 0 => Clipped(L) > 0)
  BY <1>1 DEF HkShape, Clipped
<1>3. PICK k \in Nat : /\ k = (L.end - L.start + HkLine - 1) \div HkLine
                       /\ Clipped(L) <= k * HkLine /\ k * HkLine <= Clipped(L) + HkLine - 1
  BY <1>1, <1>2, Rounds
<1>4. k * HkLine \in Nat /\ L.at >= L.start + k * HkLine + OneMore(L)
  BY <1>1, <1>3 DEF Over, OneMore
<1>5. Clipped(L) > 0 => LineOf(L.at) > LineOf(L.start + Clipped(L) - 1)
  <2> SUFFICES ASSUME Clipped(L) > 0 PROVE LineOf(L.at) > LineOf(L.start + Clipped(L) - 1)
    OBVIOUS
  <2> DEFINE last == L.start + Clipped(L) - 1
  <2>1. last \in Nat /\ last = L.start + Clipped(L) - 1
    BY <1>1, <1>2
  <2> HIDE DEF last
  <2>2. CASE L.start % HkLine # 0
    <3>1. last + HkLine <= L.at
      BY <1>1, <2>1, <1>2, <1>3, <1>4, <2>2 DEF OneMore
    <3>2. LineOf(last) + 1 = LineOf(last + HkLine) /\ LineOf(last) \in Nat
      BY <2>1, LineFacts
    <3>3. LineOf(last + HkLine) <= LineOf(L.at) /\ LineOf(L.at) \in Nat
      <4>1. last + HkLine \in Nat
        BY <1>1, <2>1
      <4>2. QED BY <1>1, <3>1, <4>1, LineFacts, Zenon
    <3>4. QED BY <2>1, <3>2, <3>3
  <2>3. CASE L.start % HkLine = 0
    <3>1. PICK q \in Nat : L.start = q * HkLine
      <4>1. L.start \in Int
        BY <1>1
      <4>2. L.start = HkLine * LineOf(L.start) + (L.start % HkLine)
        BY <1>1, <4>1, DivMod, Zenon DEF LineOf
      <4>3. LineOf(L.start) \in Nat
        BY <1>1, LineFacts, Zenon
      <4>4. HkLine * LineOf(L.start) = LineOf(L.start) * HkLine
        BY <1>1, <4>3
      <4>5. L.start = LineOf(L.start) * HkLine
        BY <1>1, <2>3, <4>2, <4>3, <4>4
      <4>6. QED BY <4>3, <4>5, Zenon
    <3>2. L.start + k * HkLine = (q + k) * HkLine /\ q + k \in Nat
      BY <1>1, <3>1
    <3>3. LineOf(L.start + k * HkLine) = q + k
      BY <3>2, LineFacts
    <3>4. q + k <= LineOf(L.at) /\ LineOf(L.at) \in Nat
      <4>1. L.start + k * HkLine \in Nat /\ L.start + k * HkLine <= L.at
        BY <1>1, <1>4, <2>3 DEF OneMore
      <4>2. LineOf(L.start + k * HkLine) <= LineOf(L.at) /\ LineOf(L.at) \in Nat
        BY <1>1, <4>1, LineFacts
      <4>3. QED BY <3>3, <4>2
    <3>5. LineOf(last) < q + k
      <4>1. last + 1 <= (q + k) * HkLine
        <5>1. last + 1 = L.start + Clipped(L)
          BY <1>1, <1>2, <2>1
        <5>2. L.start + Clipped(L) <= L.start + k * HkLine
          BY <1>1, <1>2, <1>3, <1>4
        <5>3. QED BY <3>2, <5>1, <5>2
      <4>2. last = HkLine * LineOf(last) + (last % HkLine) /\ last % HkLine \in 0 .. HkLine - 1
            /\ LineOf(last) \in Nat
        <5>1. last \in Int
          BY <2>1
        <5>2. LineOf(last) \in Nat
          BY <2>1, LineFacts, Zenon
        <5>3. QED BY <1>1, <5>1, <5>2, DivMod, Zenon DEF LineOf
      <4>3. q + k <= LineOf(last) => HkLine * (q + k) <= HkLine * LineOf(last)
        BY <1>1, <4>2, Monotone
      <4>4. HkLine * (q + k) = (q + k) * HkLine
        BY <1>1
      <4>5. QED BY <1>1, <2>1, <4>1, <4>2, <4>3, <4>4
    <3>6. LineOf(last) \in Nat
      BY <2>1, LineFacts
    <3>7. QED BY <2>1, <3>4, <3>5, <3>6
  <2>4. QED BY <2>1, <2>2, <2>3
<1>6. ASSUME NEW l \in LinesOf(L.start, Clipped(L)) PROVE l \in PassedBy(L)
  <2>1. Clipped(L) # 0 /\ l \in LineOf(L.start) .. LineOf(L.start + Clipped(L) - 1)
    BY DEF LinesOf
  <2>2. L.start + Clipped(L) - 1 \in Nat
    BY <1>1, <1>2, <2>1
  <2>3. /\ LineOf(L.start) \in Nat /\ LineOf(L.at) \in Nat
        /\ LineOf(L.start + Clipped(L) - 1) \in Nat
    BY <1>1, <2>2, LineFacts
  <2>4. QED BY <1>2, <1>5, <2>1, <2>3 DEF PassedBy
<1>7. QED BY <1>2, <1>5, <1>6

(***************************************************************************)
(* The processor: what an access or an instruction does to one line keeps  *)
(* memory and caches coherent, and brings no other line into the cache.    *)
(***************************************************************************)
NoneCame(line) == \A l \in Nat : l # line /\ In(hkD', l) => In(hkD, l)

LEMMA WrittenBackIs ==
  ASSUME HkMemory, NEW s \in CacheSets, NEW mem, mem = WrittenBack(hkMem, hkD[s])
  PROVE  /\ mem \in SUBSET MemLines /\ hkMem \subseteq mem
         /\ \A l \in MemLines : SetOf(l) = s /\ In(hkD, l) => l \in mem
<1>1. hkD[s] \in CacheLines /\ hkMem \in SUBSET MemLines
  BY DEF HkMemory
<1>2. hkD[s].dirty => hkD[s].fresh /\ hkD[s].line \in MemLines
  BY DEF HkMemory, Coherent
<1>3. CASE hkD[s].dirty
  <2>1. mem = hkMem \cup {hkD[s].line}
    BY <1>2, <1>3, Zenon DEF WrittenBack
  <2>2. QED BY <1>1, <1>2, <1>3, <2>1, Zenon DEF In
<1>4. CASE ~hkD[s].dirty
  <2>1. mem = hkMem
    BY <1>4, Zenon DEF WrittenBack
  <2>2. \A l \in MemLines : SetOf(l) = s /\ In(hkD, l) => l \in hkMem
    BY <1>4, Zenon DEF HkMemory, Coherent
  <2>3. QED BY <1>1, <2>1, <2>2, Zenon
<1>5. QED BY <1>3, <1>4

LEMMA DisplaceIs ==
  ASSUME HkMemory, NEW line \in MemLines, NEW mem, mem = Displace(line)
  PROVE  /\ mem \in SUBSET MemLines /\ hkMem \subseteq mem
         /\ \A l \in MemLines : l # line /\ SetOf(l) = SetOf(line) /\ In(hkD, l) => l \in mem
<1>1. SetOf(line) \in CacheSets
  BY SetFacts, HkConstants DEF MemLines
<1>2. CASE In(hkD, line)
  <2>1. mem = hkMem
    BY <1>2 DEF Displace
  <2>2. \A l \in MemLines : l # line /\ SetOf(l) = SetOf(line) => ~In(hkD, l)
    BY <1>2, Zenon DEF In
  <2>3. hkMem \in SUBSET MemLines
    BY DEF HkMemory
  <2>4. QED BY <2>1, <2>2, <2>3, Zenon
<1>3. CASE ~In(hkD, line)
  <2>1. mem = WrittenBack(hkMem, hkD[SetOf(line)])
    BY <1>3 DEF Displace
  <2>2. QED BY <1>1, <2>1, WrittenBackIs, Zenon
<1>4. QED BY <1>2, <1>3

LEMMA StaleKeeps ==
  ASSUME NEW cache \in [CacheSets -> CacheLines], NEW line \in MemLines, NEW stale,
         stale = StaleIn(cache, line)
  PROVE  /\ stale \in [CacheSets -> CacheLines]
         /\ \A s \in CacheSets : /\ stale[s].line = cache[s].line
                                 /\ stale[s].dirty = cache[s].dirty
                                 /\ cache[s].line # line => stale[s] = cache[s]
<1>1. stale = [s \in CacheSets |-> IF cache[s].line = line THEN [cache[s] EXCEPT !.fresh = FALSE]
                                   ELSE cache[s]]
  BY Zenon DEF StaleIn
<1>2. ASSUME NEW s \in CacheSets
      PROVE  /\ stale[s] \in CacheLines /\ stale[s].line = cache[s].line
             /\ stale[s].dirty = cache[s].dirty /\ (cache[s].line # line => stale[s] = cache[s])
  <2>1. cache[s] \in CacheLines
    OBVIOUS
  <2>2. CASE cache[s].line = line
    <3>1. stale[s] = [cache[s] EXCEPT !.fresh = FALSE]
      BY <1>1, <2>2, Zenon
    <3>2. QED BY <2>1, <2>2, <3>1 DEF CacheLines
  <2>3. CASE cache[s].line # line
    <3>1. stale[s] = cache[s]
      BY <1>1, <2>3, Zenon
    <3>2. QED BY <2>1, <2>3, <3>1, Zenon
  <2>4. QED BY <2>2, <2>3
<1>3. QED BY <1>1, <1>2, Zenon

\* A line put in its set, or a set emptied.
LEMMA PutKeeps ==
  ASSUME NEW cache \in [CacheSets -> CacheLines], Homes(cache), NEW s \in CacheSets,
         NEW e \in CacheLines, e.line = -1 \/ SetOf(e.line) = s,
         NEW new, new = [cache EXCEPT ![s] = e]
  PROVE  /\ new \in [CacheSets -> CacheLines] /\ Homes(new) /\ new[s] = e
         /\ \A r \in CacheSets : r # s => new[r] = cache[r]
         /\ \A l \in Nat : l # e.line /\ In(new, l) => In(cache, l)
<1>1. new \in [CacheSets -> CacheLines] /\ new[s] = e /\ \A r \in CacheSets : r # s => new[r] = cache[r]
  BY Zenon
<1>2. Homes(new)
  BY <1>1, Zenon DEF Homes
<1>3. ASSUME NEW l \in Nat, l # e.line, In(new, l) PROVE In(cache, l)
  <2>1. SetOf(l) \in CacheSets
    BY SetFacts
  <2>2. SetOf(l) # s
    BY <1>1, <1>3, Zenon DEF In
  <2>3. QED BY <1>1, <1>3, <2>1, <2>2, Zenon DEF In
<1>4. QED BY <1>1, <1>2, <1>3, Zenon

LEMMA StoresKeep ==
  ASSUME HkMemory, NEW line \in MemLines, Stores(line)
  PROVE  HkMemory' /\ NoneCame(line)
<1> DEFINE e == [line |-> line, dirty |-> TRUE, fresh |-> TRUE]
<1>1. /\ hkMem' = Displace(line) \ {line}
      /\ hkD' = [hkD EXCEPT ![SetOf(line)] = e]
      /\ hkI' = StaleIn(hkI, line)
  BY DEF Stores
<1>2. SetOf(line) \in CacheSets /\ line \in Nat
  BY SetFacts, HkConstants DEF MemLines
<1>3. /\ hkD \in [CacheSets -> CacheLines] /\ hkI \in [CacheSets -> CacheLines]
      /\ Homes(hkD) /\ Homes(hkI) /\ hkMem \in SUBSET MemLines
  BY DEF HkMemory
<1>4. e \in CacheLines /\ e.line = line
  BY DEF CacheLines
<1>5. PICK mem : mem = Displace(line)
  OBVIOUS
<1>6. /\ mem \in SUBSET MemLines /\ hkMem \subseteq mem
      /\ \A l \in MemLines : l # line /\ SetOf(l) = SetOf(line) /\ In(hkD, l) => l \in mem
  BY <1>5, DisplaceIs, Zenon
<1>7. hkMem' \in SUBSET MemLines
  BY <1>1, <1>5, <1>6, Zenon
<1>8. /\ hkD' \in [CacheSets -> CacheLines] /\ Homes(hkD') /\ hkD'[SetOf(line)] = e
      /\ \A r \in CacheSets : r # SetOf(line) => hkD'[r] = hkD[r]
      /\ \A l \in Nat : l # line /\ In(hkD', l) => In(hkD, l)
  <2> HIDE DEF e
  <2>1. QED BY <1>1, <1>2, <1>3, <1>4, PutKeeps, ZenonT(40)
<1>9. hkI' \in [CacheSets -> CacheLines] /\ \A s \in CacheSets : hkI'[s].line = hkI[s].line
  BY <1>1, <1>3, StaleKeeps, ZenonT(40)
<1>10. Homes(hkI')
  BY <1>3, <1>9, Zenon DEF Homes
<1>11. \A s \in CacheSets : hkD'[s].dirty => hkD'[s].fresh /\ hkD'[s].line \in MemLines
  <2>1. e.dirty /\ e.fresh /\ e.line \in MemLines
    OBVIOUS
  <2> HIDE DEF e
  <2>2. QED BY <1>8, <2>1, Zenon DEF HkMemory, Coherent
<1>12. ASSUME NEW l \in MemLines PROVE l \in hkMem' \/ (In(hkD', l) /\ hkD'[SetOf(l)].dirty)
  <2>1. CASE l = line
    <3>1. e.dirty /\ e.line = line
      OBVIOUS
    <3> HIDE DEF e
    <3>2. QED BY <1>8, <2>1, <3>1, Zenon DEF In
  <2>2. CASE l # line
    <3>1. CASE l \in mem
      BY <1>1, <1>5, <2>2, <3>1, Zenon
    <3>2. CASE l \notin mem
      <4>1. In(hkD, l) /\ hkD[SetOf(l)].dirty /\ SetOf(l) # SetOf(line)
        BY <1>6, <2>2, <3>2, Zenon DEF HkMemory, Coherent
      <4>2. SetOf(l) \in CacheSets
        BY SetFacts, HkConstants DEF MemLines
      <4>3. hkD'[SetOf(l)] = hkD[SetOf(l)]
        BY <1>8, <4>1, <4>2, Zenon
      <4>4. QED BY <4>1, <4>3, Zenon DEF In
    <3>3. QED BY <3>1, <3>2
  <2>3. QED BY <2>1, <2>2
<1>13. HkMemory'
  BY <1>7, <1>8, <1>9, <1>10, <1>11, <1>12, Zenon DEF HkMemory, Homes, Coherent, In
<1>14. QED BY <1>8, <1>13, Zenon DEF NoneCame

LEMMA LoadsKeep ==
  ASSUME HkMemory, NEW line \in MemLines, Loads(line)
  PROVE  HkMemory' /\ NoneCame(line)
<1>0. PICK e : e = [line |-> line, dirty |-> FALSE, fresh |-> line \in hkMem]
  OBVIOUS
<1>1. /\ hkMem' = Displace(line) /\ ~In(hkD, line)
      /\ hkD' = [hkD EXCEPT ![SetOf(line)] = e]
      /\ hkI' = hkI
  BY <1>0 DEF Loads
<1>2. SetOf(line) \in CacheSets /\ line \in Nat
  BY SetFacts, HkConstants DEF MemLines
<1>3. /\ hkD \in [CacheSets -> CacheLines] /\ hkI \in [CacheSets -> CacheLines]
      /\ Homes(hkD) /\ Homes(hkI) /\ hkMem \in SUBSET MemLines
  BY DEF HkMemory
<1>4. e \in CacheLines /\ e.line = line /\ ~e.dirty
  BY <1>0 DEF CacheLines
<1>5. PICK mem : mem = Displace(line)
  OBVIOUS
<1>6. /\ mem \in SUBSET MemLines /\ hkMem \subseteq mem
      /\ \A l \in MemLines : l # line /\ SetOf(l) = SetOf(line) /\ In(hkD, l) => l \in mem
  BY <1>5, DisplaceIs, Zenon
<1>7. hkMem' \in SUBSET MemLines
  BY <1>1, <1>5, <1>6, Zenon
<1>8. /\ hkD' \in [CacheSets -> CacheLines] /\ Homes(hkD') /\ hkD'[SetOf(line)] = e
      /\ \A r \in CacheSets : r # SetOf(line) => hkD'[r] = hkD[r]
      /\ \A l \in Nat : l # line /\ In(hkD', l) => In(hkD, l)
  <2>1. /\ hkD \in [CacheSets -> CacheLines] /\ Homes(hkD) /\ e \in CacheLines
        /\ SetOf(line) \in CacheSets /\ hkD' = [hkD EXCEPT ![SetOf(line)] = e]
        /\ e.line = line
    BY <1>1, <1>2, <1>3, <1>4
  <2>2. QED BY ONLY <2>1, PutKeeps, Zenon
<1>11. \A s \in CacheSets : hkD'[s].dirty => hkD'[s].fresh /\ hkD'[s].line \in MemLines
  BY <1>4, <1>8, Zenon DEF HkMemory, Coherent
<1>12. ASSUME NEW l \in MemLines PROVE l \in hkMem' \/ (In(hkD', l) /\ hkD'[SetOf(l)].dirty)
  <2>1. CASE l \in mem
    BY <1>1, <1>5, <2>1, Zenon
  <2>2. CASE l \notin mem
    <3>1. In(hkD, l) /\ hkD[SetOf(l)].dirty
      BY <1>6, <2>2, Zenon DEF HkMemory, Coherent
    <3>2. SetOf(l) # SetOf(line)
      BY <1>1, <1>6, <2>2, <3>1, Zenon
    <3>3. SetOf(l) \in CacheSets
      BY SetFacts, HkConstants DEF MemLines
    <3>4. hkD'[SetOf(l)] = hkD[SetOf(l)]
      BY <1>8, <3>2, <3>3, Zenon
    <3>5. QED BY <3>1, <3>4, Zenon DEF In
  <2>3. QED BY <2>1, <2>2
<1>13. HkMemory'
  BY <1>1, <1>3, <1>7, <1>8, <1>11, <1>12, Zenon DEF HkMemory, Homes, Coherent, In
<1>14. QED BY <1>8, <1>13, Zenon DEF NoneCame

LEMMA FetchesKeep ==
  ASSUME HkMemory, NEW line \in MemLines, Fetches(line)
  PROVE  /\ HkMemory' /\ NoneCame(line)
         /\ \A l \in Nat : l # line /\ In(hkI', l) => In(hkI, l)
         /\ hkMem = MemLines => \A s \in CacheSets : hkI[s].fresh => hkI'[s].fresh
<1> DEFINE e == [line |-> line, dirty |-> FALSE, fresh |-> line \in hkMem]
<1>1. /\ hkI' = [hkI EXCEPT ![SetOf(line)] = e]
      /\ hkD' = hkD /\ hkMem' = hkMem
  BY DEF Fetches
<1>2. SetOf(line) \in CacheSets /\ line \in Nat
  BY SetFacts, HkConstants DEF MemLines
<1>3. hkI \in [CacheSets -> CacheLines] /\ Homes(hkI)
  BY DEF HkMemory
<1>4. e \in CacheLines /\ e.line = line /\ (hkMem = MemLines => e.fresh)
  <2>1. e \in CacheLines /\ e.line = line
    BY DEF CacheLines
  <2>2. e.fresh = (line \in hkMem)
    BY Zenon
  <2>3. QED BY <2>1, <2>2
<1> HIDE DEF e
<1>5. /\ hkI' \in [CacheSets -> CacheLines] /\ Homes(hkI') /\ hkI'[SetOf(line)] = e
      /\ \A r \in CacheSets : r # SetOf(line) => hkI'[r] = hkI[r]
      /\ \A l \in Nat : l # line /\ In(hkI', l) => In(hkI, l)
  BY <1>1, <1>2, <1>3, <1>4, PutKeeps, Zenon
<1>6. HkMemory'
  BY <1>1, <1>5, Zenon DEF HkMemory, Homes, Coherent, In
<1>7. NoneCame(line)
  BY <1>1, Zenon DEF NoneCame
<1>8. hkMem = MemLines => \A s \in CacheSets : hkI[s].fresh => hkI'[s].fresh
  BY <1>4, <1>5, Zenon
<1>9. QED BY <1>5, <1>6, <1>7, <1>8, Zenon

LEMMA WritesKeep ==
  ASSUME HkMemory, NEW line \in MemLines, ~Dirty(line), WritesMemory(line)
  PROVE  HkMemory' /\ NoneCame(line) /\ \A l \in Nat : In(hkD', l) => In(hkD, l)
<1>1. /\ hkMem' = hkMem \cup {line} /\ hkD' = StaleIn(hkD, line) /\ hkI' = StaleIn(hkI, line)
  BY DEF WritesMemory
<1>2. /\ hkD \in [CacheSets -> CacheLines] /\ hkI \in [CacheSets -> CacheLines]
      /\ Homes(hkD) /\ Homes(hkI) /\ hkMem \in SUBSET MemLines
  BY DEF HkMemory
<1>3. hkI' \in [CacheSets -> CacheLines] /\ \A s \in CacheSets : hkI'[s].line = hkI[s].line
  BY <1>1, <1>2, StaleKeeps, ZenonT(40)
<1>4. /\ hkD' \in [CacheSets -> CacheLines]
      /\ \A s \in CacheSets : /\ hkD'[s].line = hkD[s].line /\ hkD'[s].dirty = hkD[s].dirty
                              /\ hkD[s].line # line => hkD'[s] = hkD[s]
  <2>1. hkD' = StaleIn(hkD, line) /\ hkD \in [CacheSets -> CacheLines]
    BY <1>1, <1>2
  <2>2. QED BY ONLY <2>1, line \in MemLines, StaleKeeps
<1>5. Homes(hkI') /\ Homes(hkD')
  BY <1>2, <1>3, <1>4, Zenon DEF Homes
<1>6. \A l \in Nat : In(hkD', l) <=> In(hkD, l)
  BY <1>4, SetFacts, Zenon DEF In
<1>7. \A s \in CacheSets : hkD'[s].dirty => hkD'[s].fresh /\ hkD'[s].line \in MemLines
  <2> SUFFICES ASSUME NEW s \in CacheSets, hkD'[s].dirty PROVE hkD'[s].fresh /\ hkD'[s].line \in MemLines
    OBVIOUS
  <2>1. hkD[s].dirty /\ hkD[s].fresh /\ hkD[s].line \in MemLines
    BY <1>4, Zenon DEF HkMemory, Coherent
  <2>2. hkD[s].line # line
    <3>1. SUFFICES ASSUME hkD[s].line = line PROVE FALSE
      OBVIOUS
    <3>2. line # -1
      BY HkConstants DEF MemLines
    <3>3. SetOf(line) = s
      BY <3>1, <3>2, Zenon DEF HkMemory, Homes
    <3>4. QED BY <2>1, <3>1, <3>3, Zenon DEF Dirty, In
  <2>3. QED BY <1>4, <2>1, <2>2, Zenon
<1>8. \A l \in MemLines : l \in hkMem' \/ (In(hkD', l) /\ hkD'[SetOf(l)].dirty)
  <2>1. \A l \in MemLines : l \in Nat /\ SetOf(l) \in CacheSets
    BY SetFacts, HkConstants DEF MemLines
  <2>2. QED BY <1>1, <1>4, <1>6, <2>1, Zenon DEF HkMemory, Coherent
<1>9. hkMem' \in SUBSET MemLines
  BY <1>1, <1>2, Zenon
<1>10. HkMemory'
  BY <1>3, <1>4, <1>5, <1>7, <1>8, <1>9, Zenon DEF HkMemory, Homes, Coherent, In
<1>11. QED BY <1>6, <1>10, Zenon DEF NoneCame

LEMMA EmptyIs == Empty \in CacheLines /\ Empty.line = -1 /\ ~Empty.dirty /\ Empty.fresh
BY DEF Empty, CacheLines

LEMMA InNone == \A l \in Nat : SetOf(l) \in CacheSets /\ l # -1
BY SetFacts

LEMMA EmptiedKeeps ==
  ASSUME NEW cache \in [CacheSets -> CacheLines], Homes(cache), NEW s \in CacheSets,
         NEW new, new = [cache EXCEPT ![s] = Empty]
  PROVE  /\ new \in [CacheSets -> CacheLines] /\ Homes(new) /\ new[s] = Empty
         /\ \A r \in CacheSets : r # s => new[r] = cache[r]
         /\ \A l \in Nat : In(new, l) => In(cache, l)
<1>1. /\ new \in [CacheSets -> CacheLines] /\ new[s] = Empty
      /\ \A r \in CacheSets : r # s => new[r] = cache[r]
  BY EmptyIs, Zenon
<1>2. Homes(new)
  BY <1>1, EmptyIs, Zenon DEF Homes
<1>3. \A l \in Nat : In(new, l) => In(cache, l)
  BY <1>1, EmptyIs, InNone, Zenon DEF In
<1>4. QED BY <1>1, <1>2, <1>3

\* A set of the data cache emptied: by what knows every line of the set to be
\* in memory.
LEMMA DropKeeps ==
  ASSUME HkMemory, NEW s \in CacheSets, DropD(s), hkI' = hkI,
         hkMem' \in SUBSET MemLines, hkMem \subseteq hkMem',
         \A l \in MemLines : SetOf(l) = s /\ In(hkD, l) => l \in hkMem'
  PROVE  /\ HkMemory' /\ hkD'[s].line = -1
         /\ \A r \in CacheSets : r # s => hkD'[r] = hkD[r]
         /\ \A l \in Nat : In(hkD', l) => In(hkD, l)
<1>1. hkD' = [hkD EXCEPT ![s] = Empty]
  BY DEF DropD
<1>2. hkD \in [CacheSets -> CacheLines] /\ Homes(hkD)
  BY DEF HkMemory
<1>3. /\ hkD' \in [CacheSets -> CacheLines] /\ Homes(hkD') /\ hkD'[s] = Empty
      /\ \A r \in CacheSets : r # s => hkD'[r] = hkD[r]
      /\ \A l \in Nat : In(hkD', l) => In(hkD, l)
  BY ONLY <1>1, <1>2, EmptiedKeeps, s \in CacheSets, Zenon
<1>4. \A l \in Nat : In(hkD', l) => In(hkD, l)
  BY <1>3
<1>5. \A r \in CacheSets : hkD'[r].dirty => hkD'[r].fresh /\ hkD'[r].line \in MemLines
  BY <1>3, EmptyIs, Zenon DEF HkMemory, Coherent
<1>6. ASSUME NEW l \in MemLines PROVE l \in hkMem' \/ (In(hkD', l) /\ hkD'[SetOf(l)].dirty)
  <2>1. SetOf(l) \in CacheSets
    BY SetFacts, HkConstants DEF MemLines
  <2>2. l \in hkMem \/ (In(hkD, l) /\ hkD[SetOf(l)].dirty)
    BY Zenon DEF HkMemory, Coherent
  <2>3. CASE SetOf(l) = s
    BY <2>2, <2>3, Zenon
  <2>4. CASE SetOf(l) # s
    BY <1>3, <2>1, <2>2, <2>4, Zenon DEF In
  <2>5. QED BY <2>3, <2>4
<1>7. HkMemory'
  BY <1>3, <1>5, <1>6, Zenon DEF HkMemory, Homes, Coherent, In
<1>8. QED BY <1>3, <1>4, <1>7, EmptyIs, Zenon

LEMMA FlushdKeeps ==
  ASSUME HkMemory, NEW line \in Nat, flushd(line), hkI' = hkI
  PROVE  /\ HkMemory' /\ hkD'[SetOf(line)].line = -1
         /\ \A r \in CacheSets : r # SetOf(line) => hkD'[r] = hkD[r]
<1>1. SetOf(line) \in CacheSets
  BY SetFacts
<1>2. hkMem' = WrittenBack(hkMem, hkD[SetOf(line)]) /\ DropD(SetOf(line))
  BY DEF flushd
<1>3. /\ hkMem' \in SUBSET MemLines /\ hkMem \subseteq hkMem'
      /\ \A l \in MemLines : SetOf(l) = SetOf(line) /\ In(hkD, l) => l \in hkMem'
  BY <1>1, <1>2, WrittenBackIs, Zenon
<1>4. QED BY <1>1, <1>2, <1>3, DropKeeps, Zenon

LEMMA FlushdaKeeps ==
  ASSUME HkMemory, NEW line \in Nat, flushda(line), hkI' = hkI
  PROVE  /\ HkMemory' /\ ~In(hkD', line)
         /\ \A l \in Nat : In(hkD', l) => In(hkD, l)
<1>1. SetOf(line) \in CacheSets /\ line # -1
  BY InNone
<1>2. CASE In(hkD, line)
  <2>1. hkMem' = WrittenBack(hkMem, hkD[SetOf(line)]) /\ DropD(SetOf(line))
    BY <1>2 DEF flushda
  <2>2. /\ hkMem' \in SUBSET MemLines /\ hkMem \subseteq hkMem'
        /\ \A l \in MemLines : SetOf(l) = SetOf(line) /\ In(hkD, l) => l \in hkMem'
    BY <1>1, <2>1, WrittenBackIs, Zenon
  <2>3. /\ HkMemory' /\ hkD'[SetOf(line)].line = -1 /\ \A l \in Nat : In(hkD', l) => In(hkD, l)
    BY <1>1, <2>1, <2>2, DropKeeps, Zenon
  <2>4. QED BY <1>1, <2>3, Zenon DEF In
<1>3. CASE ~In(hkD, line)
  <2>1. hkMem' = hkMem /\ hkD' = hkD
    BY <1>3 DEF flushda
  <2>2. HkMemory'
    BY <2>1, Zenon DEF HkMemory, Homes, Coherent, In
  <2>3. QED BY <1>3, <2>1, <2>2, Zenon DEF In
<1>4. QED BY <1>2, <1>3

LEMMA InitdaKeeps ==
  ASSUME HkMemory, NEW line \in Nat, initda(line), hkI' = hkI
  PROVE  /\ HkMemory' /\ ~In(hkD', line)
         /\ \A l \in Nat : In(hkD', l) => In(hkD, l)
         /\ \A l \in hkLost' : l \in hkLost \/ (l = line /\ line \in MemLines)
<1>1. SetOf(line) \in CacheSets /\ line # -1
  BY InNone
<1>2. Dirty(line) => line \in MemLines
  <2>1. Dirty(line) => hkD[SetOf(line)].line = line /\ hkD[SetOf(line)].dirty
    BY DEF Dirty, In
  <2>2. QED BY <1>1, <2>1, Zenon DEF HkMemory, Coherent
<1>3. /\ hkMem' = IF Dirty(line) THEN hkMem \cup {line} ELSE hkMem
      /\ hkLost' = IF Dirty(line) THEN hkLost \cup {line} ELSE hkLost
  BY DEF initda
<1>4. hkMem' \in SUBSET MemLines /\ hkMem \subseteq hkMem'
  <2>1. hkMem \in SUBSET MemLines
    BY DEF HkMemory
  <2>2. QED BY <1>2, <1>3, <2>1
<1>5. \A l \in hkLost' : l \in hkLost \/ (l = line /\ line \in MemLines)
  BY <1>2, <1>3
<1>6. CASE In(hkD, line)
  <2>1. DropD(SetOf(line))
    BY <1>6 DEF initda
  <2>2. ASSUME NEW l \in MemLines, SetOf(l) = SetOf(line), In(hkD, l) PROVE l \in hkMem'
    <3>1. l = line
      BY <1>6, <2>2, Zenon DEF In
    <3>2. l \in hkMem \/ hkD[SetOf(l)].dirty
      BY Zenon DEF HkMemory, Coherent
    <3>3. Dirty(line) \/ l \in hkMem
      BY <1>6, <3>1, <3>2, Zenon DEF Dirty
    <3>4. QED BY <1>3, <3>1, <3>3
  <2>3. /\ HkMemory' /\ hkD'[SetOf(line)].line = -1 /\ \A l \in Nat : In(hkD', l) => In(hkD, l)
    BY <1>1, <1>4, <2>1, <2>2, DropKeeps, Zenon
  <2>4. QED BY <1>1, <1>5, <2>3, Zenon DEF In
<1>7. CASE ~In(hkD, line)
  <2>1. hkMem' = hkMem /\ hkD' = hkD
    BY <1>3, <1>7 DEF initda, Dirty
  <2>2. HkMemory'
    BY <2>1, Zenon DEF HkMemory, Homes, Coherent, In
  <2>3. QED BY <1>5, <1>7, <2>1, <2>2, Zenon DEF In
<1>8. QED BY <1>6, <1>7

LEMMA FlushiKeeps ==
  ASSUME HkMemory, NEW line \in Nat, flushi(line), hkMem' = hkMem, hkD' = hkD
  PROVE  /\ HkMemory' /\ hkI'[SetOf(line)].line = -1 /\ hkI'[SetOf(line)].fresh
         /\ \A r \in CacheSets : r # SetOf(line) => hkI'[r] = hkI[r]
         /\ \A l \in Nat : In(hkI', l) => In(hkI, l)
<1>1. SetOf(line) \in CacheSets /\ hkI' = [hkI EXCEPT ![SetOf(line)] = Empty]
  BY InNone DEF flushi
<1>2. hkI \in [CacheSets -> CacheLines] /\ Homes(hkI)
  BY DEF HkMemory
<1>3. /\ hkI' \in [CacheSets -> CacheLines] /\ Homes(hkI') /\ hkI'[SetOf(line)] = Empty
      /\ \A r \in CacheSets : r # SetOf(line) => hkI'[r] = hkI[r]
      /\ \A l \in Nat : In(hkI', l) => In(hkI, l)
  BY ONLY <1>1, <1>2, EmptiedKeeps, Zenon
<1>4. \A l \in Nat : In(hkI', l) => In(hkI, l)
  BY <1>3
<1>5. HkMemory'
  BY <1>3, Zenon DEF HkMemory, Homes, Coherent, In
<1>6. QED BY <1>3, <1>4, <1>5, EmptyIs, Zenon

LEMMA SizeCovers ==
  ASSUME NEW start \in Nat
  PROVE  /\ start + Size - 1 \in Nat
         /\ LineOf(start) + HkSets - 1 <= LineOf(start + Size - 1)
<1> DEFINE last == start + Size - 1
<1>1. HkLine \in Nat \ {0} /\ HkSets \in Nat /\ Size \in Nat /\ Size > 0 /\ Size = HkSets * HkLine
  BY HkConstants
<1>2. last \in Nat /\ last + HkLine \in Nat /\ start + HkSets * HkLine <= last + HkLine
      /\ start + HkSets * HkLine \in Nat
  BY <1>1
<1> HIDE DEF last
<1>3. LineOf(start + HkSets * HkLine) = LineOf(start) + HkSets
  <2>1. start \in Int /\ HkSets \in Int
    BY <1>1
  <2>2. QED BY <1>1, <2>1, DivShift, Zenon DEF LineOf
<1>4. LineOf(start + HkSets * HkLine) <= LineOf(last + HkLine)
  BY <1>2, LineFacts, Zenon
<1>5. LineOf(last + HkLine) = LineOf(last) + 1 /\ LineOf(last) \in Nat /\ LineOf(start) \in Nat
  BY <1>2, LineFacts, Zenon
<1>6. LineOf(start) + HkSets - 1 <= LineOf(last)
  BY <1>1, <1>3, <1>4, <1>5
<1>7. QED BY <1>2, <1>6, Zenon DEF last

\* A loop that is over has been at every set its region's lines map to.
LEMMA SetsPassed ==
  ASSUME NEW L \in HkLoops, HkShape(L), Over(L)
  PROVE  /\ \A l \in LinesOf(L.start, L.len) : \E p \in PassedBy(L) : SetOf(p) = SetOf(l)
         /\ L.op # "flushi" => \A l \in LinesOf(L.start, L.len) : l \in PassedBy(L)
         /\ L.start = 0 /\ L.len = Size => \A s \in CacheSets : s \in PassedBy(L) /\ SetOf(s) = s
<1>1. L.start \in Nat /\ L.len \in Nat /\ L.at \in Nat /\ Size \in Nat /\ Size > 0
      /\ HkSets \in Nat \ {0}
  BY HkConstants DEF HkLoops
<1>2. Clipped(L) = L.len => \A l \in LinesOf(L.start, L.len) : l \in PassedBy(L)
  BY Covers
<1>3. L.op # "flushi" => Clipped(L) = L.len
  BY DEF Clipped
<1>4. CASE Clipped(L) # L.len
  <2>1. Clipped(L) = Size /\ L.len > Size
    BY <1>4 DEF Clipped
  <2>2. LineOf(L.at) > LineOf(L.start + Size - 1)
    BY <1>1, <2>1, Covers
  <2>3. L.start + Size - 1 \in Nat /\ LineOf(L.start) + HkSets - 1 <= LineOf(L.start + Size - 1)
    BY <1>1, SizeCovers, Zenon
  <2>4. LineOf(L.at) \in Nat /\ LineOf(L.start) \in Nat /\ LineOf(L.start + Size - 1) \in Nat
    BY <1>1, <2>3, LineFacts, Zenon
  <2>5. \A p \in LineOf(L.start) .. LineOf(L.start) + HkSets - 1 : p \in PassedBy(L)
    BY <1>1, <2>2, <2>3, <2>4 DEF PassedBy
  <2>6. ASSUME NEW l \in LinesOf(L.start, L.len)
        PROVE  \E p \in PassedBy(L) : SetOf(p) = SetOf(l)
    <3>1. l \in Nat /\ LineOf(L.start) <= l
      <4>1. l \in LineOf(L.start) .. LineOf(L.start + L.len - 1)
        BY DEF LinesOf
      <4>2. QED BY <2>4, <4>1
    <3>2. PICK p \in LineOf(L.start) .. LineOf(L.start) + HkSets - 1 : SetOf(p) = SetOf(l)
      BY ONLY <2>4, <3>1, SetFacts
    <3>3. QED BY <2>5, <3>2
  <2>7. L.len # Size
    BY <1>1, <2>1
  <2>8. QED BY <1>3, <1>4, <2>6, <2>7, Zenon
<1>5. CASE Clipped(L) = L.len
  <2>1. ASSUME L.start = 0, L.len = Size, NEW s \in CacheSets PROVE s \in PassedBy(L)
    <3>1. LineOf(L.at) > LineOf(0 + Size - 1)
      BY <1>1, <1>5, <2>1, Covers
    <3>2. 0 + Size - 1 \in Nat /\ LineOf(0) + HkSets - 1 <= LineOf(0 + Size - 1)
      BY SizeCovers, 0 \in Nat, Zenon
    <3>3. LineOf(0) = 0
      <4>1. 0 * HkLine = 0
        BY HkConstants
      <4>2. LineOf(0 * HkLine) = 0
        BY LineFacts, 0 \in Nat, Zenon
      <4>3. QED BY <4>1, <4>2, Zenon
    <3>4. LineOf(L.at) \in Nat /\ LineOf(0 + Size - 1) \in Nat
      BY <1>1, <3>2, LineFacts, Zenon
    <3>5. QED BY <1>1, <2>1, <3>1, <3>2, <3>3, <3>4 DEF PassedBy, CacheSets
  <2>2. QED BY <1>2, <1>5, <2>1, SetFacts, Zenon
<1>6. QED BY <1>4, <1>5

\* One step of a loop passes the line it is at.
LEMMA PassesOne ==
  ASSUME NEW L \in HkLoops, L.op # "none", HkShape(L), ~Over(L),
         NEW M, M = [L EXCEPT !.at = @ + HkLine]
  PROVE  /\ M \in HkLoops /\ HkShape(M) /\ LineOf(L.at) \in Nat
         /\ M.op = L.op /\ M.start = L.start /\ M.len = L.len /\ M.then = L.then
         /\ \A p \in PassedBy(M) : p \in Nat /\ (p \in PassedBy(L) \/ p = LineOf(L.at))
<1>1. /\ L.start \in Nat /\ L.len \in Nat /\ L.at \in Nat /\ L.end \in Nat
      /\ HkLine \in Nat \ {0} /\ Size \in Nat
  BY HkConstants DEF HkLoops
<1>2. /\ M.op = L.op /\ M.start = L.start /\ M.len = L.len /\ M.then = L.then /\ M.end = L.end
      /\ M.at = L.at + HkLine /\ M \in HkLoops
  BY <1>1 DEF HkLoops
<1>3. HkShape(M)
  <2>1. M.at <= M.end + 2 * HkLine
    BY <1>2, GoesOn
  <2>2. M.at % HkLine = M.start % HkLine
    <3>1. (L.at + HkLine) % HkLine = L.at % HkLine
      BY <1>1, LineFacts, Zenon
    <3>2. L.at % HkLine = L.start % HkLine
      BY DEF HkShape
    <3>3. QED BY <1>2, <3>1, <3>2, Zenon
  <2>3. M.start <= M.at
    BY <1>1, <1>2 DEF HkShape
  <2>4. M.end = M.start + Clipped(M)
    BY <1>2 DEF HkShape, Clipped
  <2>5. M.op = "copy" => M.start % HkLine = 0 /\ M.start + M.len <= HkLines * HkLine
    BY <1>2 DEF HkShape
  <2>6. QED BY <2>1, <2>2, <2>3, <2>4, <2>5, Zenon DEF HkShape
<1>4. LineOf(L.at) \in Nat /\ LineOf(L.start) \in Nat /\ LineOf(L.at + HkLine) = LineOf(L.at) + 1
  BY <1>1, LineFacts, Zenon
<1>5. \A p \in PassedBy(M) : p \in Nat /\ (p \in PassedBy(L) \/ p = LineOf(L.at))
  BY <1>2, <1>4 DEF PassedBy
<1>6. QED BY <1>2, <1>3, <1>4, <1>5

LEMMA PassedNat ==
  ASSUME NEW L \in HkLoops
  PROVE  \A p \in PassedBy(L) : p \in Nat
<1>1. LineOf(L.start) \in Nat /\ LineOf(L.at) \in Nat
  BY LineFacts DEF HkLoops
<1>2. QED BY <1>1 DEF PassedBy

\* A loop that begins is as a call makes it and has passed nothing.
LEMMA Begins ==
  ASSUME NEW op \in HkOps, NEW start \in Nat, NEW len \in Nat, NEW clipped \in Nat,
         NEW then \in Seq(HkLater), NEW L,
         L = [op |-> op, start |-> start, len |-> len, at |-> start, end |-> start + clipped,
              then |-> then],
         clipped = IF op = "flushi" /\ len > Size THEN Size ELSE len,
         op = "copy" => start % HkLine = 0 /\ start + len <= HkLines * HkLine
  PROVE  L \in HkLoops /\ HkShape(L) /\ PassedBy(L) = {}
<1>1. HkLine \in Nat \ {0} /\ start + clipped \in Nat
  BY HkConstants
<1>2. /\ L.op = op /\ L.start = start /\ L.len = len /\ L.at = start
      /\ L.end = start + clipped /\ L.then = then
  OBVIOUS
<1>3. L \in HkLoops
  BY <1>1 DEF HkLoops
<1>4. Clipped(L) = clipped
  BY <1>2 DEF Clipped
<1>5. HkShape(L)
  BY <1>1, <1>2, <1>4 DEF HkShape
<1>6. LineOf(start) \in Nat
  BY LineFacts, Zenon
<1>7. PassedBy(L) = {}
  BY <1>2, <1>6 DEF PassedBy
<1>8. QED BY <1>3, <1>5, <1>7

(***************************************************************************)
(* The steps.                                                              *)
(***************************************************************************)
LEMMA NothingDone ==
  ASSUME hkDone' = NoLoop
  PROVE  HkWritten' /\ HkCodeSeen' /\ HkLoadSeen'
BY DEF NoLoop, HkWritten, HkCodeSeen, HkLoadSeen

\* What holds of the loop and the block while neither is changed.
LEMMA LoopStays ==
  ASSUME HkInv, UNCHANGED <<hkUse, hkLoop, hkBlock, hkLost>>, hkDone' = NoLoop
  PROVE  HkTypes' /\ HkRuns' /\ HkRests' /\ BlockWhole' /\ HkThrown'
<1>1. HkTypes'
  BY DEF HkInv, HkTypes
<1>2. HkRuns' /\ HkRests'
  BY Zenon DEF HkInv, HkRuns, HkRests, HkShape, HkThen, WholeCache, Clipped, OpsOf, Plan
<1>3. BlockWhole'
  BY Zenon DEF HkInv, BlockWhole
<1>4. HkThrown'
  BY DEF HkInv, HkThrown, NoLoop, Region_
<1>5. QED BY <1>1, <1>2, <1>3, <1>4

LEMMA HasOthersOutside ==
  ASSUME HkInv, NEW line \in MemLines, HasOthers(line), hkBlock.to > 0
  PROVE  line \notin BlockLines
<1> DEFINE from == hkBlock.from
           to == hkBlock.to
<1>1. /\ HkLine \in Nat \ {0} /\ line \in Nat /\ from \in Nat /\ to \in Nat /\ from < to
      /\ from % HkLine = 0 /\ to % HkLine = 0
  BY HkConstants DEF HkInv, HkTypes, BlockWhole, MemLines
<1> HIDE DEF from, to
<1>2. from = HkLine * LineOf(from) /\ to = HkLine * LineOf(to) /\ LineOf(from) \in Nat /\ LineOf(to) \in Nat
  <2>1. LineOf(from) \in Nat /\ LineOf(to) \in Nat /\ from \in Int /\ to \in Int
    <3>1. LineOf(from) \in Nat /\ LineOf(to) \in Nat
      BY <1>1, LineFacts, Zenon
    <3>2. QED BY <1>1, <3>1
  <2>2. from = HkLine * LineOf(from) + (from % HkLine) /\ to = HkLine * LineOf(to) + (to % HkLine)
    BY <1>1, <2>1, DivMod, Zenon DEF LineOf
  <2>3. HkLine * LineOf(from) \in Nat /\ HkLine * LineOf(to) \in Nat
    BY <1>1, <2>1
  <2>4. QED BY <1>1, <2>1, <2>2, <2>3
<1>3. SUFFICES ASSUME line \in BlockLines PROVE FALSE
  OBVIOUS
<1>4. line \in LineOf(from) .. LineOf(from + (to - from) - 1)
  BY <1>3, Zenon DEF BlockLines, LinesOf, from, to
<1>5. from + (to - from) - 1 = to - 1 /\ to - 1 \in Nat
  BY <1>1
<1>6. LineOf(from) <= line /\ line <= LineOf(to - 1)
  BY <1>1, <1>4, <1>5
<1>7. to - 1 = HkLine * LineOf(to - 1) + ((to - 1) % HkLine) /\ (to - 1) % HkLine \in 0 .. HkLine - 1
      /\ LineOf(to - 1) \in Nat
  <2>1. to - 1 \in Int /\ LineOf(to - 1) \in Nat
    BY <1>5, LineFacts
  <2>2. QED BY <1>1, <2>1, DivMod, Zenon DEF LineOf
<1>8. LineOf(to - 1) < LineOf(to)
  <2>1. LineOf(to) <= LineOf(to - 1) => HkLine * LineOf(to) <= HkLine * LineOf(to - 1)
    BY <1>1, <1>2, <1>7, Monotone
  <2>2. HkLine * LineOf(to - 1) \in Int
    BY <1>1, <1>7
  <2>3. QED BY <1>1, <1>2, <1>7, <2>1, <2>2
<1>9. HkLine * LineOf(from) <= HkLine * line /\ HkLine * (line + 1) <= HkLine * LineOf(to)
  <2>1. line + 1 <= LineOf(to) /\ LineOf(from) <= line
    BY <1>1, <1>2, <1>6, <1>7, <1>8
  <2>2. QED BY <1>1, <1>2, <2>1, Monotone
<1>10. HkLine * line = line * HkLine /\ HkLine * (line + 1) = line * HkLine + HkLine /\ line * HkLine \in Nat
  BY <1>1
<1>11. \A a \in line * HkLine .. line * HkLine + HkLine - 1 : a \in from .. to - 1
  BY <1>1, <1>2, <1>9, <1>10
<1>12. QED BY <1>11, Zenon DEF HasOthers, from, to

LEMMA AccessStep ==
  ASSUME HkInv, NEW line \in MemLines, Access(line)
  PROVE  HkInv'
<1> DEFINE L == hkLoop
<1>1. /\ UNCHANGED <<hkUse, hkLoop, hkLost, hkBlock>> /\ hkDone' = NoLoop
      /\ Free(line) \/ hkUse = "load"
  BY DEF Access
<1>2. /\ HkTypes' /\ HkRuns' /\ HkRests' /\ BlockWhole' /\ HkThrown'
      /\ HkWritten' /\ HkCodeSeen' /\ HkLoadSeen'
  BY <1>1, LoopStays, NothingDone
<1>3. line \in Nat /\ hkLoop \in HkLoops /\ HkMemory /\ hkBlock.to \in Nat
  BY HkConstants DEF MemLines, HkInv, HkTypes
<1>4. \A p \in PassedBy(hkLoop) : p \in Nat
  BY <1>3, PassedNat
<1>5. hkLoop.op # "none" => hkLoop.op \in OpsOf(hkUse)
  BY DEF HkInv, HkRuns
<1>6. /\ PassedBy(hkLoop') = PassedBy(hkLoop) /\ hkLoop' = hkLoop
      /\ LinesOf(hkLoop.start, hkLoop.len)' = LinesOf(hkLoop.start, hkLoop.len)
      /\ BlockLines' = BlockLines
  BY <1>1, Zenon DEF PassedBy, LinesOf, BlockLines

\* The data cache gains no line but this one, which the loop has not passed.
<1>7. ASSUME NoneCame(line), Free(line) PROVE PassedData'
  <2>1. SUFFICES ASSUME hkLoop.op \in {"flushda", "ecc", "initda", "malloc"},
                        NEW l \in PassedBy(hkLoop), l \in LinesOf(hkLoop.start, hkLoop.len)
                 PROVE  ~In(hkD', l)
    BY <1>6, Zenon DEF PassedData, In
  <2>2. ~In(hkD, l)
    BY <2>1, Zenon DEF HkInv, PassedData
  <2>3. l # line
    BY <1>7, <2>1, Zenon DEF Free
  <2>4. QED BY <1>4, <1>7, <2>2, <2>3, Zenon DEF NoneCame
<1>8. CASE hkUse = "data"
  <2>1. Stores(line) \/ Loads(line) \/ (~Dirty(line) /\ WritesMemory(line))
    BY <1>8, Zenon DEF Access
  <2>2. HkMemory' /\ NoneCame(line)
    BY <1>3, <2>1, StoresKeep, LoadsKeep, WritesKeep, Zenon
  <2>3. PassedData'
    BY <1>1, <1>7, <1>8, <2>2
  <2>4. hkLoop.op # "none" => hkLoop.op \in {"flushda", "ecc", "initda"}
    BY <1>5, <1>8 DEF OpsOf
  <2>5. PassedCode' /\ PassedLoad' /\ DataUnused'
    BY <1>1, <1>8, <2>4 DEF PassedCode, PassedLoad, DataUnused
  <2>6. hkBlock.to = 0
    BY <1>3, <1>8 DEF HkInv, BlockWhole
  <2>7. BlockClean'
    BY <1>1, <2>4, <2>6 DEF BlockClean
  <2>8. QED BY <1>2, <2>2, <2>3, <2>5, <2>7, Zenon DEF HkInv
<1>9. CASE hkUse = "code"
  <2>1. Fetches(line) \/ (hkLoop = NoLoop /\ WritesMemory(line))
    BY <1>9, Zenon DEF Access
  <2>2. hkLoop.op # "none" => hkLoop.op = "flushi"
    BY <1>5, <1>9 DEF OpsOf
  <2>3. hkBlock.to = 0
    BY <1>3, <1>9 DEF HkInv, BlockWhole
  <2>4. BlockClean'
    BY <1>1, <2>2, <2>3 DEF BlockClean
  <2>5. \A s \in CacheSets : hkD[s].line = -1
    BY <1>9 DEF HkInv, DataUnused
  <2>6. PassedData'
    BY <1>1, <2>2 DEF PassedData
  <2>7. PassedLoad'
    BY <1>1, <1>9, <2>2 DEF PassedLoad
  <2>8. CASE Fetches(line)
    <3>1. /\ HkMemory' /\ hkD' = hkD /\ \A l \in Nat : l # line /\ In(hkI', l) => In(hkI, l)
      BY <1>3, <2>8, FetchesKeep, Zenon DEF Fetches
    <3>2. PassedCode'
      <4>1. SUFFICES ASSUME hkLoop.op = "flushi", NEW p \in PassedBy(hkLoop),
                            NEW l \in LinesOf(hkLoop.start, hkLoop.len), SetOf(l) = SetOf(p)
                     PROVE  ~In(hkI', l)
        BY <1>6, Zenon DEF PassedCode, In
      <4>2. ~In(hkI, l)
        BY <1>9, <4>1, Zenon DEF HkInv, PassedCode
      <4>3. l # line
        BY <1>1, <1>9, <4>1 DEF Free
      <4>4. l \in Nat
        <5>1. l \in LineOf(hkLoop.start) .. LineOf(hkLoop.start + hkLoop.len - 1)
          BY <4>1 DEF LinesOf
        <5>2. LineOf(hkLoop.start) \in Nat
          BY <1>3, LineFacts DEF HkLoops
        <5>3. QED BY <5>1, <5>2
      <4>5. QED BY <3>1, <4>2, <4>3, <4>4, Zenon
    <3>3. DataUnused'
      BY <2>5, <3>1, Zenon DEF DataUnused
    <3>4. QED BY <1>2, <2>4, <2>6, <2>7, <3>1, <3>2, <3>3, Zenon DEF HkInv
  <2>9. CASE hkLoop = NoLoop /\ WritesMemory(line)
    <3>1. SetOf(line) \in CacheSets /\ line # -1
      BY <1>3, SetFacts
    <3>2. ~Dirty(line)
      BY <2>5, <3>1, Zenon DEF Dirty, In
    <3>3. HkMemory'
      BY <1>3, <2>9, <3>2, WritesKeep, Zenon
    <3>4. hkD' = StaleIn(hkD, line) /\ hkD \in [CacheSets -> CacheLines]
      BY <2>9 DEF WritesMemory, HkInv, HkMemory
    <3>5. \A s \in CacheSets : hkD'[s].line = hkD[s].line
      BY ONLY <3>4, line \in MemLines, StaleKeeps
    <3>6. DataUnused'
      BY <2>5, <3>5, Zenon DEF DataUnused
    <3>7. PassedCode'
      BY <1>1, <2>9 DEF PassedCode, NoLoop
    <3>8. QED BY <1>2, <2>4, <2>6, <2>7, <3>3, <3>6, <3>7, Zenon DEF HkInv
  <2>10. QED BY <2>1, <2>8, <2>9
<1>10. CASE hkUse = "load"
  <2>1. Fetches(line)
    BY <1>10, Zenon DEF Access
  <2>2. hkLoop.op # "none" => hkLoop.op \in {"copy", "flushd", "flushi"}
    BY <1>5, <1>10 DEF OpsOf
  <2>3. hkBlock.to = 0
    BY <1>3, <1>10 DEF HkInv, BlockWhole
  <2>4. BlockClean'
    BY <1>1, <2>2, <2>3 DEF BlockClean
  <2>5. PassedData' /\ PassedCode' /\ DataUnused'
    BY <1>1, <1>10, <2>2 DEF PassedData, PassedCode, DataUnused
  <2>6. /\ HkMemory' /\ hkD' = hkD
        /\ hkMem = MemLines => \A s \in CacheSets : hkI[s].fresh => hkI'[s].fresh
    BY <1>3, <2>1, FetchesKeep, Zenon DEF Fetches
  <2>7. (\A s \in CacheSets : hkD[s].line = -1) => hkMem = MemLines
    <3>1. SUFFICES ASSUME \A s \in CacheSets : hkD[s].line = -1 PROVE hkMem = MemLines
      OBVIOUS
    <3>2. \A l \in MemLines : SetOf(l) \in CacheSets /\ l # -1
      BY InNone, HkConstants DEF MemLines
    <3>3. \A l \in MemLines : l \in hkMem
      BY <1>3, <3>1, <3>2, Zenon DEF HkMemory, Coherent, In
    <3>4. hkMem \in SUBSET MemLines
      BY <1>3 DEF HkMemory
    <3>5. QED BY <3>3, <3>4
  <2>8. \A p \in PassedBy(hkLoop) : SetOf(p) \in CacheSets
    BY <1>4, SetFacts
  <2>9. PassedLoad'
    BY <1>1, <1>6, <2>6, <2>7, <2>8, Zenon DEF PassedLoad, HkInv
  <2>10. QED BY <1>2, <2>4, <2>5, <2>6, <2>9, Zenon DEF HkInv
<1>11. CASE hkUse \notin {"data", "code", "load"}
  <2>1. \/ HasOthers(line) /\ (Stores(line) \/ Loads(line))
        \/ hkLoop = NoLoop /\ line \in BlockLines /\ WritesMemory(line)
    BY <1>11, Zenon DEF Access
  <2>2. hkLoop.op # "none" => hkLoop.op = "malloc"
    BY <1>5, <1>11 DEF OpsOf
  <2>3. Free(line)
    BY <1>1, <1>11
  <2>4. PassedCode' /\ PassedLoad' /\ DataUnused'
    BY <1>1, <1>11, <2>2 DEF PassedCode, PassedLoad, DataUnused
  <2>5. CASE HasOthers(line) /\ (Stores(line) \/ Loads(line))
    <3>1. HkMemory' /\ NoneCame(line)
      BY <1>3, <2>5, StoresKeep, LoadsKeep, Zenon
    <3>2. PassedData'
      BY <1>7, <2>3, <3>1
    <3>3. ASSUME hkBlock.to > 0, hkLoop.op = "none", NEW l \in BlockLines
          PROVE  ~In(hkD', l)
      <4>1. l # line
        BY <2>5, <3>3, HasOthersOutside
      <4>2. ~In(hkD, l)
        BY <3>3, Zenon DEF HkInv, BlockClean
      <4>3. l \in Nat
        <5>1. l \in LineOf(hkBlock.from) .. LineOf(hkBlock.from + (hkBlock.to - hkBlock.from) - 1)
          BY <3>3 DEF BlockLines, LinesOf
        <5>2. LineOf(hkBlock.from) \in Nat
          BY LineFacts DEF HkInv, HkTypes
        <5>3. QED BY <5>1, <5>2
      <4>4. QED BY <3>1, <4>1, <4>2, <4>3, Zenon DEF NoneCame
    <3>4. BlockClean'
      <4>1. hkLoop.op = "malloc" => hkBlock.to > 0 /\ hkLoop.start = hkBlock.from
                                         /\ hkLoop.len = hkBlock.to - hkBlock.from
        BY DEF HkInv, BlockClean
      <4>2. QED BY <1>1, <1>6, <3>3, <4>1, Zenon DEF BlockClean, In
    <3>5. QED BY <1>2, <2>4, <3>1, <3>2, <3>4, Zenon DEF HkInv
  <2>6. CASE hkLoop = NoLoop /\ line \in BlockLines /\ WritesMemory(line)
    <3>1. hkLoop.op = "none"
      BY <2>6 DEF NoLoop
    <3>2. hkBlock.to > 0
      <4>1. SUFFICES ASSUME hkBlock.to = 0 PROVE FALSE
        BY <1>3
      <4>2. hkBlock.from = 0
        BY <4>1 DEF HkInv, BlockWhole
      <4>3. hkBlock.to - hkBlock.from = 0
        BY <4>1, <4>2
      <4>4. BlockLines = {}
        BY <4>3, Zenon DEF BlockLines, LinesOf
      <4>5. QED BY <2>6, <4>4
    <3>3. ~In(hkD, line)
      BY <2>6, <3>1, <3>2, Zenon DEF HkInv, BlockClean
    <3>4. HkMemory' /\ NoneCame(line) /\ \A l \in Nat : In(hkD', l) => In(hkD, l)
      <4>1. ~Dirty(line)
        BY <3>3 DEF Dirty
      <4>2. QED BY <1>3, <2>6, <4>1, WritesKeep, Zenon
    <3>5. PassedData'
      BY <1>7, <2>3, <3>4
    <3>6. BlockClean'
      <4>1. ASSUME NEW l \in BlockLines PROVE ~In(hkD', l)
        <5>1. l \in Nat
          <6>1. l \in LineOf(hkBlock.from) .. LineOf(hkBlock.from + (hkBlock.to - hkBlock.from) - 1)
            BY <4>1 DEF BlockLines, LinesOf
          <6>2. LineOf(hkBlock.from) \in Nat
            BY LineFacts DEF HkInv, HkTypes
          <6>3. QED BY <6>1, <6>2
        <5>2. ~In(hkD, l)
          BY <3>1, <3>2, Zenon DEF HkInv, BlockClean
        <5>3. QED BY <3>4, <5>1, <5>2, Zenon
      <4>2. hkLoop.op # "malloc"
        BY <3>1
      <4>3. QED BY <1>1, <1>6, <4>1, <4>2, Zenon DEF BlockClean, In
    <3>7. QED BY <1>2, <2>4, <3>4, <3>5, <3>6, Zenon DEF HkInv
  <2>7. QED BY <2>1, <2>5, <2>6
<1>12. QED BY <1>8, <1>9, <1>10, <1>11

LEMMA IterateStep ==
  ASSUME HkInv, Iterate
  PROVE  HkInv'
<1> DEFINE line == LineOf(hkLoop.at)
<1>1. /\ hkLoop.op # "none" /\ ~Over(hkLoop) /\ Instruction(hkLoop.op, line)
      /\ hkLoop' = [hkLoop EXCEPT !.at = @ + HkLine]
      /\ hkDone' = NoLoop /\ UNCHANGED <<hkUse, hkBlock>>
  BY DEF Iterate
<1>2. /\ hkLoop \in HkLoops /\ HkShape(hkLoop) /\ HkThen(hkLoop) /\ WholeCache(hkLoop)
      /\ hkLoop.op \in OpsOf(hkUse) /\ HkMemory
  BY <1>1 DEF HkInv, HkTypes, HkRuns
<1>3. /\ hkLoop' \in HkLoops /\ HkShape(hkLoop') /\ line \in Nat
      /\ hkLoop'.op = hkLoop.op /\ hkLoop'.start = hkLoop.start /\ hkLoop'.len = hkLoop.len
      /\ hkLoop'.then = hkLoop.then
      /\ \A p \in PassedBy(hkLoop') : p \in Nat /\ (p \in PassedBy(hkLoop) \/ p = line)
  BY <1>1, <1>2, PassesOne
<1> HIDE DEF line
<1>4. HkWritten' /\ HkCodeSeen' /\ HkLoadSeen'
  BY <1>1, NothingDone
<1>5. HkRuns' /\ HkRests'
  <2>1. HkShape(hkLoop)'
    BY <1>3, Zenon DEF HkShape, Clipped
  <2>2. HkThen(hkLoop)'
    BY <1>2, <1>3, Zenon DEF HkThen, Plan
  <2>3. WholeCache(hkLoop)' /\ (hkLoop.op \in OpsOf(hkUse))'
    BY <1>1, <1>2, <1>3, Zenon DEF WholeCache, OpsOf
  <2>4. QED BY <1>1, <1>3, <2>1, <2>2, <2>3, Zenon DEF HkRuns, HkRests
<1>6. BlockWhole' /\ BlockClean'
  <2>1. BlockWhole'
    BY <1>1, Zenon DEF HkInv, BlockWhole
  <2>2. BlockClean'
    BY <1>1, <1>3, Zenon DEF HkInv, BlockClean
  <2>3. QED BY <2>1, <2>2
<1>7. /\ hkUse \in {"data", "code", "load", "uncached"} /\ hkLost \in SUBSET MemLines
      /\ hkBlock \in [from : Nat, to : Nat]
  BY DEF HkInv, HkTypes
<1>8. LinesOf(hkLoop.start, hkLoop.len)' = LinesOf(hkLoop.start, hkLoop.len)
  BY <1>3, Zenon DEF LinesOf
<1>9. /\ PassedBy(hkLoop)' = PassedBy(hkLoop') /\ \A p \in PassedBy(hkLoop') : SetOf(p) \in CacheSets
  <2>1. PassedBy(hkLoop)' = PassedBy(hkLoop')
    BY Zenon DEF PassedBy
  <2>2. QED BY <1>3, <2>1, SetFacts

\* A routine that drops a line of the data cache by its address.
<1>10. ASSUME ~In(hkD', line), \A l \in Nat : In(hkD', l) => In(hkD, l),
              hkLoop.op \in {"flushda", "ecc", "initda", "malloc"}
       PROVE  PassedData'
  <2>1. SUFFICES ASSUME NEW l \in PassedBy(hkLoop'), l \in LinesOf(hkLoop.start, hkLoop.len)
                 PROVE  ~In(hkD', l)
    BY <1>8, <1>9, Zenon DEF PassedData, In
  <2>2. CASE l = line
    BY <1>10, <2>2, Zenon
  <2>3. CASE l # line
    <3>1. l \in PassedBy(hkLoop) /\ l \in Nat
      BY <1>3, <2>3
    <3>2. ~In(hkD, l)
      BY <1>10, <2>1, <3>1, Zenon DEF HkInv, PassedData
    <3>3. QED BY <1>10, <3>1, <3>2, Zenon
  <2>4. QED BY <2>2, <2>3
<1>11. CASE hkLoop.op \in {"flushda", "ecc", "malloc"}
  <2>1. flushda(line) /\ UNCHANGED <<hkI, hkLost>>
    BY <1>1, <1>11, Zenon DEF Instruction
  <2>2. /\ HkMemory' /\ ~In(hkD', line) /\ \A l \in Nat : In(hkD', l) => In(hkD, l)
    BY <1>2, <1>3, <2>1, FlushdaKeeps
  <2>3. PassedData'
    BY <1>10, <1>11, <2>2
  <2>4. PassedCode' /\ PassedLoad'
    BY <1>3, <1>11 DEF PassedCode, PassedLoad
  <2>5. DataUnused'
    BY <1>1, <1>2, <1>11 DEF DataUnused, OpsOf
  <2>6. HkTypes'
    BY <1>1, <1>3, <1>7, <2>1 DEF HkTypes
  <2>7. HkThrown'
    BY <1>1, <1>3, <1>11 DEF HkThrown, NoLoop
  <2>8. QED BY <1>4, <1>5, <1>6, <2>2, <2>3, <2>4, <2>5, <2>6, <2>7, Zenon DEF HkInv
<1>12. CASE hkLoop.op = "initda"
  <2>1. initda(line) /\ UNCHANGED hkI
    BY <1>1, <1>12, Zenon DEF Instruction
  <2>2. /\ HkMemory' /\ ~In(hkD', line) /\ \A l \in Nat : In(hkD', l) => In(hkD, l)
        /\ \A l \in hkLost' : l \in hkLost \/ (l = line /\ line \in MemLines)
    BY <1>2, <1>3, <2>1, InitdaKeeps
  <2>3. PassedData'
    BY <1>10, <1>12, <2>2
  <2>4. PassedCode' /\ PassedLoad'
    BY <1>3, <1>12 DEF PassedCode, PassedLoad
  <2>5. DataUnused'
    BY <1>1, <1>2, <1>12 DEF DataUnused, OpsOf
  <2>6. HkTypes'
    <3>1. hkLost' \in SUBSET MemLines
      BY <1>7, <2>2
    <3>2. QED BY <1>1, <1>3, <1>7, <3>1 DEF HkTypes
  <2>7. line \in MemLines => \/ line \in Region_(hkLoop)
                             \/ hkLoop.start % HkLine # 0 /\ line <= LineOf(hkLoop.start + hkLoop.len) + 1
    <3>1. /\ hkLoop.start \in Nat /\ hkLoop.len \in Nat /\ hkLoop.at \in Nat /\ hkLoop.end \in Nat
          /\ HkLine \in Nat \ {0} /\ hkLoop.end = hkLoop.start + hkLoop.len
          /\ hkLoop.start <= hkLoop.at
      BY <1>2, <1>12, HkConstants DEF HkLoops, HkShape, Clipped
    <3>2. CASE hkLoop.start % HkLine # 0
      <4>1. hkLoop.at <= (hkLoop.start + hkLoop.len) + HkLine
        BY <1>1, <1>2, <3>1, <3>2, GoesOn
      <4>2. hkLoop.start + hkLoop.len \in Nat /\ (hkLoop.start + hkLoop.len) + HkLine \in Nat
        BY <3>1
      <4>3. LineOf(hkLoop.at) <= LineOf((hkLoop.start + hkLoop.len) + HkLine)
        BY <3>1, <4>1, <4>2, LineFacts, Zenon
      <4>4. LineOf((hkLoop.start + hkLoop.len) + HkLine) = LineOf(hkLoop.start + hkLoop.len) + 1
        BY <4>2, LineFacts, Zenon
      <4>5. QED BY <3>2, <4>3, <4>4, Zenon DEF line
    <3>3. CASE hkLoop.start % HkLine = 0
      <4>1. hkLoop.at <= hkLoop.start + hkLoop.len - 1 /\ hkLoop.len # 0
            /\ hkLoop.start + hkLoop.len - 1 \in Nat
        BY <1>1, <1>2, <3>1, <3>3, GoesOn
      <4>2. LineOf(hkLoop.at) <= LineOf(hkLoop.start + hkLoop.len - 1)
            /\ LineOf(hkLoop.start) <= LineOf(hkLoop.at)
            /\ LineOf(hkLoop.start) \in Nat /\ LineOf(hkLoop.at) \in Nat
            /\ LineOf(hkLoop.start + hkLoop.len - 1) \in Nat
        BY <3>1, <4>1, LineFacts, Zenon
      <4>3. LineOf(hkLoop.at) \in LinesOf(hkLoop.start, hkLoop.len)
        BY <4>1, <4>2 DEF LinesOf
      <4>4. QED BY <4>3, Zenon DEF line, Region_, MemLines
    <3>4. QED BY <3>2, <3>3
  <2>8. HkThrown'
    <3>1. Region_(hkLoop)' = Region_(hkLoop)
      BY <1>8, Zenon DEF Region_
    <3>2. \A l \in hkLost' : \/ l \in Region_(hkLoop)
                             \/ hkLoop.start % HkLine # 0 /\ l <= LineOf(hkLoop.start + hkLoop.len) + 1
      BY <1>12, <2>2, <2>7, Zenon DEF HkInv, HkThrown
    <3>3. hkDone'.op = "none"
      BY <1>1 DEF NoLoop
    <3>4. QED BY <1>3, <3>1, <3>2, <3>3, Zenon DEF HkThrown
  <2>9. QED BY <1>4, <1>5, <1>6, <2>2, <2>3, <2>4, <2>5, <2>6, <2>8, Zenon DEF HkInv
<1>13. CASE hkLoop.op = "copy"
  <2>1. Stores(line) /\ UNCHANGED hkLost
    BY <1>1, <1>13, Zenon DEF Instruction
  <2>2. line \in MemLines
    <3>1. /\ hkLoop.start \in Nat /\ hkLoop.len \in Nat /\ hkLoop.at \in Nat /\ hkLoop.end \in Nat
          /\ HkLine \in Nat \ {0} /\ hkLoop.end = hkLoop.start + hkLoop.len
          /\ hkLoop.start % HkLine = 0 /\ hkLoop.start + hkLoop.len <= HkLines * HkLine
          /\ HkLines \in Nat /\ HkLine * HkLines \in Nat
      BY <1>2, <1>13, HkConstants DEF HkLoops, HkShape, Clipped
    <3>2. hkLoop.at + 1 <= HkLine * HkLines
      <4>1. hkLoop.at + 1 <= hkLoop.end
        BY <1>1, <1>2, <3>1, GoesOn
      <4>2. HkLine * HkLines = HkLines * HkLine
        BY <3>1
      <4>3. QED BY <3>1, <4>1, <4>2
    <3>3. hkLoop.at = HkLine * line + (hkLoop.at % HkLine) /\ hkLoop.at % HkLine \in 0 .. HkLine - 1
      <4>1. hkLoop.at \in Int
        BY <3>1
      <4>2. QED BY <3>1, <4>1, DivMod, Zenon DEF line, LineOf
    <3>4. HkLines <= line => HkLine * HkLines <= HkLine * line
      BY <1>3, <3>1, Monotone
    <3>5. HkLine * line \in Nat
      BY <1>3, <3>1
    <3>6. line < HkLines
      BY <1>3, <3>1, <3>2, <3>3, <3>4, <3>5
    <3>7. QED BY <1>3, <3>1, <3>6 DEF MemLines
  <2>3. HkMemory'
    BY <1>2, <2>1, <2>2, StoresKeep, Zenon
  <2>4. PassedData' /\ PassedCode' /\ PassedLoad' /\ HkThrown'
    BY <1>1, <1>3, <1>13 DEF PassedData, PassedCode, PassedLoad, HkThrown, NoLoop
  <2>5. DataUnused'
    BY <1>1, <1>2, <1>13 DEF DataUnused, OpsOf
  <2>6. HkTypes'
    BY <1>1, <1>3, <1>7, <2>1 DEF HkTypes
  <2>7. QED BY <1>4, <1>5, <1>6, <2>3, <2>4, <2>5, <2>6, Zenon DEF HkInv
<1>14. CASE hkLoop.op = "flushd"
  <2>1. flushd(line) /\ UNCHANGED <<hkI, hkLost>>
    BY <1>1, <1>14, Zenon DEF Instruction
  <2>2. /\ HkMemory' /\ hkD'[SetOf(line)].line = -1
        /\ \A r \in CacheSets : r # SetOf(line) => hkD'[r] = hkD[r]
    BY <1>2, <1>3, <2>1, FlushdKeeps, Zenon
  <2>3. PassedData' /\ PassedCode' /\ HkThrown'
    BY <1>1, <1>3, <1>14 DEF PassedData, PassedCode, HkThrown, NoLoop
  <2>4. PassedLoad'
    <3>1. ASSUME NEW p \in PassedBy(hkLoop') PROVE hkD'[SetOf(p)].line = -1
      <4>1. CASE SetOf(p) = SetOf(line)
        BY <2>2, <4>1, Zenon
      <4>2. CASE SetOf(p) # SetOf(line)
        <5>1. p \in PassedBy(hkLoop)
          BY <1>3, <4>2, Zenon
        <5>2. hkD[SetOf(p)].line = -1
          BY <1>14, <5>1, Zenon DEF HkInv, PassedLoad
        <5>3. QED BY <1>9, <2>2, <4>2, <5>2, Zenon
      <4>3. QED BY <4>1, <4>2
    <3>2. hkLoop'.op # "flushi"
      BY <1>3, <1>14
    <3>3. QED BY <1>9, <3>1, <3>2, Zenon DEF PassedLoad
  <2>5. DataUnused'
    BY <1>1, <1>2, <1>14 DEF DataUnused, OpsOf
  <2>6. HkTypes'
    BY <1>1, <1>3, <1>7, <2>1 DEF HkTypes
  <2>7. QED BY <1>4, <1>5, <1>6, <2>2, <2>3, <2>4, <2>5, <2>6, Zenon DEF HkInv
<1>15. CASE hkLoop.op = "flushi"
  <2>1. flushi(line) /\ UNCHANGED <<hkMem, hkD, hkLost>>
    BY <1>1, <1>15, Zenon DEF Instruction
  <2>2. /\ HkMemory' /\ hkI'[SetOf(line)].line = -1 /\ hkI'[SetOf(line)].fresh
        /\ \A r \in CacheSets : r # SetOf(line) => hkI'[r] = hkI[r]
        /\ \A l \in Nat : In(hkI', l) => In(hkI, l)
    BY <1>2, <1>3, <2>1, FlushiKeeps, Zenon
  <2>3. PassedData' /\ HkThrown'
    BY <1>1, <1>3, <1>15 DEF PassedData, HkThrown, NoLoop
  <2>4. PassedCode'
    <3>1. SUFFICES ASSUME hkUse = "code", NEW p \in PassedBy(hkLoop'),
                          NEW l \in LinesOf(hkLoop.start, hkLoop.len), SetOf(l) = SetOf(p)
                   PROVE  ~In(hkI', l)
      BY <1>1, <1>8, <1>9, Zenon DEF PassedCode, In
    <3>2. l \in Nat
      <4>1. l \in LineOf(hkLoop.start) .. LineOf(hkLoop.start + hkLoop.len - 1)
        BY <3>1 DEF LinesOf
      <4>2. LineOf(hkLoop.start) \in Nat
        BY <1>2, LineFacts DEF HkLoops
      <4>3. QED BY <4>1, <4>2
    <3>3. CASE p = line
      <4>1. l # -1
        BY <3>2, InNone
      <4>2. QED BY <2>2, <3>1, <3>3, <4>1, Zenon DEF In
    <3>4. CASE p # line
      <4>1. p \in PassedBy(hkLoop)
        BY <1>3, <3>4, Zenon
      <4>2. ~In(hkI, l)
        BY <1>15, <3>1, <4>1, Zenon DEF HkInv, PassedCode
      <4>3. QED BY <2>2, <3>2, <4>2, Zenon
    <3>5. QED BY <3>3, <3>4
  <2>5. PassedLoad'
    <3>1. SUFFICES ASSUME hkUse = "load"
                   PROVE  /\ \A s \in CacheSets : hkD'[s].line = -1
                          /\ \A p \in PassedBy(hkLoop') : hkI'[SetOf(p)].fresh
      <4>1. hkLoop'.op # "flushd"
        BY <1>3, <1>15
      <4>2. QED BY <1>1, <1>9, <4>1, Zenon DEF PassedLoad
    <3>2. \A s \in CacheSets : hkD'[s].line = -1
      BY <1>15, <2>1, <3>1, Zenon DEF HkInv, PassedLoad
    <3>3. ASSUME NEW p \in PassedBy(hkLoop') PROVE hkI'[SetOf(p)].fresh
      <4>1. CASE SetOf(p) = SetOf(line)
        BY <2>2, <4>1, Zenon
      <4>2. CASE SetOf(p) # SetOf(line)
        <5>1. p \in PassedBy(hkLoop)
          BY <1>3, <4>2, Zenon
        <5>2. hkI[SetOf(p)].fresh
          BY <1>15, <3>1, <5>1, Zenon DEF HkInv, PassedLoad
        <5>3. QED BY <1>9, <2>2, <4>2, <5>2, Zenon
      <4>3. QED BY <4>1, <4>2
    <3>4. QED BY <3>2, <3>3
  <2>6. DataUnused'
    BY <1>1, <2>1, Zenon DEF HkInv, DataUnused
  <2>7. HkTypes'
    BY <1>1, <1>3, <1>7, <2>1 DEF HkTypes
  <2>8. QED BY <1>4, <1>5, <1>6, <2>2, <2>3, <2>4, <2>5, <2>6, <2>7, Zenon DEF HkInv
<1>16. hkLoop.op \in HkOps
  BY <1>1, <1>2 DEF HkLoops
<1>17. QED BY <1>11, <1>12, <1>13, <1>14, <1>15, <1>16 DEF HkOps

LEMMA SectionIs ==
  ASSUME NEW i \in 1 .. Len(HkSections)
  PROVE  /\ HkSections[i].to \in Nat /\ HkSections[i].end \in Nat
         /\ HkSections[i].to <= HkSections[i].end /\ HkSections[i].end <= HkLines
<1>1. HkSections \in Seq([from : Nat, to : Nat, end : Nat])
  BY HkAssumption
<1>2. HkSections[i] \in [from : Nat, to : Nat, end : Nat]
  BY <1>1, ElementOfSeq
<1>3. HkSections[i].to <= HkSections[i].end /\ HkSections[i].end <= HkLines
  BY HkAssumption
<1>4. QED BY <1>2, <1>3

LEMMA Appended ==
  ASSUME NEW S, NEW a \in Seq(S), NEW b \in Seq(S), NEW c, c = a \o b
  PROVE  /\ c \in Seq(S) /\ Len(a) \in Nat /\ Len(c) = Len(a) + Len(b)
         /\ \A i \in 1 .. Len(a) + Len(b) : c[i] = IF i <= Len(a) THEN a[i] ELSE b[i - Len(a)]
BY ConcatProperties

LEMMA CopyIs ==
  ASSUME NEW c \in CopyLoops
  PROVE  \E start, len \in Nat :
           /\ c = [op |-> "copy", start |-> start, len |-> len, at |-> start, end |-> start + len,
                   then |-> <<>>]
           /\ start % HkLine = 0 /\ start + len <= HkLines * HkLine
<1>1. PICK i \in 1 .. 3 : c = Copy(HkSections[i])
  BY DEF CopyLoops
<1> DEFINE to == HkSections[i].to
           end == HkSections[i].end
<1>2. /\ to \in Nat /\ end \in Nat /\ to <= end /\ end <= HkLines
      /\ HkLine \in Nat \ {0} /\ HkLines \in Nat
  <2>1. i \in 1 .. Len(HkSections)
    BY HkAssumption
  <2>2. QED BY <2>1, SectionIs, HkConstants
<1>3. c = [op |-> "copy", start |-> to * HkLine, len |-> (end - to) * HkLine, at |-> to * HkLine,
           end |-> to * HkLine + (end - to) * HkLine, then |-> <<>>]
  BY <1>1 DEF Copy, Region
<1> HIDE DEF to, end
<1>4. end - to \in Nat /\ to * HkLine \in Nat /\ (end - to) * HkLine \in Nat
  BY <1>2
<1>5. (to * HkLine) % HkLine = 0
  BY <1>2, LineFacts, Zenon
<1>6. to * HkLine + (end - to) * HkLine <= HkLines * HkLine
  <2>1. HkLine * end <= HkLine * HkLines
    BY <1>2, Monotone
  <2>2. to * HkLine + (end - to) * HkLine = HkLine * end /\ HkLine * HkLines = HkLines * HkLine
    BY <1>2
  <2>3. QED BY <2>1, <2>2, Zenon
<1>7. QED BY <1>3, <1>4, <1>5, <1>6, Zenon

LEMMA FlushAllIs ==
  /\ alt_dcache_flush_all = [op |-> "flushd", start |-> 0, len |-> Size, at |-> 0, end |-> 0 + Size,
                             then |-> <<>>]
  /\ alt_icache_flush_all = [op |-> "flushi", start |-> 0, len |-> Size, at |-> 0, end |-> 0 + Size,
                             then |-> <<>>]
  /\ alt_dcache_flush_all \in HkLater /\ alt_icache_flush_all \in HkLater
<1>1. Size \in Nat /\ 0 + Size \in Nat /\ ~(Size > Size)
  BY HkConstants
<1>2. /\ alt_dcache_flush_all = [op |-> "flushd", start |-> 0, len |-> Size, at |-> 0, end |-> 0 + Size,
                             then |-> <<>>]
      /\ alt_icache_flush_all = [op |-> "flushi", start |-> 0, len |-> Size, at |-> 0, end |-> 0 + Size,
                             then |-> <<>>]
  BY <1>1, Zenon DEF alt_dcache_flush_all, alt_icache_flush_all, alt_icache_flush, Region
<1>3. QED BY <1>1, <1>2 DEF HkLater, HkOps

LEMMA CopiesLater == CopyLoops \subseteq HkLater
<1>1. ASSUME NEW c \in CopyLoops PROVE c \in HkLater
  <2>1. PICK start, len \in Nat :
             c = [op |-> "copy", start |-> start, len |-> len, at |-> start, end |-> start + len,
                   then |-> <<>>]
    BY CopyIs
  <2>2. start + len \in Nat
    OBVIOUS
  <2>3. QED BY <2>1, <2>2 DEF HkLater, HkOps
<1>2. QED BY <1>1

LEMMA LoadPlan == alt_load \in Seq(HkLater) /\ Plan(alt_load)
<1> DEFINE all == alt_load_section(HkSections[1]) \o alt_load_section(HkSections[2])
                         \o alt_load_section(HkSections[3])
           ends == <<alt_dcache_flush_all, alt_icache_flush_all>>
<1>1. all \in Seq(CopyLoops)
  <2>1. ASSUME NEW i \in 1 .. 3 PROVE alt_load_section(HkSections[i]) \in Seq(CopyLoops)
    <3>1. Copy(HkSections[i]) \in CopyLoops
      BY DEF CopyLoops
    <3>2. QED BY <3>1 DEF alt_load_section
  <2>2. /\ alt_load_section(HkSections[1]) \in Seq(CopyLoops)
        /\ alt_load_section(HkSections[2]) \in Seq(CopyLoops)
        /\ alt_load_section(HkSections[3]) \in Seq(CopyLoops)
    BY <2>1
  <2> HIDE DEF alt_load_section
  <2>3. QED BY <2>2, ConcatProperties
<1>2. ends \in Seq(HkLater) /\ Len(ends) = 2 /\ ends[1] = alt_dcache_flush_all
      /\ ends[2] = alt_icache_flush_all
  BY FlushAllIs
<1>3. alt_load = all \o ends
  BY Zenon DEF alt_load
<1> HIDE DEF all, ends
<1>4. all \in Seq(HkLater)
  BY <1>1, CopiesLater
<1>5. /\ alt_load \in Seq(HkLater) /\ Len(alt_load) = Len(all) + 2 /\ Len(all) \in Nat
      /\ \A i \in 1 .. Len(all) + 2 :
           alt_load[i] = IF i <= Len(all) THEN all[i] ELSE ends[i - Len(all)]
  <2>1. /\ alt_load \in Seq(HkLater) /\ Len(alt_load) = Len(all) + Len(ends) /\ Len(all) \in Nat
        /\ \A i \in 1 .. Len(all) + Len(ends) :
             alt_load[i] = IF i <= Len(all) THEN all[i] ELSE ends[i - Len(all)]
    <3>1. all \in Seq(HkLater) /\ ends \in Seq(HkLater) /\ alt_load = all \o ends
      BY <1>2, <1>3, <1>4
    <3> HIDE DEF alt_load
    <3>2. QED BY ONLY <3>1, Appended
  <2>2. QED BY <1>2, <2>1
<1>6. \A i \in 1 .. Len(all) : all[i] \in CopyLoops
  BY <1>1
<1>7. \A i \in 1 .. Len(alt_load) - 2 : alt_load[i] \in CopyLoops
  BY <1>5, <1>6
<1>8. alt_load[Len(alt_load) - 1] = alt_dcache_flush_all /\ alt_load[Len(alt_load)] = alt_icache_flush_all
  BY <1>2, <1>5
<1>9. QED BY <1>5, <1>7, <1>8 DEF Plan

LEMMA PlanRuns ==
  ASSUME NEW t \in Seq(HkLater), Plan(t), NEW M, M = [Head(t) EXCEPT !.then = Tail(t)]
  PROVE  /\ M \in HkLoops /\ HkShape(M) /\ HkThen(M) /\ PassedBy(M) = {}
         /\ M.op \in {"copy", "flushd"} /\ (M.op = "flushd" => M.start = 0 /\ M.len = Size)
<1>1. /\ Len(t) \in Nat /\ Len(t) >= 2 /\ Head(t) = t[1] /\ Tail(t) \in Seq(HkLater)
      /\ Len(Tail(t)) = Len(t) - 1 /\ \A i \in 1 .. Len(t) - 1 : Tail(t)[i] = t[i + 1]
  <2>1. Len(t) \in Nat /\ Len(t) >= 2 /\ t # <<>>
    BY DEF Plan
  <2>2. QED BY <2>1, HeadTailProperties
<1>2. CASE Len(t) = 2
  <2>1. Head(t) = alt_dcache_flush_all
    BY <1>1, <1>2 DEF Plan
  <2>2. Tail(t) = <<alt_icache_flush_all>>
    <3>1. t[2] = alt_icache_flush_all
      BY <1>2 DEF Plan
    <3>2. Len(Tail(t)) = 1 /\ Tail(t)[1] = alt_icache_flush_all /\ alt_icache_flush_all \in HkLater
      <4>1. Len(Tail(t)) = 1 /\ Tail(t)[1] = t[2]
        BY <1>1, <1>2
      <4>2. QED BY <3>1, <4>1, FlushAllIs, Zenon
    <3>3. /\ <<alt_icache_flush_all>> \in Seq(HkLater) /\ Len(<<alt_icache_flush_all>>) = 1
          /\ <<alt_icache_flush_all>>[1] = alt_icache_flush_all
      BY ONLY <3>2
    <3>4. \A i \in 1 .. Len(Tail(t)) : Tail(t)[i] = <<alt_icache_flush_all>>[i]
      BY ONLY <3>2, <3>3
    <3>5. QED BY ONLY <1>1, <3>2, <3>3, <3>4, SeqEqual, Zenon
  <2>3. M = [op |-> "flushd", start |-> 0, len |-> Size, at |-> 0, end |-> 0 + Size, then |-> Tail(t)]
    <3>1. Head(t) = [op |-> "flushd", start |-> 0, len |-> Size, at |-> 0, end |-> 0 + Size, then |-> <<>>]
      BY <2>1, FlushAllIs, Zenon
    <3>2. M = [[op |-> "flushd", start |-> 0, len |-> Size, at |-> 0, end |-> 0 + Size, then |-> <<>>]
                 EXCEPT !.then = Tail(t)]
      BY <3>1, Zenon
    <3>3. QED BY ONLY <3>2
  <2>4. M \in HkLoops /\ HkShape(M) /\ PassedBy(M) = {}
    <3>1. Size \in Nat /\ 0 \in Nat /\ "flushd" \in HkOps
      BY HkConstants DEF HkOps
    <3>2. Size = IF "flushd" = "flushi" /\ Size > Size THEN Size ELSE Size
      OBVIOUS
    <3>3. "flushd" = "copy" => 0 % HkLine = 0 /\ 0 + Size <= HkLines * HkLine
      OBVIOUS
    <3>4. QED BY ONLY <1>1, <2>3, <3>1, <3>2, <3>3, Begins
  <2>5. M.op = "flushd" /\ M.then = Tail(t) /\ M.start = 0 /\ M.len = Size
    BY <2>3
  <2>6. QED BY <2>2, <2>4, <2>5, Zenon DEF HkThen
<1>3. CASE Len(t) > 2
  <2>1. Head(t) \in CopyLoops
    BY <1>1, <1>3 DEF Plan
  <2>2. PICK start, len \in Nat :
           /\ Head(t) = [op |-> "copy", start |-> start, len |-> len, at |-> start,
                         end |-> start + len, then |-> <<>>]
           /\ start % HkLine = 0 /\ start + len <= HkLines * HkLine
    BY <2>1, CopyIs
  <2>3. M = [op |-> "copy", start |-> start, len |-> len, at |-> start,
                         end |-> start + len, then |-> Tail(t)]
    <3>1. M = [[op |-> "copy", start |-> start, len |-> len, at |-> start, end |-> start + len,
                then |-> <<>>] EXCEPT !.then = Tail(t)]
      BY <2>2, Zenon
    <3>2. QED BY ONLY <3>1
  <2>4. M \in HkLoops /\ HkShape(M) /\ PassedBy(M) = {}
    <3>1. "copy" \in HkOps /\ len = IF "copy" = "flushi" /\ len > Size THEN Size ELSE len
      BY DEF HkOps
    <3>2. QED BY ONLY <1>1, <2>2, <2>3, <3>1, start \in Nat, len \in Nat, Begins
  <2>5. Plan(Tail(t))
    <3>1. \A i \in 1 .. Len(t) - 2 : t[i] \in CopyLoops
      BY DEF Plan
    <3>2. \A i \in 1 .. Len(Tail(t)) - 2 : Tail(t)[i] \in CopyLoops
      BY <1>1, <3>1
    <3>3. /\ Tail(t)[Len(Tail(t)) - 1] = alt_dcache_flush_all
          /\ Tail(t)[Len(Tail(t))] = alt_icache_flush_all
      BY <1>1, <1>3 DEF Plan
    <3>4. Len(Tail(t)) >= 2
      BY <1>1, <1>3
    <3>5. QED BY <3>2, <3>3, <3>4, Zenon DEF Plan
  <2>6. M.op = "copy" /\ M.then = Tail(t)
    BY <2>3
  <2>7. QED BY <2>4, <2>5, <2>6, Zenon DEF HkThen
<1>4. Len(t) = 2 \/ Len(t) > 2
  BY <1>1
<1>5. QED BY <1>2, <1>3, <1>4, Zenon

LEMMA ReturnStep ==
  ASSUME HkInv, Return
  PROVE  HkInv'
<1>1. /\ hkLoop.op # "none" /\ Over(hkLoop) /\ hkDone' = hkLoop
      /\ hkLoop' = IF hkLoop.then = <<>> THEN NoLoop
                       ELSE [Head(hkLoop.then) EXCEPT !.then = Tail(hkLoop.then)]
      /\ UNCHANGED <<hkUse, hkMem, hkD, hkI, hkLost, hkBlock>>
  BY DEF Return
<1>2. /\ hkLoop \in HkLoops /\ HkShape(hkLoop) /\ HkThen(hkLoop) /\ WholeCache(hkLoop)
      /\ hkLoop.op \in OpsOf(hkUse) /\ HkMemory
  BY <1>1 DEF HkInv, HkTypes, HkRuns
<1>3. /\ \A l \in LinesOf(hkLoop.start, hkLoop.len) :
           \E p \in PassedBy(hkLoop) : SetOf(p) = SetOf(l)
      /\ hkLoop.op # "flushi" =>
           \A l \in LinesOf(hkLoop.start, hkLoop.len) : l \in PassedBy(hkLoop)
      /\ hkLoop.start = 0 /\ hkLoop.len = Size =>
           \A s \in CacheSets : s \in PassedBy(hkLoop) /\ SetOf(s) = s
  BY <1>1, <1>2, SetsPassed, Zenon
<1>4. HkMemory'
  BY <1>1, <1>2, Zenon DEF HkMemory, Homes, Coherent, In
<1>5. /\ hkUse \in {"data", "code", "load", "uncached"} /\ hkLost \in SUBSET MemLines
      /\ hkBlock \in [from : Nat, to : Nat]
  BY DEF HkInv, HkTypes
<1>6. BlockWhole' /\ DataUnused'
  BY <1>1, Zenon DEF HkInv, BlockWhole, DataUnused

\* What the loop that ended did.
<1>7. hkLoop.op \in {"flushda", "ecc", "initda", "malloc"} =>
        \A l \in LinesOf(hkLoop.start, hkLoop.len) : ~In(hkD, l)
  BY <1>3, Zenon DEF HkInv, PassedData
<1>8. \A l \in MemLines : ~In(hkD, l) => l \in hkMem
  BY <1>2, Zenon DEF HkMemory, Coherent
<1>9. HkWritten'
  <2>1. SUFFICES ASSUME hkLoop.op \in {"flushda", "ecc", "malloc"},
                        NEW l \in LinesOf(hkLoop.start, hkLoop.len), l \in MemLines
                 PROVE  l \in hkMem /\ ~In(hkD, l)
    BY <1>1, Zenon DEF HkWritten, Region_, LinesOf, In, MemLines
  <2>2. QED BY <1>7, <1>8, <2>1, Zenon
<1>10. HkCodeSeen'
  <2>1. SUFFICES ASSUME hkUse = "code", hkLoop.op = "flushi", NEW l \in LinesOf(hkLoop.start, hkLoop.len)
                 PROVE  ~In(hkI, l)
    BY <1>1, Zenon DEF HkCodeSeen, Region_, LinesOf, In
  <2>2. QED BY <1>3, <2>1, Zenon DEF HkInv, PassedCode
<1>11. hkDone'.op = "initda" => \A l \in Region_(hkDone') : ~In(hkD', l)
  BY <1>1, <1>7, Zenon DEF Region_, In

\* At the end of alt_load both caches have been gone through.
<1>12. CASE hkLoop.then = <<>>
  <2>1. hkLoop' = NoLoop /\ hkLoop'.op = "none"
    BY <1>1, <1>12 DEF NoLoop
  <2>2. hkLoop' \in HkLoops
    <3>1. <<>> \in Seq(HkLater)
      OBVIOUS
    <3>2. QED BY <2>1, <3>1 DEF NoLoop, HkLoops
  <2>3. HkTypes'
    BY <1>1, <1>5, <2>2 DEF HkTypes
  <2>4. HkRuns' /\ HkRests' /\ PassedData' /\ PassedCode' /\ PassedLoad'
    BY <2>1 DEF HkRuns, HkRests, PassedData, PassedCode, PassedLoad
  <2>5. HkThrown'
    BY <1>11, <2>1, Zenon DEF HkThrown
  <2>6. HkLoadSeen'
    <3>1. SUFFICES ASSUME hkUse = "load", NEW l \in Loaded
                   PROVE  l \in hkMem /\ (In(hkI, l) => hkI[SetOf(l)].fresh)
      BY <1>1, Zenon DEF HkLoadSeen, In
    <3>2. hkLoop.op = "flushi"
      <4>1. hkLoop.op \in {"copy", "flushd", "flushi"}
        BY <1>2, <3>1 DEF OpsOf
      <4>2. hkLoop.op # "copy"
        BY <1>2, <1>12 DEF HkThen, Plan
      <4>3. hkLoop.op # "flushd"
        BY <1>2, <1>12 DEF HkThen
      <4>4. QED BY <4>1, <4>2, <4>3
    <3>3. hkLoop.start = 0 /\ hkLoop.len = Size
      BY <1>2, <3>1, <3>2 DEF WholeCache
    <3>4. l \in MemLines
      <4>1. PICK i \in 1 .. Len(HkSections) : l \in HkSections[i].to .. HkSections[i].end - 1
        BY <3>1 DEF Loaded
      <4>2. HkSections[i].to \in Nat /\ HkSections[i].end \in Nat /\ HkSections[i].end <= HkLines
            /\ HkLines \in Nat
        BY SectionIs, HkConstants
      <4>3. QED BY <4>1, <4>2 DEF MemLines
    <3>5. SetOf(l) \in CacheSets /\ l # -1
      BY <3>4, InNone, HkConstants DEF MemLines
    <3>6. l \in hkMem
      <4>1. hkD[SetOf(l)].line = -1
        BY <3>1, <3>2, <3>5, Zenon DEF HkInv, PassedLoad
      <4>2. QED BY <1>8, <3>4, <3>5, <4>1, Zenon DEF In
    <3>7. hkI[SetOf(l)].fresh
      <4>1. \A p \in PassedBy(hkLoop) : hkI[SetOf(p)].fresh
        BY <3>1, <3>2, Zenon DEF HkInv, PassedLoad
      <4>2. SetOf(l) \in PassedBy(hkLoop) /\ SetOf(SetOf(l)) = SetOf(l)
        BY <1>3, <3>3, <3>5, Zenon
      <4>3. QED BY <4>1, <4>2, Zenon
    <3>8. QED BY <3>6, <3>7
  <2>7. BlockClean'
    <3>1. SUFFICES ASSUME hkBlock.to > 0, NEW l \in BlockLines PROVE ~In(hkD, l)
      BY <1>1, <2>1, Zenon DEF BlockClean, BlockLines, In, LinesOf
    <3>2. hkUse = "uncached"
      BY <3>1 DEF HkInv, BlockWhole
    <3>3. hkLoop.op = "malloc"
      BY <1>2, <3>2 DEF OpsOf
    <3>4. hkLoop.start = hkBlock.from /\ hkLoop.len = hkBlock.to - hkBlock.from
      BY <3>3 DEF HkInv, BlockClean
    <3>5. l \in LinesOf(hkLoop.start, hkLoop.len)
      BY <3>1, <3>4, Zenon DEF BlockLines
    <3>6. QED BY <1>7, <3>3, <3>5, Zenon
  <2>8. QED BY <1>4, <1>6, <1>9, <1>10, <2>3, <2>4, <2>5, <2>6, <2>7, Zenon DEF HkInv
<1>13. CASE hkLoop.then # <<>>
  <2>1. hkLoop' = [Head(hkLoop.then) EXCEPT !.then = Tail(hkLoop.then)]
        /\ hkLoop.then \in Seq(HkLater)
    BY <1>1, <1>2, <1>13 DEF HkLoops
  <2>2. hkUse = "load" /\ hkLoop.op \in {"copy", "flushd"}
    <3>1. hkLoop.op \in {"copy", "flushd"}
      BY <1>2, <1>13 DEF HkThen
    <3>2. QED BY <1>2, <1>5, <3>1 DEF OpsOf
  <2>3. /\ hkLoop' \in HkLoops /\ HkShape(hkLoop') /\ HkThen(hkLoop') /\ PassedBy(hkLoop') = {}
        /\ hkLoop'.op \in {"copy", "flushd", "flushi"}
        /\ hkLoop'.op # "copy" => hkLoop'.start = 0 /\ hkLoop'.len = Size
        /\ hkLoop'.op = "flushi" => hkLoop.op = "flushd"
    <3>1. CASE hkLoop.op = "copy"
      <4>1. Plan(hkLoop.then)
        BY <1>2, <3>1 DEF HkThen
      <4>2. QED BY <2>1, <4>1, PlanRuns
    <3>2. CASE hkLoop.op = "flushd"
      <4>1. hkLoop.then = <<alt_icache_flush_all>>
        BY <1>2, <3>2 DEF HkThen
      <4>2. Head(hkLoop.then) = alt_icache_flush_all /\ Tail(hkLoop.then) = <<>>
        BY <4>1
      <4>3. hkLoop' = [op |-> "flushi", start |-> 0, len |-> Size, at |-> 0, end |-> 0 + Size, then |-> <<>>]
        <5>1. Head(hkLoop.then) = [op |-> "flushi", start |-> 0, len |-> Size, at |-> 0,
                                   end |-> 0 + Size, then |-> <<>>]
          BY <4>2, FlushAllIs, Zenon
        <5>2. hkLoop' = [Head(hkLoop.then) EXCEPT !.then = <<>>]
          BY <2>1, <4>2, Zenon
        <5>3. hkLoop' = [[op |-> "flushi", start |-> 0, len |-> Size, at |-> 0, end |-> 0 + Size,
                          then |-> <<>>] EXCEPT !.then = <<>>]
          BY <5>1, <5>2, Zenon
        <5>4. QED BY ONLY <5>3
      <4>4. hkLoop' \in HkLoops /\ HkShape(hkLoop') /\ PassedBy(hkLoop') = {}
        <5>1. Size \in Nat /\ 0 \in Nat /\ "flushi" \in HkOps /\ <<>> \in Seq(HkLater)
          BY HkConstants DEF HkOps
        <5>2. Size = IF "flushi" = "flushi" /\ Size > Size THEN Size ELSE Size
          OBVIOUS
        <5>3. "flushi" = "copy" => 0 % HkLine = 0 /\ 0 + Size <= HkLines * HkLine
          OBVIOUS
        <5>4. QED BY ONLY <4>3, <5>1, <5>2, <5>3, Begins
      <4>5. /\ hkLoop'.op = "flushi" /\ hkLoop'.then = <<>>
            /\ hkLoop'.start = 0 /\ hkLoop'.len = Size
        BY <4>3
      <4>6. QED BY <3>2, <4>4, <4>5, Zenon DEF HkThen
    <3>3. QED BY <2>2, <3>1, <3>2
  <2>4. HkTypes'
    BY <1>1, <1>5, <2>3 DEF HkTypes
  <2>5. HkRuns' /\ HkRests'
    <3>1. HkShape(hkLoop)' /\ HkThen(hkLoop)' /\ WholeCache(hkLoop)'
      <4>1. HkShape(hkLoop)' /\ HkThen(hkLoop)'
        BY <2>3, Zenon DEF HkShape, HkThen, Clipped, Plan
      <4>2. WholeCache(hkLoop)'
        BY <2>3 DEF WholeCache
      <4>3. QED BY <4>1, <4>2
    <3>2. (hkLoop.op \in OpsOf(hkUse))' /\ hkLoop'.op # "none"
      BY <1>1, <2>2, <2>3 DEF OpsOf
    <3>3. QED BY <3>1, <3>2, Zenon DEF HkRuns, HkRests
  <2>6. PassedBy(hkLoop)' = {}
    BY <2>3, Zenon DEF PassedBy
  <2>7. PassedData' /\ PassedCode'
    BY <1>1, <2>2, <2>3 DEF PassedData, PassedCode
  <2>8. PassedLoad'
    <3>1. SUFFICES ASSUME hkLoop'.op = "flushi" PROVE \A s \in CacheSets : hkD[s].line = -1
      BY <1>1, <2>6, Zenon DEF PassedLoad
    <3>2. hkLoop.op = "flushd" /\ hkLoop.start = 0 /\ hkLoop.len = Size
      BY <1>2, <2>3, <3>1 DEF WholeCache
    <3>3. \A p \in PassedBy(hkLoop) : hkD[SetOf(p)].line = -1
      BY <3>2, Zenon DEF HkInv, PassedLoad
    <3>4. QED BY <1>3, <3>2, <3>3, Zenon
  <2>9. HkThrown'
    BY <1>11, <2>3 DEF HkThrown
  <2>10. HkLoadSeen'
    BY <2>3 DEF HkLoadSeen, NoLoop
  <2>11. BlockClean'
    BY <1>1, <2>3 DEF BlockClean
  <2>12. QED BY <1>4, <1>6, <1>9, <1>10, <2>4, <2>5, <2>7, <2>8, <2>9, <2>10, <2>11, Zenon DEF HkInv
<1>14. QED BY <1>12, <1>13

\* A loop that is called starts with nothing passed, from a rest.
LEMMA Called ==
  ASSUME HkInv, NEW L, Call(L), L \in HkLoops, HkShape(L), PassedBy(L) = {}, L.op \in HkOps,
         HkThen(L), L.op \in OpsOf(hkUse), WholeCache(L), hkUse' = hkUse,
         hkBlock' \in [from : Nat, to : Nat], HkMemory', BlockWhole',
         L.op # "flushi" \/ hkUse # "load",
         L.op = "malloc" => hkBlock'.to > 0 /\ L.start = hkBlock'.from
                                            /\ L.len = hkBlock'.to - hkBlock'.from,
         hkUse # "code" \/ hkD' = hkD
  PROVE  HkInv'
<1>1. hkLoop = NoLoop /\ hkLoop' = L /\ hkDone' = NoLoop /\ hkLost' = {}
  BY DEF Call
<1>2. HkTypes'
  <2>1. hkUse \in {"data", "code", "load", "uncached"}
    BY DEF HkInv, HkTypes
  <2>2. QED BY <1>1, <2>1 DEF HkTypes
<1>3. L.op # "none"
  BY DEF HkOps
<1>4. HkRuns' /\ HkRests'
  <2>1. HkShape(hkLoop)' /\ HkThen(hkLoop)' /\ WholeCache(hkLoop)' /\ (hkLoop.op \in OpsOf(hkUse))'
    BY <1>1, Zenon DEF HkShape, HkThen, Clipped, Plan, WholeCache, OpsOf
  <2>2. QED BY <1>1, <1>3, <2>1, Zenon DEF HkRuns, HkRests
<1>5. PassedBy(hkLoop)' = {}
  BY <1>1, Zenon DEF PassedBy
<1>6. PassedData' /\ PassedCode'
  BY <1>5, Zenon DEF PassedData, PassedCode
<1>7. PassedLoad'
  BY <1>1, <1>5, Zenon DEF PassedLoad
<1>8. DataUnused'
  BY Zenon DEF HkInv, DataUnused
<1>9. HkThrown' /\ HkWritten' /\ HkCodeSeen' /\ HkLoadSeen'
  <2>1. HkThrown'
    BY <1>1 DEF HkThrown, NoLoop
  <2>2. QED BY <1>1, <2>1, NothingDone
<1>10. BlockClean'
  BY <1>1, <1>3, Zenon DEF BlockClean
<1>11. QED BY <1>2, <1>4, <1>6, <1>7, <1>8, <1>9, <1>10, Zenon DEF HkInv

LEMMA SameMemory ==
  ASSUME HkInv, UNCHANGED <<hkMem, hkD, hkI>>
  PROVE  HkMemory'
BY Zenon DEF HkInv, HkMemory, Homes, Coherent, In

\* What a call of a flush is.
LEMMA RegionIs ==
  ASSUME NEW op \in HkOps, op # "copy", NEW start \in Nat, NEW len \in Nat, NEW clipped \in Nat,
         clipped = IF op = "flushi" /\ len > Size THEN Size ELSE len,
         NEW L, L = Region(op, start, len, clipped)
  PROVE  /\ L \in HkLoops /\ HkShape(L) /\ PassedBy(L) = {}
         /\ L.op = op /\ L.then = <<>> /\ L.start = start /\ L.len = len
<1>1. L = [op |-> op, start |-> start, len |-> len, at |-> start, end |-> start + clipped, then |-> <<>>]
  BY Zenon DEF Region
<1>2. <<>> \in Seq(HkLater)
  OBVIOUS
<1>3. L \in HkLoops /\ HkShape(L) /\ PassedBy(L) = {}
  BY ONLY <1>1, <1>2, Begins, op \in HkOps, op # "copy", start \in Nat, len \in Nat, clipped \in Nat,
     clipped = IF op = "flushi" /\ len > Size THEN Size ELSE len
<1>4. QED BY <1>1, <1>3

LEMMA FlushStep ==
  ASSUME HkInv, Flush
  PROVE  HkInv'
<1>1. /\ UNCHANGED <<hkUse, hkMem, hkD, hkI, hkBlock>>
      /\ HkLengths \subseteq Nat /\ HkLine \in Nat \ {0} /\ Size \in Nat
  BY HkAssumption, HkConstants DEF Flush
<1>2. PICK start \in 0 .. HkLine, len \in HkLengths :
              \/ hkUse = "data" /\ Call(alt_dcache_flush(start, len))
              \/ hkUse = "data" /\ Call(alt_dcache_flush_no_writeback(start, len))
              \/ hkUse = "code" /\ Call(alt_icache_flush(start, len))
  BY DEF Flush
<1>3. start \in Nat /\ len \in Nat
  BY <1>1
<1>4. PICK op \in {"flushda", "initda", "flushi"}, clipped \in Nat :
        /\ clipped = IF op = "flushi" /\ len > Size THEN Size ELSE len
        /\ hkUse = IF op = "flushi" THEN "code" ELSE "data"
        /\ Call(Region(op, start, len, clipped))
  <2>1. CASE hkUse = "data" /\ Call(alt_dcache_flush(start, len))
    BY <1>3, <2>1 DEF alt_dcache_flush
  <2>2. CASE hkUse = "data" /\ Call(alt_dcache_flush_no_writeback(start, len))
    BY <1>3, <2>2 DEF alt_dcache_flush_no_writeback
  <2>3. CASE hkUse = "code" /\ Call(alt_icache_flush(start, len))
    <3>1. (IF len > Size THEN Size ELSE len) \in Nat
      BY <1>1, <1>3
    <3>2. QED BY <2>3, <3>1 DEF alt_icache_flush
  <2>4. QED BY <1>2, <2>1, <2>2, <2>3, Zenon
<1>5. PICK L : L = Region(op, start, len, clipped)
  OBVIOUS
<1>6. op \in HkOps /\ op # "copy" /\ op # "flushd" /\ op # "malloc"
  BY DEF HkOps
<1>7. /\ L \in HkLoops /\ HkShape(L) /\ PassedBy(L) = {}
      /\ L.op = op /\ L.then = <<>> /\ L.start = start /\ L.len = len
  <2>1. clipped = IF op = "flushi" /\ len > Size THEN Size ELSE len
    BY <1>4
  <2>2. QED BY ONLY <1>3, <1>5, <1>6, <2>1, clipped \in Nat, RegionIs
<1>8. HkThen(L) /\ L.op \in OpsOf(hkUse) /\ WholeCache(L) /\ hkUse # "load"
  BY <1>4, <1>6, <1>7 DEF HkThen, OpsOf, WholeCache
<1>9. hkBlock' \in [from : Nat, to : Nat] /\ BlockWhole'
  BY <1>1, Zenon DEF HkInv, HkTypes, BlockWhole
<1>10. HkMemory'
  BY <1>1, SameMemory
<1>11. Call(L)
  BY <1>4, <1>5, Zenon
<1>12. QED BY <1>1, <1>6, <1>7, <1>8, <1>9, <1>10, <1>11, Called, Zenon

LEMMA EccStep ==
  ASSUME HkInv, alt_ecc_fatal_exception_register
  PROVE  HkInv'
<1> DEFINE R == alt_dcache_flush(0, 1)
           M == [R EXCEPT !.op = "ecc"]
<1>1. /\ hkUse = "data" /\ Call(M) /\ Stores(0) /\ UNCHANGED <<hkUse, hkBlock>>
  BY DEF alt_ecc_fatal_exception_register
<1>2. M = Region("ecc", 0, 1, 1)
  BY DEF alt_dcache_flush, Region
<1>3. "ecc" \in HkOps /\ 0 \in MemLines
  BY HkConstants, HkAssumption DEF HkOps, MemLines
<1>4. PICK L : L = M
  OBVIOUS
<1> HIDE DEF M
<1>5. /\ L \in HkLoops /\ HkShape(L) /\ PassedBy(L) = {}
      /\ L.op = "ecc" /\ L.then = <<>> /\ L.start = 0 /\ L.len = 1
  BY <1>2, <1>3, <1>4, RegionIs
<1>6. HkThen(L) /\ L.op \in OpsOf(hkUse) /\ WholeCache(L)
  BY <1>1, <1>5 DEF HkThen, OpsOf, WholeCache
<1>7. hkBlock' \in [from : Nat, to : Nat] /\ BlockWhole'
  BY <1>1, Zenon DEF HkInv, HkTypes, BlockWhole
<1>8. HkMemory'
  BY <1>1, <1>3, StoresKeep, Zenon DEF HkInv
<1>9. QED
  <2>1. Call(L) /\ hkUse' = hkUse /\ hkUse # "code" /\ L.op # "malloc" /\ L.op # "flushi"
        /\ L.op \in HkOps
    BY <1>1, <1>3, <1>4, <1>5
  <2>2. /\ hkMem' = Displace(0) \ {0} /\ hkI' = StaleIn(hkI, 0)
    BY <1>1 DEF Stores
  <2>3. QED BY <1>5, <1>6, <1>7, <1>8, <2>1, Called, Zenon

LEMMA LoadStep ==
  ASSUME HkInv, Load
  PROVE  HkInv'
<1>1. /\ hkUse = "load" /\ Call([Head(alt_load) EXCEPT !.then = Tail(alt_load)])
      /\ UNCHANGED <<hkUse, hkMem, hkD, hkI, hkBlock>>
  BY DEF Load
<1>2. PICK L : L = [Head(alt_load) EXCEPT !.then = Tail(alt_load)]
  OBVIOUS
<1>3. /\ L \in HkLoops /\ HkShape(L) /\ HkThen(L) /\ PassedBy(L) = {}
      /\ L.op \in {"copy", "flushd"} /\ (L.op = "flushd" => L.start = 0 /\ L.len = Size)
  BY ONLY <1>2, LoadPlan, PlanRuns
<1>4. L.op \in OpsOf(hkUse) /\ L.op \in HkOps /\ L.op # "flushi" /\ L.op # "malloc"
  BY <1>1, <1>3 DEF OpsOf, HkOps
<1>5. WholeCache(L)
  BY <1>3, <1>4, Zenon DEF WholeCache
<1>6. hkBlock' \in [from : Nat, to : Nat] /\ BlockWhole'
  BY <1>1, Zenon DEF HkInv, HkTypes, BlockWhole
<1>7. HkMemory'
  BY <1>1, SameMemory
<1>8. Call(L) /\ hkUse' = hkUse /\ hkD' = hkD
  BY <1>1, <1>2, Zenon
<1>9. QED BY <1>3, <1>4, <1>5, <1>6, <1>7, <1>8, Called, Zenon

LEMMA RoundedIs ==
  ASSUME NEW size \in Nat \ {0}
  PROVE  /\ Rounded(size) \in Nat /\ Rounded(size) > 0
         /\ \E k \in Nat : Rounded(size) = k * HkLine
<1>1. HkLine \in Nat \ {0}
  BY HkConstants
<1>2. PICK k \in Nat : k = (size + HkLine - 1) \div HkLine /\ size <= k * HkLine
  BY <1>1, Rounds
<1>3. Rounded(size) = k * HkLine /\ k * HkLine \in Nat
  BY <1>1, <1>2 DEF Rounded
<1>4. QED BY <1>2, <1>3

LEMMA MallocStep ==
  ASSUME HkInv, alt_uncached_malloc
  PROVE  HkInv'
<1>1. /\ hkUse = "uncached" /\ UNCHANGED <<hkUse, hkMem, hkD, hkI>>
      /\ HkLengths \subseteq Nat /\ HkLine \in Nat \ {0} /\ HkLines \in Nat /\ Size \in Nat
  BY HkAssumption, HkConstants DEF alt_uncached_malloc
<1>2. PICK n \in 0 .. HkLines - 1, size \in HkLengths \ {0} :
       /\ n * HkLine + Rounded(size) <= HkLines * HkLine
       /\ hkBlock' = [from |-> n * HkLine, to |-> n * HkLine + Rounded(size)]
       /\ Call([alt_dcache_flush(n * HkLine, Rounded(size)) EXCEPT !.op = "malloc"])
  BY DEF alt_uncached_malloc
<1>3. PICK len, k \in Nat : len = Rounded(size) /\ len > 0 /\ len = k * HkLine
  <2>1. size \in Nat \ {0}
    BY <1>1
  <2>2. QED BY <2>1, RoundedIs
<1>4. PICK start \in Nat : start = n * HkLine
  <2>1. n \in Nat
    BY <1>1
  <2>2. n * HkLine \in Nat
    BY <1>1, <2>1
  <2>3. QED BY <2>2
<1>5. PICK L : L = [alt_dcache_flush(start, len) EXCEPT !.op = "malloc"]
  OBVIOUS
<1>6. L = Region("malloc", start, len, len)
  BY <1>5 DEF alt_dcache_flush, Region
<1>7. "malloc" \in HkOps
  BY DEF HkOps
<1>8. /\ L \in HkLoops /\ HkShape(L) /\ PassedBy(L) = {}
      /\ L.op = "malloc" /\ L.then = <<>> /\ L.start = start /\ L.len = len
  BY <1>3, <1>4, <1>6, <1>7, RegionIs
<1>9. HkThen(L) /\ L.op \in OpsOf(hkUse) /\ WholeCache(L)
  BY <1>1, <1>8 DEF HkThen, OpsOf, WholeCache
<1>10. hkBlock' = [from |-> start, to |-> start + len]
  BY <1>2, <1>3, <1>4, Zenon
<1>11. start % HkLine = 0 /\ (start + len) % HkLine = 0 /\ start + len <= HkLines * HkLine
  <2>1. n \in Nat /\ n + k \in Nat
    BY <1>1, <1>3
  <2>2. start + len = (n + k) * HkLine
    BY <1>1, <1>3, <1>4, <2>1
  <2>3. (n * HkLine) % HkLine = 0 /\ ((n + k) * HkLine) % HkLine = 0
    BY <2>1, LineFacts, Zenon
  <2>4. start % HkLine = 0 /\ (start + len) % HkLine = 0
    BY <1>4, <2>2, <2>3, Zenon
  <2>5. start + len <= HkLines * HkLine
    BY <1>2, <1>3, <1>4, Zenon
  <2>6. QED BY <2>4, <2>5
<1>12. hkBlock' \in [from : Nat, to : Nat] /\ hkBlock'.from = start /\ hkBlock'.to = start + len
       /\ start + len > 0 /\ start < start + len
  BY <1>3, <1>10
<1>13. BlockWhole'
  <2>1. hkBlock'.to # 0
    BY <1>12
  <2>2. hkUse' = "uncached"
    BY <1>1
  <2>3. QED BY <1>11, <1>12, <2>1, <2>2, Zenon DEF BlockWhole
<1>14. HkMemory'
  BY <1>1, SameMemory
<1>15. Call(L)
  BY <1>2, <1>3, <1>4, <1>5, Zenon
<1>16. hkBlock'.to > 0 /\ L.start = hkBlock'.from /\ L.len = hkBlock'.to - hkBlock'.from
  BY <1>8, <1>12
<1>17. hkUse' = hkUse /\ hkUse # "load" /\ hkUse # "code" /\ L.op \in HkOps
  BY <1>1, <1>7, <1>8
<1>18. QED BY <1>8, <1>9, <1>12, <1>13, <1>14, <1>15, <1>16, <1>17, Called, Zenon

LEMMA FreeStep ==
  ASSUME HkInv, alt_uncached_free
  PROVE  HkInv'
<1>1. /\ hkLoop = NoLoop /\ hkBlock' = [from |-> 0, to |-> 0] /\ hkDone' = NoLoop
      /\ UNCHANGED <<hkUse, hkMem, hkD, hkI, hkLoop, hkLost>>
  BY DEF alt_uncached_free
<1>2. HkTypes'
  BY <1>1 DEF HkInv, HkTypes
<1>3. HkMemory'
  BY <1>1, SameMemory
<1>4. HkRuns' /\ HkRests' /\ PassedData' /\ PassedCode' /\ PassedLoad'
  BY <1>1 DEF HkRuns, HkRests, PassedData, PassedCode, PassedLoad, NoLoop
<1>5. DataUnused'
  BY <1>1, Zenon DEF HkInv, DataUnused
<1>6. BlockWhole' /\ BlockClean'
  BY <1>1 DEF BlockWhole, BlockClean, NoLoop
<1>7. HkThrown'
  BY <1>1 DEF HkThrown, NoLoop
<1>8. HkWritten' /\ HkCodeSeen' /\ HkLoadSeen'
  BY <1>1, NothingDone
<1>9. QED BY <1>2, <1>3, <1>4, <1>5, <1>6, <1>7, <1>8, Zenon DEF HkInv

LEMMA InitHkInv == HkInit => HkInv
<1> SUFFICES ASSUME HkInit PROVE HkInv
  OBVIOUS
<1>1. /\ hkUse \in {"data", "code", "load", "uncached"} /\ hkMem = 0 .. HkLines - 1
      /\ hkD = [s \in 0 .. HkSets - 1 |-> Empty] /\ hkI = hkD
      /\ hkLoop = NoLoop /\ hkDone = NoLoop /\ hkLost = {}
      /\ hkBlock = [from |-> 0, to |-> 0]
  BY DEF HkInit
<1>2. hkD \in [CacheSets -> CacheLines] /\ \A s \in CacheSets : hkD[s] = Empty
  BY <1>1, EmptyIs, Zenon DEF CacheSets
<1>3. Homes(hkD) /\ Homes(hkI)
  BY <1>1, <1>2, EmptyIs, Zenon DEF Homes
<1>4. Coherent
  BY <1>1, <1>2, EmptyIs, Zenon DEF Coherent, MemLines
<1>5. HkMemory
  BY <1>1, <1>2, <1>3, <1>4, Zenon DEF HkMemory, MemLines
<1>6. HkTypes
  <2>1. <<>> \in Seq(HkLater)
    OBVIOUS
  <2>2. hkLoop \in HkLoops
    BY <1>1, <2>1 DEF NoLoop, HkLoops
  <2>3. QED BY <1>1, <2>2 DEF HkTypes
<1>7. HkRuns /\ HkRests /\ PassedData /\ PassedCode /\ PassedLoad
  BY <1>1 DEF HkRuns, HkRests, PassedData, PassedCode, PassedLoad, NoLoop
<1>8. DataUnused
  BY <1>2, EmptyIs, Zenon DEF DataUnused
<1>9. BlockWhole /\ BlockClean
  BY <1>1 DEF BlockWhole, BlockClean, NoLoop
<1>10. HkThrown
  BY <1>1 DEF HkThrown, NoLoop
<1>11. HkWritten /\ HkCodeSeen /\ HkLoadSeen
  BY <1>1 DEF HkWritten, HkCodeSeen, HkLoadSeen, NoLoop
<1>12. QED BY <1>5, <1>6, <1>7, <1>8, <1>9, <1>10, <1>11, Zenon DEF HkInv

LEMMA StepHkInv == HkInv /\ [HkNext]_hkVars => HkInv'
<1> SUFFICES ASSUME HkInv, [HkNext]_hkVars PROVE HkInv'
  OBVIOUS
<1>1. CASE UNCHANGED hkVars
  <2>1. UNCHANGED <<hkUse, hkMem, hkD, hkI, hkLoop, hkDone, hkLost, hkBlock>>
    BY <1>1 DEF hkVars
  <2>2. HkTypes'
    BY <2>1 DEF HkInv, HkTypes
  <2>3. HkMemory'
    BY <2>1, SameMemory
  <2>4. HkRuns' /\ HkRests' /\ DataUnused' /\ BlockWhole'
    BY <2>1, Zenon DEF HkInv, HkRuns, HkRests, HkShape, HkThen, WholeCache, Clipped, OpsOf, Plan,
       DataUnused, BlockWhole
  <2>5. PassedData' /\ PassedCode' /\ PassedLoad' /\ BlockClean'
    <3>1. PassedData'
      BY <2>1, Zenon DEF HkInv, PassedData, PassedBy, LinesOf, In
    <3>2. PassedCode'
      BY <2>1, Zenon DEF HkInv, PassedCode, PassedBy, LinesOf, In
    <3>3. PassedLoad'
      BY <2>1, Zenon DEF HkInv, PassedLoad, PassedBy
    <3>4. BlockClean'
      BY <2>1, Zenon DEF HkInv, BlockClean, BlockLines, LinesOf, In
    <3>5. QED BY <3>1, <3>2, <3>3, <3>4
  <2>6. HkThrown' /\ HkWritten' /\ HkCodeSeen' /\ HkLoadSeen'
    BY <2>1, Zenon DEF HkInv, HkThrown, HkWritten, HkCodeSeen, HkLoadSeen, Region_, LinesOf, In
  <2>7. QED BY <2>2, <2>3, <2>4, <2>5, <2>6, Zenon DEF HkInv
<1>2. CASE HkNext
  <2>1. (\E line \in MemLines : Access(line)) => HkInv'
    BY AccessStep
  <2>2. Iterate => HkInv'
    BY IterateStep
  <2>3. Return => HkInv'
    BY ReturnStep
  <2>4. Flush => HkInv'
    BY FlushStep
  <2>5. alt_ecc_fatal_exception_register => HkInv'
    BY EccStep
  <2>6. Load => HkInv'
    BY LoadStep
  <2>7. alt_uncached_malloc => HkInv'
    BY MallocStep
  <2>8. alt_uncached_free => HkInv'
    BY FreeStep
  <2>9. QED BY <1>2, <2>1, <2>2, <2>3, <2>4, <2>5, <2>6, <2>7, <2>8, Zenon DEF HkNext, MemLines
<1>3. QED BY <1>1, <1>2

LEMMA HkInvSafe == HkInv => HkSafe
<1> SUFFICES ASSUME HkInv PROVE HkSafe
  OBVIOUS
<1>1. HkMemory /\ HkTypes /\ hkLoop \in HkLoops
  BY DEF HkInv, HkTypes
<1>2. HkTypeInv
  <2>1. hkMem \subseteq 0 .. HkLines - 1 /\ hkLost \subseteq 0 .. HkLines - 1
    BY <1>1 DEF HkMemory, HkTypes, MemLines
  <2>2. DOMAIN hkD = CacheSets
    BY <1>1 DEF HkMemory
  <2>3. ASSUME NEW c \in {hkD, hkI}, NEW s \in CacheSets
        PROVE  c[s].line \in {-1} \cup {l \in 0 .. HkLines - 1 : SetOf(l) = s}
    <3>1. c \in [CacheSets -> CacheLines] /\ Homes(c)
      BY <1>1, <2>3 DEF HkMemory
    <3>2. c[s].line \in {-1} \cup MemLines
      BY <3>1 DEF CacheLines
    <3>3. c[s].line = -1 \/ SetOf(c[s].line) = s
      BY <3>1 DEF Homes
    <3>4. QED BY <3>2, <3>3, Zenon DEF MemLines
  <2>4. hkLoop.at <= hkLoop.end + 2 * HkLine
    <3>1. CASE hkLoop.op = "none"
      <4>1. hkLoop.at = 0 /\ hkLoop.end = 0
        BY <3>1 DEF HkInv, HkRests, NoLoop
      <4>2. QED BY <4>1, HkConstants
    <3>2. CASE hkLoop.op # "none"
      BY <3>2 DEF HkInv, HkRuns, HkShape
    <3>3. QED BY <3>1, <3>2
  <2>5. QED BY <2>1, <2>2, <2>3, <2>4, Zenon DEF HkTypeInv
<1>3. HkBlockKept
  <2>1. SUFFICES ASSUME hkBlock.to > 0, hkLoop = NoLoop, NEW l \in BlockLines
                 PROVE  l \in hkMem /\ ~Dirty(l)
    BY Zenon DEF HkBlockKept
  <2>2. ~In(hkD, l)
    <3>1. hkLoop.op = "none"
      BY <2>1 DEF NoLoop
    <3>2. QED BY <2>1, <3>1, Zenon DEF HkInv, BlockClean
  <2>3. l \in MemLines
    <3>1. /\ hkBlock.from \in Nat /\ hkBlock.to \in Nat /\ HkLine \in Nat \ {0} /\ HkLines \in Nat
          /\ hkBlock.to <= HkLines * HkLine
      BY <1>1, <2>1, HkConstants DEF HkTypes, HkInv, BlockWhole
    <3>2. l \in LineOf(hkBlock.from) .. LineOf(hkBlock.from + (hkBlock.to - hkBlock.from) - 1)
      BY <2>1 DEF BlockLines, LinesOf
    <3>3. PICK last \in Nat : /\ last = hkBlock.from + (hkBlock.to - hkBlock.from) - 1
                              /\ last + 1 = hkBlock.to
      BY <2>1, <3>1
    <3>4. LineOf(hkBlock.from) \in Nat /\ LineOf(last) \in Nat
      BY <3>1, LineFacts, Zenon
    <3>5. last = HkLine * LineOf(last) + (last % HkLine) /\ last % HkLine \in 0 .. HkLine - 1
      <4>1. last \in Int
        OBVIOUS
      <4>2. QED BY <3>1, <4>1, DivMod, Zenon DEF LineOf
    <3>6. HkLines <= LineOf(last) => HkLine * HkLines <= HkLine * LineOf(last)
      BY <3>1, <3>4, Monotone
    <3>7. HkLine * HkLines = HkLines * HkLine /\ HkLines * HkLine \in Nat /\ HkLine * LineOf(last) \in Nat
      BY <3>1, <3>4
    <3>8. LineOf(last) < HkLines
      BY <3>1, <3>3, <3>4, <3>5, <3>6, <3>7
    <3>9. l \in LineOf(hkBlock.from) .. LineOf(last)
      BY <3>2, <3>3, Zenon
    <3>10. QED BY <3>1, <3>4, <3>8, <3>9 DEF MemLines
  <2>4. QED BY <1>1, <2>2, <2>3, Zenon DEF HkMemory, Coherent, Dirty
<1>4. QED BY <1>2, <1>3, Zenon DEF HkInv, HkSafe

(***************************************************************************)
(* The life of a program.  Until main() is called what is left to do is a  *)
(* rest of alt_main; the lists are named by their index, so that "before"  *)
(* is a matter of numbers.                                                 *)
(***************************************************************************)
HsIx == 1 .. Len(HsLists)
Ctor == [i \in HsIx |-> HsLists[i].ctor]
Dtor == [i \in HsIx |-> HsLists[i].dtor]
Static == [i \in HsIx |-> HsLists[i].static]
Ctors == {Ctor[i] : i \in HsIx}
Dtors == {Dtor[i] : i \in HsIx}
Statics == {Static[i] : i \in HsIx}
Words == HsSteps \cup Ctors \cup Dtors \cup Statics
Occurs(step, steps) == \E k \in 1 .. Len(steps) : steps[k] = step
Needs(b) == {"irq_init", "os_init", "sem_create", "sys_init"} \cup (IF b.direct THEN {} ELSE {"redirect"})
BootSteps == {"log", "irq_init", "os_init", "sem_create", "sys_init", "redirect", "atexit", "main"}
EndSteps == {"close", "exitprocs", "log", "os_stop", "halt", "spin", "return", "break"}
Cleans(b) == b.cpp /\ b.clean /\ b.exits

\* The steps named by the list come in the order of falling indices, each once.
Falls(steps, name) ==
  \A k, l \in 1 .. Len(steps), i, j \in HsIx : k < l /\ steps[k] = name[i] /\ steps[l] = name[j] => j < i
FallsOver(a, b, name) ==
  \A k \in 1 .. Len(a), l \in 1 .. Len(b), i, j \in HsIx : a[k] = name[i] /\ b[l] = name[j] => j < i
Rises(steps, name) ==
  \A k, l \in 1 .. Len(steps), i, j \in HsIx : k < l /\ steps[k] = name[i] /\ steps[l] = name[j] => i < j

HsTypes == /\ hsBuild \in HsBuilds /\ hsHost \in BOOLEAN /\ hsRoom \in 0 .. HsFifo
           /\ hsChars \in 0 .. HsMessage - 1 /\ hsFault \in HsCauses \cup {NoFault}
           /\ hsTodo \in Seq(Words) /\ hsDone \in Seq(Words) /\ hsAtExit \in Seq(Words)
\* Before main() is called and after.
HsShape ==
  /\ ~Occurs("main", hsDone) =>
       /\ Len(hsTodo) > 0
       /\ \A k \in 1 .. Len(hsTodo) : /\ hsTodo[k] \in BootSteps \cup Ctors
                                      /\ hsTodo[k] = "main" <=> k = Len(hsTodo)
  /\ Occurs("main", hsDone) =>
       hsTodo = <<"main">> \/ \A k \in 1 .. Len(hsTodo) : hsTodo[k] \in EndSteps \cup Dtors
HsOrder == /\ Falls(hsDone, Ctor) /\ Falls(hsTodo, Ctor) /\ FallsOver(hsDone, hsTodo, Ctor)
           /\ Falls(hsDone, Dtor) /\ Falls(hsTodo, Dtor) /\ FallsOver(hsDone, hsTodo, Dtor)
\* What a constructor and main() need was set up or will be before them.
NeedsMet(done, todo, needs) ==
  /\ \A k \in 1 .. Len(done) : done[k] \in {"main"} \cup Ctors =>
       \A need \in needs : \E l \in 1 .. k - 1 : done[l] = need
  /\ \A k \in 1 .. Len(todo) : todo[k] \in {"main"} \cup Ctors =>
       \A need \in needs : Occurs(need, done) \/ \E l \in 1 .. k - 1 : todo[l] = need
HsNeeds == NeedsMet(hsDone, hsTodo, Needs(hsBuild))
HsCpp == \A i \in HsIx : Occurs(Ctor[i], hsDone) \/ Occurs(Ctor[i], hsTodo) <=> hsBuild.cpp
\* What exit() will call: static objects, the first constructed last; the
\* functions of __DTOR_LIST__; what main() registered.
HsPending ==
  /\ \A k \in 1 .. Len(hsAtExit) :
       /\ hsAtExit[k] \in Statics \cup {"dtors", "own"}
       /\ hsAtExit[k] = "own" => k = Len(hsAtExit) /\ Occurs("main", hsDone)
  /\ \A k, l \in 1 .. Len(hsAtExit) :
       /\ hsAtExit[k] \in Statics /\ hsAtExit[l] = "dtors" => k < l
       /\ hsAtExit[k] = "dtors" /\ hsAtExit[l] = "dtors" => k = l
  /\ Falls(hsAtExit, Static)
  /\ \A i \in HsIx : Occurs(Static[i], hsAtExit) \/ Occurs(Static[i], hsDone) => Occurs(Ctor[i], hsDone)
Sorted(steps) ==
  \A k, l \in 1 .. Len(steps) :
    /\ steps[k] \in Ctors /\ steps[l] = "atexit" => k < l
    /\ steps[k] = "atexit" /\ steps[l] = "atexit" => k = l
    /\ steps[k] \in Dtors /\ steps[l] = "exitprocs" => k < l
HsDtors ==
  /\ Sorted(hsTodo)
  /\ \A x \in Ctors \cup {"atexit"} : Occurs(x, hsTodo) => ~Occurs("dtors", hsAtExit)
  /\ Occurs("exitprocs", hsTodo) => hsBuild.clean
  /\ Occurs("dtors", hsAtExit) \/ Occurs("atexit", hsTodo) => Cleans(hsBuild)
  /\ Cleans(hsBuild) => \/ Occurs("dtors", hsAtExit) \/ Occurs("atexit", hsTodo)
                      \/ \A i \in HsIx : Occurs(Dtor[i], hsDone) \/ Occurs(Dtor[i], hsTodo)
  /\ \A i \in HsIx : Occurs(Dtor[i], hsDone) \/ Occurs(Dtor[i], hsTodo) =>
       Cleans(hsBuild) /\ Occurs("main", hsDone) /\ ~Occurs("dtors", hsAtExit)
\* The static objects that were destroyed.
HsDestroyed ==
  /\ Rises(hsDone, Static) /\ FallsOver(hsAtExit, hsDone, Static)
  /\ \A i \in HsIx : Occurs(Static[i], hsDone) =>
       Occurs("main", hsDone) /\ ~Occurs("main", hsTodo) /\ ~Occurs("own", hsAtExit)
  /\ \A k, l \in 1 .. Len(hsDone) : hsDone[k] = "own" /\ hsDone[l] \in Statics => k < l
  /\ hsBuild.exits => \A l \in 1 .. Len(hsDone), i \in HsIx : hsDone[l] = Static[i] =>
                        \E k \in 1 .. l - 1 : hsDone[k] = Dtor[i]
\* What the port took, and what main() needs it to take.
HsCount ==
  /\ ~hsHost /\ ~Occurs("main", hsDone) =>
       HsFifo - hsRoom + Messages(hsTodo) * HsMessage = Messages(alt_main(hsBuild)) * HsMessage + hsChars
  /\ Occurs("main", hsDone) => hsHost \/ Messages(alt_main(hsBuild)) * HsMessage <= HsFifo
  /\ hsChars # 0 => hsTodo # <<>> /\ Head(hsTodo) = "log"

HsInv == /\ HsTypes /\ HsShape /\ HsOrder /\ HsNeeds /\ HsCpp /\ HsPending /\ HsDtors /\ HsDestroyed
         /\ HsCount

\* The names of the lists are different from each other and from the steps'.
LEMMA HsNames ==
  /\ Len(HsLists) \in Nat
  /\ \A i \in HsIx : /\ Ctor[i] \in STRING /\ Dtor[i] \in STRING /\ Static[i] \in STRING
                     /\ Ctor[i] \notin HsSteps /\ Dtor[i] \notin HsSteps /\ Static[i] \notin HsSteps
  /\ \A i, j \in HsIx : /\ Ctor[i] # Dtor[j] /\ Ctor[i] # Static[j] /\ Dtor[i] # Static[j]
                        /\ Ctor[i] = Ctor[j] => i = j
                        /\ Dtor[i] = Dtor[j] => i = j
                        /\ Static[i] = Static[j] => i = j
<1>1. HsLists \in Seq([ctor : STRING, dtor : STRING, static : STRING])
  BY HsAssumption
<1>2. ASSUME NEW i \in HsIx
      PROVE  /\ HsLists[i]["ctor"] = Ctor[i] /\ HsLists[i]["dtor"] = Dtor[i]
             /\ HsLists[i]["static"] = Static[i]
             /\ Ctor[i] \in STRING /\ Dtor[i] \in STRING /\ Static[i] \in STRING
  <2>1. HsLists[i] \in [ctor : STRING, dtor : STRING, static : STRING]
    BY <1>1, ElementOfSeq DEF HsIx
  <2>2. QED BY <2>1 DEF Ctor, Dtor, Static
<1>3. ASSUME NEW i \in HsIx, NEW j \in HsIx, NEW x \in {"ctor", "dtor", "static"},
             NEW y \in {"ctor", "dtor", "static"}
      PROVE  HsLists[i][x] \notin HsSteps /\ (HsLists[i][x] = HsLists[j][y] => i = j /\ x = y)
  BY HsAssumption DEF HsIx
<1>4. Len(HsLists) \in Nat
  BY <1>1
<1>5. ASSUME NEW i \in HsIx
      PROVE  Ctor[i] \notin HsSteps /\ Dtor[i] \notin HsSteps /\ Static[i] \notin HsSteps
  BY <1>2, <1>3
<1>6. ASSUME NEW i \in HsIx, NEW j \in HsIx
      PROVE  /\ Ctor[i] # Dtor[j] /\ Ctor[i] # Static[j] /\ Dtor[i] # Static[j]
             /\ Ctor[i] = Ctor[j] => i = j
             /\ Dtor[i] = Dtor[j] => i = j
             /\ Static[i] = Static[j] => i = j
  <2>1. /\ HsLists[i]["ctor"] # HsLists[j]["dtor"] /\ HsLists[i]["ctor"] # HsLists[j]["static"]
        /\ HsLists[i]["dtor"] # HsLists[j]["static"]
        /\ HsLists[i]["ctor"] = HsLists[j]["ctor"] => i = j
        /\ HsLists[i]["dtor"] = HsLists[j]["dtor"] => i = j
        /\ HsLists[i]["static"] = HsLists[j]["static"] => i = j
    BY <1>3, "ctor" # "dtor", "ctor" # "static", "dtor" # "static"
  <2>2. QED BY <1>2, <2>1, Zenon
<1>7. QED BY <1>2, <1>4, <1>5, <1>6, Zenon

LEMMA DownwardsIs ==
  /\ _do_ctors \in Seq(Words) /\ Len(_do_ctors) = Len(HsLists)
  /\ \A k \in HsIx : _do_ctors[k] = Ctor[Len(HsLists) + 1 - k]
  /\ _do_dtors \in Seq(Words) /\ Len(_do_dtors) = Len(HsLists)
  /\ \A k \in HsIx : _do_dtors[k] = Dtor[Len(HsLists) + 1 - k]
<1> DEFINE n == Len(HsLists)
<1>1. n \in Nat
  BY HsNames
<1>2. ASSUME NEW field
      PROVE  Downwards(field) = [k \in 1 .. n |-> HsLists[n - k + 1][field]]
  <2>1. Len([i \in 1 .. n |-> HsLists[i][field]]) = n
    BY <1>1
  <2>2. \A k \in 1 .. n : n - k + 1 \in 1 .. n
    BY <1>1
  <2>3. QED BY <2>1, <2>2, Zenon DEF Downwards, Reverse
<1>3. \A k \in HsIx : /\ HsLists[n - k + 1]["ctor"] = Ctor[n + 1 - k]
                      /\ HsLists[n - k + 1]["dtor"] = Dtor[n + 1 - k]
                      /\ n + 1 - k \in HsIx
  <2> SUFFICES ASSUME NEW k \in HsIx
               PROVE  /\ HsLists[n - k + 1]["ctor"] = Ctor[n + 1 - k]
                      /\ HsLists[n - k + 1]["dtor"] = Dtor[n + 1 - k]
                      /\ n + 1 - k \in HsIx
    OBVIOUS
  <2>1. n - k + 1 = n + 1 - k /\ n + 1 - k \in HsIx
    BY <1>1 DEF HsIx
  <2>2. HsLists[n + 1 - k]["ctor"] = Ctor[n + 1 - k] /\ HsLists[n + 1 - k]["dtor"] = Dtor[n + 1 - k]
    BY <2>1, Zenon DEF Ctor, Dtor
  <2>3. QED BY <2>1, <2>2, Zenon
<1>4. /\ _do_ctors = [k \in 1 .. n |-> Ctor[n + 1 - k]]
      /\ _do_dtors = [k \in 1 .. n |-> Dtor[n + 1 - k]]
  BY <1>2, <1>3, Zenon DEF _do_ctors, _do_dtors, HsIx
<1>5. ASSUME NEW name \in {Ctor, Dtor}, NEW d, d = [k \in 1 .. n |-> name[n + 1 - k]]
      PROVE  d \in Seq(Words) /\ Len(d) = n /\ \A k \in HsIx : d[k] = name[n + 1 - k]
  <2>1. \A k \in 1 .. n : name[n + 1 - k] \in Words
    BY <1>3, <1>5, Zenon DEF HsIx, Words, Ctors, Dtors
  <2>2. d \in [1 .. n -> Words]
    BY <1>5, <2>1
  <2>3. QED BY <1>1, <1>5, <2>2 DEF HsIx
<1>6. _do_ctors \in Seq(Words) /\ Len(_do_ctors) = n /\ \A k \in HsIx : _do_ctors[k] = Ctor[n + 1 - k]
  BY <1>4, <1>5, Zenon
<1>7. _do_dtors \in Seq(Words) /\ Len(_do_dtors) = n /\ \A k \in HsIx : _do_dtors[k] = Dtor[n + 1 - k]
  BY <1>4, <1>5, Zenon
<1>8. QED BY <1>6, <1>7, Zenon

(***************************************************************************)
(* The order of steps that move from what is to do to what is done.        *)
(***************************************************************************)
LEMMA HeadTail ==
  ASSUME NEW S, NEW s \in Seq(S), s # <<>>
  PROVE  /\ Len(s) \in Nat \ {0} /\ Head(s) = s[1] /\ s[1] \in S
         /\ Tail(s) \in Seq(S) /\ Len(Tail(s)) = Len(s) - 1
         /\ \A k \in 1 .. Len(s) - 1 : Tail(s)[k] = s[k + 1]
BY EmptySeq, HeadTailProperties, ElementOfSeq

LEMMA AppendIs ==
  ASSUME NEW S, NEW s \in Seq(S), NEW e \in S, NEW t, t = Append(s, e)
  PROVE  /\ t \in Seq(S) /\ Len(s) \in Nat /\ Len(t) \in Nat /\ Len(t) = Len(s) + 1
         /\ \A k \in 1 .. Len(t) : t[k] = IF k <= Len(s) THEN s[k] ELSE e
BY AppendProperties

LEMMA FallsOn ==
  ASSUME NEW S, NEW name, NEW done \in Seq(S), NEW todo \in Seq(S), todo # <<>>,
         Falls(done, name), Falls(todo, name), FallsOver(done, todo, name),
         NEW d, d = Append(done, Head(todo)), NEW t, t = Tail(todo)
  PROVE  Falls(d, name) /\ Falls(t, name) /\ FallsOver(d, t, name)
<1>1. /\ Len(todo) \in Nat \ {0} /\ Head(todo) = todo[1] /\ todo[1] \in S /\ Len(t) = Len(todo) - 1
      /\ \A k \in 1 .. Len(t) : t[k] = todo[k + 1]
  BY HeadTail
<1>2. /\ Len(done) \in Nat /\ Len(d) \in Nat /\ Len(d) = Len(done) + 1
      /\ \A k \in 1 .. Len(d) : d[k] = IF k <= Len(done) THEN done[k] ELSE todo[1]
  BY <1>1, AppendIs
<1>3. Falls(t, name)
  BY <1>1 DEF Falls
<1>4. ASSUME NEW k \in 1 .. Len(d), NEW l \in 1 .. Len(d), NEW i \in HsIx, NEW j \in HsIx,
             k < l, d[k] = name[i], d[l] = name[j]
      PROVE  j < i
  <2>1. k \in 1 .. Len(done) /\ d[k] = done[k]
    BY <1>2, <1>4
  <2>2. CASE l \in 1 .. Len(done)
    <3>1. d[l] = done[l]
      BY <1>2, <2>2
    <3>2. QED BY <1>4, <2>1, <2>2, <3>1, Zenon DEF Falls
  <2>3. CASE l = Len(done) + 1
    <3>1. d[l] = todo[1] /\ 1 \in 1 .. Len(todo)
      BY <1>1, <1>2, <2>3
    <3>2. QED BY <1>4, <2>1, <3>1, Zenon DEF FallsOver
  <2>4. QED BY <1>2, <2>2, <2>3
<1>5. FallsOver(d, t, name)
  BY <1>1, <1>2 DEF Falls, FallsOver
<1>6. QED BY <1>3, <1>4, <1>5 DEF Falls

LEMMA FallsTail ==
  ASSUME NEW S, NEW name, NEW done \in Seq(S), NEW todo \in Seq(S), todo # <<>>,
         Falls(todo, name), FallsOver(done, todo, name)
  PROVE  Falls(Tail(todo), name) /\ FallsOver(done, Tail(todo), name)
BY HeadTail, SMTT(30), ZenonT(40) DEF Falls, FallsOver

\* A step of another name changes nothing.
LEMMA FallsElse ==
  ASSUME NEW S, NEW name, NEW done \in Seq(S), NEW todo, NEW s \in S,
         \A i \in HsIx : s # name[i],
         Falls(done, name), FallsOver(done, todo, name), NEW d, d = Append(done, s)
  PROVE  Falls(d, name) /\ FallsOver(d, todo, name)
<1>1. /\ Len(done) \in Nat /\ Len(d) \in Nat /\ Len(d) = Len(done) + 1
      /\ \A k \in 1 .. Len(d) : d[k] = IF k <= Len(done) THEN done[k] ELSE s
  BY AppendIs
<1>2. QED BY <1>1 DEF Falls, FallsOver

LEMMA FallsNone ==
  ASSUME NEW S, NEW name, NEW done, NEW todo, \A i \in HsIx : ~Occurs(name[i], todo)
  PROVE  Falls(todo, name) /\ FallsOver(done, todo, name)
BY DEF Falls, FallsOver, Occurs

LEMMA OccursOn ==
  ASSUME NEW S, NEW done \in Seq(S), NEW s \in S, NEW d, d = Append(done, s)
  PROVE  \A x : Occurs(x, d) <=> Occurs(x, done) \/ x = s
<1>1. /\ Len(done) \in Nat /\ Len(d) \in Nat /\ Len(d) = Len(done) + 1
      /\ \A k \in 1 .. Len(d) : d[k] = IF k <= Len(done) THEN done[k] ELSE s
  BY AppendIs
<1>2. ASSUME NEW x, Occurs(x, d)
      PROVE  Occurs(x, done) \/ x = s
  <2>1. PICK k \in 1 .. Len(d) : d[k] = x
    BY <1>2 DEF Occurs
  <2>2. k \in 1 .. Len(done) \/ d[k] = s
    BY <1>1, <2>1
  <2>3. d[k] = s \/ d[k] = done[k]
    BY <1>1, <2>1
  <2>4. QED BY <2>1, <2>2, <2>3, <1>1 DEF Occurs
<1>3. ASSUME NEW x, Occurs(x, done)
      PROVE  Occurs(x, d)
  <2>1. PICK k \in 1 .. Len(done) : done[k] = x
    BY <1>3 DEF Occurs
  <2>2. k \in 1 .. Len(d) /\ d[k] = x
    BY <1>1, <2>1
  <2>3. QED BY <2>2, Zenon DEF Occurs
<1>4. Occurs(s, d)
  <2>1. Len(d) \in 1 .. Len(d) /\ d[Len(d)] = s
    BY <1>1
  <2>2. QED BY <2>1, Zenon DEF Occurs
<1>5. QED BY <1>2, <1>3, <1>4

LEMMA OccursTail ==
  ASSUME NEW S, NEW todo \in Seq(S), todo # <<>>
  PROVE  /\ Occurs(Head(todo), todo)
         /\ \A x : Occurs(x, Tail(todo)) => Occurs(x, todo)
         /\ \A x : Occurs(x, todo) => x = Head(todo) \/ Occurs(x, Tail(todo))
<1>1. /\ Len(todo) \in Nat \ {0} /\ Head(todo) = todo[1] /\ Len(Tail(todo)) = Len(todo) - 1
      /\ \A k \in 1 .. Len(todo) - 1 : Tail(todo)[k] = todo[k + 1]
  BY HeadTail
<1>2. ASSUME NEW x, NEW k \in 1 .. Len(todo), todo[k] = x, x # Head(todo)
      PROVE  Occurs(x, Tail(todo))
  <2>1. k - 1 \in 1 .. Len(Tail(todo)) /\ Tail(todo)[k - 1] = todo[k]
    BY <1>1, <1>2
  <2>2. QED BY <1>2, <2>1 DEF Occurs
<1>3. QED BY <1>1, <1>2 DEF Occurs

LEMMA MessagesIs ==
  ASSUME NEW S, NEW s \in Seq(S)
  PROVE  /\ Messages(s) \in Nat
         /\ s # <<>> => Messages(s) = Messages(Tail(s)) + (IF Head(s) = "log" THEN 1 ELSE 0)
<1> DEFINE Logs(t) == {i \in 1 .. Len(t) : t[i] = "log"}
<1>1. ASSUME NEW t \in Seq(S)
      PROVE  IsFiniteSet(Logs(t)) /\ Messages(t) = Cardinality(Logs(t)) /\ Messages(t) \in Nat
  <2>1. Len(t) \in Nat
    OBVIOUS
  <2>2. IsFiniteSet(1 .. Len(t))
    BY <2>1, FS_Interval
  <2>3. Logs(t) \in SUBSET (1 .. Len(t))
    OBVIOUS
  <2>4. IsFiniteSet(Logs(t))
    BY <2>2, <2>3, FS_Subset, Zenon
  <2>5. Cardinality(Logs(t)) \in Nat
    BY <2>4, FS_CardinalityType, Zenon
  <2>6. QED BY <2>4, <2>5, Zenon DEF Messages
<1>2. ASSUME s # <<>>
      PROVE  Messages(s) = Messages(Tail(s)) + (IF Head(s) = "log" THEN 1 ELSE 0)
  <2>1. /\ Len(s) \in Nat \ {0} /\ Head(s) = s[1] /\ Tail(s) \in Seq(S) /\ Len(Tail(s)) = Len(s) - 1
        /\ \A k \in 1 .. Len(s) - 1 : Tail(s)[k] = s[k + 1]
    BY <1>2, HeadTail
  <2> DEFINE T == Logs(Tail(s))
             U == {i \in Logs(s) : i # 1}
             f == [i \in T |-> i + 1]
  <2>2. IsFiniteSet(T) /\ Messages(Tail(s)) = Cardinality(T) /\ Messages(Tail(s)) \in Nat
    BY <1>1, <2>1, Zenon
  <2>3. f \in Bijection(T, U)
    <3>1. \A i \in T : i \in Nat /\ f[i] = i + 1 /\ f[i] \in U
      BY <2>1
    <3>2. \A u \in U : \E i \in T : f[i] = u
      <4>1. ASSUME NEW u \in U
            PROVE  u - 1 \in T /\ f[u - 1] = u
        BY <2>1
      <4>2. QED BY <4>1, Zenon
    <3>3. f \in [T -> U]
      BY <3>1
    <3>4. \A a, b \in T : f[a] = f[b] => a = b
      BY <3>1
    <3> HIDE DEF T, U, f
    <3>5. QED BY <3>2, <3>3, <3>4 DEF Bijection, Injection, Surjection, IsInjective
  <2>4. ExistsBijection(T, U)
    BY <2>3, Zenon DEF ExistsBijection
  <2>5. IsFiniteSet(U) /\ Cardinality(U) = Cardinality(T)
    BY <2>2, <2>4, FS_Bijection, Zenon
  <2>6. /\ IsFiniteSet(U \cup {1})
        /\ Cardinality(U \cup {1}) = IF 1 \in U THEN Cardinality(U) ELSE Cardinality(U) + 1
    BY <2>5, FS_AddElement, Zenon
  <2>7. 1 \notin U
    OBVIOUS
  <2>8. Logs(s) = IF Head(s) = "log" THEN U \cup {1} ELSE U
    BY <2>1
  <2>9. Messages(s) = Cardinality(Logs(s))
    BY <1>1
  <2> HIDE DEF T, U, Logs
  <2>10. CASE Head(s) = "log"
    <3>1. Messages(s) = Cardinality(U) + 1
      BY <2>6, <2>7, <2>8, <2>9, <2>10, Zenon
    <3>2. QED BY <3>1, <2>2, <2>5, <2>10
  <2>11. CASE Head(s) # "log"
    <3>1. Messages(s) = Cardinality(U)
      BY <2>8, <2>9, <2>11, Zenon
    <3>2. QED BY <3>1, <2>2, <2>5, <2>11
  <2>12. QED BY <2>10, <2>11
<1>3. QED BY <1>1, <1>2

LEMMA NoMessages == Messages(<<"main">>) = 0
<1>1. {i \in 1 .. Len(<<"main">>) : <<"main">>[i] = "log"} = {}
  OBVIOUS
<1>2. QED BY <1>1, FS_EmptySet, Zenon DEF Messages

LEMMA AtIs ==
  ASSUME NEW s
  PROVE  \/ At(s) = 0 /\ ~Occurs(s, hsDone)
         \/ /\ At(s) \in 1 .. Len(hsDone) /\ hsDone[At(s)] = s
            /\ \A k \in 1 .. Len(hsDone) : hsDone[k] = s => At(s) <= k
<1> DEFINE I == {i \in 1 .. Len(hsDone) : hsDone[i] = s}
<1>1. At(s) = IF I # {} THEN Min(I) ELSE 0
  BY Zenon DEF At, SelectInSeq
<1>2. CASE I = {}
  <2>1. ~Occurs(s, hsDone)
    BY <1>2 DEF Occurs
  <2>2. QED BY <1>1, <1>2, <2>1
<1>3. CASE I # {}
  <2>1. I \subseteq Nat
    OBVIOUS
  <2>2. Min(I) \in I /\ \A y \in I : Min(I) <= y
    BY <1>3, <2>1, LeastIs, Zenon
  <2>3. QED BY <1>1, <1>3, <2>2
<1>4. QED BY <1>2, <1>3

(***************************************************************************)
(* alt_main: p steps that set up, then the constructors up to q, then the  *)
(* registration of the destructors up to r, then main().                   *)
(***************************************************************************)
LEMMA StepWords == HsSteps \subseteq Words /\ BootSteps \cup EndSteps \cup {"dtors", "own"} \subseteq Words
BY DEF Words, HsSteps, BootSteps, EndSteps

LEMMA Joined ==
  ASSUME NEW S, NEW a \in Seq(S), NEW b \in Seq(S), NEW c, c = a \o b, NEW p, p = Len(a), NEW q, q = Len(c)
  PROVE  /\ c \in Seq(S) /\ p \in Nat /\ q \in Nat /\ Len(b) \in Nat /\ q = p + Len(b)
         /\ \A i \in 1 .. q : c[i] = IF i <= p THEN a[i] ELSE b[i - p]
BY Appended

SetUp == {"log", "irq_init", "os_init", "sem_create", "sys_init", "redirect"}
Layout(m, b, p, q, r) ==
  /\ m \in Seq(Words) /\ Len(m) = r + 2 /\ p > 0 /\ m[1] = "log"
  /\ \A k \in 1 .. p : m[k] \in SetUp
  /\ \A need \in Needs(b) : \E k \in 1 .. p : m[k] = need
  /\ b.cpp => q = p + 1 + Len(HsLists) /\ m[p + 1] = "log"
              /\ \A k \in HsIx : m[p + 1 + k] = Ctor[Len(HsLists) + 1 - k]
  /\ ~b.cpp => q = p
  /\ Cleans(b) => r = q + 2 /\ m[q + 1] = "log" /\ m[q + 2] = "atexit"
  /\ ~Cleans(b) => r = q
  /\ m[r + 1] = "log" /\ m[r + 2] = "main"

LEMMA SetUpIs ==
  ASSUME NEW b
  PROVE  LET x == DriversFirst \o Redirect(b)
         IN  /\ x \in Seq(Words) /\ Len(x) \in Nat \ {0} /\ x[1] = "log"
             /\ \A k \in 1 .. Len(x) : x[k] \in SetUp
             /\ \A need \in Needs(b) : \E k \in 1 .. Len(x) : x[k] = need
<1> DEFINE x == DriversFirst \o Redirect(b)
<1>1. /\ DriversFirst \in Seq(Words) /\ Len(DriversFirst) = 9 /\ DriversFirst[1] = "log"
      /\ \A k \in 1 .. 9 : DriversFirst[k] \in SetUp
      /\ DriversFirst[2] = "irq_init" /\ DriversFirst[4] = "os_init" /\ DriversFirst[6] = "sem_create"
      /\ DriversFirst[8] = "sys_init"
  <2> DEFINE d == <<"log", "irq_init", "log", "os_init", "log", "sem_create", "log", "sys_init", "log">>
  <2>1. \A k \in 1 .. 9 : d[k] \in SetUp
    BY DEF SetUp
  <2>2. d \in Seq(Words) /\ Len(d) = 9
    BY StepWords DEF BootSteps
  <2>3. d[1] = "log" /\ d[2] = "irq_init" /\ d[4] = "os_init" /\ d[6] = "sem_create" /\ d[8] = "sys_init"
    OBVIOUS
  <2>4. QED BY <2>1, <2>2, <2>3, Zenon DEF DriversFirst
<1>2. Redirect(b) \in Seq(Words) /\ \A k \in 1 .. Len(Redirect(b)) : Redirect(b)[k] \in SetUp
  <2>1. CASE b.direct
    BY <2>1 DEF Redirect, Words
  <2>2. CASE ~b.direct
    <3>1. <<"log", "redirect">> \in Seq(Words) /\ \A k \in 1 .. Len(<<"log", "redirect">>) :
                                                  <<"log", "redirect">>[k] \in SetUp
      BY StepWords DEF BootSteps, SetUp
    <3>2. QED BY <2>2, <3>1, Zenon DEF Redirect
  <2>3. QED BY <2>1, <2>2
<1>3. ~b.direct => Len(Redirect(b)) = 2 /\ Redirect(b)[2] = "redirect"
  BY DEF Redirect
<1>4. /\ x \in Seq(Words) /\ Len(x) = 9 + Len(Redirect(b)) /\ Len(Redirect(b)) \in Nat
      /\ \A i \in 1 .. 9 + Len(Redirect(b)) :
           x[i] = IF i <= 9 THEN DriversFirst[i] ELSE Redirect(b)[i - 9]
  <2>1. PICK c : c = DriversFirst \o Redirect(b)
    OBVIOUS
  <2>2. /\ c \in Seq(Words) /\ Len(c) = 9 + Len(Redirect(b)) /\ Len(Redirect(b)) \in Nat
        /\ \A i \in 1 .. Len(c) : c[i] = IF i <= 9 THEN DriversFirst[i] ELSE Redirect(b)[i - 9]
    <3>1. /\ c \in Seq(Words) /\ Len(c) = Len(DriversFirst) + Len(Redirect(b)) /\ Len(Redirect(b)) \in Nat
          /\ \A i \in 1 .. Len(c) :
               c[i] = IF i <= Len(DriversFirst) THEN DriversFirst[i] ELSE Redirect(b)[i - Len(DriversFirst)]
      <4>1. DriversFirst \in Seq(Words) /\ Redirect(b) \in Seq(Words)
        BY <1>1, <1>2
      <4>2. QED BY ONLY <2>1, <4>1, Joined
    <3>2. QED BY <1>1, <3>1
  <2>3. QED BY <2>1, <2>2, Zenon
<1> HIDE DEF x
<1>5. x[1] = "log" /\ x[2] = "irq_init" /\ x[4] = "os_init" /\ x[6] = "sem_create" /\ x[8] = "sys_init"
  BY <1>1, <1>4
<1>6. \A k \in 1 .. Len(x) : x[k] \in SetUp
  <2>1. ASSUME NEW k \in 1 .. Len(x)
        PROVE  x[k] \in SetUp
    <3>1. CASE k <= 9
      <4>1. k \in 1 .. 9 /\ x[k] = DriversFirst[k]
        BY <1>4, <3>1
      <4>2. QED BY <1>1, <4>1
    <3>2. CASE ~(k <= 9)
      <4>1. k - 9 \in 1 .. Len(Redirect(b)) /\ x[k] = Redirect(b)[k - 9]
        BY <1>4, <3>2
      <4>2. QED BY <1>2, <4>1
    <3>3. QED BY <3>1, <3>2
  <2>2. QED BY <2>1
<1>7. ~b.direct => x[11] = "redirect" /\ 11 \in 1 .. Len(x)
  BY <1>3, <1>4
<1>8. {1, 2, 4, 6, 8} \subseteq 1 .. Len(x)
  BY <1>4
<1>9. \A need \in Needs(b) : \E k \in 1 .. Len(x) : x[k] = need
  <2>1. ASSUME NEW need \in Needs(b)
        PROVE  \E k \in 1 .. Len(x) : x[k] = need
    <3>1. need \in {"irq_init", "os_init", "sem_create", "sys_init"} \/ (~b.direct /\ need = "redirect")
      <4>1. CASE b.direct
        BY <2>1, <4>1 DEF Needs
      <4>2. CASE ~b.direct
        BY <2>1, <4>2 DEF Needs
      <4>3. QED BY <4>1, <4>2
    <3>2. QED BY <3>1, <1>5, <1>7, <1>8, Zenon
  <2>2. QED BY <2>1
<1>10. x \in Seq(Words) /\ Len(x) \in Nat \ {0}
  BY <1>4
<1>11. QED BY <1>5, <1>6, <1>9, <1>10, Zenon DEF x

LEMMA ConstructorsAre ==
  ASSUME NEW b
  PROVE  /\ Constructors(b) \in Seq(Words)
         /\ b.cpp => /\ Len(Constructors(b)) = 1 + Len(HsLists) /\ Constructors(b)[1] = "log"
                     /\ \A k \in HsIx : Constructors(b)[1 + k] = Ctor[Len(HsLists) + 1 - k]
         /\ ~b.cpp => Constructors(b) = <<>>
<1>1. CASE ~b.cpp
  BY <1>1 DEF Constructors
<1>2. CASE b.cpp
  <2>1. Constructors(b) = <<"log">> \o _do_ctors
    BY <1>2 DEF Constructors
  <2>2. <<"log">> \in Seq(Words) /\ Len(<<"log">>) = 1 /\ <<"log">>[1] = "log"
    BY StepWords DEF BootSteps
  <2>3. /\ _do_ctors \in Seq(Words) /\ Len(_do_ctors) = Len(HsLists) /\ Len(HsLists) \in Nat
        /\ \A k \in HsIx : _do_ctors[k] = Ctor[Len(HsLists) + 1 - k]
    BY DownwardsIs, HsNames DEF Words
  <2>4. /\ Constructors(b) \in Seq(Words) /\ Len(Constructors(b)) = 1 + Len(HsLists)
        /\ \A i \in 1 .. 1 + Len(HsLists) :
             Constructors(b)[i] = IF i <= 1 THEN <<"log">>[i] ELSE _do_ctors[i - 1]
    BY <2>1, <2>2, <2>3, Appended
  <2>5. Constructors(b)[1] = "log"
    BY <2>2, <2>3, <2>4
  <2>6. ASSUME NEW k \in HsIx
        PROVE  Constructors(b)[1 + k] = Ctor[Len(HsLists) + 1 - k]
    <3>1. 1 + k \in 1 .. 1 + Len(HsLists) /\ ~(1 + k <= 1) /\ (1 + k) - 1 = k
      BY <2>3 DEF HsIx
    <3>2. Constructors(b)[1 + k] = _do_ctors[k]
      BY <2>4, <3>1, Zenon
    <3>3. QED BY <2>3, <3>2
  <2>7. QED BY <1>2, <2>4, <2>5, <2>6
<1>3. QED BY <1>1, <1>2

LEMMA AtExitIs ==
  ASSUME NEW b
  PROVE  /\ AtExit(b) \in Seq(Words)
         /\ Cleans(b) => Len(AtExit(b)) = 2 /\ AtExit(b)[1] = "log" /\ AtExit(b)[2] = "atexit"
         /\ ~Cleans(b) => AtExit(b) = <<>>
<1>1. <<"log", "atexit">> \in Seq(Words) /\ <<>> \in Seq(Words)
  BY StepWords DEF BootSteps
<1>2. CASE Cleans(b)
  <2>1. AtExit(b) = <<"log", "atexit">>
    BY <1>2, Zenon DEF Cleans, AtExit
  <2>2. QED BY <1>1, <1>2, <2>1
<1>3. CASE ~Cleans(b)
  <2>1. AtExit(b) = <<>>
    BY <1>3, Zenon DEF Cleans, AtExit
  <2>2. QED BY <1>1, <1>3, <2>1
<1>4. QED BY <1>2, <1>3

LEMMA PlanIs ==
  ASSUME NEW b
  PROVE  \E p, q, r \in Nat : Layout(alt_main(b), b, p, q, r)
<1>1. PICK x : x = DriversFirst \o Redirect(b)
  OBVIOUS
<1>2. PICK y : y = x \o Constructors(b)
  OBVIOUS
<1>3. PICK z : z = y \o AtExit(b)
  OBVIOUS
<1>4. PICK m : m = z \o <<"log", "main">>
  OBVIOUS
<1>5. m = alt_main(b)
  BY <1>1, <1>2, <1>3, <1>4, Zenon DEF alt_main
<1>6. PICK p : p = Len(x)
  OBVIOUS
<1>7. PICK q : q = Len(y)
  OBVIOUS
<1>8. PICK r : r = Len(z)
  OBVIOUS
<1>9. PICK n : n = Len(HsLists)
  OBVIOUS
<1>10. n \in Nat
  BY <1>9, HsNames
<1>11. /\ x \in Seq(Words) /\ p \in Nat \ {0} /\ x[1] = "log"
       /\ \A k \in 1 .. p : x[k] \in SetUp
       /\ \A need \in Needs(b) : \E k \in 1 .. p : x[k] = need
  BY <1>1, <1>6, SetUpIs, Zenon
<1>12. /\ y \in Seq(Words) /\ Len(Constructors(b)) \in Nat /\ q = p + Len(Constructors(b))
       /\ \A i \in 1 .. q : y[i] = IF i <= p THEN x[i] ELSE Constructors(b)[i - p]
  <2>1. Constructors(b) \in Seq(Words)
    BY ConstructorsAre
  <2>2. QED BY <1>2, <1>6, <1>7, <1>11, <2>1, Joined
<1>13. /\ z \in Seq(Words) /\ Len(AtExit(b)) \in Nat /\ r = q + Len(AtExit(b))
       /\ \A i \in 1 .. r : z[i] = IF i <= q THEN y[i] ELSE AtExit(b)[i - q]
  <2>1. AtExit(b) \in Seq(Words)
    BY AtExitIs
  <2>2. y \in Seq(Words)
    BY <1>12
  <2>3. QED BY ONLY <1>3, <1>7, <1>8, <2>2, <2>1, Joined
<1>14. /\ m \in Seq(Words) /\ Len(m) = r + 2
       /\ \A i \in 1 .. r + 2 : m[i] = IF i <= r THEN z[i] ELSE <<"log", "main">>[i - r]
  <2>1. <<"log", "main">> \in Seq(Words) /\ Len(<<"log", "main">>) = 2
    BY StepWords DEF BootSteps
  <2>2. /\ m \in Seq(Words) /\ r \in Nat /\ Len(m) = r + Len(<<"log", "main">>)
        /\ \A i \in 1 .. Len(m) : m[i] = IF i <= r THEN z[i] ELSE <<"log", "main">>[i - r]
    <3>1. z \in Seq(Words)
      BY <1>13
    <3>2. QED BY ONLY <1>4, <1>8, <2>1, <3>1, Joined
  <2>3. Len(m) = r + 2
    BY <2>1, <2>2
  <2>4. QED BY <2>2, <2>3, Zenon
<1>15. q \in Nat /\ r \in Nat /\ p <= q /\ q <= r
  BY <1>11, <1>12, <1>13
<1>16. \A i \in 1 .. p : m[i] = x[i]
  BY <1>11, <1>12, <1>13, <1>14, <1>15
<1>17. ASSUME NEW i \in p + 1 .. q
       PROVE  m[i] = Constructors(b)[i - p]
  <2>1. i \in 1 .. r + 2 /\ i \in 1 .. r /\ i \in 1 .. q /\ i <= r /\ i <= q /\ ~(i <= p)
    BY <1>11, <1>15
  <2>2. QED BY <1>12, <1>13, <1>14, <2>1, Zenon
<1>18. ASSUME NEW i \in q + 1 .. r
       PROVE  m[i] = AtExit(b)[i - q]
  <2>1. i \in 1 .. r + 2 /\ i \in 1 .. r /\ i <= r /\ ~(i <= q)
    BY <1>11, <1>15
  <2>2. QED BY <1>13, <1>14, <2>1, Zenon
<1>19. m[r + 1] = "log" /\ m[r + 2] = "main"
  <2>1. m[r + 1] = <<"log", "main">>[1] /\ m[r + 2] = <<"log", "main">>[2]
    BY <1>14, <1>15
  <2>2. QED BY <2>1
<1>20. ASSUME b.cpp
       PROVE  q = p + 1 + n /\ m[p + 1] = "log" /\ \A k \in HsIx : m[p + 1 + k] = Ctor[n + 1 - k]
  <2>1. /\ Len(Constructors(b)) = 1 + n /\ Constructors(b)[1] = "log"
        /\ \A k \in HsIx : Constructors(b)[1 + k] = Ctor[n + 1 - k]
    BY <1>9, <1>20, ConstructorsAre, Zenon
  <2>2. q = p + 1 + n /\ p + 1 \in p + 1 .. q /\ (p + 1) - p = 1
    BY <1>10, <1>11, <1>12, <2>1
  <2>3. m[p + 1] = "log"
    BY <1>17, <2>1, <2>2, Zenon
  <2>4. ASSUME NEW k \in HsIx
        PROVE  m[p + 1 + k] = Ctor[n + 1 - k]
    <3>1. p + 1 + k \in p + 1 .. q /\ (p + 1 + k) - p = 1 + k
      BY <1>9, <1>10, <1>11, <2>2 DEF HsIx
    <3>2. m[p + 1 + k] = Constructors(b)[1 + k]
      BY <1>17, <3>1, Zenon
    <3>3. QED BY <2>1, <3>2
  <2>5. QED BY <2>2, <2>3, <2>4
<1>21. ASSUME ~b.cpp
       PROVE  q = p
  <2>1. Len(Constructors(b)) = 0
    BY <1>21, ConstructorsAre
  <2>2. QED BY <2>1, <1>11, <1>12
<1>22. ASSUME Cleans(b)
       PROVE  r = q + 2 /\ m[q + 1] = "log" /\ m[q + 2] = "atexit"
  <2>1. Len(AtExit(b)) = 2 /\ AtExit(b)[1] = "log" /\ AtExit(b)[2] = "atexit"
    BY <1>22, AtExitIs, Zenon
  <2>2. r = q + 2 /\ q + 1 \in q + 1 .. r /\ q + 2 \in q + 1 .. r /\ (q + 1) - q = 1 /\ (q + 2) - q = 2
    BY <1>13, <1>15, <2>1
  <2>3. QED BY <1>18, <2>1, <2>2, Zenon
<1>23. ASSUME ~Cleans(b)
       PROVE  r = q
  <2>1. Len(AtExit(b)) = 0
    BY <1>23, AtExitIs
  <2>2. QED BY <2>1, <1>13, <1>15
<1>24. m[1] = "log" /\ \A k \in 1 .. p : m[k] \in SetUp
  BY <1>11, <1>16
<1>25. \A need \in Needs(b) : \E k \in 1 .. p : m[k] = need
  BY <1>11, <1>16, Zenon
<1>26. p > 0
  BY <1>11
<1>27. Layout(m, b, p, q, r)
  BY <1>9, <1>14, <1>19, <1>20, <1>21, <1>22, <1>23, <1>24, <1>25, <1>26, Zenon DEF Layout
<1>28. QED BY <1>5, <1>11, <1>15, <1>27, Zenon

LEMMA NotSteps ==
  /\ \A i \in HsIx : Ctor[i] \in Ctors /\ Dtor[i] \in Dtors /\ Static[i] \in Statics
  /\ \A x \in HsSteps : x \notin Ctors /\ x \notin Dtors /\ x \notin Statics
  /\ \A x \in Ctors : x \notin Dtors /\ x \notin Statics
  /\ \A x \in Dtors : x \notin Statics
BY HsNames DEF Ctors, Dtors, Statics

LEMMA WhereCtors ==
  ASSUME NEW m, NEW b, NEW p \in Nat, NEW q \in Nat, NEW r \in Nat, Layout(m, b, p, q, r)
  PROVE  /\ p <= q /\ q <= r
         /\ \A k \in 1 .. Len(m) :
              /\ m[k] \in BootSteps \cup Ctors
              /\ m[k] = "main" <=> k = r + 2
              /\ m[k] \in Ctors => /\ b.cpp /\ p < k /\ k <= q
                                   /\ \A i \in HsIx : m[k] = Ctor[i] => i = Len(HsLists) + p + 2 - k
              /\ m[k] = "atexit" => Cleans(b) /\ k = r /\ q < k
<1>1. PICK n : n = Len(HsLists) /\ n \in Nat
  BY HsNames
<1>2. Len(m) = r + 2 /\ (\A k \in 1 .. p : m[k] \in SetUp) /\ m[r + 1] = "log" /\ m[r + 2] = "main"
  BY Zenon DEF Layout
<1>3. (b.cpp => q = p + 1 + n /\ m[p + 1] = "log") /\ (~b.cpp => q = p)
  BY <1>1, Zenon DEF Layout
<1>4. b.cpp => \A k \in HsIx : m[p + 1 + k] = Ctor[n + 1 - k]
  BY <1>1, Zenon DEF Layout
<1>5. (Cleans(b) => r = q + 2 /\ m[q + 1] = "log" /\ m[q + 2] = "atexit") /\ (~Cleans(b) => r = q)
  BY Zenon DEF Layout
<1>6. p <= q
  BY <1>1, <1>3
<1>7. q <= r
  BY <1>5
<1>8. \A x \in SetUp \cup {"log", "main", "atexit"} : x \in BootSteps /\ x \in HsSteps
  BY DEF SetUp, BootSteps, HsSteps
<1>9. \A x \in SetUp : x # "main" /\ x # "atexit"
  BY DEF SetUp
<1> DEFINE Good(k) == /\ m[k] \in BootSteps \cup Ctors
                      /\ m[k] = "main" <=> k = r + 2
                      /\ m[k] \in Ctors => /\ b.cpp /\ p < k /\ k <= q
                                           /\ \A i \in HsIx : m[k] = Ctor[i] => i = n + p + 2 - k
                      /\ m[k] = "atexit" => Cleans(b) /\ k = r /\ q < k
<1>10. ASSUME NEW k \in 1 .. Len(m), m[k] \in SetUp \cup {"log"}, k # r + 2
       PROVE  Good(k)
  <2>1. m[k] \in BootSteps /\ m[k] # "main" /\ m[k] # "atexit" /\ m[k] \notin Ctors
    <3>1. "log" # "main" /\ "log" # "atexit"
      OBVIOUS
    <3>2. QED BY <1>8, <1>9, <1>10, <3>1, NotSteps, Zenon
  <2>2. QED BY <1>10, <2>1, Zenon
<1>11. ASSUME NEW k \in 1 .. Len(m), k <= p
       PROVE  Good(k)
  <2>1. k \in 1 .. p /\ k # r + 2
    BY <1>6, <1>7, <1>11
  <2>2. QED BY <1>2, <1>10, <2>1, Zenon
<1>12. ASSUME NEW k \in 1 .. Len(m), p < k, k <= q
       PROVE  Good(k)
  <2>1. b.cpp
    <3>1. ~b.cpp => FALSE
      BY <1>3, <1>12
    <3>2. QED BY <3>1, Zenon
  <2>2. q = p + 1 + n /\ m[p + 1] = "log"
    BY <1>3, <2>1, Zenon
  <2>3. k # r + 2
    BY <1>6, <1>7, <1>12
  <2>4. CASE k = p + 1
    BY <1>10, <2>2, <2>3, <2>4, Zenon
  <2>5. CASE k # p + 1
    <3>1. PICK j : j = k - p - 1
      OBVIOUS
    <3>2. j \in HsIx /\ p + 1 + j = k /\ n + 1 - j = n + p + 2 - k /\ n + 1 - j \in HsIx
      BY <1>1, <1>12, <2>2, <2>5, <3>1 DEF HsIx
    <3>3. m[k] = Ctor[n + p + 2 - k] /\ n + p + 2 - k \in HsIx
      BY <1>4, <2>1, <3>2, Zenon
    <3>4. m[k] \in Ctors
      BY <3>3, Zenon DEF Ctors
    <3>5. \A i \in HsIx : m[k] = Ctor[i] => i = n + p + 2 - k
      BY <3>3, HsNames, Zenon
    <3>6. m[k] \notin HsSteps
      BY <3>4, NotSteps, Zenon
    <3>7. m[k] # "main" /\ m[k] # "atexit"
      BY <3>6, <1>8, Zenon
    <3>8. QED BY <1>12, <2>1, <2>3, <3>4, <3>5, <3>7, Zenon
  <2>6. QED BY <2>4, <2>5
<1>13. ASSUME NEW k \in 1 .. Len(m), q < k, k <= r
       PROVE  Good(k)
  <2>1. Cleans(b)
    <3>1. ~Cleans(b) => FALSE
      BY <1>5, <1>13
    <3>2. QED BY <3>1, Zenon
  <2>2. r = q + 2 /\ m[q + 1] = "log" /\ m[q + 2] = "atexit"
    BY <1>5, <2>1, Zenon
  <2>3. k # r + 2 /\ (k = q + 1 \/ (k = q + 2 /\ k = r))
    BY <1>13, <2>2
  <2>4. CASE k = q + 1
    BY <1>10, <2>2, <2>3, <2>4, Zenon
  <2>5. CASE k = q + 2 /\ k = r
    <3>1. m[k] = "atexit"
      BY <2>2, <2>5
    <3>2. m[k] # "main"
      BY <3>1
    <3>3. m[k] \in BootSteps /\ m[k] \notin Ctors
      BY <3>1, <1>8, NotSteps, Zenon
    <3>4. QED BY <1>13, <2>1, <2>3, <2>5, <3>2, <3>3, Zenon
  <2>6. QED BY <2>3, <2>4, <2>5
<1>14. Good(r + 1)
  <2>1. r + 1 \in 1 .. Len(m) /\ r + 1 # r + 2
    BY <1>2
  <2>2. QED BY <1>2, <1>10, <2>1, Zenon
<1>15. Good(r + 2)
  <2>1. m[r + 2] \in BootSteps /\ m[r + 2] \notin Ctors
    BY <1>2, <1>8, NotSteps, Zenon
  <2>2. m[r + 2] # "atexit"
    BY <1>2
  <2>3. QED BY <1>2, <2>1, <2>2, Zenon
<1>16. ASSUME NEW k \in 1 .. Len(m)
       PROVE  Good(k)
  <2>1. \/ k <= p \/ (p < k /\ k <= q) \/ (q < k /\ k <= r) \/ k = r + 1 \/ k = r + 2
    BY <1>2
  <2>2. QED BY <2>1, <1>11, <1>12, <1>13, <1>14, <1>15, Zenon
<1>17. QED BY <1>1, <1>6, <1>7, <1>16, Zenon

Planned(m, b) ==
  /\ m \in Seq(Words) /\ Len(m) > 0 /\ m[1] = "log"
  /\ \A k \in 1 .. Len(m) : m[k] \in BootSteps \cup Ctors /\ (m[k] = "main" <=> k = Len(m))
  /\ Falls(m, Ctor)
  /\ \A k \in 1 .. Len(m) : m[k] \in {"main"} \cup Ctors =>
       \A need \in Needs(b) : \E l \in 1 .. k - 1 : m[l] = need
  /\ \A i \in HsIx : Occurs(Ctor[i], m) <=> b.cpp
  /\ \A k, l \in 1 .. Len(m) : /\ m[k] \in Ctors /\ m[l] = "atexit" => k < l
                               /\ m[k] = "atexit" /\ m[l] = "atexit" => k = l
  /\ Occurs("atexit", m) <=> Cleans(b)

LEMMA PlanFacts == \A b : Planned(alt_main(b), b)
<1> SUFFICES ASSUME NEW b, NEW m, m = alt_main(b)
             PROVE  Planned(m, b)
  OBVIOUS
<1>1. PICK p, q, r \in Nat : Layout(m, b, p, q, r)
  BY PlanIs
<1>2. PICK n : n = Len(HsLists) /\ n \in Nat
  BY HsNames
<1>3. /\ p <= q /\ q <= r
      /\ \A k \in 1 .. Len(m) :
           /\ m[k] \in BootSteps \cup Ctors
           /\ m[k] = "main" <=> k = r + 2
           /\ m[k] \in Ctors => /\ b.cpp /\ p < k /\ k <= q
                                /\ \A i \in HsIx : m[k] = Ctor[i] => i = n + p + 2 - k
           /\ m[k] = "atexit" => Cleans(b) /\ k = r /\ q < k
  <2>1. /\ p <= q /\ q <= r
        /\ \A k \in 1 .. Len(m) :
             /\ m[k] \in BootSteps \cup Ctors
             /\ m[k] = "main" <=> k = r + 2
             /\ m[k] \in Ctors => /\ b.cpp /\ p < k /\ k <= q
                                  /\ \A i \in HsIx : m[k] = Ctor[i] => i = Len(HsLists) + p + 2 - k
             /\ m[k] = "atexit" => Cleans(b) /\ k = r /\ q < k
    BY ONLY <1>1, WhereCtors
  <2>2. \A k : Len(HsLists) + p + 2 - k = n + p + 2 - k
    BY <1>2, Zenon
  <2>3. QED BY <2>1, <2>2, Zenon
<1>4. /\ m \in Seq(Words) /\ Len(m) = r + 2 /\ p > 0 /\ m[1] = "log"
      /\ \A need \in Needs(b) : \E k \in 1 .. p : m[k] = need
  BY <1>1, Zenon DEF Layout
<1>5. Falls(m, Ctor)
  <2>1. ASSUME NEW k \in 1 .. Len(m), NEW l \in 1 .. Len(m), NEW i \in HsIx, NEW j \in HsIx, k < l,
               m[k] = Ctor[i], m[l] = Ctor[j]
        PROVE  j < i
    <3>1. m[k] \in Ctors /\ m[l] \in Ctors
      BY <2>1, Zenon DEF Ctors
    <3>2. i = n + p + 2 - k /\ j = n + p + 2 - l
      BY <1>3, <2>1, <3>1, Zenon
    <3>3. QED BY <1>2, <2>1, <3>2
  <2>2. QED BY <2>1 DEF Falls
<1>6. ASSUME NEW k \in 1 .. Len(m), m[k] \in {"main"} \cup Ctors, NEW need \in Needs(b)
      PROVE  \E l \in 1 .. k - 1 : m[l] = need
  <2>1. PICK l \in 1 .. p : m[l] = need
    BY <1>4
  <2>2. m[k] = "main" \/ m[k] \in Ctors
    BY <1>6
  <2>3. p < k
    <3>1. m[k] \in Ctors => p < k
      BY <1>3, Zenon
    <3>2. m[k] = "main" => k = r + 2
      BY <1>3, Zenon
    <3>3. QED BY <1>3, <2>2, <3>1, <3>2
  <2>4. l \in 1 .. k - 1
    BY <2>3
  <2>5. QED BY <2>1, <2>4
<1>7. ASSUME NEW i \in HsIx
      PROVE  Occurs(Ctor[i], m) <=> b.cpp
  <2>1. Occurs(Ctor[i], m) => b.cpp
    BY <1>3, Zenon DEF Occurs, Ctors
  <2>2. ASSUME b.cpp
        PROVE  Occurs(Ctor[i], m)
    <3>1. q = p + 1 + n /\ \A k \in HsIx : m[p + 1 + k] = Ctor[n + 1 - k]
      BY <1>1, <1>2, <2>2, Zenon DEF Layout
    <3>2. PICK k : k = n + 1 - i
      OBVIOUS
    <3>3. k \in HsIx /\ n + 1 - k = i /\ p + 1 + k \in 1 .. Len(m)
      BY <1>2, <1>3, <1>4, <3>1, <3>2 DEF HsIx
    <3>4. m[p + 1 + k] = Ctor[i]
      BY <3>1, <3>3, Zenon
    <3>5. QED BY <3>3, <3>4, Zenon DEF Occurs
  <2>3. QED BY <2>1, <2>2
<1>8. ASSUME NEW k \in 1 .. Len(m), NEW l \in 1 .. Len(m)
      PROVE  /\ m[k] \in Ctors /\ m[l] = "atexit" => k < l
             /\ m[k] = "atexit" /\ m[l] = "atexit" => k = l
  <2>1. (m[k] \in Ctors => k <= q) /\ (m[l] = "atexit" => l = r /\ q < l) /\ (m[k] = "atexit" => k = r)
    BY <1>3, Zenon
  <2>2. m[k] \in Ctors /\ m[l] = "atexit" => k < l
    BY <2>1
  <2>3. m[k] = "atexit" /\ m[l] = "atexit" => k = l
    BY <2>1, Zenon
  <2>4. QED BY <2>2, <2>3
<1>9. Occurs("atexit", m) <=> Cleans(b)
  <2>1. Occurs("atexit", m) => Cleans(b)
    BY <1>3, Zenon DEF Occurs
  <2>2. ASSUME Cleans(b)
        PROVE  Occurs("atexit", m)
    <3>1. r = q + 2 /\ m[q + 2] = "atexit"
      BY <1>1, <2>2, Zenon DEF Layout
    <3>2. q + 2 \in 1 .. Len(m)
      BY <1>4, <3>1
    <3>3. QED BY <3>1, <3>2, Zenon DEF Occurs
  <2>3. QED BY <2>1, <2>2
<1>10. Len(m) > 0 /\ \A k \in 1 .. Len(m) : m[k] \in BootSteps \cup Ctors /\ (m[k] = "main" <=> k = Len(m))
  <2>1. Len(m) > 0
    BY <1>4
  <2>2. QED BY <1>3, <1>4, <2>1, Zenon
<1>11. QED BY <1>4, <1>5, <1>6, <1>7, <1>8, <1>9, <1>10, Zenon DEF Planned

LEMMA OccursNone == \A x : ~Occurs(x, <<>>)
BY DEF Occurs

LEMMA InitHsInv == HsInit => HsInv
<1> SUFFICES ASSUME HsInit
             PROVE  HsInv
  OBVIOUS
<1>1. /\ hsBuild \in HsBuilds /\ hsHost \in BOOLEAN /\ hsRoom = HsFifo /\ hsChars = 0
      /\ hsTodo = alt_main(hsBuild) /\ hsDone = <<>> /\ hsAtExit = <<>> /\ hsFault = NoFault
  BY DEF HsInit
<1>2. /\ hsTodo \in Seq(Words) /\ Len(hsTodo) > 0 /\ hsTodo[1] = "log"
      /\ \A k \in 1 .. Len(hsTodo) : hsTodo[k] \in BootSteps \cup Ctors /\ (hsTodo[k] = "main" <=> k = Len(hsTodo))
      /\ Falls(hsTodo, Ctor)
      /\ \A k \in 1 .. Len(hsTodo) : hsTodo[k] \in {"main"} \cup Ctors =>
           \A need \in Needs(hsBuild) : \E l \in 1 .. k - 1 : hsTodo[l] = need
      /\ \A i \in HsIx : Occurs(Ctor[i], hsTodo) <=> hsBuild.cpp
      /\ \A k, l \in 1 .. Len(hsTodo) : /\ hsTodo[k] \in Ctors /\ hsTodo[l] = "atexit" => k < l
                                        /\ hsTodo[k] = "atexit" /\ hsTodo[l] = "atexit" => k = l
      /\ Occurs("atexit", hsTodo) <=> Cleans(hsBuild)
  <2>1. hsTodo = alt_main(hsBuild)
    BY <1>1
  <2>2. Planned(hsTodo, hsBuild)
    BY <2>1, PlanFacts, Zenon
  <2>3. QED BY <2>2, Zenon DEF Planned
<1>3. \A x : ~Occurs(x, hsDone) /\ ~Occurs(x, hsAtExit)
  BY <1>1, OccursNone
<1>4. Len(hsDone) = 0 /\ Len(hsAtExit) = 0 /\ \A k \in 1 .. 0 : FALSE
  BY <1>1
<1>5. \A k \in 1 .. Len(hsTodo) : hsTodo[k] \notin Dtors /\ hsTodo[k] # "exitprocs"
  <2>1. BootSteps \subseteq HsSteps /\ "exitprocs" \notin BootSteps /\ "exitprocs" \in HsSteps
    BY DEF BootSteps, HsSteps
  <2>2. \A x \in BootSteps \cup Ctors : x \notin Dtors /\ x # "exitprocs"
    BY <2>1, NotSteps, Zenon
  <2>3. \A k \in 1 .. Len(hsTodo) : hsTodo[k] \in BootSteps \cup Ctors
    BY <1>2, Zenon
  <2>4. QED BY <2>2, <2>3
<1>6. HsTypes
  <2>1. hsRoom \in 0 .. HsFifo /\ hsChars \in 0 .. HsMessage - 1
    BY <1>1, HsAssumption
  <2>2. hsDone \in Seq(Words) /\ hsAtExit \in Seq(Words)
    BY <1>1
  <2>3. hsFault \in HsCauses \cup {NoFault}
    BY <1>1
  <2>4. QED BY <1>1, <1>2, <2>1, <2>2, <2>3, Zenon DEF HsTypes
<1>7. HsShape
  BY <1>2, <1>3, Zenon DEF HsShape
<1>8. HsOrder
  <2>1. /\ Falls(hsDone, Ctor) /\ FallsOver(hsDone, hsTodo, Ctor)
        /\ Falls(hsDone, Dtor) /\ FallsOver(hsDone, hsTodo, Dtor)
    BY <1>4, Zenon DEF Falls, FallsOver
  <2>2. Falls(hsTodo, Dtor)
    BY <1>5, Zenon DEF Falls, Dtors
  <2>3. QED BY <1>2, <2>1, <2>2, Zenon DEF HsOrder
<1>9. HsNeeds
  BY <1>2, <1>4, Zenon DEF HsNeeds, NeedsMet
<1>10. HsCpp
  BY <1>2, <1>3, Zenon DEF HsCpp
<1>11. HsPending
  <2>1. Falls(hsAtExit, Static)
    BY <1>4, Zenon DEF Falls
  <2>2. QED BY <1>3, <1>4, <2>1, Zenon DEF HsPending
<1>12. HsDtors
  <2>1. \A i \in HsIx : ~Occurs(Dtor[i], hsTodo)
    BY <1>5, Zenon DEF Occurs, Dtors
  <2>2. Sorted(hsTodo)
    BY <1>2, <1>5, Zenon DEF Sorted
  <2>3. ~Occurs("exitprocs", hsTodo)
    BY <1>5, Zenon DEF Occurs
  <2>4. QED BY <1>2, <1>3, <2>1, <2>2, <2>3, Zenon DEF HsDtors
<1>13. HsDestroyed
  <2>1. Rises(hsDone, Static) /\ FallsOver(hsAtExit, hsDone, Static)
    BY <1>4, Zenon DEF Rises, FallsOver
  <2>2. QED BY <1>3, <1>4, <2>1, Zenon DEF HsDestroyed
<1>14. HsCount
  <2>1. PICK t : t = Messages(alt_main(hsBuild)) * HsMessage
    OBVIOUS
  <2>2. t \in Nat /\ Messages(hsTodo) * HsMessage = t
    <3>1. Messages(hsTodo) \in Nat
      BY <1>2, MessagesIs
    <3>2. Messages(hsTodo) * HsMessage = t
      BY <1>1, <2>1
    <3>3. QED BY <3>1, <3>2, HsAssumption
  <2>3. HsFifo - hsRoom + Messages(hsTodo) * HsMessage = t + hsChars
    BY <1>1, <2>2, HsAssumption
  <2>4. hsChars = 0
    BY <1>1
  <2>5. QED BY <1>3, <2>1, <2>3, <2>4, Zenon DEF HsCount
<1>15. QED BY <1>6, <1>7, <1>8, <1>9, <1>10, <1>11, <1>12, <1>13, <1>14 DEF HsInv

\* All but the types and the count.
HsCore == HsShape /\ HsOrder /\ HsNeeds /\ HsCpp /\ HsPending /\ HsDtors /\ HsDestroyed

LEMMA SortedTail ==
  ASSUME NEW S, NEW todo \in Seq(S), todo # <<>>, Sorted(todo)
  PROVE  Sorted(Tail(todo))
<1>1. /\ Len(todo) \in Nat \ {0} /\ Len(Tail(todo)) = Len(todo) - 1
      /\ \A k \in 1 .. Len(todo) - 1 : Tail(todo)[k] = todo[k + 1]
  BY HeadTail
<1>2. ASSUME NEW k \in 1 .. Len(Tail(todo)), NEW l \in 1 .. Len(Tail(todo))
      PROVE  /\ Tail(todo)[k] \in Ctors /\ Tail(todo)[l] = "atexit" => k < l
             /\ Tail(todo)[k] = "atexit" /\ Tail(todo)[l] = "atexit" => k = l
             /\ Tail(todo)[k] \in Dtors /\ Tail(todo)[l] = "exitprocs" => k < l
  <2>1. k + 1 \in 1 .. Len(todo) /\ l + 1 \in 1 .. Len(todo) /\ Tail(todo)[k] = todo[k + 1] /\ Tail(todo)[l] = todo[l + 1]
    BY <1>1
  <2>2. /\ todo[k + 1] \in Ctors /\ todo[l + 1] = "atexit" => k + 1 < l + 1
        /\ todo[k + 1] = "atexit" /\ todo[l + 1] = "atexit" => k + 1 = l + 1
        /\ todo[k + 1] \in Dtors /\ todo[l + 1] = "exitprocs" => k + 1 < l + 1
    BY <2>1, Zenon DEF Sorted
  <2>3. (k + 1 < l + 1 => k < l) /\ (k + 1 = l + 1 => k = l)
    OBVIOUS
  <2>4. QED BY <2>1, <2>2, <2>3, Zenon
<1>3. QED BY <1>2, Zenon DEF Sorted

LEMMA NeedsTail ==
  ASSUME NEW S, NEW done, NEW todo \in Seq(S), todo # <<>>, NEW needs, NeedsMet(done, todo, needs),
         Head(todo) \notin needs
  PROVE  NeedsMet(done, Tail(todo), needs)
<1>1. /\ Len(todo) \in Nat \ {0} /\ Head(todo) = todo[1] /\ Len(Tail(todo)) = Len(todo) - 1
      /\ \A k \in 1 .. Len(todo) - 1 : Tail(todo)[k] = todo[k + 1]
  BY HeadTail
<1>2. ASSUME NEW k \in 1 .. Len(Tail(todo)), Tail(todo)[k] \in {"main"} \cup Ctors, NEW need \in needs
      PROVE  Occurs(need, done) \/ \E l \in 1 .. k - 1 : Tail(todo)[l] = need
  <2>1. k + 1 \in 1 .. Len(todo) /\ todo[k + 1] \in {"main"} \cup Ctors
    BY <1>1, <1>2
  <2>2. Occurs(need, done) \/ \E l \in 1 .. (k + 1) - 1 : todo[l] = need
    BY <1>2, <2>1, Zenon DEF NeedsMet
  <2>3. ASSUME NEW l \in 1 .. (k + 1) - 1, todo[l] = need
        PROVE  \E j \in 1 .. k - 1 : Tail(todo)[j] = need
    <3>1. l # 1
      BY <1>1, <1>2, <2>3
    <3>2. l - 1 \in 1 .. k - 1 /\ Tail(todo)[l - 1] = todo[l]
      BY <1>1, <3>1
    <3>3. QED BY <2>3, <3>2, Zenon
  <2>4. QED BY <2>2, <2>3, Zenon
<1>3. QED BY <1>2, Zenon DEF NeedsMet

LEMMA ShapeTail ==
  ASSUME HsTypes, HsShape, hsTodo # <<>>, Head(hsTodo) # "main", NEW t, t = Tail(hsTodo)
  PROVE  /\ ~Occurs("main", hsDone) =>
              /\ Len(t) > 0
              /\ \A k \in 1 .. Len(t) : t[k] \in BootSteps \cup Ctors /\ (t[k] = "main" <=> k = Len(t))
         /\ Occurs("main", hsDone) => \A k \in 1 .. Len(t) : t[k] \in EndSteps \cup Dtors
<1>1. /\ Len(hsTodo) \in Nat \ {0} /\ Head(hsTodo) = hsTodo[1] /\ Len(t) = Len(hsTodo) - 1
      /\ \A k \in 1 .. Len(t) : t[k] = hsTodo[k + 1]
  BY HeadTail DEF HsTypes
<1>2. ASSUME NEW k \in 1 .. Len(t)
      PROVE  k + 1 \in 1 .. Len(hsTodo) /\ t[k] = hsTodo[k + 1] /\ (k + 1 = Len(hsTodo) <=> k = Len(t))
  BY <1>1
<1>3. ASSUME ~Occurs("main", hsDone)
      PROVE  /\ Len(t) > 0
             /\ \A k \in 1 .. Len(t) : t[k] \in BootSteps \cup Ctors /\ (t[k] = "main" <=> k = Len(t))
  <2>1. \A k \in 1 .. Len(hsTodo) : hsTodo[k] \in BootSteps \cup Ctors /\ (hsTodo[k] = "main" <=> k = Len(hsTodo))
    BY <1>3, Zenon DEF HsShape
  <2>2. \A k \in 1 .. Len(t) : t[k] \in BootSteps \cup Ctors /\ (t[k] = "main" <=> k = Len(t))
    BY <2>1, <1>2, Zenon
  <2>3. Len(hsTodo) # 1
    <3>1. 1 \in 1 .. Len(hsTodo) /\ hsTodo[1] # "main"
      BY <1>1
    <3>2. QED BY <2>1, <3>1, Zenon
  <2>4. Len(t) > 0
    BY <1>1, <2>3
  <2>5. QED BY <2>2, <2>4
<1>4. ASSUME Occurs("main", hsDone)
      PROVE  \A k \in 1 .. Len(t) : t[k] \in EndSteps \cup Dtors
  <2>1. hsTodo # <<"main">>
    BY <1>1
  <2>2. \A k \in 1 .. Len(hsTodo) : hsTodo[k] \in EndSteps \cup Dtors
    BY <1>4, <2>1, Zenon DEF HsShape
  <2>3. QED BY <2>2, <1>2, Zenon
<1>5. QED BY <1>3, <1>4

\* A message or the end of what exit() calls: the step is gone.
LEMMA TailKeeps ==
  ASSUME HsTypes, HsCore, hsTodo # <<>>, Head(hsTodo) \in {"log", "exitprocs"}, hsTodo' = Tail(hsTodo),
         hsBuild' = hsBuild, hsDone' = hsDone, hsAtExit' = hsAtExit
  PROVE  HsCore'
<1>1. /\ Len(hsTodo) \in Nat \ {0} /\ Head(hsTodo) = hsTodo[1] /\ Len(hsTodo') = Len(hsTodo) - 1
      /\ \A k \in 1 .. Len(hsTodo') : hsTodo'[k] = hsTodo[k + 1]
  BY HeadTail DEF HsTypes
<1>2. /\ HsShape /\ HsOrder /\ HsNeeds /\ HsCpp /\ HsPending /\ HsDtors /\ HsDestroyed
  BY DEF HsCore
<1>3. hsTodo \in Seq(Words) /\ hsDone \in Seq(Words)
  BY DEF HsTypes
<1>4. /\ \A x : Occurs(x, hsTodo') => Occurs(x, hsTodo)
      /\ \A x : Occurs(x, hsTodo) => x = Head(hsTodo) \/ Occurs(x, hsTodo')
  BY <1>3, OccursTail, Zenon
<1>5. /\ Head(hsTodo) # "main" /\ Head(hsTodo) # "atexit" /\ \A i \in HsIx : Head(hsTodo) # Ctor[i] /\ Head(hsTodo) # Dtor[i]
  BY HsNames DEF HsSteps
<1>6. HsShape'
  BY <1>2, <1>5, ShapeTail, Zenon DEF HsShape
<1>7. HsOrder'
  BY <1>2, <1>3, FallsTail, Zenon DEF HsOrder
<1>8. HsNeeds'
  <2>1. Head(hsTodo) \notin Needs(hsBuild)
    BY DEF Needs
  <2>2. NeedsMet(hsDone, Tail(hsTodo), Needs(hsBuild))
    BY <1>2, <1>3, <2>1, NeedsTail, Zenon DEF HsNeeds
  <2>3. QED BY <2>2, Zenon DEF HsNeeds
<1>9. HsCpp'
  BY <1>2, <1>4, <1>5, Zenon DEF HsCpp
<1>10. HsPending'
  BY <1>2, Zenon DEF HsPending
<1>11. HsDtors'
  <2>1. Sorted(hsTodo')
    BY <1>2, <1>3, SortedTail, Zenon DEF HsDtors
  <2>2. QED BY <2>1, <1>2, <1>4, <1>5, Zenon DEF HsDtors
<1>12. HsDestroyed'
  BY <1>2, <1>4, Zenon DEF HsDestroyed
<1>13. QED BY <1>6, <1>7, <1>8, <1>9, <1>10, <1>11, <1>12, Zenon DEF HsCore

LEMMA NeedsDone ==
  ASSUME NEW S, NEW done \in Seq(S), NEW s \in S, NEW todo, NEW needs, NeedsMet(done, todo, needs),
         s \in {"main"} \cup Ctors => \A need \in needs : Occurs(need, done),
         NEW d, d = Append(done, s)
  PROVE  NeedsMet(d, todo, needs)
<1>1. /\ Len(done) \in Nat /\ Len(d) \in Nat /\ Len(d) = Len(done) + 1
      /\ \A k \in 1 .. Len(d) : d[k] = IF k <= Len(done) THEN done[k] ELSE s
  BY AppendIs
<1>2. \A x : Occurs(x, done) => Occurs(x, d)
  BY OccursOn, Zenon
<1>3. ASSUME NEW k \in 1 .. Len(d), d[k] \in {"main"} \cup Ctors, NEW need \in needs
      PROVE  \E l \in 1 .. k - 1 : d[l] = need
  <2>1. CASE k \in 1 .. Len(done)
    <3>1. d[k] = done[k]
      BY <1>1, <2>1
    <3>2. PICK l \in 1 .. k - 1 : done[l] = need
      BY <1>3, <2>1, <3>1, Zenon DEF NeedsMet
    <3>3. d[l] = need
      BY <1>1, <2>1, <3>2
    <3>4. QED BY <3>3
  <2>2. CASE k = Len(done) + 1
    <3>1. d[k] = s
      BY <1>1, <2>2
    <3>2. PICK l \in 1 .. Len(done) : done[l] = need
      BY <1>3, <3>1, Zenon DEF Occurs
    <3>3. l \in 1 .. k - 1 /\ d[l] = need
      BY <1>1, <2>2, <3>2
    <3>4. QED BY <3>3
  <2>3. QED BY <1>1, <2>1, <2>2
<1>4. QED BY <1>2, <1>3, Zenon DEF NeedsMet

LEMMA NeedsHead ==
  ASSUME NEW S, NEW done, NEW todo \in Seq(S), todo # <<>>, NEW needs, NeedsMet(done, todo, needs),
         Head(todo) \in {"main"} \cup Ctors
  PROVE  \A need \in needs : Occurs(need, done)
<1>1. 1 \in 1 .. Len(todo) /\ Head(todo) = todo[1] /\ \A l \in 1 .. 1 - 1 : FALSE
  BY HeadTail
<1>2. QED BY <1>1, Zenon DEF NeedsMet

LEMMA NeedsOn ==
  ASSUME NEW S, NEW done \in Seq(S), NEW todo \in Seq(S), todo # <<>>, NEW needs, NeedsMet(done, todo, needs),
         NEW d, d = Append(done, Head(todo))
  PROVE  NeedsMet(d, Tail(todo), needs) /\ NeedsMet(d, todo, needs)
<1>1. /\ Len(todo) \in Nat \ {0} /\ Head(todo) = todo[1] /\ todo[1] \in S /\ Len(Tail(todo)) = Len(todo) - 1
      /\ \A k \in 1 .. Len(todo) - 1 : Tail(todo)[k] = todo[k + 1]
  BY HeadTail
<1>2. Head(todo) \in S
  BY <1>1
<1>3. NeedsMet(d, todo, needs)
  BY <1>2, NeedsHead, NeedsDone, Zenon
<1>4. \A x : Occurs(x, d) <=> Occurs(x, done) \/ x = Head(todo)
  BY <1>2, OccursOn, Zenon
<1>5. ASSUME NEW k \in 1 .. Len(Tail(todo)), Tail(todo)[k] \in {"main"} \cup Ctors, NEW need \in needs
      PROVE  Occurs(need, d) \/ \E l \in 1 .. k - 1 : Tail(todo)[l] = need
  <2>1. k + 1 \in 1 .. Len(todo) /\ todo[k + 1] \in {"main"} \cup Ctors
    BY <1>1, <1>5
  <2>2. Occurs(need, d) \/ \E l \in 1 .. (k + 1) - 1 : todo[l] = need
    BY <1>3, <1>5, <2>1, Zenon DEF NeedsMet
  <2>3. ASSUME NEW l \in 1 .. (k + 1) - 1, todo[l] = need
        PROVE  Occurs(need, d) \/ \E j \in 1 .. k - 1 : Tail(todo)[j] = need
    <3>1. CASE l = 1
      BY <1>1, <1>4, <2>3, <3>1, Zenon
    <3>2. CASE l # 1
      <4>1. l - 1 \in 1 .. k - 1 /\ Tail(todo)[l - 1] = todo[l]
        BY <1>1, <3>2
      <4>2. QED BY <2>3, <4>1, Zenon
    <3>3. QED BY <3>1, <3>2
  <2>4. QED BY <2>2, <2>3, Zenon
<1>6. NeedsMet(d, Tail(todo), needs)
  BY <1>3, <1>5, Zenon DEF NeedsMet
<1>7. QED BY <1>3, <1>6

LEMMA StaticOfIs ==
  /\ Range(_do_ctors) = Ctors
  /\ \A i \in HsIx : StaticOf(Ctor[i]) = Static[i]
<1>1. PICK n : n = Len(HsLists) /\ n \in Nat
  BY HsNames
<1>2. _do_ctors \in Seq(Words) /\ Len(_do_ctors) = n /\ \A k \in HsIx : _do_ctors[k] = Ctor[n + 1 - k]
  BY <1>1, DownwardsIs
<1>3. DOMAIN _do_ctors = HsIx
  BY <1>1, <1>2 DEF HsIx
<1>4. \A k \in HsIx : n + 1 - k \in HsIx /\ n + 1 - (n + 1 - k) = k
  BY <1>1 DEF HsIx
<1>5. Range(_do_ctors) \subseteq Ctors
  <2>1. \A k \in HsIx : _do_ctors[k] \in Ctors
    BY <1>2, <1>4 DEF Ctors
  <2>2. QED BY <1>3, <2>1, Zenon DEF Range
<1>6. ASSUME NEW i \in HsIx
      PROVE  Ctor[i] \in Range(_do_ctors)
  <2>1. _do_ctors[n + 1 - i] = Ctor[i]
    <3>1. _do_ctors[n + 1 - i] = Ctor[n + 1 - (n + 1 - i)]
      BY <1>2, <1>4, Zenon
    <3>2. QED BY <1>4, <3>1
  <2>2. QED BY <1>3, <1>4, <2>1, Zenon DEF Range
<1>7. Range(_do_ctors) = Ctors
  BY <1>5, <1>6, Zenon DEF Ctors
<1>8. ASSUME NEW i \in HsIx
      PROVE  StaticOf(Ctor[i]) = Static[i]
  <2>1. DOMAIN HsLists = HsIx
    BY <1>1, HsAssumption DEF HsIx
  <2>2. \A o : o \in Range(HsLists) <=> \E j \in HsIx : o = HsLists[j]
    BY <2>1, Zenon DEF Range
  <2>3. \A j \in HsIx : Ctor[j] = HsLists[j].ctor /\ Static[j] = HsLists[j].static
    BY Zenon DEF Ctor, Static
  <2>4. \A o : o \in Range(HsLists) /\ o.ctor = Ctor[i] <=> o = HsLists[i]
    <3>1. ASSUME NEW o \in Range(HsLists), o.ctor = Ctor[i]
          PROVE  o = HsLists[i]
      <4>1. PICK j \in HsIx : o = HsLists[j]
        BY <2>2
      <4>2. Ctor[j] = Ctor[i]
        BY <2>3, <3>1, <4>1
      <4>3. j = i
        BY <4>2, HsNames, Zenon
      <4>4. QED BY <4>1, <4>3
    <3>2. HsLists[i] \in Range(HsLists) /\ HsLists[i].ctor = Ctor[i]
      BY <2>2, <2>3
    <3>3. QED BY <3>1, <3>2, Zenon
  <2>5. (CHOOSE o \in Range(HsLists) : o.ctor = Ctor[i]) = HsLists[i]
    BY <2>4, Zenon
  <2>6. QED BY <2>3, <2>5, Zenon DEF StaticOf
<1>9. QED BY <1>7, <1>8

LEMMA OldIndex ==
  ASSUME NEW S, NEW done \in Seq(S), NEW s \in S, NEW d, d = Append(done, s)
  PROVE  /\ \A k \in 1 .. Len(d) : d[k] # s => k \in 1 .. Len(done) /\ d[k] = done[k]
         /\ \A k \in 1 .. Len(done) : k \in 1 .. Len(d) /\ d[k] = done[k]
         /\ \A k \in 1 .. Len(d) : k \notin 1 .. Len(done) => k = Len(d)
         /\ \A k \in 1 .. Len(done) : k < Len(d)
         /\ Len(d) \in 1 .. Len(d) /\ d[Len(d)] = s
<1>1. /\ Len(done) \in Nat /\ Len(d) \in Nat /\ Len(d) = Len(done) + 1
      /\ \A k \in 1 .. Len(d) : d[k] = IF k <= Len(done) THEN done[k] ELSE s
  BY AppendIs
<1>2. QED BY <1>1

\* A step with an end, the first of what is to do.
Moves(s) == /\ hsTodo # <<>> /\ s = Head(hsTodo) /\ s \notin Ends /\ hsDone' = Append(hsDone, s)
            /\ hsTodo' = Tail(hsTodo) /\ hsBuild' = hsBuild

LEMMA MovesFacts ==
  ASSUME HsTypes, HsCore, NEW s, Moves(s)
  PROVE  /\ s \in Words /\ s \notin Statics
         /\ s \notin {"own", "main", "dtors", "exitprocs", "log"}
         /\ s \in Ctors \cup {"atexit"} => ~Occurs("main", hsDone)
         /\ \A x : Occurs(x, hsDone') <=> Occurs(x, hsDone) \/ x = s
         /\ \A x : Occurs(x, hsTodo') => Occurs(x, hsTodo)
         /\ \A x : Occurs(x, hsTodo) => x = s \/ Occurs(x, hsTodo')
         /\ Occurs(s, hsTodo)
<1>1. /\ hsTodo \in Seq(Words) /\ hsDone \in Seq(Words) /\ hsTodo # <<>> /\ s = Head(hsTodo) /\ s \notin Ends
      /\ hsDone' = Append(hsDone, s) /\ hsTodo' = Tail(hsTodo)
  BY DEF HsTypes, Moves
<1>2. Len(hsTodo) \in Nat \ {0} /\ s = hsTodo[1] /\ s \in Words /\ 1 \in 1 .. Len(hsTodo)
  BY <1>1, HeadTail
<1>3. /\ \A x : Occurs(x, hsDone') <=> Occurs(x, hsDone) \/ x = s
      /\ \A x : Occurs(x, hsTodo') => Occurs(x, hsTodo)
      /\ \A x : Occurs(x, hsTodo) => x = s \/ Occurs(x, hsTodo')
      /\ Occurs(s, hsTodo)
  <2>1. \A x : Occurs(x, hsDone') <=> Occurs(x, hsDone) \/ x = s
    BY ONLY <1>1, <1>2, OccursOn, Zenon
  <2>2. /\ Occurs(Head(hsTodo), hsTodo)
        /\ \A x : Occurs(x, Tail(hsTodo)) => Occurs(x, hsTodo)
        /\ \A x : Occurs(x, hsTodo) => x = Head(hsTodo) \/ Occurs(x, Tail(hsTodo))
    BY ONLY <1>1, OccursTail, Zenon
  <2>3. QED BY ONLY <1>1, <2>1, <2>2, Zenon
<1>4. s \notin {"main", "exitprocs", "log"}
  BY <1>1 DEF Ends
<1>5. ~Occurs("main", hsDone) => s \in BootSteps \cup Ctors
  BY <1>2, Zenon DEF HsCore, HsShape
<1>6. Occurs("main", hsDone) => s \in EndSteps \cup Dtors
  <2>1. hsTodo # <<"main">>
    BY <1>2, <1>4
  <2>2. QED BY <1>2, <2>1, Zenon DEF HsCore, HsShape
<1>7. /\ BootSteps \subseteq HsSteps /\ EndSteps \subseteq HsSteps /\ {"own", "dtors"} \subseteq HsSteps
      /\ BootSteps \cap {"own", "dtors"} = {} /\ EndSteps \cap {"own", "dtors", "atexit"} = {}
      /\ "atexit" \in HsSteps
  BY DEF BootSteps, EndSteps, HsSteps
<1>8. \A x \in BootSteps \cup Ctors \cup EndSteps \cup Dtors : x \notin Statics /\ x # "own" /\ x # "dtors"
  BY <1>7, NotSteps
<1>9. s \notin Statics /\ s # "own" /\ s # "dtors"
  BY <1>5, <1>6, <1>8, Zenon
<1>10. \A x \in EndSteps \cup Dtors : x \notin Ctors \cup {"atexit"}
  BY <1>7, NotSteps
<1>11. s \in Ctors \cup {"atexit"} => ~Occurs("main", hsDone)
  BY <1>6, <1>10, Zenon
<1>12. s \notin {"own", "main", "dtors", "exitprocs", "log"}
  BY <1>4, <1>9
<1>13. QED BY <1>2, <1>3, <1>9, <1>11, <1>12, Zenon

LEMMA MovesKeeps ==
  ASSUME HsTypes, HsCore, NEW s, Moves(s)
  PROVE  HsShape' /\ HsOrder' /\ HsNeeds' /\ HsCpp'
<1>1. /\ hsTodo \in Seq(Words) /\ hsDone \in Seq(Words) /\ hsTodo # <<>> /\ s = Head(hsTodo)
      /\ hsDone' = Append(hsDone, s) /\ hsTodo' = Tail(hsTodo) /\ hsBuild' = hsBuild
  BY DEF HsTypes, Moves
<1>2. HsShape /\ HsOrder /\ HsNeeds /\ HsCpp
  BY DEF HsCore
<1>3. s # "main" /\ \A x : Occurs(x, hsDone') <=> Occurs(x, hsDone) \/ x = s
  BY MovesFacts
<1>4. HsShape'
  <2>1. Occurs("main", hsDone') <=> Occurs("main", hsDone)
    BY <1>3
  <2>2. Head(hsTodo) # "main"
    BY <1>1, <1>3
  <2>3. /\ ~Occurs("main", hsDone) =>
             /\ Len(hsTodo') > 0
             /\ \A k \in 1 .. Len(hsTodo') : /\ hsTodo'[k] \in BootSteps \cup Ctors
                                             /\ hsTodo'[k] = "main" <=> k = Len(hsTodo')
        /\ Occurs("main", hsDone) => \A k \in 1 .. Len(hsTodo') : hsTodo'[k] \in EndSteps \cup Dtors
    BY <1>1, <1>2, <2>2, ShapeTail, Zenon
  <2>4. QED BY <2>1, <2>3, Zenon DEF HsShape
<1>5. HsOrder'
  <2>1. /\ Falls(hsDone, Ctor) /\ Falls(hsTodo, Ctor) /\ FallsOver(hsDone, hsTodo, Ctor)
        /\ Falls(hsDone, Dtor) /\ Falls(hsTodo, Dtor) /\ FallsOver(hsDone, hsTodo, Dtor)
    BY <1>2 DEF HsOrder
  <2>2. hsDone' = Append(hsDone, Head(hsTodo))
    BY <1>1
  <2>3. Falls(hsDone', Ctor) /\ Falls(hsTodo', Ctor) /\ FallsOver(hsDone', hsTodo', Ctor)
    BY <1>1, <2>1, <2>2, FallsOn, Zenon
  <2>4. Falls(hsDone', Dtor) /\ Falls(hsTodo', Dtor) /\ FallsOver(hsDone', hsTodo', Dtor)
    BY <1>1, <2>1, <2>2, FallsOn, Zenon
  <2>5. QED BY <2>3, <2>4, Zenon DEF HsOrder
<1>6. HsNeeds'
  <2>1. hsDone' = Append(hsDone, Head(hsTodo))
    BY <1>1
  <2>2. NeedsMet(hsDone', hsTodo', Needs(hsBuild))
    BY <1>1, <1>2, <2>1, NeedsOn, Zenon DEF HsNeeds
  <2>3. QED BY <1>1, <2>2, Zenon DEF HsNeeds
<1>7. HsCpp'
  <2>1. \A x : Occurs(x, hsDone') \/ Occurs(x, hsTodo') <=> Occurs(x, hsDone) \/ Occurs(x, hsTodo)
    <3>1. /\ \A x : Occurs(x, hsDone') <=> Occurs(x, hsDone) \/ x = s
          /\ \A x : Occurs(x, hsTodo') => Occurs(x, hsTodo)
          /\ \A x : Occurs(x, hsTodo) => x = s \/ Occurs(x, hsTodo')
          /\ Occurs(s, hsTodo)
      BY MovesFacts
    <3>2. QED BY <3>1, Zenon
  <2>2. ASSUME NEW i \in HsIx
        PROVE  Occurs(Ctor[i], hsDone') \/ Occurs(Ctor[i], hsTodo') <=> hsBuild'.cpp
    <3>1. Occurs(Ctor[i], hsDone) \/ Occurs(Ctor[i], hsTodo) <=> hsBuild.cpp
      BY <1>2, Zenon DEF HsCpp
    <3>2. QED BY <1>1, <2>1, <3>1
  <2>3. QED BY <2>2, Zenon DEF HsCpp
<1>8. QED BY <1>4, <1>5, <1>6, <1>7

LEMMA MovesDestroyed ==
  ASSUME HsTypes, HsCore, NEW s, Moves(s), Occurs("main", hsDone) => hsAtExit' = hsAtExit
  PROVE  HsDestroyed'
<1>1. /\ hsDone \in Seq(Words) /\ hsDone' = Append(hsDone, s) /\ hsBuild' = hsBuild /\ HsDestroyed
      /\ s \in Words /\ s \notin Statics /\ s # "own"
      /\ \A x : Occurs(x, hsDone') <=> Occurs(x, hsDone) \/ x = s
      /\ \A x : Occurs(x, hsTodo') => Occurs(x, hsTodo)
  BY MovesFacts DEF HsTypes, Moves, HsCore
<1>2. /\ \A k \in 1 .. Len(hsDone') : hsDone'[k] # s => k \in 1 .. Len(hsDone) /\ hsDone'[k] = hsDone[k]
      /\ \A k \in 1 .. Len(hsDone) : k \in 1 .. Len(hsDone') /\ hsDone'[k] = hsDone[k]
  <2>1. hsDone \in Seq(Words) /\ s \in Words /\ hsDone' = Append(hsDone, s)
    BY <1>1
  <2>2. QED BY ONLY <2>1, OldIndex
<1>3. \A i \in HsIx : Static[i] # s /\ Static[i] \in Statics
  BY <1>1 DEF Statics
<1>4. Rises(hsDone', Static)
  <2>1. Rises(hsDone, Static)
    BY <1>1 DEF HsDestroyed
  <2>2. ASSUME NEW k \in 1 .. Len(hsDone'), NEW l \in 1 .. Len(hsDone'), NEW i \in HsIx, NEW j \in HsIx,
               k < l, hsDone'[k] = Static[i], hsDone'[l] = Static[j]
        PROVE  i < j
    <3>1. /\ k \in 1 .. Len(hsDone) /\ hsDone[k] = Static[i]
          /\ l \in 1 .. Len(hsDone) /\ hsDone[l] = Static[j]
      BY <1>2, <1>3, <2>2, Zenon
    <3>2. QED BY <2>1, <2>2, <3>1, Zenon DEF Rises
  <2>3. QED BY <2>2, Zenon DEF Rises
<1>5. \A i \in HsIx : Occurs(Static[i], hsDone) <=> Occurs(Static[i], hsDone')
  BY <1>1, <1>3, Zenon
<1>6. ~Occurs("main", hsDone) => \A i \in HsIx : ~Occurs(Static[i], hsDone')
  BY <1>1, <1>5, Zenon DEF HsDestroyed
<1>7. FallsOver(hsAtExit', hsDone', Static)
  <2>1. CASE Occurs("main", hsDone)
    <3>1. FallsOver(hsAtExit, hsDone, Static) /\ hsAtExit' = hsAtExit
      BY <1>1, <2>1 DEF HsDestroyed
    <3>2. ASSUME NEW k \in 1 .. Len(hsAtExit), NEW l \in 1 .. Len(hsDone'), NEW i \in HsIx, NEW j \in HsIx,
                 hsAtExit[k] = Static[i], hsDone'[l] = Static[j]
          PROVE  j < i
      <4>1. l \in 1 .. Len(hsDone) /\ hsDone[l] = Static[j]
        BY <1>2, <1>3, <3>2, Zenon
      <4>2. QED BY <3>1, <3>2, <4>1, Zenon DEF FallsOver
    <3>3. QED BY <3>1, <3>2, ZenonT(40) DEF FallsOver
  <2>2. CASE ~Occurs("main", hsDone)
    BY <1>6, <2>2, Zenon DEF FallsOver, Occurs
  <2>3. QED BY <2>1, <2>2
<1>8. ASSUME NEW i \in HsIx, Occurs(Static[i], hsDone')
      PROVE  Occurs("main", hsDone') /\ ~Occurs("main", hsTodo') /\ ~Occurs("own", hsAtExit')
  <2>1. Occurs("main", hsDone) /\ ~Occurs("main", hsTodo) /\ ~Occurs("own", hsAtExit)
    BY <1>1, <1>5, <1>8, Zenon DEF HsDestroyed
  <2>2. QED BY <1>1, <2>1, Zenon
<1>9. ASSUME NEW k \in 1 .. Len(hsDone'), NEW l \in 1 .. Len(hsDone'), hsDone'[k] = "own", hsDone'[l] \in Statics
      PROVE  k < l
  <2>1. /\ k \in 1 .. Len(hsDone) /\ hsDone[k] = "own"
        /\ l \in 1 .. Len(hsDone) /\ hsDone[l] \in Statics
    BY <1>1, <1>2, <1>9
  <2>2. QED BY <1>1, <2>1, Zenon DEF HsDestroyed
<1>10. ASSUME hsBuild.exits, NEW l \in 1 .. Len(hsDone'), NEW i \in HsIx, hsDone'[l] = Static[i]
       PROVE  \E k \in 1 .. l - 1 : hsDone'[k] = Dtor[i]
  <2>1. l \in 1 .. Len(hsDone) /\ hsDone[l] = Static[i]
    BY <1>2, <1>3, <1>10
  <2>2. PICK k \in 1 .. l - 1 : hsDone[k] = Dtor[i]
    BY <1>1, <1>10, <2>1, Zenon DEF HsDestroyed
  <2>3. k \in 1 .. Len(hsDone)
    BY <1>1, <2>1, <2>2
  <2>4. QED BY <1>2, <2>2, <2>3
<1>11. QED BY <1>1, <1>4, <1>7, <1>8, <1>9, <1>10, Zenon DEF HsDestroyed

\* What the step does to what exit() will call: nothing, or one name is added.
Registers(s, f) == \/ s = "atexit" /\ f = "dtors"
                   \/ \E i \in HsIx : s = Ctor[i] /\ f = Static[i]

LEMMA SamePending ==
  ASSUME HsTypes, HsCore, NEW s, Moves(s), hsAtExit' = hsAtExit, s # "atexit"
  PROVE  HsPending' /\ HsDtors'
<1>1. /\ HsPending /\ HsDtors /\ hsTodo \in Seq(Words) /\ hsTodo # <<>> /\ hsTodo' = Tail(hsTodo)
      /\ hsBuild' = hsBuild
  BY DEF HsCore, HsTypes, Moves
<1>2. /\ \A x : Occurs(x, hsDone') <=> Occurs(x, hsDone) \/ x = s
      /\ \A x : Occurs(x, hsTodo') => Occurs(x, hsTodo)
      /\ \A x : Occurs(x, hsTodo) => x = s \/ Occurs(x, hsTodo')
      /\ Occurs(s, hsTodo) /\ s \notin Statics
  BY MovesFacts
<1>3. HsPending'
  <2>1. \A i \in HsIx : Occurs(Static[i], hsDone') => Occurs(Static[i], hsDone)
    BY <1>2, NotSteps, Zenon
  <2>2. ASSUME NEW i \in HsIx, Occurs(Static[i], hsAtExit') \/ Occurs(Static[i], hsDone')
        PROVE  Occurs(Ctor[i], hsDone')
    <3>1. Occurs(Ctor[i], hsDone)
      BY <1>1, <2>1, <2>2, Zenon DEF HsPending
    <3>2. QED BY <1>2, <3>1, Zenon
  <2>3. ASSUME NEW k \in 1 .. Len(hsAtExit')
        PROVE  /\ hsAtExit'[k] \in Statics \cup {"dtors", "own"}
               /\ hsAtExit'[k] = "own" => k = Len(hsAtExit') /\ Occurs("main", hsDone')
    <3>1. /\ hsAtExit[k] \in Statics \cup {"dtors", "own"}
          /\ hsAtExit[k] = "own" => k = Len(hsAtExit) /\ Occurs("main", hsDone)
      BY <1>1, <2>3, Zenon DEF HsPending
    <3>2. QED BY <1>2, <3>1, Zenon
  <2>4. QED BY <1>1, <2>2, <2>3, Zenon DEF HsPending
<1>4. HsDtors'
  <2>1. Sorted(hsTodo')
    BY <1>1, SortedTail, Zenon DEF HsDtors
  <2>2. Occurs("atexit", hsTodo') <=> Occurs("atexit", hsTodo)
    BY <1>2, Zenon
  <2>3. \A x : Occurs(x, hsDone') \/ Occurs(x, hsTodo') <=> Occurs(x, hsDone) \/ Occurs(x, hsTodo)
    BY <1>2, Zenon
  <2>4. ASSUME Cleans(hsBuild), ~Occurs("dtors", hsAtExit), ~Occurs("atexit", hsTodo), NEW i \in HsIx
        PROVE  Occurs(Dtor[i], hsDone') \/ Occurs(Dtor[i], hsTodo')
    BY <1>1, <2>3, <2>4, Zenon DEF HsDtors
  <2>5. ASSUME NEW i \in HsIx, Occurs(Dtor[i], hsDone') \/ Occurs(Dtor[i], hsTodo')
        PROVE  Cleans(hsBuild) /\ Occurs("main", hsDone') /\ ~Occurs("dtors", hsAtExit)
    <3>1. Cleans(hsBuild) /\ Occurs("main", hsDone) /\ ~Occurs("dtors", hsAtExit)
      BY <1>1, <2>3, <2>5, Zenon DEF HsDtors
    <3>2. QED BY <1>2, <3>1, Zenon
  <2>6. \A x \in Ctors \cup {"atexit"} : Occurs(x, hsTodo') => ~Occurs("dtors", hsAtExit)
    BY <1>1, <1>2, Zenon DEF HsDtors
  <2>7. Occurs("exitprocs", hsTodo') => hsBuild.clean
    BY <1>1, <1>2, Zenon DEF HsDtors
  <2>8. Occurs("dtors", hsAtExit) \/ Occurs("atexit", hsTodo) => Cleans(hsBuild)
    BY <1>1, Zenon DEF HsDtors
  <2>9. QED BY <1>1, <2>1, <2>2, <2>4, <2>5, <2>6, <2>7, <2>8, Zenon DEF HsDtors
<1>5. QED BY <1>3, <1>4

LEMMA MorePending ==
  ASSUME HsTypes, HsCore, NEW s, Moves(s), NEW f, Registers(s, f), hsAtExit' = Append(hsAtExit, f)
  PROVE  HsPending' /\ HsDtors' /\ f \in Words /\ ~Occurs("main", hsDone)
<1>1. /\ HsPending /\ HsDtors /\ HsOrder /\ hsTodo \in Seq(Words) /\ hsTodo # <<>> /\ hsTodo' = Tail(hsTodo)
      /\ hsBuild' = hsBuild /\ s = Head(hsTodo) /\ hsAtExit \in Seq(Words)
  BY DEF HsCore, HsTypes, Moves
<1>2. /\ \A x : Occurs(x, hsDone') <=> Occurs(x, hsDone) \/ x = s
      /\ \A x : Occurs(x, hsTodo') => Occurs(x, hsTodo)
      /\ \A x : Occurs(x, hsTodo) => x = s \/ Occurs(x, hsTodo')
      /\ Occurs(s, hsTodo) /\ s \notin Statics
      /\ s \in Ctors \cup {"atexit"} => ~Occurs("main", hsDone)
  BY MovesFacts
<1>3. s \in Ctors \cup {"atexit"} /\ f \in Statics \cup {"dtors"}
  BY NotSteps, Zenon DEF Registers
<1>4. ~Occurs("main", hsDone) /\ f \in Words
  BY <1>2, <1>3, StepWords DEF Words
<1>5. f # "own" /\ f # "main"
  <2>1. "own" \in HsSteps /\ "main" \in HsSteps /\ "dtors" # "own" /\ "dtors" # "main"
    BY DEF HsSteps
  <2>2. QED BY <1>3, <2>1, NotSteps, Zenon
<1>6. /\ \A k \in 1 .. Len(hsAtExit') : hsAtExit'[k] # f => k \in 1 .. Len(hsAtExit) /\ hsAtExit'[k] = hsAtExit[k]
      /\ \A k \in 1 .. Len(hsAtExit') : k \notin 1 .. Len(hsAtExit) => k = Len(hsAtExit')
      /\ \A k \in 1 .. Len(hsAtExit) : k \in 1 .. Len(hsAtExit') /\ hsAtExit'[k] = hsAtExit[k]
      /\ \A k \in 1 .. Len(hsAtExit) : k < Len(hsAtExit')
      /\ Len(hsAtExit') \in 1 .. Len(hsAtExit') /\ hsAtExit'[Len(hsAtExit')] = f
  <2>1. hsAtExit \in Seq(Words) /\ f \in Words /\ hsAtExit' = Append(hsAtExit, f)
    BY <1>1, <1>4
  <2>2. QED BY ONLY <2>1, OldIndex
<1>7. ~Occurs("own", hsAtExit) /\ ~Occurs("dtors", hsAtExit)
  <2>1. ~Occurs("own", hsAtExit)
    BY <1>1, <1>4, Zenon DEF HsPending, Occurs
  <2>2. ~Occurs("dtors", hsAtExit)
    BY <1>1, <1>2, <1>3, Zenon DEF HsDtors
  <2>3. QED BY <2>1, <2>2
<1>8. \A x : Occurs(x, hsAtExit') <=> Occurs(x, hsAtExit) \/ x = f
  <2>1. hsAtExit \in Seq(Words) /\ f \in Words /\ hsAtExit' = Append(hsAtExit, f)
    BY <1>1, <1>4
  <2>2. QED BY ONLY <2>1, OccursOn
<1>9. Falls(hsAtExit', Static)
  <2>1. ASSUME NEW k \in 1 .. Len(hsAtExit'), NEW l \in 1 .. Len(hsAtExit'), NEW i \in HsIx, NEW j \in HsIx,
               k < l, hsAtExit'[k] = Static[i], hsAtExit'[l] = Static[j]
        PROVE  j < i
    <3>1. CASE l \in 1 .. Len(hsAtExit)
      <4>1. k \in 1 .. Len(hsAtExit)
        BY <1>1, <2>1, <3>1
      <4>2. hsAtExit[k] = Static[i] /\ hsAtExit[l] = Static[j]
        BY <1>6, <2>1, <3>1, <4>1
      <4>3. QED BY <1>1, <2>1, <3>1, <4>1, <4>2, Zenon DEF HsPending, Falls
    <3>2. CASE l \notin 1 .. Len(hsAtExit)
      <4>1. l = Len(hsAtExit') /\ f = Static[j]
        BY <1>6, <2>1, <3>2, Zenon
      <4>2. s = Ctor[j]
        <5>1. f # "dtors"
          <6>1. "dtors" \in HsSteps
            BY DEF HsSteps
          <6>2. QED BY <4>1, <6>1, NotSteps, Zenon
        <5>2. PICK h \in HsIx : s = Ctor[h] /\ f = Static[h]
          BY <5>1 DEF Registers
        <5>3. h = j
          BY <4>1, <5>2, HsNames, Zenon
        <5>4. QED BY <5>2, <5>3
      <4>3. k \in 1 .. Len(hsAtExit)
        <5>1. k # Len(hsAtExit') /\ k \in 1 .. Len(hsAtExit')
          BY <2>1, <4>1
        <5>2. QED BY <1>6, <5>1, Zenon
      <4>4. hsAtExit[k] = Static[i]
        BY <1>6, <2>1, <4>3
      <4>5. Occurs(Ctor[i], hsDone)
        BY <1>1, <2>1, <4>3, <4>4, Zenon DEF HsPending, Occurs
      <4>6. PICK n \in 1 .. Len(hsDone) : hsDone[n] = Ctor[i]
        BY <4>5 DEF Occurs
      <4>7. 1 \in 1 .. Len(hsTodo) /\ hsTodo[1] = Ctor[j]
        BY <1>1, <4>2, HeadTail
      <4>8. QED BY <1>1, <2>1, <4>6, <4>7, Zenon DEF HsOrder, FallsOver
    <3>3. QED BY <3>1, <3>2
  <2>2. QED BY <2>1, Zenon DEF Falls
<1>10. ASSUME NEW i \in HsIx, Occurs(Static[i], hsAtExit') \/ Occurs(Static[i], hsDone')
       PROVE  Occurs(Ctor[i], hsDone')
  <2>1. CASE f = Static[i]
    <3>1. "dtors" \in HsSteps
      BY DEF HsSteps
    <3>2. s = Ctor[i]
      BY <2>1, <3>1, HsNames, Zenon DEF Registers
    <3>3. QED BY <1>2, <3>2
  <2>2. CASE f # Static[i]
    <3>1. Occurs(Static[i], hsAtExit) \/ Occurs(Static[i], hsDone)
      BY <1>2, <1>8, <1>10, <2>2, NotSteps, Zenon
    <3>2. Occurs(Ctor[i], hsDone)
      BY <1>1, <3>1, Zenon DEF HsPending
    <3>3. QED BY <1>2, <3>2, Zenon
  <2>3. QED BY <2>1, <2>2
<1>11. ASSUME NEW k \in 1 .. Len(hsAtExit')
       PROVE  /\ hsAtExit'[k] \in Statics \cup {"dtors", "own"}
              /\ hsAtExit'[k] = "own" => k = Len(hsAtExit') /\ Occurs("main", hsDone')
  <2>1. hsAtExit'[k] \in Statics \cup {"dtors", "own"}
    <3>1. CASE hsAtExit'[k] = f
      BY <1>3, <3>1
    <3>2. CASE hsAtExit'[k] # f
      BY <1>1, <1>6, <1>11, <3>2, Zenon DEF HsPending
    <3>3. QED BY <3>1, <3>2
  <2>2. hsAtExit'[k] # "own"
    BY <1>5, <1>7, <1>8, <1>11, Zenon DEF Occurs
  <2>3. QED BY <2>1, <2>2
<1>12. ASSUME NEW k \in 1 .. Len(hsAtExit'), NEW l \in 1 .. Len(hsAtExit'), hsAtExit'[l] = "dtors"
       PROVE  l = Len(hsAtExit') /\ f = "dtors"
  <2>1. l \notin 1 .. Len(hsAtExit)
    BY <1>6, <1>7, <1>12, Zenon DEF Occurs
  <2>2. QED BY <1>6, <1>12, <2>1, Zenon
<1>13. ASSUME NEW k \in 1 .. Len(hsAtExit'), NEW l \in 1 .. Len(hsAtExit')
       PROVE  /\ hsAtExit'[k] \in Statics /\ hsAtExit'[l] = "dtors" => k < l
              /\ hsAtExit'[k] = "dtors" /\ hsAtExit'[l] = "dtors" => k = l
  <2>1. ASSUME hsAtExit'[k] \in Statics, hsAtExit'[l] = "dtors"
        PROVE  k < l
    <3>1. l = Len(hsAtExit') /\ f = "dtors"
      BY <1>12, <2>1, Zenon
    <3>2. "dtors" \notin Statics
      BY NotSteps DEF HsSteps
    <3>3. k \in 1 .. Len(hsAtExit)
      BY <1>6, <2>1, <3>1, <3>2, Zenon
    <3>4. QED BY <1>6, <3>1, <3>3, Zenon
  <2>2. QED BY <1>12, <2>1, Zenon
<1>14. HsPending'
  BY <1>9, <1>10, <1>11, <1>13, Zenon DEF HsPending
<1>15. Cleans(hsBuild) \/ f # "dtors"
  <2>1. ASSUME f = "dtors"
        PROVE  s = "atexit"
    <3>1. "dtors" \in HsSteps
      BY DEF HsSteps
    <3>2. QED BY <2>1, <3>1, HsNames, Zenon DEF Registers
  <2>2. QED BY <1>1, <1>2, <2>1, Zenon DEF HsDtors
<1>16. \A i \in HsIx : ~Occurs(Dtor[i], hsDone') /\ ~Occurs(Dtor[i], hsTodo')
  <2>1. \A i \in HsIx : ~Occurs(Dtor[i], hsDone) /\ ~Occurs(Dtor[i], hsTodo)
    BY <1>1, <1>4, Zenon DEF HsDtors
  <2>2. QED BY <1>2, <2>1, Zenon
<1>17. HsDtors'
  <2>1. Sorted(hsTodo')
    BY <1>1, SortedTail, Zenon DEF HsDtors
  <2>2. CASE s = "atexit"
    <3>1. f = "dtors" /\ Cleans(hsBuild) /\ Occurs("dtors", hsAtExit')
      <4>1. "atexit" \in HsSteps
        BY DEF HsSteps
      <4>2. f = "dtors"
        BY <2>2, <4>1, HsNames, Zenon DEF Registers
      <4>3. QED BY <4>2, <1>8, <1>15, Zenon
    <3>2. ASSUME NEW x \in Ctors \cup {"atexit"}, Occurs(x, hsTodo')
          PROVE  FALSE
      <4>1. /\ Len(hsTodo) \in Nat \ {0} /\ hsTodo[1] = "atexit" /\ Len(hsTodo') = Len(hsTodo) - 1
            /\ \A k \in 1 .. Len(hsTodo') : hsTodo'[k] = hsTodo[k + 1]
        BY <1>1, <2>2, HeadTail
      <4>2. PICK k \in 1 .. Len(hsTodo') : hsTodo'[k] = x
        BY <3>2 DEF Occurs
      <4>3. k + 1 \in 1 .. Len(hsTodo) /\ hsTodo[k + 1] = x /\ 1 \in 1 .. Len(hsTodo) /\ k \in Nat
        BY <4>1, <4>2
      <4>4. (x \in Ctors => k + 1 < 1) /\ (x = "atexit" => k + 1 = 1)
        BY <1>1, <4>1, <4>3, Zenon DEF HsDtors, Sorted
      <4>5. x \in Ctors \/ x = "atexit"
        BY <3>2
      <4>6. QED BY <4>2, <4>3, <4>4, <4>5
    <3>3. Occurs("exitprocs", hsTodo') => hsBuild.clean
      BY <1>1, <1>2, Zenon DEF HsDtors
    <3>4. QED BY <1>1, <1>16, <2>1, <3>1, <3>2, <3>3, Zenon DEF HsDtors
  <2>3. CASE s # "atexit"
    <3>1. ~Occurs("dtors", hsAtExit')
      <4>1. f \in Statics
        BY <2>3, NotSteps, Zenon DEF Registers
      <4>2. "dtors" \notin Statics
        BY NotSteps DEF HsSteps
      <4>3. QED BY <1>7, <1>8, <4>1, <4>2, Zenon
    <3>2. Occurs("atexit", hsTodo') <=> Occurs("atexit", hsTodo)
      BY <1>2, <2>3, Zenon
    <3>3. Occurs("exitprocs", hsTodo') => hsBuild.clean
      BY <1>1, <1>2, Zenon DEF HsDtors
    <3>4. Occurs("atexit", hsTodo) => Cleans(hsBuild)
      BY <1>1, Zenon DEF HsDtors
    <3>5. Cleans(hsBuild) => Occurs("atexit", hsTodo) \/ \A i \in HsIx : FALSE
      <4>1. \A i \in HsIx : ~Occurs(Dtor[i], hsDone) /\ ~Occurs(Dtor[i], hsTodo)
        BY <1>1, <1>4, Zenon DEF HsDtors
      <4>2. QED BY <1>1, <1>7, <4>1, Zenon DEF HsDtors
    <3>6. QED BY <1>1, <1>16, <2>1, <3>1, <3>2, <3>3, <3>4, <3>5, Zenon DEF HsDtors
  <2>4. QED BY <2>2, <2>3
<1>18. QED BY <1>4, <1>14, <1>17

LEMMA MessageNat == HsMessage \in Nat \ {0} /\ HsFifo \in Nat
BY HsAssumption

LEMMA StepStep == HsInv /\ HsStep => HsInv'
<1> SUFFICES ASSUME HsInv, HsStep
             PROVE  HsInv'
  OBVIOUS
<1>1. HsTypes /\ HsCore /\ HsCount
  BY DEF HsInv, HsCore
<1>2. PICK s : s = Head(hsTodo)
  OBVIOUS
<1>3. /\ Moves(s)
      /\ CASE s = "atexit" -> hsAtExit' = Append(hsAtExit, "dtors")
           [] s \in Range(_do_ctors) -> hsAtExit' \in {hsAtExit, Append(hsAtExit, StaticOf(s))}
           [] OTHER -> UNCHANGED hsAtExit
      /\ UNCHANGED <<hsBuild, hsHost, hsRoom, hsChars, hsHandler, hsFault>>
  BY <1>2, Zenon DEF HsStep, Moves
<1>4. /\ s \in Words /\ s \notin {"own", "main", "dtors", "exitprocs", "log"}
      /\ \A x : Occurs(x, hsDone') <=> Occurs(x, hsDone) \/ x = s
      /\ s \in Ctors \cup {"atexit"} => ~Occurs("main", hsDone)
  BY <1>1, <1>3, MovesFacts
<1>5. \/ s # "atexit" /\ hsAtExit' = hsAtExit
      \/ \E f : Registers(s, f) /\ hsAtExit' = Append(hsAtExit, f)
  <2>1. CASE s = "atexit"
    <3>1. s \notin Range(_do_ctors)
      BY <2>1, StaticOfIs, NotSteps DEF HsSteps
    <3>2. hsAtExit' = Append(hsAtExit, "dtors")
      BY <1>3, <2>1, <3>1, Zenon
    <3>3. QED BY <2>1, <3>2, Zenon DEF Registers
  <2>2. CASE s # "atexit" /\ s \in Ctors
    <3>1. PICK i \in HsIx : s = Ctor[i]
      BY <2>2 DEF Ctors
    <3>2. hsAtExit' \in {hsAtExit, Append(hsAtExit, Static[i])}
      BY <1>3, <2>2, <3>1, StaticOfIs, Zenon
    <3>3. Registers(s, Static[i])
      BY <3>1, Zenon DEF Registers
    <3>4. QED BY <2>2, <3>2, <3>3
  <2>3. CASE s # "atexit" /\ s \notin Ctors
    BY <1>3, <2>3, StaticOfIs, Zenon
  <2>4. QED BY <2>1, <2>2, <2>3
<1>6. HsPending' /\ HsDtors' /\ hsAtExit' \in Seq(Words) /\ (Occurs("main", hsDone) => hsAtExit' = hsAtExit)
  <2>1. hsAtExit \in Seq(Words)
    BY <1>1 DEF HsTypes
  <2>2. CASE s # "atexit" /\ hsAtExit' = hsAtExit
    <3>1. HsPending' /\ HsDtors'
      BY <1>1, <1>3, <2>2, SamePending, Zenon
    <3>2. QED BY <2>1, <2>2, <3>1
  <2>3. CASE \E f : Registers(s, f) /\ hsAtExit' = Append(hsAtExit, f)
    <3>1. PICK f : Registers(s, f) /\ hsAtExit' = Append(hsAtExit, f)
      BY <2>3
    <3>2. HsPending' /\ HsDtors' /\ f \in Words /\ ~Occurs("main", hsDone)
      BY <1>1, <1>3, <3>1, MorePending, Zenon
    <3>3. hsAtExit' \in Seq(Words)
      BY <2>1, <3>1, <3>2
    <3>4. QED BY <3>2, <3>3
  <2>4. QED BY <1>5, <2>2, <2>3
<1>7. HsDestroyed'
  BY <1>1, <1>3, <1>6, MovesDestroyed, Zenon
<1>8. HsShape' /\ HsOrder' /\ HsNeeds' /\ HsCpp'
  BY <1>1, <1>3, MovesKeeps, Zenon
<1>9. /\ hsTodo \in Seq(Words) /\ hsTodo # <<>> /\ hsDone \in Seq(Words) /\ hsTodo' = Tail(hsTodo)
      /\ hsDone' = Append(hsDone, s)
  BY <1>1, <1>3 DEF HsTypes, Moves
<1>10. HsTypes'
  <2>1. hsTodo' \in Seq(Words) /\ hsDone' \in Seq(Words)
    BY <1>4, <1>9
  <2>2. QED BY <1>1, <1>3, <1>6, <2>1, Zenon DEF HsTypes
<1>11. HsCount'
  <2>1. hsChars = 0
    BY <1>1, <1>2, <1>4, Zenon DEF HsCount
  <2>2. Messages(hsTodo') = Messages(hsTodo)
    <3>1. Head(hsTodo) # "log"
      BY <1>2, <1>4
    <3>2. /\ Messages(hsTodo') \in Nat
          /\ Messages(hsTodo) = Messages(Tail(hsTodo)) + (IF Head(hsTodo) = "log" THEN 1 ELSE 0)
      <4>1. hsTodo \in Seq(Words) /\ hsTodo # <<>> /\ hsTodo' \in Seq(Words)
        BY <1>9
      <4>2. Messages(hsTodo') \in Nat
        BY <4>1, MessagesIs, Zenon
      <4>3. Messages(hsTodo) = Messages(Tail(hsTodo)) + (IF Head(hsTodo) = "log" THEN 1 ELSE 0)
        BY <4>1, MessagesIs, Zenon
      <4>4. QED BY <4>2, <4>3
    <3>3. QED BY <1>9, <3>1, <3>2
  <2>3. Occurs("main", hsDone') <=> Occurs("main", hsDone)
    BY <1>4
  <2>4. QED BY <1>1, <1>3, <2>1, <2>2, <2>3, Zenon DEF HsCount
<1>12. QED BY <1>6, <1>7, <1>8, <1>10, <1>11 DEF HsInv

LEMMA LogStep == HsInv /\ HsLog => HsInv'
<1> SUFFICES ASSUME HsInv, HsLog
             PROVE  HsInv'
  OBVIOUS
<1>1. HsTypes /\ HsCore /\ HsCount
  BY DEF HsInv, HsCore
<1>2. /\ hsTodo # <<>> /\ Head(hsTodo) = "log" /\ hsRoom > 0 /\ hsRoom' = hsRoom - 1
      /\ IF hsChars + 1 = HsMessage THEN hsChars' = 0 /\ hsTodo' = Tail(hsTodo)
                                    ELSE hsChars' = hsChars + 1 /\ hsTodo' = hsTodo
      /\ hsBuild' = hsBuild /\ hsHost' = hsHost /\ hsDone' = hsDone /\ hsAtExit' = hsAtExit
      /\ hsHandler' = hsHandler /\ hsFault' = hsFault
  BY DEF HsLog, HsNow
<1>3. hsTodo \in Seq(Words) /\ hsRoom \in 0 .. HsFifo /\ hsChars \in 0 .. HsMessage - 1
  BY <1>1 DEF HsTypes
<1>4. hsRoom' \in 0 .. HsFifo /\ hsChars' \in 0 .. HsMessage - 1
  BY <1>2, <1>3, MessageNat
<1>5. CASE hsChars + 1 = HsMessage
  <2>1. hsChars' = 0 /\ hsTodo' = Tail(hsTodo)
    BY <1>2, <1>5, Zenon
  <2>2. HsCore'
    BY <1>1, <1>2, <2>1, TailKeeps, Zenon
  <2>3. hsTodo' \in Seq(Words)
    BY <1>2, <1>3, <2>1
  <2>4. HsTypes'
    BY <1>1, <1>2, <1>4, <2>3, Zenon DEF HsTypes
  <2>5. PICK m, n, t : m = Messages(hsTodo) /\ n = Messages(hsTodo') /\ t = Messages(alt_main(hsBuild)) * HsMessage
    OBVIOUS
  <2>6. m = n + 1 /\ n \in Nat
    <3>1. m = n + (IF Head(hsTodo) = "log" THEN 1 ELSE 0)
      BY <1>2, <1>3, <2>1, <2>5, MessagesIs
    <3>2. n \in Nat
      BY <2>3, <2>5, MessagesIs
    <3>3. QED BY <3>1, <3>2, <1>2
  <2>7. ASSUME ~hsHost, ~Occurs("main", hsDone)
        PROVE  HsFifo - hsRoom' + n * HsMessage = t + hsChars'
    <3>1. HsFifo - hsRoom + m * HsMessage = t + hsChars
      BY <1>1, <2>5, <2>7, Zenon DEF HsCount
    <3>2. t \in Int
      <4>1. alt_main(hsBuild) \in Seq(Words)
        BY PlanFacts DEF Planned
      <4>2. Messages(alt_main(hsBuild)) \in Nat
        BY <4>1, MessagesIs
      <4>3. QED BY <2>5, <4>2, MessageNat
    <3>3. m * HsMessage = n * HsMessage + HsMessage
      BY <2>6, MessageNat
    <3>4. n * HsMessage \in Int
      BY <2>6, MessageNat
    <3>5. PICK z : z = n * HsMessage
      OBVIOUS
    <3>6. HsFifo - hsRoom + (z + HsMessage) = t + hsChars
      BY <3>1, <3>3, <3>5
    <3>7. z \in Int
      BY <3>4, <3>5
    <3>8. HsFifo - (hsRoom - 1) + z = t + 0
      BY ONLY <1>3, <1>5, <3>2, <3>6, <3>7, MessageNat
    <3>9. QED BY <3>8, <3>5, <1>2, <2>1
  <2>8. HsCount'
    <3>1. (hsChars' # 0) = FALSE
      BY <2>1
    <3>2. Messages(alt_main(hsBuild')) = Messages(alt_main(hsBuild))
      BY <1>2
    <3>3. ~hsHost' /\ ~Occurs("main", hsDone') =>
            HsFifo - hsRoom' + Messages(hsTodo') * HsMessage = Messages(alt_main(hsBuild')) * HsMessage + hsChars'
      BY <1>2, <2>5, <2>7, <3>2, Zenon
    <3>4. Occurs("main", hsDone') => hsHost' \/ Messages(alt_main(hsBuild')) * HsMessage <= HsFifo
      BY <1>1, <1>2, <3>2, Zenon DEF HsCount
    <3>5. QED BY <3>1, <3>3, <3>4, Zenon DEF HsCount
  <2>9. QED BY <2>2, <2>4, <2>8 DEF HsInv, HsCore
<1>6. CASE hsChars + 1 # HsMessage
  <2>1. hsChars' = hsChars + 1 /\ hsTodo' = hsTodo
    BY <1>2, <1>6, Zenon
  <2>2. HsCore'
    <3>1. UNCHANGED <<hsBuild, hsTodo, hsDone, hsAtExit>>
      BY <1>2, <2>1
    <3>2. QED BY <1>1, <3>1 DEF HsCore, HsShape, HsOrder, HsNeeds, HsCpp, HsPending, HsDtors, HsDestroyed
  <2>3. HsTypes'
    BY <1>1, <1>2, <1>4, <2>1, Zenon DEF HsTypes
  <2>4. HsCount'
    <3>1. PICK z, t : z = Messages(hsTodo) * HsMessage /\ t = Messages(alt_main(hsBuild)) * HsMessage
      OBVIOUS
    <3>2. z \in Int /\ t \in Int
      <4>1. alt_main(hsBuild) \in Seq(Words)
        BY PlanFacts DEF Planned
      <4>2. Messages(alt_main(hsBuild)) \in Nat /\ Messages(hsTodo) \in Nat
        BY <1>3, <4>1, MessagesIs
      <4>3. QED BY <3>1, <4>2, MessageNat
    <3>3. HsFifo - hsRoom + z = t + hsChars => HsFifo - hsRoom' + z = t + hsChars'
      BY <1>2, <1>3, <2>1, <3>2, MessageNat
    <3>4. ~hsHost' /\ ~Occurs("main", hsDone') => HsFifo - hsRoom' + z = t + hsChars'
      BY <1>1, <1>2, <3>1, <3>3, Zenon DEF HsCount
    <3>5. Messages(hsTodo') * HsMessage = z /\ Messages(alt_main(hsBuild')) * HsMessage = t
      BY <1>2, <2>1, <3>1
    <3>6. Occurs("main", hsDone') => hsHost' \/ t <= HsFifo
      BY <1>1, <1>2, <3>1, Zenon DEF HsCount
    <3>7. hsChars' # 0 => hsTodo' # <<>> /\ Head(hsTodo') = "log"
      BY <1>2, <2>1
    <3>8. QED BY <3>4, <3>5, <3>6, <3>7, Zenon DEF HsCount
  <2>5. QED BY <2>2, <2>3, <2>4 DEF HsInv, HsCore
<1>7. QED BY <1>5, <1>6

LEMMA RangeOccurs ==
  ASSUME NEW S, NEW s \in Seq(S)
  PROVE  \A x : x \in Range(s) <=> Occurs(x, s)
BY DEF Range, Occurs

LEMMA OnlyMain ==
  /\ <<"main">> \in Seq(Words) /\ Len(<<"main">>) = 1 /\ Head(<<"main">>) = "main"
  /\ \A x : Occurs(x, <<"main">>) <=> x = "main"
<1>1. <<"main">> \in Seq(Words)
  BY StepWords DEF BootSteps
<1>2. QED BY <1>1 DEF Occurs

LEMMA NoneDestroyed ==
  ASSUME HsDestroyed, ~Occurs("main", hsDone) \/ Occurs("main", hsTodo)
  PROVE  \A k \in 1 .. Len(hsDone) : hsDone[k] \notin Statics
BY Zenon DEF HsDestroyed, Occurs, Statics

LEMMA MainNow ==
  ASSUME HsTypes, HsShape, HsNow("main")
  PROVE  hsTodo = <<"main">>
<1>1. /\ hsTodo \in Seq(Words) /\ Len(hsTodo) \in Nat \ {0} /\ hsTodo[1] = "main" /\ 1 \in 1 .. Len(hsTodo)
  BY HeadTail DEF HsTypes, HsNow
<1>2. CASE ~Occurs("main", hsDone)
  <2>1. Len(hsTodo) = 1
    BY <1>1, <1>2, Zenon DEF HsShape
  <2>2. QED BY <1>1, <2>1
<1>3. CASE Occurs("main", hsDone)
  <2>1. "main" \notin EndSteps \cup Dtors
    BY NotSteps DEF EndSteps, HsSteps
  <2>2. QED BY <1>1, <1>3, <2>1, Zenon DEF HsShape
<1>4. QED BY <1>2, <1>3

LEMMA CallMainStep == HsInv /\ HsCallMain => HsInv'
<1> SUFFICES ASSUME HsInv, HsCallMain
             PROVE  HsInv'
  OBVIOUS
<1>1. /\ HsTypes /\ HsShape /\ HsOrder /\ HsNeeds /\ HsCpp /\ HsPending /\ HsDtors /\ HsDestroyed /\ HsCount
  BY DEF HsInv
<1>2. /\ HsNow("main") /\ "main" \notin Range(hsDone) /\ hsDone' = Append(hsDone, "main")
      /\ UNCHANGED <<hsBuild, hsHost, hsRoom, hsChars, hsTodo, hsAtExit, hsHandler, hsFault>>
  BY DEF HsCallMain
<1>3. /\ hsTodo = <<"main">> /\ hsDone \in Seq(Words) /\ "main" \in Words
  BY <1>1, <1>2, MainNow, StepWords DEF HsTypes, BootSteps
<1>4. ~Occurs("main", hsDone)
  BY <1>2, <1>3, RangeOccurs
<1>5. \A x : Occurs(x, hsDone') <=> Occurs(x, hsDone) \/ x = "main"
  BY ONLY <1>2, <1>3, OccursOn
<1>6. /\ hsDone' \in Seq(Words)
      /\ \A k \in 1 .. Len(hsDone') : hsDone'[k] # "main" => k \in 1 .. Len(hsDone) /\ hsDone'[k] = hsDone[k]
  <2>1. hsDone' \in Seq(Words)
    BY ONLY <1>2, <1>3, AppendIs
  <2>2. QED BY ONLY <1>2, <1>3, <2>1, OldIndex
<1>7. "main" \notin Ctors /\ "main" \notin Dtors /\ "main" \notin Statics
  BY NotSteps DEF HsSteps
<1>8. HsTypes'
  BY <1>1, <1>2, <1>6, Zenon DEF HsTypes
<1>9. HsShape'
  BY <1>2, <1>3, <1>5, Zenon DEF HsShape
<1>10. HsOrder'
  <2>1. (\A i \in HsIx : "main" # Ctor[i]) /\ (\A i \in HsIx : "main" # Dtor[i])
    BY <1>7 DEF Ctors, Dtors
  <2>2. Falls(hsDone', Ctor) /\ FallsOver(hsDone', hsTodo, Ctor)
    BY <1>1, <1>2, <1>3, <2>1, FallsElse, Zenon DEF HsOrder
  <2>3. Falls(hsDone', Dtor) /\ FallsOver(hsDone', hsTodo, Dtor)
    BY <1>1, <1>2, <1>3, <2>1, FallsElse, Zenon DEF HsOrder
  <2>4. QED BY <1>1, <1>2, <2>2, <2>3, Zenon DEF HsOrder
<1>11. HsNeeds'
  <2>1. hsTodo \in Seq(Words) /\ hsTodo # <<>> /\ Head(hsTodo) = "main"
    BY <1>3, OnlyMain
  <2>2. hsDone' = Append(hsDone, Head(hsTodo))
    BY <1>2, <2>1
  <2>3. NeedsMet(hsDone', hsTodo, Needs(hsBuild))
    BY <1>1, <1>3, <2>1, <2>2, NeedsOn, Zenon DEF HsNeeds
  <2>4. QED BY <1>2, <2>3, Zenon DEF HsNeeds
<1>12. HsCpp'
  BY <1>1, <1>2, <1>5, <1>7, Zenon DEF HsCpp, Ctors
<1>13. HsPending'
  <2>1. \A i \in HsIx : Occurs(Static[i], hsDone') <=> Occurs(Static[i], hsDone)
    BY <1>5, <1>7, Zenon DEF Statics
  <2>2. QED BY <1>1, <1>2, <1>5, <2>1, Zenon DEF HsPending
<1>14. HsDtors'
  <2>1. \A i \in HsIx : Occurs(Dtor[i], hsDone') <=> Occurs(Dtor[i], hsDone)
    BY <1>5, <1>7, Zenon DEF Dtors
  <2>2. QED BY <1>1, <1>2, <1>5, <2>1, Zenon DEF HsDtors
<1>15. HsDestroyed'
  <2>1. \A k \in 1 .. Len(hsDone') : hsDone'[k] \notin Statics
    BY <1>1, <1>4, <1>6, <1>7, NoneDestroyed, Zenon
  <2>2. \A k \in 1 .. Len(hsDone'), i \in HsIx : hsDone'[k] # Static[i]
    BY <2>1, Zenon DEF Statics
  <2>3. QED BY <2>1, <2>2, Zenon DEF HsDestroyed, Rises, FallsOver, Occurs
<1>16. HsCount'
  <2>1. Messages(hsTodo) = 0
    BY <1>3, NoMessages
  <2>2. hsChars = 0
    BY <1>1, <1>3 DEF HsCount
  <2>3. PICK t : t = Messages(alt_main(hsBuild)) * HsMessage
    OBVIOUS
  <2>4. hsHost \/ t <= HsFifo
    <3>1. ASSUME ~hsHost
          PROVE  t <= HsFifo
      <4>1. HsFifo - hsRoom + Messages(hsTodo) * HsMessage = t + hsChars
        BY <1>1, <1>4, <2>3, <3>1, Zenon DEF HsCount
      <4>2. t \in Int
        <5>1. alt_main(hsBuild) \in Seq(Words)
          BY PlanFacts DEF Planned
        <5>2. Messages(alt_main(hsBuild)) \in Nat
          BY <5>1, MessagesIs
        <5>3. QED BY <2>3, <5>2, MessageNat
      <4>3. hsRoom \in 0 .. HsFifo
        BY <1>1 DEF HsTypes
      <4>4. HsFifo - hsRoom + 0 * HsMessage = t + 0
        BY <2>1, <2>2, <4>1
      <4>5. QED BY <4>2, <4>3, <4>4, MessageNat
    <3>2. QED BY <3>1
  <2>5. QED BY <1>2, <1>5, <2>2, <2>3, <2>4, Zenon DEF HsCount
<1>17. QED BY <1>8, <1>9, <1>10, <1>11, <1>12, <1>13, <1>14, <1>15, <1>16, Zenon DEF HsInv

LEMMA GoesStep ==
  ASSUME HsInv, HsNow("main"), "main" \in Range(hsDone), NEW steps \in Seq(EndSteps), Goes(steps),
         hsBuild.clean \/ ~Occurs("exitprocs", steps)
  PROVE  HsInv'
<1>1. /\ HsTypes /\ HsShape /\ HsOrder /\ HsNeeds /\ HsCpp /\ HsPending /\ HsDtors /\ HsDestroyed /\ HsCount
  BY DEF HsInv
<1>2. /\ hsTodo' = steps /\ hsBuild' = hsBuild /\ hsHost' = hsHost /\ hsRoom' = hsRoom /\ hsChars' = hsChars
      /\ hsDone' = hsDone /\ hsAtExit' = hsAtExit /\ hsHandler' = hsHandler /\ hsFault' = hsFault
  BY DEF Goes
<1>3. hsTodo = <<"main">> /\ hsDone \in Seq(Words)
  BY <1>1, MainNow DEF HsTypes
<1>4. Occurs("main", hsDone)
  BY <1>3, RangeOccurs
<1>5. \A k \in 1 .. Len(steps) : steps[k] \in EndSteps
  BY ElementOfSeq
<1>6. \A x \in EndSteps : x \notin Ctors /\ x \notin Dtors /\ x # "main" /\ x # "atexit" /\ x \in Words
  <2>1. EndSteps \subseteq HsSteps /\ "main" \notin EndSteps /\ "atexit" \notin EndSteps
    BY DEF EndSteps, HsSteps
  <2>2. QED BY <2>1, NotSteps, StepWords
<1>7. \A i \in HsIx : ~Occurs(Ctor[i], steps) /\ ~Occurs(Dtor[i], steps)
  BY <1>5, <1>6, NotSteps, Zenon DEF Occurs
<1>8. ~Occurs("main", steps) /\ ~Occurs("atexit", steps)
  BY <1>5, <1>6, Zenon DEF Occurs
<1>9. HsTypes'
  <2>1. steps \in Seq(Words)
    <3>1. EndSteps \subseteq Words
      BY <1>6
    <3>2. QED BY <3>1
  <2>2. QED BY <1>1, <1>2, <2>1, Zenon DEF HsTypes
<1>10. HsShape'
  BY <1>2, <1>4, <1>5, Zenon DEF HsShape
<1>11. HsOrder'
  <2>1. Falls(steps, Ctor) /\ FallsOver(hsDone, steps, Ctor) /\ Falls(steps, Dtor) /\ FallsOver(hsDone, steps, Dtor)
    BY <1>7, FallsNone, Zenon
  <2>2. QED BY <1>1, <1>2, <2>1, Zenon DEF HsOrder
<1>12. HsNeeds'
  <2>1. \A k \in 1 .. Len(steps) : steps[k] \notin {"main"} \cup Ctors
    BY <1>5, <1>6
  <2>2. NeedsMet(hsDone, steps, Needs(hsBuild))
    BY <1>1, <2>1, Zenon DEF HsNeeds, NeedsMet
  <2>3. QED BY <1>2, <2>2, Zenon DEF HsNeeds
<1>13. \A i \in HsIx : ~Occurs(Ctor[i], hsTodo) /\ ~Occurs(Dtor[i], hsTodo)
  <2>1. "main" \notin Ctors /\ "main" \notin Dtors
    BY NotSteps DEF HsSteps
  <2>2. QED BY <1>3, <2>1, OnlyMain, NotSteps, Zenon
<1>14. HsCpp'
  BY <1>1, <1>2, <1>7, <1>13, Zenon DEF HsCpp
<1>15. HsPending'
  BY <1>1, <1>2, Zenon DEF HsPending
<1>16. HsDtors'
  <2>1. Sorted(steps)
    BY <1>5, <1>6, Zenon DEF Sorted
  <2>2. ~Occurs("atexit", hsTodo)
    <3>1. "atexit" # "main"
      OBVIOUS
    <3>2. QED BY <1>3, <3>1, OnlyMain, Zenon
  <2>3. \A x \in Ctors \cup {"atexit"} : ~Occurs(x, steps)
    BY <1>5, <1>6, Zenon DEF Occurs
  <2>4. Occurs("exitprocs", steps) => hsBuild.clean
    OBVIOUS
  <2>5. Cleans(hsBuild) => Occurs("dtors", hsAtExit) \/ \A i \in HsIx : Occurs(Dtor[i], hsDone)
    BY <1>1, <1>13, <2>2, Zenon DEF HsDtors
  <2>6. Occurs("dtors", hsAtExit) => Cleans(hsBuild)
    BY <1>1, Zenon DEF HsDtors
  <2>7. \A i \in HsIx : Occurs(Dtor[i], hsDone) =>
          Cleans(hsBuild) /\ Occurs("main", hsDone) /\ ~Occurs("dtors", hsAtExit)
    BY <1>1, Zenon DEF HsDtors
  <2>8. QED BY <1>2, <1>7, <1>8, <2>1, <2>3, <2>4, <2>5, <2>6, <2>7, Zenon DEF HsDtors
<1>17. HsDestroyed'
  BY <1>1, <1>2, <1>8, Zenon DEF HsDestroyed
<1>18. HsCount'
  <2>1. hsChars = 0
    BY <1>1, <1>3 DEF HsCount
  <2>2. QED BY <1>1, <1>2, <1>4, <2>1, Zenon DEF HsCount
<1>19. QED BY <1>9, <1>10, <1>11, <1>12, <1>14, <1>15, <1>16, <1>17, <1>18, Zenon DEF HsInv

FrontOf(f, a) ==
  /\ Len(a) \in Nat \ {0} /\ Len(f) = Len(a) - 1
  /\ \A k \in 1 .. Len(f) : k \in 1 .. Len(a) /\ k < Len(a) /\ f[k] = a[k]
  /\ \A k \in 1 .. Len(a) : k # Len(a) => k \in 1 .. Len(f)
  /\ Len(a) \in 1 .. Len(a)
LEMMA FrontIs ==
  ASSUME NEW S, NEW a \in Seq(S), a # <<>>, NEW f, f = SubSeq(a, 1, Len(a) - 1)
  PROVE  FrontOf(f, a) /\ f \in Seq(S) /\ a[Len(a)] \in S
<1>1. Len(a) \in Nat \ {0}
  BY EmptySeq
<1>2. a[Len(a)] \in S
  BY <1>1, ElementOfSeq
<1>3. f \in Seq(S) /\ Len(f) = Len(a) - 1 /\ \A k \in 1 .. Len(f) : f[k] = a[k]
  <2>1. PICK n : n = Len(a) - 1
    OBVIOUS
  <2>2. n \in Nat /\ f = SubSeq(a, 1, n) /\ \A i \in 1 .. n : a[i] \in S
    BY <1>1, <2>1, ElementOfSeq
  <2>3. /\ f \in Seq(S) /\ Len(f) = IF 1 <= n THEN n - 1 + 1 ELSE 0
        /\ \A i \in 1 .. n - 1 + 1 : f[i] = a[1 + i - 1]
    BY ONLY <2>2, SubSeqProperties
  <2>4. Len(f) = n
    BY ONLY <2>2, <2>3
  <2>5. \A k \in 1 .. n : f[k] = a[k]
    BY ONLY <2>2, <2>3
  <2>6. QED BY <2>1, <2>3, <2>4, <2>5
<1>4. QED BY <1>1, <1>2, <1>3 DEF FrontOf

LEMMA AtExitStep == HsInv /\ HsAtExit => HsInv'
<1> SUFFICES ASSUME HsInv, HsAtExit
             PROVE  HsInv'
  OBVIOUS
<1>1. /\ HsTypes /\ HsShape /\ HsOrder /\ HsNeeds /\ HsCpp /\ HsPending /\ HsDtors /\ HsDestroyed /\ HsCount
  BY DEF HsInv
<1>2. /\ HsNow("main") /\ "main" \in Range(hsDone) /\ "own" \notin Range(hsAtExit)
      /\ hsAtExit' = Append(hsAtExit, "own") /\ hsBuild' = hsBuild /\ hsHost' = hsHost /\ hsRoom' = hsRoom
      /\ hsChars' = hsChars /\ hsTodo' = hsTodo /\ hsDone' = hsDone /\ hsHandler' = hsHandler
      /\ hsFault' = hsFault
  BY DEF HsAtExit, MainRuns, InMain
<1>3. hsTodo = <<"main">> /\ hsDone \in Seq(Words) /\ hsAtExit \in Seq(Words) /\ "own" \in Words
  BY <1>1, <1>2, MainNow, StepWords DEF HsTypes
<1>4. Occurs("main", hsDone) /\ Occurs("main", hsTodo) /\ ~Occurs("own", hsAtExit)
  BY <1>2, <1>3, RangeOccurs, OnlyMain
<1>5. \A x : Occurs(x, hsAtExit') <=> Occurs(x, hsAtExit) \/ x = "own"
  BY ONLY <1>2, <1>3, OccursOn, SMT, ZenonT(40)
<1>6. /\ hsAtExit' \in Seq(Words)
      /\ \A k \in 1 .. Len(hsAtExit') : hsAtExit'[k] # "own" => k \in 1 .. Len(hsAtExit) /\ hsAtExit'[k] = hsAtExit[k]
      /\ \A k \in 1 .. Len(hsAtExit') : k \notin 1 .. Len(hsAtExit) => k = Len(hsAtExit')
      /\ \A k \in 1 .. Len(hsAtExit) : k \in 1 .. Len(hsAtExit') /\ hsAtExit'[k] = hsAtExit[k]
  <2>1. hsAtExit' \in Seq(Words)
    BY ONLY <1>2, <1>3, AppendIs
  <2>2. QED BY ONLY <1>2, <1>3, <2>1, OldIndex
<1>7. "own" \notin Statics /\ "own" # "dtors"
  BY NotSteps DEF HsSteps
<1>8. HsTypes'
  BY <1>1, <1>2, <1>6, Zenon DEF HsTypes
<1>9. HsShape' /\ HsOrder' /\ HsNeeds' /\ HsCpp' /\ HsCount'
  BY <1>1, <1>2 DEF HsShape, HsOrder, HsNeeds, HsCpp, HsCount
<1>10. HsPending'
  <2>1. Falls(hsAtExit', Static)
    <3>1. \A i \in HsIx : "own" # Static[i]
      BY <1>7 DEF Statics
    <3>2. FallsOver(hsAtExit, <<>>, Static)
      BY DEF FallsOver
    <3>3. QED BY <1>1, <1>2, <1>3, <3>1, <3>2, FallsElse, Zenon DEF HsPending
  <2>2. ASSUME NEW k \in 1 .. Len(hsAtExit')
        PROVE  /\ hsAtExit'[k] \in Statics \cup {"dtors", "own"}
               /\ hsAtExit'[k] = "own" => k = Len(hsAtExit') /\ Occurs("main", hsDone)
    <3>1. hsAtExit'[k] \in Statics \cup {"dtors", "own"}
      BY <1>1, <1>6, <2>2 DEF HsPending
    <3>2. hsAtExit'[k] = "own" => k = Len(hsAtExit')
      <4>1. ASSUME k \in 1 .. Len(hsAtExit), hsAtExit'[k] = "own"
            PROVE  FALSE
        BY <1>4, <1>6, <4>1, Zenon DEF Occurs
      <4>2. QED BY <1>6, <2>2, <4>1, Zenon
    <3>3. QED BY <1>4, <3>1, <3>2
  <2>3. ASSUME NEW k \in 1 .. Len(hsAtExit'), NEW l \in 1 .. Len(hsAtExit'), hsAtExit'[l] = "dtors",
               hsAtExit'[k] \in Statics \cup {"dtors"}
        PROVE  /\ hsAtExit'[k] \in Statics => k < l
               /\ hsAtExit'[k] = "dtors" => k = l
    <3>1. /\ k \in 1 .. Len(hsAtExit) /\ hsAtExit[k] = hsAtExit'[k]
          /\ l \in 1 .. Len(hsAtExit) /\ hsAtExit[l] = "dtors"
      BY <1>6, <1>7, <2>3
    <3>2. QED BY <1>1, <3>1, Zenon DEF HsPending
  <2>4. \A i \in HsIx : Occurs(Static[i], hsAtExit') <=> Occurs(Static[i], hsAtExit)
    BY <1>5, <1>7, Zenon DEF Statics
  <2>5. \A i \in HsIx : Occurs(Static[i], hsAtExit) \/ Occurs(Static[i], hsDone) => Occurs(Ctor[i], hsDone)
    BY <1>1, Zenon DEF HsPending
  <2>6. \A k, l \in 1 .. Len(hsAtExit') :
          /\ hsAtExit'[k] \in Statics /\ hsAtExit'[l] = "dtors" => k < l
          /\ hsAtExit'[k] = "dtors" /\ hsAtExit'[l] = "dtors" => k = l
    BY <2>3
  <2>7. QED BY <1>2, <2>1, <2>2, <2>4, <2>5, <2>6, Zenon DEF HsPending
<1>11. HsDtors'
  <2>1. Occurs("dtors", hsAtExit') <=> Occurs("dtors", hsAtExit)
    BY <1>5, <1>7
  <2>2. QED BY <1>1, <1>2, <2>1, Zenon DEF HsDtors
<1>12. HsDestroyed'
  <2>1. \A k \in 1 .. Len(hsDone) : hsDone[k] \notin Statics
    BY <1>1, <1>4, NoneDestroyed, Zenon
  <2>2. \A k \in 1 .. Len(hsDone), i \in HsIx : hsDone[k] # Static[i]
    BY <2>1, Zenon DEF Statics
  <2>3. QED BY <1>2, <2>1, <2>2, Zenon DEF HsDestroyed, Rises, FallsOver, Occurs
<1>13. QED BY <1>8, <1>9, <1>10, <1>11, <1>12 DEF HsInv

\* The rest of main() and the host leave the order of the steps alone.
LEMMA IdleStep ==
  ASSUME HsInv, UNCHANGED <<hsBuild, hsHost, hsTodo, hsDone, hsAtExit>>,
         \/ hsHost /\ hsRoom' \in 0 .. HsFifo /\ hsChars' = hsChars
         \/ hsRoom' = hsRoom /\ hsChars' = hsChars,
         hsFault' \in HsCauses \cup {NoFault}
  PROVE  HsInv'
<1>1. /\ HsTypes /\ HsShape /\ HsOrder /\ HsNeeds /\ HsCpp /\ HsPending /\ HsDtors /\ HsDestroyed /\ HsCount
  BY DEF HsInv
<1>2. /\ hsBuild' = hsBuild /\ hsHost' = hsHost /\ hsTodo' = hsTodo /\ hsDone' = hsDone /\ hsAtExit' = hsAtExit
      /\ hsChars' = hsChars /\ hsFault' \in HsCauses \cup {NoFault}
  OBVIOUS
<1>3. HsShape' /\ HsOrder' /\ HsNeeds' /\ HsCpp' /\ HsPending' /\ HsDtors' /\ HsDestroyed'
  BY <1>1, <1>2 DEF HsShape, HsOrder, HsNeeds, HsCpp, HsPending, HsDtors, HsDestroyed
<1>4. hsRoom' \in 0 .. HsFifo
  BY <1>1 DEF HsTypes
<1>5. HsTypes'
  BY <1>1, <1>2, <1>4, Zenon DEF HsTypes
<1>6. HsCount'
  <2>1. hsHost \/ hsRoom' = hsRoom
    OBVIOUS
  <2>2. CASE hsHost
    BY <1>1, <1>2, <2>2, Zenon DEF HsCount
  <2>3. CASE hsRoom' = hsRoom
    <3>1. UNCHANGED <<hsBuild, hsHost, hsRoom, hsChars, hsTodo, hsDone>>
      BY <1>2, <2>3
    <3>2. QED BY <1>1, <3>1 DEF HsCount
  <2>4. QED BY <2>1, <2>2, <2>3
<1>7. QED BY <1>3, <1>5, <1>6 DEF HsInv

\* exit() takes the last of what was registered.
Takes(f) == /\ hsAtExit # <<>> /\ f = hsAtExit[Len(hsAtExit)]
            /\ hsAtExit' = SubSeq(hsAtExit, 1, Len(hsAtExit) - 1)

LEMMA TakesPending ==
  ASSUME HsTypes, HsPending, NEW f, Takes(f),
         \A x : Occurs(x, hsDone) => Occurs(x, hsDone'),
         \A x : Occurs(x, hsDone') => Occurs(x, hsDone) \/ x = f
  PROVE  /\ HsPending' /\ hsAtExit' \in Seq(Words) /\ ~Occurs("own", hsAtExit')
         /\ f \in Statics \cup {"dtors", "own"}
         /\ \A x : Occurs(x, hsAtExit') => Occurs(x, hsAtExit)
         /\ \A x : Occurs(x, hsAtExit) => x = f \/ Occurs(x, hsAtExit')
         /\ f = "dtors" => ~Occurs("dtors", hsAtExit')
         /\ f \in Statics => ~Occurs("dtors", hsAtExit)
         /\ Occurs(f, hsAtExit)
<1>1. /\ Len(hsAtExit) \in Nat \ {0} /\ hsAtExit' \in Seq(Words) /\ Len(hsAtExit') = Len(hsAtExit) - 1
      /\ \A k \in 1 .. Len(hsAtExit') : k \in 1 .. Len(hsAtExit) /\ k < Len(hsAtExit) /\ hsAtExit'[k] = hsAtExit[k]
      /\ \A k \in 1 .. Len(hsAtExit) : k # Len(hsAtExit) => k \in 1 .. Len(hsAtExit')
      /\ Len(hsAtExit) \in 1 .. Len(hsAtExit)
  <2>1. hsAtExit \in Seq(Words) /\ hsAtExit # <<>> /\ hsAtExit' = SubSeq(hsAtExit, 1, Len(hsAtExit) - 1)
    BY DEF HsTypes, Takes
  <2>2. FrontOf(hsAtExit', hsAtExit) /\ hsAtExit' \in Seq(Words)
    BY ONLY <2>1, FrontIs, Zenon
  <2>3. QED BY <2>2, Zenon DEF FrontOf
<1>2. f = hsAtExit[Len(hsAtExit)]
  BY DEF Takes
<1>3. f \in Statics \cup {"dtors", "own"} /\ Occurs(f, hsAtExit)
  BY <1>1, <1>2, Zenon DEF HsPending, Occurs
<1>4. \A x : Occurs(x, hsAtExit') => Occurs(x, hsAtExit)
  BY <1>1, Zenon DEF Occurs
<1>5. \A x : Occurs(x, hsAtExit) => x = f \/ Occurs(x, hsAtExit')
  BY <1>1, <1>2, Zenon DEF Occurs
<1>6. \A k \in 1 .. Len(hsAtExit') : k # Len(hsAtExit)
  BY <1>1
<1>7. ~Occurs("own", hsAtExit')
  <2>1. \A k \in 1 .. Len(hsAtExit) : hsAtExit[k] = "own" => k = Len(hsAtExit)
    BY Zenon DEF HsPending
  <2>2. ASSUME NEW k \in 1 .. Len(hsAtExit'), hsAtExit'[k] = "own"
        PROVE  FALSE
    BY <1>1, <1>6, <2>1, <2>2, Zenon
  <2>3. QED BY <2>2, Zenon DEF Occurs
<1>8. ASSUME f = "dtors"
      PROVE  ~Occurs("dtors", hsAtExit')
  <2>1. \A k \in 1 .. Len(hsAtExit) : hsAtExit[k] = "dtors" => k = Len(hsAtExit)
    BY <1>1, <1>2, <1>8, Zenon DEF HsPending
  <2>2. QED BY <2>1, <1>1, <1>6, Zenon DEF Occurs
<1>9. ASSUME f \in Statics
      PROVE  ~Occurs("dtors", hsAtExit)
  <2>1. \A l \in 1 .. Len(hsAtExit) : hsAtExit[l] = "dtors" => Len(hsAtExit) < l
    BY <1>1, <1>2, <1>9, Zenon DEF HsPending
  <2>2. \A l \in 1 .. Len(hsAtExit) : ~(Len(hsAtExit) < l)
    BY <1>1
  <2>3. QED BY <2>1, <2>2, Zenon DEF Occurs
<1>10. HsPending'
  <2>1. Falls(hsAtExit', Static)
    BY <1>1, Zenon DEF HsPending, Falls
  <2>2. ASSUME NEW i \in HsIx, Occurs(Static[i], hsAtExit') \/ Occurs(Static[i], hsDone')
        PROVE  Occurs(Ctor[i], hsDone')
    <3>1. Occurs(Static[i], hsAtExit) \/ Occurs(Static[i], hsDone)
      BY <1>3, <1>4, <2>2, Zenon
    <3>2. Occurs(Ctor[i], hsDone)
      BY <3>1, Zenon DEF HsPending
    <3>3. QED BY <3>2, Zenon
  <2>3. ASSUME NEW k \in 1 .. Len(hsAtExit')
        PROVE  hsAtExit'[k] \in Statics \cup {"dtors", "own"} /\ hsAtExit'[k] # "own"
    BY <1>1, <1>7, <2>3, Zenon DEF HsPending, Occurs
  <2>4. ASSUME NEW k \in 1 .. Len(hsAtExit'), NEW l \in 1 .. Len(hsAtExit')
        PROVE  /\ hsAtExit'[k] \in Statics /\ hsAtExit'[l] = "dtors" => k < l
               /\ hsAtExit'[k] = "dtors" /\ hsAtExit'[l] = "dtors" => k = l
    BY <1>1, <2>4, Zenon DEF HsPending
  <2>5. QED BY <2>1, <2>2, <2>3, <2>4, Zenon DEF HsPending
<1>11. QED BY <1>1, <1>3, <1>4, <1>5, <1>7, <1>8, <1>9, <1>10, Zenon

LEMMA ExitShape ==
  ASSUME HsTypes, HsShape, HsNow("exitprocs")
  PROVE  /\ Occurs("main", hsDone) /\ \A k \in 1 .. Len(hsTodo) : hsTodo[k] \in EndSteps \cup Dtors
         /\ Len(hsTodo) \in Nat \ {0} /\ hsTodo[1] = "exitprocs" /\ 1 \in 1 .. Len(hsTodo)
         /\ Occurs("exitprocs", hsTodo)
         /\ ~Occurs("main", hsTodo) /\ ~Occurs("atexit", hsTodo) /\ \A i \in HsIx : ~Occurs(Ctor[i], hsTodo)
<1>1. /\ hsTodo \in Seq(Words) /\ Len(hsTodo) \in Nat \ {0} /\ hsTodo[1] = "exitprocs" /\ 1 \in 1 .. Len(hsTodo)
  BY HeadTail DEF HsTypes, HsNow
<1>2. "exitprocs" \notin BootSteps \cup Ctors
  BY NotSteps DEF BootSteps, HsSteps
<1>3. Occurs("main", hsDone)
  BY <1>1, <1>2, Zenon DEF HsShape
<1>4. hsTodo # <<"main">>
  BY <1>1
<1>5. \A k \in 1 .. Len(hsTodo) : hsTodo[k] \in EndSteps \cup Dtors
  BY <1>3, <1>4, Zenon DEF HsShape
<1>6. \A x \in EndSteps \cup Dtors : x # "main" /\ x # "atexit" /\ x \notin Ctors
  BY NotSteps DEF EndSteps, HsSteps
<1>7. ~Occurs("main", hsTodo) /\ ~Occurs("atexit", hsTodo) /\ \A i \in HsIx : ~Occurs(Ctor[i], hsTodo)
  BY <1>5, <1>6, NotSteps, Zenon DEF Occurs
<1>8. QED BY <1>1, <1>3, <1>5, <1>7, Zenon DEF Occurs

\* The functions of __DTOR_LIST__ go first.
LEMMA UnwindDtors ==
  ASSUME HsInv, HsNow("exitprocs"), Takes("dtors"), hsTodo' = _do_dtors \o hsTodo,
         UNCHANGED <<hsBuild, hsHost, hsRoom, hsChars, hsDone, hsHandler, hsFault>>
  PROVE  HsInv'
<1>1. /\ HsTypes /\ HsShape /\ HsOrder /\ HsNeeds /\ HsCpp /\ HsPending /\ HsDtors /\ HsDestroyed /\ HsCount
  BY DEF HsInv
<1>2. /\ hsBuild' = hsBuild /\ hsHost' = hsHost /\ hsRoom' = hsRoom /\ hsChars' = hsChars
      /\ hsDone' = hsDone /\ hsHandler' = hsHandler /\ hsFault' = hsFault
  OBVIOUS
<1>3. /\ HsPending' /\ hsAtExit' \in Seq(Words) /\ ~Occurs("own", hsAtExit')
      /\ \A x : Occurs(x, hsAtExit') => Occurs(x, hsAtExit)
      /\ ~Occurs("dtors", hsAtExit') /\ Occurs("dtors", hsAtExit)
  BY <1>1, <1>2, TakesPending, Zenon
<1>4. /\ Occurs("main", hsDone) /\ \A k \in 1 .. Len(hsTodo) : hsTodo[k] \in EndSteps \cup Dtors
      /\ Len(hsTodo) \in Nat \ {0} /\ Occurs("exitprocs", hsTodo)
      /\ hsTodo[1] = "exitprocs" /\ 1 \in 1 .. Len(hsTodo)
      /\ ~Occurs("main", hsTodo) /\ ~Occurs("atexit", hsTodo) /\ \A i \in HsIx : ~Occurs(Ctor[i], hsTodo)
  BY <1>1, ExitShape
<1>5. /\ Cleans(hsBuild)
      /\ \A i \in HsIx : ~Occurs(Dtor[i], hsDone) /\ ~Occurs(Dtor[i], hsTodo)
  BY <1>1, <1>3, Zenon DEF HsDtors
<1>6. PICK n : n = Len(HsLists) /\ n \in Nat
  BY HsNames
<1>7. /\ hsTodo' \in Seq(Words) /\ Len(hsTodo') = n + Len(hsTodo)
      /\ \A k \in 1 .. Len(hsTodo') : hsTodo'[k] = IF k <= n THEN _do_dtors[k] ELSE hsTodo[k - n]
  <2>1. /\ _do_dtors \in Seq(Words) /\ hsTodo \in Seq(Words) /\ hsTodo' = _do_dtors \o hsTodo
        /\ n = Len(_do_dtors)
    BY <1>1, <1>6, DownwardsIs DEF HsTypes
  <2>2. QED BY ONLY <2>1, Joined
<1>8. ASSUME NEW k \in 1 .. Len(hsTodo'), k <= n
      PROVE  hsTodo'[k] = Dtor[n + 1 - k] /\ n + 1 - k \in HsIx /\ hsTodo'[k] \in Dtors
  <2>1. k \in HsIx /\ n + 1 - k \in HsIx
    BY <1>4, <1>6, <1>7, <1>8 DEF HsIx
  <2>2. hsTodo'[k] = Dtor[n + 1 - k]
    BY <1>6, <1>7, <1>8, <2>1, DownwardsIs
  <2>3. QED BY <2>1, <2>2, Zenon DEF Dtors
<1>9. ASSUME NEW k \in 1 .. Len(hsTodo'), ~(k <= n)
      PROVE  /\ k - n \in 1 .. Len(hsTodo) /\ hsTodo'[k] = hsTodo[k - n] /\ hsTodo'[k] \in EndSteps
             /\ hsTodo'[k] \notin Dtors
  <2>1. k - n \in 1 .. Len(hsTodo)
    BY <1>4, <1>6, <1>7, <1>9
  <2>2. hsTodo'[k] = hsTodo[k - n]
    BY <1>7, <1>9, Zenon
  <2>3. hsTodo[k - n] \in EndSteps \cup Dtors
    BY <1>4, <2>1
  <2>4. hsTodo[k - n] \notin Dtors
    BY <1>5, <2>1, Zenon DEF Occurs, Dtors
  <2>5. QED BY <2>1, <2>2, <2>3, <2>4
<1>10. \A k \in 1 .. Len(hsTodo') : hsTodo'[k] \in EndSteps \cup Dtors
  BY <1>8, <1>9, Zenon
<1>11. \A x \in EndSteps \cup Dtors : x # "main" /\ x # "atexit" /\ x \notin Ctors
  BY NotSteps DEF EndSteps, HsSteps
<1>12. ~Occurs("main", hsTodo') /\ ~Occurs("atexit", hsTodo') /\ \A i \in HsIx : ~Occurs(Ctor[i], hsTodo')
  BY <1>10, <1>11, NotSteps, Zenon DEF Occurs
<1>13. HsTypes'
  BY <1>1, <1>2, <1>3, <1>7, Zenon DEF HsTypes
<1>14. HsShape'
  BY <1>2, <1>4, <1>10, Zenon DEF HsShape
<1>15. HsOrder'
  <2>1. Falls(hsTodo', Ctor) /\ FallsOver(hsDone, hsTodo', Ctor)
    BY <1>12, FallsNone, Zenon
  <2>2. FallsOver(hsDone, hsTodo', Dtor)
    BY <1>5, Zenon DEF FallsOver, Occurs
  <2>3. ASSUME NEW k \in 1 .. Len(hsTodo'), NEW l \in 1 .. Len(hsTodo'), NEW i \in HsIx, NEW j \in HsIx,
               k < l, hsTodo'[k] = Dtor[i], hsTodo'[l] = Dtor[j]
        PROVE  j < i
    <3>1. Dtor[i] \in Dtors /\ Dtor[j] \in Dtors
      BY Zenon DEF Dtors
    <3>2. k <= n /\ l <= n
      BY <1>9, <2>3, <3>1, Zenon
    <3>3. /\ Dtor[i] = Dtor[n + 1 - k] /\ n + 1 - k \in HsIx
          /\ Dtor[j] = Dtor[n + 1 - l] /\ n + 1 - l \in HsIx
      BY <1>8, <2>3, <3>2, Zenon
    <3>4. i = n + 1 - k /\ j = n + 1 - l
      BY <3>3, HsNames, Zenon
    <3>5. QED BY <1>6, <2>3, <3>4
  <2>4. Falls(hsTodo', Dtor)
    BY <2>3, Zenon DEF Falls
  <2>5. QED BY <1>1, <1>2, <2>1, <2>2, <2>4, Zenon DEF HsOrder
<1>16. HsNeeds'
  <2>1. \A k \in 1 .. Len(hsTodo') : hsTodo'[k] \notin {"main"} \cup Ctors
    BY <1>10, <1>11
  <2>2. NeedsMet(hsDone, hsTodo', Needs(hsBuild))
    BY <1>1, <2>1, Zenon DEF HsNeeds, NeedsMet
  <2>3. QED BY <1>2, <2>2, Zenon DEF HsNeeds
<1>17. HsCpp'
  BY <1>1, <1>2, <1>4, <1>12, Zenon DEF HsCpp
<1>18. HsDtors'
  <2>1. Sorted(hsTodo')
    <3>1. ASSUME NEW k \in 1 .. Len(hsTodo'), NEW l \in 1 .. Len(hsTodo')
          PROVE  /\ hsTodo'[k] \notin Ctors /\ hsTodo'[k] # "atexit"
                 /\ hsTodo'[k] \in Dtors /\ hsTodo'[l] = "exitprocs" => k < l
      <4>1. hsTodo'[k] \notin Ctors /\ hsTodo'[k] # "atexit"
        BY <1>10, <1>11, Zenon
      <4>2. hsTodo'[k] \in Dtors => k <= n
        BY <1>9, Zenon
      <4>3. hsTodo'[l] = "exitprocs" => ~(l <= n)
        <5>1. "exitprocs" \notin Dtors
          BY NotSteps DEF HsSteps
        <5>2. QED BY <5>1, <1>8, Zenon
      <4>4. QED BY <1>6, <4>1, <4>2, <4>3
    <3>2. QED BY <3>1, Zenon DEF Sorted
  <2>2. hsBuild.clean
    BY <1>5 DEF Cleans
  <2>3. ASSUME NEW i \in HsIx
        PROVE  Occurs(Dtor[i], hsTodo')
    <3>1. PICK k : k = n + 1 - i
      OBVIOUS
    <3>2. k \in 1 .. Len(hsTodo') /\ k <= n /\ n + 1 - k = i
      BY <1>4, <1>6, <1>7, <3>1 DEF HsIx
    <3>3. hsTodo'[k] = Dtor[i]
      BY <1>8, <3>2
    <3>4. QED BY <3>2, <3>3, Zenon DEF Occurs
  <2>4. QED BY <1>2, <1>3, <1>4, <1>5, <1>12, <2>1, <2>2, <2>3, Zenon DEF HsDtors
<1>19. HsDestroyed'
  <2>1. FallsOver(hsAtExit', hsDone, Static)
    <3>1. FallsOver(hsAtExit, hsDone, Static)
      BY <1>1 DEF HsDestroyed
    <3>2. ASSUME NEW k \in 1 .. Len(hsAtExit'), NEW l \in 1 .. Len(hsDone), NEW i \in HsIx, NEW j \in HsIx,
                 hsAtExit'[k] = Static[i], hsDone[l] = Static[j]
          PROVE  j < i
      <4>1. Occurs(Static[i], hsAtExit)
        BY <1>3, <3>2, Zenon DEF Occurs
      <4>2. QED BY <3>1, <3>2, <4>1, Zenon DEF Occurs, FallsOver
    <3>3. QED BY <3>2, Zenon DEF FallsOver
  <2>2. \A i \in HsIx : Occurs(Static[i], hsDone') =>
          Occurs("main", hsDone') /\ ~Occurs("main", hsTodo') /\ ~Occurs("own", hsAtExit')
    BY <1>2, <1>3, <1>4, <1>12, Zenon
  <2>3. /\ Rises(hsDone, Static)
        /\ \A k, l \in 1 .. Len(hsDone) : hsDone[k] = "own" /\ hsDone[l] \in Statics => k < l
        /\ hsBuild.exits => \A l \in 1 .. Len(hsDone), i \in HsIx : hsDone[l] = Static[i] =>
                              \E k \in 1 .. l - 1 : hsDone[k] = Dtor[i]
    BY <1>1, Zenon DEF HsDestroyed
  <2>4. hsDone' = hsDone /\ hsBuild' = hsBuild
    BY <1>2
  <2>5. /\ Rises(hsDone', Static) /\ FallsOver(hsAtExit', hsDone', Static)
        /\ \A k, l \in 1 .. Len(hsDone') : hsDone'[k] = "own" /\ hsDone'[l] \in Statics => k < l
    BY ONLY <2>1, <2>3, <2>4
  <2>6. hsBuild'.exits => \A l \in 1 .. Len(hsDone'), i \in HsIx : hsDone'[l] = Static[i] =>
          \E k \in 1 .. l - 1 : hsDone'[k] = Dtor[i]
    BY ONLY <2>3, <2>4
  <2>7. QED BY <2>2, <2>5, <2>6, Zenon DEF HsDestroyed
<1>20. HsCount'
  <2>1. hsChars = 0
    <3>1. hsChars # 0 => Head(hsTodo) = "log"
      BY <1>1 DEF HsCount
    <3>2. QED BY <3>1 DEF HsNow
  <2>2. hsHost \/ Messages(alt_main(hsBuild)) * HsMessage <= HsFifo
    BY <1>1, <1>4, Zenon DEF HsCount
  <2>3. Occurs("main", hsDone') /\ hsChars' = 0 /\ hsHost' = hsHost /\ hsBuild' = hsBuild
    BY <1>2, <1>4, <2>1
  <2>4. QED BY <2>2, <2>3 DEF HsCount
<1>21. QED BY <1>3, <1>13, <1>14, <1>15, <1>16, <1>17, <1>18, <1>19, <1>20 DEF HsInv

\* A static object is destroyed, or what main() registered is called.
LEMMA UnwindCalls ==
  ASSUME HsInv, HsNow("exitprocs"), NEW f, f # "dtors", Takes(f), hsDone' = Append(hsDone, f),
         UNCHANGED <<hsBuild, hsHost, hsRoom, hsChars, hsTodo, hsHandler, hsFault>>
  PROVE  HsInv'
<1>1. /\ HsTypes /\ HsShape /\ HsOrder /\ HsNeeds /\ HsCpp /\ HsPending /\ HsDtors /\ HsDestroyed /\ HsCount
  BY DEF HsInv
<1>2. /\ hsBuild' = hsBuild /\ hsHost' = hsHost /\ hsRoom' = hsRoom /\ hsChars' = hsChars
      /\ hsTodo' = hsTodo /\ hsHandler' = hsHandler /\ hsFault' = hsFault /\ hsDone \in Seq(Words)
  BY <1>1 DEF HsTypes
<1>3. f \in Statics \cup {"own"} /\ f \in Words
  <2>1. hsAtExit # <<>> /\ hsAtExit \in Seq(Words) /\ f = hsAtExit[Len(hsAtExit)]
    BY <1>1 DEF HsTypes, Takes
  <2>2. Len(hsAtExit) \in 1 .. Len(hsAtExit)
    <3>1. Len(hsAtExit) \in Nat \ {0}
      BY <2>1, EmptySeq
    <3>2. QED BY <3>1
  <2>3. f \in Statics \cup {"dtors", "own"}
    BY <1>1, <2>1, <2>2, Zenon DEF HsPending
  <2>4. QED BY <2>3, StepWords DEF Words
<1>4. \A x : Occurs(x, hsDone') <=> Occurs(x, hsDone) \/ x = f
  <2>1. hsDone' = Append(hsDone, f)
    OBVIOUS
  <2>2. QED BY ONLY <1>2, <1>3, <2>1, OccursOn
<1>5. /\ HsPending' /\ hsAtExit' \in Seq(Words) /\ ~Occurs("own", hsAtExit')
      /\ \A x : Occurs(x, hsAtExit') => Occurs(x, hsAtExit)
      /\ \A x : Occurs(x, hsAtExit) => x = f \/ Occurs(x, hsAtExit')
      /\ f \in Statics => ~Occurs("dtors", hsAtExit)
      /\ Occurs(f, hsAtExit)
  BY <1>1, <1>4, TakesPending, Zenon
<1>6. /\ Occurs("main", hsDone) /\ Len(hsTodo) \in Nat \ {0} /\ Occurs("exitprocs", hsTodo)
      /\ hsTodo[1] = "exitprocs" /\ 1 \in 1 .. Len(hsTodo)
      /\ ~Occurs("main", hsTodo) /\ ~Occurs("atexit", hsTodo) /\ \A i \in HsIx : ~Occurs(Ctor[i], hsTodo)
  BY <1>1, ExitShape
<1>7. /\ hsDone' \in Seq(Words)
      /\ \A k \in 1 .. Len(hsDone') : hsDone'[k] # f => k \in 1 .. Len(hsDone) /\ hsDone'[k] = hsDone[k]
      /\ \A k \in 1 .. Len(hsDone) : k \in 1 .. Len(hsDone') /\ hsDone'[k] = hsDone[k] /\ k < Len(hsDone')
      /\ \A k \in 1 .. Len(hsDone') : k \notin 1 .. Len(hsDone) => k = Len(hsDone') /\ hsDone'[k] = f
      /\ \A k \in 1 .. Len(hsDone) : k \in 1 .. Len(hsDone') - 1
  <2>1. hsDone' = Append(hsDone, f)
    OBVIOUS
  <2>2. /\ hsDone' \in Seq(Words) /\ Len(hsDone) \in Nat /\ Len(hsDone') \in Nat /\ Len(hsDone') = Len(hsDone) + 1
        /\ \A k \in 1 .. Len(hsDone') : hsDone'[k] = IF k <= Len(hsDone) THEN hsDone[k] ELSE f
    BY ONLY <1>2, <1>3, <2>1, AppendIs
  <2>3. QED BY ONLY <2>2
<1>8. \A i \in HsIx : f # Ctor[i] /\ f # Dtor[i]
  <2>1. "own" \notin Ctors /\ "own" \notin Dtors
    BY NotSteps DEF HsSteps
  <2>2. QED BY <1>3, <2>1, NotSteps, Zenon
<1>9. f # "main" /\ f \notin Ctors
  <2>1. "main" \notin Statics /\ "own" \notin Ctors /\ "own" # "main"
    BY NotSteps DEF HsSteps
  <2>2. QED BY <1>3, <2>1, NotSteps, Zenon
<1>10. HsTypes'
  BY <1>1, <1>2, <1>5, <1>7, Zenon DEF HsTypes
<1>11. HsShape'
  BY <1>1, <1>2, <1>4, <1>6, Zenon DEF HsShape
<1>12. HsOrder'
  <2>1. hsDone' = Append(hsDone, f)
    OBVIOUS
  <2>2. Falls(hsDone', Ctor) /\ FallsOver(hsDone', hsTodo, Ctor)
    BY <1>1, <1>2, <1>3, <1>8, <2>1, FallsElse, Zenon DEF HsOrder
  <2>3. Falls(hsDone', Dtor) /\ FallsOver(hsDone', hsTodo, Dtor)
    BY <1>1, <1>2, <1>3, <1>8, <2>1, FallsElse, Zenon DEF HsOrder
  <2>4. QED BY <1>1, <1>2, <2>2, <2>3, Zenon DEF HsOrder
<1>13. HsNeeds'
  <2>1. hsDone' = Append(hsDone, f)
    OBVIOUS
  <2>2. f \in {"main"} \cup Ctors => \A need \in Needs(hsBuild) : Occurs(need, hsDone)
    BY <1>9
  <2>3. NeedsMet(hsDone', hsTodo, Needs(hsBuild))
    BY <1>1, <1>2, <1>3, <2>1, <2>2, NeedsDone, Zenon DEF HsNeeds
  <2>4. QED BY <1>2, <2>3, Zenon DEF HsNeeds
<1>14. HsCpp'
  BY <1>1, <1>2, <1>4, <1>8, Zenon DEF HsCpp
<1>15. HsDtors'
  <2>1. Occurs("dtors", hsAtExit') <=> Occurs("dtors", hsAtExit)
    BY <1>5, Zenon
  <2>2. \A i \in HsIx : Occurs(Dtor[i], hsDone') <=> Occurs(Dtor[i], hsDone)
    BY <1>4, <1>8, Zenon
  <2>3. QED BY <1>1, <1>2, <1>4, <2>1, <2>2, Zenon DEF HsDtors
<1>16. Rises(hsDone', Static)
  <2>1. ASSUME NEW k \in 1 .. Len(hsDone'), NEW l \in 1 .. Len(hsDone'), NEW i \in HsIx, NEW j \in HsIx,
               k < l, hsDone'[k] = Static[i], hsDone'[l] = Static[j]
        PROVE  i < j
    <3>1. CASE l \in 1 .. Len(hsDone)
      <4>1. k \in 1 .. Len(hsDone)
        BY <1>2, <2>1, <3>1
      <4>2. hsDone[k] = Static[i] /\ hsDone[l] = Static[j]
        BY <1>7, <2>1, <3>1, <4>1
      <4>3. QED BY <1>1, <2>1, <3>1, <4>1, <4>2, Zenon DEF HsDestroyed, Rises
    <3>2. CASE l \notin 1 .. Len(hsDone)
      <4>1. l = Len(hsDone') /\ f = Static[j]
        BY <1>7, <2>1, <3>2
      <4>2. k \in 1 .. Len(hsDone)
        <5>1. k # Len(hsDone')
          BY <2>1, <4>1
        <5>2. QED BY <1>7, <2>1, <5>1, Zenon
      <4>3. hsDone[k] = Static[i]
        BY <1>7, <2>1, <4>2
      <4>4. PICK n \in 1 .. Len(hsAtExit) : hsAtExit[n] = Static[j]
        BY <1>5, <4>1, Zenon DEF Occurs
      <4>5. QED BY <1>1, <2>1, <4>2, <4>3, <4>4, Zenon DEF HsDestroyed, FallsOver
    <3>3. QED BY <3>1, <3>2
  <2>2. QED BY <2>1, Zenon DEF Rises
<1>17. /\ f = hsAtExit[Len(hsAtExit)] /\ Len(hsAtExit) \in 1 .. Len(hsAtExit)
       /\ \A k \in 1 .. Len(hsAtExit') : k \in 1 .. Len(hsAtExit) /\ k < Len(hsAtExit) /\ hsAtExit'[k] = hsAtExit[k]
  <2>1. hsAtExit \in Seq(Words) /\ hsAtExit # <<>> /\ hsAtExit' = SubSeq(hsAtExit, 1, Len(hsAtExit) - 1)
    BY <1>1 DEF HsTypes, Takes
  <2>2. FrontOf(hsAtExit', hsAtExit)
    BY ONLY <2>1, FrontIs, Zenon
  <2>3. QED BY <2>2, Zenon DEF FrontOf, Takes
<1>18. FallsOver(hsAtExit', hsDone', Static)
  <2>1. ASSUME NEW k \in 1 .. Len(hsAtExit'), NEW l \in 1 .. Len(hsDone'), NEW i \in HsIx, NEW j \in HsIx,
               hsAtExit'[k] = Static[i], hsDone'[l] = Static[j]
        PROVE  j < i
    <3>1. k \in 1 .. Len(hsAtExit) /\ k < Len(hsAtExit) /\ hsAtExit[k] = Static[i]
      BY <1>17, <2>1, Zenon
    <3>2. CASE l \in 1 .. Len(hsDone)
      <4>1. hsDone[l] = Static[j]
        BY <1>7, <2>1, <3>2
      <4>2. QED BY <1>1, <3>1, <3>2, <4>1, <2>1, Zenon DEF HsDestroyed, FallsOver
    <3>3. CASE l \notin 1 .. Len(hsDone)
      <4>1. hsAtExit[Len(hsAtExit)] = Static[j]
        BY <1>7, <1>17, <2>1, <3>3
      <4>2. QED BY <1>1, <1>17, <3>1, <4>1, <2>1, Zenon DEF HsPending, Falls
    <3>4. QED BY <3>2, <3>3
  <2>2. PICK a, b : a = hsAtExit' /\ b = hsDone'
    OBVIOUS
  <2>3. \A k \in 1 .. Len(a), l \in 1 .. Len(b), i, j \in HsIx : a[k] = Static[i] /\ b[l] = Static[j] => j < i
    <3>1. ASSUME NEW k \in 1 .. Len(a), NEW l \in 1 .. Len(b), NEW i \in HsIx, NEW j \in HsIx,
                 a[k] = Static[i], b[l] = Static[j]
          PROVE  j < i
      <4>1. k \in 1 .. Len(hsAtExit') /\ l \in 1 .. Len(hsDone') /\ hsAtExit'[k] = Static[i] /\ hsDone'[l] = Static[j]
        BY <2>2, <3>1
      <4>2. QED BY <2>1, <4>1
    <3>2. QED BY <3>1, Zenon
  <2>4. FallsOver(a, b, Static)
    BY <2>3, Zenon DEF FallsOver
  <2>5. QED BY <2>2, <2>4
<1>19. ASSUME NEW k \in 1 .. Len(hsDone'), NEW l \in 1 .. Len(hsDone'), hsDone'[k] = "own", hsDone'[l] \in Statics
       PROVE  k < l
  <2>1. "own" \notin Statics
    BY NotSteps DEF HsSteps
  <2>2. CASE k \in 1 .. Len(hsDone) /\ l \in 1 .. Len(hsDone)
    <3>1. hsDone[k] = "own" /\ hsDone[l] \in Statics
      BY <1>7, <1>19, <2>2
    <3>2. QED BY <1>1, <2>2, <3>1, Zenon DEF HsDestroyed
  <2>3. CASE k \notin 1 .. Len(hsDone)
    <3>1. f = "own"
      BY <1>7, <1>19, <2>3
    <3>2. l \in 1 .. Len(hsDone) /\ hsDone[l] \in Statics
      <4>1. hsDone'[l] # f
        BY <1>19, <2>1, <3>1
      <4>2. QED BY <1>7, <1>19, <4>1
    <3>3. FALSE
      <4>1. PICK i \in HsIx : hsDone[l] = Static[i]
        BY <3>2 DEF Statics
      <4>2. Occurs(Static[i], hsDone)
        BY <3>2, <4>1, Zenon DEF Occurs
      <4>3. ~Occurs("own", hsAtExit)
        BY <1>1, <4>2, Zenon DEF HsDestroyed
      <4>4. QED BY <1>5, <3>1, <4>3
    <3>4. QED BY <3>3
  <2>4. CASE k \in 1 .. Len(hsDone) /\ l \notin 1 .. Len(hsDone)
    BY <1>7, <1>19, <2>4, Zenon
  <2>5. QED BY <2>2, <2>3, <2>4
<1>20. ASSUME hsBuild.exits, NEW l \in 1 .. Len(hsDone'), NEW i \in HsIx, hsDone'[l] = Static[i]
       PROVE  \E k \in 1 .. l - 1 : hsDone'[k] = Dtor[i]
  <2>1. CASE l \in 1 .. Len(hsDone)
    <3>1. hsDone[l] = Static[i]
      BY <1>7, <1>20, <2>1
    <3>2. PICK k \in 1 .. l - 1 : hsDone[k] = Dtor[i]
      BY <1>1, <1>20, <2>1, <3>1, Zenon DEF HsDestroyed
    <3>3. k \in 1 .. Len(hsDone)
      BY <1>2, <2>1, <3>2
    <3>4. QED BY <1>7, <3>2, <3>3
  <2>2. CASE l \notin 1 .. Len(hsDone)
    <3>1. l = Len(hsDone') /\ f = Static[i]
      BY <1>7, <1>20, <2>2
    <3>2. f \in Statics /\ ~Occurs("dtors", hsAtExit)
      BY <1>5, <3>1 DEF Statics
    <3>3. Occurs(Ctor[i], hsDone)
      BY <1>1, <1>5, <3>1, Zenon DEF HsPending
    <3>4. Cleans(hsBuild)
      <4>1. hsBuild.cpp
        BY <1>1, <3>3, Zenon DEF HsCpp
      <4>2. hsBuild.clean
        BY <1>1, <1>6, Zenon DEF HsDtors
      <4>3. QED BY <1>20, <4>1, <4>2, Zenon DEF Cleans
    <3>5. Occurs(Dtor[i], hsDone) \/ Occurs(Dtor[i], hsTodo)
      BY <1>1, <1>6, <3>2, <3>4, Zenon DEF HsDtors
    <3>6. ~Occurs(Dtor[i], hsTodo)
      <4>1. ASSUME NEW k \in 1 .. Len(hsTodo), hsTodo[k] = Dtor[i]
            PROVE  FALSE
        <5>1. k < 1
          BY <1>1, <1>6, <4>1, NotSteps, Zenon DEF HsDtors, Sorted
        <5>2. QED BY <4>1, <5>1
      <4>2. QED BY <4>1, Zenon DEF Occurs
    <3>7. PICK k \in 1 .. Len(hsDone) : hsDone[k] = Dtor[i]
      BY <3>5, <3>6, Zenon DEF Occurs
    <3>8. k \in 1 .. l - 1 /\ hsDone'[k] = Dtor[i]
      BY <1>7, <3>1, <3>7
    <3>9. QED BY <3>8
  <2>3. QED BY <2>1, <2>2
<1>21. HsDestroyed'
  <2>1. \A i \in HsIx : Occurs(Static[i], hsDone') =>
          Occurs("main", hsDone') /\ ~Occurs("main", hsTodo') /\ ~Occurs("own", hsAtExit')
    BY <1>2, <1>4, <1>5, <1>6, Zenon
  <2>2. QED BY <1>2, <1>16, <1>18, <1>19, <1>20, <2>1, Zenon DEF HsDestroyed
<1>22. HsCount'
  <2>1. hsChars = 0
    <3>1. hsChars # 0 => Head(hsTodo) = "log"
      BY <1>1 DEF HsCount
    <3>2. QED BY <3>1 DEF HsNow
  <2>2. hsHost \/ Messages(alt_main(hsBuild)) * HsMessage <= HsFifo
    BY <1>1, <1>6, Zenon DEF HsCount
  <2>3. Occurs("main", hsDone') /\ hsChars' = 0 /\ hsHost' = hsHost /\ hsBuild' = hsBuild
    BY <1>2, <1>4, <1>6, <2>1
  <2>4. QED BY <2>2, <2>3 DEF HsCount
<1>23. QED BY <1>5, <1>10, <1>11, <1>12, <1>13, <1>14, <1>15, <1>21, <1>22 DEF HsInv

LEMMA UnwindStep == HsInv /\ HsUnwind => HsInv'
<1> SUFFICES ASSUME HsInv, HsUnwind
             PROVE  HsInv'
  OBVIOUS
<1>1. HsNow("exitprocs") /\ UNCHANGED <<hsBuild, hsHost, hsRoom, hsChars, hsHandler, hsFault>>
  BY DEF HsUnwind
<1>2. CASE hsAtExit = <<>>
  <2>1. hsTodo' = Tail(hsTodo) /\ hsDone' = hsDone /\ hsAtExit' = hsAtExit
    BY <1>2 DEF HsUnwind
  <2>2. /\ HsTypes /\ HsCore /\ HsCount /\ HsShape /\ hsTodo # <<>> /\ Head(hsTodo) = "exitprocs" /\ hsTodo \in Seq(Words)
    BY <1>1 DEF HsInv, HsCore, HsNow, HsTypes
  <2>3. HsCore'
    BY <1>1, <2>1, <2>2, TailKeeps
  <2>4. HsTypes'
    <3>1. hsTodo' \in Seq(Words)
      BY <2>1, <2>2
    <3>2. QED BY <1>1, <2>1, <2>2, <3>1 DEF HsTypes
  <2>5. Occurs("main", hsDone)
    BY <1>1, <2>2, ExitShape
  <2>6. HsCount'
    <3>1. hsChars = 0
      BY <2>2, Zenon DEF HsCount
    <3>2. hsHost \/ Messages(alt_main(hsBuild)) * HsMessage <= HsFifo
      BY <2>2, <2>5, Zenon DEF HsCount
    <3>3. Occurs("main", hsDone') /\ hsChars' = 0 /\ hsHost' = hsHost /\ hsBuild' = hsBuild
      BY <1>1, <2>1, <2>5, <3>1
    <3>4. QED BY <3>2, <3>3 DEF HsCount
  <2>7. QED BY <2>3, <2>4, <2>6 DEF HsInv, HsCore
<1>3. CASE hsAtExit # <<>>
  <2>1. PICK f : f = hsAtExit[Len(hsAtExit)]
    OBVIOUS
  <2>2. /\ Takes(f)
        /\ IF f = "dtors" THEN hsTodo' = _do_dtors \o hsTodo /\ UNCHANGED hsDone
           ELSE hsDone' = Append(hsDone, f) /\ UNCHANGED hsTodo
    BY <1>3, <2>1, Zenon DEF HsUnwind, Takes
  <2>3. CASE f = "dtors"
    BY <1>1, <2>2, <2>3, UnwindDtors
  <2>4. CASE f # "dtors"
    BY <1>1, <2>2, <2>4, UnwindCalls
  <2>5. QED BY <2>3, <2>4
<1>4. QED BY <1>2, <1>3

\* The steps that end a program.
LEMMA LastSteps ==
  /\ ALT_EXIT \in Seq(EndSteps) /\ <<"exitprocs">> \in Seq(EndSteps) /\ <<"close">> \in Seq(EndSteps)
  /\ <<"log", "return">> \in Seq(EndSteps) /\ <<"break">> \in Seq(EndSteps)
  /\ ~Occurs("exitprocs", ALT_EXIT) /\ ~Occurs("exitprocs", <<"log", "return">>)
  /\ ~Occurs("exitprocs", <<"break">>) /\ ~Occurs("exitprocs", <<"close">>)
<1>1. PICK a : a = <<"log", "log", "log", "os_stop", "log", "halt", "log", "spin">>
  OBVIOUS
<1>2. a = ALT_EXIT
  BY <1>1 DEF ALT_EXIT, alt_sim_halt
<1>3. \A k \in 1 .. 8 : a[k] \in EndSteps /\ a[k] # "exitprocs"
  BY <1>1 DEF EndSteps
<1>4. Len(a) = 8 /\ a = [k \in 1 .. 8 |-> a[k]]
  BY <1>1
<1>5. a \in Seq(EndSteps) /\ ~Occurs("exitprocs", a)
  BY <1>3, <1>4 DEF Occurs
<1>6. /\ <<"exitprocs">> \in Seq(EndSteps) /\ <<"close">> \in Seq(EndSteps)
      /\ <<"log", "return">> \in Seq(EndSteps) /\ <<"break">> \in Seq(EndSteps)
  BY DEF EndSteps
<1>7. /\ ~Occurs("exitprocs", <<"log", "return">>)
      /\ ~Occurs("exitprocs", <<"break">>) /\ ~Occurs("exitprocs", <<"close">>)
  BY DEF Occurs
<1>8. QED BY <1>2, <1>5, <1>6, <1>7

LEMMA EndsOf ==
  /\ exit \in Seq(EndSteps) /\ (hsBuild.clean \/ ~Occurs("exitprocs", exit))
  /\ AfterMain \in Seq(EndSteps) /\ (hsBuild.clean \/ ~Occurs("exitprocs", AfterMain))
<1>1. exit \in Seq(EndSteps) /\ (~hsBuild.clean => exit = ALT_EXIT)
  <2>1. CASE hsBuild.clean
    <3>1. exit = <<"exitprocs">> \o ALT_EXIT
      BY <2>1 DEF exit
    <3>2. QED BY <2>1, <3>1, LastSteps, Joined
  <2>2. CASE ~hsBuild.clean
    <3>1. exit = ALT_EXIT
      BY <2>2 DEF exit
    <3>2. QED BY <2>2, <3>1, LastSteps
  <2>3. QED BY <2>1, <2>2
<1>2. hsBuild.clean \/ ~Occurs("exitprocs", exit)
  BY <1>1, LastSteps
<1>3. PICK c : c = <<"close">> \o exit
  OBVIOUS
<1>4. c \in Seq(EndSteps) /\ (hsBuild.clean \/ ~Occurs("exitprocs", c))
  <2>1. PICK p, q : p = Len(<<"close">>) /\ q = Len(c)
    OBVIOUS
  <2>2. /\ c \in Seq(EndSteps) /\ p \in Nat /\ q \in Nat /\ Len(exit) \in Nat /\ q = p + Len(exit)
        /\ \A i \in 1 .. q : c[i] = IF i <= p THEN <<"close">>[i] ELSE exit[i - p]
    BY ONLY <1>1, <1>3, <2>1, LastSteps, Joined
  <2>3. ASSUME ~hsBuild.clean, NEW i \in 1 .. Len(c), c[i] = "exitprocs"
        PROVE  FALSE
    <3>1. p = 1 /\ <<"close">>[1] = "close"
      BY <2>1
    <3>2. i # 1
      BY <2>1, <2>2, <2>3, <3>1
    <3>3. i - 1 \in 1 .. Len(exit) /\ exit[i - 1] = "exitprocs"
      BY <2>1, <2>2, <2>3, <3>1, <3>2
    <3>4. Occurs("exitprocs", exit)
      BY <3>3, Zenon DEF Occurs
    <3>5. QED BY <1>2, <2>3, <3>4
  <2>4. QED BY <2>2, <2>3, Zenon DEF Occurs
<1>5. CASE hsBuild.exits
  <2>1. AfterMain = c
    BY <1>3, <1>5, Zenon DEF AfterMain
  <2>2. QED BY <1>1, <1>2, <1>4, <2>1
<1>6. CASE ~hsBuild.exits
  <2>1. AfterMain = <<"log", "return">>
    BY <1>6, Zenon DEF AfterMain
  <2>2. QED BY <1>1, <1>2, <2>1, LastSteps
<1>7. QED BY <1>5, <1>6

LEMMA EndStep == HsInv /\ (HsReturn \/ HsExit \/ HsKill) => HsInv'
<1> SUFFICES ASSUME HsInv, HsReturn \/ HsExit \/ HsKill
             PROVE  HsInv'
  OBVIOUS
<1>1. HsNow("main") /\ "main" \in Range(hsDone)
  BY DEF HsReturn, HsExit, HsKill, MainRuns, InMain
<1>2. CASE HsReturn
  BY <1>1, <1>2, EndsOf, GoesStep, Zenon DEF HsReturn
<1>3. CASE HsExit
  BY <1>1, <1>3, EndsOf, GoesStep, Zenon DEF HsExit
<1>4. CASE HsKill
  <2>1. Goes(ALT_EXIT)
    BY <1>4, Zenon DEF HsKill
  <2>2. QED BY <1>1, <2>1, LastSteps, GoesStep, Zenon
<1>5. QED BY <1>2, <1>3, <1>4

LEMMA FaultStep ==
  HsInv /\ (HsHostReads \/ alt_instruction_exception_register \/ HsFaults
            \/ alt_instruction_exception_entry \/ UNCHANGED hsVars) => HsInv'
<1> SUFFICES ASSUME HsInv, HsHostReads \/ alt_instruction_exception_register \/ HsFaults
                           \/ alt_instruction_exception_entry \/ UNCHANGED hsVars
             PROVE  HsInv'
  OBVIOUS
<1>1. hsRoom \in 0 .. HsFifo /\ hsFault \in HsCauses \cup {NoFault}
  BY DEF HsInv, HsTypes
<1>2. CASE HsHostReads
  <2>1. /\ hsHost /\ hsRoom < HsFifo /\ hsRoom' = hsRoom + 1
        /\ UNCHANGED <<hsBuild, hsHost, hsChars, hsTodo, hsDone, hsAtExit, hsHandler, hsFault>>
    BY <1>2 DEF HsHostReads
  <2>2. hsRoom' \in 0 .. HsFifo
    BY <1>1, <2>1, MessageNat
  <2>3. QED BY <1>1, <2>1, <2>2, IdleStep
<1>3. CASE alt_instruction_exception_register
  BY <1>1, <1>3, IdleStep DEF alt_instruction_exception_register
<1>4. CASE HsFaults
  BY <1>1, <1>4, IdleStep DEF HsFaults
<1>5. CASE alt_instruction_exception_entry
  <2>1. /\ InMain
        /\ CASE hsHandler = "none" -> hsTodo' = <<"break">> /\ UNCHANGED hsFault
             [] hsHandler = "skip" -> hsFault' = NoFault /\ UNCHANGED hsTodo
             [] OTHER -> hsFault' \in {NoFault, hsFault} /\ UNCHANGED hsTodo
        /\ UNCHANGED <<hsBuild, hsHost, hsRoom, hsChars, hsDone, hsAtExit, hsHandler>>
    BY <1>5, Zenon DEF alt_instruction_exception_entry
  <2>2. CASE hsHandler = "none"
    <3>1. hsTodo' = <<"break">> /\ UNCHANGED hsFault
      BY <2>1, <2>2
    <3>2. Goes(<<"break">>)
      BY <2>1, <3>1 DEF Goes
    <3>3. HsNow("main") /\ "main" \in Range(hsDone)
      BY <2>1 DEF InMain
    <3>4. QED BY <3>2, <3>3, LastSteps, GoesStep, Zenon
  <2>3. CASE hsHandler # "none"
    <3>1. hsFault' \in {NoFault, hsFault} /\ hsTodo' = hsTodo
      BY <2>1, <2>3
    <3>2. QED BY <1>1, <2>1, <3>1, IdleStep
  <2>4. QED BY <2>2, <2>3
<1>6. CASE UNCHANGED hsVars
  BY <1>1, <1>6, IdleStep DEF hsVars
<1>7. QED BY <1>2, <1>3, <1>4, <1>5, <1>6

LEMMA StepHsInv == HsInv /\ [HsNext]_hsVars => HsInv'
<1> SUFFICES ASSUME HsInv, [HsNext]_hsVars
             PROVE  HsInv'
  OBVIOUS
<1>1. CASE HsLog
  BY <1>1, LogStep
<1>2. CASE HsStep
  BY <1>2, StepStep
<1>3. CASE HsCallMain
  BY <1>3, CallMainStep
<1>4. CASE HsUnwind
  BY <1>4, UnwindStep
<1>5. CASE HsReturn \/ HsExit \/ HsKill
  BY <1>5, EndStep
<1>6. CASE HsAtExit
  BY <1>6, AtExitStep
<1>7. CASE HsHostReads \/ alt_instruction_exception_register \/ HsFaults
           \/ alt_instruction_exception_entry \/ UNCHANGED hsVars
  BY <1>7, FaultStep
<1>8. QED BY <1>1, <1>2, <1>3, <1>4, <1>5, <1>6, <1>7 DEF HsNext, HsProgram

\* Where a step that was made is.
LEMMA AtDone ==
  ASSUME HsTypes
  PROVE  \A s : /\ At(s) \in Nat /\ (Occurs(s, hsDone) <=> At(s) > 0)
                /\ At(s) > 0 => At(s) \in 1 .. Len(hsDone) /\ hsDone[At(s)] = s
                /\ \A k \in 1 .. Len(hsDone) : hsDone[k] = s => At(s) <= k /\ At(s) > 0
<1> SUFFICES ASSUME NEW s
             PROVE  /\ At(s) \in Nat /\ (Occurs(s, hsDone) <=> At(s) > 0)
                    /\ At(s) > 0 => At(s) \in 1 .. Len(hsDone) /\ hsDone[At(s)] = s
                    /\ \A k \in 1 .. Len(hsDone) : hsDone[k] = s => At(s) <= k /\ At(s) > 0
  OBVIOUS
<1>1. Len(hsDone) \in Nat
  BY DEF HsTypes
<1>2. CASE At(s) = 0 /\ ~Occurs(s, hsDone)
  <2>1. \A k \in 1 .. Len(hsDone) : hsDone[k] # s
    BY <1>2, Zenon DEF Occurs
  <2>2. QED BY <1>2, <2>1
<1>3. CASE /\ At(s) \in 1 .. Len(hsDone) /\ hsDone[At(s)] = s
           /\ \A k \in 1 .. Len(hsDone) : hsDone[k] = s => At(s) <= k
  <2>1. Occurs(s, hsDone)
    BY <1>3, Zenon DEF Occurs
  <2>2. QED BY <1>1, <1>3, <2>1
<1>4. QED BY <1>2, <1>3, AtIs, Zenon

LEMMA NamedByIndex ==
  \A o \in Range(HsLists) : \E i \in HsIx :
    o = HsLists[i] /\ o.ctor = Ctor[i] /\ o.dtor = Dtor[i] /\ o.static = Static[i]
<1>1. ASSUME NEW o \in Range(HsLists)
      PROVE  \E i \in HsIx : o = HsLists[i]
  BY HsAssumption DEF Range, HsIx
<1>2. \A i \in HsIx : HsLists[i].ctor = Ctor[i] /\ HsLists[i].dtor = Dtor[i] /\ HsLists[i].static = Static[i]
  BY DEF Ctor, Dtor, Static
<1>3. QED BY <1>1, <1>2

\* Two lists with the places of their steps among those made.
LEMMA FallsAt ==
  ASSUME HsTypes, NEW name, Falls(hsDone, name), NEW i \in HsIx, NEW j \in HsIx, i # j, name[i] # name[j],
         At(name[i]) > 0, At(name[j]) > 0
  PROVE  At(name[i]) < At(name[j]) <=> j < i
<1>1. PICK a, b : a = At(name[i]) /\ b = At(name[j])
  OBVIOUS
<1>2. /\ a \in Nat /\ b \in Nat /\ a \in 1 .. Len(hsDone) /\ b \in 1 .. Len(hsDone)
      /\ hsDone[a] = name[i] /\ hsDone[b] = name[j]
  BY <1>1, AtDone
<1>3. (a < b => j < i) /\ (b < a => i < j)
  BY <1>2, Zenon DEF Falls
<1>4. a # b
  BY <1>2
<1>5. i \in Int /\ j \in Int
  BY DEF HsIx
<1>6. QED BY <1>1, <1>2, <1>3, <1>4, <1>5

LEMMA RisesAt ==
  ASSUME HsTypes, NEW name, Rises(hsDone, name), NEW i \in HsIx, NEW j \in HsIx, i # j, name[i] # name[j],
         At(name[i]) > 0, At(name[j]) > 0
  PROVE  At(name[i]) < At(name[j]) <=> i < j
<1>1. PICK a, b : a = At(name[i]) /\ b = At(name[j])
  OBVIOUS
<1>2. /\ a \in Nat /\ b \in Nat /\ a \in 1 .. Len(hsDone) /\ b \in 1 .. Len(hsDone)
      /\ hsDone[a] = name[i] /\ hsDone[b] = name[j]
  BY <1>1, AtDone
<1>3. (a < b => i < j) /\ (b < a => j < i)
  BY <1>2, Zenon DEF Rises
<1>4. a # b
  BY <1>2
<1>5. i \in Int /\ j \in Int
  BY DEF HsIx
<1>6. QED BY <1>1, <1>2, <1>3, <1>4, <1>5

\* Whose functions of the lists were called, or whose static object was
\* destroyed, was constructed.
LEMMA Constructed ==
  ASSUME HsInv, NEW i \in HsIx, Occurs(Dtor[i], hsDone) \/ Occurs(Static[i], hsDone)
  PROVE  Occurs(Ctor[i], hsDone)
<1>1. /\ HsTypes /\ HsShape /\ HsOrder /\ HsNeeds /\ HsCpp /\ HsPending /\ HsDtors /\ HsDestroyed /\ HsCount
  BY DEF HsInv
<1>2. CASE Occurs(Static[i], hsDone)
  BY <1>1, <1>2, Zenon DEF HsPending
<1>3. CASE Occurs(Dtor[i], hsDone)
  <2>1. hsBuild.cpp /\ Occurs("main", hsDone)
    BY <1>1, <1>3, Zenon DEF HsDtors, Cleans
  <2>2. ~Occurs(Ctor[i], hsTodo)
    <3>1. CASE hsTodo = <<"main">>
      <4>1. Ctor[i] # "main"
        BY NotSteps DEF HsSteps
      <4>2. QED BY <3>1, <4>1, OnlyMain
    <3>2. CASE \A k \in 1 .. Len(hsTodo) : hsTodo[k] \in EndSteps \cup Dtors
      <4>1. EndSteps \subseteq HsSteps
        BY DEF EndSteps, HsSteps
      <4>2. Ctor[i] \notin EndSteps \cup Dtors
        BY <4>1, NotSteps
      <4>3. QED BY <3>2, <4>2, Zenon DEF Occurs
    <3>3. QED BY <1>1, <2>1, <3>1, <3>2, Zenon DEF HsShape
  <2>3. QED BY <1>1, <2>1, <2>2, Zenon DEF HsCpp
<1>4. QED BY <1>2, <1>3

LEMMA HsInvReady == HsInv => HsReady
<1> SUFFICES ASSUME HsInv, NEW s \in {"main"} \cup Range(_do_ctors), At(s) > 0, NEW need \in Needs(hsBuild)
             PROVE  At(need) \in 1 .. At(s) - 1
  BY Zenon DEF HsReady, Needs
<1>1. HsTypes /\ HsNeeds /\ s \in {"main"} \cup Ctors
  BY StaticOfIs DEF HsInv
<1>2. At(s) \in 1 .. Len(hsDone) /\ hsDone[At(s)] = s
  BY <1>1, AtDone
<1>3. PICK l \in 1 .. At(s) - 1 : hsDone[l] = need
  BY <1>1, <1>2, Zenon DEF HsNeeds, NeedsMet
<1>4. Len(hsDone) \in Nat
  BY <1>1 DEF HsTypes
<1>5. l \in 1 .. Len(hsDone)
  BY <1>2, <1>3, <1>4
<1>6. At(need) \in Nat /\ At(need) <= l /\ At(need) > 0
  BY <1>1, <1>3, <1>5, AtDone
<1>7. QED BY <1>2, <1>3, <1>4, <1>6

LEMMA HsInvLifo == HsInv => HsLifo
<1> SUFFICES ASSUME HsInv, NEW o \in Range(HsLists), NEW p \in Range(HsLists)
             PROVE  /\ o # p /\ At(o.static) > 0 /\ At(p.static) > 0 =>
                         (At(o.static) < At(p.static) <=> At(o.ctor) > At(p.ctor))
                    /\ At(o.static) > 0 =>
                         /\ At("own") < At(o.static) /\ At("main") > 0
                         /\ IF hsBuild.exits THEN At(o.dtor) \in 1 .. At(o.static) - 1 ELSE At(o.dtor) = 0
                    /\ o # p /\ At(o.dtor) > 0 /\ At(p.dtor) > 0 =>
                         (At(o.dtor) < At(p.dtor) <=> At(o.ctor) < At(p.ctor))
                    /\ \A i, j \in 1 .. Len(hsDone) : hsDone[i] = o.static /\ hsDone[j] = o.static => i = j
  BY Zenon DEF HsLifo
<1>1. /\ HsTypes /\ HsShape /\ HsOrder /\ HsNeeds /\ HsCpp /\ HsPending /\ HsDtors /\ HsDestroyed /\ HsCount
  BY DEF HsInv
<1>2. PICK i \in HsIx : o = HsLists[i] /\ o.ctor = Ctor[i] /\ o.dtor = Dtor[i] /\ o.static = Static[i]
  BY NamedByIndex
<1>3. PICK j \in HsIx : p = HsLists[j] /\ p.ctor = Ctor[j] /\ p.dtor = Dtor[j] /\ p.static = Static[j]
  BY NamedByIndex
<1>4. o # p => i # j
  BY <1>2, <1>3
<1>5. ASSUME i # j
      PROVE  Ctor[i] # Ctor[j] /\ Dtor[i] # Dtor[j] /\ Static[i] # Static[j]
  BY <1>5, HsNames
<1>6. \A s : At(s) \in Nat
  BY <1>1, AtDone
<1>7. \A s : Occurs(s, hsDone) <=> At(s) > 0
  BY <1>1, AtDone
<1>8. ASSUME o # p, At(o.static) > 0, At(p.static) > 0
      PROVE  At(o.static) < At(p.static) <=> At(o.ctor) > At(p.ctor)
  <2>1. Occurs(Static[i], hsDone) /\ Occurs(Static[j], hsDone)
    BY <1>2, <1>3, <1>7, <1>8
  <2>2. At(Ctor[i]) > 0 /\ At(Ctor[j]) > 0
    BY <1>7, <2>1, Constructed
  <2>3. At(Static[i]) > 0 /\ At(Static[j]) > 0
    BY <1>2, <1>3, <1>8
  <2>4. At(Static[i]) < At(Static[j]) <=> i < j
    BY <1>1, <1>4, <1>5, <1>8, <2>3, RisesAt DEF HsDestroyed
  <2>5. At(Ctor[j]) < At(Ctor[i]) <=> i < j
    BY <1>1, <1>4, <1>5, <1>8, <2>2, FallsAt DEF HsOrder
  <2>6. At(Ctor[i]) \in Nat /\ At(Ctor[j]) \in Nat
    BY <1>6
  <2>7. QED BY <1>2, <1>3, <2>4, <2>5, <2>6
<1>9. ASSUME At(o.static) > 0
      PROVE  /\ At("own") < At(o.static) /\ At("main") > 0
             /\ IF hsBuild.exits THEN At(o.dtor) \in 1 .. At(o.static) - 1 ELSE At(o.dtor) = 0
  <2>1. PICK l : l = At(Static[i])
    OBVIOUS
  <2>2. /\ l \in 1 .. Len(hsDone) /\ l \in Nat /\ hsDone[l] = Static[i] /\ Occurs(Static[i], hsDone)
        /\ Static[i] \in Statics
    BY <1>1, <1>2, <1>7, <1>9, <2>1, AtDone, NotSteps
  <2>3. At("own") < l
    <3>1. CASE At("own") = 0
      BY <2>2, <3>1
    <3>2. CASE At("own") # 0
      <4>1. At("own") \in 1 .. Len(hsDone) /\ hsDone[At("own")] = "own"
        BY <1>1, <1>6, <3>2, AtDone
      <4>2. QED BY <1>1, <2>2, <4>1, Zenon DEF HsDestroyed
    <3>3. QED BY <3>1, <3>2
  <2>4. At("main") > 0
    BY <1>1, <1>7, <2>2, Zenon DEF HsDestroyed
  <2>5. CASE hsBuild.exits
    <3>1. PICK k \in 1 .. l - 1 : hsDone[k] = Dtor[i]
      BY <1>1, <2>2, <2>5, Zenon DEF HsDestroyed
    <3>2. k \in 1 .. Len(hsDone)
      BY <1>1, <2>2, <3>1 DEF HsTypes
    <3>3. At(Dtor[i]) \in Nat /\ At(Dtor[i]) <= k /\ At(Dtor[i]) > 0
      BY <1>1, <3>1, <3>2, AtDone
    <3>4. At(Dtor[i]) \in 1 .. l - 1
      BY <2>2, <3>1, <3>3
    <3>5. QED BY <1>2, <2>1, <2>3, <2>4, <2>5, <3>4
  <2>6. CASE ~hsBuild.exits
    <3>1. ~Occurs(Dtor[i], hsDone)
      BY <1>1, <2>6, Zenon DEF HsDtors, Cleans
    <3>2. At(Dtor[i]) = 0
      BY <1>6, <1>7, <3>1
    <3>3. QED BY <1>2, <2>1, <2>3, <2>4, <2>6, <3>2
  <2>7. QED BY <2>5, <2>6
<1>10. ASSUME o # p, At(o.dtor) > 0, At(p.dtor) > 0
       PROVE  At(o.dtor) < At(p.dtor) <=> At(o.ctor) < At(p.ctor)
  <2>1. At(Dtor[i]) > 0 /\ At(Dtor[j]) > 0
    BY <1>2, <1>3, <1>10
  <2>2. Occurs(Dtor[i], hsDone) /\ Occurs(Dtor[j], hsDone)
    BY <1>7, <2>1
  <2>3. At(Ctor[i]) > 0 /\ At(Ctor[j]) > 0
    BY <1>7, <2>2, Constructed
  <2>4. At(Dtor[i]) < At(Dtor[j]) <=> j < i
    BY <1>1, <1>4, <1>5, <1>10, <2>1, FallsAt DEF HsOrder
  <2>5. At(Ctor[i]) < At(Ctor[j]) <=> j < i
    BY <1>1, <1>4, <1>5, <1>10, <2>3, FallsAt DEF HsOrder
  <2>6. QED BY <1>2, <1>3, <2>4, <2>5
<1>11. ASSUME NEW k \in 1 .. Len(hsDone), NEW l \in 1 .. Len(hsDone), hsDone[k] = o.static, hsDone[l] = o.static
       PROVE  k = l
  <2>1. ~(k < l) /\ ~(l < k)
    <3>1. ~(i < i)
      BY DEF HsIx
    <3>2. hsDone[k] = Static[i] /\ hsDone[l] = Static[i]
      BY <1>2, <1>11
    <3>3. QED BY <1>1, <3>1, <3>2, Zenon DEF HsDestroyed, Rises
  <2>2. QED BY <2>1
<1>12. QED BY <1>8, <1>9, <1>10, <1>11, Zenon

LEMMA HsInvSafe == HsInv => HsSafe
<1> SUFFICES ASSUME HsInv
             PROVE  HsSafe
  OBVIOUS
<1>1. HsTypes /\ HsCount
  BY DEF HsInv
<1>2. HsTypeInv
  BY <1>1, Zenon DEF HsTypes, HsTypeInv
<1>3. HsNeedsHost
  <2>1. At("main") > 0 => Occurs("main", hsDone)
    BY <1>1, AtDone
  <2>2. QED BY <1>1, <2>1, Zenon DEF HsCount, HsNeedsHost
<1>4. HsAddressReal
  BY DEF HsAddressReal, alt_exception_cause_generated_bad_addr, Cause, NOT_PRESENT
<1>5. QED BY <1>2, <1>3, <1>4, HsInvReady, HsInvLifo DEF HsSafe

(***************************************************************************)
(* The parts together.  A part that does not run keeps its variables, so   *)
(* its invariant holds whichever part runs.                                *)
(***************************************************************************)
DriverInv == IoInv /\ DvInv
StartInv == HkInv /\ HsInv

LEMMA InitDriverInv == Init => DriverInv
BY InitIoInv, InitDvInv DEF Init, DriverInv

LEMMA InitStartInv == Init => StartInv
BY InitHkInv, InitHsInv DEF Init, StartInv

LEMMA StepStartInv == StartInv /\ [Next]_vars => StartInv'
<1>1. [Next]_vars => [HkNext]_hkVars /\ [HsNext]_hsVars
  BY DEF Next, vars, Files, Clock, Profile, Io, Devices, Log, Caches, Start
<1>2. QED BY <1>1, StepHkInv, StepHsInv DEF StartInv

LEMMA StepDriverInv == DriverInv /\ [Next]_vars => DriverInv'
<1>1. IoInv /\ DvInv /\ [Next]_vars => [IoNext]_ioVars /\ [DvNext]_dvVars
  BY DEF Next, vars, Files, Clock, Profile, Io, Devices, Log, Caches, Start
<1>2. QED BY <1>1, StepIoInv, StepDvInv DEF DriverInv

\* DriverCallsSafe, for any number of callers, descriptors, names and entries:
\* a call meets a driver without the function or a descriptor of the wrong mode
\* only when the descriptor was closed under it, errno misleads only by another
\* caller or a quiet call, and a name finds the newest entry that answers to it
\* whatever follows it in memory (alt_read.c and its fellows, alt_find_dev.c).
THEOREM DriversReached == Spec => []DriverCallsSafe
<1>1. DriverInv => DriverCallsSafe
  BY IoInvSafe, DvInvSafe DEF DriverInv, DriverCallsSafe
<1>2. QED BY <1>1, InitDriverInv, StepDriverInv, PTL DEF Spec

\* StartSafe, for any caches, sections, build and lists of constructors: what a
\* flush or alt_load has gone through is in memory and no cache hides it, nothing
\* written later lies over a block that is used past the cache, a constructor and
\* main() find set up what they need, and what was constructed last is destroyed
\* first (alt_load.c, the cache loops, alt_main.c, alt_do_ctors.c).
THEOREM StartsInOrder == Spec => []StartSafe
<1>1. StartInv => StartSafe
  BY HkInvSafe, HsInvSafe DEF StartInv, StartSafe
<1>2. QED BY <1>1, InitStartInv, StepStartInv, PTL DEF Spec
=============================================================================
