------------------------------ MODULE HalFiles ------------------------------
(***************************************************************************)
(* The file descriptors of the HAL: open, close, ioctl with its exclusive  *)
(* lock, fcntl, and the redirection of the standard streams at start-up.   *)
(*                                                                         *)
(* Callers are threads: alt_get_fd and alt_fd_lock hold alt_fd_list_lock   *)
(* and are one step each; an open that has its descriptor looks for a lock *)
(* and calls the driver without it.  A program without threads is the      *)
(* instance with one caller.                                               *)
(***************************************************************************)
EXTENDS Integers, Sequences

CONSTANTS HfCallers, ALT_MAX_FD,
          HfDevices,     \* devices, "/dev/null" among them
          HfFilesystems, \* what alt_find_file finds: never locked by the HAL
          HfConsole,     \* the device of the standard streams
          HfNone

HfNull == "/dev/null"
Fds == 0..ALT_MAX_FD - 1
Standard == 0..2

ASSUME HfAssumption == /\ ALT_MAX_FD \in Nat /\ ALT_MAX_FD > 3
                       /\ HfNull \in HfDevices /\ HfConsole \in HfDevices
                       /\ HfDevices \cap HfFilesystems = {}
                       /\ HfNone \notin HfDevices \cup HfFilesystems

Targets == HfDevices \cup HfFilesystems

VARIABLES hfDev,       \* alt_fd_list[].dev
          hfFlags,     \* alt_fd_list[].fd_flags
          alt_max_fd,
          hfStart,     \* standard streams that alt_io_redirect has yet to do
          hfPc, hfFd,  \* of a caller: where it is, the descriptor it works on
          hfOpen       \* descriptors that open has returned and close has not taken

hfVars == <<hfDev, hfFlags, alt_max_fd, hfStart, hfPc, hfFd, hfOpen>>

HfInit ==
  /\ hfDev = [f \in Fds |-> IF f \in Standard THEN HfNull ELSE HfNone]
  /\ hfFlags = [f \in Fds |-> {}] /\ alt_max_fd = -1
  /\ hfStart = <<1, 0, 2>>
  /\ hfPc = [t \in HfCallers |-> "idle"] /\ hfFd = [t \in HfCallers |-> -1]
  /\ hfOpen = {}

HfMove(t, pc, f) == hfPc' = [hfPc EXCEPT ![t] = pc] /\ hfFd' = [hfFd EXCEPT ![t] = f]

(* alt_get_fd: the first descriptor without a device.                      *)
FreeFds == {f \in Fds : hfDev[f] = HfNone}
FirstFree(f) == f \in FreeFds /\ \A g \in FreeFds : f <= g
HighestLast(f) == f
HighestNext(f) == IF f >= alt_max_fd THEN f + 1 ELSE alt_max_fd
Highest(f) == IF f > alt_max_fd THEN f ELSE alt_max_fd

(* alt_release_fd leaves the standard descriptors alone.                   *)
Release(f) ==
  /\ hfDev' = IF f \in Standard THEN hfDev ELSE [hfDev EXCEPT ![f] = HfNone]
  /\ hfFlags' = IF f \in Standard THEN hfFlags ELSE [hfFlags EXCEPT ![f] = {}]

(* alt_io_redirect before main(): open, copy the descriptor, release it; a *)
(* device that cannot be opened leaves the stream at /dev/null.            *)
HfRedirect ==
  /\ hfStart # <<>> /\ hfStart' = Tail(hfStart)
  /\ \/ /\ hfDev' = [hfDev EXCEPT ![Head(hfStart)] = HfConsole]
        /\ hfFlags' = [hfFlags EXCEPT ![Head(hfStart)] = {"DEV"}]
        /\ \E f \in Fds : FirstFree(f) /\ alt_max_fd' = Highest(f)
     \/ /\ \E f \in Fds : FirstFree(f) /\ alt_max_fd' \in {alt_max_fd, Highest(f)}
        /\ UNCHANGED <<hfDev, hfFlags>>
  /\ UNCHANGED <<hfPc, hfFd, hfOpen>>

HfReady(t) == hfStart = <<>> /\ hfPc[t] = "idle"

(* open: with a full pool it ends at once.                                 *)
HfGet(t) ==
  /\ HfReady(t)
  /\ \E f \in Fds, d \in Targets :
       /\ FirstFree(f) /\ hfDev' = [hfDev EXCEPT ![f] = d]
       /\ alt_max_fd' = Highest(f) /\ HfMove(t, "got", f)
  /\ UNCHANGED <<hfFlags, hfStart, hfOpen>>

(* alt_file_locked: a locked descriptor of the same device anywhere.       *)
FileLockedBelow(f) == \E g \in 0..alt_max_fd - 1 :
                        g # f /\ hfDev[g] = hfDev[f] /\ "EXCL" \in hfFlags[g]
FileLocked(f) == \E g \in 0..alt_max_fd :
                   g # f /\ hfDev[g] = hfDev[f] /\ "EXCL" \in hfFlags[g]

(* A descriptor given back, and one that a failed open forgets.            *)
GivenBackNot(f) == UNCHANGED <<hfDev, hfFlags>>
GivenBack(f) == Release(f)

HfCheck(t) ==
  LET f == hfFd[t]
  IN  /\ hfPc[t] = "got"
      /\ IF hfDev[f] \in HfDevices /\ FileLocked(f)
           THEN GivenBack(f) /\ HfMove(t, "idle", -1)
           ELSE /\ hfFlags' = [hfFlags EXCEPT ![f] = IF hfDev[f] \in HfDevices THEN {"DEV"} ELSE {}]
                /\ HfMove(t, "opening", f) /\ UNCHANGED hfDev
      /\ UNCHANGED <<alt_max_fd, hfStart, hfOpen>>

(* The open callback of the device, if there is one, may refuse.           *)
HfOpened(t) ==
  /\ hfPc[t] = "opening" /\ HfMove(t, "idle", -1)
  /\ \/ hfOpen' = hfOpen \cup {hfFd[t]} /\ UNCHANGED <<hfDev, hfFlags>>
     \/ Release(hfFd[t]) /\ UNCHANGED hfOpen
  /\ UNCHANGED <<alt_max_fd, hfStart>>

(* close: the driver's answer is returned, and the descriptor is gone      *)
(* whatever it is.                                                         *)
Usable == Standard \cup hfOpen
HfClose(t) ==
  /\ HfReady(t)
  /\ \E f \in Usable : hfOpen' = hfOpen \ {f} /\ HfMove(t, "closing", f)
  /\ UNCHANGED <<hfDev, hfFlags, alt_max_fd, hfStart>>
HfClosed(t) ==
  /\ hfPc[t] = "closing" /\ Release(hfFd[t]) /\ HfMove(t, "idle", -1)
  /\ UNCHANGED <<alt_max_fd, hfStart, hfOpen>>

(* ioctl TIOCEXCL and TIOCNXCL, on devices only.  The loop of alt_fd_lock  *)
(* ends before the highest descriptor.                                     *)
SharedDescriptor(f) == \E g \in 0..alt_max_fd - 1 : g # f /\ hfDev[g] = hfDev[f]
HfLock(t) ==
  /\ HfReady(t)
  /\ \E f \in Usable :
       /\ "DEV" \in hfFlags[f] /\ ~SharedDescriptor(f)
       /\ hfFlags' = [hfFlags EXCEPT ![f] = @ \cup {"EXCL"}]
  /\ UNCHANGED <<hfDev, alt_max_fd, hfStart, hfPc, hfFd, hfOpen>>
HfUnlock(t) ==
  /\ HfReady(t)
  /\ \E f \in Usable : /\ "DEV" \in hfFlags[f]
                       /\ hfFlags' = [hfFlags EXCEPT ![f] = @ \ {"EXCL"}]
  /\ UNCHANGED <<hfDev, alt_max_fd, hfStart, hfPc, hfFd, hfOpen>>

(* fcntl F_SETFL changes O_NONBLOCK and O_APPEND and nothing else.         *)
FcntlMaskAll == {"NONBLOCK", "DEV", "EXCL"}
FcntlMask == {"NONBLOCK"}
HfFcntl(t) ==
  /\ HfReady(t)
  /\ \E f \in Usable, flags \in {{}, {"NONBLOCK"}} :
       hfFlags' = [hfFlags EXCEPT ![f] = (@ \ FcntlMask) \cup flags]
  /\ UNCHANGED <<hfDev, alt_max_fd, hfStart, hfPc, hfFd, hfOpen>>

HfNext == HfRedirect \/ \E t \in HfCallers :
            HfGet(t) \/ HfCheck(t) \/ HfOpened(t) \/ HfClose(t) \/ HfClosed(t)
            \/ HfLock(t) \/ HfUnlock(t) \/ HfFcntl(t)
HfSpec == HfInit /\ [][HfNext]_hfVars

-----------------------------------------------------------------------------
(* The descriptors and the callers hold what their types allow.            *)
HfTypeInv ==
  /\ hfDev \in [Fds -> Targets \cup {HfNone}]
  /\ hfFlags \in [Fds -> SUBSET {"DEV", "EXCL", "NONBLOCK"}]
  /\ alt_max_fd \in -1..ALT_MAX_FD - 1 /\ hfStart \in Seq(Standard)
  /\ hfPc \in [HfCallers -> {"idle", "got", "opening", "closing"}]
  /\ hfFd \in [HfCallers -> -1..ALT_MAX_FD - 1] /\ hfOpen \subseteq Fds

Held(f) == f \in hfOpen \/ \E t \in HfCallers : hfPc[t] # "idle" /\ hfFd[t] = f

(* A descriptor that is taken from the pool is open or in the hands of one *)
(* call, on every path by which open and close can fail; a free one has    *)
(* lost its flags, so a lock does not survive in it.                       *)
HfNoLeak ==
  /\ \A f \in Fds \ Standard :
       /\ hfDev[f] # HfNone <=> Held(f)
       /\ hfDev[f] = HfNone => hfFlags[f] = {}
  /\ \A t \in HfCallers : hfPc[t] # "idle" =>
       /\ hfFd[t] \in Fds /\ (hfPc[t] # "closing" => hfFd[t] \notin Standard)
       /\ hfFd[t] \notin hfOpen
       /\ \A u \in HfCallers \ {t} :
            hfPc[u] # "idle" /\ hfFd[u] = hfFd[t] => hfFd[t] \in Standard

(* The loops that look for a lock stop at alt_max_fd: no descriptor in use *)
(* lies above it.                                                          *)
HfHighWater == \A f \in Fds \ Standard : hfDev[f] # HfNone => f <= alt_max_fd

(* Two descriptors of one device are never locked at the same time, though *)
(* alt_fd_lock leaves the highest descriptor out of its search.            *)
HfOneExclusive ==
  \A f, g \in Fds :
    f # g /\ hfDev[f] = hfDev[g] => "EXCL" \notin hfFlags[f] \cap hfFlags[g]

(* open goes on to the driver of a device only while none of its           *)
(* descriptors is locked, wherever in the list: searching up to the high   *)
(* water mark is enough, and a lock granted later counts this descriptor.  *)
HfLockedOut ==
  [][\A t \in HfCallers : hfPc[t] = "got" /\ hfPc'[t] = "opening" =>
       \A g \in Fds \ {hfFd[t]} :
         hfDev[g] = hfDev[hfFd[t]] => "EXCL" \notin hfFlags[g]]_hfVars

(* A lock goes away by TIOCNXCL or with its descriptor, not by fcntl.      *)
HfLockKept ==
  [][(\E f \in Fds : "EXCL" \in hfFlags[f] \ hfFlags'[f])
       => \E t \in HfCallers : HfUnlock(t) \/ HfClosed(t)]_hfVars

(* The pool of descriptors: none lost, all below the high water mark, at   *)
(* most one lock on a device.                                              *)
HfSafe == HfTypeInv /\ HfNoLeak /\ HfHighWater /\ HfOneExclusive

(* A locked device is not opened, and the lock lasts until it is given up. *)
HfLocks == HfLockedOut /\ HfLockKept
=============================================================================
