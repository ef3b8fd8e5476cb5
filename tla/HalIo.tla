------------------------------- MODULE HalIo --------------------------------
(***************************************************************************)
(* The calls that hand on to a driver: write, read, lseek, fstat, isatty   *)
(* and ioctl, in the two forms the HAL can be built in.  The "list" form   *)
(* looks at alt_fd_list, checks what the descriptor and its driver allow   *)
(* and then calls the driver, without a lock: between the two another      *)
(* thread may close the descriptor, and open may give it to another        *)
(* device; afterwards errno, one for all threads, is read by the caller.   *)
(* The "direct" form knows the devices of the standard streams when it is  *)
(* linked.                                                                 *)
(*                                                                         *)
(* fd->dev may be read again for the call or kept from the check: the      *)
(* compiler chooses.  The lock requests of ioctl are in HalFiles.          *)
(***************************************************************************)
EXTENDS Integers

CONSTANTS IoCallers,
          IoFds,      \* descriptors that callers name; the last may be opened and closed
          IoOpened,   \* that one
          IoPresent   \* direct form: the streams that have a device

ASSUME IoAssumption == /\ IoFds \subseteq Nat /\ IoOpened \in IoFds
                       /\ IoOpened > 2 /\ IoPresent \subseteq 0..2

IoFunctions == {"write", "read", "lseek", "fstat", "ioctl"}

VARIABLES ioForm,     \* "list" or "direct"
          ioHas,      \* the functions of each driver
          ioDev,      \* alt_fd_list[].dev, "none" for NULL
          ioMode,     \* access mode of fd_flags: "r", "w", "rw"
          ioCall,     \* of a caller: what it is doing
          ioErrno,
          ioNote      \* what the last step did that its caller would not expect

ioTable == <<ioForm, ioHas, ioDev, ioMode>>
ioVars == <<ioTable, ioCall, ioErrno, ioNote>>

(* A call that passed its check keeps the device it saw and whether its    *)
(* descriptor was closed since; one that failed, the reason it should read *)
(* and what may stand in its way.                                          *)
IoIdle == [at |-> "idle"]
Calling(call, fd) == [at |-> "call", call |-> call, fd |-> fd, seen |-> ioDev[fd], late |-> FALSE]
Failing(why, but) == [at |-> "failed", why |-> why, but |-> but]
Fine == [what |-> "nothing", why |-> "none"]
Note(what, why) == [what |-> what, why |-> why]

(* The standard descriptors point to /dev/null, with flags 0 (O_RDONLY),   *)
(* or have been redirected to a device.                                    *)
IoInit ==
  /\ ioForm \in {"list", "direct"}
  /\ \E has \in {IoFunctions, {"write", "read", "ioctl"}} :
       ioHas = [null |-> {"write"}, dev |-> has, none |-> {}]
  /\ \E d \in {"null", "dev"} :
       /\ ioDev = [f \in IoFds |-> IF f = IoOpened THEN "none" ELSE d]
       /\ ioMode = [f \in IoFds |-> IF d = "dev" /\ f \in 1..2 THEN "w" ELSE "r"]
  /\ ioCall = [t \in IoCallers |-> IoIdle]
  /\ ioErrno = "ok" /\ ioNote = Fine

IoRuns == ioNote.what # "fault"
IoFree(t) == ioCall[t] = IoIdle /\ IoRuns

(* What open and close leave behind (HalFiles has the whole of them); the  *)
(* standard descriptors outlive close.                                     *)
IoOpen(t) ==
  /\ IoFree(t) /\ ioForm = "list" /\ ioDev[IoOpened] = "none"
  /\ \E d \in {"null", "dev"}, m \in {"r", "w"} :
       ioDev' = [ioDev EXCEPT ![IoOpened] = d] /\ ioMode' = [ioMode EXCEPT ![IoOpened] = m]
  /\ ioNote' = Fine /\ UNCHANGED <<ioForm, ioHas, ioCall, ioErrno>>
ClosedUnder(c) == IF c.at = "call" /\ c.fd = IoOpened THEN [c EXCEPT !.late = TRUE] ELSE c
IoClose(t) ==
  /\ IoFree(t) /\ ioForm = "list" /\ ioDev[IoOpened] # "none"
  /\ ioDev' = [ioDev EXCEPT ![IoOpened] = "none"]
  /\ ioMode' = [ioMode EXCEPT ![IoOpened] = "r"]
  /\ ioCall' = [u \in IoCallers |-> ClosedUnder(ioCall[u])]
  /\ ioNote' = Fine /\ UNCHANGED <<ioForm, ioHas, ioErrno>>

(* The end of a call: a failure is put into errno, over whatever another   *)
(* caller has not read yet -- but not what the driver's fstat returns, nor *)
(* what a driver that is called directly returns.                          *)
Overwritten(c) == IF c.at = "failed" THEN [c EXCEPT !.but = "other"] ELSE c
Told(t, why, calls) ==
  /\ ioErrno' = why
  /\ ioCall' = [u \in IoCallers |-> IF u = t THEN Failing(why, "nothing") ELSE Overwritten(calls[u])]
ReturnedOnly(t, why) == ioCall' = [ioCall EXCEPT ![t] = Failing(why, "quiet")] /\ UNCHANGED ioErrno
Succeeds(t) == ioCall' = [ioCall EXCEPT ![t] = IoIdle] /\ UNCHANGED ioErrno
DriverFailed(t, op) == IF op = "fstat" \/ ioForm = "direct" THEN ReturnedOnly(t, "EIO")
                                                           ELSE Told(t, "EIO", ioCall)

(* Each call: the driver's function it needs, the modes it goes with, and  *)
(* what it answers itself without them; "ok": a character device, or a     *)
(* terminal.                                                               *)
CallOf(op, function, modes, own) == [op |-> op, function |-> function, modes |-> modes, own |-> own]
AnyMode == {"r", "w", "rw"}
alt_write == CallOf("write", "write", {"w", "rw"}, "EACCES")
alt_read == CallOf("read", "read", {"r", "rw"}, "EACCES")
alt_lseek == CallOf("lseek", "lseek", AnyMode, "ENOTSUP")
alt_fstat == CallOf("fstat", "fstat", AnyMode, "ok")
alt_isatty == CallOf("isatty", "fstat", AnyMode, "ok")
alt_ioctl == CallOf("ioctl", "ioctl", AnyMode, "ENOTTY")
SystemCalls == {alt_write, alt_read, alt_lseek, alt_fstat, alt_isatty, alt_ioctl}

\* Mutant: the access mode is not looked at.
PassesAnyMode(c, fd) == c.function \in ioHas[ioDev[fd]]
Passes(c, fd) == ioMode[fd] \in c.modes /\ c.function \in ioHas[ioDev[fd]]
IoCheck(t) ==
  /\ IoFree(t) /\ ioForm = "list"
  /\ \E c \in SystemCalls, fd \in {f \in IoFds : ioDev[f] # "none"} \cup {-1} :
       IF fd < 0 THEN Told(t, "EBADFD", ioCall)
       ELSE IF Passes(c, fd)
         THEN ioCall' = [ioCall EXCEPT ![t] = Calling(c, fd)] /\ UNCHANGED ioErrno
       ELSE IF c.own = "ok" THEN Succeeds(t) ELSE Told(t, c.own, ioCall)
  /\ ioNote' = Fine /\ UNCHANGED ioTable

(* The call of the driver.  isatty calls fstat, which looks again and      *)
(* needs no function; what it makes of st_mode is any answer.              *)
There(op, d) == IF op = "isatty" THEN d # "none" ELSE op \in ioHas[d]
IoDrive(t) ==
  LET k == ioCall[t] IN
  /\ k.at = "call" /\ IoRuns
  /\ \E d \in {k.seen, ioDev[k.fd]} :
       IF ~There(k.call.op, d)
         THEN /\ ioNote' = Note("fault", IF k.late THEN "closed" ELSE "none")
              /\ ioCall' = [ioCall EXCEPT ![t] = IoIdle] /\ UNCHANGED ioErrno
         ELSE /\ ioNote' = IF ioMode[k.fd] \in k.call.modes THEN Fine
                           ELSE Note("wrong way", IF k.late THEN "closed" ELSE "none")
              /\ \/ Succeeds(t)
                 \/ k.call.op # "isatty" /\ DriverFailed(t, k.call.op)
  /\ UNCHANGED ioTable

(* The direct form: the streams an operation knows, what it answers for    *)
(* others and whether it sets errno; fstat and isatty ask no driver, lseek *)
(* is not there, a driver's error is returned as it is.                    *)
Direct(call, streams, own, sets) == [call |-> call, streams |-> streams, own |-> own, sets |-> sets]
DirectWrite == Direct(alt_write, IoPresent \ {0}, "EBADFD", TRUE)
DirectRead == Direct(alt_read, IoPresent \cap {0}, "EBADFD", TRUE)
DirectLseek == Direct(alt_lseek, {}, "ENOSYS", TRUE)
DirectFstat == Direct(alt_fstat, IoPresent, "EBADFD", FALSE)
DirectIsatty == Direct(alt_isatty, IoPresent, "EBADFD", FALSE)
DirectIoctl == Direct(alt_ioctl, IoPresent, "EBADFD", TRUE)
DirectCalls == {DirectWrite, DirectRead, DirectLseek, DirectFstat, DirectIsatty, DirectIoctl}
StreamMode(fd) == IF fd = 0 THEN "r" ELSE "w"
IoDirect(t) ==
  /\ IoFree(t) /\ ioForm = "direct"
  /\ \E c \in DirectCalls, fd \in IoFds \cup {-1} :
       IF fd \notin c.streams
         THEN /\ IF c.sets THEN Told(t, c.own, ioCall) ELSE ReturnedOnly(t, c.own)
              /\ ioNote' = Fine
         ELSE /\ Succeeds(t) \/ (c.sets /\ DriverFailed(t, c.call.op))
              /\ ioNote' = IF StreamMode(fd) \in c.call.modes THEN Fine ELSE Note("wrong way", "none")
  /\ UNCHANGED ioTable

(* The caller reads errno.                                                 *)
IoLook(t) ==
  LET c == ioCall[t] IN
  /\ c.at = "failed" /\ IoRuns
  /\ ioNote' = IF ioErrno = c.why THEN Fine ELSE Note("misled", c.but)
  /\ ioCall' = [ioCall EXCEPT ![t] = IoIdle]
  /\ UNCHANGED <<ioTable, ioErrno>>

IoNext == \E t \in IoCallers : \/ IoOpen(t) \/ IoClose(t) \/ IoCheck(t)
                               \/ IoDrive(t) \/ IoDirect(t) \/ IoLook(t)
IoSpec == IoInit /\ [][IoNext]_ioVars

-----------------------------------------------------------------------------
(* Descriptors, callers and notes are what their types allow.              *)
IoTypeInv ==
  /\ ioDev \in [IoFds -> {"none", "null", "dev"}] /\ ioMode \in [IoFds -> {"r", "w", "rw"}]
  /\ \A t \in IoCallers : ioCall[t].at \in {"idle", "call", "failed"}
  /\ ioNote.what \in {"nothing", "fault", "wrong way", "misled"}

(* A function that the driver does not have is called only when the        *)
(* descriptor was closed between the check and the call, and data goes     *)
(* against the mode a descriptor was opened with only then.                *)
IoNoSurprise == ioNote.what \in {"fault", "wrong way"} =>
                  ioNote.why = "closed" /\ ioForm = "list"

(* A caller that reads another reason than its own from errno lost it to   *)
(* another caller, or made a call that does not set errno at all.          *)
IoReason == ioNote.what = "misled" => ioNote.why \in {"other", "quiet"}

IoSafe == IoTypeInv /\ IoNoSurprise /\ IoReason
=============================================================================
