----------------------------- MODULE HalDevices -----------------------------
(***************************************************************************)
(* The lists in which the HAL registers devices, file systems, DMA         *)
(* channels and flash devices, the search for a name in them, and the      *)
(* calls that go through what was found.  A list is kept newest first.     *)
(*                                                                         *)
(* Names are sequences of characters, because the search compares memory:  *)
(* it reads past the end of the shorter name, where DvBeyond may lie.      *)
(***************************************************************************)
EXTENDS Integers, Sequences, SequencesExt

CONSTANTS DvNames,    \* names that are registered and looked for
          DvMax,      \* registrations in a list
          DvSlash, DvNul,
          DvBeyond    \* what may follow the terminating NUL in memory

ASSUME DvAssumption == /\ DvNames \subseteq Seq(UNION {Range(n) : n \in DvNames}) \ {<<>>}
                       /\ \A n \in DvNames : DvNul \notin Range(n)
                       /\ DvMax \in Nat

DvKinds == {"file", "tx", "rx", "flash"}

VARIABLES dvKind,     \* the lists in use: devices and file systems, or one of the others
          dvList,     \* alt_dev_list, alt_dma_txchan_list, ... of that kind
          dvFs,       \* alt_fs_list
          dvHandle,   \* what open returned last: an entry, Null, or nothing yet
          dvErrno,
          dvFault     \* the call that went through NULL, or "none"
dvVars == <<dvKind, dvList, dvFs, dvHandle, dvErrno, dvFault>>

Null == [name |-> <<>>, has |-> {}]
Unopened == [name |-> <<>>, has |-> {"unopened"}]
DvNull == [name |-> <<DvSlash>>, has |-> {"write"}]    \* stands for /dev/null

(* The functions that a driver of each kind has a place for.               *)
DevFunctions == {"open", "close", "read", "write", "lseek", "fstat", "ioctl"}
TxFunctions == {"space", "send", "ioctl"}
RxFunctions == {"prepare", "ioctl"}
FlashFunctions == {"open", "close", "write", "read", "get_info", "erase_block", "write_block", "lock"}
FunctionsOf == [file |-> DevFunctions, tx |-> TxFunctions, rx |-> RxFunctions, flash |-> FlashFunctions]
(* Of these a driver of the flash kind may leave open and close out.       *)
Drivers(kind) == {FunctionsOf[kind]} \cup (IF kind = "flash" THEN {FlashFunctions \ {"open", "close"}} ELSE {})

DvInit ==
  /\ dvKind \in DvKinds
  /\ dvList = IF dvKind = "file" THEN <<DvNull>> ELSE <<>>
  /\ dvFs = <<>> /\ dvHandle = Unopened /\ dvErrno = "ok" /\ dvFault = "none"
DvRuns == dvFault = "none"

-----------------------------------------------------------------------------
(* Registration.  A device without a name is refused, in errno but for a   *)
(* file system; the newest goes to the head of its list.                   *)
Named == {[name |-> n, has |-> h] : n \in DvNames, h \in Drivers(dvKind)}
Insert(d) == IF d = Null THEN dvErrno' = "EINVAL" /\ UNCHANGED dvList
             ELSE dvList' = <<d>> \o dvList /\ UNCHANGED dvErrno
Register(kind) == /\ DvRuns /\ dvKind = kind /\ Len(dvList) < DvMax
                  /\ \E d \in Named \cup {Null} : Insert(d)
                  /\ UNCHANGED <<dvKind, dvFs, dvHandle, dvFault>>
RegisterDev == Register("file")
RegisterTx == Register("tx")
RegisterRx == Register("rx")
RegisterFlash == Register("flash")
RegisterFs == /\ DvRuns /\ dvKind = "file" /\ Len(dvFs) < DvMax
              /\ \E d \in Named \cup {Null} : dvFs' = IF d = Null THEN dvFs ELSE <<d>> \o dvFs
              /\ UNCHANGED <<dvKind, dvList, dvHandle, dvErrno, dvFault>>

-----------------------------------------------------------------------------
(* The search.  Byte i of a name in memory: NUL after its characters, then *)
(* whatever follows.                                                       *)
Byte(name, i, beyond) == IF i <= Len(name) THEN name[i]
                         ELSE IF i = Len(name) + 1 THEN DvNul ELSE beyond
SameBytes(a, b, n, beyond) == \A i \in 1 .. n : Byte(a, i, beyond) = Byte(b, i, beyond)
alt_find_dev(name, list, beyond) ==                                          \* 0: none
  SelectInSeq(list, LAMBDA d : SameBytes(d.name, name, Len(name) + 1, beyond))

MountLength(mount) == IF mount[Len(mount)] = DvSlash THEN Len(mount) - 1 ELSE Len(mount)
\* Mutant: the name of a file system may end within a part of the path.
EndsAnywhere(name, len, beyond) == TRUE
EndsThere(name, len, beyond) == Byte(name, len + 1, beyond) \in {DvSlash, DvNul}
Owns(mount, name, beyond) == LET len == MountLength(mount)
                             IN  EndsThere(name, len, beyond) /\ SameBytes(mount, name, len, beyond)
alt_find_file(name, beyond) == SelectInSeq(dvFs, LAMBDA d : Owns(d.name, name, beyond))

-----------------------------------------------------------------------------
(* Opening: the one found, or NULL.  A flash driver may have an open of    *)
(* its own, which returns what it likes; a file is looked for among the    *)
(* devices first.                                                          *)
Found(list, i) == IF i = 0 THEN Null ELSE list[i]
OpenIn(kind, name, beyond) == /\ DvRuns /\ dvKind = kind
                              /\ dvHandle' = Found(dvList, alt_find_dev(name, dvList, beyond))
                              /\ UNCHANGED <<dvKind, dvList, dvFs, dvFault>>
ErrnoIfNull == dvErrno' = IF dvHandle' = Null THEN "ENODEV" ELSE dvErrno
alt_dma_txchan_open(name, beyond) == OpenIn("tx", name, beyond) /\ ErrnoIfNull
alt_dma_rxchan_open(name, beyond) == OpenIn("rx", name, beyond) /\ ErrnoIfNull
alt_flash_open_dev(name, beyond) ==
  LET found == Found(dvList, alt_find_dev(name, dvList, beyond))
  IN  /\ DvRuns /\ dvKind = "flash"
      /\ dvHandle' \in IF "open" \in found.has THEN {found, Null} ELSE {found}
      /\ UNCHANGED <<dvKind, dvList, dvFs, dvErrno, dvFault>>
OpenFile(name, beyond) ==
  LET dev == alt_find_dev(name, dvList, beyond)
  IN  /\ DvRuns /\ dvKind = "file"
      /\ dvHandle' = IF dev # 0 THEN dvList[dev] ELSE Found(dvFs, alt_find_file(name, beyond))
      /\ ErrnoIfNull /\ UNCHANGED <<dvKind, dvList, dvFs, dvFault>>

-----------------------------------------------------------------------------
(* Calls through what was opened.  DMA channels are checked for NULL, but  *)
(* for the depth of a receive channel; of the flash calls only close is.   *)
Through(kind, f, checked) ==
  /\ DvRuns /\ dvKind = kind /\ dvHandle # Unopened
  /\ dvFault' = IF f \notin dvHandle.has /\ ~(checked /\ dvHandle = Null) THEN f ELSE "none"
  /\ UNCHANGED <<dvKind, dvList, dvFs, dvHandle, dvErrno>>
alt_dma_txchan_send == Through("tx", "send", TRUE)
alt_dma_txchan_space == Through("tx", "space", TRUE)
alt_dma_txchan_ioctl == Through("tx", "ioctl", TRUE)
alt_dma_rxchan_prepare == Through("rx", "prepare", TRUE)
alt_dma_rxchan_ioctl == Through("rx", "ioctl", TRUE)
alt_dma_rxchan_depth ==
  /\ DvRuns /\ dvKind = "rx" /\ dvHandle # Unopened
  /\ dvFault' = IF dvHandle = Null THEN "depth" ELSE "none"
  /\ UNCHANGED <<dvKind, dvList, dvFs, dvHandle, dvErrno>>
alt_lock_flash == Through("flash", "lock", FALSE)
alt_write_flash == Through("flash", "write", FALSE)
alt_read_flash == Through("flash", "read", FALSE)
alt_get_flash_info == Through("flash", "get_info", FALSE)
alt_erase_flash_block == Through("flash", "erase_block", FALSE)
alt_write_flash_block == Through("flash", "write_block", FALSE)
(* Close forgets nothing: the handle stays with its owner.  Both DMA       *)
(* closes are empty.                                                       *)
alt_flash_close_dev == /\ DvRuns /\ dvKind = "flash" /\ dvHandle # Unopened
                       /\ dvHandle' \in {dvHandle, Unopened}
                       /\ UNCHANGED <<dvKind, dvList, dvFs, dvErrno, dvFault>>

DvNext ==
  \/ RegisterDev \/ RegisterTx \/ RegisterRx \/ RegisterFlash \/ RegisterFs
  \/ \E name \in DvNames, beyond \in DvBeyond :
       \/ alt_dma_txchan_open(name, beyond) \/ alt_dma_rxchan_open(name, beyond)
       \/ alt_flash_open_dev(name, beyond) \/ OpenFile(name, beyond)
  \/ alt_dma_txchan_send \/ alt_dma_txchan_space \/ alt_dma_txchan_ioctl
  \/ alt_dma_rxchan_prepare \/ alt_dma_rxchan_ioctl \/ alt_dma_rxchan_depth
  \/ alt_lock_flash \/ alt_write_flash \/ alt_read_flash \/ alt_get_flash_info
  \/ alt_erase_flash_block \/ alt_write_flash_block \/ alt_flash_close_dev
DvSpec == DvInit /\ [][DvNext]_dvVars

-----------------------------------------------------------------------------
(* Lists hold what was registered; a handle is an entry, NULL or nothing.  *)
DvTypeInv ==
  /\ \A d \in Range(dvList) \cup Range(dvFs) \cup {dvHandle} : d.name \in DvNames \cup {<<>>, <<DvSlash>>}
  /\ dvErrno \in {"ok", "EINVAL", "ENODEV"}

(* The directories on the way to a name, the name itself among them.       *)
Parts(name) == {SubSeq(name, 1, i) : i \in {j \in 0 .. Len(name) :
                  j = Len(name) \/ name[j + 1] = DvSlash}}
Stripped(mount) == SubSeq(mount, 1, MountLength(mount))

(* A file belongs to the newest file system mounted on a directory on the  *)
(* way to it -- not to the deepest -- and to none that only shares its     *)
(* first letters; a device answers to its whole name only, the newest of   *)
(* that name.  What follows the names in memory never matters.             *)
DvFoundIsOwner ==
  \A name \in DvNames, beyond \in DvBeyond :
    /\ LET i == alt_find_file(name, beyond)
           Owner(d) == Stripped(d.name) \in Parts(name)
       IN  IF i = 0 THEN ~\E d \in Range(dvFs) : Owner(d)
           ELSE Owner(dvFs[i]) /\ ~\E j \in 1 .. i - 1 : Owner(dvFs[j])
    /\ LET i == alt_find_dev(name, dvList, beyond)
       IN  IF i = 0 THEN ~\E d \in Range(dvList) : d.name = name
           ELSE dvList[i].name = name /\ ~\E j \in 1 .. i - 1 : dvList[j].name = name

(* A failed open can be used without harm but for the depth of a receive   *)
(* channel and every flash call.                                           *)
DvHarmless == dvFault # "none" => dvHandle = Null /\ (dvFault = "depth" \/ dvKind = "flash")

(* A failed open of a file or channel has left its reason in errno, unless *)
(* a registration was refused since.                                       *)
DvReason == dvHandle = Null /\ dvKind # "flash" => dvErrno \in {"ENODEV", "EINVAL"}

DvSafe == DvTypeInv /\ DvFoundIsOwner /\ DvHarmless /\ DvReason
=============================================================================
