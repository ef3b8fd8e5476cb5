------------------------------ MODULE HalStart ------------------------------
(***************************************************************************)
(* The life of a program under the HAL: alt_main, with a message of the    *)
(* log before each of its steps, constructors, main(), and the ways out of *)
(* it -- return, exit(), a signal to itself, an exception that nobody      *)
(* handles.  What runs next is kept as a sequence of steps.                *)
(*                                                                         *)
(* A character of a message waits until the FIFO of the JTAG UART has      *)
(* room, which only a host that reads can make.                            *)
(***************************************************************************)
EXTENDS Integers, Sequences, SequencesExt, FiniteSets

CONSTANTS HsBuilds,    \* [cpp, exits, clean, direct, info] of the BSP's settings
          HsLists,     \* __CTOR_LIST__ and __DTOR_LIST__: [ctor, dtor, static]
          HsFifo,      \* room of the port when it is empty
          HsMessage,   \* characters of a message
          HsCauses     \* causes of exceptions

NOT_PRESENT == -1
NoFault == -2
\* The steps that are not of the lists.
HsSteps == {"log", "irq_init", "os_init", "sem_create", "sys_init", "redirect", "atexit", "main", "own",
            "dtors", "close", "exitprocs", "os_stop", "halt", "spin", "return", "break"}
ASSUME HsAssumption ==
  /\ HsFifo \in Nat /\ HsMessage \in Nat \ {0} /\ HsCauses \subseteq 0 .. 22
  /\ HsBuilds \subseteq [cpp : BOOLEAN, exits : BOOLEAN, clean : BOOLEAN, direct : BOOLEAN, info : BOOLEAN]
  /\ HsLists \in Seq([ctor : STRING, dtor : STRING, static : STRING])
  /\ \A i, j \in 1 .. Len(HsLists), x, y \in {"ctor", "dtor", "static"} :
       HsLists[i][x] \notin HsSteps /\ (HsLists[i][x] = HsLists[j][y] => i = j /\ x = y)

VARIABLES hsBuild, hsHost,   \* the settings; a host reads the port
          hsRoom, hsChars,   \* of the port; put of the message being printed
          hsTodo,            \* the steps to come, the one that runs first
          hsDone,            \* the steps made
          hsAtExit,          \* what exit() will call, the latest last
          hsHandler,         \* alt_instruction_exception_handler: NULL or what it answers
          hsFault            \* the instruction of main() that runs: its cause, or NoFault
hsVars == <<hsBuild, hsHost, hsRoom, hsChars, hsTodo, hsDone, hsAtExit, hsHandler, hsFault>>

-----------------------------------------------------------------------------
(* The sequences.  The lists are gone through from their ends.             *)
Downwards(part) == Reverse([i \in 1 .. Len(HsLists) |-> HsLists[i][part]])
_do_ctors == Downwards("ctor")
_do_dtors == Downwards("dtor")
DriversFirst == <<"log", "irq_init", "log", "os_init", "log", "sem_create", "log", "sys_init", "log">>
Redirect(b) == IF b.direct THEN <<>> ELSE <<"log", "redirect">>
Constructors(b) == IF b.cpp THEN <<"log">> \o _do_ctors ELSE <<>>
AtExit(b) == IF b.cpp /\ b.clean /\ b.exits THEN <<"log", "atexit">> ELSE <<>>
\* Mutant: the constructors before the drivers.
ConstructorsFirst(b) == Constructors(b) \o DriversFirst \o Redirect(b) \o AtExit(b) \o <<"log", "main">>
alt_main(b) == DriversFirst \o Redirect(b) \o Constructors(b) \o AtExit(b) \o <<"log", "main">>
alt_sim_halt == "halt"
ALT_EXIT == <<"log", "log", "log", "os_stop", "log", alt_sim_halt, "log", "spin">>

(* exit() calls what was registered, then _exit(); without a clean exit it *)
(* is _exit() at once.                                                     *)
exit == IF hsBuild.clean THEN <<"exitprocs">> \o ALT_EXIT ELSE ALT_EXIT
AfterMain == IF hsBuild.exits THEN <<"close">> \o exit ELSE <<"log", "return">>

HsInit ==
  /\ hsBuild \in HsBuilds /\ hsHost \in BOOLEAN /\ hsRoom = HsFifo /\ hsChars = 0
  /\ hsTodo = alt_main(hsBuild) /\ hsDone = <<>> /\ hsAtExit = <<>>
  /\ hsHandler = "none" /\ hsFault = NoFault

-----------------------------------------------------------------------------
HsNow(step) == hsTodo # <<>> /\ Head(hsTodo) = step
\* Mutant: the pointer into the message is not moved on at its end.
HsLogNoAdvance == /\ HsNow("log") /\ hsRoom > 0 /\ hsRoom' = hsRoom - 1
                  /\ hsChars' = IF hsChars + 1 = HsMessage THEN 0 ELSE hsChars + 1
                  /\ UNCHANGED <<hsBuild, hsHost, hsTodo, hsDone, hsAtExit, hsHandler, hsFault>>
HsLog == /\ HsNow("log") /\ hsRoom > 0 /\ hsRoom' = hsRoom - 1
         /\ IF hsChars + 1 = HsMessage THEN hsChars' = 0 /\ hsTodo' = Tail(hsTodo)
                                       ELSE hsChars' = hsChars + 1 /\ UNCHANGED hsTodo
         /\ UNCHANGED <<hsBuild, hsHost, hsDone, hsAtExit, hsHandler, hsFault>>
HsHostReads == /\ hsHost /\ hsRoom < HsFifo /\ hsRoom' = hsRoom + 1
               /\ UNCHANGED <<hsBuild, hsHost, hsChars, hsTodo, hsDone, hsAtExit, hsHandler, hsFault>>

(* Steps with an end.  A constructor of a static object registers its      *)
(* destructor.                                                             *)
StaticOf(ctor) == (CHOOSE o \in Range(HsLists) : o.ctor = ctor).static
Ends == {"log", "main", "exitprocs", "spin", "return", "break"}
HsStep ==
  /\ hsTodo # <<>> /\ Head(hsTodo) \notin Ends
  /\ LET s == Head(hsTodo)
     IN  /\ hsDone' = Append(hsDone, s) /\ hsTodo' = Tail(hsTodo)
         /\ CASE s = "atexit" -> hsAtExit' = Append(hsAtExit, "dtors")
              [] s \in Range(_do_ctors) -> hsAtExit' \in {hsAtExit, Append(hsAtExit, StaticOf(s))}
              [] OTHER -> UNCHANGED hsAtExit
  /\ UNCHANGED <<hsBuild, hsHost, hsRoom, hsChars, hsHandler, hsFault>>

(* exit() takes what was registered last and calls it, until none is left. *)
\* Mutant: what was registered first is called first.
UnwindsForwards ==
  /\ HsNow("exitprocs")
  /\ IF hsAtExit = <<>> THEN hsTodo' = Tail(hsTodo) /\ UNCHANGED <<hsDone, hsAtExit>>
     ELSE /\ hsAtExit' = Tail(hsAtExit)
          /\ IF Head(hsAtExit) = "dtors" THEN hsTodo' = _do_dtors \o hsTodo /\ UNCHANGED hsDone
             ELSE hsDone' = Append(hsDone, Head(hsAtExit)) /\ UNCHANGED hsTodo
  /\ UNCHANGED <<hsBuild, hsHost, hsRoom, hsChars, hsHandler, hsFault>>
HsUnwind ==
  /\ HsNow("exitprocs")
  /\ IF hsAtExit = <<>> THEN hsTodo' = Tail(hsTodo) /\ UNCHANGED <<hsDone, hsAtExit>>
     ELSE LET f == hsAtExit[Len(hsAtExit)]
          IN  /\ hsAtExit' = SubSeq(hsAtExit, 1, Len(hsAtExit) - 1)
              /\ IF f = "dtors" THEN hsTodo' = _do_dtors \o hsTodo /\ UNCHANGED hsDone
                 ELSE hsDone' = Append(hsDone, f) /\ UNCHANGED hsTodo
  /\ UNCHANGED <<hsBuild, hsHost, hsRoom, hsChars, hsHandler, hsFault>>

InMain == HsNow("main") /\ "main" \in Range(hsDone)
HsCallMain == /\ HsNow("main") /\ "main" \notin Range(hsDone) /\ hsDone' = Append(hsDone, "main")
              /\ UNCHANGED <<hsBuild, hsHost, hsRoom, hsChars, hsTodo, hsAtExit, hsHandler, hsFault>>
MainRuns == InMain /\ hsFault = NoFault
Goes(steps) == /\ hsTodo' = steps
               /\ UNCHANGED <<hsBuild, hsHost, hsRoom, hsChars, hsDone, hsAtExit, hsHandler, hsFault>>
HsReturn == MainRuns /\ Goes(AfterMain)
HsExit == MainRuns /\ Goes(exit)
HsAtExit == /\ MainRuns /\ "own" \notin Range(hsAtExit)
            /\ hsAtExit' = Append(hsAtExit, "own")
            /\ UNCHANGED <<hsBuild, hsHost, hsRoom, hsChars, hsTodo, hsDone, hsHandler, hsFault>>
(* A signal to itself, or to everybody, ends the program as _exit() does,  *)
(* or is ignored; to another process, or an unknown one, is refused.       *)
Fatal == {"ABRT", "ALRM", "FPE", "ILL", "KILL", "PIPE", "QUIT", "SEGV", "TERM", "USR1", "USR2", "BUS",
          "POLL", "PROF", "SYS", "TRAP", "VTALRM", "XCPU", "XFSZ"}
Ignored == {"null", "CHLD", "URG"}
alt_kill(pid, sig) == IF pid > 0 THEN "ESRCH" ELSE IF sig \in Fatal THEN "exits"
                      ELSE IF sig \in Ignored THEN "ok" ELSE "EINVAL"
HsKill == \E pid \in {0, 1}, sig \in Fatal \cup Ignored \cup {"STOP"} :
            MainRuns /\ alt_kill(pid, sig) = "exits" /\ Goes(ALT_EXIT)

(* Exceptions of main()'s instructions.  The handler is given a cause, or  *)
(* that there is none, and says whether to skip the instruction or to      *)
(* issue it again, after it removed the cause or not.                      *)
alt_instruction_exception_register ==
  /\ MainRuns /\ hsHandler' \in {"none", "skip", "again"}
  /\ UNCHANGED <<hsBuild, hsHost, hsRoom, hsChars, hsTodo, hsDone, hsAtExit, hsFault>>
HsFaults == /\ MainRuns /\ hsFault' \in HsCauses
            /\ UNCHANGED <<hsBuild, hsHost, hsRoom, hsChars, hsTodo, hsDone, hsAtExit, hsHandler>>
Cause == IF hsBuild.info THEN hsFault ELSE NOT_PRESENT
alt_exception_cause_generated_bad_addr(cause) == cause \in {6, 7, 11, 14, 15, 16, 21}
alt_instruction_exception_entry ==
  /\ InMain /\ hsFault # NoFault
  /\ CASE hsHandler = "none" -> hsTodo' = <<"break">> /\ UNCHANGED hsFault
       [] hsHandler = "skip" -> hsFault' = NoFault /\ UNCHANGED hsTodo
       [] OTHER -> hsFault' \in {NoFault, hsFault} /\ UNCHANGED hsTodo
  /\ UNCHANGED <<hsBuild, hsHost, hsRoom, hsChars, hsDone, hsAtExit, hsHandler>>

HsProgram == HsLog \/ HsStep \/ HsCallMain \/ HsUnwind
HsNext == \/ HsProgram \/ HsHostReads \/ HsReturn \/ HsExit \/ HsAtExit \/ HsKill
          \/ alt_instruction_exception_register \/ HsFaults \/ alt_instruction_exception_entry
(* The processor goes on, and a host that is there reads on.               *)
HsSpec == HsInit /\ [][HsNext]_hsVars /\ WF_hsVars(HsProgram) /\ WF_hsVars(HsHostReads)

-----------------------------------------------------------------------------
(* The port is within its room, a fault is a cause.                        *)
HsTypeInv == /\ hsRoom \in 0 .. HsFifo /\ hsChars \in 0 .. HsMessage - 1
             /\ hsFault \in HsCauses \cup {NoFault}

At(step) == SelectInSeq(hsDone, LAMBDA s : s = step)     \* 0: not yet
(* Constructors and main() may use interrupts, locks, drivers and streams: *)
(* whoever runs first of them finds all of these set up.                   *)
HsReady == \A s \in {"main"} \cup Range(_do_ctors) : At(s) > 0 =>
             \A need \in {"irq_init", "os_init", "sem_create", "sys_init"}
                           \cup (IF hsBuild.direct THEN {} ELSE {"redirect"}) :
               At(need) \in 1 .. At(s) - 1

(* What was constructed last is destroyed first, each once, what main()    *)
(* registered before all of it; nothing is destroyed before main().  But   *)
(* the functions of __DTOR_LIST__, which go before the static objects, go  *)
(* in the order of the constructors' list, not against it, and only if     *)
(* alt_main() is to call exit().                                           *)
HsLifo ==
  \A o, p \in Range(HsLists) :
    /\ o # p /\ At(o.static) > 0 /\ At(p.static) > 0 =>
         (At(o.static) < At(p.static) <=> At(o.ctor) > At(p.ctor))
    /\ At(o.static) > 0 =>
         /\ At("own") < At(o.static) /\ At("main") > 0
         /\ IF hsBuild.exits THEN At(o.dtor) \in 1 .. At(o.static) - 1 ELSE At(o.dtor) = 0
    /\ o # p /\ At(o.dtor) > 0 /\ At(p.dtor) > 0 =>
         (At(o.dtor) < At(p.dtor) <=> At(o.ctor) < At(p.ctor))
    /\ \A i, j \in 1 .. Len(hsDone) : hsDone[i] = o.static /\ hsDone[j] = o.static => i = j

(* Without a host main() is never reached unless the port has room for all *)
(* messages before it.                                                     *)
Messages(steps) == Cardinality({i \in 1 .. Len(steps) : steps[i] = "log"})
HsNeedsHost == At("main") > 0 => hsHost \/ Messages(alt_main(hsBuild)) * HsMessage <= HsFifo

(* A cause tells the handler that it has a bad address only where the      *)
(* processor has the register to take it from.                             *)
HsAddressReal == hsFault # NoFault /\ alt_exception_cause_generated_bad_addr(Cause) => hsBuild.info

HsSafe == HsTypeInv /\ HsReady /\ HsLifo /\ HsNeedsHost /\ HsAddressReal

(* With a host that reads, the program reaches main().                     *)
HsMainReached == hsHost ~> At("main") > 0
=============================================================================
