----------------------------- MODULE MCLibrary -----------------------------
(***************************************************************************)
(* The parts of the HAL for TLC, one at a time: "part" says which part     *)
(* runs; the others stay in one of their initial states.                   *)
(***************************************************************************)
EXTENDS HalFiles, HalClock, HalProfile, HalIo, HalDevices, HalLog, HalCaches, HalStart

MCWidths == {-1, 3, 4}
MCFormats == SeqOf({"%", "0", "1", ".", "d", "x", "c", "q"}, 4)
MCTexts == SeqOf({"a", "EOT", "NUL"}, 4)
MCNames == {<<"/">>, <<"/", "a">>, <<"/", "a", "/">>, <<"/", "a", "a">>, <<"/", "a", "/", "b">>}
MCSections == <<[from |-> 3, to |-> 0, end |-> 2], [from |-> 2, to |-> 2, end |-> 3],
                [from |-> 0, to |-> 3, end |-> 4]>>
MCLists == <<[ctor |-> "ctor1", dtor |-> "dtor1", static |-> "static1"],
             [ctor |-> "ctor2", dtor |-> "dtor2", static |-> "static2"]>>
\* The last is this build (public.mk).
MCBuilds == {[cpp |-> TRUE, exits |-> TRUE, clean |-> TRUE, direct |-> FALSE, info |-> TRUE],
             [cpp |-> TRUE, exits |-> TRUE, clean |-> FALSE, direct |-> TRUE, info |-> FALSE],
             [cpp |-> TRUE, exits |-> FALSE, clean |-> TRUE, direct |-> TRUE, info |-> TRUE],
             [cpp |-> FALSE, exits |-> FALSE, clean |-> FALSE, direct |-> TRUE, info |-> FALSE]}

VARIABLE part
\* The variables of the parts, each with the name of its part.
vars == <<part, hfVars, hcVars, hpVars, ioVars, dvVars, lg, hkVars, hsVars>>

Init == /\ part \in {"files", "clock", "profile", "io", "devices", "log", "caches", "start"}
        /\ HfInit /\ HcInit /\ HpInit
        /\ IF part = "log" THEN LgInit ELSE PrintInit
        /\ IoInit
        /\ part # "io" => ioForm = "direct" /\ ioDev[0] = "null" /\ ioHas["dev"] = IoFunctions
        /\ DvInit /\ (part # "devices" => dvKind = "file")
        /\ HkInit /\ (part # "caches" => hkUse = "data")
        /\ HsInit /\ (part # "start" => ~hsHost /\ hsBuild.exits /\ hsBuild.clean)

Files == /\ part = "files" /\ HfNext
         /\ UNCHANGED <<part, hcVars, hpVars, ioVars, dvVars, lg, hkVars, hsVars>>
Clock == /\ part = "clock" /\ HcNextStep
         /\ UNCHANGED <<part, hfVars, hpVars, ioVars, dvVars, lg, hkVars, hsVars>>
Profile == /\ part = "profile" /\ HpNextStep
           /\ UNCHANGED <<part, hfVars, hcVars, ioVars, dvVars, lg, hkVars, hsVars>>
Io == /\ part = "io" /\ IoNext
      /\ UNCHANGED <<part, hfVars, hcVars, hpVars, dvVars, lg, hkVars, hsVars>>
Devices == /\ part = "devices" /\ DvNext
           /\ UNCHANGED <<part, hfVars, hcVars, hpVars, ioVars, lg, hkVars, hsVars>>
Log == /\ part = "log" /\ LgNext
       /\ UNCHANGED <<part, hfVars, hcVars, hpVars, ioVars, dvVars, hkVars, hsVars>>
Caches == /\ part = "caches" /\ HkNext
          /\ UNCHANGED <<part, hfVars, hcVars, hpVars, ioVars, dvVars, lg, hsVars>>
Start == /\ part = "start" /\ HsNext
         /\ UNCHANGED <<part, hfVars, hcVars, hpVars, ioVars, dvVars, lg, hkVars>>

Next == Files \/ Clock \/ Profile \/ Io \/ Devices \/ Log \/ Caches \/ Start
Spec == /\ Init /\ [][Next]_vars
        /\ WF_hsVars(part = "start" /\ HsProgram) /\ WF_hsVars(part = "start" /\ HsHostReads)
-----------------------------------------------------------------------------
(* What the parts promise, asked where they run.                           *)

\* The profiler keeps a caller's counts apart and in its slabs, and the log
\* formats a value as it is and stays within what the UART takes
\* (alt_mcount.S, alt_log_printf.c).
ProfileAndLogSafe == /\ part = "profile" => HpSafe
                     /\ part = "log" => LgSafe

\* A call reaches the driver of the descriptor it names, and a name the device
\* whose name it is (alt_read.c and its fellows, alt_find_dev.c).
DriverCallsSafe == /\ part = "io" => IoSafe
                   /\ part = "devices" => DvSafe

\* What is started is in memory before it runs, and in the order it needs
\* (alt_load.c, the cache loops, alt_main.c, alt_do_ctors.c).
StartSafe == /\ part = "caches" => HkSafe
             /\ part = "start" => HsSafe

\* main() is reached when a host reads the UART, and without a host when
\* nothing is written to it on the way (alt_main.c).
MainReached == part = "start" => HsMainReached
=============================================================================
