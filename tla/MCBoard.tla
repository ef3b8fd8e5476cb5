------------------------------ MODULE MCBoard -------------------------------
(***************************************************************************)
(* The masters and slaves of the board, one part at a time: "part" says    *)
(* which part runs, the others stay in one of their initial states.        *)
(*                                                                         *)
(* "chain": the reset chain of qsys/qsys.qsys with short tables: the video *)
(* chips, a clock generator on the same I2C bridge, and on the bus of the  *)
(* video core its configurator and the one of another kind of display.     *)
(* "transmit": the ARINC bus interface with one of its transmitters, whose *)
(* registers alone the host then uses.  "bus": all its registers.          *)
(***************************************************************************)
EXTENDS Configurator, DiscreteCommands, FlashBoot, Arinc429, Backlight

MCUnits == {"video_ic", "si5332_xga", "vc", "vc_fhd"}
MCParents == ("video_ic" :> {}) @@ ("si5332_xga" :> {"video_ic"})
             @@ ("vc" :> {"video_ic"}) @@ ("vc_fhd" :> {"vc"})
MCBus == ("video_ic" :> "ams_i2c_0") @@ ("si5332_xga" :> "ams_i2c_0")
         @@ ("vc" :> "csr") @@ ("vc_fhd" :> "csr")
MCKindOf == ("video_ic" :> "any") @@ ("si5332_xga" :> "xga")
            @@ ("vc" :> "any") @@ ("vc_fhd" :> "fhd")
MCChips == ("video_ic" :> <<"none", "cs0", "cs1">>) @@ ("si5332_xga" :> <<"none", "none">>)
           @@ ("vc" :> <<"none", "none">>) @@ ("vc_fhd" :> <<"none", "none">>)
MCDelay == ("video_ic" :> 1) @@ ("si5332_xga" :> 0) @@ ("vc" :> 0) @@ ("vc_fhd" :> 0)
Root == {"video_ic"}
I2cBus == {"ams_i2c_0"}
MCSettings == {{"vwet", "sense"}}

VARIABLE part
boardVars == <<part, vars, diVars, doVars, flRuVars, flVars, abVars, atVars, bkVars>>

BoardInit ==
  /\ part \in {"chain", "inputs", "outputs", "watchdog", "flash", "bus", "transmit",
               "backlight"}
  /\ Init /\ DiInit /\ DoInit /\ FlRuInit /\ FlInit /\ AbInit /\ AtInit /\ BkInit
  /\ part # "inputs" => ~diIrq /\ diIn = {}
  /\ part # "outputs" => ~doIrq
  /\ part # "flash" => flOffset = "low"
  /\ ~bkNight                      \* a start at night is a change at the first edge

Chain(step) ==
  /\ part = "chain" /\ step
  /\ UNCHANGED <<part, diVars, doVars, flRuVars, flVars, abVars, atVars, bkVars>>
Inputs(step) ==
  /\ part = "inputs" /\ step
  /\ UNCHANGED <<part, vars, doVars, flRuVars, flVars, abVars, atVars, bkVars>>
Outputs(step) ==
  /\ part = "outputs" /\ step
  /\ UNCHANGED <<part, vars, diVars, flRuVars, flVars, abVars, atVars, bkVars>>
Watchdog(step) ==
  /\ part = "watchdog" /\ step
  /\ UNCHANGED <<part, vars, diVars, doVars, flVars, abVars, atVars, bkVars>>
Flash(step) ==
  /\ part = "flash" /\ step
  /\ UNCHANGED <<part, vars, diVars, doVars, flRuVars, abVars, atVars, bkVars>>
BusAlone(step) ==
  /\ part = "bus" /\ step
  /\ UNCHANGED <<part, vars, diVars, doVars, flRuVars, flVars, atVars, bkVars>>
Transmit(step) ==
  /\ part = "transmit" /\ step
  /\ UNCHANGED <<part, vars, diVars, doVars, flRuVars, flVars, bkVars>>
Dimming(step) ==
  /\ part = "backlight" /\ step
  /\ UNCHANGED <<part, vars, diVars, doVars, flRuVars, flVars, abVars, atVars>>

\* The strobe, the data and the speed of the bus interface are the inputs of
\* the transmitter (arinc429.sv:98-110).
Sends(done, late) ==
  /\ AbClock /\ AtClock(0 \in abTrWr, abData, 0 \in abClearTx, abSpeed[0], done, late)
  /\ abTo' \in {abTo} \union {AbAddress("tx", 0, r) : r \in {"config", "buffer"}}

BoardNext ==
  \/ Chain(Next) \/ Inputs(DiNext) \/ Outputs(DoNext) \/ Watchdog(FlRuNext)
  \/ Flash(FlNext) \/ BusAlone(AbClock) \/ Dimming(BkNext)
  \/ \E done, late \in BOOLEAN : Transmit(Sends(done, late))

(* Each part keeps the fairness of its own specification; the part never   *)
(* changes, so one condition stands for one of each part.  Clocks run; the *)
(* flash and the ROM answer; a word leaves the line in the end, and the    *)
(* sides of the FIFO see each other again and again.                       *)
BoardSpec ==
  /\ BoardInit /\ [][BoardNext]_boardVars
  /\ \A u \in Units : WF_vars(Chain(Edge(u))) /\ SF_vars(Chain(Accepts(u) /\ Edge(u)))
  /\ \A b \in Buses : WF_vars(Chain(Done(b)))
  /\ WF_boardVars(Flash(FlNext) \/ Dimming(BkNext)
                  \/ \E done, late \in BOOLEAN : Transmit(Sends(done, late)))
  /\ WF_boardVars(\E b \in BOOLEAN : \/ Flash(FlClock(b, TRUE)) \/ Dimming(BkClock(b, TRUE))
                                     \/ Transmit(Sends(b, FALSE)))
  /\ WF_boardVars(\E b \in BOOLEAN : \/ Dimming(bkRead /\ BkClock(FALSE, b))
                                     \/ Transmit(Sends(TRUE, b)))

\* The host knows its inputs, outputs go off with silence and faults, the flash
\* is read whole and answers right, an access to the ARINC channels causes what
\* it is for once, words are sent in order, and the modulators follow one table
\* (the properties of the modules; discr_cmd_in.sv, discr_cmd_out.sv,
\* asmi_cntrlr.sv, arinc429.sv, arinc_tx_controller.sv, backlight_control.sv).
BoardSafe == DiSafe /\ DoSafe /\ FlSafe /\ AbSafe /\ AtSafe /\ BkSafe

\* The pass over the flash ends unless one of its commands met a slave that
\* waits, words in the FIFO of a transmitter are sent while the line is on, and
\* the modulators are loaded again and again: for each part, its liveness.
BoardAlive ==
  []<>CASE part = "flash"     -> FlCompleted
        [] part = "transmit"  -> AtMoved
        [] part = "backlight" -> BkLoaded
        [] OTHER              -> TRUE
=============================================================================
