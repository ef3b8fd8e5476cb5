------------------------------- MODULE AmsI2c -------------------------------
(***************************************************************************)
(* The Avalon-MM to I2C bridge qsys/ams_i2c/ams_i2c.sv, the firmware       *)
(* routines of software/nios2/i2c_master.h that drive it, and a device on  *)
(* the bus.  The bridge has two clock domains: the state machine of the    *)
(* Avalon side steps at every edge of clock, the state machine of the I2C  *)
(* side at the falling edge of i2c_clock, which is clock divided.  Four    *)
(* moments of an i2c_clock period matter, Ticks edges of clock apart:      *)
(*   "fall"  negedge i2c_clock: SCL low, the I2C state machine steps;      *)
(*   "low"   posedge i2c_clock_2x with SCL low: SDA is driven;             *)
(*   "rise"  posedge i2c_clock: SCL high, SDA sampled, requests latched;   *)
(*   "high"  posedge i2c_clock_2x with SCL high: start and stop conditions.*)
(* A byte is a sequence of Bits bits, the most significant first.          *)
(***************************************************************************)
EXTENDS Naturals, Sequences

CONSTANTS
  Bits,       \* bits of a byte: 8
  Ticks,      \* clock edges between two moments: i2c_clock_time * 2
  Own,        \* address of the device on the bus, Bits-1 bits
  Devs, Regs, Data,   \* addresses, registers and bytes the firmware uses
  Retries,    \* retry of i2c_write: 100
  Stretches   \* bound on the periods in which the device holds SCL low

Byte == [1 .. Bits -> {0, 1}]
Zero == [i \in 1 .. Bits |-> 0]

ASSUME BusAssumption ==
  /\ Bits \in Nat \ {0, 1} /\ Ticks \in Nat \ {0, 1, 2} /\ Retries \in Nat \ {0}
  /\ Own \in [1 .. Bits - 1 -> {0, 1}] /\ Devs \subseteq [1 .. Bits - 1 -> {0, 1}]
  /\ Regs \subseteq Byte /\ Data \subseteq Byte
  /\ Stretches \in Nat

NoAddress == [dev |-> [i \in 1 .. Bits - 1 |-> 0], reg |-> Zero, status |-> FALSE]

VARIABLES
  host,     \* the call of the firmware: fn, its arguments, what it waits for
  ams,      \* registers of the Avalon side
  cross,    \* the synchronizers: _meta and _latch of write, read and busy
  tick, moment,   \* edges since the last moment, the moment to come
  i2c,      \* registers of the I2C side
  pins,     \* i2c_clock_en, i2c_data, i2c_data_in, i2c_wait; SCL held by the device
  device    \* the device: its serial interface and its registers; history:
            \* whether it has refused a byte since the last call

vars == <<host, ams, cross, tick, moment, i2c, pins, device>>

Init ==
  /\ host = [fn |-> "none", pc |-> "idle", bus |-> "none", retry |-> 0,
             dev |-> Own, reg |-> Zero, data |-> Zero, value |-> Zero]
  /\ ams = [state |-> "RESET", write |-> FALSE, read |-> FALSE,
            address |-> NoAddress, writedata |-> Zero, waitrequest |-> TRUE,
            readdatavalid |-> FALSE, readdata |-> Zero]
  /\ cross = [wm |-> FALSE, wl |-> FALSE, rm |-> FALSE, rl |-> FALSE,
              bm |-> FALSE, bl |-> FALSE]
  /\ tick = 0 /\ moment = "low"
  /\ i2c = [state |-> "RESET", word |-> "RESET", read_op |-> FALSE, read_bit |-> 0,
            bit_cnt |-> 0, shift |-> Zero, busy |-> FALSE, readdata |-> Zero,
            dev_error |-> FALSE, reg_error |-> FALSE]
  /\ pins = [en |-> FALSE, data |-> 1, in |-> 1, wait |-> FALSE, hold |-> FALSE,
              held |-> 0]
  /\ device = [act |-> "idle", word |-> "device", got |-> <<>>, out |-> <<>>, sda |-> 1,
               reg |-> Zero, mem |-> [b \in Byte |-> Zero], outcome |-> "none",
               refused |-> FALSE]
-----------------------------------------------------------------------------
(* i2c_master.h.  host.pc is the bus access the routine is at.             *)

Call ==
  /\ host.fn = "none"
  /\ \E fn \in {"i2c_write", "i2c_read", "i2c_compare"},
        dev \in Devs, reg \in Regs, data \in Data :
       /\ fn = "i2c_read" => data = CHOOSE b \in Data : TRUE
       /\ host' = [host EXCEPT !.fn = fn, !.dev = dev, !.reg = reg, !.data = data,
                     !.retry = Retries, !.pc = IF fn = "i2c_write" THEN "IOWR" ELSE "IORD"]
  /\ device' = [device EXCEPT !.refused = FALSE]
  /\ UNCHANGED <<ams, cross, tick, moment, i2c, pins>>

\* The load or store instruction: the request is on the bus at the next edge.
Issue ==
  /\ host.pc # "idle" /\ host.bus = "none"
  /\ host' = [host EXCEPT !.bus = "request"]
  /\ UNCHANGED <<ams, cross, tick, moment, i2c, pins, device>>

ams_write == host.bus = "request" /\ host.pc = "IOWR"
ams_read  == host.bus = "request" /\ host.pc \in {"IORD", "IORD status"}
ams_address == [dev |-> host.dev, reg |-> host.reg, status |-> host.pc = "IORD status"]

Done(h) == [h EXCEPT !.fn = "none", !.pc = "idle", !.bus = "none"]

\* The operators named ...No..., ...Early and ...Keeps are faulty variants of
\* the one below them; no action uses them.

\* What the routine does with the answer of a load.
AnswerKeeps(v) ==
  LET h == [host EXCEPT !.value = v, !.bus = "none"] IN
  CASE host.pc = "IORD status" ->
         IF v # Zero /\ host.retry > 1
         THEN [h EXCEPT !.pc = "IOWR", !.retry = host.retry - 1] ELSE Done(h)
    [] host.fn = "i2c_compare" /\ v = host.data -> [h EXCEPT !.fn = "i2c_write", !.pc = "IOWR"]
    [] OTHER -> Done(h)
Answer(v) ==
  LET h == [host EXCEPT !.value = v, !.bus = "none"] IN
  CASE host.pc = "IORD status" ->
         IF v # Zero /\ host.retry > 1
         THEN [h EXCEPT !.pc = "IOWR", !.retry = host.retry - 1] ELSE Done(h)
    [] host.fn = "i2c_compare" /\ v # host.data -> [h EXCEPT !.fn = "i2c_write", !.pc = "IOWR"]
    [] OTHER -> Done(h)

Host ==
  host' = CASE host.bus = "request" /\ ~ams.waitrequest ->
                 IF ams_write THEN [host EXCEPT !.pc = "IORD status", !.bus = "none"]
                              ELSE [host EXCEPT !.bus = "reply"]
            [] host.bus = "reply" /\ ams.readdatavalid -> Answer(ams.readdata)
            [] OTHER -> host
-----------------------------------------------------------------------------
(* The Avalon side, lines 150 to 245.                                      *)

AmsIdle ==
  /\ ams.state = "IDLE"
  /\ ams' =
       LET idle == [ams EXCEPT !.readdatavalid = FALSE, !.readdata = Zero] IN
       IF cross.bl THEN idle
       ELSE IF ams_write \/ ams_read THEN
         [idle EXCEPT !.state = "WAIT", !.waitrequest = FALSE,
            !.write = ams_write, !.read = ~ams_write, !.address = ams_address,
            !.writedata = IF ams_write THEN host.data ELSE Zero]
       ELSE [idle EXCEPT !.write = FALSE, !.read = FALSE, !.address = NoAddress,
               !.writedata = Zero, !.waitrequest = TRUE]

AmsWaitNoHandshake ==
  /\ ams.state = "WAIT"
  /\ ams' = [ams EXCEPT !.waitrequest = TRUE, !.write = FALSE, !.read = FALSE,
               !.state = IF ams.write THEN "WRITE" ELSE "READ"]

AmsWait ==
  /\ ams.state = "WAIT"
  /\ ams' =
       LET wait == [ams EXCEPT !.waitrequest = TRUE, !.readdatavalid = FALSE,
                                !.readdata = Zero] IN
       IF ~cross.bl THEN wait
       ELSE [wait EXCEPT !.write = FALSE, !.read = FALSE,
               !.state = CASE ams.write -> "WRITE" [] ams.read -> "READ"
                           [] OTHER -> "RESET"]

AmsWriteEarly == ams.state = "WRITE" /\ ams' = [ams EXCEPT !.state = "IDLE"]

AmsWrite ==
  /\ ams.state = "WRITE"
  /\ ams' = [ams EXCEPT !.state = IF cross.bl THEN "WRITE" ELSE "IDLE"]

StatusByte == [i \in 1 .. Bits |->
                 IF (i = Bits /\ i2c.dev_error) \/ (i = Bits - 1 /\ i2c.reg_error)
                 THEN 1 ELSE 0]
AmsRead ==
  /\ ams.state = "READ"
  /\ ams' = IF cross.bl THEN ams
            ELSE [ams EXCEPT !.state = "IDLE", !.readdatavalid = TRUE,
                    !.readdata = IF ams.address.status THEN StatusByte ELSE i2c.readdata]

AmsReset == ams.state = "RESET" /\ ams' = [ams EXCEPT !.state = "IDLE"]

Ams == AmsIdle \/ AmsWait \/ AmsWrite \/ AmsRead \/ AmsReset
-----------------------------------------------------------------------------
(* The I2C side, lines 274 to 422: one step at each falling edge.          *)

Shifted(bits, b) == Append(Tail(bits), b)

I2cIdleKeepsErrors ==
  /\ i2c.state = "IDLE"
  /\ i2c' =
       LET clear == [i2c EXCEPT !.busy = FALSE, !.read_bit = 0, !.bit_cnt = 0] IN
       IF cross.wl \/ cross.rl
       THEN [clear EXCEPT !.state = "START", !.word = "DEVICE", !.read_op = cross.rl]
       ELSE clear
I2cIdleKeepsBusy ==
  /\ i2c.state = "IDLE"
  /\ i2c' = IF cross.wl \/ cross.rl
            THEN [i2c EXCEPT !.state = "START", !.word = "DEVICE", !.read_op = cross.rl]
            ELSE i2c

I2cIdle ==
  /\ i2c.state = "IDLE"
  /\ i2c' =
       LET clear == [i2c EXCEPT !.busy = FALSE, !.read_bit = 0, !.dev_error = FALSE,
                       !.reg_error = FALSE, !.bit_cnt = 0, !.shift = Zero] IN
       IF cross.wl \/ cross.rl
       THEN [clear EXCEPT !.state = "START", !.word = "DEVICE", !.read_op = cross.rl]
       ELSE clear

I2cStart ==
  /\ i2c.state \in {"START", "RESTART"}
  /\ i2c' = [i2c EXCEPT !.state = "DATA", !.bit_cnt = Bits - 1, !.busy = TRUE,
               !.readdata = Zero, !.shift = Append(ams.address.dev, i2c.read_bit)]

I2cDataNoLimit ==
  /\ i2c.state = "DATA"
  /\ i2c' = [i2c EXCEPT !.shift = Shifted(i2c.shift, pins.in), !.bit_cnt = @ - 1,
               !.state = IF i2c.bit_cnt = 0 THEN "ACK" ELSE "DATA"]

\* A stretched period does not count as a bit, but shifts all the same.
I2cData ==
  /\ i2c.state = "DATA"
  /\ i2c' = [i2c EXCEPT !.shift = Shifted(i2c.shift, pins.in),
               !.readdata = Zero, !.busy = TRUE,
               !.bit_cnt = IF @ > 0 /\ ~pins.wait THEN @ - 1 ELSE @,
               !.state = IF i2c.bit_cnt = 0 THEN "ACK" ELSE "DATA"]

\* The device did not acknowledge: the errors are e and r.
Stop(e, r, data) == [i2c EXCEPT !.state = "STOP", !.word = "RESET", !.read_bit = 0,
                       !.dev_error = e, !.reg_error = r, !.readdata = data, !.busy = TRUE]

Send(word, byte) == [i2c EXCEPT !.state = "DATA", !.word = word, !.bit_cnt = Bits - 1,
                       !.shift = byte, !.readdata = Zero, !.busy = TRUE]

I2cAck ==
  /\ i2c.state = "ACK"
  /\ i2c' =
       CASE i2c.word = "DEVICE" /\ pins.in = 0 ->
              [Send(IF i2c.read_bit = 1 THEN "READ" ELSE "ADDRESS", ams.address.reg)
                 EXCEPT !.dev_error = FALSE, !.reg_error = FALSE]
         [] i2c.word = "DEVICE" /\ pins.in = 1 -> Stop(TRUE, FALSE, Zero)
         [] i2c.word = "ADDRESS" /\ pins.in = 0 /\ i2c.read_op ->
              [i2c EXCEPT !.state = "RESTART", !.word = "DEVICE", !.read_bit = 1,
                 !.readdata = Zero, !.busy = TRUE]
         [] i2c.word = "ADDRESS" /\ pins.in = 0 /\ ~i2c.read_op ->
              [Send("WRITE", ams.writedata) EXCEPT !.read_bit = 0]
         [] i2c.word = "ADDRESS" /\ pins.in = 1 -> Stop(FALSE, TRUE, Zero)
         [] i2c.word = "READ" -> Stop(FALSE, FALSE, i2c.shift)
         [] OTHER -> Stop(FALSE, FALSE, Zero)

I2cStop ==
  /\ i2c.state = "STOP"
  /\ i2c' = [i2c EXCEPT !.state = "IDLE", !.word = "RESET", !.busy = TRUE]

I2cReset ==
  /\ i2c.state = "RESET"
  /\ i2c' = [i2c EXCEPT !.state = "IDLE"]

I2c == I2cIdle \/ I2cStart \/ I2cData \/ I2cAck \/ I2cStop \/ I2cReset
-----------------------------------------------------------------------------
(* The device, as the bridge expects it: it compares the address, stores   *)
(* the register number, then takes or sends one byte, and acknowledges, or *)
(* refuses, every byte it takes.                                           *)

sda == IF pins.data = 0 \/ device.sda = 0 THEN 0 ELSE 1

Refusal == [device EXCEPT !.act = "idle", !.sda = 1,
              !.outcome = IF @ = "none" THEN "refused" ELSE @]

Acceptance(byte) ==
  LET ack == [device EXCEPT !.act = "ack", !.sda = 0, !.got = <<>>] IN
  CASE device.word = "device" /\ byte[Bits] = 0 -> [ack EXCEPT !.word = "register"]
    [] device.word = "device" /\ byte[Bits] = 1 ->
         [ack EXCEPT !.word = "send", !.outcome = "done", !.out = device.mem[device.reg]]
    [] device.word = "register" -> [ack EXCEPT !.word = "data", !.reg = byte]
    [] OTHER -> [ack EXCEPT !.outcome = "done", !.mem[device.reg] = byte]

\* SCL falls after the last bit of a byte.
TakeByte(byte) ==
  IF device.word = "device" /\ SubSeq(byte, 1, Bits - 1) # Own THEN {Refusal}
  ELSE {Acceptance(byte), [Refusal EXCEPT !.refused = TRUE]}

DeviceFall ==
  CASE device.act = "listen" /\ Len(device.got) = Bits -> device' \in TakeByte(device.got)
    [] device.act = "ack" /\ device.word # "send" ->
         device' = [device EXCEPT !.act = "listen", !.sda = 1]
    [] device.word = "send" /\ device.act \in {"ack", "send"} ->
         device' = IF device.out = <<>>
                   THEN [device EXCEPT !.act = "idle", !.sda = 1]
                   ELSE [device EXCEPT !.act = "send", !.sda = Head(device.out),
                           !.out = Tail(device.out)]
    [] OTHER -> UNCHANGED device

DeviceRise ==
  device' = IF device.act = "listen" /\ Len(device.got) < Bits
            THEN [device EXCEPT !.got = Append(device.got, sda)] ELSE device

DeviceStart ==
  device' = [device EXCEPT !.act = "listen", !.word = "device", !.got = <<>>, !.sda = 1,
               !.outcome = "none"]

DeviceStop == device' = [device EXCEPT !.act = "idle", !.sda = 1]
-----------------------------------------------------------------------------
(* The four moments and the edge of clock.                                 *)

NoMoment ==
  /\ tick # Ticks - 1 /\ tick' = tick + 1
  /\ UNCHANGED <<moment, i2c, pins, device>>

At(m, next) == moment = m /\ tick = Ticks - 1 /\ tick' = 0 /\ moment' = next

\* A device that held SCL low sees no edge of it in this period.
Fall ==
  /\ At("fall", "low")
  /\ I2c
  /\ pins' = [pins EXCEPT !.hold = FALSE]
  /\ IF pins.en /\ ~pins.hold THEN DeviceFall ELSE UNCHANGED device

\* i2c_clock_en and i2c_data after an edge of i2c_clock_2x, clk the level of
\* i2c_clock.
Driven(clk) ==
  CASE i2c.state \in {"START", "RESTART"} ->
         [pins EXCEPT !.en = @ \/ clk = 1, !.data = 1 - clk]
    [] i2c.state = "DATA" ->
         [pins EXCEPT !.en = TRUE, !.data = IF i2c.word = "READ" THEN 1 ELSE Head(i2c.shift)]
    [] i2c.state = "ACK"  -> [pins EXCEPT !.en = TRUE, !.data = 1]
    [] i2c.state = "STOP" -> [pins EXCEPT !.en = @ /\ clk = 0, !.data = clk]
    [] OTHER -> [pins EXCEPT !.en = FALSE, !.data = 1]

LowNoDrive ==
  /\ At("low", "rise")
  /\ pins' = [pins EXCEPT !.wait = FALSE]
  /\ UNCHANGED <<i2c, device>>

Low ==
  /\ At("low", "rise")
  /\ pins' = [Driven(0) EXCEPT !.wait = FALSE]
  /\ UNCHANGED <<i2c, device>>

Rise ==
  /\ At("rise", "high")
  /\ \E hold \in IF pins.held < Stretches /\ device.act # "idle" THEN BOOLEAN ELSE {FALSE} :
       /\ pins' = [pins EXCEPT !.in = sda, !.hold = hold, !.held = IF hold THEN @ + 1 ELSE @]
       /\ IF hold THEN UNCHANGED device ELSE DeviceRise
  /\ UNCHANGED i2c

\* A change of SDA while SCL is high is a start or a stop condition.
High ==
  /\ At("high", "fall")
  /\ pins' = [Driven(1) EXCEPT !.wait = pins.hold]
  /\ CASE pins.hold \/ device.sda = 0 \/ pins.data = pins'.data -> UNCHANGED device
       [] OTHER -> IF pins.data = 1 THEN DeviceStart ELSE DeviceStop
  /\ UNCHANGED i2c

\* The synchronizers.  At "rise" a request that changes at the same edge of
\* clock is caught with its old or its new value.
Cross ==
  \E w \in {ams.write, ams'.write}, r \in {ams.read, ams'.read} :
    LET now == moment = "rise" /\ tick = Ticks - 1 IN
    cross' = [cross EXCEPT !.bm = i2c.busy, !.bl = cross.bm,
                !.wm = IF now THEN w ELSE @, !.wl = IF now THEN cross.wm ELSE @,
                !.rm = IF now THEN r ELSE @, !.rl = IF now THEN cross.rm ELSE @]

Clock ==
  /\ Ams /\ Host
  /\ NoMoment \/ Fall \/ Low \/ Rise \/ High
  /\ Cross

Next == Call \/ Issue \/ Clock

Spec     == Init /\ [][Next]_vars
FairSpec == Spec /\ WF_vars(Clock) /\ WF_vars(Issue)
-----------------------------------------------------------------------------
(* Properties.                                                             *)

TypeInv ==
  /\ host \in [fn : {"none", "i2c_write", "i2c_read", "i2c_compare"},
               pc : {"idle", "IOWR", "IORD", "IORD status"},
               bus : {"none", "request", "reply"}, retry : 0 .. Retries,
               dev : Devs \union {Own}, reg : Byte, data : Byte, value : Byte]
  /\ ams \in [state : {"RESET", "IDLE", "WAIT", "WRITE", "READ"},
              write : BOOLEAN, read : BOOLEAN,
              address : [dev : [1 .. Bits - 1 -> {0, 1}], reg : Byte, status : BOOLEAN],
              writedata : Byte, waitrequest : BOOLEAN,
              readdatavalid : BOOLEAN, readdata : Byte]
  /\ cross \in [wm : BOOLEAN, wl : BOOLEAN, rm : BOOLEAN, rl : BOOLEAN,
                bm : BOOLEAN, bl : BOOLEAN]
  /\ tick \in 0 .. Ticks - 1 /\ moment \in {"low", "rise", "high", "fall"}
  /\ i2c \in [state : {"RESET", "IDLE", "START", "RESTART", "DATA", "ACK", "STOP"},
              word : {"RESET", "DEVICE", "ADDRESS", "WRITE", "READ"},
              read_op : BOOLEAN, read_bit : {0, 1}, bit_cnt : 0 .. Bits - 1,
              shift : Byte, busy : BOOLEAN, readdata : Byte,
              dev_error : BOOLEAN, reg_error : BOOLEAN]
  /\ pins \in [en : BOOLEAN, data : {0, 1}, in : {0, 1}, wait : BOOLEAN, hold : BOOLEAN,
               held : 0 .. Stretches]
  /\ device.mem \in [Byte -> Byte] /\ device.outcome \in {"none", "done", "refused"}

\* The two clock domains together serve one access at a time: what the device
\* stores or sends is what the Avalon side was asked, once, and the answer is
\* that of the same access.
Reading == ams.read \/ ams.state = "READ" \/ ams.readdatavalid
Active  == ams.state \in {"WAIT", "WRITE", "READ"} \/ ams.readdatavalid
Access  == INSTANCE I2cAccess WITH
  Command <- [dev : Devs, reg : Regs, data : Data \union {Zero}, read : BOOLEAN,
              status : BOOLEAN],
  mem <- device.mem, value <- host.value,
  op <- IF Active
        THEN {[dev |-> ams.address.dev, reg |-> ams.address.reg, data |-> ams.writedata,
               read |-> Reading, status |-> ams.address.status]}
        ELSE {},
  outcome <- IF Active /\ ams.state # "WAIT" THEN device.outcome ELSE "none"
ServesAccess == Access!Spec

\* Whatever the device acknowledged, the status that i2c_write reads is zero:
\* the I2C side clears its errors at the edge that ends the transfer.  The
\* firmware can neither see a refused write nor ever repeat one.
StatusReadsZero ==
  host.pc = "IORD status" /\ ams.readdatavalid => ams.readdata = Zero

\* A routine during which the device refuses nothing does what it is called for:
\* when it returns, the register and the argument or result agree.
CallDone ==
  [][ host.fn # "none" /\ host'.fn = "none" /\ host.dev = Own /\ ~device.refused =>
        device.mem[host.reg] =
          IF host.fn = "i2c_read" THEN host'.value ELSE host.data ]_vars

\* SDA changes while SCL is high only where the master makes a start or a
\* stop condition; anywhere else the device would see one in mid byte.
scl == IF (pins.en /\ moment \in {"low", "rise"}) \/ pins.hold THEN 0 ELSE 1
DataStableWhileHigh ==
  [][ scl = 1 /\ scl' = 1 /\ sda # sda' => i2c.state \in {"START", "RESTART", "STOP"} ]_vars

\* The two clock domains stay in step whatever the device acknowledges and
\* however it stretches the clock: a transfer starts only for the command that
\* waits for it, of its kind, and no command is taken before the transfer of
\* the last one has ended.
InStep ==
  /\ i2c.state = "START" => ams.state = "WAIT" /\ (i2c.read_op <=> ams.read)
  /\ i2c.state \in {"RESTART", "DATA", "ACK", "STOP"} => ams.state \in {"WAIT", "WRITE", "READ"}
  /\ ams.state = "READ" /\ i2c.busy => i2c.read_op
  /\ ams.state = "WRITE" /\ i2c.busy => ~i2c.read_op

\* Every routine returns when the device does not stretch the clock.
CallReturns == host.fn # "none" ~> host.fn = "none"

\* The registers of both clock domains in their types, and the status that
\* i2c_write polls always zero (see StatusReadsZero).
BridgeSafe == TypeInv /\ StatusReadsZero
=============================================================================
