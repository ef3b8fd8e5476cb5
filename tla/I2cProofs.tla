------------------------------ MODULE I2cProofs ------------------------------
(***************************************************************************)
(* Proofs about AmsI2c, for every width of a byte, divider of the clock,   *)
(* number of retries and stretching of the device.  The two clock domains  *)
(* see each other late, through two registers each; the invariant says how *)
(* late, counted in the moments of i2c_clock: a request lives until the    *)
(* first bit of its transfer, busy is seen two edges after that bit starts.*)
(***************************************************************************)
EXTENDS AmsI2c, TLAPS, SequenceTheorems

Bit == {0, 1}
DeviceTypes ==
  device \in [act : {"idle", "listen", "ack", "send"},
              word : {"device", "register", "data", "send"}, got : Seq(Bit),
              out : Seq(Bit), sda : Bit, reg : Byte, mem : [Byte -> Byte],
              outcome : {"none", "done", "refused"}, refused : BOOLEAN]
Types == TypeInv /\ DeviceTypes

\* Bytes are sequences of bits.
LEMMA ByteSeq == ASSUME NEW n \in Nat, NEW b \in [1 .. n -> Bit]
  PROVE b \in Seq(Bit) /\ Len(b) = n
BY SeqDef, LenProperties

LEMMA SeqByte ==
  ASSUME NEW s \in Seq(Bit)
  PROVE  s \in [1 .. Len(s) -> Bit]
BY LenProperties

LEMMA BusFacts ==
  /\ Bits \in Nat /\ Bits > 1 /\ Ticks \in Nat /\ Ticks > 2 /\ Retries \in Nat
  /\ Retries > 0
  /\ Stretches \in Nat /\ Own \in [1 .. Bits - 1 -> Bit]
  /\ Devs \subseteq [1 .. Bits - 1 -> Bit]
  /\ Regs \subseteq Byte /\ Data \subseteq Byte /\ Zero \in Byte
BY BusAssumption DEF Bit, Byte, Zero

\* What the shift register is given.
LEMMA ShiftedIsByte ==
  ASSUME NEW b \in Byte, NEW x \in Bit
  PROVE  Shifted(b, x) \in Byte /\ Head(b) \in Bit
<1>1. b \in Seq(Bit) /\ Len(b) = Bits /\ b # <<>> BY BusFacts, ByteSeq DEF Byte, Bit
<1>2. Tail(b) \in Seq(Bit) /\ Len(Tail(b)) = Bits - 1 /\ Head(b) \in Bit
  BY <1>1, HeadTailProperties
<1>3. Append(Tail(b), x) \in Seq(Bit) /\ Len(Append(Tail(b), x)) = Bits
  BY <1>2, BusFacts, AppendProperties
<1>4. QED BY <1>2, <1>3, SeqByte DEF Shifted, Byte, Bit

LEMMA AddressIsByte ==
  ASSUME NEW d \in [1 .. Bits - 1 -> Bit], NEW x \in Bit
  PROVE  Append(d, x) \in Byte
<1>1. d \in Seq(Bit) /\ Len(d) = Bits - 1 BY BusFacts, ByteSeq
<1>2. Append(d, x) \in Seq(Bit) /\ Len(Append(d, x)) = Bits
  BY <1>1, BusFacts, AppendProperties
<1>3. QED BY <1>2, SeqByte DEF Byte, Bit

HostTypes ==
  host \in [fn : {"none", "i2c_write", "i2c_read", "i2c_compare"},
               pc : {"idle", "IOWR", "IORD", "IORD status"},
               bus : {"none", "request", "reply"}, retry : 0 .. Retries,
               dev : Devs \union {Own}, reg : Byte, data : Byte, value : Byte]
AmsTypes == ams \in [state : {"RESET", "IDLE", "WAIT", "WRITE", "READ"},
              write : BOOLEAN, read : BOOLEAN,
              address : [dev : [1 .. Bits - 1 -> {0, 1}], reg : Byte, status : BOOLEAN],
              writedata : Byte, waitrequest : BOOLEAN,
              readdatavalid : BOOLEAN, readdata : Byte]
CrossTypes == cross \in [wm : BOOLEAN, wl : BOOLEAN, rm : BOOLEAN, rl : BOOLEAN,
                         bm : BOOLEAN, bl : BOOLEAN]
TickTypes == tick \in 0 .. Ticks - 1 /\ moment \in {"low", "rise", "high", "fall"}
I2cTypes ==
  i2c \in [state : {"RESET", "IDLE", "START", "RESTART", "DATA", "ACK", "STOP"},
              word : {"RESET", "DEVICE", "ADDRESS", "WRITE", "READ"},
              read_op : BOOLEAN, read_bit : {0, 1}, bit_cnt : 0 .. Bits - 1,
              shift : Byte, busy : BOOLEAN, readdata : Byte,
              dev_error : BOOLEAN, reg_error : BOOLEAN]
PinTypes ==
  pins \in [en : BOOLEAN, data : {0, 1}, in : {0, 1}, wait : BOOLEAN, hold : BOOLEAN,
               held : 0 .. Stretches]

LEMMA TypeParts == Types <=>
  HostTypes /\ AmsTypes /\ CrossTypes /\ TickTypes /\ I2cTypes /\ PinTypes /\ DeviceTypes
<1>1. DeviceTypes =>
        device.mem \in [Byte -> Byte] /\ device.outcome \in {"none", "done", "refused"}
  BY DEF DeviceTypes
<1>2. QED
  BY <1>1, Zenon
  DEF Types, TypeInv, HostTypes, AmsTypes, CrossTypes, TickTypes, I2cTypes, PinTypes

\* Types: the firmware, the Avalon side, the synchronizers, the I2C side,
\* the pins, the clock and the device.
LEMMA CallTyped ==
  ASSUME HostTypes, DeviceTypes, Call
  PROVE  HostTypes' /\ DeviceTypes'
<1>1. PICK fn \in {"i2c_write", "i2c_read", "i2c_compare"}, dev \in Devs,
           reg \in Regs, data \in Data :
       /\ fn = "i2c_read" => data = CHOOSE b \in Data : TRUE
       /\ host' = [host EXCEPT !.fn = fn, !.dev = dev, !.reg = reg, !.data = data,
                     !.retry = Retries, !.pc = IF fn = "i2c_write" THEN "IOWR" ELSE "IORD"]
  BY DEF Call
<1>2. reg \in Byte /\ data \in Byte /\ Retries \in 0 .. Retries BY BusFacts
<1>3. HostTypes' BY <1>1, <1>2 DEF HostTypes
<1>4. DeviceTypes' BY DEF Call, DeviceTypes
<1>5. QED BY <1>3, <1>4

LEMMA IssueTyped == ASSUME HostTypes, Issue PROVE HostTypes'
BY DEF HostTypes, Issue

LEMMA HostTyped == ASSUME HostTypes, AmsTypes, Host PROVE HostTypes'
<1>1. ams.readdata \in Byte BY DEF AmsTypes
<1>2. CASE host.bus = "request" /\ ~ams.waitrequest BY <1>2 DEF Host, HostTypes
<1>3. CASE /\ ~(host.bus = "request" /\ ~ams.waitrequest)
           /\ host.bus = "reply" /\ ams.readdatavalid
  <2>1. host' = Answer(ams.readdata) BY <1>3 DEF Host
  <2>4. host.retry \in 0 .. Retries BY DEF HostTypes
  <2>2. host.retry > 1 => host.retry - 1 \in 0 .. Retries BY <2>4, BusFacts
  <2>3. QED BY <1>1, <2>1, <2>2 DEF HostTypes, Answer, Done
<1>4. CASE /\ ~(host.bus = "request" /\ ~ams.waitrequest)
           /\ ~(host.bus = "reply" /\ ams.readdatavalid)
  BY <1>4 DEF Host, HostTypes
<1>5. QED BY <1>2, <1>3, <1>4

LEMMA AmsTyped ==
  ASSUME HostTypes, AmsTypes, I2cTypes, Ams
  PROVE  AmsTypes'
<1>1. CASE AmsIdle
  <2>1. ams_write \in BOOLEAN /\ ams_read \in BOOLEAN /\ (~ams_write) \in BOOLEAN
    BY DEF ams_write, ams_read
  <2>2. NoAddress \in [dev : [1 .. Bits - 1 -> {0, 1}], reg : Byte, status : BOOLEAN]
    BY BusFacts DEF NoAddress
  <2>3. ams_address \in [dev : [1 .. Bits - 1 -> {0, 1}], reg : Byte, status : BOOLEAN]
    BY BusFacts DEF ams_address, HostTypes, Bit
  <2>4. host.data \in Byte /\ Zero \in Byte BY BusFacts DEF HostTypes
  <2>5. QED BY <1>1, <2>1, <2>2, <2>3, <2>4 DEF AmsIdle, AmsTypes
<1>2. CASE AmsWait BY <1>2, BusFacts DEF AmsWait, AmsTypes
<1>3. CASE AmsWrite BY <1>3 DEF AmsWrite, AmsTypes
<1>4. CASE AmsRead
  <2>1. StatusByte \in Byte BY DEF StatusByte, Byte
  <2>2. QED BY <1>4, <2>1 DEF AmsRead, AmsTypes, I2cTypes
<1>5. CASE AmsReset BY <1>5 DEF AmsReset, AmsTypes
<1>6. QED BY <1>1, <1>2, <1>3, <1>4, <1>5 DEF Ams

LEMMA CrossTyped ==
  ASSUME AmsTypes, AmsTypes', I2cTypes, CrossTypes, Cross
  PROVE  CrossTypes'
<1>1. PICK w \in {ams.write, ams'.write}, r \in {ams.read, ams'.read} :
    LET now == moment = "rise" /\ tick = Ticks - 1 IN
    cross' = [cross EXCEPT !.bm = i2c.busy, !.bl = cross.bm,
                !.wm = IF now THEN w ELSE @, !.wl = IF now THEN cross.wm ELSE @,
                !.rm = IF now THEN r ELSE @, !.rl = IF now THEN cross.rm ELSE @]
  BY DEF Cross
<1>2. w \in BOOLEAN /\ r \in BOOLEAN /\ i2c.busy \in BOOLEAN BY DEF AmsTypes, I2cTypes
<1>3. QED BY <1>1, <1>2 DEF CrossTypes

LEMMA I2cTyped ==
  ASSUME AmsTypes, I2cTypes, CrossTypes, PinTypes, I2c
  PROVE  I2cTypes'
<1>0. /\ cross.wl \in BOOLEAN /\ cross.rl \in BOOLEAN /\ pins.in \in Bit
      /\ Zero \in Byte
      /\ ams.address.dev \in [1 .. Bits - 1 -> Bit] /\ ams.address.reg \in Byte
      /\ ams.writedata \in Byte
  BY BusFacts DEF CrossTypes, PinTypes, AmsTypes, Bit
<1>1. 0 \in 0 .. Bits - 1 /\ Bits - 1 \in 0 .. Bits - 1 BY BusFacts
<1>2. CASE I2cIdle BY <1>0, <1>1, <1>2 DEF I2cIdle, I2cTypes
<1>3. CASE I2cStart
  <2>1. Append(ams.address.dev, i2c.read_bit) \in Byte
    BY <1>0, AddressIsByte DEF I2cTypes, Bit
  <2>2. QED BY <1>0, <1>1, <1>3, <2>1 DEF I2cStart, I2cTypes
<1>4. CASE I2cData
  <2>1. Shifted(i2c.shift, pins.in) \in Byte
    BY <1>0, ShiftedIsByte DEF I2cTypes
  <2>2. i2c.bit_cnt > 0 => i2c.bit_cnt - 1 \in 0 .. Bits - 1
    <3>1. i2c.bit_cnt \in 0 .. Bits - 1 BY DEF I2cTypes
    <3>2. QED BY <3>1, BusFacts
  <2>3. /\ i2c'.state = IF i2c.bit_cnt = 0 THEN "ACK" ELSE "DATA"
        /\ i2c'.bit_cnt \in 0 .. Bits - 1
    <3>1. i2c'.bit_cnt = IF i2c.bit_cnt > 0 /\ ~pins.wait
                         THEN i2c.bit_cnt - 1 ELSE i2c.bit_cnt
      BY <1>4 DEF I2cData, I2cTypes
    <3>2. i2c.bit_cnt \in 0 .. Bits - 1 BY DEF I2cTypes
    <3>3. i2c'.state = IF i2c.bit_cnt = 0 THEN "ACK" ELSE "DATA"
      BY <1>4 DEF I2cData, I2cTypes
    <3>4. QED BY <2>2, <3>1, <3>2, <3>3
  <2>4. PICK byte \in Byte, n \in 0 .. Bits - 1, s \in {"ACK", "DATA"} :
          i2c' = [i2c EXCEPT !.shift = byte, !.readdata = Zero, !.busy = TRUE,
                    !.bit_cnt = n, !.state = s]
    BY <1>4, <2>1, <2>2, <2>3 DEF I2cData, I2cTypes
  <2>5. QED BY <1>0, <2>4 DEF I2cTypes
<1>5. CASE I2cAck
  <2> DEFINE next == IF i2c.read_bit = 1 THEN "READ" ELSE "ADDRESS"
  <2>1. ASSUME NEW e \in BOOLEAN, NEW r \in BOOLEAN, NEW d \in Byte, i2c' = Stop(e, r, d)
        PROVE  I2cTypes'
    BY <2>1 DEF Stop, I2cTypes
  <2>2. CASE i2c.word = "DEVICE" /\ pins.in = 0
    <3>1. i2c' = [Send(next, ams.address.reg) EXCEPT !.dev_error = FALSE,
                                                     !.reg_error = FALSE]
      BY <1>5, <2>2 DEF I2cAck
    <3>2. QED BY <1>0, <1>1, <3>1 DEF I2cTypes, Send
  <2>3. CASE i2c.word = "ADDRESS" /\ pins.in = 0 /\ i2c.read_op
    <3>1. i2c' = [i2c EXCEPT !.state = "RESTART", !.word = "DEVICE", !.read_bit = 1,
                    !.readdata = Zero, !.busy = TRUE]
      BY <1>5, <2>3 DEF I2cAck
    <3>2. QED BY <1>0, <3>1 DEF I2cTypes
  <2>4. CASE i2c.word = "ADDRESS" /\ pins.in = 0 /\ ~i2c.read_op
    <3>1. i2c' = [Send("WRITE", ams.writedata) EXCEPT !.read_bit = 0]
      BY <1>5, <2>4 DEF I2cAck
    <3>2. QED BY <1>0, <1>1, <3>1 DEF I2cTypes, Send
  <2>5. CASE ~(i2c.word \in {"DEVICE", "ADDRESS"} /\ pins.in = 0)
    <3>1. pins.in = 0 \/ pins.in = 1 BY <1>0 DEF Bit
    <3>2. \/ i2c' = Stop(TRUE, FALSE, Zero)
          \/ i2c' = Stop(FALSE, TRUE, Zero)
          \/ i2c' = Stop(FALSE, FALSE, i2c.shift)
          \/ i2c' = Stop(FALSE, FALSE, Zero)
      BY <1>5, <2>5, <3>1 DEF I2cAck
    <3>3. i2c.shift \in Byte BY DEF I2cTypes
    <3>4. QED BY <1>0, <2>1, <3>2, <3>3
  <2>6. QED BY <2>2, <2>3, <2>4, <2>5
<1>6. CASE I2cStop BY <1>6 DEF I2cStop, I2cTypes
<1>7. CASE I2cReset BY <1>7 DEF I2cReset, I2cTypes
<1>8. QED BY <1>2, <1>3, <1>4, <1>5, <1>6, <1>7 DEF I2c

LEMMA DrivenTyped == ASSUME PinTypes, I2cTypes, NEW clk \in Bit
  PROVE Driven(clk) \in [en : BOOLEAN, data : {0, 1}, in : {0, 1}, wait : BOOLEAN,
                         hold : BOOLEAN, held : 0 .. Stretches]
<1>1. Head(i2c.shift) \in Bit /\ 1 - clk \in Bit
  BY ShiftedIsByte DEF I2cTypes, Bit
<1>2. QED BY <1>1 DEF Driven, PinTypes, Bit

LEMMA PinsTyped ==
  ASSUME PinTypes, I2cTypes, DeviceTypes, NoMoment \/ Fall \/ Low \/ Rise \/ High
  PROVE  PinTypes'
<1>1. CASE NoMoment BY <1>1 DEF NoMoment, PinTypes
<1>2. CASE Fall BY <1>2 DEF Fall, PinTypes
<1>3. CASE Low BY <1>3, DrivenTyped DEF Low, PinTypes, Bit
<1>4. CASE High BY <1>4, DrivenTyped DEF High, PinTypes, Bit
<1>5. CASE Rise
  <2>1. sda \in {0, 1} BY DEF sda
  <2>2. PICK hold \in BOOLEAN : /\ hold => pins.held < Stretches
       /\ pins' = [pins EXCEPT !.in = sda, !.hold = hold, !.held = IF hold THEN @ + 1 ELSE @]
    BY <1>5 DEF Rise
  <2>3. hold => pins.held + 1 \in 0 .. Stretches
    <3>1. pins.held \in 0 .. Stretches BY DEF PinTypes
    <3>2. QED BY <2>2, <3>1, BusFacts
  <2>4. QED BY <2>1, <2>2, <2>3 DEF PinTypes
<1>6. QED BY <1>1, <1>2, <1>3, <1>4, <1>5

LEMMA TickTyped ==
  ASSUME TickTypes, NoMoment \/ Fall \/ Low \/ Rise \/ High
  PROVE  TickTypes'
<1>1. tick \in 0 .. Ticks - 1 BY DEF TickTypes
<1>2. 0 \in 0 .. Ticks - 1 /\ (tick # Ticks - 1 => tick + 1 \in 0 .. Ticks - 1)
  BY <1>1, BusFacts
<1>3. \/ tick # Ticks - 1 /\ tick' = tick + 1 /\ moment' = moment
      \/ tick' = 0 /\ moment' \in {"low", "rise", "high", "fall"}
  BY DEF NoMoment, Fall, Low, Rise, High, At
<1>4. QED BY <1>2, <1>3 DEF TickTypes

LEMMA DeviceTyped ==
  ASSUME DeviceTypes, NoMoment \/ Fall \/ Low \/ Rise \/ High
  PROVE  DeviceTypes'
<1>1. /\ device.got \in Seq(Bit) /\ device.out \in Seq(Bit) /\ device.reg \in Byte
      /\ device.mem \in [Byte -> Byte] /\ 0 \in Bit /\ 1 \in Bit /\ <<>> \in Seq(Bit)
      /\ sda \in Bit
  BY EmptySeq DEF DeviceTypes, Bit, sda
<1>2. ASSUME DeviceFall PROVE DeviceTypes'
  <2>1. CASE device.act = "listen" /\ Len(device.got) = Bits
    <3>1. device.got \in Byte BY <1>1, <2>1, SeqByte DEF Byte, Bit
    <3>3. ASSUME device' = Refusal \/ device' = [Refusal EXCEPT !.refused = TRUE]
          PROVE  DeviceTypes'
      BY <1>1, <3>3, SMT, ZenonT(40) DEF Refusal, DeviceTypes
    <3>4. ASSUME device' = Acceptance(device.got) PROVE DeviceTypes'
      <4>1. device.mem[device.reg] \in Byte BY <1>1
      <4>2. device.mem[device.reg] \in Seq(Bit) BY <4>1, BusFacts, ByteSeq DEF Byte, Bit
      <4>3. [device.mem EXCEPT ![device.reg] = device.got] \in [Byte -> Byte]
        BY <1>1, <3>1
      <4>4. QED BY <1>1, <3>1, <3>4, <4>2, <4>3 DEF Acceptance, DeviceTypes
    <3>5. QED BY <1>2, <2>1, <3>3, <3>4 DEF DeviceFall, TakeByte
  <2>2. CASE /\ ~(device.act = "listen" /\ Len(device.got) = Bits)
             /\ device.word = "send" /\ device.act \in {"ack", "send"}
    <3>1. device.out # <<>> => Head(device.out) \in Bit /\ Tail(device.out) \in Seq(Bit)
      BY <1>1, HeadTailProperties
    <3>2. device' = IF device.out = <<>>
                   THEN [device EXCEPT !.act = "idle", !.sda = 1]
                   ELSE [device EXCEPT !.act = "send", !.sda = Head(device.out),
                           !.out = Tail(device.out)]
      BY <1>2, <2>2 DEF DeviceFall
    <3>3. CASE device.out = <<>> BY <1>1, <3>2, <3>3 DEF DeviceTypes
    <3>4. CASE device.out # <<>> BY <1>1, <3>1, <3>2, <3>4 DEF DeviceTypes
    <3>5. QED BY <3>3, <3>4
  <2>3. CASE /\ ~(device.act = "listen" /\ Len(device.got) = Bits)
             /\ ~(device.word = "send" /\ device.act \in {"ack", "send"})
    BY <1>1, <1>2, <2>3, SMT, ZenonT(40) DEF DeviceFall, DeviceTypes
  <2>4. QED BY <2>1, <2>2, <2>3
<1>3. ASSUME DeviceRise PROVE DeviceTypes'
  <2>1. Append(device.got, sda) \in Seq(Bit) BY <1>1, AppendProperties
  <2>2. QED BY <1>3, <2>1 DEF DeviceRise, DeviceTypes
<1>4. ASSUME DeviceStart \/ DeviceStop PROVE DeviceTypes'
  BY <1>1, <1>4 DEF DeviceStart, DeviceStop, DeviceTypes
<1>5. UNCHANGED device => DeviceTypes' BY DEF DeviceTypes
<1>6. DeviceFall \/ DeviceRise \/ DeviceStart \/ DeviceStop \/ UNCHANGED device
  BY DEF NoMoment, Fall, Low, Rise, High
<1>7. QED BY <1>2, <1>3, <1>4, <1>5, <1>6

(***************************************************************************)
(* The invariant.  The command registers hold a command exactly in WAIT.   *)
(***************************************************************************)
Commands ==
  /\ ams.state = "WAIT" => (ams.write \/ ams.read) /\ ~(ams.write /\ ams.read)
  /\ ams.state # "WAIT" => ~ams.write /\ ~ams.read
  /\ ams.state \in {"IDLE", "RESET"} =>
       i2c.state \in {"IDLE", "RESET"} /\ ~i2c.busy /\ ~cross.bm /\ ~cross.bl

\* The bits of the byte after a start, and the first of them.
FirstByte == i2c.state = "DATA" /\ i2c.word = "DEVICE" /\ i2c.read_bit = 0
FirstBit  == FirstByte /\ i2c.bit_cnt = Bits - 1

\* A transfer under way is busy, and one that starts is of the waiting command.
Transfers ==
  /\ i2c.state \in {"RESTART", "DATA", "ACK", "STOP"} => i2c.busy
  /\ i2c.state \in {"START", "RESET"} => ~i2c.busy
  /\ i2c.state = "START" =>
       /\ ams.state = "WAIT" /\ (i2c.read_op <=> ams.read)
       /\ i2c.word = "DEVICE" /\ i2c.read_bit = 0
  /\ i2c.state = "RESTART" => i2c.read_bit = 1
  /\ i2c.dev_error \/ i2c.reg_error => i2c.busy

\* A request in the synchronizers is that of the command that waits; once its
\* transfer runs, it is gone before the second bit, long before the I2C side
\* is idle again.
Requests ==
  /\ ~i2c.busy => /\ cross.wm \/ cross.wl => ams.state = "WAIT" /\ ams.write
                  /\ cross.rm \/ cross.rl => ams.state = "WAIT" /\ ams.read
  /\ i2c.busy /\ moment \in {"high", "fall"} => ~cross.wm /\ ~cross.rm
  /\ i2c.busy /\ ~FirstBit => ~cross.wm /\ ~cross.rm
  /\ i2c.busy /\ ~FirstBit /\ moment \in {"high", "fall"} => ~cross.wl /\ ~cross.rl
  /\ i2c.busy /\ ~FirstByte => ~cross.wl /\ ~cross.rl

\* The Avalon side sees busy two edges after the transfer has started, in the
\* low half of its first bit, and not busy only when it has ended.
Handshake ==
  /\ ams.state = "WAIT" /\ ~i2c.busy => ~cross.bm /\ ~cross.bl
  /\ ams.state = "WAIT" /\ i2c.busy =>
       /\ FirstBit
       /\ moment = "low" /\ (i2c.read_op <=> ams.read)
       /\ \/ tick = 0 /\ ~cross.bm /\ ~cross.bl
          \/ tick = 1 /\ cross.bm /\ ~cross.bl
          \/ tick = 2 /\ cross.bm /\ cross.bl
  /\ ams.state \in {"WRITE", "READ"} /\ i2c.busy =>
       cross.bm /\ cross.bl /\ (i2c.read_op <=> ams.state = "READ")
  /\ ams.state \in {"WRITE", "READ"} /\ ~i2c.busy =>
       i2c.state = "IDLE" /\ (cross.bm => cross.bl)

\* The host waits for the answer of a load exactly while one is owed, and it is
\* the answer to the load it made.
Owed == \/ ams.state = "WAIT" /\ ams.read /\ ams.waitrequest
        \/ ams.state = "READ"
        \/ ams.readdatavalid
HostSide ==
  /\ host.fn = "none" => host.pc = "idle"
  /\ host.pc \in {"IOWR", "IORD status"} => host.fn = "i2c_write"
  /\ host.pc = "idle" => host.bus = "none"
  /\ ~ams.waitrequest =>
       /\ ams.state = "WAIT" /\ ~i2c.busy
       /\ host.bus = "request" /\ ams.address = ams_address
       /\ (ams.write <=> host.pc = "IOWR")
  /\ Owed => /\ host.bus = "reply" /\ host.pc \in {"IORD", "IORD status"}
             /\ (ams.address.status <=> host.pc = "IORD status")
  /\ ams.readdatavalid => ams.state = "IDLE"
  /\ ams.readdatavalid /\ ams.address.status => ams.readdata = Zero

\* What the bridge drives while SCL is high was driven while it was low.
Lines ==
  /\ i2c.state \in {"RESET", "IDLE"} => pins.data = 1
  /\ i2c.state = "STOP" /\ moment = "fall" => pins.data = 1
  /\ moment \in {"rise", "high"} =>
       /\ i2c.state = "DATA" =>
            pins.data = IF i2c.word = "READ" THEN 1 ELSE Head(i2c.shift)
       /\ i2c.state = "ACK" => pins.data = 1

Inv == Types /\ Commands /\ Transfers /\ Requests /\ Handshake /\ HostSide /\ Lines

\* What each part may do at an edge.
LEMMA CrossMoves ==
  ASSUME Types, Cross
  PROVE
  /\ cross'.bm <=> i2c.busy
  /\ cross'.bl <=> cross.bm
  /\ ~(moment = "rise" /\ tick = Ticks - 1) =>
       /\ cross'.wm <=> cross.wm
       /\ cross'.wl <=> cross.wl
       /\ cross'.rm <=> cross.rm
       /\ cross'.rl <=> cross.rl
  /\ moment = "rise" /\ tick = Ticks - 1 =>
       /\ cross'.wl <=> cross.wm
       /\ cross'.rl <=> cross.rm
       /\ cross'.wm => ams.write \/ ams'.write
       /\ cross'.rm => ams.read \/ ams'.read
<1>0. CrossTypes BY DEF Types, TypeInv, CrossTypes
<1>1. PICK w \in {ams.write, ams'.write}, r \in {ams.read, ams'.read} :
    LET now == moment = "rise" /\ tick = Ticks - 1 IN
    cross' = [cross EXCEPT !.bm = i2c.busy, !.bl = cross.bm,
                !.wm = IF now THEN w ELSE @, !.wl = IF now THEN cross.wm ELSE @,
                !.rm = IF now THEN r ELSE @, !.rl = IF now THEN cross.rm ELSE @]
  BY DEF Cross
<1>2. (w => ams.write \/ ams'.write) /\ (r => ams.read \/ ams'.read)
  BY Zenon
<1> DEFINE now == moment = "rise" /\ tick = Ticks - 1
<1>3. /\ cross'.bm = i2c.busy /\ cross'.bl = cross.bm
      /\ cross'.wm = IF now THEN w ELSE cross.wm
      /\ cross'.wl = IF now THEN cross.wm ELSE cross.wl
      /\ cross'.rm = IF now THEN r ELSE cross.rm
      /\ cross'.rl = IF now THEN cross.rm ELSE cross.rl
  BY <1>0, <1>1, Zenon DEF CrossTypes
<1> HIDE DEF now
<1>4. QED BY <1>2, <1>3 DEF now

LEMMA AmsMoves ==
  ASSUME Types, Commands, Ams
  PROVE
  \/ /\ ams.state = "RESET" /\ ams' = [ams EXCEPT !.state = "IDLE"]
  \/ /\ ams.state = "IDLE" /\ ams'.state = "IDLE" /\ ~ams'.write /\ ~ams'.read
     /\ ams'.waitrequest /\ ~ams'.readdatavalid
  \/ /\ ams.state = "IDLE" /\ ams'.state = "WAIT" /\ (ams'.write <=> ams_write)
     /\ (ams'.read <=> ~ams_write)
     /\ (ams_write \/ ams_read) /\ ~ams'.waitrequest /\ ~ams'.readdatavalid
     /\ ams'.address = ams_address
  \/ /\ ams.state = "WAIT" /\ ~cross.bl
     /\ ams' = [ams EXCEPT !.waitrequest = TRUE, !.readdatavalid = FALSE, !.readdata = Zero]
  \/ /\ ams.state = "WAIT" /\ cross.bl
     /\ ams'.state = (IF ams.write THEN "WRITE" ELSE "READ")
     /\ ~ams'.write /\ ~ams'.read /\ ams'.waitrequest /\ ~ams'.readdatavalid
     /\ ams'.address = ams.address
  \/ /\ ams.state \in {"WRITE", "READ"} /\ cross.bl /\ ams' = ams
  \/ /\ ams.state = "WRITE" /\ ~cross.bl /\ ams' = [ams EXCEPT !.state = "IDLE"]
  \/ /\ ams.state = "READ" /\ ~cross.bl /\ ams'.state = "IDLE" /\ ams'.readdatavalid
     /\ ams'.address = ams.address /\ (ams.address.status => ams'.readdata = StatusByte)
     /\ ams'.waitrequest = ams.waitrequest /\ ams'.write = ams.write
     /\ ams'.read = ams.read
<1>0. AmsTypes BY DEF Types, TypeInv, AmsTypes
<1>1. CASE AmsIdle
  <2>0. ams.state = "IDLE" /\ ~cross.bl BY <1>1 DEF AmsIdle, Commands
  <2>1. CASE ams_write \/ ams_read
    <3>1. ams' = [ams EXCEPT !.readdatavalid = FALSE, !.readdata = Zero, !.state = "WAIT",
            !.waitrequest = FALSE,
            !.write = ams_write, !.read = ~ams_write, !.address = ams_address,
            !.writedata = IF ams_write THEN host.data ELSE Zero]
      BY <1>0, <1>1, <2>0, <2>1, Zenon DEF AmsIdle, AmsTypes
    <3>2. /\ ams'.write = ams_write /\ ams'.read = (~ams_write)
          /\ ams'.state = "WAIT" /\ ams'.waitrequest = FALSE
          /\ ams'.readdatavalid = FALSE /\ ams'.address = ams_address
      BY <1>0, <3>1, Zenon DEF AmsTypes
    <3>3. QED BY <2>0, <2>1, <3>2, Zenon
  <2>2. CASE ~(ams_write \/ ams_read)
    BY <1>0, <1>1, <2>0, <2>2 DEF AmsIdle, AmsTypes
  <2>3. QED BY <2>1, <2>2
<1>2. CASE AmsWait BY <1>0, <1>2 DEF AmsWait, AmsTypes, Commands
<1>3. CASE AmsWrite BY <1>0, <1>3 DEF AmsWrite, AmsTypes
<1>4. CASE AmsRead BY <1>0, <1>4 DEF AmsRead, AmsTypes
<1>5. CASE AmsReset BY <1>0, <1>5 DEF AmsReset, AmsTypes
<1>6. QED BY <1>1, <1>2, <1>3, <1>4, <1>5 DEF Ams

LEMMA ClockMoves ==
  ASSUME Clock
  PROVE
  \/ moment = "fall" /\ tick = Ticks - 1 /\ tick' = 0 /\ moment' = "low" /\ I2c
  \/ /\ i2c' = i2c
     /\ \/ tick # Ticks - 1 /\ tick' = tick + 1 /\ moment' = moment
        \/ tick = Ticks - 1 /\ tick' = 0 /\ moment = "low" /\ moment' = "rise"
        \/ tick = Ticks - 1 /\ tick' = 0 /\ moment = "rise" /\ moment' = "high"
        \/ tick = Ticks - 1 /\ tick' = 0 /\ moment = "high" /\ moment' = "fall"
BY DEF Clock, NoMoment, Fall, Low, Rise, High, At

LEMMA I2cMoves ==
  ASSUME Types, I2c
  PROVE
  \/ /\ i2c.state = "IDLE" /\ i2c'.state = "IDLE" /\ ~cross.wl /\ ~cross.rl
     /\ ~i2c'.busy /\ ~i2c'.dev_error /\ ~i2c'.reg_error
  \/ /\ i2c.state = "IDLE" /\ i2c'.state = "START" /\ (cross.wl \/ cross.rl)
     /\ ~i2c'.busy /\ ~i2c'.dev_error /\ ~i2c'.reg_error
     /\ i2c'.word = "DEVICE" /\ i2c'.read_bit = 0 /\ (i2c'.read_op <=> cross.rl)
  \/ /\ i2c.state \in {"START", "RESTART"} /\ i2c'.state = "DATA" /\ i2c'.busy
     /\ i2c'.bit_cnt = Bits - 1 /\ i2c'.word = i2c.word /\ i2c'.read_bit = i2c.read_bit
     /\ i2c'.read_op = i2c.read_op
  \/ /\ i2c.state = "DATA" /\ i2c'.busy /\ i2c'.word = i2c.word
     /\ i2c'.read_bit = i2c.read_bit
     /\ i2c'.read_op = i2c.read_op
     /\ \/ i2c.bit_cnt = 0 /\ i2c'.state = "ACK"
        \/ i2c.bit_cnt > 0 /\ i2c'.state = "DATA" /\ i2c'.bit_cnt \in {i2c.bit_cnt, i2c.bit_cnt - 1}
  \/ /\ i2c.state = "ACK" /\ i2c'.busy /\ i2c'.read_op = i2c.read_op
     /\ \/ i2c'.state = "DATA" /\ i2c'.word # "DEVICE"
        \/ i2c'.state = "RESTART" /\ i2c'.read_bit = 1
        \/ i2c'.state = "STOP"
  \/ /\ i2c.state = "STOP" /\ i2c'.state = "IDLE" /\ i2c'.busy
     /\ i2c'.read_op = i2c.read_op
  \/ /\ i2c.state = "RESET" /\ i2c'.state = "IDLE" /\ (i2c'.busy <=> i2c.busy)
     /\ i2c'.dev_error = i2c.dev_error /\ i2c'.reg_error = i2c.reg_error
<1>0. I2cTypes /\ CrossTypes BY DEF Types, TypeInv, I2cTypes, CrossTypes
<1>1. CASE I2cIdle
  <2>1. CASE cross.wl \/ cross.rl
    <3>1. i2c' = [i2c EXCEPT !.busy = FALSE, !.read_bit = 0, !.dev_error = FALSE,
                       !.reg_error = FALSE, !.bit_cnt = 0, !.shift = Zero,
                       !.state = "START", !.word = "DEVICE", !.read_op = cross.rl]
      BY <1>0, <1>1, <2>1 DEF I2cIdle, I2cTypes
    <3>2. i2c'.read_op = cross.rl BY <1>0, <3>1, Zenon DEF I2cTypes
    <3>3. QED BY <1>0, <1>1, <2>1, <3>1, <3>2 DEF I2cIdle, I2cTypes
  <2>2. CASE ~(cross.wl \/ cross.rl)
    BY <1>0, <1>1, <2>2 DEF I2cIdle, I2cTypes
  <2>3. QED BY <2>1, <2>2
<1>2. CASE I2cStart BY <1>0, <1>2 DEF I2cStart, I2cTypes
<1>3. CASE I2cData
  <2>1. i2c.bit_cnt \in 0 .. Bits - 1 BY <1>0 DEF I2cTypes
  <2>2. /\ i2c.state = "DATA" /\ i2c'.busy /\ i2c'.word = i2c.word
        /\ i2c'.read_bit = i2c.read_bit
     /\ i2c'.read_op = i2c.read_op
    BY <1>0, <1>3 DEF I2cData, I2cTypes
  <2>3. /\ i2c'.state = IF i2c.bit_cnt = 0 THEN "ACK" ELSE "DATA"
        /\ i2c'.bit_cnt = IF i2c.bit_cnt > 0 /\ ~pins.wait
                            THEN i2c.bit_cnt - 1 ELSE i2c.bit_cnt
    BY <1>0, <1>3 DEF I2cData, I2cTypes
  <2>4. QED BY <2>1, <2>2, <2>3, BusFacts
<1>4. CASE I2cAck BY <1>0, <1>4 DEF I2cAck, I2cTypes, Send, Stop
<1>5. CASE I2cStop BY <1>0, <1>5 DEF I2cStop, I2cTypes
<1>6. CASE I2cReset BY <1>0, <1>6 DEF I2cReset, I2cTypes
<1>7. QED BY <1>1, <1>2, <1>3, <1>4, <1>5, <1>6 DEF I2c

\* Every edge keeps the invariant.
LEMMA ClockCommands == ASSUME Inv, Clock PROVE Commands'
<1> USE DEF Inv
<1>1. Ams /\ Cross BY DEF Clock
<1>2. ams_write => ~(~ams_write) OBVIOUS
<1>3. AmsTypes /\ I2cTypes BY DEF Types, TypeInv, AmsTypes, I2cTypes
<1>4. CASE i2c' = i2c
  BY <1>1, <1>3, <1>4, AmsMoves, CrossMoves DEF Commands, Handshake, AmsTypes
<1>5. CASE I2c
  <2>1. CASE i2c.state = "IDLE"
    BY <1>1, <1>3, <1>5, <2>1, AmsMoves, CrossMoves, I2cMoves, BusFacts
    DEF Commands, Handshake, Transfers, AmsTypes, Requests
  <2>2. CASE i2c.state \in {"START", "RESTART"}
    BY <1>1, <1>3, <1>5, <2>2, AmsMoves, CrossMoves, I2cMoves, BusFacts, SMT, ZenonT(40)
    DEF Commands, Handshake, Transfers, AmsTypes, Requests
  <2>3. CASE i2c.state = "DATA"
    BY <1>1, <1>3, <1>5, <2>3, AmsMoves, CrossMoves, I2cMoves, BusFacts, SMT, ZenonT(40)
    DEF Commands, Handshake, Transfers, AmsTypes, Requests
  <2>4. CASE i2c.state = "ACK"
    BY <1>1, <1>3, <1>5, <2>4, AmsMoves, CrossMoves, I2cMoves, BusFacts, SMT, ZenonT(40)
    DEF Commands, Handshake, Transfers, AmsTypes, Requests
  <2>5. CASE i2c.state = "STOP"
    BY <1>1, <1>3, <1>5, <2>5, AmsMoves, CrossMoves, I2cMoves, BusFacts, SMT, ZenonT(40)
    DEF Commands, Handshake, Transfers, AmsTypes, Requests
  <2>6. CASE i2c.state = "RESET"
    BY <1>1, <1>3, <1>5, <2>6, AmsMoves, CrossMoves, I2cMoves, BusFacts, SMT, ZenonT(40)
    DEF Commands, Handshake, Transfers, AmsTypes, Requests
  <2>7. QED BY <1>3, <2>1, <2>2, <2>3, <2>4, <2>5, <2>6 DEF I2cTypes
<1>6. QED BY <1>4, <1>5, ClockMoves

LEMMA ClockTransfers == ASSUME Inv, Clock PROVE Transfers'
<1> USE DEF Inv
<1>1. Ams /\ Cross BY DEF Clock
<1>3. AmsTypes /\ I2cTypes BY DEF Types, TypeInv, AmsTypes, I2cTypes
<1>4. CASE i2c' = i2c
  BY <1>1, <1>3, <1>4, AmsMoves DEF Transfers, Commands, Handshake, AmsTypes
<1>5. CASE I2c
  <2>1. CASE i2c.state = "IDLE"
    BY <1>1, <1>3, <1>5, <2>1, AmsMoves, I2cMoves, BusFacts
    DEF Transfers, Commands, Handshake, AmsTypes, I2cTypes, Requests, FirstByte
  <2>2. CASE i2c.state \in {"START", "RESTART"}
    BY <1>1, <1>3, <1>5, <2>2, AmsMoves, I2cMoves, BusFacts
    DEF Transfers, Commands, Handshake, AmsTypes, I2cTypes, Requests, FirstByte
  <2>3. CASE i2c.state = "DATA"
    BY <1>1, <1>3, <1>5, <2>3, AmsMoves, I2cMoves, BusFacts
    DEF Transfers, Commands, Handshake, AmsTypes, I2cTypes, Requests, FirstByte
  <2>4. CASE i2c.state = "ACK"
    BY <1>1, <1>3, <1>5, <2>4, AmsMoves, I2cMoves, BusFacts
    DEF Transfers, Commands, Handshake, AmsTypes, I2cTypes, Requests, FirstByte
  <2>5. CASE i2c.state = "STOP"
    BY <1>1, <1>3, <1>5, <2>5, AmsMoves, I2cMoves, BusFacts
    DEF Transfers, Commands, Handshake, AmsTypes, I2cTypes, Requests, FirstByte
  <2>6. CASE i2c.state = "RESET"
    BY <1>1, <1>3, <1>5, <2>6, AmsMoves, I2cMoves, BusFacts
    DEF Transfers, Commands, Handshake, AmsTypes, I2cTypes, Requests, FirstByte
  <2>7. QED BY <1>3, <2>1, <2>2, <2>3, <2>4, <2>5, <2>6 DEF I2cTypes
<1>6. QED BY <1>4, <1>5, ClockMoves

LEMMA ClockRequests == ASSUME Inv, Clock PROVE Requests'
<1> USE DEF Inv
<1>1. Ams /\ Cross BY DEF Clock
<1>3. AmsTypes /\ I2cTypes BY DEF Types, TypeInv, AmsTypes, I2cTypes
<1>4. CASE i2c' = i2c
  BY <1>1, <1>3, <1>4, AmsMoves, CrossMoves, ClockMoves
  DEF Commands, Handshake, AmsTypes, Requests, FirstBit, FirstByte
<1>5. CASE I2c /\ moment = "fall" /\ moment' = "low"
  <2>1. CASE i2c.state = "IDLE"
    BY <1>1, <1>3, <1>5, <2>1, AmsMoves, CrossMoves, I2cMoves, BusFacts
    DEF Transfers, Commands, Handshake, AmsTypes, I2cTypes, Requests, FirstBit,
        FirstByte
  <2>2. CASE i2c.state \in {"START", "RESTART"}
    BY <1>1, <1>3, <1>5, <2>2, AmsMoves, CrossMoves, I2cMoves, BusFacts
    DEF Transfers, Commands, Handshake, AmsTypes, I2cTypes, Requests, FirstBit,
        FirstByte
  <2>3. CASE i2c.state = "DATA"
    BY <1>1, <1>3, <1>5, <2>3, AmsMoves, CrossMoves, I2cMoves, BusFacts
    DEF Transfers, Commands, Handshake, AmsTypes, I2cTypes, Requests, FirstBit,
        FirstByte
  <2>4. CASE i2c.state = "ACK"
    BY <1>1, <1>3, <1>5, <2>4, AmsMoves, CrossMoves, I2cMoves, BusFacts
    DEF Transfers, Commands, Handshake, AmsTypes, I2cTypes, Requests, FirstBit,
        FirstByte
  <2>5. CASE i2c.state = "STOP"
    BY <1>1, <1>3, <1>5, <2>5, AmsMoves, CrossMoves, I2cMoves, BusFacts
    DEF Transfers, Commands, Handshake, AmsTypes, I2cTypes, Requests, FirstBit,
        FirstByte
  <2>6. CASE i2c.state = "RESET"
    BY <1>1, <1>3, <1>5, <2>6, AmsMoves, CrossMoves, I2cMoves, BusFacts
    DEF Transfers, Commands, Handshake, AmsTypes, I2cTypes, Requests, FirstBit,
        FirstByte
  <2>7. QED BY <1>3, <2>1, <2>2, <2>3, <2>4, <2>5, <2>6 DEF I2cTypes
<1>6. QED BY <1>4, <1>5, ClockMoves

LEMMA ClockHandshake == ASSUME Inv, Clock PROVE Handshake'
<1> USE DEF Inv
<1>1. Ams /\ Cross BY DEF Clock
<1>3. AmsTypes /\ I2cTypes BY DEF Types, TypeInv, AmsTypes, I2cTypes
<1>4. CASE i2c' = i2c
  <2>0. tick \in 0 .. Ticks - 1 /\ (FirstBit' <=> FirstBit)
    BY <1>4 DEF Types, TypeInv, FirstBit, FirstByte
  <2>1. CASE ams.state = "WAIT" /\ i2c.busy
    <3>1. moment = "low" /\ FirstBit /\ (i2c.read_op <=> ams.read)
      BY <2>1 DEF Handshake
    <3>2. CASE tick = 0 /\ ~cross.bm /\ ~cross.bl
      <4>1. tick' = 1 /\ moment' = "low" BY <1>4, <3>1, <3>2, ClockMoves, BusFacts
      <4>2. ams'.state = "WAIT" /\ (ams'.read <=> ams.read)
        BY <1>1, <1>3, <2>1, <3>2, AmsMoves DEF AmsTypes
      <4>3. QED
        BY <1>1, <1>4, <2>0, <2>1, <3>1, <3>2, <4>1, <4>2, CrossMoves DEF Handshake
    <3>3. CASE tick = 1 /\ cross.bm /\ ~cross.bl
      <4>1. tick' = 2 /\ moment' = "low" BY <1>4, <3>1, <3>3, ClockMoves, BusFacts
      <4>2. ams'.state = "WAIT" /\ (ams'.read <=> ams.read)
        BY <1>1, <1>3, <2>1, <3>3, AmsMoves DEF AmsTypes
      <4>3. QED
        BY <1>1, <1>4, <2>0, <2>1, <3>1, <3>3, <4>1, <4>2, CrossMoves DEF Handshake
    <3>4. CASE cross.bm /\ cross.bl
      <4>1. ams'.state = IF ams.write THEN "WRITE" ELSE "READ"
        BY <1>1, <1>3, <2>1, <3>4, AmsMoves DEF AmsTypes
      <4>2. ams.write <=> ~ams.read BY <2>1 DEF Commands
      <4>3. cross'.bm /\ cross'.bl BY <1>1, <2>1, <3>4, CrossMoves
      <4>4. i2c'.busy /\ (i2c'.read_op <=> i2c.read_op) BY <1>4, <2>1
      <4>5. QED BY <3>1, <4>1, <4>2, <4>3, <4>4 DEF Handshake
    <3>5. QED BY <2>1, <3>2, <3>3, <3>4 DEF Handshake
  <2>2. CASE ams.state = "WAIT" /\ ~i2c.busy
    BY <1>1, <1>3, <1>4, <2>2, AmsMoves, CrossMoves DEF Handshake, AmsTypes
  <2>3. CASE ams.state \in {"WRITE", "READ"}
    BY <1>1, <1>3, <1>4, <2>3, AmsMoves, CrossMoves DEF Handshake, AmsTypes
  <2>4. CASE ams.state \in {"IDLE", "RESET"}
    BY <1>1, <1>3, <1>4, <2>4, AmsMoves, CrossMoves DEF Handshake, Commands, AmsTypes
  <2>5. QED BY <1>3, <2>1, <2>2, <2>3, <2>4 DEF AmsTypes
<1>5. CASE I2c /\ moment = "fall" /\ moment' = "low" /\ tick' = 0
  <2>1. CASE i2c.state = "IDLE"
    BY <1>1, <1>3, <1>5, <2>1, AmsMoves, CrossMoves, I2cMoves, BusFacts
    DEF Transfers, Commands, Handshake, AmsTypes, I2cTypes, Requests, FirstBit,
        FirstByte
  <2>2. CASE i2c.state \in {"START", "RESTART"}
    BY <1>1, <1>3, <1>5, <2>2, AmsMoves, CrossMoves, I2cMoves, BusFacts, SMT, ZenonT(40)
    DEF Transfers, Commands, Handshake, AmsTypes, I2cTypes, Requests, FirstBit,
        FirstByte
  <2>3. CASE i2c.state = "DATA"
    BY <1>1, <1>3, <1>5, <2>3, AmsMoves, CrossMoves, I2cMoves, BusFacts
    DEF Transfers, Commands, Handshake, AmsTypes, I2cTypes, Requests, FirstBit,
        FirstByte
  <2>4. CASE i2c.state = "ACK"
    BY <1>1, <1>3, <1>5, <2>4, AmsMoves, CrossMoves, I2cMoves, BusFacts
    DEF Transfers, Commands, Handshake, AmsTypes, I2cTypes, Requests, FirstBit,
        FirstByte
  <2>5. CASE i2c.state = "STOP"
    BY <1>1, <1>3, <1>5, <2>5, AmsMoves, CrossMoves, I2cMoves, BusFacts
    DEF Transfers, Commands, Handshake, AmsTypes, I2cTypes, Requests, FirstBit,
        FirstByte
  <2>6. CASE i2c.state = "RESET"
    BY <1>1, <1>3, <1>5, <2>6, AmsMoves, CrossMoves, I2cMoves, BusFacts
    DEF Transfers, Commands, Handshake, AmsTypes, I2cTypes, Requests, FirstBit,
        FirstByte
  <2>7. QED BY <1>3, <2>1, <2>2, <2>3, <2>4, <2>5, <2>6 DEF I2cTypes
<1>6. QED BY <1>4, <1>5, ClockMoves

LEMMA ClockLines == ASSUME Inv, Clock PROVE Lines'
<1>1. I2cTypes /\ PinTypes BY DEF Inv, Types, TypeInv, PinTypes, I2cTypes
<1>2. CASE NoMoment BY <1>2 DEF NoMoment, Inv, Lines
<1>3. CASE Fall
  <2>1. moment' = "low" /\ pins'.data = pins.data /\ moment = "fall" /\ I2c
    BY <1>1, <1>3 DEF Fall, At, PinTypes
  <2>2. i2c'.state \in {"RESET", "IDLE"} => i2c.state \in {"RESET", "IDLE", "STOP"}
    BY <2>1, I2cMoves DEF Inv
  <2>3. QED BY <2>1, <2>2 DEF Inv, Lines
<1>4. CASE Low
  <2>1. i2c' = i2c /\ moment' = "rise" /\ pins'.data = Driven(0).data
    BY <1>1, <1>4, DrivenTyped DEF Low, At, Bit
  <2>2. QED BY <1>1, <2>1 DEF Lines, Driven, PinTypes
<1>5. CASE Rise
  <2>1. i2c' = i2c /\ moment = "rise" /\ moment' = "high" /\ pins'.data = pins.data
    BY <1>1, <1>5 DEF Rise, At, PinTypes
  <2>2. QED BY <2>1 DEF Inv, Lines
<1>6. CASE High
  <2>1. i2c' = i2c /\ moment' = "fall" /\ pins'.data = Driven(1).data
    BY <1>1, <1>6, DrivenTyped DEF High, At, Bit
  <2>2. QED BY <1>1, <2>1 DEF Lines, Driven, PinTypes
<1>7. QED BY <1>2, <1>3, <1>4, <1>5, <1>6 DEF Clock

LEMMA ClockHostSide == ASSUME Inv, Clock PROVE HostSide'
<1>1. AmsTypes /\ HostTypes /\ Ams /\ Host /\ Types /\ Commands /\ HostSide
  BY DEF Inv, Types, TypeInv, HostTypes, AmsTypes, Clock
<1>2. CASE ams.state = "IDLE"
  <2>1. ams.waitrequest BY <1>2 DEF Inv, HostSide
  <2>2. i2c'.busy <=> i2c.busy
    BY <1>2, ClockMoves, I2cMoves DEF Inv, Commands, Requests
  <2>3. CASE ams'.state = "IDLE"
    <3>1. ams'.waitrequest /\ ~ams'.readdatavalid BY <1>1, <1>2, <2>3, AmsMoves
    <3>2. CASE host.bus = "reply" /\ ams.readdatavalid
      <4>1. host' = Answer(ams.readdata) BY <1>1, <2>1, <3>2 DEF Host
      <4>2. /\ host.fn = "none" => host.pc = "idle"
            /\ host.pc = "IORD status" => host.fn = "i2c_write"
        BY <1>1 DEF HostSide
      <4>3. /\ host'.bus = "none"
            /\ host'.fn = "none" => host'.pc = "idle"
            /\ host'.pc \in {"IOWR", "IORD status"} => host'.fn = "i2c_write"
        <5>1. CASE host.pc = "IORD status"
          <6>1. host' = LET h == [host EXCEPT !.value = ams.readdata, !.bus = "none"] IN
                        IF ams.readdata # Zero /\ host.retry > 1
                        THEN [h EXCEPT !.pc = "IOWR", !.retry = host.retry - 1] ELSE Done(h)
            BY <4>1, <4>2, <5>1 DEF Answer
          <6>2. QED BY <1>1, <4>2, <5>1, <6>1 DEF HostTypes, Done
        <5>2. CASE host.pc # "IORD status"
          <6>1. host' = LET h == [host EXCEPT !.value = ams.readdata, !.bus = "none"] IN
                        IF host.fn = "i2c_compare" /\ ams.readdata # host.data
                        THEN [h EXCEPT !.fn = "i2c_write", !.pc = "IOWR"] ELSE Done(h)
            BY <4>1, <5>2 DEF Answer
          <6>2. QED BY <1>1, <6>1 DEF HostTypes, Done
        <5>3. QED BY <5>1, <5>2
      <4>4. QED BY <2>3, <3>1, <4>3 DEF HostSide, Owed
    <3>3. CASE ~(host.bus = "reply" /\ ams.readdatavalid)
      BY <1>1, <2>1, <2>3, <3>1, <3>3 DEF HostSide, Owed, Host
    <3>4. QED BY <3>2, <3>3
  <2>4. CASE ams'.state = "WAIT"
    <3>1. /\ (ams'.write <=> ams_write) /\ (ams'.read <=> ~ams_write)
          /\ (ams_write \/ ams_read)
          /\ ~ams'.waitrequest /\ ~ams'.readdatavalid /\ ams'.address = ams_address
      BY <1>1, <1>2, <2>4, AmsMoves
    <3>2. host.bus = "request" /\ (ams_write <=> host.pc = "IOWR")
      BY <3>1 DEF ams_write, ams_read
    <3>3. host' = host BY <1>1, <2>1, <3>2 DEF Host
    <3>4. ~i2c.busy BY <1>1, <1>2 DEF Commands
    <3>5. ams_address' = ams_address BY <3>3 DEF ams_address
    <3>6. QED BY <1>1, <2>2, <2>4, <3>1, <3>2, <3>3, <3>4, <3>5 DEF HostSide, Owed
  <2>5. QED BY <1>1, <1>2, <2>3, <2>4, AmsMoves
<1>3. CASE ams.state = "RESET"
  BY <1>1, <1>3, AmsMoves, SMT, ZenonT(40) DEF HostSide, Owed, Host, HostTypes, AmsTypes
<1>4. CASE ams.state = "WAIT"
  <2>1. ~ams.readdatavalid BY <1>1, <1>4 DEF HostSide, Owed
  <2>2. CASE ~ams.waitrequest
    <3>1. ~cross.bl BY <1>1, <1>4, <2>2 DEF HostSide, Owed, Inv, Handshake
    <3>2. /\ ams'.state = "WAIT" /\ ams'.waitrequest /\ ~ams'.readdatavalid
          /\ (ams'.read <=> ams.read) /\ ams'.address = ams.address
      BY <1>1, <1>4, <3>1, AmsMoves DEF AmsTypes
    <3>3. host.bus = "request" /\ ams.address = ams_address /\ (ams.write <=> host.pc = "IOWR")
      BY <1>1, <2>2 DEF HostSide, Owed
    <3>4. CASE host.pc = "IOWR"
      <4>1. ~ams.read BY <1>1, <1>4, <3>3, <3>4 DEF Commands
      <4>2. host'.pc = "IORD status" /\ host'.bus = "none" /\ host'.fn = host.fn
        BY <1>1, <2>2, <3>3, <3>4 DEF Host, ams_write, HostTypes
      <4>3. QED BY <1>1, <3>2, <3>4, <4>1, <4>2 DEF HostSide, Owed
    <3>5. CASE host.pc # "IOWR"
      <4>1. host'.pc = host.pc /\ host'.bus = "reply" /\ host'.fn = host.fn
        BY <1>1, <2>2, <3>3, <3>5 DEF Host, ams_write, HostTypes
      <4>2. host.pc \in {"IORD", "IORD status"}
        BY <1>1, <3>3, <3>5 DEF HostSide, Owed, HostTypes
      <4>3. ams.address.status <=> host.pc = "IORD status"
        <5>1. ams_address.status <=> host.pc = "IORD status"
          <6>1. CASE host.pc = "IORD status" BY <6>1 DEF ams_address
          <6>2. CASE host.pc # "IORD status" BY <6>2 DEF ams_address
          <6>3. QED BY <6>1, <6>2
        <5>2. QED BY <3>3, <5>1
      <4>4. QED BY <1>1, <3>2, <4>1, <4>2, <4>3 DEF HostSide, Owed
    <3>6. QED BY <3>4, <3>5
  <2>3. CASE ams.waitrequest
    <3>1. host' = host BY <1>1, <2>1, <2>3 DEF Host
    <3>2. /\ ams'.waitrequest /\ ~ams'.readdatavalid /\ ams'.address = ams.address
          /\ ams'.state \in {"WAIT", "WRITE", "READ"}
          /\ ams'.read \/ ams'.state = "READ" => ams.read
      BY <1>1, <1>4, <2>3, AmsMoves DEF AmsTypes, Commands
    <3>3. ams.read => /\ host.bus = "reply" /\ host.pc \in {"IORD", "IORD status"}
                      /\ (ams.address.status <=> host.pc = "IORD status")
      BY <1>1, <1>4, <2>3 DEF HostSide, Owed
    <3>4. /\ host.fn = "none" => host.pc = "idle"
          /\ host.pc \in {"IOWR", "IORD status"} => host.fn = "i2c_write"
          /\ host.pc = "idle" => host.bus = "none"
      BY <1>1 DEF HostSide, Owed
    <3>5. QED BY <3>1, <3>2, <3>3, <3>4 DEF HostSide, Owed
  <2>4. QED BY <2>2, <2>3
<1>5. CASE ams.state = "WRITE"
  BY <1>1, <1>5, AmsMoves, SMT, ZenonT(40) DEF Inv, HostSide, Owed, Host, HostTypes, AmsTypes
<1>6. CASE ams.state = "READ"
  <2>1. ams'.readdatavalid => StatusByte = Zero
    BY <1>1, <1>6, AmsMoves
    DEF Inv, HostSide, Owed, Handshake, Transfers, StatusByte, Zero
  <2>2. QED
    BY <1>1, <1>6, <2>1, AmsMoves DEF Inv, HostSide, Owed, Host, HostTypes, AmsTypes
<1>7. QED BY <1>1, <1>2, <1>3, <1>4, <1>5, <1>6 DEF AmsTypes

LEMMA NextTypeParts == Types' <=>
  HostTypes' /\ AmsTypes' /\ CrossTypes' /\ TickTypes' /\ I2cTypes' /\ PinTypes' /\ DeviceTypes'
BY TypeParts, PTL

LEMMA ClockTypes == ASSUME Types, Clock PROVE Types'
<1>1. /\ HostTypes /\ AmsTypes /\ CrossTypes /\ TickTypes /\ I2cTypes
      /\ PinTypes /\ DeviceTypes
  BY TypeParts
<1>2. Ams /\ Host /\ Cross /\ (NoMoment \/ Fall \/ Low \/ Rise \/ High) BY DEF Clock
<1>3. HostTypes' /\ AmsTypes' BY <1>1, <1>2, HostTyped, AmsTyped
<1>4. CrossTypes' BY <1>1, <1>2, <1>3, CrossTyped
<1>5. TickTypes' /\ PinTypes' /\ DeviceTypes'
  BY <1>1, <1>2, TickTyped, PinsTyped, DeviceTyped
<1>6. I2cTypes'
  <2>1. I2c => I2cTypes' BY <1>1, I2cTyped
  <2>2. i2c' = i2c => I2cTypes' BY <1>1 DEF I2cTypes
  <2>3. QED BY <2>1, <2>2, ClockMoves
<1>7. QED BY <1>3, <1>4, <1>5, <1>6, NextTypeParts

LEMMA ClockInv == ASSUME Inv, Clock PROVE Inv'
BY ClockTypes, ClockCommands, ClockTransfers, ClockRequests, ClockHandshake,
   ClockHostSide, ClockLines
DEF Inv

\* So do the instructions between two accesses.
LEMMA InstrInv == ASSUME Inv, Call \/ Issue PROVE Inv'
<1>1. UNCHANGED <<ams, cross, tick, moment, i2c, pins>> BY DEF Call, Issue
<1>2. /\ HostTypes /\ AmsTypes /\ CrossTypes /\ TickTypes /\ I2cTypes
      /\ PinTypes /\ DeviceTypes
  BY TypeParts DEF Inv
<1>3. HostTypes' /\ DeviceTypes'
  <2>1. Issue => device' = device BY DEF Issue
  <2>2. QED BY <1>2, <2>1, CallTyped, IssueTyped DEF DeviceTypes
<1>4. AmsTypes' /\ CrossTypes' /\ TickTypes' /\ I2cTypes' /\ PinTypes'
  BY <1>1, <1>2 DEF AmsTypes, CrossTypes, TickTypes, I2cTypes, PinTypes
<1>5. Commands' /\ Transfers' /\ Requests' /\ Handshake' /\ Lines'
  BY <1>1 DEF Inv, Commands, Transfers, Requests, Handshake, Lines, FirstBit, FirstByte
<1>6. HostSide'
  <2>1. HostSide BY DEF Inv
  <2>2. CASE Call
    <3>1. host.fn = "none" /\ host.pc = "idle" /\ host.bus = "none"
      BY <2>1, <2>2 DEF Call, HostSide, Owed
    <3>2. host'.fn # "none" /\ host'.pc # "idle" /\ host'.bus = "none"
          /\ (host'.pc \in {"IOWR", "IORD status"} => host'.fn = "i2c_write")
      BY <1>2, <2>2, <3>1 DEF Call, HostTypes
    <3>3. QED BY <1>1, <2>1, <3>1, <3>2 DEF HostSide, Owed
  <2>3. CASE Issue
    <3>1. /\ host.pc # "idle" /\ host.bus = "none" /\ host'.bus = "request"
          /\ host'.pc = host.pc /\ host'.fn = host.fn
      BY <1>2, <2>3 DEF Issue, HostTypes
    <3>2. QED BY <1>1, <2>1, <3>1 DEF HostSide, Owed
  <2>4. QED BY <2>2, <2>3
<1>7. QED BY <1>3, <1>4, <1>5, <1>6, NextTypeParts DEF Inv

LEMMA StutterInv == ASSUME Inv, UNCHANGED vars PROVE Inv'
<1>1. Types'
  <2>1. /\ HostTypes /\ AmsTypes /\ CrossTypes /\ TickTypes /\ I2cTypes
        /\ PinTypes /\ DeviceTypes
    BY TypeParts DEF Inv
  <2>2. HostTypes' /\ AmsTypes' /\ CrossTypes' 
    <3>1. host' = host /\ ams' = ams /\ cross' = cross BY DEF vars
    <3>2. HostTypes' BY <2>1, <3>1 DEF HostTypes
    <3>3. AmsTypes' BY <2>1, <3>1 DEF AmsTypes
    <3>4. CrossTypes' BY <2>1, <3>1 DEF CrossTypes
    <3>5. QED BY <3>2, <3>3, <3>4
  <2>3. TickTypes' /\ I2cTypes' /\ PinTypes' /\ DeviceTypes'
    BY <2>1 DEF vars, TickTypes, I2cTypes, PinTypes, DeviceTypes
  <2>4. QED BY <2>2, <2>3, NextTypeParts
<1>2. Commands' /\ Transfers' /\ Requests' /\ Handshake' /\ Lines'
  BY DEF vars, Inv, Commands, Transfers, Requests, Handshake, Lines, FirstBit, FirstByte
<1>3. HostSide' BY DEF vars, Inv, HostSide, Owed, ams_address
<1>4. QED BY <1>1, <1>2, <1>3 DEF Inv

LEMMA InitInv == Init => Inv
<1> SUFFICES ASSUME Init PROVE Inv
  OBVIOUS
<1>1. HostTypes /\ AmsTypes
  <2>1. 0 \in 0 .. Retries BY BusFacts
  <2>2. NoAddress \in [dev : [1 .. Bits - 1 -> {0, 1}], reg : Byte, status : BOOLEAN]
    BY BusFacts DEF NoAddress
  <2>3. QED BY <2>1, <2>2, BusFacts DEF Init, HostTypes, AmsTypes
<1>2. CrossTypes /\ TickTypes /\ PinTypes
  <2>1. 0 \in 0 .. Ticks - 1 /\ 0 \in 0 .. Stretches BY BusFacts
  <2>2. CrossTypes BY DEF Init, CrossTypes
  <2>3. QED BY <2>1, <2>2 DEF Init, TickTypes, PinTypes
<1>3. I2cTypes
  <2>1. 0 \in 0 .. Bits - 1 BY BusFacts
  <2>2. QED BY <2>1, BusFacts DEF Init, I2cTypes
<1>4. DeviceTypes
  <2>1. <<>> \in Seq(Bit) BY EmptySeq
  <2>2. [b \in Byte |-> Zero] \in [Byte -> Byte] BY BusFacts
  <2>3. QED BY <2>1, <2>2, BusFacts DEF Init, DeviceTypes, Bit
<1>5. Commands /\ Transfers /\ Requests /\ Handshake /\ HostSide /\ Lines
  BY DEF Init, Commands, Transfers, Requests, Handshake, HostSide, Owed, Lines
<1>6. QED BY <1>1, <1>2, <1>3, <1>4, <1>5, TypeParts DEF Inv

LEMMA InvAlways == Spec => []Inv
<1>1. Inv /\ [Next]_vars => Inv' BY ClockInv, InstrInv, StutterInv DEF Next
<1>2. QED BY <1>1, InitInv, PTL DEF Spec

\* The registers of both clock domains keep their types, and the status the
\* firmware polls after a write is always zero: the I2C side has cleared its
\* errors before the Avalon side sees it idle (AmsI2c).
THEOREM BridgeIsSafe == Spec => []BridgeSafe
<1>1. Inv => BridgeSafe
  BY DEF Inv, Types, BridgeSafe, StatusReadsZero, HostSide, Owed
<1>2. QED BY <1>1, InvAlways, PTL

\* The two clock domains stay in step however the device acknowledges and
\* stretches: a transfer starts only for the command that waits, of its kind,
\* and no command is taken before the last one has ended (AmsI2c).
THEOREM DomainsInStep == Spec => []InStep
<1>1. Inv => InStep
  <2> SUFFICES ASSUME Inv PROVE InStep OBVIOUS
  <2>1. i2c.state \in {"RESTART", "DATA", "ACK", "STOP"} => ams.state \in {"WAIT", "WRITE", "READ"}
    BY DEF Inv, Types, TypeInv, Commands, Transfers
  <2>2. QED BY <2>1 DEF Inv, Handshake, Transfers, InStep
<1>2. QED BY <1>1, InvAlways, PTL

\* For every width of a byte, divider and stretching: SDA changes while SCL is
\* high only where the bridge makes a start or a stop (AmsI2c).
THEOREM DataIsStable == Spec => DataStableWhileHigh
<1>1. ASSUME Inv, Next, scl = 1, scl' = 1, i2c.state \notin {"START", "RESTART", "STOP"}
      PROVE  sda' = sda
  <2>0. PinTypes /\ DeviceTypes /\ I2cTypes BY TypeParts, <1>1 DEF Inv
  <2>1. CASE Call \/ Issue
    <3>1. pins' = pins /\ device'.sda = device.sda
      BY <2>0, <2>1 DEF Call, Issue, DeviceTypes
    <3>2. QED BY <3>1 DEF sda
  <2>2. CASE Clock /\ NoMoment BY <2>2 DEF NoMoment, sda
  <2>3. CASE Clock /\ Fall
    <3>1. pins' = [pins EXCEPT !.hold = FALSE] /\ moment' = "low" BY <2>3 DEF Fall, At
    <3>2. ~pins.en BY <1>1, <2>0, <3>1 DEF scl, PinTypes
    <3>3. device' = device BY <2>3, <3>2 DEF Fall
    <3>4. QED BY <2>0, <3>1, <3>3 DEF sda, PinTypes
  <2>4. CASE Clock /\ Low
    <3>1. /\ moment = "low" /\ moment' = "rise" /\ device' = device
          /\ ~pins.en /\ ~pins'.en
          /\ pins'.data = Driven(0).data /\ pins'.en = Driven(0).en
      BY <1>1, <2>0, <2>4, DrivenTyped DEF Low, At, scl, Bit
    <3>2. i2c.state \in {"RESET", "IDLE"}
      BY <1>1, <2>0, <3>1 DEF Driven, PinTypes, I2cTypes
    <3>3. pins.data = 1 /\ pins'.data = 1
      BY <1>1, <2>0, <3>1, <3>2 DEF Driven, PinTypes, Inv, Lines
    <3>4. QED BY <3>1, <3>3 DEF sda
  <2>5. CASE Clock /\ Rise
    <3>1. PICK hold \in BOOLEAN :
            /\ pins' = [pins EXCEPT !.in = sda, !.hold = hold, !.held = IF hold THEN @ + 1 ELSE @]
            /\ IF hold THEN UNCHANGED device ELSE DeviceRise
      BY <2>5 DEF Rise
    <3>2. device'.sda = device.sda BY <2>0, <3>1 DEF DeviceRise, DeviceTypes
    <3>3. pins'.data = pins.data BY <2>0, <3>1 DEF PinTypes
    <3>4. QED BY <3>2, <3>3 DEF sda
  <2>6. CASE Clock /\ High
    <3>1. moment = "high" /\ pins'.data = Driven(1).data
      BY <2>0, <2>6, DrivenTyped DEF High, At, Bit
    <3>2. pins'.data = pins.data
      BY <1>1, <2>0, <3>1 DEF Driven, PinTypes, I2cTypes, Inv, Lines
    <3>3. device' = device BY <2>6, <3>2 DEF High
    <3>4. QED BY <3>2, <3>3 DEF sda
  <2>7. QED BY <1>1, <2>1, <2>2, <2>3, <2>4, <2>5, <2>6 DEF Next, Clock
<1>2. Inv /\ [Next]_vars =>
        [scl = 1 /\ scl' = 1 /\ sda # sda' =>
           i2c.state \in {"START", "RESTART", "STOP"}]_vars
  BY <1>1
<1>3. QED BY <1>2, InvAlways, PTL DEF Spec, DataStableWhileHigh

-----------------------------------------------------------------------------
(***************************************************************************)
(* The access on the bus, with a device that does not stretch the clock.   *)
(* Wire says, for every state of the I2C side and every moment, which bits *)
(* of which byte the device has, what it is about to do, and what the      *)
(* Avalon side will be told; the steps of I2cAccess are read off from it.  *)
(***************************************************************************)
\* What the byte under way should be, and how many of its bits are over.
SentByte == CASE i2c.word = "DEVICE"  -> Append(ams.address.dev, i2c.read_bit)
              [] i2c.word = "ADDRESS" -> ams.address.reg
              [] i2c.word = "WRITE"   -> ams.writedata
              [] OTHER                -> device.mem[ams.address.reg]
Over == Bits - 1 - i2c.bit_cnt
Sampled == moment \in {"high", "fall"}
DeviceWord == CASE i2c.word = "DEVICE"  -> "device"
                [] i2c.word = "ADDRESS" -> "register"
                [] OTHER                -> "data"

Unstretched == ~pins.hold /\ ~pins.wait

WireQuiet ==
  i2c.state \in {"RESET", "IDLE"} => device.act = "idle" /\ device.sda = 1 /\ ~pins.en
Heard == device.act = "listen" /\ device.word = "device" /\ device.got = <<>>
WireStart ==
  i2c.state = "START" =>
    /\ device.sda = 1
    /\ moment # "fall" => device.act = "idle" /\ ~pins.en /\ pins.data = 1
    /\ moment = "fall" => Heard /\ device.outcome = "none" /\ pins.en
WireRestart ==
  i2c.state = "RESTART" =>
    /\ device.act = "listen" /\ device.sda = 1 /\ pins.en /\ device.outcome = "none"
    /\ device.reg = ams.address.reg /\ i2c.word = "DEVICE"
    /\ moment \in {"rise", "high"} => pins.data = 1
    /\ moment = "fall" => Heard
\* What the device has been told before this byte.
Register ==
  /\ i2c.word # "DEVICE" => ams.address.dev = Own
  /\ i2c.word = "WRITE" \/ (i2c.word = "DEVICE" /\ i2c.read_bit = 1)
       => device.reg = ams.address.reg
WireSend ==
  i2c.state = "DATA" /\ i2c.word # "READ" =>
    /\ pins.en /\ device.act = "listen" /\ device.sda = 1 /\ device.word = DeviceWord
    /\ device.outcome = "none" /\ Register
    /\ Len(device.got) = Over + (IF Sampled THEN 1 ELSE 0)
    /\ \A i \in 1 .. Len(device.got) : device.got[i] = SentByte[i]
    /\ \A i \in 1 .. Bits - Over : i2c.shift[i] = SentByte[Over + i]
Refused == device.act = "idle" /\ device.sda = 1 /\ device.outcome = "refused"
Accepted ==
  /\ ams.address.dev = Own /\ device.act = "ack" /\ device.sda = 0 /\ device.got = <<>>
  /\ CASE i2c.word = "DEVICE" /\ i2c.read_bit = 0 ->
            device.word = "register" /\ device.outcome = "none"
       [] i2c.word = "DEVICE" /\ i2c.read_bit = 1 ->
            /\ device.word = "send" /\ device.outcome = "done"
            /\ device.out = device.mem[ams.address.reg]
       [] i2c.word = "ADDRESS" ->
            device.word = "data" /\ device.outcome = "none" /\ device.reg = ams.address.reg
       [] OTHER -> device.word = "data" /\ device.outcome = "done"
WireAck ==
  i2c.state = "ACK" /\ i2c.word # "READ" =>
    /\ pins.en /\ (Accepted \/ Refused)
    /\ Sampled => pins.in = device.sda
WireReceive ==
  i2c.state = "DATA" /\ i2c.word = "READ" =>
    /\ pins.en /\ device.act = "send" /\ device.word = "send" /\ device.outcome = "done"
    /\ device.sda = SentByte[Over + 1] /\ Len(device.out) = i2c.bit_cnt
    /\ \A i \in 1 .. Len(device.out) : device.out[i] = SentByte[Over + 1 + i]
    /\ \A i \in 1 .. Over : i2c.shift[Bits - Over + i] = SentByte[i]
    /\ Sampled => pins.in = device.sda
WireReceived ==
  i2c.state = "ACK" /\ i2c.word = "READ" =>
    /\ pins.en /\ device.act = "idle" /\ device.sda = 1 /\ device.outcome = "done"
    /\ i2c.shift = SentByte
WireStop ==
  i2c.state = "STOP" =>
    /\ device.sda = 1 /\ device.outcome # "none"
    /\ moment \in {"rise", "high"} => pins.data = 0
    /\ moment = "fall" => device.act = "idle" /\ ~pins.en
Kinds ==
  /\ i2c.state = "RESTART" => i2c.read_op
  /\ i2c.state \in {"DATA", "ACK"} =>
       /\ i2c.word \in {"DEVICE", "ADDRESS", "WRITE", "READ"}
       /\ i2c.word = "WRITE" => ~i2c.read_op
       /\ i2c.word = "READ" => i2c.read_op
       /\ i2c.word = "DEVICE" /\ i2c.read_bit = 1 => i2c.read_op

Result == IF device.outcome = "refused" THEN Zero ELSE device.mem[ams.address.reg]
Answered ==
  /\ ams.state \in {"WRITE", "READ"} /\ i2c.state = "IDLE" => device.outcome # "none"
  /\ ams.state = "READ" /\ i2c.state \in {"STOP", "IDLE"} => i2c.readdata = Result
  /\ ams.readdatavalid => /\ device.outcome # "none"
                          /\ ~ams.address.status => ams.readdata = Result

Asked ==
  /\ host.pc # "idle" => host.dev \in Devs /\ host.reg \in Regs /\ host.data \in Data
  /\ Active => /\ ams.address.dev \in Devs /\ ams.address.reg \in Regs
               /\ ams.writedata \in Data \cup {Zero}

OnWire == /\ Unstretched /\ WireQuiet /\ WireStart /\ WireRestart /\ WireSend /\ WireAck
          /\ WireReceive /\ WireReceived /\ WireStop /\ Kinds
Wire == OnWire /\ Answered /\ Asked

(* The moments of a clock that is not stretched.                           *)
QuietEdge == i2c' = i2c /\ pins' = pins /\ device' = device /\ moment' = moment
LowEdge == /\ moment = "low" /\ moment' = "rise" /\ i2c' = i2c /\ device' = device
           /\ pins' = [Driven(0) EXCEPT !.wait = FALSE]
RiseEdge == /\ moment = "rise" /\ moment' = "high" /\ i2c' = i2c /\ DeviceRise
            /\ pins'.in = sda /\ pins'.hold = FALSE /\ pins'.wait = pins.wait
            /\ pins'.en = pins.en /\ pins'.data = pins.data
HighEdge == /\ moment = "high" /\ moment' = "fall" /\ i2c' = i2c
            /\ pins' = [Driven(1) EXCEPT !.wait = pins.hold]
            /\ IF device.sda = 0 \/ pins.data = pins'.data THEN device' = device
               ELSE IF pins.data = 1 THEN DeviceStart ELSE DeviceStop
FallEdge == /\ moment = "fall" /\ moment' = "low" /\ I2c
            /\ pins' = [pins EXCEPT !.hold = FALSE]
            /\ IF pins.en THEN DeviceFall ELSE device' = device

LEMMA Edges ==
  ASSUME Inv, OnWire, Clock, Stretches = 0
  PROVE  QuietEdge \/ LowEdge \/ RiseEdge \/ HighEdge \/ FallEdge
<1>1. PinTypes /\ ~pins.hold /\ pins.hold = FALSE
  BY DEF Inv, Types, TypeInv, PinTypes, OnWire, Unstretched
<1>2. CASE NoMoment
  BY <1>2 DEF NoMoment, QuietEdge
<1>3. CASE Fall
  BY <1>1, <1>3 DEF Fall, At, FallEdge
<1>4. CASE Low
  BY <1>1, <1>4 DEF Low, At, LowEdge
<1>5. CASE Rise
  <2>1. ~(pins.held < Stretches)
    BY <1>1 DEF PinTypes
  <2>2. /\ pins' = [pins EXCEPT !.in = sda, !.hold = FALSE, !.held = pins.held] /\ DeviceRise
    BY <1>5, <2>1 DEF Rise
  <2>3. QED BY <1>1, <1>5, <2>2 DEF Rise, At, RiseEdge, PinTypes
<1>6. CASE High
  <2>1. /\ moment = "high" /\ moment' = "fall" /\ i2c' = i2c
        /\ pins' = [Driven(1) EXCEPT !.wait = pins.hold]
    BY <1>6 DEF High, At
  <2>2. CASE device.sda = 0 \/ pins.data = pins'.data
    BY <1>1, <1>6, <2>1, <2>2 DEF High, HighEdge
  <2>3. CASE ~(device.sda = 0 \/ pins.data = pins'.data)
    BY <1>1, <1>6, <2>1, <2>3 DEF High, HighEdge
  <2>4. QED BY <2>2, <2>3
<1>7. QED BY <1>2, <1>3, <1>4, <1>5, <1>6 DEF Clock

LEMMA AmsKeeps ==
  ASSUME Inv, Clock, i2c.state \notin {"IDLE", "RESET"}
  PROVE  /\ ams.state \in {"WAIT", "WRITE", "READ"} /\ ~ams.readdatavalid
         /\ ams'.address = ams.address /\ ams'.writedata = ams.writedata
<1>1. AmsTypes /\ Ams
  BY DEF Inv, Types, TypeInv, AmsTypes, Clock
<1>2. ams.state \in {"WAIT", "WRITE", "READ"} /\ ~ams.readdatavalid
  BY <1>1 DEF Inv, Commands, HostSide, AmsTypes
<1>3. QED BY <1>1, <1>2 DEF Ams, AmsIdle, AmsWait, AmsWrite, AmsRead, AmsReset, AmsTypes

LEMMA SentIsByte == ASSUME Types PROVE SentByte \in Byte
<1>1. AmsTypes /\ I2cTypes /\ DeviceTypes
  BY DEF Types, TypeInv, AmsTypes, I2cTypes
<1>2. Append(ams.address.dev, i2c.read_bit) \in Byte
  BY <1>1, AddressIsByte DEF AmsTypes, I2cTypes, Bit
<1>3. ams.address.reg \in Byte /\ ams.writedata \in Byte /\ device.mem[ams.address.reg] \in Byte
  BY <1>1 DEF AmsTypes, DeviceTypes
<1>4. QED BY <1>2, <1>3 DEF SentByte

\* What an edge without I2C step leaves as it is.
LEMMA SameSent ==
  ASSUME Inv, Clock, i2c.state \notin {"IDLE", "RESET"}, i2c' = i2c, device'.mem = device.mem
  PROVE  SentByte' = SentByte /\ ams'.address = ams.address
BY AmsKeeps DEF SentByte

LEMMA QuietOnWire ==
  ASSUME Inv, OnWire, Clock, QuietEdge
  PROVE  OnWire'
<1>1. CASE i2c.state \in {"IDLE", "RESET"}
  BY <1>1 DEF QuietEdge, OnWire, Unstretched, WireQuiet, WireStart, WireRestart, WireSend, WireAck,
              WireReceive, WireReceived, WireStop, Kinds
<1>2. CASE i2c.state \notin {"IDLE", "RESET"}
  <2>1. SentByte' = SentByte /\ ams'.address = ams.address
    BY <1>2, SameSent DEF QuietEdge
  <2>2. Unstretched' /\ WireQuiet' /\ WireStart' /\ WireRestart' /\ WireStop' /\ Kinds'
    BY <2>1
    DEF QuietEdge, OnWire, Unstretched, WireQuiet, WireStart, WireRestart, WireStop, Kinds, Heard
  <2>3. WireSend' /\ WireReceive' /\ WireReceived'
    BY <2>1
    DEF QuietEdge, OnWire, WireSend, WireReceive, WireReceived, Over, Sampled, DeviceWord, Register
  <2>4. WireAck'
    BY <2>1 DEF QuietEdge, OnWire, WireAck, Accepted, Refused, Sampled
  <2>5. QED BY <2>2, <2>3, <2>4 DEF OnWire
<1>3. QED BY <1>1, <1>2

LEMMA HeadOfByte == ASSUME NEW b \in Byte PROVE Head(b) = b[1]
<1>1. b \in Seq(Bit) /\ Len(b) = Bits
  BY BusFacts, ByteSeq DEF Byte, Bit
<1>2. QED BY <1>1, BusFacts

LEMMA LowPins ==
  ASSUME PinTypes, I2cTypes, pins' = [Driven(0) EXCEPT !.wait = FALSE]
  PROVE  /\ pins'.in = pins.in /\ (pins'.hold <=> pins.hold) /\ ~pins'.wait
         /\ i2c.state \in {"DATA", "ACK"} => pins'.en
         /\ i2c.state \in {"START", "RESTART", "STOP"} => (pins'.en <=> pins.en)
         /\ i2c.state \in {"RESET", "IDLE"} => ~pins'.en
         /\ i2c.state \in {"START", "RESTART"} => pins'.data = 1
         /\ i2c.state = "STOP" => pins'.data = 0
<1>1. CASE i2c.state \in {"START", "RESTART"}
  BY <1>1 DEF Driven, PinTypes
<1>2. CASE i2c.state = "DATA"
  BY <1>2 DEF Driven, PinTypes
<1>3. CASE i2c.state = "ACK"
  BY <1>3 DEF Driven, PinTypes
<1>4. CASE i2c.state = "STOP"
  BY <1>4 DEF Driven, PinTypes
<1>5. CASE i2c.state \in {"RESET", "IDLE"}
  BY <1>5 DEF Driven, PinTypes
<1>6. QED BY <1>1, <1>2, <1>3, <1>4, <1>5 DEF I2cTypes

LEMMA HighPins ==
  ASSUME PinTypes, I2cTypes, pins' = [Driven(1) EXCEPT !.wait = pins.hold]
  PROVE  /\ pins'.in = pins.in /\ (pins'.hold <=> pins.hold) /\ (pins'.wait <=> pins.hold)
         /\ i2c.state \in {"START", "RESTART", "DATA", "ACK"} => pins'.en
         /\ i2c.state \in {"RESET", "IDLE", "STOP"} => ~pins'.en
         /\ i2c.state \in {"START", "RESTART"} => pins'.data = 0
         /\ i2c.state = "DATA" => pins'.data = IF i2c.word = "READ" THEN 1 ELSE Head(i2c.shift)
         /\ i2c.state \in {"RESET", "IDLE", "ACK", "STOP"} => pins'.data = 1
<1>1. CASE i2c.state \in {"START", "RESTART"}
  <2>1. Driven(1) = [pins EXCEPT !.en = pins.en \/ 1 = 1, !.data = 1 - 1]
    BY <1>1, Zenon DEF Driven
  <2>2. (pins.en \/ 1 = 1) = TRUE /\ 1 - 1 = 0
    OBVIOUS
  <2>3. Driven(1) = [pins EXCEPT !.en = TRUE, !.data = 0]
    BY <2>1, <2>2, Zenon
  <2>4. QED BY <1>1, <2>3 DEF PinTypes
<1>2. CASE i2c.state = "DATA"
  BY <1>2 DEF Driven, PinTypes
<1>3. CASE i2c.state = "ACK"
  BY <1>3 DEF Driven, PinTypes
<1>4. CASE i2c.state = "STOP"
  <2>1. Driven(1) = [pins EXCEPT !.en = pins.en /\ 1 = 0, !.data = 1]
    BY <1>4, Zenon DEF Driven
  <2>2. (pins.en /\ 1 = 0) = FALSE
    OBVIOUS
  <2>3. Driven(1) = [pins EXCEPT !.en = FALSE, !.data = 1]
    BY <2>1, <2>2, Zenon
  <2>4. QED BY <1>4, <2>3 DEF PinTypes
<1>5. CASE i2c.state \in {"RESET", "IDLE"}
  BY <1>5 DEF Driven, PinTypes
<1>6. QED BY <1>1, <1>2, <1>3, <1>4, <1>5 DEF I2cTypes

LEMMA LowOnWire ==
  ASSUME Inv, OnWire, Clock, LowEdge
  PROVE  OnWire'
<1>0. /\ PinTypes /\ I2cTypes /\ device' = device /\ i2c' = i2c /\ moment = "low" /\ moment' = "rise"
      /\ pins.hold = FALSE
  BY DEF Inv, Types, TypeInv, PinTypes, I2cTypes, LowEdge, OnWire, Unstretched
<1>1. /\ pins'.in = pins.in /\ (pins'.hold <=> pins.hold) /\ ~pins'.wait
      /\ i2c.state \in {"DATA", "ACK"} => pins'.en
      /\ i2c.state \in {"START", "RESTART", "STOP"} => (pins'.en <=> pins.en)
      /\ i2c.state \in {"RESET", "IDLE"} => ~pins'.en
      /\ i2c.state \in {"START", "RESTART"} => pins'.data = 1
      /\ i2c.state = "STOP" => pins'.data = 0
  BY <1>0, LowPins DEF LowEdge
<1>2. Unstretched' /\ Kinds'
  BY <1>0, <1>1 DEF OnWire, Unstretched, Kinds
<1>3. WireQuiet' /\ WireStart' /\ WireStop'
  BY <1>0, <1>1 DEF OnWire, WireQuiet, WireStart, WireStop
<1>4. CASE i2c.state \in {"IDLE", "RESET"}
  BY <1>0, <1>2, <1>3, <1>4 DEF OnWire, WireRestart, WireSend, WireAck, WireReceive, WireReceived
<1>5. CASE i2c.state \notin {"IDLE", "RESET"}
  <2>1. SentByte' = SentByte /\ ams'.address = ams.address
    BY <1>0, <1>5, SameSent
  <2>2. WireRestart'
    BY <1>0, <1>1, <2>1 DEF OnWire, WireRestart, Heard
  <2>3. WireSend' /\ WireReceive' /\ WireReceived'
    BY <1>0, <1>1, <2>1
    DEF OnWire, WireSend, WireReceive, WireReceived, Over, Sampled, DeviceWord, Register
  <2>4. WireAck'
    BY <1>0, <1>1, <2>1 DEF OnWire, WireAck, Accepted, Refused, Sampled
  <2>5. QED BY <1>2, <1>3, <2>2, <2>3, <2>4 DEF OnWire
<1>6. QED BY <1>4, <1>5

LEMMA HighOnWire ==
  ASSUME Inv, OnWire, Clock, HighEdge
  PROVE  OnWire'
<1>0. /\ PinTypes /\ I2cTypes /\ DeviceTypes /\ i2c' = i2c /\ moment = "high" /\ moment' = "fall"
      /\ pins.hold = FALSE /\ Lines
  BY DEF Inv, Types, TypeInv, PinTypes, I2cTypes, HighEdge, OnWire, Unstretched
<1>1. /\ pins'.in = pins.in /\ (pins'.hold <=> pins.hold) /\ (pins'.wait <=> pins.hold)
      /\ i2c.state \in {"START", "RESTART", "DATA", "ACK"} => pins'.en
      /\ i2c.state \in {"RESET", "IDLE", "STOP"} => ~pins'.en
      /\ i2c.state \in {"START", "RESTART"} => pins'.data = 0
      /\ i2c.state = "DATA" => pins'.data = IF i2c.word = "READ" THEN 1 ELSE Head(i2c.shift)
      /\ i2c.state \in {"RESET", "IDLE", "ACK", "STOP"} => pins'.data = 1
  BY <1>0, HighPins DEF HighEdge
<1>2. Unstretched' /\ Kinds'
  BY <1>0, <1>1 DEF OnWire, Unstretched, Kinds
<1>3. CASE i2c.state \in {"IDLE", "RESET"}
  <2>1. device' = device
    BY <1>0, <1>1, <1>3 DEF HighEdge, Lines
  <2>2. QED
    BY <1>0, <1>1, <1>2, <1>3, <2>1 DEF OnWire, WireQuiet, WireStart, WireRestart, WireSend, WireAck,
                                        WireReceive, WireReceived, WireStop
<1>4. CASE i2c.state \in {"START", "RESTART"}
  <2>1. DeviceStart
    BY <1>0, <1>1, <1>4 DEF HighEdge, OnWire, WireStart, WireRestart
  <2>2. /\ device'.act = "listen" /\ device'.word = "device" /\ device'.got = <<>>
        /\ device'.sda = 1 /\ device'.outcome = "none" /\ device'.reg = device.reg
        /\ device'.mem = device.mem
    BY <1>0, <2>1 DEF DeviceStart, DeviceTypes
  <2>3. SentByte' = SentByte /\ ams'.address = ams.address
    BY <1>0, <1>4, <2>2, SameSent
  <2>4. QED
    BY <1>0, <1>1, <1>2, <1>4, <2>2, <2>3
    DEF OnWire, WireQuiet, WireStart, WireRestart, WireSend, WireAck, WireReceive, WireReceived,
        WireStop, Heard
<1>5. CASE i2c.state \in {"DATA", "ACK"}
  <2>1. device' = device
    BY <1>0, <1>1, <1>5 DEF HighEdge, Lines
  <2>2. SentByte' = SentByte /\ ams'.address = ams.address
    BY <1>0, <1>5, <2>1, SameSent
  <2>3. WireSend' /\ WireReceive' /\ WireReceived'
    BY <1>0, <1>1, <1>5, <2>1, <2>2
    DEF OnWire, WireSend, WireReceive, WireReceived, Over, Sampled, DeviceWord, Register
  <2>4. WireAck'
    BY <1>0, <1>1, <1>5, <2>1, <2>2 DEF OnWire, WireAck, Accepted, Refused, Sampled
  <2>5. QED BY <1>0, <1>2, <1>5, <2>3, <2>4 DEF OnWire, WireQuiet, WireStart, WireRestart, WireStop
<1>6. CASE i2c.state = "STOP"
  <2>1. DeviceStop
    BY <1>0, <1>1, <1>6 DEF HighEdge, OnWire, WireStop
  <2>2. device'.act = "idle" /\ device'.sda = 1 /\ device'.outcome = device.outcome
    BY <1>0, <2>1 DEF DeviceStop, DeviceTypes
  <2>3. QED
    BY <1>0, <1>1, <1>2, <1>6, <2>2
    DEF OnWire, WireQuiet, WireStart, WireRestart, WireSend, WireAck, WireReceive, WireReceived, WireStop
<1>7. QED BY <1>0, <1>3, <1>4, <1>5, <1>6 DEF I2cTypes

\* One bit of a byte: as the device hears it, and as the shift register gives
\* and takes it.
LEMMA HeardBit ==
  ASSUME NEW byte \in Byte, NEW n \in 0 .. Bits - 1, NEW got \in Seq(Bit), Len(got) = n,
         \A i \in 1 .. Len(got) : got[i] = byte[i]
  PROVE  /\ Len(Append(got, byte[n + 1])) = n + 1
         /\ \A i \in 1 .. Len(Append(got, byte[n + 1])) : Append(got, byte[n + 1])[i] = byte[i]
<1>1. n + 1 \in 1 .. Bits /\ byte[n + 1] \in Bit
  BY BusFacts DEF Byte, Bit
<1>2. /\ Len(Append(got, byte[n + 1])) = n + 1
      /\ \A i \in 1 .. n : Append(got, byte[n + 1])[i] = got[i]
      /\ Append(got, byte[n + 1])[n + 1] = byte[n + 1]
  BY <1>1, AppendProperties
<1>3. QED BY <1>2

LEMMA ShiftedBits ==
  ASSUME NEW b \in Byte, NEW x \in Bit
  PROVE  /\ \A i \in 1 .. Bits - 1 : Shifted(b, x)[i] = b[i + 1]
         /\ Shifted(b, x)[Bits] = x
<1>1. b \in Seq(Bit) /\ Len(b) = Bits /\ b # <<>> BY BusFacts, ByteSeq DEF Byte, Bit
<1>2. /\ Tail(b) \in Seq(Bit) /\ Len(Tail(b)) = Bits - 1
      /\ \A i \in 1 .. Bits - 1 : Tail(b)[i] = b[i + 1]
  BY <1>1, HeadTailProperties
<1>3. /\ \A i \in 1 .. Bits - 1 : Append(Tail(b), x)[i] = Tail(b)[i]
      /\ Append(Tail(b), x)[(Bits - 1) + 1] = x
  BY <1>2, AppendProperties
<1>4. (Bits - 1) + 1 = Bits BY BusFacts
<1>5. QED BY <1>2, <1>3, <1>4, BusFacts DEF Shifted

LEMMA SentBit ==
  ASSUME NEW byte \in Byte, NEW b \in Byte, NEW x \in Bit, NEW n \in 0 .. Bits - 2,
         \A i \in 1 .. Bits - n : b[i] = byte[n + i]
  PROVE  \A i \in 1 .. Bits - (n + 1) : Shifted(b, x)[i] = byte[n + 1 + i]
<1>1. SUFFICES ASSUME NEW i \in 1 .. Bits - (n + 1)
               PROVE  Shifted(b, x)[i] = byte[n + 1 + i]
  OBVIOUS
<1>2. i \in 1 .. Bits - 1 /\ i + 1 \in 1 .. Bits - n /\ n + (i + 1) = n + 1 + i
  BY BusFacts
<1>3. Shifted(b, x)[i] = b[i + 1] BY <1>2, ShiftedBits
<1>4. b[i + 1] = byte[n + (i + 1)] BY <1>2
<1>5. QED BY <1>2, <1>3, <1>4

LEMMA ReceivedBit ==
  ASSUME NEW byte \in Byte, NEW b \in Byte, NEW n \in 0 .. Bits - 1,
         \A i \in 1 .. n : b[Bits - n + i] = byte[i]
  PROVE  \A i \in 1 .. n + 1 : Shifted(b, byte[n + 1])[Bits - (n + 1) + i] = byte[i]
<1>1. SUFFICES ASSUME NEW i \in 1 .. n + 1
               PROVE  Shifted(b, byte[n + 1])[Bits - (n + 1) + i] = byte[i]
  OBVIOUS
<1>2. n + 1 \in 1 .. Bits /\ byte[n + 1] \in Bit
  BY BusFacts DEF Byte, Bit
<1>3. CASE i = n + 1
  <2>1. Bits - (n + 1) + i = Bits BY <1>3, BusFacts
  <2>2. QED BY <1>2, <1>3, <2>1, ShiftedBits
<1>4. CASE i \in 1 .. n
  <2>1. Bits - (n + 1) + i \in 1 .. Bits - 1 /\ (Bits - (n + 1) + i) + 1 = Bits - n + i
    BY <1>4, BusFacts
  <2>2. Shifted(b, byte[n + 1])[Bits - (n + 1) + i] = b[(Bits - (n + 1) + i) + 1]
    BY <1>2, <2>1, ShiftedBits
  <2>3. QED BY <1>4, <2>1, <2>2
<1>5. QED BY <1>3, <1>4

LEMMA HeardByte ==
  ASSUME NEW byte \in Byte, NEW got \in Seq(Bit), Len(got) = Bits,
         \A i \in 1 .. Len(got) : got[i] = byte[i]
  PROVE  got = byte
<1>1. byte \in Seq(Bit) /\ Len(byte) = Bits BY BusFacts, ByteSeq DEF Byte, Bit
<1>2. QED BY <1>1, SeqEqual

LEMMA SameByte ==
  ASSUME NEW b \in Byte, NEW c \in Byte, \A i \in 1 .. Bits : b[i] = c[i]
  PROVE  b = c
<1>1. /\ b \in Seq(Bit) /\ Len(b) = Bits
      /\ c \in Seq(Bit) /\ Len(c) = Bits
  BY BusFacts, ByteSeq DEF Byte, Bit
<1>2. QED BY <1>1, SeqEqual

LEMMA AddressBits ==
  ASSUME NEW d \in [1 .. Bits - 1 -> Bit], NEW x \in Bit
  PROVE  SubSeq(Append(d, x), 1, Bits - 1) = d /\ Append(d, x)[Bits] = x
<1>1. d \in Seq(Bit) /\ Len(d) = Bits - 1 BY BusFacts, ByteSeq
<1>2. /\ \A i \in 1 .. Bits - 1 : Append(d, x)[i] = d[i]
      /\ Append(d, x)[(Bits - 1) + 1] = x
  BY <1>1, AppendProperties
<1>3. (Bits - 1) + 1 = Bits BY BusFacts
<1>4. \A i \in 1 .. Bits - 1 : Append(d, x)[i] \in Bit BY <1>2
<1>5. 1 \in Int /\ Bits - 1 \in Int /\ 1 <= Bits - 1 /\ (Bits - 1) - 1 + 1 = Bits - 1 BY BusFacts
<1>6. /\ SubSeq(Append(d, x), 1, Bits - 1) \in Seq(Bit)
      /\ Len(SubSeq(Append(d, x), 1, Bits - 1)) = Bits - 1
      /\ \A i \in 1 .. Bits - 1 : SubSeq(Append(d, x), 1, Bits - 1)[i] = Append(d, x)[1 + i - 1]
  BY <1>4, <1>5, SubSeqProperties, SMTT(30)
<1>7. \A i \in 1 .. Bits - 1 : SubSeq(Append(d, x), 1, Bits - 1)[i] = d[i]
  BY <1>2, <1>6, BusFacts
<1>8. SubSeq(Append(d, x), 1, Bits - 1) = d BY <1>1, <1>6, <1>7, SeqEqual
<1>9. QED BY <1>2, <1>3, <1>8

LEMMA RiseOnWire ==
  ASSUME Inv, OnWire, Clock, RiseEdge
  PROVE  OnWire'
<1>0. /\ PinTypes /\ I2cTypes /\ DeviceTypes /\ i2c' = i2c /\ moment = "rise" /\ moment' = "high"
      /\ Lines /\ DeviceRise /\ pins'.in = sda /\ ~pins'.hold /\ (pins'.wait <=> pins.wait)
      /\ (pins'.en <=> pins.en) /\ pins'.data = pins.data
  BY DEF Inv, Types, TypeInv, PinTypes, I2cTypes, RiseEdge
<1>1. /\ device'.act = device.act /\ device'.word = device.word /\ device'.sda = device.sda
      /\ device'.out = device.out /\ device'.reg = device.reg /\ device'.mem = device.mem
      /\ device'.outcome = device.outcome
      /\ device'.got = IF device.act = "listen" /\ Len(device.got) < Bits
                       THEN Append(device.got, sda) ELSE device.got
  BY <1>0 DEF DeviceRise, DeviceTypes
<1>2. Unstretched' /\ Kinds'
  BY <1>0 DEF OnWire, Unstretched, Kinds
<1>3. WireQuiet' /\ WireStart' /\ WireStop'
  BY <1>0, <1>1 DEF OnWire, WireQuiet, WireStart, WireStop
<1>4. CASE i2c.state \in {"IDLE", "RESET"}
  BY <1>0, <1>2, <1>3, <1>4 DEF OnWire, WireRestart, WireSend, WireAck, WireReceive, WireReceived
<1>5. CASE i2c.state \notin {"IDLE", "RESET"}
  <2>1. SentByte' = SentByte /\ ams'.address = ams.address
    BY <1>0, <1>1, <1>5, SameSent
  <2>2. WireRestart'
    <3>1. SUFFICES ASSUME i2c.state = "RESTART" PROVE WireRestart'
      BY <1>0 DEF WireRestart
    <3>2. /\ device.act = "listen" /\ device.sda = 1 /\ pins.en /\ device.outcome = "none"
          /\ device.reg = ams.address.reg /\ i2c.word = "DEVICE" /\ pins.data = 1
      BY <3>1, <1>0 DEF OnWire, WireRestart
    <3>3. /\ device'.act = "listen" /\ device'.sda = 1 /\ device'.outcome = "none"
          /\ device'.reg = ams'.address.reg /\ i2c'.word = "DEVICE" /\ pins'.data = 1
      BY <1>0, <1>1, <2>1, <3>2
    <3>4. pins'.en BY <1>0, <3>2
    <3>5. QED BY <1>0, <3>3, <3>4, Zenon DEF WireRestart
  <2>3. WireSend'
    <3>1. SUFFICES ASSUME i2c.state = "DATA", i2c.word # "READ" PROVE WireSend'
      BY <1>0 DEF WireSend
    <3>2. Over \in 0 .. Bits - 1 /\ i2c.shift \in Byte /\ device.got \in Seq(Bit)
      BY <1>0, BusFacts DEF Over, I2cTypes, DeviceTypes
    <3>3. /\ pins.en /\ device.act = "listen" /\ device.sda = 1 /\ device.word = DeviceWord
          /\ device.outcome = "none" /\ Register
          /\ Len(device.got) = Over
          /\ \A i \in 1 .. Len(device.got) : device.got[i] = SentByte[i]
          /\ \A i \in 1 .. Bits - Over : i2c.shift[i] = SentByte[Over + i]
      <4>1. WireSend BY DEF OnWire
      <4>2. ~Sampled BY <1>0 DEF Sampled
      <4>3. (IF Sampled THEN 1 ELSE 0) = 0 BY <4>2
      <4>4. Over + 0 = Over BY <3>2
      <4>5. QED BY <3>1, <4>1, <4>3, <4>4, Zenon DEF WireSend
    <3>4. i2c.shift[1] = SentByte[Over + 1]
      BY <3>3, <3>2, BusFacts
    <3>5. pins.data = SentByte[Over + 1] /\ SentByte[Over + 1] \in {0, 1}
      <4>1. pins.data = i2c.shift[1]
        BY <1>0, <3>1, <3>2, HeadOfByte DEF Lines
      <4>2. pins.data \in {0, 1} BY <1>0 DEF PinTypes
      <4>3. QED BY <3>4, <4>1, <4>2
    <3>6. sda = SentByte[Over + 1]
      BY <3>3, <3>5 DEF sda
    <3>7. device'.got = Append(device.got, SentByte[Over + 1])
      BY <1>1, <3>3, <3>2, <3>6, BusFacts
    <3>8. SentByte \in Byte BY SentIsByte DEF Inv
    <3>9. /\ Len(device'.got) = Over + 1
          /\ \A i \in 1 .. Len(device'.got) : device'.got[i] = SentByte[i]
      BY <3>3, <3>2, <3>7, <3>8, HeardBit
    <3>10. Over' = Over /\ DeviceWord' = DeviceWord /\ Sampled' /\ (Register <=> Register')
      BY <1>0, <1>1, <2>1 DEF Over, DeviceWord, Sampled, Register
    <3>11. pins'.en /\ device'.act = "listen" /\ device'.sda = 1 /\ device'.word = DeviceWord'
           /\ device'.outcome = "none" /\ Register'
      BY <1>0, <1>1, <3>3, <3>10
    <3>12. Len(device'.got) = Over' + (IF Sampled' THEN 1 ELSE 0)
      BY <3>9, <3>10
    <3>13. /\ \A i \in 1 .. Len(device'.got) : device'.got[i] = SentByte'[i]
           /\ \A i \in 1 .. Bits - Over' : i2c'.shift[i] = SentByte'[Over' + i]
      BY <1>0, <2>1, <3>3, <3>9, <3>10
    <3>14. QED BY <3>11, <3>12, <3>13, Zenon DEF WireSend
  <2>4. WireAck'
    <3>1. SUFFICES ASSUME i2c.state = "ACK", i2c.word # "READ" PROVE WireAck'
      BY <1>0 DEF WireAck
    <3>2. pins.en /\ (Accepted \/ Refused)
      BY <3>1 DEF OnWire, WireAck
    <3>3. pins.data = 1 /\ device.sda \in {0, 1}
      BY <1>0, <3>1 DEF Lines, DeviceTypes, Bit
    <3>4. pins'.in = device'.sda
      BY <1>0, <1>1, <3>3 DEF sda
    <3>5. device' = device
      BY <1>0, <3>2 DEF Accepted, Refused, DeviceRise
    <3>6. Accepted' \/ Refused'
      BY <1>0, <2>1, <3>2, <3>5 DEF Accepted, Refused
    <3>7. pins'.en BY <1>0, <3>2
    <3>8. QED BY <3>4, <3>6, <3>7, Zenon DEF WireAck
  <2>5. WireReceive'
    <3>1. SUFFICES ASSUME i2c.state = "DATA", i2c.word = "READ" PROVE WireReceive'
      BY <1>0 DEF WireReceive
    <3>2. /\ pins.en /\ device.act = "send" /\ device.word = "send" /\ device.outcome = "done"
          /\ device.sda = SentByte[Over + 1] /\ Len(device.out) = i2c.bit_cnt
          /\ \A i \in 1 .. Len(device.out) : device.out[i] = SentByte[Over + 1 + i]
          /\ \A i \in 1 .. Over : i2c.shift[Bits - Over + i] = SentByte[i]
      BY <3>1 DEF OnWire, WireReceive
    <3>3. pins.data = 1 /\ device.sda \in {0, 1}
      BY <1>0, <3>1 DEF Lines, DeviceTypes, Bit
    <3>4. pins'.in = device'.sda
      BY <1>0, <1>1, <3>3 DEF sda
    <3>5. device' = device /\ Over' = Over
      BY <1>0, <3>2 DEF DeviceRise, Over
    <3>6. pins'.en BY <1>0, <3>2
    <3>7. QED BY <1>0, <2>1, <3>2, <3>4, <3>5, <3>6, Zenon DEF WireReceive
  <2>6. WireReceived'
    <3>1. SUFFICES ASSUME i2c.state = "ACK", i2c.word = "READ" PROVE WireReceived'
      BY <1>0 DEF WireReceived
    <3>2. /\ pins.en /\ device.act = "idle" /\ device.sda = 1 /\ device.outcome = "done"
          /\ i2c.shift = SentByte
      BY <3>1 DEF OnWire, WireReceived
    <3>3. pins'.en BY <1>0, <3>2
    <3>4. QED BY <1>0, <1>1, <2>1, <3>2, <3>3, Zenon DEF WireReceived
  <2>7. QED BY <1>2, <1>3, <2>2, <2>3, <2>4, <2>5, <2>6 DEF OnWire
<1>6. QED BY <1>4, <1>5

LEMMA FallFacts ==
  ASSUME Inv, OnWire, Clock, FallEdge
  PROVE  /\ PinTypes /\ I2cTypes /\ DeviceTypes /\ AmsTypes /\ Lines
         /\ moment = "fall" /\ moment' = "low" /\ pins' = pins /\ ~pins.hold /\ ~pins.wait
         /\ I2c /\ (pins.en => DeviceFall) /\ (~pins.en => device' = device)
         /\ Unstretched'
<1>1. PinTypes /\ I2cTypes /\ DeviceTypes /\ AmsTypes /\ Lines
  BY DEF Inv, Types, TypeInv, PinTypes, I2cTypes, AmsTypes
<1>2. moment = "fall" /\ moment' = "low" /\ pins' = [pins EXCEPT !.hold = FALSE]
      /\ I2c /\ (pins.en => DeviceFall) /\ (~pins.en => device' = device)
  BY DEF FallEdge
<1>3. ~pins.hold /\ ~pins.wait BY DEF OnWire, Unstretched
<1>4. pins' = pins BY <1>1, <1>2, <1>3 DEF PinTypes
<1>5. QED BY <1>1, <1>2, <1>3, <1>4 DEF Unstretched

LEMMA FallQuiet ==
  ASSUME Inv, OnWire, Clock, FallEdge, i2c.state \in {"RESET", "IDLE"}
  PROVE  OnWire' /\ device' = device
<1>1. /\ PinTypes /\ I2cTypes /\ DeviceTypes /\ Lines /\ moment' = "low" /\ pins' = pins
      /\ I2c /\ (~pins.en => device' = device) /\ Unstretched'
  BY FallFacts
<1>2. ~pins.en /\ device.act = "idle" /\ device.sda = 1 BY DEF OnWire, WireQuiet
<1>3. device' = device /\ pins'.data = 1 BY <1>1, <1>2 DEF Lines
<1>4. i2c'.state \in {"IDLE", "START"}
  BY I2cMoves, <1>1 DEF Inv
<1>5. QED
  BY <1>1, <1>2, <1>3, <1>4
  DEF OnWire, WireQuiet, WireStart, WireRestart, WireSend, WireAck, WireReceive, WireReceived,
      WireStop, Kinds

LEMMA FallStop ==
  ASSUME Inv, OnWire, Clock, FallEdge, i2c.state = "STOP"
  PROVE  OnWire' /\ device' = device /\ i2c'.state = "IDLE"
<1>1. /\ PinTypes /\ I2cTypes /\ DeviceTypes /\ Lines /\ moment = "fall" /\ pins' = pins
      /\ I2c /\ (~pins.en => device' = device) /\ Unstretched'
  BY FallFacts
<1>2. ~pins.en /\ device.act = "idle" /\ device.sda = 1 BY <1>1 DEF OnWire, WireStop
<1>3. device' = device BY <1>1, <1>2
<1>4. i2c'.state = "IDLE" BY I2cMoves, <1>1 DEF Inv
<1>5. QED
  BY <1>1, <1>2, <1>3, <1>4
  DEF OnWire, WireQuiet, WireStart, WireRestart, WireSend, WireAck, WireReceive, WireReceived,
      WireStop, Kinds

LEMMA EmptyNotByte == ASSUME NEW b \in Byte PROVE <<>> # b /\ Len(<<>>) # Bits /\ Len(<<>>) = 0
<1>1. Len(b) = Bits /\ Bits # 0 BY BusFacts, ByteSeq DEF Byte, Bit
<1>2. Len(<<>>) = 0 BY EmptySeq
<1>3. QED BY <1>1, <1>2

LEMMA FallStart ==
  ASSUME Inv, OnWire, Clock, FallEdge, i2c.state \in {"START", "RESTART"}
  PROVE  OnWire' /\ device' = device /\ i2c'.state = "DATA"
<1>1. /\ PinTypes /\ I2cTypes /\ DeviceTypes /\ AmsTypes /\ Lines /\ moment = "fall"
      /\ moment' = "low" /\ pins' = pins
      /\ I2c /\ (pins.en => DeviceFall) /\ Unstretched'
  BY FallFacts
<1>2. /\ Heard /\ device.outcome = "none" /\ pins.en /\ device.sda = 1
      /\ i2c.word = "DEVICE" /\ i2c.read_bit = IF i2c.state = "START" THEN 0 ELSE 1
      /\ i2c.state = "RESTART" => device.reg = ams.address.reg /\ i2c.read_op
  BY <1>1 DEF Inv, Transfers, OnWire, WireStart, WireRestart, Kinds
<1>3. device' = device
  BY <1>1, <1>2, EmptyNotByte, BusFacts DEF DeviceFall, Heard
<1>4. i2c' = [i2c EXCEPT !.state = "DATA", !.bit_cnt = Bits - 1, !.busy = TRUE,
               !.readdata = Zero, !.shift = Append(ams.address.dev, i2c.read_bit)]
  BY <1>1 DEF I2c, I2cIdle, I2cStart, I2cData, I2cAck, I2cStop, I2cReset
<1>5. /\ i2c'.state = "DATA" /\ i2c'.bit_cnt = Bits - 1 /\ i2c'.word = "DEVICE"
      /\ i2c'.read_bit = i2c.read_bit
      /\ i2c'.shift = Append(ams.address.dev, i2c.read_bit)
  BY <1>1, <1>2, <1>4 DEF I2cTypes
<1>6. i2c'.read_op = i2c.read_op BY <1>1, <1>4, Zenon DEF I2cTypes
<1>7. ams'.address = ams.address BY AmsKeeps
<1>8. SentByte' = i2c'.shift BY <1>5, <1>7 DEF SentByte
<1>9. Over' = 0 BY <1>5, BusFacts DEF Over
<1>10. WireSend'
  <2>1. pins'.en /\ device'.act = "listen" /\ device'.sda = 1 /\ device'.outcome = "none"
    BY <1>1, <1>2, <1>3 DEF Heard
  <2>2. device'.word = DeviceWord' BY <1>2, <1>3, <1>5 DEF Heard, DeviceWord
  <2>3. Register' BY <1>2, <1>3, <1>5, <1>7 DEF Register
  <2>4. Len(device'.got) = 0 BY <1>2, <1>3, EmptySeq DEF Heard
  <2>5. Len(device'.got) = Over' + (IF Sampled' THEN 1 ELSE 0)
    BY <1>1, <1>9, <2>4 DEF Sampled
  <2>6. \A i \in 1 .. Len(device'.got) : device'.got[i] = SentByte'[i] BY <2>4
  <2>7. \A i \in 1 .. Bits - Over' : i2c'.shift[i] = SentByte'[Over' + i]
    BY <1>8, <1>9, BusFacts
  <2>8. QED BY <2>1, <2>2, <2>3, <2>5, <2>6, <2>7, Zenon DEF WireSend
<1>11. Kinds' BY <1>2, <1>5, <1>6 DEF Kinds
<1>12. QED
  BY <1>1, <1>3, <1>5, <1>10, <1>11
  DEF OnWire, WireQuiet, WireStart, WireRestart, WireAck, WireReceive, WireReceived, WireStop

\* The bits but the last of a byte on its way to the device, and from it.
LEMMA FallBit ==
  ASSUME Inv, OnWire, Clock, FallEdge, i2c.state = "DATA", i2c.word # "READ", i2c.bit_cnt # 0
  PROVE  OnWire' /\ device' = device /\ i2c'.state = "DATA"
<1>1. /\ PinTypes /\ I2cTypes /\ DeviceTypes /\ AmsTypes /\ moment = "fall" /\ ~pins.wait
      /\ moment' = "low" /\ pins' = pins
      /\ I2c /\ (pins.en => DeviceFall) /\ Unstretched'
  BY FallFacts
<1>2. Over \in 0 .. Bits - 2 /\ i2c.bit_cnt > 0 /\ i2c.bit_cnt - 1 \in 0 .. Bits - 1
  BY <1>1, BusFacts DEF Over, I2cTypes
<1>3. /\ pins.en /\ device.act = "listen" /\ device.sda = 1 /\ device.word = DeviceWord
      /\ device.outcome = "none" /\ Register
      /\ Len(device.got) = Over + 1
      /\ \A i \in 1 .. Len(device.got) : device.got[i] = SentByte[i]
      /\ \A i \in 1 .. Bits - Over : i2c.shift[i] = SentByte[Over + i]
  <2>1. WireSend BY DEF OnWire
  <2>2. Sampled BY <1>1 DEF Sampled
  <2>3. (IF Sampled THEN 1 ELSE 0) = 1 BY <2>2
  <2>4. QED BY <2>1, <2>3, Zenon DEF WireSend
<1>4. device' = device
  <2>1. Len(device.got) # Bits BY <1>2, <1>3, BusFacts
  <2>2. device.word # "send" BY <1>3 DEF DeviceWord
  <2>3. QED BY <1>1, <1>3, <2>1, <2>2 DEF DeviceFall
<1>5. i2c' = [i2c EXCEPT !.shift = Shifted(i2c.shift, pins.in), !.readdata = Zero, !.busy = TRUE,
                         !.bit_cnt = i2c.bit_cnt - 1, !.state = "DATA"]
  <2>1. I2cData BY <1>1 DEF I2c, I2cIdle, I2cStart, I2cData, I2cAck, I2cStop, I2cReset
  <2>2. QED BY <1>1, <1>2, <2>1 DEF I2cData
<1>6. /\ i2c'.state = "DATA" /\ i2c'.bit_cnt = i2c.bit_cnt - 1 /\ i2c'.word = i2c.word
      /\ i2c'.read_bit = i2c.read_bit /\ i2c'.shift = Shifted(i2c.shift, pins.in)
  BY <1>1, <1>5 DEF I2cTypes
<1>7. i2c'.read_op = i2c.read_op BY <1>1, <1>5, Zenon DEF I2cTypes
<1>8. ams'.address = ams.address /\ ams'.writedata = ams.writedata BY AmsKeeps
<1>9. SentByte' = SentByte BY <1>4, <1>6, <1>8 DEF SentByte
<1>10. Over' = Over + 1 BY <1>1, <1>2, <1>6, BusFacts DEF Over, I2cTypes
<1>11. SentByte \in Byte /\ i2c.shift \in Byte /\ pins.in \in Bit
  BY <1>1, SentIsByte DEF Inv, I2cTypes, PinTypes, Bit
<1>12. \A i \in 1 .. Bits - (Over + 1) : Shifted(i2c.shift, pins.in)[i] = SentByte[Over + 1 + i]
  <2>1. /\ SentByte \in Byte /\ i2c.shift \in Byte /\ pins.in \in Bit /\ Over \in 0 .. Bits - 2
        /\ \A i \in 1 .. Bits - Over : i2c.shift[i] = SentByte[Over + i]
    BY ONLY <1>2, <1>3, <1>11
  <2>2. QED BY ONLY <2>1, SentBit
<1>13. WireSend'
  <2>1. pins'.en /\ device'.act = "listen" /\ device'.sda = 1 /\ device'.outcome = "none"
    BY <1>1, <1>3, <1>4
  <2>2. device'.word = DeviceWord' BY <1>3, <1>4, <1>6 DEF DeviceWord
  <2>3. Register' BY <1>3, <1>4, <1>6, <1>8 DEF Register
  <2>4. ~Sampled' BY <1>1 DEF Sampled
  <2>5. Len(device'.got) = Over' + (IF Sampled' THEN 1 ELSE 0)
    BY <1>2, <1>3, <1>4, <1>10, <2>4
  <2>6. \A i \in 1 .. Len(device'.got) : device'.got[i] = SentByte'[i] BY <1>3, <1>4, <1>9
  <2>7. \A i \in 1 .. Bits - Over' : i2c'.shift[i] = SentByte'[Over' + i]
    BY <1>6, <1>9, <1>10, <1>12
  <2>8. QED BY <2>1, <2>2, <2>3, <2>5, <2>6, <2>7, Zenon DEF WireSend
<1>14. Kinds' BY <1>6, <1>7 DEF OnWire, Kinds
<1>15. QED
  BY <1>1, <1>4, <1>6, <1>13, <1>14
  DEF OnWire, WireQuiet, WireStart, WireRestart, WireAck, WireReceive, WireReceived, WireStop

LEMMA FallBitBack ==
  ASSUME Inv, OnWire, Clock, FallEdge, i2c.state = "DATA", i2c.word = "READ"
  PROVE  /\ OnWire' /\ device'.outcome = device.outcome /\ device'.mem = device.mem
         /\ i2c'.state \in {"DATA", "ACK"} /\ device'.refused = device.refused
<1>1. /\ PinTypes /\ I2cTypes /\ DeviceTypes /\ AmsTypes /\ moment = "fall" /\ ~pins.wait
      /\ moment' = "low" /\ pins' = pins
      /\ I2c /\ (pins.en => DeviceFall) /\ Unstretched'
  BY FallFacts
<1>2. Over \in 0 .. Bits - 1 /\ i2c.bit_cnt \in 0 .. Bits - 1
  BY <1>1, BusFacts DEF Over, I2cTypes
<1>3. /\ pins.en /\ device.act = "send" /\ device.word = "send" /\ device.outcome = "done"
      /\ device.sda = SentByte[Over + 1] /\ Len(device.out) = i2c.bit_cnt
      /\ \A i \in 1 .. Len(device.out) : device.out[i] = SentByte[Over + 1 + i]
      /\ \A i \in 1 .. Over : i2c.shift[Bits - Over + i] = SentByte[i]
      /\ pins.in = device.sda
  BY <1>1 DEF OnWire, WireReceive, Sampled
<1>4. device' = IF device.out = <<>> THEN [device EXCEPT !.act = "idle", !.sda = 1]
                ELSE [device EXCEPT !.act = "send", !.sda = Head(device.out),
                                    !.out = Tail(device.out)]
  BY <1>1, <1>3 DEF DeviceFall
<1>5. I2cData BY <1>1 DEF I2c, I2cIdle, I2cStart, I2cData, I2cAck, I2cStop, I2cReset
<1>6. SentByte \in Byte /\ i2c.shift \in Byte /\ pins.in \in Bit /\ device.out \in Seq(Bit)
  BY <1>1, SentIsByte DEF Inv, I2cTypes, PinTypes, DeviceTypes, Bit
<1>7. \A i \in 1 .. Over + 1 : Shifted(i2c.shift, pins.in)[Bits - (Over + 1) + i] = SentByte[i]
  BY <1>2, <1>3, <1>6, ReceivedBit
<1>8. ams'.address = ams.address BY AmsKeeps
<1>9. CASE i2c.bit_cnt = 0
  <2>1. device.out = <<>> BY <1>3, <1>6, <1>9, EmptySeq
  <2>2. /\ device'.act = "idle" /\ device'.sda = 1 /\ device'.outcome = "done"
        /\ device'.mem = device.mem /\ device'.refused = device.refused
    BY <1>1, <1>3, <1>4, <2>1 DEF DeviceTypes
  <2>3. i2c' = [i2c EXCEPT !.shift = Shifted(i2c.shift, pins.in), !.readdata = Zero,
                           !.busy = TRUE, !.bit_cnt = 0, !.state = "ACK"]
    BY <1>1, <1>5, <1>9 DEF I2cData
  <2>4. i2c'.state = "ACK" /\ i2c'.word = "READ" /\ i2c'.shift = Shifted(i2c.shift, pins.in)
    BY <1>1, <2>3 DEF I2cTypes
  <2>5. i2c'.read_op = i2c.read_op BY <1>1, <2>3, Zenon DEF I2cTypes
  <2>6. SentByte' = SentByte BY <1>8, <2>2, <2>4 DEF SentByte
  <2>7. Over + 1 = Bits BY <1>1, <1>9, BusFacts DEF Over
  <2>8. \A i \in 1 .. Bits : Shifted(i2c.shift, pins.in)[i] = SentByte[i]
    BY <1>7, <2>7, BusFacts
  <2>9. i2c'.shift = SentByte
    BY <1>6, <2>4, <2>8, ShiftedIsByte, SameByte
  <2>10. WireReceived' BY <1>1, <1>3, <2>2, <2>6, <2>9 DEF WireReceived
  <2>11. Kinds' BY <2>4, <2>5 DEF OnWire, Kinds
  <2>12. QED
    BY <1>1, <1>3, <2>2, <2>4, <2>10, <2>11
    DEF OnWire, WireQuiet, WireStart, WireRestart, WireSend, WireAck, WireReceive, WireStop
<1>10. CASE i2c.bit_cnt # 0
  <2>0. i2c.bit_cnt > 0 /\ i2c.bit_cnt - 1 \in 0 .. Bits - 1 BY <1>2, <1>10, BusFacts
  <2>1. device.out # <<>> BY <1>3, <1>6, <1>10, EmptySeq
  <2>2. /\ device'.act = "send" /\ device'.sda = Head(device.out) /\ device'.outcome = "done"
        /\ device'.word = "send" /\ device'.out = Tail(device.out)
        /\ device'.mem = device.mem /\ device'.refused = device.refused
    BY <1>1, <1>3, <1>4, <2>1 DEF DeviceTypes
  <2>3. i2c' = [i2c EXCEPT !.shift = Shifted(i2c.shift, pins.in), !.readdata = Zero,
                           !.busy = TRUE, !.bit_cnt = i2c.bit_cnt - 1, !.state = "DATA"]
    BY <1>1, <1>5, <1>10, <2>0 DEF I2cData
  <2>4. /\ i2c'.state = "DATA" /\ i2c'.word = "READ" /\ i2c'.bit_cnt = i2c.bit_cnt - 1
        /\ i2c'.shift = Shifted(i2c.shift, pins.in)
    BY <1>1, <2>3 DEF I2cTypes
  <2>5. i2c'.read_op = i2c.read_op BY <1>1, <2>3, Zenon DEF I2cTypes
  <2>6. SentByte' = SentByte BY <1>8, <2>2, <2>4 DEF SentByte
  <2>7. Over' = Over + 1 BY <1>2, <2>0, <2>4, BusFacts DEF Over
  <2>8. /\ Len(Tail(device.out)) = i2c.bit_cnt - 1 /\ Head(device.out) = device.out[1]
        /\ \A i \in 1 .. i2c.bit_cnt - 1 : Tail(device.out)[i] = device.out[i + 1]
    BY <1>3, <1>6, <2>1, HeadTailProperties
  <2>9. device'.sda = SentByte'[Over' + 1]
    BY <1>2, <1>3, <2>0, <2>2, <2>6, <2>7, <2>8, BusFacts
  <2>10. \A i \in 1 .. Len(device'.out) : device'.out[i] = SentByte'[Over' + 1 + i]
    <3>1. SUFFICES ASSUME NEW i \in 1 .. i2c.bit_cnt - 1
                   PROVE  Tail(device.out)[i] = SentByte[(Over + 1) + 1 + i]
      BY <2>2, <2>6, <2>7, <2>8
    <3>2. i + 1 \in 1 .. Len(device.out) /\ Over + 1 + (i + 1) = (Over + 1) + 1 + i
      BY <1>2, <1>3, <2>0
    <3>3. device.out[i + 1] = SentByte[Over + 1 + (i + 1)] BY <1>3, <3>2
    <3>4. QED BY <2>8, <3>2, <3>3
  <2>11. \A i \in 1 .. Over' : i2c'.shift[Bits - Over' + i] = SentByte'[i]
    BY <1>7, <2>4, <2>6, <2>7
  <2>12. ~Sampled' BY <1>1 DEF Sampled
  <2>13. Len(device'.out) = i2c'.bit_cnt BY <2>2, <2>4, <2>8
  <2>14. pins'.en BY <1>1, <1>3
  <2>15. WireReceive'
    BY <2>2, <2>9, <2>10, <2>11, <2>12, <2>13, <2>14, Zenon DEF WireReceive
  <2>16. Kinds' BY <2>4, <2>5 DEF OnWire, Kinds
  <2>17. QED
    BY <1>1, <1>3, <2>2, <2>4, <2>15, <2>16
    DEF OnWire, WireQuiet, WireStart, WireRestart, WireSend, WireAck, WireReceived, WireStop
<1>11. QED BY <1>9, <1>10

\* What the device is to make of a whole byte.
LEMMA FallByte ==
  ASSUME Inv, OnWire, Clock, FallEdge, i2c.state = "DATA", i2c.word # "READ", i2c.bit_cnt = 0
  PROVE  /\ device.outcome = "none" /\ device.word = DeviceWord /\ Register
         /\ device' \in TakeByte(SentByte)
         /\ i2c'.state = "ACK" /\ i2c'.word = i2c.word /\ i2c'.read_bit = i2c.read_bit
         /\ (i2c'.read_op <=> i2c.read_op) /\ i2c'.readdata = Zero
         /\ pins.en
<1>1. /\ PinTypes /\ I2cTypes /\ DeviceTypes /\ AmsTypes /\ moment = "fall" /\ ~pins.wait
      /\ I2c /\ (pins.en => DeviceFall)
  BY FallFacts
<1>2. Over = Bits - 1 BY BusFacts DEF Over
<1>3. /\ pins.en /\ device.act = "listen" /\ device.word = DeviceWord
      /\ device.outcome = "none" /\ Register
      /\ Len(device.got) = Over + 1
      /\ \A i \in 1 .. Len(device.got) : device.got[i] = SentByte[i]
  <2>1. WireSend BY DEF OnWire
  <2>2. Sampled BY <1>1 DEF Sampled
  <2>3. (IF Sampled THEN 1 ELSE 0) = 1 BY <2>2
  <2>4. QED BY <2>1, <2>3, Zenon DEF WireSend
<1>4. Len(device.got) = Bits BY <1>2, <1>3, BusFacts
<1>5. device.got = SentByte
  BY <1>1, <1>3, <1>4, HeardByte, SentIsByte DEF Inv, DeviceTypes
<1>6. device' \in TakeByte(SentByte) BY <1>1, <1>3, <1>4, <1>5 DEF DeviceFall
<1>7. i2c' = [i2c EXCEPT !.shift = Shifted(i2c.shift, pins.in), !.readdata = Zero,
                         !.busy = TRUE, !.bit_cnt = 0, !.state = "ACK"]
  <2>1. I2cData BY <1>1 DEF I2c, I2cIdle, I2cStart, I2cData, I2cAck, I2cStop, I2cReset
  <2>2. QED BY <1>1, <2>1 DEF I2cData
<1>8. /\ i2c'.state = "ACK" /\ i2c'.word = i2c.word /\ i2c'.read_bit = i2c.read_bit
      /\ i2c'.readdata = Zero
  BY <1>1, <1>7 DEF I2cTypes
<1>9. i2c'.read_op = i2c.read_op BY <1>1, <1>7, Zenon DEF I2cTypes
<1>10. QED BY <1>3, <1>6, <1>8, <1>9


LEMMA Taking ==
  ASSUME DeviceTypes, NEW byte \in Byte, device' \in TakeByte(byte), device.outcome = "none"
  PROVE  \/ /\ device'.act = "idle" /\ device'.sda = 1 /\ device'.outcome = "refused"
            /\ device'.mem = device.mem
            /\ device'.refused \/ (device.word = "device" /\ SubSeq(byte, 1, Bits - 1) # Own)
         \/ /\ ~(device.word = "device" /\ SubSeq(byte, 1, Bits - 1) # Own)
            /\ device'.act = "ack" /\ device'.sda = 0 /\ device'.got = <<>>
            /\ device'.refused = device.refused
            /\ \/ /\ device.word = "device" /\ byte[Bits] = 0 /\ device'.word = "register"
                  /\ device'.outcome = "none" /\ device'.mem = device.mem
               \/ /\ device.word = "device" /\ byte[Bits] = 1 /\ device'.word = "send"
                  /\ device'.outcome = "done" /\ device'.out = device.mem[device.reg]
                  /\ device'.mem = device.mem
               \/ /\ device.word = "register" /\ device'.word = "data" /\ device'.reg = byte
                  /\ device'.outcome = "none" /\ device'.mem = device.mem
               \/ /\ device.word \in {"data", "send"} /\ device'.outcome = "done"
                  /\ device'.word = device.word
                  /\ device'.mem = [device.mem EXCEPT ![device.reg] = byte]
<1>1. Refusal = [device EXCEPT !.act = "idle", !.sda = 1, !.outcome = "refused"]
  BY DEF Refusal
<1>2. CASE device' = Refusal /\ device.word = "device" /\ SubSeq(byte, 1, Bits - 1) # Own
  BY <1>1, <1>2 DEF DeviceTypes
<1>3. CASE device' = [Refusal EXCEPT !.refused = TRUE]
  BY <1>1, <1>3 DEF DeviceTypes
<1>4. CASE /\ device' = Acceptance(byte)
           /\ ~(device.word = "device" /\ SubSeq(byte, 1, Bits - 1) # Own)
  <2>1. byte[Bits] \in {0, 1} BY BusFacts DEF Byte
  <2>2. CASE device.word = "device" /\ byte[Bits] = 0
    <3>1. device' = [device EXCEPT !.act = "ack", !.sda = 0, !.got = <<>>, !.word = "register"]
      BY <1>4, <2>2 DEF Acceptance
    <3>2. /\ device'.act = "ack" /\ device'.sda = 0 /\ device'.got = <<>>
          /\ device'.refused = device.refused /\ device'.word = "register"
          /\ device'.outcome = "none" /\ device'.mem = device.mem
      BY ONLY <3>1, DeviceTypes, device.outcome = "none", Zenon DEF DeviceTypes
    <3>3. QED BY <1>4, <2>2, <3>2
  <2>3. CASE device.word = "device" /\ byte[Bits] = 1
    <3>1. device' = [device EXCEPT !.act = "ack", !.sda = 0, !.got = <<>>, !.word = "send",
                                   !.outcome = "done", !.out = device.mem[device.reg]]
      BY <1>4, <2>3 DEF Acceptance
    <3>2. /\ device'.act = "ack" /\ device'.sda = 0 /\ device'.got = <<>>
          /\ device'.refused = device.refused /\ device'.word = "send"
          /\ device'.out = device.mem[device.reg]
          /\ device'.outcome = "done" /\ device'.mem = device.mem
      BY ONLY <3>1, DeviceTypes, Zenon DEF DeviceTypes
    <3>3. QED BY <1>4, <2>3, <3>2
  <2>4. CASE device.word = "register"
    BY <1>4, <2>4 DEF Acceptance, DeviceTypes
  <2>5. CASE device.word \in {"data", "send"}
    BY <1>4, <2>5 DEF Acceptance, DeviceTypes
  <2>6. QED BY <2>1, <2>2, <2>3, <2>4, <2>5 DEF DeviceTypes
<1>5. QED BY <1>2, <1>3, <1>4 DEF TakeByte

LEMMA TakenByte ==
  ASSUME Inv, OnWire, Clock, FallEdge, i2c.state = "DATA", i2c.word # "READ", i2c.bit_cnt = 0
  PROVE  /\ OnWire' /\ device.outcome = "none"
         /\ i2c'.state = "ACK" /\ i2c'.readdata = Zero
         /\ \/ /\ device'.outcome = "refused" /\ device'.mem = device.mem
               /\ device'.refused \/ ams.address.dev # Own
            \/ device'.outcome = "none" /\ device'.mem = device.mem /\ device'.refused = device.refused
            \/ /\ i2c.word = "WRITE" /\ device'.outcome = "done" /\ ams.address.dev = Own
               /\ device'.mem = [device.mem EXCEPT ![ams.address.reg] = ams.writedata]
               /\ device'.refused = device.refused
            \/ /\ i2c.word = "DEVICE" /\ i2c.read_bit = 1 /\ device'.outcome = "done"
               /\ ams.address.dev = Own
               /\ device'.mem = device.mem /\ device'.refused = device.refused
<1>1. /\ PinTypes /\ I2cTypes /\ DeviceTypes /\ AmsTypes /\ moment' = "low" /\ pins' = pins
      /\ Unstretched'
  BY FallFacts
<1>2. /\ device.outcome = "none" /\ device.word = DeviceWord /\ Register
      /\ device' \in TakeByte(SentByte)
      /\ i2c'.state = "ACK" /\ i2c'.word = i2c.word /\ i2c'.read_bit = i2c.read_bit
      /\ (i2c'.read_op <=> i2c.read_op) /\ i2c'.readdata = Zero
      /\ pins.en
  BY FallByte
<1>3. i2c.word \in {"DEVICE", "ADDRESS", "WRITE"} BY DEF OnWire, Kinds
<1>4. SentByte \in Byte BY SentIsByte DEF Inv
<1>5. ams'.address = ams.address BY AmsKeeps
<1>6. i2c.word = "DEVICE" =>
        SubSeq(SentByte, 1, Bits - 1) = ams.address.dev /\ SentByte[Bits] = i2c.read_bit
  <2>1. ams.address.dev \in [1 .. Bits - 1 -> Bit] /\ i2c.read_bit \in Bit
    BY <1>1 DEF AmsTypes, I2cTypes, Bit
  <2>2. i2c.word = "DEVICE" => SentByte = Append(ams.address.dev, i2c.read_bit)
    BY DEF SentByte
  <2>3. /\ SubSeq(Append(ams.address.dev, i2c.read_bit), 1, Bits - 1) = ams.address.dev
        /\ Append(ams.address.dev, i2c.read_bit)[Bits] = i2c.read_bit
    BY ONLY <2>1, AddressBits, Zenon
  <2>4. QED BY <2>2, <2>3, Zenon
<1>7. (Accepted \/ Refused)' => OnWire'
  <2>1. ~Sampled' BY <1>1 DEF Sampled
  <2>2. pins'.en BY <1>1, <1>2
  <2>3. (Accepted \/ Refused)' => WireAck' BY <2>1, <2>2, Zenon DEF WireAck
  <2>4. Kinds' BY <1>2 DEF OnWire, Kinds
  <2>5. QED
    BY <1>1, <1>2, <2>3, <2>4
    DEF OnWire, WireQuiet, WireStart, WireRestart, WireSend, WireReceive, WireReceived, WireStop
<1>8. CASE /\ device'.act = "idle" /\ device'.sda = 1 /\ device'.outcome = "refused"
           /\ device'.mem = device.mem
           /\ device'.refused \/ (device.word = "device" /\ SubSeq(SentByte, 1, Bits - 1) # Own)
  <2>1. device.word = "device" => i2c.word = "DEVICE" BY <1>2, <1>3 DEF DeviceWord
  <2>2. Refused' BY <1>8 DEF Refused
  <2>3. QED BY <1>2, <1>6, <1>7, <1>8, <2>1, <2>2
<1>9. CASE /\ ~(device.word = "device" /\ SubSeq(SentByte, 1, Bits - 1) # Own)
           /\ device'.act = "ack" /\ device'.sda = 0 /\ device'.got = <<>>
           /\ device'.refused = device.refused
           /\ device.word = "device" /\ SentByte[Bits] = 0 /\ device'.word = "register"
           /\ device'.outcome = "none" /\ device'.mem = device.mem
  <2>1. i2c.word = "DEVICE" /\ i2c.read_bit = 0 BY <1>2, <1>3, <1>6, <1>9 DEF DeviceWord
  <2>2. ams.address.dev = Own BY <1>6, <1>9, <2>1
  <2>3. Accepted' BY <1>2, <1>5, <1>9, <2>1, <2>2 DEF Accepted
  <2>4. QED BY <1>2, <1>7, <1>9, <2>3
<1>10. CASE /\ ~(device.word = "device" /\ SubSeq(SentByte, 1, Bits - 1) # Own)
            /\ device'.act = "ack" /\ device'.sda = 0 /\ device'.got = <<>>
            /\ device'.refused = device.refused
            /\ device.word = "device" /\ SentByte[Bits] = 1 /\ device'.word = "send"
            /\ device'.outcome = "done" /\ device'.out = device.mem[device.reg]
            /\ device'.mem = device.mem
  <2>1. i2c.word = "DEVICE" /\ i2c.read_bit = 1 BY <1>2, <1>3, <1>6, <1>10 DEF DeviceWord
  <2>2. device.reg = ams.address.reg BY <1>2, <2>1 DEF Register
  <2>3. ams.address.dev = Own BY <1>6, <1>10, <2>1
  <2>4. Accepted' BY <1>2, <1>5, <1>10, <2>1, <2>2, <2>3 DEF Accepted
  <2>5. QED BY <1>2, <1>7, <1>10, <2>1, <2>3, <2>4
<1>11. CASE /\ device'.act = "ack" /\ device'.sda = 0 /\ device'.got = <<>>
            /\ device'.refused = device.refused
            /\ device.word = "register" /\ device'.word = "data" /\ device'.reg = SentByte
            /\ device'.outcome = "none" /\ device'.mem = device.mem
  <2>1. i2c.word = "ADDRESS" BY <1>2, <1>3, <1>11 DEF DeviceWord
  <2>2. SentByte = ams.address.reg /\ ams.address.dev = Own
    BY <1>2, <2>1 DEF SentByte, Register
  <2>3. Accepted' BY <1>2, <1>5, <1>11, <2>1, <2>2 DEF Accepted
  <2>4. QED BY <1>2, <1>7, <1>11, <2>3
<1>12. CASE /\ device'.act = "ack" /\ device'.sda = 0 /\ device'.got = <<>>
            /\ device'.refused = device.refused
            /\ device.word \in {"data", "send"} /\ device'.outcome = "done"
            /\ device'.word = device.word
            /\ device'.mem = [device.mem EXCEPT ![device.reg] = SentByte]
  <2>1. i2c.word = "WRITE" /\ device.word = "data" BY <1>2, <1>3, <1>12 DEF DeviceWord
  <2>2. SentByte = ams.writedata /\ device.reg = ams.address.reg /\ ams.address.dev = Own
    BY <1>2, <2>1 DEF SentByte, Register
  <2>3. Accepted' BY <1>2, <1>5, <1>12, <2>1, <2>2 DEF Accepted
  <2>4. QED BY <1>2, <1>7, <1>12, <2>1, <2>2, <2>3
<1>13. QED BY <1>1, <1>2, <1>4, <1>8, <1>9, <1>10, <1>11, <1>12, Taking

\* After a refused byte, and after the byte written, comes the stop.
LEMMA AckToStop ==
  ASSUME Inv, OnWire, Clock, FallEdge, i2c.state = "ACK", i2c.word # "READ",
         Refused \/ i2c.word = "WRITE"
  PROVE  /\ OnWire' /\ device'.outcome = device.outcome /\ device'.mem = device.mem
         /\ device'.refused = device.refused
         /\ i2c'.state = "STOP" /\ i2c'.readdata = Zero /\ device.outcome # "none"
<1>1. /\ PinTypes /\ I2cTypes /\ DeviceTypes /\ moment = "fall" /\ moment' = "low" /\ pins' = pins
      /\ I2c /\ (pins.en => DeviceFall) /\ Unstretched'
  BY FallFacts
<1>2. pins.en /\ (Accepted \/ Refused) /\ pins.in = device.sda
  BY <1>1 DEF OnWire, WireAck, Sampled
<1>3. I2cAck BY <1>1 DEF I2c, I2cIdle, I2cStart, I2cData, I2cAck, I2cStop, I2cReset
<1>4. i2c.word \in {"DEVICE", "ADDRESS", "WRITE"} BY DEF OnWire, Kinds
<1>5. i2c'.state = "STOP" /\ i2c'.readdata = Zero
  <2>1. CASE i2c.word = "WRITE" BY <1>1, <1>3, <2>1 DEF I2cAck, Stop, I2cTypes
  <2>2. CASE i2c.word # "WRITE"
    <3>1. pins.in = 1 BY <1>2, <2>2 DEF Refused
    <3>2. CASE i2c.word = "DEVICE"
      <4>1. i2c' = Stop(TRUE, FALSE, Zero) BY <1>3, <3>1, <3>2 DEF I2cAck
      <4>2. QED BY <1>1, <4>1, Zenon DEF Stop, I2cTypes
    <3>3. CASE i2c.word = "ADDRESS"
      <4>1. i2c' = Stop(FALSE, TRUE, Zero) BY <1>3, <3>1, <3>3 DEF I2cAck
      <4>2. QED BY <1>1, <4>1, Zenon DEF Stop, I2cTypes
    <3>4. QED BY <1>4, <2>2, <3>2, <3>3
  <2>3. QED BY <2>1, <2>2
<1>6. /\ device'.sda = 1 /\ device'.outcome = device.outcome /\ device.outcome # "none"
      /\ device'.mem = device.mem /\ device'.refused = device.refused
  <2>1. CASE Refused
    <3>1. device.act = "idle" /\ device.sda = 1 /\ device.outcome = "refused" BY <2>1 DEF Refused
    <3>2. device' = device BY <1>1, <1>2, <3>1 DEF DeviceFall
    <3>3. QED BY <3>1, <3>2
  <2>2. CASE Accepted /\ i2c.word = "WRITE"
    <3>1. device.act = "ack" /\ device.word = "data" /\ device.outcome = "done"
      BY <2>2 DEF Accepted
    <3>2. device' = [device EXCEPT !.act = "listen", !.sda = 1]
      BY <1>1, <1>2, <3>1 DEF DeviceFall
    <3>3. QED BY <1>1, <3>1, <3>2 DEF DeviceTypes
  <2>3. QED BY <1>2, <2>1, <2>2
<1>7. WireStop' BY <1>1, <1>5, <1>6 DEF WireStop
<1>8. QED
  BY <1>1, <1>5, <1>6, <1>7
  DEF OnWire, WireQuiet, WireStart, WireRestart, WireSend, WireAck, WireReceive, WireReceived, Kinds

\* The acknowledged address, and the acknowledged register of a write: the
\* next byte is sent.
LEMMA AckToSend ==
  ASSUME Inv, OnWire, Clock, FallEdge, i2c.state = "ACK", Accepted,
         \/ i2c.word = "DEVICE" /\ i2c.read_bit = 0
         \/ i2c.word = "ADDRESS" /\ ~i2c.read_op
  PROVE  /\ OnWire' /\ device'.outcome = device.outcome /\ device'.mem = device.mem
         /\ device'.refused = device.refused /\ i2c'.state = "DATA"
<1>1. /\ PinTypes /\ I2cTypes /\ DeviceTypes /\ AmsTypes /\ moment = "fall" /\ moment' = "low"
      /\ pins' = pins
      /\ I2c /\ (pins.en => DeviceFall) /\ Unstretched'
  BY FallFacts
<1>2. pins.en /\ pins.in = 0
  BY <1>1 DEF OnWire, WireAck, Sampled, Accepted
<1>3. I2cAck BY <1>1 DEF I2c, I2cIdle, I2cStart, I2cData, I2cAck, I2cStop, I2cReset
<1>4. /\ device.act = "ack" /\ device.got = <<>> /\ device.outcome = "none"
      /\ device.word = IF i2c.word = "DEVICE" THEN "register" ELSE "data"
      /\ ams.address.dev = Own
      /\ i2c.word = "ADDRESS" => device.reg = ams.address.reg
  BY DEF Accepted
<1>5. device' = [device EXCEPT !.act = "listen", !.sda = 1]
  BY <1>1, <1>2, <1>4 DEF DeviceFall
<1>6. /\ device'.act = "listen" /\ device'.sda = 1 /\ device'.got = <<>>
      /\ device'.word = device.word /\ device'.outcome = "none" /\ device'.reg = device.reg
      /\ device'.mem = device.mem /\ device'.refused = device.refused
  BY <1>1, <1>4, <1>5 DEF DeviceTypes
<1>7. ams'.address = ams.address /\ ams'.writedata = ams.writedata BY AmsKeeps
<1>8. /\ i2c'.state = "DATA" /\ i2c'.bit_cnt = Bits - 1 /\ i2c'.shift = SentByte'
      /\ i2c'.word = IF i2c.word = "DEVICE" THEN "ADDRESS" ELSE "WRITE"
      /\ (i2c'.read_op <=> i2c.read_op)
  <2>1. CASE i2c.word = "DEVICE" /\ i2c.read_bit = 0
    <3>1. i2c' = [i2c EXCEPT !.state = "DATA", !.word = "ADDRESS", !.bit_cnt = Bits - 1,
                             !.shift = ams.address.reg, !.readdata = Zero, !.busy = TRUE,
                             !.dev_error = FALSE, !.reg_error = FALSE]
      BY <1>2, <1>3, <2>1 DEF I2cAck, Send
    <3>2. /\ i2c'.state = "DATA" /\ i2c'.bit_cnt = Bits - 1 /\ i2c'.shift = ams.address.reg
          /\ i2c'.word = "ADDRESS" /\ i2c'.read_op = i2c.read_op
      BY <1>1, <3>1, Zenon DEF I2cTypes
    <3>3. SentByte' = ams.address.reg BY <1>7, <3>2 DEF SentByte
    <3>4. QED BY <2>1, <3>2, <3>3
  <2>2. CASE i2c.word = "ADDRESS" /\ ~i2c.read_op
    <3>1. i2c' = [i2c EXCEPT !.state = "DATA", !.word = "WRITE", !.bit_cnt = Bits - 1,
                             !.shift = ams.writedata, !.readdata = Zero, !.busy = TRUE,
                             !.read_bit = 0]
      BY <1>2, <1>3, <2>2 DEF I2cAck, Send
    <3>2. /\ i2c'.state = "DATA" /\ i2c'.bit_cnt = Bits - 1 /\ i2c'.shift = ams.writedata
          /\ i2c'.word = "WRITE" /\ i2c'.read_op = i2c.read_op
      BY <1>1, <3>1, Zenon DEF I2cTypes
    <3>3. SentByte' = ams.writedata BY <1>7, <3>2 DEF SentByte
    <3>4. QED BY <2>2, <3>2, <3>3
  <2>3. QED BY <2>1, <2>2
<1>9. Over' = 0 BY <1>8, BusFacts DEF Over
<1>10. WireSend'
  <2>1. pins'.en /\ device'.act = "listen" /\ device'.sda = 1 /\ device'.outcome = "none"
    BY <1>1, <1>2, <1>6
  <2>2. device'.word = DeviceWord' BY <1>4, <1>6, <1>8 DEF DeviceWord
  <2>3. Register' BY <1>4, <1>6, <1>7, <1>8 DEF Register
  <2>4. Len(device'.got) = 0 BY <1>6, EmptySeq
  <2>5. Len(device'.got) = Over' + (IF Sampled' THEN 1 ELSE 0)
    BY <1>1, <1>9, <2>4 DEF Sampled
  <2>6. \A i \in 1 .. Len(device'.got) : device'.got[i] = SentByte'[i] BY <2>4
  <2>7. \A i \in 1 .. Bits - Over' : i2c'.shift[i] = SentByte'[Over' + i]
    BY <1>8, <1>9, BusFacts
  <2>8. QED BY <2>1, <2>2, <2>3, <2>5, <2>6, <2>7, Zenon DEF WireSend
<1>11. Kinds' BY <1>8 DEF Kinds
<1>12. QED
  BY <1>1, <1>4, <1>6, <1>8, <1>10, <1>11
  DEF OnWire, WireQuiet, WireStart, WireRestart, WireAck, WireReceive, WireReceived, WireStop

\* The acknowledged register of a read: the address once more.
LEMMA AckToRestart ==
  ASSUME Inv, OnWire, Clock, FallEdge, i2c.state = "ACK", Accepted, i2c.word = "ADDRESS",
         i2c.read_op
  PROVE  /\ OnWire' /\ device'.outcome = device.outcome /\ device'.mem = device.mem
         /\ device'.refused = device.refused /\ i2c'.state = "RESTART"
<1>1. /\ PinTypes /\ I2cTypes /\ DeviceTypes /\ AmsTypes /\ moment = "fall" /\ moment' = "low"
      /\ pins' = pins
      /\ I2c /\ (pins.en => DeviceFall) /\ Unstretched'
  BY FallFacts
<1>2. pins.en /\ pins.in = 0
  BY <1>1 DEF OnWire, WireAck, Sampled, Accepted
<1>3. I2cAck BY <1>1 DEF I2c, I2cIdle, I2cStart, I2cData, I2cAck, I2cStop, I2cReset
<1>4. /\ device.act = "ack" /\ device.word = "data" /\ device.outcome = "none"
      /\ device.reg = ams.address.reg
  BY DEF Accepted
<1>5. device' = [device EXCEPT !.act = "listen", !.sda = 1]
  BY <1>1, <1>2, <1>4 DEF DeviceFall
<1>6. /\ device'.act = "listen" /\ device'.sda = 1
      /\ device'.outcome = "none" /\ device'.reg = device.reg
      /\ device'.mem = device.mem /\ device'.refused = device.refused
  BY <1>1, <1>4, <1>5 DEF DeviceTypes
<1>7. i2c' = [i2c EXCEPT !.state = "RESTART", !.word = "DEVICE", !.read_bit = 1,
                         !.readdata = Zero, !.busy = TRUE]
  BY <1>2, <1>3 DEF I2cAck
<1>8. i2c'.state = "RESTART" /\ i2c'.word = "DEVICE" /\ i2c'.read_op = i2c.read_op
  BY <1>1, <1>7, Zenon DEF I2cTypes
<1>9. ams'.address = ams.address BY AmsKeeps
<1>10. WireRestart' BY <1>1, <1>2, <1>4, <1>6, <1>8, <1>9, Zenon DEF WireRestart
<1>11. Kinds' BY <1>8 DEF Kinds
<1>12. QED
  BY <1>1, <1>4, <1>6, <1>8, <1>10, <1>11
  DEF OnWire, WireQuiet, WireStart, WireSend, WireAck, WireReceive, WireReceived, WireStop

\* The acknowledged address of a read: the device sends.
LEMMA AckToReceive ==
  ASSUME Inv, OnWire, Clock, FallEdge, i2c.state = "ACK", Accepted, i2c.word = "DEVICE",
         i2c.read_bit = 1
  PROVE  /\ OnWire' /\ device'.outcome = device.outcome /\ device'.mem = device.mem
         /\ device'.refused = device.refused /\ i2c'.state = "DATA"
<1>1. /\ PinTypes /\ I2cTypes /\ DeviceTypes /\ AmsTypes /\ moment = "fall" /\ moment' = "low"
      /\ pins' = pins
      /\ I2c /\ (pins.en => DeviceFall) /\ Unstretched'
  BY FallFacts
<1>2. pins.en /\ pins.in = 0 /\ i2c.read_op
  BY <1>1 DEF OnWire, WireAck, Sampled, Accepted, Kinds
<1>3. I2cAck BY <1>1 DEF I2c, I2cIdle, I2cStart, I2cData, I2cAck, I2cStop, I2cReset
<1>4. /\ device.act = "ack" /\ device.word = "send" /\ device.outcome = "done"
      /\ device.out = device.mem[ams.address.reg]
  BY DEF Accepted
<1>5. ams'.address = ams.address BY AmsKeeps
<1>6. device.out \in Byte BY <1>1, <1>4 DEF DeviceTypes, AmsTypes
<1>7. /\ device.out \in Seq(Bit) /\ Len(device.out) = Bits /\ device.out # <<>>
  BY <1>6, BusFacts, ByteSeq, EmptyNotByte DEF Byte, Bit
<1>8. device' = [device EXCEPT !.act = "send", !.sda = Head(device.out), !.out = Tail(device.out)]
  BY <1>1, <1>2, <1>4, <1>7 DEF DeviceFall
<1>9. /\ device'.act = "send" /\ device'.sda = Head(device.out) /\ device'.outcome = "done"
      /\ device'.word = "send" /\ device'.out = Tail(device.out)
      /\ device'.mem = device.mem /\ device'.refused = device.refused
  BY <1>1, <1>4, <1>8 DEF DeviceTypes
<1>10. i2c' = [i2c EXCEPT !.state = "DATA", !.word = "READ", !.bit_cnt = Bits - 1,
                          !.shift = ams.address.reg, !.readdata = Zero, !.busy = TRUE,
                          !.dev_error = FALSE, !.reg_error = FALSE]
  BY <1>2, <1>3 DEF I2cAck, Send
<1>11. /\ i2c'.state = "DATA" /\ i2c'.bit_cnt = Bits - 1 /\ i2c'.word = "READ"
       /\ i2c'.read_op = i2c.read_op
  BY <1>1, <1>10, Zenon DEF I2cTypes
<1>12. SentByte' = device.out BY <1>4, <1>5, <1>9, <1>11 DEF SentByte
<1>13. Over' = 0 BY <1>11, BusFacts DEF Over
<1>14. WireReceive'
  <2>1. pins'.en /\ device'.act = "send" /\ device'.word = "send" /\ device'.outcome = "done"
    BY <1>1, <1>2, <1>9
  <2>2. device'.sda = SentByte'[Over' + 1] BY <1>7, <1>9, <1>12, <1>13
  <2>3. /\ Len(Tail(device.out)) = Bits - 1
        /\ \A i \in 1 .. Bits - 1 : Tail(device.out)[i] = device.out[i + 1]
    BY <1>7, HeadTailProperties
  <2>4. Len(device'.out) = i2c'.bit_cnt BY <1>9, <1>11, <2>3
  <2>5. \A i \in 1 .. Len(device'.out) : device'.out[i] = SentByte'[Over' + 1 + i]
    <3>1. SUFFICES ASSUME NEW i \in 1 .. Bits - 1
                   PROVE  Tail(device.out)[i] = device.out[0 + 1 + i]
      BY <1>9, <1>12, <1>13, <2>3
    <3>2. 0 + 1 + i = i + 1 BY BusFacts
    <3>3. QED BY <2>3, <3>2
  <2>6. \A i \in 1 .. Over' : i2c'.shift[Bits - Over' + i] = SentByte'[i] BY <1>13
  <2>7. ~Sampled' BY <1>1 DEF Sampled
  <2>8. QED BY <1>11, <2>1, <2>2, <2>4, <2>5, <2>6, <2>7, Zenon DEF WireReceive
<1>15. Kinds' BY <1>2, <1>11 DEF Kinds
<1>16. QED
  BY <1>1, <1>4, <1>9, <1>11, <1>14, <1>15
  DEF OnWire, WireQuiet, WireStart, WireRestart, WireSend, WireAck, WireReceived, WireStop

\* The byte received, which nobody acknowledges.
LEMMA ReceivedToStop ==
  ASSUME Inv, OnWire, Clock, FallEdge, i2c.state = "ACK", i2c.word = "READ"
  PROVE  /\ OnWire' /\ device' = device /\ device.outcome = "done"
         /\ i2c'.state = "STOP" /\ i2c'.readdata = device.mem[ams.address.reg]
<1>1. /\ PinTypes /\ I2cTypes /\ DeviceTypes /\ AmsTypes /\ moment = "fall" /\ moment' = "low"
      /\ pins' = pins
      /\ I2c /\ (pins.en => DeviceFall) /\ Unstretched'
  BY FallFacts
<1>2. /\ pins.en /\ device.act = "idle" /\ device.sda = 1 /\ device.outcome = "done"
      /\ i2c.shift = SentByte
  BY DEF OnWire, WireReceived
<1>3. I2cAck BY <1>1 DEF I2c, I2cIdle, I2cStart, I2cData, I2cAck, I2cStop, I2cReset
<1>4. device' = device BY <1>1, <1>2 DEF DeviceFall
<1>5. i2c' = Stop(FALSE, FALSE, i2c.shift) BY <1>3 DEF I2cAck
<1>6. i2c'.state = "STOP" /\ i2c'.readdata = i2c.shift BY <1>1, <1>5, Zenon DEF Stop, I2cTypes
<1>7. i2c'.readdata = device.mem[ams.address.reg] BY <1>2, <1>6 DEF SentByte
<1>8. WireStop' BY <1>1, <1>2, <1>4, <1>6 DEF WireStop
<1>9. QED
  BY <1>1, <1>2, <1>4, <1>6, <1>7, <1>8
  DEF OnWire, WireQuiet, WireStart, WireRestart, WireSend, WireAck, WireReceive, WireReceived, Kinds

DeviceKeeps == /\ device'.outcome = device.outcome /\ device'.mem = device.mem
               /\ device'.refused = device.refused

\* What an edge does to the bus and to what the device has done.
Waits    == /\ DeviceKeeps /\ i2c'.readdata = i2c.readdata
            /\ \/ i2c'.state = i2c.state
               \/ i2c.state \in {"RESET", "IDLE"} /\ i2c'.state \in {"IDLE", "START"}
               \/ i2c.state = "STOP" /\ i2c'.state = "IDLE"
Begins   == /\ i2c.state \in {"START", "RESTART"} /\ i2c' = i2c
            /\ i2c.state = "RESTART" => device.outcome = "none"
            /\ device'.outcome = "none" /\ device'.mem = device.mem
            /\ device'.refused = device.refused
Moves    == /\ DeviceKeeps /\ i2c.state \in {"START", "RESTART", "DATA", "ACK"}
            /\ i2c'.state \in {"DATA", "ACK", "RESTART"}
Takes    == /\ i2c.state = "DATA" /\ i2c.bit_cnt = 0 /\ moment = "fall"
            /\ device.outcome = "none" /\ i2c'.state = "ACK" /\ i2c'.readdata = Zero
            /\ \/ /\ device'.outcome = "refused" /\ device'.mem = device.mem
                  /\ device'.refused \/ ams.address.dev # Own
               \/ /\ i2c.word = "WRITE" /\ device'.outcome = "done" /\ ams.address.dev = Own
                  /\ device'.mem = [device.mem EXCEPT ![ams.address.reg] = ams.writedata]
                  /\ device'.refused = device.refused
               \/ /\ i2c.word = "DEVICE" /\ i2c.read_bit = 1 /\ device'.outcome = "done"
                  /\ ams.address.dev = Own
                  /\ device'.mem = device.mem /\ device'.refused = device.refused
Finishes == /\ DeviceKeeps /\ i2c.state = "ACK" /\ i2c'.state = "STOP" /\ device.outcome # "none"
            /\ i2c.word = "WRITE" \/ i2c'.readdata = Result

LEMMA HighMoves ==
  ASSUME Inv, OnWire, Clock, HighEdge
  PROVE  Waits \/ Begins
<1>0. /\ PinTypes /\ I2cTypes /\ DeviceTypes /\ i2c' = i2c /\ moment = "high"
      /\ pins.hold = FALSE /\ Lines
  BY DEF Inv, Types, TypeInv, PinTypes, I2cTypes, HighEdge, OnWire, Unstretched
<1>1. /\ i2c.state \in {"START", "RESTART"} => pins'.data = 0
      /\ i2c.state = "DATA" => pins'.data = IF i2c.word = "READ" THEN 1 ELSE Head(i2c.shift)
      /\ i2c.state \in {"RESET", "IDLE", "ACK", "STOP"} => pins'.data = 1
  BY <1>0, HighPins DEF HighEdge
<1>2. CASE i2c.state \in {"IDLE", "RESET", "DATA", "ACK"}
  BY <1>0, <1>1, <1>2 DEF HighEdge, Lines, Waits, DeviceKeeps
<1>3. CASE i2c.state \in {"START", "RESTART"}
  <2>1. DeviceStart
    BY <1>0, <1>1, <1>3 DEF HighEdge, OnWire, WireStart, WireRestart
  <2>2. device'.outcome = "none" /\ device'.mem = device.mem /\ device'.refused = device.refused
    BY <1>0, <2>1 DEF DeviceStart, DeviceTypes
  <2>3. QED BY <1>0, <1>3, <2>2 DEF Begins, OnWire, WireRestart
<1>4. CASE i2c.state = "STOP"
  <2>1. DeviceStop
    BY <1>0, <1>1, <1>4 DEF HighEdge, OnWire, WireStop
  <2>2. QED BY <1>0, <2>1 DEF DeviceStop, DeviceTypes, Waits, DeviceKeeps
<1>5. QED BY <1>0, <1>2, <1>3, <1>4 DEF I2cTypes

LEMMA FallMoves ==
  ASSUME Inv, OnWire, Clock, FallEdge
  PROVE  OnWire' /\ (Waits \/ Moves \/ Takes \/ Finishes)
<1>0. I2cTypes /\ I2c /\ moment = "fall" BY FallFacts
<1>1. CASE i2c.state \in {"RESET", "IDLE"}
  <2>1. OnWire' /\ device' = device BY <1>1, FallQuiet
  <2>2. i2c'.state \in {"IDLE", "START"} BY <1>0, <1>1, I2cMoves DEF Inv
  <2>3. i2c'.readdata = i2c.readdata
    <3>1. CASE I2cIdle
      <4>1. CASE cross.wl \/ cross.rl
        BY <1>0, <3>1, <4>1 DEF I2cIdle, I2cTypes
      <4>2. CASE ~(cross.wl \/ cross.rl)
        BY <1>0, <3>1, <4>2 DEF I2cIdle, I2cTypes
      <4>3. QED BY <4>1, <4>2
    <3>2. CASE I2cReset BY <1>0, <3>2 DEF I2cReset, I2cTypes
    <3>3. QED BY <1>0, <1>1, <3>1, <3>2 DEF I2c, I2cStart, I2cData, I2cAck, I2cStop
  <2>4. QED BY <1>1, <2>1, <2>2, <2>3 DEF Waits, DeviceKeeps
<1>2. CASE i2c.state = "STOP"
  <2>1. OnWire' /\ device' = device /\ i2c'.state = "IDLE" BY <1>2, FallStop
  <2>2. I2cStop BY <1>0, <1>2 DEF I2c, I2cIdle, I2cStart, I2cData, I2cAck, I2cStop, I2cReset
  <2>3. i2c'.readdata = i2c.readdata BY <1>0, <2>2 DEF I2cStop, I2cTypes
  <2>4. QED BY <1>2, <2>1, <2>3 DEF Waits, DeviceKeeps
<1>3. CASE i2c.state \in {"START", "RESTART"}
  BY <1>3, FallStart DEF Moves, DeviceKeeps
<1>4. CASE i2c.state = "DATA" /\ i2c.word = "READ"
  BY <1>4, FallBitBack DEF Moves, DeviceKeeps
<1>5. CASE i2c.state = "DATA" /\ i2c.word # "READ" /\ i2c.bit_cnt # 0
  BY <1>5, FallBit DEF Moves, DeviceKeeps
<1>6. CASE i2c.state = "DATA" /\ i2c.word # "READ" /\ i2c.bit_cnt = 0
  BY <1>0, <1>6, TakenByte DEF Moves, Takes, DeviceKeeps
<1>7. CASE i2c.state = "ACK" /\ i2c.word = "READ"
  BY <1>7, ReceivedToStop DEF Finishes, DeviceKeeps, Result
<1>8. CASE i2c.state = "ACK" /\ i2c.word # "READ"
  <2>1. i2c.word \in {"DEVICE", "ADDRESS", "WRITE"} /\ i2c.read_bit \in {0, 1}
        /\ (Accepted \/ Refused)
    BY <1>0, <1>8 DEF OnWire, Kinds, WireAck, I2cTypes
  <2>2. CASE Refused \/ i2c.word = "WRITE"
    BY <1>8, <2>2, AckToStop DEF Finishes, DeviceKeeps, Result, Refused
  <2>3. CASE Accepted /\ i2c.word = "DEVICE" /\ i2c.read_bit = 1
    BY <1>8, <2>3, AckToReceive DEF Moves, DeviceKeeps
  <2>4. CASE Accepted /\ i2c.word = "ADDRESS" /\ i2c.read_op
    BY <1>8, <2>4, AckToRestart DEF Moves, DeviceKeeps
  <2>5. CASE Accepted /\ (\/ i2c.word = "DEVICE" /\ i2c.read_bit = 0
                          \/ i2c.word = "ADDRESS" /\ ~i2c.read_op)
    BY <1>8, <2>5, AckToSend DEF Moves, DeviceKeeps
  <2>6. QED BY <2>1, <2>2, <2>3, <2>4, <2>5
<1>9. QED BY <1>0, <1>1, <1>2, <1>3, <1>4, <1>5, <1>6, <1>7, <1>8 DEF I2cTypes

LEMMA ClockOnWire ==
  ASSUME Inv, OnWire, Clock, Stretches = 0
  PROVE  OnWire' /\ (Waits \/ Begins \/ Moves \/ Takes \/ Finishes)
<1>1. CASE QuietEdge BY <1>1, QuietOnWire DEF QuietEdge, Waits, DeviceKeeps
<1>2. CASE LowEdge BY <1>2, LowOnWire DEF LowEdge, Waits, DeviceKeeps
<1>3. CASE RiseEdge
  <2>1. DeviceTypes BY DEF Inv, Types
  <2>2. DeviceKeeps BY <1>3, <2>1 DEF RiseEdge, DeviceRise, DeviceTypes, DeviceKeeps
  <2>3. QED BY <1>3, <2>2, RiseOnWire DEF RiseEdge, Waits
<1>4. CASE HighEdge BY <1>4, HighOnWire, HighMoves
<1>5. CASE FallEdge BY <1>5, FallMoves
<1>6. QED BY <1>1, <1>2, <1>3, <1>4, <1>5, Edges

\* What an edge does to the command the Avalon side holds.
AsksNow  == /\ ams.state = "IDLE" /\ ~ams.readdatavalid /\ ams'.state = "WAIT"
            /\ (ams_write \/ ams_read) /\ ams'.address = ams_address
            /\ (ams'.read <=> ~ams_write) /\ (ams'.write <=> ams_write)
            /\ ams'.writedata = (IF ams_write THEN host.data ELSE Zero)
            /\ ~ams'.readdatavalid
Rests    == /\ ams.state \in {"IDLE", "RESET"} /\ ams'.state = "IDLE" /\ ~ams'.readdatavalid
Holds    == /\ ams.state \in {"WAIT", "WRITE", "READ"} /\ ams'.state \in {"WAIT", "WRITE", "READ"}
            /\ ams'.address = ams.address /\ ams'.writedata = ams.writedata
            /\ ~ams.readdatavalid /\ ~ams'.readdatavalid
            /\ (ams.read \/ ams.state = "READ") <=> (ams'.read \/ ams'.state = "READ")
            /\ ams'.state # ams.state =>
                 ams.state = "WAIT" /\ FirstBit /\ moment = "low" /\ i2c.busy
Wrote    == /\ ams.state = "WRITE" /\ ams'.state = "IDLE" /\ ~ams.read
            /\ ~ams.readdatavalid /\ ~ams'.readdatavalid /\ i2c.state = "IDLE"
ReadsNow == /\ ams.state = "READ" /\ ams'.state = "IDLE" /\ ams'.readdatavalid
            /\ ~ams.readdatavalid /\ i2c.state = "IDLE" /\ ~i2c.busy
            /\ ams'.address = ams.address /\ ams'.writedata = ams.writedata
            /\ ~ams.address.status => ams'.readdata = i2c.readdata

LEMMA AmsSteps ==
  ASSUME Inv, Clock
  PROVE  AsksNow \/ Rests \/ Holds \/ Wrote \/ ReadsNow
<1>1. AmsTypes /\ Ams /\ I2cTypes /\ Commands /\ Handshake
  BY DEF Inv, Types, TypeInv, AmsTypes, I2cTypes, Clock
<1>2. ams.readdatavalid => /\ ams.state = "IDLE" /\ host.bus = "reply"
  BY DEF Inv, HostSide, Owed
<1>3. CASE AmsIdle
  <2>1. ams.state = "IDLE" BY <1>3 DEF AmsIdle
  <2>2. CASE cross.bl
    BY <1>1, <1>3, <2>1, <2>2 DEF AmsIdle, Rests, AmsTypes
  <2>3. CASE ~cross.bl /\ (ams_write \/ ams_read)
    <3>1. ~ams.readdatavalid BY <1>2, <2>3 DEF ams_write, ams_read
    <3>2. ams' = [ams EXCEPT !.readdatavalid = FALSE, !.readdata = Zero,
                    !.state = "WAIT", !.waitrequest = FALSE,
                    !.write = ams_write, !.read = ~ams_write, !.address = ams_address,
                    !.writedata = IF ams_write THEN host.data ELSE Zero]
      BY <1>1, <1>3, <2>3 DEF AmsIdle, AmsTypes
    <3>3. /\ ams'.state = "WAIT" /\ ams'.address = ams_address
          /\ ams'.read = (~ams_write) /\ ams'.write = ams_write
          /\ ams'.writedata = (IF ams_write THEN host.data ELSE Zero)
          /\ ams'.readdatavalid = FALSE
      BY <1>1, <3>2, Zenon DEF AmsTypes
    <3>4. QED BY <2>1, <2>3, <3>1, <3>3 DEF AsksNow
  <2>4. CASE ~cross.bl /\ ~(ams_write \/ ams_read)
    BY <1>1, <1>3, <2>1, <2>4 DEF AmsIdle, Rests, AmsTypes
  <2>5. QED BY <2>2, <2>3, <2>4
<1>4. CASE AmsWait
  <2>1. ams.state = "WAIT" /\ ~ams.readdatavalid BY <1>2, <1>4 DEF AmsWait
  <2>2. CASE ~cross.bl
    BY <1>1, <1>4, <2>1, <2>2 DEF AmsWait, Holds, AmsTypes
  <2>3. CASE cross.bl
    <3>1. FirstBit /\ moment = "low" /\ i2c.busy
      BY <1>1, <2>1, <2>3 DEF Handshake
    <3>2. /\ ams'.state = (IF ams.write THEN "WRITE" ELSE "READ") /\ ~ams'.read
          /\ ams'.address = ams.address /\ ams'.writedata = ams.writedata /\ ~ams'.readdatavalid
      BY <1>1, <1>4, <2>1, <2>3 DEF AmsWait, AmsTypes, Commands
    <3>3. ams.write <=> ~ams.read BY <1>1, <2>1 DEF Commands
    <3>4. QED BY <2>1, <3>1, <3>2, <3>3 DEF Holds
  <2>4. QED BY <2>2, <2>3
<1>5. CASE AmsWrite
  <2>1. ams.state = "WRITE" /\ ~ams.readdatavalid /\ ~ams.read
    BY <1>1, <1>2, <1>5 DEF AmsWrite, Commands
  <2>2. ams' = [ams EXCEPT !.state = IF cross.bl THEN "WRITE" ELSE "IDLE"] BY <1>5 DEF AmsWrite
  <2>3. CASE cross.bl BY <1>1, <2>1, <2>2, <2>3 DEF Holds, AmsTypes
  <2>4. CASE ~cross.bl
    <3>1. i2c.state = "IDLE" BY <1>1, <2>1, <2>4 DEF Handshake
    <3>2. QED BY <1>1, <2>1, <2>2, <2>4, <3>1 DEF Wrote, AmsTypes
  <2>5. QED BY <2>3, <2>4
<1>6. CASE AmsRead
  <2>1. ams.state = "READ" /\ ~ams.readdatavalid BY <1>2, <1>6 DEF AmsRead
  <2>2. CASE cross.bl BY <1>1, <1>6, <2>1, <2>2 DEF AmsRead, Holds, AmsTypes
  <2>3. CASE ~cross.bl
    <3>1. i2c.state = "IDLE" /\ ~i2c.busy BY <1>1, <2>1, <2>3 DEF Handshake
    <3>2. QED BY <1>1, <1>6, <2>1, <2>3, <3>1 DEF AmsRead, ReadsNow, AmsTypes
  <2>4. QED BY <2>2, <2>3
<1>7. CASE AmsReset
  BY <1>1, <1>2, <1>7 DEF AmsReset, Rests, AmsTypes
<1>8. QED BY <1>1, <1>3, <1>4, <1>5, <1>6, <1>7 DEF Ams

LEMMA ClockAsked ==
  ASSUME Inv, Asked, Clock
  PROVE  Asked'
<1>1. HostTypes /\ AmsTypes /\ Host BY DEF Inv, Types, TypeInv, HostTypes, AmsTypes, Clock
<1>2. host'.dev = host.dev /\ host'.reg = host.reg /\ host'.data = host.data
      /\ (host'.pc # "idle" => host.pc # "idle")
  <2>1. host.pc = "idle" => host.bus = "none" BY DEF Inv, HostSide
  <2>2. CASE host.bus = "request" /\ ~ams.waitrequest
    BY <1>1, <2>1, <2>2 DEF Host, HostTypes
  <2>3. CASE host.bus = "reply" /\ ams.readdatavalid
    BY <1>1, <2>1, <2>3 DEF Host, HostTypes, Answer, Done
  <2>4. CASE /\ ~(host.bus = "request" /\ ~ams.waitrequest)
             /\ ~(host.bus = "reply" /\ ams.readdatavalid)
    BY <1>1, <2>4 DEF Host
  <2>5. QED BY <2>2, <2>3, <2>4
<1>3. host'.pc # "idle" => host'.dev \in Devs /\ host'.reg \in Regs /\ host'.data \in Data
  BY <1>2 DEF Asked
<1>4. Active' => /\ ams'.address.dev \in Devs /\ ams'.address.reg \in Regs
                 /\ ams'.writedata \in Data \cup {Zero}
  <2>1. CASE AsksNow
    <3>1. host.pc # "idle" BY <2>1 DEF AsksNow, ams_write, ams_read
    <3>2. host.dev \in Devs /\ host.reg \in Regs /\ host.data \in Data BY <3>1 DEF Asked
    <3>3. ams'.writedata = host.data \/ ams'.writedata = Zero BY <2>1 DEF AsksNow
    <3>4. ams'.writedata \in Data \cup {Zero} BY <3>2, <3>3
    <3>5. ams'.address.dev = host.dev /\ ams'.address.reg = host.reg
      <4>1. ams'.address = ams_address BY <2>1, Zenon DEF AsksNow
      <4>2. ams_address.dev = host.dev /\ ams_address.reg = host.reg BY DEF ams_address
      <4>3. QED BY <4>1, <4>2, Zenon
    <3>6. QED BY <3>2, <3>4, <3>5
  <2>2. CASE Rests BY <2>2 DEF Rests, Active
  <2>3. CASE Holds BY <2>3 DEF Holds, Active, Asked
  <2>4. CASE Wrote BY <2>4 DEF Wrote, Active
  <2>5. CASE ReadsNow BY <2>5 DEF ReadsNow, Active, Asked
  <2>6. QED BY <2>1, <2>2, <2>3, <2>4, <2>5, AmsSteps
<1>5. QED BY <1>3, <1>4 DEF Asked

\* No transfer starts or ends under a command that the Avalon side has not
\* passed on.
LEMMA IdleWaits ==
  ASSUME Inv, i2c.state \in {"RESET", "IDLE"}, Waits \/ Begins \/ Moves \/ Takes \/ Finishes
  PROVE  Waits
BY DEF Waits, Begins, Moves, Takes, Finishes

LEMMA ClockAnswered ==
  ASSUME Inv, OnWire, Answered, Clock, Waits \/ Begins \/ Moves \/ Takes \/ Finishes
  PROVE  Answered'
<1>1. AmsTypes /\ I2cTypes /\ DeviceTypes /\ Handshake /\ Commands
  BY DEF Inv, Types, TypeInv, AmsTypes, I2cTypes
<1>2. CASE AsksNow \/ Rests \/ Wrote
  BY <1>2 DEF AsksNow, Rests, Wrote, Answered
<1>3. CASE ReadsNow
  <2>1. Waits BY <1>3, IdleWaits DEF ReadsNow
  <2>2. device.outcome # "none" /\ i2c.readdata = Result BY <1>3 DEF ReadsNow, Answered
  <2>3. device'.outcome = device.outcome /\ device'.mem = device.mem
    BY <2>1 DEF Waits, DeviceKeeps
  <2>4. Result' = Result BY <1>3, <2>3 DEF Result, ReadsNow
  <2>5. QED BY <1>3, <2>2, <2>3, <2>4 DEF ReadsNow, Answered
<1>4. CASE Holds /\ ams'.state # ams.state
  <2>1. FirstBit /\ moment = "low" BY <1>4 DEF Holds
  <2>2. i2c.state = "DATA" BY <2>1 DEF FirstBit, FirstByte
  <2>3. i2c'.state \notin {"STOP", "IDLE"}
    BY <2>1, <2>2 DEF Waits, Begins, Moves, Takes, Finishes
  <2>4. QED BY <1>4, <2>3 DEF Holds, Answered
<1>5. CASE Holds /\ ams'.state = ams.state
  <2>1. ams.state = "WAIT" => Answered' BY <1>5 DEF Holds, Answered
  <2>2. ams.state \in {"WRITE", "READ"} => i2c.state # "RESET"
    BY <1>1 DEF Handshake, Inv, Transfers
  <2>3. ams.state \in {"WRITE", "READ"} /\ i2c'.state = "IDLE" => device'.outcome # "none"
    <3>1. SUFFICES ASSUME ams.state \in {"WRITE", "READ"}, i2c'.state = "IDLE"
                   PROVE  device'.outcome # "none"
      OBVIOUS
    <3>2. Waits /\ i2c.state \in {"IDLE", "STOP"}
      BY <2>2, <3>1 DEF Waits, Begins, Moves, Takes, Finishes
    <3>3. device.outcome # "none" BY <3>1, <3>2 DEF Answered, OnWire, WireStop
    <3>4. QED BY <3>2, <3>3 DEF Waits, DeviceKeeps
  <2>4. ams.state = "READ" /\ i2c'.state \in {"STOP", "IDLE"} => i2c'.readdata = Result'
    <3>1. SUFFICES ASSUME ams.state = "READ", i2c'.state \in {"STOP", "IDLE"}
                   PROVE  i2c'.readdata = Result'
      OBVIOUS
    <3>2. CASE Finishes
      <4>1. i2c.word # "WRITE"
        <5>1. i2c.state = "ACK" /\ i2c.busy BY <3>2 DEF Finishes, Inv, Transfers
        <5>2. i2c.read_op BY <1>1, <3>1, <5>1 DEF Handshake
        <5>3. QED BY <5>1, <5>2 DEF OnWire, Kinds
      <4>2. i2c'.readdata = Result BY <3>2, <4>1 DEF Finishes
      <4>3. Result' = Result BY <1>5, <3>2 DEF Result, Finishes, DeviceKeeps, Holds
      <4>4. QED BY <4>2, <4>3
    <3>3. CASE Waits
      <4>1. i2c.state \in {"STOP", "IDLE"} BY <2>2, <3>1, <3>3 DEF Waits
      <4>2. i2c.readdata = Result BY <3>1, <4>1 DEF Answered
      <4>3. Result' = Result BY <1>5, <3>3 DEF Result, Waits, DeviceKeeps, Holds
      <4>4. QED BY <3>3, <4>2, <4>3 DEF Waits
    <3>4. ~Begins /\ ~Moves /\ ~Takes BY <3>1 DEF Begins, Moves, Takes
    <3>5. QED BY <3>2, <3>3, <3>4
  <2>5. QED BY <1>5, <2>1, <2>3, <2>4 DEF Holds, Answered
<1>6. QED BY <1>2, <1>3, <1>4, <1>5, AmsSteps

LEMMA InstrWire ==
  ASSUME Inv, Wire, Call \/ Issue
  PROVE  Wire' /\ device'.mem = device.mem /\ host'.value = host.value
         /\ device'.outcome = device.outcome
<1>1. DeviceTypes /\ HostTypes BY DEF Inv, Types, TypeInv, HostTypes
<1>2. /\ device'.act = device.act /\ device'.word = device.word /\ device'.got = device.got
      /\ device'.out = device.out /\ device'.sda = device.sda /\ device'.reg = device.reg
      /\ device'.mem = device.mem /\ device'.outcome = device.outcome
  BY <1>1 DEF Call, Issue, DeviceTypes
<1>3. ams' = ams /\ moment' = moment /\ i2c' = i2c /\ pins' = pins BY DEF Call, Issue
<1>4. SentByte' = SentByte BY <1>2, <1>3 DEF SentByte
<1>5. Unstretched' /\ WireQuiet' /\ WireStart' /\ WireRestart' /\ WireStop' /\ Kinds'
  BY <1>2, <1>3
  DEF Wire, OnWire, Unstretched, WireQuiet, WireStart, WireRestart, WireStop, Kinds, Heard
<1>6. WireSend' /\ WireReceive' /\ WireReceived'
  BY <1>2, <1>3, <1>4
  DEF Wire, OnWire, WireSend, WireReceive, WireReceived, Over, Sampled, DeviceWord, Register
<1>7. WireAck' BY <1>2, <1>3 DEF Wire, OnWire, WireAck, Accepted, Refused, Sampled
<1>8. Answered' BY <1>2, <1>3 DEF Wire, Answered, Result
<1>9. host'.value = host.value
      /\ (host'.pc # "idle" => host'.dev \in Devs /\ host'.reg \in Regs /\ host'.data \in Data)
  <2>1. CASE Issue BY <1>1, <2>1 DEF Issue, HostTypes, Wire, Asked
  <2>2. CASE Call
    <3>1. PICK fn \in {"i2c_write", "i2c_read", "i2c_compare"}, dev \in Devs,
               reg \in Regs, data \in Data :
         /\ fn = "i2c_read" => data = CHOOSE b \in Data : TRUE
         /\ host' = [host EXCEPT !.fn = fn, !.dev = dev, !.reg = reg, !.data = data,
                       !.retry = Retries, !.pc = IF fn = "i2c_write" THEN "IOWR" ELSE "IORD"]
      BY <2>2 DEF Call
    <3>2. /\ host'.value = host.value /\ host'.dev = dev /\ host'.reg = reg
          /\ host'.data = data
      BY <1>1, <3>1 DEF HostTypes
    <3>3. QED BY <3>2
  <2>3. QED BY <2>1, <2>2
<1>10. Asked' BY <1>3, <1>9 DEF Wire, Asked, Active
<1>11. QED BY <1>2, <1>5, <1>6, <1>7, <1>8, <1>9, <1>10 DEF Wire, OnWire

LEMMA InitWire == ASSUME Init PROVE Wire
BY DEF Init, Wire, OnWire, Answered, Asked, Active, Unstretched, WireQuiet, WireStart, WireRestart,
       WireSend, WireAck, WireReceive, WireReceived, WireStop, Kinds

LEMMA StutterWire == ASSUME Wire, UNCHANGED vars PROVE Wire'
<1>1. host' = host /\ ams' = ams /\ i2c' = i2c /\ pins' = pins /\ device' = device
      /\ moment' = moment
  BY DEF vars
<1>2. SentByte' = SentByte /\ Result' = Result BY <1>1 DEF SentByte, Result
<1>3. Unstretched' /\ WireQuiet' /\ WireStart' /\ WireRestart' /\ WireStop' /\ Kinds'
  BY <1>1
  DEF Wire, OnWire, Unstretched, WireQuiet, WireStart, WireRestart, WireStop, Kinds, Heard
<1>4. WireSend' /\ WireReceive' /\ WireReceived'
  BY <1>1, <1>2
  DEF Wire, OnWire, WireSend, WireReceive, WireReceived, Over, Sampled, DeviceWord, Register
<1>5. WireAck' BY <1>1 DEF Wire, OnWire, WireAck, Accepted, Refused, Sampled
<1>6. Answered' /\ Asked' BY <1>1, <1>2 DEF Wire, Answered, Asked, Active
<1>7. QED BY <1>3, <1>4, <1>5, <1>6 DEF Wire, OnWire

LEMMA WireAlways == Stretches = 0 => (Spec => [](Inv /\ Wire))
<1>1. SUFFICES ASSUME Stretches = 0 PROVE Spec => [](Inv /\ Wire)
  OBVIOUS
<1>2. Init => Inv /\ Wire BY InitInv, InitWire
<1>3. ASSUME Inv /\ Wire, [Next]_vars PROVE (Inv /\ Wire)'
  <2>1. CASE Clock
    BY <1>1, <1>3, <2>1, ClockInv, ClockOnWire, ClockAnswered, ClockAsked DEF Wire
  <2>2. CASE Call \/ Issue BY <1>3, <2>2, InstrInv, InstrWire
  <2>3. CASE UNCHANGED vars BY <1>3, <2>3, StutterInv, StutterWire
  <2>4. QED BY <1>3, <2>1, <2>2, <2>3 DEF Next
<1>4. QED BY <1>2, <1>3, PTL DEF Spec

\* The variables of I2cAccess.
TheOp == [dev |-> ams.address.dev, reg |-> ams.address.reg, data |-> ams.writedata,
          read |-> Reading, status |-> ams.address.status]
AccOp == IF Active THEN {TheOp} ELSE {}
AccOutcome == IF Active /\ ams.state # "WAIT" THEN device.outcome ELSE "none"
AccCommand == [dev : Devs, reg : Regs, data : Data \union {Zero}, read : BOOLEAN,
               status : BOOLEAN]

AskStep    == /\ AccOp = {} /\ (\E c \in AccCommand : AccOp' = {c})
              /\ device'.mem = device.mem /\ AccOutcome' = AccOutcome /\ host'.value = host.value
ServeStep  == /\ AccOutcome = "none" /\ AccOutcome' = "done"
              /\ \E c \in AccOp :
                   /\ c.dev = Own
                   /\ device'.mem = IF c.read THEN device.mem
                                    ELSE [device.mem EXCEPT ![c.reg] = c.data]
              /\ AccOp' = AccOp /\ host'.value = host.value
RefuseStep == /\ AccOp # {} /\ AccOutcome = "none" /\ AccOutcome' = "refused"
              /\ device'.mem = device.mem /\ AccOp' = AccOp /\ host'.value = host.value
ReturnStep == /\ AccOutcome # "none" /\ AccOutcome' = "none" /\ AccOp' = {}
              /\ \E c \in AccOp :
                   host'.value = CASE ~c.read -> host.value
                                   [] c.read /\ (c.status \/ AccOutcome = "refused") -> Zero
                                   [] OTHER -> device.mem[c.reg]
              /\ device'.mem = device.mem
SameStep   == /\ device'.mem = device.mem /\ AccOp' = AccOp /\ AccOutcome' = AccOutcome
              /\ host'.value = host.value

LEMMA HostValue ==
  ASSUME Inv, Clock
  PROVE  host'.value = IF ams.readdatavalid THEN ams.readdata ELSE host.value
<1>1. HostTypes /\ AmsTypes /\ Host BY DEF Inv, Types, TypeInv, HostTypes, AmsTypes, Clock
<1>2. ams.readdatavalid => host.bus = "reply" BY DEF Inv, HostSide, Owed
<1>3. CASE ams.readdatavalid
  <2>1. host' = Answer(ams.readdata) BY <1>1, <1>2, <1>3 DEF Host
  <2>2. host'.value = ams.readdata BY <1>1, <2>1 DEF Answer, Done, HostTypes
  <2>3. QED BY <1>3, <2>2
<1>4. CASE ~ams.readdatavalid
  BY <1>1, <1>4 DEF Host, HostTypes
<1>5. QED BY <1>3, <1>4

\* An access asked, held, and answered.
LEMMA StepAsks ==
  ASSUME Inv, Wire', Clock, AsksNow, Waits \/ Begins \/ Moves \/ Takes \/ Finishes
  PROVE  AskStep
<1>1. AmsTypes' BY ClockTypes DEF Inv, Types, TypeInv, AmsTypes
<1>2. i2c.state \in {"IDLE", "RESET"} /\ ~Active /\ ~ams.readdatavalid
  BY DEF AsksNow, Inv, Commands, Active
<1>3. DeviceKeeps BY <1>2, IdleWaits DEF Waits
<1>4. host'.value = host.value BY <1>2, HostValue
<1>5. Active' /\ ams'.state = "WAIT" BY DEF AsksNow, Active
<1>6. Asked' BY DEF Wire
<1>7. /\ ams'.address.dev \in Devs /\ ams'.address.reg \in Regs
      /\ ams'.writedata \in Data \cup {Zero} /\ ams'.address.status \in BOOLEAN
  BY <1>1, <1>5, <1>6 DEF Asked, AmsTypes
<1>8. Reading' \in BOOLEAN BY <1>1 DEF Reading, AmsTypes
<1>9. TheOp' \in AccCommand BY <1>7, <1>8 DEF TheOp, AccCommand
<1>10. AccOp = {} /\ AccOp' = {TheOp'} BY <1>2, <1>5, Zenon DEF AccOp
<1>11. AccOutcome = "none" /\ AccOutcome' = "none" BY <1>2, <1>5 DEF AccOutcome
<1>12. QED BY <1>3, <1>4, <1>9, <1>10, <1>11 DEF AskStep, DeviceKeeps

LEMMA StepRests ==
  ASSUME Inv, Wire, Clock, Rests, Waits \/ Begins \/ Moves \/ Takes \/ Finishes
  PROVE  SameStep \/ ReturnStep
<1>1. i2c.state \in {"IDLE", "RESET"} /\ ~Active' /\ AmsTypes
  BY DEF Rests, Inv, Commands, Active, Types, TypeInv, AmsTypes
<1>2. DeviceKeeps BY <1>1, IdleWaits DEF Waits
<1>3. AccOp' = {} /\ AccOutcome' = "none" BY <1>1 DEF AccOp, AccOutcome
<1>4. CASE ~ams.readdatavalid
  <2>1. ~Active BY <1>4 DEF Active, Rests
  <2>2. AccOp = {} /\ AccOutcome = "none" BY <2>1 DEF AccOp, AccOutcome
  <2>3. host'.value = host.value BY <1>4, HostValue
  <2>4. QED BY <1>2, <1>3, <2>2, <2>3 DEF SameStep, DeviceKeeps
<1>5. CASE ams.readdatavalid
  <2>1. Active /\ Reading /\ ams.state # "WAIT" BY <1>5 DEF Active, Reading, Rests
  <2>2. AccOp = {TheOp} /\ AccOutcome = device.outcome BY <2>1 DEF AccOp, AccOutcome
  <2>3. /\ device.outcome # "none" /\ host'.value = ams.readdata
        /\ ~ams.address.status => ams.readdata = Result
        /\ ams.address.status => ams.readdata = Zero
    BY <1>5, HostValue DEF Wire, Answered, Inv, HostSide
  <2>4. TheOp.read = Reading /\ TheOp.status = ams.address.status /\ TheOp.reg = ams.address.reg
    BY DEF TheOp
  <2>5. host'.value = CASE ~TheOp.read -> host.value
                        [] TheOp.read /\ (TheOp.status \/ device.outcome = "refused") -> Zero
                        [] OTHER -> device.mem[TheOp.reg]
    <3>1. CASE ams.address.status BY <2>1, <2>3, <2>4, <3>1
    <3>2. CASE ~ams.address.status BY <2>1, <2>3, <2>4, <3>2 DEF Result
    <3>3. QED BY <3>1, <3>2
  <2>6. QED BY <1>2, <1>3, <2>2, <2>3, <2>5 DEF ReturnStep, DeviceKeeps
<1>6. QED BY <1>4, <1>5

LEMMA StepReturns ==
  ASSUME Inv, Wire, Clock, Wrote \/ ReadsNow, Waits \/ Begins \/ Moves \/ Takes \/ Finishes
  PROVE  SameStep \/ ReturnStep
<1>1. DeviceKeeps /\ i2c.state = "IDLE" /\ ~ams.readdatavalid
  BY IdleWaits DEF Waits, Wrote, ReadsNow
<1>2. host'.value = host.value BY <1>1, HostValue
<1>3. Active /\ ams.state # "WAIT" BY DEF Active, Wrote, ReadsNow
<1>4. AccOp = {TheOp} /\ AccOutcome = device.outcome BY <1>3 DEF AccOp, AccOutcome
<1>5. CASE Wrote
  <2>1. AccOp' = {} /\ AccOutcome' = "none" BY <1>5 DEF Wrote, Active, AccOp, AccOutcome
  <2>2. device.outcome # "none" BY <1>1, <1>5 DEF Wire, Answered, Wrote
  <2>3. TheOp.read = Reading /\ ~Reading BY <1>1, <1>5 DEF TheOp, Reading, Wrote
  <2>4. QED BY <1>1, <1>2, <1>4, <2>1, <2>2, <2>3 DEF ReturnStep, DeviceKeeps
<1>6. CASE ReadsNow
  <2>1. Active' /\ ams'.state # "WAIT" /\ Reading' /\ Reading
    BY <1>6 DEF ReadsNow, Active, Reading
  <2>2. TheOp' = TheOp BY <1>6, <2>1 DEF TheOp, ReadsNow
  <2>3. AccOp' = AccOp BY <1>4, <2>1, <2>2 DEF AccOp
  <2>4. AccOutcome' = AccOutcome BY <1>1, <1>4, <2>1 DEF AccOutcome, DeviceKeeps
  <2>5. QED BY <1>1, <1>2, <2>3, <2>4 DEF SameStep, DeviceKeeps
<1>7. QED BY <1>5, <1>6

LEMMA StepHolds ==
  ASSUME Inv, Wire, Clock, Holds, Waits \/ Begins \/ Moves \/ Takes \/ Finishes
  PROVE  SameStep \/ ServeStep \/ RefuseStep
<1>1. AmsTypes /\ AmsTypes' /\ I2cTypes /\ Handshake /\ Commands
  BY ClockTypes DEF Inv, Types, TypeInv, AmsTypes, I2cTypes
<1>2. host'.value = host.value BY HostValue DEF Holds
<1>3. Active /\ Active' BY DEF Holds, Active
<1>4. Reading' = Reading BY <1>1 DEF Holds, Reading, AmsTypes
<1>5. TheOp' = TheOp BY <1>4 DEF Holds, TheOp
<1>6. AccOp = {TheOp} /\ AccOp' = AccOp BY <1>3, <1>5 DEF AccOp
<1>7. CASE ams.state = "WAIT"
  <2>1. ~Takes
    BY <1>1, <1>7, BusFacts DEF Takes, Handshake, FirstBit, FirstByte, Inv, Transfers
  <2>2. device'.mem = device.mem BY <2>1 DEF Waits, Begins, Moves, Finishes, DeviceKeeps
  <2>3. AccOutcome = "none" BY <1>7 DEF AccOutcome
  <2>4. AccOutcome' = "none"
    <3>1. CASE ams'.state = "WAIT" BY <3>1 DEF AccOutcome
    <3>2. CASE ams'.state # "WAIT"
      <4>1. FirstBit BY <1>7, <3>2 DEF Holds
      <4>2. device.outcome = "none" BY <4>1 DEF FirstBit, FirstByte, Wire, OnWire, WireSend
      <4>3. device'.outcome = "none"
        BY <2>1, <4>2 DEF Waits, Begins, Moves, Finishes, DeviceKeeps
      <4>4. QED BY <1>3, <4>3 DEF AccOutcome
    <3>3. QED BY <3>1, <3>2
  <2>5. QED BY <1>2, <1>6, <2>2, <2>3, <2>4 DEF SameStep
<1>8. CASE ams.state \in {"WRITE", "READ"}
  <2>0. ams'.state = ams.state BY <1>8 DEF Holds
  <2>1. AccOutcome = device.outcome /\ AccOutcome' = device'.outcome
    BY <1>3, <1>8, <2>0 DEF AccOutcome
  <2>2. CASE Waits \/ Moves \/ Finishes
    BY <1>2, <1>6, <2>1, <2>2 DEF SameStep, Waits, Moves, Finishes, DeviceKeeps
  <2>3. CASE Begins
    <3>1. i2c.state = "RESTART" BY <1>8, <2>3 DEF Begins, Inv, Transfers
    <3>2. QED BY <1>2, <1>6, <2>1, <2>3, <3>1 DEF SameStep, Begins
  <2>4. CASE Takes
    <3>1. i2c.busy /\ (i2c.read_op <=> ams.state = "READ")
      BY <1>1, <1>8, <2>4 DEF Takes, Inv, Transfers, Handshake
    <3>2. device.outcome = "none" BY <2>4 DEF Takes
    <3>3. /\ TheOp.dev = ams.address.dev /\ TheOp.reg = ams.address.reg
          /\ TheOp.data = ams.writedata /\ TheOp.read = Reading
      BY DEF TheOp
    <3>4. CASE device'.outcome = "refused" /\ device'.mem = device.mem
      BY <1>2, <1>6, <2>1, <3>2, <3>4 DEF RefuseStep
    <3>5. CASE /\ i2c.word = "WRITE" /\ device'.outcome = "done" /\ ams.address.dev = Own
               /\ device'.mem = [device.mem EXCEPT ![ams.address.reg] = ams.writedata]
      <4>1. ~i2c.read_op BY <2>4, <3>5 DEF Takes, Wire, OnWire, Kinds
      <4>2. ~Reading BY <1>1, <1>8, <3>1, <4>1 DEF Reading, Commands, Holds
      <4>3. QED BY <1>2, <1>6, <2>1, <3>2, <3>3, <3>5, <4>2 DEF ServeStep
    <3>6. CASE /\ i2c.word = "DEVICE" /\ i2c.read_bit = 1 /\ device'.outcome = "done"
               /\ ams.address.dev = Own /\ device'.mem = device.mem
      <4>1. i2c.read_op BY <2>4, <3>6 DEF Takes, Wire, OnWire, Kinds
      <4>2. Reading BY <3>1, <4>1 DEF Reading
      <4>3. QED BY <1>2, <1>6, <2>1, <3>2, <3>3, <3>6, <4>2 DEF ServeStep
    <3>7. QED BY <2>4, <3>4, <3>5, <3>6 DEF Takes
  <2>5. QED BY <2>2, <2>3, <2>4
<1>9. QED BY <1>7, <1>8 DEF Holds

LEMMA InitServes == ASSUME Init PROVE Access!Init
<1>1. /\ device.mem = [b \in Byte |-> Zero] /\ host.value = Zero
      /\ ams.state = "RESET" /\ ~ams.readdatavalid
  BY DEF Init
<1>2. device.mem \in [Byte -> Byte] BY <1>1, BusFacts
<1>3. ~Active BY <1>1 DEF Active
<1>4. QED BY <1>1, <1>2, <1>3 DEF Access!Init

LEMMA StepServes ==
  ASSUME Inv, Wire, [Next]_vars, Stretches = 0
  PROVE  [Access!Next]_Access!accessVars
<1>1. CASE Clock
  <2>1. Waits \/ Begins \/ Moves \/ Takes \/ Finishes BY <1>1, ClockOnWire DEF Wire
  <2>2. Wire' BY <1>1, <2>1, ClockOnWire, ClockAnswered, ClockAsked DEF Wire
  <2>3. AskStep \/ ServeStep \/ RefuseStep \/ ReturnStep \/ SameStep
    BY <1>1, <2>1, <2>2, AmsSteps, StepAsks, StepRests, StepReturns, StepHolds
  <2>4. CASE AskStep
    BY <2>4 DEF AskStep, AccOp, AccOutcome, TheOp, AccCommand, Access!Next, Access!Ask
  <2>5. CASE ServeStep
    BY <2>5 DEF ServeStep, AccOp, AccOutcome, TheOp, Access!Next, Access!Serve
  <2>6. CASE RefuseStep
    BY <2>6 DEF RefuseStep, AccOp, AccOutcome, TheOp, Access!Next, Access!Refuse
  <2>7. CASE ReturnStep
    BY <2>7 DEF ReturnStep, AccOp, AccOutcome, TheOp, Access!Next, Access!Return
  <2>8. CASE SameStep
    BY <2>8 DEF SameStep, AccOp, AccOutcome, TheOp, Access!accessVars
  <2>9. QED BY <2>3, <2>4, <2>5, <2>6, <2>7, <2>8
<1>2. CASE Call \/ Issue
  <2>1. ams' = ams BY <1>2 DEF Call, Issue
  <2>2. device'.mem = device.mem /\ host'.value = host.value /\ device'.outcome = device.outcome
    BY <1>2, InstrWire
  <2>3. QED BY <2>1, <2>2 DEF Access!accessVars, Active, Reading
<1>3. CASE UNCHANGED vars
  <2>1. ams' = ams /\ device' = device /\ host' = host BY <1>3 DEF vars
  <2>2. QED BY <2>1 DEF Access!accessVars, Active, Reading
<1>4. QED BY <1>1, <1>2, <1>3 DEF Next

\* With a device that does not stretch the clock, the bridge implements
\* I2cAccess.
THEOREM BridgeServes == Stretches = 0 => (Spec => ServesAccess)
<1>1. SUFFICES ASSUME Stretches = 0 PROVE Spec => ServesAccess
  OBVIOUS
<1>2. Init => Access!Init BY InitServes
<1>3. Inv /\ Wire /\ [Next]_vars => [Access!Next]_Access!accessVars BY <1>1, StepServes
<1>4. Spec => [](Inv /\ Wire) BY <1>1, WireAlways
<1>5. QED BY <1>2, <1>3, <1>4, PTL DEF Spec, ServesAccess, Access!Spec

(***************************************************************************)
(* The routines.  A write is posted: i2c_write goes on to read the status  *)
(* while the byte is still under way, and that read is what it waits for.  *)
(***************************************************************************)
Writing == ams.write \/ ams.state = "WRITE"
Called ==
  /\ host.pc = "IORD" => host.fn \in {"i2c_read", "i2c_compare"}
  /\ Active => /\ host.pc # "idle"
               /\ ams.address.dev = host.dev /\ ams.address.reg = host.reg
  /\ Writing => ams.writedata = host.data
  /\ Writing /\ ams.waitrequest => host.pc = "IORD status"
  /\ AccOutcome = "refused" /\ ams.address.dev = Own => device.refused
  /\ ams.state = "WRITE" /\ device.outcome = "done" =>
       device.mem[ams.address.reg] = ams.writedata
  /\ host.pc = "IORD status" /\ ~Writing /\ host.dev = Own /\ ~device.refused =>
       device.mem[host.reg] = host.data

LEMMA HostMoves ==
  ASSUME Inv, Clock
  PROVE  /\ host'.dev = host.dev /\ host'.reg = host.reg /\ host'.data = host.data
         /\ ~ams.waitrequest => /\ host'.fn = host.fn
                                /\ host'.pc = IF host.pc = "IOWR" THEN "IORD status" ELSE host.pc
         /\ ams.readdatavalid => host' = Answer(ams.readdata)
         /\ ams.waitrequest /\ ~ams.readdatavalid => host'.fn = host.fn /\ host'.pc = host.pc
<1>1. HostTypes /\ AmsTypes /\ Host BY DEF Inv, Types, TypeInv, HostTypes, AmsTypes, Clock
<1>2. /\ ams.readdatavalid => host.bus = "reply"
      /\ ~ams.waitrequest => host.bus = "request"
  BY DEF Inv, HostSide, Owed
<1>3. CASE ~ams.waitrequest
  BY <1>1, <1>2, <1>3 DEF Host, HostTypes, ams_write
<1>4. CASE ams.readdatavalid
  <2>1. host' = Answer(ams.readdata) BY <1>1, <1>2, <1>4 DEF Host
  <2>2. host'.dev = host.dev /\ host'.reg = host.reg /\ host'.data = host.data
    BY <1>1, <2>1 DEF Answer, Done, HostTypes
  <2>3. QED BY <1>2, <1>4, <2>1, <2>2
<1>5. CASE ams.waitrequest /\ ~ams.readdatavalid
  BY <1>1, <1>5 DEF Host
<1>6. QED BY <1>3, <1>4, <1>5

\* What the status read tells, and a word read.
LEMMA Answers ==
  ASSUME Inv, Clock, ams.readdatavalid
  PROVE  \/ /\ host.pc = "IORD status" /\ host.fn = "i2c_write"
            /\ host'.pc = "idle" /\ host'.fn = "none"
         \/ /\ host.pc = "IORD" /\ host.fn = "i2c_compare" /\ ams.readdata # host.data
            /\ host'.pc = "IOWR" /\ host'.fn = "i2c_write"
         \/ /\ host.pc = "IORD" /\ (host.fn = "i2c_compare" => ams.readdata = host.data)
            /\ host'.pc = "idle" /\ host'.fn = "none" /\ host'.value = ams.readdata
            /\ ~ams.address.status
<1>1. HostTypes /\ AmsTypes BY DEF Inv, Types, TypeInv, HostTypes, AmsTypes
<1>2. /\ host.pc \in {"IORD", "IORD status"}
      /\ host.pc = "IORD status" => host.fn = "i2c_write" /\ ams.readdata = Zero
      /\ host.pc = "IORD" => ~ams.address.status
  BY DEF Inv, HostSide, Owed
<1>3. host' = Answer(ams.readdata) BY HostMoves
<1>4. CASE host.pc = "IORD status"
  <2>1. host' = Done([host EXCEPT !.value = ams.readdata, !.bus = "none"])
    BY <1>2, <1>3, <1>4 DEF Answer
  <2>2. host'.pc = "idle" /\ host'.fn = "none" BY <1>1, <2>1 DEF Done, HostTypes
  <2>3. QED BY <1>2, <1>4, <2>2
<1>5. CASE host.pc = "IORD" /\ host.fn = "i2c_compare" /\ ams.readdata # host.data
  BY <1>1, <1>3, <1>5 DEF Answer, HostTypes
<1>6. CASE host.pc = "IORD" /\ (host.fn = "i2c_compare" => ams.readdata = host.data)
  <2>1. host' = Done([host EXCEPT !.value = ams.readdata, !.bus = "none"])
    BY <1>3, <1>6 DEF Answer
  <2>2. host'.pc = "idle" /\ host'.fn = "none" /\ host'.value = ams.readdata
    BY <1>1, <2>1 DEF Done, HostTypes
  <2>3. QED BY <1>2, <1>6, <2>2
<1>7. QED BY <1>2, <1>4, <1>5, <1>6

\* Whether the byte of the host is under way.
LEMMA WritingMoves ==
  ASSUME Inv, Clock
  PROVE  /\ AsksNow => (Writing' <=> ams_write) /\ ~ams'.waitrequest /\ ~Writing
         /\ Rests \/ ReadsNow => ~Writing' /\ ~Writing
         /\ Wrote => ~Writing' /\ Writing
         /\ Holds => (Writing' <=> Writing) /\ ams'.waitrequest
<1>1. AmsTypes /\ Ams /\ Commands BY DEF Inv, Types, TypeInv, AmsTypes, Clock
<1>2. Commands' BY ClockCommands
<1>3. CASE AsksNow
  <2>1. AmsIdle BY <1>1, <1>3 DEF AsksNow, Ams, AmsIdle, AmsWait, AmsWrite, AmsRead, AmsReset
  <2>2. ~ams'.waitrequest BY <1>1, <1>3, <2>1 DEF AsksNow, AmsIdle, AmsTypes
  <2>3. QED BY <1>1, <1>3, <2>2 DEF AsksNow, Writing, Commands, Rests, ReadsNow, Wrote, Holds
<1>4. CASE Rests \/ ReadsNow \/ Wrote
  BY <1>1, <1>2, <1>4 DEF Rests, ReadsNow, Wrote, Holds, AsksNow, Writing, Commands
<1>5. CASE Holds
  <2>0. ams.state # "IDLE" BY <1>5 DEF Holds
  <2>1. ams'.waitrequest
    <3>1. ams.state # "WAIT" => ams.waitrequest BY DEF Inv, HostSide
    <3>2. CASE AmsWait BY <1>1, <3>2 DEF AmsWait, AmsTypes
    <3>3. CASE AmsWrite \/ AmsRead
      BY <1>1, <3>1, <3>3 DEF AmsWrite, AmsRead, AmsTypes
    <3>4. QED BY <1>1, <1>5, <3>2, <3>3 DEF Ams, AmsIdle, AmsReset, Holds
  <2>2. Writing' <=> Writing
    <3>1. Writing <=> ~(ams.read \/ ams.state = "READ") BY <1>1, <1>5 DEF Writing, Commands, Holds
    <3>2. Writing' <=> ~(ams'.read \/ ams'.state = "READ")
      BY <1>2, <1>5 DEF Writing, Commands, Holds
    <3>3. QED BY <1>5, <3>1, <3>2 DEF Holds
  <2>3. QED BY <1>5, <2>1, <2>2 DEF Holds, AsksNow, Rests, ReadsNow, Wrote
<1>6. QED BY <1>3, <1>4, <1>5, AmsSteps

LEMMA TakesWhen ==
  ASSUME Inv, OnWire, Takes
  PROVE  /\ ams.state \in {"WRITE", "READ"}
         /\ i2c.word = "WRITE" => ams.state = "WRITE"
         /\ i2c.word = "DEVICE" /\ i2c.read_bit = 1 => ams.state = "READ"
<1>1. AmsTypes /\ I2cTypes /\ Handshake /\ Commands
  BY DEF Inv, Types, TypeInv, AmsTypes, I2cTypes
<1>2. i2c.state = "DATA" /\ i2c.busy /\ i2c.bit_cnt # Bits - 1
  BY BusFacts DEF Takes, Inv, Transfers
<1>3. ams.state # "WAIT" BY <1>1, <1>2 DEF Handshake, FirstBit, FirstByte
<1>4. ams.state \in {"WRITE", "READ"} BY <1>1, <1>2, <1>3 DEF Commands, AmsTypes
<1>5. i2c.read_op <=> ams.state = "READ" BY <1>1, <1>2, <1>4 DEF Handshake
<1>6. QED BY <1>2, <1>4, <1>5 DEF OnWire, Kinds

\* A refusal and a byte stored are known when they happen.
LEMMA ClockRefused ==
  ASSUME Inv, Wire, Called, Clock, Waits \/ Begins \/ Moves \/ Takes \/ Finishes
  PROVE  /\ AccOutcome' = "refused" /\ ams'.address.dev = Own => device'.refused
         /\ ams'.state = "WRITE" /\ device'.outcome = "done" =>
              device'.mem[ams'.address.reg] = ams'.writedata
         /\ ~Takes => device'.refused = device.refused /\ device'.mem = device.mem
<1>1. AmsTypes /\ I2cTypes /\ DeviceTypes
  BY DEF Inv, Types, TypeInv, AmsTypes, I2cTypes
<1>2. ~Takes => device'.refused = device.refused /\ device'.mem = device.mem
  BY DEF Waits, Begins, Moves, Finishes, DeviceKeeps
<1>3. CASE AsksNow \/ Rests \/ Wrote
  BY <1>2, <1>3 DEF AsksNow, Rests, Wrote, AccOutcome, Active
<1>4. CASE ReadsNow
  <2>1. Waits BY <1>4, IdleWaits DEF ReadsNow
  <2>2. AccOutcome' = AccOutcome
    BY <1>4, <2>1 DEF ReadsNow, AccOutcome, Active, Waits, DeviceKeeps
  <2>3. QED BY <1>2, <1>4, <2>1, <2>2 DEF ReadsNow, Waits, DeviceKeeps, Called
<1>5. CASE Holds /\ ams'.state # ams.state
  <2>1. FirstBit /\ ams.state = "WAIT" BY <1>5 DEF Holds
  <2>2. device.outcome = "none" BY <2>1 DEF FirstBit, FirstByte, Wire, OnWire, WireSend
  <2>3. ~Takes BY <2>1, TakesWhen DEF Wire
  <2>4. device'.outcome = "none"
    BY <2>2, <2>3 DEF Waits, Begins, Moves, Finishes, DeviceKeeps
  <2>5. AccOutcome' = "none" BY <2>4 DEF AccOutcome
  <2>6. QED BY <1>2, <2>4, <2>5
<1>6. CASE Holds /\ ams'.state = ams.state
  <2>1. ams.state = "WAIT" => ams'.state = "WAIT" /\ AccOutcome' = "none"
    BY <1>6 DEF AccOutcome
  <2>2. ams.state # "WAIT" => AccOutcome = device.outcome /\ AccOutcome' = device'.outcome
    BY <1>6 DEF AccOutcome, Active, Holds
  <2>3. CASE Waits \/ Moves \/ Finishes
    BY <1>2, <1>6, <2>1, <2>2, <2>3 DEF Called, Holds, Waits, Moves, Finishes, DeviceKeeps
  <2>4. CASE Begins
    BY <1>2, <1>6, <2>1, <2>2, <2>4 DEF Begins
  <2>5. CASE Takes
    <3>1. ams.state # "WAIT" BY <2>5, TakesWhen DEF Wire
    <3>2. AccOutcome' = "refused" /\ ams'.address.dev = Own => device'.refused
      <4>1. ams'.address = ams.address BY <1>6 DEF Holds
      <4>2. QED BY <2>2, <2>5, <3>1, <4>1 DEF Takes
    <3>3. ams'.state = "WRITE" /\ device'.outcome = "done" =>
            device'.mem[ams'.address.reg] = ams'.writedata
      <4>1. SUFFICES ASSUME ams.state = "WRITE", device'.outcome = "done"
                     PROVE  device'.mem[ams.address.reg] = ams.writedata
        BY <1>6 DEF Holds
      <4>2. ~(i2c.word = "DEVICE" /\ i2c.read_bit = 1) BY <2>5, <4>1, TakesWhen DEF Wire
      <4>3. device'.mem = [device.mem EXCEPT ![ams.address.reg] = ams.writedata]
        BY <2>5, <4>1, <4>2 DEF Takes
      <4>4. QED BY <1>1, <4>3 DEF DeviceTypes, AmsTypes
    <3>4. QED BY <2>5, <3>2, <3>3
  <2>6. QED BY <2>3, <2>4, <2>5
<1>7. QED BY <1>3, <1>4, <1>5, <1>6, AmsSteps

LEMMA ClockWritten ==
  ASSUME Inv, Wire, Called, Clock, Waits \/ Begins \/ Moves \/ Takes \/ Finishes,
         host'.pc = "IORD status", ~Writing', host'.dev = Own, ~device'.refused
  PROVE  device'.mem[host'.reg] = host'.data
<1>1. AmsTypes /\ HostTypes BY DEF Inv, Types, TypeInv, AmsTypes, HostTypes
<1>2. host'.dev = host.dev /\ host'.reg = host.reg /\ host'.data = host.data BY HostMoves
<1>3. CASE Writing
  <2>1. Wrote BY <1>3, WritingMoves, AmsSteps
  <2>2. Waits BY <2>1, IdleWaits DEF Wrote
  <2>3. Active /\ ams.state = "WRITE" BY <2>1 DEF Wrote, Active
  <2>4. device.outcome # "none" /\ device.outcome \in {"none", "done", "refused"}
    BY <2>1 DEF Wire, Answered, Wrote, Inv, Types, DeviceTypes
  <2>5. AccOutcome = device.outcome BY <2>3 DEF AccOutcome
  <2>6. ams.address.dev = Own /\ ams.address.reg = host.reg /\ ams.writedata = host.data
    BY <1>2, <1>3, <2>3 DEF Called
  <2>7. ~device.refused /\ device'.mem = device.mem BY <2>2 DEF Waits, DeviceKeeps
  <2>8. device.outcome = "done" BY <2>4, <2>5, <2>6, <2>7 DEF Called
  <2>9. QED BY <1>2, <2>3, <2>6, <2>7, <2>8 DEF Called
<1>4. CASE ~Writing
  <2>1. host.pc = "IORD status"
    <3>1. CASE ~ams.waitrequest
      <4>1. host.pc # "IOWR" BY <1>4, <3>1 DEF Inv, HostSide, Writing
      <4>2. QED BY <3>1, <4>1, HostMoves
    <3>2. CASE ams.readdatavalid BY <3>2, Answers
    <3>3. CASE ams.waitrequest /\ ~ams.readdatavalid BY <3>3, HostMoves
    <3>4. QED BY <3>1, <3>2, <3>3
  <2>2. CASE ~Takes
    BY <1>2, <1>4, <2>1, <2>2, ClockRefused DEF Called
  <2>3. CASE Takes
    <3>1. ams.state = "READ" BY <1>4, <2>3, TakesWhen DEF Wire, Writing
    <3>2. ams.address.dev = Own BY <1>2, <3>1 DEF Called, Active
    <3>3. i2c.word # "WRITE" BY <2>3, <3>1, TakesWhen DEF Wire
    <3>4. device'.mem = device.mem /\ device'.refused = device.refused
      BY <2>3, <3>2, <3>3 DEF Takes
    <3>5. QED BY <1>2, <1>4, <2>1, <3>4 DEF Called
  <2>4. QED BY <2>2, <2>3
<1>5. QED BY <1>3, <1>4

LEMMA ClockCalled ==
  ASSUME Inv, Wire, Called, Clock, Waits \/ Begins \/ Moves \/ Takes \/ Finishes
  PROVE  Called'
<1>1. AmsTypes /\ HostTypes BY DEF Inv, Types, TypeInv, AmsTypes, HostTypes
<1>2. host'.dev = host.dev /\ host'.reg = host.reg /\ host'.data = host.data BY HostMoves
<1>3. host'.pc = "IORD" => host'.fn \in {"i2c_read", "i2c_compare"}
  <2>1. CASE ams.readdatavalid BY <2>1, Answers
  <2>2. CASE ~ams.readdatavalid
    BY <2>2, HostMoves DEF Called
  <2>3. QED BY <2>1, <2>2
<1>4. ~ams.readdatavalid /\ host.pc # "idle" => host'.pc # "idle" BY HostMoves
<1>5. Active' => /\ host'.pc # "idle"
                 /\ ams'.address.dev = host'.dev /\ ams'.address.reg = host'.reg
  <2>1. CASE AsksNow
    <3>1. host.pc # "idle" /\ ~ams.readdatavalid BY <2>1 DEF AsksNow, ams_write, ams_read
    <3>2. ams'.address = ams_address BY <2>1, Zenon DEF AsksNow
    <3>3. ams_address.dev = host.dev /\ ams_address.reg = host.reg BY DEF ams_address
    <3>4. ams'.address.dev = host.dev /\ ams'.address.reg = host.reg BY <3>2, <3>3, Zenon
    <3>5. QED BY <1>2, <1>4, <3>1, <3>4
  <2>2. CASE Rests \/ Wrote BY <2>2 DEF Rests, Wrote, Active
  <2>3. CASE Holds \/ ReadsNow
    <3>1. Active /\ ~ams.readdatavalid /\ ams'.address = ams.address
      BY <2>3 DEF Holds, ReadsNow, Active
    <3>2. QED BY <1>2, <1>4, <3>1 DEF Called
  <2>4. QED BY <2>1, <2>2, <2>3, AmsSteps
<1>6. Writing' => ams'.writedata = host'.data
  <2>1. CASE AsksNow BY <1>2, <2>1, WritingMoves DEF AsksNow
  <2>2. CASE Rests \/ Wrote \/ ReadsNow BY <2>2, WritingMoves
  <2>3. CASE Holds
    <3>1. ams'.writedata = ams.writedata BY <2>3 DEF Holds
    <3>2. QED BY <1>2, <2>3, <3>1, WritingMoves DEF Called
  <2>4. QED BY <2>1, <2>2, <2>3, AmsSteps
<1>7. Writing' /\ ams'.waitrequest => host'.pc = "IORD status"
  <2>1. CASE AsksNow BY <2>1, WritingMoves
  <2>2. CASE Rests \/ Wrote \/ ReadsNow BY <2>2, WritingMoves
  <2>3. CASE Holds
    <3>1. SUFFICES ASSUME Writing PROVE host'.pc = "IORD status" BY <2>3, WritingMoves
    <3>2. CASE ams.waitrequest
      <4>1. host.pc = "IORD status" /\ ~ams.readdatavalid BY <2>3, <3>1, <3>2 DEF Called, Holds
      <4>2. QED BY <3>2, <4>1, HostMoves
    <3>3. CASE ~ams.waitrequest
      <4>1. ams.state = "WAIT" /\ (ams.write <=> host.pc = "IOWR") BY <3>3 DEF Inv, HostSide
      <4>2. host.pc = "IOWR" BY <3>1, <4>1 DEF Writing
      <4>3. QED BY <3>3, <4>2, HostMoves
    <3>4. QED BY <3>2, <3>3
  <2>4. QED BY <2>1, <2>2, <2>3, AmsSteps
<1>8. /\ AccOutcome' = "refused" /\ ams'.address.dev = Own => device'.refused
      /\ ams'.state = "WRITE" /\ device'.outcome = "done" =>
           device'.mem[ams'.address.reg] = ams'.writedata
  BY ClockRefused
<1>9. host'.pc = "IORD status" /\ ~Writing' /\ host'.dev = Own /\ ~device'.refused =>
        device'.mem[host'.reg] = host'.data
  BY ClockWritten
<1>10. QED BY <1>3, <1>5, <1>6, <1>7, <1>8, <1>9, Zenon DEF Called

LEMMA InstrCalled ==
  ASSUME Inv, Wire, Called, Call \/ Issue
  PROVE  Called'
<1>1. ams' = ams BY DEF Call, Issue
<1>2. Active' = Active /\ (Writing' <=> Writing) BY <1>1 DEF Active, Writing
<1>3. device'.mem = device.mem /\ device'.outcome = device.outcome BY InstrWire
<1>4. AccOutcome' = AccOutcome BY <1>1, <1>2, <1>3 DEF AccOutcome
<1>5. HostTypes /\ DeviceTypes BY DEF Inv, Types, TypeInv, HostTypes
<1>6. CASE Issue
  <2>1. device' = device /\ host'.fn = host.fn /\ host'.pc = host.pc /\ host'.dev = host.dev
        /\ host'.reg = host.reg /\ host'.data = host.data
    BY <1>5, <1>6 DEF Issue, HostTypes
  <2>2. QED BY <1>1, <1>2, <1>4, <2>1 DEF Called
<1>7. CASE Call
  <2>1. host.pc = "idle" BY <1>7 DEF Call, Inv, HostSide
  <2>2. ~Active BY <2>1 DEF Called
  <2>3. ~Writing /\ ams.state # "WRITE"
    BY <2>2 DEF Active, Writing, Inv, Commands
  <2>4. AccOutcome = "none" BY <2>2 DEF AccOutcome
  <2>5. /\ host'.pc = "IORD" => host'.fn \in {"i2c_read", "i2c_compare"}
        /\ host'.pc # "IORD status"
    <3>1. PICK fn \in {"i2c_write", "i2c_read", "i2c_compare"}, dev \in Devs,
           reg \in Regs, data \in Data :
         /\ fn = "i2c_read" => data = CHOOSE b \in Data : TRUE
         /\ host' = [host EXCEPT !.fn = fn, !.dev = dev, !.reg = reg, !.data = data,
                       !.retry = Retries, !.pc = IF fn = "i2c_write" THEN "IOWR" ELSE "IORD"]
      BY <1>7 DEF Call
    <3>2. host'.fn = fn /\ host'.pc = IF fn = "i2c_write" THEN "IOWR" ELSE "IORD"
      BY <1>5, <3>1 DEF HostTypes
    <3>3. QED BY <3>2
  <2>6. QED BY <1>1, <1>2, <1>4, <2>2, <2>3, <2>4, <2>5 DEF Called
<1>8. QED BY <1>6, <1>7

LEMMA InitCalled == ASSUME Init PROVE Called
BY DEF Init, Called, Active, Writing, AccOutcome

LEMMA StutterCalled == ASSUME Called, UNCHANGED vars PROVE Called'
BY DEF Called, Active, Writing, AccOutcome, vars

LEMMA CalledAlways == Stretches = 0 => (Spec => [](Inv /\ Wire /\ Called))
<1>1. SUFFICES ASSUME Stretches = 0 PROVE Spec => [](Inv /\ Wire /\ Called)
  OBVIOUS
<1>2. Init => Called BY InitCalled
<1>3. ASSUME Inv, Wire, Called, [Next]_vars PROVE Called'
  <2>1. CASE Clock BY <1>1, <1>3, <2>1, ClockOnWire, ClockCalled DEF Wire
  <2>2. CASE Call \/ Issue BY <1>3, <2>2, InstrCalled
  <2>3. CASE UNCHANGED vars BY <1>3, <2>3, StutterCalled
  <2>4. QED BY <1>3, <2>1, <2>2, <2>3 DEF Next
<1>4. Spec => [](Inv /\ Wire) BY <1>1, WireAlways
<1>5. QED BY <1>2, <1>3, <1>4, PTL DEF Spec

LEMMA StepCallDone ==
  ASSUME Inv, Wire, Called, [Next]_vars,
         host.fn # "none", host'.fn = "none", host.dev = Own, ~device.refused
  PROVE  device.mem[host.reg] = IF host.fn = "i2c_read" THEN host'.value ELSE host.data
<1>1. Clock
  <2>1. ~Call BY DEF Call
  <2>2. ~Issue
    <3>1. HostTypes BY DEF Inv, Types, TypeInv, HostTypes
    <3>2. QED BY <3>1 DEF Issue, HostTypes
  <2>3. ~UNCHANGED vars BY DEF vars
  <2>4. QED BY <2>1, <2>2, <2>3 DEF Next
<1>2. ams.readdatavalid BY <1>1, HostMoves
<1>3. Active /\ ams.state = "IDLE" BY <1>2 DEF Active, Inv, HostSide
<1>4. ~Writing BY <1>3 DEF Writing, Inv, Commands
<1>5. AccOutcome = device.outcome BY <1>3 DEF AccOutcome
<1>6. ams.address.dev = Own /\ ams.address.reg = host.reg BY <1>3 DEF Called
<1>7. device.outcome # "refused" BY <1>5, <1>6 DEF Called
<1>8. CASE host.pc = "IORD status" /\ host.fn = "i2c_write"
  BY <1>4, <1>8 DEF Called
<1>9. CASE /\ host.pc = "IORD" /\ (host.fn = "i2c_compare" => ams.readdata = host.data)
           /\ host'.value = ams.readdata /\ ~ams.address.status
  <2>1. ams.readdata = device.mem[host.reg]
    BY <1>2, <1>6, <1>7, <1>9 DEF Wire, Answered, Result
  <2>2. host.fn \in {"i2c_read", "i2c_compare"} BY <1>9 DEF Called
  <2>3. QED BY <1>9, <2>1, <2>2
<1>10. QED BY <1>1, <1>2, <1>8, <1>9, Answers

\* With a device that does not stretch the clock, a routine that the device
\* refuses nothing leaves the register and the argument or result equal.
THEOREM CallsDoWhatTheySay == Stretches = 0 => (Spec => CallDone)
<1>1. SUFFICES ASSUME Stretches = 0 PROVE Spec => CallDone
  OBVIOUS
<1>2. Inv /\ Wire /\ Called /\ [Next]_vars =>
        [host.fn # "none" /\ host'.fn = "none" /\ host.dev = Own /\ ~device.refused =>
           device.mem[host.reg] = IF host.fn = "i2c_read" THEN host'.value ELSE host.data]_vars
  BY StepCallDone
<1>3. Spec => [](Inv /\ Wire /\ Called) BY <1>1, CalledAlways
<1>4. QED BY <1>2, <1>3, PTL DEF Spec, CallDone
=============================================================================
