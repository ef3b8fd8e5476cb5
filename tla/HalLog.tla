------------------------------- MODULE HalLog -------------------------------
(***************************************************************************)
(* The log of the HAL (alt_log_printf.c), which this build switches on,    *)
(* and alt_printf: the two format machines and the numbers they print, the *)
(* wait for room in the port before each character, the echo of write, the *)
(* heartbeat of the system clock and the report alarm.                     *)
(*                                                                         *)
(* lg is one job at a time; its fields depend on lg.job.  Words are        *)
(* LgNibbles nibbles wide; on this processor long is int, so that 'l' in a *)
(* format is read and makes no difference.                                 *)
(***************************************************************************)
EXTENDS Integers, Sequences, SequencesExt

CONSTANTS LgNibbles,    \* width of a word
          LgWidths,     \* widths in a number format; -1: none
          LgFormats,    \* formats, sequences of characters
          LgFifo,       \* room of the port
          LgMessages,   \* messages of interrupt handlers
          LgTexts,      \* what is written
          ECHO_LEN, INTERVAL, LgTicks

ASSUME LgAssumption == /\ LgNibbles \in Nat \ {0} /\ LgFifo \in Nat \ {0} /\ LgWidths \subseteq Int
                       /\ LgMessages \in Nat /\ ECHO_LEN \in Nat \ {0, 1} /\ INTERVAL \in Nat \ {0}
                       /\ LgTexts \subseteq Seq(STRING)

VARIABLE lg

\* 16 ^ n, and the first number that a word cannot hold.
Sixteen[n \in 0 .. LgNibbles] == IF n = 0 THEN 1 ELSE 16 * Sixteen[n - 1]
LgLimit == Sixteen[LgNibbles]
LgWords == 0 .. LgLimit - 1
Repeat(c, n) == [i \in 1 .. (IF n > 0 THEN n ELSE 0) |-> c]     \* alt_log_repchar

-----------------------------------------------------------------------------
(* Printing a number: strip the sign, count the digits and find the        *)
(* largest place, pad, then one digit after the other.  A digit is itself, *)
(* blank and minus are the numbers below.                                  *)
Blank == -1
Minus == -2
Negative(v, f) == f.signed /\ v >= LgLimit \div 2
Magnitude(v, f) == IF Negative(v, f) THEN LgLimit - v ELSE v
DigitCount(base) == LET count[v \in LgWords] == IF v \div base > 0 THEN 1 + count[v \div base] ELSE 1
                    IN  count
LargestPlace(base) == LET place[v \in LgWords] == IF v \div base > 0 THEN base * place[v \div base] ELSE 1
                      IN  place
Digits(v, p, base) ==
  LET from[k \in LgWords \X LgWords] == IF k[2] = 0 THEN <<>>
                                ELSE <<k[1] \div k[2]>> \o from[<<k[1] % k[2], k[2] \div base>>]
  IN  from[<<v, p>>]
Padding(width, zero, sign) == LET w == IF sign THEN width - 1 ELSE width
                                  minus == IF sign THEN <<Minus>> ELSE <<>>
                              IN  IF zero THEN minus \o Repeat(0, w) ELSE Repeat(Blank, w) \o minus
doIntegerPrint(v, f) ==
  LET m == Magnitude(v, f)
  IN  Padding(f.width - DigitCount(f.base)[m], f.zero, Negative(v, f))
        \o Digits(m, LargestPlace(f.base)[m], f.base)

(* alt_printf has hexadecimal numbers only: nibbles from the first that    *)
(* is not zero.                                                            *)
Nibble(v, i) == (v \div Sixteen[i]) % 16
alt_printf_x(v) ==
  IF v = 0 THEN <<0>>
  ELSE LET first == CHOOSE i \in 0 .. LgNibbles - 1 :
                      Nibble(v, i) # 0 /\ \A j \in i + 1 .. LgNibbles - 1 : Nibble(v, j) = 0
       IN  [k \in 1 .. first + 1 |-> Nibble(v, first + 1 - k)]

NumberInit == \E v \in LgWords, b \in {8, 10, 16}, s \in BOOLEAN, z \in BOOLEAN, w \in LgWidths :
                lg = [job |-> "number", v |-> v, out |-> <<>>,
                      f |-> [base |-> b, signed |-> s /\ b = 10, zero |-> z, width |-> w]]
Number == /\ lg.job = "number" /\ lg.out = <<>>
          /\ lg' = [lg EXCEPT !.out = doIntegerPrint(lg.v, lg.f)]

-----------------------------------------------------------------------------
(* The two format machines, a character a step: the log's with its three   *)
(* states and alt_printf's with a letter right after the '%'.  An item of  *)
(* output is a character or an argument with the way to print it.          *)
Decimals == [c \in {"0", "1", "2"} |-> CASE c = "0" -> 0 [] c = "1" -> 1 [] OTHER -> 2]
IsDigit(c) == c \in DOMAIN Decimals
Literal(c) == [is |-> c]
Item(conv, fmt, arg) == [is |-> conv, width |-> fmt.before, arg |-> arg,
                         zero |-> fmt.zero /\ conv \notin {"c", "s"}]
NoFormat == [zero |-> FALSE, before |-> -1, after |-> -1]
Letters == {"d", "u", "o", "x", "X", "c", "s"}

FormatInit == \E w \in LgFormats :
                lg = [job |-> "format", w |-> w, state |-> "chars", fmt |-> NoFormat, out |-> <<>>,
                      alt |-> "chars", altOut |-> <<>>, odd |-> FALSE]
Args(out) == Len(SelectSeq(out, LAMBDA i : "arg" \in DOMAIN i))
Emit(i) == [out |-> Append(lg.out, i), state |-> "chars", fmt |-> lg.fmt]
Shift(n, c) == (IF n < 0 THEN 0 ELSE n * 10) + Decimals[c]
OtherFmtChar(c) ==
  LET going(fmt) == [out |-> lg.out, state |-> "other", fmt |-> fmt]
  IN  CASE c = "." -> going([lg.fmt EXCEPT !.after = 0])
        [] IsDigit(c) /\ lg.fmt.after < 0 -> going([lg.fmt EXCEPT !.before = Shift(@, c)])
        [] IsDigit(c) /\ lg.fmt.after >= 0 -> going([lg.fmt EXCEPT !.after = Shift(@, c)])
        [] c = "l" -> going(lg.fmt)
        [] c \in Letters -> Emit(Item(c, lg.fmt, Args(lg.out)))
        [] OTHER -> [out |-> lg.out, state |-> "chars", fmt |-> lg.fmt]
FirstFmtChar(c) == CASE c = "0" -> [out |-> lg.out, state |-> "other", fmt |-> [lg.fmt EXCEPT !.zero = TRUE]]
                     [] c = "%" -> Emit(Literal(c))
                     [] OTHER -> OtherFmtChar(c)
Chars(c) == IF c = "%" THEN [out |-> lg.out, state |-> "first", fmt |-> NoFormat] ELSE Emit(Literal(c))
alt_log_private_printf(c) == CASE lg.state = "chars" -> Chars(c)
                               [] lg.state = "first" -> FirstFmtChar(c)
                               [] OTHER -> OtherFmtChar(c)
alt_printf(c) ==
  IF lg.alt = "chars"
  THEN IF c = "%" THEN [out |-> lg.altOut, state |-> "first", odd |-> FALSE]
       ELSE [out |-> Append(lg.altOut, Literal(c)), state |-> "chars", odd |-> FALSE]
  ELSE CASE c = "%" -> [out |-> Append(lg.altOut, Literal(c)), state |-> "chars", odd |-> FALSE]
         [] c \in {"c", "x", "s"} -> [out |-> Append(lg.altOut, Item(c, NoFormat, Args(lg.altOut))),
                                      state |-> "chars", odd |-> FALSE]
         [] OTHER -> [out |-> lg.altOut, state |-> "chars", odd |-> TRUE]
Format == /\ lg.job = "format" /\ lg.w # <<>>
          /\ LET n == alt_log_private_printf(Head(lg.w))
                 a == alt_printf(Head(lg.w))
             IN  lg' = [job |-> "format", w |-> Tail(lg.w), state |-> n.state, fmt |-> n.fmt, out |-> n.out,
                        alt |-> a.state, altOut |-> a.out, odd |-> lg.odd \/ a.odd]

-----------------------------------------------------------------------------
(* One character: wait until the port has room, then put it.  Interrupt    *)
(* handlers print in the same way, to the end, wherever they break in; the *)
(* port drops what it has no room for.                                     *)
MainText == <<"m1", "m2", "m3">>
IsrText == <<"i1", "i2">>
Voices == [main |-> MainText, isr |-> IsrText]
PrintInit == lg = [job |-> "print", room |-> LgFifo, out |-> <<>>, lost |-> 0, races |-> 0,
                   messages |-> 0, todo |-> [main |-> MainText, isr |-> <<>>],
                   ready |-> [main |-> FALSE, isr |-> FALSE]]
Runs(who) == lg.job = "print" /\ lg.todo[who] # <<>> /\ (who = "main" => lg.todo.isr = <<>>)
\* Mutant: the port is not asked for room.
LookNothing(who) == /\ Runs(who) /\ ~lg.ready[who]
                    /\ lg' = [lg EXCEPT !.ready[who] = TRUE]
LookRoom(who) == /\ Runs(who) /\ ~lg.ready[who] /\ lg.room > 0
                 /\ lg' = [lg EXCEPT !.ready[who] = TRUE]
PutChar(who) ==
  /\ Runs(who) /\ lg.ready[who]
  /\ lg' = [lg EXCEPT !.ready[who] = FALSE, !.todo[who] = Tail(@),
              !.out = IF lg.room > 0 THEN Append(@, Head(lg.todo[who])) ELSE @,
              !.room = IF @ > 0 THEN @ - 1 ELSE 0, !.lost = IF lg.room > 0 THEN @ ELSE @ + 1]
BreakIn == /\ lg.job = "print" /\ lg.messages < LgMessages /\ lg.todo.isr = <<>>
           /\ lg' = [lg EXCEPT !.todo.isr = IsrText, !.messages = @ + 1,
                               !.races = IF lg.ready.main THEN @ + 1 ELSE @]
HostReads == /\ lg.job = "print" /\ lg.room < LgFifo
             /\ lg' = [lg EXCEPT !.room = @ + 1]
Port == (\E who \in {"main", "isr"} : LookRoom(who) \/ PutChar(who)) \/ BreakIn \/ HostReads

-----------------------------------------------------------------------------
(* The echo of a write: cut to ECHO_LEN, the last character given up for   *)
(* the end of the line, EOT turned into 'D'; printing stops at a NUL.      *)
EchoInit == \E t \in LgTexts : lg = [job |-> "echo", text |-> t, buf |-> <<>>, done |-> FALSE]
UpToNul(s) == LET i == SelectInSeq(s, LAMBDA c : c = "NUL")
              IN  IF i = 0 THEN s ELSE SubSeq(s, 1, i - 1)
EchoLength(len) == IF ECHO_LEN > len THEN len ELSE ECHO_LEN
alt_log_write ==
  LET n == EchoLength(Len(lg.text))
      given == UpToNul(lg.text)      \* strncpy stops there and fills up with NUL
      copy == [i \in 1 .. n |-> IF i = n THEN "\n" ELSE IF i > Len(given) THEN "NUL"
                                ELSE IF given[i] = "EOT" THEN "D" ELSE given[i]]
  IN  /\ lg.job = "echo" /\ ~lg.done
      /\ lg' = [lg EXCEPT !.done = TRUE, !.buf = IF n < 2 THEN @ ELSE copy \o <<"\r", "NUL">>]

-----------------------------------------------------------------------------
(* The heartbeat, called on every tick, and the report alarm, called when  *)
(* it is due and never again after it answered 0.                          *)
ClockInit == \E on \in BOOLEAN : lg = [job |-> "clock", on |-> on, count |-> 0, sec |-> 0,
                                       ticks |-> 0, heard |-> 0, reporting |-> TRUE]
Beats(count) == count + 1 > INTERVAL
alt_log_system_clock ==
  IF ~lg.on THEN lg ELSE
  IF Beats(lg.count) THEN [lg EXCEPT !.count = 0, !.sec = @ + 1, !.heard = @ + 1]
  ELSE [lg EXCEPT !.count = @ + 1, !.heard = @ + 1]
altera_avalon_jtag_uart_report_log(l) == IF l.on THEN l ELSE [l EXCEPT !.reporting = FALSE]
Tick == /\ lg.job = "clock" /\ lg.ticks < LgTicks
        /\ \E due \in BOOLEAN :
             LET l == [alt_log_system_clock EXCEPT !.ticks = @ + 1]
             IN  lg' = IF due /\ lg.reporting THEN altera_avalon_jtag_uart_report_log(l) ELSE l
TurnFlag == lg.job = "clock" /\ lg' = [lg EXCEPT !.on = ~@]

(* What ALT_LOG_FLAGS switches on.                                         *)
BOOT_ON == {1, 2, 3, 0}
SYS_CLK_ON == {1, 2, 3}
WRITE_ON == {2, 3}
JTAG_UART_ALARM_ON == {2, 3}
JTAG_UART_STARTUP_INFO_ON == {1, 2, 3}
JTAG_UART_ISR_ON == {3}
Flags(level) == {f \in {<<"boot", BOOT_ON>>, <<"clock", SYS_CLK_ON>>, <<"write", WRITE_ON>>,
                        <<"alarm", JTAG_UART_ALARM_ON>>, <<"startup", JTAG_UART_STARTUP_INFO_ON>>,
                        <<"isr", JTAG_UART_ISR_ON>>} : level \in f[2]}

LgInit == NumberInit \/ FormatInit \/ PrintInit \/ EchoInit \/ ClockInit
LgNext == Number \/ Format \/ Port \/ alt_log_write \/ Tick \/ TurnFlag
LgSpec == LgInit /\ [][LgNext]_lg

-----------------------------------------------------------------------------
(* A number comes out with its value, without leading zeros of its own,    *)
(* exactly as wide as asked or as it must be, its sign before the zeros    *)
(* and after the blanks; alt_printf prints the same hexadecimal number.    *)
ValueOf(ds, base) == FoldLeft(LAMBDA a, d : a * base + d, 0, ds)
NumberRight ==
  lg.job = "number" /\ lg.out # <<>> =>
    \E n \in 1 .. Len(lg.out) :
      LET pad == SubSeq(lg.out, 1, n - 1)
          ds == SubSeq(lg.out, n, Len(lg.out))
          minus == IF Negative(lg.v, lg.f) THEN <<Minus>> ELSE <<>>
          blanks == Len(pad) - Len(minus)
      IN  /\ \A i \in 1 .. Len(ds) : ds[i] \in 0 .. lg.f.base - 1
          /\ ValueOf(ds, lg.f.base) = Magnitude(lg.v, lg.f)
          /\ Len(ds) > 1 => ds[1] # 0
          /\ blanks > 0 => Len(lg.out) = lg.f.width
          /\ blanks = 0 => Len(lg.out) >= lg.f.width
          /\ pad = IF lg.f.zero THEN minus \o Repeat(0, blanks) ELSE Repeat(Blank, blanks) \o minus
          /\ lg.f.base = 16 => ds = alt_printf_x(lg.v)

(* Both printers print the same from every format that alt_printf knows    *)
(* all of, and give its arguments to the same places.                      *)
PrintersAgree == lg.job = "format" /\ lg.w = <<>> /\ ~lg.odd => lg.out = lg.altOut

(* A character of the log is lost only to a message that came between the  *)
(* look at the port and the put, one at most for each; what arrives of a   *)
(* message is in order.                                                    *)
FewLost == lg.job = "print" =>
             /\ lg.lost <= lg.races
             /\ \A i, j \in DOMAIN lg.out : \A m, n \in DOMAIN MainText :
                  i < j /\ lg.out[i] = MainText[m] /\ lg.out[j] = MainText[n] => m < n
             /\ lg.todo.main = <<>> /\ lg.todo.isr = <<>> =>
                  Len(lg.out) + lg.lost = Len(MainText) + 2 * lg.messages

(* The echo stays in its buffer, holds what was written but for its last   *)
(* character, and never the EOT that would close the terminal.             *)
EchoSafe == lg.job = "echo" /\ lg.done /\ lg.buf # <<>> =>
              /\ Len(lg.buf) <= ECHO_LEN + 2 /\ "EOT" \notin Range(UpToNul(lg.buf))
              /\ \A i \in 1 .. Len(lg.buf) - 3 : lg.text[i] # "EOT" /\ i <= Len(UpToNul(lg.text)) =>
                   lg.buf[i] = lg.text[i]

(* A beat comes with every INTERVAL + 1 of the ticks at which the flag was *)
(* on, however it is turned in between, and with no other tick.            *)
BeatsInTime == lg.job = "clock" => lg.sec * (INTERVAL + 1) + lg.count = lg.heard /\ lg.count <= INTERVAL

(* A higher level logs all that a lower one does; -1 logs nothing.         *)
LevelsGrow == /\ \A a, b \in -1 .. 3 : a <= b => Flags(a) \subseteq Flags(b)
              /\ Flags(-1) = {}

LgSafe == NumberRight /\ PrintersAgree /\ FewLost /\ EchoSafe /\ BeatsInTime /\ LevelsGrow
=============================================================================
