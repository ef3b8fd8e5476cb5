------------------------------ MODULE VipScaler -------------------------------
(***************************************************************************)
(* The scaler of drivers/vip (Scaler.hpp, Scaler.cpp): its coefficients    *)
(* are written tap by tap into staging registers that the horizontal and   *)
(* the vertical filter share (both begin at register 14), and a write of   *)
(* the phase number commits them to the filter's own memory, in the bank   *)
(* selected for writing.  The core filters with the bank selected for      *)
(* reading, at the same time.                                              *)
(*                                                                         *)
(* A coefficient is named by its filter, its set, its phase and its tap.   *)
(* The program changes coefficients as the two banks are meant to be used: *)
(* it applies a set to the banks that are not read and then reads them.    *)
(***************************************************************************)
EXTENDS Integers, Sequences

CONSTANTS
    VsSets,       \* sets of coefficients
    VsTaps,       \* [h |-> h_taps, v |-> v_taps]
    VsPhases,     \* [h |-> h_phases, v |-> v_phases]
    VsNone        \* what was never written

VARIABLES
    vsStaged,     \* the staging registers
    vsMemory,     \* filter, bank, whether for edges, phase: the taps
    vsWrite,      \* the bank each filter is written in
    vsRead,       \* the bank each filter reads
    vsTodo        \* what is left of the method that runs

vsVars == <<vsStaged, vsMemory, vsWrite, vsRead, vsTodo>>

Filters == {"h", "v"}
CoeffBanks == {0, 1}
Taps(f) == 1 .. VsTaps[f]
Phases(f) == 0 .. VsPhases[f] - 1
Stages == Taps("h") \cup Taps("v")
Coefficient(f, s, i, j) == <<f, s, i, j>>

ASSUME VsAssumption ==
    VsTaps \in [Filters -> Nat \ {0}] /\ VsPhases \in [Filters -> Nat \ {0}]

----------------------------------------------------------------------------
(* The methods, as the sequences of their writes.                          *)

WriteTap(f, s, i, j) ==
    [do |-> "tap", at |-> j, coeff |-> Coefficient(f, s, i, j)]
Commit(f, i, e) == [do |-> "phase", of |-> f, at |-> i, edge |-> e]
WriteTaps(f, s, i) == [j \in Taps(f) |-> WriteTap(f, s, i, j)]

\* Mutant: the phase number is written before its taps.
PhaseFirst(f, s, e, i) == <<Commit(f, i, e)>> \o WriteTaps(f, s, i)

WritePhase(f, s, e, i) == WriteTaps(f, s, i) \o <<Commit(f, i, e)>>

\* write_h_coeffs and write_v_coeffs: one phase after the other.
write_coeffs(f, s, e) ==
    LET n == VsTaps[f] + 1      \* the writes of a phase
    IN  [k \in 1 .. VsPhases[f] * n |-> WritePhase(f, s, e, (k - 1) \div n)[((k - 1) % n) + 1]]

set_write_bank(f, b) == <<[do |-> "bank", of |-> f, bank |-> b]>>
set_read_bank(f, b) == <<[do |-> "read", of |-> f, bank |-> b]>>

\* Mutant: the vertical filter's bank is selected after its coefficients.
ApplyVLate(h, v, hb, vb, e) ==
    set_write_bank("h", hb) \o write_coeffs("h", h, e)
      \o write_coeffs("v", v, e) \o set_write_bank("v", vb)

\* apply and apply_edge
apply(h, v, hb, vb, e) ==
    set_write_bank("h", hb) \o set_write_bank("v", vb)
      \o write_coeffs("h", h, e) \o write_coeffs("v", v, e)

----------------------------------------------------------------------------
VsInit ==
    /\ vsStaged = [j \in Stages |-> VsNone]
    /\ vsMemory = [f \in Filters |-> [b \in CoeffBanks |-> [e \in BOOLEAN |->
                     [i \in Phases(f) |-> [j \in Taps(f) |-> VsNone]]]]]
    /\ vsWrite = [f \in Filters |-> 0] /\ vsRead = [f \in Filters |-> 0]
    /\ vsTodo = <<>>

\* The program applies a set to the banks the core does not read and makes
\* the core read them; or only the coefficients for edges, likewise.
VsApply ==
    /\ vsTodo = <<>>
    /\ \E h, v \in VsSets, e \in BOOLEAN :
         LET hb == 1 - vsRead["h"]  vb == 1 - vsRead["v"]
         IN  vsTodo' = apply(h, v, hb, vb, e) \o set_read_bank("h", hb)
                         \o set_read_bank("v", vb)
    /\ UNCHANGED <<vsStaged, vsMemory, vsWrite, vsRead>>

VsWriteTap(s) ==
    /\ s.do = "tap"
    /\ vsStaged' = [vsStaged EXCEPT ![s.at] = s.coeff]
    /\ UNCHANGED <<vsMemory, vsWrite, vsRead>>

\* The core stores what is staged.
VsCommit(s) ==
    /\ s.do = "phase"
    /\ vsMemory' = [vsMemory EXCEPT ![s.of][vsWrite[s.of]][s.edge][s.at] =
                      [j \in Taps(s.of) |-> vsStaged[j]]]
    /\ UNCHANGED <<vsStaged, vsWrite, vsRead>>

VsSelect(s) ==
    /\ \/ /\ s.do = "bank" /\ vsWrite' = [vsWrite EXCEPT ![s.of] = s.bank]
          /\ UNCHANGED vsRead
       \/ /\ s.do = "read" /\ vsRead' = [vsRead EXCEPT ![s.of] = s.bank]
          /\ UNCHANGED vsWrite
    /\ UNCHANGED <<vsStaged, vsMemory>>

VsStep ==
    /\ vsTodo # <<>>
    /\ LET s == Head(vsTodo)
       IN  VsWriteTap(s) \/ VsCommit(s) \/ VsSelect(s)
    /\ vsTodo' = Tail(vsTodo)

VsNext == VsApply \/ VsStep
VsSpec == VsInit /\ [][VsNext]_vsVars

----------------------------------------------------------------------------
(* Properties.                                                             *)

\* The taps a phase of a filter should have from a set.
Meant(f, s, i) == [j \in Taps(f) |-> Coefficient(f, s, i, j)]
Never(f) == [j \in Taps(f) |-> VsNone]

\* What a commit stores is a whole phase of one set, of that filter and that
\* phase: although both filters stage their taps in the same registers, no
\* coefficient of the other filter or of another phase is left among them
\* (Scaler.cpp 48-75).
VsPhaseWhole ==
    \A f \in Filters, b \in CoeffBanks, e \in BOOLEAN : \A i \in Phases(f) :
        vsMemory[f][b][e][i] \in {Meant(f, s, i) : s \in VsSets} \cup {Never(f)}

\* The core never filters with phases of different sets: as long as a set is
\* applied to the bank that is not read, the bank that is read is not
\* written, whichever filter was programmed last (Scaler.cpp 20-46).
VsReadWhole ==
    \A f \in Filters, e \in BOOLEAN :
        LET read == vsMemory[f][vsRead[f]][e]
        IN  \/ \E s \in VsSets : read = [i \in Phases(f) |-> Meant(f, s, i)]
            \/ read = [i \in Phases(f) |-> Never(f)]

\* Whole phases in memory, and whole sets in the bank that is read.
VsSafe == VsPhaseWhole /\ VsReadWhole

-------------------------------------------------------------------------------
(***************************************************************************)
(* The arithmetic of drivers/vip: VipMath::gcd, VipMath::                  *)
(* quantize_coefficient and the choice of the taps in                      *)
(* ScalerCoefficientsSet::lanczos_generate.  A call chooses its arguments  *)
(* and leaves its result, which the properties compare with what the       *)
(* function is for.                                                        *)
(*                                                                         *)
(* A float is a fraction: vqScale-ths for coefficients (exact in the       *)
(* code's float for the sizes used), a quotient of sizes for the number of *)
(* taps.  The kernel itself (lanczos, sinc, normalisation) is real         *)
(* arithmetic and is left out.                                             *)
(***************************************************************************)

CONSTANTS
    VqMax,        \* bound on the arguments of gcd
    VqScale,      \* coefficients are multiples of 1 / VqScale
    VqValues,     \* the coefficients, in that unit
    VqBits,       \* numbers of integer and of fraction bits
    VqTaps,       \* number_taps
    VqSizes       \* input_size and output_size

ASSUME VqAssumption ==
    /\ VqMax \in Nat /\ VqScale \in Nat \ {0} /\ VqScale % 2 = 0
    /\ VqValues \subseteq Int /\ VqBits \subseteq Nat
    /\ VqTaps \subseteq Nat \ {0} /\ VqSizes \subseteq Nat \ {0}

VARIABLES vqCall, vqResult
vqVars == <<vqCall, vqResult>>

----------------------------------------------------------------------------
(* gcd                                                                     *)

\* Mutant: the recursion stops one remainder early.
GcdEarly[p \in (0 .. VqMax) \X (0 .. VqMax)] ==
    IF p[2] <= 1 THEN p[1] ELSE GcdEarly[<<p[2], p[1] % p[2]>>]
StopsEarly(a, b) == GcdEarly[<<a, b>>]

GcdOrdered[p \in (0 .. VqMax) \X (0 .. VqMax)] ==
    IF p[2] = 0 THEN p[1] ELSE GcdOrdered[<<p[2], p[1] % p[2]>>]
gcd_ordered(a, b) == GcdOrdered[<<a, b>>]

gcd(a, b) == IF a > b THEN gcd_ordered(a, b) ELSE gcd_ordered(b, a)

----------------------------------------------------------------------------
(* quantize_coefficient                                                    *)

Abs(n) == IF n < 0 THEN -n ELSE n

\* (long)(scaled + 0.5f), or - 0.5f below zero: halves go away from zero.
Rounded(n) ==
    LET r == (Abs(n) + VqScale \div 2) \div VqScale
    IN  IF n >= 0 THEN r ELSE -r

Lower(signed, n) == IF signed THEN -(2 ^ n) ELSE 0

\* Mutant: the largest value is one too large.
UpperInclusive(n) == 2 ^ n
Upper(n) == 2 ^ n - 1

quantize_coefficient(signed, ib, fb, v) ==
    LET r == Rounded(v * 2 ^ fb)
        n == ib + fb
    IN  IF r < Lower(signed, n) THEN Lower(signed, n)
        ELSE IF r > Upper(n) THEN Upper(n) ELSE r

----------------------------------------------------------------------------
(* lanczos_generate: the taps in use and where they begin.                 *)

Ceil(n, d) == (n + d - 1) \div d
AtMost(n, m) == IF n > m THEN m ELSE n

\* lobes, from float_lobes: cut to 1 or 2.
Lobes(taps, in, out) ==
    LET whole == IF out < in THEN (taps * out) \div (2 * in) ELSE taps \div 2
    IN  IF whole < 1 THEN 1 ELSE AtMost(whole, 2)

TapsInUse(taps, in, out) ==
    LET l == Lobes(taps, in, out)
        ideal == IF in <= out THEN 2 * l ELSE Ceil(2 * l * in, out)
    IN  AtMost(ideal, taps)

\* Mutant: the taps begin in the middle of the taps.
OffsetAtMiddle(taps, used) == (taps - 1) \div 2

CoeffOffset(taps, used) == ((taps - 1) \div 2) - ((used - 1) \div 2)

window(taps, in, out) ==
    LET used == TapsInUse(taps, in, out)
    IN  [first |-> CoeffOffset(taps, used), used |-> used]

----------------------------------------------------------------------------
VqInit == vqCall = [fn |-> "none"] /\ vqResult = 0

Ready == vqCall.fn = "none"

CallGcd ==
    /\ Ready
    /\ \E a, b \in 0 .. VqMax :
           /\ vqCall' = [fn |-> "gcd", a |-> a, b |-> b]
           /\ vqResult' = gcd(a, b)

CallQuantize ==
    /\ Ready
    /\ \E s \in BOOLEAN, i, f \in VqBits, v \in VqValues :
           /\ i + f < 32    \* asserted
           /\ vqCall' = [fn |-> "quantize", signed |-> s, ib |-> i, fb |-> f,
                         v |-> v]
           /\ vqResult' = quantize_coefficient(s, i, f, v)

CallWindow ==
    /\ Ready
    /\ \E t \in VqTaps, in, out \in VqSizes :
           /\ vqCall' = [fn |-> "window", taps |-> t, in |-> in, out |-> out]
           /\ vqResult' = window(t, in, out)

\* The caller has used the result.
VqDone == ~Ready /\ vqCall' = [fn |-> "none"] /\ vqResult' = 0

VqNext == CallGcd \/ CallQuantize \/ CallWindow \/ VqDone
VqSpec == VqInit /\ [][VqNext]_vqVars

----------------------------------------------------------------------------
(* Properties.                                                             *)

Divides(d, n) == n % d = 0

\* gcd returns the greatest of the common divisors, in whichever order the
\* numbers are given, and with a zero the other number (VipMath.cpp 7-40).
VqGcd ==
    LET c == vqCall
    IN  (c.fn = "gcd" /\ c.a + c.b > 0) =>
            /\ vqResult > 0
            /\ Divides(vqResult, c.a) /\ Divides(vqResult, c.b)
            /\ \A d \in vqResult + 1 .. VqMax :
                  ~(Divides(d, c.a) /\ Divides(d, c.b))

\* A quantised coefficient fits its bits, and is the nearest one that does:
\* no other value of the same bits is nearer (VipMath.cpp 42-61).
VqQuantised ==
    LET c == vqCall
        n == c.ib + c.fb
        fits == (IF c.signed THEN -(2 ^ n) ELSE 0) .. (2 ^ n - 1)
        away(r) == Abs(c.v * 2 ^ c.fb - r * VqScale)
    IN  c.fn = "quantize" =>
            vqResult \in fits /\ \A r \in fits : away(vqResult) <= away(r)

\* The taps given a coefficient exist, there is at least one, and they lie
\* in the middle of the taps to within one (ScalerCoefficientsSet.cpp 25-35).
VqWindow ==
    LET c == vqCall
        after == c.taps - (vqResult.first + vqResult.used)
    IN  c.fn = "window" =>
            /\ vqResult.first >= 0 /\ vqResult.used >= 1 /\ after >= 0
            /\ Abs(vqResult.first - after) <= 1

\* The arithmetic does what the drivers use it for.
VqSafe == VqGcd /\ VqQuantised /\ VqWindow
===============================================================================
