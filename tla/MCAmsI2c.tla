------------------------------ MODULE MCAmsI2c ------------------------------
(***************************************************************************)
(* The bridge for TLC: bytes of two bits, so an address has one bit and    *)
(* the read bit; the device at address 1 and nobody at address 0; two      *)
(* registers, two values; three edges of clock between two moments, the    *)
(* fewest the two-stage synchronizer of i2c_busy needs to be seen at all.  *)
(***************************************************************************)
EXTENDS AmsI2c

MCOwn  == <<1>>
MCDevs == {<<0>>, <<1>>}
MCRegs == {<<0, 1>>, <<1, 0>>}
MCData == {<<0, 1>>, <<1, 1>>}

\* For the run that stretches the clock: one of each.
OneDev == {<<1>>}
OneReg == {<<0, 1>>}
OneByte == {<<1, 1>>}
=============================================================================
