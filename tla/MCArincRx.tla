----------------------------- MODULE MCArincRx ------------------------------
(***************************************************************************)
(* The receive channel for TLC: two labels, a ring of three words (five    *)
(* words of RAM), so that the head wraps, the write address wraps, the     *)
(* count passes the size of the ring and saturates.                        *)
(***************************************************************************)
EXTENDS ArincRxController

MCTop == 5
MCLo  == 2
FifoMode    == {FALSE}
AddressMode == {TRUE}
BothModes   == BOOLEAN

\* A host that chooses the mode once.
OneModeSpec == Init /\ [][Next /\ UNCHANGED addrMode]_vars
=============================================================================
