---------------------------- MODULE MCVhostDevice ---------------------------
(***************************************************************************)
(* VhostDevice for TLC: two devices whose tap interfaces have one name.    *)
(***************************************************************************)
EXTENDS VhostDevice

CONSTANTS d1, d2, n1, n2, c1, c2

SameTap == [d \in Dev |-> n1]
=============================================================================
