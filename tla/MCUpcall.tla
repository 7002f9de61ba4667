------------------------------ MODULE MCUpcall ------------------------------
(* Small instances of module Upcall. *)
EXTENDS Upcall

CONSTANTS c1, c2
=============================================================================
