--------------------------- MODULE MCVhostDequeue ---------------------------
(***************************************************************************)
(* VhostDequeue for TLC: a ring of three descriptors.                      *)
(***************************************************************************)
EXTENDS VhostDequeue
=============================================================================
