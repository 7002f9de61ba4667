--------------------------- MODULE MCVhostEnqueue ---------------------------
(***************************************************************************)
(* Instances of VhostEnqueue: the indices wrap around within a run.        *)
(***************************************************************************)
EXTENDS VhostEnqueue
=============================================================================
