---------------------------- MODULE MCFlowTable ----------------------------
(***************************************************************************)
(* Instances of FlowTable.  All keys share one bucket, so that a position  *)
(* freed by one key is taken again by the other.                           *)
(***************************************************************************)
EXTENDS FlowTable

MCBucket == [k \in Key |-> Pos]
=============================================================================
