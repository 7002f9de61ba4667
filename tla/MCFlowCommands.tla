--------------------------- MODULE MCFlowCommands ---------------------------
(* Small instances of module FlowCommands. *)
EXTENDS FlowCommands, TLC

CONSTANTS k1, k2, k3

\* The buckets of the keys overlap.
Overlapping == (k1 :> {0, 2}) @@ (k2 :> {1}) @@ (k3 :> {0})
=============================================================================
