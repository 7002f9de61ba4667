------------------------------ MODULE FlowMap ------------------------------
(***************************************************************************)
(* What the flow table promises: a partial map from keys to action lists   *)
(* that the vswitchd core changes atomically, one flow at a time, and from *)
(* which the switching cores take the actions they execute.  A flow is     *)
(* neither replaced nor removed while a core is executing its actions.     *)
(***************************************************************************)
CONSTANTS Key, Action, Core

VARIABLES
    flows,    \* the pairs <<key, actions>> in the table
    running   \* for each core the flow it is executing: a set of at most one

vars == <<flows, running>>

Init ==
    /\ flows = {}
    /\ running = [c \in Core |-> {}]

InUse(f) == \E c \in Core : f \in running[c]

Install(k, a) ==
    /\ \A f \in flows : f[1] # k
    /\ flows' = flows \cup {<<k, a>>}
    /\ UNCHANGED running

Replace(k, a) ==
    \E f \in flows :
        /\ f[1] = k
        /\ ~ InUse(f)
        /\ flows' = (flows \ {f}) \cup {<<k, a>>}
        /\ UNCHANGED running

Remove(f) ==
    /\ f \in flows
    /\ ~ InUse(f)
    /\ flows' = flows \ {f}
    /\ UNCHANGED running

Execute(c, f) ==
    /\ running[c] = {}
    /\ f \in flows
    /\ running' = [running EXCEPT ![c] = {f}]
    /\ UNCHANGED flows

Finish(c) ==
    /\ running[c] # {}
    /\ running' = [running EXCEPT ![c] = {}]
    /\ UNCHANGED flows

Next ==
    \/ \E k \in Key, a \in Action : Install(k, a) \/ Replace(k, a)
    \/ \E f \in flows : Remove(f)
    \/ \E c \in Core, f \in flows : Execute(c, f)
    \/ \E c \in Core : Finish(c)

Spec == Init /\ [][Next]_vars
=============================================================================
