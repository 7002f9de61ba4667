--------------------------- MODULE DeviceNumbers ----------------------------
(***************************************************************************)
(* What the list of vhost devices promises to CUSE: every open file has a  *)
(* number of its own, the smallest that was free when it was opened, and   *)
(* the number stands for the device of that file until the file is closed. *)
(***************************************************************************)
EXTENDS Integers

CONSTANTS File, NumDevices

VARIABLE number   \* [open files -> Nat]

Used == {number[f] : f \in DOMAIN number}

Init == number = [f \in {} |-> 0]

Open(f) ==
    /\ f \notin DOMAIN number
    /\ \E n \in 0 .. NumDevices - 1 :
           /\ n \notin Used /\ 0 .. n - 1 \subseteq Used
           /\ number' = [g \in DOMAIN number \cup {f} |->
                             IF g = f THEN n ELSE number[g]]

Close(f) ==
    /\ f \in DOMAIN number
    /\ number' = [g \in DOMAIN number \ {f} |-> number[g]]

Next == \E f \in File : Open(f) \/ Close(f)

Spec == Init /\ [][Next]_number
=============================================================================
