---------------------------- MODULE MCPortTable ----------------------------
(* Small instance of module PortTable. *)
EXTENDS PortTable

Client == [type |-> "client", index |-> 0]
Kni == [type |-> "kni", index |-> 0]
Phy0 == [type |-> "phy", index |-> 0]

\* Two clients, a KNI port and a physical port.
Types == [p \in 0 .. 5 |-> <<"vswitchd", "client", "client", "kni", "none", "phy">>[p + 1]]
Defaults == [p \in 0 .. 5 |-> <<"vswitchd", "Client1", "Client2", "KNI0", "", "Port 0">>[p + 1]]

\* One of the names is a default name, and one moves between two types.
Names == {"a", "Client2", "eth0", "m"}
SomeChoices ==
    [n \in Names |-> CASE n = "eth0" -> {Phy0} [] n = "m" -> {Client, Kni}
                       [] OTHER -> {Client}]

ASSUME MCStable == Stable = {"a", "Client2", "eth0"}
=============================================================================
