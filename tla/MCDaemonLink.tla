---------------------------- MODULE MCDaemonLink ----------------------------
(* Instances of DaemonLink for TLC. *)
EXTENDS DaemonLink

CONSTANTS t1, t2, m1, m2, m3, m4
=============================================================================
