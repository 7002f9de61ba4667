---------------------------- MODULE MCDeviceList ----------------------------
(* Instances of DeviceList for TLC. *)
EXTENDS DeviceList

CONSTANTS f1, f2, f3, f4, f5
=============================================================================
