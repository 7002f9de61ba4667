---------------------------- MODULE VhostDevice -----------------------------
(***************************************************************************)
(* The life of a vhost device.  The CUSE thread (vhost-net-cdev.c,         *)
(* virtio-net.c, vhost.c) handles one call of QEMU after the other: it     *)
(* maps the guest's memory, attaches the device to the vport of the same   *)
(* name and detaches it again.  The lcores (main.c, vport.c) take the      *)
(* device from the vport and work in its memory without a lock; before     *)
(* memory is released, destroy_device raises dev_removal_flag on every     *)
(* lcore and waits until each has lowered it at the top of its loop.       *)
(*                                                                         *)
(* QEMU is external: it switches a queue on only when the memory is mapped *)
(* (hw/vhost.c, hw/vhost_net.c), and may go away at any time.  It never    *)
(* sends VHOST_RESET_OWNER; module DeviceList has that call.               *)
(***************************************************************************)
EXTENDS Integers, FiniteSets

CONSTANTS
    Dev,            \* open files of the character device
    NoDev,          \* NULL
    NumVhost,       \* num_vhost: the vhost vports are 0 .. NumVhost - 1
    Name,           \* names of vports and of tap interfaces
    Tap,            \* [Dev -> Name]: the name of a device's tap interface
    Lcore,
    vswitchd_core,  \* the lcore that serves the requests of the daemon
    NumDevices,     \* num_devices
    MaxBypass       \* bound: how often the handshake is passed by

ASSUME DeviceAssumption ==
    /\ NoDev \notin Dev /\ NumVhost \in Nat /\ Tap \in [Dev -> Name]
    /\ vswitchd_core \in Lcore /\ NumDevices \in Nat
    /\ MaxBypass \in Nat

VARIABLES
    dev,      \* the configuration list: a record for each device
    vport,    \* vports[VHOST0 + i]: name and vhost.dev
    flag,     \* dev_removal_flag
    op,       \* the call that the CUSE thread is executing
    core,     \* what an lcore is doing
    bypasses  \* vports renamed, and running devices remapped, so far

vars == <<dev, vport, flag, op, core, bypasses>>
-----------------------------------------------------------------------------
Port  == 0 .. NumVhost - 1
Queue == {"rx", "tx"}

\* mem is "freed" when dev->mem points to memory that is unmapped and freed.
Device == [open : BOOLEAN, mem : {"none", "mapped", "freed"},
           backend : SUBSET Queue, running : BOOLEAN]

Closed == [open |-> FALSE, mem |-> "none", backend |-> {}, running |-> FALSE]

Vport == [name : Name, dev : Dev \cup {NoDev}]

\* close: the file is being closed; left: lcores still to be asked.
Call == [step : {"idle", "map", "request", "wait", "cleanup"},
         dev : Dev \cup {NoDev}, close : BOOLEAN, left : SUBSET Lcore]

Work == [step : {"top", "work", "use"}, dev : Dev \cup {NoDev}]

Idle == [step |-> "idle", dev |-> NoDev, close |-> FALSE, left |-> {}]

TypeOK ==
    /\ dev \in [Dev -> Device]
    /\ vport \in [Port -> Vport]
    /\ flag \in [Lcore -> {"request", "ack"}]
    /\ op \in Call
    /\ core \in [Lcore -> Work]
    /\ bypasses \in 0 .. MaxBypass

Init ==
    /\ dev = [d \in Dev |-> Closed]
    /\ vport \in [Port -> [name : Name, dev : {NoDev}]]
    /\ \A p, q \in Port : vport[p].name = vport[q].name => p = q
    /\ flag = [c \in Lcore |-> "ack"]
    /\ op = Idle
    /\ core = [c \in Lcore |-> [step |-> "top", dev |-> NoDev]]
    /\ bypasses = 0
-----------------------------------------------------------------------------
(* The CUSE thread *)

Ready(d) == op.step = "idle" /\ dev[d].open

\* The vports that a search for the device's name finds first.
Match(d) == {p \in Port : /\ vport[p].name = Tap[d]
                          /\ \A q \in 0 .. p - 1 : vport[q].name # Tap[d]}

new_device(d) ==
    /\ op.step = "idle" /\ ~ dev[d].open
    /\ Cardinality({e \in Dev : dev[e].open}) < NumDevices
    /\ dev' = [dev EXCEPT ![d] = [Closed EXCEPT !.open = TRUE]]
    /\ UNCHANGED <<vport, flag, op, core, bypasses>>

\* set_mem_table first gives up the old mapping ...
set_mem_table(d) ==
    /\ Ready(d)
    /\ dev' = [dev EXCEPT ![d].mem = IF @ = "none" THEN @ ELSE "freed"]
    /\ op' = [Idle EXCEPT !.step = "map", !.dev = d]
    /\ IF dev[d].running
       THEN bypasses < MaxBypass /\ bypasses' = bypasses + 1
       ELSE UNCHANGED bypasses
    /\ UNCHANGED <<vport, flag, core>>

\* ... and then makes the new one, or fails.
host_memory_map ==
    /\ op.step = "map"
    /\ dev' = [dev EXCEPT ![op.dev].mem = "mapped"]
    /\ op' = Idle
    /\ UNCHANGED <<vport, flag, core, bypasses>>

host_memory_map_fails ==
    /\ op.step = "map"
    /\ op' = Idle
    /\ UNCHANGED <<dev, vport, flag, core, bypasses>>

\* VHOST_NET_SET_BACKEND with a file descriptor.  The second queue attaches
\* the device, unless its name cannot be had or no vport has it.  Only the CUSE
\* thread looks at VIRTIO_DEV_RUNNING, which new_device sets after vport_vhost_up:
\* no thread can tell the two apart.
set_backend(d, q) ==
    LET both == dev[d].backend \cup {q} = Queue IN
    /\ Ready(d) /\ dev[d].mem = "mapped"
    /\ \/ /\ both /\ ~ dev[d].running /\ Match(d) # {}
          /\ dev' = [dev EXCEPT ![d].backend = @ \cup {q},
                                ![d].running = TRUE]
          /\ vport' = [p \in Port |-> IF p \in Match(d)
                           THEN [vport[p] EXCEPT !.dev = d] ELSE vport[p]]
       \/ /\ dev' = [dev EXCEPT ![d].backend = @ \cup {q}]
          /\ UNCHANGED vport
    /\ UNCHANGED <<flag, op, core, bypasses>>

\* Faulty: the lcores are asked, but the vport keeps the pointer.
Detach_nothing(d, close) ==
    /\ op' = [step |-> "request", dev |-> d, close |-> close, left |-> Lcore]
    /\ UNCHANGED vport

\* vhost.c destroy_device: leave the vport and ask the lcores, or give up
\* when no vport has the device's name.
Detach(d, close) ==
    \/ /\ Match(d) # {}
       /\ vport' = [p \in Port |-> IF p \in Match(d)
                        THEN [vport[p] EXCEPT !.dev = NoDev] ELSE vport[p]]
       /\ op' = [step |-> "request", dev |-> d, close |-> close,
                 left |-> Lcore]
    \/ /\ Match(d) = {}
       /\ op' = IF close THEN [Idle EXCEPT !.step = "cleanup", !.dev = d]
                         ELSE Idle
       /\ UNCHANGED vport

\* VHOST_NET_SET_BACKEND with -1.
clear_backend(d, q) ==
    /\ Ready(d)
    /\ dev' = [dev EXCEPT ![d].backend = @ \ {q},
                          ![d].running = @ /\ Match(d) # {}]
    /\ IF dev[d].running THEN Detach(d, FALSE) ELSE UNCHANGED <<vport, op>>
    /\ UNCHANGED <<flag, core, bypasses>>

\* The file is closed, also when QEMU dies.
destroy_device(d) ==
    /\ Ready(d)
    /\ IF dev[d].running
       THEN Detach(d, TRUE)
       ELSE /\ op' = [Idle EXCEPT !.step = "cleanup", !.dev = d]
            /\ UNCHANGED vport
    /\ UNCHANGED <<dev, flag, core, bypasses>>

request(c) ==
    /\ op.step = "request" /\ c \in op.left
    /\ flag' = [flag EXCEPT ![c] = "request"]
    /\ op' = [op EXCEPT !.left = @ \ {c},
                        !.step = IF op.left = {c} THEN "wait" ELSE @]
    /\ UNCHANGED <<dev, vport, core, bypasses>>

\* Faulty: the flags are not waited for.
wait_nothing ==
    /\ op.step = "wait"
    /\ dev' = [dev EXCEPT ![op.dev].running = FALSE]
    /\ op' = IF op.close THEN [Idle EXCEPT !.step = "cleanup", !.dev = op.dev]
                         ELSE Idle
    /\ UNCHANGED <<vport, flag, core, bypasses>>

\* Every lcore has acknowledged.
wait ==
    /\ op.step = "wait"
    /\ \A c \in Lcore : flag[c] = "ack"
    /\ dev' = [dev EXCEPT ![op.dev].running = FALSE]
    /\ op' = IF op.close THEN [Idle EXCEPT !.step = "cleanup", !.dev = op.dev]
                         ELSE Idle
    /\ UNCHANGED <<vport, flag, core, bypasses>>

\* cleanup_device and free_device.
rm_config_ll_entry ==
    /\ op.step = "cleanup"
    /\ dev' = [dev EXCEPT ![op.dev] = Closed]
    /\ op' = Idle
    /\ UNCHANGED <<vport, flag, core, bypasses>>

Cuse ==
    \/ host_memory_map \/ host_memory_map_fails
    \/ \E c \in Lcore : request(c)
    \/ wait \/ rm_config_ll_entry

Qemu ==
    \E d \in Dev :
        \/ new_device(d) \/ set_mem_table(d) \/ destroy_device(d)
        \/ \E q \in Queue : set_backend(d, q) \/ clear_backend(d, q)
-----------------------------------------------------------------------------
(* The lcores *)

\* Faulty: nothing is acknowledged.
lcore_main_deaf(c) ==
    /\ core[c].step = "top"
    /\ core' = [core EXCEPT ![c].step = "work"]
    /\ UNCHANGED <<dev, vport, flag, op, bypasses>>

\* The top of the loop of lcore_main.
lcore_main(c) ==
    /\ core[c].step = "top"
    /\ flag' = [flag EXCEPT ![c] = "ack"]
    /\ core' = [core EXCEPT ![c].step = "work"]
    /\ UNCHANGED <<dev, vport, op, bypasses>>

\* receive_from_vhost or flush_vhost_dev_port_cache loads vhost.dev; NULL
\* means that there is nothing to do.
load_dev(c, p) ==
    /\ core[c].step = "work"
    /\ vport[p].dev # NoDev
    /\ core' = [core EXCEPT ![c] = [step |-> "use", dev |-> vport[p].dev]]
    /\ UNCHANGED <<dev, vport, flag, op, bypasses>>

\* vhost_dequeue_burst or vhost_enqueue_burst returns.
done_with_dev(c) ==
    /\ core[c].step = "use"
    /\ core' = [core EXCEPT ![c] = [step |-> "work", dev |-> NoDev]]
    /\ UNCHANGED <<dev, vport, flag, op, bypasses>>

loop(c) ==
    /\ core[c].step = "work"
    /\ core' = [core EXCEPT ![c].step = "top"]
    /\ UNCHANGED <<dev, vport, flag, op, bypasses>>

\* vport_cmd_new on a vport that the daemon has deleted gives it a new name.
vport_set_name(p, n) ==
    /\ core[vswitchd_core].step = "work"
    /\ bypasses < MaxBypass
    /\ vport' = [vport EXCEPT ![p].name = n]
    /\ bypasses' = bypasses + 1
    /\ UNCHANGED <<dev, flag, op, core>>
-----------------------------------------------------------------------------
Next ==
    \/ Qemu \/ Cuse
    \/ \E c \in Lcore : \/ lcore_main(c) \/ done_with_dev(c) \/ loop(c)
                        \/ \E p \in Port : load_dev(c, p)
    \/ \E p \in Port, n \in Name : vport_set_name(p, n)

Spec == Init /\ [][Next]_vars

\* Every lcore goes round its loop: a burst ends, and the number of ports to
\* serve in a round is finite.  The CUSE thread goes on with its call.
FairSpec ==
    /\ Spec /\ WF_vars(Cuse)
    /\ \A c \in Lcore : /\ WF_vars(lcore_main(c)) /\ WF_vars(done_with_dev(c))
                        /\ SF_vars(loop(c))
-----------------------------------------------------------------------------
(* Properties *)

\* As long as no vport is renamed and no running device remapped: while an
\* lcore works on a device (vhost_enqueue_burst, vhost_dequeue_burst), the
\* guest's memory stays mapped and the device allocated.
MappedWhileUsed ==
    bypasses = 0 =>
        \A c \in Lcore : core[c].step = "use" => dev[core[c].dev].mem = "mapped"

\* Under the same condition a vport points to a device that is open and
\* running, or to none, whatever the order in which devices of the same name
\* come and go.
AttachedIsRunning ==
    bypasses = 0 =>
        \A p \in Port : vport[p].dev # NoDev =>
            dev[vport[p].dev].open /\ dev[vport[p].dev].running

\* destroy_device, which the CUSE thread executes for all guests, returns.
RemovalReturns == (op.step # "idle") ~> (op.step = "idle")

(* The inductive invariant behind the first two, when no vport is renamed  *)
(* and QEMU leaves the memory of a running device alone.                   *)

Removing(d) == op.dev = d /\ op.step \in {"request", "wait"}

OpInv ==
    /\ op.step # "idle" => op.dev \in Dev
    /\ op.step = "wait" => op.left = {}

DeviceInv(d) ==
    /\ dev[d].running => /\ dev[d].open /\ dev[d].mem = "mapped"
                         /\ Match(d) # {}
    /\ op.dev = d /\ op.step \in {"map", "cleanup"} => ~ dev[d].running
    /\ Removing(d) => dev[d].running

PortInv(p) ==
    vport[p].dev # NoDev => /\ dev[vport[p].dev].running
                            /\ p \in Match(vport[p].dev)
                            /\ ~ Removing(vport[p].dev)

\* An lcore that still works on a device to be removed has not acknowledged.
CoreInv(c) ==
    core[c].step = "use" =>
        /\ core[c].dev \in Dev
        /\ dev[core[c].dev].running
        /\ Removing(core[c].dev) => c \in op.left \/ flag[c] = "request"

Handshake ==
    /\ OpInv
    /\ \A d \in Dev : DeviceInv(d)
    /\ \A p \in Port : PortInv(p)
    /\ \A c \in Lcore : CoreInv(c)
=============================================================================
