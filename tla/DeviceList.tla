----------------------------- MODULE DeviceList -----------------------------
(***************************************************************************)
(* The configuration list of vhost devices (virtio-net.c).  CUSE hands the *)
(* number that new_device returns back with every later call on the file   *)
(* (vhost-net-cdev.c), and the device is looked up by that number.         *)
(***************************************************************************)
EXTENDS Integers, Sequences, FiniteSets

CONSTANTS
    File,        \* open files of the character device
    NumDevices,  \* num_devices
    MaxReset     \* bound: calls of VHOST_RESET_OWNER

ASSUME ListAssumption == NumDevices \in Nat /\ MaxReset \in Nat

VARIABLES
    ll,               \* ll_root ...: device_fh, and the file it was made for
    num_cur_devices,
    fh,               \* fi->fh of the open files
    resets            \* calls of VHOST_RESET_OWNER so far

listVars == <<ll, num_cur_devices, fh, resets>>
-----------------------------------------------------------------------------
Closed == -1
Entry  == [device_fh : Nat, file : File]

ListTypeOK ==
    /\ ll \in Seq(Entry)
    /\ num_cur_devices \in 0 .. NumDevices
    /\ fh \in [File -> Nat \cup {Closed}]
    /\ resets \in 0 .. MaxReset

ListInit ==
    /\ ll = <<>>
    /\ num_cur_devices = 0
    /\ fh = [f \in File |-> Closed]
    /\ resets = 0

\* The positions at which get_config_ll_entry stops for the number n.
get_config_ll_entry(n) ==
    {i \in 1 .. Len(ll) : /\ ll[i].device_fh = n
                          /\ \A j \in 1 .. i - 1 : ll[j].device_fh # n}

\* Faulty: the entries after entry k are lost as well.
Removed_tail(k) == SubSeq(ll, 1, k - 1)

\* The list with e after the first k entries, and the list without entry k.
Inserted(k, e) == [i \in 1 .. Len(ll) + 1 |-> IF i <= k THEN ll[i]
                       ELSE IF i = k + 1 THEN e ELSE ll[i - 1]]
Removed(k) == [i \in 1 .. Len(ll) - 1 |-> IF i < k THEN ll[i] ELSE ll[i + 1]]

\* The list begins with the numbers 0 .. k - 1, and k is not the next.
Run(k) == /\ \A j \in 1 .. k : ll[j].device_fh = j - 1
          /\ k < Len(ll) => ll[k + 1].device_fh # k

\* Faulty: the new device gets the number after the last.
add_config_ll_entry_last(f) ==
    LET n == IF ll = <<>> THEN 0 ELSE ll[Len(ll)].device_fh + 1 IN
    /\ ll' = Inserted(Len(ll), [device_fh |-> n, file |-> f])
    /\ fh' = [fh EXCEPT ![f] = n]

\* Faulty: the new device gets a free number and goes to the end.
add_config_ll_entry_append(f) ==
    \E k \in 0 .. Len(ll) :
        /\ Run(k)
        /\ ll' = Inserted(Len(ll), [device_fh |-> k, file |-> f])
        /\ fh' = [fh EXCEPT ![f] = k]

\* A new device goes, with the first free number, to where the run of
\* consecutive numbers ends that the list begins with.
add_config_ll_entry(f) ==
    \E k \in 0 .. Len(ll) :
        /\ Run(k)
        /\ ll' = Inserted(k, [device_fh |-> k, file |-> f])
        /\ fh' = [fh EXCEPT ![f] = k]

\* vhost_net_open: beyond num_devices the open fails.
new_device(f) ==
    /\ fh[f] = Closed /\ num_cur_devices # NumDevices
    /\ add_config_ll_entry(f)
    /\ num_cur_devices' = num_cur_devices + 1
    /\ UNCHANGED resets

\* vhost_net_release.  The count goes down whether or not the device is found.
destroy_device(f) ==
    /\ fh[f] # Closed
    /\ LET found == get_config_ll_entry(fh[f]) IN
         \/ found = {} /\ UNCHANGED ll
         \/ \E k \in found : ll' = Removed(k)
    /\ fh' = [fh EXCEPT ![f] = Closed]
    /\ num_cur_devices' = num_cur_devices - 1
    /\ UNCHANGED resets

\* init_device sets every field after virtqueue to 0, device_fh included.  A
\* number that is not found is a null pointer here, and ends the process.
reset_owner(f) ==
    /\ fh[f] # Closed /\ resets < MaxReset
    /\ \E k \in get_config_ll_entry(fh[f]) : ll' = [ll EXCEPT ![k].device_fh = 0]
    /\ resets' = resets + 1
    /\ UNCHANGED <<num_cur_devices, fh>>

ListNext == \E f \in File : new_device(f) \/ destroy_device(f) \/ reset_owner(f)

ListSpec == ListInit /\ [][ListNext]_listVars
-----------------------------------------------------------------------------
(* Properties *)

\* As long as no device is reset, the number that CUSE keeps for an open file
\* leads get_config_ll_entry to the device that was made for that file.
FindsOwnDevice ==
    resets = 0 => \A f \in File : fh[f] # Closed =>
                      \E k \in get_config_ll_entry(fh[f]) : ll[k].file = f

Opened == {f \in File : fh[f] # Closed}

\* num_cur_devices, which new_device compares with num_devices, is the number
\* of open files, also when destroy_device does not find a device; and until a
\* device is reset it is the number of devices in the list.
Counted     == num_cur_devices = Len(ll)
OpenCounted == num_cur_devices = Cardinality(Opened)
CountAgrees == OpenCounted /\ (resets = 0 => Counted)

Number  == [f \in Opened |-> fh[f]]
Numbers == INSTANCE DeviceNumbers WITH number <- Number

\* Until a device is reset the list implements DeviceNumbers: a number stands for
\* one file until the file is closed, and an open that succeeds gives out the
\* smallest free one.
KeepsPromise ==
    /\ Numbers!Init
    /\ [][resets' = 0 => Numbers!Next \/ UNCHANGED Number]_listVars

\* The invariant behind them: the numbers ascend, and the entries are exactly
\* those of the open files.
Ascending == \A i, j \in 1 .. Len(ll) : i < j => ll[i].device_fh < ll[j].device_fh

ListInv ==
    /\ Ascending
    /\ \A i \in 1 .. Len(ll) : fh[ll[i].file] = ll[i].device_fh
    /\ \A f \in File : fh[f] # Closed => \E i \in 1 .. Len(ll) : ll[i].file = f
    /\ Counted
=============================================================================
