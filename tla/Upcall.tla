------------------------------- MODULE Upcall -------------------------------
(***************************************************************************)
(* Waking up the dispatcher of ovs-vswitchd.  A core of the datapath that  *)
(* has a packet for the daemon (send_packet_to_vswitchd) puts it into      *)
(* packet_ring and, if the ring was empty before, sends a datagram to the  *)
(* socket that the dispatcher sleeps on (udpif_dispatcher, with            *)
(* dpif_dpdk_recv and dpif_dpdk_recv_wait).                                *)
(*                                                                         *)
(* What the packets hold is left out: packet_ring is the number of entries *)
(* and sock the number of datagrams.  Ring operations and system calls are *)
(* steps of their own, since nothing orders the cores and the dispatcher.  *)
(***************************************************************************)
EXTENDS Integers, FiniteSets

CONSTANTS
    Core,       \* the cores that switch packets
    RingSize,   \* VSWITCHD_RINGSIZE - 1: packets that fit in the ring
    SockSize    \* datagrams that the socket holds

ASSUME UpcallAssumption ==
    /\ IsFiniteSet(Core)
    /\ RingSize \in Nat \ {0} /\ SockSize \in Nat \ {0}

VARIABLES
    packet_ring,   \* packets in the ring
    sock,          \* datagrams in dpdk_sock
    core,          \* send_packet_to_vswitchd on each core, with cnt
    dispatcher     \* recv_upcalls and poll_block, with error

vars == <<packet_ring, sock, core, dispatcher>>

CoreState == [step : {"idle", "count", "enqueue", "check", "sendto"},
              cnt : 0 .. RingSize]
DispatcherState == [step : {"recv", "handled", "poll"}, error : BOOLEAN]

TypeOK ==
    /\ packet_ring \in 0 .. RingSize
    /\ sock \in 0 .. SockSize
    /\ core \in [Core -> CoreState]
    /\ dispatcher \in DispatcherState

Init ==
    /\ packet_ring = 0 /\ sock = 0
    /\ core = [c \in Core |-> [step |-> "idle", cnt |-> 0]]
    /\ dispatcher = [step |-> "recv", error |-> FALSE]
-----------------------------------------------------------------------------
(* send_packet_to_vswitchd *)

Goto(c, step) == core' = [core EXCEPT ![c].step = step]

\* A packet misses the flow table; it is dropped if the upcall information
\* does not fit in front of it.
prepend(c) ==
    /\ core[c].step = "idle"
    /\ \/ Goto(c, "count")
       \/ Goto(c, "idle")
    /\ UNCHANGED <<packet_ring, sock, dispatcher>>

\* cnt = rte_ring_count(vswitchd_packet_ring)
count(c) ==
    /\ core[c].step = "count"
    /\ core' = [core EXCEPT ![c] = [step |-> "enqueue", cnt |-> packet_ring]]
    /\ UNCHANGED <<packet_ring, sock, dispatcher>>

\* With no room the packet is dropped.
enqueue(c) ==
    /\ core[c].step = "enqueue"
    /\ \/ /\ packet_ring < RingSize
          /\ packet_ring' = packet_ring + 1
          /\ Goto(c, "check")
       \/ /\ packet_ring = RingSize
          /\ Goto(c, "idle")
          /\ UNCHANGED packet_ring
    /\ UNCHANGED <<sock, dispatcher>>

\* Faulty: the count is that of after the packet.
check_after(c) ==
    /\ core[c].step = "check"
    /\ Goto(c, IF packet_ring = 0 THEN "sendto" ELSE "idle")
    /\ UNCHANGED <<packet_ring, sock, dispatcher>>

\* Faulty: every packet has its signal.
check_always(c) ==
    /\ core[c].step = "check"
    /\ Goto(c, "sendto")
    /\ UNCHANGED <<packet_ring, sock, dispatcher>>

\* cnt == 0 && rte_ring_count(vswitchd_packet_ring) > 0
check(c) ==
    /\ core[c].step = "check"
    /\ Goto(c, IF core[c].cnt = 0 /\ packet_ring > 0 THEN "sendto" ELSE "idle")
    /\ UNCHANGED <<packet_ring, sock, dispatcher>>

\* Both sockets are non-blocking, and the error of a full one is ignored.
send_signal_to_dpif(c) ==
    /\ core[c].step = "sendto"
    /\ sock' = IF sock < SockSize THEN sock + 1 ELSE sock
    /\ Goto(c, "idle")
    /\ UNCHANGED <<packet_ring, dispatcher>>
-----------------------------------------------------------------------------
(* udpif_dispatcher *)

\* dpif_dpdk_recv takes a packet, or has EAGAIN ... (It returns at once for a
\* command other than OVS_PACKET_CMD_MISS and OVS_PACKET_CMD_ACTION;
\* switch_packet, the only sender, sets the first.)
dpif_dpdk_recv ==
    /\ dispatcher.step = "recv"
    /\ dispatcher' = [step |-> "handled", error |-> packet_ring = 0]
    /\ packet_ring' = IF packet_ring > 0 THEN packet_ring - 1 ELSE 0
    /\ UNCHANGED <<sock, core>>

\* ... and in either case takes a datagram from the socket, if there is one.
\* recv_upcalls goes on until there is an error.
SIGNAL_HANDLED ==
    /\ dispatcher.step = "handled"
    /\ sock' = IF sock > 0 THEN sock - 1 ELSE 0
    /\ dispatcher' = [dispatcher EXCEPT !.step =
                          IF dispatcher.error THEN "poll" ELSE "recv"]
    /\ UNCHANGED <<packet_ring, core>>

\* dpif_recv_wait and poll_block: asleep until there is a datagram.
poll_block ==
    /\ dispatcher.step = "poll"
    /\ sock > 0
    /\ dispatcher' = [dispatcher EXCEPT !.step = "recv"]
    /\ UNCHANGED <<packet_ring, sock, core>>
-----------------------------------------------------------------------------
Send(c) == count(c) \/ enqueue(c) \/ check(c) \/ send_signal_to_dpif(c)
Dispatcher == dpif_dpdk_recv \/ SIGNAL_HANDLED \/ poll_block

Next == Dispatcher \/ \E c \in Core : prepend(c) \/ Send(c)

Spec == Init /\ [][Next]_vars

\* Every core finishes the call it is in, and the dispatcher runs unless it is
\* asleep.  Nothing says that packets arrive.
FairSpec == Spec /\ WF_vars(Dispatcher) /\ \A c \in Core : WF_vars(Send(c))
-----------------------------------------------------------------------------
(* Properties *)

\* A core that queued a packet after it had found the ring empty gets a
\* dispatcher that sleeps to run, whatever other cores do in the meantime.
SleeperIsWoken ==
    \A c \in Core :
        (/\ dispatcher.step = "poll" /\ packet_ring > 0
         /\ core[c].step = "check" /\ core[c].cnt = 0)
        ~> (dispatcher.step = "recv")

\* The cores that owe a signal, and those that have found the ring empty but
\* have not put their packet into it yet.
Owing == {c \in Core : \/ core[c].step = "sendto"
                       \/ core[c].step = "check" /\ core[c].cnt = 0}
Found == {c \in Core : core[c].step = "enqueue" /\ core[c].cnt = 0}

\* Signals do not pile up, however long the dispatcher takes: each core can
\* have one that is stale and one that is not, so that the errors that
\* send_signal_to_dpif does not care about need a very small socket.
SignalsBounded == sock <= 2 * Cardinality(Core) + 1

\* Its inductive strengthening.  Every signal beyond one for each core has its
\* packet in the ring, except for the one that SIGNAL_HANDLED is about to take.
SignalInv ==
    /\ sock + Cardinality(Owing)
         <= packet_ring + Cardinality(Core) + (IF dispatcher.step = "handled" THEN 1 ELSE 0)
    /\ sock + Cardinality(Owing) + Cardinality(Found) <= 2 * Cardinality(Core) + 1

\* A packet in the ring gets the dispatcher to read one, in the end.
PacketIsRead ==
    (packet_ring > 0) ~> (dispatcher.step = "handled" /\ ~ dispatcher.error)
=============================================================================
