----------------------------- MODULE DaemonLink -----------------------------
(***************************************************************************)
(* The link between ovs-vswitchd (lib/dpdk-link.c, lib/dpif-dpdk.c) and    *)
(* the datapath (datapath.c): requests and replies travel as mbufs in      *)
(* rings that all threads of the daemon share.  The daemon takes its mbufs *)
(* from alloc_ring and gives them back in free_ring; the core that runs    *)
(* handle_request_from_vswitchd serves both rings from the pool, which it  *)
(* shares with the traffic.                                                *)
(*                                                                         *)
(* A ring operation (DPDK, external) is one step.  Packets to execute are  *)
(* sent several at a time (dpif_dpdk_operate); other requests one by one,  *)
(* and flow and vport requests are told apart by nothing here.             *)
(* Upcalls are here only for the mbufs they hold; module Upcall has their  *)
(* wakeup protocol.                                                        *)
(***************************************************************************)
EXTENDS Integers, Sequences, FiniteSets

CONSTANTS
    Thread,       \* threads of the daemon that make requests
    Mbuf,         \* the mbufs of the pool
    NoMbuf,       \* NULL
    RingSize,     \* VSWITCHD_RINGSIZE - 1: entries that fit in a ring
    Threshold,    \* VSWITCHD_ALLOC_THRESHOLD
    Burst,        \* PKT_BURST_SIZE of the datapath
    MaxBulk,      \* PKT_BURST_SIZE of dpdk-link.c: packets sent at a time
    MaxBusy,      \* mbufs that the traffic can hold
    MaxRequest    \* bound: requests of the daemon

ASSUME LinkAssumption ==
    /\ IsFiniteSet(Thread) /\ IsFiniteSet(Mbuf) /\ NoMbuf \notin Mbuf
    /\ RingSize \in Nat /\ Threshold \in Nat /\ Burst \in Nat \ {0}
    /\ MaxBulk \in Nat \ {0} /\ MaxBulk <= Threshold
    /\ MaxBusy \in Nat /\ MaxRequest \in Nat
    /\ Threshold + Burst <= RingSize + 1

VARIABLES
    pool,          \* free mbufs
    busy,          \* mbufs of packets in the switch
    alloc_ring, message_ring, reply_ring, packet_ring, free_ring,
    thread,        \* a thread of the daemon
    dispatcher,    \* the mbuf of the upcall that the dispatcher reads
    core,          \* the core of handle_request_from_vswitchd
    requests,      \* requests so far
    accepted,      \* history: packets of a request reported as sent
    executed,      \* history: packets of a request executed
    events         \* history: "overlap", two threads have waited for replies
                   \* at a time; "short", there was no mbuf or no room for a
                   \* reply, or no mbuf for the alloc ring

rings == <<alloc_ring, message_ring, reply_ring, packet_ring, free_ring>>
past  == <<requests, accepted, executed>>
vars  == <<pool, busy, rings, thread, dispatcher, core, past, events>>
-----------------------------------------------------------------------------
\* An entry of message_ring or reply_ring; no: the request it belongs to.
Message == [mbuf : Mbuf, family : {"flow", "packet"}, no : 1 .. MaxRequest]
Reply   == [mbuf : Mbuf, no : 1 .. MaxRequest]

\* no: the thread's request; got: the request whose reply it has read.
ThreadState == [step : {"idle", "alloc", "send", "recv", "free"},
                family : {"flow", "packet"}, n : 0 .. MaxBulk, mbufs : Seq(Mbuf),
                no : 0 .. MaxRequest, got : 0 .. MaxRequest]
NoRequest == [step |-> "idle", family |-> "flow", n |-> 0, mbufs |-> <<>>,
              no |-> 0, got |-> 0]
CoreState == [step : {"message", "free", "alloc"}, batch : Seq(Message)]

TypeOK ==
    /\ pool \subseteq Mbuf /\ busy \subseteq Mbuf
    /\ alloc_ring \in Seq(Mbuf) /\ packet_ring \in Seq(Mbuf)
    /\ free_ring \in Seq(Mbuf)
    /\ message_ring \in Seq(Message) /\ reply_ring \in Seq(Reply)
    /\ \A n \in 1 .. 5 : Len(rings[n]) <= RingSize
    /\ thread \in [Thread -> ThreadState]
    /\ dispatcher \in Mbuf \cup {NoMbuf}
    /\ core \in CoreState
    /\ requests \in 0 .. MaxRequest
    /\ accepted \in [1 .. MaxRequest -> 0 .. MaxBulk]
    /\ executed \in [1 .. MaxRequest -> Nat]
    /\ events \subseteq {"overlap", "short"}

Init ==
    /\ pool = Mbuf /\ busy = {}
    /\ alloc_ring = <<>> /\ message_ring = <<>> /\ reply_ring = <<>>
    /\ packet_ring = <<>> /\ free_ring = <<>>
    /\ thread = [t \in Thread |-> NoRequest]
    /\ dispatcher = NoMbuf
    /\ core = [step |-> "message", batch |-> <<>>]
    /\ requests = 0
    /\ accepted = [r \in 1 .. MaxRequest |-> 0]
    /\ executed = [r \in 1 .. MaxRequest |-> 0]
    /\ events = {}

RoomFor(n, ring) == Len(ring) + n <= RingSize
Room(ring) == RoomFor(1, ring)
Least(m, n) == IF m < n THEN m ELSE n
Mbufs(ring) == {ring[i] : i \in DOMAIN ring}
Note(event, happens) ==
    events' = events \cup (IF happens THEN {event} ELSE {})
-----------------------------------------------------------------------------
(* The threads of the daemon *)

\* A caller of dpdk_link_send, or dpif_dpdk_operate with the packets of a batch.
\* dpdk_link_send_bulk refuses more than MaxBulk packets (EINVAL).
request(t, family, n) ==
    /\ thread[t].step = "idle" /\ requests < MaxRequest
    /\ family = "flow" => n = 1
    /\ thread' = [thread EXCEPT ![t] =
            [step |-> "alloc", family |-> family, n |-> n, mbufs |-> <<>>,
             no |-> requests + 1, got |-> 0]]
    /\ requests' = requests + 1
    /\ UNCHANGED <<pool, busy, rings, dispatcher, core, accepted, executed,
                   events>>

\* Then it spins until the alloc ring has all the mbufs it needs.
alloc_mbufs(t) ==
    LET n == thread[t].n IN
    /\ thread[t].step = "alloc"
    /\ Len(alloc_ring) >= n
    /\ thread' = [thread EXCEPT ![t].step = "send",
                                ![t].mbufs = SubSeq(alloc_ring, 1, n)]
    /\ alloc_ring' = SubSeq(alloc_ring, n + 1, Len(alloc_ring))
    /\ UNCHANGED <<pool, busy, message_ring, reply_ring, packet_ring,
                   free_ring, dispatcher, core, past, events>>

Messages(self, n) ==
    [i \in 1 .. n |-> [mbuf |-> self.mbufs[i], family |-> self.family,
                       no |-> self.no]]

\* Faulty: what has room is sent, the rest goes back and all is reported.
dpdk_link_send_burst(t) ==
    LET self == thread[t]
        k == Least(self.n, RingSize - Len(message_ring))
    IN
    /\ self.step = "send"
    /\ message_ring' = message_ring \o Messages(self, k)
    /\ accepted' = [accepted EXCEPT ![self.no] =
                        IF self.family = "flow" \/ k = 0 THEN 0 ELSE self.n]
    /\ thread' = [thread EXCEPT ![t].mbufs = SubSeq(self.mbufs, k + 1, self.n),
           ![t].step = IF k < self.n THEN "free"
                       ELSE IF self.family = "flow" THEN "recv" ELSE "idle"]
    /\ UNCHANGED <<pool, busy, alloc_ring, reply_ring, packet_ring, free_ring,
                   dispatcher, core, requests, executed, events>>

\* Faulty: that there was no room for a request is not noticed by its thread.
dpdk_link_send_unchecked(t) ==
    LET self == thread[t]
        room == RoomFor(self.n, message_ring)
    IN
    /\ self.step = "send"
    /\ message_ring' = message_ring \o Messages(self, IF room THEN self.n ELSE 0)
    /\ accepted' = [accepted EXCEPT ![self.no] =
                        IF self.family = "flow" \/ ~ room THEN 0 ELSE self.n]
    /\ thread' = [thread EXCEPT ![t].mbufs = IF room THEN <<>> ELSE self.mbufs,
           ![t].step = IF self.family = "flow" THEN "recv"
                       ELSE IF room THEN "idle" ELSE "free"]
    /\ Note("overlap", /\ self.family = "flow"
                       /\ \E u \in Thread : thread[u].step = "recv")
    /\ UNCHANGED <<pool, busy, alloc_ring, reply_ring, packet_ring, free_ring,
                   dispatcher, core, requests, executed>>

\* The rest of it: all mbufs go back if a packet is too large for its mbuf
\* (ENOMEM), or if there is no room for all (ENOBUFS).  dpif_dpdk_execute and
\* dpif_dpdk_operate do not wait for a reply to packets.
dpdk_link_send(t) ==
    LET self == thread[t] IN
    /\ self.step = "send"
    /\ \/ /\ RoomFor(self.n, message_ring)
          /\ message_ring' = message_ring \o Messages(self, self.n)
          /\ thread' = [thread EXCEPT ![t] = IF self.family = "flow"
                 THEN [self EXCEPT !.step = "recv", !.mbufs = <<>>]
                 ELSE NoRequest]
          /\ accepted' = [accepted EXCEPT ![self.no] =
                              IF self.family = "flow" THEN 0 ELSE self.n]
          /\ Note("overlap", /\ self.family = "flow"
                             /\ \E u \in Thread : thread[u].step = "recv")
       \/ /\ self.family = "packet" \/ ~ RoomFor(self.n, message_ring)
          /\ thread' = [thread EXCEPT ![t].step = "free"]
          /\ UNCHANGED <<message_ring, accepted, events>>
    /\ UNCHANGED <<pool, busy, alloc_ring, reply_ring, packet_ring, free_ring,
                   dispatcher, core, requests, executed>>

\* dpdk_link_recv_reply spins until there is a reply.  It compares the thread
\* in the reply with its own only when type is a family; but type is the
\* return code here, so that the first reply is taken.
dpdk_link_recv_reply(t) ==
    /\ thread[t].step = "recv"
    /\ reply_ring # <<>>
    /\ thread' = [thread EXCEPT ![t].step = "free",
                                ![t].mbufs = <<Head(reply_ring).mbuf>>,
                                ![t].got = Head(reply_ring).no]
    /\ reply_ring' = Tail(reply_ring)
    /\ UNCHANGED <<pool, busy, alloc_ring, message_ring, packet_ring,
                   free_ring, dispatcher, core, past, events>>

\* The caller goes on when all its mbufs have found room.
enqueue_mbufs_to_be_freed(t) ==
    LET mbufs == thread[t].mbufs IN
    /\ thread[t].step = "free"
    /\ RoomFor(Len(mbufs), free_ring)
    /\ free_ring' = free_ring \o mbufs
    /\ thread' = [thread EXCEPT ![t] = NoRequest]
    /\ UNCHANGED <<pool, busy, alloc_ring, message_ring, reply_ring,
                   packet_ring, dispatcher, core, past, events>>

\* The dispatcher reads an upcall ...
dpdk_link_recv_packet ==
    /\ dispatcher = NoMbuf /\ packet_ring # <<>>
    /\ dispatcher' = Head(packet_ring)
    /\ packet_ring' = Tail(packet_ring)
    /\ UNCHANGED <<pool, busy, alloc_ring, message_ring, reply_ring,
                   free_ring, thread, core, past, events>>

\* ... and gives its mbuf back.
packet_read ==
    /\ dispatcher # NoMbuf /\ Room(free_ring)
    /\ free_ring' = Append(free_ring, dispatcher)
    /\ dispatcher' = NoMbuf
    /\ UNCHANGED <<pool, busy, alloc_ring, message_ring, reply_ring,
                   packet_ring, thread, core, past, events>>
-----------------------------------------------------------------------------
(* handle_request_from_vswitchd *)

\* rte_pktmbuf_alloc: mbufs differ in nothing but their owner.
alloc == CHOOSE m \in pool : TRUE

dequeue_messages ==
    LET n == Least(Burst, Len(message_ring)) IN
    /\ core.step = "message" /\ core.batch = <<>>
    /\ core' = [step |-> IF n = 0 THEN "free" ELSE "message",
                batch |-> SubSeq(message_ring, 1, n)]
    /\ message_ring' = SubSeq(message_ring, n + 1, Len(message_ring))
    /\ UNCHANGED <<pool, busy, alloc_ring, reply_ring, packet_ring, free_ring,
                   thread, dispatcher, past, events>>

\* send_reply_to_vswitchd, after which the request is freed: without an mbuf, or
\* without room, there is no reply.
send_reply(rq) ==
    /\ \/ /\ pool # {} /\ Room(reply_ring)
          /\ reply_ring' = Append(reply_ring, [mbuf |-> alloc, no |-> rq.no])
          /\ pool' = (pool \ {alloc}) \cup {rq.mbuf}
       \/ /\ pool = {} \/ ~ Room(reply_ring)
          /\ pool' = pool \cup {rq.mbuf}
          /\ UNCHANGED reply_ring
    /\ Note("short", pool = {} \/ ~ Room(reply_ring))
    /\ UNCHANGED <<busy, executed>>

\* Faulty: the mbuf is freed as for the other families.
handle_packet_cmd_free(rq) ==
    /\ busy' = busy \cup {rq.mbuf}
    /\ pool' = pool \cup {rq.mbuf}
    /\ executed' = [executed EXCEPT ![rq.no] = @ + 1]
    /\ UNCHANGED <<reply_ring, events>>

\* Faulty: there is a reply as for the other families.
handle_packet_cmd_reply(rq) == send_reply(rq)

\* A packet of the daemon is handed to action_execute.
handle_packet_cmd(rq) ==
    /\ busy' = busy \cup {rq.mbuf}
    /\ executed' = [executed EXCEPT ![rq.no] = @ + 1]
    /\ UNCHANGED <<pool, reply_ring, events>>

handle_vswitchd_cmd ==
    /\ core.batch # <<>>
    /\ LET rq == Head(core.batch) IN
         IF rq.family = "flow" THEN send_reply(rq)
                               ELSE handle_packet_cmd(rq)
    /\ core' = [step |-> IF Len(core.batch) = 1 THEN "free" ELSE "message",
                batch |-> Tail(core.batch)]
    /\ UNCHANGED <<alloc_ring, message_ring, packet_ring, free_ring, thread,
                   dispatcher, requests, accepted>>

free_mbufs ==
    LET n == Least(Burst, Len(free_ring)) IN
    /\ core.step = "free"
    /\ pool' = pool \cup {free_ring[i] : i \in 1 .. n}
    /\ free_ring' = SubSeq(free_ring, n + 1, Len(free_ring))
    /\ core' = [core EXCEPT !.step = "alloc"]
    /\ UNCHANGED <<busy, alloc_ring, message_ring, reply_ring, packet_ring,
                   thread, dispatcher, past, events>>

\* n calls of rte_pktmbuf_alloc.
alloc_bulk(n) ==
    CHOOSE s \in [1 .. n -> pool] : \A i, j \in 1 .. n : s[i] = s[j] => i = j

\* Faulty: one mbuf of each burst is not counted.
fill_alloc_ring_less ==
    LET n == Least(Burst - 1, Cardinality(pool)) IN
    /\ core.step = "alloc" /\ Len(alloc_ring) < Threshold
    /\ LET s == alloc_bulk(n) IN
           /\ alloc_ring' = alloc_ring \o s
           /\ pool' = pool \ Mbufs(s)
    /\ Note("short", pool = {})
    /\ UNCHANGED <<busy, message_ring, reply_ring, packet_ring, free_ring,
                   thread, dispatcher, core, past>>

\* One round of the loop that fills alloc_ring up; it does not end before the
\* threshold is reached.
fill_alloc_ring ==
    LET n == Least(Burst, Cardinality(pool)) IN
    /\ core.step = "alloc" /\ Len(alloc_ring) < Threshold
    /\ LET s == alloc_bulk(n) IN
           /\ alloc_ring' = alloc_ring \o s
           /\ pool' = pool \ Mbufs(s)
    /\ Note("short", pool = {})
    /\ UNCHANGED <<busy, message_ring, reply_ring, packet_ring, free_ring,
                   thread, dispatcher, core, past>>

\* Faulty: one burst is enough.
alloc_ring_filled_early ==
    /\ core.step = "alloc" /\ Len(alloc_ring) >= Least(Burst, Threshold)
    /\ core' = [core EXCEPT !.step = "message"]
    /\ UNCHANGED <<pool, busy, rings, thread, dispatcher, past, events>>

alloc_ring_filled ==
    /\ core.step = "alloc" /\ Len(alloc_ring) >= Threshold
    /\ core' = [core EXCEPT !.step = "message"]
    /\ UNCHANGED <<pool, busy, rings, thread, dispatcher, past, events>>

Vswitchd ==
    \/ dequeue_messages \/ handle_vswitchd_cmd
    \/ free_mbufs \/ fill_alloc_ring \/ alloc_ring_filled
-----------------------------------------------------------------------------
(* The traffic *)

\* A packet arrives; it is transmitted or dropped, or sent to the daemon.
receive_packet ==
    /\ Cardinality(busy) < MaxBusy
    /\ pool # {}
    /\ pool' = pool \ {alloc} /\ busy' = busy \cup {alloc}
    /\ UNCHANGED <<rings, thread, dispatcher, core, past, events>>

transmit_packet ==
    /\ \E m \in busy : pool' = pool \cup {m} /\ busy' = busy \ {m}
    /\ UNCHANGED <<rings, thread, dispatcher, core, past, events>>

\* With no room the packet is dropped.
send_packet_to_vswitchd ==
    /\ \E m \in busy :
           /\ busy' = busy \ {m}
           /\ \/ /\ Room(packet_ring)
                 /\ packet_ring' = Append(packet_ring, m)
                 /\ UNCHANGED pool
              \/ /\ ~ Room(packet_ring)
                 /\ pool' = pool \cup {m}
                 /\ UNCHANGED packet_ring
    /\ UNCHANGED <<alloc_ring, message_ring, reply_ring, free_ring, thread,
                   dispatcher, core, past, events>>
-----------------------------------------------------------------------------
Daemon(t) ==
    \/ alloc_mbufs(t) \/ dpdk_link_send(t) \/ dpdk_link_recv_reply(t)
    \/ enqueue_mbufs_to_be_freed(t)

Dispatcher == dpdk_link_recv_packet \/ packet_read

Traffic == receive_packet \/ transmit_packet \/ send_packet_to_vswitchd

Next ==
    \/ Vswitchd \/ Dispatcher \/ Traffic
    \/ \E t \in Thread :
           \/ Daemon(t)
           \/ \E family \in {"flow", "packet"}, n \in 1 .. MaxBulk :
                  request(t, family, n)

Spec == Init /\ [][Next]_vars

\* Every thread and core runs; the traffic leaves the switch in the end.
FairSpec ==
    /\ Spec /\ WF_vars(Vswitchd) /\ WF_vars(Dispatcher)
    /\ WF_vars(transmit_packet)
    /\ \A t \in Thread : WF_vars(Daemon(t))
-----------------------------------------------------------------------------
(* Properties *)

\* The places at which an mbuf is.
Places(m) ==
    {<<"pool", 0>> : x \in {m} \cap pool} \cup {<<"busy", 0>> : x \in {m} \cap busy}
    \cup {<<"alloc", i>> : i \in {i \in DOMAIN alloc_ring : alloc_ring[i] = m}}
    \cup {<<"message", i>> : i \in {i \in DOMAIN message_ring : message_ring[i].mbuf = m}}
    \cup {<<"reply", i>> : i \in {i \in DOMAIN reply_ring : reply_ring[i].mbuf = m}}
    \cup {<<"packet", i>> : i \in {i \in DOMAIN packet_ring : packet_ring[i] = m}}
    \cup {<<"free", i>> : i \in {i \in DOMAIN free_ring : free_ring[i] = m}}
    \cup {<<"batch", i>> : i \in {i \in DOMAIN core.batch : core.batch[i].mbuf = m}}
    \cup {<<"thread", x>> : x \in {x \in Thread \X (1 .. MaxBulk) :
            /\ x[2] \in DOMAIN thread[x[1]].mbufs
            /\ thread[x[1]].mbufs[x[2]] = m}}
    \cup {<<"dispatcher", 0>> : x \in {m} \cap {dispatcher}}

\* No mbuf is lost and none is in use twice, on whichever path a request, a
\* reply, an upcall or an error takes it; and no ring is given more entries than
\* it has room for, although fill_alloc_ring does not ask whether a burst fits.
MbufsConserved ==
    /\ \A m \in Mbuf : Cardinality(Places(m)) = 1
    /\ \A n \in 1 .. 5 : Len(rings[n]) <= RingSize

\* As long as no two threads wait for replies at a time, a thread that
\* dpdk_link_recv_reply returns to has the reply to its own request.
OwnReply ==
    "overlap" \notin events =>
        \A t \in Thread : thread[t].got # 0 => thread[t].got = thread[t].no

\* "Get thread id to ensure reply is received by sending thread" (the comment
\* of dpdk_link_recv_reply), however many threads wait.
ReplyToSender ==
    \A t \in Thread : thread[t].got # 0 => thread[t].got = thread[t].no

\* The messages with packets of request r, and how many of a ring are in M.
PacketsOf(r) == [mbuf : Mbuf, family : {"packet"}, no : {r}]
Count(ring, M) == Cardinality({i \in DOMAIN ring : ring[i] \in M})

\* Packets that dpdk_link_send_bulk has reported as sent are executed, all of
\* them and each once; of a request that failed, or is not sent yet, none is.
AllOrNothing ==
    \A r \in 1 .. MaxRequest :
        executed[r] + Count(message_ring, PacketsOf(r)) + Count(core.batch, PacketsOf(r))
            = accepted[r]

\* The threads in dpdk_link_recv_reply, and the requests and replies that are on
\* the way for them.
Waiters == {t \in Thread : thread[t].step = "recv"}
FlowMessage == [mbuf : Mbuf, family : {"flow"}, no : 1 .. MaxRequest]
UnderWay == Count(message_ring, FlowMessage) + Count(core.batch, FlowMessage) + Len(reply_ring)

\* There are never more replies to come than threads that wait for one, so that
\* none is left over for a later request, even if threads take the replies of
\* each other; and unless the datapath has run short there are as many, so that
\* no thread spins in dpdk_link_recv_reply for a reply that nobody will send.
RepliesOwed ==
    /\ UnderWay <= Cardinality(Waiters)
    /\ "short" \notin events => UnderWay = Cardinality(Waiters)

\* A request is served: the mbufs it needs come, all at a time, and so does its
\* reply, unless the datapath runs short of mbufs or of room for a reply.
RequestServed ==
    \A t \in Thread :
        (thread[t].step \in {"alloc", "send", "recv"})
            ~> (thread[t].step \in {"idle", "free"} \/ "short" \in events)

\* The core comes back from filling the alloc ring, also to its packets, unless
\* the pool is empty.
AllocLoopEnds ==
    (core.step = "alloc") ~> (core.step = "message" \/ "short" \in events)
=============================================================================
