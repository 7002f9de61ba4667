---------------------------- MODULE VhostDequeue ----------------------------
(***************************************************************************)
(* vhost_dequeue_burst (datapath/dpdk/vport.c): the one core that serves a *)
(* vhost port takes packets from the guest's transmit virtqueue.  It       *)
(* copies every packet into an mbuf of its own and gives the buffers back  *)
(* by used->idx, after which the guest may overwrite them.                 *)
(*                                                                         *)
(* The packets of the guest are numbered in the order it posts them.  As   *)
(* in VhostEnqueue, the indices are whole counts of which the program sees *)
(* the lower 16 bits, and a descriptor stands for its chain.               *)
(*                                                                         *)
(* After the store of used->idx the core loads avail->flags to see whether *)
(* the guest wants to be notified.  There is only a compiler barrier       *)
(* between the two, so the processor may load before the store has left    *)
(* its store buffer.  The buffer is empty again when the next call begins: *)
(* each packet taken is switched first, which takes a lock with a locked   *)
(* instruction.  Stores leave it in order, so that a guest that sees       *)
(* used->idx sees the entries of used->ring before it.                     *)
(***************************************************************************)
EXTENDS Integers, Sequences

CONSTANTS
    Size,        \* vq->size
    IdxMod,      \* 2^16
    Burst,       \* PKT_BURST_SIZE
    Cacheline,   \* DESC_PER_CACHELINE
    MaxPosted,   \* bound: packets the guest sends
    MaxFail      \* bound: how often pktmbuf_pool is found empty

ASSUME DequeueAssumption ==
    /\ Size \in Nat \ {0} /\ Burst \in Nat \ {0} /\ Cacheline \in Nat \ {0}
    /\ IdxMod \in Nat /\ IdxMod % Size = 0 /\ Size < IdxMod
    /\ MaxPosted \in Nat /\ MaxFail \in Nat

VARIABLES
    avail,       \* avail->idx
    avail_ring,  \* avail->ring
    data,        \* the packet in the buffer of each descriptor
    last,        \* last_used_idx
    used,        \* used->idx
    stored,      \* used->idx as the core sees it, through its store buffer
    used_ring,   \* used->ring[].id
    seen,        \* the guest's last_used_idx
    free,        \* descriptors the guest has not posted
    driver,      \* what the driver of the guest does
    kick,        \* an event is pending in kickfd
    call,        \* the call of vhost_dequeue_burst
    pkts,        \* history: packets handed to the switch
    fails,       \* how often the pool was empty
    passed       \* history: a load of avail->flags has passed the store

guest == <<avail, avail_ring, data, seen, free, driver>>
notice == <<kick, passed>>
vars == <<guest, last, used, stored, used_ring, notice, call, pkts, fails>>
-----------------------------------------------------------------------------
U16(i)  == i % IdxMod
Desc    == 0 .. Size - 1
slot(i) == U16(i) % Size

\* packet_success is the number of packets of this call, n is free_entries.
Call == [step : {"idle", "heads", "copy", "publish", "notify"}, n : 0 .. Burst,
         packet_success : 0 .. Burst, head : [0 .. Burst - 1 -> Desc]]

NoCall == [step |-> "idle", n |-> 0, packet_success |-> 0,
           head |-> [i \in 0 .. Burst - 1 |-> 0]]

TypeOK ==
    /\ avail \in 0 .. MaxPosted /\ last \in 0 .. avail
    /\ used \in Nat /\ stored \in Nat /\ seen \in Nat
    /\ avail_ring \in [Desc -> Desc] /\ used_ring \in [Desc -> Desc]
    /\ data \in [Desc -> -1 .. MaxPosted - 1]
    /\ free \subseteq Desc
    /\ driver \in {"running", "check", "asleep"}
    /\ kick \in BOOLEAN /\ passed \in BOOLEAN
    /\ call \in Call
    /\ pkts \in Seq(0 .. MaxPosted - 1)
    /\ fails \in 0 .. MaxFail

Init ==
    /\ avail = 0 /\ last = 0 /\ used = 0 /\ stored = 0 /\ seen = 0
    /\ avail_ring = [s \in Desc |-> 0] /\ used_ring = [s \in Desc |-> 0]
    /\ data = [d \in Desc |-> -1]
    /\ free = Desc /\ driver = "running"
    /\ kick = FALSE /\ passed = FALSE
    /\ call = NoCall /\ pkts = <<>> /\ fails = 0
-----------------------------------------------------------------------------
(* The guest *)

core == <<last, stored, used_ring, call, pkts, fails, passed>>

guest_post(d) ==
    /\ driver = "running"
    /\ avail < MaxPosted
    /\ avail - seen < Size
    /\ d \in free
    /\ data' = [data EXCEPT ![d] = avail]
    /\ avail_ring' = [avail_ring EXCEPT ![slot(avail)] = d]
    /\ avail' = avail + 1
    /\ free' = free \ {d}
    /\ UNCHANGED <<core, used, seen, driver, kick>>

\* The buffer is the guest's again, and the packet in it is gone.
guest_reap ==
    /\ driver = "running"
    /\ U16(seen) # U16(used)
    /\ LET d == used_ring[slot(seen)] IN
           /\ free' = free \cup {d}
           /\ data' = [data EXCEPT ![d] = -1]
    /\ seen' = seen + 1
    /\ UNCHANGED <<core, avail, avail_ring, used, driver, kick>>

\* VRING_AVAIL_F_NO_INTERRUPT of avail->flags: a running driver polls.
no_interrupt == driver = "running"

\* With no descriptor left the driver asks for notification ...
guest_stop ==
    /\ driver = "running"
    /\ free = {}
    /\ driver' = "check"
    /\ UNCHANGED <<core, avail, avail_ring, data, used, seen, free, kick>>

\* ... and, behind a memory barrier, looks once more before it sleeps.
guest_check ==
    /\ driver = "check"
    /\ driver' = IF U16(seen) # U16(used) THEN "running" ELSE "asleep"
    /\ UNCHANGED <<core, avail, avail_ring, data, used, seen, free, kick>>

guest_interrupt ==
    /\ kick
    /\ kick' = FALSE
    /\ driver' = "running"
    /\ UNCHANGED <<core, avail, avail_ring, data, used, seen, free>>

Guest == guest_stop \/ guest_check \/ guest_interrupt
-----------------------------------------------------------------------------
(* The core *)

\* Faulty: a short batch is cut to whole cache lines as well.
cut_always(n) == n - ((U16(last) + n) % Cacheline)

\* A batch longer than a cache line of descriptors ends at the end of one.
cut(n) == IF n > Cacheline THEN n - ((U16(last) + n) % Cacheline) ELSE n

Smaller(a, b) == IF a < b THEN a ELSE b

\* There are no available buffers: the call returns.
nothing_available ==
    /\ call.step = "idle"
    /\ U16(last) = U16(avail)
    /\ UNCHANGED vars

vhost_dequeue_burst ==
    /\ call.step = "idle"
    /\ used = stored
    /\ U16(last) # U16(avail)
    /\ LET free_entries == U16(U16(avail) - U16(last)) IN
           call' = [NoCall EXCEPT !.step = "heads",
                                  !.n = cut(Smaller(free_entries, Burst))]
    /\ UNCHANGED <<guest, last, used, stored, used_ring, notice, pkts, fails>>

\* Faulty: the buffers are given back before they are copied.
read_heads_publish ==
    /\ call.step = "heads"
    /\ call' = [call EXCEPT !.step = IF call.n > 0 THEN "copy" ELSE "publish",
           !.head = [i \in 0 .. Burst - 1 |->
               IF i < call.n THEN avail_ring[slot(last + i)] ELSE 0]]
    /\ used_ring' = [s \in Desc |->
           IF \E i \in 0 .. call.n - 1 : slot(last + i) = s
           THEN avail_ring[s] ELSE used_ring[s]]
    /\ stored' = last + call.n
    /\ UNCHANGED <<guest, last, used, notice, pkts, fails>>

read_heads ==
    /\ call.step = "heads"
    /\ call' = [call EXCEPT !.step = IF call.n > 0 THEN "copy" ELSE "publish",
           !.head = [i \in 0 .. Burst - 1 |->
               IF i < call.n THEN avail_ring[slot(last + i)] ELSE 0]]
    /\ UNCHANGED <<guest, last, used, stored, used_ring, notice, pkts, fails>>

update_used_ring ==
    used_ring' = [used_ring EXCEPT ![slot(last)] =
                      call.head[call.packet_success]]

copy_packet ==
    /\ call.step = "copy"
    /\ update_used_ring
    /\ pkts' = Append(pkts, data[call.head[call.packet_success]])
    /\ last' = last + 1
    /\ call' = [call EXCEPT !.packet_success = @ + 1,
           !.step = IF call.packet_success + 1 = call.n THEN "publish" ELSE @]
    /\ UNCHANGED <<guest, used, stored, notice, fails>>

\* rte_pktmbuf_alloc fails: the call returns at once.
no_mbuf ==
    /\ call.step = "copy"
    /\ fails < MaxFail
    /\ update_used_ring
    /\ call' = NoCall
    /\ fails' = fails + 1
    /\ UNCHANGED <<guest, last, used, stored, notice, pkts>>

publish ==
    /\ call.step = "publish"
    /\ stored' = stored + call.packet_success
    /\ call' = [call EXCEPT !.step = "notify"]
    /\ UNCHANGED <<guest, last, used, used_ring, notice, pkts, fails>>

\* Faulty: only a whole burst is announced.
notify_burst ==
    /\ call.step = "notify"
    /\ kick' = (kick \/ (~no_interrupt /\ call.n = Burst))
    /\ passed' = (passed \/ used # stored)
    /\ call' = NoCall
    /\ UNCHANGED <<guest, last, used, stored, used_ring, pkts, fails>>

\* eventfd_write unless the guest has set VRING_AVAIL_F_NO_INTERRUPT.
notify ==
    /\ call.step = "notify"
    /\ kick' = (kick \/ ~no_interrupt)
    /\ passed' = (passed \/ used # stored)
    /\ call' = NoCall
    /\ UNCHANGED <<guest, last, used, stored, used_ring, pkts, fails>>

\* The store of used->idx leaves the store buffer.
drain ==
    /\ used # stored
    /\ used' = stored
    /\ UNCHANGED <<guest, last, stored, used_ring, notice, call, pkts, fails>>

Core == vhost_dequeue_burst \/ read_heads \/ copy_packet \/ publish \/ notify
-----------------------------------------------------------------------------
Next ==
    \/ \E d \in Desc : guest_post(d)
    \/ guest_reap \/ Guest
    \/ Core \/ drain \/ nothing_available \/ no_mbuf

Spec == Init /\ [][Next]_vars

\* The core polls the port for ever, its stores reach memory, and the driver of
\* the guest runs.
FairSpec == Spec /\ WF_vars(Core) /\ WF_vars(drain) /\ WF_vars(Guest)
-----------------------------------------------------------------------------
(* Properties *)

\* The switch gets every packet of the guest once, in order, and as the guest
\* wrote it: no buffer is given back, and reused, before it is copied.
DeliveredOnce ==
    /\ Len(pkts) = last
    /\ \A i \in 1 .. last : pkts[i] = i - 1

\* The indices follow each other, and no more is in flight than the ring holds.
Order ==
    /\ seen <= used /\ used <= stored /\ stored <= last /\ last <= avail
    /\ avail - seen <= Size

\* A descriptor in flight holds its packet, and comes back in the slot in which
\* it was posted.
RingInv ==
    /\ \A i \in seen .. avail - 1 :
          LET d == avail_ring[slot(i)] IN d \notin free /\ data[d] = i
    /\ \A i \in seen .. last - 1 : used_ring[slot(i)] = avail_ring[slot(i)]

\* The batch of a call has been posted, what is left of it is in head, and what
\* has been copied of it is not published.
CallInv ==
    LET n == call.n
        k == call.packet_success
    IN  /\ k <= n
        /\ call.step = "heads" => k = 0 /\ n > 0
        /\ call.step = "copy" => k < n
        /\ call.step \in {"heads", "copy"} => last + (n - k) <= avail
        /\ call.step \in {"heads", "copy", "publish"} => stored + k <= last
        /\ call.step = "copy" =>
               \A j \in k .. n - 1 :
                   call.head[j] = avail_ring[slot(last + (j - k))]

\* The inductive invariant.
DequeueInv == TypeOK /\ Order /\ RingInv /\ CallInv /\ DeliveredOnce

\* No wakeup is lost: a guest that sleeps while buffers have been given back to
\* it is notified already, or will be in this call.  The exception is a load of
\* avail->flags that has passed the store of used->idx.
NoLostWakeup ==
    driver = "asleep" /\ seen # stored => kick \/ passed \/ call.step = "notify"

\* Its inductive strengthening: what the guest cannot see yet of used->idx has
\* been stored by this call, unless a load has passed the store.
WakeInv ==
    /\ call.step \in {"heads", "copy", "publish"} => used = stored
    /\ used # stored => passed \/ call.step = "notify"
    /\ NoLostWakeup

\* Whatever the guest sends is taken in the end, also when the batch is
\* shortened to whole cache lines, and its buffer is given back unless an
\* allocation fails.  (The indices only grow.)
EverythingTaken ==
    \A k \in 1 .. MaxPosted :
        []<>(avail >= k => last >= k /\ (used >= k \/ fails > 0))

\* A guest that has run out of descriptors and sleeps is woken, also when the
\* pool runs empty in the middle of a batch and the buffers of that batch are
\* never given back: the packet that got no mbuf is still to be taken, and with
\* it comes a notification.  The exception is a load of avail->flags that has
\* passed the store of used->idx.
GuestResumes == []<>(driver # "asleep" \/ passed)
=============================================================================
