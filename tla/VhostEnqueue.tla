---------------------------- MODULE VhostEnqueue ----------------------------
(***************************************************************************)
(* vhost_enqueue_burst (datapath/dpdk/vport.c): any switching core copies  *)
(* packets into the receive virtqueue of a guest.  A core reserves a range *)
(* of the available ring by a compare-and-set of last_used_idx_res, fills  *)
(* the descriptors of its range in parallel with the other cores, and      *)
(* publishes it in the used ring when last_used_idx says it is its turn.   *)
(*                                                                         *)
(* The indices of a virtqueue are 16 bits wide.  A variable holds the      *)
(* whole count, of which the program sees U16(...); every comparison and   *)
(* subtraction of the code is made on the 16 bits.                         *)
(*                                                                         *)
(* The guest's driver is external: it posts a descriptor while it has a    *)
(* free one, and takes back what the used ring holds up to used->idx.      *)
(* Buffer chaining, headers and the merging of buffers are left out: a     *)
(* descriptor stands for its chain.                                        *)
(***************************************************************************)
EXTENDS Integers

CONSTANTS
    Core,        \* lcores that send to the vhost port
    Size,        \* vq->size
    IdxMod,      \* 2^16
    Burst,       \* PKT_BURST_SIZE
    RetryNum,    \* burst_tx_retry_num
    MaxPosted    \* bound: descriptors the guest posts in a behaviour

ASSUME VhostAssumption ==
    /\ Size \in Nat \ {0} /\ Burst \in Nat \ {0} /\ IdxMod \in Nat
    /\ IdxMod % Size = 0 /\ Size + Burst <= IdxMod
    /\ RetryNum \in Nat /\ MaxPosted \in Nat

VARIABLES
    avail,       \* avail->idx
    avail_ring,  \* avail->ring
    res,         \* last_used_idx_res
    last,        \* last_used_idx
    used,        \* used->idx
    used_ring,   \* used->ring[].id
    buf,         \* history: the index for which a buffer was last filled
    seen,        \* the guest's last_used_idx
    free,        \* descriptors the guest has not posted
    core         \* the call of vhost_enqueue_burst on each core

guest == <<avail, avail_ring, seen, free>>
used_vars == <<used, used_ring, buf>>
vars == <<avail, avail_ring, res, last, used, used_ring, buf, seen, free, core>>
-----------------------------------------------------------------------------
U16(i)  == i % IdxMod
Desc    == 0 .. Size - 1
slot(i) == U16(i) % Size

Steps == {"idle", "res", "avail", "cas", "heads", "fill", "turn", "store",
          "release"}

Enqueue == [step : Steps, count : 0 .. Burst, base : Nat, retry : Nat,
            cur : 0 .. Burst, head : [0 .. Burst - 1 -> Desc], load : Nat]

Idle == [step |-> "idle", count |-> 0, base |-> 0, retry |-> 0, cur |-> 0,
         head |-> [i \in 0 .. Burst - 1 |-> 0], load |-> 0]

TypeOK ==
    /\ avail \in Nat /\ res \in Nat /\ last \in Nat /\ used \in Nat
    /\ seen \in Nat
    /\ avail_ring \in [Desc -> Desc] /\ used_ring \in [Desc -> Desc]
    /\ buf \in [Desc -> Int]
    /\ free \subseteq Desc
    /\ core \in [Core -> Enqueue]

Init ==
    /\ avail = 0 /\ res = 0 /\ last = 0 /\ used = 0 /\ seen = 0
    /\ avail_ring = [s \in Desc |-> 0] /\ used_ring = [s \in Desc |-> 0]
    /\ buf = [d \in Desc |-> -1]
    /\ free = Desc
    /\ core = [c \in Core |-> Idle]
-----------------------------------------------------------------------------
(* The guest *)

guest_post(d) ==
    /\ avail < MaxPosted
    /\ avail - seen < Size
    /\ d \in free
    /\ avail_ring' = [avail_ring EXCEPT ![slot(avail)] = d]
    /\ buf' = [buf EXCEPT ![d] = -1]
    /\ avail' = avail + 1
    /\ free' = free \ {d}
    /\ UNCHANGED <<res, last, used, used_ring, seen, core>>

guest_reap ==
    /\ U16(seen) # U16(used)
    /\ free' = free \cup {used_ring[slot(seen)]}
    /\ seen' = seen + 1
    /\ UNCHANGED <<avail, avail_ring, res, last, used_vars, core>>
-----------------------------------------------------------------------------
(* A switching core *)

vhost_enqueue_burst(c, n) ==
    /\ core[c].step = "idle"
    /\ core' = [core EXCEPT ![c] = [Idle EXCEPT !.step = "res", !.count = n]]
    /\ UNCHANGED <<guest, res, last, used_vars>>

read_res(c) ==
    /\ core[c].step = "res"
    /\ core' = [core EXCEPT ![c].step = "avail", ![c].base = res,
                            ![c].retry = 0]
    /\ UNCHANGED <<guest, res, last, used_vars>>

\* Read avail->idx, again up to RetryNum times while the ring is too full;
\* then make do with what is free, or give up if nothing is.
read_avail(c) ==
    LET entries == U16(U16(avail) - U16(core[c].base)) IN
    /\ core[c].step = "avail"
    /\ \/ /\ core[c].count > entries /\ core[c].retry < RetryNum
          /\ core' = [core EXCEPT ![c].retry = @ + 1]
       \/ /\ core[c].count > entries /\ core[c].retry >= RetryNum
          /\ entries > 0
          /\ core' = [core EXCEPT ![c].count = entries, ![c].step = "cas"]
       \/ /\ core[c].count > entries /\ core[c].retry >= RetryNum
          /\ entries = 0
          /\ core' = [core EXCEPT ![c] = Idle]
       \/ /\ core[c].count <= entries
          /\ core' = [core EXCEPT ![c].step = "cas"]
    /\ UNCHANGED <<guest, res, last, used_vars>>

\* Timing assumption: no core rests between its read of last_used_idx_res and
\* its compare-and-set while the others go once round the 16-bit index.
NotOvertaken(end) ==
    \A d \in Core : core[d].step \in {"avail", "cas"}
                        => end - core[d].base < IdxMod

\* Faulty: a plain store instead of the compare-and-set.
store_reservation(c) ==
    /\ core[c].step = "cas"
    /\ res' = core[c].base + core[c].count
    /\ core' = [core EXCEPT ![c].step = "heads"]
    /\ UNCHANGED <<guest, last, used_vars>>

\* Faulty: the index is loaded before the loop, not in it.
cmpset_no_reload(c) ==
    /\ core[c].step = "cas"
    /\ \/ /\ U16(res) = U16(core[c].base)
          /\ NotOvertaken(res + core[c].count)
          /\ res' = res + core[c].count
          /\ core' = [core EXCEPT ![c].step = "heads"]
       \/ U16(res) # U16(core[c].base) /\ UNCHANGED <<core, res>>
    /\ UNCHANGED <<guest, last, used_vars>>

rte_atomic16_cmpset(c) ==
    /\ core[c].step = "cas"
    /\ \/ /\ U16(res) = U16(core[c].base)
          /\ NotOvertaken(res + core[c].count)
          /\ res' = res + core[c].count
          /\ core' = [core EXCEPT ![c].step = "heads"]
       \/ /\ U16(res) # U16(core[c].base)
          /\ core' = [core EXCEPT ![c].step = "res"]
          /\ UNCHANGED res
    /\ UNCHANGED <<guest, last, used_vars>>

read_heads(c) ==
    /\ core[c].step = "heads"
    /\ core' = [core EXCEPT ![c].step = "fill", ![c].head =
           [i \in 0 .. Burst - 1 |-> avail_ring[slot(core[c].base + i)]]]
    /\ UNCHANGED <<guest, res, last, used_vars>>

\* One iteration of the loop: the used ring entry and the packet's data.
fill(c) ==
    LET i == core[c].base + core[c].cur
        d == core[c].head[core[c].cur] IN
    /\ core[c].step = "fill"
    /\ used_ring' = [used_ring EXCEPT ![slot(i)] = d]
    /\ buf' = [buf EXCEPT ![d] = i]
    /\ core' = [core EXCEPT
           ![c].step = IF core[c].cur + 1 = core[c].count THEN "turn" ELSE @,
           ![c].cur = @ + 1]
    /\ UNCHANGED <<guest, res, last, used>>

\* Faulty: the range is published before the turn has come.
await_nothing(c) ==
    /\ core[c].step = "turn"
    /\ core' = [core EXCEPT ![c].step = "store", ![c].load = used]
    /\ UNCHANGED <<guest, res, last, used_vars>>

\* Wait for the turn, then used->idx += count: a load and a store.
await_turn(c) ==
    /\ core[c].step = "turn"
    /\ U16(last) = U16(core[c].base)
    /\ core' = [core EXCEPT ![c].step = "store", ![c].load = used]
    /\ UNCHANGED <<guest, res, last, used_vars>>

\* Faulty: the range is taken to include its end.
store_used_inclusive(c) ==
    /\ core[c].step = "store"
    /\ used' = core[c].load + core[c].count + 1
    /\ core' = [core EXCEPT ![c].step = "release"]
    /\ UNCHANGED <<guest, res, last, used_ring, buf>>

store_used(c) ==
    /\ core[c].step = "store"
    /\ used' = core[c].load + core[c].count
    /\ core' = [core EXCEPT ![c].step = "release"]
    /\ UNCHANGED <<guest, res, last, used_ring, buf>>

\* last_used_idx = res_end_idx passes the turn on; the call returns.
release(c) ==
    /\ core[c].step = "release"
    /\ last' = core[c].base + core[c].count
    /\ core' = [core EXCEPT ![c] = Idle]
    /\ UNCHANGED <<guest, res, used_vars>>

Step(c) ==
    \/ read_res(c) \/ read_avail(c) \/ rte_atomic16_cmpset(c)
    \/ read_heads(c) \/ fill(c) \/ await_turn(c) \/ store_used(c)
    \/ release(c)
-----------------------------------------------------------------------------
Next ==
    \/ \E d \in Desc : guest_post(d)
    \/ guest_reap
    \/ \E c \in Core, n \in 1 .. Burst : vhost_enqueue_burst(c, n)
    \/ \E c \in Core : Step(c)

Spec == Init /\ [][Next]_vars

\* Every core runs on a CPU of its own.
FairSpec == Spec /\ \A c \in Core : WF_vars(Step(c))
-----------------------------------------------------------------------------
(* Properties *)

\* The core has reserved the indices base .. base + count - 1.
Owner(c) == core[c].step \in {"heads", "fill", "turn", "store", "release"}

\* What two cores have reserved does not overlap, and nobody has reserved a
\* descriptor that the guest has not posted.
Disjoint ==
    /\ res <= avail
    /\ \A c, d \in Core : Owner(c) /\ Owner(d) /\ c # d =>
           \/ core[c].base + core[c].count <= core[d].base
           \/ core[d].base + core[d].count <= core[c].base

\* What is reserved and not passed on yet belongs to a core that is at work.
Covered ==
    \A i \in last .. res - 1 : \E c \in Core :
        Owner(c) /\ core[c].base <= i /\ i < core[c].base + core[c].count

\* The reservation works: each descriptor that the guest has posted is reserved
\* once, and none is reserved and then left to nobody, which would keep all
\* later cores waiting for their turn.
ReservedOnce == Disjoint /\ Covered

\* Whoever waits for the turn waits for a core that has it and will pass it on.
TurnIsHeld ==
    (\E c \in Core : core[c].step = "turn")
        => \E d \in Core : Owner(d) /\ U16(core[d].base) = U16(last)

\* Whatever used->idx lets the guest see is finished: the entry of the used
\* ring names the descriptor posted at that index, and the packet of that
\* index, not an older or a later one, is in its buffer.
PublishedComplete ==
    \A i \in seen .. used - 1 :
        /\ used_ring[slot(i)] = avail_ring[slot(i)]
        /\ buf[used_ring[slot(i)]] = i

\* The guest never loses a descriptor nor gets one back twice.
DescriptorsConserved ==
    LET posted(i) == avail_ring[slot(i)] IN
    /\ \A i, j \in seen .. avail - 1 : posted(i) = posted(j) => i = j
    /\ Desc \ free = {posted(i) : i \in seen .. avail - 1}

\* No core waits for its turn, or goes round the reservation loop, for ever.
EnqueueReturns ==
    \A c \in Core : (core[c].step # "idle") ~> (core[c].step = "idle")

(* The inductive invariant: the order of the indices, the range that each  *)
(* core owns, and how far it has filled it.                                *)

Indices ==
    /\ last <= used /\ used <= last + Burst /\ used <= res /\ res <= avail
    /\ seen <= used /\ avail - seen <= Size

CoreInv(c) ==
    /\ core[c].step # "idle" => core[c].count >= 1
    /\ core[c].step \in {"res", "avail", "cas", "heads"} => core[c].cur = 0
    /\ core[c].step = "fill" => core[c].cur < core[c].count
    /\ core[c].step \in {"avail", "cas"} =>
           core[c].base <= res /\ res - core[c].base < IdxMod
    /\ core[c].step = "cas" /\ core[c].base = res =>
           res + core[c].count <= avail
    /\ Owner(c) => /\ last <= core[c].base
                   /\ core[c].base + core[c].count <= res
    /\ Owner(c) /\ core[c].step # "release" => used <= core[c].base
    /\ core[c].step = "store" => /\ core[c].load = used
                                 /\ core[c].base = used
                                 /\ core[c].base = last
    /\ core[c].step = "release" => /\ core[c].base = last
                                   /\ used = last + core[c].count

Order == Indices /\ Disjoint /\ \A c \in Core : CoreInv(c)

Complete(i) ==
    /\ used_ring[slot(i)] = avail_ring[slot(i)]
    /\ buf[used_ring[slot(i)]] = i

\* Before it is published, the part of its range that the core has filled.
FillInv(c) ==
    /\ core[c].step = "fill" =>
           /\ \A k \in 0 .. core[c].count - 1 :
                  core[c].head[k] = avail_ring[slot(core[c].base + k)]
           /\ \A k \in 0 .. core[c].cur - 1 : Complete(core[c].base + k)
    /\ core[c].step \in {"turn", "store"} =>
           \A k \in 0 .. core[c].count - 1 : Complete(core[c].base + k)

Content ==
    /\ \A c \in Core : FillInv(c)
    /\ PublishedComplete
    /\ DescriptorsConserved
=============================================================================
