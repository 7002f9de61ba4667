------------------------- MODULE VhostEnqueueProofs -------------------------
(***************************************************************************)
(* Proofs about VhostEnqueue for any number of cores, any ring size and    *)
(* burst, and any width of the indices.                                    *)
(***************************************************************************)
EXTENDS VhostEnqueue, TLAPS

-----------------------------------------------------------------------------
(* Arithmetic modulo the width of an index *)

\* A multiple of W strictly between -W and W is zero.
LEMMA MultipleIsZero ==
    ASSUME NEW W \in Nat \ {0}, NEW k \in Int, -W < W * k, W * k < W
    PROVE  k = 0
<1>1. k >= 1 => W * k >= W  OBVIOUS
<1>2. k <= -1 => W * k <= -W  OBVIOUS
<1> QED  BY <1>1, <1>2

\* Two numbers less than W apart with the same residue are equal.
LEMMA ModInjective ==
    ASSUME NEW W \in Nat \ {0}, NEW a \in Int, NEW b \in Int,
           0 <= a - b, a - b < W, a % W = b % W
    PROVE  a = b
<1> DEFINE k == (a \div W) - (b \div W)
<1>1. k \in Int /\ W * k \in Int  OBVIOUS
<1>2. a = W * (a \div W) + (a % W)  OBVIOUS
<1>3. b = W * (b \div W) + (b % W)  OBVIOUS
<1>4. a - b = W * k  BY <1>2, <1>3
<1> HIDE DEF k
<1>5. k = 0  BY <1>1, <1>4, MultipleIsZero
<1>6. W * 0 = 0  OBVIOUS
<1> QED  BY <1>4, <1>5, <1>6

\* The difference of two residues, reduced again, is the true difference.
LEMMA ModDifference ==
    ASSUME NEW W \in Nat \ {0}, NEW a \in Int, NEW b \in Int,
           0 <= a - b, a - b < W
    PROVE  ((a % W) - (b % W)) % W = a - b
<1> DEFINE y == (a % W) - (b % W)
           k == (a \div W) - (b \div W) + (y \div W)
<1>1. y \in Int /\ y % W \in 0 .. W - 1 /\ k \in Int /\ W * k \in Int
  OBVIOUS
<1>2. a = W * (a \div W) + (a % W)  OBVIOUS
<1>3. b = W * (b \div W) + (b % W)  OBVIOUS
<1>4. y = W * (y \div W) + (y % W)  BY <1>1
<1>5. (a - b) - (y % W) = W * k  BY <1>2, <1>3, <1>4
<1> HIDE DEF k, y
<1>6. k = 0  BY <1>1, <1>5, MultipleIsZero
<1>7. W * 0 = 0  OBVIOUS
<1> QED  BY <1>1, <1>5, <1>6, <1>7 DEF y

\* What the code sees of two indices.
LEMMA IndexFacts ==
    ASSUME NEW a \in Nat, NEW b \in Nat, b <= a
    PROVE  /\ U16(U16(a) - U16(b)) \in Nat
           /\ a - b < IdxMod => U16(U16(a) - U16(b)) = a - b
           /\ a - b < IdxMod => (U16(a) = U16(b) <=> a = b)
<1> USE VhostAssumption
<1>1. IdxMod \in Nat \ {0}  OBVIOUS
<1>2. U16(a) \in Int /\ U16(b) \in Int  BY <1>1 DEF U16
<1>3. U16(U16(a) - U16(b)) \in Nat  BY <1>1, <1>2 DEF U16
<1>i. a \in Int /\ b \in Int /\ 0 <= a - b  OBVIOUS
<1>4. a - b < IdxMod => U16(U16(a) - U16(b)) = a - b
  BY <1>1, <1>i, ModDifference, Zenon DEF U16
<1>5. a - b < IdxMod => (U16(a) = U16(b) <=> a = b)
  BY <1>1, <1>i, ModInjective, Zenon DEF U16
<1> QED  BY <1>3, <1>4, <1>5, Zenon

\* A slot of the ring is the index modulo the size of the ring, although the
\* code takes it from the 16 bits.
LEMMA SlotFacts ==
    /\ \A i \in Nat : slot(i) \in Desc
    /\ \A i, j \in Nat : i <= j /\ j - i < Size /\ slot(i) = slot(j) => i = j
<1> USE VhostAssumption
<1>1. IdxMod \in Nat \ {0} /\ Size \in Nat \ {0}  OBVIOUS
<1>2. ASSUME NEW i \in Nat PROVE slot(i) \in Desc
  BY <1>1 DEF slot, U16, Desc
<1>3. ASSUME NEW i \in Nat PROVE slot(i) = i % Size
  <2> DEFINE q == i \div IdxMod
             n == IdxMod \div Size
             s == i % Size
             r == i \div Size
             t == U16(i) % Size
             u == U16(i) \div Size
             k == (r - n * q) - u
  <2>1. q \in Int /\ n \in Int /\ r \in Int /\ U16(i) \in Int /\ u \in Int
        /\ s \in 0 .. Size - 1 /\ t \in 0 .. Size - 1
    BY <1>1 DEF U16
  <2>2. IdxMod = Size * n  BY <1>1
  <2>3. i = IdxMod * q + U16(i)  BY <1>1 DEF U16
  <2>4. i = Size * r + s  BY <1>1
  <2>5. U16(i) = Size * u + t  BY <1>1, <2>1
  <2> HIDE DEF q, n, s, r, t, u
  <2>6. IdxMod * q = Size * (n * q)  BY <1>1, <2>1, <2>2
  <2>7. n * q \in Int /\ k \in Int /\ Size * k \in Int  BY <1>1, <2>1
  <2>8. t - s = Size * k
    <3>1. Size * k = Size * r - Size * (n * q) - Size * u
      BY <1>1, <2>1, <2>7
    <3>2. /\ Size * r \in Int /\ Size * (n * q) \in Int /\ Size * u \in Int
          /\ IdxMod * q \in Int
      BY <1>1, <2>1, <2>7
    <3> QED  BY <1>1, <2>1, <2>3, <2>4, <2>5, <2>6, <3>1, <3>2
  <2> HIDE DEF k
  <2>9. k = 0  BY <1>1, <2>1, <2>7, <2>8, MultipleIsZero
  <2>10. Size * 0 = 0  BY <1>1
  <2> QED  BY <2>1, <2>8, <2>9, <2>10 DEF slot, s, t
<1>4. ASSUME NEW i \in Nat, NEW j \in Nat, i <= j, j - i < Size,
             slot(i) = slot(j)
      PROVE  i = j
  <2>1. i \in Int /\ j \in Int /\ 0 <= j - i /\ j - i < Size  BY <1>4
  <2>2. j % Size = i % Size  BY <1>3, <1>4, Zenon
  <2> QED  BY <1>1, <2>1, <2>2, ModInjective, Zenon
<1> QED  BY <1>2, <1>4, Zenon

-----------------------------------------------------------------------------
(* Types *)

\* The constants, without the divisibility that only SlotFacts needs.
LEMMA Constants ==
    /\ Size \in Nat \ {0} /\ Burst \in Nat \ {0} /\ IdxMod \in Nat \ {0}
    /\ Size + Burst <= IdxMod /\ RetryNum \in Nat /\ MaxPosted \in Nat
BY VhostAssumption

\* The registers of a core at work.
LEMMA CoreTypes ==
    ASSUME TypeOK, NEW c \in Core
    PROVE  /\ core[c] \in Enqueue
           /\ core[c].count \in Nat /\ core[c].base \in Nat
           /\ core[c].cur \in Nat /\ core[c].load \in Nat
BY Constants DEF TypeOK, Enqueue

\* A core that has no burst of its own in hand is at step "idle".
LEMMA IdleStep == Idle.step = "idle"
BY DEF Idle

\* A step changes its own core only, within the types.
LEMMA TypeStep == TypeOK /\ Order /\ [Next]_vars => TypeOK'
<1> SUFFICES ASSUME TypeOK, Order, [Next]_vars PROVE TypeOK'  BY Zenon
<1> USE Constants
<1> USE DEF TypeOK, guest, used_vars
<1>0. Idle \in Enqueue  BY DEF Idle, Enqueue, Steps, Desc
<1>1. ASSUME NEW d \in Desc, guest_post(d) PROVE TypeOK'
  BY <1>1, SlotFacts DEF guest_post
<1>2. ASSUME guest_reap PROVE TypeOK'
  BY <1>2, SlotFacts DEF guest_reap
<1>3. ASSUME NEW c \in Core, NEW n \in 1 .. Burst, vhost_enqueue_burst(c, n)
      PROVE  TypeOK'
  <2>0. n \in 0 .. Burst  OBVIOUS
  <2>1. [Idle EXCEPT !.step = "res", !.count = n] \in Enqueue
    BY <1>0, <2>0, Zenon DEF Enqueue, Steps
  <2> QED  BY <1>3, <2>1, Zenon DEF vhost_enqueue_burst
<1>4. ASSUME NEW c \in Core, read_res(c) PROVE TypeOK'
  <2>1. [core[c] EXCEPT !.step = "avail", !.base = res, !.retry = 0]
            \in Enqueue
    BY CoreTypes, Zenon DEF Enqueue, Steps
  <2> QED  BY <1>4, <2>1, Zenon DEF read_res
<1>5. ASSUME NEW c \in Core, read_avail(c) PROVE TypeOK'
  <2> DEFINE n == U16(U16(avail) - U16(core[c].base))
  <2>1. n \in Nat
    BY <1>5, CoreTypes DEF read_avail, U16
  <2>2. /\ [core[c] EXCEPT !.retry = @ + 1] \in Enqueue
        /\ [core[c] EXCEPT !.step = "cas"] \in Enqueue
        /\ n < core[c].count =>
               [core[c] EXCEPT !.count = n, !.step = "cas"] \in Enqueue
    <3>1. core[c].retry + 1 \in Nat  BY CoreTypes DEF Enqueue
    <3>2. n < core[c].count => n \in 0 .. Burst
      BY <2>1, CoreTypes, SMTT(30) DEF Enqueue
    <3> HIDE DEF n
    <3>3. [core[c] EXCEPT !.retry = @ + 1] \in Enqueue
      BY <3>1, CoreTypes, Zenon DEF Enqueue
    <3>4. [core[c] EXCEPT !.step = "cas"] \in Enqueue
      BY CoreTypes, Zenon DEF Enqueue, Steps
    <3>5. n < core[c].count =>
              [core[c] EXCEPT !.count = n, !.step = "cas"] \in Enqueue
      BY <3>2, CoreTypes, Zenon DEF Enqueue, Steps
    <3> QED  BY <3>3, <3>4, <3>5, Zenon
  <2> HIDE DEF n
  <2>3. core' \in [Core -> Enqueue]
    BY <1>0, <1>5, <2>1, <2>2, CoreTypes, Zenon DEF read_avail, n
  <2> QED  BY <1>5, <2>3, Zenon DEF read_avail
<1>6. ASSUME NEW c \in Core, rte_atomic16_cmpset(c) PROVE TypeOK'
  <2>1. /\ [core[c] EXCEPT !.step = "heads"] \in Enqueue
        /\ [core[c] EXCEPT !.step = "res"] \in Enqueue
    BY CoreTypes, Zenon DEF Enqueue, Steps
  <2>2. core' \in [Core -> Enqueue]
    BY <1>6, <2>1, Zenon DEF rte_atomic16_cmpset
  <2>3. res' \in Nat  BY <1>6, CoreTypes DEF rte_atomic16_cmpset
  <2> QED  BY <1>6, <2>2, <2>3, Zenon DEF rte_atomic16_cmpset
<1>7. ASSUME NEW c \in Core, read_heads(c) PROVE TypeOK'
  <2>1. [i \in 0 .. Burst - 1 |-> avail_ring[slot(core[c].base + i)]]
            \in [0 .. Burst - 1 -> Desc]
    BY CoreTypes, SlotFacts
  <2>2. \A h \in [0 .. Burst - 1 -> Desc] :
            [core[c] EXCEPT !.step = "fill", !.head = h] \in Enqueue
    BY CoreTypes, Zenon DEF Enqueue, Steps
  <2>3. core'[c] \in Enqueue  BY <1>7, <2>1, <2>2, Zenon DEF read_heads
  <2> QED  BY <1>7, <2>3, Zenon DEF read_heads
<1>8. ASSUME NEW c \in Core, fill(c) PROVE TypeOK'
  <2>0. core[c].count \in 0 .. Burst  BY CoreTypes, Zenon DEF Enqueue
  <2>1. core[c].cur < core[c].count /\ core[c].cur + 1 \in 0 .. Burst
    BY <1>8, <2>0, CoreTypes DEF fill, Order, CoreInv
  <2>2. core[c].head[core[c].cur] \in Desc
    <3>1. core[c].head \in [0 .. Burst - 1 -> Desc]
      BY CoreTypes, Zenon DEF Enqueue
    <3>2. core[c].cur \in 0 .. Burst - 1  BY <2>0, <2>1, CoreTypes
    <3> QED  BY <3>1, <3>2, Zenon
  <2>3. core[c].base + core[c].cur \in Nat  BY CoreTypes
  <2>4. \A s \in Steps : [core[c] EXCEPT !.step = s, !.cur = @ + 1] \in Enqueue
    BY <2>1, CoreTypes, Zenon DEF Enqueue
  <2>5. core' \in [Core -> Enqueue]
    BY <1>8, <2>4, CoreTypes, Zenon DEF fill, Steps
  <2> QED  BY <1>8, <2>2, <2>3, <2>5, SlotFacts DEF fill
<1>9. ASSUME NEW c \in Core, await_turn(c) PROVE TypeOK'
  <2>1. [core[c] EXCEPT !.step = "store", !.load = used] \in Enqueue
    BY CoreTypes, Zenon DEF Enqueue, Steps
  <2> QED  BY <1>9, <2>1, Zenon DEF await_turn
<1>10. ASSUME NEW c \in Core, store_used(c) PROVE TypeOK'
  <2>1. [core[c] EXCEPT !.step = "release"] \in Enqueue
    BY CoreTypes, Zenon DEF Enqueue, Steps
  <2>2. used' \in Nat  BY <1>10, CoreTypes DEF store_used
  <2> QED  BY <1>10, <2>1, <2>2, Zenon DEF store_used
<1>11. ASSUME NEW c \in Core, release(c) PROVE TypeOK'
  <2>1. last' \in Nat  BY <1>11, CoreTypes DEF release
  <2> QED  BY <1>0, <1>11, <2>1, Zenon DEF release
<1>12. CASE UNCHANGED vars  BY <1>12, Zenon DEF vars
<1> QED
  BY <1>1, <1>2, <1>3, <1>4, <1>5, <1>6, <1>7, <1>8, <1>9, <1>10, <1>11,
     <1>12, Zenon DEF Next, Step

-----------------------------------------------------------------------------
(* The order of the indices and the ranges of the cores *)

\* A step that moves no index keeps the order if it respects what its core
\* owns.
LEMMA LocalStep ==
    ASSUME TypeOK, Order, NEW c \in Core,
           UNCHANGED <<avail, res, last, used, seen>>,
           \A d \in Core \ {c} : core'[d] = core[d],
           Owner(c)' => Owner(c) /\ core'[c].base = core[c].base
                                 /\ core'[c].count = core[c].count,
           CoreInv(c)'
    PROVE  Order'
<1>1. Indices'  BY Zenon DEF Order, Indices
<1>2. \A d \in Core \ {c} : (Owner(d)' <=> Owner(d)) /\ CoreInv(d)'
  BY DEF Order, CoreInv, Owner
<1>3. Disjoint'
  <2> SUFFICES ASSUME NEW e \in Core, NEW d \in Core, Owner(e)', Owner(d)',
                      e # d
               PROVE  \/ core'[e].base + core'[e].count <= core'[d].base
                      \/ core'[d].base + core'[d].count <= core'[e].base
    BY Zenon DEF Order, Disjoint
  <2>1. /\ Owner(e) /\ Owner(d)
        /\ core'[e].base = core[e].base /\ core'[e].count = core[e].count
        /\ core'[d].base = core[d].base /\ core'[d].count = core[d].count
    BY <1>2, Zenon
  <2> QED  BY <2>1, Zenon DEF Order, Disjoint
<1> QED  BY <1>1, <1>2, <1>3, Zenon DEF Order

\* How far the indices can be apart, seen from a core that waits for its turn.
LEMMA Distance ==
    ASSUME TypeOK, Order, NEW c \in Core, Owner(c)
    PROVE  /\ last <= core[c].base /\ core[c].base - last < IdxMod
           /\ core[c].count >= 1
<1>1. /\ last <= core[c].base /\ core[c].base + core[c].count <= res
      /\ core[c].count >= 1
  BY Zenon DEF Order, CoreInv, Owner
<1>2. Indices  BY Zenon DEF Order
<1> QED  BY <1>1, <1>2, Constants, CoreTypes DEF Indices, TypeOK

\* No other core comes before the one whose turn it is.
LEMMA TurnIsFirst ==
    ASSUME TypeOK, Order, NEW c \in Core, NEW d \in Core, c # d,
           Owner(c), Owner(d), core[c].base = last
    PROVE  core[c].base + core[c].count <= core[d].base
<1>1. last <= core[d].base /\ core[d].count >= 1  BY Distance, Zenon
<1>2. \/ core[c].base + core[c].count <= core[d].base
      \/ core[d].base + core[d].count <= core[c].base
  BY Zenon DEF Order, Disjoint
<1> QED  BY <1>1, <1>2, CoreTypes DEF TypeOK

\* The order is kept by every step.
LEMMA OrderStep == TypeOK /\ Order /\ [Next]_vars => Order'
<1> SUFFICES ASSUME TypeOK, Order, [Next]_vars PROVE Order'  BY Zenon
<1> USE DEF guest, used_vars
<1>a. TypeOK'  BY TypeStep, Zenon
<1>1. ASSUME NEW d \in Desc, guest_post(d) PROVE Order'
  <2>1. Indices'  BY <1>1, Constants DEF guest_post, Order, Indices, TypeOK
  <2>2. Disjoint'
    BY <1>1 DEF guest_post, Order, Disjoint, Owner, TypeOK
  <2>3. \A c \in Core : CoreInv(c)'
    BY <1>1, CoreTypes DEF guest_post, Order, CoreInv, Owner, TypeOK
  <2> QED  BY <2>1, <2>2, <2>3, Zenon DEF Order
<1>2. ASSUME guest_reap PROVE Order'
  <2>1. seen < used
    BY <1>2, IndexFacts DEF guest_reap, Order, Indices, TypeOK
  <2>2. Indices'  BY <1>2, <2>1, Constants DEF guest_reap, Order, Indices, TypeOK
  <2>3. Disjoint' /\ \A c \in Core : CoreInv(c)'
    BY <1>2, Zenon DEF guest_reap, Order, Disjoint, CoreInv, Owner
  <2> QED  BY <2>2, <2>3, Zenon DEF Order
<1>3. ASSUME NEW c \in Core, NEW n \in 1 .. Burst, vhost_enqueue_burst(c, n)
      PROVE  Order'
  <2>1. /\ core'[c] = [Idle EXCEPT !.step = "res", !.count = n]
        /\ \A d \in Core \ {c} : core'[d] = core[d]
    BY <1>3, Zenon DEF vhost_enqueue_burst, TypeOK
  <2>2. CoreInv(c)' /\ ~ Owner(c)'
    BY <2>1 DEF CoreInv, Owner, Idle
  <2> QED  BY <1>3, <2>1, <2>2, LocalStep, Zenon DEF vhost_enqueue_burst
<1>4. ASSUME NEW c \in Core, read_res(c) PROVE Order'
  <2>1. /\ core'[c].step = "avail" /\ core'[c].base = res
        /\ core'[c].count = core[c].count /\ core'[c].cur = core[c].cur
        /\ \A d \in Core \ {c} : core'[d] = core[d]
        /\ core[c].step = "res"
        /\ UNCHANGED <<avail, res, last, used, seen>>
    BY <1>4, CoreTypes, Zenon DEF read_res, TypeOK, Enqueue
  <2>2. CoreInv(c)' /\ ~ Owner(c)'
    BY <2>1, Constants DEF CoreInv, Owner, Order, TypeOK
  <2> QED  BY <2>1, <2>2, LocalStep, Zenon
<1>5. ASSUME NEW c \in Core, read_avail(c) PROVE Order'
  <2> DEFINE n == U16(U16(avail) - U16(core[c].base))
  <2>0. core[c].step = "avail" /\ UNCHANGED <<avail, res, last, used, seen>>
    BY <1>5, Zenon DEF read_avail
  <2>1. /\ core[c].base <= res /\ res <= avail /\ avail - res < IdxMod
        /\ core[c].cur = 0 /\ core[c].count >= 1
        /\ res - core[c].base < IdxMod
    BY <2>0, Constants DEF Order, Indices, CoreInv, TypeOK
  <2>2. n \in Nat /\ (core[c].base = res => n = avail - res)
    BY <2>1, IndexFacts, CoreTypes DEF TypeOK
  <2> HIDE DEF n
  <2>3. /\ \A d \in Core \ {c} : core'[d] = core[d]
        /\ \/ core'[c] = Idle
           \/ /\ core'[c].base = core[c].base /\ core'[c].cur = core[c].cur
              /\ core'[c].step = "avail" /\ core'[c].count = core[c].count
           \/ /\ core'[c].base = core[c].base /\ core'[c].cur = core[c].cur
              /\ core'[c].step = "cas" /\ core'[c].count \in 1 .. n
    <3>1. CASE /\ core[c].count > n /\ core[c].retry < RetryNum
               /\ core' = [core EXCEPT ![c].retry = @ + 1]
      BY <2>0, <3>1, CoreTypes, Zenon DEF TypeOK, Enqueue
    <3>2. CASE /\ core[c].count > n /\ n > 0
               /\ core' = [core EXCEPT ![c].count = n, ![c].step = "cas"]
      BY <2>2, <3>2, CoreTypes DEF TypeOK, Enqueue
    <3>3. CASE core' = [core EXCEPT ![c] = Idle]
      BY <3>3, Zenon DEF TypeOK
    <3>4. CASE core[c].count <= n /\ core' = [core EXCEPT ![c].step = "cas"]
      BY <2>1, <2>2, <3>4, CoreTypes DEF TypeOK, Enqueue
    <3> QED  BY <1>5, <3>1, <3>2, <3>3, <3>4, Zenon DEF read_avail, n
  <2>4. CoreInv(c)' /\ ~ Owner(c)'
    <3>1. CASE core'[c] = Idle  BY <3>1 DEF CoreInv, Owner, Idle
    <3>2. CASE core'[c] # Idle
      BY <2>0, <2>1, <2>2, <2>3, <3>2, CoreTypes DEF CoreInv, Owner, TypeOK
    <3> QED  BY <3>1, <3>2, Zenon
  <2> QED  BY <2>0, <2>3, <2>4, LocalStep, Zenon
<1>6. ASSUME NEW c \in Core, rte_atomic16_cmpset(c) PROVE Order'
  <2>0. /\ core[c].step = "cas" /\ UNCHANGED <<avail, last, used, seen>>
        /\ \A d \in Core \ {c} : core'[d] = core[d]
        /\ core'[c].base = core[c].base /\ core'[c].count = core[c].count
        /\ core'[c].cur = core[c].cur
    <3>1. /\ core[c].step = "cas" /\ UNCHANGED <<avail, last, used, seen>>
          /\ \E s : core' = [core EXCEPT ![c].step = s]
      BY <1>6, Zenon DEF rte_atomic16_cmpset, guest, used_vars
    <3>2. PICK s : core' = [core EXCEPT ![c].step = s]  BY <3>1, Zenon
    <3> QED  BY <3>1, <3>2, CoreTypes DEF TypeOK, Enqueue
  <2>1. /\ core[c].base <= res /\ res - core[c].base < IdxMod
        /\ core[c].count >= 1 /\ core[c].cur = 0
    BY <2>0, Zenon DEF Order, CoreInv
  <2>2. CASE U16(res) # U16(core[c].base)
    <3>1. core'[c].step = "res" /\ res' = res
      BY <1>6, <2>2, CoreTypes DEF rte_atomic16_cmpset, TypeOK, Enqueue
    <3>2. CoreInv(c)' /\ ~ Owner(c)'
      BY <2>0, <2>1, <3>1, Zenon DEF CoreInv, Owner
    <3> QED  BY <2>0, <3>1, <3>2, LocalStep, Zenon
  <2>3. CASE U16(res) = U16(core[c].base)
    <3>1. /\ core'[c].step = "heads" /\ res' = res + core[c].count
          /\ NotOvertaken(res + core[c].count)
      BY <1>6, <2>3, CoreTypes DEF rte_atomic16_cmpset, TypeOK, Enqueue
    <3>2. core[c].base = res
      BY <2>1, <2>3, IndexFacts, CoreTypes, Zenon DEF TypeOK
    <3>3. res' <= avail /\ used <= res /\ last <= used
      BY <2>0, <3>1, <3>2, Zenon DEF Order, CoreInv, Indices
    <3>4. Indices'
      BY <2>0, <2>1, <3>1, <3>3, CoreTypes DEF Order, Indices, TypeOK
    <3>5. CoreInv(c)'
      BY <2>0, <2>1, <3>1, <3>2, <3>3, CoreTypes DEF CoreInv, Owner, TypeOK
    <3>6. ASSUME NEW d \in Core \ {c}
          PROVE  /\ CoreInv(d)' /\ Owner(d)' = Owner(d)
                 /\ Owner(d) => core[d].base + core[d].count <= res
      <4>1. CoreInv(d) /\ core'[d] = core[d]  BY <2>0, Zenon DEF Order
      <4>2. core[d].step \in {"avail", "cas"} =>
                (res + core[c].count) - core[d].base < IdxMod
        <5>1. NotOvertaken(res + core[c].count) /\ d \in Core  BY <3>1, Zenon
        <5> QED  BY <5>1, Zenon DEF NotOvertaken
      <4> QED
        BY <2>0, <2>1, <3>1, <4>1, <4>2, CoreTypes DEF CoreInv, Owner, TypeOK
    <3>7. Disjoint'
      <4> SUFFICES ASSUME NEW e \in Core, NEW d \in Core, Owner(e)', Owner(d)',
                          e # d
                   PROVE  \/ core'[e].base + core'[e].count <= core'[d].base
                          \/ core'[d].base + core'[d].count <= core'[e].base
        BY <2>0, <3>3, Zenon DEF Disjoint
      <4>1. CASE e = c  BY <2>0, <3>2, <3>6, <4>1, Zenon
      <4>2. CASE d = c  BY <2>0, <3>2, <3>6, <4>2, Zenon
      <4>3. CASE e # c /\ d # c
        BY <2>0, <3>6, <4>3, Zenon DEF Order, Disjoint
      <4> QED  BY <4>1, <4>2, <4>3, Zenon
    <3> QED  BY <3>4, <3>5, <3>6, <3>7, Zenon DEF Order
  <2> QED  BY <2>2, <2>3, Zenon
<1>7. ASSUME NEW c \in Core, read_heads(c) PROVE Order'
  <2>1. /\ core[c].step = "heads" /\ core'[c].step = "fill"
        /\ core'[c].base = core[c].base /\ core'[c].count = core[c].count
        /\ core'[c].cur = core[c].cur
        /\ \A d \in Core \ {c} : core'[d] = core[d]
        /\ UNCHANGED <<avail, res, last, used, seen>>
    BY <1>7, CoreTypes, Zenon DEF read_heads, TypeOK, Enqueue
  <2>2. CoreInv(c)' /\ Owner(c)
    BY <2>1, CoreTypes DEF CoreInv, Owner, Order
  <2> QED  BY <2>1, <2>2, LocalStep, Zenon
<1>8. ASSUME NEW c \in Core, fill(c) PROVE Order'
  <2>1. /\ core[c].step = "fill"
        /\ core'[c].step = IF core[c].cur + 1 = core[c].count THEN "turn"
                                                              ELSE "fill"
        /\ core'[c].base = core[c].base /\ core'[c].count = core[c].count
        /\ core'[c].cur = core[c].cur + 1
        /\ \A d \in Core \ {c} : core'[d] = core[d]
        /\ UNCHANGED <<avail, res, last, used, seen>>
    BY <1>8, CoreTypes, Zenon DEF fill, TypeOK, Enqueue
  <2>2. CoreInv(c)' /\ Owner(c)
    BY <2>1, CoreTypes DEF CoreInv, Owner, Order
  <2> QED  BY <2>1, <2>2, LocalStep, Zenon
<1>9. ASSUME NEW c \in Core, await_turn(c) PROVE Order'
  <2>1. /\ core[c].step = "turn" /\ core'[c].step = "store"
        /\ core'[c].base = core[c].base /\ core'[c].count = core[c].count
        /\ core'[c].cur = core[c].cur /\ core'[c].load = used
        /\ \A d \in Core \ {c} : core'[d] = core[d]
        /\ UNCHANGED <<avail, res, last, used, seen>>
        /\ U16(last) = U16(core[c].base)
    BY <1>9, CoreTypes, Zenon DEF await_turn, TypeOK, Enqueue
  <2>2. Owner(c)  BY <2>1, Zenon DEF Owner
  <2>3. core[c].base = last
    BY <2>1, <2>2, Distance, IndexFacts, CoreTypes DEF TypeOK
  <2>4. core[c].base = used
    BY <2>1, <2>2, <2>3, CoreTypes DEF Order, Indices, CoreInv, TypeOK
  <2>5. CoreInv(c)'
    BY <2>1, <2>2, <2>3, <2>4, CoreTypes, Zenon DEF CoreInv, Owner, Order
  <2> QED  BY <2>1, <2>2, <2>5, LocalStep, Zenon
<1>10. ASSUME NEW c \in Core, store_used(c) PROVE Order'
  <2>1. /\ core[c].step = "store" /\ core'[c].step = "release"
        /\ core'[c].base = core[c].base /\ core'[c].count = core[c].count
        /\ \A d \in Core \ {c} : core'[d] = core[d]
        /\ UNCHANGED <<avail, res, last, seen>>
        /\ used' = core[c].load + core[c].count
    BY <1>10, CoreTypes, Zenon DEF store_used, TypeOK, Enqueue
  <2>2. Owner(c)  BY <2>1, Zenon DEF Owner
  <2>3. /\ core[c].base = used /\ core[c].load = used /\ core[c].base = last
        /\ core[c].base + core[c].count <= res /\ core[c].count >= 1
        /\ core[c].count <= Burst
    BY <2>1, <2>2, CoreTypes DEF Order, Indices, CoreInv, Enqueue
  <2>4. ASSUME NEW d \in Core \ {c}
        PROVE  CoreInv(d)' /\ (Owner(d)' <=> Owner(d))
    <3>1. CoreInv(d) /\ core'[d] = core[d]  BY <2>1, Zenon DEF Order
    <3>2. Owner(d) => used + core[c].count <= core[d].base
      BY <2>2, <2>3, TurnIsFirst, Zenon
    <3> QED
      BY <2>1, <2>3, <3>1, <3>2, CoreTypes DEF CoreInv, Owner, TypeOK
  <2>5. CoreInv(c)' /\ Owner(c)'
    BY <2>1, <2>3, CoreTypes DEF CoreInv, Owner, TypeOK
  <2>6. Indices'
    BY <2>1, <2>3, Constants, CoreTypes DEF Order, Indices, TypeOK
  <2>7. Disjoint'
    BY <2>1, <2>2, <2>4, <2>5 DEF Order, Disjoint
  <2> QED  BY <2>4, <2>5, <2>6, <2>7, Zenon DEF Order
<1>11. ASSUME NEW c \in Core, release(c) PROVE Order'
  <2>1. /\ core[c].step = "release" /\ core'[c] = Idle
        /\ \A d \in Core \ {c} : core'[d] = core[d]
        /\ UNCHANGED <<avail, res, used, seen>>
        /\ last' = core[c].base + core[c].count
    BY <1>11, Zenon DEF release, TypeOK
  <2>2. Owner(c)  BY <2>1, Zenon DEF Owner
  <2>3. core[c].base = last /\ used = last' /\ core[c].count >= 1
    BY <2>1, <2>2, CoreTypes, Zenon DEF Order, CoreInv
  <2>4. ASSUME NEW d \in Core \ {c}
        PROVE  CoreInv(d)' /\ (Owner(d)' <=> Owner(d))
    <3>1. CoreInv(d) /\ core'[d] = core[d]  BY <2>1, Zenon DEF Order
    <3>2. Owner(d) => last' <= core[d].base
      BY <2>1, <2>2, <2>3, TurnIsFirst, Zenon
    <3> QED
      BY <2>1, <2>3, <3>1, <3>2, CoreTypes DEF CoreInv, Owner, TypeOK
  <2>5. CoreInv(c)' /\ ~ Owner(c)'
    BY <2>1 DEF CoreInv, Owner, Idle
  <2>6. Indices'
    BY <2>1, <2>3, Constants, CoreTypes DEF Order, Indices, TypeOK
  <2>7. Disjoint'
    BY <2>1, <2>2, <2>4, <2>5, Zenon DEF Order, Disjoint
  <2> QED  BY <2>4, <2>5, <2>6, <2>7, Zenon DEF Order
<1>12. CASE UNCHANGED vars
  BY <1>12, Zenon DEF vars, Order, Indices, Disjoint, CoreInv, Owner
<1> QED
  BY <1>1, <1>2, <1>3, <1>4, <1>5, <1>6, <1>7, <1>8, <1>9, <1>10, <1>11,
     <1>12, Zenon DEF Next, Step
-----------------------------------------------------------------------------
(* The content of the used ring and of the buffers *)

\* Two indices that the guest has posted and not taken back have two slots.
LEMMA SlotsDiffer ==
    ASSUME TypeOK, Order, NEW i \in seen .. avail - 1,
           NEW j \in seen .. avail - 1
    PROVE  /\ i \in Nat /\ slot(i) \in Desc
           /\ slot(i) = slot(j) => i = j
<1>1. i \in Nat /\ j \in Nat  BY DEF TypeOK
<1>2. (i <= j => j - i < Size) /\ (j <= i => i - j < Size)
  BY Constants DEF TypeOK, Order, Indices
<1>3. (i <= j \/ j <= i) /\ slot(i) \in Desc  BY <1>1, SlotFacts
<1> QED  BY <1>1, <1>2, <1>3, SlotFacts, Zenon

\* The indices of a core that has not published are among them.
LEMMA InRange ==
    ASSUME TypeOK, Order, NEW c \in Core,
           core[c].step \in {"heads", "fill", "turn", "store"},
           NEW k \in 0 .. core[c].count - 1
    PROVE  /\ core[c].base + k \in seen .. avail - 1
           /\ used <= core[c].base + k
<1>1. used <= core[c].base /\ core[c].base + core[c].count <= res
  BY Zenon DEF Order, CoreInv, Owner
<1> QED  BY <1>1, CoreTypes DEF TypeOK, Order, Indices

\* The descriptors of those indices are distinct and not free.
LEMMA Posted ==
    ASSUME TypeOK, Order, DescriptorsConserved, NEW i \in seen .. avail - 1,
           NEW j \in seen .. avail - 1
    PROVE  /\ avail_ring[slot(i)] \in Desc \ free
           /\ avail_ring[slot(i)] = avail_ring[slot(j)] => i = j
BY Zenon DEF DescriptorsConserved

\* A step that touches no ring keeps the content if its core does.
LEMMA QuietStep ==
    ASSUME TypeOK, Content, NEW c \in Core,
           UNCHANGED <<avail, avail_ring, seen, free, used, used_ring, buf>>,
           \A d \in Core \ {c} : core'[d] = core[d],
           FillInv(c)'
    PROVE  Content'
<1>1. \A i : Complete(i)' <=> Complete(i)  BY Zenon DEF Complete
<1>2. \A d \in Core \ {c} : FillInv(d)'
  BY <1>1 DEF Content, FillInv
<1>3. PublishedComplete'  BY Zenon DEF Content, PublishedComplete
<1>4. DescriptorsConserved'  BY DEF Content, DescriptorsConserved
<1> QED  BY <1>2, <1>3, <1>4, Zenon DEF Content

\* Posting a descriptor disturbs none that is posted.
LEMMA PostStep ==
    ASSUME TypeOK, Order, Content, NEW d \in Desc, guest_post(d)
    PROVE  Content'
<1>0. /\ DescriptorsConserved /\ PublishedComplete
      /\ \A c \in Core : FillInv(c)
  BY Zenon DEF Content
<1>1. /\ d \in free /\ avail - seen < Size /\ avail' = avail + 1
      /\ avail_ring' = [avail_ring EXCEPT ![slot(avail)] = d]
      /\ buf' = [buf EXCEPT ![d] = -1]
      /\ free' = free \ {d}
      /\ UNCHANGED <<res, last, used, used_ring, seen, core>>
  BY Zenon DEF guest_post
<1>2. slot(avail) \in Desc /\ seen <= avail /\ avail \in Nat /\ seen \in Nat
  BY SlotFacts DEF TypeOK, Order, Indices
<1>3. \A i \in seen .. avail - 1 :
          /\ slot(i) \in Desc /\ slot(i) # slot(avail)
          /\ avail_ring[slot(i)] # d
          /\ avail_ring'[slot(i)] = avail_ring[slot(i)]
  <2> TAKE i \in seen .. avail - 1
  <2>1. slot(i) \in Desc  BY SlotsDiffer, Zenon
  <2>2. slot(i) # slot(avail)
    <3>1. i \in Nat /\ i <= avail /\ avail - i < Size /\ i # avail
      BY <1>1, <1>2, Constants
    <3> QED  BY <1>2, <3>1, SlotFacts, Zenon
  <2>3. avail_ring[slot(i)] # d  BY <1>0, <1>1, Posted, Zenon
  <2> QED  BY <1>1, <1>2, <2>1, <2>2, <2>3, Zenon DEF TypeOK
<1>4. avail_ring'[slot(avail)] = d  BY <1>1, <1>2, Zenon DEF TypeOK
<1>5. ASSUME NEW i \in seen .. avail - 1, Complete(i) PROVE Complete(i)'
  BY <1>1, <1>3, <1>5, Zenon DEF Complete, TypeOK
<1>6. PublishedComplete'
  <2>1. \A i \in seen .. used - 1 : Complete(i)'
    <3> TAKE i \in seen .. used - 1
    <3>1. i \in seen .. avail - 1  BY DEF TypeOK, Order, Indices
    <3>2. Complete(i)  BY <1>0, Zenon DEF PublishedComplete, Complete
    <3> QED  BY <1>5, <3>1, <3>2, Zenon
  <2> QED  BY <1>1, <2>1, Zenon DEF PublishedComplete, Complete
<1>7. ASSUME NEW c \in Core PROVE FillInv(c)'
  <2>1. core'[c] = core[c] /\ FillInv(c)  BY <1>0, <1>1, Zenon
  <2>2. CASE core[c].step = "fill"
    <3>1. \A k \in 0 .. core[c].count - 1 :
              core[c].head[k] = avail_ring'[slot(core[c].base + k)]
      BY <1>3, <2>1, <2>2, InRange, Zenon DEF FillInv
    <3>2. \A k \in 0 .. core[c].cur - 1 : Complete(core[c].base + k)'
      <4> TAKE k \in 0 .. core[c].cur - 1
      <4>1. k \in 0 .. core[c].count - 1
        BY <2>2, CoreTypes DEF Order, CoreInv
      <4>2. Complete(core[c].base + k)  BY <2>1, <2>2, Zenon DEF FillInv
      <4>3. core[c].base + k \in seen .. avail - 1  BY <2>2, <4>1, InRange, Zenon
      <4> QED  BY <1>1, <1>5, <4>2, <4>3, Zenon
    <3> QED  BY <2>1, <2>2, <3>1, <3>2, Zenon DEF FillInv
  <2>3. CASE core[c].step \in {"turn", "store"}
    <3>1. \A k \in 0 .. core[c].count - 1 : Complete(core[c].base + k)'
      <4> TAKE k \in 0 .. core[c].count - 1
      <4>1. Complete(core[c].base + k)  BY <2>1, <2>3, Zenon DEF FillInv
      <4>2. core[c].base + k \in seen .. avail - 1  BY <2>3, InRange, Zenon
      <4> QED  BY <1>1, <1>5, <4>1, <4>2, Zenon
    <3> QED  BY <2>1, <2>3, <3>1, Zenon DEF FillInv
  <2> QED  BY <2>1, <2>2, <2>3, Zenon DEF FillInv
<1>8. DescriptorsConserved'
  <2>1. \A i \in seen' .. avail' - 1 : i = avail \/ i \in seen .. avail - 1
    BY <1>1, <1>2
  <2>2. \A i, j \in seen' .. avail' - 1 :
            avail_ring'[slot(i)] = avail_ring'[slot(j)] => i = j
    BY <1>0, <1>3, <1>4, <2>1, Posted, Zenon
  <2>3. Desc \ free' = {avail_ring'[slot(i)] : i \in seen' .. avail' - 1}
    <3>1. Desc \ free = {avail_ring[slot(i)] : i \in seen .. avail - 1}
      BY <1>0, Zenon DEF DescriptorsConserved
    <3>2. Desc \ free' = (Desc \ free) \cup {d}  BY <1>1, Zenon
    <3>3. avail \in seen' .. avail' - 1
          /\ seen .. avail - 1 \subseteq seen' .. avail' - 1
      BY <1>1, <1>2
    <3> QED  BY <1>3, <1>4, <2>1, <3>1, <3>2, <3>3, Zenon
  <2> QED  BY <2>2, <2>3, Zenon DEF DescriptorsConserved
<1> QED  BY <1>6, <1>7, <1>8, Zenon DEF Content
\* Taking a descriptor back leaves the others.
LEMMA ReapStep ==
    ASSUME TypeOK, Order, Content, guest_reap
    PROVE  Content'
<1>0. /\ DescriptorsConserved /\ PublishedComplete
      /\ \A c \in Core : FillInv(c)
  BY Zenon DEF Content
<1>1. /\ free' = free \cup {used_ring[slot(seen)]} /\ seen' = seen + 1
      /\ UNCHANGED <<avail, avail_ring, res, last, used, used_ring, buf, core>>
  BY Zenon DEF guest_reap, used_vars
<1>2. seen < used /\ seen \in Nat /\ used <= avail /\ avail \in Nat
      /\ used \in Nat
  BY IndexFacts DEF guest_reap, Order, Indices, TypeOK
<1>3. /\ seen \in seen .. used - 1 /\ seen \in seen .. avail - 1
      /\ \A i \in seen' .. used - 1 : i \in seen .. used - 1
      /\ \A i : i \in seen' .. avail - 1
                    <=> i \in seen .. avail - 1 /\ i # seen
  BY <1>1, <1>2
<1>4. \A i : Complete(i)' <=> Complete(i)  BY <1>1, Zenon DEF Complete
<1>5. \A c \in Core : FillInv(c)'  BY <1>0, <1>1, <1>4, Zenon DEF FillInv
<1>6. PublishedComplete'  BY <1>0, <1>1, <1>3, Zenon DEF PublishedComplete
<1>7. DescriptorsConserved'
  <2>1. used_ring[slot(seen)] = avail_ring[slot(seen)]
    BY <1>0, <1>3, Zenon DEF PublishedComplete
  <2>2. \A i, j \in seen .. avail - 1 :
            avail_ring[slot(i)] = avail_ring[slot(j)] => i = j
    BY <1>0, Zenon DEF DescriptorsConserved
  <2>3. Desc \ free = {avail_ring[slot(i)] : i \in seen .. avail - 1}
    BY <1>0, Zenon DEF DescriptorsConserved
  <2>4. Desc \ free' = {avail_ring[slot(i)] : i \in seen' .. avail - 1}
    BY <1>1, <1>3, <2>1, <2>2, <2>3
  <2> QED  BY <1>1, <1>3, <2>2, <2>4 DEF DescriptorsConserved
<1> QED  BY <1>5, <1>6, <1>7, Zenon DEF Content

\* Filling an index of its own range, a core disturbs no other index.
LEMMA FillStep ==
    ASSUME TypeOK, Order, Content, NEW c \in Core, fill(c)
    PROVE  Content'
<1>0. /\ DescriptorsConserved /\ PublishedComplete
      /\ \A e \in Core : FillInv(e)
  BY Zenon DEF Content
<1>i. PICK i \in Nat : i = core[c].base + core[c].cur  BY CoreTypes
<1>d. PICK d : d = core[c].head[core[c].cur]  BY Zenon
<1>1. /\ core[c].step = "fill"
      /\ used_ring' = [used_ring EXCEPT ![slot(i)] = d]
      /\ buf' = [buf EXCEPT ![d] = i]
      /\ core'[c].step \in {"fill", "turn"}
      /\ core'[c].step = "turn" => core[c].cur + 1 = core[c].count
      /\ core'[c].cur = core[c].cur + 1 /\ core'[c].base = core[c].base
      /\ core'[c].count = core[c].count /\ core'[c].head = core[c].head
      /\ \A e \in Core \ {c} : core'[e] = core[e]
      /\ UNCHANGED <<avail, avail_ring, seen, free, res, last, used>>
  BY <1>i, <1>d, CoreTypes, Zenon DEF fill, guest, TypeOK, Enqueue
<1>2. core[c].cur \in 0 .. core[c].count - 1
  BY <1>1, CoreTypes DEF Order, CoreInv
<1>3. i \in seen .. avail - 1 /\ used <= i  BY <1>i, <1>1, <1>2, InRange, Zenon
<1>4. d = avail_ring[slot(i)]  BY <1>i, <1>d, <1>0, <1>1, <1>2, Zenon DEF FillInv
<1>5. slot(i) \in Desc /\ d \in Desc
  BY <1>0, <1>3, <1>4, SlotsDiffer, Posted, Zenon
<1>6. Complete(i)'
  BY <1>1, <1>4, <1>5, Zenon DEF Complete, TypeOK
<1>7. ASSUME NEW j \in seen .. avail - 1, j # i, Complete(j)
      PROVE  Complete(j)'
  <2>1. slot(j) \in Desc /\ slot(j) # slot(i)  BY <1>3, <1>7, SlotsDiffer, Zenon
  <2>2. used_ring'[slot(j)] = used_ring[slot(j)]
    BY <1>1, <1>5, <2>1, Zenon DEF TypeOK
  <2>3. used_ring[slot(j)] # d /\ used_ring[slot(j)] \in Desc
    BY <1>0, <1>3, <1>4, <1>7, <2>1, Posted, Zenon DEF Complete
  <2> QED  BY <1>1, <1>5, <1>7, <2>2, <2>3, Zenon DEF Complete, TypeOK
<1>8. PublishedComplete'
  <2> SUFFICES ASSUME NEW j \in seen .. used - 1 PROVE Complete(j)'
    BY <1>1, Zenon DEF PublishedComplete, Complete
  <2>1. j \in seen .. avail - 1 /\ j # i
    BY <1>3 DEF TypeOK, Order, Indices
  <2>2. Complete(j)  BY <1>0, Zenon DEF PublishedComplete, Complete
  <2> QED  BY <1>7, <2>1, <2>2, Zenon
<1>9. FillInv(c)'
  <2>1. ASSUME NEW k \in 0 .. core[c].cur
        PROVE  Complete(core[c].base + k)'
    <3>1. PICK j \in Nat : j = core[c].base + k  BY CoreTypes
    <3>2. CASE k = core[c].cur  BY <1>i, <1>1, <1>6, <3>1, <3>2, Zenon
    <3>3. CASE k # core[c].cur
      <4>1. k \in 0 .. core[c].cur - 1 /\ k \in 0 .. core[c].count - 1 /\ j # i
        BY <1>i, <1>2, <3>1, <3>3, CoreTypes
      <4>2. Complete(j) /\ j \in seen .. avail - 1
        BY <1>0, <1>1, <3>1, <4>1, InRange, Zenon DEF FillInv
      <4>3. Complete(j)'  BY <1>7, <4>1, <4>2, Zenon
      <4> QED  BY <1>1, <3>1, <4>3, Zenon
    <3> QED  BY <3>2, <3>3, Zenon
  <2>2. \A k \in 0 .. core'[c].cur - 1 : Complete(core[c].base + k)'
    BY <1>1, <2>1, CoreTypes
  <2>3. core'[c].step = "turn" => core'[c].cur = core'[c].count  BY <1>1, Zenon
  <2>4. \A k \in 0 .. core'[c].count - 1 :
            core'[c].head[k] = avail_ring'[slot(core'[c].base + k)]
    BY <1>0, <1>1, Zenon DEF FillInv
  <2> QED  BY <1>1, <2>2, <2>3, <2>4, Zenon DEF FillInv
<1>10. ASSUME NEW e \in Core \ {c} PROVE FillInv(e)'
  <2>0. core'[e] = core[e] /\ FillInv(e)  BY <1>0, <1>1, Zenon
  <2>1. ASSUME core[e].step \in {"fill", "turn", "store"},
               NEW k \in 0 .. core[e].count - 1, Complete(core[e].base + k)
        PROVE  Complete(core[e].base + k)'
    <3>1. PICK j \in Nat : j = core[e].base + k  BY CoreTypes
    <3>2. j \in seen .. avail - 1  BY <2>1, <3>1, InRange, Zenon
    <3>3. j # i
      <4>1. \/ core[c].base + core[c].count <= core[e].base
            \/ core[e].base + core[e].count <= core[c].base
        BY <1>1, <2>1, Zenon DEF Order, Disjoint, Owner
      <4> QED  BY <1>i, <1>2, <3>1, <4>1, CoreTypes,
                    SMTT(30)
    <3>4. Complete(j)'  BY <1>7, <2>1, <3>1, <3>2, <3>3, Zenon
    <3> QED  BY <2>0, <3>1, <3>4, Zenon
  <2>2. core[e].step = "fill" => core[e].cur < core[e].count
    BY Zenon DEF Order, CoreInv
  <2>3. core[e].step = "fill" =>
            \A k \in 0 .. core[e].cur - 1 : Complete(core[e].base + k)'
    BY <2>0, <2>1, <2>2, CoreTypes DEF FillInv
  <2>4. core[e].step \in {"turn", "store"} =>
            \A k \in 0 .. core[e].count - 1 : Complete(core[e].base + k)'
    BY <2>0, <2>1, SMTT(30) DEF FillInv
  <2> QED  BY <1>1, <2>0, <2>3, <2>4, Zenon DEF FillInv
<1>11. DescriptorsConserved'  BY <1>0, <1>1 DEF DescriptorsConserved
<1> QED  BY <1>8, <1>9, <1>10, <1>11, Zenon DEF Content

\* A core publishes what it has filled.
LEMMA StoreStep ==
    ASSUME TypeOK, Order, Content, NEW c \in Core, store_used(c)
    PROVE  Content'
<1>0. /\ DescriptorsConserved /\ PublishedComplete
      /\ \A e \in Core : FillInv(e)
  BY Zenon DEF Content
<1>1. /\ core[c].step = "store" /\ core'[c].step = "release"
      /\ \A e \in Core \ {c} : core'[e] = core[e]
      /\ UNCHANGED <<avail, avail_ring, seen, free, used_ring, buf>>
      /\ used' = core[c].load + core[c].count
  BY CoreTypes, Zenon DEF store_used, guest, TypeOK, Enqueue
<1>2. core[c].load = used /\ core[c].base = used
  BY <1>1, Zenon DEF Order, CoreInv
<1>3. \A i : Complete(i)' <=> Complete(i)  BY <1>1, Zenon DEF Complete
<1>4. \A e \in Core : FillInv(e)'  BY <1>0, <1>1, <1>3, Zenon DEF FillInv
<1>5. PublishedComplete'
  <2> SUFFICES ASSUME NEW i \in seen .. used' - 1 PROVE Complete(i)
    BY <1>1, Zenon DEF PublishedComplete, Complete
  <2>1. CASE i \in seen .. used - 1
    BY <1>0, <2>1, Zenon DEF PublishedComplete, Complete
  <2>2. CASE i \notin seen .. used - 1
    <3>1. i - used \in 0 .. core[c].count - 1 /\ core[c].base + (i - used) = i
      BY <1>1, <1>2, <2>2, CoreTypes DEF TypeOK
    <3> QED  BY <1>0, <1>1, <3>1, Zenon DEF FillInv
  <2> QED  BY <2>1, <2>2, Zenon
<1>6. DescriptorsConserved'  BY <1>0, <1>1 DEF DescriptorsConserved
<1> QED  BY <1>4, <1>5, <1>6, Zenon DEF Content
\* The content is kept by every step.
LEMMA ContentStep == TypeOK /\ Order /\ Content /\ [Next]_vars => Content'
<1> SUFFICES ASSUME TypeOK, Order, Content, [Next]_vars PROVE Content'
  BY Zenon
<1> USE DEF guest, used_vars
<1>1. ASSUME NEW c \in Core, NEW n \in 1 .. Burst, vhost_enqueue_burst(c, n)
      PROVE  Content'
  <2>1. FillInv(c)'  BY <1>1, Zenon DEF vhost_enqueue_burst, FillInv, Idle, TypeOK
  <2> QED  BY <1>1, <2>1, QuietStep, Zenon DEF vhost_enqueue_burst, TypeOK
<1>2. ASSUME NEW c \in Core, read_res(c) PROVE Content'
  <2>1. FillInv(c)'
    BY <1>2, CoreTypes DEF read_res, FillInv, TypeOK, Enqueue
  <2> QED  BY <1>2, <2>1, QuietStep, Zenon DEF read_res, TypeOK
<1>3. ASSUME NEW c \in Core, read_avail(c) PROVE Content'
  <2>1. /\ core'[c].step \in {"idle", "avail", "cas"}
        /\ \A d \in Core \ {c} : core'[d] = core[d]
        /\ UNCHANGED <<avail, avail_ring, seen, free, used, used_ring, buf>>
    BY <1>3, CoreTypes DEF read_avail, Idle, TypeOK, Enqueue
  <2>2. FillInv(c)'  BY <2>1, Zenon DEF FillInv
  <2> QED  BY <2>1, <2>2, QuietStep, Zenon
<1>4. ASSUME NEW c \in Core, rte_atomic16_cmpset(c) PROVE Content'
  <2>1. /\ core'[c].step \in {"heads", "res"}
        /\ \A d \in Core \ {c} : core'[d] = core[d]
        /\ UNCHANGED <<avail, avail_ring, seen, free, used, used_ring, buf>>
    <3>1. \/ core' = [core EXCEPT ![c].step = "heads"]
          \/ core' = [core EXCEPT ![c].step = "res"]
      BY <1>4, Zenon DEF rte_atomic16_cmpset
    <3>2. UNCHANGED <<avail, avail_ring, seen, free, used, used_ring, buf>>
      BY <1>4, Zenon DEF rte_atomic16_cmpset
    <3> QED  BY <3>1, <3>2, CoreTypes DEF TypeOK, Enqueue
  <2>2. FillInv(c)'  BY <2>1, Zenon DEF FillInv
  <2> QED  BY <2>1, <2>2, QuietStep, Zenon
<1>5. ASSUME NEW c \in Core, read_heads(c) PROVE Content'
  <2>1. /\ core[c].step = "heads" /\ core'[c].step = "fill"
        /\ core'[c].base = core[c].base /\ core'[c].count = core[c].count
        /\ core'[c].cur = core[c].cur
        /\ core'[c].head = [i \in 0 .. Burst - 1
                                |-> avail_ring[slot(core[c].base + i)]]
        /\ \A d \in Core \ {c} : core'[d] = core[d]
        /\ UNCHANGED <<avail, avail_ring, seen, free, used, used_ring, buf>>
    BY <1>5, CoreTypes, Zenon DEF read_heads, TypeOK, Enqueue
  <2>2. \A k \in 0 .. core[c].count - 1 : k \in 0 .. Burst - 1
    BY Constants, CoreTypes DEF Enqueue
  <2>3. core[c].cur = 0  BY <2>1, Zenon DEF Order, CoreInv
  <2>4. FillInv(c)'  BY <2>1, <2>2, <2>3 DEF FillInv
  <2> QED  BY <2>1, <2>4, QuietStep, Zenon
<1>6. ASSUME NEW c \in Core, await_turn(c) PROVE Content'
  <2>1. /\ core[c].step = "turn" /\ core'[c].step = "store"
        /\ core'[c].base = core[c].base /\ core'[c].count = core[c].count
        /\ \A d \in Core \ {c} : core'[d] = core[d]
        /\ UNCHANGED <<avail, avail_ring, seen, free, used, used_ring, buf>>
    BY <1>6, CoreTypes, Zenon DEF await_turn, TypeOK, Enqueue
  <2>2. FillInv(c)'  BY <2>1 DEF Content, FillInv, Complete
  <2> QED  BY <2>1, <2>2, QuietStep, Zenon
<1>7. ASSUME NEW c \in Core, release(c) PROVE Content'
  <2>1. /\ core'[c] = Idle /\ \A d \in Core \ {c} : core'[d] = core[d]
        /\ UNCHANGED <<avail, avail_ring, seen, free, used, used_ring, buf>>
    BY <1>7, Zenon DEF release, TypeOK
  <2>2. core'[c].step = "idle"  BY <2>1, IdleStep, Zenon
  <2>3. FillInv(c)'  BY <2>2, Zenon DEF FillInv
  <2> QED  BY <2>1, <2>3, QuietStep, Zenon
<1>8. CASE UNCHANGED vars
  BY <1>8 DEF vars, Content, FillInv, Complete, PublishedComplete,
              DescriptorsConserved
<1> QED
  BY <1>1, <1>2, <1>3, <1>4, <1>5, <1>6, <1>7, <1>8, PostStep, ReapStep,
     FillStep, StoreStep, Zenon DEF Next, Step

-----------------------------------------------------------------------------
(* Nothing reserved is left to nobody *)

\* A step that moves neither end keeps it so if those who own a range go on.
LEMMA OwnersGoOn ==
    ASSUME Covered, UNCHANGED <<last, res>>,
           \A d \in Core : Owner(d) => /\ Owner(d)' /\ core'[d].base = core[d].base
                                       /\ core'[d].count = core[d].count
    PROVE  Covered'
BY Zenon DEF Covered

\* Every step keeps it so: a compare-and-set that succeeds reserves what is next
\* to the last reservation, and release passes on exactly what its core owns.
LEMMA CoveredStep == TypeOK /\ Order /\ Covered /\ [Next]_vars => Covered'
<1> SUFFICES ASSUME TypeOK, Order, Covered, [Next]_vars PROVE Covered'  BY Zenon
<1> USE DEF guest, used_vars
<1>1. ASSUME NEW d \in Desc, guest_post(d) PROVE Covered'
  BY <1>1, OwnersGoOn, Zenon DEF guest_post, Owner
<1>2. ASSUME guest_reap PROVE Covered'
  BY <1>2, OwnersGoOn, Zenon DEF guest_reap, Owner
<1>3. ASSUME NEW c \in Core, NEW n \in 1 .. Burst, vhost_enqueue_burst(c, n)
      PROVE  Covered'
  <2>1. ~ Owner(c) /\ \A d \in Core \ {c} : core'[d] = core[d]
    BY <1>3, Zenon DEF vhost_enqueue_burst, TypeOK, Owner
  <2> QED  BY <1>3, <2>1, OwnersGoOn, Zenon DEF vhost_enqueue_burst, Owner
<1>4. ASSUME NEW c \in Core, read_res(c) \/ read_avail(c) PROVE Covered'
  <2>1. ~ Owner(c) /\ \A d \in Core \ {c} : core'[d] = core[d]
    BY <1>4, Zenon DEF read_res, read_avail, TypeOK, Owner
  <2> QED  BY <1>4, <2>1, OwnersGoOn, Zenon DEF read_res, read_avail, Owner
<1>5. ASSUME NEW c \in Core, read_heads(c) \/ await_turn(c) \/ store_used(c)
      PROVE  Covered'
  <2> DEFINE Kept == /\ \A d \in Core \ {c} : core'[d] = core[d]
                     /\ core'[c].base = core[c].base
                     /\ core'[c].count = core[c].count
                     /\ core'[c].step \in {"fill", "store", "release"}
  <2>1. core \in [Core -> Enqueue] /\ core[c] \in Enqueue  BY Zenon DEF TypeOK
  <2>2. ASSUME read_heads(c) PROVE Kept
    <3>1. core'[c] = [core[c] EXCEPT !.step = "fill", !.head =
              [i \in 0 .. Burst - 1 |-> avail_ring[slot(core[c].base + i)]]]
      BY <2>1, <2>2, Zenon DEF read_heads
    <3>2. \A d \in Core \ {c} : core'[d] = core[d]  BY <2>1, <2>2, Zenon DEF read_heads
    <3> QED  BY <2>1, <3>1, <3>2, Zenon DEF Enqueue
  <2>3. ASSUME await_turn(c) PROVE Kept
    <3>1. core'[c] = [core[c] EXCEPT !.step = "store", !.load = used]
      BY <2>1, <2>3, Zenon DEF await_turn
    <3>2. \A d \in Core \ {c} : core'[d] = core[d]  BY <2>1, <2>3, Zenon DEF await_turn
    <3> QED  BY <2>1, <3>1, <3>2, Zenon DEF Enqueue
  <2>4. ASSUME store_used(c) PROVE Kept
    <3>1. core'[c] = [core[c] EXCEPT !.step = "release"]
      BY <2>1, <2>4, Zenon DEF store_used
    <3>2. \A d \in Core \ {c} : core'[d] = core[d]  BY <2>1, <2>4, Zenon DEF store_used
    <3> QED  BY <2>1, <3>1, <3>2, Zenon DEF Enqueue
  <2>5. Kept /\ UNCHANGED <<last, res>>
    BY <1>5, <2>2, <2>3, <2>4, Zenon DEF read_heads, await_turn, store_used
  <2>6. Owner(c)'  BY <2>5, Zenon DEF Owner
  <2> QED  BY <2>5, <2>6, OwnersGoOn, Zenon DEF Owner
<1>6. ASSUME NEW c \in Core, fill(c) PROVE Covered'
  <2>1. /\ \A d \in Core \ {c} : core'[d] = core[d]
        /\ core'[c].base = core[c].base /\ core'[c].count = core[c].count
        /\ core'[c].step \in {"fill", "turn"}
    BY <1>6, CoreTypes DEF fill, TypeOK
  <2>2. UNCHANGED <<last, res>>  BY <1>6, Zenon DEF fill
  <2>3. Owner(c)'  BY <2>1, Zenon DEF Owner
  <2> QED  BY <2>1, <2>2, <2>3, OwnersGoOn, Zenon DEF Owner
<1>7. ASSUME NEW c \in Core, rte_atomic16_cmpset(c) PROVE Covered'
  <2>0. core[c].step = "cas" /\ ~ Owner(c) /\ UNCHANGED last
    BY <1>7, Zenon DEF rte_atomic16_cmpset, Owner
  <2>1. CASE U16(res) = U16(core[c].base)
    <3>1. core[c].base = res
      <4>1. core[c].base <= res /\ res - core[c].base < IdxMod
        BY <2>0, Zenon DEF Order, CoreInv
      <4> QED  BY <2>1, <4>1, CoreTypes, IndexFacts, Zenon DEF TypeOK
    <3>2. /\ res' = res + core[c].count
          /\ \A d \in Core \ {c} : core'[d] = core[d]
          /\ core'[c].base = res /\ core'[c].count = core[c].count /\ Owner(c)'
      <4>1. core \in [Core -> Enqueue] /\ core[c] \in Enqueue  BY Zenon DEF TypeOK
      <4>2. /\ res' = res + core[c].count
            /\ core' = [core EXCEPT ![c].step = "heads"]
        BY <1>7, <2>1, Zenon DEF rte_atomic16_cmpset
      <4>3. core'[c] = [core[c] EXCEPT !.step = "heads"]  BY <4>1, <4>2, Zenon
      <4>4. \A d \in Core \ {c} : core'[d] = core[d]  BY <4>1, <4>2, Zenon
      <4>5. /\ core'[c].base = core[c].base /\ core'[c].count = core[c].count
            /\ core'[c].step = "heads"
        BY <4>1, <4>3, Zenon DEF Enqueue
      <4> QED  BY <3>1, <4>2, <4>4, <4>5, Zenon DEF Owner
    <3>3. ASSUME NEW i \in last' .. res' - 1
          PROVE  \E d \in Core : /\ Owner(d)' /\ core'[d].base <= i
                                 /\ i < core'[d].base + core'[d].count
      <4>1. CASE i < res
        <5>1. i \in last .. res - 1  BY <2>0, <4>1 DEF TypeOK
        <5>2. PICK d \in Core : /\ Owner(d) /\ core[d].base <= i
                                /\ i < core[d].base + core[d].count
          BY <5>1, Zenon DEF Covered
        <5>3. core'[d] = core[d]  BY <2>0, <3>2, <5>2, Zenon
        <5> QED  BY <5>2, <5>3, Zenon DEF Owner
      <4>2. CASE res <= i
        BY <3>2, <4>2, CoreTypes DEF TypeOK
      <4> QED  BY <2>0, <4>1, <4>2 DEF TypeOK
    <3> QED  BY <3>3, Zenon DEF Covered
  <2>2. CASE U16(res) # U16(core[c].base)
    <3>1. UNCHANGED res /\ \A d \in Core \ {c} : core'[d] = core[d]
      BY <1>7, <2>2, Zenon DEF rte_atomic16_cmpset, TypeOK
    <3> QED  BY <2>0, <3>1, OwnersGoOn, Zenon DEF Owner
  <2> QED  BY <2>1, <2>2, Zenon
<1>8. ASSUME NEW c \in Core, release(c) PROVE Covered'
  <2>1. /\ last' = core[c].base + core[c].count /\ UNCHANGED res
        /\ \A d \in Core \ {c} : core'[d] = core[d]
    BY <1>8, Zenon DEF release, TypeOK
  <2>2. last <= core[c].base  BY <1>8, Zenon DEF release, Order, CoreInv, Owner
  <2>3. ASSUME NEW i \in last' .. res' - 1
        PROVE  \E d \in Core : /\ Owner(d)' /\ core'[d].base <= i
                               /\ i < core'[d].base + core'[d].count
    <3>1. i \in last .. res - 1 /\ core[c].base + core[c].count <= i
      BY <2>1, <2>2, CoreTypes DEF TypeOK
    <3>2. PICK d \in Core : /\ Owner(d) /\ core[d].base <= i
                            /\ i < core[d].base + core[d].count
      BY <3>1, Zenon DEF Covered
    <3>3. core'[d] = core[d]  BY <2>1, <3>1, <3>2, CoreTypes DEF TypeOK
    <3> QED  BY <3>2, <3>3, Zenon DEF Owner
  <2> QED  BY <2>3, Zenon DEF Covered
<1>9. CASE UNCHANGED vars
  BY <1>9, OwnersGoOn, Zenon DEF vars, Owner
<1> QED
  BY <1>1, <1>2, <1>3, <1>4, <1>5, <1>6, <1>7, <1>8, <1>9, Zenon DEF Next, Step

\* A core that waits owns a range, so that something is reserved, and the first
\* of what is reserved belongs to the core whose turn it is.
LEMMA Held == TypeOK /\ Order /\ Covered => TurnIsHeld
<1> SUFFICES ASSUME TypeOK, Order, Covered, NEW c \in Core, core[c].step = "turn"
             PROVE  \E d \in Core : Owner(d) /\ U16(core[d].base) = U16(last)
  BY Zenon DEF TurnIsHeld
<1>1. /\ last <= core[c].base /\ core[c].base + core[c].count <= res
      /\ core[c].count >= 1
  BY Zenon DEF Order, CoreInv, Owner
<1>2. last \in last .. res - 1  BY <1>1, CoreTypes DEF TypeOK
<1>3. PICK d \in Core : /\ Owner(d) /\ core[d].base <= last
                        /\ last < core[d].base + core[d].count
  BY <1>2, Zenon DEF Covered
<1>4. last <= core[d].base  BY <1>3, Distance, Zenon
<1>5. core[d].base = last  BY <1>3, <1>4, CoreTypes DEF TypeOK
<1> QED  BY <1>3, <1>5, Zenon

-----------------------------------------------------------------------------
(* The theorems *)

\* The queue starts empty and nobody is at work.
LEMMA VhostInit == Init => TypeOK /\ Order /\ Content
<1> SUFFICES ASSUME Init PROVE TypeOK /\ Order /\ Content  BY Zenon
<1> USE Constants DEF Init
<1>0. Idle \in Enqueue  BY DEF Idle, Enqueue, Steps, Desc
<1>1. TypeOK  BY <1>0 DEF TypeOK, Desc
<1>2. \A c \in Core : core[c].step = "idle"  BY IdleStep, Zenon
<1>3. Order
  BY <1>2 DEF Order, Indices, Disjoint, CoreInv, Owner
<1>4. Content
  BY <1>2 DEF Content, FillInv, PublishedComplete, DescriptorsConserved
<1> QED  BY <1>1, <1>3, <1>4, Zenon

\* The indices are in order, every core owns a range of its own and has
\* filled as much of it as its loop says, and what is reserved has an owner, in
\* every reachable state.
THEOREM VhostInvariance == Spec => [](TypeOK /\ Order /\ Content /\ Covered)
<1>1. Init => Covered  BY DEF Init, Covered
<1>2. TypeOK /\ Order /\ Content /\ Covered /\ [Next]_vars
          => TypeOK' /\ Order' /\ Content' /\ Covered'
  BY TypeStep, OrderStep, ContentStep, CoveredStep, Zenon
<1> QED  BY <1>1, <1>2, VhostInit, PTL DEF Spec

\* The variables keep their types, whatever the size of the ring.
THEOREM VhostTypes == Spec => []TypeOK
BY VhostInvariance, PTL

\* The compare-and-set of vhost_enqueue_burst gives two cores disjoint ranges
\* of the available ring, never one that the guest has not posted, and nothing
\* between the ranges of two cores is left out.
THEOREM DisjointReservations == Spec => []ReservedOnce
<1>1. Order /\ Covered => ReservedOnce  BY Zenon DEF Order, ReservedOnce
<1> QED  BY <1>1, VhostInvariance, PTL

\* No core waits for its turn in vain: while one does, there is one whose turn
\* it is, also when the 16 bits of the index wrap.
THEOREM TurnIsAlwaysHeld == Spec => []TurnIsHeld
BY Held, VhostInvariance, PTL

\* What used->idx publishes is finished, whichever core filled it and
\* whichever core published last.
THEOREM PublishedIsComplete == Spec => []PublishedComplete
<1>1. Content => PublishedComplete  BY Zenon DEF Content
<1> QED  BY <1>1, VhostInvariance, PTL

\* The guest gets every descriptor back exactly once.
THEOREM NoDescriptorLost == Spec => []DescriptorsConserved
<1>1. Content => DescriptorsConserved  BY Zenon DEF Content
<1> QED  BY <1>1, VhostInvariance, PTL
=============================================================================
