------------------------- MODULE VhostDequeueProofs -------------------------
(***************************************************************************)
(* Proofs about VhostDequeue for any ring size, burst and cache line, and  *)
(* any width of the indices.                                               *)
(***************************************************************************)
EXTENDS VhostDequeue, TLAPS

-----------------------------------------------------------------------------
(* Arithmetic modulo the width of an index *)

\* A multiple of W strictly between -W and W is zero.
LEMMA MultipleIsZero ==
    ASSUME NEW W \in Nat \ {0}, NEW k \in Int, -W < W * k, W * k < W
    PROVE  k = 0
<1>1. k >= 1 => W * k >= W  OBVIOUS
<1>2. k <= -1 => W * k <= -W  OBVIOUS
<1> QED  BY <1>1, <1>2

\* Two numbers less than W apart with the same residue are equal.
LEMMA ModInjective ==
    ASSUME NEW W \in Nat \ {0}, NEW a \in Int, NEW b \in Int,
           0 <= a - b, a - b < W, a % W = b % W
    PROVE  a = b
<1> DEFINE k == (a \div W) - (b \div W)
<1>1. k \in Int /\ W * k \in Int  OBVIOUS
<1>2. a = W * (a \div W) + (a % W)  OBVIOUS
<1>3. b = W * (b \div W) + (b % W)  OBVIOUS
<1>4. a - b = W * k  BY <1>2, <1>3
<1> HIDE DEF k
<1>5. k = 0  BY <1>1, <1>4, MultipleIsZero
<1>6. W * 0 = 0  OBVIOUS
<1> QED  BY <1>4, <1>5, <1>6

\* The difference of two residues, reduced again, is the true difference.
LEMMA ModDifference ==
    ASSUME NEW W \in Nat \ {0}, NEW a \in Int, NEW b \in Int,
           0 <= a - b, a - b < W
    PROVE  ((a % W) - (b % W)) % W = a - b
<1> DEFINE y == (a % W) - (b % W)
           k == (a \div W) - (b \div W) + (y \div W)
<1>1. y \in Int /\ y % W \in 0 .. W - 1 /\ k \in Int /\ W * k \in Int
  OBVIOUS
<1>2. a = W * (a \div W) + (a % W)  OBVIOUS
<1>3. b = W * (b \div W) + (b % W)  OBVIOUS
<1>4. y = W * (y \div W) + (y % W)  BY <1>1
<1>5. (a - b) - (y % W) = W * k  BY <1>2, <1>3, <1>4
<1> HIDE DEF k, y
<1>6. k = 0  BY <1>1, <1>5, MultipleIsZero
<1>7. W * 0 = 0  OBVIOUS
<1> QED  BY <1>1, <1>5, <1>6, <1>7 DEF y

\* What the code sees of two indices.
LEMMA IndexFacts ==
    ASSUME NEW a \in Nat, NEW b \in Nat, b <= a
    PROVE  /\ U16(U16(a) - U16(b)) \in Nat
           /\ a - b < IdxMod => U16(U16(a) - U16(b)) = a - b
           /\ a - b < IdxMod => (U16(a) = U16(b) <=> a = b)
<1> USE DequeueAssumption
<1>1. IdxMod \in Nat \ {0}  OBVIOUS
<1>2. U16(a) \in Int /\ U16(b) \in Int  BY <1>1 DEF U16
<1>3. U16(U16(a) - U16(b)) \in Nat  BY <1>1, <1>2 DEF U16
<1>i. a \in Int /\ b \in Int /\ 0 <= a - b  OBVIOUS
<1>4. a - b < IdxMod => U16(U16(a) - U16(b)) = a - b
  BY <1>1, <1>i, ModDifference, Zenon DEF U16
<1>5. a - b < IdxMod => (U16(a) = U16(b) <=> a = b)
  BY <1>1, <1>i, ModInjective, Zenon DEF U16
<1> QED  BY <1>3, <1>4, <1>5, Zenon

\* A slot of the ring is the index modulo the size of the ring, although the
\* code takes it from the 16 bits.
LEMMA SlotFacts ==
    /\ \A i \in Nat : slot(i) \in Desc
    /\ \A i, j \in Nat : i <= j /\ j - i < Size /\ slot(i) = slot(j) => i = j
<1> USE DequeueAssumption
<1>1. IdxMod \in Nat \ {0} /\ Size \in Nat \ {0}  OBVIOUS
<1>2. ASSUME NEW i \in Nat PROVE slot(i) \in Desc
  BY <1>1 DEF slot, U16, Desc
<1>3. ASSUME NEW i \in Nat PROVE slot(i) = i % Size
  <2> DEFINE q == i \div IdxMod
             n == IdxMod \div Size
             s == i % Size
             r == i \div Size
             t == U16(i) % Size
             u == U16(i) \div Size
             k == (r - n * q) - u
  <2>1. q \in Int /\ n \in Int /\ r \in Int /\ U16(i) \in Int /\ u \in Int
        /\ s \in 0 .. Size - 1 /\ t \in 0 .. Size - 1
    BY <1>1 DEF U16
  <2>2. IdxMod = Size * n  BY <1>1
  <2>3. i = IdxMod * q + U16(i)  BY <1>1 DEF U16
  <2>4. i = Size * r + s  BY <1>1
  <2>5. U16(i) = Size * u + t  BY <1>1, <2>1
  <2> HIDE DEF q, n, s, r, t, u
  <2>6. IdxMod * q = Size * (n * q)  BY <1>1, <2>1, <2>2
  <2>7. n * q \in Int /\ k \in Int /\ Size * k \in Int  BY <1>1, <2>1
  <2>8. t - s = Size * k
    <3>1. Size * k = Size * r - Size * (n * q) - Size * u
      BY <1>1, <2>1, <2>7
    <3>2. /\ Size * r \in Int /\ Size * (n * q) \in Int /\ Size * u \in Int
          /\ IdxMod * q \in Int
      BY <1>1, <2>1, <2>7
    <3> QED  BY <1>1, <2>1, <2>3, <2>4, <2>5, <2>6, <3>1, <3>2
  <2> HIDE DEF k
  <2>9. k = 0  BY <1>1, <2>1, <2>7, <2>8, MultipleIsZero
  <2>10. Size * 0 = 0  BY <1>1
  <2> QED  BY <2>1, <2>8, <2>9, <2>10 DEF slot, s, t
<1>4. ASSUME NEW i \in Nat, NEW j \in Nat, i <= j, j - i < Size,
             slot(i) = slot(j)
      PROVE  i = j
  <2>1. i \in Int /\ j \in Int /\ 0 <= j - i /\ j - i < Size  BY <1>4
  <2>2. j % Size = i % Size  BY <1>3, <1>4, Zenon
  <2> QED  BY <1>1, <2>1, <2>2, ModInjective, Zenon
<1> QED  BY <1>2, <1>4, Zenon

-----------------------------------------------------------------------------
(* The invariant *)

\* The constants, without the divisibility that only SlotFacts needs.
LEMMA Constants ==
    /\ Size \in Nat \ {0} /\ Burst \in Nat \ {0} /\ Cacheline \in Nat \ {0}
    /\ IdxMod \in Nat \ {0} /\ Size < IdxMod
    /\ MaxPosted \in Nat /\ MaxFail \in Nat
BY DequeueAssumption

\* The batch that is left after cut is neither empty nor longer.
LEMMA CutFacts ==
    ASSUME NEW n \in Nat \ {0}, last \in Nat
    PROVE  cut(n) \in 1 .. n
<1> USE Constants
<1>1. U16(last) \in Nat  BY DEF U16
<1>2. (U16(last) + n) % Cacheline \in 0 .. Cacheline - 1  BY <1>1
<1> QED  BY <1>2 DEF cut

\* What the types say of the numbers.
LEMMA Numbers ==
    ASSUME TypeOK
    PROVE  /\ avail \in Nat /\ last \in Nat /\ used \in Nat /\ stored \in Nat
           /\ seen \in Nat /\ avail <= MaxPosted
           /\ call.n \in Nat /\ call.packet_success \in Nat
           /\ call.n <= Burst /\ call.packet_success <= Burst
BY Constants DEF TypeOK, Call

\* The call at rest is a call.
LEMMA IdleCall == NoCall \in Call
BY Constants DEF NoCall, Call, Desc

\* The steps of vhost_dequeue_burst.
Steps == {"idle", "heads", "copy", "publish", "notify"}

\* A call that goes on to another step is a call ...
LEMMA CallStep ==
    ASSUME NEW r \in Call, NEW s \in Steps
    PROVE  [r EXCEPT !.step = s] \in Call
BY Zenon DEF Call, Steps

\* ... also with the size of its batch ...
LEMMA CallBatch ==
    ASSUME NEW r \in Call, NEW s \in Steps, NEW n \in 0 .. Burst
    PROVE  [r EXCEPT !.step = s, !.n = n] \in Call
BY Zenon DEF Call, Steps

\* ... with the heads it has read ...
LEMMA CallHeads ==
    ASSUME NEW r \in Call, NEW s \in Steps,
           NEW h \in [0 .. Burst - 1 -> Desc]
    PROVE  [r EXCEPT !.step = s, !.head = h] \in Call
BY Zenon DEF Call, Steps

\* ... and with the packets it has copied.
LEMMA CallCopied ==
    ASSUME NEW r \in Call, NEW s \in Steps, NEW n \in 0 .. Burst
    PROVE  [r EXCEPT !.packet_success = n, !.step = s] \in Call
BY Zenon DEF Call, Steps

\* The invariant holds initially.
LEMMA DequeueInit == Init => DequeueInv
<1> SUFFICES ASSUME Init PROVE DequeueInv  BY Zenon
<1> USE Constants
<1>1. TypeOK
  <2>2. pkts \in Seq(0 .. MaxPosted - 1)  BY DEF Init
  <2>3. avail \in 0 .. MaxPosted /\ last \in 0 .. avail /\ fails \in 0 .. MaxFail
    BY DEF Init
  <2>4. /\ 0 \in Desc /\ -1 \in -1 .. MaxPosted - 1
        /\ avail_ring = [d \in Desc |-> 0] /\ used_ring = [d \in Desc |-> 0]
        /\ data = [d \in Desc |-> -1]
    BY DEF Init, Desc
  <2>5. /\ avail_ring \in [Desc -> Desc] /\ used_ring \in [Desc -> Desc]
        /\ data \in [Desc -> -1 .. MaxPosted - 1]
    BY <2>4, Zenon
  <2>6. used \in Nat /\ stored \in Nat /\ seen \in Nat  BY Zenon DEF Init
  <2>7. free \subseteq Desc /\ driver \in {"running", "check", "asleep"}
        /\ kick \in BOOLEAN /\ passed \in BOOLEAN /\ call \in Call
    BY IdleCall, Zenon DEF Init
  <2> QED  BY <2>2, <2>3, <2>5, <2>6, <2>7, Zenon DEF TypeOK
<1>2. Order  BY DEF Init, Order
<1>3. RingInv  BY DEF Init, RingInv
<1>4. CallInv  BY DEF Init, CallInv, NoCall
<1>5. DeliveredOnce  BY DEF Init, DeliveredOnce
<1> QED  BY <1>1, <1>2, <1>3, <1>4, <1>5, Zenon DEF DequeueInv

\* The ring and the call, which the driver's own steps leave alone.
ring == <<avail, avail_ring, data, seen, free, last, used, stored, used_ring,
          call, pkts, fails>>

\* A step that only concerns the notification keeps the invariant.
LEMMA NoticeStep ==
    ASSUME DequeueInv, UNCHANGED ring,
           driver' \in {"running", "check", "asleep"},
           kick' \in BOOLEAN, passed' \in BOOLEAN
    PROVE  DequeueInv'
<1>1. TypeOK'  BY Zenon DEF DequeueInv, TypeOK, ring, Call
<1>2. Order'  BY Zenon DEF DequeueInv, Order, ring
<1>3. RingInv'  BY Zenon DEF DequeueInv, RingInv, ring, slot, U16
<1>4. CallInv'  BY Zenon DEF DequeueInv, CallInv, ring, slot, U16
<1>5. DeliveredOnce'  BY Zenon DEF DequeueInv, DeliveredOnce, ring
<1> QED  BY <1>1, <1>2, <1>3, <1>4, <1>5, Zenon DEF DequeueInv

\* guest_post: the slot at avail is behind those in flight, and the descriptor
\* is none of theirs.
LEMMA PostStep ==
    ASSUME DequeueInv, NEW d \in Desc, guest_post(d)
    PROVE  DequeueInv'
<1> USE Constants
<1>0. TypeOK /\ Order /\ RingInv /\ CallInv /\ DeliveredOnce
  BY Zenon DEF DequeueInv
<1>1. /\ avail \in Nat /\ last \in Nat /\ seen \in Nat /\ stored \in Nat
      /\ used \in Nat /\ call.n \in Nat /\ call.packet_success \in Nat
  BY <1>0, Numbers, Zenon
<1>2. /\ avail' = avail + 1 /\ avail < MaxPosted /\ avail - seen < Size
      /\ UNCHANGED <<last, used, stored, seen, call, pkts, fails, used_ring>>
  BY Zenon DEF guest_post, core
<1>3. avail_ring' = [avail_ring EXCEPT ![slot(avail)] = d]
  BY Zenon DEF guest_post
<1>4. ASSUME NEW i \in seen .. avail - 1
      PROVE  avail_ring'[slot(i)] = avail_ring[slot(i)]
  <2>1. i \in Nat /\ i <= avail /\ avail - i < Size /\ i # avail
    BY <1>1, <1>2
  <2>2. slot(i) # slot(avail) /\ slot(i) \in Desc
    BY <1>1, <2>1, SlotFacts, Zenon
  <2> QED  BY <1>0, <1>3, <2>2, Zenon DEF TypeOK
<1>5. avail_ring'[slot(avail)] = d
  BY <1>0, <1>1, <1>3, SlotFacts, Zenon DEF TypeOK
<1>f. /\ free' = free \ {d} /\ d \in free
      /\ DOMAIN data = Desc /\ data' = [data EXCEPT ![d] = avail]
  BY <1>0, Zenon DEF guest_post, TypeOK
<1>6. TypeOK'
  <2>1. avail' \in 0 .. MaxPosted /\ last' \in 0 .. avail'
    BY <1>0, <1>1, <1>2 DEF Order
  <2>2. avail_ring' \in [Desc -> Desc]
    BY <1>0, <1>3, Zenon DEF TypeOK
  <2>3. avail \in -1 .. MaxPosted - 1  BY <1>1, <1>2
  <2>4. data' \in [Desc -> -1 .. MaxPosted - 1]
    BY <1>0, <2>3, Zenon DEF TypeOK, guest_post
  <2>5. free' \subseteq Desc  BY <1>0, Zenon DEF TypeOK, guest_post
  <2> QED
    BY <1>0, <2>1, <2>2, <2>4, <2>5, Zenon DEF TypeOK, guest_post, core
<1>7. Order'  BY <1>0, <1>1, <1>2 DEF Order
<1>8. RingInv'
  <2>1. ASSUME NEW i \in seen' .. avail' - 1
        PROVE  /\ avail_ring'[slot(i)] \notin free'
               /\ data'[avail_ring'[slot(i)]] = i
    <3>1. CASE i = avail
      BY <1>5, <1>f, <3>1, Zenon
    <3>2. CASE i # avail
      <4>1. i \in seen .. avail - 1  BY <1>1, <1>2, <3>2
      <4>2. avail_ring[slot(i)] \notin free /\ data[avail_ring[slot(i)]] = i
        BY <1>0, <4>1, Zenon DEF RingInv
      <4>3. avail_ring[slot(i)] # d  BY <4>2, Zenon DEF guest_post
      <4>4. slot(i) \in Desc  BY <1>1, <4>1, SlotFacts
      <4>5. avail_ring[slot(i)] \in Desc  BY <1>0, <4>4, Zenon DEF TypeOK
      <4>6. avail_ring'[slot(i)] = avail_ring[slot(i)]  BY <1>4, <4>1, Zenon
      <4> QED  BY <1>f, <4>2, <4>3, <4>5, <4>6, Zenon
    <3> QED  BY <3>1, <3>2, Zenon
  <2>2. ASSUME NEW i \in seen' .. last' - 1
        PROVE  used_ring'[slot(i)] = avail_ring'[slot(i)]
    <3>1. i \in seen .. last - 1 /\ i \in seen .. avail - 1
      BY <1>0, <1>1, <1>2 DEF Order
    <3> QED  BY <1>0, <1>2, <1>4, <3>1, Zenon DEF RingInv
  <2> QED  BY <2>1, <2>2, Zenon DEF RingInv, slot, U16
<1>9. CallInv'
  <2>1. ASSUME call.step = "copy",
               NEW j \in call.packet_success .. call.n - 1
        PROVE  call.head[j] = avail_ring'[slot(last + (j - call.packet_success))]
    <3>1. last + (j - call.packet_success) \in seen .. avail - 1
      BY <1>0, <1>1, <2>1 DEF Order, CallInv
    <3> QED  BY <1>0, <1>4, <2>1, <3>1, Zenon DEF CallInv
  <2> QED  BY <1>0, <1>1, <1>2, <2>1 DEF CallInv, slot, U16
<1>10. DeliveredOnce'  BY <1>0, <1>2, Zenon DEF DeliveredOnce
<1> QED  BY <1>6, <1>7, <1>8, <1>9, <1>10, Zenon DEF DequeueInv

\* guest_reap: the descriptor at seen holds the packet seen, so it is none of
\* those still in flight.
LEMMA ReapStep ==
    ASSUME DequeueInv, guest_reap
    PROVE  DequeueInv'
<1> USE Constants
<1> DEFINE d == used_ring[slot(seen)]
<1>0. TypeOK /\ Order /\ RingInv /\ CallInv /\ DeliveredOnce
  BY Zenon DEF DequeueInv
<1>1. /\ avail \in Nat /\ last \in Nat /\ seen \in Nat /\ stored \in Nat
      /\ used \in Nat /\ call.n \in Nat /\ call.packet_success \in Nat
  BY <1>0, Numbers, Zenon
<1>2. /\ seen' = seen + 1 /\ seen # used
      /\ UNCHANGED <<avail, avail_ring, last, used, stored, used_ring, call,
                     pkts, fails>>
  BY Zenon DEF guest_reap, core
<1>3. seen < used /\ seen < last /\ seen < avail
  BY <1>0, <1>1, <1>2 DEF Order
<1>4. slot(seen) \in Desc  BY <1>1, SlotFacts, Zenon
<1>5. d \in Desc  BY <1>0, <1>4, Zenon DEF TypeOK
<1>6. d = avail_ring[slot(seen)] /\ data[d] = seen
  <2>1. seen \in seen .. avail - 1 /\ seen \in seen .. last - 1
    BY <1>1, <1>3
  <2> QED  BY <1>0, <2>1, Zenon DEF RingInv
<1>7. /\ free' = free \cup {d} /\ DOMAIN data = Desc
      /\ data' = [data EXCEPT ![d] = -1]
  BY <1>0, Zenon DEF guest_reap, TypeOK
<1> HIDE DEF d
<1>8. TypeOK'
  <2>1. avail' \in 0 .. MaxPosted /\ last' \in 0 .. avail' /\ seen' \in Nat
    BY <1>0, <1>1, <1>2 DEF TypeOK
  <2>2. -1 \in -1 .. MaxPosted - 1  OBVIOUS
  <2>3. data' \in [Desc -> -1 .. MaxPosted - 1]
    BY <1>0, <1>7, <2>2, Zenon DEF TypeOK
  <2>4. free' \subseteq Desc  BY <1>0, <1>5, <1>7, Zenon DEF TypeOK
  <2> QED
    BY <1>0, <2>1, <2>3, <2>4, Zenon DEF TypeOK, guest_reap, core
<1>9. Order'  BY <1>0, <1>1, <1>2, <1>3 DEF Order
<1>10. RingInv'
  <2>1. ASSUME NEW i \in seen' .. avail' - 1
        PROVE  /\ avail_ring'[slot(i)] \notin free'
               /\ data'[avail_ring'[slot(i)]] = i
    <3>1. i \in seen .. avail - 1 /\ i # seen /\ i \in Nat  BY <1>1, <1>2
    <3>2. avail_ring[slot(i)] \notin free /\ data[avail_ring[slot(i)]] = i
      BY <1>0, <3>1, Zenon DEF RingInv
    <3>3. avail_ring[slot(i)] # d  BY <1>6, <3>1, <3>2, Zenon
    <3>4. slot(i) \in Desc  BY <3>1, SlotFacts, Zenon
    <3>5. avail_ring[slot(i)] \in Desc  BY <1>0, <3>4, Zenon DEF TypeOK
    <3> QED  BY <1>2, <1>7, <3>2, <3>3, <3>5, Zenon
  <2>2. ASSUME NEW i \in seen' .. last' - 1
        PROVE  used_ring'[slot(i)] = avail_ring'[slot(i)]
    <3>1. i \in seen .. last - 1  BY <1>1, <1>2
    <3> QED  BY <1>0, <1>2, <3>1, Zenon DEF RingInv
  <2> QED  BY <2>1, <2>2, Zenon DEF RingInv, slot, U16
<1>11. CallInv'  BY <1>0, <1>2, Zenon DEF CallInv, slot, U16
<1>12. DeliveredOnce'  BY <1>0, <1>2, Zenon DEF DeliveredOnce
<1> QED  BY <1>8, <1>9, <1>10, <1>11, <1>12, Zenon DEF DequeueInv

\* Steps of a call that neither copy nor publish.
LEMMA BatchStep ==
    ASSUME DequeueInv, vhost_dequeue_burst
    PROVE  DequeueInv'
<1> USE Constants
<1>0. TypeOK /\ Order /\ RingInv /\ CallInv /\ DeliveredOnce
  BY Zenon DEF DequeueInv
<1>1. /\ avail \in Nat /\ last \in Nat /\ seen \in Nat /\ stored \in Nat
      /\ last <= avail
  BY <1>0, Numbers, Zenon DEF Order
<1> DEFINE m == Smaller(U16(U16(avail) - U16(last)), Burst)
<1>2. U16(avail) # U16(last) /\ avail - last < IdxMod
  BY <1>0, <1>1 DEF vhost_dequeue_burst, Order
<1>3. U16(U16(avail) - U16(last)) = avail - last /\ avail # last
  BY <1>1, <1>2, IndexFacts, Zenon
<1>4. m \in Nat \ {0} /\ m <= avail - last /\ m <= Burst
  BY <1>1, <1>3 DEF Smaller
<1>5. call' = [NoCall EXCEPT !.step = "heads", !.n = cut(m)]
  BY Zenon DEF vhost_dequeue_burst
<1> HIDE DEF m
<1>6. cut(m) \in 1 .. m  BY <1>1, <1>4, CutFacts, Zenon
<1>7. /\ call'.step = "heads" /\ call'.n = cut(m)
      /\ call'.packet_success = 0
  BY <1>5, Zenon DEF NoCall
<1>8. call' \in Call
  <2>1. cut(m) \in 0 .. Burst  BY <1>4, <1>6
  <2>2. "heads" \in Steps  BY Zenon DEF Steps
  <2> QED  BY <1>5, <2>1, <2>2, IdleCall, CallBatch, Zenon
<1>9. UNCHANGED <<guest, last, used, stored, used_ring, notice, pkts, fails>>
  BY Zenon DEF vhost_dequeue_burst
<1>10. TypeOK'  BY <1>0, <1>8, <1>9, Zenon DEF TypeOK, guest, notice
<1>11. Order' /\ RingInv' /\ DeliveredOnce'
  BY <1>0, <1>9, Zenon DEF Order, RingInv, DeliveredOnce, guest, slot, U16
<1>12. CallInv'
  BY <1>0, <1>1, <1>4, <1>6, <1>7, <1>9 DEF CallInv, Order, guest
<1> QED  BY <1>10, <1>11, <1>12, Zenon DEF DequeueInv

\* read_heads: what head holds is what the ring holds.
LEMMA HeadsStep ==
    ASSUME DequeueInv, read_heads
    PROVE  DequeueInv'
<1> USE Constants
<1> DEFINE h == [i \in 0 .. Burst - 1 |->
                    IF i < call.n THEN avail_ring[slot(last + i)] ELSE 0]
<1>0. TypeOK /\ Order /\ RingInv /\ CallInv /\ DeliveredOnce
  BY Zenon DEF DequeueInv
<1>1. /\ last \in Nat /\ call.n \in Nat /\ call.n <= Burst
      /\ call.step = "heads" /\ call.packet_success = 0 /\ call.n > 0
  BY <1>0, Numbers, Zenon DEF read_heads, CallInv
<1>2. call' = [call EXCEPT !.step = "copy", !.head = h]
  BY <1>1, Zenon DEF read_heads
<1>3. ASSUME NEW i \in 0 .. Burst - 1
      PROVE  (IF i < call.n THEN avail_ring[slot(last + i)] ELSE 0) \in Desc
  <2>1. last + i \in Nat /\ 0 \in Desc  BY <1>1 DEF Desc
  <2>2. slot(last + i) \in Desc  BY <2>1, SlotFacts, Zenon
  <2> QED  BY <1>0, <2>1, <2>2, Zenon DEF TypeOK
<1>4. h \in [0 .. Burst - 1 -> Desc]  BY <1>3, Zenon
<1>5. \A j \in 0 .. call.n - 1 : h[j] = avail_ring[slot(last + (j - 0))]
  BY <1>1
<1> HIDE DEF h
<1>6. call \in Call  BY <1>0, Zenon DEF TypeOK
<1>7. call' \in Call
  <2>1. "copy" \in Steps  BY Zenon DEF Steps
  <2> QED  BY <1>2, <1>4, <1>6, <2>1, CallHeads, Zenon
<1>8. /\ call'.step = "copy" /\ call'.n = call.n
      /\ call'.packet_success = 0 /\ call'.head = h
  BY <1>1, <1>2, <1>6, Zenon DEF Call
<1>9. UNCHANGED <<guest, last, used, stored, used_ring, notice, pkts, fails>>
  BY Zenon DEF read_heads
<1>10. TypeOK'  BY <1>0, <1>7, <1>9, Zenon DEF TypeOK, guest, notice
<1>11. Order' /\ RingInv' /\ DeliveredOnce'
  BY <1>0, <1>9, Zenon DEF Order, RingInv, DeliveredOnce, guest, slot, U16
<1>12. CallInv'
  <2>1. avail_ring' = avail_ring /\ avail' = avail /\ last' = last
        /\ stored' = stored
    BY <1>9, Zenon DEF guest
  <2> QED  BY <1>0, <1>1, <1>5, <1>8, <2>1, Zenon DEF CallInv, slot, U16
<1> QED  BY <1>10, <1>11, <1>12, Zenon DEF DequeueInv

\* update_used_ring gives back what was posted at last, and leaves the slots of
\* the other packets in flight alone.
LEMMA UsedRing ==
    ASSUME DequeueInv, call.step = "copy", update_used_ring
    PROVE  /\ used_ring' \in [Desc -> Desc]
           /\ call.head[call.packet_success] = avail_ring[slot(last)]
           /\ data[avail_ring[slot(last)]] = last
           /\ \A i \in seen .. last : used_ring'[slot(i)] = avail_ring[slot(i)]
<1> USE Constants
<1>0. TypeOK /\ Order /\ RingInv /\ CallInv  BY Zenon DEF DequeueInv
<1>1. /\ avail \in Nat /\ last \in Nat /\ seen \in Nat
      /\ used \in Nat /\ stored \in Nat
      /\ call.n \in Nat /\ call.packet_success \in Nat
  BY <1>0, Numbers, Zenon
<1>2. /\ call.packet_success < call.n /\ last < avail /\ seen <= last
      /\ last - seen < Size
  BY <1>0, <1>1 DEF CallInv, Order
<1>3. call.head[call.packet_success] = avail_ring[slot(last)]
  <2>1. call.packet_success \in call.packet_success .. call.n - 1
        /\ last + (call.packet_success - call.packet_success) = last
    BY <1>1, <1>2
  <2> QED  BY <1>0, <2>1, Zenon DEF CallInv
<1>4. slot(last) \in Desc  BY <1>1, SlotFacts, Zenon
<1>5. avail_ring[slot(last)] \in Desc  BY <1>0, <1>4, Zenon DEF TypeOK
<1>6. used_ring' = [used_ring EXCEPT ![slot(last)] = avail_ring[slot(last)]]
  BY <1>3, Zenon DEF update_used_ring
<1>7. used_ring' \in [Desc -> Desc]
  BY <1>0, <1>5, <1>6, Zenon DEF TypeOK
<1>8. data[avail_ring[slot(last)]] = last
  <2>1. last \in seen .. avail - 1  BY <1>1, <1>2
  <2> QED  BY <1>0, <2>1, Zenon DEF RingInv
<1>9. ASSUME NEW i \in seen .. last
      PROVE  used_ring'[slot(i)] = avail_ring[slot(i)]
  <2>1. CASE i = last
    BY <1>0, <1>4, <1>6, <2>1, Zenon DEF TypeOK
  <2>2. CASE i # last
    <3>1. i \in seen .. last - 1 /\ i \in Nat /\ i <= last /\ last - i < Size
      BY <1>1, <1>2, <2>2
    <3>2. slot(i) # slot(last) /\ slot(i) \in Desc
      BY <1>1, <2>2, <3>1, SlotFacts, Zenon
    <3>3. used_ring[slot(i)] = avail_ring[slot(i)]
      BY <1>0, <3>1, Zenon DEF RingInv
    <3> QED  BY <1>0, <1>6, <3>2, <3>3, Zenon DEF TypeOK
  <2> QED  BY <2>1, <2>2, Zenon
<1> QED  BY <1>3, <1>7, <1>8, <1>9, Zenon

\* copy_packet: the buffer at last holds the packet last.
LEMMA CopyStep ==
    ASSUME DequeueInv, copy_packet
    PROVE  DequeueInv'
<1> USE Constants
<1> DEFINE k == call.packet_success
           s == IF k + 1 = call.n THEN "publish" ELSE "copy"
<1>0. TypeOK /\ Order /\ RingInv /\ CallInv /\ DeliveredOnce
  BY Zenon DEF DequeueInv
<1>1. /\ avail \in Nat /\ last \in Nat /\ seen \in Nat /\ stored \in Nat
      /\ used \in Nat /\ call.n \in Nat /\ k \in Nat /\ call.n <= Burst
      /\ avail <= MaxPosted
  BY <1>0, Numbers, Zenon
<1>2. /\ call.step = "copy" /\ update_used_ring /\ last' = last + 1
      /\ UNCHANGED <<guest, used, stored, notice, fails>>
  BY Zenon DEF copy_packet
<1>3. /\ used_ring' \in [Desc -> Desc]
      /\ call.head[k] = avail_ring[slot(last)]
      /\ data[avail_ring[slot(last)]] = last
      /\ \A i \in seen .. last : used_ring'[slot(i)] = avail_ring[slot(i)]
  BY <1>2, UsedRing, Zenon
<1>4. pkts' = Append(pkts, last)
  BY <1>3, Zenon DEF copy_packet
<1>5. k < call.n /\ last + (call.n - k) <= avail /\ stored + k <= last
  BY <1>0, <1>2, Zenon DEF CallInv
<1>6. call \in Call /\ s \in Steps  BY <1>0, Zenon DEF TypeOK, Steps
<1>7. call' = [call EXCEPT !.packet_success = k + 1, !.step = s]
  BY <1>2, <1>6, Zenon DEF copy_packet, Call
<1>8. call' \in Call
  <2>1. k + 1 \in 0 .. Burst  BY <1>1, <1>5
  <2> HIDE DEF k, s
  <2> QED  BY <1>6, <1>7, <2>1, CallCopied, Zenon
<1>9. /\ call'.step = s /\ call'.n = call.n
      /\ call'.packet_success = k + 1 /\ call'.head = call.head
  BY <1>6, <1>7, Zenon DEF Call
<1>10. UNCHANGED <<avail, avail_ring, data, seen, free, used, stored>>
  BY <1>2, Zenon DEF guest
<1>11. TypeOK'
  <2>1. pkts \in Seq(0 .. MaxPosted - 1)  BY <1>0, Zenon DEF TypeOK
  <2>2. last \in 0 .. MaxPosted - 1 /\ last' \in 0 .. avail'
    BY <1>1, <1>2, <1>5, <1>10
  <2>3. pkts' \in Seq(0 .. MaxPosted - 1)  BY <1>4, <2>1, <2>2
  <2> QED
    BY <1>0, <1>2, <1>3, <1>8, <2>2, <2>3, Zenon DEF TypeOK, guest, notice
<1>12. Order'  BY <1>0, <1>1, <1>2, <1>5, <1>10 DEF Order
<1>13. RingInv'
  <2>1. \A i \in seen' .. last' - 1 : used_ring'[slot(i)] = avail_ring'[slot(i)]
    BY <1>1, <1>2, <1>3, <1>10
  <2> QED  BY <1>0, <1>10, <2>1, Zenon DEF RingInv, slot, U16
<1>14. CallInv'
  <2>1. ASSUME s = "copy", NEW j \in k + 1 .. call.n - 1
        PROVE  call.head[j] = avail_ring[slot((last + 1) + (j - (k + 1)))]
    <3>1. j \in k .. call.n - 1
          /\ (last + 1) + (j - (k + 1)) = last + (j - k)
      BY <1>1
    <3> QED  BY <1>0, <1>2, <3>1, Zenon DEF CallInv
  <2>2. /\ k + 1 <= call.n
        /\ s = "copy" => k + 1 < call.n
        /\ (last + 1) + (call.n - (k + 1)) <= avail
        /\ stored + (k + 1) <= last + 1
        /\ s \in {"copy", "publish"}
    BY <1>1, <1>5
  <2> HIDE DEF k, s
  <2> QED  BY <1>2, <1>9, <1>10, <2>1, <2>2, Zenon DEF CallInv, slot, U16
<1>15. DeliveredOnce'
  <2>1. Len(pkts) = last /\ pkts \in Seq(0 .. MaxPosted - 1)
        /\ \A i \in 1 .. last : pkts[i] = i - 1
    BY <1>0, Zenon DEF DeliveredOnce, TypeOK
  <2>2. Len(pkts') = last + 1  BY <1>4, <2>1
  <2>3. ASSUME NEW i \in 1 .. last + 1 PROVE pkts'[i] = i - 1
    <3>1. CASE i = last + 1  BY <1>1, <1>4, <2>1, <3>1
    <3>2. CASE i # last + 1
      <4>1. i \in 1 .. last  BY <1>1, <3>2
      <4> QED  BY <1>1, <1>4, <2>1, <4>1
    <3> QED  BY <3>1, <3>2, Zenon
  <2> QED  BY <1>2, <2>2, <2>3, Zenon DEF DeliveredOnce
<1> QED  BY <1>11, <1>12, <1>13, <1>14, <1>15, Zenon DEF DequeueInv

\* no_mbuf: the packet at last stays to be taken.
LEMMA FailStep ==
    ASSUME DequeueInv, no_mbuf
    PROVE  DequeueInv'
<1> USE Constants
<1>0. TypeOK /\ Order /\ RingInv /\ CallInv /\ DeliveredOnce
  BY Zenon DEF DequeueInv
<1>1. last \in Nat /\ seen \in Nat  BY <1>0, Numbers, Zenon
<1>2. /\ call.step = "copy" /\ update_used_ring /\ call' = NoCall
      /\ fails < MaxFail /\ fails' = fails + 1
      /\ UNCHANGED <<guest, last, used, stored, notice, pkts>>
  BY Zenon DEF no_mbuf
<1>3. /\ used_ring' \in [Desc -> Desc]
      /\ \A i \in seen .. last : used_ring'[slot(i)] = avail_ring[slot(i)]
  BY <1>2, UsedRing, Zenon
<1>4. fails' \in 0 .. MaxFail  BY <1>0, <1>2 DEF TypeOK
<1>5. TypeOK'
  BY <1>0, <1>2, <1>3, <1>4, IdleCall, Zenon DEF TypeOK, guest, notice
<1>6. Order' /\ DeliveredOnce'
  BY <1>0, <1>2, Zenon DEF Order, DeliveredOnce, guest
<1>7. RingInv'
  <2>1. UNCHANGED <<avail, avail_ring, data, seen, free, last>>
    BY <1>2, Zenon DEF guest
  <2>2. \A i \in seen' .. last' - 1 : used_ring'[slot(i)] = avail_ring'[slot(i)]
    BY <1>1, <1>3, <2>1
  <2> QED  BY <1>0, <2>1, <2>2, Zenon DEF RingInv, slot, U16
<1>8. CallInv'  BY <1>2 DEF CallInv, NoCall
<1> QED  BY <1>5, <1>6, <1>7, <1>8, Zenon DEF DequeueInv

\* publish: only what has been copied is published.
LEMMA PublishStep ==
    ASSUME DequeueInv, publish
    PROVE  DequeueInv'
<1> USE Constants
<1>0. TypeOK /\ Order /\ RingInv /\ CallInv /\ DeliveredOnce
  BY Zenon DEF DequeueInv
<1>1. /\ last \in Nat /\ stored \in Nat /\ used \in Nat /\ seen \in Nat
      /\ avail \in Nat /\ call.packet_success \in Nat
  BY <1>0, Numbers, Zenon
<1>2. /\ stored' = stored + call.packet_success
      /\ call' = [call EXCEPT !.step = "notify"] /\ call.step = "publish"
      /\ UNCHANGED <<guest, last, used, used_ring, notice, pkts, fails>>
  BY Zenon DEF publish
<1>3. call \in Call /\ "notify" \in Steps  BY <1>0, Zenon DEF TypeOK, Steps
<1>4. call' \in Call  BY <1>2, <1>3, CallStep, Zenon
<1>5. /\ call'.step = "notify" /\ call'.n = call.n
      /\ call'.packet_success = call.packet_success
  BY <1>2, <1>3, Zenon DEF Call
<1>6. stored' \in Nat /\ used <= stored' /\ stored' <= last
  BY <1>0, <1>1, <1>2 DEF CallInv, Order
<1>7. TypeOK'  BY <1>0, <1>2, <1>4, <1>6, Zenon DEF TypeOK, guest, notice
<1>8. Order'  BY <1>0, <1>2, <1>6, Zenon DEF Order, guest
<1>9. RingInv' /\ DeliveredOnce'
  BY <1>0, <1>2, Zenon DEF RingInv, DeliveredOnce, guest, slot, U16
<1>10. CallInv'  BY <1>0, <1>5, Zenon DEF CallInv
<1> QED  BY <1>7, <1>8, <1>9, <1>10, Zenon DEF DequeueInv

\* notify and drain: memory catches up with the core.
LEMMA NotifyStep ==
    ASSUME DequeueInv, notify \/ drain
    PROVE  DequeueInv'
<1> USE Constants
<1>0. TypeOK /\ Order /\ RingInv /\ CallInv /\ DeliveredOnce
  BY Zenon DEF DequeueInv
<1>1. /\ last \in Nat /\ stored \in Nat /\ used \in Nat /\ seen \in Nat
      /\ avail \in Nat
  BY <1>0, Numbers, Zenon
<1>2. /\ UNCHANGED <<guest, last, stored, used_ring, pkts, fails>>
      /\ used' = used \/ used' = stored
      /\ call' = call \/ call' = NoCall
  BY Zenon DEF notify, drain
<1>3. kick' \in BOOLEAN /\ passed' \in BOOLEAN
  BY <1>0, Zenon DEF TypeOK, notify, drain, notice
<1>4. used' \in Nat /\ seen <= used' /\ used' <= stored
  BY <1>0, <1>1, <1>2 DEF Order
<1>5. call' \in Call  BY <1>0, <1>2, IdleCall, Zenon DEF TypeOK
<1>6. TypeOK'  BY <1>0, <1>2, <1>3, <1>4, <1>5, Zenon DEF TypeOK, guest
<1>7. Order'  BY <1>0, <1>2, <1>4, Zenon DEF Order, guest
<1>8. RingInv' /\ DeliveredOnce'
  BY <1>0, <1>2, Zenon DEF RingInv, DeliveredOnce, guest, slot, U16
<1>9. CallInv'
  <2>1. CASE call' = call
    BY <1>0, <1>2, <2>1, Zenon DEF CallInv, guest, slot, U16
  <2>2. CASE call' = NoCall  BY <2>2 DEF CallInv, NoCall
  <2> QED  BY <1>2, <2>1, <2>2, Zenon
<1> QED  BY <1>6, <1>7, <1>8, <1>9, Zenon DEF DequeueInv

\* Every step keeps the invariant.
LEMMA DequeueStep == DequeueInv /\ [Next]_vars => DequeueInv'
<1> SUFFICES ASSUME DequeueInv, [Next]_vars PROVE DequeueInv'  BY Zenon
<1>0. driver \in {"running", "check", "asleep"} /\ kick \in BOOLEAN
      /\ passed \in BOOLEAN
  BY Zenon DEF DequeueInv, TypeOK
<1>1. CASE \E d \in Desc : guest_post(d)  BY <1>1, PostStep, Zenon
<1>2. CASE guest_reap  BY <1>2, ReapStep, Zenon
<1>3. CASE Guest
  <2>1. UNCHANGED ring /\ passed' \in BOOLEAN
    BY <1>0, <1>3, Zenon DEF Guest, guest_stop, guest_check, guest_interrupt,
                      core, ring
  <2>2. driver' \in {"running", "check", "asleep"} /\ kick' \in BOOLEAN
    BY <1>0, <1>3, Zenon DEF Guest, guest_stop, guest_check, guest_interrupt
  <2> QED  BY <2>1, <2>2, NoticeStep, Zenon
<1>4. CASE Core
  BY <1>4, BatchStep, HeadsStep, CopyStep, PublishStep, NotifyStep, Zenon DEF Core
<1>5. CASE drain  BY <1>5, NotifyStep, Zenon
<1>6. CASE no_mbuf  BY <1>6, FailStep, Zenon
<1>7. CASE UNCHANGED vars
  <2>1. UNCHANGED ring /\ driver' = driver /\ kick' = kick /\ passed' = passed
    BY <1>7, Zenon DEF vars, guest, notice, ring
  <2> QED  BY <1>0, <2>1, NoticeStep, Zenon
<1>8. CASE nothing_available  BY <1>7, <1>8, Zenon DEF nothing_available
<1> QED
  BY <1>1, <1>2, <1>3, <1>4, <1>5, <1>6, <1>7, <1>8, Zenon DEF Next

-----------------------------------------------------------------------------
(* The notification of the guest *)

\* A step of the guest, or of the store buffer, between two steps of the core.
LEMMA WakeGuest ==
    ASSUME DequeueInv, WakeInv,
           \/ \E d \in Desc : guest_post(d)
           \/ guest_reap \/ Guest \/ drain
    PROVE  WakeInv'
<1>1. CASE \E d \in Desc : guest_post(d)
  <2>1. UNCHANGED <<stored, call, passed, used, seen, driver, kick>>
    BY <1>1, Zenon DEF guest_post, core
  <2> QED  BY <2>1, Zenon DEF WakeInv, NoLostWakeup
<1>2. CASE guest_reap
  <2>1. driver' = "running"  BY <1>2, Zenon DEF guest_reap
  <2> QED  BY <1>2, <2>1, Zenon DEF guest_reap, core, WakeInv, NoLostWakeup
<1>3. CASE guest_stop
  BY <1>3, Zenon DEF guest_stop, core, WakeInv, NoLostWakeup
<1>4. CASE guest_check
  <2>1. U16(seen) = U16(used) => seen = used
    <3>1. TypeOK /\ Order  BY Zenon DEF DequeueInv
    <3>2. used - seen < IdxMod /\ seen <= used
      BY <3>1, Numbers, Constants DEF Order
    <3> QED  BY <3>1, <3>2, Numbers, IndexFacts, Zenon
  <2>2. driver' = "asleep" => seen = used
    BY <1>4, <2>1, Zenon DEF guest_check
  <2> QED  BY <1>4, <2>2, Zenon DEF guest_check, core, WakeInv, NoLostWakeup
<1>5. CASE guest_interrupt
  <2>1. driver' = "running"  BY <1>5, Zenon DEF guest_interrupt
  <2> QED  BY <1>5, <2>1, Zenon DEF guest_interrupt, core, WakeInv, NoLostWakeup
<1>6. CASE drain
  BY <1>6, Zenon DEF drain, guest, notice, WakeInv, NoLostWakeup
<1> QED  BY <1>1, <1>2, <1>3, <1>4, <1>5, <1>6, Zenon DEF Guest

\* A step of the core.
LEMMA WakeCore ==
    ASSUME DequeueInv, WakeInv, Core \/ no_mbuf
    PROVE  WakeInv'
<1>0. call \in Call  BY Zenon DEF DequeueInv, TypeOK
<1>1. CASE vhost_dequeue_burst
  <2>1. call.step = "idle" /\ used = stored  BY <1>1, Zenon DEF vhost_dequeue_burst
  <2> QED
    BY <1>1, <2>1, Zenon DEF vhost_dequeue_burst, guest, notice, WakeInv, NoLostWakeup
<1>2. CASE read_heads
  BY <1>2, Zenon DEF read_heads, guest, notice, WakeInv, NoLostWakeup
<1>3. CASE copy_packet
  BY <1>3, Zenon DEF copy_packet, guest, notice, WakeInv, NoLostWakeup
<1>4. CASE publish
  <2>1. call'.step = "notify"  BY <1>0, <1>4, Zenon DEF publish, Call
  <2> QED  BY <2>1, Zenon DEF WakeInv, NoLostWakeup
<1>5. CASE notify
  <2>1. call'.step = "idle"  BY <1>5, Zenon DEF notify, NoCall
  <2>2. driver = "asleep" => kick'  BY <1>5, Zenon DEF notify, no_interrupt
  <2> QED  BY <1>5, <2>1, <2>2, Zenon DEF notify, guest, WakeInv, NoLostWakeup
<1>6. CASE no_mbuf
  <2>1. call'.step = "idle"  BY <1>6, Zenon DEF no_mbuf, NoCall
  <2> QED  BY <1>6, <2>1, Zenon DEF no_mbuf, guest, notice, WakeInv, NoLostWakeup
<1> QED  BY <1>1, <1>2, <1>3, <1>4, <1>5, <1>6, Zenon DEF Core

\* All steps.
LEMMA WakeStep == DequeueInv /\ WakeInv /\ [Next]_vars => WakeInv'
<1> SUFFICES ASSUME DequeueInv, WakeInv, [Next]_vars PROVE WakeInv'  BY Zenon
<1>1. CASE UNCHANGED vars
  BY <1>1, Zenon DEF vars, guest, notice, WakeInv, NoLostWakeup
<1> QED  BY <1>1, WakeGuest, WakeCore, Zenon DEF Next, nothing_available

-----------------------------------------------------------------------------
(* The theorems *)

\* The inductive invariant holds always.
THEOREM DequeueInvariant == Spec => []DequeueInv
<1> QED  BY DequeueInit, DequeueStep, PTL DEF Spec

\* vhost_dequeue_burst: whatever the ring size, the burst, the width of the
\* indices and the cut at cache lines, the switch gets every packet of the guest
\* once, in order and as the guest wrote it, also when allocations fail.
THEOREM PacketsDelivered == Spec => []DeliveredOnce
<1>1. DequeueInv => DeliveredOnce  BY Zenon DEF DequeueInv
<1> QED  BY <1>1, DequeueInvariant, PTL

\* The variables of the model keep their types; last_used_idx never runs past
\* avail->idx.
THEOREM DequeueTypes == Spec => []TypeOK
<1>1. DequeueInv => TypeOK  BY Zenon DEF DequeueInv
<1> QED  BY <1>1, DequeueInvariant, PTL

\* used->idx never runs past what has been copied nor the guest past used->idx,
\* and no more descriptors are in flight than the ring has.
THEOREM IndicesOrdered == Spec => []Order
<1>1. DequeueInv => Order  BY Zenon DEF DequeueInv
<1> QED  BY <1>1, DequeueInvariant, PTL

\* The notification at the end of vhost_dequeue_burst, after used->idx, and the
\* second look of the driver leave no gap between them through which a guest
\* could fall asleep on buffers that are its own again.
THEOREM GuestIsNotified == Spec => []NoLostWakeup
<1>1. Init => WakeInv  BY Zenon DEF Init, NoCall, WakeInv, NoLostWakeup
<1>2. WakeInv => NoLostWakeup  BY Zenon DEF WakeInv
<1> QED  BY <1>1, <1>2, WakeStep, DequeueInvariant, PTL DEF Spec
=============================================================================
