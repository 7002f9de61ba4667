-------------------------- MODULE DaemonLinkProofs --------------------------
(***************************************************************************)
(* For any number of threads of the daemon, any burst and any size of the  *)
(* rings: an mbuf is in one place at a time, a request to execute packets  *)
(* is accepted as a whole or not at all, a thread reads the reply to its   *)
(* own request while no two of them wait, and there is a reply to come for *)
(* every thread that waits.                                                *)
(***************************************************************************)
EXTENDS DaemonLink, TLAPS

\* No entry is in s twice; the mbufs of the messages in a ring.
Once(s) == \A i, j \in DOMAIN s : s[i] = s[j] => i = j
Bufs(ring) == [i \in DOMAIN ring |-> ring[i].mbuf]

\* What the steps use of the number of elements of a set. CountingHolds proves
\* it, from the library's theorems, and until then it is a hypothesis.
Counting ==
    /\ \A P \in SUBSET Mbuf :
           /\ Cardinality(P) \in Nat
           /\ \E g \in [1 .. Cardinality(P) -> P] :
                 \A i, j \in 1 .. Cardinality(P) : g[i] = g[j] => i = j
    /\ \A S, M : \A s, r \in Seq(S) :
           /\ Count(s, M) \in Nat /\ Count(s, M) <= Len(s)
           /\ Count(s \o r, M) = Count(s, M) + Count(r, M)
    /\ \A x, M : Count(<<x>>, M) = IF x \in M THEN 1 ELSE 0
    /\ \A S, M : \A s \in Seq(S) :
           /\ (\A i \in 1 .. Len(s) : s[i] \in M) => Count(s, M) = Len(s)
           /\ Count(s, M) = 0 <=> \A i \in 1 .. Len(s) : s[i] \notin M
    /\ Cardinality({}) = 0
    /\ \A W \in SUBSET Thread :
           /\ Cardinality(W) \in Nat
           /\ \A t \in Thread \ W : Cardinality(W \cup {t}) = Cardinality(W) + 1

\* What a ring is made of that is put behind another.
LEMMA Joined ==
    ASSUME NEW S, NEW s \in Seq(S), NEW r \in Seq(S)
    PROVE  /\ s \o r \in Seq(S) /\ Len(s \o r) = Len(s) + Len(r)
           /\ Mbufs(s \o r) = Mbufs(s) \cup Mbufs(r)
           /\ Once(s \o r) <=> Once(s) /\ Once(r) /\ Mbufs(s) \cap Mbufs(r) = {}
<1> DEFINE q == s \o r
           n == Len(s)
<1>1. /\ q \in Seq(S) /\ Len(q) = n + Len(r) /\ n \in Nat /\ Len(r) \in Nat
      /\ DOMAIN q = 1 .. n + Len(r) /\ DOMAIN s = 1 .. n /\ DOMAIN r = 1 .. Len(r)
  OBVIOUS
<1>2. /\ \A i \in 1 .. n : q[i] = s[i]
      /\ \A i \in 1 .. Len(r) : q[n + i] = r[i]
  OBVIOUS
<1>3. \A i \in 1 .. n + Len(r) : i \notin 1 .. n => \E j \in 1 .. Len(r) : i = n + j
  <2> TAKE i \in 1 .. n + Len(r)
  <2> HAVE i \notin 1 .. n
  <2>1. i - n \in 1 .. Len(r) /\ i = n + (i - n)  BY <1>1
  <2> QED  BY Zenon, <2>1
<1> HIDE DEF q, n
<1>4. Mbufs(q) = Mbufs(s) \cup Mbufs(r)
  <2>1. Mbufs(s) \subseteq Mbufs(q)
    BY <1>1, <1>2 DEF Mbufs
  <2>2. Mbufs(r) \subseteq Mbufs(q)
    <3> SUFFICES ASSUME NEW j \in 1 .. Len(r) PROVE r[j] \in Mbufs(q)
      BY <1>1, Zenon DEF Mbufs
    <3>1. n + j \in DOMAIN q /\ q[n + j] = r[j]  BY <1>1, <1>2
    <3> QED  BY <3>1, Zenon DEF Mbufs
  <2>3. Mbufs(q) \subseteq Mbufs(s) \cup Mbufs(r)
    <3> SUFFICES ASSUME NEW i \in 1 .. n + Len(r) PROVE q[i] \in Mbufs(s) \cup Mbufs(r)
      BY <1>1, Zenon DEF Mbufs
    <3>1. CASE i \in 1 .. n  BY <1>1, <1>2, <3>1, Zenon DEF Mbufs
    <3>2. CASE i \notin 1 .. n
      <4>1. PICK j \in 1 .. Len(r) : i = n + j  BY <1>3, <3>2, Zenon
      <4>2. q[i] = r[j] /\ j \in DOMAIN r  BY <1>1, <1>2, <4>1, Zenon
      <4> QED  BY <4>2, Zenon DEF Mbufs
    <3> QED  BY <3>1, <3>2, Zenon
  <2> QED  BY <2>1, <2>2, <2>3, Zenon
<1>5. ASSUME Once(q) PROVE Once(s) /\ Once(r) /\ Mbufs(s) \cap Mbufs(r) = {}
  <2>1. Once(s)  BY <1>1, <1>2, <1>5 DEF Once
  <2>2. Once(r)
    <3> SUFFICES ASSUME NEW i \in 1 .. Len(r), NEW j \in 1 .. Len(r), r[i] = r[j] PROVE i = j
      BY <1>1, Zenon DEF Once
    <3>1. q[n + i] = q[n + j] /\ n + i \in DOMAIN q /\ n + j \in DOMAIN q  BY <1>1, <1>2
    <3>2. n + i = n + j  BY <3>1, <1>5, Zenon DEF Once
    <3> QED  BY <3>2, <1>1
  <2>3. Mbufs(s) \cap Mbufs(r) = {}
    <3> SUFFICES ASSUME NEW i \in 1 .. n, NEW j \in 1 .. Len(r), s[i] = r[j] PROVE FALSE
      BY <1>1, Zenon DEF Mbufs
    <3>1. q[i] = q[n + j] /\ i \in DOMAIN q /\ n + j \in DOMAIN q  BY <1>1, <1>2
    <3>2. i = n + j  BY <3>1, <1>5, Zenon DEF Once
    <3> QED  BY <3>2, <1>1
  <2> QED  BY <2>1, <2>2, <2>3, Zenon
<1>6. ASSUME Once(s), Once(r), Mbufs(s) \cap Mbufs(r) = {} PROVE Once(q)
  <2> SUFFICES ASSUME NEW i \in DOMAIN q, NEW j \in DOMAIN q, q[i] = q[j] PROVE i = j
    BY Zenon DEF Once
  <2>1. \A a \in 1 .. n, b \in 1 .. Len(r) : q[a] # q[n + b]
    BY Zenon, <1>1, <1>2, <1>6 DEF Mbufs
  <2>2. CASE i \in 1 .. n /\ j \in 1 .. n  BY <1>1, <1>2, <1>6, <2>2, Zenon DEF Once
  <2>3. CASE i \notin 1 .. n /\ j \notin 1 .. n
    <3>1. PICK a \in 1 .. Len(r) : i = n + a  BY <1>1, <1>3, <2>3, Zenon
    <3>2. PICK b \in 1 .. Len(r) : j = n + b  BY <1>1, <1>3, <2>3, Zenon
    <3>3. r[a] = r[b]  BY <1>2, <3>1, <3>2, Zenon
    <3>4. a = b  BY <1>1, <1>6, <3>3, Zenon DEF Once
    <3> QED  BY <3>1, <3>2, <3>4, Zenon
  <2>4. CASE i \in 1 .. n /\ j \notin 1 .. n  BY <1>1, <1>3, <2>1, <2>4, Zenon
  <2>5. CASE i \notin 1 .. n /\ j \in 1 .. n  BY <1>1, <1>3, <2>1, <2>5, Zenon
  <2> QED  BY <2>2, <2>3, <2>4, <2>5, Zenon
<1> QED  BY <1>1, <1>4, <1>5, <1>6, Zenon DEF q, n

\* The two parts of a ring of which the first n entries are taken.
LEMMA Parted ==
    ASSUME NEW S, NEW s \in Seq(S), NEW n \in 0 .. Len(s)
    PROVE  /\ SubSeq(s, 1, n) \in Seq(S) /\ Len(SubSeq(s, 1, n)) = n
           /\ SubSeq(s, n + 1, Len(s)) \in Seq(S)
           /\ Len(SubSeq(s, n + 1, Len(s))) = Len(s) - n
           /\ SubSeq(s, 1, n) \o SubSeq(s, n + 1, Len(s)) = s
<1> DEFINE a == SubSeq(s, 1, n)
           b == SubSeq(s, n + 1, Len(s))
<1>0. Len(s) \in Nat /\ n \in Nat /\ n <= Len(s)
  OBVIOUS
<1>1. a \in Seq(S) /\ Len(a) = n
  OBVIOUS
<1>2. b \in Seq(S) /\ Len(b) = Len(s) - n
  OBVIOUS
<1>3. \A i \in 1 .. n : a[i] = s[i]
  OBVIOUS
<1>4. \A i \in 1 .. Len(s) - n : b[i] = s[n + i]
  OBVIOUS
<1> HIDE DEF a, b
<1> DEFINE q == a \o b
<1>5. q \in Seq(S) /\ Len(q) = Len(s)
  BY <1>0, <1>1, <1>2
<1> HIDE DEF q
<1>6. ASSUME NEW i \in 1 .. Len(s) PROVE q[i] = s[i]
  <2>1. CASE i <= n
    <3>1. q[i] = a[i]  BY <1>0, <1>1, <1>2, <2>1 DEF q
    <3>2. i \in 1 .. n  BY <1>0, <2>1
    <3> QED  BY <3>1, <3>2, <1>3, Zenon
  <2>2. CASE i > n
    <3>1. q[i] = b[i - n]  BY <1>0, <1>1, <1>2, <2>2 DEF q
    <3>2. i - n \in 1 .. Len(s) - n /\ n + (i - n) = i  BY <1>0, <2>2
    <3> QED  BY <3>1, <3>2, <1>4, Zenon
  <2> QED  BY <2>1, <2>2, <1>0
<1>7. q = s  BY <1>5, <1>6
<1> QED  BY <1>1, <1>2, <1>7, Zenon DEF a, b, q

\* The first entry of a ring and the others.
LEMMA HeadAndTail ==
    ASSUME NEW S, NEW s \in Seq(S), s # <<>>
    PROVE  /\ Head(s) \in S /\ Tail(s) \in Seq(S) /\ Len(Tail(s)) = Len(s) - 1
           /\ Len(s) >= 1 /\ <<Head(s)>> \in Seq(S) /\ <<Head(s)>> \o Tail(s) = s
<1>1. /\ Head(s) \in S /\ Tail(s) \in Seq(S) /\ Len(Tail(s)) = Len(s) - 1
      /\ Len(s) >= 1
  OBVIOUS
<1>2. <<Head(s)>> \in Seq(S) /\ Len(<<Head(s)>>) = 1
  BY <1>1
<1>3. <<Head(s)>> \o Tail(s) = s
  <2> DEFINE q == <<Head(s)>> \o Tail(s)
  <2>1. q \in Seq(S) /\ Len(q) = Len(s)  BY <1>1, <1>2
  <2>2. \A i \in 1 .. Len(s) : q[i] = s[i]  BY <1>1
  <2> QED  BY <2>1, <2>2
<1> QED  BY <1>1, <1>2, <1>3, Zenon

\* A ring with one entry.
LEMMA Single ==
    ASSUME NEW x
    PROVE  /\ Once(<<x>>) /\ Mbufs(<<x>>) = {x} /\ Bufs(<<x>>) = <<x.mbuf>>
           /\ Len(<<x>>) = 1 /\ \A S : x \in S => <<x>> \in Seq(S)
<1>1. DOMAIN <<x>> = {1} /\ <<x>>[1] = x /\ Len(<<x>>) = 1
  OBVIOUS
<1>2. Once(<<x>>) /\ Mbufs(<<x>>) = {x}
  BY <1>1, Zenon DEF Once, Mbufs
<1>3. Bufs(<<x>>) = <<x.mbuf>>
  BY <1>1 DEF Bufs
<1>4. \A S : x \in S => <<x>> \in Seq(S)
  OBVIOUS
<1> QED  BY <1>1, <1>2, <1>3, <1>4, Zenon

\* The mbufs of the entries of two rings, one behind the other.
LEMMA BufsJoined ==
    ASSUME NEW S, \A x \in S : x.mbuf \in Mbuf, NEW s \in Seq(S), NEW r \in Seq(S)
    PROVE  /\ Bufs(s) \in Seq(Mbuf) /\ Len(Bufs(s)) = Len(s)
           /\ Bufs(s \o r) = Bufs(s) \o Bufs(r)
<1>1. ASSUME NEW z \in Seq(S)
      PROVE  /\ Bufs(z) \in Seq(Mbuf) /\ Len(Bufs(z)) = Len(z)
             /\ \A i \in 1 .. Len(z) : Bufs(z)[i] = z[i].mbuf
  <2>1. Len(z) \in Nat /\ DOMAIN z = 1 .. Len(z) /\ \A i \in 1 .. Len(z) : z[i] \in S
    OBVIOUS
  <2>2. Bufs(z) = [i \in 1 .. Len(z) |-> z[i].mbuf]  BY <2>1, Zenon DEF Bufs
  <2>3. \A i \in 1 .. Len(z) : z[i].mbuf \in Mbuf  BY <2>1, Zenon
  <2> QED  BY <2>1, <2>2, <2>3
<1> DEFINE q == s \o r
           u == Bufs(s)
           v == Bufs(r)
           w == u \o v
<1>2. q \in Seq(S) /\ Len(q) = Len(s) + Len(r) /\ Len(s) \in Nat /\ Len(r) \in Nat
  BY Joined
<1>3. /\ u \in Seq(Mbuf) /\ Len(u) = Len(s) /\ \A i \in 1 .. Len(s) : u[i] = s[i].mbuf
      /\ v \in Seq(Mbuf) /\ Len(v) = Len(r) /\ \A i \in 1 .. Len(r) : v[i] = r[i].mbuf
  BY <1>1, Zenon
<1>4. /\ Bufs(q) \in Seq(Mbuf) /\ Len(Bufs(q)) = Len(q)
      /\ \A i \in 1 .. Len(q) : Bufs(q)[i] = q[i].mbuf
  BY <1>1, <1>2, Zenon
<1> HIDE DEF u, v
<1>5. w \in Seq(Mbuf) /\ Len(w) = Len(s) + Len(r)
  BY <1>3, Joined
<1> HIDE DEF q, w
<1>6. ASSUME NEW i \in 1 .. Len(q) PROVE w[i] = q[i].mbuf
  <2>1. CASE i <= Len(s)
    <3>1. q[i] = s[i] /\ i \in 1 .. Len(s)  BY <1>2, <2>1 DEF q
    <3>2. w[i] = u[i]  BY <1>2, <1>3, <2>1 DEF w
    <3> QED  BY <3>1, <3>2, <1>3, Zenon
  <2>2. CASE i > Len(s)
    <3>1. q[i] = r[i - Len(s)] /\ i - Len(s) \in 1 .. Len(r)  BY <1>2, <2>2 DEF q
    <3>2. w[i] = v[i - Len(s)]  BY <1>2, <1>3, <2>2 DEF w
    <3> QED  BY Zenon, <3>1, <3>2, <1>3
  <2> QED  BY <2>1, <2>2, <1>2
<1>7. Bufs(q) = w
  BY <1>2, <1>4, <1>5, <1>6
<1> QED  BY <1>3, <1>7, Zenon DEF q, w, u, v
-----------------------------------------------------------------------------
(* Types *)

\* Whether s is right for a thread when there have been r requests, of which acc
\* is accepted.
ThreadOK(s, r, acc) ==
    /\ s.step = "idle" => s = NoRequest
    /\ s.step \in {"alloc", "recv"} => s.mbufs = <<>>
    /\ s.step = "send" => Len(s.mbufs) = s.n
    /\ s.step # "idle" => s.no \in 1 .. r
    /\ s.step \in {"alloc", "send"} => acc[s.no] = 0
    /\ Len(s.mbufs) <= MaxBulk
    /\ s.step # "idle" /\ s.family = "flow" => s.n = 1

ThreadInv ==
    /\ \A t \in Thread : ThreadOK(thread[t], requests, accepted)
    /\ \A t, u \in Thread :
         thread[t].step # "idle" /\ thread[u].step # "idle" /\ thread[t].no = thread[u].no
         => t = u
    /\ \A r \in 1 .. MaxRequest : r > requests => accepted[r] = 0

\* All rings have room for what is in them.
Fit(a, m, r, p, f) ==
    /\ Len(a) <= RingSize /\ Len(m) <= RingSize /\ Len(r) <= RingSize
    /\ Len(p) <= RingSize /\ Len(f) <= RingSize

\* The rings one by one.
LEMMA RingsFit ==
    (\A n \in 1 .. 5 : Len(rings[n]) <= RingSize)
        <=> Fit(alloc_ring, message_ring, reply_ring, packet_ring, free_ring)
<1>1. /\ rings[1] = alloc_ring /\ rings[2] = message_ring /\ rings[3] = reply_ring
      /\ rings[4] = packet_ring /\ rings[5] = free_ring
  BY Zenon DEF rings
<1>2. 1 .. 5 = {1, 2, 3, 4, 5}  OBVIOUS
<1> QED  BY <1>1, <1>2, Zenon DEF Fit

\* The types without those of the histories, with the rings one by one.
Shape ==
    /\ pool \subseteq Mbuf /\ busy \subseteq Mbuf
    /\ alloc_ring \in Seq(Mbuf) /\ packet_ring \in Seq(Mbuf) /\ free_ring \in Seq(Mbuf)
    /\ message_ring \in Seq(Message) /\ reply_ring \in Seq(Reply)
    /\ Fit(alloc_ring, message_ring, reply_ring, packet_ring, free_ring)
    /\ thread \in [Thread -> ThreadState]
    /\ dispatcher \in Mbuf \cup {NoMbuf}
    /\ core \in CoreState

Past ==
    /\ requests \in 0 .. MaxRequest
    /\ accepted \in [1 .. MaxRequest -> 0 .. MaxBulk]
    /\ executed \in [1 .. MaxRequest -> Nat]
    /\ events \subseteq {"overlap", "short"}

\* The type invariant, with the rings one by one.
LEMMA TypeParts == /\ TypeOK <=> Shape /\ Past
                   /\ TypeOK' <=> Shape' /\ Past'
<1>1. TypeOK <=> Shape /\ Past
  BY RingsFit, Zenon DEF TypeOK, Shape, Past
<1>2. (\A n \in 1 .. 5 : Len(rings[n]) <= RingSize)'
        <=> Fit(alloc_ring, message_ring, reply_ring, packet_ring, free_ring)'
  <2>1. /\ rings'[1] = alloc_ring' /\ rings'[2] = message_ring' /\ rings'[3] = reply_ring'
        /\ rings'[4] = packet_ring' /\ rings'[5] = free_ring'
    BY Zenon DEF rings
  <2>2. 1 .. 5 = {1, 2, 3, 4, 5}  OBVIOUS
  <2> QED  BY <2>1, <2>2, Zenon DEF Fit
<1>3. TypeOK' <=> Shape' /\ Past'
  BY <1>2, Zenon DEF TypeOK, Shape, Past
<1> QED  BY <1>1, <1>3, Zenon

\* What the fields of a thread, of the core and of a message are.
LEMMA Fields ==
    ASSUME Shape
    PROVE  /\ \A t \in Thread :
                /\ thread[t] \in ThreadState
                /\ thread[t].step \in {"idle", "alloc", "send", "recv", "free"}
                /\ thread[t].family \in {"flow", "packet"}
                /\ thread[t].n \in 0 .. MaxBulk /\ thread[t].mbufs \in Seq(Mbuf)
                /\ thread[t].no \in 0 .. MaxRequest /\ thread[t].got \in 0 .. MaxRequest
           /\ core.step \in {"message", "free", "alloc"} /\ core.batch \in Seq(Message)
           /\ core = [step |-> core.step, batch |-> core.batch]
           /\ \A x \in Message : /\ x.mbuf \in Mbuf /\ x.family \in {"flow", "packet"}
                                 /\ x.no \in 1 .. MaxRequest
           /\ \A x \in Reply : x.mbuf \in Mbuf /\ x.no \in 1 .. MaxRequest
<1>1. \A t \in Thread : thread[t] \in ThreadState  BY Zenon DEF Shape
<1>2. core \in CoreState  BY Zenon DEF Shape
<1> QED  BY <1>1, <1>2, Zenon DEF ThreadState, CoreState, Message, Reply

\* How a thread changes when it goes on.
LEMMA NextThread ==
    ASSUME Shape, NEW t \in Thread, NEW s \in ThreadState, thread' = [thread EXCEPT ![t] = s]
    PROVE  /\ thread' \in [Thread -> ThreadState]
           /\ thread'[t] = s /\ \A u \in Thread : u # t => thread'[u] = thread[u]
  BY Zenon DEF Shape

\* A thread that goes on with its request.
With(s, step, mbufs, got) ==
    [step |-> step, family |-> s.family, n |-> s.n, mbufs |-> mbufs, no |-> s.no, got |-> got]

\* It has the type of a thread.
LEMMA WithType ==
    ASSUME NEW s \in ThreadState,
           NEW step \in {"idle", "alloc", "send", "recv", "free"},
           NEW mbufs \in Seq(Mbuf), NEW got \in 0 .. MaxRequest
    PROVE  With(s, step, mbufs, got) \in ThreadState
  BY Zenon DEF With, ThreadState

\* How the actions write it.
LEMMA WithExcept ==
    ASSUME NEW s \in ThreadState, NEW step, NEW mbufs
    PROVE  /\ [s EXCEPT !.step = step] = With(s, step, s.mbufs, s.got)
           /\ [s EXCEPT !.step = step, !.mbufs = mbufs] = With(s, step, mbufs, s.got)
<1>1. s = [step |-> s.step, family |-> s.family, n |-> s.n, mbufs |-> s.mbufs,
           no |-> s.no, got |-> s.got]
  BY Zenon DEF ThreadState
<1>2. [s EXCEPT !.step = step] = With(s, step, s.mbufs, s.got)
  BY <1>1 DEF With
<1>3. [s EXCEPT !.step = step, !.mbufs = mbufs] = With(s, step, mbufs, s.got)
  <2>1. [s EXCEPT !.step = step, !.mbufs = mbufs]
          = [[s EXCEPT !.step = step] EXCEPT !.mbufs = mbufs]
    BY Zenon
  <2>2. [With(s, step, s.mbufs, s.got) EXCEPT !.mbufs = mbufs] = With(s, step, mbufs, s.got)
    BY DEF With
  <2> QED  BY <1>2, <2>1, <2>2, Zenon
<1> QED  BY <1>2, <1>3, Zenon

\* So is one without a request.
LEMMA NoRequestType == NoRequest \in ThreadState
  BY LinkAssumption DEF NoRequest, ThreadState

\* alloc_mbufs takes the first n mbufs of alloc_ring.
LEMMA AllocEffect ==
    ASSUME Shape, Past, ThreadInv, NEW t \in Thread, alloc_mbufs(t)
    PROVE  \E f, b \in Seq(Mbuf) :
              /\ alloc_ring = f \o b /\ alloc_ring' = b /\ Len(f) = thread[t].n
              /\ Len(b) <= RingSize
              /\ thread' = [thread EXCEPT ![t] = With(thread[t], "send", f, thread[t].got)]
<1> USE LinkAssumption
<1> DEFINE n == thread[t].n
           f == SubSeq(alloc_ring, 1, n)
           b == SubSeq(alloc_ring, n + 1, Len(alloc_ring))
<1>1. n \in 0 .. Len(alloc_ring) /\ alloc_ring \in Seq(Mbuf) /\ Len(alloc_ring) <= RingSize
  <2>1. n \in 0 .. MaxBulk  BY Fields, Zenon
  <2>2. Len(alloc_ring) >= n  BY Zenon DEF alloc_mbufs
  <2>3. alloc_ring \in Seq(Mbuf) /\ Len(alloc_ring) <= RingSize  BY Zenon DEF Shape, Fit
  <2> HIDE DEF n
  <2> QED  BY <2>1, <2>2, <2>3
<1>2. /\ f \in Seq(Mbuf) /\ b \in Seq(Mbuf) /\ Len(f) = n /\ alloc_ring = f \o b
      /\ Len(b) = Len(alloc_ring) - n
  BY <1>1, Parted, ZenonT(30)
<1>3. thread' = [thread EXCEPT ![t] = With(thread[t], "send", f, thread[t].got)]
  <2>1. thread[t] \in ThreadState  BY Fields, Zenon
  <2>2. [thread[t] EXCEPT !.step = "send", !.mbufs = f]
          = With(thread[t], "send", f, thread[t].got)
    BY <2>1, WithExcept, Zenon
  <2>3. thread' = [thread EXCEPT ![t] = [thread[t] EXCEPT !.step = "send", !.mbufs = f]]
    BY Zenon DEF alloc_mbufs
  <2> QED  BY <2>2, <2>3, Zenon
<1>4. alloc_ring' = b  BY Zenon DEF alloc_mbufs
<1>5. Len(b) <= RingSize
  <2> HIDE DEF n, b
  <2>1. \A l, k \in Nat : l <= RingSize => l - k <= RingSize  OBVIOUS
  <2>2. Len(alloc_ring) \in Nat /\ n \in Nat  BY <1>1
  <2> QED  BY <1>1, <1>2, <2>1, <2>2, Zenon
<1> QED  BY <1>2, <1>3, <1>4, <1>5, Zenon

\* The messages of a request, one for each of its mbufs.
LEMMA MessagesFacts ==
    ASSUME NEW s \in ThreadState, s.no \in 1 .. MaxRequest, Len(s.mbufs) = s.n, NEW q,
           q = Messages(s, s.n)
    PROVE  /\ q \in Seq(Message) /\ Len(q) = s.n /\ Bufs(q) = s.mbufs
           /\ \A i \in 1 .. s.n : q[i].family = s.family /\ q[i].no = s.no
<1> USE LinkAssumption
<1> DEFINE e(i) == [mbuf |-> s.mbufs[i], family |-> s.family, no |-> s.no]
<1>0. s.family \in {"flow", "packet"} /\ s.n \in Nat /\ s.mbufs \in Seq(Mbuf)
  BY DEF ThreadState
<1>1. \A i \in 1 .. s.n : e(i) \in Message
  BY <1>0 DEF Message
<1>2. q = [i \in 1 .. s.n |-> e(i)]
  BY Zenon DEF Messages
<1>3. \A i \in 1 .. s.n : /\ e(i).mbuf = s.mbufs[i] /\ e(i).family = s.family
                          /\ e(i).no = s.no
  BY Zenon
<1> HIDE DEF e
<1>4. q \in Seq(Message) /\ Len(q) = s.n /\ DOMAIN q = 1 .. s.n
  BY <1>0, <1>1, <1>2
<1>5. \A i \in 1 .. s.n : q[i] = e(i)
  BY <1>2, Zenon
<1>6. Bufs(q) = s.mbufs
  <2>1. Bufs(q) = [i \in 1 .. s.n |-> s.mbufs[i]]
    BY <1>3, <1>4, <1>5, Zenon DEF Bufs
  <2>2. s.mbufs = [i \in 1 .. s.n |-> s.mbufs[i]]
    BY <1>0
  <2> QED  BY <2>1, <2>2, Zenon
<1> QED  BY <1>3, <1>4, <1>5, <1>6, Zenon

\* dpdk_link_send puts a message for each of the n mbufs into message_ring, or
\* keeps them to give them back.
LEMMA SendEffect ==
    ASSUME Shape, Past, ThreadInv, NEW t \in Thread, dpdk_link_send(t)
    PROVE  \/ \E q \in Seq(Message) :
                 /\ message_ring' = message_ring \o q /\ Len(message_ring') <= RingSize
                 /\ Len(q) = thread[t].n /\ Bufs(q) = thread[t].mbufs
                 /\ \A i \in 1 .. Len(q) : /\ q[i].family = thread[t].family
                                           /\ q[i].no = thread[t].no
                 /\ thread' = [thread EXCEPT ![t] =
                        IF thread[t].family = "flow"
                        THEN With(thread[t], "recv", <<>>, thread[t].got) ELSE NoRequest]
                 /\ accepted' = [accepted EXCEPT ![thread[t].no] =
                        IF thread[t].family = "flow" THEN 0 ELSE thread[t].n]
                 /\ Note("overlap", /\ thread[t].family = "flow"
                                    /\ \E u \in Thread : thread[u].step = "recv")
           \/ /\ thread' = [thread EXCEPT ![t] =
                     With(thread[t], "free", thread[t].mbufs, thread[t].got)]
              /\ UNCHANGED <<message_ring, accepted, events>>
<1> USE LinkAssumption
<1> DEFINE self == thread[t]
           q == Messages(self, self.n)
<1>0. /\ self \in ThreadState /\ self.family \in {"flow", "packet"}
      /\ self.n \in 0 .. MaxBulk /\ self.mbufs \in Seq(Mbuf) /\ self.no \in 0 .. MaxRequest
  BY Fields, Zenon
<1>1. /\ self.step = "send" /\ Len(self.mbufs) = self.n /\ self.no \in 1 .. requests
      /\ requests \in 0 .. MaxRequest
  <2>1. self.step = "send"  BY Zenon DEF dpdk_link_send
  <2>2. ThreadOK(self, requests, accepted)  BY Zenon DEF ThreadInv
  <2> QED  BY <2>1, <2>2, Zenon DEF ThreadOK, Past
<1>2. CASE RoomFor(self.n, message_ring) /\ message_ring' = message_ring \o q
           /\ thread' = [thread EXCEPT ![t] = IF self.family = "flow"
                 THEN [self EXCEPT !.step = "recv", !.mbufs = <<>>]
                 ELSE NoRequest]
           /\ accepted' = [accepted EXCEPT ![self.no] =
                              IF self.family = "flow" THEN 0 ELSE self.n]
           /\ Note("overlap", /\ self.family = "flow"
                              /\ \E u \in Thread : thread[u].step = "recv")
  <2>1. self.no \in 1 .. MaxRequest  BY <1>1
  <2>2. /\ q \in Seq(Message) /\ Len(q) = self.n /\ Bufs(q) = self.mbufs
        /\ \A i \in 1 .. self.n : q[i].family = self.family /\ q[i].no = self.no
    BY <1>0, <1>1, <2>1, MessagesFacts, Zenon
  <2> HIDE DEF q, self
  <2>3. q \in Seq(Message)  BY <2>2, Zenon
  <2>5. message_ring \in Seq(Message)  BY Zenon DEF Shape
  <2>6. Len(message_ring') = Len(message_ring) + self.n
    <3>1. Len(message_ring \o q) = Len(message_ring) + Len(q)
      BY <2>3, <2>5, Joined
    <3> QED  BY <1>2, <2>2, <3>1, Zenon
  <2>7. Len(message_ring') <= RingSize
    BY <1>2, <2>6, Zenon DEF RoomFor
  <2>8. [self EXCEPT !.step = "recv", !.mbufs = <<>>] = With(self, "recv", <<>>, self.got)
    BY <1>0, WithExcept, Zenon
  <2> QED  BY <1>2, <2>2, <2>7, <2>8, Zenon DEF self
<1>3. CASE thread' = [thread EXCEPT ![t].step = "free"]
           /\ UNCHANGED <<message_ring, accepted, events>>
  <2>1. [self EXCEPT !.step = "free"] = With(self, "free", self.mbufs, self.got)
    BY <1>0, WithExcept, Zenon
  <2>2. thread' = [thread EXCEPT ![t] = [self EXCEPT !.step = "free"]]
    BY <1>3, Zenon
  <2> QED  BY <1>3, <2>1, <2>2, Zenon
<1> QED  BY <1>2, <1>3, Zenon DEF dpdk_link_send

\* dpdk_link_recv_reply takes the first reply.
LEMMA RecvEffect ==
    ASSUME Shape, NEW t \in Thread, dpdk_link_recv_reply(t)
    PROVE  \E x \in Reply, b \in Seq(Reply) :
              /\ reply_ring = <<x>> \o b /\ reply_ring' = b /\ Len(b) <= RingSize
              /\ thread' = [thread EXCEPT ![t] =
                     With(thread[t], "free", <<x.mbuf>>, x.no)]
<1> DEFINE x == Head(reply_ring)
           b == Tail(reply_ring)
<1>1. reply_ring \in Seq(Reply) /\ reply_ring # <<>> /\ Len(reply_ring) <= RingSize
  BY Zenon DEF Shape, Fit, dpdk_link_recv_reply
<1>2. /\ x \in Reply /\ b \in Seq(Reply) /\ reply_ring = <<x>> \o b
      /\ Len(b) = Len(reply_ring) - 1
  BY <1>1, HeadAndTail, Zenon
<1>3. Len(b) <= RingSize
  BY <1>1, <1>2, LinkAssumption
<1>4. reply_ring' = b  BY Zenon DEF dpdk_link_recv_reply
<1> HIDE DEF x, b
<1>5. thread' = [thread EXCEPT ![t] = With(thread[t], "free", <<x.mbuf>>, x.no)]
  <2> DEFINE y == <<x.mbuf>>
             z == x.no
  <2>1. thread[t] \in ThreadState  BY Fields, Zenon
  <2> HIDE DEF y, z
  <2>2. [thread[t] EXCEPT !.step = "free", !.mbufs = y, !.got = z]
          = With(thread[t], "free", y, z)
    <3>1. [thread[t] EXCEPT !.step = "free", !.mbufs = y, !.got = z]
            = [[thread[t] EXCEPT !.step = "free", !.mbufs = y] EXCEPT !.got = z]
      BY Zenon
    <3>2. [With(thread[t], "free", y, thread[t].got) EXCEPT !.got = z]
            = With(thread[t], "free", y, z)
      BY DEF With
    <3>3. [thread[t] EXCEPT !.step = "free", !.mbufs = y]
            = With(thread[t], "free", y, thread[t].got)
      BY <2>1, WithExcept, Zenon
    <3> QED  BY <3>1, <3>2, <3>3, Zenon
  <2>3. thread' = [thread EXCEPT ![t] =
            [thread[t] EXCEPT !.step = "free", !.mbufs = y, !.got = z]]
    BY Zenon DEF dpdk_link_recv_reply, x, y, z
  <2> QED  BY <2>2, <2>3, Zenon DEF y, z
<1> QED  BY <1>2, <1>3, <1>4, <1>5, Zenon

\* dequeue_messages and free_mbufs take a burst from the front of their rings.
LEMMA BurstEffect ==
    ASSUME NEW S, NEW ring \in Seq(S), Len(ring) <= RingSize,
           NEW n, n = Least(Burst, Len(ring))
    PROVE  /\ SubSeq(ring, 1, n) \in Seq(S) /\ SubSeq(ring, n + 1, Len(ring)) \in Seq(S)
           /\ ring = SubSeq(ring, 1, n) \o SubSeq(ring, n + 1, Len(ring))
           /\ Len(SubSeq(ring, n + 1, Len(ring))) <= RingSize
           /\ Mbufs(SubSeq(ring, 1, n)) = {ring[i] : i \in 1 .. n}
<1> USE LinkAssumption
<1> DEFINE f == SubSeq(ring, 1, n)
           b == SubSeq(ring, n + 1, Len(ring))
<1>1. n \in 0 .. Len(ring) /\ Len(ring) \in Nat
  BY DEF Least
<1>2. /\ f \in Seq(S) /\ Len(f) = n /\ b \in Seq(S) /\ Len(b) = Len(ring) - n
      /\ f \o b = ring
  BY <1>1, Parted, ZenonT(30)
<1>3. Mbufs(f) = {ring[i] : i \in 1 .. n}
  <2>1. DOMAIN f = 1 .. n /\ \A i \in 1 .. n : f[i] = ring[i]
    BY <1>1
  <2> HIDE DEF f
  <2> QED  BY <2>1, Zenon DEF Mbufs
<1>4. Len(b) <= RingSize
  BY <1>1, <1>2
<1> QED  BY <1>2, <1>3, <1>4, Zenon

\* dequeue_messages takes a burst of messages from the front of the ring.
LEMMA DequeueEffect ==
    ASSUME Shape, dequeue_messages
    PROVE  \E f, b \in Seq(Message) :
               message_ring = f \o b /\ core'.batch = f /\ message_ring' = b
<1> DEFINE n == Least(Burst, Len(message_ring))
           f == SubSeq(message_ring, 1, n)
           b == SubSeq(message_ring, n + 1, Len(message_ring))
<1>1. message_ring \in Seq(Message) /\ Len(message_ring) <= RingSize
  BY Zenon DEF Shape, Fit
<1>2. f \in Seq(Message) /\ b \in Seq(Message) /\ message_ring = f \o b
  BY <1>1, BurstEffect, ZenonT(30)
<1>3. core' = [step |-> IF n = 0 THEN "free" ELSE "message", batch |-> f] /\ message_ring' = b
  BY Zenon DEF dequeue_messages
<1> HIDE DEF f, b, n
<1>4. core'.batch = f  BY <1>3, Zenon
<1> QED  BY <1>2, <1>3, <1>4, Zenon

\* The mbufs of the pool that fill_alloc_ring takes are different ones.
LEMMA BulkFacts ==
    ASSUME Counting, pool \subseteq Mbuf, NEW n, n = Least(Burst, Cardinality(pool)), NEW s,
           s = alloc_bulk(n)
    PROVE  /\ s \in Seq(Mbuf) /\ Len(s) = n /\ n <= Burst /\ Mbufs(s) \subseteq pool
           /\ Once(s)
<1> USE LinkAssumption
<1> DEFINE c == Cardinality(pool)
<1>1. pool \in SUBSET Mbuf  BY Zenon
<1>2. c \in Nat /\ \E g \in [1 .. c -> pool] : \A i, j \in 1 .. c : g[i] = g[j] => i = j
  BY <1>1, Zenon DEF Counting
<1>3. n \in Nat /\ n <= c /\ n <= Burst
  BY <1>2 DEF Least
<1>4. PICK g \in [1 .. c -> pool] : \A i, j \in 1 .. c : g[i] = g[j] => i = j
  BY <1>2, Zenon
<1> DEFINE h == [i \in 1 .. n |-> g[i]]
<1>6. h \in [1 .. n -> pool] /\ \A i, j \in 1 .. n : h[i] = h[j] => i = j
  BY <1>2, <1>3, <1>4
<1>7. s \in [1 .. n -> pool] /\ \A i, j \in 1 .. n : s[i] = s[j] => i = j
  <2> DEFINE F == [1 .. n -> pool]
             Q(x) == \A i, j \in 1 .. n : x[i] = x[j] => i = j
  <2>1. s = CHOOSE x \in F : Q(x)  BY Zenon DEF alloc_bulk
  <2>2. h \in F /\ Q(h)  BY <1>6, Zenon
  <2> HIDE DEF F, Q, h
  <2>3. s \in F /\ Q(s)  BY <2>1, <2>2, Zenon
  <2> QED  BY <2>3, Zenon DEF F, Q
<1>8. s \in Seq(Mbuf) /\ Len(s) = n
  BY <1>3, <1>7
<1>9. Mbufs(s) \subseteq pool /\ Once(s)
  BY <1>7 DEF Mbufs, Once
<1> QED  BY <1>3, <1>8, <1>9, Zenon

\* fill_alloc_ring puts them behind the others, for which there is room.
LEMMA FillEffect ==
    ASSUME Counting, Shape, fill_alloc_ring
    PROVE  \E s \in Seq(Mbuf) :
              /\ alloc_ring' = alloc_ring \o s /\ Len(alloc_ring') <= RingSize
              /\ pool' = pool \ Mbufs(s) /\ Mbufs(s) \subseteq pool /\ Once(s)
<1> USE LinkAssumption
<1> DEFINE n == Least(Burst, Cardinality(pool))
           s == alloc_bulk(n)
<1>1. /\ alloc_ring \in Seq(Mbuf) /\ pool \subseteq Mbuf
  BY Zenon DEF Shape
<1>2. /\ Len(alloc_ring) < Threshold /\ alloc_ring' = alloc_ring \o s
      /\ pool' = pool \ Mbufs(s)
  BY Zenon DEF fill_alloc_ring
<1>3. /\ s \in Seq(Mbuf) /\ Len(s) = n /\ n <= Burst /\ Mbufs(s) \subseteq pool
      /\ Once(s)
  BY <1>1, BulkFacts, Zenon
<1> HIDE DEF s, n
<1>4. Len(alloc_ring \o s) = Len(alloc_ring) + Len(s)
  BY <1>1, <1>3, Joined
<1>5. Len(alloc_ring') <= RingSize
  BY <1>1, <1>2, <1>3, <1>4
<1> QED  BY <1>2, <1>3, <1>5, Zenon

\* handle_vswitchd_cmd takes the first message of the burst.
LEMMA HandleEffect ==
    ASSUME Shape, handle_vswitchd_cmd
    PROVE  \E rq \in Message, b \in Seq(Message) :
              /\ core.batch = <<rq>> \o b /\ core'.batch = b
              /\ core' \in CoreState
              /\ \/ rq.family = "flow" /\ send_reply(rq)
                 \/ rq.family = "packet" /\ handle_packet_cmd(rq)
<1> DEFINE rq == Head(core.batch)
           b == Tail(core.batch)
<1>1. core.batch \in Seq(Message) /\ core.batch # <<>>
  BY Fields, Zenon DEF handle_vswitchd_cmd
<1>2. rq \in Message /\ b \in Seq(Message) /\ core.batch = <<rq>> \o b
  BY <1>1, HeadAndTail, Zenon
<1>3. core' = [step |-> IF Len(core.batch) = 1 THEN "free" ELSE "message", batch |-> b]
  BY Zenon DEF handle_vswitchd_cmd
<1>4. IF rq.family = "flow" THEN send_reply(rq) ELSE handle_packet_cmd(rq)
  BY Zenon DEF handle_vswitchd_cmd
<1> HIDE DEF rq, b
<1>5. core' \in CoreState /\ core'.batch = b
  BY <1>2, <1>3, Zenon DEF CoreState
<1>6. rq.family \in {"flow", "packet"}
  BY <1>2, Fields, Zenon
<1> QED  BY <1>2, <1>4, <1>5, <1>6, Zenon
-----------------------------------------------------------------------------
\* What every step of the link keeps of the types and of the threads.
LinkInv == Shape /\ Past /\ ThreadInv

\* When only thread t goes on, with a request of its own, the others are as
\* they should be.
LEMMA ThreadGoesOn ==
    ASSUME LinkInv, NEW t \in Thread, NEW s \in ThreadState,
           thread' = [thread EXCEPT ![t] = s], UNCHANGED requests,
           thread[t].step # "idle", s.step # "idle" => s.no = thread[t].no,
           \A r \in 1 .. MaxRequest : r # thread[t].no => accepted'[r] = accepted[r],
           ThreadOK(s, requests, accepted')
    PROVE  ThreadInv'
<1> USE LinkAssumption
<1>1. /\ thread'[t] = s /\ \A u \in Thread : u # t => thread'[u] = thread[u]
  BY NextThread, Zenon DEF LinkInv
<1>2. /\ thread[t].no \in 1 .. requests /\ requests \in 0 .. MaxRequest
      /\ \A u \in Thread : thread[u].step # "idle" => thread[u].no \in 1 .. requests
      /\ \A u \in Thread : u # t /\ thread[u].step # "idle" => thread[u].no # thread[t].no
  BY Zenon DEF LinkInv, ThreadInv, ThreadOK, Past
<1>3. ASSUME NEW u \in Thread PROVE ThreadOK(thread'[u], requests', accepted')
  <2>1. CASE u = t
    BY <1>1, <2>1, Zenon
  <2>2. CASE u # t
    <3>1. ThreadOK(thread[u], requests, accepted)  BY Zenon DEF LinkInv, ThreadInv
    <3>2. thread[u].step # "idle" => accepted'[thread[u].no] = accepted[thread[u].no]
      BY <1>2, <2>2
    <3>3. ThreadOK(thread[u], requests, accepted')  BY <3>1, <3>2, Zenon DEF ThreadOK
    <3> QED  BY <1>1, <2>2, <3>3, Zenon
  <2> QED  BY <2>1, <2>2, Zenon
<1>4. ASSUME NEW u \in Thread, NEW v \in Thread, thread'[u].step # "idle",
             thread'[v].step # "idle", thread'[u].no = thread'[v].no
      PROVE  u = v
  <2>1. CASE u # t /\ v # t  BY <1>1, <1>4, <2>1 DEF LinkInv, ThreadInv
  <2>2. CASE u = t \/ v = t  BY <1>1, <1>2, <1>4, <2>2
  <2> QED  BY <2>1, <2>2, Zenon
<1>5. \A r \in 1 .. MaxRequest : r > requests' => accepted'[r] = 0
  BY <1>2 DEF LinkInv, ThreadInv
<1> QED  BY <1>3, <1>4, <1>5, Zenon DEF ThreadInv

\* What leaves the threads and the counts of requests alone keeps them right.
LEMMA ThreadsStay ==
    ASSUME LinkInv, UNCHANGED <<thread, requests, accepted>>
    PROVE  ThreadInv'
  BY Zenon DEF LinkInv, ThreadInv

\* The steps of a thread of the daemon.
LEMMA DaemonTypes ==
    ASSUME LinkInv, NEW t \in Thread, Daemon(t)
    PROVE  LinkInv'
<1> USE LinkAssumption
<1>0. /\ Shape /\ Past /\ ThreadInv /\ thread[t] \in ThreadState
      /\ thread[t].n \in 0 .. MaxBulk /\ thread[t].got \in 0 .. MaxRequest
      /\ thread[t].mbufs \in Seq(Mbuf) /\ <<>> \in Seq(Mbuf)
  BY Fields DEF LinkInv
<1>1. CASE alloc_mbufs(t)
  <2>1. PICK f \in Seq(Mbuf), b \in Seq(Mbuf) :
              /\ alloc_ring = f \o b /\ alloc_ring' = b /\ Len(f) = thread[t].n
              /\ Len(b) <= RingSize
              /\ thread' = [thread EXCEPT ![t] = With(thread[t], "send", f, thread[t].got)]
    BY <1>0, <1>1, AllocEffect, Zenon
  <2> DEFINE s == With(thread[t], "send", f, thread[t].got)
  <2>2. s \in ThreadState  BY <1>0, WithType, Zenon
  <2>3. thread[t].step = "alloc" /\ UNCHANGED <<requests, accepted, executed, events>>
    BY <1>1, Zenon DEF alloc_mbufs, past
  <2>4. ThreadInv'
    <3>1. /\ s.step = "send" /\ s.mbufs = f /\ s.no = thread[t].no /\ s.n = thread[t].n
          /\ s.family = thread[t].family
      BY Zenon DEF With
    <3> HIDE DEF s
    <3>2. ThreadOK(thread[t], requests, accepted)  BY <1>0, Zenon DEF ThreadInv
    <3>3. s.no \in 1 .. requests /\ Len(f) <= MaxBulk
      <4>1. Len(f) <= MaxBulk  BY <1>0, <2>1
      <4> QED  BY <2>3, <3>1, <3>2, <4>1, Zenon DEF ThreadOK
    <3>4. ThreadOK(s, requests, accepted')
      BY <1>0, <2>1, <2>3, <3>1, <3>2, <3>3, Zenon DEF ThreadOK
    <3> QED  BY <1>0, <2>1, <2>2, <2>3, <3>1, <3>4, ThreadGoesOn, Zenon DEF s
  <2>5. thread' \in [Thread -> ThreadState]  BY <1>0, <2>1, <2>2, NextThread, Zenon
  <2>6. Shape' /\ Past'
    BY <1>0, <1>1, <2>1, <2>5, Zenon DEF alloc_mbufs, past, Shape, Past, Fit
  <2> QED  BY <2>4, <2>6, Zenon DEF LinkInv
<1>2. CASE dpdk_link_send(t)
  <2>0. /\ thread[t].step = "send" /\ UNCHANGED <<requests, executed>>
        /\ ThreadOK(thread[t], requests, accepted)
    BY <1>0, <1>2, Zenon DEF dpdk_link_send, ThreadInv
  <2>1. thread[t].no \in 1 .. requests /\ thread[t].no \in 1 .. MaxRequest
    BY <1>0, <2>0 DEF ThreadOK, Past
  <2>2. CASE \E q \in Seq(Message) :
                 /\ message_ring' = message_ring \o q /\ Len(message_ring') <= RingSize
                 /\ thread' = [thread EXCEPT ![t] =
                        IF thread[t].family = "flow"
                        THEN With(thread[t], "recv", <<>>, thread[t].got) ELSE NoRequest]
                 /\ accepted' = [accepted EXCEPT ![thread[t].no] =
                        IF thread[t].family = "flow" THEN 0 ELSE thread[t].n]
                 /\ Note("overlap", /\ thread[t].family = "flow"
                                    /\ \E u \in Thread : thread[u].step = "recv")
    <3> DEFINE s == IF thread[t].family = "flow"
                    THEN With(thread[t], "recv", <<>>, thread[t].got) ELSE NoRequest
    <3>1. s \in ThreadState  BY Zenon, <1>0, WithType, NoRequestType
    <3>2. /\ s.step = "recv" /\ s.mbufs = <<>> /\ s.no = thread[t].no /\ s.n = thread[t].n
             /\ s.family = thread[t].family
          \/ s = NoRequest
      BY Zenon DEF With
    <3>3. NoRequest.step = "idle" /\ NoRequest.mbufs = <<>> /\ Len(<<>>) = 0
      BY Zenon DEF NoRequest
    <3>4. thread' = [thread EXCEPT ![t] = s] /\ message_ring' \in Seq(Message)
      <4>1. message_ring \in Seq(Message)  BY <1>0, Zenon DEF Shape
      <4> QED  BY <2>2, <4>1, Joined
    <3> HIDE DEF s
    <3>5. ThreadOK(s, requests, accepted')
      BY <2>0, <3>2, <3>3 DEF ThreadOK
    <3>6. \A r \in 1 .. MaxRequest : r # thread[t].no => accepted'[r] = accepted[r]
      BY <1>0, <2>2, Zenon DEF Past
    <3>7. ThreadInv'
      BY Zenon, <2>0, <3>1, <3>2, <3>3, <3>4, <3>5, <3>6, ThreadGoesOn
    <3>8. thread' \in [Thread -> ThreadState]  BY <1>0, <3>1, <3>4, NextThread, Zenon
    <3>9. Past'
      <4>1. accepted' \in [1 .. MaxRequest -> 0 .. MaxBulk]
        BY <1>0, <2>1, <2>2 DEF Past
      <4>2. events' \subseteq {"overlap", "short"}
        BY <1>0, <2>2, Zenon DEF Past, Note
      <4> QED  BY <1>0, <2>0, <4>1, <4>2, Zenon DEF Past
    <3>10. Shape'
      <4>1. UNCHANGED <<pool, busy, alloc_ring, reply_ring, packet_ring, free_ring,
                        dispatcher, core>>
        BY <1>2, Zenon DEF dpdk_link_send
      <4>2. Len(message_ring') <= RingSize  BY <2>2, Zenon
      <4> QED  BY <1>0, <3>4, <3>8, <4>1, <4>2, Zenon DEF Shape, Fit
    <3> QED  BY <3>7, <3>9, <3>10, Zenon DEF LinkInv
  <2>3. CASE /\ thread' = [thread EXCEPT ![t] =
                     With(thread[t], "free", thread[t].mbufs, thread[t].got)]
             /\ UNCHANGED <<message_ring, accepted, events>>
    <3> DEFINE s == With(thread[t], "free", thread[t].mbufs, thread[t].got)
    <3>1. s \in ThreadState  BY <1>0, WithType, Zenon
    <3>2. /\ s.step = "free" /\ s.mbufs = thread[t].mbufs /\ s.no = thread[t].no
          /\ s.n = thread[t].n /\ s.family = thread[t].family
      BY Zenon DEF With
    <3>3. thread' = [thread EXCEPT ![t] = s]  BY <2>3, Zenon
    <3> HIDE DEF s
    <3>4. ThreadOK(s, requests, accepted')
      BY <2>0, <2>3, <3>2, Zenon DEF ThreadOK
    <3>5. ThreadInv'
      BY Zenon, <2>0, <2>3, <3>1, <3>2, <3>3, <3>4, ThreadGoesOn
    <3>6. thread' \in [Thread -> ThreadState]  BY <1>0, <3>1, <3>3, NextThread, Zenon
    <3>7. Shape' /\ Past'
      BY <1>0, <1>2, <2>3, <3>6, Zenon DEF dpdk_link_send, Shape, Past, Fit
    <3> QED  BY <3>5, <3>7, Zenon DEF LinkInv
  <2> QED  BY <1>0, <1>2, <2>2, <2>3, SendEffect, Zenon
<1>3. CASE dpdk_link_recv_reply(t)
  <2>1. PICK x \in Reply, b \in Seq(Reply) :
              /\ reply_ring = <<x>> \o b /\ reply_ring' = b /\ Len(b) <= RingSize
              /\ thread' = [thread EXCEPT ![t] = With(thread[t], "free", <<x.mbuf>>, x.no)]
    BY <1>0, <1>3, RecvEffect, Zenon
  <2> DEFINE s == With(thread[t], "free", <<x.mbuf>>, x.no)
  <2>2. x.mbuf \in Mbuf /\ x.no \in 0 .. MaxRequest  BY DEF Reply
  <2>3. <<x.mbuf>> \in Seq(Mbuf) /\ Len(<<x.mbuf>>) = 1  BY <2>2, Single, Zenon
  <2>4. s \in ThreadState  BY Zenon, <1>0, <2>2, <2>3, WithType
  <2>5. thread[t].step = "recv" /\ UNCHANGED <<requests, accepted, executed, events>>
    BY <1>3, Zenon DEF dpdk_link_recv_reply, past
  <2>6. /\ s.step = "free" /\ Len(s.mbufs) = 1 /\ s.no = thread[t].no /\ s.n = thread[t].n
        /\ s.family = thread[t].family
    BY <2>3, Zenon DEF With
  <2>7. thread' = [thread EXCEPT ![t] = s]  BY <2>1, Zenon
  <2> HIDE DEF s
  <2>8. ThreadOK(thread[t], requests, accepted)  BY <1>0, Zenon DEF ThreadInv
  <2>9. ThreadOK(s, requests, accepted')  BY <2>5, <2>6, <2>8 DEF ThreadOK
  <2>10. ThreadInv'  BY Zenon, <2>4, <2>5, <2>6, <2>7, <2>9, ThreadGoesOn
  <2>11. thread' \in [Thread -> ThreadState]  BY <1>0, <2>4, <2>7, NextThread, Zenon
  <2>12. Shape' /\ Past'
    BY <1>0, <1>3, <2>1, <2>11, Zenon DEF dpdk_link_recv_reply, past, Shape, Past, Fit
  <2> QED  BY <2>10, <2>12, Zenon DEF LinkInv
<1>4. CASE enqueue_mbufs_to_be_freed(t)
  <2>1. /\ thread[t].step = "free" /\ UNCHANGED <<requests, accepted, executed, events>>
        /\ thread' = [thread EXCEPT ![t] = NoRequest]
        /\ free_ring' = free_ring \o thread[t].mbufs
        /\ Len(free_ring) + Len(thread[t].mbufs) <= RingSize
    BY <1>4, Zenon DEF enqueue_mbufs_to_be_freed, past, RoomFor
  <2>2. NoRequest.step = "idle" /\ Len(NoRequest.mbufs) = 0  BY Zenon DEF NoRequest
  <2>3. ThreadOK(NoRequest, requests, accepted')  BY <2>2 DEF ThreadOK
  <2>4. ThreadInv'  BY Zenon, <2>1, <2>2, <2>3, NoRequestType, ThreadGoesOn
  <2>5. thread' \in [Thread -> ThreadState]
    BY <1>0, <2>1, NoRequestType, NextThread, Zenon
  <2>6. free_ring' \in Seq(Mbuf) /\ Len(free_ring') <= RingSize
    <3>1. free_ring \in Seq(Mbuf)  BY <1>0, Zenon DEF Shape
    <3> QED  BY <1>0, <2>1, <3>1, Joined
  <2>7. Shape' /\ Past'
    BY <1>0, <1>4, <2>1, <2>5, <2>6, Zenon DEF enqueue_mbufs_to_be_freed, past, Shape, Past, Fit
  <2> QED  BY <2>4, <2>7, Zenon DEF LinkInv
<1> QED  BY <1>1, <1>2, <1>3, <1>4, Zenon DEF Daemon

\* A new request.
LEMMA RequestTypes ==
    ASSUME LinkInv, NEW t \in Thread, NEW family \in {"flow", "packet"},
           NEW n \in 1 .. MaxBulk, request(t, family, n)
    PROVE  LinkInv'
<1> DEFINE s == [step |-> "alloc", family |-> family, n |-> n, mbufs |-> <<>>,
                 no |-> requests + 1, got |-> 0]
<1>0. Shape /\ Past /\ ThreadInv  BY Zenon DEF LinkInv
<1>1. /\ thread[t].step = "idle" /\ requests < MaxRequest /\ (family = "flow" => n = 1)
      /\ thread' = [thread EXCEPT ![t] = s] /\ requests' = requests + 1
      /\ UNCHANGED <<accepted, executed, events>>
      /\ UNCHANGED <<pool, busy, alloc_ring, message_ring, reply_ring, packet_ring, free_ring>>
      /\ UNCHANGED <<dispatcher, core>>
  BY Zenon DEF request, rings
<1>2. requests + 1 \in 1 .. MaxRequest /\ requests \in Nat
  <2>1. requests < MaxRequest /\ requests \in 0 .. MaxRequest  BY <1>0, <1>1, Zenon DEF Past
  <2> QED  BY <2>1, LinkAssumption
<1>3. s \in ThreadState  BY <1>2, LinkAssumption DEF ThreadState
<1>4. /\ s.step = "alloc" /\ s.mbufs = <<>> /\ s.no = requests + 1 /\ s.n = n
      /\ s.family = family /\ Len(<<>>) = 0
  BY Zenon
<1> HIDE DEF s
<1>5. /\ thread' \in [Thread -> ThreadState] /\ thread'[t] = s
      /\ \A u \in Thread : u # t => thread'[u] = thread[u]
  BY <1>0, <1>1, <1>3, NextThread, Zenon
<1>6. accepted[requests + 1] = 0  BY <1>0, <1>2 DEF ThreadInv
<1>7. ThreadOK(s, requests + 1, accepted)
  <2>1. requests + 1 \in 1 .. requests + 1 /\ 0 <= MaxBulk  BY <1>2, LinkAssumption
  <2>2. family = "flow" => n = 1  BY <1>1, Zenon
  <2> QED  BY <1>4, <1>6, <2>1, <2>2, Zenon DEF ThreadOK
<1>8. \A u \in Thread : ThreadOK(thread'[u], requests + 1, accepted)
  <2> SUFFICES ASSUME NEW u \in Thread, u # t
               PROVE  ThreadOK(thread[u], requests + 1, accepted)
    BY <1>5, <1>7, Zenon
  <2>1. ThreadOK(thread[u], requests, accepted)  BY <1>0, Zenon DEF ThreadInv
  <2>2. 1 .. requests \subseteq 1 .. requests + 1  BY <1>2
  <2> QED  BY <2>1, <2>2, Zenon DEF ThreadOK
<1>9. \A u \in Thread : thread[u].step # "idle" => thread[u].no # requests + 1
  BY <1>0, <1>2 DEF ThreadInv, ThreadOK
<1>10. \A u, v \in Thread :
         thread'[u].step # "idle" /\ thread'[v].step # "idle" /\ thread'[u].no = thread'[v].no
         => u = v
  BY <1>0, <1>4, <1>5, <1>9 DEF ThreadInv
<1>11. ThreadInv'
  <2>1. \A r \in 1 .. MaxRequest : r > requests + 1 => accepted[r] = 0
    BY <1>0, <1>2 DEF ThreadInv
  <2> QED  BY <1>1, <1>8, <1>10, <2>1, Zenon DEF ThreadInv
<1>12. Shape'  BY <1>0, <1>1, <1>5, Zenon DEF Shape
<1>13. Past'   BY <1>0, <1>1, <1>2 DEF Past
<1> QED  BY <1>11, <1>12, <1>13, Zenon DEF LinkInv

\* The dispatcher of the upcalls.
LEMMA DispatcherTypes ==
    ASSUME LinkInv, Dispatcher
    PROVE  LinkInv'
<1>0. Shape /\ Past /\ ThreadInv  BY Zenon DEF LinkInv
<1>1. /\ UNCHANGED <<requests, accepted, executed, events>> /\ UNCHANGED <<thread, core>>
      /\ UNCHANGED <<pool, busy, alloc_ring, message_ring, reply_ring>>
  BY Zenon DEF Dispatcher, dpdk_link_recv_packet, packet_read, past
<1>2. ThreadInv' /\ Past'  BY <1>0, <1>1, ThreadsStay, Zenon DEF Past
<1>3. packet_ring \in Seq(Mbuf) /\ free_ring \in Seq(Mbuf) /\ dispatcher \in Mbuf \cup {NoMbuf}
  BY <1>0, Zenon DEF Shape
<1>4. CASE dpdk_link_recv_packet
  <2>1. /\ packet_ring # <<>> /\ dispatcher' = Head(packet_ring)
        /\ packet_ring' = Tail(packet_ring) /\ UNCHANGED free_ring
    BY <1>4, Zenon DEF dpdk_link_recv_packet
  <2>2. /\ dispatcher' \in Mbuf /\ packet_ring' \in Seq(Mbuf)
        /\ Len(packet_ring') = Len(packet_ring) - 1
    BY <1>3, <2>1, HeadAndTail, Zenon
  <2>3. Len(packet_ring') <= RingSize  BY <1>0, <1>3, <2>2, LinkAssumption DEF Shape, Fit
  <2>4. Shape'  BY <1>0, <1>1, <2>1, <2>2, <2>3, Zenon DEF Shape, Fit
  <2> QED  BY <1>2, <2>4, Zenon DEF LinkInv
<1>5. CASE packet_read
  <2>1. /\ dispatcher # NoMbuf /\ Len(free_ring) + 1 <= RingSize
        /\ free_ring' = Append(free_ring, dispatcher)
        /\ dispatcher' = NoMbuf /\ UNCHANGED packet_ring
    BY <1>5, Zenon DEF packet_read, Room, RoomFor
  <2>2. free_ring' \in Seq(Mbuf) /\ Len(free_ring') <= RingSize
    BY <1>3, <2>1
  <2>3. Shape'  BY <1>0, <1>1, <2>1, <2>2, Zenon DEF Shape, Fit
  <2> QED  BY <1>2, <2>3, Zenon DEF LinkInv
<1> QED  BY <1>4, <1>5, Zenon DEF Dispatcher

\* The traffic.
LEMMA TrafficTypes ==
    ASSUME LinkInv, Traffic
    PROVE  LinkInv'
<1>0. Shape /\ Past /\ ThreadInv  BY Zenon DEF LinkInv
<1>1. /\ UNCHANGED <<requests, accepted, executed, events>>
      /\ UNCHANGED <<thread, core, dispatcher>>
      /\ UNCHANGED <<alloc_ring, message_ring, reply_ring, free_ring>>
  BY Zenon DEF Traffic, receive_packet, transmit_packet, send_packet_to_vswitchd, past, rings
<1>2. ThreadInv' /\ Past'  BY <1>0, <1>1, ThreadsStay, Zenon DEF Past
<1>3. packet_ring \in Seq(Mbuf) /\ busy \subseteq Mbuf /\ pool \subseteq Mbuf
  BY <1>0, Zenon DEF Shape
<1>4. /\ pool' \subseteq Mbuf /\ busy' \subseteq Mbuf
      /\ packet_ring' \in Seq(Mbuf) /\ Len(packet_ring') <= RingSize
  <2>0. Len(packet_ring) <= RingSize  BY <1>0, Zenon DEF Shape, Fit
  <2>1. CASE receive_packet
    <3>1. pool # {} => alloc \in pool  BY Zenon DEF alloc
    <3> QED  BY <1>3, <2>0, <2>1, <3>1, Zenon DEF receive_packet, rings
  <2>2. CASE transmit_packet
    BY <1>3, <2>0, <2>2, Zenon DEF transmit_packet, rings
  <2>3. CASE send_packet_to_vswitchd
    <3>1. PICK m \in busy :
           /\ busy' = busy \ {m}
           /\ \/ /\ Room(packet_ring)
                 /\ packet_ring' = Append(packet_ring, m)
                 /\ UNCHANGED pool
              \/ /\ ~ Room(packet_ring)
                 /\ pool' = pool \cup {m}
                 /\ UNCHANGED packet_ring
      BY <2>3, Zenon DEF send_packet_to_vswitchd
    <3> QED  BY <1>3, <2>0, <3>1 DEF Room, RoomFor
  <2> QED  BY <2>1, <2>2, <2>3, Zenon DEF Traffic
<1>5. Shape'  BY <1>0, <1>1, <1>4, Zenon DEF Shape, Fit
<1> QED  BY <1>2, <1>5, Zenon DEF LinkInv

\* handle_request_from_vswitchd.
LEMMA VswitchdTypes ==
    ASSUME Counting, LinkInv, Vswitchd
    PROVE  LinkInv'
<1>0. Shape /\ Past /\ ThreadInv  BY Zenon DEF LinkInv
<1>1. /\ UNCHANGED <<requests, accepted>> /\ UNCHANGED <<thread, dispatcher, packet_ring>>
  BY Zenon DEF Vswitchd, dequeue_messages, handle_vswitchd_cmd, free_mbufs, fill_alloc_ring,
         alloc_ring_filled, past, rings
<1>2. ThreadInv'  BY <1>0, <1>1, ThreadsStay, Zenon
<1>3. SUFFICES Shape' /\ Past'  BY <1>2, Zenon DEF LinkInv
<1>4. /\ core.step \in {"message", "free", "alloc"} /\ core.batch \in Seq(Message)
      /\ core = [step |-> core.step, batch |-> core.batch]
  BY <1>0, Fields, Zenon
<1>5. /\ message_ring \in Seq(Message) /\ Len(message_ring) <= RingSize
      /\ reply_ring \in Seq(Reply) /\ Len(reply_ring) <= RingSize
      /\ free_ring \in Seq(Mbuf) /\ Len(free_ring) <= RingSize
      /\ alloc_ring \in Seq(Mbuf) /\ pool \subseteq Mbuf /\ busy \subseteq Mbuf
  BY <1>0, Zenon DEF Shape, Fit
<1>6. CASE dequeue_messages
  <2> DEFINE n == Least(Burst, Len(message_ring))
             f == SubSeq(message_ring, 1, n)
             b == SubSeq(message_ring, n + 1, Len(message_ring))
  <2>1. f \in Seq(Message) /\ b \in Seq(Message) /\ Len(b) <= RingSize
    BY <1>5, BurstEffect, ZenonT(30)
  <2>2. /\ core' = [step |-> IF n = 0 THEN "free" ELSE "message", batch |-> f]
        /\ message_ring' = b
        /\ UNCHANGED <<pool, busy, alloc_ring, reply_ring, free_ring>>
        /\ UNCHANGED <<executed, events>>
    BY <1>6, Zenon DEF dequeue_messages, past
  <2> HIDE DEF f, b, n
  <2>3. core' \in CoreState  BY <2>1, <2>2, Zenon DEF CoreState
  <2> QED  BY <1>0, <1>1, <2>1, <2>2, <2>3, Zenon DEF Shape, Past, Fit
<1>7. CASE handle_vswitchd_cmd
  <2>1. PICK rq \in Message, b \in Seq(Message) :
              /\ core' \in CoreState
              /\ \/ rq.family = "flow" /\ send_reply(rq)
                 \/ rq.family = "packet" /\ handle_packet_cmd(rq)
    BY <1>0, <1>7, HandleEffect, Zenon
  <2>2. rq.mbuf \in Mbuf /\ rq.no \in 1 .. MaxRequest  BY <1>0, Fields, Zenon
  <2>3. UNCHANGED <<alloc_ring, message_ring, free_ring>>
    BY <1>7, Zenon DEF handle_vswitchd_cmd
  <2>4. CASE send_reply(rq)
    <3>1. pool # {} => alloc \in pool  BY Zenon DEF alloc
    <3>2. [mbuf |-> alloc, no |-> rq.no] \in Reply \/ pool = {}
      BY <1>5, <2>2, <3>1, Zenon DEF Reply
    <3>3. reply_ring' \in Seq(Reply) /\ Len(reply_ring') <= RingSize
      <4>1. CASE /\ pool # {} /\ Len(reply_ring) + 1 <= RingSize
                 /\ reply_ring' = Append(reply_ring, [mbuf |-> alloc, no |-> rq.no])
        <5> DEFINE x == [mbuf |-> alloc, no |-> rq.no]
        <5>1. x \in Reply  BY <3>2, <4>1, Zenon
        <5> HIDE DEF x
        <5> QED  BY <1>5, <4>1, <5>1 DEF x
      <4>2. CASE UNCHANGED reply_ring  BY <1>5, <4>2, Zenon
      <4> QED  BY <2>4, <4>1, <4>2, Zenon DEF send_reply, Room, RoomFor
    <3>4. pool' \subseteq Mbuf  BY <1>5, <2>2, <2>4, Zenon DEF send_reply
    <3>5. UNCHANGED <<busy, executed>> /\ events' \subseteq events \cup {"short"}
      BY <2>4, Zenon DEF send_reply, Note
    <3> QED  BY <1>0, <1>1, <2>1, <2>3, <3>3, <3>4, <3>5, Zenon DEF Shape, Past, Fit
  <2>5. CASE handle_packet_cmd(rq)
    <3>1. /\ busy' = busy \cup {rq.mbuf} /\ UNCHANGED <<pool, reply_ring, events>>
          /\ executed' = [executed EXCEPT ![rq.no] = executed[rq.no] + 1]
      BY <2>5, Zenon DEF handle_packet_cmd
    <3>2. executed' \in [1 .. MaxRequest -> Nat]  BY <1>0, <2>2, <3>1 DEF Past
    <3> QED  BY <1>0, <1>1, <2>1, <2>2, <2>3, <3>1, <3>2, Zenon DEF Shape, Past, Fit
  <2> QED  BY <2>1, <2>4, <2>5, Zenon
<1>8. CASE free_mbufs
  <2> DEFINE n == Least(Burst, Len(free_ring))
             f == SubSeq(free_ring, 1, n)
             b == SubSeq(free_ring, n + 1, Len(free_ring))
  <2>1. /\ f \in Seq(Mbuf) /\ b \in Seq(Mbuf) /\ Len(b) <= RingSize
        /\ Mbufs(f) = {free_ring[i] : i \in 1 .. n}
    BY <1>5, BurstEffect, ZenonT(30)
  <2>2. Mbufs(f) \subseteq Mbuf  BY <2>1 DEF Mbufs
  <2>3. /\ core' = [core EXCEPT !.step = "alloc"] /\ pool' = pool \cup {free_ring[i] : i \in 1 .. n}
        /\ free_ring' = b /\ UNCHANGED <<busy, alloc_ring, message_ring, reply_ring>>
        /\ UNCHANGED <<executed, events>>
    BY <1>8, Zenon DEF free_mbufs, past
  <2>4. core' \in CoreState  BY <1>0, <2>3, Zenon DEF Shape, CoreState
  <2>5. pool' \subseteq Mbuf  BY <1>5, <2>1, <2>2, <2>3, Zenon
  <2> HIDE DEF f, b, n
  <2> QED  BY <1>0, <1>1, <2>1, <2>3, <2>4, <2>5, Zenon DEF Shape, Past, Fit
<1>9. CASE fill_alloc_ring
  <2>1. PICK s \in Seq(Mbuf) :
              /\ alloc_ring' = alloc_ring \o s /\ Len(alloc_ring') <= RingSize
              /\ pool' = pool \ Mbufs(s)
    BY <1>0, <1>9, FillEffect, Zenon
  <2>2. alloc_ring' \in Seq(Mbuf) /\ pool' \subseteq Mbuf  BY <1>5, <2>1
  <2>3. /\ UNCHANGED <<busy, message_ring, reply_ring, free_ring>> /\ UNCHANGED <<core, executed>>
        /\ events' \subseteq events \cup {"short"}
    BY <1>9, Zenon DEF fill_alloc_ring, past, Note
  <2> QED  BY <1>0, <1>1, <2>1, <2>2, <2>3, Zenon DEF Shape, Past, Fit
<1>10. CASE alloc_ring_filled
  <2>1. core' \in CoreState  BY <1>0, <1>10, Zenon DEF alloc_ring_filled, Shape, CoreState
  <2> QED  BY <1>0, <1>10, <2>1, Zenon DEF alloc_ring_filled, rings, past, Shape, Past, Fit
<1> QED  BY <1>6, <1>7, <1>8, <1>9, <1>10, Zenon DEF Vswitchd

\* LinkInv is inductive.
LEMMA LinkInit == Init => LinkInv
<1> SUFFICES ASSUME Init PROVE LinkInv  BY Zenon
<1> USE LinkAssumption
<1>1. NoRequest \in ThreadState  BY NoRequestType, Zenon
<1>2. NoRequest.step = "idle" /\ Len(NoRequest.mbufs) = 0  BY Zenon DEF NoRequest
<1>3. /\ thread = [t \in Thread |-> NoRequest] /\ requests = 0
      /\ accepted = [r \in 1 .. MaxRequest |-> 0] /\ executed = [r \in 1 .. MaxRequest |-> 0]
      /\ events = {} /\ pool = Mbuf /\ busy = {} /\ dispatcher = NoMbuf
      /\ alloc_ring = <<>> /\ message_ring = <<>> /\ reply_ring = <<>>
      /\ packet_ring = <<>> /\ free_ring = <<>> /\ core = [step |-> "message", batch |-> <<>>]
  BY Zenon DEF Init
<1>4. Past  BY <1>3 DEF Past
<1>5. core \in CoreState  BY <1>3 DEF CoreState
<1>6. \A S : <<>> \in Seq(S) /\ Len(<<>>) <= RingSize  OBVIOUS
<1>7. Shape  BY <1>1, <1>3, <1>5, <1>6, Zenon DEF Shape, Fit
<1>8. \A t \in Thread : thread[t] = NoRequest  BY <1>3, Zenon
<1>9. ThreadOK(NoRequest, requests, accepted)  BY <1>2 DEF ThreadOK
<1>10. ThreadInv  BY <1>2, <1>3, <1>8, <1>9, Zenon DEF ThreadInv
<1> QED  BY <1>4, <1>7, <1>10, Zenon DEF LinkInv

\* LinkInv is inductive: every step keeps it.
LEMMA LinkStep == Counting /\ LinkInv /\ [Next]_vars => LinkInv'
<1> SUFFICES ASSUME Counting, LinkInv, [Next]_vars PROVE LinkInv'  BY Zenon
<1>1. CASE UNCHANGED vars
  <2>1. UNCHANGED <<pool, busy, alloc_ring, message_ring, reply_ring, packet_ring, free_ring,
                    thread, dispatcher, core, requests, accepted, executed, events>>
    BY <1>1, Zenon DEF vars, rings, past
  <2>2. ThreadInv'  BY <2>1, ThreadsStay, Zenon
  <2>3. Shape' /\ Past'  BY <2>1, Zenon DEF LinkInv, Shape, Past
  <2> QED  BY <2>2, <2>3, Zenon DEF LinkInv
<1> QED
  BY <1>1, DaemonTypes, RequestTypes, DispatcherTypes, TrafficTypes, VswitchdTypes, Zenon DEF Next
-----------------------------------------------------------------------------
(* Who holds an mbuf *)

InPool == <<"pool", 0>>
InBusy == <<"busy", 0>>
InAlloc == <<"alloc", 0>>
InMessage == <<"message", 0>>
InReply == <<"reply", 0>>
InPacket == <<"packet", 0>>
InFree == <<"free", 0>>
InBatch == <<"batch", 0>>
InDispatcher == <<"dispatcher", 0>>
InThread(t) == <<"thread", t>>

Place == {InPool, InBusy, InAlloc, InMessage, InReply, InPacket, InFree, InBatch, InDispatcher}
         \cup {InThread(t) : t \in Thread}

\* The mbufs that own has at k; whether s is these mbufs, each of them once.
At(own, k) == {m \in Mbuf : own[m] = k}
Holds(own, k, s) == Once(s) /\ Mbufs(s) = At(own, k)

\* own says where each mbuf is.
OwnedBy(own) ==
    /\ pool = At(own, InPool) /\ busy = At(own, InBusy)
    /\ Holds(own, InAlloc, alloc_ring) /\ Holds(own, InMessage, Bufs(message_ring))
    /\ Holds(own, InReply, Bufs(reply_ring)) /\ Holds(own, InPacket, packet_ring)
    /\ Holds(own, InFree, free_ring) /\ Holds(own, InBatch, Bufs(core.batch))
    /\ {dispatcher} \ {NoMbuf} = At(own, InDispatcher)
    /\ \A t \in Thread : Holds(own, InThread(t), thread[t].mbufs)

\* Every mbuf is at one place: that there is such a function says that the
\* places are disjoint and that together they have all mbufs.
Owned == \E own \in [Mbuf -> Place] : OwnedBy(own)

\* The places are different ones.
LEMMA PlacesDiffer ==
    /\ InPool \notin {InBusy, InAlloc, InMessage, InReply, InPacket, InFree, InBatch,
                      InDispatcher}
    /\ InBusy \notin {InAlloc, InMessage, InReply, InPacket, InFree, InBatch, InDispatcher}
    /\ InAlloc \notin {InMessage, InReply, InPacket, InFree, InBatch, InDispatcher}
    /\ InMessage \notin {InReply, InPacket, InFree, InBatch, InDispatcher}
    /\ InReply \notin {InPacket, InFree, InBatch, InDispatcher}
    /\ InPacket \notin {InFree, InBatch, InDispatcher}
    /\ InFree \notin {InBatch, InDispatcher}
    /\ InBatch # InDispatcher
    /\ \A t \in Thread : InThread(t) \notin {InPool, InBusy, InAlloc, InMessage, InReply,
                                             InPacket, InFree, InBatch, InDispatcher}
    /\ \A t, u \in Thread : InThread(t) = InThread(u) => t = u
  BY Zenon DEF InPool, InBusy, InAlloc, InMessage, InReply, InPacket, InFree, InBatch,
         InDispatcher, InThread

\* The mbufs X change hands: they are at b now.
Move(own, X, b) == [m \in Mbuf |-> IF m \in X THEN b ELSE own[m]]

\* Only the places that they leave and reach see it.
LEMMA Moved ==
    ASSUME NEW own \in [Mbuf -> Place], NEW a \in Place, NEW b \in Place, a # b,
           NEW X, X \subseteq At(own, a)
    PROVE  /\ Move(own, X, b) \in [Mbuf -> Place]
           /\ At(Move(own, X, b), a) = At(own, a) \ X
           /\ At(Move(own, X, b), b) = At(own, b) \cup X
           /\ \A k : k # a /\ k # b => At(Move(own, X, b), k) = At(own, k)
           /\ At(own, a) \cap At(own, b) = {}
  BY Zenon DEF Move, At

\* An mbuf leaves a ring at its front ...
LEMMA Taken ==
    ASSUME NEW own \in [Mbuf -> Place], NEW a \in Place, NEW b \in Place, a # b,
           NEW f \in Seq(Mbuf), NEW r \in Seq(Mbuf), Holds(own, a, f \o r)
    PROVE  /\ Mbufs(f) \subseteq At(own, a) /\ Once(f)
           /\ Holds(Move(own, Mbufs(f), b), a, r)
<1>1. /\ Once(f) /\ Once(r) /\ Mbufs(f) \cap Mbufs(r) = {}
      /\ Mbufs(f) \cup Mbufs(r) = At(own, a)
  BY Joined, Zenon DEF Holds
<1>2. At(Move(own, Mbufs(f), b), a) = At(own, a) \ Mbufs(f)
  BY <1>1, Moved
<1> QED  BY <1>1, <1>2, Zenon DEF Holds

\* ... and is put at the end of another.
LEMMA Put ==
    ASSUME NEW own \in [Mbuf -> Place], NEW a \in Place, NEW b \in Place, a # b,
           NEW s \in Seq(Mbuf), NEW r \in Seq(Mbuf), Holds(own, b, s),
           Once(r), Mbufs(r) \subseteq At(own, a)
    PROVE  Holds(Move(own, Mbufs(r), b), b, s \o r)
<1>1. /\ At(own, a) \cap At(own, b) = {}
      /\ At(Move(own, Mbufs(r), b), b) = At(own, b) \cup Mbufs(r)
  BY Moved
<1>2. Mbufs(s) = At(own, b) /\ Once(s)  BY Zenon DEF Holds
<1>3. Mbufs(s) \cap Mbufs(r) = {}  BY <1>1, <1>2, Zenon
<1>4. Mbufs(s \o r) = Mbufs(s) \cup Mbufs(r) /\ Once(s \o r)
  <2>1. Once(s)  BY <1>2, Zenon
  <2> QED  BY <1>3, <2>1, Joined
<1> QED  BY <1>1, <1>2, <1>4, Zenon DEF Holds

\* o is own but for the places a and b, where r and s are now.
Differ(own, o, a, r, b, s) ==
    /\ o \in [Mbuf -> Place] /\ Holds(o, a, r) /\ Holds(o, b, s)
    /\ \A k : k # a /\ k # b => At(o, k) = At(own, k)

\* The front of one ring goes to the end of another.
LEMMA Handed ==
    ASSUME NEW own \in [Mbuf -> Place], NEW a \in Place, NEW b \in Place, a # b,
           NEW f \in Seq(Mbuf), NEW r \in Seq(Mbuf), NEW s \in Seq(Mbuf),
           Holds(own, a, f \o r), Holds(own, b, s)
    PROVE  Differ(own, Move(own, Mbufs(f), b), a, r, b, s \o f)
<1> DEFINE o == Move(own, Mbufs(f), b)
<1>1. Mbufs(f) \subseteq At(own, a) /\ Once(f) /\ Holds(o, a, r)
  BY Taken, Zenon
<1>2. Holds(o, b, s \o f)  BY <1>1, Put, Zenon
<1>3. /\ o \in [Mbuf -> Place]
      /\ \A k : k # a /\ k # b => At(o, k) = At(own, k)
  BY <1>1, Moved
<1> QED  BY <1>1, <1>2, <1>3, Zenon DEF Differ

\* What the places of the threads are when thread t holds mbufs f now.
LEMMA ThreadsHold ==
    ASSUME Shape, NEW own, OwnedBy(own), NEW o, NEW t \in Thread, NEW s,
           thread' = [thread EXCEPT ![t] = s], Holds(o, InThread(t), s.mbufs),
           \A u \in Thread : u # t => At(o, InThread(u)) = At(own, InThread(u))
    PROVE  \A u \in Thread : Holds(o, InThread(u), thread'[u].mbufs)
<1>1. thread'[t] = s /\ \A u \in Thread : u # t => thread'[u] = thread[u]
  BY Zenon DEF Shape
<1>2. \A u \in Thread : Holds(own, InThread(u), thread[u].mbufs)  BY Zenon DEF OwnedBy
<1> QED  BY <1>1, <1>2, Zenon DEF Holds

\* alloc_mbufs: from alloc_ring to the thread.
LEMMA AllocOwned ==
    ASSUME LinkInv, Owned, NEW t \in Thread, alloc_mbufs(t)
    PROVE  Owned'
<1>0. Shape /\ Past /\ ThreadInv  BY Zenon DEF LinkInv
<1>1. PICK own \in [Mbuf -> Place] : OwnedBy(own)  BY Zenon DEF Owned
<1>2. PICK f \in Seq(Mbuf), b \in Seq(Mbuf) :
          /\ alloc_ring = f \o b /\ alloc_ring' = b
          /\ thread' = [thread EXCEPT ![t] = With(thread[t], "send", f, thread[t].got)]
  BY <1>0, AllocEffect, Zenon
<1>3. InAlloc \in Place /\ InThread(t) \in Place /\ InAlloc # InThread(t)
  BY PlacesDiffer, Zenon DEF Place
<1>4. thread[t].mbufs = <<>> /\ <<>> \in Seq(Mbuf) /\ <<>> \o f = f
  <2>1. thread[t].step = "alloc"  BY Zenon DEF alloc_mbufs
  <2> QED  BY <1>0, <2>1 DEF ThreadInv, ThreadOK
<1>5. Holds(own, InAlloc, f \o b) /\ Holds(own, InThread(t), <<>>)
  BY <1>1, <1>2, <1>4, Zenon DEF OwnedBy
<1> DEFINE o == Move(own, Mbufs(f), InThread(t))
<1>6. Differ(own, o, InAlloc, b, InThread(t), f)
  <2>1. <<>> \in Seq(Mbuf)  BY <1>4, Zenon
  <2>2. Differ(own, o, InAlloc, b, InThread(t), <<>> \o f)
    BY <1>3, <1>5, <2>1, Handed, Zenon
  <2> QED  BY <1>4, <2>2, Zenon
<1> HIDE DEF o
<1>7. \A u \in Thread : Holds(o, InThread(u), thread'[u].mbufs)
  <2>1. With(thread[t], "send", f, thread[t].got).mbufs = f  BY Zenon DEF With
  <2>2. \A u \in Thread : u # t => At(o, InThread(u)) = At(own, InThread(u))
    BY <1>6, PlacesDiffer, Zenon DEF Differ
  <2>3. Holds(o, InThread(t), f)  BY <1>6, Zenon DEF Differ
  <2> QED  BY <1>0, <1>1, <1>2, <2>1, <2>2, <2>3, ThreadsHold, Zenon
<1>8. UNCHANGED <<pool, busy, message_ring, reply_ring, packet_ring, free_ring,
                  dispatcher, core>>
  BY Zenon DEF alloc_mbufs
<1>9. OwnedBy(o)'
  BY <1>1, <1>2, <1>6, <1>7, <1>8, PlacesDiffer, Zenon DEF OwnedBy, Holds, Differ
<1> QED  BY <1>6, <1>9, Zenon DEF Owned, Differ

\* dpdk_link_send: from the thread to message_ring, or to nowhere.
LEMMA SendOwned ==
    ASSUME LinkInv, Owned, NEW t \in Thread, dpdk_link_send(t)
    PROVE  Owned'
<1>0. Shape /\ Past /\ ThreadInv  BY Zenon DEF LinkInv
<1>1. PICK own \in [Mbuf -> Place] : OwnedBy(own)  BY Zenon DEF Owned
<1>2. UNCHANGED <<pool, busy, alloc_ring, reply_ring, packet_ring, free_ring,
                  dispatcher, core>>
  BY Zenon DEF dpdk_link_send
<1>f. PICK f \in Seq(Mbuf) : f = thread[t].mbufs  BY <1>0, Fields, Zenon
<1>3. Holds(own, InThread(t), f) /\ <<>> \in Seq(Mbuf) /\ f \o <<>> = f
  BY <1>1, <1>f DEF OwnedBy
<1>4. InMessage \in Place /\ InThread(t) \in Place /\ InMessage # InThread(t)
  BY PlacesDiffer, Zenon DEF Place
<1>5. CASE \E q \in Seq(Message) :
               /\ message_ring' = message_ring \o q /\ Bufs(q) = f
               /\ thread' = [thread EXCEPT ![t] =
                        IF thread[t].family = "flow"
                        THEN With(thread[t], "recv", <<>>, thread[t].got) ELSE NoRequest]
  <2>1. PICK q \in Seq(Message) :
               /\ message_ring' = message_ring \o q /\ Bufs(q) = f
               /\ thread' = [thread EXCEPT ![t] =
                        IF thread[t].family = "flow"
                        THEN With(thread[t], "recv", <<>>, thread[t].got) ELSE NoRequest]
    BY <1>5, Zenon
  <2>2. /\ Bufs(message_ring) \in Seq(Mbuf)
        /\ Bufs(message_ring') = Bufs(message_ring) \o f
    <3>1. message_ring \in Seq(Message) /\ \A x \in Message : x.mbuf \in Mbuf
      BY <1>0, Fields, Zenon DEF Shape
    <3>2. Bufs(message_ring \o q) = Bufs(message_ring) \o Bufs(q)
      BY <3>1, BufsJoined, Zenon
    <3>3. Bufs(message_ring) \in Seq(Mbuf)  BY <3>1, BufsJoined, Zenon
    <3> QED  BY <2>1, <3>2, <3>3, Zenon
  <2>3. Holds(own, InMessage, Bufs(message_ring))  BY <1>1, Zenon DEF OwnedBy
  <2> DEFINE o == Move(own, Mbufs(f), InMessage)
  <2>4. Differ(own, o, InThread(t), <<>>, InMessage, Bufs(message_ring) \o f)
    <3>1. Holds(own, InThread(t), f \o <<>>)  BY <1>3, Zenon
    <3>2. f \in Seq(Mbuf) /\ <<>> \in Seq(Mbuf) /\ Bufs(message_ring) \in Seq(Mbuf)
      BY <1>3, <2>2, Zenon
    <3> QED  BY <1>4, <2>3, <3>1, <3>2, Handed, Zenon
  <2> HIDE DEF o
  <2>5. \A u \in Thread : Holds(o, InThread(u), thread'[u].mbufs)
    <3> DEFINE s == IF thread[t].family = "flow"
                    THEN With(thread[t], "recv", <<>>, thread[t].got) ELSE NoRequest
    <3>1. s.mbufs = <<>>  BY Zenon DEF With, NoRequest
    <3>2. thread' = [thread EXCEPT ![t] = s]  BY <2>1, Zenon
    <3>3. \A u \in Thread : u # t => At(o, InThread(u)) = At(own, InThread(u))
      BY <2>4, PlacesDiffer, Zenon DEF Differ
    <3>4. Holds(o, InThread(t), s.mbufs)  BY <2>4, <3>1, Zenon DEF Differ
    <3> HIDE DEF s
    <3> QED  BY <1>0, <1>1, <3>2, <3>3, <3>4, ThreadsHold, Zenon
  <2>6. OwnedBy(o)'
    BY <1>1, <1>2, <2>2, <2>4, <2>5, PlacesDiffer, Zenon DEF OwnedBy, Holds, Differ
  <2> QED  BY <2>4, <2>6, Zenon DEF Owned, Differ
<1>6. CASE /\ thread' = [thread EXCEPT ![t] =
                   With(thread[t], "free", thread[t].mbufs, thread[t].got)]
           /\ UNCHANGED message_ring
  <2>1. \A u \in Thread : Holds(own, InThread(u), thread'[u].mbufs)
    <3>1. With(thread[t], "free", f, thread[t].got).mbufs = f  BY Zenon DEF With
    <3> QED  BY <1>0, <1>1, <1>3, <1>6, <1>f, <3>1, ThreadsHold, Zenon
  <2>2. OwnedBy(own)'  BY <1>1, <1>2, <1>6, <2>1, Zenon DEF OwnedBy
  <2> QED  BY <2>2, Zenon DEF Owned
<1> QED  BY <1>0, <1>f, <1>5, <1>6, SendEffect, Zenon

\* dpdk_link_recv_reply: from reply_ring to the thread.
LEMMA RecvOwned ==
    ASSUME LinkInv, Owned, NEW t \in Thread, dpdk_link_recv_reply(t)
    PROVE  Owned'
<1>0. Shape /\ Past /\ ThreadInv  BY Zenon DEF LinkInv
<1>1. PICK own \in [Mbuf -> Place] : OwnedBy(own)  BY Zenon DEF Owned
<1>2. PICK x \in Reply, b \in Seq(Reply) :
          /\ reply_ring = <<x>> \o b /\ reply_ring' = b
          /\ thread' = [thread EXCEPT ![t] = With(thread[t], "free", <<x.mbuf>>, x.no)]
  BY <1>0, RecvEffect, Zenon
<1>3. InReply \in Place /\ InThread(t) \in Place /\ InReply # InThread(t)
  BY PlacesDiffer, Zenon DEF Place
<1>4. x.mbuf \in Mbuf /\ \A y \in Reply : y.mbuf \in Mbuf  BY Zenon DEF Reply
<1> DEFINE f == <<x.mbuf>>
<1>5. f \in Seq(Mbuf) /\ <<>> \in Seq(Mbuf) /\ <<>> \o f = f  BY <1>4
<1>6. thread[t].mbufs = <<>>
  <2>1. thread[t].step = "recv"  BY Zenon DEF dpdk_link_recv_reply
  <2> QED  BY <1>0, <2>1, Zenon DEF ThreadInv, ThreadOK
<1>7. Bufs(b) \in Seq(Mbuf) /\ Bufs(reply_ring) = f \o Bufs(b)
  <2>1. <<x>> \in Seq(Reply) /\ Bufs(<<x>>) = f  BY Single, Zenon
  <2>2. Bufs(<<x>> \o b) = Bufs(<<x>>) \o Bufs(b) /\ Bufs(b) \in Seq(Mbuf)
    BY <1>4, <2>1, BufsJoined, Zenon
  <2> QED  BY <1>2, <2>1, <2>2, Zenon
<1> HIDE DEF f
<1>8. Holds(own, InReply, f \o Bufs(b)) /\ Holds(own, InThread(t), <<>>)
  BY <1>1, <1>6, <1>7, Zenon DEF OwnedBy
<1> DEFINE o == Move(own, Mbufs(f), InThread(t))
<1>9. Differ(own, o, InReply, Bufs(b), InThread(t), f)
  <2>1. Differ(own, o, InReply, Bufs(b), InThread(t), <<>> \o f)
    BY <1>3, <1>5, <1>7, <1>8, Handed, Zenon
  <2> QED  BY <1>5, <2>1, Zenon
<1> HIDE DEF o
<1>10. \A u \in Thread : Holds(o, InThread(u), thread'[u].mbufs)
  <2>1. With(thread[t], "free", f, x.no).mbufs = f  BY Zenon DEF With
  <2>2. \A u \in Thread : u # t => At(o, InThread(u)) = At(own, InThread(u))
    BY <1>9, PlacesDiffer, Zenon DEF Differ
  <2>3. Holds(o, InThread(t), f)  BY <1>9, Zenon DEF Differ
  <2>4. thread' = [thread EXCEPT ![t] = With(thread[t], "free", f, x.no)]
    BY <1>2, Zenon DEF f
  <2> QED  BY <1>0, <1>1, <2>1, <2>2, <2>3, <2>4, ThreadsHold, Zenon
<1>11. UNCHANGED <<pool, busy, alloc_ring, message_ring, packet_ring, free_ring,
                   dispatcher, core>>
  BY Zenon DEF dpdk_link_recv_reply
<1>12. OwnedBy(o)'
  BY <1>1, <1>2, <1>9, <1>10, <1>11, PlacesDiffer, Zenon DEF OwnedBy, Holds, Differ
<1> QED  BY <1>9, <1>12, Zenon DEF Owned, Differ

\* enqueue_mbufs_to_be_freed: from the thread to free_ring.
LEMMA EnqueueOwned ==
    ASSUME LinkInv, Owned, NEW t \in Thread, enqueue_mbufs_to_be_freed(t)
    PROVE  Owned'
<1>0. Shape /\ Past /\ ThreadInv  BY Zenon DEF LinkInv
<1>1. PICK own \in [Mbuf -> Place] : OwnedBy(own)  BY Zenon DEF Owned
<1>2. PICK f \in Seq(Mbuf) : f = thread[t].mbufs  BY <1>0, Fields, Zenon
<1>3. /\ free_ring' = free_ring \o f /\ thread' = [thread EXCEPT ![t] = NoRequest]
      /\ UNCHANGED <<pool, busy, alloc_ring, message_ring, reply_ring,
                     packet_ring, dispatcher, core>>
  BY <1>2, Zenon DEF enqueue_mbufs_to_be_freed
<1>4. InFree \in Place /\ InThread(t) \in Place /\ InThread(t) # InFree
  BY PlacesDiffer, Zenon DEF Place
<1>5. <<>> \in Seq(Mbuf) /\ free_ring \in Seq(Mbuf) /\ f \o <<>> = f  BY <1>0 DEF Shape
<1>6. Holds(own, InThread(t), f \o <<>>) /\ Holds(own, InFree, free_ring)
  BY <1>1, <1>2, <1>5, Zenon DEF OwnedBy
<1> DEFINE o == Move(own, Mbufs(f), InFree)
<1>7. Differ(own, o, InThread(t), <<>>, InFree, free_ring \o f)
  BY <1>4, <1>5, <1>6, Handed, Zenon
<1> HIDE DEF o
<1>8. \A u \in Thread : Holds(o, InThread(u), thread'[u].mbufs)
  <2>1. NoRequest.mbufs = <<>>  BY Zenon DEF NoRequest
  <2>2. \A u \in Thread : u # t => At(o, InThread(u)) = At(own, InThread(u))
    BY <1>7, PlacesDiffer, Zenon DEF Differ
  <2>3. Holds(o, InThread(t), NoRequest.mbufs)  BY <1>7, <2>1, Zenon DEF Differ
  <2> QED  BY <1>0, <1>1, <1>3, <2>2, <2>3, ThreadsHold, Zenon
<1>9. OwnedBy(o)'
  BY <1>1, <1>3, <1>7, <1>8, PlacesDiffer, Zenon DEF OwnedBy, Holds, Differ
<1> QED  BY <1>7, <1>9, Zenon DEF Owned, Differ

\* A request takes no mbuf yet.
LEMMA RequestOwned ==
    ASSUME LinkInv, Owned, NEW t \in Thread, NEW family, NEW n, request(t, family, n)
    PROVE  Owned'
<1>0. Shape /\ Past /\ ThreadInv  BY Zenon DEF LinkInv
<1>1. PICK own \in [Mbuf -> Place] : OwnedBy(own)  BY Zenon DEF Owned
<1> DEFINE s == [step |-> "alloc", family |-> family, n |-> n, mbufs |-> <<>>,
                 no |-> requests + 1, got |-> 0]
<1>2. /\ thread[t].step = "idle" /\ thread' = [thread EXCEPT ![t] = s]
      /\ UNCHANGED <<pool, busy, alloc_ring, message_ring, reply_ring, packet_ring, free_ring>>
      /\ UNCHANGED <<dispatcher, core>>
  BY Zenon DEF request, rings
<1>3. thread[t].mbufs = <<>>
  BY <1>0, <1>2 DEF ThreadInv, ThreadOK, NoRequest
<1>4. s.mbufs = <<>>  BY Zenon
<1> HIDE DEF s
<1>5. \A u \in Thread : Holds(own, InThread(u), thread'[u].mbufs)
  <2>1. Holds(own, InThread(t), s.mbufs)  BY <1>1, <1>3, <1>4, Zenon DEF OwnedBy
  <2> QED  BY <1>0, <1>1, <1>2, <2>1, ThreadsHold, Zenon
<1>6. OwnedBy(own)'  BY <1>1, <1>2, <1>5, Zenon DEF OwnedBy
<1> QED  BY <1>6, Zenon DEF Owned

\* dpdk_link_recv_packet: from packet_ring to the dispatcher.
LEMMA RecvPacketOwned ==
    ASSUME LinkInv, Owned, dpdk_link_recv_packet
    PROVE  Owned'
<1>0. Shape  BY Zenon DEF LinkInv
<1>1. PICK own \in [Mbuf -> Place] : OwnedBy(own)  BY Zenon DEF Owned
<1>2. /\ dispatcher = NoMbuf /\ packet_ring # <<>> /\ dispatcher' = Head(packet_ring)
      /\ packet_ring' = Tail(packet_ring)
      /\ UNCHANGED <<pool, busy, alloc_ring, message_ring, reply_ring, free_ring,
                     thread, core>>
  BY Zenon DEF dpdk_link_recv_packet
<1>3. PICK m \in Mbuf, r \in Seq(Mbuf) : /\ packet_ring = <<m>> \o r /\ dispatcher' = m
                                         /\ packet_ring' = r
  <2>1. packet_ring \in Seq(Mbuf)  BY <1>0, Zenon DEF Shape
  <2> QED  BY <1>2, <2>1, HeadAndTail, Zenon
<1>4. InPacket \in Place /\ InDispatcher \in Place /\ InPacket # InDispatcher
  BY PlacesDiffer, Zenon DEF Place
<1>5. <<m>> \in Seq(Mbuf) /\ Mbufs(<<m>>) = {m}  BY Single, Zenon
<1>6. Holds(own, InPacket, <<m>> \o r)  BY <1>1, <1>3, Zenon DEF OwnedBy
<1> DEFINE o == Move(own, Mbufs(<<m>>), InDispatcher)
<1>7. Mbufs(<<m>>) \subseteq At(own, InPacket) /\ Holds(o, InPacket, r)
  BY <1>4, <1>5, <1>6, Taken, Zenon
<1>8. /\ o \in [Mbuf -> Place] /\ At(o, InDispatcher) = At(own, InDispatcher) \cup {m}
      /\ \A k : k # InPacket /\ k # InDispatcher => At(o, k) = At(own, k)
  BY <1>4, <1>5, <1>7, Moved
<1> HIDE DEF o
<1>9. {dispatcher'} \ {NoMbuf} = At(o, InDispatcher)
  BY <1>1, <1>2, <1>3, <1>8, LinkAssumption, Zenon DEF OwnedBy
<1>10. OwnedBy(o)'
  BY <1>1, <1>2, <1>3, <1>7, <1>8, <1>9, PlacesDiffer, Zenon DEF OwnedBy, Holds
<1> QED  BY <1>8, <1>10, Zenon DEF Owned

\* packet_read: from the dispatcher to free_ring.
LEMMA PacketReadOwned ==
    ASSUME LinkInv, Owned, packet_read
    PROVE  Owned'
<1>0. Shape  BY Zenon DEF LinkInv
<1>1. PICK own \in [Mbuf -> Place] : OwnedBy(own)  BY Zenon DEF Owned
<1>2. /\ dispatcher # NoMbuf /\ free_ring' = Append(free_ring, dispatcher)
      /\ dispatcher' = NoMbuf
      /\ UNCHANGED <<pool, busy, alloc_ring, message_ring, reply_ring, packet_ring,
                     thread, core>>
  BY Zenon DEF packet_read
<1>3. PICK m \in Mbuf : m = dispatcher  BY <1>0, <1>2, Zenon DEF Shape
<1>4. free_ring \in Seq(Mbuf) /\ free_ring' = free_ring \o <<m>>
  BY <1>0, <1>2, <1>3 DEF Shape
<1>5. InFree \in Place /\ InDispatcher \in Place /\ InDispatcher # InFree
  BY PlacesDiffer, Zenon DEF Place
<1>6. <<m>> \in Seq(Mbuf) /\ Mbufs(<<m>>) = {m} /\ Once(<<m>>)  BY Single, Zenon
<1>7. At(own, InDispatcher) = {m}  BY <1>1, <1>2, <1>3, LinkAssumption, Zenon DEF OwnedBy
<1>8. Holds(own, InFree, free_ring) /\ Mbufs(<<m>>) \subseteq At(own, InDispatcher)
  BY <1>1, <1>6, <1>7, Zenon DEF OwnedBy
<1> DEFINE o == Move(own, Mbufs(<<m>>), InFree)
<1>9. Holds(o, InFree, free_ring \o <<m>>)
  BY <1>4, <1>5, <1>6, <1>8, Put, Zenon
<1>10. /\ o \in [Mbuf -> Place] /\ At(o, InDispatcher) = At(own, InDispatcher) \ Mbufs(<<m>>)
       /\ \A k : k # InDispatcher /\ k # InFree => At(o, k) = At(own, k)
  BY <1>5, <1>8, Moved
<1> HIDE DEF o
<1>11. {dispatcher'} \ {NoMbuf} = At(o, InDispatcher)  BY <1>2, <1>6, <1>7, <1>10, Zenon
<1>12. OwnedBy(o)'
  BY <1>1, <1>2, <1>4, <1>9, <1>10, <1>11, PlacesDiffer, Zenon DEF OwnedBy, Holds
<1> QED  BY <1>10, <1>12, Zenon DEF Owned

\* The traffic: between the pool and the packets in the switch, and from these
\* to packet_ring.
LEMMA TrafficOwned ==
    ASSUME LinkInv, Owned, Traffic
    PROVE  Owned'
<1>0. Shape  BY Zenon DEF LinkInv
<1>1. PICK own \in [Mbuf -> Place] : OwnedBy(own)  BY Zenon DEF Owned
<1>2. UNCHANGED <<alloc_ring, message_ring, reply_ring, free_ring, thread, dispatcher, core>>
  BY Zenon DEF Traffic, receive_packet, transmit_packet, send_packet_to_vswitchd, rings
<1>3. InPool \in Place /\ InBusy \in Place /\ InPacket \in Place /\ InPool # InBusy
      /\ InBusy # InPacket
  BY PlacesDiffer, Zenon DEF Place
<1>4. pool = At(own, InPool) /\ busy = At(own, InBusy) /\ Holds(own, InPacket, packet_ring)
  BY <1>1, Zenon DEF OwnedBy
<1>5. ASSUME NEW m \in pool, pool' = pool \ {m}, busy' = busy \cup {m}, UNCHANGED packet_ring
      PROVE  Owned'
  <2> DEFINE o == Move(own, {m}, InBusy)
  <2>1. {m} \subseteq At(own, InPool)  BY <1>4, Zenon
  <2>2. /\ o \in [Mbuf -> Place] /\ At(o, InPool) = At(own, InPool) \ {m}
        /\ At(o, InBusy) = At(own, InBusy) \cup {m}
        /\ \A k : k # InPool /\ k # InBusy => At(o, k) = At(own, k)
    BY <1>3, <2>1, Moved
  <2> HIDE DEF o
  <2>3. OwnedBy(o)'  BY <1>1, <1>2, <1>5, <2>2, PlacesDiffer, Zenon DEF OwnedBy, Holds
  <2> QED  BY <2>2, <2>3, Zenon DEF Owned
<1>6. ASSUME NEW m \in busy, pool' = pool \cup {m}, busy' = busy \ {m}, UNCHANGED packet_ring
      PROVE  Owned'
  <2> DEFINE o == Move(own, {m}, InPool)
  <2>1. {m} \subseteq At(own, InBusy)  BY <1>4, Zenon
  <2>2. /\ o \in [Mbuf -> Place] /\ At(o, InBusy) = At(own, InBusy) \ {m}
        /\ At(o, InPool) = At(own, InPool) \cup {m}
        /\ \A k : k # InBusy /\ k # InPool => At(o, k) = At(own, k)
    BY <1>3, <2>1, Moved
  <2> HIDE DEF o
  <2>3. OwnedBy(o)'  BY <1>1, <1>2, <1>6, <2>2, PlacesDiffer, Zenon DEF OwnedBy, Holds
  <2> QED  BY <2>2, <2>3, Zenon DEF Owned
<1>7. ASSUME NEW m \in busy, busy' = busy \ {m}, packet_ring' = Append(packet_ring, m),
             UNCHANGED pool
      PROVE  Owned'
  <2> DEFINE o == Move(own, Mbufs(<<m>>), InPacket)
  <2>1. m \in Mbuf /\ packet_ring \in Seq(Mbuf)  BY <1>0, Zenon DEF Shape
  <2>2. <<m>> \in Seq(Mbuf) /\ Mbufs(<<m>>) = {m} /\ Once(<<m>>)  BY <2>1, Single, Zenon
  <2>3. Mbufs(<<m>>) \subseteq At(own, InBusy)  BY <1>4, <2>2, Zenon
  <2>4. packet_ring' = packet_ring \o <<m>>  BY <1>7, <2>1
  <2>5. Holds(o, InPacket, packet_ring \o <<m>>)
    BY <1>3, <1>4, <2>1, <2>2, <2>3, Put, Zenon
  <2>6. /\ o \in [Mbuf -> Place] /\ At(o, InBusy) = At(own, InBusy) \ {m}
        /\ \A k : k # InBusy /\ k # InPacket => At(o, k) = At(own, k)
    BY <1>3, <2>2, <2>3, Moved
  <2> HIDE DEF o
  <2>7. OwnedBy(o)'
    BY <1>1, <1>2, <1>7, <2>4, <2>5, <2>6, PlacesDiffer, Zenon DEF OwnedBy, Holds
  <2> QED  BY <2>6, <2>7, Zenon DEF Owned
<1>8. CASE receive_packet
  <2>1. alloc \in pool  BY <1>8, Zenon DEF receive_packet, alloc
  <2> QED  BY <1>5, <1>8, <2>1, Zenon DEF receive_packet, rings
<1>9. CASE transmit_packet
  BY <1>6, <1>9, Zenon DEF transmit_packet, rings
<1>10. CASE send_packet_to_vswitchd
  BY <1>6, <1>7, <1>10, Zenon DEF send_packet_to_vswitchd
<1> QED  BY <1>8, <1>9, <1>10, Zenon DEF Traffic

\* dequeue_messages: from message_ring to the burst that the core has read.
LEMMA DequeueOwned ==
    ASSUME LinkInv, Owned, dequeue_messages
    PROVE  Owned'
<1>0. Shape  BY Zenon DEF LinkInv
<1>1. PICK own \in [Mbuf -> Place] : OwnedBy(own)  BY Zenon DEF Owned
<1>2. PICK f \in Seq(Message), b \in Seq(Message) :
          message_ring = f \o b /\ core'.batch = f /\ message_ring' = b
  BY <1>0, DequeueEffect, Zenon
<1>3. /\ core.batch = <<>>
      /\ UNCHANGED <<pool, busy, alloc_ring, reply_ring, packet_ring, free_ring,
                     thread, dispatcher>>
  BY Zenon DEF dequeue_messages
<1>4. InMessage \in Place /\ InBatch \in Place /\ InMessage # InBatch
  BY PlacesDiffer, Zenon DEF Place
<1>5. /\ Bufs(f) \in Seq(Mbuf) /\ Bufs(b) \in Seq(Mbuf) /\ <<>> \in Seq(Mbuf)
      /\ Bufs(f \o b) = Bufs(f) \o Bufs(b)
  <2>1. \A x \in Message : x.mbuf \in Mbuf  BY Zenon DEF Message
  <2>2. Bufs(f) \in Seq(Mbuf) /\ Bufs(f \o b) = Bufs(f) \o Bufs(b)
    BY <2>1, BufsJoined, Zenon
  <2>3. Bufs(b) \in Seq(Mbuf)  BY <2>1, BufsJoined, Zenon
  <2> QED  BY <2>2, <2>3
<1>6. Bufs(<<>>) = <<>> /\ <<>> \o Bufs(f) = Bufs(f)
  <2>1. Bufs(<<>>) = <<>>  BY DEF Bufs
  <2> QED  BY <1>5, <2>1
<1>7. Holds(own, InMessage, Bufs(f) \o Bufs(b)) /\ Holds(own, InBatch, <<>>)
  BY <1>1, <1>2, <1>3, <1>5, <1>6, Zenon DEF OwnedBy
<1> DEFINE o == Move(own, Mbufs(Bufs(f)), InBatch)
<1>8. Differ(own, o, InMessage, Bufs(b), InBatch, Bufs(f))
  <2>1. Differ(own, o, InMessage, Bufs(b), InBatch, <<>> \o Bufs(f))
    BY <1>4, <1>5, <1>7, Handed, Zenon
  <2> QED  BY <1>6, <2>1, Zenon
<1> HIDE DEF o
<1>9. OwnedBy(o)'
  BY <1>1, <1>2, <1>3, <1>8, PlacesDiffer, Zenon DEF OwnedBy, Holds, Differ
<1> QED  BY <1>8, <1>9, Zenon DEF Owned, Differ

\* handle_vswitchd_cmd: from the burst to the packets in the switch, or back to
\* the pool; the reply's mbuf from there to reply_ring.
LEMMA HandleOwned ==
    ASSUME LinkInv, Owned, handle_vswitchd_cmd
    PROVE  Owned'
<1>0. Shape  BY Zenon DEF LinkInv
<1>1. PICK own \in [Mbuf -> Place] : OwnedBy(own)  BY Zenon DEF Owned
<1>2. PICK rq \in Message, b \in Seq(Message) :
          /\ core.batch = <<rq>> \o b /\ core'.batch = b
          /\ \/ rq.family = "flow" /\ send_reply(rq)
             \/ rq.family = "packet" /\ handle_packet_cmd(rq)
  BY <1>0, HandleEffect, Zenon
<1>3. UNCHANGED <<alloc_ring, message_ring, packet_ring, free_ring, thread, dispatcher>>
  BY Zenon DEF handle_vswitchd_cmd
<1>4. PICK m \in Mbuf : m = rq.mbuf  BY Zenon DEF Message
<1>5. /\ InPool \in Place /\ InBusy \in Place /\ InReply \in Place /\ InBatch \in Place
      /\ InBatch # InPool /\ InBatch # InBusy /\ InPool # InReply
  BY PlacesDiffer, Zenon DEF Place
<1>6. Bufs(b) \in Seq(Mbuf) /\ Bufs(core.batch) = <<m>> \o Bufs(b)
  <2>1. <<rq>> \in Seq(Message) /\ Bufs(<<rq>>) = <<m>>  BY <1>4, Single, Zenon
  <2>2. \A x \in Message : x.mbuf \in Mbuf  BY Zenon DEF Message
  <2>3. Bufs(<<rq>> \o b) = Bufs(<<rq>>) \o Bufs(b) /\ Bufs(b) \in Seq(Mbuf)
    BY <2>1, <2>2, BufsJoined, Zenon
  <2> QED  BY <1>2, <2>1, <2>3, Zenon
<1>7. <<m>> \in Seq(Mbuf) /\ Mbufs(<<m>>) = {m}  BY Single, Zenon
<1>8. CASE /\ busy' = busy \cup {m} /\ UNCHANGED <<pool, reply_ring>>
  <2>1. Holds(own, InBatch, <<m>> \o Bufs(b))  BY <1>1, <1>6, Zenon DEF OwnedBy
  <2> DEFINE o == Move(own, Mbufs(<<m>>), InBusy)
  <2>2. Mbufs(<<m>>) \subseteq At(own, InBatch) /\ Holds(o, InBatch, Bufs(b))
    BY <1>5, <1>6, <1>7, <2>1, Taken, Zenon
  <2>3. /\ o \in [Mbuf -> Place] /\ At(o, InBusy) = At(own, InBusy) \cup {m}
        /\ \A k : k # InBatch /\ k # InBusy => At(o, k) = At(own, k)
    BY <1>5, <1>7, <2>2, Moved
  <2> HIDE DEF o
  <2>4. OwnedBy(o)'
    BY <1>1, <1>2, <1>3, <1>8, <2>2, <2>3, PlacesDiffer, Zenon DEF OwnedBy, Holds
  <2> QED  BY <2>3, <2>4, Zenon DEF Owned
<1>9. ASSUME NEW o1 \in [Mbuf -> Place], NEW P, pool' = P \cup {m}, At(o1, InPool) = P,
             At(o1, InBatch) = At(own, InBatch), Holds(o1, InReply, Bufs(reply_ring')),
             \A k : k # InPool /\ k # InReply => At(o1, k) = At(own, k), UNCHANGED busy
      PROVE  Owned'
  <2>1. Holds(o1, InBatch, <<m>> \o Bufs(b))  BY <1>1, <1>6, <1>9, Zenon DEF OwnedBy, Holds
  <2> DEFINE o == Move(o1, Mbufs(<<m>>), InPool)
  <2>2. Mbufs(<<m>>) \subseteq At(o1, InBatch) /\ Holds(o, InBatch, Bufs(b))
    BY <1>5, <1>6, <1>7, <2>1, Taken, Zenon
  <2>3. /\ o \in [Mbuf -> Place] /\ At(o, InPool) = At(o1, InPool) \cup {m}
        /\ \A k : k # InBatch /\ k # InPool => At(o, k) = At(o1, k)
    BY <1>5, <1>7, <2>2, Moved
  <2> HIDE DEF o
  <2>4. /\ Holds(o, InReply, Bufs(reply_ring')) /\ pool' = At(o, InPool)
        /\ \A k : k # InBatch /\ k # InPool /\ k # InReply => At(o, k) = At(own, k)
    BY <1>9, <2>3, PlacesDiffer, Zenon DEF Holds
  <2>5. OwnedBy(o)'
    BY <1>1, <1>2, <1>3, <1>9, <2>2, <2>4, PlacesDiffer, Zenon DEF OwnedBy, Holds
  <2> QED  BY <2>3, <2>5, Zenon DEF Owned
<1>10. CASE pool' = pool \cup {m} /\ UNCHANGED <<busy, reply_ring>>
  BY <1>1, <1>9, <1>10, Zenon DEF OwnedBy
<1>11. CASE /\ pool # {} /\ reply_ring' = Append(reply_ring, [mbuf |-> alloc, no |-> rq.no])
            /\ pool' = (pool \ {alloc}) \cup {m} /\ UNCHANGED busy
  <2>1. PICK a \in pool : a = alloc  BY <1>11, Zenon DEF alloc
  <2>2. a \in Mbuf /\ {a} \subseteq At(own, InPool) /\ reply_ring \in Seq(Reply)
    BY <1>0, <1>1, Zenon DEF Shape, OwnedBy
  <2> DEFINE x == [mbuf |-> a, no |-> rq.no]
             o1 == Move(own, Mbufs(<<a>>), InReply)
  <2>3. x \in Reply /\ x.mbuf = a  BY <2>2, Zenon DEF Reply, Message
  <2>4. reply_ring' = reply_ring \o <<x>>  BY <1>11, <2>1, <2>2, <2>3
  <2> HIDE DEF x
  <2>5. /\ Bufs(reply_ring) \in Seq(Mbuf)
        /\ Bufs(reply_ring') = Bufs(reply_ring) \o <<a>>
    <3>1. <<x>> \in Seq(Reply) /\ Bufs(<<x>>) = <<a>>  BY <2>3, Single, Zenon
    <3>2. \A y \in Reply : y.mbuf \in Mbuf  BY Zenon DEF Reply
    <3>3. /\ Bufs(reply_ring \o <<x>>) = Bufs(reply_ring) \o Bufs(<<x>>)
          /\ Bufs(reply_ring) \in Seq(Mbuf)
      BY <2>2, <3>1, <3>2, BufsJoined, Zenon
    <3> QED  BY <2>4, <3>1, <3>3, Zenon
  <2>6. <<a>> \in Seq(Mbuf) /\ Mbufs(<<a>>) = {a} /\ Once(<<a>>)  BY <2>2, Single, Zenon
  <2>7. Holds(own, InReply, Bufs(reply_ring)) /\ Mbufs(<<a>>) \subseteq At(own, InPool)
    BY <1>1, <2>2, <2>6, Zenon DEF OwnedBy
  <2>8. Holds(o1, InReply, Bufs(reply_ring) \o <<a>>)
    BY <1>5, <2>5, <2>6, <2>7, Put, Zenon
  <2>9. /\ o1 \in [Mbuf -> Place] /\ At(o1, InPool) = At(own, InPool) \ {a}
        /\ \A k : k # InPool /\ k # InReply => At(o1, k) = At(own, k)
    BY <1>5, <2>6, <2>7, Moved
  <2> HIDE DEF o1
  <2>10. At(o1, InBatch) = At(own, InBatch)  BY <2>9, PlacesDiffer, Zenon
  <2>11. pool' = (pool \ {a}) \cup {m} /\ At(o1, InPool) = pool \ {a}
    BY <1>1, <1>11, <2>1, <2>9, Zenon DEF OwnedBy
  <2>12. Holds(o1, InReply, Bufs(reply_ring'))  BY <2>5, <2>8, Zenon
  <2> QED  BY <1>9, <1>11, <2>9, <2>10, <2>11, <2>12, Zenon
<1> QED
  BY <1>2, <1>4, <1>8, <1>10, <1>11, Zenon DEF send_reply, handle_packet_cmd

\* free_mbufs: from free_ring to the pool.
LEMMA FreeOwned ==
    ASSUME LinkInv, Owned, free_mbufs
    PROVE  Owned'
<1>0. Shape  BY Zenon DEF LinkInv
<1>1. PICK own \in [Mbuf -> Place] : OwnedBy(own)  BY Zenon DEF Owned
<1>2. PICK f \in Seq(Mbuf), b \in Seq(Mbuf) :
          free_ring = f \o b /\ free_ring' = b /\ pool' = pool \cup Mbufs(f)
  <2> DEFINE n == Least(Burst, Len(free_ring))
             f == SubSeq(free_ring, 1, n)
             b == SubSeq(free_ring, n + 1, Len(free_ring))
  <2>1. free_ring \in Seq(Mbuf) /\ Len(free_ring) <= RingSize
    BY <1>0, Zenon DEF Shape, Fit
  <2>2. f \in Seq(Mbuf) /\ b \in Seq(Mbuf) /\ free_ring = f \o b
    BY <2>1, BurstEffect, ZenonT(30)
  <2>3. Mbufs(f) = {free_ring[i] : i \in 1 .. n}  BY <2>1, BurstEffect, ZenonT(30)
  <2>4. free_ring' = b /\ pool' = pool \cup {free_ring[i] : i \in 1 .. n}
    BY Zenon DEF free_mbufs
  <2> HIDE DEF f, b, n
  <2> QED  BY <2>2, <2>3, <2>4, Zenon
<1>3. UNCHANGED <<busy, alloc_ring, message_ring, reply_ring, packet_ring, thread, dispatcher>>
  BY Zenon DEF free_mbufs
<1>4. core'.batch = core.batch
  BY <1>0, Zenon DEF free_mbufs, Shape, CoreState
<1>5. InFree \in Place /\ InPool \in Place /\ InFree # InPool
  BY PlacesDiffer, Zenon DEF Place
<1>6. Holds(own, InFree, f \o b)  BY <1>1, <1>2, Zenon DEF OwnedBy
<1> DEFINE o == Move(own, Mbufs(f), InPool)
<1>7. Mbufs(f) \subseteq At(own, InFree) /\ Holds(o, InFree, b)
  BY <1>5, <1>6, Taken, Zenon
<1>8. /\ o \in [Mbuf -> Place] /\ At(o, InPool) = At(own, InPool) \cup Mbufs(f)
      /\ \A k : k # InFree /\ k # InPool => At(o, k) = At(own, k)
  BY <1>5, <1>7, Moved
<1> HIDE DEF o
<1>9. OwnedBy(o)'
  BY <1>1, <1>2, <1>3, <1>4, <1>7, <1>8, PlacesDiffer, Zenon DEF OwnedBy, Holds
<1> QED  BY <1>8, <1>9, Zenon DEF Owned

\* fill_alloc_ring: from the pool to alloc_ring.
LEMMA FillOwned ==
    ASSUME Counting, LinkInv, Owned, fill_alloc_ring
    PROVE  Owned'
<1>0. Shape  BY Zenon DEF LinkInv
<1>1. PICK own \in [Mbuf -> Place] : OwnedBy(own)  BY Zenon DEF Owned
<1>2. PICK s \in Seq(Mbuf) :
          /\ alloc_ring' = alloc_ring \o s
          /\ pool' = pool \ Mbufs(s) /\ Mbufs(s) \subseteq pool /\ Once(s)
  BY <1>0, FillEffect, Zenon
<1>3. UNCHANGED <<busy, message_ring, reply_ring, packet_ring, free_ring, thread, dispatcher,
                  core>>
  BY Zenon DEF fill_alloc_ring
<1>4. InAlloc \in Place /\ InPool \in Place /\ InPool # InAlloc
  BY PlacesDiffer, Zenon DEF Place
<1>5. /\ Holds(own, InAlloc, alloc_ring) /\ Mbufs(s) \subseteq At(own, InPool)
      /\ alloc_ring \in Seq(Mbuf)
  BY <1>0, <1>1, <1>2, Zenon DEF OwnedBy, Shape
<1> DEFINE o == Move(own, Mbufs(s), InAlloc)
<1>6. Holds(o, InAlloc, alloc_ring \o s)
  BY <1>2, <1>4, <1>5, Put, Zenon
<1>7. /\ o \in [Mbuf -> Place] /\ At(o, InPool) = At(own, InPool) \ Mbufs(s)
      /\ \A k : k # InPool /\ k # InAlloc => At(o, k) = At(own, k)
  BY <1>4, <1>5, Moved
<1> HIDE DEF o
<1>8. OwnedBy(o)'
  BY <1>1, <1>2, <1>3, <1>6, <1>7, PlacesDiffer, Zenon DEF OwnedBy, Holds
<1> QED  BY <1>7, <1>8, Zenon DEF Owned

\* Initially the pool has all mbufs.
LEMMA OwnedInit == Init => Owned
<1> SUFFICES ASSUME Init PROVE Owned  BY Zenon
<1>1. PICK own \in [Mbuf -> Place] : own = [m \in Mbuf |-> InPool]
  BY Zenon DEF Place
<1>2. At(own, InPool) = Mbuf /\ \A k : k # InPool => At(own, k) = {}
  BY <1>1, Zenon DEF At
<1>3. Once(<<>>) /\ Mbufs(<<>>) = {} /\ Bufs(<<>>) = <<>>
  BY DEF Once, Mbufs, Bufs
<1>4. \A k : k # InPool => Holds(own, k, <<>>)  BY <1>2, <1>3, Zenon DEF Holds
<1>5. /\ pool = Mbuf /\ busy = {} /\ dispatcher = NoMbuf
      /\ alloc_ring = <<>> /\ message_ring = <<>> /\ reply_ring = <<>>
      /\ packet_ring = <<>> /\ free_ring = <<>> /\ core.batch = <<>>
      /\ \A t \in Thread : thread[t].mbufs = <<>>
  BY Zenon DEF Init, NoRequest
<1>6. OwnedBy(own)
  BY <1>2, <1>3, <1>4, <1>5, PlacesDiffer DEF OwnedBy
<1> QED  BY <1>6, Zenon DEF Owned

\* Every step moves mbufs from one place to another.
LEMMA OwnedStep == Counting /\ LinkInv /\ Owned /\ [Next]_vars => Owned'
<1> SUFFICES ASSUME Counting, LinkInv, Owned, [Next]_vars PROVE Owned'  BY Zenon
<1>1. ASSUME UNCHANGED <<pool, busy, alloc_ring, message_ring, reply_ring, packet_ring,
                         free_ring, thread, dispatcher>>, core'.batch = core.batch
      PROVE  Owned'
  <2>1. PICK own \in [Mbuf -> Place] : OwnedBy(own)  BY Zenon DEF Owned
  <2>2. OwnedBy(own)'  BY <1>1, <2>1, Zenon DEF OwnedBy
  <2> QED  BY <2>2, Zenon DEF Owned
<1>2. CASE UNCHANGED vars
  BY <1>1, <1>2, Zenon DEF vars, rings
<1>3. CASE alloc_ring_filled
  <2>1. core'.batch = core.batch
    BY <1>3, Zenon DEF alloc_ring_filled, LinkInv, Shape, CoreState
  <2> QED  BY <1>1, <1>3, <2>1, Zenon DEF alloc_ring_filled, rings
<1>4. CASE \E t \in Thread : Daemon(t)
  BY <1>4, AllocOwned, SendOwned, RecvOwned, EnqueueOwned, Zenon DEF Daemon
<1>5. CASE \E t \in Thread : \E family \in {"flow", "packet"}, n \in 1 .. MaxBulk :
               request(t, family, n)
  BY <1>5, RequestOwned, Zenon
<1>6. CASE Vswitchd
  BY <1>3, <1>6, DequeueOwned, HandleOwned, FreeOwned, FillOwned, Zenon DEF Vswitchd
<1>7. CASE Dispatcher
  BY <1>7, RecvPacketOwned, PacketReadOwned, Zenon DEF Dispatcher
<1> QED  BY <1>2, <1>4, <1>5, <1>6, <1>7, TrafficOwned, Zenon DEF Next

\* The entries of a ring with mbuf m; positions with the name of their ring; a
\* set of one element if Q is true, and of none else.
Entries(s, m) == {j \in DOMAIN s : s[j] = m}
Tag(c, D) == {<<c, i>> : i \in D}
One(A, Q) == IF Q THEN \E p : A = {p} ELSE A = {}

\* An mbuf that own has at k is one entry of the ring at k, and no entry else.
LEMMA OneEntry ==
    ASSUME NEW own \in [Mbuf -> Place], NEW k, NEW s, Holds(own, k, s), NEW m \in Mbuf
    PROVE  One(Entries(s, m), own[m] = k)
<1>1. m \in Mbufs(s) <=> own[m] = k  BY Zenon DEF Holds, At
<1>2. ASSUME own[m] = k PROVE \E i : Entries(s, m) = {i}
  <2>1. PICK i \in DOMAIN s : s[i] = m  BY <1>1, <1>2, Zenon DEF Mbufs
  <2>2. Entries(s, m) = {i}  BY <2>1, Zenon DEF Holds, Once, Entries
  <2> QED  BY <2>2, Zenon
<1>3. ASSUME own[m] # k PROVE Entries(s, m) = {}
  BY <1>1, <1>3, Zenon DEF Mbufs, Entries
<1> QED  BY <1>2, <1>3, Zenon DEF One

\* The name of the ring does not matter ...
LEMMA OneTagged ==
    ASSUME NEW D, NEW c, NEW Q, One(D, Q)
    PROVE  One(Tag(c, D), Q)
<1>1. ASSUME Q PROVE \E p : Tag(c, D) = {p}
  <2>1. PICK i : D = {i}  BY <1>1, Zenon DEF One
  <2>2. Tag(c, D) = {<<c, i>>}  BY <2>1, Zenon DEF Tag
  <2> QED  BY <2>2, Zenon
<1>2. ASSUME ~ Q PROVE Tag(c, D) = {}
  BY <1>2, Zenon DEF One, Tag
<1> QED  BY <1>1, <1>2, Zenon DEF One

\* ... and of two sets only one can have the element.
LEMMA OneOfTwo ==
    ASSUME NEW A, NEW B, NEW P, NEW Q, One(A, P), One(B, Q), ~ (P /\ Q)
    PROVE  One(A \cup B, P \/ Q)
<1>1. CASE P
  <2>1. B = {} /\ \E p : A = {p}  BY <1>1, Zenon DEF One
  <2>2. A \cup B = A  BY <2>1, Zenon
  <2> QED  BY <1>1, <2>1, <2>2, Zenon DEF One
<1>2. CASE ~ P
  <2>1. A = {}  BY <1>2, Zenon DEF One
  <2>2. A \cup B = B  BY <2>1, Zenon
  <2> QED  BY <1>2, <2>2, Zenon DEF One
<1> QED  BY <1>1, <1>2, Zenon

\* The rings of messages and replies have the mbufs of their entries.
LEMMA BufEntries ==
    ASSUME NEW ring, NEW m
    PROVE  {i \in DOMAIN ring : ring[i].mbuf = m} = Entries(Bufs(ring), m)
  BY Zenon DEF Bufs, Entries

\* The positions of m in the hands of the threads.
Hands(m) == {x \in Thread \X (1 .. MaxBulk) :
                /\ x[2] \in DOMAIN thread[x[1]].mbufs
                /\ thread[x[1]].mbufs[x[2]] = m}

\* At most one thread has m, and has it once.
LEMMA OneHand ==
    ASSUME Shape, ThreadInv, NEW own \in [Mbuf -> Place], OwnedBy(own), NEW m \in Mbuf
    PROVE  One(Hands(m), own[m] \in {InThread(t) : t \in Thread})
<1> DEFINE E(t) == Entries(thread[t].mbufs, m)
<1>1. \A t \in Thread : One(E(t), own[m] = InThread(t))
  <2>1. \A t \in Thread : Holds(own, InThread(t), thread[t].mbufs)  BY Zenon DEF OwnedBy
  <2> QED  BY <2>1, OneEntry, Zenon
<1>2. \A t \in Thread : E(t) \subseteq 1 .. MaxBulk
  <2> TAKE t \in Thread
  <2>1. thread[t].mbufs \in Seq(Mbuf)  BY Fields, Zenon
  <2>2. Len(thread[t].mbufs) <= MaxBulk  BY Zenon DEF ThreadInv, ThreadOK
  <2> QED  BY <2>1, <2>2, LinkAssumption DEF Entries
<1>3. /\ \A u \in Thread, j \in 1 .. MaxBulk : <<u, j>> \in Hands(m) <=> j \in E(u)
      /\ \A x \in Hands(m) : \E u \in Thread, j \in 1 .. MaxBulk : x = <<u, j>>
  BY DEF Hands, Entries
<1> HIDE DEF E
<1>4. ASSUME NEW t \in Thread, own[m] = InThread(t) PROVE \E x : Hands(m) = {x}
  <2>1. PICK i : E(t) = {i}  BY <1>1, <1>4, Zenon DEF One
  <2>2. \A u \in Thread : u # t => E(u) = {}
    <3> TAKE u \in Thread
    <3> HAVE u # t
    <3>1. own[m] # InThread(u)  BY <1>4, PlacesDiffer, Zenon
    <3> QED  BY <1>1, <3>1, Zenon DEF One
  <2>3. Hands(m) = {<<t, i>>}  BY <1>2, <1>3, <2>1, <2>2
  <2> QED  BY <2>3, Zenon
<1>5. ASSUME \A t \in Thread : own[m] # InThread(t) PROVE Hands(m) = {}
  <2>1. \A u \in Thread : E(u) = {}  BY <1>1, <1>5, Zenon DEF One
  <2> QED  BY <1>3, <2>1
<1> QED  BY <1>4, <1>5, Zenon DEF One

\* Places and own agree.
LEMMA OnePlace ==
    ASSUME Shape, ThreadInv, NEW own \in [Mbuf -> Place], OwnedBy(own), NEW m \in Mbuf
    PROVE  \E p : Places(m) = {p}
<1> DEFINE A1 == {<<"pool", 0>> : x \in {m} \cap pool}
           A2 == {<<"busy", 0>> : x \in {m} \cap busy}
           A3 == Tag("alloc", Entries(alloc_ring, m))
           A4 == Tag("message", Entries(Bufs(message_ring), m))
           A5 == Tag("reply", Entries(Bufs(reply_ring), m))
           A6 == Tag("packet", Entries(packet_ring, m))
           A7 == Tag("free", Entries(free_ring, m))
           A8 == Tag("batch", Entries(Bufs(core.batch), m))
           A9 == Tag("thread", Hands(m))
           A10 == {<<"dispatcher", 0>> : x \in {m} \cap {dispatcher}}
           o == own[m]
           H == {InThread(t) : t \in Thread}
<1>0. Places(m) = A1 \cup A2 \cup A3 \cup A4 \cup A5 \cup A6 \cup A7 \cup A8 \cup A9 \cup A10
  <2>1. /\ A3 = {<<"alloc", i>> : i \in {i \in DOMAIN alloc_ring : alloc_ring[i] = m}}
        /\ A6 = {<<"packet", i>> : i \in {i \in DOMAIN packet_ring : packet_ring[i] = m}}
        /\ A7 = {<<"free", i>> : i \in {i \in DOMAIN free_ring : free_ring[i] = m}}
    BY Zenon DEF Tag, Entries
  <2>2. A4 = {<<"message", i>> : i \in {i \in DOMAIN message_ring : message_ring[i].mbuf = m}}
    BY BufEntries, Zenon DEF Tag
  <2>3. A5 = {<<"reply", i>> : i \in {i \in DOMAIN reply_ring : reply_ring[i].mbuf = m}}
    BY BufEntries, Zenon DEF Tag
  <2>4. A8 = {<<"batch", i>> : i \in {i \in DOMAIN core.batch : core.batch[i].mbuf = m}}
    BY BufEntries, Zenon DEF Tag
  <2>5. A9 = {<<"thread", x>> : x \in {x \in Thread \X (1 .. MaxBulk) :
                  /\ x[2] \in DOMAIN thread[x[1]].mbufs
                  /\ thread[x[1]].mbufs[x[2]] = m}}
    BY Zenon DEF Tag, Hands
  <2> HIDE DEF A3, A4, A5, A6, A7, A8, A9
  <2> QED  BY <2>1, <2>2, <2>3, <2>4, <2>5, Zenon DEF Places
<1>1. One(A1, o = InPool)
  <2>1. m \in pool <=> o = InPool  BY Zenon DEF OwnedBy, At
  <2> QED  BY <2>1, Zenon DEF One
<1>2. One(A2, o = InBusy)
  <2>1. m \in busy <=> o = InBusy  BY Zenon DEF OwnedBy, At
  <2> QED  BY <2>1, Zenon DEF One
<1>3. /\ One(A3, o = InAlloc) /\ One(A4, o = InMessage) /\ One(A5, o = InReply)
      /\ One(A6, o = InPacket) /\ One(A7, o = InFree) /\ One(A8, o = InBatch)
  BY OneEntry, OneTagged, Zenon DEF OwnedBy
<1>9. One(A9, o \in H)
  BY OneHand, OneTagged, Zenon
<1>10. One(A10, o = InDispatcher)
  <2>1. m = dispatcher <=> o = InDispatcher
    BY LinkAssumption, Zenon DEF OwnedBy, At
  <2> QED  BY <2>1, Zenon DEF One
<1>11. \/ o \in {InPool, InBusy, InAlloc, InMessage, InReply, InPacket, InFree, InBatch,
                 InDispatcher}
       \/ o \in H
  BY Zenon DEF Place
<1>12. o \in H => o \notin {InPool, InBusy, InAlloc, InMessage, InReply, InPacket, InFree,
                           InBatch, InDispatcher}
  BY PlacesDiffer, Zenon
<1> HIDE DEF A1, A2, A3, A4, A5, A6, A7, A8, A9, A10, o, H
<1> DEFINE U == A9 \cup A10
<1>13. One(A1 \cup A2, o = InPool \/ o = InBusy)
  BY <1>1, <1>2, PlacesDiffer, OneOfTwo, Zenon
<1>14. One(A3 \cup A4, o = InAlloc \/ o = InMessage)
  BY <1>3, PlacesDiffer, OneOfTwo, Zenon
<1>15. One(A5 \cup A6, o = InReply \/ o = InPacket)
  BY <1>3, PlacesDiffer, OneOfTwo, Zenon
<1>16. One(A7 \cup A8, o = InFree \/ o = InBatch)
  BY <1>3, PlacesDiffer, OneOfTwo, Zenon
<1>17. One(U, o \in H \/ o = InDispatcher)
  <2>1. ~ (o = InDispatcher /\ o \in H)  BY <1>12, Zenon
  <2>2. One(A10 \cup A9, o = InDispatcher \/ o \in H)
    BY <1>9, <1>10, <2>1, OneOfTwo, Zenon
  <2>3. A10 \cup A9 = U  BY Zenon
  <2> QED  BY <2>2, <2>3, Zenon DEF One
<1> HIDE DEF U
<1> DEFINE P == o = InPool \/ o = InBusy
           Q == o = InAlloc \/ o = InMessage
           R == o = InReply \/ o = InPacket
           V == o = InFree \/ o = InBatch
           W == o \in H \/ o = InDispatcher
<1>18. /\ ~ (P /\ Q) /\ ~ ((P \/ Q) /\ R) /\ ~ ((P \/ Q \/ R) /\ V)
       /\ ~ ((P \/ Q \/ R \/ V) /\ W) /\ (P \/ Q \/ R \/ V \/ W)
  BY <1>11, <1>12, PlacesDiffer, Zenon
<1>19. Places(m) = ((((A1 \cup A2) \cup (A3 \cup A4)) \cup (A5 \cup A6)) \cup (A7 \cup A8)) \cup U
  BY <1>0, Zenon DEF U
<1> DEFINE S == (A1 \cup A2) \cup (A3 \cup A4)
           T == S \cup (A5 \cup A6)
           X == T \cup (A7 \cup A8)
<1> HIDE DEF P, Q, R, V, W
<1>20. One(S, P \/ Q)  BY <1>13, <1>14, <1>18, OneOfTwo, Zenon DEF P, Q
<1>21. One(T, (P \/ Q) \/ R)  BY <1>15, <1>18, <1>20, OneOfTwo, Zenon DEF R
<1>22. One(X, ((P \/ Q) \/ R) \/ V)  BY <1>16, <1>18, <1>21, OneOfTwo, Zenon DEF V
<1>23. One(X \cup U, (((P \/ Q) \/ R) \/ V) \/ W)
  BY <1>17, <1>18, <1>22, OneOfTwo, Zenon DEF W
<1> QED  BY <1>18, <1>19, <1>23, Zenon DEF One
-----------------------------------------------------------------------------
(* What becomes of packets *)

\* How many entries of two rings, one behind the other, are in M.
LEMMA CountJoined ==
    ASSUME Counting, NEW S, NEW s \in Seq(S), NEW r \in Seq(S), NEW M
    PROVE  /\ Count(s, M) \in Nat /\ Count(s, M) <= Len(s)
           /\ Count(s \o r, M) = Count(s, M) + Count(r, M)
<1>1. \A T, N : \A x, y \in Seq(T) :
          /\ Count(x, N) \in Nat /\ Count(x, N) <= Len(x)
          /\ Count(x \o y, N) = Count(x, N) + Count(y, N)
  BY Zenon DEF Counting
<1> QED  BY <1>1, Zenon

\* The same for a ring with one entry.
LEMMA CountSingle ==
    ASSUME Counting, NEW x, NEW M
    PROVE  Count(<<x>>, M) = IF x \in M THEN 1 ELSE 0
  BY Zenon DEF Counting

\* A ring with all of its entries in M, or with none.
LEMMA CountAll ==
    ASSUME Counting, NEW S, NEW s \in Seq(S), NEW M
    PROVE  /\ (\A i \in 1 .. Len(s) : s[i] \in M) => Count(s, M) = Len(s)
           /\ Count(s, M) = 0 <=> \A i \in 1 .. Len(s) : s[i] \notin M
  BY Zenon DEF Counting

\* And an empty ring.
LEMMA CountNone ==
    ASSUME Counting, NEW M
    PROVE  Count(<<>>, M) = 0
<1>1. <<>> \in Seq(Message) /\ \A i \in 1 .. Len(<<>>) : <<>>[i] \notin M  OBVIOUS
<1> QED  BY <1>1, CountAll, Zenon

\* Which messages are packets of request r.
LEMMA PacketsOfWhich ==
    ASSUME NEW r, NEW x \in Message
    PROVE  x \in PacketsOf(r) <=> x.family = "packet" /\ x.no = r
<1>1. x.mbuf \in Mbuf /\ x = [mbuf |-> x.mbuf, family |-> x.family, no |-> x.no]
  BY Zenon DEF Message
<1> QED  BY <1>1, Zenon DEF PacketsOf

\* dpdk_link_send puts all packets of the request in the ring, or none.
LEMMA SendAll ==
    ASSUME Counting, LinkInv, AllOrNothing, NEW t \in Thread, dpdk_link_send(t)
    PROVE  AllOrNothing'
<1>0. Shape /\ Past /\ ThreadInv  BY Zenon DEF LinkInv
<1>1. /\ thread[t].step = "send" /\ UNCHANGED <<core, executed>>
      /\ ThreadOK(thread[t], requests, accepted)
  BY <1>0, Zenon DEF dpdk_link_send, ThreadInv
<1>2. thread[t].no \in 1 .. MaxRequest /\ accepted[thread[t].no] = 0
  <2>1. thread[t].no \in 1 .. requests /\ accepted[thread[t].no] = 0  BY <1>1, Zenon DEF ThreadOK
  <2>2. requests \in 0 .. MaxRequest  BY <1>0, Zenon DEF Past
  <2> QED  BY <2>1, <2>2, LinkAssumption
<1>3. CASE UNCHANGED <<message_ring, accepted>>
  BY <1>1, <1>3, Zenon DEF AllOrNothing
<1>4. CASE \E q \in Seq(Message) :
               /\ message_ring' = message_ring \o q
               /\ Len(q) = thread[t].n
               /\ \A i \in 1 .. Len(q) : /\ q[i].family = thread[t].family
                                         /\ q[i].no = thread[t].no
               /\ accepted' = [accepted EXCEPT ![thread[t].no] =
                      IF thread[t].family = "flow" THEN 0 ELSE thread[t].n]
  <2>1. PICK q \in Seq(Message) :
               /\ message_ring' = message_ring \o q
               /\ Len(q) = thread[t].n
               /\ \A i \in 1 .. Len(q) : /\ q[i].family = thread[t].family
                                         /\ q[i].no = thread[t].no
               /\ accepted' = [accepted EXCEPT ![thread[t].no] =
                      IF thread[t].family = "flow" THEN 0 ELSE thread[t].n]
    BY <1>4, Zenon
  <2> SUFFICES ASSUME NEW r \in 1 .. MaxRequest
               PROVE  executed[r] + Count(message_ring', PacketsOf(r))
                          + Count(core.batch, PacketsOf(r)) = accepted'[r]
    BY <1>1, Zenon DEF AllOrNothing
  <2> DEFINE M == PacketsOf(r)
  <2>2. /\ message_ring \in Seq(Message) /\ core.batch \in Seq(Message)
        /\ executed[r] \in Nat /\ accepted[r] \in Nat
        /\ thread[t].n \in Nat /\ thread[t].family \in {"flow", "packet"}
    <3>1. message_ring \in Seq(Message)  BY <1>0, Zenon DEF Shape
    <3>2. executed[r] \in Nat /\ accepted[r] \in Nat
      BY <1>0, LinkAssumption DEF Past
    <3>3. /\ core.batch \in Seq(Message) /\ thread[t].n \in 0 .. MaxBulk
          /\ thread[t].family \in {"flow", "packet"}
      BY <1>0, Fields, Zenon
    <3> QED  BY <3>1, <3>2, <3>3, LinkAssumption
  <2>3. executed[r] + Count(message_ring, M) + Count(core.batch, M) = accepted[r]
    BY Zenon DEF AllOrNothing
  <2>4. /\ Count(message_ring, M) \in Nat /\ Count(core.batch, M) \in Nat
        /\ Count(message_ring \o q, M) = Count(message_ring, M) + Count(q, M)
    <3>1. /\ Count(message_ring, M) \in Nat
          /\ Count(message_ring \o q, M) = Count(message_ring, M) + Count(q, M)
      BY <2>2, CountJoined, Zenon
    <3>2. Count(core.batch, M) \in Nat  BY <2>2, CountJoined, Zenon
    <3> QED  BY <3>1, <3>2, Zenon
  <2>5. Count(q, M) = IF thread[t].family = "packet" /\ thread[t].no = r THEN thread[t].n ELSE 0
    <3>1. \A i \in 1 .. Len(q) : q[i] \in M
                                   <=> thread[t].family = "packet" /\ thread[t].no = r
      <4> TAKE i \in 1 .. Len(q)
      <4>1. q[i] \in Message  OBVIOUS
      <4>2. q[i] \in PacketsOf(r) <=> q[i].family = "packet" /\ q[i].no = r
        BY <4>1, PacketsOfWhich, Zenon
      <4>3. q[i].family = thread[t].family /\ q[i].no = thread[t].no  BY <2>1, Zenon
      <4> QED  BY <4>2, <4>3, Zenon
    <3> HIDE DEF M
    <3>2. /\ (\A i \in 1 .. Len(q) : q[i] \in M) => Count(q, M) = Len(q)
          /\ (\A i \in 1 .. Len(q) : q[i] \notin M) => Count(q, M) = 0
      BY CountAll, Zenon
    <3> QED  BY <2>1, <3>1, <3>2, Zenon
  <2>6. accepted'[r] = IF thread[t].no # r THEN accepted[r]
                       ELSE IF thread[t].family = "flow" THEN 0 ELSE thread[t].n
    BY <1>0, <2>1, Zenon DEF Past
  <2> HIDE DEF M
  <2>7. Count(message_ring', M) = Count(message_ring, M) + Count(q, M)  BY <2>1, <2>4, Zenon
  <2>8. executed[r] + Count(message_ring', M) + Count(core.batch, M) = accepted'[r]
    <3>1. CASE thread[t].no # r
      <4>1. Count(q, M) = 0 /\ accepted'[r] = accepted[r]  BY <2>5, <2>6, <3>1, Zenon
      <4> QED  BY <2>2, <2>3, <2>4, <2>7, <4>1
    <3>2. CASE thread[t].no = r
      <4>1. Count(q, M) = accepted'[r]  BY <2>2, <2>5, <2>6, <3>2, Zenon
      <4>2. accepted[r] = 0  BY <1>2, <3>2, Zenon
      <4>3. \A e, m, b, k \in Nat : e + m + b = 0 => e + (m + k) + b = k  OBVIOUS
      <4>4. Count(q, M) \in Nat  BY CountJoined, Zenon
      <4> QED  BY <2>2, <2>3, <2>4, <2>7, <4>1, <4>2, <4>3, <4>4, Zenon
    <3> QED  BY <3>1, <3>2, Zenon
  <2> QED  BY <2>8, Zenon DEF M
<1> QED  BY <1>0, <1>3, <1>4, SendEffect, Zenon

\* dequeue_messages takes packets to the burst.
LEMMA DequeueAll ==
    ASSUME Counting, LinkInv, AllOrNothing, dequeue_messages
    PROVE  AllOrNothing'
<1>0. Shape  BY Zenon DEF LinkInv
<1>1. PICK f \in Seq(Message), b \in Seq(Message) :
          message_ring = f \o b /\ core'.batch = f /\ message_ring' = b
  BY <1>0, DequeueEffect, Zenon
<1>2. core.batch = <<>> /\ UNCHANGED <<executed, accepted>>
  BY Zenon DEF dequeue_messages, past
<1> SUFFICES ASSUME NEW r \in 1 .. MaxRequest
             PROVE  executed[r] + Count(b, PacketsOf(r)) + Count(f, PacketsOf(r)) = accepted[r]
  BY <1>1, <1>2, Zenon DEF AllOrNothing
<1> DEFINE M == PacketsOf(r)
<1>3. executed[r] + Count(message_ring, M) + Count(core.batch, M) = accepted[r]
  BY Zenon DEF AllOrNothing
<1>4. Count(f, M) \in Nat /\ Count(f \o b, M) = Count(f, M) + Count(b, M)
  BY CountJoined, Zenon
<1>5. Count(b, M) \in Nat  BY CountJoined, Zenon
<1>6. Count(<<>>, M) = 0  BY CountNone, Zenon
<1>7. executed[r] \in Nat  BY Zenon DEF LinkInv, Past
<1> HIDE DEF M
<1>8. executed[r] + Count(f \o b, M) + 0 = accepted[r]  BY <1>1, <1>2, <1>3, <1>6, Zenon
<1>9. executed[r] + Count(b, M) + Count(f, M) = accepted[r]
  BY <1>4, <1>5, <1>7, <1>8
<1> QED  BY <1>9, Zenon DEF M

\* handle_vswitchd_cmd executes a packet.
LEMMA HandleAll ==
    ASSUME Counting, LinkInv, AllOrNothing, handle_vswitchd_cmd
    PROVE  AllOrNothing'
<1>0. Shape /\ Past  BY Zenon DEF LinkInv
<1>1. PICK rq \in Message, b \in Seq(Message) :
          /\ core.batch = <<rq>> \o b /\ core'.batch = b
          /\ \/ rq.family = "flow" /\ send_reply(rq)
             \/ rq.family = "packet" /\ handle_packet_cmd(rq)
  BY <1>0, HandleEffect, Zenon
<1>2. UNCHANGED <<message_ring, accepted>>  BY Zenon DEF handle_vswitchd_cmd
<1> SUFFICES ASSUME NEW r \in 1 .. MaxRequest
             PROVE  executed'[r] + Count(message_ring, PacketsOf(r)) + Count(b, PacketsOf(r))
                        = accepted[r]
  BY <1>1, <1>2, Zenon DEF AllOrNothing
<1> DEFINE M == PacketsOf(r)
<1>3. executed[r] + Count(message_ring, M) + Count(core.batch, M) = accepted[r]
  BY Zenon DEF AllOrNothing
<1>4. rq \in M <=> rq.family = "packet" /\ rq.no = r  BY PacketsOfWhich, Zenon
<1>5. executed \in [1 .. MaxRequest -> Nat] /\ rq.no \in 1 .. MaxRequest
  BY <1>0, Fields, Zenon DEF Past
<1> HIDE DEF M
<1>6. <<rq>> \in Seq(Message)  BY Single, Zenon
<1>7. Count(<<rq>> \o b, M) = Count(<<rq>>, M) + Count(b, M)
  BY <1>6, CountJoined, Zenon
<1>8. Count(b, M) \in Nat  BY CountJoined, Zenon
<1>9. Count(<<rq>>, M) = IF rq \in M THEN 1 ELSE 0  BY CountSingle, Zenon
<1>10. Count(message_ring, M) \in Nat
  <2>1. message_ring \in Seq(Message)  BY <1>0, Zenon DEF Shape
  <2> QED  BY <2>1, CountJoined, Zenon
<1>11. executed'[r] = executed[r] + Count(<<rq>>, M)
  <2>1. CASE rq.family = "flow" /\ send_reply(rq)
    BY <1>4, <1>5, <1>9, <2>1, SMTT(30) DEF send_reply
  <2>2. CASE rq.family = "packet" /\ handle_packet_cmd(rq)
    <3>1. executed' = [executed EXCEPT ![rq.no] = executed[rq.no] + 1]
      BY <2>2, Zenon DEF handle_packet_cmd
    <3> QED  BY <1>4, <1>5, <1>9, <2>2, <3>1
  <2> QED  BY <1>1, <2>1, <2>2, Zenon
<1>12. executed[r] + Count(message_ring, M) + (Count(<<rq>>, M) + Count(b, M)) = accepted[r]
  BY <1>1, <1>3, <1>7, Zenon
<1>13. Count(<<rq>>, M) \in Nat /\ executed[r] \in Nat  BY <1>5, <1>9
<1>14. executed'[r] + Count(message_ring, M) + Count(b, M) = accepted[r]
  BY <1>8, <1>10, <1>11, <1>12, <1>13
<1> QED  BY <1>14, Zenon DEF M

\* Initially there are none.
LEMMA AllInit == Counting /\ Init => AllOrNothing
<1> SUFFICES ASSUME Counting, Init, NEW r \in 1 .. MaxRequest
             PROVE  executed[r] + Count(message_ring, PacketsOf(r))
                        + Count(core.batch, PacketsOf(r)) = accepted[r]
  BY Zenon DEF AllOrNothing
<1>1. /\ message_ring = <<>> /\ core.batch = <<>> /\ executed[r] = 0 /\ accepted[r] = 0
  BY Zenon DEF Init
<1>2. Count(<<>>, PacketsOf(r)) = 0  BY CountNone, Zenon
<1> QED  BY <1>1, <1>2

\* Every step keeps the number of packets.
LEMMA AllStep == Counting /\ LinkInv /\ AllOrNothing /\ [Next]_vars => AllOrNothing'
<1> SUFFICES ASSUME Counting, LinkInv, AllOrNothing, [Next]_vars PROVE AllOrNothing'  BY Zenon
<1>1. CASE UNCHANGED <<message_ring, executed, accepted>> /\ core'.batch = core.batch
  BY <1>1, Zenon DEF AllOrNothing
<1>2. core.batch = [core EXCEPT !.step = "alloc"].batch
      /\ core.batch = [core EXCEPT !.step = "message"].batch
  BY Zenon DEF LinkInv, Shape, CoreState
<1>3. CASE UNCHANGED vars  BY <1>1, <1>3, Zenon DEF vars, rings, past
<1>4. ASSUME NEW t \in Thread, Daemon(t) PROVE AllOrNothing'
  <2>1. CASE alloc_mbufs(t)  BY <1>1, <2>1, Zenon DEF alloc_mbufs, past
  <2>2. CASE dpdk_link_recv_reply(t)  BY <1>1, <2>2, Zenon DEF dpdk_link_recv_reply, past
  <2>3. CASE enqueue_mbufs_to_be_freed(t)
    BY <1>1, <2>3, Zenon DEF enqueue_mbufs_to_be_freed, past
  <2> QED  BY <1>4, <2>1, <2>2, <2>3, SendAll, Zenon DEF Daemon
<1>5. ASSUME NEW t \in Thread, NEW family, NEW n, request(t, family, n) PROVE AllOrNothing'
  BY <1>1, <1>5, Zenon DEF request, rings
<1>6. CASE Vswitchd
  <2>1. CASE free_mbufs  BY <1>1, <1>2, <2>1, Zenon DEF free_mbufs, past
  <2>2. CASE fill_alloc_ring  BY <1>1, <2>2, Zenon DEF fill_alloc_ring, past
  <2>3. CASE alloc_ring_filled  BY <1>1, <1>2, <2>3, Zenon DEF alloc_ring_filled, rings, past
  <2> QED  BY <1>6, <2>1, <2>2, <2>3, DequeueAll, HandleAll, Zenon DEF Vswitchd
<1>7. CASE Dispatcher
  BY <1>1, <1>7, Zenon DEF Dispatcher, dpdk_link_recv_packet, packet_read, past
<1>8. CASE Traffic
  BY <1>1, <1>8, Zenon DEF Traffic, receive_packet, transmit_packet, send_packet_to_vswitchd,
                    rings, past
<1> QED  BY <1>3, <1>4, <1>5, <1>6, <1>7, <1>8, Zenon DEF Next

-----------------------------------------------------------------------------
(* Whose reply a thread reads *)

\* A thread waits for the reply to request r.
Awaited(r) == \E t \in Thread : thread[t].step = "recv" /\ thread[t].no = r

\* At most one thread waits; what is on the way is one request or one reply, of
\* the thread that waits; the replies read so far were the right ones.
Calm ==
    /\ \A t, u \in Thread : thread[t].step = "recv" /\ thread[u].step = "recv" => t = u
    /\ \A x \in Mbufs(message_ring) : x.family = "flow" => Awaited(x.no)
    /\ \A x \in Mbufs(core.batch) : x.family = "flow" => Awaited(x.no)
    /\ \A x \in Mbufs(reply_ring) : Awaited(x.no)
    /\ Count(message_ring, FlowMessage) + Count(core.batch, FlowMessage) + Len(reply_ring) <= 1
    /\ \A t \in Thread : thread[t].got # 0 => thread[t].got = thread[t].no

\* So it is as long as no two threads have waited at a time.
ReplyInv == "overlap" \notin events => Calm

\* Which messages are not of packets.
LEMMA FlowWhich ==
    ASSUME NEW x \in Message
    PROVE  x \in FlowMessage <=> x.family = "flow"
<1>1. /\ x.mbuf \in Mbuf /\ x.no \in 1 .. MaxRequest
      /\ x = [mbuf |-> x.mbuf, family |-> x.family, no |-> x.no]
  BY Zenon DEF Message
<1> QED  BY <1>1, Zenon DEF FlowMessage

\* A ring without a message of a flow counts none, and conversely.
LEMMA NoFlow ==
    ASSUME Counting, NEW s \in Seq(Message)
    PROVE  Count(s, FlowMessage) = 0 <=> \A x \in Mbufs(s) : x.family # "flow"
<1>1. DOMAIN s = 1 .. Len(s) /\ \A i \in DOMAIN s : s[i] \in Message  OBVIOUS
<1>2. (\A i \in 1 .. Len(s) : s[i] \notin FlowMessage)
          <=> \A x \in Mbufs(s) : x.family # "flow"
  BY <1>1, FlowWhich, Zenon DEF Mbufs
<1> QED  BY <1>2, CountAll, Zenon

\* The counts are numbers.
LEMMA CountTypes ==
    ASSUME Counting, Shape
    PROVE  /\ Count(message_ring, FlowMessage) \in Nat
           /\ Count(core.batch, FlowMessage) \in Nat /\ Len(reply_ring) \in Nat
<1>1. /\ message_ring \in Seq(Message) /\ reply_ring \in Seq(Reply)
      /\ core.batch \in Seq(Message)
  BY Fields, Zenon DEF Shape
<1>2. Count(message_ring, FlowMessage) \in Nat  BY <1>1, CountJoined, Zenon
<1>3. Count(core.batch, FlowMessage) \in Nat  BY <1>1, CountJoined, Zenon
<1> QED  BY <1>1, <1>2, <1>3

\* A thread goes on that does not wait and will not.
LEMMA OthersWait ==
    ASSUME Shape, Calm, NEW t \in Thread, NEW s, thread' = [thread EXCEPT ![t] = s],
           thread[t].step # "recv", s.step # "recv", s.got # 0 => s.got = s.no
    PROVE  /\ \A u, v \in Thread : thread'[u].step = "recv" /\ thread'[v].step = "recv" => u = v
           /\ \A u \in Thread : thread'[u].got # 0 => thread'[u].got = thread'[u].no
           /\ \A r : Awaited(r) => Awaited(r)'
<1>1. thread'[t] = s /\ \A u \in Thread : u # t => thread'[u] = thread[u]
  BY Zenon DEF Shape
<1>2. \A u, v \in Thread : thread'[u].step = "recv" /\ thread'[v].step = "recv" => u = v
  BY <1>1 DEF Calm
<1>3. \A u \in Thread : thread'[u].got # 0 => thread'[u].got = thread'[u].no
  BY <1>1, Zenon DEF Calm
<1>4. \A r : Awaited(r) => Awaited(r)'
  BY <1>1, Zenon DEF Awaited
<1> QED  BY <1>2, <1>3, <1>4, Zenon

\* dpdk_link_send, to which no other thread waits when it sends a flow request.
LEMMA SendReply ==
    ASSUME Counting, LinkInv, ReplyInv, NEW t \in Thread, dpdk_link_send(t)
    PROVE  ReplyInv'
<1>0. Shape /\ Past /\ ThreadInv  BY Zenon DEF LinkInv
<1>1. /\ thread[t].step = "send" /\ UNCHANGED <<core, reply_ring>>
      /\ ThreadOK(thread[t], requests, accepted)
  BY <1>0, Zenon DEF dpdk_link_send, ThreadInv
<1>2. SUFFICES ASSUME "overlap" \notin events' PROVE Calm'
  BY Zenon DEF ReplyInv
<1>3. /\ message_ring \in Seq(Message) /\ core.batch \in Seq(Message) /\ reply_ring \in Seq(Reply)
  BY <1>0, Fields, Zenon DEF Shape
<1>4. thread[t].step # "recv"  BY <1>1, Zenon
<1>5. CASE /\ thread' = [thread EXCEPT ![t] =
                   With(thread[t], "free", thread[t].mbufs, thread[t].got)]
           /\ UNCHANGED <<message_ring, events>>
  <2> DEFINE s == With(thread[t], "free", thread[t].mbufs, thread[t].got)
  <2>1. Calm  BY <1>2, <1>5, Zenon DEF ReplyInv
  <2>2. s.step = "free" /\ s.got = thread[t].got /\ s.no = thread[t].no  BY Zenon DEF With
  <2>3. thread' = [thread EXCEPT ![t] = s]  BY <1>5, Zenon
  <2> HIDE DEF s
  <2>4. s.got # 0 => s.got = s.no  BY <2>1, <2>2, Zenon DEF Calm
  <2>5. s.step # "recv"  BY <2>2, Zenon
  <2>6. /\ \A u, v \in Thread : thread'[u].step = "recv" /\ thread'[v].step = "recv" => u = v
        /\ \A u \in Thread : thread'[u].got # 0 => thread'[u].got = thread'[u].no
        /\ \A r : Awaited(r) => Awaited(r)'
    BY <1>0, <1>4, <2>1, <2>3, <2>4, <2>5, OthersWait, Zenon
  <2> QED  BY <1>1, <1>5, <2>1, <2>6, Zenon DEF Calm
<1>6. ASSUME NEW q \in Seq(Message), message_ring' = message_ring \o q, Len(q) = thread[t].n,
             \A i \in 1 .. Len(q) : q[i].family = thread[t].family /\ q[i].no = thread[t].no,
             thread' = [thread EXCEPT ![t] =
                 IF thread[t].family = "flow"
                 THEN With(thread[t], "recv", <<>>, thread[t].got) ELSE NoRequest],
             Note("overlap", /\ thread[t].family = "flow"
                             /\ \E u \in Thread : thread[u].step = "recv")
      PROVE  Calm'
  <2>1. /\ "overlap" \notin events
        /\ thread[t].family = "flow" => \A u \in Thread : thread[u].step # "recv"
    BY <1>2, <1>6, Zenon DEF Note
  <2>2. Calm  BY <2>1, Zenon DEF ReplyInv
  <2>3. /\ Mbufs(message_ring') = Mbufs(message_ring) \cup Mbufs(q)
        /\ Count(message_ring', FlowMessage)
               = Count(message_ring, FlowMessage) + Count(q, FlowMessage)
    <3>1. Mbufs(message_ring \o q) = Mbufs(message_ring) \cup Mbufs(q)
      BY <1>3, Joined
    <3>2. Count(message_ring \o q, FlowMessage)
              = Count(message_ring, FlowMessage) + Count(q, FlowMessage)
      BY <1>3, CountJoined, Zenon
    <3> QED  BY <1>6, <3>1, <3>2, Zenon
  <2>4. \A x \in Mbufs(q) : x.family = thread[t].family /\ x.no = thread[t].no
    BY <1>6 DEF Mbufs
  <2>5. thread[t].family \in {"flow", "packet"}  BY <1>0, Fields, Zenon
  <2>6. CASE thread[t].family = "packet"
    <3>1. thread' = [thread EXCEPT ![t] = NoRequest]  BY <1>6, <2>6, Zenon
    <3>2. NoRequest.step # "recv" /\ (NoRequest.got # 0 => NoRequest.got = NoRequest.no)
      BY Zenon DEF NoRequest
    <3>3. /\ \A u, v \in Thread : thread'[u].step = "recv" /\ thread'[v].step = "recv" => u = v
          /\ \A u \in Thread : thread'[u].got # 0 => thread'[u].got = thread'[u].no
          /\ \A r : Awaited(r) => Awaited(r)'
      BY <1>0, <1>4, <2>2, <3>1, <3>2, OthersWait, Zenon
    <3>4. \A x \in Mbufs(q) : x.family # "flow"  BY <2>4, <2>6, Zenon
    <3>5. Count(q, FlowMessage) = 0  BY <3>4, NoFlow, Zenon
    <3>6. Count(message_ring', FlowMessage) = Count(message_ring, FlowMessage)
      <4>1. Count(message_ring, FlowMessage) \in Nat  BY <1>0, CountTypes, Zenon
      <4> QED  BY <2>3, <3>5, <4>1
    <3>7. \A x \in Mbufs(message_ring') : x.family = "flow" => Awaited(x.no)'
      BY <2>2, <2>3, <3>3, <3>4, Zenon DEF Calm
    <3> QED  BY <1>1, <2>2, <3>3, <3>6, <3>7, Zenon DEF Calm
  <2>7. CASE thread[t].family = "flow"
    <3> DEFINE s == With(thread[t], "recv", <<>>, thread[t].got)
    <3>1. thread' = [thread EXCEPT ![t] = s]  BY <1>6, <2>7, Zenon
    <3>2. s.step = "recv" /\ s.got = thread[t].got /\ s.no = thread[t].no  BY Zenon DEF With
    <3>3. thread'[t] = s /\ \A u \in Thread : u # t => thread'[u] = thread[u]
      BY <1>0, <3>1, Zenon DEF Shape
    <3> HIDE DEF s
    <3>4. \A r : ~ Awaited(r)  BY <2>1, <2>7, Zenon DEF Awaited
    <3>5. /\ \A x \in Mbufs(message_ring) : x.family # "flow"
          /\ \A x \in Mbufs(core.batch) : x.family # "flow"
          /\ \A x \in Mbufs(reply_ring) : FALSE
      BY <2>2, <3>4, Zenon DEF Calm
    <3>6. Count(message_ring, FlowMessage) = 0 /\ Count(core.batch, FlowMessage) = 0
      BY <1>3, <3>5, NoFlow, Zenon
    <3>7. reply_ring = <<>>
      <4>1. DOMAIN reply_ring = {}  BY <3>5, Zenon DEF Mbufs
      <4> QED  BY <1>3, <4>1
    <3>8. Count(q, FlowMessage) = 1
      <4>1. thread[t].n = 1  BY <1>1, <2>7, Zenon DEF ThreadOK
      <4>2. \A i \in 1 .. Len(q) : q[i] \in FlowMessage
        BY <1>6, <2>7, FlowWhich
      <4> QED  BY <1>6, <4>1, <4>2, CountAll, Zenon
    <3>9. Count(message_ring', FlowMessage) + Count(core.batch, FlowMessage) + Len(reply_ring) <= 1
      BY <2>3, <3>6, <3>7, <3>8
    <3>10. \A u, v \in Thread : thread'[u].step = "recv" /\ thread'[v].step = "recv" => u = v
      BY <2>1, <2>7, <3>3, Zenon
    <3>11. \A u \in Thread : thread'[u].got # 0 => thread'[u].got = thread'[u].no
      BY <2>2, <3>2, <3>3, Zenon DEF Calm
    <3>12. \A x \in Mbufs(message_ring') : x.family = "flow" => Awaited(x.no)'
      <4>1. \A x \in Mbufs(q) : Awaited(x.no)'  BY <2>4, <3>2, <3>3, Zenon DEF Awaited
      <4> QED  BY <2>3, <3>5, <4>1, Zenon
    <3> QED  BY <1>1, <3>5, <3>9, <3>10, <3>11, <3>12, Zenon DEF Calm
  <2> QED  BY <2>5, <2>6, <2>7, Zenon
<1> QED  BY <1>0, <1>5, <1>6, SendEffect, Zenon

\* dpdk_link_recv_reply: the reply is for the one that waits, and then nothing is
\* on the way.
LEMMA RecvReply ==
    ASSUME Counting, LinkInv, ReplyInv, NEW t \in Thread, dpdk_link_recv_reply(t)
    PROVE  ReplyInv'
<1>0. Shape  BY Zenon DEF LinkInv
<1>1. thread[t].step = "recv" /\ UNCHANGED <<message_ring, core, events>>
  BY Zenon DEF dpdk_link_recv_reply
<1> SUFFICES ASSUME Calm PROVE Calm'
  BY <1>1, Zenon DEF ReplyInv
<1>3. PICK x \in Reply, b \in Seq(Reply) :
          /\ reply_ring = <<x>> \o b /\ reply_ring' = b
          /\ thread' = [thread EXCEPT ![t] = With(thread[t], "free", <<x.mbuf>>, x.no)]
  BY <1>0, RecvEffect, Zenon
<1>4. message_ring \in Seq(Message) /\ core.batch \in Seq(Message)
  BY <1>0, Fields, Zenon DEF Shape
<1>5. Len(reply_ring) = 1 + Len(b) /\ Len(b) \in Nat /\ x \in Mbufs(reply_ring)
  <2>1. <<x>> \in Seq(Reply) /\ Len(<<x>>) = 1 /\ x \in Mbufs(<<x>>)  BY Single, Zenon
  <2>2. /\ Len(<<x>> \o b) = Len(<<x>>) + Len(b)
        /\ Mbufs(<<x>> \o b) = Mbufs(<<x>>) \cup Mbufs(b)
    BY <2>1, Joined, ZenonT(30)
  <2> QED  BY <1>3, <2>1, <2>2
<1>6. x.no = thread[t].no
  <2>1. Awaited(x.no)  BY <1>5, Zenon DEF Calm
  <2> QED  BY <1>1, <2>1, Zenon DEF Awaited, Calm
<1>7. /\ Count(message_ring, FlowMessage) = 0 /\ Count(core.batch, FlowMessage) = 0
      /\ Len(b) = 0
  <2>1. /\ Count(message_ring, FlowMessage) \in Nat /\ Count(core.batch, FlowMessage) \in Nat
    BY <1>0, CountTypes, Zenon
  <2>2. Count(message_ring, FlowMessage) + Count(core.batch, FlowMessage) + Len(reply_ring) <= 1
    BY Zenon DEF Calm
  <2> QED  BY <1>5, <2>1, <2>2
<1>8. /\ \A y \in Mbufs(message_ring) : y.family # "flow"
      /\ \A y \in Mbufs(core.batch) : y.family # "flow"
      /\ \A y \in Mbufs(b) : FALSE
  <2>1. \A y \in Mbufs(message_ring) : y.family # "flow"  BY <1>4, <1>7, NoFlow, Zenon
  <2>2. \A y \in Mbufs(core.batch) : y.family # "flow"  BY <1>4, <1>7, NoFlow, Zenon
  <2>3. \A y \in Mbufs(b) : FALSE  BY <1>7 DEF Mbufs
  <2> QED  BY <2>1, <2>2, <2>3, Zenon
<1>9. Count(message_ring, FlowMessage) + Count(core.batch, FlowMessage) + Len(reply_ring') <= 1
  BY <1>3, <1>7
<1> DEFINE s == With(thread[t], "free", <<x.mbuf>>, x.no)
<1>10. s.step = "free" /\ s.got = x.no /\ s.no = thread[t].no  BY Zenon DEF With
<1>11. thread'[t] = s /\ \A u \in Thread : u # t => thread'[u] = thread[u]
  BY <1>0, <1>3, Zenon DEF Shape
<1> HIDE DEF s
<1>12. \A u, v \in Thread : thread'[u].step = "recv" /\ thread'[v].step = "recv" => u = v
  BY <1>10, <1>11, Zenon DEF Calm
<1>13. \A u \in Thread : thread'[u].got # 0 => thread'[u].got = thread'[u].no
  BY <1>6, <1>10, <1>11, Zenon DEF Calm
<1> QED  BY <1>1, <1>3, <1>8, <1>9, <1>12, <1>13, Zenon DEF Calm

\* dequeue_messages: what was on the way in the ring is on the way in the burst.
LEMMA DequeueReply ==
    ASSUME Counting, LinkInv, ReplyInv, dequeue_messages
    PROVE  ReplyInv'
<1>0. Shape  BY Zenon DEF LinkInv
<1>1. core.batch = <<>> /\ UNCHANGED <<reply_ring, thread, events>>
  BY Zenon DEF dequeue_messages
<1> SUFFICES ASSUME Calm PROVE Calm'
  BY <1>1, Zenon DEF ReplyInv
<1>3. PICK f \in Seq(Message), b \in Seq(Message) :
          message_ring = f \o b /\ core'.batch = f /\ message_ring' = b
  BY <1>0, DequeueEffect, Zenon
<1>4. Mbufs(message_ring) = Mbufs(f) \cup Mbufs(b)  BY <1>3, Joined
<1>5. /\ Count(f, FlowMessage) \in Nat
      /\ Count(message_ring, FlowMessage) = Count(f, FlowMessage) + Count(b, FlowMessage)
  BY <1>3, CountJoined, Zenon
<1>6. Count(b, FlowMessage) \in Nat  BY CountJoined, Zenon
<1>7. Count(core.batch, FlowMessage) = 0
  <2>1. <<>> \in Seq(Message) /\ \A y \in Mbufs(<<>>) : FALSE  BY DEF Mbufs
  <2> QED  BY <1>1, <2>1, NoFlow, Zenon
<1>8. reply_ring \in Seq(Reply)  BY <1>0, Zenon DEF Shape
<1>9. Count(b, FlowMessage) + Count(f, FlowMessage) + Len(reply_ring) <= 1
  <2>1. Count(message_ring, FlowMessage) + Count(core.batch, FlowMessage) + Len(reply_ring) <= 1
    BY Zenon DEF Calm
  <2> QED  BY <1>5, <1>6, <1>7, <1>8, <2>1
<1>10. \A r : Awaited(r)' <=> Awaited(r)  BY <1>1, Zenon DEF Awaited
<1> QED  BY <1>1, <1>3, <1>4, <1>9, <1>10, Zenon DEF Calm

\* handle_vswitchd_cmd: a reply, if there is one, takes the place of a request.
LEMMA HandleReply ==
    ASSUME Counting, LinkInv, ReplyInv, handle_vswitchd_cmd
    PROVE  ReplyInv'
<1>0. Shape  BY Zenon DEF LinkInv
<1>1. UNCHANGED <<message_ring, thread>>  BY Zenon DEF handle_vswitchd_cmd
<1>2. PICK rq \in Message, b \in Seq(Message) :
          /\ core.batch = <<rq>> \o b /\ core'.batch = b
          /\ \/ rq.family = "flow" /\ send_reply(rq)
             \/ rq.family = "packet" /\ handle_packet_cmd(rq)
  BY <1>0, HandleEffect, Zenon
<1> SUFFICES ASSUME Calm PROVE Calm'
  <2>1. "overlap" \in events => "overlap" \in events'
    BY <1>2, Zenon DEF send_reply, handle_packet_cmd, Note
  <2> QED  BY <2>1, Zenon DEF ReplyInv
<1>4. \A r : Awaited(r)' <=> Awaited(r)  BY <1>1, Zenon DEF Awaited
<1>5. <<rq>> \in Seq(Message) /\ Mbufs(<<rq>>) = {rq}  BY Single, Zenon
<1>6. Mbufs(core.batch) = {rq} \cup Mbufs(b)
  <2>1. Mbufs(<<rq>> \o b) = Mbufs(<<rq>>) \cup Mbufs(b)  BY Zenon, <1>5, Joined
  <2> QED  BY <1>2, <1>5, <2>1, Zenon
<1>7. Count(core.batch, FlowMessage) = Count(<<rq>>, FlowMessage) + Count(b, FlowMessage)
  <2>1. Count(<<rq>> \o b, FlowMessage) = Count(<<rq>>, FlowMessage) + Count(b, FlowMessage)
    BY <1>5, CountJoined, Zenon
  <2> QED  BY <1>2, <2>1, Zenon
<1>8. Count(b, FlowMessage) \in Nat  BY CountJoined, Zenon
<1>9. Count(<<rq>>, FlowMessage) = IF rq.family = "flow" THEN 1 ELSE 0
  BY CountSingle, FlowWhich, Zenon
<1>10. Count(message_ring, FlowMessage) \in Nat /\ Len(reply_ring) \in Nat
  BY <1>0, CountTypes, Zenon
<1>11. Count(message_ring, FlowMessage) + Count(core.batch, FlowMessage) + Len(reply_ring) <= 1
  BY Zenon DEF Calm
<1>12. /\ \A x \in Mbufs(reply_ring') : Awaited(x.no)
       /\ Count(message_ring, FlowMessage) + Count(b, FlowMessage) + Len(reply_ring') <= 1
  <2>1. CASE UNCHANGED reply_ring
    <3>1. Count(message_ring, FlowMessage) + Count(b, FlowMessage) + Len(reply_ring) <= 1
      BY <1>7, <1>8, <1>9, <1>10, <1>11
    <3>2. \A x \in Mbufs(reply_ring) : Awaited(x.no)  BY Zenon DEF Calm
    <3> QED  BY <2>1, <3>1, <3>2, Zenon
  <2>2. CASE rq.family = "flow" /\ reply_ring' = Append(reply_ring, [mbuf |-> alloc, no |-> rq.no])
             /\ pool # {}
    <3> DEFINE x == [mbuf |-> alloc, no |-> rq.no]
    <3>1. x \in Reply /\ x.no = rq.no
      <4>1. alloc \in pool  BY <2>2, Zenon DEF alloc
      <4>2. alloc \in Mbuf  BY <1>0, <4>1, Zenon DEF Shape
      <4> QED  BY <4>2, Zenon DEF Reply, Message
    <3> HIDE DEF x
    <3>2. reply_ring \in Seq(Reply)  BY <1>0, Zenon DEF Shape
    <3>3. reply_ring' = reply_ring \o <<x>> /\ Len(reply_ring') = Len(reply_ring) + 1
      BY <2>2, <3>1, <3>2 DEF x
    <3>4. Mbufs(reply_ring') = Mbufs(reply_ring) \cup {x}
      <4>1. <<x>> \in Seq(Reply) /\ Mbufs(<<x>>) = {x}  BY <3>1, Single, Zenon
      <4> QED  BY <3>2, <3>3, <4>1, Joined, Zenon
    <3>5. Awaited(rq.no)  BY <1>6, <2>2, Zenon DEF Calm
    <3>6. \A y \in Mbufs(reply_ring') : Awaited(y.no)
      BY <3>1, <3>4, <3>5, Zenon DEF Calm
    <3>7. Count(message_ring, FlowMessage) + Count(b, FlowMessage) + Len(reply_ring') <= 1
      BY <1>7, <1>8, <1>9, <1>10, <1>11, <2>2, <3>3
    <3> QED  BY <3>6, <3>7, Zenon
  <2> QED  BY <1>2, <2>1, <2>2, Zenon DEF send_reply, handle_packet_cmd
<1>13. \A x \in Mbufs(b) : x.family = "flow" => Awaited(x.no)
  BY <1>6, Zenon DEF Calm
<1> QED  BY <1>1, <1>2, <1>4, <1>12, <1>13, Zenon DEF Calm

\* The other steps put nothing on the way and let no thread wait.
LEMMA RestReply ==
    ASSUME ReplyInv, UNCHANGED <<message_ring, reply_ring, thread>>, core'.batch = core.batch,
           events \subseteq events'
    PROVE  ReplyInv'
<1>1. \A r : Awaited(r)' <=> Awaited(r)  BY Zenon DEF Awaited
<1> QED  BY <1>1, Zenon DEF ReplyInv, Calm

\* The same of a thread that does not wait.
LEMMA ThreadReply ==
    ASSUME LinkInv, ReplyInv, NEW t \in Thread, NEW s, thread' = [thread EXCEPT ![t] = s],
           thread[t].step # "recv", s.step # "recv",
           (s.got = thread[t].got /\ s.no = thread[t].no) \/ s.got = 0,
           UNCHANGED <<message_ring, reply_ring, core, events>>
    PROVE  ReplyInv'
<1> SUFFICES ASSUME Calm PROVE Calm'  BY Zenon DEF ReplyInv
<1>2. s.got # 0 => s.got = s.no  BY Zenon DEF Calm
<1>3. /\ \A u, v \in Thread : thread'[u].step = "recv" /\ thread'[v].step = "recv" => u = v
      /\ \A u \in Thread : thread'[u].got # 0 => thread'[u].got = thread'[u].no
      /\ \A r : Awaited(r) => Awaited(r)'
  BY <1>2, OthersWait, Zenon DEF LinkInv
<1> QED  BY <1>3, Zenon DEF Calm

\* ReplyInv is inductive.
LEMMA ReplyStep == Counting /\ LinkInv /\ ReplyInv /\ [Next]_vars => ReplyInv'
<1> SUFFICES ASSUME Counting, LinkInv, ReplyInv, [Next]_vars PROVE ReplyInv'  BY Zenon
<1>0. Shape /\ ThreadInv  BY Zenon DEF LinkInv
<1>1. core.batch = [core EXCEPT !.step = "alloc"].batch
      /\ core.batch = [core EXCEPT !.step = "message"].batch
  BY <1>0, Zenon DEF Shape, CoreState
<1>2. CASE UNCHANGED vars  BY <1>2, RestReply, Zenon DEF vars, rings
<1>3. ASSUME NEW t \in Thread, Daemon(t) PROVE ReplyInv'
  <2>1. CASE alloc_mbufs(t)
    <3>1. PICK f \in Seq(Mbuf) :
              thread' = [thread EXCEPT ![t] = With(thread[t], "send", f, thread[t].got)]
      BY <2>1, AllocEffect, Zenon DEF LinkInv
    <3> DEFINE s == With(thread[t], "send", f, thread[t].got)
    <3>2. s.step = "send" /\ s.got = thread[t].got /\ s.no = thread[t].no  BY Zenon DEF With
    <3>3. thread[t].step = "alloc" /\ UNCHANGED <<message_ring, reply_ring, core, events>>
      BY <2>1, Zenon DEF alloc_mbufs
    <3> HIDE DEF s
    <3>4. thread[t].step # "recv" /\ s.step # "recv"  BY <3>2, <3>3, Zenon
    <3> QED  BY <3>1, <3>2, <3>3, <3>4, ThreadReply, Zenon DEF s
  <2>2. CASE enqueue_mbufs_to_be_freed(t)
    <3>1. /\ thread' = [thread EXCEPT ![t] = NoRequest] /\ thread[t].step # "recv"
          /\ UNCHANGED <<message_ring, reply_ring, core, events>>
      BY <2>2, Zenon DEF enqueue_mbufs_to_be_freed
    <3>2. NoRequest.step # "recv" /\ NoRequest.got = 0  BY Zenon DEF NoRequest
    <3> QED  BY <3>1, <3>2, ThreadReply, Zenon
  <2> QED  BY <1>3, <2>1, <2>2, SendReply, RecvReply, Zenon DEF Daemon
<1>4. ASSUME NEW t \in Thread, NEW family, NEW n, request(t, family, n) PROVE ReplyInv'
  <2> DEFINE s == [step |-> "alloc", family |-> family, n |-> n, mbufs |-> <<>>,
                   no |-> requests + 1, got |-> 0]
  <2>1. /\ thread' = [thread EXCEPT ![t] = s] /\ thread[t].step # "recv"
        /\ UNCHANGED <<message_ring, reply_ring, core, events>>
    BY <1>4, Zenon DEF request, rings
  <2>2. s.step # "recv" /\ s.got = 0  BY Zenon
  <2> HIDE DEF s
  <2> QED  BY <2>1, <2>2, ThreadReply, Zenon
<1>5. CASE Vswitchd
  <2>1. CASE free_mbufs  BY <1>1, <2>1, RestReply, Zenon DEF free_mbufs
  <2>2. CASE fill_alloc_ring  BY <2>2, RestReply, Zenon DEF fill_alloc_ring, Note
  <2>3. CASE alloc_ring_filled  BY <1>1, <2>3, RestReply, Zenon DEF alloc_ring_filled, rings
  <2> QED  BY <1>5, <2>1, <2>2, <2>3, DequeueReply, HandleReply, Zenon DEF Vswitchd
<1>6. CASE Dispatcher
  BY <1>6, RestReply, Zenon DEF Dispatcher, dpdk_link_recv_packet, packet_read
<1>7. CASE Traffic
  BY <1>7, RestReply, Zenon
     DEF Traffic, receive_packet, transmit_packet, send_packet_to_vswitchd, rings
<1> QED  BY <1>2, <1>3, <1>4, <1>5, <1>6, <1>7, Zenon DEF Next

\* Initially nobody waits.
LEMMA ReplyInit == Counting /\ Init => ReplyInv
<1> SUFFICES ASSUME Counting, Init PROVE Calm  BY Zenon DEF ReplyInv
<1>1. /\ message_ring = <<>> /\ core.batch = <<>> /\ reply_ring = <<>>
      /\ \A t \in Thread : thread[t].step = "idle" /\ thread[t].got = 0
  BY Zenon DEF Init, NoRequest
<1>2. <<>> \in Seq(Message) /\ Len(<<>>) = 0 /\ \A x \in Mbufs(<<>>) : FALSE  BY DEF Mbufs
<1>3. Count(<<>>, FlowMessage) = 0  BY <1>2, NoFlow, Zenon
<1>4. Count(message_ring, FlowMessage) + Count(core.batch, FlowMessage) + Len(reply_ring) <= 1
  BY <1>1, <1>2, <1>3
<1> QED  BY <1>1, <1>2, <1>4, Zenon DEF Calm

-----------------------------------------------------------------------------
(* How many replies there are to come *)

\* When thread t goes on it begins to wait, or ends, or neither.
LEMMA WaitersCount ==
    ASSUME Counting, Shape, NEW t \in Thread, NEW s, thread' = [thread EXCEPT ![t] = s]
    PROVE  /\ Cardinality(Waiters) \in Nat /\ Cardinality(Waiters') \in Nat
           /\ thread[t].step # "recv" /\ s.step # "recv" => Waiters' = Waiters
           /\ thread[t].step # "recv" /\ s.step = "recv"
                  => Cardinality(Waiters') = Cardinality(Waiters) + 1
           /\ thread[t].step = "recv" /\ s.step # "recv"
                  => Cardinality(Waiters) = Cardinality(Waiters') + 1
<1>1. thread'[t] = s /\ \A u \in Thread : u # t => thread'[u] = thread[u]
  BY Zenon DEF Shape
<1>2. Waiters \in SUBSET Thread /\ Waiters' \in SUBSET Thread  BY Zenon DEF Waiters
<1>3. /\ t \in Waiters <=> thread[t].step = "recv"
      /\ t \in Waiters' <=> s.step = "recv"
      /\ \A u \in Thread : u # t => (u \in Waiters' <=> u \in Waiters)
  BY <1>1, Zenon DEF Waiters
<1>4. /\ t \notin Waiters /\ t \notin Waiters' => Waiters' = Waiters
      /\ t \notin Waiters /\ t \in Waiters' => Waiters' = Waiters \cup {t}
      /\ t \in Waiters /\ t \notin Waiters' => Waiters = Waiters' \cup {t}
  BY <1>2, <1>3
<1>5. ASSUME NEW W \in SUBSET Thread
      PROVE  /\ Cardinality(W) \in Nat
             /\ t \notin W => Cardinality(W \cup {t}) = Cardinality(W) + 1
  BY Zenon DEF Counting
<1> QED  BY <1>2, <1>3, <1>4, <1>5, Zenon

\* dpdk_link_send: who begins to wait has put one request on the way.
LEMMA SendOwed ==
    ASSUME Counting, LinkInv, RepliesOwed, NEW t \in Thread, dpdk_link_send(t)
    PROVE  RepliesOwed'
<1>0. Shape /\ Past /\ ThreadInv  BY Zenon DEF LinkInv
<1>1. /\ thread[t].step = "send" /\ UNCHANGED <<core, reply_ring>>
      /\ ThreadOK(thread[t], requests, accepted)
  BY <1>0, Zenon DEF dpdk_link_send, ThreadInv
<1>2. thread[t].step # "recv" /\ message_ring \in Seq(Message)
  BY <1>0, <1>1, Zenon DEF Shape
<1>3. CASE /\ thread' = [thread EXCEPT ![t] =
                   With(thread[t], "free", thread[t].mbufs, thread[t].got)]
           /\ UNCHANGED <<message_ring, events>>
  <2> DEFINE s == With(thread[t], "free", thread[t].mbufs, thread[t].got)
  <2>1. s.step # "recv"  BY Zenon DEF With
  <2>2. thread' = [thread EXCEPT ![t] = s]  BY <1>3, Zenon
  <2> HIDE DEF s
  <2>3. Waiters' = Waiters  BY <1>0, <1>2, <2>1, <2>2, WaitersCount, Zenon
  <2> QED  BY <1>1, <1>3, <2>3, Zenon DEF RepliesOwed, UnderWay
<1>4. ASSUME NEW q \in Seq(Message), message_ring' = message_ring \o q, Len(q) = thread[t].n,
             \A i \in 1 .. Len(q) : q[i].family = thread[t].family /\ q[i].no = thread[t].no,
             thread' = [thread EXCEPT ![t] =
                 IF thread[t].family = "flow"
                 THEN With(thread[t], "recv", <<>>, thread[t].got) ELSE NoRequest],
             events \subseteq events'
      PROVE  RepliesOwed'
  <2> DEFINE s == IF thread[t].family = "flow"
                  THEN With(thread[t], "recv", <<>>, thread[t].got) ELSE NoRequest
  <2>1. s.step = "recv" <=> thread[t].family = "flow"  BY Zenon DEF With, NoRequest
  <2>2. thread' = [thread EXCEPT ![t] = s]  BY <1>4, Zenon
  <2> HIDE DEF s
  <2>3. /\ Cardinality(Waiters) \in Nat
        /\ s.step # "recv" => Waiters' = Waiters
        /\ s.step = "recv" => Cardinality(Waiters') = Cardinality(Waiters) + 1
    BY <1>0, <1>2, <2>2, WaitersCount, Zenon
  <2>4. Count(message_ring', FlowMessage)
            = Count(message_ring, FlowMessage) + Count(q, FlowMessage)
    <3>1. Count(message_ring \o q, FlowMessage)
              = Count(message_ring, FlowMessage) + Count(q, FlowMessage)
      BY <1>2, CountJoined, Zenon
    <3> QED  BY <1>4, <3>1, Zenon
  <2>5. \A i \in 1 .. Len(q) : q[i] \in FlowMessage <=> thread[t].family = "flow"
    BY <1>4, FlowWhich
  <2>6. thread[t].family = "flow" => Count(q, FlowMessage) = 1
    <3>1. thread[t].family = "flow" => thread[t].n = 1  BY <1>1, Zenon DEF ThreadOK
    <3> QED  BY <1>4, <2>5, <3>1, CountAll, Zenon
  <2>7. thread[t].family # "flow" => Count(q, FlowMessage) = 0
    BY <2>5, CountAll, Zenon
  <2>8. /\ Count(message_ring, FlowMessage) \in Nat
        /\ Count(core.batch, FlowMessage) \in Nat /\ Len(reply_ring) \in Nat
    BY <1>0, CountTypes, Zenon
  <2>9. CASE thread[t].family = "flow"
    <3>1. UnderWay' = UnderWay + 1 /\ UnderWay \in Nat
      BY <1>1, <2>4, <2>6, <2>8, <2>9 DEF UnderWay
    <3>2. Cardinality(Waiters') = Cardinality(Waiters) + 1  BY <2>1, <2>3, <2>9, Zenon
    <3> QED  BY <1>4, <2>3, <3>1, <3>2 DEF RepliesOwed
  <2>10. CASE thread[t].family # "flow"
    <3>1. UnderWay' = UnderWay
      BY <1>1, <2>4, <2>7, <2>8, <2>10 DEF UnderWay
    <3>2. Waiters' = Waiters  BY <2>1, <2>3, <2>10, Zenon
    <3> QED  BY <1>4, <3>1, <3>2, Zenon DEF RepliesOwed
  <2> QED  BY <2>9, <2>10, Zenon
<1>5. ASSUME NEW h, Note("overlap", h) PROVE events \subseteq events'  BY <1>5, Zenon DEF Note
<1> QED  BY <1>0, <1>3, <1>4, <1>5, SendEffect, Zenon

\* dpdk_link_recv_reply: whoever takes a reply no longer waits for one.
LEMMA RecvOwed ==
    ASSUME Counting, LinkInv, RepliesOwed, NEW t \in Thread, dpdk_link_recv_reply(t)
    PROVE  RepliesOwed'
<1>0. Shape  BY Zenon DEF LinkInv
<1>1. thread[t].step = "recv" /\ UNCHANGED <<message_ring, core, events>>
  BY Zenon DEF dpdk_link_recv_reply
<1>2. PICK x \in Reply, b \in Seq(Reply) :
          /\ reply_ring = <<x>> \o b /\ reply_ring' = b
          /\ thread' = [thread EXCEPT ![t] = With(thread[t], "free", <<x.mbuf>>, x.no)]
  BY <1>0, RecvEffect, Zenon
<1>3. Len(reply_ring) = 1 + Len(b) /\ Len(b) \in Nat
  <2>1. <<x>> \in Seq(Reply) /\ Len(<<x>>) = 1  BY Single, Zenon
  <2>2. Len(<<x>> \o b) = Len(<<x>>) + Len(b)  BY <2>1, Joined, ZenonT(30)
  <2> QED  BY <1>2, <2>1, <2>2
<1> DEFINE s == With(thread[t], "free", <<x.mbuf>>, x.no)
<1>4. s.step # "recv"  BY Zenon DEF With
<1>5. thread' = [thread EXCEPT ![t] = s]  BY <1>2, Zenon
<1> HIDE DEF s
<1>6. /\ Cardinality(Waiters') \in Nat
      /\ Cardinality(Waiters) = Cardinality(Waiters') + 1
  BY <1>0, <1>1, <1>4, <1>5, WaitersCount, Zenon
<1>7. /\ Count(message_ring, FlowMessage) \in Nat /\ Count(core.batch, FlowMessage) \in Nat
  BY <1>0, CountTypes, Zenon
<1>8. UnderWay = UnderWay' + 1 /\ UnderWay' \in Nat
  BY <1>1, <1>2, <1>3, <1>7 DEF UnderWay
<1> QED  BY <1>1, <1>6, <1>8 DEF RepliesOwed

\* dequeue_messages moves requests, and keeps their number.
LEMMA DequeueOwed ==
    ASSUME Counting, LinkInv, RepliesOwed, dequeue_messages
    PROVE  RepliesOwed'
<1>0. Shape  BY Zenon DEF LinkInv
<1>1. core.batch = <<>> /\ UNCHANGED <<reply_ring, thread, events>>
  BY Zenon DEF dequeue_messages
<1>2. PICK f \in Seq(Message), b \in Seq(Message) :
          message_ring = f \o b /\ core'.batch = f /\ message_ring' = b
  BY <1>0, DequeueEffect, Zenon
<1>3. /\ Count(f, FlowMessage) \in Nat
      /\ Count(message_ring, FlowMessage) = Count(f, FlowMessage) + Count(b, FlowMessage)
  BY <1>2, CountJoined, Zenon
<1>4. Count(b, FlowMessage) \in Nat  BY CountJoined, Zenon
<1>5. Count(core.batch, FlowMessage) = 0  BY <1>1, CountNone, Zenon
<1>6. Len(reply_ring) \in Nat  BY <1>0, CountTypes, Zenon
<1>7. UnderWay' = UnderWay
  BY <1>1, <1>2, <1>3, <1>4, <1>5, <1>6 DEF UnderWay
<1>8. Waiters' = Waiters  BY <1>1, Zenon DEF Waiters
<1> QED  BY <1>1, <1>7, <1>8, Zenon DEF RepliesOwed

\* handle_vswitchd_cmd: a reply takes the place of its request, unless the
\* datapath is short; a packet has no reply.
LEMMA HandleOwed ==
    ASSUME Counting, LinkInv, RepliesOwed, handle_vswitchd_cmd
    PROVE  RepliesOwed'
<1>0. Shape  BY Zenon DEF LinkInv
<1>1. UNCHANGED <<message_ring, thread>>  BY Zenon DEF handle_vswitchd_cmd
<1>2. PICK rq \in Message, b \in Seq(Message) :
          /\ core.batch = <<rq>> \o b /\ core'.batch = b
          /\ \/ rq.family = "flow" /\ send_reply(rq)
             \/ rq.family = "packet" /\ handle_packet_cmd(rq)
  BY <1>0, HandleEffect, Zenon
<1>3. Count(core.batch, FlowMessage) = Count(<<rq>>, FlowMessage) + Count(b, FlowMessage)
  <2>1. <<rq>> \in Seq(Message)  BY Single, Zenon
  <2>2. Count(<<rq>> \o b, FlowMessage) = Count(<<rq>>, FlowMessage) + Count(b, FlowMessage)
    BY <2>1, CountJoined, Zenon
  <2> QED  BY <1>2, <2>2, Zenon
<1>4. Count(b, FlowMessage) \in Nat  BY CountJoined, Zenon
<1>5. Count(<<rq>>, FlowMessage) = IF rq.family = "flow" THEN 1 ELSE 0
  BY CountSingle, FlowWhich, Zenon
<1>6. Count(message_ring, FlowMessage) \in Nat /\ Len(reply_ring) \in Nat
  BY <1>0, CountTypes, Zenon
<1>7. Waiters' = Waiters  BY <1>1, Zenon DEF Waiters
<1>8. Cardinality(Waiters) \in Nat
  <2>1. Waiters \in SUBSET Thread  BY Zenon DEF Waiters
  <2> QED  BY <2>1, Zenon DEF Counting
<1>9. CASE rq.family = "packet" /\ handle_packet_cmd(rq)
  <2>1. UNCHANGED <<reply_ring, events>>  BY <1>9, Zenon DEF handle_packet_cmd
  <2>2. UnderWay' = UnderWay
    BY <1>1, <1>2, <1>3, <1>4, <1>5, <1>6, <1>9, <2>1 DEF UnderWay
  <2> QED  BY <1>7, <2>1, <2>2, Zenon DEF RepliesOwed
<1>10. CASE rq.family = "flow" /\ reply_ring' = Append(reply_ring, [mbuf |-> alloc, no |-> rq.no])
            /\ events \subseteq events'
  <2>1. Len(reply_ring') = Len(reply_ring) + 1
    <3>1. reply_ring \in Seq(Reply)  BY <1>0, Zenon DEF Shape
    <3> QED  BY <1>10, <3>1
  <2>2. UnderWay' = UnderWay
    BY <1>1, <1>2, <1>3, <1>4, <1>5, <1>6, <1>10, <2>1 DEF UnderWay
  <2> QED  BY <1>7, <1>10, <2>2, Zenon DEF RepliesOwed
<1>11. CASE rq.family = "flow" /\ UNCHANGED reply_ring /\ "short" \in events'
  <2>1. UnderWay = UnderWay' + 1 /\ UnderWay' \in Nat
    BY <1>1, <1>2, <1>3, <1>4, <1>5, <1>6, <1>11 DEF UnderWay
  <2> QED  BY <1>7, <1>8, <1>11, <2>1 DEF RepliesOwed
<1>12. ASSUME send_reply(rq)
       PROVE  \/ /\ reply_ring' = Append(reply_ring, [mbuf |-> alloc, no |-> rq.no])
                 /\ events \subseteq events'
              \/ UNCHANGED reply_ring /\ "short" \in events'
  BY <1>12, Zenon DEF send_reply, Note
<1> QED  BY <1>2, <1>9, <1>10, <1>11, <1>12, Zenon

\* The other steps put nothing on the way and let no thread wait.
LEMMA RestOwed ==
    ASSUME RepliesOwed, UNCHANGED <<message_ring, reply_ring>>, Waiters' = Waiters,
           core'.batch = core.batch, events \subseteq events'
    PROVE  RepliesOwed'
<1>1. UnderWay' = UnderWay  BY Zenon DEF UnderWay
<1> QED  BY <1>1, Zenon DEF RepliesOwed

\* Every step keeps a reply for every thread that waits.
LEMMA OwedStep == Counting /\ LinkInv /\ RepliesOwed /\ [Next]_vars => RepliesOwed'
<1> SUFFICES ASSUME Counting, LinkInv, RepliesOwed, [Next]_vars PROVE RepliesOwed'  BY Zenon
<1>0. Shape  BY Zenon DEF LinkInv
<1>1. core.batch = [core EXCEPT !.step = "alloc"].batch
      /\ core.batch = [core EXCEPT !.step = "message"].batch
  BY <1>0, Zenon DEF Shape, CoreState
<1>2. UNCHANGED thread => Waiters' = Waiters  BY Zenon DEF Waiters
<1>3. CASE UNCHANGED vars  BY <1>2, <1>3, RestOwed, Zenon DEF vars, rings
<1>4. ASSUME NEW t \in Thread, NEW s, thread' = [thread EXCEPT ![t] = s],
             thread[t].step # "recv", s.step # "recv",
             UNCHANGED <<message_ring, reply_ring, core, events>>
      PROVE  RepliesOwed'
  <2>1. Waiters' = Waiters  BY <1>0, <1>4, WaitersCount, Zenon
  <2> QED  BY <1>4, <2>1, RestOwed, Zenon
<1>5. ASSUME NEW t \in Thread, Daemon(t) PROVE RepliesOwed'
  <2>1. CASE alloc_mbufs(t)
    <3>1. PICK f \in Seq(Mbuf) :
              thread' = [thread EXCEPT ![t] = With(thread[t], "send", f, thread[t].got)]
      BY <2>1, AllocEffect, Zenon DEF LinkInv
    <3> DEFINE s == With(thread[t], "send", f, thread[t].got)
    <3>2. s.step # "recv"  BY Zenon DEF With
    <3>3. thread[t].step # "recv" /\ UNCHANGED <<message_ring, reply_ring, core, events>>
      BY <2>1, Zenon DEF alloc_mbufs
    <3> QED  BY <1>4, <3>1, <3>2, <3>3, Zenon
  <2>2. CASE enqueue_mbufs_to_be_freed(t)
    <3>1. /\ thread' = [thread EXCEPT ![t] = NoRequest] /\ thread[t].step # "recv"
          /\ UNCHANGED <<message_ring, reply_ring, core, events>>
      BY <2>2, Zenon DEF enqueue_mbufs_to_be_freed
    <3>2. NoRequest.step # "recv"  BY Zenon DEF NoRequest
    <3> QED  BY <1>4, <3>1, <3>2, Zenon
  <2> QED  BY <1>5, <2>1, <2>2, SendOwed, RecvOwed, Zenon DEF Daemon
<1>6. ASSUME NEW t \in Thread, NEW family, NEW n, request(t, family, n) PROVE RepliesOwed'
  <2> DEFINE s == [step |-> "alloc", family |-> family, n |-> n, mbufs |-> <<>>,
                   no |-> requests + 1, got |-> 0]
  <2>1. /\ thread' = [thread EXCEPT ![t] = s] /\ thread[t].step # "recv"
        /\ UNCHANGED <<message_ring, reply_ring, core, events>>
    BY <1>6, Zenon DEF request, rings
  <2>2. s.step # "recv"  BY Zenon
  <2> HIDE DEF s
  <2> QED  BY <1>4, <2>1, <2>2, Zenon
<1>7. CASE Vswitchd
  <2>1. CASE free_mbufs  BY <1>1, <1>2, <2>1, RestOwed, Zenon DEF free_mbufs
  <2>2. CASE fill_alloc_ring  BY <1>2, <2>2, RestOwed, Zenon DEF fill_alloc_ring, Note
  <2>3. CASE alloc_ring_filled  BY <1>1, <1>2, <2>3, RestOwed, Zenon DEF alloc_ring_filled, rings
  <2> QED  BY <1>7, <2>1, <2>2, <2>3, DequeueOwed, HandleOwed, Zenon DEF Vswitchd
<1>8. CASE Dispatcher
  BY <1>2, <1>8, RestOwed, Zenon DEF Dispatcher, dpdk_link_recv_packet, packet_read
<1>9. CASE Traffic
  BY <1>2, <1>9, RestOwed, Zenon
     DEF Traffic, receive_packet, transmit_packet, send_packet_to_vswitchd, rings
<1> QED  BY <1>3, <1>5, <1>6, <1>7, <1>8, <1>9, Zenon DEF Next

\* Initially nobody waits, and nothing is on the way.
LEMMA OwedInit == Counting /\ Init => RepliesOwed
<1> SUFFICES ASSUME Counting, Init PROVE RepliesOwed  BY Zenon
<1>1. /\ message_ring = <<>> /\ core.batch = <<>> /\ reply_ring = <<>>
      /\ \A t \in Thread : thread[t].step = "idle"
  BY Zenon DEF Init, NoRequest
<1>2. Waiters = {}  BY <1>1, Zenon DEF Waiters
<1>3. Cardinality(Waiters) = 0  BY <1>2, Zenon DEF Counting
<1>4. Count(<<>>, FlowMessage) = 0 /\ Len(<<>>) = 0  BY CountNone, Zenon
<1>5. UnderWay = 0  BY <1>1, <1>4 DEF UnderWay
<1> QED  BY <1>3, <1>5 DEF RepliesOwed

-----------------------------------------------------------------------------
(* The theorems *)

INSTANCE FiniteSetTheorems

\* How many entries of two rings, one behind the other, are in M.
LEMMA JoinedCounts ==
    ASSUME NEW S, NEW s \in Seq(S), NEW r \in Seq(S), NEW M
    PROVE  /\ Count(s, M) \in Nat /\ Count(s, M) <= Len(s)
           /\ Count(s \o r, M) = Count(s, M) + Count(r, M)
<1>1. ASSUME NEW z \in Seq(S)
      PROVE  /\ IsFiniteSet({i \in DOMAIN z : z[i] \in M})
             /\ Count(z, M) \in Nat /\ Count(z, M) <= Len(z)
  <2>1. Len(z) \in Nat /\ DOMAIN z = 1 .. Len(z)  OBVIOUS
  <2>2. IsFiniteSet(DOMAIN z) /\ Cardinality(DOMAIN z) = Len(z)
    <3>1. /\ IsFiniteSet(1 .. Len(z))
          /\ Cardinality(1 .. Len(z)) = IF 1 > Len(z) THEN 0 ELSE Len(z) - 1 + 1
      BY <2>1, FS_Interval, 1 \in Int, Len(z) \in Int, Zenon
    <3> QED  BY <2>1, <3>1
  <2>3. {i \in DOMAIN z : z[i] \in M} \in SUBSET DOMAIN z  BY Zenon
  <2> QED  BY <2>2, <2>3, FS_Subset, FS_CardinalityType, Zenon DEF Count
<1> DEFINE q == s \o r
           n == Len(s)
           A == {i \in DOMAIN s : s[i] \in M}
           B == {i \in DOMAIN r : r[i] \in M}
           C == {i \in DOMAIN q : q[i] \in M}
           D == {i \in C : i > n}
           f == [i \in B |-> n + i]
<1>2. /\ q \in Seq(S) /\ n \in Nat /\ Len(r) \in Nat
      /\ DOMAIN q = 1 .. n + Len(r) /\ DOMAIN s = 1 .. n /\ DOMAIN r = 1 .. Len(r)
  BY Joined
<1>3. \A i \in 1 .. n : q[i] = s[i]
  OBVIOUS
<1>4. \A i \in 1 .. Len(r) : q[n + i] = r[i]
  OBVIOUS
<1>5. IsFiniteSet(A) /\ IsFiniteSet(B) /\ IsFiniteSet(C)
  BY <1>1, <1>2, Zenon
<1> HIDE DEF q
<1>6. C = A \cup D /\ A \cap D = {}
  BY <1>2, <1>3
<1>7. f \in Bijection(B, D)
  <2> HIDE DEF n
  <2>1. \A i \in B : n + i \in D  BY <1>2, <1>4
  <2>2. \A i \in D : i - n \in B /\ n + (i - n) = i
    <3> TAKE i \in D
    <3>1. i - n \in 1 .. Len(r) /\ n + (i - n) = i  BY <1>2
    <3> QED  BY <1>2, <1>4, <3>1, Zenon
  <2>3. \A i, j \in B : n + i = n + j => i = j  BY <1>2
  <2> HIDE DEF B, D
  <2>4. f \in [B -> D]  BY <2>1, Zenon
  <2>5. \A i, j \in B : f[i] = f[j] => i = j  BY <2>3, Zenon
  <2>6. \A i \in D : \E j \in B : f[j] = i  BY <2>2, Zenon
  <2> QED  BY <2>4, <2>5, <2>6, Zenon DEF Bijection, Injection, Surjection, IsInjective
<1>8. IsFiniteSet(D) /\ Cardinality(D) = Cardinality(B)
  <2>1. ExistsBijection(B, D)  BY <1>7, Zenon DEF ExistsBijection
  <2> QED  BY <2>1, <1>5, FS_Bijection, Zenon
<1> HIDE DEF A, B, C, D
<1>9. Cardinality(C) = Cardinality(A) + Cardinality(D)
  <2>1. Cardinality(A \cap D) = 0  BY <1>6, FS_EmptySet, Zenon
  <2>2. Cardinality(A \cup D) = Cardinality(A) + Cardinality(D) - Cardinality(A \cap D)
    BY <1>5, <1>8, FS_Union, Zenon
  <2>3. Cardinality(A) \in Nat /\ Cardinality(D) \in Nat
    BY <1>5, <1>8, FS_CardinalityType, Zenon
  <2> QED  BY <1>6, <2>1, <2>2, <2>3
<1> QED  BY <1>1, <1>8, <1>9, Zenon DEF Count, A, B, C, q

\* The number for a ring with one entry.
LEMMA SingleCounts ==
    ASSUME NEW x, NEW M
    PROVE  Count(<<x>>, M) = IF x \in M THEN 1 ELSE 0
<1>1. CASE x \in M
  <2>1. {i \in DOMAIN <<x>> : <<x>>[i] \in M} = {1}  BY <1>1
  <2> QED  BY <1>1, <2>1, FS_Singleton, Zenon DEF Count
<1>2. CASE x \notin M
  <2>1. {i \in DOMAIN <<x>> : <<x>>[i] \in M} = {}  BY <1>2
  <2> QED  BY <1>2, <2>1, FS_EmptySet, Zenon DEF Count
<1> QED  BY <1>1, <1>2, Zenon

\* A ring with all of its entries in M, or with none.
LEMMA AllCounts ==
    ASSUME NEW S, NEW s \in Seq(S), NEW M
    PROVE  /\ (\A i \in 1 .. Len(s) : s[i] \in M) => Count(s, M) = Len(s)
           /\ Count(s, M) = 0 <=> \A i \in 1 .. Len(s) : s[i] \notin M
<1>1. DOMAIN s = 1 .. Len(s) /\ Len(s) \in Nat  OBVIOUS
<1>2. ASSUME \A i \in 1 .. Len(s) : s[i] \in M PROVE Count(s, M) = Len(s)
  <2>1. {i \in DOMAIN s : s[i] \in M} = 1 .. Len(s)  BY <1>1, <1>2, Zenon
  <2>2. Cardinality(1 .. Len(s)) = Len(s)
    <3>1. Cardinality(1 .. Len(s)) = IF 1 > Len(s) THEN 0 ELSE Len(s) - 1 + 1
      BY <1>1, FS_Interval
    <3> QED  BY <1>1, <3>1
  <2> QED  BY <2>1, <2>2, Zenon DEF Count
<1>3. ASSUME \A i \in 1 .. Len(s) : s[i] \notin M PROVE Count(s, M) = 0
  <2>1. {i \in DOMAIN s : s[i] \in M} = {}  BY <1>1, <1>3, Zenon
  <2> QED  BY <2>1, FS_EmptySet, Zenon DEF Count
<1>4. ASSUME Count(s, M) = 0 PROVE \A i \in 1 .. Len(s) : s[i] \notin M
  <2> DEFINE D == {i \in DOMAIN s : s[i] \in M}
  <2>1. IsFiniteSet(1 .. Len(s))  BY <1>1, FS_Interval, 1 \in Int, Len(s) \in Int, Zenon
  <2>2. D \subseteq 1 .. Len(s)  BY <1>1, Zenon
  <2>3. IsFiniteSet(D)  BY <2>1, <2>2, FS_Subset, Zenon
  <2>4. D = {}  BY <1>4, <2>3, FS_EmptySet, Zenon DEF Count
  <2> QED  BY <1>1, <2>4, Zenon
<1> QED  BY <1>2, <1>3, <1>4, Zenon

\* What the steps use of the number of elements is right.
LEMMA CountingHolds == Counting
<1>1. ASSUME NEW P \in SUBSET Mbuf
      PROVE  /\ Cardinality(P) \in Nat
             /\ \E g \in [1 .. Cardinality(P) -> P] :
                   \A i, j \in 1 .. Cardinality(P) : g[i] = g[j] => i = j
  <2> DEFINE c == Cardinality(P)
  <2>1. IsFiniteSet(Mbuf)  BY LinkAssumption, Zenon
  <2>2. IsFiniteSet(P)  BY <2>1, FS_Subset, Zenon
  <2>3. c \in Nat /\ ExistsBijection(1 .. c, P)  BY <2>2, FS_CardinalityType, Zenon
  <2>4. PICK g \in Bijection(1 .. c, P) : TRUE  BY <2>3, Zenon DEF ExistsBijection
  <2>5. g \in [1 .. c -> P] /\ \A i, j \in 1 .. c : g[i] = g[j] => i = j
    BY <2>4, Zenon DEF Bijection, Injection, IsInjective
  <2> QED  BY <2>3, <2>5, Zenon
<1>2. \A S, M : \A s, r \in Seq(S) :
          /\ Count(s, M) \in Nat /\ Count(s, M) <= Len(s)
          /\ Count(s \o r, M) = Count(s, M) + Count(r, M)
  BY JoinedCounts, Zenon
<1>3. \A x, M : Count(<<x>>, M) = IF x \in M THEN 1 ELSE 0  BY SingleCounts, Zenon
<1>4. \A S, M : \A s \in Seq(S) :
          /\ (\A i \in 1 .. Len(s) : s[i] \in M) => Count(s, M) = Len(s)
          /\ Count(s, M) = 0 <=> \A i \in 1 .. Len(s) : s[i] \notin M
  BY AllCounts, Zenon
<1>5. Cardinality({}) = 0  BY FS_EmptySet, Zenon
<1>6. ASSUME NEW W \in SUBSET Thread
      PROVE  /\ Cardinality(W) \in Nat
             /\ \A t \in Thread \ W : Cardinality(W \cup {t}) = Cardinality(W) + 1
  <2>1. IsFiniteSet(Thread)  BY LinkAssumption, Zenon
  <2>2. IsFiniteSet(W)  BY <2>1, FS_Subset, Zenon
  <2>3. Cardinality(W) \in Nat  BY <2>2, FS_CardinalityType, Zenon
  <2>4. ASSUME NEW t \in Thread \ W PROVE Cardinality(W \cup {t}) = Cardinality(W) + 1
    BY <2>2, FS_AddElement, Zenon
  <2> QED  BY <2>3, <2>4, Zenon
<1> QED  BY <1>1, <1>2, <1>3, <1>4, <1>5, <1>6, Zenon DEF Counting

\* The invariant holds always.
LEMMA InvHolds == Spec => []LinkInv
<1>1. LinkInv /\ [Next]_vars => LinkInv'  BY CountingHolds, LinkStep, Zenon
<1> QED  BY <1>1, LinkInit, PTL DEF Spec

\* The link is type-correct; above all, no ring gets more entries than it has
\* room for: fill_alloc_ring does not ask whether a burst fits.
THEOREM TypeCorrect == Spec => []TypeOK
<1>1. LinkInv => TypeOK  BY TypeParts, Zenon DEF LinkInv
<1> QED  BY <1>1, InvHolds, PTL

\* No mbuf is lost or in use twice: on every path of a request, a reply, an
\* upcall or an error an mbuf has one owner, whatever the sizes of the rings and
\* however many threads the daemon has.
THEOREM MbufsAreConserved == Spec => []MbufsConserved
<1>1. LinkInv /\ Owned => MbufsConserved
  <2> SUFFICES ASSUME LinkInv, Owned PROVE MbufsConserved  BY Zenon
  <2>1. ASSUME NEW m \in Mbuf PROVE Cardinality(Places(m)) = 1
    <3>1. PICK own \in [Mbuf -> Place] : OwnedBy(own)  BY Zenon DEF Owned
    <3>2. PICK p : Places(m) = {p}  BY <3>1, OnePlace, Zenon DEF LinkInv
    <3> QED  BY <3>2, FS_Singleton, Zenon
  <2>2. TypeOK  BY TypeParts, Zenon DEF LinkInv
  <2>3. \A n \in 1 .. 5 : Len(rings[n]) <= RingSize  BY <2>2, Zenon DEF TypeOK
  <2> QED  BY <2>1, <2>3, Zenon DEF MbufsConserved
<1>2. LinkInv /\ Owned /\ [Next]_vars => Owned'  BY CountingHolds, OwnedStep, Zenon
<1> QED  BY <1>1, <1>2, InvHolds, OwnedInit, PTL DEF Spec

\* All the packets of a request that dpdk_link_send_bulk has accepted are
\* executed, each once, and none of a request that it has refused: whatever the
\* size of a burst of packets, and however full the ring is.
THEOREM PacketsAllOrNothing == Spec => []AllOrNothing
<1>1. Init => AllOrNothing  BY CountingHolds, AllInit, Zenon
<1>2. LinkInv /\ AllOrNothing /\ [Next]_vars => AllOrNothing'
  BY CountingHolds, AllStep, Zenon
<1> QED  BY <1>1, <1>2, InvHolds, PTL DEF Spec

\* dpdk_link_recv_reply does not check whose reply it reads; it is the thread's
\* own all the same as long as no two threads have waited at a time, whatever was
\* lost or refused before: no reply is ever left for the next one to wait.
THEOREM RepliesAreOwn == Spec => []OwnReply
<1>1. Init => ReplyInv  BY CountingHolds, ReplyInit, Zenon
<1>2. LinkInv /\ ReplyInv /\ [Next]_vars => ReplyInv'  BY CountingHolds, ReplyStep, Zenon
<1>3. ReplyInv => OwnReply  BY Zenon DEF ReplyInv, Calm, OwnReply
<1> QED  BY <1>1, <1>2, <1>3, InvHolds, PTL DEF Spec

\* No reply is left over, and no thread waits for a reply that nobody is to send:
\* as many requests and replies are on the way as threads wait, however many of
\* them wait at a time and whosever replies they take, until the datapath has run
\* short; and after that never more.
THEOREM RepliesAreOwed == Spec => []RepliesOwed
<1>1. Init => RepliesOwed  BY CountingHolds, OwedInit, Zenon
<1>2. LinkInv /\ RepliesOwed /\ [Next]_vars => RepliesOwed'
  BY CountingHolds, OwedStep, Zenon
<1> QED  BY <1>1, <1>2, InvHolds, PTL DEF Spec
=============================================================================
