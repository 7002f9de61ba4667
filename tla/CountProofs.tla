---------------------------- MODULE CountProofs ----------------------------
(***************************************************************************)
(* Two components of which the proofs count.                               *)
(*                                                                         *)
(* Upcall: for any number of cores and any size of the ring and of the     *)
(* socket, the signals to the dispatcher are at most two for each core,    *)
(* and one.                                                                *)
(*                                                                         *)
(* DeviceList: the list of vhost devices keeps the promise of              *)
(* DeviceNumbers for any number of files and devices, as long as no device *)
(* is reset; and num_cur_devices counts the open files whether or not one  *)
(* is.                                                                     *)
(***************************************************************************)
EXTENDS Upcall, DeviceList, FiniteSetTheorems, TLAPS
-----------------------------------------------------------------------------
(* Upcall *)

\* What a step of a core leaves of the state has its type: send_packet_to_vswitchd.
LEMMA CoreTypes ==
    ASSUME TypeOK, NEW c \in Core, prepend(c) \/ Send(c)
    PROVE  TypeOK'
<1> USE UpcallAssumption DEF TypeOK
<1>0. core[c] \in CoreState
  BY Zenon
<1>1. ASSUME NEW s \in {"idle", "count", "enqueue", "check", "sendto"}, Goto(c, s)
      PROVE  core' \in [Core -> CoreState]
  <2>1. [core[c] EXCEPT !.step = s] \in CoreState
    BY <1>0, Zenon DEF CoreState
  <2> QED
    BY <1>1, <2>1, Zenon DEF Goto
<1>2. CASE prepend(c)
  BY <1>2, <1>1, Zenon DEF prepend
<1>3. CASE count(c)
  <2>1. [step |-> "enqueue", cnt |-> packet_ring] \in CoreState
    BY Zenon DEF CoreState
  <2> QED
    BY <1>3, <2>1, Zenon DEF count
<1>4. CASE enqueue(c)
  BY <1>4, <1>1 DEF enqueue
<1>5. CASE check(c)
  BY <1>5, <1>1, Zenon DEF check
<1>6. CASE send_signal_to_dpif(c)
  BY <1>6, <1>1 DEF send_signal_to_dpif
<1> QED
  BY <1>2, <1>3, <1>4, <1>5, <1>6, Zenon DEF Send

\* Every variable keeps its type; in particular packet_ring never has more
\* than RingSize entries, although the count is read before the packet is put in.
LEMMA UpcallTypes == TypeOK /\ [Next]_vars => TypeOK'
<1> SUFFICES ASSUME TypeOK, [Next]_vars PROVE TypeOK'
  BY Zenon
<1> USE UpcallAssumption DEF TypeOK
<1>1. CASE dpif_dpdk_recv
  BY <1>1 DEF dpif_dpdk_recv, DispatcherState
<1>2. CASE SIGNAL_HANDLED
  BY <1>2 DEF SIGNAL_HANDLED, DispatcherState
<1>3. CASE poll_block
  BY <1>3, Zenon DEF poll_block, DispatcherState
<1>4. CASE \E c \in Core : prepend(c) \/ Send(c)
  BY <1>4, CoreTypes, Zenon
<1>5. CASE UNCHANGED vars
  BY <1>5, Zenon DEF vars
<1> QED
  BY <1>1, <1>2, <1>3, <1>4, <1>5, Zenon DEF Next, Dispatcher

\* The variables of the wakeup protocol always have their types.
THEOREM UpcallTypeCorrect == Spec => []TypeOK
<1>1. Init => TypeOK
  BY UpcallAssumption DEF Init, TypeOK, CoreState, DispatcherState
<1> QED
  BY <1>1, UpcallTypes, PTL DEF Spec
-----------------------------------------------------------------------------
\* The numbers of cores that the invariant counts.
LEMMA Counts ==
    /\ Cardinality(Core) \in Nat
    /\ Cardinality(Owing) \in Nat /\ Cardinality(Found) \in Nat
    /\ IsFiniteSet(Owing) /\ IsFiniteSet(Found)
    /\ Cardinality(Owing) <= Cardinality(Core)
    /\ \A c \in Core : c \notin Found => Cardinality(Found) + 1 <= Cardinality(Core)
<1>1. Owing \in SUBSET Core /\ Found \in SUBSET Core
  BY Zenon DEF Owing, Found
<1>2. IsFiniteSet(Owing) /\ IsFiniteSet(Found)
  BY <1>1, FS_Subset, UpcallAssumption, Zenon
<1>3. Cardinality(Owing) <= Cardinality(Core)
  BY <1>1, FS_Subset, UpcallAssumption, Zenon
<1>4. ASSUME NEW c \in Core, c \notin Found
      PROVE  Cardinality(Found) + 1 <= Cardinality(Core)
  <2>1. Found \cup {c} \in SUBSET Core
    BY <1>1, Zenon
  <2>2. Cardinality(Found \cup {c}) <= Cardinality(Core)
    BY <2>1, FS_Subset, UpcallAssumption, Zenon
  <2>3. Cardinality(Found \cup {c}) = Cardinality(Found) + 1
    BY Zenon, <1>2, <1>4, FS_AddElement
  <2> QED
    BY <2>2, <2>3, Zenon
<1> QED
  BY <1>2, <1>3, <1>4, FS_CardinalityType, UpcallAssumption, Zenon

\* Before the first packet no signal is owed.
LEMMA SignalInit == Init => SignalInv
<1> SUFFICES ASSUME Init PROVE SignalInv
  BY Zenon
<1>1. Owing = {} /\ Found = {}
  BY Zenon DEF Init, Owing, Found
<1>2. Cardinality(Owing) = 0 /\ Cardinality(Found) = 0
  BY <1>1, FS_EmptySet, Zenon
<1> QED
  BY <1>2, Counts DEF Init, SignalInv

\* Where a step of send_packet_to_vswitchd moves its core.
LEMMA CoreMoves ==
    ASSUME TypeOK, NEW c \in Core, NEW r \in CoreState,
           core' = [core EXCEPT ![c] = r]
    PROVE  /\ Owing' = IF r.step = "sendto" \/ (r.step = "check" /\ r.cnt = 0)
                       THEN Owing \cup {c} ELSE Owing \ {c}
           /\ Found' = IF r.step = "enqueue" /\ r.cnt = 0
                       THEN Found \cup {c} ELSE Found \ {c}
  BY Zenon DEF TypeOK, Owing, Found

\* A step of send_packet_to_vswitchd keeps the invariant: only count makes a
\* core a new one that will signal, and it does so while the ring is empty.
LEMMA SendKeepsSignals ==
    ASSUME TypeOK, SignalInv, NEW c \in Core, prepend(c) \/ Send(c)
    PROVE  SignalInv'
<1> DEFINE b == IF dispatcher.step = "handled" THEN 1 ELSE 0
           O == Cardinality(Owing)
           F == Cardinality(Found)
           N == Cardinality(Core)
<1>t. /\ sock \in Nat /\ packet_ring \in Nat /\ b \in {0, 1}
      /\ O \in Nat /\ F \in Nat /\ N \in Nat
      /\ IsFiniteSet(Owing) /\ IsFiniteSet(Found)
      /\ core \in [Core -> CoreState] /\ core[c] \in CoreState
  BY Counts, UpcallAssumption DEF TypeOK
<1>i. sock + O <= packet_ring + N + b /\ sock + O + F <= 2 * N + 1
  BY Zenon DEF SignalInv
<1>s. SUFFICES /\ sock' + Cardinality(Owing') <= packet_ring' + N + b
               /\ sock' + Cardinality(Owing') + Cardinality(Found') <= 2 * N + 1
  <2>1. UNCHANGED dispatcher
    BY Zenon DEF prepend, Send, count, enqueue, check, send_signal_to_dpif
  <2> QED
    BY <2>1, Zenon DEF SignalInv
<1>a. /\ Cardinality(Owing \cup {c}) = IF c \in Owing THEN O ELSE O + 1
      /\ Cardinality(Owing \ {c}) = IF c \in Owing THEN O - 1 ELSE O
      /\ Cardinality(Found \cup {c}) = IF c \in Found THEN F ELSE F + 1
      /\ Cardinality(Found \ {c}) = IF c \in Found THEN F - 1 ELSE F
  BY Zenon, <1>t, FS_AddElement, FS_RemoveElement
<1>c. /\ c \in Owing <=> \/ core[c].step = "sendto"
                         \/ core[c].step = "check" /\ core[c].cnt = 0
      /\ c \in Found <=> core[c].step = "enqueue" /\ core[c].cnt = 0
  BY Zenon DEF Owing, Found
<1>m. ASSUME NEW s \in {"idle", "count", "enqueue", "check", "sendto"}, Goto(c, s)
      PROVE  /\ Owing' = IF s = "sendto" \/ (s = "check" /\ core[c].cnt = 0)
                         THEN Owing \cup {c} ELSE Owing \ {c}
             /\ Found' = IF s = "enqueue" /\ core[c].cnt = 0
                         THEN Found \cup {c} ELSE Found \ {c}
  <2> DEFINE r == [core[c] EXCEPT !.step = s]
  <2>1. r \in CoreState
    BY <1>t, Zenon DEF CoreState
  <2>2. r.step = s /\ r.cnt = core[c].cnt
    BY <1>t, Zenon DEF CoreState
  <2>3. core' = [core EXCEPT ![c] = r]
    BY <1>m, Zenon DEF Goto
  <2> HIDE DEF r
  <2> QED
    BY Zenon, <2>1, <2>2, <2>3, CoreMoves
<1>1. CASE prepend(c)
  <2>1. Owing' = Owing \ {c} /\ Found' = Found \ {c}
    BY <1>1, <1>m, Zenon DEF prepend
  <2> QED
    BY <1>1, <2>1, <1>t, <1>i, <1>a, <1>c, Zenon DEF prepend
<1>2. CASE count(c)
  <2> DEFINE r == [step |-> "enqueue", cnt |-> packet_ring]
  <2>1. r \in CoreState
    BY Zenon DEF CoreState, TypeOK
  <2>2. /\ Owing' = Owing \ {c}
        /\ Found' = IF packet_ring = 0 THEN Found \cup {c} ELSE Found \ {c}
    BY <1>2, <2>1, CoreMoves, Zenon DEF count
  <2>3. c \notin Owing /\ c \notin Found
    BY <1>2, <1>c, Zenon DEF count
  <2>4. F + 1 <= N
    BY <2>3, Counts, Zenon
  <2> HIDE DEF O, F, N, b
  <2> QED
    BY <1>2, <2>2, <2>3, <2>4, <1>t, <1>i, <1>a DEF count
<1>3. CASE enqueue(c)
  <2>1. CASE packet_ring < RingSize /\ packet_ring' = packet_ring + 1 /\ Goto(c, "check")
    <3>1. /\ Owing' = IF core[c].cnt = 0 THEN Owing \cup {c} ELSE Owing \ {c}
          /\ Found' = Found \ {c}
      BY <2>1, <1>m, Zenon
    <3> HIDE DEF O, F, N, b
    <3> QED
      BY <1>3, <2>1, <3>1, <1>t, <1>i, <1>a, <1>c DEF enqueue
  <2>2. CASE Goto(c, "idle") /\ UNCHANGED packet_ring
    <3>1. Owing' = Owing \ {c} /\ Found' = Found \ {c}
      BY <2>2, <1>m, Zenon
    <3> HIDE DEF O, F, N, b
    <3> QED
      BY <1>3, <2>2, <3>1, <1>t, <1>i, <1>a, <1>c DEF enqueue
  <2> QED
    BY <1>3, <2>1, <2>2, Zenon DEF enqueue
<1>4. CASE check(c)
  <2>1. /\ Owing' = IF core[c].cnt = 0 /\ packet_ring > 0
                    THEN Owing \cup {c} ELSE Owing \ {c}
        /\ Found' = Found \ {c}
    BY <1>4, <1>m, Zenon DEF check
  <2> HIDE DEF O, F, N, b
  <2> QED
    BY <1>4, <2>1, <1>t, <1>i, <1>a, <1>c DEF check
<1>5. CASE send_signal_to_dpif(c)
  <2>1. Owing' = Owing \ {c} /\ Found' = Found \ {c}
    BY <1>5, <1>m, Zenon DEF send_signal_to_dpif
  <2>2. sock' <= sock + 1 /\ sock' \in Nat
    BY <1>5, <1>t DEF send_signal_to_dpif
  <2> HIDE DEF O, F, N, b
  <2> QED
    BY <1>5, <2>1, <2>2, <1>t, <1>i, <1>a, <1>c DEF send_signal_to_dpif
<1> QED
  BY <1>1, <1>2, <1>3, <1>4, <1>5, Zenon DEF Send

\* So does a step of udpif_dispatcher: dpif_dpdk_recv owes one datagram to the
\* socket for each packet that it takes, and SIGNAL_HANDLED takes it.
LEMMA DispatcherKeepsSignals ==
    ASSUME TypeOK, SignalInv, Dispatcher
    PROVE  SignalInv'
<1> DEFINE O == Cardinality(Owing)
           F == Cardinality(Found)
           N == Cardinality(Core)
<1>1. Owing' = Owing /\ Found' = Found
  BY Zenon DEF Dispatcher, dpif_dpdk_recv, SIGNAL_HANDLED, poll_block, Owing, Found
<1>2. O' = O /\ F' = F
  BY <1>1, Zenon
<1>3. /\ O \in Nat /\ F \in Nat /\ N \in Nat /\ O <= N
      /\ sock \in Nat /\ packet_ring \in Nat
  BY Counts, UpcallAssumption DEF TypeOK
<1> HIDE DEF O, F, N
<1>4. SignalInv' = (/\ sock' + O <= packet_ring' + N
                                      + (IF dispatcher.step = "handled" THEN 1 ELSE 0)'
                    /\ sock' + O + F <= 2 * N + 1)
  BY <1>2, Zenon DEF SignalInv, O, F, N
<1>5. /\ sock + O <= packet_ring + N + (IF dispatcher.step = "handled" THEN 1 ELSE 0)
      /\ sock + O + F <= 2 * N + 1
  BY Zenon DEF SignalInv, O, F, N
<1>6. CASE dpif_dpdk_recv
  BY <1>3, <1>4, <1>5, <1>6 DEF dpif_dpdk_recv
<1>7. CASE SIGNAL_HANDLED
  <2>1. (IF dispatcher.step = "handled" THEN 1 ELSE 0)' = 0
    BY <1>7, Zenon DEF SIGNAL_HANDLED, TypeOK, DispatcherState
  <2> QED
    BY <1>3, <1>4, <1>5, <1>7, <2>1 DEF SIGNAL_HANDLED
<1>8. CASE poll_block
  <2>1. (IF dispatcher.step = "handled" THEN 1 ELSE 0)' = 0
    BY <1>8, Zenon DEF poll_block, TypeOK, DispatcherState
  <2> QED
    BY <1>3, <1>4, <1>5, <1>8, <2>1, Zenon DEF poll_block
<1> QED
  BY <1>6, <1>7, <1>8, Zenon DEF Dispatcher

\* The signals that are in the socket or owed to it are bounded by the packets
\* in the ring and by the number of cores.
THEOREM SignalInvariance == Spec => []SignalInv
<1>1. TypeOK /\ SignalInv /\ [Next]_vars => SignalInv'
  <2> SUFFICES ASSUME TypeOK, SignalInv, [Next]_vars PROVE SignalInv'
    BY Zenon
  <2>1. CASE UNCHANGED vars
    <3>1. Owing' = Owing /\ Found' = Found
      BY <2>1, Zenon DEF vars, Owing, Found
    <3> QED
      BY <2>1, <3>1, Zenon DEF vars, SignalInv
  <2> QED
    BY <2>1, SendKeepsSignals, DispatcherKeepsSignals, Zenon DEF Next
<1> QED
  BY <1>1, SignalInit, UpcallTypeCorrect, PTL DEF Spec

\* The socket never holds more than two datagrams for each core, and one: with
\* as many as it has room for, no sendto of send_signal_to_dpif is refused.
THEOREM SignalsAreBounded == Spec => []SignalsBounded
<1>1. TypeOK /\ SignalInv => SignalsBounded
  BY Counts, UpcallAssumption DEF TypeOK, SignalInv, SignalsBounded
<1> QED
  BY <1>1, SignalInvariance, UpcallTypeCorrect, PTL
-----------------------------------------------------------------------------
(* DeviceList *)

Inv == ListTypeOK /\ ListInv

\* The list and an entry of it.
LEMMA ListFacts ==
    ASSUME ListTypeOK
    PROVE  /\ Len(ll) \in Nat /\ DOMAIN ll = 1 .. Len(ll)
           /\ \A i \in 1 .. Len(ll) : /\ ll[i] \in Entry /\ ll[i].file \in File
                                      /\ ll[i].device_fh \in Nat
<1>1. Len(ll) \in Nat /\ DOMAIN ll = 1 .. Len(ll)  BY DEF ListTypeOK
<1>2. \A i \in 1 .. Len(ll) : ll[i] \in Entry  BY DEF ListTypeOK
<1> QED  BY <1>1, <1>2, Zenon DEF Entry

\* What an insertion makes of the list.
LEMMA InsertedFacts ==
    ASSUME ListTypeOK, NEW k \in 0 .. Len(ll), NEW e \in Entry
    PROVE  /\ Inserted(k, e) \in Seq(Entry)
           /\ Len(Inserted(k, e)) = Len(ll) + 1
           /\ \A i \in 1 .. Len(ll) + 1 :
                  Inserted(k, e)[i] = IF i <= k THEN ll[i]
                                      ELSE IF i = k + 1 THEN e ELSE ll[i - 1]
<1>1. \A i \in 1 .. Len(ll) + 1 : Inserted(k, e)[i] \in Entry
  BY ListFacts DEF Inserted
<1> QED  BY <1>1, ListFacts DEF Inserted

\* What a removal leaves of it.
LEMMA RemovedFacts ==
    ASSUME ListTypeOK, NEW k \in 1 .. Len(ll)
    PROVE  /\ Removed(k) \in Seq(Entry)
           /\ Len(Removed(k)) = Len(ll) - 1
           /\ \A i \in 1 .. Len(ll) - 1 :
                  Removed(k)[i] = IF i < k THEN ll[i] ELSE ll[i + 1]
<1>1. \A i \in 1 .. Len(ll) - 1 : Removed(k)[i] \in Entry
  BY ListFacts DEF Removed
<1> QED  BY <1>1, ListFacts DEF Removed

\* Where the run ends, every later number is larger.
LEMMA Gap ==
    ASSUME Inv, NEW k \in 0 .. Len(ll), Run(k)
    PROVE  \A i \in 1 .. Len(ll) : i > k => ll[i].device_fh > k
<1>1. CASE k = Len(ll)  BY <1>1, ListFacts DEF Inv
<1>2. CASE k < Len(ll)
  <2>1. ll[k + 1].device_fh > k
    BY <1>2, ListFacts DEF Inv, ListInv, Ascending, Run
  <2>2. \A i \in 1 .. Len(ll) : i > k + 1 =>
            ll[k + 1].device_fh < ll[i].device_fh
    BY <1>2, ListFacts DEF Inv, ListInv, Ascending
  <2> QED  BY <1>2, <2>1, <2>2, ListFacts DEF Inv
<1>3. Len(ll) \in Nat  BY ListFacts, Zenon DEF Inv
<1> QED  BY <1>1, <1>2, <1>3

\* Opening a file keeps the list sorted and its entries those of the open
\* files.
LEMMA NewDeviceStep ==
    ASSUME Inv, NEW f \in File, new_device(f)
    PROVE  Inv'
<1> USE DEF Inv
<1>1. PICK k \in 0 .. Len(ll) :
          /\ Run(k)
          /\ ll' = Inserted(k, [device_fh |-> k, file |-> f])
          /\ fh' = [fh EXCEPT ![f] = k]
  BY Zenon DEF new_device, add_config_ll_entry
<1> DEFINE e == [device_fh |-> k, file |-> f]
<1>2. k \in Nat /\ e \in Entry  BY ListFacts DEF Entry
<1>3. /\ ll' \in Seq(Entry) /\ Len(ll') = Len(ll) + 1
      /\ \A i \in 1 .. Len(ll) + 1 :
             ll'[i] = IF i <= k THEN ll[i] ELSE IF i = k + 1 THEN e ELSE ll[i - 1]
  BY <1>1, <1>2, InsertedFacts
<1>4. ListTypeOK'
  BY <1>1, <1>2, <1>3, ListAssumption DEF ListTypeOK, new_device
<1>5. Ascending'
  <2> SUFFICES ASSUME NEW i \in 1 .. Len(ll) + 1, NEW j \in 1 .. Len(ll) + 1,
                      i < j
               PROVE  ll'[i].device_fh < ll'[j].device_fh
    BY <1>3, Zenon DEF Ascending
  <2>1. \A n \in 1 .. k : ll[n].device_fh < k
    BY <1>1, ListFacts DEF Run
  <2>2. \A n \in 1 .. Len(ll) : n > k => ll[n].device_fh > k  BY <1>1, Gap, Zenon
  <2>3. CASE j <= k
    <3>1. ll'[i] = ll[i] /\ ll'[j] = ll[j] /\ j \in 1 .. Len(ll)
      BY <1>3, <2>3, ListFacts
    <3> QED  BY <3>1 DEF ListInv, Ascending
  <2>4. CASE j = k + 1
    BY <1>2, <1>3, <2>1, <2>4, ListFacts
  <2>5. CASE j > k + 1
    <3>1. ll'[j] = ll[j - 1] /\ j - 1 \in 1 .. Len(ll) /\ j - 1 > k
      BY <1>2, <1>3, <2>5, ListFacts
    <3>2. CASE i <= k
      <4>1. ll'[i] = ll[i] /\ i \in 1 .. Len(ll) /\ i < j - 1
        BY <1>3, <2>5, <3>2, ListFacts
      <4> QED  BY <3>1, <4>1, Zenon DEF ListInv, Ascending
    <3>3. CASE i = k + 1
      BY <1>2, <1>3, <2>2, <3>1, <3>3
    <3>4. CASE i > k + 1
      <4>1. ll'[i] = ll[i - 1] /\ i - 1 \in 1 .. Len(ll) /\ i - 1 < j - 1
        BY <1>2, <1>3, <3>4, ListFacts
      <4> QED  BY <3>1, <4>1, Zenon DEF ListInv, Ascending
    <3> QED  BY <1>2, <3>2, <3>3, <3>4
  <2> QED  BY <1>2, <2>3, <2>4, <2>5
<1>6. ASSUME NEW i \in 1 .. Len(ll) + 1
      PROVE  fh'[ll'[i].file] = ll'[i].device_fh
  <2>1. \A n \in 1 .. Len(ll) : ll[n].file # f
    BY ListFacts DEF ListInv, new_device, Closed
  <2>2. \A n \in 1 .. Len(ll) : fh'[ll[n].file] = ll[n].device_fh
    BY <1>1, <2>1, ListFacts, Zenon DEF ListInv, ListTypeOK
  <2>3. CASE i <= k
    BY <1>2, <1>3, <2>2, <2>3, ListFacts
  <2>4. CASE i = k + 1
    BY <1>1, <1>2, <1>3, <2>4 DEF ListTypeOK
  <2>5. CASE i > k + 1
    <3>1. ll'[i] = ll[i - 1] /\ i - 1 \in 1 .. Len(ll)
      BY <1>2, <1>3, <2>5, ListFacts
    <3> QED  BY <2>2, <3>1, Zenon
  <2> QED  BY <1>2, <2>3, <2>4, <2>5
<1>7. ASSUME NEW g \in File, fh'[g] # Closed
      PROVE  \E i \in 1 .. Len(ll) + 1 : ll'[i].file = g
  <2>1. CASE g = f  BY <1>3, <2>1, ListFacts
  <2>2. CASE g # f
    <3>1. PICK i \in 1 .. Len(ll) : ll[i].file = g
      BY <1>1, <1>7, <2>2, Zenon DEF ListInv, ListTypeOK
    <3>2. CASE i <= k  BY <1>3, <3>1, <3>2, ListFacts
    <3>3. CASE i > k
      <4>1. i + 1 \in 1 .. Len(ll) + 1 /\ ll'[i + 1] = ll[i]
        <5>1. i + 1 \in 1 .. Len(ll) + 1 /\ ~ (i + 1 <= k) /\ i + 1 # k + 1
              /\ (i + 1) - 1 = i
          BY <1>2, <3>3, ListFacts
        <5> QED  BY <1>3, <5>1
      <4> QED  BY <3>1, <4>1, Zenon
    <3> QED  BY <3>2, <3>3, ListFacts
  <2> QED  BY <2>1, <2>2, Zenon
<1>8. Counted'
  BY <1>3, Zenon DEF ListInv, Counted, new_device
<1> QED  BY <1>3, <1>4, <1>5, <1>6, <1>7, <1>8, Zenon DEF ListInv

\* Closing a file removes its own entry.
LEMMA DestroyDeviceStep ==
    ASSUME Inv, NEW f \in File, destroy_device(f)
    PROVE  Inv'
<1> USE DEF Inv
<1>1. PICK m \in 1 .. Len(ll) : ll[m].file = f
  BY Zenon DEF destroy_device, ListInv
<1>2. m \in get_config_ll_entry(fh[f])
  BY <1>1, ListFacts DEF get_config_ll_entry, ListInv, Ascending
<1>3. PICK k \in get_config_ll_entry(fh[f]) : ll' = Removed(k)
  BY <1>2, Zenon DEF destroy_device
<1>4. k = m
  BY <1>1, <1>2, ListFacts DEF get_config_ll_entry
<1>5. /\ ll' \in Seq(Entry) /\ Len(ll') = Len(ll) - 1
      /\ \A i \in 1 .. Len(ll) - 1 : ll'[i] = IF i < m THEN ll[i] ELSE ll[i + 1]
  BY <1>3, <1>4, RemovedFacts, Zenon
<1>6. ListTypeOK'
  BY <1>1, <1>5, ListAssumption, ListFacts
     DEF ListTypeOK, destroy_device, ListInv, Counted
<1> DEFINE old(i) == IF i < m THEN i ELSE i + 1
<1>a. \A i \in 1 .. Len(ll) - 1 :
          old(i) \in 1 .. Len(ll) /\ old(i) # m /\ ll'[i] = ll[old(i)]
  BY <1>1, <1>5, ListFacts
<1>b. \A i, j \in 1 .. Len(ll) - 1 : i < j => old(i) < old(j)
  BY <1>1, ListFacts
<1> HIDE DEF old
<1>7. Ascending'
  <2> SUFFICES ASSUME NEW i \in 1 .. Len(ll) - 1, NEW j \in 1 .. Len(ll) - 1,
                      i < j
               PROVE  ll'[i].device_fh < ll'[j].device_fh
    BY <1>5, Zenon DEF Ascending
  <2>1. ll[old(i)].device_fh < ll[old(j)].device_fh
    BY <1>a, <1>b, Zenon DEF ListInv, Ascending
  <2> QED  BY <1>a, <2>1, Zenon
<1>8. \A n \in 1 .. Len(ll) : n # m => ll[n].file # f
  BY <1>1, ListFacts DEF ListInv, Ascending
<1>9. ASSUME NEW i \in 1 .. Len(ll) - 1
      PROVE  fh'[ll'[i].file] = ll'[i].device_fh
  <2>1. \A n \in 1 .. Len(ll) : n # m => fh'[ll[n].file] = ll[n].device_fh
    BY <1>8, ListFacts, Zenon DEF destroy_device, ListInv, ListTypeOK
  <2> QED  BY <1>a, <2>1, Zenon
<1>10. ASSUME NEW g \in File, fh'[g] # Closed
       PROVE  \E i \in 1 .. Len(ll) - 1 : ll'[i].file = g
  <2>1. g # f /\ fh[g] # Closed
    BY <1>10, Zenon DEF destroy_device, ListTypeOK
  <2>2. PICK i \in 1 .. Len(ll) : ll[i].file = g  BY <2>1, Zenon DEF ListInv
  <2>3. CASE i < m
    BY <1>1, <1>5, <2>2, <2>3, ListFacts
  <2>4. CASE i > m
    <3>1. i - 1 \in 1 .. Len(ll) - 1 /\ ~ (i - 1 < m) /\ (i - 1) + 1 = i
      BY <1>1, <2>4, ListFacts
    <3> QED  BY Zenon, <1>5, <2>2, <3>1
  <2> QED  BY <1>1, <2>1, <2>2, <2>3, <2>4
<1>11. Counted'
  BY <1>5, ListFacts, Zenon DEF ListInv, Counted, destroy_device
<1> QED  BY <1>5, <1>6, <1>7, <1>9, <1>10, <1>11, Zenon DEF ListInv

\* num_cur_devices is the number of open files, and there are finitely many.
CountInv == IsFiniteSet(Opened) /\ OpenCounted

\* Every action keeps the types, and the count of open files.
LEMMA TypeStep == ListTypeOK /\ CountInv /\ [ListNext]_listVars => ListTypeOK' /\ CountInv'
<1> SUFFICES ASSUME ListTypeOK, CountInv, [ListNext]_listVars PROVE ListTypeOK' /\ CountInv'
  BY Zenon
<1>0. fh \in [File -> Nat \cup {Closed}]  BY Zenon DEF ListTypeOK
<1>1. ASSUME NEW f \in File, new_device(f) PROVE ListTypeOK' /\ CountInv'
  <2>1. PICK k \in 0 .. Len(ll) : /\ ll' = Inserted(k, [device_fh |-> k, file |-> f])
                                  /\ fh' = [fh EXCEPT ![f] = k]
    BY <1>1, Zenon DEF new_device, add_config_ll_entry
  <2>2. k \in Nat /\ [device_fh |-> k, file |-> f] \in Entry
    BY ListFacts DEF Entry
  <2>3. ll' \in Seq(Entry)  BY <2>1, <2>2, InsertedFacts, Zenon
  <2>4. f \notin Opened /\ Opened' = Opened \cup {f}
    BY <1>0, <1>1, <2>1, <2>2 DEF new_device, Opened, Closed
  <2>5. CountInv'
    BY <1>1, <2>4, FS_AddElement, Zenon DEF CountInv, OpenCounted, new_device
  <2>6. num_cur_devices' \in 0 .. NumDevices /\ resets' = resets
    BY <1>1, ListAssumption DEF ListTypeOK, new_device
  <2> QED  BY <1>0, <2>1, <2>2, <2>3, <2>5, <2>6, Zenon DEF ListTypeOK
<1>2. ASSUME NEW f \in File, destroy_device(f) PROVE ListTypeOK' /\ CountInv'
  <2>1. ll' \in Seq(Entry)
    <3>1. \A k \in get_config_ll_entry(fh[f]) : k \in 1 .. Len(ll)
      BY Zenon DEF get_config_ll_entry
    <3> QED  BY <1>2, <3>1, RemovedFacts, Zenon DEF destroy_device, ListTypeOK
  <2>2. f \in Opened /\ Opened' = Opened \ {f}
    BY <1>0, <1>2, Zenon DEF destroy_device, Opened
  <2>3. /\ IsFiniteSet(Opened') /\ Cardinality(Opened') = Cardinality(Opened) - 1
        /\ Cardinality(Opened') \in Nat
    BY <2>2, FS_RemoveElement, FS_CardinalityType, Zenon DEF CountInv, OpenCounted
  <2>4. CountInv' /\ num_cur_devices' \in 0 .. NumDevices
    <3>1. num_cur_devices' = num_cur_devices - 1  BY <1>2, Zenon DEF destroy_device
    <3>2. num_cur_devices' = Cardinality(Opened')  BY <2>3, <3>1, Zenon DEF CountInv, OpenCounted
    <3>3. num_cur_devices' \in 0 .. NumDevices
      BY <2>3, <3>1, <3>2, ListAssumption DEF ListTypeOK
    <3> QED  BY <2>3, <3>2, <3>3, Zenon DEF CountInv, OpenCounted
  <2>5. fh' \in [File -> Nat \cup {Closed}] /\ resets' = resets
    BY <1>0, <1>2, Zenon DEF destroy_device
  <2> QED  BY <2>1, <2>4, <2>5, Zenon DEF ListTypeOK
<1>3. ASSUME NEW f \in File, reset_owner(f) PROVE ListTypeOK' /\ CountInv'
  <2>1. PICK k \in get_config_ll_entry(fh[f]) : ll' = [ll EXCEPT ![k].device_fh = 0]
    BY <1>3, Zenon DEF reset_owner
  <2>2. k \in 1 .. Len(ll) /\ ll[k] \in Entry
    BY ListFacts, Zenon DEF get_config_ll_entry
  <2>3. [ll[k] EXCEPT !.device_fh = 0] \in Entry  BY <2>2, Zenon DEF Entry
  <2>4. ll' \in Seq(Entry)  BY <2>1, <2>2, <2>3 DEF ListTypeOK
  <2>5. UNCHANGED <<num_cur_devices, fh>> /\ resets' \in 0 .. MaxReset
    BY <1>3, ListAssumption DEF reset_owner, ListTypeOK
  <2> QED  BY <2>4, <2>5, Zenon DEF ListTypeOK, CountInv, OpenCounted, Opened
<1>4. CASE UNCHANGED listVars
  BY <1>4, Zenon DEF listVars, ListTypeOK, CountInv, OpenCounted, Opened
<1> QED  BY <1>1, <1>2, <1>3, <1>4, Zenon DEF ListNext

\* The types and the count are right at all times, whether or not a device is
\* reset.
THEOREM TypeInvariance == ListSpec => [](ListTypeOK /\ CountInv)
<1>1. ListInit => ListTypeOK /\ CountInv
  <2> SUFFICES ASSUME ListInit PROVE ListTypeOK /\ CountInv  BY Zenon
  <2>1. Opened = {}  BY Zenon DEF ListInit, Opened
  <2>2. CountInv  BY <2>1, FS_EmptySet, Zenon DEF ListInit, CountInv, OpenCounted
  <2> QED  BY <2>2, ListAssumption DEF ListInit, ListTypeOK
<1> QED  BY <1>1, TypeStep, PTL DEF ListSpec

\* num_cur_devices, which goes down at every close, stays within 0 and
\* num_devices, and the other variables keep their types.
THEOREM TypeCorrect == ListSpec => []ListTypeOK
BY TypeInvariance, PTL

\* Until a device is reset.
Unreset == resets \in Nat /\ (resets = 0 => Inv)

\* Steps that do not reset a device, and a first reset is not forgotten.
LEMMA ResetsStay ==
    ASSUME Unreset, [ListNext]_listVars
    PROVE  /\ resets' \in Nat
           /\ resets' = 0 =>
                  /\ Inv
                  /\ \/ \E f \in File : new_device(f) \/ destroy_device(f)
                     \/ UNCHANGED listVars
<1>1. ASSUME NEW f \in File, reset_owner(f) PROVE resets' = resets + 1
  BY <1>1, Zenon DEF reset_owner
<1>2. ASSUME NEW f \in File, new_device(f) \/ destroy_device(f)
      PROVE  resets' = resets
  BY <1>2, Zenon DEF new_device, destroy_device
<1>3. CASE UNCHANGED listVars  BY <1>3, Zenon DEF listVars, Unreset
<1> QED  BY <1>1, <1>2, <1>3 DEF ListNext, Unreset

\* The list is sorted and complete as long as no device is reset.
THEOREM ListInvariance == ListSpec => []Unreset
<1>1. ListInit => Unreset
  BY ListAssumption
     DEF ListInit, Unreset, Inv, ListTypeOK, ListInv, Ascending, Counted, Closed
<1>2. Unreset /\ [ListNext]_listVars => Unreset'
  <2> SUFFICES ASSUME Unreset, [ListNext]_listVars, resets' = 0 PROVE Inv'
    BY ResetsStay, Zenon DEF Unreset
  <2>1. Inv  BY ResetsStay, Zenon
  <2>2. CASE UNCHANGED listVars
    BY <2>1, <2>2, Zenon DEF listVars, Inv, ListTypeOK, ListInv, Ascending, Counted
  <2> QED  BY <2>1, <2>2, ResetsStay, NewDeviceStep, DestroyDeviceStep, Zenon
<1> QED  BY <1>1, <1>2, PTL DEF ListSpec

\* The number that CUSE keeps leads to the device of the file, for any number
\* of files and devices and any order of opening and closing, until a device
\* is reset.
THEOREM EveryFileFindsItsDevice == ListSpec => []FindsOwnDevice
<1>1. Unreset => FindsOwnDevice
  <2> SUFFICES ASSUME Inv, NEW f \in File, fh[f] # Closed
               PROVE  \E k \in get_config_ll_entry(fh[f]) : ll[k].file = f
    BY Zenon DEF FindsOwnDevice, Unreset
  <2>1. PICK m \in 1 .. Len(ll) : ll[m].file = f  BY Zenon DEF Inv, ListInv
  <2>2. m \in get_config_ll_entry(fh[f])
    BY <2>1, ListFacts DEF get_config_ll_entry, Inv, ListInv, Ascending
  <2> QED  BY <2>1, <2>2, Zenon
<1> QED  BY <1>1, ListInvariance, PTL

\* num_cur_devices is the number of open files, and the length of the list
\* until a device is reset.
THEOREM CountIsRight == ListSpec => []CountAgrees
<1>1. Unreset /\ CountInv => CountAgrees
  BY Zenon DEF Unreset, Inv, ListInv, CountInv, CountAgrees
<1> QED  BY <1>1, ListInvariance, TypeInvariance, PTL

\* Opening a file is opening it in DeviceNumbers.
LEMMA OpenRefined ==
    ASSUME Inv, NEW f \in File, new_device(f)
    PROVE  Numbers!Open(f)
<1> USE DEF Inv
<1>1. PICK k \in 0 .. Len(ll) : Run(k) /\ fh' = [fh EXCEPT ![f] = k]
  BY Zenon DEF new_device, add_config_ll_entry
<1>2. f \notin Opened /\ Opened' = Opened \cup {f}
  BY <1>1, ListFacts DEF new_device, Closed, ListTypeOK, Opened
<1>3. k \in 0 .. NumDevices - 1
  BY ListFacts, ListAssumption DEF new_device, ListInv, Counted, ListTypeOK
<1>4. \A g \in Opened : fh[g] # k
  <2> SUFFICES ASSUME NEW g \in Opened PROVE fh[g] # k
    BY Zenon
  <2>1. PICK i \in 1 .. Len(ll) : ll[i].file = g  BY Zenon DEF ListInv, Opened
  <2>2. fh[g] = ll[i].device_fh  BY <2>1, Zenon DEF ListInv
  <2>3. CASE i <= k  BY <1>1, <2>2, <2>3, ListFacts DEF Run
  <2>4. CASE i > k   BY <1>1, <2>2, <2>4, Gap, ListFacts
  <2> QED  BY <2>3, <2>4, ListFacts
<1>5. \A j \in 0 .. k - 1 : \E g \in Opened : fh[g] = j
  <2> SUFFICES ASSUME NEW j \in 0 .. k - 1 PROVE \E g \in Opened : fh[g] = j
    BY Zenon
  <2>1. j + 1 \in 1 .. k /\ j + 1 \in 1 .. Len(ll)  BY ListFacts
  <2>2. ll[j + 1].device_fh = j  BY <1>1, <2>1, ListFacts DEF Run
  <2> QED  BY <2>1, <2>2, ListFacts DEF ListInv, Closed, Opened
<1>6. Number' = [g \in Opened \cup {f} |-> IF g = f THEN k ELSE Number[g]]
  BY <1>1, <1>2, Zenon DEF ListTypeOK, Number, Opened
<1>7. DOMAIN Number = Opened /\ Numbers!Used = {fh[g] : g \in Opened}
  BY Zenon DEF Number, Numbers!Used
<1>8. k \notin Numbers!Used /\ 0 .. k - 1 \subseteq Numbers!Used
  BY <1>4, <1>5, <1>7, Zenon
<1> QED  BY <1>2, <1>3, <1>6, <1>7, <1>8, Zenon DEF Numbers!Open

\* Closing a file is closing it in DeviceNumbers.
LEMMA CloseRefined ==
    ASSUME Inv, NEW f \in File, destroy_device(f)
    PROVE  Numbers!Close(f)
<1>1. f \in Opened /\ fh' = [fh EXCEPT ![f] = Closed]
  BY Zenon DEF destroy_device, Opened
<1>2. Opened' = Opened \ {f}
  BY <1>1, Zenon DEF Inv, ListTypeOK, Opened
<1>3. \A g \in Opened \ {f} : fh'[g] = fh[g]
  BY <1>1, Zenon DEF Inv, ListTypeOK, Opened
<1> QED  BY <1>1, <1>2, <1>3, Zenon DEF Numbers!Close, Number

\* The list of virtio-net.c gives out the smallest free number, and a number
\* stands for one file until it is closed, for any number of files and devices,
\* until a device is reset.
THEOREM ListKeepsPromise == ListSpec => KeepsPromise
<1>1. ListInit => Numbers!Init
  BY Zenon DEF ListInit, Numbers!Init, Number, Opened
<1>2. Unreset /\ [ListNext]_listVars => [resets' = 0 => Numbers!Next \/ UNCHANGED Number]_listVars
  <2> SUFFICES ASSUME Unreset, [ListNext]_listVars, resets' = 0
               PROVE  Numbers!Next \/ UNCHANGED listVars
    BY Zenon
  <2> QED  BY ResetsStay, OpenRefined, CloseRefined, Zenon DEF Numbers!Next
<1> QED  BY <1>1, <1>2, ListInvariance, PTL DEF ListSpec, KeepsPromise
=============================================================================
