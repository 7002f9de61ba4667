------------------------------ MODULE Forward ------------------------------
(***************************************************************************)
(* What happens to a packet once its actions are known: action_execute     *)
(* (action.c), the per-core caches and the rings behind send_to_vport      *)
(* (vport.c), the loops of the lcores that flush them (main.c), and the    *)
(* client that sends back what it has read (guest/ovs_client).             *)
(*                                                                         *)
(* An action list is a sequence of vports (output) and of "set", which     *)
(* stands for every action that writes to the packet: it makes the next of *)
(* a few different contents.  A clone of DPDK (external) has an mbuf of    *)
(* its own but shares the data of the mbuf that it was made of.            *)
(* action_execute clones whatever it is given, which may be a clone that a *)
(* client sends back, and frees both alike: the mbuf that owns the data    *)
(* counts all of its sharers.                                              *)
(***************************************************************************)
EXTENDS Integers, Sequences, FiniteSets

CONSTANTS
    Core,        \* lcores
    Phy, Client, Vhost, Kni, Other,   \* vports by type; Kni: vETH as well
    PortOf,      \* the physical port of a core; NoPort: client_switching_core
    NoPort,
    Mbuf,        \* the mbufs of the pool
    NoMbuf,      \* NULL
    Lists,       \* the action lists of the flows
    Contents,    \* bound: contents of a packet; every write makes the next one
    Burst,       \* PKT_BURST_SIZE, PKT_READ_SIZE
    CacheSize,   \* LOCAL_MBUF_CACHE_SIZE
    RingSize     \* of the rings of each port (CLIENT_QUEUE_RINGSIZE - 1), or KNI fifo

Cached == Phy \cup Client \cup Vhost
Queued == Phy \cup Client \cup Kni
Port == Cached \cup Kni \cup Other

ASSUME ForwardAssumption ==
    /\ IsFiniteSet(Mbuf) /\ NoMbuf \notin Mbuf /\ NoPort \notin Port
    /\ Client # {} /\ PortOf \in [Core -> Phy \cup {NoPort}]
    /\ Lists \subseteq Seq(Port \cup {"set"})
    /\ Burst \in Nat \ {0} /\ CacheSize \in Nat \ {0} /\ RingSize \in [Queued -> Nat]
    /\ Contents \in Nat \ {0}

VARIABLES
    ref,         \* refcnt of each mbuf; 0 is in the pool
    attached,    \* the mbuf whose data a clone shares
    data,        \* the contents of the data of each mbuf
    wanted,      \* those that it had when it was output
    late,        \* history: mbufs whose data is written to after an output
    lost,        \* history: mbufs that are neither output nor freed
    cache,       \* client_, port_ and vhost_mbuf_cache
    queue,       \* tx_q of physical ports, rx_q of clients, fifos of KNI
    tx_q,        \* tx_q of clients
    free_q,      \* free_q of clients
    hand,        \* the pkts that a client has read
    due,         \* port_flush_period has passed since the port was drained
    core         \* the loop of each lcore

mbufs == <<ref, attached, data, wanted, late, lost>>
rings == <<cache, queue, free_q>>
client == <<tx_q, hand>>
vars == <<mbufs, rings, client, due, core>>

Least(m, n) == IF m < n THEN m ELSE n
Elements(s) == {s[i] : i \in DOMAIN s}
First(n, s) == SubSeq(s, 1, n)
After(n, s) == SubSeq(s, n + 1, Len(s))
pool == {m \in Mbuf : ref[m] = 0}

\* rte_pktmbuf_alloc, n times: the mbufs of the pool are alike, so some stand for
\* any.
alloc(n) == CHOOSE s \in [1 .. n -> pool] : \A i, j \in 1 .. n : s[i] = s[j] => i = j

\* bufs: the rest of the burst, and next: what follows it; multiple: the value of
\* check_for_multiple_output; held: mbuf is this core's; out: what goes to port.
CoreState ==
    [step : {"client", "receive", "switch", "execute", "send", "flush", "nic"},
     bufs : Seq(Mbuf), next : {"receive", "flush"}, mbuf : Mbuf \cup {NoMbuf},
     held : BOOLEAN, rest : Seq(Port \cup {"set"}), multiple : BOOLEAN,
     out : Mbuf \cup {NoMbuf}, port : Port \cup {NoPort}]

TypeOK ==
    /\ ref \in [Mbuf -> Nat]
    /\ attached \in [Mbuf -> Mbuf \cup {NoMbuf}]
    /\ data \in [Mbuf -> 0 .. Contents - 1] /\ wanted \in [Mbuf -> 0 .. Contents - 1]
    /\ late \subseteq Mbuf /\ lost \subseteq Mbuf
    /\ cache \in [Core -> [Cached -> Seq(Mbuf)]]
    /\ \A c \in Core, p \in Cached : Len(cache[c][p]) < CacheSize
    /\ queue \in [Queued -> Seq(Mbuf)]
    /\ \A p \in Queued : Len(queue[p]) <= RingSize[p]
    /\ tx_q \in [Client -> Seq(Mbuf)] /\ free_q \in [Client -> Seq(Mbuf)]
    /\ hand \in [Client -> Seq(Mbuf)]
    /\ \A p \in Client : /\ Len(tx_q[p]) <= RingSize[p]
                         /\ Len(free_q[p]) + Len(hand[p]) <= RingSize[p]
    /\ due \in [Phy -> BOOLEAN]
    /\ core \in [Core -> CoreState]

\* A core that has no packet.
Between(step, bufs, next) ==
    [step |-> step, bufs |-> bufs, next |-> next, mbuf |-> NoMbuf, held |-> FALSE,
     rest |-> <<>>, multiple |-> FALSE, out |-> NoMbuf, port |-> NoPort]

\* do_client_switching starts with the packets of a client.
Start(c) == Between(IF PortOf[c] = NoPort THEN "client" ELSE "receive", <<>>, "flush")

Init ==
    /\ ref = [m \in Mbuf |-> 0] /\ attached = [m \in Mbuf |-> NoMbuf]
    /\ data = [m \in Mbuf |-> 0] /\ wanted = [m \in Mbuf |-> 0]
    /\ late = {} /\ lost = {}
    /\ cache = [c \in Core |-> [p \in Cached |-> <<>>]]
    /\ queue = [p \in Queued |-> <<>>]
    /\ tx_q = [p \in Client |-> <<>>] /\ free_q = [p \in Client |-> <<>>]
    /\ hand = [p \in Client |-> <<>>]
    /\ due = [p \in Phy |-> FALSE]
    /\ core = [c \in Core |-> Start(c)]

\* rte_pktmbuf_free of the mbufs in F; a clone that nobody has any more also gives
\* up the data.  What an mbuf of the pool holds does not matter.
free(F) ==
    LET gone == {m \in F : ref[m] = 1} IN
    /\ ref' = [m \in Mbuf |-> ref[m] - (IF m \in F THEN 1 ELSE 0)
                                - Cardinality({k \in gone : attached[k] = m})]
    /\ attached' = [m \in Mbuf |-> IF m \in gone THEN NoMbuf ELSE attached[m]]
    /\ data' = [m \in Mbuf |-> IF ref'[m] = 0 THEN 0 ELSE data[m]]
    /\ wanted' = [m \in Mbuf |-> IF ref'[m] = 0 THEN 0 ELSE wanted[m]]
    /\ late' = {m \in late : ref'[m] # 0}
    /\ UNCHANGED lost

\* The mbuf that holds the data of m.
Data(m) == IF attached[m] = NoMbuf THEN m ELSE attached[m]
-----------------------------------------------------------------------------
(* Packets come *)

\* What follows when a packet is done with: the next one of the burst, or after the
\* burst of a client the other sources of do_client_switching, or flush_clients,
\* flush_ports and flush_vhost_devs.
Resume(bufs, next) == IF bufs = <<>> THEN Between(next, <<>>, "flush")
                                     ELSE Between("switch", bufs, next)

\* A burst of the packets that a client has sent.  If nobody else has the data of
\* one of them, no output of it is waiting.
receive_from_client(c) ==
    /\ core[c].step = "client"
    /\ \E p \in Client :
           LET n == Least(Burst, Len(tx_q[p])) IN
           /\ core' = [core EXCEPT ![c] = Resume(First(n, tx_q[p]), "receive")]
           /\ tx_q' = [tx_q EXCEPT ![p] = After(n, tx_q[p])]
           /\ late' = late \ {m \in {Data(k) : k \in Elements(First(n, tx_q[p]))} : ref[m] = 1}
    /\ UNCHANGED <<ref, attached, data, wanted, lost, rings, hand, due>>

\* A burst from a NIC, a vhost device, a KNI fifo or the daemon, in new mbufs.
receive_from_vport(c) ==
    /\ core[c].step = "receive"
    /\ \E n \in 0 .. Least(Burst, Cardinality(pool)) :
           /\ core' = [core EXCEPT ![c] = Resume(alloc(n), "flush")]
           /\ ref' = [m \in Mbuf |-> IF m \in Elements(alloc(n)) THEN 1 ELSE ref[m]]
    /\ UNCHANGED <<attached, data, wanted, late, lost, rings, client, due>>

Outputs(list) == {i \in DOMAIN list : list[i] # "set"}

\* do_switch_packets: the next packet and the actions of its flow.
switch_packet(c) ==
    /\ core[c].step = "switch"
    /\ \E list \in Lists \ {<<>>} :
           core' = [core EXCEPT ![c] =
               [step |-> "execute", bufs |-> Tail(core[c].bufs), next |-> core[c].next,
                mbuf |-> Head(core[c].bufs), held |-> TRUE, rest |-> list,
                multiple |-> Cardinality(Outputs(list)) > 1,
                out |-> NoMbuf, port |-> NoPort]]
    /\ UNCHANGED <<mbufs, rings, client, due>>

\* The flow has no actions.
action_drop(c) ==
    /\ core[c].step = "switch" /\ <<>> \in Lists
    /\ free({Head(core[c].bufs)})
    /\ core' = [core EXCEPT ![c] = Resume(Tail(core[c].bufs), core[c].next)]
    /\ UNCHANGED <<rings, client, due>>
-----------------------------------------------------------------------------
(* action_execute *)

\* action_set_*, action_push_vlan and action_pop_vlan write to the data, also
\* when the only output has taken the mbuf: others may use it by then, or it is in
\* the pool and the write does not matter.
action_set(c) ==
    LET m == Data(core[c].mbuf) IN
    /\ core[c].step = "execute" /\ core[c].rest # <<>> /\ Head(core[c].rest) = "set"
    /\ data' = [data EXCEPT ![m] = IF ref[m] = 0 THEN @ ELSE (@ + 1) % Contents]
    /\ late' = late \cup {k \in {m} : ref[k] > (IF core[c].held THEN 1 ELSE 0)}
    /\ core' = [core EXCEPT ![c].rest = Tail(@)]
    /\ UNCHANGED <<ref, attached, wanted, lost, rings, client, due>>

\* Faulty: a clone counts for the mbuf that it was made of, also if that is a clone.
clone_of_clone(m, k) ==
    /\ ref' = [ref EXCEPT ![k] = 1, ![m] = @ + 1]
    /\ attached' = [attached EXCEPT ![k] = Data(m)]

\* rte_pktmbuf_clone: k shares the data of m.
clone(m, k) ==
    /\ ref' = [ref EXCEPT ![k] = 1, ![Data(m)] = @ + 1]
    /\ attached' = [attached EXCEPT ![k] = Data(m)]

\* ACTION_OUTPUT: with several outputs a clone is sent, if there is an mbuf
\* for it.
output(c) ==
    LET m == core[c].mbuf
        send(out, held) ==
            [core EXCEPT ![c] = [core[c] EXCEPT !.step = "send", !.held = held,
                                    !.rest = Tail(core[c].rest), !.out = out,
                                    !.port = Head(core[c].rest)]] IN
    /\ core[c].step = "execute" /\ core[c].rest # <<>> /\ Head(core[c].rest) # "set"
    /\ \/ /\ ~ core[c].multiple
          /\ core' = send(m, FALSE)
          /\ wanted' = [wanted EXCEPT ![m] = data[Data(m)]]
          /\ UNCHANGED <<ref, attached>>
       \/ /\ core[c].multiple /\ pool # {}
          /\ clone(m, alloc(1)[1])
          /\ wanted' = [wanted EXCEPT ![alloc(1)[1]] = data[Data(m)]]
          /\ core' = send(alloc(1)[1], TRUE)
       \/ /\ core[c].multiple /\ pool = {}
          /\ core' = [core EXCEPT ![c].rest = Tail(@)]
          /\ UNCHANGED <<ref, attached, wanted>>
    /\ UNCHANGED <<data, late, lost, rings, client, due>>

\* Faulty: the mbuf is freed although it was sent itself.
executed_free(c) ==
    /\ core[c].step = "execute" /\ core[c].rest = <<>>
    /\ free({core[c].mbuf})
    /\ core' = [core EXCEPT ![c] = Resume(core[c].bufs, core[c].next)]
    /\ UNCHANGED <<rings, client, due>>

\* The end of action_execute.  The mbuf of a list that has actions, but no
\* output among them, is neither sent nor freed.
executed(c) ==
    /\ core[c].step = "execute" /\ core[c].rest = <<>>
    /\ IF core[c].multiple
       THEN free({core[c].mbuf})
       ELSE /\ lost' = lost \cup {m \in {core[c].mbuf} : core[c].held}
            /\ UNCHANGED <<ref, attached, data, wanted, late>>
    /\ core' = [core EXCEPT ![c] = Resume(core[c].bufs, core[c].next)]
    /\ UNCHANGED <<rings, client, due>>
-----------------------------------------------------------------------------
(* send_to_vport and the caches *)

\* How many of the mbufs in s the ring or fifo of p takes; those of a vhost port
\* are copied to the guest (module VhostEnqueue) and freed.
Taken(p, s) == IF p \in Queued THEN Least(Len(s), RingSize[p] - Len(queue[p])) ELSE 0

\* The mbufs in s leave for p; what is not taken is freed, and F.
pass_on(p, s, F) ==
    LET n == Taken(p, s) IN
    /\ queue' = [q \in Queued |-> IF q = p THEN queue[p] \o First(n, s) ELSE queue[q]]
    /\ free(F \cup Elements(After(n, s)))

\* send_to_client also frees what the client has given back.
Returned(p) == IF p \in Client THEN First(Least(Burst, Len(free_q[p])), free_q[p]) ELSE <<>>

\* The cache of a port, with m.  It is flushed when it is full; KNI, vETH and
\* unknown ports have none.
send_to_vport(c) ==
    LET p == core[c].port
        m == core[c].out
        back == Returned(p) IN
    /\ core[c].step = "send"
    /\ \/ /\ p \notin Cached
          /\ pass_on(p, <<m>>, {})
          /\ UNCHANGED cache
       \/ /\ p \in Cached /\ Len(cache[c][p]) + 1 = CacheSize
          /\ pass_on(p, Append(cache[c][p], m), Elements(back))
          /\ cache' = [cache EXCEPT ![c][p] = <<>>]
       \/ /\ p \in Cached /\ Len(cache[c][p]) + 1 # CacheSize
          /\ free(Elements(back))
          /\ cache' = [cache EXCEPT ![c][p] = Append(@, m)]
          /\ UNCHANGED queue
    /\ free_q' = [k \in Client |-> IF k = p THEN After(Len(back), free_q[k]) ELSE free_q[k]]
    /\ core' = [core EXCEPT ![c] = [core[c] EXCEPT !.step = "execute", !.out = NoMbuf,
                                       !.port = NoPort]]
    /\ UNCHANGED <<client, due>>

\* flush_client_port_cache, flush_phy_port_cache and flush_vhost_dev_port_cache, in
\* the order of flush_clients, flush_ports and flush_vhost_devs.
flush(c, p) ==
    /\ core[c].step = "flush" /\ cache[c][p] # <<>>
    /\ p \notin Client => \A q \in Client : cache[c][q] = <<>>
    /\ p \in Vhost => \A q \in Phy : cache[c][q] = <<>>
    /\ pass_on(p, cache[c][p], {})
    /\ cache' = [cache EXCEPT ![c][p] = <<>>]
    /\ UNCHANGED <<free_q, client, due, core>>

\* The next step of lcore_main.
Flushed(c) ==
    core' = [core EXCEPT ![c] = IF PortOf[c] = NoPort THEN Start(c)
                                ELSE Between("nic", <<>>, "flush")]

\* Faulty: the caches of the clients are not flushed.
flushed_ports(c) ==
    /\ core[c].step = "flush"
    /\ \A p \in Phy \cup Vhost : cache[c][p] = <<>>
    /\ Flushed(c)
    /\ UNCHANGED <<mbufs, rings, client, due>>

flushed(c) ==
    /\ core[c].step = "flush"
    /\ \A p \in Cached : cache[c][p] = <<>>
    /\ Flushed(c)
    /\ UNCHANGED <<mbufs, rings, client, due>>

\* Faulty: less than a burst is never sent.
flush_nic_tx_ring_full(c) ==
    LET p == PortOf[c]
        n == Least(Burst, Len(queue[p])) IN
    /\ core[c].step = "nic"
    /\ \/ Len(queue[p]) < Burst /\ UNCHANGED <<mbufs, queue, due>>
       \/ /\ Len(queue[p]) >= Burst
          /\ queue' = [queue EXCEPT ![p] = After(n, queue[p])]
          /\ free(Elements(First(n, queue[p])))
          /\ due' = [due EXCEPT ![p] = FALSE]
    /\ core' = [core EXCEPT ![c] = Start(c)]
    /\ UNCHANGED <<cache, free_q, client>>

\* What the NIC does not take is freed at once, the rest when it is sent.
flush_nic_tx_ring(c) ==
    LET p == PortOf[c]
        n == Least(Burst, Len(queue[p])) IN
    /\ core[c].step = "nic"
    /\ \/ /\ Len(queue[p]) < Burst /\ ~ due[p]
          /\ UNCHANGED <<mbufs, queue, due>>
       \/ /\ Len(queue[p]) >= Burst \/ due[p]
          /\ queue' = [queue EXCEPT ![p] = After(n, queue[p])]
          /\ free(Elements(First(n, queue[p])))
          /\ due' = [due EXCEPT ![p] = FALSE]
    /\ core' = [core EXCEPT ![c] = Start(c)]
    /\ UNCHANGED <<cache, free_q, client>>
-----------------------------------------------------------------------------
(* Around the lcores *)

\* The time stamp counter goes on.
expire(p) ==
    /\ ~ due[p]
    /\ due' = [due EXCEPT ![p] = TRUE]
    /\ UNCHANGED <<mbufs, rings, client, core>>

\* The kernel has read a packet of a KNI fifo, and the mbuf is freed.
kni_read(p) ==
    /\ queue[p] # <<>>
    /\ free({Head(queue[p])})
    /\ queue' = [queue EXCEPT ![p] = Tail(@)]
    /\ UNCHANGED <<cache, free_q, client, due, core>>

\* The loop of ovs_client: it reads no more than it can give back.  What it has
\* read waits no more, so with which contents it was output does not matter.
client_dequeue(p) ==
    LET n == Least(Burst, Least(Len(queue[p]), RingSize[p] - Len(free_q[p]))) IN
    /\ hand[p] = <<>> /\ n > 0
    /\ hand' = [hand EXCEPT ![p] = First(n, queue[p])]
    /\ queue' = [queue EXCEPT ![p] = After(n, queue[p])]
    /\ wanted' = [m \in Mbuf |-> IF m \in Elements(hand'[p]) THEN 0 ELSE wanted[m]]
    /\ UNCHANGED <<ref, attached, data, late, lost, cache, free_q, tx_q, due, core>>

\* All of it goes to tx_q, or to free_q if there is no room.
client_enqueue(p) ==
    LET fits(q) == Len(q[p]) + Len(hand[p]) <= RingSize[p] IN
    /\ hand[p] # <<>>
    /\ tx_q' = [tx_q EXCEPT ![p] = IF fits(tx_q) THEN @ \o hand[p] ELSE @]
    /\ free_q' = [free_q EXCEPT ![p] =
                     IF ~ fits(tx_q) /\ fits(free_q) THEN @ \o hand[p] ELSE @]
    /\ hand' = [hand EXCEPT ![p] = <<>>]
    /\ UNCHANGED <<mbufs, cache, queue, due, core>>
-----------------------------------------------------------------------------
lcore_main(c) ==
    \/ receive_from_client(c) \/ receive_from_vport(c) \/ switch_packet(c)
    \/ action_drop(c) \/ action_set(c) \/ output(c) \/ executed(c)
    \/ send_to_vport(c) \/ flushed(c) \/ flush_nic_tx_ring(c)
    \/ \E p \in Cached : flush(c, p)

Next ==
    \/ \E c \in Core : lcore_main(c)
    \/ \E p \in Phy : expire(p)
    \/ \E p \in Kni : kni_read(p)
    \/ \E p \in Client : client_dequeue(p) \/ client_enqueue(p)

Spec == Init /\ [][Next]_vars

\* Every lcore goes round its loop, and time passes.
FairSpec ==
    /\ Spec
    /\ \A c \in Core : WF_vars(lcore_main(c))
    /\ \A p \in Phy : WF_vars(expire(p))
-----------------------------------------------------------------------------
(* Properties *)

\* How often m is in the sequences f[x], x in S.
Times(m, S, f) == Cardinality({y \in UNION {{x} \X DOMAIN f[x] : x \in S} : f[y[1]][y[2]] = m})

\* The number of references to m: in a cache, in a ring, of a client, of a core, of
\* a clone, or of nobody.
References(m) ==
    Times(m, Core \X Cached, [x \in Core \X Cached |-> cache[x[1]][x[2]]])
    + Times(m, Queued, queue) + Times(m, Client, tx_q) + Times(m, Client, free_q)
    + Times(m, Client, hand) + Times(m, Core, [c \in Core |-> core[c].bufs])
    + Cardinality({c \in Core : core[c].held /\ core[c].mbuf = m})
    + Cardinality({c \in Core : core[c].out = m})
    + Cardinality({k \in Mbuf : attached[k] = m})
    + Cardinality({k \in lost : k = m})

\* The reference count of an mbuf is the number of its users: none goes back to
\* the pool while a cache, a ring, a client, an lcore or a clone still uses it, and
\* none is lost to the pool but those of the lists without an output, whatever
\* rings are full, clones fail, and clients send clones back to be cloned again.
RefsAgree == \A m \in Mbuf : ref[m] = References(m)

\* The mbufs that wait in a cache, a ring or a fifo to be transmitted.
Waiting == UNION ({Elements(cache[c][p]) : c \in Core, p \in Cached}
                  \cup {Elements(queue[p]) : p \in Queued})

\* What waits to be sent by a vport has the contents that it had when the output
\* action was executed, unless an action wrote to data that others had as well: the
\* writer had given its only mbuf to an output, or clones shared the data.
SentAsAtOutput ==
    \A m \in Waiting : Data(m) \notin late => data[Data(m)] = wanted[m]

\* No mbuf stays in a cache: every lcore comes again and again to a point where all
\* of its caches are empty.
CacheDrains == \A c \in Core : []<>(\A p \in Cached : cache[c][p] = <<>>)

\* No mbuf stays in the ring of a physical port, also when there is never a
\* whole burst of them.
TxDrains == \A p \in Phy, m \in Mbuf : []<>(m \notin Elements(queue[p]))
=============================================================================
