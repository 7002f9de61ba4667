------------------------- MODULE VhostDeviceProofs --------------------------
(***************************************************************************)
(* The removal handshake of vhost devices is correct for any number of     *)
(* devices, vports and lcores, as long as no vport is renamed and QEMU     *)
(* does not change the memory of a running device.                         *)
(***************************************************************************)
EXTENDS VhostDevice, TLAPS

\* Writing a field of a device gives a device.
LEMMA DeviceFields ==
    ASSUME NEW r \in Device
    PROVE  /\ r.mem \in {"none", "mapped", "freed"}
           /\ r.running \in BOOLEAN /\ r.backend \in SUBSET Queue
           /\ \A m \in {"none", "mapped", "freed"} :
                  [r EXCEPT !.mem = m] \in Device
           /\ \A x \in BOOLEAN : [r EXCEPT !.running = x] \in Device
           /\ \A b \in SUBSET Queue : [r EXCEPT !.backend = b] \in Device
           /\ \A b \in SUBSET Queue, x \in BOOLEAN :
                  [r EXCEPT !.backend = b, !.running = x] \in Device
<1>1. r.mem \in {"none", "mapped", "freed"}  BY Zenon DEF Device
<1>2. r.running \in BOOLEAN /\ r.backend \in SUBSET Queue  BY Zenon DEF Device
<1>3. \A m \in {"none", "mapped", "freed"} : [r EXCEPT !.mem = m] \in Device
  BY Zenon DEF Device
<1>4. \A x \in BOOLEAN : [r EXCEPT !.running = x] \in Device
  BY Zenon DEF Device
<1>5. \A b \in SUBSET Queue : [r EXCEPT !.backend = b] \in Device
  BY Zenon DEF Device
<1>6. \A b \in SUBSET Queue, x \in BOOLEAN :
          [r EXCEPT !.backend = b, !.running = x] \in Device
  BY Zenon DEF Device
<1> QED  BY <1>1, <1>2, <1>3, <1>4, <1>5, <1>6, Zenon

\* The calls of the CUSE thread, the vports and the work of an lcore.
LEMMA OtherFields ==
    /\ Idle \in Call
    /\ \A d \in Dev, s \in {"map", "cleanup"} :
           [Idle EXCEPT !.step = s, !.dev = d] \in Call
    /\ \A d \in Dev, x \in BOOLEAN :
           [step |-> "request", dev |-> d, close |-> x, left |-> Lcore] \in Call
    /\ \A o \in Call, l \in SUBSET Lcore, s \in {"request", "wait"} :
           [o EXCEPT !.left = l, !.step = s] \in Call
    /\ \A v \in Vport, d \in Dev \cup {NoDev} : [v EXCEPT !.dev = d] \in Vport
    /\ \A v \in Vport, n \in Name : [v EXCEPT !.name = n] \in Vport
    /\ \A w \in Work, s \in {"top", "work"} : [w EXCEPT !.step = s] \in Work
<1>1. Idle \in Call  BY Zenon DEF Idle, Call
<1>2. \A d \in Dev, s \in {"map", "cleanup"} :
          [Idle EXCEPT !.step = s, !.dev = d] \in Call
  BY Zenon DEF Idle, Call
<1>3. \A d \in Dev, x \in BOOLEAN :
          [step |-> "request", dev |-> d, close |-> x, left |-> Lcore] \in Call
  BY Zenon DEF Call
<1>4. \A o \in Call, l \in SUBSET Lcore, s \in {"request", "wait"} :
          [o EXCEPT !.left = l, !.step = s] \in Call
  BY Zenon DEF Call
<1>5. \A v \in Vport, d \in Dev \cup {NoDev} : [v EXCEPT !.dev = d] \in Vport
  BY Zenon DEF Vport
<1>6. \A v \in Vport, n \in Name : [v EXCEPT !.name = n] \in Vport
  BY Zenon DEF Vport
<1>7. \A w \in Work, s \in {"top", "work"} : [w EXCEPT !.step = s] \in Work
  BY Zenon DEF Work
<1> QED  BY <1>1, <1>2, <1>3, <1>4, <1>5, <1>6, <1>7, Zenon

\* Leaving a vport keeps the types.
LEMMA DetachTypes ==
    ASSUME TypeOK, NEW d \in Dev, NEW x \in BOOLEAN, Detach(d, x)
    PROVE  vport' \in [Port -> Vport] /\ op' \in Call
<1>1. vport' \in [Port -> Vport]
  <2>1. \A p \in Port : [vport[p] EXCEPT !.dev = NoDev] \in Vport
    BY OtherFields, Zenon DEF TypeOK
  <2> QED  BY <2>1, Zenon DEF Detach, TypeOK
<1>2. op' \in Call
  <2>1. /\ Idle \in Call /\ [Idle EXCEPT !.step = "cleanup", !.dev = d] \in Call
        /\ [step |-> "request", dev |-> d, close |-> x, left |-> Lcore] \in Call
    BY OtherFields, Zenon
  <2> QED  BY <2>1, Zenon DEF Detach
<1> QED  BY <1>1, <1>2, Zenon

\* Every step keeps the types.
LEMMA DeviceTypes == TypeOK /\ OpInv /\ [Next]_vars => TypeOK'
<1> SUFFICES ASSUME TypeOK, OpInv, [Next]_vars PROVE TypeOK'  BY Zenon
<1> USE DEF TypeOK
<1>0. Closed \in Device /\ [Closed EXCEPT !.open = TRUE] \in Device
  BY Zenon DEF Closed, Device
<1>1. ASSUME NEW d \in Dev, new_device(d) PROVE TypeOK'
  BY <1>0, <1>1, Zenon DEF new_device
<1>2. ASSUME NEW d \in Dev, set_mem_table(d) PROVE TypeOK'
  <2>1. dev' \in [Dev -> Device]
    <3>1. /\ [dev[d] EXCEPT !.mem = "freed"] \in Device
          /\ [dev[d] EXCEPT !.mem = dev[d].mem] \in Device
      BY DeviceFields, Zenon
    <3> QED  BY <1>2, <3>1, Zenon DEF set_mem_table
  <2>2. op' \in Call  BY <1>2, OtherFields, Zenon DEF set_mem_table
  <2>3. bypasses' \in 0 .. MaxBypass
    BY <1>2, DeviceAssumption DEF set_mem_table
  <2> QED  BY <1>2, <2>1, <2>2, <2>3, Zenon DEF set_mem_table
<1>3. ASSUME host_memory_map PROVE TypeOK'
  <2>1. op.dev \in Dev  BY <1>3, Zenon DEF host_memory_map, OpInv
  <2>2. [dev[op.dev] EXCEPT !.mem = "mapped"] \in Device
    BY <2>1, DeviceFields, Zenon
  <2> QED  BY <1>3, <2>1, <2>2, OtherFields, Zenon DEF host_memory_map
<1>4. ASSUME host_memory_map_fails PROVE TypeOK'
  BY <1>4, OtherFields, Zenon DEF host_memory_map_fails
<1>5. ASSUME NEW d \in Dev, NEW q \in Queue, set_backend(d, q) PROVE TypeOK'
  <2>1. /\ [dev[d] EXCEPT !.backend = @ \cup {q}] \in Device
        /\ [dev[d] EXCEPT !.backend = @ \cup {q}, !.running = TRUE] \in Device
    <3>1. dev[d].backend \cup {q} \in SUBSET Queue /\ TRUE \in BOOLEAN
      BY DeviceFields, Zenon
    <3>2. dev[d] \in Device  BY Zenon
    <3> QED  BY <3>1, <3>2, DeviceFields, Zenon
  <2>2. dev' \in [Dev -> Device]  BY <1>5, <2>1, Zenon DEF set_backend
  <2>3. \A p \in Port : [vport[p] EXCEPT !.dev = d] \in Vport
    BY OtherFields, Zenon
  <2>4. vport' \in [Port -> Vport]  BY <1>5, <2>3 DEF set_backend
  <2> QED  BY <1>5, <2>2, <2>4, Zenon DEF set_backend
<1>6. ASSUME NEW d \in Dev, NEW q \in Queue, clear_backend(d, q)
      PROVE  TypeOK'
  <2>1. [dev[d] EXCEPT !.backend = @ \ {q},
                       !.running = @ /\ Match(d) # {}] \in Device
    <3>1. (dev[d].running /\ Match(d) # {}) \in BOOLEAN
          /\ dev[d].backend \ {q} \in SUBSET Queue
      BY DeviceFields, Zenon
    <3> QED  BY <3>1, DeviceFields, Zenon
  <2>2. dev' \in [Dev -> Device]  BY <1>6, <2>1, Zenon DEF clear_backend
  <2>3. vport' \in [Port -> Vport] /\ op' \in Call
    BY <1>6, DetachTypes, Zenon DEF clear_backend
  <2> QED  BY <1>6, <2>2, <2>3, Zenon DEF clear_backend
<1>7. ASSUME NEW d \in Dev, destroy_device(d) PROVE TypeOK'
  <2>1. vport' \in [Port -> Vport] /\ op' \in Call
    BY <1>7, DetachTypes, OtherFields, Zenon DEF destroy_device
  <2> QED  BY <1>7, <2>1, Zenon DEF destroy_device
<1>8. ASSUME NEW c \in Lcore, request(c) PROVE TypeOK'
  <2>1. op.left \ {c} \in SUBSET Lcore  BY Zenon DEF Call
  <2>2. op' \in Call  BY <1>8, <2>1, OtherFields, Zenon DEF request
  <2> QED  BY <1>8, <2>2, Zenon DEF request
<1>9. ASSUME wait PROVE TypeOK'
  <2>1. op.dev \in Dev  BY <1>9, Zenon DEF wait, OpInv
  <2>2. [dev[op.dev] EXCEPT !.running = FALSE] \in Device
    BY <2>1, DeviceFields, Zenon
  <2>3. dev' \in [Dev -> Device]  BY <1>9, <2>2, Zenon DEF wait
  <2>4. op' \in Call  BY <1>9, <2>1, OtherFields, Zenon DEF wait
  <2> QED  BY <1>9, <2>3, <2>4, Zenon DEF wait
<1>10. ASSUME rm_config_ll_entry PROVE TypeOK'
  BY <1>0, <1>10, OtherFields, Zenon DEF rm_config_ll_entry
<1>11. ASSUME NEW c \in Lcore, lcore_main(c) PROVE TypeOK'
  BY <1>11, OtherFields, Zenon DEF lcore_main
<1>12. ASSUME NEW c \in Lcore, NEW p \in Port, load_dev(c, p) PROVE TypeOK'
  <2>1. [step |-> "use", dev |-> vport[p].dev] \in Work  BY Zenon DEF Work, Vport
  <2> QED  BY <1>12, <2>1, Zenon DEF load_dev
<1>13. ASSUME NEW c \in Lcore, done_with_dev(c) PROVE TypeOK'
  <2>1. [step |-> "work", dev |-> NoDev] \in Work  BY Zenon DEF Work
  <2> QED  BY <1>13, <2>1, Zenon DEF done_with_dev
<1>14. ASSUME NEW c \in Lcore, loop(c) PROVE TypeOK'
  BY <1>14, OtherFields, Zenon DEF loop
<1>15. ASSUME NEW p \in Port, NEW n \in Name, vport_set_name(p, n)
       PROVE  TypeOK'
  <2>1. [vport[p] EXCEPT !.name = n] \in Vport  BY OtherFields, Zenon
  <2>2. bypasses' \in 0 .. MaxBypass
    BY <1>15, DeviceAssumption DEF vport_set_name
  <2> QED  BY <1>15, <2>1, <2>2, Zenon DEF vport_set_name
<1>16. CASE UNCHANGED vars  BY <1>16, Zenon DEF vars
<1> QED
  BY <1>1, <1>2, <1>3, <1>4, <1>5, <1>6, <1>7, <1>8, <1>9, <1>10, <1>11,
     <1>12, <1>13, <1>14, <1>15, <1>16, Zenon DEF Next, Qemu, Cuse

\* While no vport is renamed, a name leads to the same vport.
LEMMA MatchKept ==
    ASSUME \A p \in Port : vport'[p].name = vport[p].name
    PROVE  \A d : Match(d)' = Match(d)
<1>1. \A p \in Port : \A q \in 0 .. p - 1 : q \in Port
  BY DeviceAssumption DEF Port
<1> QED  BY <1>1, Zenon DEF Match

\* Every call of the CUSE thread and every step of an lcore keeps the
\* handshake, if no vport is renamed and a running device keeps its memory.
LEMMA HandshakeStep ==
    ASSUME TypeOK, Handshake, [Next]_vars, bypasses' = 0
    PROVE  Handshake'
<1>c. \A c \in Lcore : core' = core => CoreInv(c) /\ core'[c] = core[c]
  BY Zenon DEF Handshake
<1> USE DEF OpInv, DeviceInv, PortInv, CoreInv, Removing
<1>0. /\ OpInv /\ \A d \in Dev : DeviceInv(d)
      /\ \A p \in Port : PortInv(p) /\ \A c \in Lcore : CoreInv(c)
  BY Zenon DEF Handshake
<1>t. /\ \A d \in Dev : dev[d] \in Device
      /\ \A p \in Port : vport[p].dev \in Dev \cup {NoDev}
  BY Zenon DEF TypeOK, Vport
<1>n. NoDev \notin Dev  BY DeviceAssumption, Zenon
<1>1. ASSUME NEW d \in Dev, new_device(d) PROVE Handshake'
  <2>1. /\ ~ dev[d].running /\ ~ dev'[d].running
        /\ \A e \in Dev \ {d} : dev'[e] = dev[e]
        /\ UNCHANGED <<vport, flag, op, core>> /\ op.step = "idle"
    BY <1>0, <1>1, Zenon DEF new_device, Ready, Closed, TypeOK
  <2>2. \A e : Match(e)' = Match(e)  BY <2>1, MatchKept, Zenon
  <2> QED  BY <1>0, <1>t, <1>n, <2>1, <2>2, Zenon DEF Handshake
<1>2. ASSUME NEW d \in Dev, set_mem_table(d) PROVE Handshake'
  <2>0. ~ dev[d].running
    BY <1>2, DeviceAssumption DEF set_mem_table, TypeOK
  <2>1. /\ ~ dev[d].running /\ dev'[d].running = dev[d].running
        /\ \A e \in Dev \ {d} : dev'[e] = dev[e]
        /\ op'.step = "map" /\ op'.dev = d /\ op.step = "idle"
        /\ UNCHANGED <<vport, flag, core>>
    BY <1>2, <1>t, <2>0, Zenon DEF set_mem_table, Ready, TypeOK, Idle, Device
  <2>2. \A e : Match(e)' = Match(e)  BY <2>1, MatchKept, Zenon
  <2> QED  BY <1>0, <1>t, <1>n, <2>1, <2>2 DEF Handshake
<1>3. ASSUME host_memory_map \/ host_memory_map_fails PROVE Handshake'
  <2>1. /\ op.step = "map" /\ op.dev \in Dev
        /\ dev'[op.dev].running = dev[op.dev].running
        /\ \A e \in Dev \ {op.dev} : dev'[e] = dev[e]
        /\ op'.step = "idle" /\ op'.dev = NoDev
        /\ UNCHANGED <<vport, flag, core>>
    BY <1>0, <1>3, <1>t DEF host_memory_map, host_memory_map_fails, TypeOK,
                            Idle, Device
  <2>2. \A e : Match(e)' = Match(e)  BY <2>1, MatchKept, Zenon
  <2> QED  BY <1>0, <1>t, <1>n, <2>1, <2>2 DEF Handshake
<1>4. ASSUME NEW d \in Dev, NEW q \in Queue, set_backend(d, q)
      PROVE  Handshake'
  <2>1. /\ op.step = "idle" /\ dev[d].open /\ dev[d].mem = "mapped"
        /\ UNCHANGED <<op, flag, core>>
    BY <1>4, Zenon DEF set_backend, Ready
  <2>2. ASSUME vport' = vport,
               dev' = [dev EXCEPT ![d].backend = @ \cup {q}]
        PROVE  Handshake'
    <3>1. /\ dev'[d].open = dev[d].open /\ dev'[d].mem = dev[d].mem
          /\ dev'[d].running = dev[d].running
          /\ \A e \in Dev \ {d} : dev'[e] = dev[e]
      BY <2>2, <1>t, Zenon DEF TypeOK, Device
    <3>2. \A e : Match(e)' = Match(e)  BY <2>2, MatchKept, Zenon
    <3> QED  BY <1>0, <1>t, <1>n, <2>1, <2>2, <3>1, <3>2 DEF Handshake
  <2>3. ASSUME Match(d) # {}, ~ dev[d].running,
               dev' = [dev EXCEPT ![d].backend = @ \cup {q},
                                  ![d].running = TRUE],
               vport' = [p \in Port |-> IF p \in Match(d)
                             THEN [vport[p] EXCEPT !.dev = d] ELSE vport[p]]
        PROVE  Handshake'
    <3>1. /\ dev'[d].open = dev[d].open /\ dev'[d].mem = dev[d].mem
          /\ dev'[d].running
          /\ \A e \in Dev \ {d} : dev'[e] = dev[e]
      BY <2>3, <1>t, Zenon DEF TypeOK, Device
    <3>2. \A p \in Port : /\ vport'[p].name = vport[p].name
                          /\ vport'[p].dev = IF p \in Match(d) THEN d
                                             ELSE vport[p].dev
      BY <2>3, Zenon DEF TypeOK, Vport
    <3>3. \A e : Match(e)' = Match(e)  BY <3>2, MatchKept, Zenon
    <3>4. OpInv' /\ \A e \in Dev : DeviceInv(e)'
      BY Zenon, <1>0, <2>1, <2>3, <3>1, <3>3
    <3>5. ASSUME NEW p \in Port PROVE PortInv(p)'
      <4>1. ~ Removing(d)' /\ \A e : ~ Removing(e)'  BY <2>1, Zenon
      <4>2. CASE p \in Match(d)  BY <3>1, <3>2, <3>3, <4>1, <4>2, Zenon
      <4>3. CASE p \notin Match(d)
        <5>1. vport'[p].dev = vport[p].dev /\ PortInv(p)
          BY <1>0, <3>2, <4>3, Zenon
        <5> QED  BY <1>t, <3>1, <3>3, <4>1, <5>1, Zenon
      <4> QED  BY <4>2, <4>3, Zenon
    <3>6. ASSUME NEW c \in Lcore PROVE CoreInv(c)'
      <4>1. CoreInv(c) /\ core'[c] = core[c]  BY <1>c, <2>1, Zenon
      <4> QED  BY <2>1, <3>1, <4>1, Zenon
    <3> QED  BY <3>4, <3>5, <3>6, Zenon DEF Handshake
  <2> QED  BY <1>4, <2>2, <2>3, Zenon DEF set_backend
<1>5. ASSUME NEW d \in Dev, dev[d].running,
             destroy_device(d) \/ \E q \in Queue : clear_backend(d, q)
      PROVE  Handshake'
  <2>1. Match(d) # {}  BY <1>0, <1>5, Zenon
  <2>2. PICK x \in BOOLEAN : Detach(d, x) /\ op.step = "idle"
    BY <1>5, Zenon DEF clear_backend, destroy_device, Ready
  <2>3. /\ op'.step = "request" /\ op'.dev = d /\ op'.left = Lcore
        /\ \A p \in Port : /\ vport'[p].name = vport[p].name
                           /\ vport'[p].dev = IF p \in Match(d) THEN NoDev
                                              ELSE vport[p].dev
    BY <2>1, <2>2 DEF Detach, TypeOK, Vport
  <2>4. /\ dev'[d].running /\ dev'[d].open = dev[d].open
        /\ dev'[d].mem = dev[d].mem
        /\ \A e \in Dev \ {d} : dev'[e] = dev[e]
        /\ UNCHANGED <<flag, core>>
    <3>1. CASE \E q \in Queue : clear_backend(d, q)
      <4>1. PICK q \in Queue : clear_backend(d, q)  BY <3>1, Zenon
      <4>2. dev' = [dev EXCEPT ![d].backend = @ \ {q},
                               ![d].running = @ /\ Match(d) # {}]
            /\ UNCHANGED <<flag, core>>
        BY <4>1, Zenon DEF clear_backend
      <4> QED  BY <1>5, <1>t, <2>1, <4>2, Zenon DEF TypeOK, Device
    <3>2. CASE destroy_device(d)
      BY <1>5, <3>2, Zenon DEF destroy_device
    <3> QED  BY <1>5, <3>1, <3>2, Zenon
  <2>5. \A e : Match(e)' = Match(e)  BY <2>3, MatchKept, Zenon
  <2>6. OpInv' /\ \A e \in Dev : DeviceInv(e)'
    BY <1>0, <1>5, <2>2, <2>3, <2>4, <2>5
  <2>7. \A p \in Port : PortInv(p)'
    BY <1>0, <1>t, <1>n, <2>2, <2>3, <2>4, <2>5
  <2>8. ASSUME NEW c \in Lcore PROVE CoreInv(c)'
    <3>1. CoreInv(c) /\ core'[c] = core[c]  BY <1>c, <2>4, Zenon
    <3> QED  BY <2>2, <2>3, <2>4, <3>1, Zenon
  <2> QED  BY <2>6, <2>7, <2>8, Zenon DEF Handshake
<1>6. ASSUME NEW d \in Dev, ~ dev[d].running,
             destroy_device(d) \/ \E q \in Queue : clear_backend(d, q)
      PROVE  Handshake'
  <2>1. /\ op.step = "idle" /\ vport' = vport /\ UNCHANGED <<flag, core>>
        /\ \/ op' = op
           \/ op'.step = "cleanup" /\ op'.dev = d
        /\ ~ dev'[d].running
        /\ \A e \in Dev \ {d} : dev'[e] = dev[e]
    <3>1. CASE destroy_device(d)
      BY <1>6, <3>1, Zenon DEF destroy_device, Ready, Idle
    <3>2. CASE \E q \in Queue : clear_backend(d, q)
      <4>1. PICK q \in Queue : clear_backend(d, q)  BY <3>2, Zenon
      <4> QED  BY <1>6, <1>t, <4>1, Zenon DEF clear_backend, Ready, TypeOK, Device
    <3> QED  BY <1>6, <3>1, <3>2, Zenon
  <2>2. \A e : Match(e)' = Match(e)  BY <2>1, MatchKept, Zenon
  <2> QED  BY <1>0, <1>t, <1>n, <1>6, <2>1, <2>2 DEF Handshake
<1>7. ASSUME NEW c \in Lcore, request(c) PROVE Handshake'
  <2>1. /\ op.step = "request" /\ op'.step \in {"request", "wait"}
        /\ op'.dev = op.dev /\ op'.left = op.left \ {c}
        /\ op'.step = "wait" => op'.left = {}
        /\ flag'[c] = "request" /\ \A e \in Lcore \ {c} : flag'[e] = flag[e]
        /\ UNCHANGED <<dev, vport, core>>
    BY <1>7, Zenon DEF request, TypeOK, Call
  <2>2. \A e : Match(e)' = Match(e)  BY <2>1, MatchKept, Zenon
  <2> QED  BY <1>0, <1>t, <1>n, <2>1, <2>2 DEF Handshake
<1>8. ASSUME wait PROVE Handshake'
  <2>1. /\ op.step = "wait" /\ op.dev \in Dev /\ op.left = {}
        /\ \A c \in Lcore : flag[c] = "ack"
        /\ ~ dev'[op.dev].running
        /\ \A e \in Dev \ {op.dev} : dev'[e] = dev[e]
        /\ \/ op'.step = "idle" /\ op'.dev = NoDev
           \/ op'.step = "cleanup" /\ op'.dev = op.dev
        /\ UNCHANGED <<vport, flag, core>>
    BY <1>0, <1>8, <1>t DEF wait, TypeOK, Device, Idle
  <2>2. \A e : Match(e)' = Match(e)  BY <2>1, MatchKept, Zenon
  <2> QED  BY <1>0, <1>t, <1>n, <2>1, <2>2 DEF Handshake
<1>9. ASSUME rm_config_ll_entry PROVE Handshake'
  <2>1. /\ op.step = "cleanup" /\ op.dev \in Dev
        /\ ~ dev[op.dev].running /\ ~ dev'[op.dev].running
        /\ \A e \in Dev \ {op.dev} : dev'[e] = dev[e]
        /\ op'.step = "idle" /\ op'.dev = NoDev
        /\ UNCHANGED <<vport, flag, core>>
    BY <1>0, <1>9, Zenon DEF rm_config_ll_entry, TypeOK, Closed, Idle
  <2>2. \A e : Match(e)' = Match(e)  BY <2>1, MatchKept, Zenon
  <2> QED  BY <1>0, <1>t, <1>n, <2>1, <2>2 DEF Handshake
<1>10. ASSUME NEW c \in Lcore,
              \/ lcore_main(c) \/ done_with_dev(c) \/ loop(c)
              \/ \E p \in Port : load_dev(c, p)
       PROVE  Handshake'
  <2>1. /\ UNCHANGED <<dev, vport, op>>
        /\ \A e \in Lcore \ {c} : core'[e] = core[e] /\ flag'[e] = flag[e]
        /\ \/ core'[c].step # "use"
           \/ \E p \in Port : core'[c].dev = vport[p].dev /\ vport[p].dev # NoDev
    BY <1>10 DEF lcore_main, load_dev, done_with_dev, loop, TypeOK, Work
  <2>2. \A e : Match(e)' = Match(e)  BY <2>1, MatchKept, Zenon
  <2> QED  BY <1>0, <1>t, <1>n, <2>1, <2>2 DEF Handshake
<1>11. ASSUME NEW p \in Port, NEW n \in Name, vport_set_name(p, n)
       PROVE  Handshake'
  BY <1>11 DEF vport_set_name, TypeOK
<1>12. CASE UNCHANGED vars
  <2>1. \A e : Match(e)' = Match(e)  BY <1>12, MatchKept, Zenon DEF vars
  <2> QED  BY <1>0, <1>12, <2>1, Zenon DEF vars, Handshake
<1> HIDE DEF OpInv, DeviceInv, PortInv, CoreInv, Removing
<1>13. CASE Qemu
  BY <1>1, <1>2, <1>4, <1>5, <1>6, <1>13, Zenon DEF Qemu
<1>14. CASE Cuse
  BY <1>3, <1>7, <1>8, <1>9, <1>14, Zenon DEF Cuse
<1> QED
  BY <1>10, <1>11, <1>12, <1>13, <1>14, Zenon DEF Next

\* At the start nothing is open, attached or in use.
LEMMA HandshakeInit == Init => TypeOK /\ Handshake
<1> SUFFICES ASSUME Init PROVE TypeOK /\ Handshake
  BY Zenon
<1>1. TypeOK
  BY DeviceAssumption DEF Init, TypeOK, Device, Vport, Call, Work, Closed, Idle
<1>2. OpInv /\ \A d \in Dev : DeviceInv(d)
  BY DeviceAssumption, Zenon DEF Init, OpInv, DeviceInv, Removing, Closed, Idle
<1>3. /\ \A p \in Port : PortInv(p)
      /\ \A c \in Lcore : CoreInv(c)
  BY Zenon DEF Init, PortInv, CoreInv
<1> QED  BY <1>1, <1>2, <1>3, Zenon DEF Handshake

\* Whoever renames vports or remaps memory, the call that the CUSE thread is in
\* is always for a device.
LEMMA OpStep == TypeOK /\ OpInv /\ [Next]_vars => OpInv'
<1> SUFFICES ASSUME TypeOK, OpInv, [Next]_vars PROVE OpInv'
  BY Zenon
<1>1. ASSUME NEW d \in Dev, NEW x \in BOOLEAN, Detach(d, x) PROVE OpInv'
  <2>1. CASE op' = [step |-> "request", dev |-> d, close |-> x,
                    left |-> Lcore]
    BY <2>1, Zenon DEF OpInv
  <2>2. CASE op' = [Idle EXCEPT !.step = "cleanup", !.dev = d]
    BY <2>2, Zenon DEF OpInv, Idle
  <2>3. CASE op' = Idle
    BY <2>3, Zenon DEF OpInv, Idle
  <2> QED  BY <1>1, <2>1, <2>2, <2>3, Zenon DEF Detach
<1>2. ASSUME NEW d \in Dev, set_mem_table(d) \/ destroy_device(d)
      PROVE  OpInv'
  BY <1>1, <1>2, Zenon DEF set_mem_table, destroy_device, OpInv, Idle
<1>3. ASSUME NEW d \in Dev, NEW q \in Queue, clear_backend(d, q)
      PROVE  OpInv'
  BY <1>1, <1>3, Zenon DEF clear_backend, OpInv
<1>4. CASE Cuse
  <2>1. ASSUME NEW c \in Lcore, request(c) PROVE OpInv'
    BY <2>1, Zenon DEF request, OpInv, TypeOK, Call
  <2>2. CASE wait
    <3>1. op.dev \in Dev  BY <2>2, Zenon DEF wait, OpInv
    <3> QED  BY <2>2, <3>1, Zenon DEF wait, OpInv, Idle
  <2> QED
    BY <1>4, <2>1, <2>2 DEF Cuse, host_memory_map, host_memory_map_fails,
                            rm_config_ll_entry, OpInv, Idle
<1>5. CASE UNCHANGED op
  BY <1>5, Zenon DEF OpInv
<1> QED
  BY Zenon, <1>2, <1>3, <1>4, <1>5
     DEF Next, Qemu, new_device, set_backend, lcore_main,
         load_dev, done_with_dev, loop, vport_set_name, vars

\* The state of vhost.c, virtio-net.c and the flags keeps its types, whatever
\* the daemon and QEMU ask for.
THEOREM DeviceTypeCorrect == Spec => []TypeOK
<1>1. Init => TypeOK /\ OpInv  BY HandshakeInit, Zenon DEF Handshake
<1> QED  BY <1>1, DeviceTypes, OpStep, PTL DEF Spec

\* A renaming or remapping is not forgotten.
LEMMA BypassesStay == TypeOK /\ [Next]_vars /\ bypasses' = 0 => bypasses = 0
<1> SUFFICES ASSUME TypeOK, [Next]_vars, bypasses' = 0 PROVE bypasses = 0
  BY Zenon
<1>1. bypasses' = bypasses \/ bypasses' = bypasses + 1
  BY Zenon
     DEF Next, Qemu, Cuse, vars, new_device, set_mem_table, host_memory_map,
         host_memory_map_fails, set_backend, clear_backend, destroy_device,
         request, wait, rm_config_ll_entry, lcore_main, load_dev,
         done_with_dev, loop, vport_set_name
<1> QED  BY <1>1, DeviceAssumption DEF TypeOK

Undisturbed == bypasses = 0 => Handshake

\* The handshake is invariant until a vport is renamed or a running device
\* remapped.
THEOREM HandshakeInvariance == Spec => [](TypeOK /\ OpInv /\ Undisturbed)
<1>1. Init => TypeOK /\ OpInv /\ Undisturbed
  BY HandshakeInit, Zenon DEF Handshake, Undisturbed
<1>2. TypeOK /\ Undisturbed /\ [Next]_vars => Undisturbed'
  BY HandshakeStep, BypassesStay, Zenon DEF Undisturbed
<1> QED  BY <1>1, <1>2, OpStep, DeviceTypes, PTL DEF Spec

\* As long as no vport is renamed and QEMU does not send SET_MEM_TABLE for a
\* running device, for every number of devices, vports and lcores the flags of
\* dev_removal_flag keep the guest's memory mapped until the last burst on it
\* has returned.
THEOREM RemovalWaitsForBursts == Spec => []MappedWhileUsed
<1>1. Undisturbed => MappedWhileUsed
  BY Zenon DEF Undisturbed, Handshake, CoreInv, DeviceInv, MappedWhileUsed
<1> QED  BY <1>1, HandshakeInvariance, PTL

\* Under the same condition no vport points to a device that has been
\* destroyed.
THEOREM NoDanglingVport == Spec => []AttachedIsRunning
<1>1. TypeOK /\ Undisturbed => AttachedIsRunning
  BY Zenon DEF TypeOK, Vport, Undisturbed, Handshake, PortInv, DeviceInv,
         AttachedIsRunning
<1> QED  BY <1>1, HandshakeInvariance, PTL
=============================================================================
