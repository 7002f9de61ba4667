--------------------------- MODULE RequestProofs ---------------------------
(***************************************************************************)
(* Proofs about what the daemon asks of the datapath.                      *)
(*                                                                         *)
(* FlowCommands, for any number of flows, positions, dumping threads and   *)
(* packets, and any hash: type correctness, that a dump gives every flow   *)
(* that stays exactly once, unless the flow at which it stands is deleted  *)
(* (dump[d].cut), and that the replies to commands are right about the     *)
(* flow and about its statistics.                                          *)
(*                                                                         *)
(* PortTable, for any vports, names, crashes and changes of the            *)
(* configuration: what the daemon knows is always enabled; vports with     *)
(* stable names are found by their names, and none of them is orphaned,    *)
(* whatever happens to the other names.                                    *)
(***************************************************************************)
EXTENDS FlowCommands, PortTable, TLAPS
-----------------------------------------------------------------------------
(* FlowCommands *)

\* Every action keeps the type invariant.
LEMMA TypeStep == TypeOK /\ [Next]_vars => TypeOK'
<1> SUFFICES ASSUME TypeOK, [Next]_vars PROVE TypeOK' BY Zenon
<1> USE FlowCommandsAssumption
<1>. DEFINE K0 == Key \cup {NoKey}
<1>c. cmd \in CmdState BY Zenon DEF TypeOK
<1>n. NoCmd \in CmdState BY Zenon DEF NoCmd, Commands, CmdState
<1>a. ASSUME NEW op \in Commands, NEW k \in K0, NEW t \in {"0", "ENOENT", "EEXIST"},
             NEW s \in Nat, NEW w \in Int, Answer(op, k, t, s, w)
      PROVE  reply' \in Reply
  BY <1>a, Zenon DEF Answer, Reply
<1>g. ASSUME NEW K, Gone(K) PROVE dump' \in [Dump -> DumpState]
  <2>1. ASSUME NEW d \in Dump
        PROVE  [dump[d] EXCEPT !.stayed = @ \ K,
                   !.cut = @ \/ (dump[d].step = "on" /\ dump[d].key \in K)] \in DumpState
    BY Zenon DEF TypeOK, DumpState
  <2> QED BY <2>1, <1>g, Zenon DEF Gone
<1>1. ASSUME NEW k \in Key, NEW b \in BOOLEAN, flow_cmd_new_add(k, b) PROVE TypeOK'
  <2>1. reply' \in Reply BY <1>1, <1>a DEF flow_cmd_new_add, Commands
  <2>2. slot' \in [Pos -> K0] /\ count' \in [Pos -> Nat]
    BY <1>1 DEF flow_cmd_new_add, TypeOK
  <2> QED BY <1>1, <2>1, <2>2, Zenon DEF flow_cmd_new_add, TypeOK
<1>2. ASSUME NEW k \in Key, NEW b \in BOOLEAN, NEW c \in BOOLEAN, flow_cmd_new_mod(k, b, c)
      PROVE  TypeOK'
  <2>1. PICK p \in Pos :
           IF b THEN /\ cmd' = [op |-> "new", key |-> k, clear |-> c,
                                 stats |-> count[p], late |-> 0]
                     /\ UNCHANGED reply
                ELSE Answer("new", k, "EEXIST", 0, 0) /\ UNCHANGED cmd
    BY <1>2, Zenon DEF flow_cmd_new_mod, flow_table_lookup
  <2>2. reply' \in Reply BY <2>1, <1>a DEF TypeOK, Commands
  <2>3. cmd' \in CmdState BY <2>1, <1>c DEF TypeOK, Commands, CmdState
  <2> QED BY <1>2, <2>2, <2>3, Zenon DEF flow_cmd_new_mod, TypeOK
<1>3. ASSUME flow_table_mod_flow PROVE TypeOK'
  <2>1. PICK p \in Pos :
           /\ Answer("new", cmd.key, "0", cmd.stats, count[p] - cmd.late)
           /\ count' = IF cmd.clear THEN [count EXCEPT ![p] = 0] ELSE count
    BY <1>3, Zenon DEF flow_table_mod_flow, flow_table_lookup
  <2>2. reply' \in Reply BY <2>1, <1>a, <1>c DEF TypeOK, Commands, CmdState
  <2>3. count' \in [Pos -> Nat] BY <2>1, Zenon DEF TypeOK
  <2> QED BY <1>3, <1>n, <2>2, <2>3, Zenon DEF flow_table_mod_flow, TypeOK
<1>4. ASSUME NEW k \in Key, flow_cmd_del(k) PROVE TypeOK'
  <2>1. CASE Answer("del", k, "ENOENT", 0, 0) /\ UNCHANGED cmd
    <3>1. reply' \in Reply BY <2>1, <1>a DEF Commands
    <3> QED BY <1>4, <2>1, <3>1, Zenon DEF flow_cmd_del, TypeOK
  <2>2. ASSUME NEW p \in Pos, UNCHANGED reply,
               cmd' = [op |-> "del", key |-> k, clear |-> FALSE,
                       stats |-> count[p], late |-> 0]
        PROVE  TypeOK'
    <3>1. cmd' \in CmdState BY <2>2, Zenon DEF TypeOK, Commands, CmdState
    <3> QED BY <1>4, <2>2, <3>1, Zenon DEF flow_cmd_del, TypeOK
  <2> QED BY <1>4, <2>1, <2>2, Zenon DEF flow_cmd_del, flow_table_lookup
<1>5. ASSUME flow_table_del_flow PROVE TypeOK'
  <2>1. PICK p \in Pos :
           /\ Answer("del", cmd.key, "0", cmd.stats, count[p] - cmd.late)
           /\ slot' = [slot EXCEPT ![p] = NoKey]
           /\ count' = [count EXCEPT ![p] = 0]
    BY <1>5, Zenon DEF flow_table_del_flow, flow_table_lookup
  <2>2. reply' \in Reply BY <2>1, <1>a, <1>c DEF TypeOK, Commands, CmdState
  <2>3. slot' \in [Pos -> K0] /\ count' \in [Pos -> Nat] BY <2>1, Zenon DEF TypeOK
  <2> QED BY <1>5, <1>n, <1>g, <2>2, <2>3, Zenon DEF flow_table_del_flow, TypeOK
<1>6. ASSUME flow_table_del_all PROVE TypeOK'
  <2>1. reply' \in Reply BY <1>6, <1>a DEF flow_table_del_all, Commands
  <2> QED BY <1>6, <1>g, <2>1, Zenon DEF flow_table_del_all, TypeOK
<1>7. ASSUME NEW k \in Key, flow_cmd_get(k) PROVE TypeOK'
  <2>1. CASE Answer("get", k, "ENOENT", 0, 0)
    <3>1. reply' \in Reply BY <2>1, <1>a DEF Commands
    <3> QED BY <1>7, <3>1, Zenon DEF flow_cmd_get, TypeOK
  <2>2. ASSUME NEW p \in Pos, Answer("get", k, "0", count[p], count[p]) PROVE TypeOK'
    <3>1. reply' \in Reply BY <2>2, <1>a DEF Commands, TypeOK
    <3> QED BY <1>7, <3>1, Zenon DEF flow_cmd_get, TypeOK
  <2> QED BY <1>7, <2>1, <2>2, Zenon DEF flow_cmd_get, flow_table_lookup
<1>8. ASSUME NEW p \in Pos, flow_table_update_stats(p) PROVE TypeOK'
  <2>1. [cmd EXCEPT !.late = @ + 1] \in CmdState BY <1>c DEF CmdState
  <2>2. cmd' \in CmdState BY <1>8, <1>c, <2>1, Zenon DEF flow_table_update_stats
  <2>3. count' \in [Pos -> Nat] BY <1>8 DEF flow_table_update_stats, TypeOK
  <2> QED BY <1>8, <2>2, <2>3, Zenon DEF flow_table_update_stats, TypeOK
<1>9. ASSUME NEW d \in Dump, dpif_dpdk_flow_dump_start(d) PROVE TypeOK'
  <2>1. Present \subseteq Key BY Zenon DEF Present, TypeOK
  <2>2. [NoDump EXCEPT !.step = "on", !.stayed = Present] \in DumpState
    BY <2>1, Zenon DEF NoDump, DumpState
  <2> QED BY <1>9, <2>2, Zenon DEF dpif_dpdk_flow_dump_start, TypeOK
<1>10. ASSUME NEW d \in Dump, dpif_dpdk_flow_dump_next(d) PROVE TypeOK'
  <2>0. dump[d] \in DumpState BY Zenon DEF TypeOK
  <2>1. ASSUME NEW p \in flow_cmd_dump(dump[d].key)
        PROVE  p \in Pos /\ slot[p] \in Key
    BY Zenon DEF flow_cmd_dump, flow_table_get_next_flow, Later, TypeOK
  <2>2. ASSUME NEW k \in Key
        PROVE  [dump[d] EXCEPT !.key = k, !.seen = @ \cup {k},
                               !.again = @ \cup (dump[d].seen \cap {k})] \in DumpState
    BY <2>0, Zenon DEF DumpState
  <2>3. [dump[d] EXCEPT !.step = "eof"] \in DumpState BY <2>0, Zenon DEF DumpState
  <2>4. dump' \in [Dump -> DumpState]
    <3>1. CASE \E p \in flow_cmd_dump(dump[d].key) :
                  dump' = [dump EXCEPT ![d].key = slot[p], ![d].seen = @ \cup {slot[p]},
                                       ![d].again = @ \cup (dump[d].seen \cap {slot[p]})]
      <4>1. PICK p \in flow_cmd_dump(dump[d].key) :
                  dump' = [dump EXCEPT ![d].key = slot[p], ![d].seen = @ \cup {slot[p]},
                                       ![d].again = @ \cup (dump[d].seen \cap {slot[p]})]
        BY <3>1, Zenon
      <4>. DEFINE e == [dump[d] EXCEPT !.key = slot[p], !.seen = @ \cup {slot[p]},
                                       !.again = @ \cup (dump[d].seen \cap {slot[p]})]
      <4>2. e \in DumpState BY <2>1, <2>2, Zenon
      <4>3. dump' = [dump EXCEPT ![d] = e] BY <2>0, <4>1, Zenon DEF TypeOK, DumpState
      <4> HIDE DEF e
      <4> QED BY <4>2, <4>3, Zenon DEF TypeOK
    <3>2. CASE dump' = [dump EXCEPT ![d].step = "eof"]
      BY <2>3, <3>2, Zenon DEF TypeOK
    <3> QED BY <1>10, <3>1, <3>2, Zenon DEF dpif_dpdk_flow_dump_next
  <2> QED BY <1>10, <2>4, Zenon DEF dpif_dpdk_flow_dump_next, TypeOK
<1>11. ASSUME NEW d \in Dump, dpif_dpdk_flow_dump_done(d) PROVE TypeOK'
  <2>1. NoDump \in DumpState BY Zenon DEF NoDump, DumpState
  <2> QED BY <1>11, <2>1, Zenon DEF dpif_dpdk_flow_dump_done, TypeOK
<1>12. ASSUME UNCHANGED vars PROVE TypeOK' BY <1>12, Zenon DEF vars, TypeOK
<1> QED
  BY <1>1, <1>2, <1>3, <1>4, <1>5, <1>6, <1>7, <1>8, <1>9, <1>10, <1>11, <1>12, Zenon DEF Next

\* The variables keep their types.
THEOREM TypeCorrect == Spec => []TypeOK
<1>1. Init => TypeOK
  BY FlowCommandsAssumption
     DEF Init, TypeOK, NoCmd, NoDump, Commands, CmdState, Reply, DumpState
<1> QED BY <1>1, TypeStep, PTL DEF Spec
-----------------------------------------------------------------------------
(* The inductive invariant *)

\* The hash has a key once.
OnePosition == \A p, q \in Pos : slot[p] = slot[q] /\ slot[p] # NoKey => p = q

\* A dump that goes on stands at a flow of the table, and has given those of
\* the flows that stayed whose position is not behind it.
OnCourse(d) ==
    dump[d].step = "on" /\ ~ dump[d].cut =>
        /\ dump[d].stayed \subseteq Present
        /\ dump[d].key # NoKey => dump[d].key \in Present
        /\ dump[d].key = NoKey => dump[d].seen = {}
        /\ dump[d].key # NoKey =>
               \A p, q \in Pos : slot[p] = dump[d].key /\ slot[q] \in dump[d].stayed
                                     => (slot[q] \in dump[d].seen <=> q <= p)

DumpInv ==
    /\ TypeOK /\ OnePosition
    /\ \A d \in Dump : OnCourse(d)
    /\ DumpComplete /\ DumpOnce

\* The properties hold at first.
LEMMA DumpInit == Init => DumpInv
BY FlowCommandsAssumption
   DEF Init, DumpInv, TypeOK, OnePosition, OnCourse, DumpComplete, DumpOnce,
       NoCmd, NoDump, Commands, CmdState, Reply, DumpState

\* Steps that change neither the table nor a dump keep the invariant.
LEMMA DumpIdle ==
    ASSUME DumpInv, TypeOK', UNCHANGED <<slot, dump>>
    PROVE  DumpInv'
BY DEF DumpInv, OnePosition, OnCourse, DumpComplete, DumpOnce, Present

\* flow_table_add_flow uses a free position for a key that no dump has met.
LEMMA DumpAdd ==
    ASSUME DumpInv, TypeOK', NEW k \in Key, NEW b \in BOOLEAN, flow_cmd_new_add(k, b)
    PROVE  DumpInv'
<1> USE FlowCommandsAssumption
<1>0. UNCHANGED <<cmd, dump>> /\ \A p \in Pos : slot[p] # k
  BY Zenon DEF flow_cmd_new_add, flow_table_lookup
<1>1. CASE UNCHANGED slot BY <1>0, <1>1, DumpIdle, Zenon
<1>2. ASSUME NEW p \in Bucket[k], slot[p] = NoKey, slot' = [slot EXCEPT ![p] = k]
      PROVE  DumpInv'
  <2>0. p \in Pos /\ k # NoKey /\ slot \in [Pos -> Key \cup {NoKey}] BY Zenon DEF DumpInv, TypeOK
  <2>1. \A q \in Pos : slot'[q] = IF q = p THEN k ELSE slot[q] BY <1>2, <2>0, Zenon
  <2>2. OnePosition' BY <1>0, <2>0, <2>1, Zenon DEF DumpInv, OnePosition
  <2>4. Present \subseteq Present' /\ k \notin Present
    BY <1>0, <1>2, <2>0, <2>1, Zenon DEF Present
  <2>5. ASSUME NEW d \in Dump PROVE OnCourse(d)'
    BY <1>0, <2>0, <2>1, <2>4 DEF DumpInv, OnCourse
  <2> QED BY <1>0, <2>2, <2>5, Zenon DEF DumpInv, DumpComplete, DumpOnce
<1> QED BY <1>1, <1>2, Zenon DEF flow_cmd_new_add

\* Flows that are deleted leave the flows that stayed, and a dump that stands at
\* one of them is cut.
LEMMA DumpGone ==
    ASSUME DumpInv, TypeOK', NEW K, Gone(K),
           \A p \in Pos : slot'[p] = IF slot[p] \in K THEN NoKey ELSE slot[p]
    PROVE  DumpInv'
<1>1. \A d \in Dump : /\ dump'[d].step = dump[d].step /\ dump'[d].key = dump[d].key
                      /\ dump'[d].seen = dump[d].seen /\ dump'[d].again = dump[d].again
                      /\ dump'[d].stayed = dump[d].stayed \ K
                      /\ ~ dump'[d].cut => /\ ~ dump[d].cut
                                           /\ dump[d].step = "on" => dump[d].key \notin K
  <2> SUFFICES ASSUME NEW d \in Dump
               PROVE  /\ dump'[d].step = dump[d].step /\ dump'[d].key = dump[d].key
                      /\ dump'[d].seen = dump[d].seen /\ dump'[d].again = dump[d].again
                      /\ dump'[d].stayed = dump[d].stayed \ K
                      /\ ~ dump'[d].cut => /\ ~ dump[d].cut
                                           /\ dump[d].step = "on" => dump[d].key \notin K
    BY Zenon
  <2>0. dump[d] \in DumpState BY Zenon DEF DumpInv, TypeOK
  <2>1. dump'[d] = [dump[d] EXCEPT !.stayed = @ \ K,
                        !.cut = @ \/ (dump[d].step = "on" /\ dump[d].key \in K)]
    BY Zenon DEF Gone
  <2>2. /\ dump'[d].step = dump[d].step /\ dump'[d].key = dump[d].key
        /\ dump'[d].seen = dump[d].seen /\ dump'[d].again = dump[d].again
        /\ dump'[d].stayed = dump[d].stayed \ K
    BY <2>0, <2>1, Zenon DEF DumpState
  <2>3. dump'[d].cut = (dump[d].cut \/ (dump[d].step = "on" /\ dump[d].key \in K))
    BY <2>0, <2>1, Zenon DEF DumpState
  <2> QED BY Zenon, <2>2, <2>3
<1>2. OnePosition' BY Zenon DEF DumpInv, OnePosition
<1>4. \A k : k \in Present /\ k \notin K => k \in Present' BY Zenon DEF Present
<1>5. ASSUME NEW d \in Dump PROVE OnCourse(d)'
  <2>1. CASE dump[d].step # "on" \/ dump'[d].cut BY <1>1, <2>1, Zenon DEF OnCourse
  <2>2. CASE dump[d].step = "on" /\ ~ dump'[d].cut
    <3>1. OnCourse(d) BY Zenon DEF DumpInv
    <3>2. dump'[d].stayed \subseteq Present' BY <1>1, <1>4, <2>2, <3>1, Zenon DEF OnCourse
    <3>3. dump'[d].key # NoKey => dump'[d].key \in Present'
      BY <1>1, <1>4, <2>2, <3>1, Zenon DEF OnCourse
    <3>4. dump'[d].key = NoKey => dump'[d].seen = {} BY <1>1, <2>2, <3>1, Zenon DEF OnCourse
    <3>5. ASSUME dump'[d].key # NoKey, NEW p \in Pos, NEW q \in Pos,
                 slot'[p] = dump'[d].key, slot'[q] \in dump'[d].stayed
          PROVE  slot'[q] \in dump'[d].seen <=> q <= p
      <4>1. NoKey \notin dump[d].stayed
        BY FlowCommandsAssumption, Zenon DEF DumpInv, TypeOK, DumpState
      <4>2. slot[p] = dump[d].key /\ slot[q] = slot'[q] /\ slot[q] \in dump[d].stayed
        BY <1>1, <3>5, <4>1, Zenon
      <4> QED BY <1>1, <2>2, <3>1, <3>5, <4>2, Zenon DEF OnCourse
    <3> QED BY <3>2, <3>3, <3>4, <3>5, Zenon DEF OnCourse
  <2> QED BY <2>1, <2>2, Zenon
<1> QED BY <1>1, <1>2, <1>5 DEF DumpInv, DumpComplete, DumpOnce


\* A step of one dump leaves the table and the other dumps alone.
LEMMA DumpOther ==
    ASSUME DumpInv, TypeOK', UNCHANGED <<slot, cmd>>, NEW d \in Dump,
           \A e \in Dump \ {d} : dump'[e] = dump[e],
           OnCourse(d)',
           dump'[d].step = "eof" /\ ~ dump'[d].cut => dump'[d].stayed \subseteq dump'[d].seen,
           ~ dump'[d].cut => dump'[d].stayed \cap dump'[d].again = {}
    PROVE  DumpInv'
<1>1. OnePosition' BY Zenon DEF DumpInv, OnePosition
<1>2. Present' = Present BY Zenon DEF Present
<1>3. ASSUME NEW e \in Dump PROVE OnCourse(e)'
  <2>1. CASE e = d BY <2>1, Zenon
  <2>2. CASE e # d
    <3>1. OnCourse(e) /\ dump'[e] = dump[e] BY <2>2, Zenon DEF DumpInv
    <3> QED BY <1>2, <3>1, Zenon DEF OnCourse
  <2> QED BY <2>1, <2>2, Zenon
<1>4. DumpComplete' BY Zenon DEF DumpInv, DumpComplete
<1>5. DumpOnce' BY DEF DumpInv, DumpOnce
<1> QED BY <1>1, <1>3, <1>4, <1>5, Zenon DEF DumpInv

\* flow_cmd_dump gives the first flow behind the last one that was dumped: a
\* flow that stayed is met when the dump passes its position, and only then.
LEMMA DumpNextFlow ==
    ASSUME DumpInv, TypeOK', NEW d \in Dump, cmd = NoCmd, UNCHANGED <<slot, cmd>>,
           dump[d].step = "on", ~ dump[d].cut, NEW p \in flow_cmd_dump(dump[d].key),
           \A r \in flow_cmd_dump(dump[d].key) : p <= r,
           dump' = [dump EXCEPT ![d].key = slot[p], ![d].seen = @ \cup {slot[p]},
                                ![d].again = @ \cup (dump[d].seen \cap {slot[p]})]
    PROVE  DumpInv'
<1> USE FlowCommandsAssumption
<1>0. dump[d] \in DumpState /\ dump \in [Dump -> DumpState] /\ OnCourse(d)
  BY Zenon DEF DumpInv, TypeOK
<1>1. /\ dump'[d].step = "on" /\ dump'[d].key = slot[p]
      /\ dump'[d].seen = dump[d].seen \cup {slot[p]}
      /\ dump'[d].stayed = dump[d].stayed
      /\ dump'[d].again = dump[d].again \cup (dump[d].seen \cap {slot[p]})
  BY <1>0, Zenon DEF DumpState
<1>2. \A e \in Dump \ {d} : dump'[e] = dump[e] BY <1>0, Zenon
<1>3. p \in Pos /\ slot[p] # NoKey
  BY Zenon DEF flow_cmd_dump, flow_table_get_next_flow, Later
<1>4. ASSUME NEW q \in Pos, slot[q] \in dump[d].stayed
      PROVE  slot[q] \in dump[d].seen \cup {slot[p]} <=> q <= p
  <2>0. slot[q] # NoKey BY <1>0, <1>4, Zenon DEF DumpState
  <2>1. slot[q] = slot[p] => q = p BY <1>3, <2>0, Zenon DEF DumpInv, OnePosition
  <2>2. CASE dump[d].key = NoKey
    <3>1. flow_cmd_dump(dump[d].key) = {r \in Pos : slot[r] # NoKey}
      BY <2>2, Zenon DEF flow_cmd_dump, Later
    <3>2. p <= q BY <2>0, <3>1, Zenon
    <3>3. dump[d].seen = {} BY <1>0, <2>2, Zenon DEF OnCourse
    <3> QED BY <1>3, <2>1, <3>2, <3>3 DEF Pos
  <2>3. CASE dump[d].key # NoKey
    <3>1. PICK c \in Pos : slot[c] = dump[d].key
      BY <1>0, <2>3, Zenon DEF OnCourse, Present
    <3>2. flow_table_lookup(dump[d].key) = {c}
      BY <2>3, <3>1, Zenon DEF flow_table_lookup, DumpInv, OnePosition
    <3>3. flow_cmd_dump(dump[d].key) = {r \in Pos : slot[r] # NoKey /\ c < r}
      BY <2>3, <3>2, Zenon DEF flow_cmd_dump, flow_table_get_next_flow, Later
    <3>4. c < p /\ (c < q => p <= q) BY <2>0, <3>3, Zenon
    <3>5. slot[q] \in dump[d].seen <=> q <= c
      BY <1>0, <1>4, <2>3, <3>1, Zenon DEF OnCourse
    <3> QED BY <1>3, <2>1, <3>1, <3>4, <3>5 DEF Pos
  <2> QED BY <2>2, <2>3, Zenon
<1>5. slot[p] \in dump[d].stayed => slot[p] \notin dump[d].seen
  <2>1. CASE dump[d].key = NoKey BY <1>0, <2>1, Zenon DEF OnCourse
  <2>2. CASE dump[d].key # NoKey
    <3>1. PICK c \in Pos : slot[c] = dump[d].key
      BY <1>0, <2>2, Zenon DEF OnCourse, Present
    <3>2. c < p
      BY <2>2, <3>1, Zenon DEF flow_cmd_dump, flow_table_get_next_flow, flow_table_lookup, Later
    <3>3. slot[p] \in dump[d].stayed => (slot[p] \in dump[d].seen <=> p <= c)
      BY <1>0, <1>3, <2>2, <3>1, Zenon DEF OnCourse
    <3> QED BY <1>3, <3>1, <3>2, <3>3 DEF Pos
  <2> QED BY <2>1, <2>2, Zenon
<1>6. OnCourse(d)'
  <2>1. Present' = Present /\ slot[p] \in Present BY <1>3, Zenon DEF Present
  <2>2. dump[d].stayed \subseteq Present BY <1>0, Zenon DEF OnCourse
  <2>3. ASSUME NEW r \in Pos, NEW q \in Pos, slot'[r] = dump'[d].key,
               slot'[q] \in dump'[d].stayed
        PROVE  slot'[q] \in dump'[d].seen <=> q <= r
    <3>1. r = p BY <1>1, <1>3, <2>3, Zenon DEF DumpInv, OnePosition
    <3>2. slot[q] \in dump[d].stayed BY <1>1, <2>3, Zenon
    <3>3. slot[q] \in dump[d].seen \cup {slot[p]} <=> q <= p BY <1>4, <3>2, Zenon
    <3> QED BY Zenon, <1>1, <3>1, <3>3
  <2>4. /\ dump'[d].stayed \subseteq Present' /\ dump'[d].key \in Present'
        /\ dump'[d].key # NoKey
    <3>1. dump'[d].stayed \subseteq Present' BY <1>1, <2>1, <2>2, Zenon
    <3>2. dump'[d].key \in Present'
      <4>1. slot[p] \in Present' BY <2>1, Zenon
      <4> QED BY <1>1, <4>1, Zenon
    <3>3. dump'[d].key # NoKey BY <1>1, <1>3, Zenon
    <3> QED BY Zenon, <3>1, <3>2, <3>3
  <2> QED BY <2>3, <2>4, Zenon DEF OnCourse
<1>7. dump'[d].stayed \cap dump'[d].again = {} BY <1>1, <1>5, Zenon DEF DumpInv, DumpOnce
<1> QED BY Zenon, <1>1, <1>2, <1>6, <1>7, DumpOther

\* EOF comes when no flow is behind the last one, or when there is no flow.
LEMMA DumpEof ==
    ASSUME DumpInv, TypeOK', NEW d \in Dump, cmd = NoCmd, UNCHANGED <<slot, cmd>>,
           dump[d].step = "on", ~ dump[d].cut, flow_cmd_dump(dump[d].key) = {},
           dump' = [dump EXCEPT ![d].step = "eof"]
    PROVE  DumpInv'
<1> USE FlowCommandsAssumption
<1>0. dump[d] \in DumpState /\ dump \in [Dump -> DumpState] /\ OnCourse(d)
  BY Zenon DEF DumpInv, TypeOK
<1>1. dump[d].stayed \subseteq dump[d].seen
  <2> SUFFICES ASSUME NEW q \in Pos, slot[q] \in dump[d].stayed
               PROVE  slot[q] \in dump[d].seen
    BY <1>0 DEF OnCourse, Present
  <2>0. slot[q] # NoKey BY <1>0, Zenon DEF DumpState
  <2>1. CASE dump[d].key = NoKey BY <2>0, <2>1 DEF flow_cmd_dump, Later
  <2>2. CASE dump[d].key # NoKey
    <3>1. PICK c \in Pos : slot[c] = dump[d].key
      BY <1>0, <2>2, Zenon DEF OnCourse, Present
    <3>2. flow_table_lookup(dump[d].key) = {c}
      BY <2>2, <3>1, Zenon DEF flow_table_lookup, DumpInv, OnePosition
    <3>3. ~ (c < q)
      BY <2>0, <2>2, <3>2, Zenon DEF flow_cmd_dump, flow_table_get_next_flow, Later
    <3>4. slot[q] \in dump[d].seen <=> q <= c BY <1>0, <2>2, <3>1, Zenon DEF OnCourse
    <3> QED BY <3>1, <3>3, <3>4 DEF Pos
  <2> QED BY <2>1, <2>2, Zenon
<1>2. /\ dump'[d].step = "eof" /\ dump'[d].seen = dump[d].seen
      /\ dump'[d].stayed = dump[d].stayed /\ dump'[d].again = dump[d].again
  BY <1>0, Zenon DEF DumpState
<1>3. OnCourse(d)' BY <1>2, Zenon DEF OnCourse
<1>4. \A e \in Dump \ {d} : dump'[e] = dump[e] BY <1>0, Zenon
<1>5. dump'[d].stayed \cap dump'[d].again = {} BY <1>2, Zenon DEF DumpInv, DumpOnce
<1> QED BY <1>1, <1>2, <1>3, <1>4, <1>5, DumpOther, Zenon


\* Every action keeps the invariant.
LEMMA DumpStep == DumpInv /\ [Next]_vars => DumpInv'
<1> SUFFICES ASSUME DumpInv, [Next]_vars PROVE DumpInv' BY Zenon
<1> USE FlowCommandsAssumption
<1>0. TypeOK' BY TypeStep, Zenon DEF DumpInv
<1>1. ASSUME NEW k \in Key, NEW b \in BOOLEAN, flow_cmd_new_add(k, b) PROVE DumpInv'
  BY <1>0, <1>1, DumpAdd, Zenon
<1>2. ASSUME NEW k \in Key, NEW b \in BOOLEAN, NEW c \in BOOLEAN, flow_cmd_new_mod(k, b, c)
      PROVE  DumpInv'
  BY <1>0, <1>2, DumpIdle, Zenon DEF flow_cmd_new_mod
<1>3. ASSUME flow_table_mod_flow PROVE DumpInv'
  BY <1>0, <1>3, DumpIdle, Zenon DEF flow_table_mod_flow
<1>4. ASSUME NEW k \in Key, flow_cmd_del(k) PROVE DumpInv'
  BY <1>0, <1>4, DumpIdle, Zenon DEF flow_cmd_del
<1>5. ASSUME flow_table_del_flow PROVE DumpInv'
  <2>1. PICK p \in flow_table_lookup(cmd.key) : slot' = [slot EXCEPT ![p] = NoKey]
    BY <1>5, Zenon DEF flow_table_del_flow
  <2>2. Gone({cmd.key}) BY <1>5, Zenon DEF flow_table_del_flow
  <2>3. \A q \in Pos : slot'[q] = IF slot[q] \in {cmd.key} THEN NoKey ELSE slot[q]
    BY <2>1, Zenon DEF flow_table_lookup, DumpInv, TypeOK, OnePosition
  <2> QED BY <1>0, <2>2, <2>3, DumpGone, Zenon
<1>6. ASSUME flow_table_del_all PROVE DumpInv'
  <2>1. Gone(Key) BY <1>6, Zenon DEF flow_table_del_all
  <2>2. \A q \in Pos : slot'[q] = IF slot[q] \in Key THEN NoKey ELSE slot[q]
    BY <1>6, Zenon DEF flow_table_del_all, DumpInv, TypeOK
  <2> QED BY <1>0, <2>1, <2>2, DumpGone, Zenon
<1>7. ASSUME NEW k \in Key, flow_cmd_get(k) PROVE DumpInv'
  BY <1>0, <1>7, DumpIdle, Zenon DEF flow_cmd_get
<1>8. ASSUME NEW p \in Pos, flow_table_update_stats(p) PROVE DumpInv'
  BY <1>0, <1>8, DumpIdle, Zenon DEF flow_table_update_stats
<1>9. ASSUME NEW d \in Dump, dpif_dpdk_flow_dump_start(d) PROVE DumpInv'
  <2>1. /\ dump'[d].step = "on" /\ dump'[d].key = NoKey /\ dump'[d].seen = {}
        /\ dump'[d].again = {} /\ dump'[d].stayed = Present
        /\ \A e \in Dump \ {d} : dump'[e] = dump[e]
    BY <1>9, Zenon DEF dpif_dpdk_flow_dump_start, NoDump, DumpInv, TypeOK
  <2>2. UNCHANGED <<slot, cmd>> /\ Present' = Present
    BY <1>9, Zenon DEF dpif_dpdk_flow_dump_start, Present
  <2>3. OnCourse(d)' BY <2>1, <2>2, Zenon DEF OnCourse
  <2> QED BY <1>0, <2>1, <2>2, <2>3, DumpOther, Zenon
<1>10. ASSUME NEW d \in Dump, dpif_dpdk_flow_dump_next(d) PROVE DumpInv'
  <2>1. /\ cmd = NoCmd /\ UNCHANGED <<slot, cmd>> /\ dump[d].step = "on"
    BY <1>10, Zenon DEF dpif_dpdk_flow_dump_next
  <2>c. CASE dump[d].cut
    <3>1. dump'[d].cut = dump[d].cut /\ \A e \in Dump \ {d} : dump'[e] = dump[e]
      <4>0. dump[d] \in DumpState /\ dump \in [Dump -> DumpState] BY Zenon DEF DumpInv, TypeOK
      <4>1. CASE dump' = [dump EXCEPT ![d].step = "eof"] BY <4>0, <4>1, Zenon DEF DumpState
      <4>2. ASSUME NEW k, NEW S, NEW A,
                   dump' = [dump EXCEPT ![d].key = k, ![d].seen = @ \cup S,
                                        ![d].again = @ \cup A]
            PROVE  dump'[d].cut = dump[d].cut /\ \A e \in Dump \ {d} : dump'[e] = dump[e]
        BY <4>0, <4>2, Zenon DEF DumpState
      <4> QED BY <1>10, <4>1, <4>2, Zenon DEF dpif_dpdk_flow_dump_next
    <3>2. OnCourse(d)' BY <2>c, <3>1, Zenon DEF OnCourse
    <3> QED BY Zenon, <1>0, <2>1, <2>c, <3>1, <3>2, DumpOther
  <2>2. CASE /\ ~ dump[d].cut /\ flow_cmd_dump(dump[d].key) = {}
             /\ dump' = [dump EXCEPT ![d].step = "eof"]
    BY <1>0, <2>1, <2>2, DumpEof, Zenon
  <2>3. ASSUME ~ dump[d].cut, NEW p \in flow_cmd_dump(dump[d].key),
               \A r \in flow_cmd_dump(dump[d].key) : p <= r,
               dump' = [dump EXCEPT ![d].key = slot[p], ![d].seen = @ \cup {slot[p]},
                                    ![d].again = @ \cup (dump[d].seen \cap {slot[p]})]
        PROVE  DumpInv'
    BY <1>0, <2>1, <2>3, DumpNextFlow, Zenon
  <2> QED BY <1>10, <2>c, <2>2, <2>3, Zenon DEF dpif_dpdk_flow_dump_next
<1>11. ASSUME NEW d \in Dump, dpif_dpdk_flow_dump_done(d) PROVE DumpInv'
  <2>1. /\ dump'[d].step = "off" /\ dump'[d].stayed = {}
        /\ \A e \in Dump : e # d => dump'[e] = dump[e]
    BY <1>11, Zenon DEF dpif_dpdk_flow_dump_done, NoDump, DumpInv, TypeOK
  <2>2. UNCHANGED <<slot, cmd>> /\ Present' = Present
    BY <1>11, Zenon DEF dpif_dpdk_flow_dump_done, Present
  <2>3. OnePosition' BY <2>2, Zenon DEF DumpInv, OnePosition
  <2>4. ASSUME NEW e \in Dump PROVE OnCourse(e)'
    BY <2>1, <2>2, Zenon DEF DumpInv, OnCourse
  <2> QED BY <1>0, <2>1, <2>3, <2>4, Zenon DEF DumpInv, DumpComplete, DumpOnce
<1>12. ASSUME UNCHANGED vars PROVE DumpInv' BY <1>0, <1>12, DumpIdle, Zenon DEF vars
<1> QED
  BY <1>1, <1>2, <1>3, <1>4, <1>5, <1>6, <1>7, <1>8, <1>9, <1>10, <1>11, <1>12, Zenon DEF Next

\* The invariant holds at all times.
THEOREM DumpInvariant == Spec => []DumpInv
BY DumpInit, DumpStep, PTL DEF Spec

\* A dump that ended with EOF has every flow that stayed in the table, unless the
\* flow at which it stood was deleted.
THEOREM DumpsAreComplete == Spec => []DumpComplete
<1>1. DumpInv => DumpComplete BY Zenon DEF DumpInv
<1> QED BY <1>1, DumpInvariant, PTL

\* A dump gives no flow twice that stayed in the table, under the same
\* condition.
THEOREM DumpsGiveFlowsOnce == Spec => []DumpOnce
<1>1. DumpInv => DumpOnce BY Zenon DEF DumpInv
<1> QED BY <1>1, DumpInvariant, PTL
-----------------------------------------------------------------------------
(* Commands *)

\* Between the two steps of a command the flow counts what was read and what
\* came since.
Held == cmd.op # "none" =>
            \A p \in Pos : slot[p] = cmd.key => count[p] = cmd.stats + cmd.late

CommandInv == Held /\ CreatedIsThere /\ LastStats

\* A step that leaves the table and the last reply alone keeps what is known
\* about the reply.
LEMMA SameReply ==
    ASSUME CommandInv, UNCHANGED <<slot, reply>>, Held'
    PROVE  CommandInv'
BY Zenon DEF CommandInv, CreatedIsThere, LastStats, flow_table_lookup

\* A reply, field by field.
LEMMA Answered ==
    ASSUME NEW op, NEW k, NEW type, NEW stats, NEW was, Answer(op, k, type, stats, was)
    PROVE  /\ reply'.op = op /\ reply'.key = k /\ reply'.type = type
           /\ reply'.stats = stats /\ reply'.was = was
BY Zenon DEF Answer

\* Every action keeps what the replies say true.
LEMMA CommandStep == DumpInv /\ CommandInv /\ [Next]_vars => CommandInv'
<1> SUFFICES ASSUME DumpInv, CommandInv, [Next]_vars PROVE CommandInv' BY Zenon
<1> USE FlowCommandsAssumption
<1>t. /\ slot \in [Pos -> Key \cup {NoKey}] /\ count \in [Pos -> Nat]
      /\ cmd \in CmdState
  BY Zenon DEF DumpInv, TypeOK
<1>n. NoCmd.op = "none" BY Zenon DEF NoCmd
<1>o. \A p, q \in Pos : slot[p] = slot[q] /\ slot[p] # NoKey => p = q
  BY Zenon DEF DumpInv, OnePosition
<1>1. ASSUME NEW k \in Key, NEW b \in BOOLEAN, flow_cmd_new_add(k, b) PROVE CommandInv'
  <2>1. Held' BY <1>1, <1>n, Zenon DEF flow_cmd_new_add, Held
  <2>2. CASE Answer("new", k, "ENOENT", 0, 0)
    BY <2>1, <2>2, Answered, Zenon DEF CommandInv, CreatedIsThere, LastStats
  <2>3. ASSUME NEW p \in Bucket[k], slot' = [slot EXCEPT ![p] = k],
               Answer("new", k, "0", 0, 0)
        PROVE  CommandInv'
    <3>1. p \in Pos /\ slot'[p] = k BY <1>t, <2>3, Zenon
    <3>2. flow_table_lookup(k)' # {} BY <3>1, Zenon DEF flow_table_lookup
    <3> QED BY <2>1, <2>3, <3>2, Answered DEF CommandInv, CreatedIsThere, LastStats,
                                             flow_table_lookup
  <2>4. CASE /\ \A p \in Bucket[k] : slot[p] # NoKey
             /\ Answer("new", k, "0", 0, 0) /\ UNCHANGED slot
    BY <2>1, <2>4, Answered DEF CommandInv, CreatedIsThere, LastStats
  <2> QED BY <1>1, <2>2, <2>3, <2>4, Zenon DEF flow_cmd_new_add
<1>2. ASSUME NEW k \in Key, NEW b \in BOOLEAN, NEW c \in BOOLEAN, flow_cmd_new_mod(k, b, c)
      PROVE  CommandInv'
  <2>1. PICK p \in Pos :
           /\ slot[p] = k
           /\ IF b THEN /\ cmd' = [op |-> "new", key |-> k, clear |-> c,
                                    stats |-> count[p], late |-> 0]
                        /\ UNCHANGED reply
                   ELSE Answer("new", k, "EEXIST", 0, 0) /\ UNCHANGED cmd
    BY <1>2, Zenon DEF flow_cmd_new_mod, flow_table_lookup
  <2>2. cmd = NoCmd /\ UNCHANGED <<slot, count, dump>> BY <1>2, Zenon DEF flow_cmd_new_mod
  <2>3. CASE b
    <3>1. cmd'.key = k /\ cmd'.stats = count[p] /\ cmd'.late = 0 BY <2>1, <2>3
    <3>2. Held' BY <1>t, <1>o, <2>1, <2>2, <3>1 DEF Held
    <3> QED BY <2>1, <2>2, <2>3, <3>2, SameReply, Zenon
  <2>4. CASE ~ b
    <3>1. Held' BY <1>n, <2>1, <2>2, <2>4, Zenon DEF Held
    <3> QED BY <2>1, <2>4, <3>1, Answered, Zenon DEF CommandInv, CreatedIsThere, LastStats
  <2> QED BY <2>3, <2>4, Zenon
<1>3. ASSUME flow_table_mod_flow PROVE CommandInv'
  <2>1. PICK p \in Pos : /\ slot[p] = cmd.key
                         /\ Answer("new", cmd.key, "0", cmd.stats, count[p] - cmd.late)
    BY <1>3, Zenon DEF flow_table_mod_flow, flow_table_lookup
  <2>2. cmd.op = "new" /\ cmd' = NoCmd /\ UNCHANGED slot
    BY <1>3, Zenon DEF flow_table_mod_flow
  <2>3. Held' BY <1>n, <2>2, Zenon DEF Held
  <2>4. count[p] - cmd.late = cmd.stats
    BY <1>t, <2>1, <2>2 DEF CommandInv, Held, CmdState
  <2>5. slot'[p] = reply'.key BY <2>1, <2>2, Answered, Zenon
  <2> QED BY <2>1, <2>3, <2>4, <2>5, Answered, Zenon
          DEF CommandInv, CreatedIsThere, LastStats, flow_table_lookup
<1>4. ASSUME NEW k \in Key, flow_cmd_del(k) PROVE CommandInv'
  <2>0. cmd = NoCmd /\ UNCHANGED <<slot, count>> BY <1>4, Zenon DEF flow_cmd_del
  <2>1. CASE Answer("del", k, "ENOENT", 0, 0) /\ UNCHANGED cmd
    <3>1. Held' BY <1>n, <2>0, <2>1, Zenon DEF Held
    <3> QED BY <2>1, <3>1, Answered, Zenon DEF CommandInv, CreatedIsThere, LastStats
  <2>2. ASSUME NEW p \in Pos, slot[p] = k, UNCHANGED reply,
               cmd' = [op |-> "del", key |-> k, clear |-> FALSE,
                       stats |-> count[p], late |-> 0]
        PROVE  CommandInv'
    <3>1. cmd'.key = k /\ cmd'.stats = count[p] /\ cmd'.late = 0 BY <2>2, Zenon
    <3>2. Held' BY <1>t, <1>o, <2>0, <2>2, <3>1 DEF Held
    <3> QED BY <2>0, <2>2, <3>2, SameReply, Zenon
  <2> QED BY <1>4, <2>1, <2>2, Zenon DEF flow_cmd_del, flow_table_lookup
<1>5. ASSUME flow_table_del_flow PROVE CommandInv'
  <2>1. PICK p \in Pos : /\ slot[p] = cmd.key
                         /\ Answer("del", cmd.key, "0", cmd.stats, count[p] - cmd.late)
    BY <1>5, Zenon DEF flow_table_del_flow, flow_table_lookup
  <2>2. cmd.op = "del" /\ cmd' = NoCmd BY <1>5, Zenon DEF flow_table_del_flow
  <2>3. Held' BY <1>n, <2>2, Zenon DEF Held
  <2>4. count[p] - cmd.late = cmd.stats
    BY <1>t, <2>1, <2>2 DEF CommandInv, Held, CmdState
  <2> QED BY <2>1, <2>3, <2>4, Answered DEF CommandInv, CreatedIsThere, LastStats
<1>6. ASSUME flow_table_del_all PROVE CommandInv'
  <2>1. Held' BY <1>6, <1>n, Zenon DEF flow_table_del_all, Held
  <2>2. Answer("del", NoKey, "0", 0, 0) BY <1>6, Zenon DEF flow_table_del_all
  <2> QED BY <2>1, <2>2, Answered DEF CommandInv, CreatedIsThere, LastStats
<1>7. ASSUME NEW k \in Key, flow_cmd_get(k) PROVE CommandInv'
  <2>1. Held' BY <1>7, <1>n, Zenon DEF flow_cmd_get, Held
  <2>2. reply'.op = "get" BY <1>7, Answered, Zenon DEF flow_cmd_get
  <2> QED BY <2>1, <2>2, Zenon DEF CommandInv, CreatedIsThere, LastStats
<1>8. ASSUME NEW p \in Pos, flow_table_update_stats(p) PROVE CommandInv'
  <2>1. /\ slot[p] # NoKey /\ UNCHANGED <<slot, reply>>
        /\ count' = [count EXCEPT ![p] = @ + 1]
        /\ cmd' = IF slot[p] = cmd.key THEN [cmd EXCEPT !.late = @ + 1] ELSE cmd
    BY <1>8, Zenon DEF flow_table_update_stats
  <2>2. /\ cmd'.op = cmd.op /\ cmd'.key = cmd.key /\ cmd'.stats = cmd.stats
        /\ cmd'.late = IF slot[p] = cmd.key THEN cmd.late + 1 ELSE cmd.late
    BY <1>t, <2>1, Zenon DEF CmdState
  <2>3. cmd.stats \in Nat /\ cmd.late \in Nat BY <1>t, Zenon DEF CmdState
  <2>4. ASSUME cmd'.op # "none", NEW q \in Pos, slot'[q] = cmd'.key
        PROVE  count'[q] = cmd'.stats + cmd'.late
    <3>1. count[q] = cmd.stats + cmd.late BY <2>1, <2>2, <2>4, Zenon DEF CommandInv, Held
    <3>2. slot[p] = cmd.key <=> q = p BY <1>o, <2>1, <2>2, <2>4, Zenon
    <3>3. count'[q] = IF q = p THEN count[q] + 1 ELSE count[q] BY <1>t, <2>1, Zenon
    <3> QED BY <2>2, <2>3, <3>1, <3>2, <3>3
  <2>5. Held' BY <2>4, Zenon DEF Held
  <2> QED BY <2>1, <2>5, SameReply, Zenon
<1>9. ASSUME UNCHANGED <<slot, count, cmd, reply>> PROVE CommandInv'
  <2>1. Held' BY <1>9, Zenon DEF CommandInv, Held
  <2> QED BY <1>9, <2>1, SameReply, Zenon
<1>10. ASSUME NEW d \in Dump, \/ dpif_dpdk_flow_dump_start(d)
                              \/ dpif_dpdk_flow_dump_next(d)
                              \/ dpif_dpdk_flow_dump_done(d)
       PROVE  CommandInv'
  BY <1>9, <1>10, Zenon
     DEF dpif_dpdk_flow_dump_start, dpif_dpdk_flow_dump_next, dpif_dpdk_flow_dump_done
<1>11. CASE UNCHANGED vars BY <1>9, <1>11, Zenon DEF vars
<1> QED BY <1>1, <1>2, <1>3, <1>4, <1>5, <1>6, <1>7, <1>8, <1>10, <1>11, Zenon DEF Next

\* What the replies say is true at all times.
THEOREM CommandInvariant == Spec => []CommandInv
<1>1. Init => CommandInv
  BY DEF Init, CommandInv, Held, CreatedIsThere, LastStats, NoCmd
<1> QED BY <1>1, DumpInvariant, CommandStep, PTL DEF Spec

\* When flow_cmd_new reports success, the flow is in the table or its bucket is
\* full.
THEOREM CreatedFlowsAreThere == Spec => []CreatedIsThere
<1>1. CommandInv => CreatedIsThere BY Zenon DEF CommandInv
<1> QED BY <1>1, CommandInvariant, PTL

\* The reply to a deletion or a modification has the statistics that the flow
\* had, but for packets that came in the middle of the command.
THEOREM RepliesHaveLastStats == Spec => []LastStats
<1>1. CommandInv => LastStats BY Zenon DEF CommandInv
<1> QED BY <1>1, CommandInvariant, PTL
-----------------------------------------------------------------------------
(* PortTable *)

\* Requests that are configured are among the choices of the name.
ConfOK == \A n \in Name : conf[n] \in Choices[n] \cup {NoRequest}

\* The type of a request in the configuration is that of a vport, and its
\* vportid is a number.
LEMMA AskedIsNat == \A r \in Request : AskedPort(r) \in Nat
<1> SUFFICES ASSUME NEW r \in Request PROVE AskedPort(r) \in Nat BY Zenon
<1>1. NoPort \in Nat BY PortTableAssumption, Zenon DEF NoPort
<1>2. CASE r.type = "phy" BY <1>2, PortTableAssumption DEF AskedPort, Request
<1>3. CASE r.type = "bridge" BY <1>3, Zenon DEF AskedPort
<1>4. CASE r.type # "phy" /\ r.type # "bridge" BY <1>1, <1>4, Zenon DEF AskedPort
<1> QED BY <1>2, <1>3, <1>4, Zenon

\* A vport that vport_cmd_new takes has the type that was asked for.
LEMMA TakenFits ==
    ASSUME NEW r \in Request, NEW p \in Port, vport_cmd_new_takes(r, p), r.type # "bridge"
    PROVE  Type[p] = r.type /\ r.type # "none" /\ r.type # "vswitchd"
<1>1. r.type # "none" /\ r.type # "vswitchd" BY Zenon DEF Request
<1>2. CASE vport_exists(AskedPort(r)) /\ vport_id_is_valid(AskedPort(r), r.type)
  BY <1>1, <1>2, Zenon DEF vport_cmd_new_takes, vport_id_is_valid
<1>3. CASE ~ (vport_exists(AskedPort(r)) /\ vport_id_is_valid(AskedPort(r), r.type))
  BY <1>1, <1>3, Zenon DEF vport_cmd_new_takes, vport_next_available_index
<1> QED BY <1>2, <1>3, Zenon

\* Every action keeps the type invariant.
LEMMA PortTypeStep == PortTypeOK /\ ConfOK /\ [PortNext]_portVars => PortTypeOK' /\ ConfOK'
<1> SUFFICES ASSUME PortTypeOK, ConfOK, [PortNext]_portVars PROVE PortTypeOK' /\ ConfOK' BY Zenon
<1> USE PortTableAssumption
<1>. DEFINE R0 == Request \cup {NoRequest}
            P0 == Port \cup {NoPort}
            D0 == [step : {"run", "down", "dump", "collect"}, name : SUBSET Name,
                   cursor : P0, garbage : SUBSET Port, hints : SUBSET Name]
            K0 == [port : P0, req : R0]
<1>i. Idle \in D0 /\ Unknown \in K0 BY Zenon DEF Idle, Unknown
<1>d. daemon \in D0 /\ known \in [Name -> K0] /\ conf \in [Name -> R0] BY Zenon DEF PortTypeOK
<1>n. ASSUME NEW n \in Name, NEW r, NEW p \in Port, vport_cmd_new(n, r, p)
      PROVE  /\ enabled' \in [Port -> BOOLEAN]
             /\ name' \in [Port -> Name \cup {Default[q] : q \in Port}]
  BY <1>n, Zenon DEF vport_cmd_new, PortTypeOK
<1>p. ASSUME NEW n \in Name PROVE [daemon EXCEPT !.name = {n}] \in D0 BY Zenon, <1>d
<1>1. ASSUME NEW n \in Name, NEW r \in Choices[n] \cup {NoRequest}, configure(n, r)
      PROVE  PortTypeOK' /\ ConfOK'
  <2>1. r \in R0 BY Zenon
  <2>2. conf' \in [Name -> R0] /\ ConfOK' BY <1>1, <1>d, <2>1, Zenon DEF configure, ConfOK
  <2>3. changes' \in 0 .. MaxChanges BY <1>1 DEF configure, PortTypeOK
  <2> QED BY <1>1, <2>2, <2>3, Zenon DEF configure, PortTypeOK, table
<1>2. ASSUME NEW n \in Name, port_add(n) PROVE PortTypeOK' /\ ConfOK'
  <2>1. /\ enabled' \in [Port -> BOOLEAN]
        /\ name' \in [Port -> Name \cup {Default[q] : q \in Port}]
    BY <1>2, <1>n, Zenon DEF port_add, table, PortTypeOK
  <2>2. [known[n] EXCEPT !.req = conf[n]] \in K0 BY <1>d
  <2>3. known' \in [Name -> K0] BY <1>2, <1>d, <2>2, Zenon DEF port_add
  <2>4. daemon' \in D0 BY <1>2, <1>p, Zenon DEF port_add
  <2> QED BY <1>2, <2>1, <2>3, <2>4, Zenon DEF port_add, PortTypeOK, ConfOK, bounds
<1>3. ASSUME NEW n \in Name, port_del(n) PROVE PortTypeOK' /\ ConfOK'
  <2>1. enabled' \in [Port -> BOOLEAN] BY <1>3, Zenon DEF port_del, vport_cmd_del, PortTypeOK
  <2>2. daemon' \in D0 BY <1>3, <1>p, SMTT(30) DEF port_del
  <2> QED BY <1>3, <2>1, <2>2, Zenon DEF port_del, PortTypeOK, ConfOK, bounds
<1>4. ASSUME NEW n \in Name, update_port(n) PROVE PortTypeOK' /\ ConfOK'
  <2>1. ASSUME NEW p \in Port PROVE [known[n] EXCEPT !.port = p] \in K0 BY <1>d
  <2>2. known' \in [Name -> K0] BY <1>4, <1>d, <1>i, <2>1 DEF update_port
  <2> QED BY <1>4, <1>i, <2>2, Zenon DEF update_port, PortTypeOK, ConfOK, bounds, table
<1>6. ASSUME crash PROVE PortTypeOK' /\ ConfOK'
  <2>1. daemon' \in D0 BY <1>6, <1>i, Zenon DEF crash
  <2>2. known' \in [Name -> K0] BY <1>6, <1>i, Zenon DEF crash
  <2>3. crashes' \in 0 .. MaxCrashes BY <1>6 DEF crash, PortTypeOK
  <2> QED BY <1>6, <2>1, <2>2, <2>3, Zenon DEF crash, PortTypeOK, ConfOK, table
<1>7. ASSUME dpif_dpdk_port_dump_start PROVE PortTypeOK' /\ ConfOK'
  <2>1. daemon' \in D0 BY <1>7, <1>i, Zenon DEF dpif_dpdk_port_dump_start
  <2> QED BY <1>7, <2>1, Zenon DEF dpif_dpdk_port_dump_start, PortTypeOK, ConfOK, table, bounds
<1>8. ASSUME dpif_dpdk_port_dump_next PROVE PortTypeOK' /\ ConfOK'
  <2>1. \A p \in DumpFrom(daemon.cursor) : p \in Port BY Zenon DEF DumpFrom
  <2>2. daemon' \in D0
    <3>1. CASE daemon' = [daemon EXCEPT !.step = "collect"] BY <1>d, <3>1, Zenon
    <3>2. ASSUME NEW p \in Port, NEW G \in SUBSET Port,
                 daemon' = [daemon EXCEPT !.cursor = p, !.garbage = @ \cup G]
          PROVE  daemon' \in D0
      BY Zenon, <1>d, <3>2
    <3>3. ASSUME NEW p \in DumpFrom(daemon.cursor),
                 daemon' = [daemon EXCEPT !.cursor = p,
                     !.garbage = @ \cup IF DumpedName(p) \cap daemon.hints = {}
                                        THEN {p} ELSE {}]
          PROVE  daemon' \in D0
      <4>. DEFINE G == IF DumpedName(p) \cap daemon.hints = {} THEN {p} ELSE {}
      <4>1. G \in SUBSET Port BY <2>1, Zenon
      <4>2. daemon' = [daemon EXCEPT !.cursor = p, !.garbage = @ \cup G] BY <3>3, Zenon
      <4> HIDE DEF G, D0
      <4> QED BY Zenon, <2>1, <3>2, <4>1, <4>2
    <3> HIDE DEF D0
    <3> QED BY <1>8, <3>1, <3>3, Zenon DEF dpif_dpdk_port_dump_next
  <2> QED BY <1>8, <2>2, Zenon DEF dpif_dpdk_port_dump_next, PortTypeOK, ConfOK, table, bounds
<1>9. ASSUME open_dpif_backer PROVE PortTypeOK' /\ ConfOK'
  <2>1. daemon' \in D0 BY <1>9, <1>d, <1>i DEF open_dpif_backer
  <2>2. enabled' \in [Port -> BOOLEAN]
    BY <1>9, Zenon DEF open_dpif_backer, vport_cmd_del, PortTypeOK
  <2> QED BY <1>9, <2>1, <2>2, Zenon DEF open_dpif_backer, PortTypeOK, ConfOK, bounds
<1>10. ASSUME UNCHANGED portVars PROVE PortTypeOK' /\ ConfOK'
  BY <1>10, Zenon DEF portVars, PortTypeOK, ConfOK, bounds
<1> QED BY <1>1, <1>2, <1>3, <1>4, <1>6, <1>7, <1>8, <1>9, <1>10, Zenon
        DEF PortNext, DaemonStep

\* The variables have their types at first.
LEMMA TypeInit == PortInit => PortTypeOK /\ ConfOK
BY PortTableAssumption DEF PortInit, PortTypeOK, ConfOK, Unknown, Idle

\* The variables keep their types.
THEOREM PortTypeCorrect == PortSpec => []PortTypeOK
<1>1. PortSpec => [](PortTypeOK /\ ConfOK) BY TypeInit, PortTypeStep, PTL DEF PortSpec
<1> QED BY <1>1, PTL
-----------------------------------------------------------------------------
(* What the daemon knows *)

\* One name at most waits for update_port, and only of a daemon that runs; a
\* daemon that starts knows nothing.
Pending ==
    /\ \A m, n \in daemon.name : m = n
    /\ daemon.step # "run" => /\ daemon.name = {}
                              /\ \A n \in Name : known[n].port = NoPort

\* KnownIsEnabled, but for the name that waits for update_port.
KnownFits ==
    \A n \in Name : \A p \in Port :
        n \notin daemon.name /\ known[n].port = p => enabled[p] /\ name[p] = n

KnownInv == PortTypeOK /\ ConfOK /\ Pending /\ KnownFits

\* No vport has the number NoPort.
LEMMA NoPortIsNone == NoPort \notin Port
BY PortTableAssumption DEF NoPort, Port

\* Every action keeps the invariant: vport_cmd_new takes a vport that is not
\* enabled, hence not known, and vport_cmd_del one that has one name.
LEMMA KnownStep == KnownInv /\ [PortNext]_portVars => KnownInv'
<1> SUFFICES ASSUME KnownInv, [PortNext]_portVars PROVE KnownInv' BY Zenon
<1> USE NoPortIsNone
<1>0. PortTypeOK' /\ ConfOK' BY PortTypeStep, Zenon DEF KnownInv
<1>t. /\ enabled \in [Port -> BOOLEAN]
      /\ known \in [Name -> [port : Port \cup {NoPort}, req : Request \cup {NoRequest}]]
      /\ name \in [Port -> Name \cup {Default[p] : p \in Port}]
      /\ daemon \in [step : {"run", "down", "dump", "collect"}, name : SUBSET Name,
                     cursor : Port \cup {NoPort}, garbage : SUBSET Port,
                     hints : SUBSET Name]
  BY Zenon DEF KnownInv, PortTypeOK
<1>s. ASSUME UNCHANGED <<enabled, name, known>>, daemon'.name = daemon.name,
             daemon'.step = daemon.step
      PROVE  KnownInv'
  BY <1>0, <1>s, Zenon DEF KnownInv, Pending, KnownFits
<1>u. ASSUME \A n \in Name : known'[n].port = NoPort, daemon'.name = {} PROVE KnownInv'
  BY <1>0, <1>u, Zenon DEF KnownInv, Pending, KnownFits
<1>1. ASSUME NEW n \in Name, NEW r, configure(n, r) PROVE KnownInv'
  BY <1>1, <1>s, Zenon DEF configure, table
<1>2. ASSUME NEW n \in Name, port_add(n) PROVE KnownInv'
  <2>1. daemon.name = {} /\ daemon.step = "run" /\ daemon'.name = {n} /\ daemon'.step = "run"
    BY <1>2, <1>t, Zenon DEF port_add, Ready
  <2>2. Pending' BY <2>1, Zenon DEF Pending
  <2>3. \A m \in Name : known'[m].port = known[m].port BY <1>2, <1>t DEF port_add
  <2>4. \A p \in Port : enabled[p] => enabled'[p] /\ name'[p] = name[p]
    BY <1>2, <1>t, Zenon DEF port_add, table, vport_cmd_new
  <2>5. KnownFits' BY <2>1, <2>3, <2>4 DEF KnownFits, KnownInv
  <2> QED BY <1>0, <2>2, <2>5, Zenon DEF KnownInv
<1>3. ASSUME NEW n \in Name, port_del(n) PROVE KnownInv'
  <2>1. daemon.name = {} /\ daemon.step = "run" /\ daemon'.name = {n} /\ daemon'.step = "run"
    BY <1>3, <1>t, Zenon DEF port_del, Ready
  <2>2. Pending' BY <2>1, Zenon DEF Pending
  <2>3. known[n].port \in Port BY <1>3, <1>t, Zenon DEF port_del
  <2>4. /\ UNCHANGED <<known, name>>
        /\ \A p \in Port : p # known[n].port => enabled'[p] = enabled[p]
    BY <1>3, <1>t, <2>3, Zenon DEF port_del, vport_cmd_del
  <2>5. ASSUME NEW m \in Name, m # n, NEW p \in Port, known[m].port = p
        PROVE  enabled'[p] /\ name'[p] = m
    <3>1. enabled[p] /\ name[p] = m /\ name[known[n].port] = n
      BY <2>1, <2>3, <2>5, Zenon DEF KnownFits, KnownInv
    <3> QED BY <2>4, <2>5, <3>1, Zenon
  <2>6. KnownFits' BY <2>1, <2>4, <2>5, Zenon DEF KnownFits
  <2> QED BY <1>0, <2>2, <2>6, Zenon DEF KnownInv
<1>4. ASSUME NEW n \in Name, update_port(n) PROVE KnownInv'
  <2>1. daemon.name = {n} /\ daemon'.name = {} /\ daemon'.step = "run"
    BY <1>4, Zenon DEF update_port, Idle, Pending, KnownInv
  <2>2. Pending' BY <2>1, Zenon DEF Pending
  <2>3. \A m \in Name : m # n => known'[m] = known[m] BY <1>4, <1>t, Zenon DEF update_port
  <2>4. \A p \in Port : known'[n].port = p => enabled[p] /\ name[p] = n
    BY <1>4, <1>t DEF update_port, vport_cmd_get, vport_name_to_portid, Unknown
  <2>5. KnownFits' BY <1>4, <2>1, <2>3, <2>4 DEF KnownFits, KnownInv, update_port, table
  <2> QED BY <1>0, <2>2, <2>5, Zenon DEF KnownInv
<1>6. ASSUME crash PROVE KnownInv' BY <1>6, <1>u, Zenon DEF crash, Unknown, Idle
<1>7. ASSUME dpif_dpdk_port_dump_start PROVE KnownInv'
  BY <1>7, <1>u, Zenon DEF dpif_dpdk_port_dump_start, Idle, KnownInv, Pending
<1>8. ASSUME dpif_dpdk_port_dump_next PROVE KnownInv'
  <2>1. daemon'.name = daemon.name BY <1>8, <1>t, Zenon DEF dpif_dpdk_port_dump_next
  <2> QED BY <1>8, <1>u, <2>1, Zenon DEF dpif_dpdk_port_dump_next, KnownInv, Pending
<1>9. ASSUME open_dpif_backer PROVE KnownInv'
  <2>1. daemon'.name = {}
    BY <1>9, <1>t DEF open_dpif_backer, KnownInv, Pending, Idle
  <2> QED BY <1>9, <1>u, <2>1, Zenon DEF open_dpif_backer, KnownInv, Pending
<1>10. ASSUME UNCHANGED portVars PROVE KnownInv' BY <1>10, <1>s, Zenon DEF portVars
<1> QED BY <1>1, <1>2, <1>3, <1>4, <1>6, <1>7, <1>8, <1>9, <1>10, Zenon
        DEF PortNext, DaemonStep

\* The vport that the daemon knows under a name is enabled and has the name,
\* for every sequence of commands, crashes and changes of the configuration.
THEOREM KnownPortsAreEnabled == PortSpec => []KnownIsEnabled
<1>1. PortInit => KnownInv
  <2>1. PortInit => Pending /\ KnownFits
    BY NoPortIsNone DEF PortInit, Pending, KnownFits, Unknown, Idle
  <2> QED BY <2>1, TypeInit, Zenon DEF KnownInv
<1>2. KnownInv => KnownIsEnabled BY Zenon DEF KnownInv, KnownFits, KnownIsEnabled, Ready
<1> QED BY <1>1, <1>2, KnownStep, PTL DEF PortSpec

-----------------------------------------------------------------------------
(* Names and orphans *)

\* Vports have stable names only of requests that can get them.
NamesFit == \A p \in Port : name[p] \in Stable => Fits(p, name[p])

\* An enabled vport has a type and a name that was given to it.
EnabledOK ==
    \A p \in Port : enabled[p] => Type[p] \notin {"none", "vswitchd"} /\ name[p] \in Name

\* No vport before an enabled one has its name, if it is stable.
FirstOfName ==
    \A p, q \in Port :
        enabled[p] /\ name[p] \in Stable /\ vport_exists(q) /\ name[q] = name[p] => p <= q

NamesInv == KnownInv /\ NamesFit /\ EnabledOK /\ FirstOfName

\* The invariant says that vports are found by their stable names.
LEMMA FirstIsFound == PortTypeOK /\ EnabledOK /\ FirstOfName => ByName
<1> SUFFICES ASSUME EnabledOK, FirstOfName, NEW p \in Port, enabled[p], name[p] \in Stable
             PROVE  vport_cmd_get(name[p], p)
  BY Zenon DEF ByName
<1>1. vport_exists(p) BY Zenon DEF EnabledOK, vport_exists
<1> QED BY <1>1, Zenon DEF vport_cmd_get, vport_name_to_portid, FirstOfName

\* What an addition of a stable name takes: no vport before it has the name, and no enabled
\* vport has it.
LEMMA NewIsFirst ==
    ASSUME NamesInv, NEW n \in Stable, conf[n] # NoRequest,
           vport_cmd_get(n, NoPort), NEW p \in Port, vport_cmd_new(n, conf[n], p)
    PROVE  /\ \A q \in Port : vport_exists(q) /\ name[q] = n => p <= q
           /\ \A q \in Port : enabled[q] => name[q] # n
           /\ Fits(p, n)
<1> USE PortTableAssumption, NoPortIsNone
<1>0. n \in Name /\ conf[n] \in Choices[n] /\ conf[n] \in Request
  BY Zenon DEF NamesInv, KnownInv, ConfOK, Stable
<1>1. /\ vport_cmd_new_takes(conf[n], p) /\ conf[n].type # "bridge" /\ ~ enabled[p]
  BY Zenon DEF vport_cmd_new
<1>2. Type[p] = conf[n].type /\ Type[p] \notin {"none", "vswitchd"}
  BY <1>0, <1>1, TakenFits, Zenon
<1>3. \A q \in Port : enabled[q] => name[q] # n
  <2> SUFFICES ASSUME NEW q \in Port, enabled[q], name[q] = n PROVE FALSE BY Zenon
  <2>1. vport_cmd_get(n, q) BY FirstIsFound, Zenon DEF NamesInv, KnownInv, ByName
  <2> QED BY <2>1, Zenon DEF vport_cmd_get
<1>4. conf[n].type = "phy" => p = AskedPort(conf[n])
  <2> SUFFICES ASSUME conf[n].type = "phy" PROVE p = AskedPort(conf[n]) BY Zenon
  <2>1. AskedPort(conf[n]) \in Port /\ Type[AskedPort(conf[n])] = "phy"
    BY <1>0, Zenon DEF Stable
  <2>2. vport_exists(AskedPort(conf[n])) /\ vport_id_is_valid(AskedPort(conf[n]), conf[n].type)
    BY <2>1, Zenon DEF vport_exists, vport_id_is_valid
  <2> QED BY <1>1, <2>2, Zenon DEF vport_cmd_new_takes
<1>5. conf[n].type # "phy" => vport_next_available_index(conf[n].type, p)
  <2> SUFFICES ASSUME conf[n].type # "phy" PROVE vport_next_available_index(conf[n].type, p)
    BY Zenon
  <2>1. ~ vport_exists(AskedPort(conf[n])) BY <1>1, Zenon DEF AskedPort, vport_exists
  <2> QED BY <1>1, <2>1, Zenon DEF vport_cmd_new_takes
<1>6. Fits(p, n)
  <2> SUFFICES ASSUME NEW r \in Choices[n]
               PROVE  Type[p] = r.type /\ (r.type = "phy" => p = AskedPort(r))
    BY Zenon DEF Fits
  <2>1. r.type = conf[n].type /\ (r.type = "phy" => r = conf[n]) BY <1>0, Zenon DEF Stable
  <2> QED BY <1>2, <1>4, <2>1, Zenon
<1>7. ASSUME NEW q \in Port, vport_exists(q), name[q] = n PROVE p <= q
  <2>1. ~ enabled[q] BY <1>3, <1>7, Zenon
  <2>2. Fits(q, n) BY <1>7, Zenon DEF NamesInv, NamesFit
  <2>3. Type[q] = conf[n].type /\ (conf[n].type = "phy" => q = AskedPort(conf[n]))
    BY <1>0, <2>2, Zenon DEF Fits
  <2>4. CASE conf[n].type = "phy" BY <1>4, <2>3, <2>4 DEF Port
  <2>5. CASE conf[n].type # "phy"
    BY <1>5, <2>1, <2>3, <2>5, Zenon DEF vport_next_available_index
  <2> QED BY <2>4, <2>5, Zenon
<1> QED BY <1>2, <1>3, <1>6, <1>7, Zenon

\* Disabling vports and leaving the table alone keep the names in order.
LEMMA NamesShrink ==
    ASSUME NamesInv, KnownInv', UNCHANGED name, \A p \in Port : enabled'[p] => enabled[p]
    PROVE  NamesInv'
BY Zenon DEF NamesInv, NamesFit, EnabledOK, FirstOfName, vport_exists, Stable, Fits

\* Every action keeps the order of the names.
LEMMA NamesStep == NamesInv /\ [PortNext]_portVars => NamesInv'
<1> SUFFICES ASSUME NamesInv, [PortNext]_portVars PROVE NamesInv' BY Zenon
<1>0. KnownInv' BY KnownStep, Zenon DEF NamesInv
<1>t. /\ enabled \in [Port -> BOOLEAN]
      /\ name \in [Port -> Name \cup {Default[p] : p \in Port}]
  BY Zenon DEF NamesInv, KnownInv, PortTypeOK
<1>s. ASSUME UNCHANGED table PROVE NamesInv' BY <1>0, <1>s, NamesShrink, Zenon DEF table
<1>1. ASSUME NEW n \in Name, port_add(n) PROVE NamesInv'
  <2>1. ASSUME vport_cmd_get(n, NoPort), NEW p \in Port, vport_cmd_new(n, conf[n], p)
        PROVE  NamesInv'
    <3>1. n \in Stable => /\ \A q \in Port : vport_exists(q) /\ name[q] = n => p <= q
                          /\ \A q \in Port : enabled[q] => name[q] # n
                          /\ Fits(p, n)
      BY <1>1, <2>1, NewIsFirst, Zenon DEF port_add
    <3>3. Type[p] \notin {"none", "vswitchd"}
      BY <1>1, <2>1, TakenFits DEF port_add, vport_cmd_new, NamesInv, KnownInv, PortTypeOK
    <3>4. \A q \in Port : /\ enabled'[q] = (enabled[q] \/ q = p)
                          /\ name'[q] = IF q = p THEN n ELSE name[q]
      BY <1>t, <2>1, Zenon DEF vport_cmd_new
    <3>5. NamesFit' BY <3>1, <3>4, Zenon DEF NamesInv, NamesFit, Fits
    <3>6. EnabledOK' BY <3>3, <3>4, Zenon DEF NamesInv, EnabledOK
    <3>7. FirstOfName'
      <4> SUFFICES ASSUME NEW a \in Port, NEW b \in Port, enabled'[a], name'[a] \in Stable,
                          vport_exists(b), name'[b] = name'[a]
                   PROVE  a <= b
        BY Zenon DEF FirstOfName, vport_exists, Stable, Fits
      <4>1. CASE a = p /\ b = p BY <4>1 DEF Port
      <4>2. CASE a = p /\ b # p BY <3>1, <3>4, <4>2, Zenon
      <4>3. CASE a # p /\ b = p BY Zenon, <3>1, <3>4, <4>3
      <4>4. CASE a # p /\ b # p BY <3>4, <4>4, Zenon DEF NamesInv, FirstOfName
      <4> QED BY <4>1, <4>2, <4>3, <4>4, Zenon
    <3> QED BY <1>0, <3>5, <3>6, <3>7, Zenon DEF NamesInv
  <2> QED BY <1>1, <1>s, <2>1, Zenon DEF port_add
<1>2. ASSUME NEW n \in Name, port_del(n) PROVE NamesInv'
  BY <1>0, <1>2, <1>t, NamesShrink, Zenon DEF port_del, vport_cmd_del
<1>3. ASSUME open_dpif_backer PROVE NamesInv'
  BY <1>0, <1>3, <1>t, NamesShrink, Zenon DEF open_dpif_backer, vport_cmd_del
<1>4. ASSUME \/ \E n \in Name : \/ update_port(n)
                                \/ \E r \in Choices[n] \cup {NoRequest} : configure(n, r)
             \/ crash \/ dpif_dpdk_port_dump_start \/ dpif_dpdk_port_dump_next
             \/ UNCHANGED portVars
      PROVE  NamesInv'
  BY <1>4, <1>s, Zenon DEF update_port, configure, crash,
                    dpif_dpdk_port_dump_start, dpif_dpdk_port_dump_next, portVars, table
<1> QED BY <1>1, <1>2, <1>3, <1>4, Zenon DEF PortNext, DaemonStep

\* The invariant holds at first.
LEMMA NamesInit == PortInit => NamesInv
<1>1. PortInit => Pending /\ KnownFits
  BY NoPortIsNone DEF PortInit, Pending, KnownFits, Unknown, Idle
<1>2. PortInit => NamesFit /\ EnabledOK /\ FirstOfName
  BY Zenon DEF PortInit, NamesFit, EnabledOK, FirstOfName, Stable
<1> QED BY <1>1, <1>2, TypeInit, Zenon DEF NamesInv, KnownInv

\* Every enabled vport with a stable name is found by its name, whatever happens
\* to the other names: vport_next_available_index takes the lowest vport.
THEOREM VportsAreFound == PortSpec => []ByName
<1>1. NamesInv => ByName BY FirstIsFound, Zenon DEF NamesInv, KnownInv
<1> QED BY <1>1, NamesInit, NamesStep, PTL DEF PortSpec

\* An enabled vport with a stable name is known under it or waits for
\* update_port; while a daemon starts, it is garbage or will be dumped.
Accounted ==
    \A p \in Port : enabled[p] /\ name[p] \in Stable =>
        /\ daemon.step = "run" => name[p] \in daemon.name \/ known[name[p]].port = p
        /\ daemon.step = "dump" => p \in daemon.garbage \/ p \in DumpFrom(daemon.cursor)
        /\ daemon.step = "collect" => p \in daemon.garbage

OrphanInv == NamesInv /\ Accounted

\* Every action keeps account of the enabled vports: vport 0, at which no dump
\* arrives, is never enabled, and a dump gives no name.
LEMMA OrphanStep == OrphanInv /\ [PortNext]_portVars => OrphanInv'
<1> SUFFICES ASSUME OrphanInv, [PortNext]_portVars PROVE OrphanInv' BY Zenon
<1> USE NoPortIsNone
<1>0. NamesInv' BY NamesStep, Zenon DEF OrphanInv
<1>t. /\ enabled \in [Port -> BOOLEAN]
      /\ known \in [Name -> [port : Port \cup {NoPort}, req : Request \cup {NoRequest}]]
      /\ name \in [Port -> Name \cup {Default[p] : p \in Port}]
      /\ daemon \in [step : {"run", "down", "dump", "collect"}, name : SUBSET Name,
                     cursor : Port \cup {NoPort}, garbage : SUBSET Port,
                     hints : SUBSET Name]
      /\ \A p \in Port : enabled[p] => name[p] \in Name
  BY Zenon DEF OrphanInv, NamesInv, KnownInv, PortTypeOK, EnabledOK
<1>s. ASSUME UNCHANGED <<enabled, name, known, daemon>> PROVE OrphanInv'
  BY <1>0, <1>s, Zenon DEF OrphanInv, Accounted, DumpFrom
<1>1. ASSUME NEW n \in Name, NEW r, configure(n, r) PROVE OrphanInv'
  BY <1>1, <1>s, Zenon DEF configure, table
<1>2. ASSUME NEW n \in Name, port_add(n) PROVE OrphanInv'
  <2>1. daemon.name = {} /\ daemon.step = "run" /\ daemon'.name = {n} /\ daemon'.step = "run"
    BY <1>2, <1>t, Zenon DEF port_add, Ready
  <2>2. \A m \in Name : known'[m].port = known[m].port BY <1>2, <1>t DEF port_add
  <2>3. \A p \in Port : enabled'[p] => \/ name'[p] = n
                                       \/ enabled[p] /\ name'[p] = name[p]
    BY <1>2, <1>t, Zenon DEF port_add, table, vport_cmd_new
  <2>4. Accounted' BY <1>t, <2>1, <2>2, <2>3 DEF OrphanInv, Accounted
  <2> QED BY <1>0, <2>4, Zenon DEF OrphanInv
<1>3. ASSUME NEW n \in Name, port_del(n) PROVE OrphanInv'
  <2>1. daemon.name = {} /\ daemon.step = "run" /\ daemon'.step = "run"
    BY <1>3, <1>t, Zenon DEF port_del, Ready
  <2>2. UNCHANGED <<known, name>> /\ \A p \in Port : enabled'[p] => enabled[p]
    BY <1>3, <1>t, Zenon DEF port_del, vport_cmd_del
  <2>3. Accounted' BY <2>1, <2>2, Zenon DEF OrphanInv, Accounted
  <2> QED BY <1>0, <2>3, Zenon DEF OrphanInv
<1>4. ASSUME NEW n \in Name, update_port(n) PROVE OrphanInv'
  <2>1. daemon.name = {n} /\ daemon.step = "run" /\ daemon'.step = "run"
    BY <1>4, Zenon DEF update_port, Idle, Pending, KnownInv, NamesInv, OrphanInv
  <2>2. \A m \in Name : m # n => known'[m] = known[m] BY <1>4, <1>t, Zenon DEF update_port
  <2>3. UNCHANGED <<enabled, name>> BY <1>4, Zenon DEF update_port, table
  <2>4. ASSUME n \in Stable, NEW p \in Port, enabled[p], name[p] = n
        PROVE  known'[n].port = p
    <3>1. vport_cmd_get(n, p)
      BY <2>4, FirstIsFound, Zenon DEF OrphanInv, NamesInv, KnownInv, ByName
    <3>2. vport_name_to_portid(n, p) BY <3>1, Zenon DEF vport_cmd_get
    <3>3. ~ vport_cmd_get(n, NoPort) BY <2>4, <3>2, Zenon DEF vport_cmd_get
    <3>4. PICK q \in Port : vport_cmd_get(n, q) /\ known' = [known EXCEPT ![n].port = q]
      BY <1>4, <3>3, Zenon DEF update_port
    <3>5. vport_name_to_portid(n, q) BY <3>4, Zenon DEF vport_cmd_get
    <3>6. q = p BY <3>2, <3>5 DEF vport_name_to_portid, vport_exists, Port
    <3> QED BY <1>t, <3>4, <3>6
  <2>5. Accounted' BY <1>t, <2>1, <2>2, <2>3, <2>4 DEF OrphanInv, Accounted
  <2> QED BY <1>0, <2>5, Zenon DEF OrphanInv
<1>6. ASSUME crash PROVE OrphanInv'
  BY <1>0, <1>6, Zenon DEF crash, Idle, OrphanInv, Accounted
<1>7. ASSUME dpif_dpdk_port_dump_start PROVE OrphanInv'
  <2>1. daemon'.step = "dump" /\ daemon'.cursor = NoPort /\ UNCHANGED <<enabled, name>>
    BY <1>7, Zenon DEF dpif_dpdk_port_dump_start, Idle, table
  <2>2. \A p \in Port : enabled[p] => p # 0
    BY PortTableAssumption, Zenon DEF OrphanInv, NamesInv, EnabledOK
  <2>3. \A p \in Port : enabled'[p] => p \in DumpFrom(daemon.cursor)'
    BY <2>1, <2>2 DEF DumpFrom, Port
  <2>4. Accounted' BY <2>1, <2>3, Zenon DEF Accounted
  <2> QED BY <1>0, <2>4, Zenon DEF OrphanInv
<1>8. ASSUME dpif_dpdk_port_dump_next PROVE OrphanInv'
  <2>0. daemon.step = "dump" /\ UNCHANGED <<enabled, name>>
    BY <1>8, Zenon DEF dpif_dpdk_port_dump_next, table
  <2>1. ASSUME NEW p \in DumpFrom(daemon.cursor),
               \A q \in DumpFrom(daemon.cursor) : p <= q,
               daemon' = [daemon EXCEPT !.cursor = p,
                   !.garbage = @ \cup IF DumpedName(p) \cap daemon.hints = {}
                                      THEN {p} ELSE {}]
        PROVE  Accounted'
    <3>1. /\ daemon'.step = "dump" /\ daemon'.cursor = p
          /\ daemon'.garbage = daemon.garbage \cup {p}
      BY <1>t, <2>0, <2>1, Zenon DEF DumpedName
    <3>2. p \in Port /\ p # NoPort BY Zenon DEF DumpFrom
    <3>3. ASSUME NEW q \in Port, enabled'[q], name'[q] \in Stable, q \notin daemon'.garbage
          PROVE  q \in DumpFrom(daemon.cursor)'
      <4>1. q \in DumpFrom(daemon.cursor) /\ q # p
        BY <2>0, <3>1, <3>3, Zenon DEF OrphanInv, Accounted
      <4>2. q >= p + 1 BY <2>1, <3>2, <4>1 DEF Port
      <4> QED BY <3>1, <3>2, <3>3, <4>2, Zenon DEF DumpFrom
    <3> QED BY <3>1, <3>3, Zenon DEF Accounted
  <2>2. ASSUME DumpFrom(daemon.cursor) = {}, daemon' = [daemon EXCEPT !.step = "collect"]
        PROVE  Accounted'
    <3>1. daemon'.step = "collect" /\ daemon'.garbage = daemon.garbage BY <1>t, <2>2, Zenon
    <3> QED BY <2>0, <2>2, <3>1, Zenon DEF OrphanInv, Accounted
  <2>3. Accounted' BY <1>8, <2>1, <2>2, Zenon DEF dpif_dpdk_port_dump_next
  <2> QED BY <1>0, <2>3, Zenon DEF OrphanInv
<1>9. ASSUME open_dpif_backer PROVE OrphanInv'
  <2>0. daemon.step = "collect" /\ UNCHANGED <<name, known>> BY <1>9, Zenon DEF open_dpif_backer
  <2>1. ASSUME NEW p \in daemon.garbage, vport_cmd_del(p),
               daemon' = [daemon EXCEPT !.garbage = @ \ {p}]
        PROVE  Accounted'
    <3>1. daemon'.step = "collect" /\ daemon'.garbage = daemon.garbage \ {p}
      BY <1>t, <2>0, <2>1, Zenon
    <3>2. \A q \in Port : enabled'[q] => enabled[q] /\ q # p
      BY <1>t, <2>1, Zenon DEF vport_cmd_del
    <3> QED BY <2>0, <3>1, <3>2, Zenon DEF OrphanInv, Accounted
  <2>2. ASSUME daemon.garbage = {}, UNCHANGED enabled PROVE Accounted'
    BY <2>0, <2>2, Zenon DEF OrphanInv, Accounted
  <2>3. Accounted' BY <1>9, <2>1, <2>2, Zenon DEF open_dpif_backer
  <2> QED BY <1>0, <2>3, Zenon DEF OrphanInv
<1>10. ASSUME UNCHANGED portVars PROVE OrphanInv' BY <1>10, <1>s, Zenon DEF portVars
<1> QED BY <1>1, <1>2, <1>3, <1>4, <1>6, <1>7, <1>8, <1>9, <1>10, Zenon
        DEF PortNext, DaemonStep

\* Wherever the daemon crashes, it knows every enabled vport with a stable name
\* when it is between two operations.
THEOREM NoVportIsOrphaned == PortSpec => []NoOrphans
<1>1. PortInit => OrphanInv BY NamesInit, Zenon DEF PortInit, OrphanInv, Accounted
<1>2. OrphanInv => NoOrphans BY Zenon DEF OrphanInv, Accounted, NoOrphans, Ready
<1> QED BY <1>1, <1>2, OrphanStep, PTL DEF PortSpec
=============================================================================
