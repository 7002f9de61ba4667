---------------------------- MODULE FlowCommands ----------------------------
(***************************************************************************)
(* The flow commands of the datapath (datapath/dpdk/datapath.c) and the    *)
(* flow dumps of the daemon (lib/dpif-dpdk.c).  A dump has no state in the *)
(* datapath: every request names the flow that was dumped last, and the    *)
(* answer is the flow after its position in the table.                     *)
(*                                                                         *)
(* Between two requests an entry is enabled exactly when the hash has its  *)
(* key (FlowTable, TableConsistent), so that one variable holds both.  A   *)
(* request and its reply are one transaction of the daemon (DaemonLink).   *)
(* A command that reads the statistics of a flow before it changes the     *)
(* flow takes two steps, between which packets are switched.               *)
(***************************************************************************)
EXTENDS Integers

CONSTANTS
    Key,         \* flow keys; the all-zero key is not one of them
    NoKey,       \* the all-zero key
    MaxFlows,    \* MAX_FLOWS
    Bucket,      \* the positions of the rte_hash bucket of each key
    Dump,        \* threads of the daemon that dump flows
    MaxPackets   \* bound: the packets that a flow counts

Pos == 0 .. MaxFlows - 1

ASSUME FlowCommandsAssumption ==
    /\ NoKey \notin Key
    /\ MaxFlows \in Nat \ {0}
    /\ Bucket \in [Key -> SUBSET Pos]
    /\ MaxPackets \in Nat

VARIABLES
    slot,        \* flow_table[pos].key of enabled entries, NoKey for others
    count,       \* flow_table[pos].stats.packet_count
    cmd,         \* the command whose flow_table_get_flow is done
    reply,       \* the last reply to a command
    dump         \* struct dpif_dpdk_flow_state of each thread

vars == <<slot, count, cmd, reply, dump>>

Commands == {"none", "new", "del", "get"}
NoCmd == [op |-> "none", key |-> NoKey, clear |-> FALSE, stats |-> 0, late |-> 0]

\* stats and late: the statistics that were read, and the packets since then
\* (history).
CmdState == [op : Commands, key : Key \cup {NoKey}, clear : BOOLEAN,
             stats : Nat, late : Nat]

\* stats: what the reply says.  was (history): the statistics when the command
\* changed the flow, without the packets since they were read.
Reply == [op : Commands, key : Key \cup {NoKey},
          type : {"0", "ENOENT", "EEXIST"}, stats : Nat, was : Int]

\* key: of state->flow.  seen: the flows dumped.  stayed and again (history):
\* the flows that have been in the table since the start, and those of them
\* that were dumped more than once.  cut (history): the flow at which it stood
\* was deleted.
DumpState == [step : {"off", "on", "eof"}, key : Key \cup {NoKey},
              seen : SUBSET Key, stayed : SUBSET Key, again : SUBSET Key,
              cut : BOOLEAN]
NoDump == [step |-> "off", key |-> NoKey, seen |-> {}, stayed |-> {}, again |-> {},
           cut |-> FALSE]

TypeOK ==
    /\ slot \in [Pos -> Key \cup {NoKey}]
    /\ count \in [Pos -> Nat]
    /\ cmd \in CmdState
    /\ reply \in Reply
    /\ dump \in [Dump -> DumpState]

Init ==
    /\ slot = [p \in Pos |-> NoKey]
    /\ count = [p \in Pos |-> 0]
    /\ cmd = NoCmd
    /\ reply = [op |-> "none", key |-> NoKey, type |-> "0", stats |-> 0, was |-> 0]
    /\ dump = [d \in Dump |-> NoDump]

flow_table_lookup(k) == {p \in Pos : slot[p] = k}
Present == {slot[p] : p \in Pos} \ {NoKey}
-----------------------------------------------------------------------------
(* Commands that change flows *)

Answer(op, k, type, stats, was) ==
    reply' = [op |-> op, key |-> k, type |-> type, stats |-> stats, was |-> was]

\* The flows in K are deleted.
Gone(K) ==
    dump' = [d \in Dump |-> [dump[d] EXCEPT
        !.stayed = @ \ K, !.cut = @ \/ (dump[d].step = "on" /\ dump[d].key \in K)]]

\* Faulty: only one position of the bucket is looked at.
flow_cmd_new_add_one(k, create) ==
    /\ cmd = NoCmd /\ flow_table_lookup(k) = {}
    /\ create
    /\ LET p == CHOOSE p \in Bucket[k] : \A q \in Bucket[k] : p <= q IN
       IF slot[p] = NoKey
       THEN slot' = [slot EXCEPT ![p] = k] /\ count' = [count EXCEPT ![p] = 0]
       ELSE UNCHANGED <<slot, count>>
    /\ Answer("new", k, "0", 0, 0)
    /\ UNCHANGED <<cmd, dump>>

\* flow_cmd_new for a key that is not in the table: the result of
\* flow_table_add_flow is not looked at.
flow_cmd_new_add(k, create) ==
    /\ cmd = NoCmd /\ flow_table_lookup(k) = {}
    /\ \/ /\ create
          /\ \E p \in Bucket[k] :
                 /\ slot[p] = NoKey
                 /\ slot' = [slot EXCEPT ![p] = k]
                 /\ count' = [count EXCEPT ![p] = 0]
          /\ Answer("new", k, "0", 0, 0)
       \/ /\ create
          /\ \A p \in Bucket[k] : slot[p] # NoKey
          /\ Answer("new", k, "0", 0, 0)
          /\ UNCHANGED <<slot, count>>
       \/ /\ ~ create
          /\ Answer("new", k, "ENOENT", 0, 0)
          /\ UNCHANGED <<slot, count>>
    /\ UNCHANGED <<cmd, dump>>

\* flow_cmd_new for a key that is in the table.
flow_cmd_new_mod(k, replace, clear) ==
    /\ cmd = NoCmd
    /\ \E p \in flow_table_lookup(k) :
           IF replace
           THEN /\ cmd' = [op |-> "new", key |-> k, clear |-> clear,
                            stats |-> count[p], late |-> 0]
                /\ UNCHANGED reply
           ELSE Answer("new", k, "EEXIST", 0, 0) /\ UNCHANGED cmd
    /\ UNCHANGED <<slot, count, dump>>

flow_table_mod_flow ==
    /\ cmd.op = "new"
    /\ \E p \in flow_table_lookup(cmd.key) :
           /\ Answer("new", cmd.key, "0", cmd.stats, count[p] - cmd.late)
           /\ count' = IF cmd.clear THEN [count EXCEPT ![p] = 0] ELSE count
    /\ cmd' = NoCmd
    /\ UNCHANGED <<slot, dump>>

\* Faulty: the reply has the statistics of the reply before.
flow_cmd_del_stale(k) ==
    /\ cmd = NoCmd /\ flow_table_lookup(k) # {}
    /\ cmd' = [op |-> "del", key |-> k, clear |-> FALSE, stats |-> reply.stats, late |-> 0]
    /\ UNCHANGED <<slot, count, reply, dump>>

\* flow_cmd_del for one key.
flow_cmd_del(k) ==
    /\ cmd = NoCmd
    /\ \/ /\ flow_table_lookup(k) = {}
          /\ Answer("del", k, "ENOENT", 0, 0)
          /\ UNCHANGED cmd
       \/ /\ \E p \in flow_table_lookup(k) :
                 cmd' = [op |-> "del", key |-> k, clear |-> FALSE,
                         stats |-> count[p], late |-> 0]
          /\ UNCHANGED reply
    /\ UNCHANGED <<slot, count, dump>>

flow_table_del_flow ==
    /\ cmd.op = "del"
    /\ \E p \in flow_table_lookup(cmd.key) :
           /\ Answer("del", cmd.key, "0", cmd.stats, count[p] - cmd.late)
           /\ slot' = [slot EXCEPT ![p] = NoKey]
           /\ count' = [count EXCEPT ![p] = 0]
    /\ Gone({cmd.key})
    /\ cmd' = NoCmd

\* flow_cmd_del with the all-zero key: a flush.
flow_table_del_all ==
    /\ cmd = NoCmd
    /\ slot' = [p \in Pos |-> NoKey]
    /\ count' = [p \in Pos |-> 0]
    /\ Answer("del", NoKey, "0", 0, 0)
    /\ Gone(Key)
    /\ UNCHANGED cmd

flow_cmd_get(k) ==
    /\ cmd = NoCmd
    /\ \/ /\ flow_table_lookup(k) = {}
          /\ Answer("get", k, "ENOENT", 0, 0)
       \/ \E p \in flow_table_lookup(k) : Answer("get", k, "0", count[p], count[p])
    /\ UNCHANGED <<slot, count, cmd, dump>>

\* switch_packet on a switching core: one packet is counted.  That the counter is
\* loaded and stored, and two cores can lose an increment, is in FlowTable.
flow_table_update_stats(p) ==
    /\ slot[p] # NoKey /\ count[p] < MaxPackets
    /\ count' = [count EXCEPT ![p] = @ + 1]
    /\ cmd' = IF slot[p] = cmd.key THEN [cmd EXCEPT !.late = @ + 1] ELSE cmd
    /\ UNCHANGED <<slot, reply, dump>>
-----------------------------------------------------------------------------
(* Dumps *)

dpif_dpdk_flow_dump_start(d) ==
    /\ cmd = NoCmd /\ dump[d].step # "on"
    /\ dump' = [dump EXCEPT ![d] = [NoDump EXCEPT !.step = "on", !.stayed = Present]]
    /\ UNCHANGED <<slot, count, cmd, reply>>

\* The enabled positions after those in P.
Later(P) == {p \in Pos : slot[p] # NoKey /\ \A q \in P : q < p}

\* Faulty: the position of the key itself is not skipped.
flow_table_get_next_flow_same(k) == flow_table_lookup(k)

\* Faulty: the loop starts two positions after that of the key.
flow_table_get_next_flow_skip(k) ==
    IF flow_table_lookup(k) = {} THEN {} ELSE Later({p + 1 : p \in flow_table_lookup(k)})

\* flow_table_get_next_flow finds the first of these positions; none when the
\* key is not in the table.
flow_table_get_next_flow(k) ==
    IF flow_table_lookup(k) = {} THEN {} ELSE Later(flow_table_lookup(k))

\* flow_cmd_dump: with the all-zero key it is flow_table_get_first_flow.
flow_cmd_dump(k) == IF k = NoKey THEN Later({}) ELSE flow_table_get_next_flow(k)

\* Without a flow the reply is EOF, and dpif_flow_dump_next ends the dump.
dpif_dpdk_flow_dump_next(d) ==
    /\ cmd = NoCmd /\ dump[d].step = "on"
    /\ \/ \E p \in flow_cmd_dump(dump[d].key) :
              /\ \A r \in flow_cmd_dump(dump[d].key) : p <= r
              /\ dump' = [dump EXCEPT ![d].key = slot[p], ![d].seen = @ \cup {slot[p]},
                                      ![d].again = @ \cup (dump[d].seen \cap {slot[p]})]
       \/ /\ flow_cmd_dump(dump[d].key) = {}
          /\ dump' = [dump EXCEPT ![d].step = "eof"]
    /\ UNCHANGED <<slot, count, cmd, reply>>

\* The caller has seen enough.
dpif_dpdk_flow_dump_done(d) ==
    /\ dump[d].step = "on"
    /\ dump' = [dump EXCEPT ![d] = NoDump]
    /\ UNCHANGED <<slot, count, cmd, reply>>
-----------------------------------------------------------------------------
Next ==
    \/ \E k \in Key, b \in BOOLEAN : flow_cmd_new_add(k, b)
    \/ \E k \in Key, b, c \in BOOLEAN : flow_cmd_new_mod(k, b, c)
    \/ \E k \in Key : flow_cmd_del(k) \/ flow_cmd_get(k)
    \/ flow_table_mod_flow \/ flow_table_del_flow \/ flow_table_del_all
    \/ \E p \in Pos : flow_table_update_stats(p)
    \/ \E d \in Dump : \/ dpif_dpdk_flow_dump_start(d)
                       \/ dpif_dpdk_flow_dump_next(d)
                       \/ dpif_dpdk_flow_dump_done(d)

Spec == Init /\ [][Next]_vars

\* The vswitchd core ends every command, and a thread that dumps goes on; it
\* can be held up by commands of other threads, but not for ever.
FairSpec ==
    /\ Spec
    /\ WF_vars(flow_table_mod_flow) /\ WF_vars(flow_table_del_flow)
    /\ \A d \in Dump : SF_vars(dpif_dpdk_flow_dump_next(d))
-----------------------------------------------------------------------------
(* Properties *)

\* A dump that ended with EOF has every flow that was in the table all the
\* time, whatever was added, modified and deleted meanwhile, unless the flow at
\* which the dump stood was deleted.
DumpComplete ==
    \A d \in Dump : dump[d].step = "eof" /\ ~ dump[d].cut
                       => dump[d].stayed \subseteq dump[d].seen

\* A dump gives no flow twice that was in the table all the time, under the
\* same condition.
DumpOnce == \A d \in Dump : ~ dump[d].cut => dump[d].stayed \cap dump[d].again = {}

\* A dump ends, although flows are added while it goes on, under the same
\* condition.
DumpEnds == \A d \in Dump : (dump[d].step = "on") ~> (dump[d].step # "on" \/ dump[d].cut)

\* When flow_cmd_new reports success, the flow is in the table or there is no
\* position for it.
CreatedIsThere ==
    reply.op = "new" /\ reply.type = "0" =>
        flow_table_lookup(reply.key) # {} \/ \A p \in Bucket[reply.key] : slot[p] # NoKey

\* The statistics in the reply to a deletion or a modification are those that
\* the flow had when it was deleted or modified, but for the packets that were
\* switched in the middle of the command.
LastStats == reply.op \in {"new", "del"} /\ reply.type = "0" => reply.stats = reply.was
=============================================================================
