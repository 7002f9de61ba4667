----------------------------- MODULE FlowTable -----------------------------
(***************************************************************************)
(* The flow table of the datapath (datapath/dpdk/flow.c): an array of      *)
(* entries, each with a reader-writer lock, indexed by an rte_hash.  The   *)
(* vswitchd core is the only caller of the operations that add, modify and *)
(* delete flows; every switching core runs switch_packet, which looks the  *)
(* packet's key up without a lock and only then locks the entry.           *)
(*                                                                         *)
(* One action is one step between two points at which another core can    *)
(* observe or change shared state.  A call that returns before it changes  *)
(* anything (key already present, key absent, bucket full) is a stuttering *)
(* step.  Of the statistics only packet_count is kept: byte_count is       *)
(* updated the same way, used and tcp_flags are overwritten.               *)
(***************************************************************************)
EXTENDS Integers

CONSTANTS
    Key,         \* flow keys; the all-zero key is not one of them
    Action,      \* action lists a flow can carry
    Core,        \* lcores that switch packets
    MaxFlows,    \* MAX_FLOWS, the number of positions
    Bucket,      \* the positions of the rte_hash bucket of each key
    MaxPackets,  \* bound: packets switched in a behaviour
    NoKey,       \* the zeroed key of a free entry
    NoActions    \* the zeroed action list of a free entry

Pos == 0 .. MaxFlows - 1

ASSUME FlowTableAssumption ==
    /\ MaxFlows \in Nat \ {0}
    /\ MaxPackets \in Nat
    /\ Bucket \in [Key -> SUBSET Pos]
    /\ NoKey \notin Key
    /\ NoActions \notin Action

VARIABLES
    hash,        \* rte_hash: the key stored at each position
    entry,       \* flow_table[pos]: key, enabled, actions
    count,       \* flow_table[pos].stats.packet_count
    readers,     \* cores that hold the read lock of a position
    writing,     \* the vswitchd core holds the write lock of a position
    cmd,         \* the call that the vswitchd core is executing
    core,        \* what each switching core is doing
    hits,        \* history: packets the flow at a position has switched
                 \* since it was added or its statistics were cleared
    sent,        \* packets received so far, for the bound
    flushed,     \* history: flow_table_del_all has been called
    gone         \* history: cores whose flow left the hash after they had
                 \* looked it up and before they locked its position

table == <<hash, entry, count>>
locks == <<readers, writing>>
vars  == <<hash, entry, count, readers, writing, cmd, core, hits, sent,
           flushed, gone>>
-----------------------------------------------------------------------------
(* Types *)

Entry == [key : Key \cup {NoKey}, enabled : BOOLEAN,
          actions : Action \cup {NoActions}]

FreeEntry == [key |-> NoKey, enabled |-> FALSE, actions |-> NoActions]

\* The calls in progress: op is the operation, step what it does next.
Call == [op : {"none", "add", "mod", "del", "del_all"},
         step : {"idle", "lock", "write", "clear", "hash_del"},
         pos : Pos, key : Key \cup {NoKey},
         actions : Action \cup {NoActions}, clear : BOOLEAN]

NoCall == [op |-> "none", step |-> "idle", pos |-> 0, key |-> NoKey,
           actions |-> NoActions, clear |-> FALSE]

\* run is the entry that the core found when it took the read lock.
Switching == [step : {"idle", "lock", "execute", "store"},
              key : Key \cup {NoKey}, pos : Pos, run : Entry, load : Nat]

NotSwitching == [step |-> "idle", key |-> NoKey, pos |-> 0,
                 run |-> FreeEntry, load |-> 0]

TypeOK ==
    /\ hash \in [Pos -> Key \cup {NoKey}]
    /\ entry \in [Pos -> Entry]
    /\ count \in [Pos -> Nat]
    /\ readers \in [Pos -> SUBSET Core]
    /\ writing \in [Pos -> BOOLEAN]
    /\ cmd \in Call
    /\ core \in [Core -> Switching]
    /\ hits \in [Pos -> Nat]
    /\ sent \in Nat
    /\ flushed \in BOOLEAN
    /\ gone \in SUBSET Core

flow_table_init ==
    /\ hash = [p \in Pos |-> NoKey]
    /\ entry = [p \in Pos |-> FreeEntry]
    /\ count = [p \in Pos |-> 0]
    /\ readers = [p \in Pos |-> {}]
    /\ writing = [p \in Pos |-> FALSE]
    /\ cmd = NoCall
    /\ core = [c \in Core |-> NotSwitching]
    /\ hits = [p \in Pos |-> 0]
    /\ sent = 0
    /\ flushed = FALSE
    /\ gone = {}
-----------------------------------------------------------------------------
(* rte_hash: at most one position holds a key.  rte_hash_add_key takes a   *)
(* free position of the key's bucket and fails when there is none.         *)

flow_table_lookup(k) == {p \in Pos : hash[p] = k}

\* Faulty: a key of a full bucket is replaced.
rte_hash_add_key_evict(k, p) ==
    /\ p \in Bucket[k]
    /\ hash' = [hash EXCEPT ![p] = k]

rte_hash_add_key(k, p) ==
    /\ p \in Bucket[k]
    /\ hash[p] = NoKey
    /\ hash' = [hash EXCEPT ![p] = k]

rte_hash_del_key(k) ==
    /\ hash' = [p \in Pos |-> IF hash[p] = k THEN NoKey ELSE hash[p]]
    /\ gone' = gone \cup {c \in Core : core[c].step = "lock" /\ core[c].key = k}

(* rte_rwlock: a writer waits until nobody holds the lock, a reader until  *)
(* no writer does; a waiting writer does not hold back new readers.        *)

rte_rwlock_write_lock(p) ==
    /\ readers[p] = {}
    /\ ~ writing[p]
    /\ writing' = [writing EXCEPT ![p] = TRUE]

rte_rwlock_write_unlock(p) == writing' = [writing EXCEPT ![p] = FALSE]

rte_rwlock_read_lock(c, p) ==
    /\ ~ writing[p]
    /\ readers' = [readers EXCEPT ![p] = @ \cup {c}]

rte_rwlock_read_unlock(c, p) == readers' = [readers EXCEPT ![p] = @ \ {c}]
-----------------------------------------------------------------------------
(* The vswitchd core *)

flow_table_clear_stats(p) == count' = [count EXCEPT ![p] = 0]

flow_table_add_flow(k, a) ==
    /\ cmd.step = "idle"
    /\ flow_table_lookup(k) = {}
    /\ \E p \in Pos :
        /\ rte_hash_add_key(k, p)
        /\ cmd' = [NoCall EXCEPT !.op = "add", !.step = "lock", !.pos = p,
                                 !.key = k, !.actions = a]
    /\ UNCHANGED <<entry, count, locks, core, hits, sent, flushed, gone>>

flow_table_mod_flow(k, a, clear) ==
    /\ cmd.step = "idle"
    /\ \E p \in flow_table_lookup(k) :
        cmd' = [NoCall EXCEPT !.op = "mod", !.step = "lock", !.pos = p,
                              !.key = k, !.actions = a, !.clear = clear]
    /\ UNCHANGED <<table, locks, core, hits, sent, flushed, gone>>

flow_table_del_flow(k) ==
    /\ cmd.step = "idle"
    /\ \E p \in flow_table_lookup(k) :
        cmd' = [NoCall EXCEPT !.op = "del", !.step = "lock", !.pos = p]
    /\ rte_hash_del_key(k)
    /\ UNCHANGED <<entry, count, locks, core, hits, sent, flushed>>

flow_table_del_all ==
    /\ cmd.step = "idle"
    /\ cmd' = [NoCall EXCEPT !.op = "del_all", !.step = "clear"]
    /\ flushed' = TRUE
    /\ UNCHANGED <<table, locks, core, hits, sent, gone>>

\* Faulty: the entry is written without its lock.
write_unlocked ==
    /\ cmd.step = "lock"
    /\ writing' = [writing EXCEPT ![cmd.pos] = TRUE]
    /\ cmd' = [cmd EXCEPT !.step = "write"]
    /\ UNCHANGED <<table, readers, core, hits, sent, flushed, gone>>

write_lock ==
    /\ cmd.step = "lock"
    /\ rte_rwlock_write_lock(cmd.pos)
    /\ cmd' = [cmd EXCEPT !.step = "write"]
    /\ UNCHANGED <<table, readers, core, hits, sent, flushed, gone>>

\* The new flow is visible to the cores before its statistics are cleared.
add_write ==
    /\ cmd.step = "write" /\ cmd.op = "add"
    /\ entry' = [entry EXCEPT ![cmd.pos] =
            [key |-> cmd.key, enabled |-> TRUE, actions |-> cmd.actions]]
    /\ hits' = [hits EXCEPT ![cmd.pos] = 0]
    /\ rte_rwlock_write_unlock(cmd.pos)
    /\ cmd' = [cmd EXCEPT !.step = "clear"]
    /\ UNCHANGED <<hash, count, readers, core, sent, flushed, gone>>

mod_write ==
    /\ cmd.step = "write" /\ cmd.op = "mod"
    /\ IF cmd.clear
       THEN /\ flow_table_clear_stats(cmd.pos)
            /\ hits' = [hits EXCEPT ![cmd.pos] = 0]
       ELSE UNCHANGED <<count, hits>>
    /\ entry' = [entry EXCEPT ![cmd.pos].actions = cmd.actions,
                              ![cmd.pos].enabled = TRUE]
    /\ rte_rwlock_write_unlock(cmd.pos)
    /\ cmd' = NoCall
    /\ UNCHANGED <<hash, readers, core, sent, flushed, gone>>

del_write ==
    /\ cmd.step = "write" /\ cmd.op = "del"
    /\ entry' = [entry EXCEPT ![cmd.pos] = FreeEntry]
    /\ rte_rwlock_write_unlock(cmd.pos)
    /\ cmd' = [cmd EXCEPT !.step = "clear"]
    /\ UNCHANGED <<hash, count, readers, core, hits, sent, flushed, gone>>

\* Faulty: a deletion leaves the statistics to the next addition.
clear_stats_add_only ==
    /\ cmd.step = "clear" /\ cmd.op \in {"add", "del"}
    /\ IF cmd.op = "add" THEN flow_table_clear_stats(cmd.pos)
                         ELSE UNCHANGED count
    /\ cmd' = NoCall
    /\ UNCHANGED <<hash, entry, locks, core, hits, sent, flushed, gone>>

\* The last step of an addition and of a deletion, outside the lock.
clear_stats ==
    /\ cmd.step = "clear" /\ cmd.op \in {"add", "del"}
    /\ flow_table_clear_stats(cmd.pos)
    /\ cmd' = NoCall
    /\ UNCHANGED <<hash, entry, locks, core, hits, sent, flushed, gone>>

\* The loop of flow_table_del_all: here the statistics are cleared first.
del_all_clear ==
    /\ cmd.step = "clear" /\ cmd.op = "del_all"
    /\ flow_table_clear_stats(cmd.pos)
    /\ cmd' = [cmd EXCEPT !.step = "hash_del"]
    /\ UNCHANGED <<hash, entry, locks, core, hits, sent, flushed, gone>>

\* Faulty: the key stays in the hash.
del_all_no_hash ==
    /\ cmd.step = "hash_del"
    /\ cmd' = [cmd EXCEPT !.step = "lock"]
    /\ UNCHANGED <<table, locks, core, hits, sent, flushed, gone>>

del_all_hash ==
    /\ cmd.step = "hash_del"
    /\ rte_hash_del_key(entry[cmd.pos].key)
    /\ cmd' = [cmd EXCEPT !.step = "lock"]
    /\ UNCHANGED <<entry, count, locks, core, hits, sent, flushed>>

\* Faulty: the loop does not go on to the next entry.
del_all_write_same ==
    /\ cmd.step = "write" /\ cmd.op = "del_all"
    /\ entry' = [entry EXCEPT ![cmd.pos] = FreeEntry]
    /\ rte_rwlock_write_unlock(cmd.pos)
    /\ cmd' = [cmd EXCEPT !.step = "clear"]
    /\ UNCHANGED <<hash, count, readers, core, hits, sent, flushed, gone>>

del_all_write ==
    /\ cmd.step = "write" /\ cmd.op = "del_all"
    /\ entry' = [entry EXCEPT ![cmd.pos] = FreeEntry]
    /\ rte_rwlock_write_unlock(cmd.pos)
    /\ cmd' = IF cmd.pos + 1 \in Pos
              THEN [cmd EXCEPT !.step = "clear", !.pos = @ + 1]
              ELSE NoCall
    /\ UNCHANGED <<hash, count, readers, core, hits, sent, flushed, gone>>

Vswitchd ==
    \/ write_lock \/ add_write \/ mod_write \/ del_write \/ clear_stats
    \/ del_all_clear \/ del_all_hash \/ del_all_write
-----------------------------------------------------------------------------
(* A switching core.  The lock is taken at the position that the lookup    *)
(* returned; under it only enabled is read again, the key is not.          *)

switch_packet(c, k) ==
    /\ core[c].step = "idle"
    /\ sent < MaxPackets
    /\ sent' = sent + 1
    /\ core' = IF flow_table_lookup(k) = {}
               THEN core    \* PACKET_CMD_MISS to the daemon
               ELSE [core EXCEPT ![c] = [NotSwitching EXCEPT
                        !.step = "lock", !.key = k,
                        !.pos = CHOOSE p \in flow_table_lookup(k) : TRUE]]
    /\ UNCHANGED <<table, locks, cmd, hits, flushed, gone>>

switch_lock(c) ==
    LET p == core[c].pos IN
    /\ core[c].step = "lock"
    /\ entry[p].enabled
    /\ rte_rwlock_read_lock(c, p)
    /\ core' = [core EXCEPT ![c].step = "execute", ![c].run = entry[p]]
    /\ UNCHANGED <<table, writing, cmd, hits, sent, flushed, gone>>

\* Locked, found disabled, unlocked: PACKET_CMD_MISS to the daemon.
switch_miss(c) ==
    LET p == core[c].pos IN
    /\ core[c].step = "lock"
    /\ ~ entry[p].enabled
    /\ ~ writing[p]
    /\ core' = [core EXCEPT ![c] = NotSwitching]
    /\ gone' = gone \ {c}
    /\ UNCHANGED <<table, locks, cmd, hits, sent, flushed>>

\* action_execute, then the load of packet_count++.
switch_execute(c) ==
    /\ core[c].step = "execute"
    /\ core' = [core EXCEPT ![c].step = "store",
                            ![c].load = count[core[c].pos]]
    /\ UNCHANGED <<table, locks, cmd, hits, sent, flushed, gone>>

\* The store of packet_count++, then the unlock.
flow_table_update_stats(c) ==
    LET p == core[c].pos IN
    /\ core[c].step = "store"
    /\ count' = [count EXCEPT ![p] = core[c].load + 1]
    /\ hits' = [hits EXCEPT ![p] = @ + 1]
    /\ rte_rwlock_read_unlock(c, p)
    /\ core' = [core EXCEPT ![c] = NotSwitching]
    /\ gone' = gone \ {c}
    /\ UNCHANGED <<hash, entry, writing, cmd, sent, flushed>>

Switch(c) == switch_lock(c) \/ switch_miss(c) \/ switch_execute(c)
             \/ flow_table_update_stats(c)
-----------------------------------------------------------------------------
Next ==
    \/ \E k \in Key, a \in Action : flow_table_add_flow(k, a)
    \/ \E k \in Key, a \in Action, clear \in BOOLEAN :
            flow_table_mod_flow(k, a, clear)
    \/ \E k \in Key : flow_table_del_flow(k)
    \/ flow_table_del_all
    \/ Vswitchd
    \/ \E c \in Core, k \in Key : switch_packet(c, k)
    \/ \E c \in Core : Switch(c)

Spec == flow_table_init /\ [][Next]_vars

\* Every core runs its loop on a CPU of its own and never stops.
FairSpec == Spec /\ WF_vars(Vswitchd) /\ \A c \in Core : WF_vars(Switch(c))
-----------------------------------------------------------------------------
(* Properties *)

Executing(c) == core[c].step \in {"execute", "store"}

\* Between two calls the hash and the array tell the same story: a position
\* is in the hash exactly if its entry is enabled, under the entry's own key,
\* and no key is stored twice.  (flow_table_get_next_flow walks the array
\* after a lookup in the hash, flow_table_del_all deletes from the hash by
\* the keys found in the array.)
TableConsistent ==
    cmd.step = "idle" =>
        /\ \A p \in Pos : IF entry[p].enabled
                          THEN hash[p] = entry[p].key
                          ELSE hash[p] = NoKey /\ entry[p] = FreeEntry
        /\ \A p, q \in Pos : hash[p] = hash[q] /\ hash[p] # NoKey => p = q

\* As long as a core executes the actions of a flow, that flow stays in the
\* table with these actions: a modification or deletion that has returned to
\* the daemon is never still being ignored by a packet in flight.
ExecutesInstalledFlow ==
    \A c \in Core : Executing(c) =>
        entry[core[c].pos] = core[c].run /\ core[c].run.enabled

\* packet_count of a flow never claims a packet that the flow did not switch
\* since it was added or its statistics were last cleared, as long as the
\* table is not flushed.  While an addition still has to clear the statistics
\* of its entry, they are not the flow's.
NoPhantomPackets ==
    ~ flushed => \A p \in Pos :
        entry[p].enabled /\ ~ (cmd.op = "add" /\ cmd.pos = p)
            => count[p] <= hits[p]

\* A packet is switched by the flow of its own key, unless that flow was
\* deleted between the lookup and the lock (switch_packet looks up without a
\* lock and reads only enabled again under it): whatever else the vswitchd
\* core does meanwhile, the position still belongs to the key.
SwitchedByOwnFlow ==
    \A c \in Core : Executing(c) /\ c \notin gone
                        => core[c].run.key = core[c].key

\* Once the packets of the bounded traffic are through, every call of the
\* vswitchd core returns: no path leaves an entry locked.
CallsReturn == (cmd.step # "idle") ~> (cmd.step = "idle")

(* The inductive invariant behind the properties: who holds which lock,    *)
(* and how far the call in progress has brought hash and entry of its      *)
(* position apart.                                                         *)

CallInv ==
    /\ cmd.step = "idle" <=> cmd.op = "none"
    /\ cmd.step = "hash_del" => cmd.op = "del_all"
    /\ cmd.step = "clear" => cmd.op # "mod"
    /\ cmd.op = "add" => cmd.key \in Key
    /\ cmd.op \in {"add", "mod"} => cmd.actions \in Action

LockInv ==
    \A p \in Pos :
        /\ writing[p] <=> cmd.step = "write" /\ cmd.pos = p
        /\ writing[p] => readers[p] = {}
        /\ readers[p] = {c \in Core : Executing(c) /\ core[c].pos = p}

\* hash[p] is already changed, entry[p] not yet.
HashAhead(p) == cmd.pos = p /\ cmd.op # "mod" /\ cmd.step \in {"lock", "write"}

EntryOK(e) == IF e.enabled THEN e.key \in Key /\ e.actions \in Action
                           ELSE e = FreeEntry

TableInv ==
    /\ \A p \in Pos : EntryOK(entry[p])
    /\ \A p \in Pos : ~ HashAhead(p) => hash[p] = entry[p].key
    /\ \A p \in Pos : HashAhead(p) =>
            IF cmd.op = "add" THEN hash[p] = cmd.key /\ ~ entry[p].enabled
                              ELSE hash[p] = NoKey
    /\ cmd.op = "mod" => entry[cmd.pos].enabled
    /\ \A p, q \in Pos : hash[p] = hash[q] /\ hash[p] # NoKey => p = q
    /\ \A p, q \in Pos : /\ entry[p].enabled /\ entry[q].enabled
                          /\ entry[p].key = entry[q].key
                          => p = q

\* The key that a core has looked up is still at the position it goes to.
LookupInv ==
    \A c \in Core : core[c].step = "lock" /\ c \notin gone
                        => core[c].key \in Key /\ hash[core[c].pos] = core[c].key

Inv == CallInv /\ LockInv /\ TableInv /\ ExecutesInstalledFlow

\* As long as nothing is flushed: a free entry has no statistics, and neither
\* packet_count nor a value about to be stored in it exceeds the packets that
\* the flow has switched, those still under way not included.
EntryStats(p) ==
    IF entry[p].enabled
    THEN count[p] <= hits[p]
    ELSE count[p] = 0 \/ (cmd.op = "del" /\ cmd.pos = p)

CoreStats(c) == core[c].step = "store" => core[c].load <= hits[core[c].pos]

StatsInv ==
    /\ cmd.op # "del_all"
    /\ \A p \in Pos : EntryStats(p)
    /\ \A c \in Core : CoreStats(c)

(* What the table promises its callers, see FlowMap. *)

Flows == {<<entry[p].key, entry[p].actions>> :
              p \in {q \in Pos : entry[q].enabled}}

Running == [c \in Core |->
              IF Executing(c) THEN {<<core[c].run.key, core[c].run.actions>>}
                              ELSE {}]

Map == INSTANCE FlowMap WITH flows <- Flows, running <- Running

\* The array, the hash, the locks and the steps of the calls implement a map
\* from keys to action lists that is changed atomically and never under a
\* packet that is using the flow.
ImplementsFlowMap == Map!Spec
=============================================================================
