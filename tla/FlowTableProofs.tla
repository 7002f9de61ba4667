-------------------------- MODULE FlowTableProofs --------------------------
(***************************************************************************)
(* Proofs about FlowTable for any number of positions, keys, cores and     *)
(* packets.                                                                *)
(***************************************************************************)
EXTENDS FlowTable, TLAPS

\* The two ways in which switch_packet changes the registers of its core.
LEMMA CoreUpdate ==
    ASSUME NEW f \in [Core -> Switching], NEW c \in Core,
           NEW e \in Entry, NEW n \in Nat
    PROVE  /\ [f EXCEPT ![c].step = "execute", ![c].run = e]
                  \in [Core -> Switching]
           /\ [f EXCEPT ![c].step = "store", ![c].load = n]
                  \in [Core -> Switching]
<1> DEFINE r == [f[c] EXCEPT !.step = "execute", !.run = e]
           s == [f[c] EXCEPT !.step = "store", !.load = n]
<1>1. f[c] \in Switching  BY Zenon
<1>2. r \in Switching  BY <1>1, Zenon DEF Switching
<1>3. s \in Switching  BY <1>1, Zenon DEF Switching
<1>4. /\ [f EXCEPT ![c].step = "execute", ![c].run = e] = [f EXCEPT ![c] = r]
      /\ [f EXCEPT ![c].step = "store", ![c].load = n] = [f EXCEPT ![c] = s]
  BY <1>1, Zenon DEF Switching
<1> HIDE DEF r, s
<1> QED  BY <1>2, <1>3, <1>4, Zenon

\* The types of all variables, for every step of the vswitchd core and of the
\* switching cores.
THEOREM TypeCorrect == Spec => []TypeOK
<1> USE FlowTableAssumption
<1>1. flow_table_init => TypeOK
  <2> SUFFICES ASSUME flow_table_init PROVE TypeOK  BY Zenon
  <2>1. 0 \in Pos  BY DEF Pos
  <2>2. FreeEntry \in Entry  BY Zenon DEF FreeEntry, Entry
  <2>3. NoCall \in Call  BY <2>1, Zenon DEF NoCall, Call
  <2>4. NotSwitching \in Switching
    BY <2>1, <2>2, Zenon DEF NotSwitching, Switching
  <2> QED  BY <2>2, <2>3, <2>4, Zenon DEF flow_table_init, TypeOK
<1>2. TypeOK /\ [Next]_vars => TypeOK'
  <2> SUFFICES ASSUME TypeOK, [Next]_vars PROVE TypeOK'  BY Zenon
  <2> USE DEF TypeOK, table, locks
  <2>0. /\ 0 \in Pos
        /\ FreeEntry \in Entry
    BY DEF Pos, FreeEntry, Entry
  <2>1. NoCall \in Call  BY <2>0, Zenon DEF NoCall, Call
  <2>2. NotSwitching \in Switching
    BY <2>0, Zenon DEF NotSwitching, Switching
  <2>3. ASSUME NEW k \in Key, NEW a \in Action, flow_table_add_flow(k, a)
        PROVE  TypeOK'
    <3>1. PICK p \in Pos :
              /\ hash' = [hash EXCEPT ![p] = k]
              /\ cmd' = [NoCall EXCEPT !.op = "add", !.step = "lock",
                                       !.pos = p, !.key = k, !.actions = a]
      BY <2>3, Zenon DEF flow_table_add_flow, rte_hash_add_key
    <3>2. cmd' \in Call  BY <3>1, Zenon DEF Call, NoCall
    <3>3. hash' \in [Pos -> Key \cup {NoKey}]  BY <3>1, Zenon
    <3> QED  BY <2>3, <3>2, <3>3, Zenon DEF flow_table_add_flow
  <2>4. ASSUME NEW k \in Key, NEW a \in Action, NEW clear \in BOOLEAN,
               flow_table_mod_flow(k, a, clear)
        PROVE  TypeOK'
    <3>1. PICK p \in Pos :
              cmd' = [NoCall EXCEPT !.op = "mod", !.step = "lock", !.pos = p,
                             !.key = k, !.actions = a, !.clear = clear]
      BY <2>4, Zenon DEF flow_table_mod_flow, flow_table_lookup
    <3>2. cmd' \in Call  BY <3>1, Zenon DEF Call, NoCall
    <3> QED  BY <2>4, <3>2, Zenon DEF flow_table_mod_flow
  <2>5. ASSUME NEW k \in Key, flow_table_del_flow(k) PROVE TypeOK'
    <3>1. PICK p \in Pos :
              cmd' = [NoCall EXCEPT !.op = "del", !.step = "lock", !.pos = p]
      BY <2>5, Zenon DEF flow_table_del_flow, flow_table_lookup
    <3>2. cmd' \in Call  BY <3>1, Zenon DEF Call, NoCall
    <3>3. hash' \in [Pos -> Key \cup {NoKey}]
      BY <2>5, Zenon DEF flow_table_del_flow, rte_hash_del_key
    <3>4. gone' \in SUBSET Core
      BY <2>5, Zenon DEF flow_table_del_flow, rte_hash_del_key
    <3> QED  BY <2>5, <3>2, <3>3, <3>4, Zenon DEF flow_table_del_flow
  <2>6. CASE flow_table_del_all
    BY <2>6, <2>1, Zenon DEF flow_table_del_all, Call, NoCall
  <2>7. CASE write_lock
    BY <2>7, Zenon DEF write_lock, rte_rwlock_write_lock, Call
  <2>8. CASE add_write
    BY <2>8, SMTT(30) DEF add_write, rte_rwlock_write_unlock, Call, Entry
  <2>9. CASE mod_write
    <3>0. PICK p \in Pos, a \in Action \cup {NoActions} :
              entry' = [entry EXCEPT ![p].actions = a, ![p].enabled = TRUE]
      BY <2>9, Zenon DEF mod_write, Call
    <3>e. entry[p] \in Entry  BY Zenon
    <3>f. [entry[p] EXCEPT !.actions = a, !.enabled = TRUE] \in Entry
      BY <3>e, Zenon DEF Entry
    <3>g. entry' = [entry EXCEPT ![p] = [entry[p] EXCEPT !.actions = a,
                                                         !.enabled = TRUE]]
      BY <3>0, Zenon
    <3>1. entry' \in [Pos -> Entry]  BY <3>f, <3>g, Zenon
    <3>2. count' \in [Pos -> Nat] /\ hits' \in [Pos -> Nat]
      BY <2>9 DEF mod_write, flow_table_clear_stats
    <3> QED
      BY <2>9, <2>1, <3>1, <3>2, Zenon DEF mod_write, rte_rwlock_write_unlock
  <2>10. CASE del_write
    BY <2>10, <2>0, Zenon DEF del_write, rte_rwlock_write_unlock, Call
  <2>11. CASE clear_stats
    BY <2>11, <2>1, Zenon DEF clear_stats, flow_table_clear_stats
  <2>12. CASE del_all_clear
    BY <2>12, Zenon DEF del_all_clear, flow_table_clear_stats, Call
  <2>13. CASE del_all_hash
    BY <2>13, Zenon DEF del_all_hash, rte_hash_del_key, Call
  <2>14. CASE del_all_write
    BY <2>14, <2>0, <2>1, Zenon DEF del_all_write, rte_rwlock_write_unlock, Call
  <2>15. ASSUME NEW c \in Core, NEW k \in Key, switch_packet(c, k)
         PROVE  TypeOK'
    <3>1. CASE flow_table_lookup(k) = {}
      BY <2>15, <3>1 DEF switch_packet
    <3>2. CASE flow_table_lookup(k) # {}
      <4> DEFINE p == CHOOSE q \in flow_table_lookup(k) : TRUE
                 s == [NotSwitching EXCEPT !.step = "lock", !.key = k,
                                              !.pos = p]
      <4>1. p \in Pos  BY <3>2, Zenon DEF flow_table_lookup
      <4> HIDE DEF p
      <4>2. s \in Switching  BY <2>2, <4>1, Zenon DEF Switching, NotSwitching
      <4>3. core' = [core EXCEPT ![c] = s]
        BY <2>15, <3>2, Zenon DEF switch_packet, p
      <4> HIDE DEF s
      <4> QED  BY <2>15, <4>2, <4>3 DEF switch_packet
    <3> QED  BY <3>1, <3>2, Zenon
  <2>16. ASSUME NEW c \in Core, switch_lock(c) PROVE TypeOK'
    <3>1. core[c].pos \in Pos  BY Zenon DEF Switching
    <3>2. core' \in [Core -> Switching]
      <4>1. entry[core[c].pos] \in Entry  BY <3>1, Zenon
      <4>2. core' = [core EXCEPT ![c].step = "execute",
                                 ![c].run = entry[core[c].pos]]
        BY <2>16, Zenon DEF switch_lock
      <4>3. core \in [Core -> Switching] /\ 0 \in Nat  BY Zenon
      <4> HIDE DEF TypeOK
      <4> QED  BY <4>1, <4>2, <4>3, CoreUpdate, Zenon
    <3>3. readers' \in [Pos -> SUBSET Core]
      BY <2>16, <3>1, Zenon DEF switch_lock, rte_rwlock_read_lock
    <3> QED  BY <2>16, <3>2, <3>3, Zenon DEF switch_lock
  <2>17. ASSUME NEW c \in Core, switch_miss(c) PROVE TypeOK'
    BY <2>17, <2>2, Zenon DEF switch_miss
  <2>18. ASSUME NEW c \in Core, switch_execute(c) PROVE TypeOK'
    <3>1. count[core[c].pos] \in Nat  BY Zenon DEF Switching
    <3>2. core' \in [Core -> Switching]
      <4> DEFINE n == count[core[c].pos]
      <4>1. core' = [core EXCEPT ![c].step = "store", ![c].load = n]
        BY <2>18, Zenon DEF switch_execute
      <4> HIDE DEF n
      <4>2. n \in Nat  BY <3>1, Zenon DEF n
      <4> QED  BY <4>1, <4>2, CoreUpdate, <2>0, Zenon
    <3> QED  BY <2>18, <3>2, Zenon DEF switch_execute
  <2>19. ASSUME NEW c \in Core, flow_table_update_stats(c) PROVE TypeOK'
    BY <2>19, <2>2 DEF flow_table_update_stats, rte_rwlock_read_unlock,
                       Switching
  <2>20. CASE UNCHANGED vars
    BY <2>20, Zenon DEF vars
  <2> HIDE DEF TypeOK, table, locks
  <2> QED
    BY <2>3, <2>4, <2>5, <2>6, <2>7, <2>8, <2>9, <2>10, <2>11, <2>12,
       <2>13, <2>14, <2>15, <2>16, <2>17, <2>18, <2>19, <2>20, Zenon
       DEF Next, Vswitchd, Switch
<1> QED  BY <1>1, <1>2, PTL DEF Spec

\* Every step of the vswitchd core and of a switching core preserves the
\* inductive invariant: the locks are held exactly by those who are inside
\* them, hash and entry differ only at the position of the call in progress.
LEMMA InvInductive == TypeOK /\ Inv /\ [Next]_vars => Inv'
<1> SUFFICES ASSUME TypeOK, Inv, [Next]_vars PROVE Inv'  BY Zenon
<1> USE FlowTableAssumption
<1> USE DEF Inv, TypeOK, table, locks
<1>1. ASSUME NEW k \in Key, NEW a \in Action, flow_table_add_flow(k, a)
      PROVE  Inv'
  <2> USE <1>1 DEF flow_table_add_flow, rte_hash_add_key,
        flow_table_lookup, NoCall
  <2>1. CallInv'  BY DEF CallInv, Call
  <2>2. LockInv'  BY DEF LockInv, CallInv, Executing, Call, Switching
  <2>3. TableInv'  BY DEF TableInv, CallInv, HashAhead, EntryOK, FreeEntry,
        Call, Entry
  <2>4. ExecutesInstalledFlow'  BY Zenon DEF ExecutesInstalledFlow, LockInv,
        Executing, Call, Switching
  <2> QED  BY <2>1, <2>2, <2>3, <2>4, Zenon
<1>2. ASSUME NEW k \in Key, NEW a \in Action, NEW clear \in BOOLEAN,
               flow_table_mod_flow(k, a, clear) PROVE Inv'
  <2> USE <1>2 DEF flow_table_mod_flow, flow_table_lookup, NoCall
  <2>1. CallInv'  BY DEF CallInv, Call
  <2>2. LockInv'  BY DEF LockInv, CallInv, Executing, Call, Switching
  <2>3. TableInv'  BY DEF TableInv, CallInv, HashAhead, EntryOK, FreeEntry,
        Call, Entry
  <2>4. ExecutesInstalledFlow'  BY Zenon DEF ExecutesInstalledFlow, LockInv,
        Executing, Call, Switching
  <2> QED  BY <2>1, <2>2, <2>3, <2>4, Zenon
<1>3. ASSUME NEW k \in Key, flow_table_del_flow(k) PROVE Inv'
  <2> USE <1>3 DEF flow_table_del_flow, flow_table_lookup,
        rte_hash_del_key, NoCall
  <2>1. CallInv'  BY Zenon DEF CallInv, Call
  <2>2. LockInv'  BY DEF LockInv, CallInv, Executing, Call, Switching
  <2>3. TableInv'  BY DEF TableInv, CallInv, HashAhead, EntryOK, FreeEntry,
        Call, Entry
  <2>4. ExecutesInstalledFlow'  BY Zenon DEF ExecutesInstalledFlow, LockInv,
        Executing, Call, Switching
  <2> QED  BY <2>1, <2>2, <2>3, <2>4, Zenon
<1>4. ASSUME flow_table_del_all PROVE Inv'
  <2> USE <1>4 DEF flow_table_del_all, NoCall
  <2>1. CallInv'  BY Zenon DEF CallInv, Call
  <2>2. LockInv'  BY Zenon DEF LockInv, CallInv, Executing, Call, Switching
  <2>3. TableInv'  BY Zenon DEF TableInv, CallInv, HashAhead, EntryOK, FreeEntry,
        Call, Entry
  <2>4. ExecutesInstalledFlow'  BY Zenon DEF ExecutesInstalledFlow, LockInv,
        Executing, Call, Switching
  <2> QED  BY <2>1, <2>2, <2>3, <2>4, Zenon
<1>5. ASSUME write_lock PROVE Inv'
  <2> USE <1>5 DEF write_lock, rte_rwlock_write_lock
  <2>1. CallInv'  BY Zenon DEF CallInv, Call
  <2>2. LockInv'  BY Zenon DEF LockInv, CallInv, Executing, Call, Switching
  <2>3. TableInv'  BY Zenon DEF TableInv, CallInv, HashAhead, EntryOK, FreeEntry,
        Call, Entry
  <2>4. ExecutesInstalledFlow'  BY Zenon DEF ExecutesInstalledFlow, LockInv,
        Executing, Call, Switching
  <2> QED  BY <2>1, <2>2, <2>3, <2>4, Zenon
<1>6. ASSUME add_write PROVE Inv'
  <2> USE <1>6 DEF add_write, rte_rwlock_write_unlock
  <2>1. CallInv'  BY Zenon DEF CallInv, Call
  <2>2. LockInv'  BY DEF LockInv, CallInv, Executing, Call, Switching
  <2>3. TableInv'
    <3> DEFINE p == cmd.pos
    <3>1. /\ p \in Pos /\ hash' = hash
          /\ entry'[p] = [key |-> cmd.key, enabled |-> TRUE,
                         actions |-> cmd.actions]
          /\ cmd.key \in Key /\ cmd.actions \in Action
      BY <1>6, Zenon DEF add_write, Call, EntryOK, TableInv, FreeEntry, Entry,
         CallInv
    <3>2. \A q \in Pos \ {p} : entry'[q] = entry[q] /\ ~ HashAhead(q)
      BY <1>6, Zenon DEF add_write, HashAhead
    <3>3. \A q \in Pos : ~ HashAhead(q)'
      BY <1>6, Zenon DEF add_write, HashAhead, Call
    <3>4. hash[p] = cmd.key
      BY <3>1, Zenon DEF HashAhead, TableInv, CallInv, FreeEntry
    <3>5. cmd'.op # "mod"
      BY <1>6, Zenon DEF add_write, Call
    <3> HIDE DEF p
    <3> QED  BY <3>1, <3>2, <3>3, <3>4, <3>5 DEF TableInv, EntryOK
  <2>4. ExecutesInstalledFlow'  BY Zenon DEF ExecutesInstalledFlow, LockInv,
        Executing, Call, Switching
  <2> QED  BY <2>1, <2>2, <2>3, <2>4, Zenon
<1>7. ASSUME mod_write PROVE Inv'
  <2> USE <1>7 DEF mod_write, rte_rwlock_write_unlock,
        flow_table_clear_stats, NoCall
  <2>1. CallInv'  BY Zenon DEF CallInv, Call
  <2>2. LockInv'  BY DEF LockInv, CallInv, Executing, Call, Switching
  <2>3. TableInv'
    <3> DEFINE p == cmd.pos
    <3>1. /\ p \in Pos /\ hash' = hash
          /\ entry[p].enabled /\ cmd.actions \in Action
      BY <1>7, Zenon DEF mod_write, Call, TableInv, CallInv
    <3>2. \A q \in Pos : ~ HashAhead(q) /\ ~ HashAhead(q)'
      BY <1>7 DEF mod_write, HashAhead, NoCall
    <3>3. \A q \in Pos : entry'[q].key = entry[q].key
                       /\ (entry'[q].enabled <=> entry[q].enabled)
      BY <3>1 DEF Entry
    <3>4. \A q \in Pos : EntryOK(entry[q])'
      BY <3>1 DEF TableInv, EntryOK, Entry
    <3>5. cmd'.op # "mod"  BY <1>7 DEF mod_write, NoCall
    <3> HIDE DEF p, mod_write
    <3> QED  BY <3>1, <3>2, <3>3, <3>4, <3>5 DEF TableInv
  <2>4. ExecutesInstalledFlow'  BY Zenon DEF ExecutesInstalledFlow, LockInv,
        Executing, Call, Switching
  <2> QED  BY <2>1, <2>2, <2>3, <2>4, Zenon
<1>8. ASSUME del_write PROVE Inv'
  <2> USE <1>8 DEF del_write, rte_rwlock_write_unlock
  <2>1. CallInv'  BY Zenon DEF CallInv, Call
  <2>2. LockInv'  BY DEF LockInv, CallInv, Executing, Call, Switching
  <2>3. TableInv'
    <3> DEFINE p == cmd.pos
    <3>1. /\ p \in Pos /\ hash' = hash
          /\ entry'[p] = FreeEntry
      BY <1>8, Zenon DEF del_write, Call, EntryOK, TableInv, FreeEntry, Entry,
         CallInv
    <3>2. \A q \in Pos \ {p} : entry'[q] = entry[q] /\ ~ HashAhead(q)
      BY <1>8, Zenon DEF del_write, HashAhead
    <3>3. \A q \in Pos : ~ HashAhead(q)'
      BY <1>8, Zenon DEF del_write, HashAhead, Call
    <3>4. hash[p] = FreeEntry.key /\ ~ FreeEntry.enabled
      BY <3>1, Zenon DEF HashAhead, TableInv, CallInv, FreeEntry
    <3>5. cmd'.op # "mod"
      BY <1>8, Zenon DEF del_write, Call
    <3> HIDE DEF p
    <3> QED  BY <3>1, <3>2, <3>3, <3>4, <3>5 DEF TableInv, EntryOK
  <2>4. ExecutesInstalledFlow'  BY Zenon DEF ExecutesInstalledFlow, LockInv,
        Executing, Call, Switching
  <2> QED  BY <2>1, <2>2, <2>3, <2>4, Zenon
<1>9. ASSUME clear_stats PROVE Inv'
  <2> USE <1>9 DEF clear_stats, flow_table_clear_stats, NoCall
  <2>1. CallInv'  BY Zenon DEF CallInv, Call
  <2>2. LockInv'  BY Zenon DEF LockInv, CallInv, Executing, Call, Switching
  <2>3. TableInv'  BY Zenon DEF TableInv, CallInv, HashAhead, EntryOK, FreeEntry,
        Call, Entry
  <2>4. ExecutesInstalledFlow'  BY Zenon DEF ExecutesInstalledFlow, LockInv,
        Executing, Call, Switching
  <2> QED  BY <2>1, <2>2, <2>3, <2>4, Zenon
<1>10. ASSUME del_all_clear PROVE Inv'
  <2> USE <1>10 DEF del_all_clear, flow_table_clear_stats
  <2>1. CallInv'  BY Zenon DEF CallInv, Call
  <2>2. LockInv'  BY Zenon DEF LockInv, CallInv, Executing, Call, Switching
  <2>3. TableInv'  BY Zenon DEF TableInv, CallInv, HashAhead, EntryOK, FreeEntry,
        Call, Entry
  <2>4. ExecutesInstalledFlow'  BY Zenon DEF ExecutesInstalledFlow, LockInv,
        Executing, Call, Switching
  <2> QED  BY <2>1, <2>2, <2>3, <2>4, Zenon
<1>11. ASSUME del_all_hash PROVE Inv'
  <2> USE <1>11 DEF del_all_hash, rte_hash_del_key
  <2>1. CallInv'  BY Zenon DEF CallInv, Call
  <2>2. LockInv'  BY Zenon DEF LockInv, CallInv, Executing, Call, Switching
  <2>3. TableInv'  BY DEF TableInv, CallInv, HashAhead, EntryOK, FreeEntry,
        Call, Entry
  <2>4. ExecutesInstalledFlow'  BY Zenon DEF ExecutesInstalledFlow, LockInv,
        Executing, Call, Switching
  <2> QED  BY <2>1, <2>2, <2>3, <2>4, Zenon
<1>12. ASSUME del_all_write PROVE Inv'
  <2> USE <1>12 DEF del_all_write, rte_rwlock_write_unlock, NoCall
  <2>1. CallInv'  BY Zenon DEF CallInv, Call
  <2>2. LockInv'  BY DEF LockInv, CallInv, Executing, Call, Switching
  <2>3. TableInv'
    <3> DEFINE p == cmd.pos
    <3>1. /\ p \in Pos /\ hash' = hash
          /\ entry'[p] = FreeEntry
      BY <1>12, Zenon DEF del_all_write, Call, EntryOK, TableInv, FreeEntry,
         Entry, CallInv
    <3>2. \A q \in Pos \ {p} : entry'[q] = entry[q] /\ ~ HashAhead(q)
      BY <1>12, Zenon DEF del_all_write, HashAhead
    <3>3. \A q \in Pos : ~ HashAhead(q)'
      BY <1>12 DEF del_all_write, HashAhead, Call, NoCall
    <3>4. hash[p] = FreeEntry.key /\ ~ FreeEntry.enabled
      BY <3>1, Zenon DEF HashAhead, TableInv, CallInv, FreeEntry
    <3>5. cmd'.op # "mod"
      BY <1>12 DEF del_all_write, Call, NoCall
    <3> HIDE DEF p
    <3> QED  BY <3>1, <3>2, <3>3, <3>4, <3>5 DEF TableInv, EntryOK
  <2>4. ExecutesInstalledFlow'  BY Zenon DEF ExecutesInstalledFlow, LockInv,
        Executing, Call, Switching
  <2> QED  BY <2>1, <2>2, <2>3, <2>4, Zenon
<1>13. ASSUME NEW c \in Core, NEW k \in Key, switch_packet(c, k) PROVE Inv'
  <2> USE <1>13 DEF switch_packet, NotSwitching
  <2>1. CallInv'  BY Zenon DEF CallInv, Call
  <2>2. LockInv'
    <3>1. \A d \in Core : (Executing(d)' <=> Executing(d))
                       /\ (Executing(d) => core'[d].pos = core[d].pos)
      BY <1>13 DEF switch_packet, NotSwitching, Executing
    <3>2. \A p \in Pos : {d \in Core : Executing(d)' /\ core'[d].pos = p}
                        = {d \in Core : Executing(d) /\ core[d].pos = p}
      BY <3>1, Zenon
    <3>3. UNCHANGED <<readers, writing, cmd>>  BY <1>13, Zenon DEF switch_packet
    <3> HIDE DEF switch_packet, TypeOK
    <3> QED  BY <3>2, <3>3, Zenon DEF LockInv
  <2>3. TableInv'  BY Zenon DEF TableInv, CallInv, HashAhead, EntryOK, FreeEntry,
        Call, Entry
  <2>4. ExecutesInstalledFlow'  BY Zenon DEF ExecutesInstalledFlow, LockInv,
        Executing, Call, Switching
  <2> QED  BY <2>1, <2>2, <2>3, <2>4, Zenon
<1>14. ASSUME NEW c \in Core, switch_lock(c) PROVE Inv'
  <2> USE <1>14 DEF switch_lock, rte_rwlock_read_lock
  <2>1. CallInv'  BY Zenon DEF CallInv, Call
  <2>2. LockInv'  BY DEF LockInv, CallInv, Executing, Call, Switching
  <2>3. TableInv'  BY Zenon DEF TableInv, CallInv, HashAhead, EntryOK, FreeEntry,
        Call, Entry
  <2>4. ExecutesInstalledFlow'  BY DEF ExecutesInstalledFlow, LockInv,
        Executing, Call, Switching
  <2> QED  BY <2>1, <2>2, <2>3, <2>4, Zenon
<1>15. ASSUME NEW c \in Core, switch_miss(c) PROVE Inv'
  <2> USE <1>15 DEF switch_miss, NotSwitching
  <2>1. CallInv'  BY Zenon DEF CallInv, Call
  <2>2. LockInv'  BY DEF LockInv, CallInv, Executing, Call, Switching
  <2>3. TableInv'  BY Zenon DEF TableInv, CallInv, HashAhead, EntryOK, FreeEntry,
        Call, Entry
  <2>4. ExecutesInstalledFlow'  BY Zenon DEF ExecutesInstalledFlow, LockInv,
        Executing, Call, Switching
  <2> QED  BY <2>1, <2>2, <2>3, <2>4, Zenon
<1>16. ASSUME NEW c \in Core, switch_execute(c) PROVE Inv'
  <2> USE <1>16 DEF switch_execute
  <2>1. CallInv'  BY Zenon DEF CallInv, Call
  <2>2. LockInv'  BY DEF LockInv, CallInv, Executing, Call, Switching
  <2>3. TableInv'  BY Zenon DEF TableInv, CallInv, HashAhead, EntryOK, FreeEntry,
        Call, Entry
  <2>4. ExecutesInstalledFlow'  BY DEF ExecutesInstalledFlow, LockInv,
        Executing, Call, Switching
  <2> QED  BY <2>1, <2>2, <2>3, <2>4, Zenon
<1>17. ASSUME NEW c \in Core, flow_table_update_stats(c) PROVE Inv'
  <2> USE <1>17 DEF flow_table_update_stats, rte_rwlock_read_unlock,
        NotSwitching
  <2>1. CallInv'  BY Zenon DEF CallInv, Call
  <2>2. LockInv'  BY DEF LockInv, CallInv, Executing, Call, Switching
  <2>3. TableInv'  BY Zenon DEF TableInv, CallInv, HashAhead, EntryOK, FreeEntry,
        Call, Entry
  <2>4. ExecutesInstalledFlow'  BY Zenon DEF ExecutesInstalledFlow, LockInv,
        Executing, Call, Switching
  <2> QED  BY <2>1, <2>2, <2>3, <2>4, Zenon
<1>18. CASE UNCHANGED vars
  BY <1>18 DEF vars, CallInv, LockInv, TableInv, ExecutesInstalledFlow,
     Executing, HashAhead
<1> QED
  BY <1>1, <1>2, <1>3, <1>4, <1>5, <1>6, <1>7, <1>8, <1>9, <1>10, <1>11,
     <1>12, <1>13, <1>14, <1>15, <1>16, <1>17, <1>18
     DEF Next, Vswitchd, Switch

\* The freshly initialised table satisfies the inductive invariant.
LEMMA InvInit == flow_table_init => Inv
<1> SUFFICES ASSUME flow_table_init PROVE Inv  BY Zenon
<1> USE FlowTableAssumption DEF flow_table_init
<1>1. CallInv  BY Zenon DEF CallInv, NoCall
<1>2. LockInv  BY Zenon DEF LockInv, Executing, NotSwitching, NoCall
<1>3. TableInv  BY Zenon DEF TableInv, HashAhead, EntryOK, FreeEntry, NoCall
<1>4. ExecutesInstalledFlow
  BY Zenon DEF ExecutesInstalledFlow, Executing, NotSwitching
<1> QED  BY <1>1, <1>2, <1>3, <1>4, Zenon DEF Inv

\* The inductive invariant holds in every reachable state.
THEOREM Invariance == Spec => []Inv
BY InvInit, InvInductive, TypeCorrect, PTL DEF Spec

\* Whenever no call is in progress, the hash and the array of flow.c agree.
THEOREM Consistency == Spec => []TableConsistent
<1>1. TypeOK /\ Inv => TableConsistent
  BY FlowTableAssumption
     DEF TypeOK, Inv, TableInv, CallInv, HashAhead, EntryOK, FreeEntry,
         TableConsistent
<1> QED  BY <1>1, Invariance, TypeCorrect, PTL

\* The per-entry lock does its work: no modification, deletion or flush
\* changes a flow whose actions some core is executing.
THEOREM Isolation == Spec => []ExecutesInstalledFlow
<1>1. Inv => ExecutesInstalledFlow  BY Zenon DEF Inv
<1> QED  BY <1>1, Invariance, PTL

\* No step takes the position that a core has looked up away from its key,
\* except the deletions that rte_hash_del_key books in gone.
LEMMA OwnFlowInductive ==
    TypeOK /\ Inv /\ LookupInv /\ SwitchedByOwnFlow /\ [Next]_vars
        => LookupInv' /\ SwitchedByOwnFlow'
<1> SUFFICES ASSUME TypeOK, Inv, LookupInv, SwitchedByOwnFlow, [Next]_vars
             PROVE  LookupInv' /\ SwitchedByOwnFlow'
  BY Zenon
<1> USE FlowTableAssumption
<1>1. ASSUME UNCHANGED <<hash, core, gone>>
      PROVE  LookupInv' /\ SwitchedByOwnFlow'
  BY <1>1, Zenon DEF LookupInv, SwitchedByOwnFlow, Executing
<1>2. ASSUME NEW k \in Key, NEW a \in Action, flow_table_add_flow(k, a)
      PROVE  LookupInv' /\ SwitchedByOwnFlow'
  <2>1. PICK p \in Pos : hash[p] = NoKey /\ hash' = [hash EXCEPT ![p] = k]
    BY <1>2, Zenon DEF flow_table_add_flow, rte_hash_add_key
  <2>2. core' = core /\ gone' = gone  BY <1>2, Zenon DEF flow_table_add_flow
  <2>3. LookupInv'
    BY <2>1, <2>2, Zenon DEF LookupInv, TypeOK, Switching
  <2> QED  BY <2>2, <2>3, Zenon DEF SwitchedByOwnFlow, Executing
<1>3. ASSUME NEW k, rte_hash_del_key(k), core' = core
      PROVE  LookupInv' /\ SwitchedByOwnFlow'
  BY <1>3, Zenon DEF rte_hash_del_key, LookupInv, SwitchedByOwnFlow, Executing,
              TypeOK, Switching
<1>4. ASSUME NEW c \in Core, NEW k \in Key, switch_packet(c, k)
      PROVE  LookupInv' /\ SwitchedByOwnFlow'
  <2>1. hash' = hash /\ gone' = gone  BY <1>4, Zenon DEF switch_packet, table
  <2>2. CASE core' = core
    BY <2>1, <2>2, <1>1, Zenon
  <2>3. CASE flow_table_lookup(k) # {}
    <3> DEFINE p == CHOOSE q \in flow_table_lookup(k) : TRUE
    <3>1. p \in Pos /\ hash[p] = k  BY <2>3, Zenon DEF flow_table_lookup
    <3>2. /\ \A d \in Core \ {c} : core'[d] = core[d]
          /\ core'[c].step = "lock" /\ core'[c].key = k /\ core'[c].pos = p
      BY <1>4, <2>3, Zenon DEF switch_packet, NotSwitching, TypeOK, Switching
    <3> HIDE DEF p
    <3> QED
      BY <2>1, <3>1, <3>2, Zenon DEF LookupInv, SwitchedByOwnFlow, Executing
  <2> QED  BY <1>4, <2>2, <2>3, Zenon DEF switch_packet
\* Under the read lock an enabled entry carries the key that the hash has for
\* it: an addition has not written it yet, a deletion has emptied the hash.
<1>5. ASSUME NEW c \in Core, switch_lock(c)
      PROVE  LookupInv' /\ SwitchedByOwnFlow'
  <2> DEFINE p == core[c].pos
  <2>1. p \in Pos /\ entry[p].enabled /\ core[c].step = "lock"
    BY <1>5, Zenon DEF switch_lock, TypeOK, Switching
  <2>2. /\ hash' = hash /\ gone' = gone
        /\ \A d \in Core \ {c} : core'[d] = core[d]
        /\ core'[c].step = "execute" /\ core'[c].run = entry[p]
        /\ core'[c].key = core[c].key
    BY <1>5, Zenon DEF switch_lock, table, TypeOK, Switching
  <2>3. hash[p] \in Key => hash[p] = entry[p].key
    BY <2>1, Zenon DEF Inv, TableInv
  <2>4. c \notin gone => core[c].key = entry[p].key
    BY <2>1, <2>3, Zenon DEF LookupInv
  <2> HIDE DEF p
  <2>5. LookupInv'  BY <2>2, Zenon DEF LookupInv
  <2>6. SwitchedByOwnFlow'  BY <2>2, <2>4, Zenon DEF SwitchedByOwnFlow, Executing
  <2> QED  BY <2>5, <2>6, Zenon
<1>6. ASSUME NEW c \in Core, switch_execute(c)
      PROVE  LookupInv' /\ SwitchedByOwnFlow'
  <2>1. /\ hash' = hash /\ gone' = gone
        /\ \A d \in Core \ {c} : core'[d] = core[d]
        /\ core[c].step = "execute" /\ core'[c].step = "store"
        /\ core'[c].run = core[c].run /\ core'[c].key = core[c].key
    BY <1>6, Zenon DEF switch_execute, table, TypeOK, Switching
  <2> QED  BY <2>1 DEF LookupInv, SwitchedByOwnFlow, Executing
<1>7. ASSUME NEW c \in Core, switch_miss(c) \/ flow_table_update_stats(c)
      PROVE  LookupInv' /\ SwitchedByOwnFlow'
  <2>1. /\ hash' = hash /\ gone' = gone \ {c}
        /\ \A d \in Core \ {c} : core'[d] = core[d]
        /\ core'[c].step = "idle"
    BY <1>7 DEF switch_miss, flow_table_update_stats, table, NotSwitching,
                TypeOK, Switching
  <2> QED  BY <2>1, Zenon DEF LookupInv, SwitchedByOwnFlow, Executing
<1>8. CASE UNCHANGED vars  BY <1>8, <1>1, Zenon DEF vars
<1>9. ASSUME NEW k \in Key, flow_table_del_flow(k)
      PROVE  LookupInv' /\ SwitchedByOwnFlow'
  BY <1>9, <1>3, Zenon DEF flow_table_del_flow
<1>10. CASE del_all_hash  BY <1>10, <1>3, Zenon DEF del_all_hash
<1>11. CASE \/ flow_table_del_all \/ write_lock \/ add_write \/ mod_write
            \/ del_write \/ clear_stats \/ del_all_clear \/ del_all_write
  BY <1>11, <1>1, Zenon DEF flow_table_del_all, write_lock, add_write, mod_write,
        del_write, clear_stats, del_all_clear, del_all_write, table
<1>12. ASSUME NEW k \in Key, NEW a \in Action, NEW clear \in BOOLEAN,
              flow_table_mod_flow(k, a, clear)
       PROVE  LookupInv' /\ SwitchedByOwnFlow'
  BY <1>12, <1>1, Zenon DEF flow_table_mod_flow, table
<1> QED
  BY <1>2, <1>4, <1>5, <1>6, <1>7, <1>8, <1>9, <1>10, <1>11, <1>12, Zenon
     DEF Next, Vswitchd, Switch

\* switch_packet re-checks only enabled under the lock and not the key; as
\* long as the flow it looked up is not deleted in between, the entry it
\* locks is that flow all the same.
THEOREM OwnFlow == Spec => []SwitchedByOwnFlow
<1>1. flow_table_init => LookupInv /\ SwitchedByOwnFlow
  BY DEF flow_table_init, NotSwitching, LookupInv, SwitchedByOwnFlow, Executing
<1> QED  BY <1>1, OwnFlowInductive, Invariance, TypeCorrect, PTL DEF Spec

\* A step that changes neither the entries nor what a core is executing is
\* invisible to a caller of the table.
LEMMA Invisible ==
    ASSUME entry' = entry,
           \A c \in Core : /\ Executing(c)' <=> Executing(c)
                           /\ Executing(c) => core'[c].run = core[c].run
    PROVE  UNCHANGED <<Flows, Running>>
<1>1. Flows' = Flows  BY Zenon DEF Flows
<1>2. Running' = Running  BY Zenon DEF Running
<1> QED  BY <1>1, <1>2, Zenon

\* A position that is write-locked belongs to no flow in execution.
LEMMA LockedNotInUse ==
    ASSUME TypeOK, Inv, NEW p \in Pos, writing[p], entry[p].enabled
    PROVE  ~ Map!InUse(<<entry[p].key, entry[p].actions>>)
<1> SUFFICES ASSUME NEW c \in Core,
                    <<entry[p].key, entry[p].actions>> \in Running[c]
             PROVE  FALSE
  BY Zenon DEF Map!InUse
<1>1. Executing(c) /\ core[c].run.key = entry[p].key
  BY Zenon DEF Running
<1>2. /\ core[c].pos \in Pos
      /\ entry[core[c].pos] = core[c].run /\ core[c].run.enabled
  BY <1>1, Zenon DEF Inv, ExecutesInstalledFlow, TypeOK, Switching
<1>3. core[c].pos = p  BY <1>1, <1>2 DEF Inv, TableInv
<1> QED  BY <1>1, <1>3, Zenon DEF Inv, LockInv

\* Freeing the write-locked position of a call removes its flow, if any.
LEMMA FreeRemoves ==
    ASSUME TypeOK, Inv, cmd.step = "write", core' = core,
           entry' = [entry EXCEPT ![cmd.pos] = FreeEntry]
    PROVE  [\E f \in Flows : Map!Remove(f)]_<<Flows, Running>>
<1> DEFINE p == cmd.pos
           f == <<entry[p].key, entry[p].actions>>
<1>1. p \in Pos /\ writing[p]
  BY Zenon DEF TypeOK, Call, Inv, LockInv
<1>2. Running' = Running  BY Zenon DEF Running, Executing
<1>3. /\ \A q \in Pos \ {p} : entry'[q] = entry[q]
      /\ ~ entry'[p].enabled
  BY <1>1, Zenon DEF TypeOK, FreeEntry
<1>4. CASE ~ entry[p].enabled
  <2>1. {q \in Pos : entry'[q].enabled} = {q \in Pos : entry[q].enabled}
    BY <1>3, <1>4, Zenon
  <2>2. Flows' = Flows  BY <1>3, <1>4, <2>1 DEF Flows
  <2> QED  BY <1>2, <2>2, Zenon
<1>5. CASE entry[p].enabled
  <2>1. f \in Flows  BY <1>1, <1>5, Zenon DEF Flows
  <2>2. ~ Map!InUse(f)  BY <1>1, <1>5, LockedNotInUse, Zenon
  <2>3. \A q \in Pos \ {p} : entry[q].enabled => entry[q].key # entry[p].key
    BY <1>1, <1>5, Zenon DEF Inv, TableInv
  <2> HIDE DEF p
  <2>4. Flows' = Flows \ {f}  BY <1>1, <1>3, <2>3 DEF Flows
  <2> QED  BY <1>2, <2>1, <2>2, <2>4, Zenon DEF Map!Remove
<1> QED  BY <1>4, <1>5, Zenon

\* The table with its hash, its locks and its multi-step calls implements the
\* atomic map from keys to actions.
THEOREM Refinement == Spec => ImplementsFlowMap
<1>1. flow_table_init => Map!Init
  BY DEF flow_table_init, Map!Init, Flows, Running, FreeEntry, Executing,
         NotSwitching
<1>2. TypeOK /\ Inv /\ [Next]_vars => [Map!Next]_(Map!vars)
  <2> SUFFICES ASSUME TypeOK, Inv, [Next]_vars
               PROVE  Map!Next \/ UNCHANGED <<Flows, Running>>
    BY Zenon DEF Map!vars
  <2> USE FlowTableAssumption DEF table, locks
  <2>2. CASE add_write
    <3> DEFINE p == cmd.pos
               f == <<cmd.key, cmd.actions>>
    <3>1. /\ p \in Pos /\ cmd.key \in Key /\ cmd.actions \in Action
          /\ hash[p] = cmd.key /\ ~ entry[p].enabled
      BY <2>2, Zenon DEF add_write, TypeOK, Call, Inv, CallInv, TableInv, HashAhead
    <3>2. \A q \in Pos : entry[q].enabled => entry[q].key # cmd.key
      BY <2>2, <3>1 DEF add_write, Inv, TableInv, HashAhead
    <3>3. /\ entry'[p] = [key |-> cmd.key, enabled |-> TRUE,
                          actions |-> cmd.actions]
          /\ \A q \in Pos \ {p} : entry'[q] = entry[q]
      BY <2>2, <3>1, Zenon DEF add_write, TypeOK
    <3>4. Running' = Running  BY <2>2, Zenon DEF add_write, Running, Executing
    <3>5. \A g \in Flows : g[1] # cmd.key  BY <3>2 DEF Flows
    <3>6. Flows' = Flows \cup {f}
      <4> HIDE DEF p
      <4> QED  BY <3>1, <3>3 DEF Flows
    <3> QED  BY <3>1, <3>4, <3>5, <3>6, Zenon DEF Map!Next, Map!Install
  <2>3. CASE mod_write
    <3> DEFINE p == cmd.pos
               f == <<entry[p].key, entry[p].actions>>
    <3>1. /\ p \in Pos /\ cmd.actions \in Action /\ writing[p]
          /\ entry[p].enabled /\ entry[p].key \in Key
      BY <2>3, Zenon DEF mod_write, TypeOK, Call, Inv, CallInv, TableInv, LockInv,
                  EntryOK
    <3>2. \A q \in Pos \ {p} : entry[q].enabled => entry[q].key # entry[p].key
      BY <3>1, Zenon DEF Inv, TableInv
    <3>3. /\ entry'[p].enabled /\ entry'[p].key = entry[p].key
          /\ entry'[p].actions = cmd.actions
          /\ \A q \in Pos \ {p} : entry'[q] = entry[q]
      BY <2>3, <3>1 DEF mod_write, TypeOK, Entry
    <3>4. Running' = Running  BY <2>3, Zenon DEF mod_write, Running, Executing
    <3>5. f \in Flows /\ ~ Map!InUse(f)
      BY <3>1, LockedNotInUse, Zenon DEF Flows
    <3>6. Flows' = (Flows \ {f}) \cup {<<entry[p].key, cmd.actions>>}
      <4> HIDE DEF p
      <4> QED  BY <3>1, <3>2, <3>3 DEF Flows
    <3>7. Map!Replace(entry[p].key, cmd.actions)
      BY <3>4, <3>5, <3>6, Zenon DEF Map!Replace
    <3> QED  BY <3>1, <3>7, Zenon DEF Map!Next
  <2>4. CASE del_write \/ del_all_write
    BY <2>4, FreeRemoves, Zenon DEF del_write, del_all_write, Map!Next
  <2>5. ASSUME NEW c \in Core, switch_lock(c) PROVE Map!Next
    <3> DEFINE p == core[c].pos
               f == <<entry[p].key, entry[p].actions>>
    <3>1. p \in Pos /\ entry[p].enabled /\ ~ Executing(c)
      BY <2>5, Zenon DEF switch_lock, TypeOK, Switching, Executing
    <3>2. Flows' = Flows  BY <2>5, Zenon DEF switch_lock, Flows
    <3>3. f \in Flows  BY <3>1, Zenon DEF Flows
    <3>4. /\ Executing(c)' /\ core'[c].run = entry[p]
          /\ \A d \in Core \ {c} : core'[d] = core[d]
      BY <2>5, Zenon DEF switch_lock, TypeOK, Switching, Executing
    <3>5. Running' = [Running EXCEPT ![c] = {f}]
      <4> HIDE DEF p
      <4> QED  BY <3>4, Zenon DEF Running, Executing
    <3>6. Running[c] = {}  BY <3>1, Zenon DEF Running
    <3> QED
      BY <3>2, <3>3, <3>5, <3>6, Zenon DEF Map!Next, Map!Execute
  <2>6. ASSUME NEW c \in Core, flow_table_update_stats(c) PROVE Map!Next
    <3>1. Executing(c) /\ Running[c] # {}
      BY <2>6, Zenon DEF flow_table_update_stats, Executing, Running
    <3>2. Flows' = Flows  BY <2>6, Zenon DEF flow_table_update_stats, Flows
    <3>3. /\ ~ Executing(c)'
          /\ \A d \in Core \ {c} : core'[d] = core[d]
      BY <2>6, Zenon DEF flow_table_update_stats, TypeOK, Executing, NotSwitching
    <3>4. Running' = [Running EXCEPT ![c] = {}]
      BY <3>3, Zenon DEF Running, Executing
    <3> QED  BY <3>1, <3>2, <3>4, Zenon DEF Map!Next, Map!Finish
  <2>7. ASSUME NEW c \in Core, NEW k \in Key, switch_packet(c, k)
        PROVE  UNCHANGED <<Flows, Running>>
    BY <2>7, Invisible, Zenon DEF switch_packet, TypeOK, Executing, NotSwitching
  <2>8. ASSUME NEW c \in Core, switch_miss(c) \/ switch_execute(c)
        PROVE  UNCHANGED <<Flows, Running>>
    <3>1. /\ entry' = entry
          /\ \A d \in Core \ {c} : core'[d] = core[d]
          /\ core'[c].run = core[c].run \/ ~ Executing(c)
      BY <2>8 DEF switch_miss, switch_execute, TypeOK, Switching, Executing
    <3>2. Executing(c)' <=> Executing(c)
      BY <2>8 DEF switch_miss, switch_execute, TypeOK, Switching, Executing,
                  NotSwitching
    <3> QED  BY <3>1, <3>2, Invisible, Zenon DEF Executing
  <2>9. ASSUME entry' = entry, core' = core
        PROVE  UNCHANGED <<Flows, Running>>
    BY <2>9, Invisible, Zenon DEF Executing
  <2> QED
    BY <2>2, <2>3, <2>4, <2>5, <2>6, <2>7, <2>8, <2>9, Zenon
       DEF Next, Vswitchd, Switch, vars, flow_table_add_flow,
           flow_table_mod_flow, flow_table_del_flow, flow_table_del_all,
           write_lock, clear_stats, del_all_clear, del_all_hash
<1> QED
  BY <1>1, <1>2, TypeCorrect, Invariance, PTL
     DEF Spec, ImplementsFlowMap, Map!Spec

\* A flush is not forgotten.
LEMMA FlushedStays == [Next]_vars => flushed' = TRUE \/ flushed' = flushed
BY Zenon
   DEF Next, Vswitchd, Switch, vars, table, locks, flow_table_add_flow,
       flow_table_mod_flow, flow_table_del_flow, flow_table_del_all, write_lock,
       add_write, mod_write, del_write, clear_stats, del_all_clear,
       del_all_hash, del_all_write, switch_packet, switch_lock, switch_miss,
       switch_execute, flow_table_update_stats

\* Every step but the beginning of a flush preserves the accounting of packets.
LEMMA StatsInductive ==
    TypeOK /\ Inv /\ StatsInv /\ [Next]_vars /\ ~ flushed' => StatsInv'
<1> SUFFICES ASSUME TypeOK, Inv, StatsInv, [Next]_vars, ~ flushed'
             PROVE  StatsInv'
  BY Zenon
<1> USE FlowTableAssumption
<1> USE DEF table, locks
<1>0. /\ \A p \in Pos : count[p] \in Nat /\ hits[p] \in Nat
      /\ \A c \in Core : core[c].pos \in Pos /\ core[c].load \in Nat
      /\ cmd.pos \in Pos
  BY Zenon DEF TypeOK, Switching, Call
<1>1. ASSUME NEW k \in Key, NEW a \in Action, flow_table_add_flow(k, a)
      PROVE  StatsInv'
  BY <1>0, <1>1, Zenon DEF flow_table_add_flow, NoCall, Inv, CallInv,
                    StatsInv, EntryStats, CoreStats
<1>2. ASSUME NEW k \in Key, NEW a \in Action, NEW clear \in BOOLEAN,
             flow_table_mod_flow(k, a, clear)
      PROVE  StatsInv'
  BY <1>0, <1>2, Zenon DEF flow_table_mod_flow, NoCall, Inv, CallInv,
                    StatsInv, EntryStats, CoreStats
<1>3. ASSUME NEW k \in Key, flow_table_del_flow(k) PROVE StatsInv'
  BY <1>0, <1>3, Zenon DEF flow_table_del_flow, NoCall, Inv, CallInv,
                    StatsInv, EntryStats, CoreStats
<1>4. ASSUME flow_table_del_all PROVE StatsInv'
  BY <1>4, Zenon DEF flow_table_del_all
<1>5. ASSUME write_lock PROVE StatsInv'
  BY <1>0, <1>5, Zenon
     DEF write_lock, TypeOK, Call, StatsInv, EntryStats, CoreStats
<1>6. ASSUME add_write PROVE StatsInv'
  <2>0. PICK p \in Pos : p = cmd.pos  BY <1>0, Zenon
  <2>1. writing[p] /\ readers[p] = {} /\ ~ entry[p].enabled
    BY <1>6, <2>0, Zenon DEF add_write, Inv, TableInv, HashAhead, LockInv
  <2>2. count[p] = 0
    BY <1>6, <2>0, <2>1, Zenon DEF add_write, StatsInv, EntryStats
  <2>3. \A c \in Core : core[c].step = "store" => core[c].pos # p
    BY <1>0, <2>1 DEF Inv, LockInv, Executing
  <2>4. /\ entry'[p].enabled /\ hits'[p] = 0
        /\ \A q \in Pos \ {p} : entry'[q] = entry[q] /\ hits'[q] = hits[q]
        /\ UNCHANGED <<count, readers, core>>
        /\ cmd'.op = "add"
    BY <1>6, <2>0, Zenon DEF add_write, TypeOK, Call
  <2>6. \A q \in Pos : EntryStats(q)'
    <3>1. EntryStats(p)'  BY <2>2, <2>4 DEF EntryStats
    <3>2. ASSUME NEW q \in Pos \ {p} PROVE EntryStats(q)'
      BY <1>6, <2>4 DEF add_write, StatsInv, EntryStats
    <3> QED  BY <3>1, <3>2, Zenon
  <2>7. \A c \in Core : CoreStats(c)'
    BY <1>0, <2>3, <2>4, Zenon DEF StatsInv, CoreStats
  <2> QED  BY <2>4, <2>6, <2>7, Zenon DEF StatsInv
<1>7. ASSUME mod_write PROVE StatsInv'
  <2>0. PICK p \in Pos : p = cmd.pos  BY <1>0, Zenon
  <2>1. writing[p] /\ readers[p] = {} /\ entry[p].enabled
    BY <1>7, <2>0, Zenon DEF mod_write, Inv, TableInv, LockInv
  <2>2. count[p] <= hits[p]
    BY <2>1, Zenon DEF StatsInv, EntryStats
  <2>3. \A c \in Core : core[c].step = "store" => core[c].pos # p
    BY <1>0, <2>1, Zenon DEF Inv, LockInv, Executing
  <2>4. /\ entry'[p].enabled /\ hits'[p] \in Nat
        /\ \A q \in Pos \ {p} : entry'[q] = entry[q]
        /\ UNCHANGED <<readers, core>> /\ cmd' = NoCall
    BY <1>7, <2>0 DEF mod_write, TypeOK, Entry
  <2>5. /\ count'[p] <= hits'[p]
        /\ \A q \in Pos \ {p} : hits'[q] = hits[q] /\ count'[q] = count[q]
    BY <1>7, <2>0, <2>2 DEF mod_write, flow_table_clear_stats, TypeOK
  <2>7. \A q \in Pos : EntryStats(q)'
    <3>1. EntryStats(p)'  BY <2>4, <2>5, Zenon DEF EntryStats
    <3>2. ASSUME NEW q \in Pos \ {p} PROVE EntryStats(q)'
      <4>1. entry'[q] = entry[q] /\ count'[q] = count[q]
            /\ hits'[q] = hits[q]
        BY <2>4, <2>5, Zenon
      <4>2. IF entry[q].enabled THEN count[q] <= hits[q] ELSE count[q] = 0
        BY <1>7, Zenon DEF mod_write, StatsInv, EntryStats
      <4> QED  BY <4>1, <4>2, Zenon DEF EntryStats
    <3> QED  BY <3>1, <3>2, Zenon
  <2>8. \A c \in Core : CoreStats(c)'
    BY <1>0, <2>3, <2>4, <2>5, Zenon DEF StatsInv, CoreStats
  <2> QED  BY <2>4, <2>7, <2>8, Zenon DEF StatsInv, NoCall
<1>8. ASSUME del_write PROVE StatsInv'
  <2>1. /\ ~ entry'[cmd.pos].enabled
        /\ \A p \in Pos \ {cmd.pos} : entry'[p] = entry[p]
        /\ cmd'.op = "del" /\ cmd'.pos = cmd.pos
        /\ UNCHANGED <<count, hits, readers, core>>
    BY <1>0, <1>8, Zenon DEF del_write, TypeOK, Call, FreeEntry
  <2> QED
    BY <1>0, <1>8, <2>1, Zenon DEF del_write, StatsInv, EntryStats, CoreStats
<1>9. ASSUME clear_stats PROVE StatsInv'
  <2>1. /\ count'[cmd.pos] = 0
        /\ \A p \in Pos \ {cmd.pos} : count'[p] = count[p]
        /\ UNCHANGED <<entry, hits, readers, core>> /\ cmd' = NoCall
    BY <1>0, <1>9, Zenon DEF clear_stats, flow_table_clear_stats, TypeOK
  <2>2. \A p \in Pos : entry[p].enabled => 0 <= hits[p]
    BY <1>0 DEF StatsInv, EntryStats
  <2> QED
    BY <1>0, <2>1, <2>2, Zenon DEF NoCall, StatsInv, EntryStats, CoreStats
<1>10. ~ del_all_clear /\ ~ del_all_hash /\ ~ del_all_write
  BY Zenon DEF del_all_clear, del_all_hash, del_all_write, Inv, CallInv, StatsInv
<1>11. ASSUME NEW c \in Core, NEW k \in Key, switch_packet(c, k)
       PROVE  StatsInv'
  <2>1. /\ \A d \in Core : core'[d] = core[d] \/ core'[d].step = "lock"
        /\ UNCHANGED <<entry, count, readers, hits, cmd>>
    BY <1>11, Zenon DEF switch_packet, TypeOK, NotSwitching
  <2> QED  BY <1>0, <2>1, Zenon DEF StatsInv, EntryStats, CoreStats
<1>12. ASSUME NEW c \in Core, switch_lock(c) PROVE StatsInv'
  <2>2. /\ \A d \in Core : core'[d] = core[d] \/ core'[d].step = "execute"
        /\ UNCHANGED <<entry, count, hits, cmd>>
    BY <1>12, SMTT(30) DEF switch_lock, TypeOK, Switching
  <2> QED  BY <1>0, <2>2, Zenon DEF StatsInv, EntryStats, CoreStats
<1>13. ASSUME NEW c \in Core, switch_miss(c) PROVE StatsInv'
  <2>1. /\ \A d \in Core : core'[d] = core[d] \/ core'[d].step = "idle"
        /\ UNCHANGED <<entry, count, readers, hits, cmd>>
    BY <1>13, SMTT(30) DEF switch_miss, TypeOK, NotSwitching
  <2> QED  BY <1>0, <2>1, Zenon DEF StatsInv, EntryStats, CoreStats
<1>14. ASSUME NEW c \in Core, switch_execute(c) PROVE StatsInv'
  <2>1. entry[core[c].pos].enabled
    BY <1>14, Zenon DEF switch_execute, Inv, ExecutesInstalledFlow, Executing
  <2>2. /\ core'[c].load = count[core[c].pos]
        /\ core'[c].pos = core[c].pos
        /\ \A d \in Core \ {c} : core'[d] = core[d]
        /\ UNCHANGED <<entry, count, readers, hits, cmd>>
    BY <1>14, SMTT(30) DEF switch_execute, TypeOK, Switching
  <2>3. \A q \in Pos : EntryStats(q)'
    BY <1>0, <2>2, SMTT(30) DEF StatsInv, EntryStats
  <2>4. ASSUME NEW d \in Core PROVE CoreStats(d)'
    <3>1. CASE d = c
      <4>1. EntryStats(core[c].pos)  BY <1>0, Zenon DEF StatsInv
      <4> QED
        BY <1>0, <2>1, <2>2, <3>1, <4>1, SMTT(30)
           DEF EntryStats, CoreStats
    <3>2. CASE d # c
      BY <1>0, <2>2, <3>2, SMTT(30) DEF StatsInv, CoreStats
    <3> QED  BY <3>1, <3>2, Zenon
  <2> QED  BY <2>2, <2>3, <2>4, Zenon DEF StatsInv
<1>15. ASSUME NEW c \in Core, flow_table_update_stats(c) PROVE StatsInv'
  <2>0. PICK p \in Pos : p = core[c].pos  BY <1>0, Zenon
  <2>1. /\ hits'[p] = hits[p] + 1
        /\ \A q \in Pos \ {p} : hits'[q] = hits[q]
    BY <1>15, <2>0, Zenon DEF flow_table_update_stats, TypeOK
  <2>2. entry[p].enabled
    BY <1>15, <2>0, Zenon
       DEF flow_table_update_stats, Inv, ExecutesInstalledFlow, Executing
  <2>3. /\ count'[p] = core[c].load + 1
        /\ \A q \in Pos \ {p} : count'[q] = count[q]
        /\ \A d \in Core : core'[d] = core[d] \/ core'[d].step = "idle"
        /\ UNCHANGED <<entry, cmd>>
    BY <1>15, <2>0, Zenon DEF flow_table_update_stats, TypeOK, NotSwitching
  <2>4. core[c].load <= hits[p]
    BY <1>15, <2>0, SMTT(30) DEF flow_table_update_stats, StatsInv, CoreStats
  <2>5. ASSUME NEW q \in Pos PROVE EntryStats(q)'
    <3>1. CASE q = p
      <4>1. hits[p] \in Nat /\ core[c].load \in Nat  BY <1>0, Zenon
      <4>2. count'[p] <= hits'[p]  BY <2>1, <2>3, <2>4, <4>1
      <4>3. entry'[p].enabled  BY <2>2, <2>3, Zenon
      <4> QED  BY <3>1, <4>2, <4>3, Zenon DEF EntryStats
    <3>2. CASE q # p
      BY <1>0, <2>1, <2>3, <3>2, SMTT(30) DEF StatsInv, EntryStats
    <3> QED  BY <3>1, <3>2, Zenon
  <2>6. \A d \in Core : CoreStats(d)'
    BY <1>0, <2>1, <2>3 DEF StatsInv, CoreStats
  <2> QED  BY <2>3, <2>5, <2>6, Zenon DEF StatsInv
<1>16. CASE UNCHANGED vars
  BY <1>0, <1>16, Zenon DEF vars, StatsInv, EntryStats, CoreStats
<1> QED
  BY <1>1, <1>2, <1>3, <1>4, <1>5, <1>6, <1>7, <1>8, <1>9, <1>10, <1>11,
     <1>12, <1>13, <1>14, <1>15, <1>16, Zenon DEF Next, Vswitchd, Switch

\* As long as the daemon does not flush the table, packet_count of a flow
\* never claims a packet that the flow did not switch, although the counter is
\* incremented by several cores under a lock they share.
THEOREM NoPhantomsWithoutFlush == Spec => []NoPhantomPackets
<1> DEFINE I == ~ flushed => StatsInv
<1>1. flow_table_init => I
  BY FlowTableAssumption
     DEF flow_table_init, StatsInv, EntryStats, CoreStats, NoCall, FreeEntry,
         NotSwitching
<1>2. TypeOK /\ I => NoPhantomPackets
  <2> SUFFICES ASSUME TypeOK, StatsInv, NEW p \in Pos, entry[p].enabled
               PROVE  count[p] <= hits[p]
    BY Zenon DEF NoPhantomPackets
  <2> QED  BY Zenon DEF TypeOK, StatsInv, EntryStats
<1>3. TypeOK /\ Inv /\ I /\ [Next]_vars => I'
  BY StatsInductive, FlushedStays, Zenon
<1> HIDE DEF I
<1> QED
  BY <1>1, <1>2, <1>3, TypeCorrect, Invariance, PTL DEF Spec
=============================================================================
