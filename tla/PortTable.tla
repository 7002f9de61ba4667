----------------------------- MODULE PortTable -----------------------------
(***************************************************************************)
(* The vports that the daemon enables and disables (datapath/dpdk/vport.c  *)
(* and the vport commands of datapath.c), with the daemon that looks for   *)
(* them by name (lib/dpif-dpdk.c) and can crash at any time.               *)
(*                                                                         *)
(* The vports outlive the daemon: a daemon that starts dumps the vports    *)
(* that are enabled and deletes those whose names are not configured.      *)
(* Then it deletes and adds ports as the configuration changes.  A port is *)
(* added in two requests, and the daemon can crash between them.  Only the *)
(* main thread of the daemon sends vport commands, so that a request and   *)
(* its reply are one step.                                                 *)
(***************************************************************************)
EXTENDS Integers

CONSTANTS
    MaxVports,   \* MAX_VPORTS
    Type,        \* vports[vportid].type, constant after vport_init
    PHYPORT0,    \* vportid of the first physical port
    Name,        \* names of configured ports
    Default,     \* names that vport_init gives to vports
    Choices,     \* the requests that can be configured for a name
    MaxChanges,  \* bound: changes of the configuration
    MaxCrashes   \* bound: crashes of the daemon

Port == 0 .. MaxVports - 1

\* UINT32_MAX, or any other number for which vport_exists fails.
NoPort == MaxVports

Kinds == {"none", "vswitchd", "client", "phy", "kni", "veth", "vhost"}

\* The type of a port, and for a physical port its index.
Request == [type : (Kinds \ {"none", "vswitchd"}) \cup {"bridge"}, index : Nat]
NoRequest == [type |-> "none", index |-> 0]

ASSUME PortTableAssumption ==
    /\ MaxVports \in Nat \ {0}
    /\ Type \in [Port -> Kinds] /\ Type[0] = "vswitchd"
    /\ PHYPORT0 \in Nat
    /\ Choices \in [Name -> SUBSET Request]
    /\ MaxChanges \in Nat /\ MaxCrashes \in Nat

VARIABLES
    enabled,     \* vports[vportid].enabled
    name,        \* vports[vportid].name
    conf,        \* the configuration: the request for each name
    known,       \* the ofport of each name: vportid and request
    daemon,      \* what the main thread of the daemon does
    changes, crashes

table == <<enabled, name>>
bounds == <<changes, crashes>>
portVars == <<enabled, name, conf, known, daemon, bounds>>

Unknown == [port |-> NoPort, req |-> NoRequest]
Idle == [step |-> "run", name |-> {}, cursor |-> NoPort, garbage |-> {}, hints |-> {}]

\* name: whose update_port is due.  cursor: port_no of the dump.  garbage:
\* garbage_list.  hints: init_ofp_ports.
PortTypeOK ==
    /\ enabled \in [Port -> BOOLEAN]
    /\ name \in [Port -> Name \cup {Default[p] : p \in Port}]
    /\ conf \in [Name -> Request \cup {NoRequest}]
    /\ known \in [Name -> [port : Port \cup {NoPort}, req : Request \cup {NoRequest}]]
    /\ daemon \in [step : {"run", "down", "dump", "collect"}, name : SUBSET Name,
                   cursor : Port \cup {NoPort}, garbage : SUBSET Port,
                   hints : SUBSET Name]
    /\ changes \in 0 .. MaxChanges /\ crashes \in 0 .. MaxCrashes

PortInit ==
    /\ enabled = [p \in Port |-> FALSE]
    /\ name = [p \in Port |-> Default[p]]
    /\ conf = [n \in Name |-> NoRequest]
    /\ known = [n \in Name |-> Unknown]
    /\ daemon = Idle
    /\ changes = 0 /\ crashes = 0
-----------------------------------------------------------------------------
(* vport.c *)

vport_exists(p) == p \in Port /\ Type[p] # "none"

\* vport_name_to_portid returns p.
vport_name_to_portid(n, p) ==
    /\ vport_exists(p) /\ name[p] = n
    /\ \A q \in Port : vport_exists(q) /\ name[q] = n => p <= q

\* Faulty: the last free vport of the range.
vport_next_available_index_last(type, p) ==
    /\ p \in Port /\ Type[p] = type /\ ~ enabled[p]
    /\ \A q \in Port : Type[q] = type /\ ~ enabled[q] => q <= p

\* vport_next_available_index returns p: each type has a range of vports.
vport_next_available_index(type, p) ==
    /\ p \in Port /\ Type[p] = type /\ ~ enabled[p]
    /\ \A q \in Port : Type[q] = type /\ ~ enabled[q] => p <= q

\* vport_id_is_valid for a vport that exists.
vport_id_is_valid(p, type) ==
    \/ Type[p] = "vswitchd" /\ type = "bridge"
    \/ Type[p] = type
-----------------------------------------------------------------------------
(* vport commands of the datapath, each with the reply *)

\* dpif_dpdk_port_add: the index of a physical port, 0 for a bridge, else none.
AskedPort(r) ==
    CASE r.type = "phy" -> r.index + PHYPORT0
      [] r.type = "bridge" -> 0
      [] OTHER -> NoPort

\* vport_cmd_new takes vport p.
vport_cmd_new_takes(r, p) ==
    IF vport_exists(AskedPort(r)) /\ vport_id_is_valid(AskedPort(r), r.type)
    THEN p = AskedPort(r) ELSE vport_next_available_index(r.type, p)

\* Faulty: a vport that is enabled is taken again.
vport_cmd_new_busy(n, r, p) ==
    /\ p \in Port /\ Type[p] = r.type
    /\ enabled' = [enabled EXCEPT ![p] = TRUE]
    /\ name' = [name EXCEPT ![p] = n]

\* vport_cmd_new succeeds with p.  When it fails, nothing changes.
vport_cmd_new(n, r, p) ==
    /\ vport_cmd_new_takes(r, p) /\ r.type # "bridge" /\ ~ enabled[p]
    /\ enabled' = [enabled EXCEPT ![p] = TRUE]
    /\ name' = [name EXCEPT ![p] = n]

\* vport_cmd_del succeeds; the name stays.
vport_cmd_del(p) == enabled[p] /\ enabled' = [enabled EXCEPT ![p] = FALSE]

\* vport_cmd_get by name replies with p, or with ENODEV when p = NoPort.
vport_cmd_get(n, p) ==
    \/ p \in Port /\ vport_name_to_portid(n, p) /\ enabled[p]
    \/ /\ p = NoPort
       /\ ~ \E q \in Port : vport_name_to_portid(n, q) /\ enabled[q]

\* Faulty: a dump begins at vport 2.
DumpFrom_two(c) == {p \in Port : enabled[p] /\ p >= IF c = NoPort THEN 2 ELSE c + 1}

\* vport_cmd_dump: the vports that a dump can still reach from cursor c.
DumpFrom(c) == {p \in Port : enabled[p] /\ p >= IF c = NoPort THEN 1 ELSE c + 1}

\* The name in the reply of vport_cmd_dump is that of the request, which
\* dpif_dpdk_vport_init has cleared.
DumpedName(p) == {}
-----------------------------------------------------------------------------
(* The daemon *)

\* ovs-vsctl.
configure(n, r) ==
    /\ conf[n] # r /\ changes < MaxChanges
    /\ conf' = [conf EXCEPT ![n] = r]
    /\ changes' = changes + 1
    /\ UNCHANGED <<table, known, daemon, crashes>>

\* bridge_reconfigure_ofp has no port left to delete: it adds ports after that.
Settled == \A n \in Name : known[n].port # NoPort => known[n].req = conf[n]

Ready == daemon.step = "run" /\ daemon.name = {}

\* port_add of ofproto-dpif and dpif_dpdk_port_add.
port_add(n) ==
    /\ Ready /\ Settled /\ conf[n] # NoRequest /\ known[n].port = NoPort
    /\ \/ (\E p \in Port : vport_cmd_get(n, p)) /\ UNCHANGED table
       \/ vport_cmd_get(n, NoPort) /\ \E p \in Port : vport_cmd_new(n, conf[n], p)
    /\ known' = [known EXCEPT ![n].req = conf[n]]
    /\ daemon' = [daemon EXCEPT !.name = {n}]
    /\ UNCHANGED <<conf, bounds>>

\* port_del of ofproto-dpif and dpif_dpdk_port_del.
port_del(n) ==
    /\ Ready /\ known[n].port # NoPort /\ known[n].req # conf[n]
    /\ vport_cmd_del(known[n].port)
    /\ daemon' = [daemon EXCEPT !.name = {n}]
    /\ UNCHANGED <<name, conf, known, bounds>>

\* update_port of ofproto and port_construct: the daemon keeps the number that
\* dpif_dpdk_port_query_by_name finds.
update_port(n) ==
    /\ daemon.step = "run" /\ n \in daemon.name
    /\ \/ \E p \in Port : vport_cmd_get(n, p) /\ known' = [known EXCEPT ![n].port = p]
       \/ vport_cmd_get(n, NoPort) /\ known' = [known EXCEPT ![n] = Unknown]
    /\ daemon' = Idle
    /\ UNCHANGED <<table, conf, bounds>>

crash ==
    /\ daemon.step # "down" /\ crashes < MaxCrashes
    /\ crashes' = crashes + 1
    /\ daemon' = [Idle EXCEPT !.step = "down"]
    /\ known' = [n \in Name |-> Unknown]
    /\ UNCHANGED <<table, conf, changes>>

\* The daemon starts: open_dpif_backer begins a dump.
dpif_dpdk_port_dump_start ==
    /\ daemon.step = "down"
    /\ daemon' = [Idle EXCEPT !.step = "dump",
                              !.hints = {n \in Name : conf[n] # NoRequest}]
    /\ UNCHANGED <<table, conf, known, bounds>>

\* open_dpif_backer puts the vports that have no configured name into
\* garbage_list.
dpif_dpdk_port_dump_next ==
    /\ daemon.step = "dump"
    /\ \/ \E p \in DumpFrom(daemon.cursor) :
              /\ \A q \in DumpFrom(daemon.cursor) : p <= q
              /\ daemon' = [daemon EXCEPT !.cursor = p,
                     !.garbage = @ \cup IF DumpedName(p) \cap daemon.hints = {}
                                        THEN {p} ELSE {}]
       \/ /\ DumpFrom(daemon.cursor) = {}
          /\ daemon' = [daemon EXCEPT !.step = "collect"]
    /\ UNCHANGED <<table, conf, known, bounds>>

\* open_dpif_backer deletes the vports of garbage_list.
open_dpif_backer ==
    /\ daemon.step = "collect"
    /\ \/ \E p \in daemon.garbage :
              vport_cmd_del(p) /\ daemon' = [daemon EXCEPT !.garbage = @ \ {p}]
       \/ daemon.garbage = {} /\ daemon' = Idle /\ UNCHANGED enabled
    /\ UNCHANGED <<name, conf, known, bounds>>
-----------------------------------------------------------------------------
DaemonStep ==
    \/ \E n \in Name : port_add(n) \/ port_del(n) \/ update_port(n)
    \/ dpif_dpdk_port_dump_start \/ dpif_dpdk_port_dump_next \/ open_dpif_backer

PortNext ==
    \/ DaemonStep
    \/ \E n \in Name : \E r \in Choices[n] \cup {NoRequest} : configure(n, r)
    \/ crash

PortSpec == PortInit /\ [][PortNext]_portVars

\* The main thread goes on, and a daemon that crashed is started again.
PortFairSpec == PortSpec /\ WF_portVars(DaemonStep)
-----------------------------------------------------------------------------
(* Properties *)

\* Vport p is one that a request for name n can get.
Fits(p, n) ==
    \A r \in Choices[n] : Type[p] = r.type /\ (r.type = "phy" => p = AskedPort(r))

\* The names whose requests are of one type, and for a physical port of one
\* index, whose vport exists; as default names they are those of vports that fit.
Stable ==
    {n \in Name :
        /\ \A r, s \in Choices[n] : r.type = s.type /\ (r.type = "phy" => r = s)
        /\ \A r \in Choices[n] :
               r.type = "phy" => AskedPort(r) \in Port /\ Type[AskedPort(r)] = "phy"
        /\ \A p \in Port : Default[p] = n => Fits(p, n)}

\* vport_cmd_get finds every enabled vport by the name that it was given, if the
\* name is stable, although vports that were disabled keep their names.
ByName == \A p \in Port : enabled[p] /\ name[p] \in Stable => vport_cmd_get(name[p], p)

\* When the main thread is between two operations, it knows every enabled vport
\* that has a stable name under its name, wherever an earlier daemon crashed.
NoOrphans ==
    Ready => \A p \in Port :
                 enabled[p] /\ name[p] \in Stable => known[name[p]].port = p

\* The vport that the daemon knows under a name is enabled and has the name,
\* even when names move between types.
KnownIsEnabled ==
    Ready => \A n \in Name : \A p \in Port :
                 known[n].port = p => enabled[p] /\ name[p] = n

\* When the configuration changes no more, the enabled vports with stable names
\* are in the end those that it asks for, each with the type that it asks for,
\* unless there are too few vports of the type.
Converges ==
    <>[] \A n \in Stable :
        IF conf[n] = NoRequest THEN \A p \in Port : enabled[p] => name[p] # n
        ELSE \/ \E p \in Port : /\ enabled[p] /\ name[p] = n /\ Type[p] = conf[n].type
                                /\ known[n].port = p
             \/ \A p \in Port : Type[p] = conf[n].type => enabled[p]
=============================================================================
