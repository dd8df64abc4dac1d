------------------------------- MODULE Pgroup -------------------------------
(***************************************************************************)
(* Peer groups (shared/pgroup.c) in a network of two tiers: masters that   *)
(* are peers of each other, and pollers that are peers of each other and   *)
(* check the hosts of some hostgroups.  This module has the tables made    *)
(* from the object configuration and the functions on peer groups; module  *)
(* Duty has the nodes that use them.  A peer group is [nodes, active],     *)
(* pg->nodes and pg->active_nodes.  Services are distributed by the same   *)
(* code as hosts, with ids of their own.                                   *)
(***************************************************************************)
EXTENDS Integers, FiniteSetsExt, Sequences

CONSTANTS
  Masters, Pollers,  \* the nodes of the two tiers
  NumHosts,          \* num_objects.hosts of the masters
  Hostgroups         \* the hostgroups of the pollers, a sequence of host sets

ASSUME PgroupAssumption ==
  /\ IsFiniteSet(Masters) /\ IsFiniteSet(Pollers)
  /\ Masters # {} /\ Pollers # {} /\ Masters \cap Pollers = {}
  /\ NumHosts \in Nat
  /\ Hostgroups \in Seq(SUBSET (0 .. NumHosts - 1))

Nodes == Masters \cup Pollers

Hosts == 0 .. NumHosts - 1

\* The members of ipc.pgroup on node n.
Tier(n) == IF n \in Masters THEN Masters ELSE Pollers

-----------------------------------------------------------------------------
(* pgroup_init: the tables.                                                *)

\* host_map of the pollers' group when the first k hostgroups are mapped.
host_map(k) == UNION {Hostgroups[j] : j \in 1 .. k}

\* poller_handled_hosts
PollerHosts == host_map(Len(Hostgroups))

\* host_id_table: a poller has only the hosts it checks, so on a poller the
\* id of a host is the number of such hosts before it.
host_id_table(h, hosts) == Cardinality({g \in hosts : g < h})

\* The id of host h on node n.
HostId(n, h) == IF n \in Masters THEN h ELSE host_id_table(h, PollerHosts)

\* How many of a set of ids a peer has when n are active.
Share(ids, n, peer) == Cardinality({i \in ids : i % n = peer})

\* assign[n - 1][peer].hosts of the pollers' group.  The convtables are made
\* again after every hostgroup, and add to the same counters.
assign(n, peer) ==
  MapThenSumSet(LAMBDA k : Share({host_id_table(h, host_map(k)) : h \in host_map(k)}, n, peer),
                DOMAIN Hostgroups)

\* inherit[n - 1][peer].hosts of the pollers' group.
inherit(n, peer) ==
  MapThenSumSet(LAMBDA k : Share(host_map(k), n, peer), DOMAIN Hostgroups)

\* assign[n - 1][peer].hosts of ipc.pgroup on node self.
own_assign(self, n, peer) ==
  Share(IF self \in Masters
        THEN Hosts \ PollerHosts
        ELSE {HostId(self, h) : h \in PollerHosts}, n, peer)

-----------------------------------------------------------------------------
(* Peer ids and the node that is responsible for a host.                   *)

\* The order of the nodes in the configuration files.
Place == CHOOSE f \in [Nodes -> 1 .. Cardinality(Nodes)] : \A n, m \in Nodes : f[n] = f[m] => n = m

\* cmp_peer, where start[m] is the start time that m reported, or 0 if m is not
\* connected: the connected nodes come first, earliest start first.  The order
\* of nodes that cmp_peer does not tell apart is of no importance.
cmp_peer(start, a, b) ==
  \/ start[a] # 0 /\ (start[b] = 0 \/ start[a] < start[b])
  \/ start[a] = start[b] /\ Place[a] < Place[b]

Rank(tier, start, m) == Cardinality({x \in tier : cmp_peer(start, x, m)})

\* The result of qsort on the nodes of a tier.
Sorted(tier, start) ==
  [i \in 1 .. Cardinality(tier) |-> CHOOSE m \in tier : Rank(tier, start, m) = i - 1]

Members(pg) == {pg.nodes[i] : i \in DOMAIN pg.nodes}

Connected(tier, start) == {m \in tier : start[m] # 0}

\* Mutants: the connected nodes come first, but in the order they were in;
\* disconnected nodes count as active.
pgroup_assign_peer_ids_Unsorted(pg, start) ==
  [nodes  |-> Sorted(Members(pg), [m \in Nodes |->
                IF start[m] # 0 THEN CHOOSE i \in DOMAIN pg.nodes : pg.nodes[i] = m ELSE 0]),
   active |-> Cardinality(Connected(Members(pg), start))]

pgroup_assign_peer_ids_AllActive(pg, start) ==
  [nodes |-> Sorted(Members(pg), start), active |-> Cardinality(Members(pg))]

pgroup_assign_peer_ids(pg, start) ==
  [nodes  |-> Sorted(Members(pg), start),
   active |-> Cardinality(Connected(Members(pg), start))]

\* pgroup.h: assigned_peer()
assigned_peer(id, active) == IF active # 0 THEN id % active ELSE 0

peer_id(pg, m) == (CHOOSE i \in DOMAIN pg.nodes : pg.nodes[i] = m) - 1

\* Mutant: the master's id of the host is used in the pollers' group.
pgroup_host_node_OwnId(self, own, below, takeover, h) ==
  LET theirs   == self \in Masters /\ h \in PollerHosts
      fallback == below.active = 0 /\ takeover
      pg       == IF theirs /\ ~fallback THEN below ELSE own
  IN pg.nodes[assigned_peer(HostId(self, h), pg.active) + 1]

\* pgroup_host_node on node self: own is ipc.pgroup, below the pollers' group
\* as a master sees it.
pgroup_host_node(self, own, below, takeover, h) ==
  LET theirs   == self \in Masters /\ h \in PollerHosts
      fallback == below.active = 0 /\ takeover
      pg       == IF theirs /\ ~fallback THEN below ELSE own
      real_id  == IF theirs /\ ~fallback THEN host_id_table(h, PollerHosts) ELSE HostId(self, h)
  IN pg.nodes[assigned_peer(real_id, pg.active) + 1]

\* pgroup_reassign_checks on node self: current and extra of every node that
\* is active; the counters of other nodes are left out.  connected are
\* the nodes with node->state == STATE_CONNECTED; for self that is the state of
\* the connection to the local daemon.
pgroup_reassign_checks(self, own, below, takeover, connected) ==
  LET ActiveIn(pg, m) == m \in {pg.nodes[i] : i \in 1 .. pg.active} IN
  [m \in Nodes |->
     [current |-> CASE ActiveIn(own, m)   -> own_assign(self, own.active, peer_id(own, m))
                    [] ActiveIn(below, m) -> assign(below.active, peer_id(below, m))
                    [] OTHER              -> 0,
      extra   |-> IF /\ self \in Masters /\ below.active = 0 /\ takeover
                     /\ ActiveIn(own, m) /\ m \in connected
                  THEN inherit(own.active, peer_id(own, m)) ELSE 0]]
=============================================================================
