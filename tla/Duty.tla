-------------------------------- MODULE Duty --------------------------------
(***************************************************************************)
(* Which node runs the check, the event handler and the notification of a  *)
(* host, while nodes start, die, and gain and lose their links (the module *)
(* loaded into Naemon: module/module.c, module/hooks.c, with the peer      *)
(* groups of module Pgroup).  Module Link has the connections themselves.  *)
(***************************************************************************)
EXTENDS Pgroup

CONSTANTS
  Confs,        \* the configurations of interest
  Times,        \* start times
  FirstStart,   \* the start time of each node when all start together
  MaxDeaths,    \* bound on the deaths of nodes
  MaxStarts,    \* bound on their restarts
  Daemon        \* is every module connected to its merlind?

ASSUME DutyAssumption ==
  /\ Confs \subseteq [takeover : BOOLEAN, notifies : BOOLEAN,
                      blocked : [Nodes -> SUBSET Hosts]]
  /\ Times \subseteq Nat \ {0}
  /\ FirstStart \in [Nodes -> Times]
  /\ \A T \in {Masters, Pollers} : \A n, m \in T : FirstStart[n] = FirstStart[m] => n = m
  /\ MaxDeaths \in Nat /\ MaxStarts \in Nat /\ Daemon \in BOOLEAN

VARIABLES
  conf,      \* takeover and notifies: the flags of the pollers in every config;
             \* blocked[n]: the hosts in ipc_blocked_hostgroups of n
  up,        \* the nodes that run
  start,     \* ipc.info.start of each node
  info,      \* info[n][m]: start of node_table[m].info on n, 0 unless CONNECTED
  own,       \* own[n]: ipc.pgroup on n
  below,     \* below[n]: the pollers' group on master n
  assigned,  \* assigned[n][m]: node->assigned of m on n
  deaths     \* the number of nodes that died so far

vars == <<conf, up, start, info, own, below, assigned, deaths>>

\* pgroup_add_node on n: ipc, which stands for n itself, is added before the
\* nodes of the config.
Initially(n, tier) ==
  [nodes |-> Sorted(tier, [m \in Nodes |-> IF m = n THEN 1 ELSE 0]), active |-> 0]

\* node_action_handler: tier is where the node that got CONNECTED, or stopped
\* to be, belongs.  Its peer group is sorted again and all checks are
\* reassigned; the masters of a poller are in no peer group.
node_action_handler(n, tier, infos) ==
  IF n \in Pollers /\ tier = Masters
  THEN UNCHANGED <<own, below, assigned>>
  ELSE /\ own' = [own EXCEPT ![n] =
                    IF tier = Tier(n)
                    THEN pgroup_assign_peer_ids(@, [infos EXCEPT ![n] = start[n]]) ELSE @]
       /\ below' = [below EXCEPT ![n] =
                      IF tier # Tier(n) THEN pgroup_assign_peer_ids(@, infos) ELSE @]
       /\ assigned' = [assigned EXCEPT ![n] =
             pgroup_reassign_checks(n, own'[n], below'[n], conf.takeover,
               {m \in Nodes : IF m = n THEN Daemon ELSE infos[m] # 0})]

\* post_config_init on n, started at time t: pgroup_init and the first
\* pgroup_assign_peer_ids(ipc.pgroup).
Loaded(n, t, takeover) ==
  LET known == [m \in Nodes |-> IF m = n THEN t ELSE 0]
      pg    == pgroup_assign_peer_ids(Initially(n, Tier(n)), known)
      lower == Initially(n, Pollers)
  IN [own      |-> pg,
      below    |-> lower,
      assigned |-> pgroup_reassign_checks(n, pg, lower, takeover,
                     IF Daemon THEN {n} ELSE {})]

Init ==
  /\ conf \in Confs
  /\ up = Nodes
  /\ start = FirstStart
  /\ info = [n \in Nodes |-> [m \in Nodes |-> 0]]
  /\ own = [n \in Nodes |-> Loaded(n, start[n], conf.takeover).own]
  /\ below = [n \in Nodes |-> Loaded(n, start[n], conf.takeover).below]
  /\ assigned = [n \in Nodes |-> Loaded(n, start[n], conf.takeover).assigned]
  /\ deaths = 0

-----------------------------------------------------------------------------
(* Nodes and links.                                                        *)

\* handle_control on n, CTRL_ACTIVE from m: the node gets CONNECTED.  It is on
\* a connection that both ends have, so m knows n by its present start time
\* or not at all.
Connect(n, m) ==
  /\ n # m /\ {n, m} \subseteq up
  /\ info[n][m] = 0 /\ info[m][n] \in {0, start[n]}
  /\ info' = [info EXCEPT ![n][m] = start[m]]
  /\ node_action_handler(n, Tier(m), info'[n])
  /\ UNCHANGED <<conf, up, start, deaths>>

\* node_disconnect on n: m is silent, its connection broke, or it said
\* CTRL_INACTIVE.
Disconnect(n, m) ==
  /\ n \in up /\ info[n][m] # 0
  /\ info' = [info EXCEPT ![n][m] = 0]
  /\ node_action_handler(n, Tier(m), info'[n])
  /\ UNCHANGED <<conf, up, start, deaths>>

\* The process ends, and all it knew is gone.
Die(n) ==
  /\ n \in up /\ deaths < MaxDeaths
  /\ up' = up \ {n}
  /\ info' = [info EXCEPT ![n] = [m \in Nodes |-> 0]]
  /\ deaths' = deaths + 1
  /\ UNCHANGED <<conf, start, own, below, assigned>>

Restarts == deaths - Cardinality(Nodes \ up)

\* nebmodule_init stores the time of the start.  Clocks differ, so a later
\* start may have an earlier time.
Start(n, t) ==
  /\ n \notin up /\ Restarts < MaxStarts
  /\ t \notin {start[m] : m \in Tier(n)}
  /\ up' = up \cup {n}
  /\ start' = [start EXCEPT ![n] = t]
  /\ own' = [own EXCEPT ![n] = Loaded(n, t, conf.takeover).own]
  /\ below' = [below EXCEPT ![n] = Loaded(n, t, conf.takeover).below]
  /\ assigned' = [assigned EXCEPT ![n] = Loaded(n, t, conf.takeover).assigned]
  /\ UNCHANGED <<conf, info, deaths>>

Next ==
  \/ \E n, m \in Nodes : Connect(n, m)
  \/ \E n, m \in Nodes : Disconnect(n, m)
  \/ \E n \in Nodes : Die(n)
  \/ \E n \in Nodes, t \in Times : Start(n, t)

Spec == Init /\ [][Next]_vars

-----------------------------------------------------------------------------
(* The decisions of the hooks.  h is a host that n has.                    *)

Has(n, h) == n \in Masters \/ h \in PollerHosts

Owner(n, h) == pgroup_host_node(n, own[n], below[n], conf.takeover, h)

\* hook_event_handler on NEBTYPE_EVENTHANDLER_START: only the responsible node
\* goes on.
Handles(n, h) == n \in up /\ Has(n, h) /\ Owner(n, h) = n

node_blocked_hostgroup(n, h) == h \in conf.blocked[n]

\* hook_host_result on NEBTYPE_HOSTCHECK_*_PRECHECK: the responsible node, unless
\* it blocks the host.
Runs(n, h) == Handles(n, h) /\ ~node_blocked_hostgroup(n, h)

online_masters(n) == IF n \in Pollers THEN Cardinality({m \in Masters : info[n][m] # 0}) ELSE 0

active_peers(n) == Cardinality({m \in Tier(n) : info[n][m] # 0})

should_run_check(n, id) == assigned_peer(id, active_peers(n) + 1) = peer_id(own[n], n)

\* The members of the pollers' group that master n counts as able to notify.
pgroup_num_notify(n) == IF conf.notifies THEN below[n].active ELSE 0

\* hook_notification on NEBTYPE_NOTIFICATION_START lets the notification out.
hook_notification(n, h) ==
  /\ ~(online_masters(n) > 0 /\ ~conf.notifies)
  /\ \/ Owner(n, h) = n
     \/ /\ n \in Masters /\ Owner(n, h) \in Pollers
        /\ ~conf.notifies
        /\ Cardinality(Masters) = 1 \/ should_run_check(n, HostId(n, h))
        /\ pgroup_num_notify(n) = 0

\* hook_external_command executes CMD_SEND_CUSTOM_HOST_NOTIFICATION.  Where a
\* peer is responsible the command is executed too.
custom_notification(n, h) ==
  /\ ~(online_masters(n) > 0 /\ ~conf.notifies)
  /\ \/ Owner(n, h) = n
     \/ Owner(n, h) \in Tier(n)
     \/ /\ Cardinality(Masters) = 1 \/ should_run_check(n, HostId(n, h))
        /\ pgroup_num_notify(n) = 0

Notifies(n, h) == n \in up /\ Has(n, h) /\ hook_notification(n, h)

NotifiesCustom(n, h) == Notifies(n, h) /\ custom_notification(n, h)

-----------------------------------------------------------------------------
(* Properties.                                                             *)

Groups(tier) == [nodes : {s \in [1 .. Cardinality(tier) -> tier] : Range(s) = tier},
                 active : 0 .. Cardinality(tier)]

\* The values pgroup.c and node_set_state give to the tables of the nodes.
TypeOK ==
  /\ conf \in Confs
  /\ up \subseteq Nodes
  /\ start \in [Nodes -> Times]
  /\ info \in [Nodes -> [Nodes -> Times \cup {0}]]
  /\ \A n \in Nodes : own[n] \in Groups(Tier(n)) /\ below[n] \in Groups(Pollers)
  /\ assigned \in [Nodes -> [Nodes -> [current : Nat, extra : Nat]]]
  /\ deaths \in 0 .. MaxDeaths

\* Every running node is connected to exactly the nodes that run, as they are.
Settled ==
  \A n \in up : \A m \in Nodes \ {n} : info[n][m] = IF m \in up THEN start[m] ELSE 0

\* Is there a node that may check host h?
Checkable(h) ==
  \/ up \cap Masters # {} /\ (h \notin PollerHosts \/ conf.takeover)
  \/ up \cap Pollers # {} /\ h \in PollerHosts

\* When the links have settled, exactly one node is responsible for a host and
\* runs its event handler: whatever order the nodes connected in, and whichever
\* tier has died out, masters and pollers, with their different host ids, split
\* the hosts the same way.  Only that node checks the host, and if it blocks the
\* host nobody does.  And exactly one node lets its notification out:
\* hook_notification of the others leaves it to that one.  The same for a custom
\* notification, where the external command hook and the notification hook both
\* decide.
OneNodeActs ==
  Settled => \A h \in Hosts :
    /\ Cardinality({n \in Nodes : Handles(n, h)}) = IF Checkable(h) THEN 1 ELSE 0
    /\ \A n \in Nodes : Runs(n, h) => \A m \in Nodes : Handles(m, h) => m = n
    /\ Checkable(h) /\ (\A n \in up : ~node_blocked_hostgroup(n, h)) => \E n \in Nodes : Runs(n, h)
    /\ Checkable(h) => /\ Cardinality({n \in Nodes : Notifies(n, h)}) = 1
                       /\ Cardinality({n \in Nodes : NotifiesCustom(n, h)}) = 1

\* When the links have settled, a master holds the node that really runs the
\* check responsible, or that node blocks it: pgroup_host_node on the master
\* agrees with the decision of the poller, although their ids of the host differ.
\* And at any time the number of hosts a node is reported to handle, from
\* counters made when the configuration was read, is the number it is held
\* responsible for.  (The counters are right only if the pollers have a single
\* hostgroup.)
OwnerIsRunner ==
  /\ Settled => \A n \in up, h \in Hosts :
       Has(n, h) /\ Owner(n, h) \in up
       => Runs(Owner(n, h), h) \/ node_blocked_hostgroup(Owner(n, h), h)
  /\ \A n \in up : \A m \in Nodes :
       (m = n \/ (info[n][m] # 0 /\ (n \in Masters \/ m \in Pollers)))
       => assigned[n][m].current + assigned[n][m].extra =
            Cardinality({h \in Hosts : Has(n, h) /\ Owner(n, h) = m})

\* The hosts that the nodes of a tier have to check: the masters have those of
\* the pollers too once they may take over and all of them miss every poller.
TierHosts(tier) ==
  IF tier = Pollers THEN PollerHosts
  ELSE {h \in Hosts : \/ h \notin PollerHosts
                      \/ conf.takeover /\ \A n \in tier, p \in Pollers : info[n][p] = 0}

\* While the links are not settled a host may be checked twice but, in a tier
\* of two nodes, it is never left out, unless one of them blocks it: nodes that
\* do not see each other both take all hosts.  This goes for the hosts that
\* masters take over from pollers too.  The exception is a start time that is no
\* longer valid.
NobodyLeftOut ==
  \A T \in {Masters, Pollers} :
    Cardinality(T) = 2 /\ T \subseteq up /\ (\A n, m \in T : info[n][m] \in {0, start[m]})
    => \A h \in TierHosts(T) :
         (\A n \in T : ~node_blocked_hostgroup(n, h)) => \E n \in T : Runs(n, h)
=============================================================================
