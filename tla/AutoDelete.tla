----------------------------- MODULE AutoDelete -----------------------------
(***************************************************************************)
(* Automatic deletion of the pollers of one group (module/module.c         *)
(* auto_delete_nodes and its helpers, module/script-helpers.c              *)
(* auto_delete_node_cmd): the module of a master checks at intervals which *)
(* pollers it has not seen for long, and runs `mon node remove' for them   *)
(* and `mon restart'.  A unit of time is the pulse interval, so every      *)
(* connected node is sent a pulse in every unit.                           *)
(***************************************************************************)
EXTENDS Integers, FiniteSets

CONSTANTS
    Pollers,        \* the pollers of the group as first configured
    AutoDeletes,    \* values of the auto_delete setting
    CheckInterval,  \* node_auto_delete_check_interval
    MaxSilence,     \* data_timeout of the pollers, which is not 0
    MaxClock         \* bound on the clock

ASSUME Settings ==
    /\ IsFiniteSet(Pollers)
    /\ AutoDeletes \subseteq Nat /\ CheckInterval \in Nat /\ MaxSilence \in Nat

VARIABLES
    clock,         \* time(NULL), in pulse intervals
    auto_delete,   \* node->auto_delete of each poller, 0 for never
    nodes,         \* pgroup->nodes: the pollers this process knows
    connected,     \* those in STATE_CONNECTED; active_nodes is their number
    last_action,   \* node->last_action, when something was last read from the node
                   \* or sent to it; -1 before the first in this process
    ipc_connected, \* ipc.state = STATE_CONNECTED
    connect_time,  \* ipc.connect_time
    event,         \* when auto_delete_nodes runs next: a set, empty if never
    cmds,          \* running commands: the nodes each of them removes
    touch,         \* history: the last sign of life of a poller, data from it or a
                   \* connection to it, in whichever process of the master
    active_since,  \* history: since when the group has had an active node
    asked,         \* history: the nodes named in the command of the last check
    limits         \* history: "late_ipc", "no_event", "too_long"

deletionVars == <<clock, auto_delete, nodes, connected, last_action, ipc_connected,
                  connect_time, event, cmds, touch, active_since, asked, limits>>

Pulse == 1
Recently == 2 * Pulse

DeletionTypeOK ==
    /\ clock \in 0 .. MaxClock
    /\ auto_delete \in [Pollers -> AutoDeletes]
    /\ nodes \subseteq Pollers /\ connected \subseteq nodes
    /\ last_action \in [Pollers -> -1 .. MaxClock]
    /\ ipc_connected \in BOOLEAN /\ connect_time \in 0 .. MaxClock
    /\ event \subseteq 0 .. MaxClock + CheckInterval
    /\ cmds \subseteq SUBSET Pollers
    /\ touch \in [Pollers -> 0 .. MaxClock]
    /\ active_since \in 0 .. MaxClock
    /\ asked \subseteq Pollers /\ limits \subseteq {"late_ipc", "no_event", "too_long"}

DeletionInit ==
    /\ clock = 1
    /\ auto_delete \in [Pollers -> AutoDeletes]
    /\ nodes = Pollers /\ connected = {}
    /\ last_action = [n \in Pollers |-> -1]
    /\ ipc_connected = TRUE /\ connect_time = 1
    /\ event = {1 + CheckInterval}
    /\ cmds = {}
    /\ touch = [n \in Pollers |-> 0]
    /\ active_since = 1
    /\ asked = {} /\ limits = {}

-----------------------------------------------------------------------------
(* The decision *)

\* A node that was never seen counts as seen when the daemon connected.
auto_del_last_seen_delta(n) ==
    clock - (IF last_action[n] <= 0 THEN connect_time ELSE last_action[n])

auto_delete_pgroup_recently_seen(n) ==
    \E m \in nodes \ {n} : auto_del_last_seen_delta(m) < Recently

\* Mutant: an outage of the whole group does not keep its nodes.
should_auto_delete_Outage(n) ==
    /\ auto_delete[n] > 0 /\ n \notin connected
    /\ auto_del_last_seen_delta(n) > auto_delete[n]
    /\ Cardinality(nodes) # 1

\* Mutant: a recently seen node is asked for although others are active.
should_auto_delete_Recent(n) ==
    /\ auto_delete[n] > 0 /\ n \notin connected
    /\ auto_del_last_seen_delta(n) > auto_delete[n]
    /\ Cardinality(nodes) # 1
    /\ connected = {} /\ auto_delete_pgroup_recently_seen(n)

should_auto_delete(n) ==
    /\ auto_delete[n] > 0 /\ n \notin connected
    /\ auto_del_last_seen_delta(n) > auto_delete[n]
    /\ Cardinality(nodes) # 1
    /\ connected # {} \/ auto_delete_pgroup_recently_seen(n)

\* A command for the nodes found is started in a worker, unless their names are
\* too long for the buffer; one name always fits.  (The names then overrun
\* nodes_to_delete; a process that ends of it is one that restarts.)
Command(found) ==
    \/ /\ found = {}
       /\ asked' = {} /\ limits' = limits \ {"too_long"}
       /\ UNCHANGED cmds
    \/ /\ found # {}
       /\ cmds' = cmds \cup {found}
       /\ asked' = found /\ limits' = limits \ {"too_long"}
    \/ /\ Cardinality(found) > 1
       /\ asked' = {} /\ limits' = limits \cup {"too_long"}
       /\ UNCHANGED cmds

\* The timed event.  It is scheduled again only if the daemon is connected.
auto_delete_nodes ==
    /\ \E t \in event : t <= clock
    /\ IF ~ipc_connected
       THEN /\ event' = {}
            /\ limits' = limits \cup {"no_event"}
            /\ UNCHANGED <<cmds, asked>>
       ELSE /\ event' = {clock + CheckInterval}
            /\ Command({n \in nodes : should_auto_delete(n)})
    /\ UNCHANGED <<clock, auto_delete, nodes, connected, last_action, ipc_connected,
                   connect_time, touch, active_since>>

-----------------------------------------------------------------------------
(* Nodes, daemon and processes *)

\* node_send and node_recv: a connection to n is made and CTRL_ACTIVE goes out on
\* it, or something arrives from n.  With the CTRL_ACTIVE of n it becomes
\* CONNECTED, unless that is refused.
Contact(n) ==
    /\ n \in nodes \ connected
    /\ last_action' = [last_action EXCEPT ![n] = clock]
    /\ touch' = [touch EXCEPT ![n] = clock]
    /\ \E accepted \in BOOLEAN :
           /\ connected' = IF accepted THEN connected \cup {n} ELSE connected
           /\ active_since' = IF accepted /\ connected = {} THEN clock ELSE active_since
    /\ UNCHANGED <<clock, auto_delete, nodes, ipc_connected, connect_time, event, cmds,
                   asked, limits>>

\* node_disconnect of n.
Drop(n) ==
    /\ n \in connected
    /\ connected' = connected \ {n}
    /\ UNCHANGED <<clock, auto_delete, nodes, last_action, ipc_connected, connect_time,
                   event, cmds, touch, active_since, asked, limits>>

\* node_set_state of ipc: the connection to the daemon comes and goes, once in
\* the life of a process.
Ipc ==
    /\ ipc_connected => limits \subseteq {"too_long"}
    /\ ipc_connected' = ~ipc_connected
    /\ connect_time' = IF ipc_connected THEN connect_time ELSE clock
    /\ limits' = IF ipc_connected THEN limits ELSE limits \cup {"late_ipc"}
    /\ UNCHANGED <<clock, auto_delete, nodes, connected, last_action, event, cmds,
                   touch, active_since, asked>>

\* The module in a new process that reads which nodes are configured.  The
\* commands that still run end with the workers of the old process.
Restart(configured) ==
    /\ nodes' = configured
    /\ connected' = {}
    /\ last_action' = [n \in Pollers |-> -1]
    /\ ipc_connected' \in BOOLEAN
    /\ connect_time' = clock
    /\ event' = {clock + CheckInterval}
    /\ cmds' = {} /\ asked' = {} /\ limits' = {}
    /\ UNCHANGED <<clock, auto_delete, touch, active_since>>

\* A command of auto_delete_node_cmd ends: the nodes are gone, or it failed.
auto_delete_node_cmd ==
    \E c \in cmds :
        \/ Restart(nodes \ c)
        \/ /\ cmds' = cmds \ {c}
           /\ UNCHANGED <<clock, auto_delete, nodes, connected, last_action,
                          ipc_connected, connect_time, event, touch, active_since,
                          asked, limits>>

\* send_pulse: every connected node is sent something, which sets last_action
\* whether it lives or not.  One that is silent for longer than its data_timeout
\* has been disconnected (disconnect_inactive).
DeletionTick ==
    /\ clock < MaxClock
    /\ \A t \in event : t > clock
    /\ clock' = clock + 1
    /\ last_action' = [n \in Pollers |-> IF n \in connected THEN clock + 1 ELSE last_action[n]]
    /\ \E silent \in SUBSET connected :
           /\ \A n \in silent : clock + 1 - touch[n] <= MaxSilence
           /\ touch' = [n \in Pollers |->
                  IF n \in connected \ silent THEN clock + 1 ELSE touch[n]]
    /\ UNCHANGED <<auto_delete, nodes, connected, ipc_connected, connect_time, event,
                   cmds, active_since, asked, limits>>

DeletionNext ==
    \/ auto_delete_nodes \/ auto_delete_node_cmd
    \/ \E n \in Pollers : Contact(n) \/ Drop(n)
    \/ Ipc \/ Restart(nodes) \/ DeletionTick

DeletionSpec == DeletionInit /\ [][DeletionNext]_deletionVars

-----------------------------------------------------------------------------
(* Properties *)

\* A command removes only nodes that have given no sign of life for longer than
\* their auto_delete setting, restarts of the master included.  And it is never
\* started in "a full network outage": another node of the group, which it
\* leaves, gave a sign of life within the last two pulse intervals and its
\* data_timeout (should_auto_delete asks for the last_action of a node, which
\* what is sent into a dead connection sets too).  Limits of the second part:
\* auto_delete settings below two pulse intervals; and a daemon that connects late
\* or again, as nodes that were never seen then count as seen at that moment.
DeletedRightly ==
    [][\A gone \in cmds' \ cmds :
         /\ \A n \in gone : clock - touch[n] > auto_delete[n]
         /\ \/ \E n \in nodes : auto_delete[n] \in 1 .. Recently - 1
            \/ "late_ipc" \in limits
            \/ \E m \in nodes \ gone : clock - touch[m] < Recently + MaxSilence
      ]_deletionVars

\* While the group has active nodes, one with which nothing is exchanged for its
\* auto_delete time is named in a command at the first check after that time and,
\* should the command fail, at every check until it is gone (auto_delete_nodes).
\* Limits: the check that finds the daemon disconnected is the last one
\* (module.c:1436), and a check that finds too many names starts no command.
DeletedInTime ==
    \A n \in nodes \ connected :
        /\ "no_event" \notin limits /\ connected # {}
        /\ auto_delete[n] > 0 /\ last_action[n] > 0
        /\ clock - CheckInterval > last_action[n] + auto_delete[n]
        /\ clock - CheckInterval > active_since
        => n \in asked \/ "too_long" \in limits

=============================================================================
