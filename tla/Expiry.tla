------------------------------- MODULE Expiry -------------------------------
(***************************************************************************)
(* Orphaned checks: how one node notices that the checks of an object are  *)
(* not run any more, by itself or by the node that should (module/module.c *)
(* expire_event, schedule_expiration_event, unexpire_host and              *)
(* set_host_check_node, called from hook_host_result of module/hooks.c).   *)
(* Hosts and services go through copies of the same code with tables and   *)
(* counters of their own; an object stands for either.  Naemon, which      *)
(* calls the hooks and runs timed events, is external.                     *)
(***************************************************************************)
EXTENDS Integers, FiniteSets

CONSTANTS
    Objects,       \* hosts, or services
    Runners,       \* the nodes that may be responsible, this one included
    Interval,      \* check_interval, in seconds
    Windows,       \* what check_window() may return: check or retry interval
    CheckTimeout,  \* host_check_timeout
    DataTimeout,   \* data_timeout of a node
    MaxTime,       \* bound on the clock
    MaxUnheard,    \* bound on changes of last_check without a result
    Untracked      \* untracked_checks_node

\* What the settings of Naemon and Merlin give: an event is patient for longer
\* than a check window, because one of the two timeouts is at least a second.
ASSUME Sizes ==
    /\ IsFiniteSet(Objects)
    /\ Interval \in Nat /\ Windows \subseteq 0 .. Interval
    /\ CheckTimeout \in Nat /\ DataTimeout \in Nat /\ CheckTimeout + DataTimeout > 0
    /\ MaxTime \in Nat /\ MaxUnheard \in Nat

VARIABLES
    now,         \* time(NULL); the event loop started at 0
    responsible, \* pgroup_host_node() of each object
    last_check,  \* obj->last_check
    window,      \* check_window(obj)
    due,         \* when Naemon calls the hook again for a check of the object
    expiry_map,  \* the pending expiration event of each object, as a set
    expired,     \* expired_hosts: the node that a noticed orphan is blamed on
    count,       \* assigned.expired.hosts of each node
    check_node,  \* host_check_node
    host_checks, \* node->host_checks, relative to that at the start
    heard,       \* history: when the last result of the object was processed
    unheard,     \* history: objects whose last_check changed without a result
    changes,     \* history: how often one did
    twice        \* history: a record has been counted off twice

orphanVars == <<now, responsible, last_check, window, due, expiry_map, expired, count,
                check_node, host_checks, heard, unheard, changes, twice>>

Tracked == Runners \cup {Untracked}

\* The time from scheduling an expiration event to its execution.
Patience == CheckTimeout + Interval + DataTimeout

event_start == 0

OrphansTypeOK ==
    /\ now \in 0 .. MaxTime
    /\ responsible \in [Objects -> Runners]
    /\ last_check \in [Objects -> 0 .. MaxTime]
    /\ window \in [Objects -> Windows]
    /\ due \in [Objects -> 0 .. MaxTime + Interval]
    /\ expiry_map \in [Objects -> SUBSET [added : 0 .. MaxTime, node : Runners]]
    /\ expired \in [Objects -> SUBSET Runners]
    /\ count \in [Runners -> Int]
    /\ check_node \in [Objects -> Tracked]
    /\ host_checks \in [Tracked -> Int]
    /\ heard \in [Objects -> 0 .. MaxTime]
    /\ unheard \subseteq Objects /\ changes \in 0 .. MaxUnheard /\ twice \in BOOLEAN

\* post_config_init allocates all tables empty.
OrphansInit ==
    /\ now = event_start
    /\ responsible \in [Objects -> Runners]
    /\ last_check = [o \in Objects |-> 0]
    /\ window \in [Objects -> Windows]
    /\ due = [o \in Objects |-> Interval]
    /\ expiry_map = [o \in Objects |-> {}]
    /\ expired = [o \in Objects |-> {}]
    /\ count = [n \in Runners |-> 0]
    /\ check_node = [o \in Objects |-> Untracked]
    /\ host_checks = [n \in Tracked |-> 0]
    /\ heard = [o \in Objects |-> 0]
    /\ unheard = {} /\ changes = 0 /\ twice = FALSE

-----------------------------------------------------------------------------
(* The functions of module.c *)

\* Mutant: a second event is scheduled over the first, which is forgotten.
schedule_expiration_event_Over(o, node) ==
    expiry_map' = [expiry_map EXCEPT ![o] = {[added |-> now, node |-> node]}]

\* One event at most is pending for an object; later calls change nothing.
schedule_expiration_event(o, node) ==
    expiry_map' = [expiry_map EXCEPT ![o] =
                       IF @ = {} THEN {[added |-> now, node |-> node]} ELSE @]

\* The counters with the nodes in from counted off once and those in to counted.
Recount(from, to) ==
    [n \in Runners |-> count[n] + (IF n \in to THEN 1 ELSE 0)
                                - (IF n \in from THEN 1 ELSE 0)]

\* Mutant: the record goes but stays counted.
unexpire_host_Uncounted(o) ==
    /\ expired' = [expired EXCEPT ![o] = {}]
    /\ UNCHANGED count
    /\ expiry_map' = [expiry_map EXCEPT ![o] = {}]

\* Forgets the record of o, and the event that is still to come.
unexpire_host(o) ==
    /\ expired' = [expired EXCEPT ![o] = {}]
    /\ count' = Recount(expired[o], {})
    /\ expiry_map' = [expiry_map EXCEPT ![o] = {}]

\* "Verify that either this check, or the last one, came in": the test of
\* expire_event, which is lenient in the first window after the start.
CameIn(o, evt) ==
    LET previous_check_time == evt.added - window[o]
    IN  \/ previous_check_time < event_start
        \/ last_check[o] >= previous_check_time

\* Not expired after all.  The counter of an earlier record is decremented
\* here and once more in unexpire_host; no event is pending to be destroyed.
Recover(o) ==
    /\ count' = [n \in Runners |-> count[n] - (IF n \in expired[o] THEN 2 ELSE 0)]
    /\ expired' = [expired EXCEPT ![o] = {}]
    /\ twice' = (twice \/ expired[o] # {})

\* Mutant: an orphan that moves to another node stays counted on the first.
Orphan_Kept(o, evt) ==
    /\ count' = Recount({}, {evt.node} \ expired[o])
    /\ expired' = [expired EXCEPT ![o] = {evt.node}]
    /\ UNCHANGED twice

\* A record that is blamed on the same node already is left alone; one on
\* another node is replaced, and otherwise one is inserted.
Orphan(o, evt) ==
    /\ count' = Recount(expired[o], {evt.node})
    /\ expired' = [expired EXCEPT ![o] = {evt.node}]
    /\ UNCHANGED twice

set_host_check_node(o, node) ==
    /\ check_node' = [check_node EXCEPT ![o] = node]
    /\ host_checks' = [n \in Tracked |->
           host_checks[n] + (IF n = node THEN 1 ELSE 0)
                          - (IF n = check_node[o] THEN 1 ELSE 0)]

-----------------------------------------------------------------------------
(* Steps *)

\* Naemon runs a timed event of the module when its time has come.
expire_event(o) ==
    \E evt \in expiry_map[o] :
        /\ evt.added + Patience <= now
        /\ expiry_map' = [expiry_map EXCEPT ![o] = {}]
        /\ IF CameIn(o, evt) THEN Recover(o) ELSE Orphan(o, evt)
        /\ UNCHANGED <<now, responsible, last_check, window, due, check_node,
                       host_checks, heard, unheard, changes>>

\* ..._ASYNC_PRECHECK: Naemon is about to run the check.  Whether the hook
\* blocks it or lets it run, Naemon comes back after the check interval.
Precheck(o) ==
    /\ schedule_expiration_event(o, responsible[o])
    /\ due' = [due EXCEPT ![o] = now + Interval]
    /\ UNCHANGED <<now, responsible, last_check, window, expired, count, check_node,
                   host_checks, heard, unheard, changes, twice>>

\* ..._PROCESSED: Naemon has processed a result, run here or received from a
\* node, which may have waited in that node's backlog; older ones than the
\* last are discarded.  It may change the state and with it check_window.
Processed(o) ==
    \E node \in Runners, end_time \in last_check[o] .. now, w \in Windows :
        /\ unexpire_host(o)
        /\ last_check' = [last_check EXCEPT ![o] = end_time]
        /\ window' = [window EXCEPT ![o] = w]
        /\ set_host_check_node(o, node)
        /\ heard' = [heard EXCEPT ![o] = now]
        /\ unheard' = unheard \ {o}
        /\ UNCHANGED <<now, responsible, due, changes, twice>>

\* last_check changes without the hook: a HOST_STATUS event of another node,
\* or a result that Naemon takes and then throws away "without telling us".
StatusOnly(o) ==
    /\ last_check[o] < now /\ changes < MaxUnheard
    /\ changes' = changes + 1
    /\ last_check' = [last_check EXCEPT ![o] = now]
    /\ unheard' = unheard \cup {o}
    /\ UNCHANGED <<now, responsible, window, due, expiry_map, expired, count,
                   check_node, host_checks, heard, twice>>

\* Nodes come and go, and the peer group hands the object to another one.
Reassign(o) ==
    \E n \in Runners \ {responsible[o]} :
        /\ responsible' = [responsible EXCEPT ![o] = n]
        /\ UNCHANGED <<now, last_check, window, due, expiry_map, expired, count,
                       check_node, host_checks, heard, unheard, changes, twice>>

\* The clock moves on when Naemon has done what is due in this second.
OrphansTick ==
    /\ now < MaxTime
    /\ \A o \in Objects :
           /\ due[o] > now
           /\ \A evt \in expiry_map[o] : evt.added + Patience > now
    /\ now' = now + 1
    /\ UNCHANGED <<responsible, last_check, window, due, expiry_map, expired, count,
                   check_node, host_checks, heard, unheard, changes, twice>>

OrphansNext ==
    \/ \E o \in Objects : \/ expire_event(o) \/ Precheck(o) \/ Processed(o)
                          \/ StatusOnly(o) \/ Reassign(o)
    \/ OrphansTick

OrphansSpec == OrphansInit /\ [][OrphansNext]_orphanVars

-----------------------------------------------------------------------------
(* Properties *)

\* The number of orphans that a node is reported with ("expired" in nodeinfo)
\* is the number of records that blame it, and the checks counted for a node
\* are those it ran last.  Limit: expire_event counts a record off twice
\* (module.c:242) when last_check has moved on without a result.
OrphansCounted ==
    /\ \A n \in Tracked : host_checks[n] = Cardinality({o \in Objects : check_node[o] = n})
                                           - (IF n = Untracked THEN Cardinality(Objects) ELSE 0)
    /\ ~twice =>
           \A n \in Runners : count[n] = Cardinality({o \in Objects : n \in expired[o]})

\* Orphans are reported, and nothing else is.  An object without results has a
\* record after two expiration events, and two rounds of Naemon to schedule
\* them, whatever happens to the responsibility; objects whose last_check is
\* set otherwise are excused.  None has a record whose last result is younger
\* than the patience of an event: the result takes the record with it, and the
\* event that was scheduled before it, which could make a new one.
OrphansReported ==
    \A o \in Objects :
        /\ now > heard[o] + 2 * (Interval + Patience) /\ o \notin unheard => expired[o] # {}
        /\ expired[o] # {} => now >= heard[o] + Patience

=============================================================================
