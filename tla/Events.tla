------------------------------- MODULE Events -------------------------------
(***************************************************************************)
(* How the events of one host travel between the nodes (module/hooks.c     *)
(* sends, module/module.c receives): check results, notifications,         *)
(* external commands, comments and downtime.  Every node has the host, the *)
(* nodes agree on who is responsible for it (module Duty) and connections  *)
(* lose nothing (module NodeSend).  All clocks agree, and no two results   *)
(* are of the same second.  Naemon's part is what the hooks rely on: a     *)
(* result that changes the state of the host wipes what was stored of its  *)
(* notifications, and a passive result has the time at which it was given. *)
(***************************************************************************)
EXTENDS Integers, Sequences, FiniteSets, SequencesExt

CONSTANTS
  Nodes,
  Nets,        \* the networks of interest: [masters, peers, pollers] of a node
  Items,       \* comments and downtimes
  MaxOps,      \* bound on checks, commands, items, deletions and moves together
  MaxPassive,  \* bound on passive results that are submitted as commands
  MaxAcks,     \* bound on acknowledgements
  MaxMoves,    \* bound on changes of the responsible node
  ExecTimes,   \* the values of execution_time, in seconds
  NotifiesIn   \* the values that the setting "notifies" of the pollers takes

ASSUME EventsAssumption ==
  /\ \A net \in Nets : net \in [Nodes -> [masters : SUBSET Nodes, peers : SUBSET Nodes,
                                          pollers : SUBSET Nodes]]
  /\ {MaxOps, MaxPassive, MaxAcks, MaxMoves} \subseteq Nat
  /\ NotifiesIn \subseteq BOOLEAN /\ ExecTimes \subseteq Nat

VARIABLES
  net,      \* the configuration of every node
  notifies, \* do pollers notify?  If not, a master of theirs does
  owner,    \* the node that is responsible for the host
  chan,     \* chan[m][n]: the events on the way from m to n
  host,     \* host[n]: last_check, state, and the notification stored, 0 if none
  held,     \* held[n]: tmp_notif_data, 0 if NULL
  items,    \* items[n][i]: how often n has comment or downtime i
  made,     \* the items made so far
  applied,  \* applied[n]: the results processed on n, in order: [end, by]
  ended,    \* the results there were so far: [end, exec]
  executed, \* executed[c]: how often passive result c was processed
  count,    \* how many operations, results, ... there were
  flaws     \* what happened so far that the code does not make up for

vars == <<net, notifies, owner, chan, host, held, items, made, applied, ended, executed, count,
          flaws>>

Counters == [ops |-> 0, time |-> 0, passive |-> 0, acks |-> 0, moves |-> 0, notifications |-> 0]

\* Pollers that have the host: nodes with masters and without pollers.
Bottom(nt) == {n \in Nodes : nt[n].pollers = {} /\ nt[n].masters # {}}

Init ==
  /\ net \in Nets /\ notifies \in NotifiesIn
  /\ owner = CHOOSE n \in Bottom(net) : TRUE  \* the pollers are alike
  /\ chan = [m \in Nodes |-> [n \in Nodes |-> <<>>]]
  /\ host = [n \in Nodes |-> [last_check |-> 0, state |-> 0, notified |-> 0]]
  /\ held = [n \in Nodes |-> 0]
  /\ items = [n \in Nodes |-> [i \in Items |-> 0]] /\ made = {}
  /\ applied = [n \in Nodes |-> <<>>] /\ ended = {}
  /\ executed = [c \in 1 .. MaxPassive |-> 0]
  /\ count = Counters
  /\ flaws = {}

-----------------------------------------------------------------------------
(* Where events go.                                                        *)

PeersMasters(n) == net[n].peers \cup net[n].masters

\* The selection of the host's hostgroup adds the pollers that have the host.
\* A node without pollers has no such selection and falls back to the former.
get_selection(n) == PeersMasters(n) \cup net[n].pollers

\* send_generic: net_sendto for every destination.
send_generic(ch, n, dests, pkt) ==
  [ch EXCEPT ![n] = [d \in Nodes |-> IF d \in dests THEN Append(@[d], pkt) ELSE @[d]]]

\* Mutant: what a poller sends is passed on to the peers, too.
forward_Peers(ch, n, m, pkt) ==
  IF m \in net[n].pollers THEN send_generic(ch, n, PeersMasters(n), pkt)
  ELSE IF m \in net[n].masters THEN send_generic(ch, n, net[n].pollers, pkt)
  ELSE ch

\* handle_event on n passes what a poller sends on to the masters, and what a
\* master sends on to the pollers.
forward(ch, n, m, pkt) ==
  IF m \in net[n].pollers THEN send_generic(ch, n, net[n].masters, pkt)
  ELSE IF m \in net[n].masters THEN send_generic(ch, n, net[n].pollers, pkt)
  ELSE ch

Packet(type, what) == [type |-> type, what |-> what]

-----------------------------------------------------------------------------
(* One node at work.  A work record has what a node changes, and how it    *)
(* came to it: "local", or the type of recv_event.                         *)

Work(n, from, ch) ==
  [n |-> n, from |-> from, chan |-> ch, host |-> host[n], held |-> held[n],
   applied |-> applied[n], number |-> count.notifications, flaws |-> flaws]

\* The work becomes the state.
Done(w) ==
  /\ chan' = w.chan
  /\ host' = [host EXCEPT ![w.n] = w.host]
  /\ held' = [held EXCEPT ![w.n] = w.held]
  /\ applied' = [applied EXCEPT ![w.n] = w.applied]
  /\ flaws' = w.flaws

\* hook_notification on NEBTYPE_NOTIFICATION_START lets it out (module Duty).
Notifies(n) == n = IF notifies THEN owner ELSE CHOOSE m \in net[owner].masters : TRUE

\* Naemon has notified; hook_notification on NEBTYPE_NOTIFICATION_END sends it
\* if another node's event is being handled, and holds it otherwise.
\* hold_notification_packet drops it if one is held already.
hook_notification_end(w) ==
  LET k     == w.number + 1
      dests == IF w.from = "check" THEN get_selection(w.n) ELSE PeersMasters(w.n)
      w2    == [w EXCEPT !.host.notified = k, !.number = k]
  IN IF w.from # "local"
     THEN [w2 EXCEPT !.chan = send_generic(@, w.n, dests, Packet("notification", k))]
     ELSE [w2 EXCEPT !.held = IF @ = 0 THEN k ELSE @]

\* flush_notification
flush_notification(w) ==
  IF w.held = 0 THEN w
  ELSE [w EXCEPT !.chan = send_generic(@, w.n, PeersMasters(w.n), Packet("notification", w.held)),
                 !.held = 0]

\* hook_host_result on NEBTYPE_HOSTCHECK_PROCESSED: a result that another node
\* sent as a check result goes no further.
hook_host_result(w, res) ==
  IF w.from = "check" THEN w
  ELSE flush_notification(
         [w EXCEPT !.chan = send_generic(@, w.n, PeersMasters(w.n), Packet("check", res))])

\* The time at which Naemon takes a result to have ended, which hook_host_result
\* stores as last_check.  handle_checkresult takes the last_check of a packet,
\* the end of the check, for its start.
end_time(w, res) == res.last_check + IF w.from = "check" THEN res.exec ELSE 0

\* process_check_result: Naemon stores the result, forgets the notification if
\* the state is new, notifies if it is due, and calls the hook.
process_check_result(w, res, due) ==
  LET w1 == [w EXCEPT !.host = [last_check |-> end_time(w, res), state |-> res.state,
                                notified |-> IF res.state = @.state THEN @.notified ELSE 0],
                      !.applied = Append(@, [end |-> res.last_check, by |-> res.by])]
      w2 == IF due THEN hook_notification_end(w1) ELSE w1
  IN hook_host_result(w2, res)

\* A notification may be due for a problem, on the node that notifies.
MayNotify(n, state) == IF state # 0 /\ Notifies(n) THEN BOOLEAN ELSE {FALSE}

\* What a notification by n may do that later events do not make up for: it is
\* sent ahead of the result that caused it; it is sent by a node that did not
\* run the check, and whose events come another way; it waits for a result.
NotificationFlaw(n, from, due) ==
  IF ~due THEN {}
  ELSE IF n # owner THEN {"other way"}
  ELSE IF from = "passive" THEN {"ahead"}
  ELSE IF from = "ack" THEN {"held"}
  ELSE {}

\* What a result may do that later events do not make up for: it is given as a
\* command and reaches the responsible node after a later one; it ends sooner
\* after an earlier one than that took, and the other nodes take it for older.
TimeFlaw(n, res) ==
  {f \in {"late", "rushed"} :
     IF f = "late" THEN \E k \in DOMAIN applied[n] : applied[n][k].end > res.last_check
     ELSE \E e \in ended : e.end < res.last_check /\ res.last_check < e.end + e.exec}

\* A result is processed on n.
Process(n, from, ch, res, counted) ==
  \E due \in MayNotify(n, res.state) :
    LET w == process_check_result(Work(n, from, ch), res, due)
        new == from # "check"
    IN /\ Done([w EXCEPT !.flaws = @ \cup NotificationFlaw(n, from, due)
                                     \cup IF new THEN TimeFlaw(n, res) ELSE {}])
       /\ ended' = ended \cup IF new THEN {[end |-> res.last_check, exec |-> res.exec]} ELSE {}
       /\ count' = [counted EXCEPT !.notifications = w.number]

\* A result made by n.
Result(n, time, exec, st) == [last_check |-> time, exec |-> exec, state |-> st, by |-> n]

-----------------------------------------------------------------------------
(* What happens on a node by itself.                                       *)

\* The responsible node runs a check that starts now.
LocalCheck(n, exec, st) ==
  LET end == count.time + IF exec = 0 THEN 1 ELSE exec IN
  /\ n = owner /\ count.ops < MaxOps
  /\ Process(n, "local", chan, Result(n, end, exec, st),
             [count EXCEPT !.ops = @ + 1, !.time = end])
  /\ UNCHANGED <<net, notifies, owner, items, made, executed>>

\* hook_external_command, CMD_PROCESS_HOST_CHECK_RESULT given on n: the command
\* is sent to all that have the host; the responsible node executes it.
SubmitPassive(n, st) ==
  LET c  == count.passive + 1
      t  == count.time + 1
      ch == send_generic(chan, n, get_selection(n),
                         Packet("passive", [id |-> c, entry_time |-> t, state |-> st]))
      counted == [count EXCEPT !.passive = c, !.ops = @ + 1, !.time = t]
  IN /\ count.passive < MaxPassive /\ count.ops < MaxOps
     /\ IF n = owner
        THEN /\ executed' = [executed EXCEPT ![c] = @ + 1]
             /\ Process(n, "local", ch, Result(n, t, 0, st), counted)
        ELSE /\ chan' = ch /\ count' = counted
             /\ UNCHANGED <<host, held, applied, ended, executed, flaws>>
     /\ UNCHANGED <<net, notifies, owner, items, made>>

\* An acknowledgement is executed on n: Naemon notifies about it if there is
\* a problem.  No result follows that would flush what is held.
Acknowledged(n, from, ch) ==
  LET w == Work(n, from, ch) IN
  IF host[n].state # 0 /\ Notifies(n)
  THEN [hook_notification_end(w) EXCEPT !.flaws =
          @ \cup NotificationFlaw(n, IF from = "local" THEN "ack" ELSE "local", TRUE)]
  ELSE w

\* hook_external_command, CMD_ACKNOWLEDGE_HOST_PROBLEM given on n.
Acknowledge(n) ==
  LET w == Acknowledged(n, "local", send_generic(chan, n, get_selection(n), Packet("ack", 0))) IN
  /\ count.acks < MaxAcks /\ count.ops < MaxOps
  /\ Done(w)
  /\ count' = [count EXCEPT !.acks = @ + 1, !.ops = @ + 1, !.notifications = w.number]
  /\ UNCHANGED <<net, notifies, owner, items, made, ended, executed>>

\* hook_comment, NEBTYPE_COMMENT_LOAD, and for downtime the command that
\* schedules it (hook_external_command).
AddItem(n, i) ==
  /\ i \notin made /\ count.ops < MaxOps
  /\ made' = made \cup {i}
  /\ items' = [items EXCEPT ![n][i] = @ + 1]
  /\ chan' = send_generic(chan, n, get_selection(n), Packet("add", i))
  /\ count' = [count EXCEPT !.ops = @ + 1]
  /\ UNCHANGED <<net, notifies, owner, host, held, applied, ended, executed, flaws>>

\* hook_comment, NEBTYPE_COMMENT_DELETE, and hook_downtime,
\* NEBATTR_DOWNTIME_STOP_CANCELLED.
DeleteItem(n, i) ==
  /\ items[n][i] > 0 /\ count.ops < MaxOps
  /\ items' = [items EXCEPT ![n][i] = 0]
  /\ chan' = send_generic(chan, n, get_selection(n), Packet("delete", i))
  /\ count' = [count EXCEPT !.ops = @ + 1]
  /\ UNCHANGED <<net, notifies, owner, host, held, made, applied, ended, executed, flaws>>

\* Another node of the pollers' group becomes responsible for the host.
Move(n) ==
  /\ n \in Bottom(net) \ {owner} /\ count.moves < MaxMoves /\ count.ops < MaxOps
  /\ owner' = n
  /\ count' = [count EXCEPT !.moves = @ + 1, !.ops = @ + 1]
  /\ flaws' = flaws \cup {"moved"}
  /\ UNCHANGED <<net, notifies, chan, host, held, items, made, applied, ended, executed>>

-----------------------------------------------------------------------------
(* handle_event on n of an event from m.                                   *)

Got(n, m, type) == chan[m][n] # <<>> /\ Head(chan[m][n]).type = type

What(n, m) == Head(chan[m][n]).what

\* The channels when the event has been taken off and passed on.
Taken(n, m) == forward([chan EXCEPT ![m][n] = Tail(@)], n, m, Head(chan[m][n]))

\* Mutant: older results are not discarded.
TooOld_Never(n, res) == FALSE

\* handle_host_result discards a result that is older than the latest.
TooOld(n, res) == host[n].last_check > res.last_check

ReceiveCheck(n, m) ==
  /\ Got(n, m, "check")
  /\ IF TooOld(n, What(n, m))
     THEN chan' = Taken(n, m) /\ UNCHANGED <<host, held, applied, ended, count, flaws>>
     ELSE Process(n, "check", Taken(n, m), What(n, m), count)
  /\ UNCHANGED <<net, notifies, owner, items, made, executed>>

\* handle_notification_data
ReceiveNotification(n, m) ==
  /\ Got(n, m, "notification")
  /\ chan' = Taken(n, m)
  /\ host' = [host EXCEPT ![n].notified = What(n, m)]
  /\ UNCHANGED <<net, notifies, owner, held, items, made, applied, ended, executed, count, flaws>>

\* Mutant: every node executes the command.
executes_Always(n) == TRUE

\* hook_external_command lets only the responsible node process the result.
executes(n) == n = owner

\* handle_external_command, where hook_external_command sends nothing.
ReceivePassive(n, m) ==
  /\ Got(n, m, "passive")
  /\ IF executes(n)
     THEN /\ executed' = [executed EXCEPT ![What(n, m).id] = @ + 1]
          /\ Process(n, "passive", Taken(n, m),
                     Result(n, What(n, m).entry_time, 0, What(n, m).state), count)
     ELSE chan' = Taken(n, m) /\ UNCHANGED <<host, held, applied, ended, executed, count, flaws>>
  /\ UNCHANGED <<net, notifies, owner, items, made>>

ReceiveAck(n, m) ==
  LET w == Acknowledged(n, "ack", Taken(n, m)) IN
  /\ Got(n, m, "ack")
  /\ Done(w)
  /\ count' = [count EXCEPT !.notifications = w.number]
  /\ UNCHANGED <<net, notifies, owner, items, made, ended, executed>>

\* Mutant: the comment that the network caused is sent again.
hook_received_Bounces(ch, n, pkt) == send_generic(ch, n, get_selection(n), pkt)

\* hook_comment and hook_downtime send nothing while merlin_sender is set.
hook_received(ch, n, pkt) == ch

\* handle_comment_data, and handle_external_command for downtime.
ReceiveAdd(n, m) ==
  /\ Got(n, m, "add")
  /\ items' = [items EXCEPT ![n][What(n, m)] = @ + 1]
  /\ chan' = hook_received(Taken(n, m), n, Head(chan[m][n]))
  /\ UNCHANGED <<net, notifies, owner, host, held, made, applied, ended, executed, count, flaws>>

\* handle_comment_data and handle_downtime_data
ReceiveDelete(n, m) ==
  /\ Got(n, m, "delete")
  /\ items' = [items EXCEPT ![n][What(n, m)] = 0]
  /\ chan' = hook_received(Taken(n, m), n, Head(chan[m][n]))
  /\ flaws' = flaws \cup IF items[n][What(n, m)] = 0 THEN {"overtaken"} ELSE {}
  /\ UNCHANGED <<net, notifies, owner, host, held, made, applied, ended, executed, count>>

Next ==
  \/ \E n \in Nodes, st \in {0, 1} :
       SubmitPassive(n, st) \/ \E exec \in ExecTimes : LocalCheck(n, exec, st)
  \/ \E n \in Nodes : Acknowledge(n) \/ Move(n)
  \/ \E n \in Nodes, i \in Items : AddItem(n, i) \/ DeleteItem(n, i)
  \/ \E n, m \in Nodes :
       \/ ReceiveCheck(n, m) \/ ReceiveNotification(n, m) \/ ReceivePassive(n, m)
       \/ ReceiveAck(n, m) \/ ReceiveAdd(n, m) \/ ReceiveDelete(n, m)

Spec == Init /\ [][Next]_vars

-----------------------------------------------------------------------------
(* Properties.                                                             *)

Flaws == {"ahead", "other way", "held", "late", "rushed", "moved", "overtaken"}

Packets ==
  [type : {"check"}, what : [last_check : Nat, exec : ExecTimes \cup {0}, state : {0, 1},
                             by : Nodes]]
    \cup [type : {"notification"}, what : Nat]
    \cup [type : {"passive"}, what : [id : 1 .. MaxPassive, entry_time : Nat, state : {0, 1}]]
    \cup [type : {"ack"}, what : {0}]
    \cup [type : {"add", "delete"}, what : Items]

\* The packets the hooks send and the fields the handlers store them in.
TypeOK ==
  /\ net \in Nets /\ notifies \in BOOLEAN /\ owner \in Nodes
  /\ \A n, m \in Nodes : \A k \in DOMAIN chan[n][m] : chan[n][m][k] \in Packets
  /\ host \in [Nodes -> [last_check : Nat, state : {0, 1}, notified : Nat]]
  /\ held \in [Nodes -> Nat]
  /\ items \in [Nodes -> [Items -> Nat]] /\ made \subseteq Items
  /\ \A n \in Nodes : \A k \in DOMAIN applied[n] : applied[n][k] \in [end : Nat, by : Nodes]
  /\ ended \subseteq [end : Nat, exec : ExecTimes \cup {0}]
  /\ executed \in [1 .. MaxPassive -> Nat]
  /\ flaws \subseteq Flaws

\* No event is on its way.
Quiet == \A n, m \in Nodes : chan[n][m] = <<>>

\* A node processes no check result twice, and none after a later one: events
\* do not bounce and are passed on to each node on one way only, and what
\* another responsible node sends late is discarded.  The exception is a passive
\* result that reaches the responsible node after a later result:
\* handle_external_command does not compare times, and puts last_check back.
ResultsInOrder ==
  \A n \in Nodes : \A j, k \in DOMAIN applied[n] : j < k =>
    /\ applied[n][j] # applied[n][k]
    /\ "late" \notin flaws => applied[n][j].end <= applied[n][k].end

\* When nothing is on its way all nodes have the same, latest, result of the
\* host, also if the responsible node changed in between; and the same of its
\* notification, which is not wiped by the result that caused it, because it is
\* held until the result is sent (hold_notification_packet).  Exceptions: the
\* passive result above, which the other nodes discard, and a result that comes
\* sooner after another than that took, which they discard as well ("discard
\* check results that are older than our latest"): they have added
\* execution_time to the time of the former.
StatesAgree ==
  Quiet /\ {"late", "rushed"} \cap flaws = {} => \A n, m \in Nodes :
    /\ host[n].state = host[m].state
    /\ ended # {} => applied[n] # <<>> /\ \A e \in ended : e.end <= Last(applied[n]).end
    /\ flaws = {} => host[n].notified = host[m].notified

\* A passive result that a user gives to any node is processed by exactly one
\* node, unless the responsible node changes meanwhile.
PassiveOnce ==
  Quiet /\ "moved" \notin flaws => \A c \in 1 .. count.passive : executed[c] = 1

\* No node ever has a comment or downtime twice, and when nothing is on its way
\* all nodes have the same, unless a deletion overtook the addition on another
\* way: what hook_comment is told by the network it does not send again.
ItemsAgree ==
  /\ \A n \in Nodes, i \in Items : items[n][i] <= 1
  /\ Quiet /\ "overtaken" \notin flaws => \A n, m \in Nodes : items[n] = items[m]

\* The same for notifications whichever way the result came in, as the comment on
\* hold_notification_packet has it.  This does not hold for a result that a node
\* gets as a command: one passive result is enough.
NotificationNotWiped ==
  Quiet => \A n, m \in Nodes : host[n].notified = host[m].notified
=============================================================================
