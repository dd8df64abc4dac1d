# A TLA+ verification of Merlin

Merlin connects Naemon processes on several machines into one monitoring
network. This directory holds TLA+ models of it, the configurations with which
TLC checks them, and proofs that TLAPS checks. Every definition that models code
is listed in `PROJECT.json` ("map") with the lines it stands for.

    tlc -config NodeSend.cfg NodeSend        # any run: see "Runs"
    tlapm BinlogProofs.tla                   # any *Proofs module: see "What is proved"

## 1. The system

A **node** is a machine with Naemon and the Merlin module in one process, and the
Merlin daemon in another. Nodes on one level are **peers** and share the checks.
A **master** hands the checks of some hostgroups to **pollers** below it. The
module is an event loop: a handler runs to its end before the next one does, so
concurrency is between nodes, between module and daemon, and between a node and
the kernel.

| part | code | state | operations |
|---|---|---|---|
| backlog | `shared/binlog.c` | events in memory, a file, offsets and counters | add, read, unread, flush, wipe, save, restore |
| sending | `shared/node.c` | backlog, socket, counters | `node_send_event`, `node_send_binlog` |
| links | `module/net.c`, `node_set_state` | state and sockets of each node | connect, accept, negotiate, receive, time out |
| peer groups | `shared/pgroup.c` | id tables, ranking, shares | connect or lose a node, reassign checks |
| hooks | `module/hooks.c` | one held notification | what Naemon tells Merlin: send, block or let through |
| handlers | `module/module.c` | Naemon's objects | what other nodes tell Merlin: apply, pass on |
| configuration sync | `node_oconf_cmp`, `module/script-helpers.c` | expected hash and time, running command | compare, push, fetch |
| orphaned checks | `module/module.c` | expiry events and counters | schedule, expire, recover |
| auto-deletion | `module/module.c` | times of the last action of each node | check, ask for deletion |
| queries | `module/queries.c`, `module/runcmd.c` | clients, descriptors, commands | `runcmd`, `remote-fetch` |
| splitting | `module/oconfsplit.c` | a file for each poller | write, rename, set times |
| module and daemon | `shared/ipc.c`, `daemon/` | a socket, a database | send, reap, reconnect, commit |
| log tools | `tools/`, `daemon/state.c` | log files, `report_data`, `rename_log` | read, show, merge, import, rename |

They interact as follows. A link that becomes CONNECTED (links) makes the peer
group rank its nodes again (peer groups), which decides what the hooks let
Naemon do; results go through the hooks to `node_send_event` (sending), which
keeps them in the backlog while the link is down. A link becomes CONNECTED only
between nodes with matching object configurations (configuration sync), which
splitting writes for the pollers. Auto-deletion reads what links leave of a node
that stays away. Orphaned checks are found from what the hooks record. The log
tools are programs of their own and meet the rest only in files and tables.

What makes this hard: both ends connect at once; a host dies without closing its
connections; a send fails in the middle of draining a backlog; the process is
killed while it saves one; nodes decide who checks a host from what each has
heard; events of one host come from two nodes; masters push configurations to each
other and restart each other; an expiration event runs after the result it waited
for; an answer comes for a client that has gone; a tool is killed halfway and run
again. `PROJECT.json` lists each such hazard at its line.

What should hold: events arrive in order, once, and are not lost without being
counted; two nodes that are up get connected over one socket; every host is
checked and notified about by exactly one node; all nodes agree on the state of a
host, its comments and its downtimes; all nodes get to run matching configurations
and the newest one survives; orphans, and only those, are reported; a deletion
leaves a living node; a repeated import leaves the table that one full run would.

## 2. Modules

| module | models | main state |
|---|---|---|
| `Binlog` | every function of `binlog.c`, as an operator on `struct binlog` | (none) |
| `EventQueue` | abstract: a first-in first-out queue that may refuse an event | `pending`, `offered`, `got` |
| `BinlogQueue` | a backlog and a caller that uses it well; implements `EventQueue` | `log`, `added`, `held` |
| `NodeSend` | `node_send_event` with `node_send_binlog`, sends and writes that fail | `bl`, `connected`, `pc`, `sent`, `stats` |
| `BinlogProofs` | lemmas about the functions of `Binlog`; the theorems about `BinlogQueue` and `NodeSend` | |
| `NodeRestart` | `NodeSend` with shutdown, start and kills; composes it by INSTANCE | + `phase`, `meta`, `save`, `saved` |
| `Link` | two nodes: `net.c`, node states, CTRL_ACTIVE, timers; TCP is external | `node`, `conns` |
| `LinkProofs` | the theorems about `Link` | |
| `Pgroup` | tables and functions of `pgroup.c` | (none) |
| `Duty` | nodes that start, die, gain and lose links, and the decisions of the hooks, blocked hostgroups included | `up`, `start`, `info`, `own`, `below`, `assigned` |
| `DutyProofs` | the theorems about `Duty` and the functions of `Pgroup` | |
| `Events` | the events of one host between three nodes | `chan`, `host`, `held`, `items`, `owner` |
| `Csync` | two masters and a poller that synchronise configurations | `disk`, `run`, `conn`, `pushing` |
| `Merlind` | module, daemon and database server: `ipc.c`, `daemon.c`, `sql.c` | `mod`, `pend`, `acc`, `dm`, `db`, `rows` |
| `Expiry` | orphaned checks: who ran a check, expiration events, records and counters | `expiry_map`, `expired`, `count`, `check_node` |
| `AutoDelete` | `auto_delete_nodes`, `should_auto_delete`, outages, the daemon's connection | `nodes`, `last_action`, `event`, `cmds` |
| `Queries` | `runcmd` and `remote-fetch` through both nodes and back | `client`, `sd`, `to`, `back`, `fetch`, `loaded` |
| `Housekeeping` | runs `Expiry`, `AutoDelete` and `Queries` | `part` |
| `HousekeepingProofs` | the theorems about `Expiry` and `AutoDelete` | |
| `CsyncProofs` | the theorems about `Csync` and `Queries` | |
| `Lparse` | `lparse_fd` and `lparse_rev_fd`: reading in blocks while the file grows | `bytes`, `tot_rd`, `parsed` |
| `Showlog` | `mon log show`: filters, states, restricted objects, limits, reverse, duration, several files | `opts`, `printed`, `host_states` |
| `Nodelogs` | `mon log show --all-nodes`: fetching and merging, with kills and answers that are cut short | `listed`, `tmp`, `merged` |
| `Import` | `mon log import`: full and incremental runs, with kills and rotation | `log`, `at`, `rows`, `keys` |
| `Rename` | the rename tool: table, log files and records, with kills and failing steps | `rename_log`, `report_data`, `logfiles` |
| `Split` | `split_config`: the file of each poller, and what it contains | `conf`, `fp`, `outfile` |
| `Files` | runs the six modules on files | `part` |

`MCDuty` and `MCEvents` only give values to constants that a configuration
file cannot express. `Housekeeping` extends three parts and `Files` instantiates six
that do not interact: `part` selects one at the start, and the others stay in an
initial state. `Pgroup` says what `qsort` returns, not how: a node's place is the number of
nodes that `cmp_peer` puts before it. A node enters itself into its peer group before the
nodes of the configuration files, so the groups of two nodes start in different orders
(`Initially` of `Duty`), and only the sorting makes them agree.
Names follow the code: an operator called
`binlog_file_add` is that function, and a record field is the field of the struct.

**History variables.** Some faults the code does not make up for. `faults` and
`flaws` record that one has happened, and a property names the ones that it does
not survive; all other faults happen in the same run and do not excuse it. So the
antecedents of a property are its documented limits. `KeptOnce`, for instance,
survives any failing sends except that of an event read from the file.

**Mutants.** Definitions called `X_Something`, with a comment that starts with
"Mutant", are `X` with a plausible bug. No model uses them. Each shows that
a property fails when the code is changed that way.

**Abstractions.** Event payloads are an identity and a length. A link carries
only CTRL_ACTIVE in `Link`, which gives a link in `Duty` and a channel without
loss in `Events`. Services go through the same code as hosts and are left out.
Clocks are those of one machine: `Events` gives all results different times, and
`Duty` gives the nodes of a tier different start times. The end of a check and the
execution time that a receiver adds to it (`module.c:466`) are kept apart in
`Events`, as the comparison with `last_check` depends on them.

## 3. Runs

| run | bounds | shows |
|---|---|---|
| `BinlogQueue` | 6 events, lengths 1 and 2, memory 4, file 6 | order, counters and file agree; implements `EventQueue` |
| `NodeSend` | 6 events, memory 6, file 7, all write outcomes | events leave in order (`SentInOrder`, `NoOvertaking`), none is lost or sent twice (`KeptOnce`), counters are exact (`EventsCounted`), under failing sends and writes |
| `NodeSendUnread` | as above | *violation*: putting an event back into the file loses the backlog |
| `NodeRestart` | 5 events, 3 restarts, 2 kills | restarts lose nothing (`NothingLostByRestart`), and reorder and repeat nothing (`SentInOrderAcrossRestarts`), within the limits of section 5 |
| `Link` | both ends connect, 3 connections, 1 fault, UUIDs or addresses | states have their sockets and `active_peers` is exact (`StateHasSocket`), both ends use one socket |
| `LinkLive` | one end connects, 2 faults, any nodes with a `data_timeout` of 0 | nodes get connected and stay so; a dead node is noticed |
| `Duty` | 2 masters, 2 pollers, 4 hosts of which two nodes block one each, 3 start times, 2 deaths, 1 restart, all settings of takeover and notifies | one node handles and checks a host and one notifies (`OneNodeActs`); masters and pollers agree which, and on the counts (`OwnerIsRunner`); nobody is left out |
| `Events` | 3 networks of 3 nodes, 3 operations, 1 comment, execution times 0 and 2 | results are applied in order and once (`ResultsInOrder`), states and notifications (`StatesAgree`), comments and downtimes agree once everything has arrived |
| `Csync` | 2 edits, 1 failed push | pushes go one way and the newest is kept (`NewestKept`), poller not set back, eventually in sync |
| `Merlind` | 2 events, one with performance data, sockets of 2 packets, 1 pulse, 1 fault, 4 database settings | packets stay whole, statements are stored in order and once (`RowsInOrder`), no event lost, commits in time, everything is read and committed in the end |
| `Housekeeping` | orphans: 1 host, 2 nodes, 8 time units; deletion: 3 pollers, 4 time units; queries: 2 clients, 1 change | orphans are reported in time and no others; a deletion leaves a living node and comes in time; each client gets its own answer, once; fetches that overlap never make the node load an older configuration |
| `Files` | files of 9 bytes in blocks of 4; 3 lines in 2 files; 2 nodes with 2 lines; 3 log lines, 2 imports, 1 kill; 2 objects, 2 renamings, 1 kill or failing step; 2 pollers, 1 stop | every line is parsed once; what is shown is what was asked for; merged logs have the lines of all nodes from the oldest up to the limit; imports are complete; no old name stays; a poller's file refers to nothing that it lacks |

Why the bounds are enough. The backlog runs fill the memory and the file and
still have events to be refused. Two lengths make records end at different
offsets. Three connections allow one each way and a stale one. Two nodes a tier
with four hosts, two of them the pollers', give masters and pollers different
ids for a host; two deaths take out a whole tier, and a node that starts again then
meets one that has lost the others. Three operations are a result, a
command or comment, and a move of responsibility or deletion that races with
them; an execution time of 2 is longer than the time between two results. Two edits give configurations that race with each other, with the
same or different file times; one of the two concerns the poller and the other does not.
In `Merlind` two packets fill a socket, so that CTRL_ACTIVE and one event leave
the second to the backlog, and the pulse finds the socket full; three statements
cross `commit_queries` = 2. Its one fault comes in any of six forms on top of races
that need none. In `Housekeeping` eight units of time are more than twice an interval
and the patience of an event, after a result; three pollers leave two when one is
deleted, so that the last of a group, a recent one and a dead one are told apart.
Two clients may get the same descriptor, one
after the other. In `Files` a file is longer than two blocks, so that
a line may cross each end of a block; two files give a line held back from one
file to the next; two runs of an import, one of which may be killed, meet the rows that
the first has left; two renamings of one object make a chain.

`TypeOK` of a module (`QueueTypeOK` of `BinlogQueue`) states its types and how its
fields depend on each other. It is proved for `BinlogQueue` and documents the state
elsewhere.

Deadlock checking is on except in `Duty`, `Events`, `Csync`, `Housekeeping` and
`Files`: there nothing needs to happen when all bounded operations are done, and a
tool ends.

**Fairness.** `LinkLive`: every handler of the event loop and the kernel's
handshake is weakly fair, because the loop polls all sockets and timers recur;
faults, deaths and starts are not fair. `Timely` says that messages travel faster
than timers of five seconds and more run out; without it no protocol with timeouts
gets connected. `Csync`: CTRL_ACTIVE is sent again every pulse, 30 seconds pass, a
broken connection is noticed and a command ends (600 seconds at most). A
failure is not fair and is bounded by `MaxFails`. `Merlind`: the daemon's loop is
weakly fair, commit intervals pass, and the module's reconnection and its noticing
of a closed connection are strongly fair while the daemon is in `select()`, where it
waits up to two seconds a round, while the module tries every second.

## 4. What is proved

`BinlogProofs` proves of `BinlogQueue`, for all limits, prefix and entry sizes, event lengths
and numbers of events (`LimitsAreSizes`, `QueueAssumption`):

- `TypeCorrect`, `OrderKept`, `FileMatches`, `CountExact`: the invariants
  `QueueTypeOK`, `SequentialOrder`, `CountersMatchFile`, `EntriesCounted`;
- `Refinement`: `QueueSpec => ImplementsQueue`, that memory and file are one queue.

The argument: order alone is not inductive, because adding an event keeps it
only if the memory is not used while the file has events, and reading keeps the
count only if the read offset is at the start of a record. `WellFormed(b, d)`
collects what is needed of one binlog: types, validity, the order of both
halves with the numbers of the events at least `d` apart, offsets that match the
records, `file_entries` equal to the number of unread records, and a file that is
not read while there are events in memory. A lemma per function (`MemAdd`, `FileAdd`,
`MemRead`, `FileRead`, `Drained`, `MemUnread`, and `Added`, `ReadOk`, `UnreadOk` for the
public ones) shows that the function preserves `WellFormed` and how `Contents`
changes. `QueueInv` takes `d = 1` and adds
`Bounds` (an event that the caller holds is older than all that is stored),
`HeldFitsBack` (it has a free slot) and `HeldWasAdded`. `QueueStepOk` has one case per
action, and yields both `QueueInv'` and the step of the abstract queue.

The caller of `BinlogQueue` puts back only events that came from memory, and its
writes succeed; what happens otherwise is in `NodeSend`.

Of `NodeSend` it proves `OrderOnTheWire` (`SentInOrder`), `NothingLost` (`KeptOnce`),
`NoneOvertaken` (`NoOvertaking`) and `CountersRight` (`EventsCounted`) for
all limits, sizes, event lengths, write outcomes and numbers of calls
(`LimitsAreSizes`, `SendAssumption`). A failed send of a stored event stores the
event of the call twice, so the strict order that `SentOnce` needs does not survive
it, while the order of `SentInOrder` does. The invariant therefore has two halves
of one shape, `Queued(1)` until the first "resend" and `Queued(0)` until an event from the
file is put back or a write fails: the binlog is `WellFormed`, what was sent and
then what is stored are `d` apart, and none is newer than `Newest(d)`. Each action has
a lemma that shows `StepKeeps(d)`, for both at once; `PutBack` shows that an event
read from memory leaves the binlog as it was when it is put back, and `NeverCorrupt` that
`DrainCorrupt` cannot happen before one of the excuses. `NoneOvertaken` follows: a
well-formed backlog with no entries is empty. The counters need two more invariants,
because the two halves of `EventsCounted` survive different faults. `Logged` says that
`logged` is the number of entries, also in the middle of a call; it holds as long as
`WellFormed` does, and a lemma per function says by how much the entries grow.
`InCounters` knows nothing of the backlog: it follows only what each action adds to
the counters, where the event of the call under way may be in none of them.

`CsyncProofs` proves `NewestSurvives`: `Spec => []NewestKept`, for any number of edits
and of failed pushes, from `CsyncAssumption` (two masters). That a push goes to
the older node follows from what nodes *run* with, and that the newest files
survive is about what is on *disk*; a push that copies files and does not restart
the receiver makes the two differ. `FilesNewer` bridges this: files are never older
than what runs, and if they are newer then the other master, which they came from,
has them or newer ones. `PushRight` says that a push that was right when it started is
still right, with the order of start times as the tie-break; it makes two pushes
at once impossible.

`PollerKeepsNewest` (`Spec => PollerNotRolledBack`) is about what the poller gets from either.
A master may push to a poller with files newer than its own if its peer is
connected. `PollerInv` says that connected masters run with the same configuration
(`Agreed`), which a hash tells apart from all others (`HashTells`), and that a push to the
poller which did not start as one of the exceptions is the only one and not older
than what the poller runs with (`PushesRight`). A push of files older than the poller's
starts only on a master that takes its peer for connected: either the peer has
restarted unnoticed, or the two agree and what the poller has is gone from both
(`Gone`). These are the exceptions, beside two pushes at once.

Of `Queries` the same module proves, for any number of requests and changes:

- `OwnAnswers` (`AnsweredOnce`) for any finite set of clients. An answer carries only a
descriptor, and descriptors are used again. The invariant says that the packet of a client is in
one place of the way there and back (`OnePacket`), that clients which are open at one time have
different descriptors (`OwnDescriptor`), and that while no client has given up, a packet under way
belongs to one that waits (`Waiting`).
- `NothingOlderLoaded` (`NeverRolledBack`): what lies in place, what has been loaded and what
any fetch has read are never newer than the file on the master, and what a fetch that runs has
read is not older than what was loaded, since the restart that loads something cuts off all
others (`FetchInv`).

`LinkProofs` proves `StateAndSocket` (`StateHasSocket`) and `OneSocket`
(`BothUseOneSocket`) for any number of connections and faults, and any choice of who
connects and who is known by UUID (`LinkAssumption`). Both properties speak of nodes
that are CONNECTED, but a node may become so only because a packet came, and a packet
only because its sender used the connection when it wrote it. The invariant says this
of a whole world (nodes and connections): a node has one socket at most, which fits
its state (`Sockets`); a connection that waits to be accepted is open and unused
(`Fresh`); whoever has sent something on a connection, or is CONNECTED on it, is served by
its other end (`Served`). The count of `active_peers` is a separate half, because it
holds with UUIDs as well. A handler is a chain of functions on worlds (`iobroker_close` within `node_disconnect` within
`node_accept`), so first come lemmas on each function, then one per action.

`DutyProofs` proves, for any finite tiers, hosts, hostgroups, start times and number of deaths
(`PgroupAssumption`, `DutyAssumption`):

- `OneActs` (`OneNodeActs`): one node is responsible for a host, no other checks it, and one notifies
  about it;
- `OwnersRun`: the first half of `OwnerIsRunner`, that the node that others hold responsible runs
  the check;
- `CountersTell` (`OwnerIsRunner`): the reported numbers of hosts as well, if the pollers have one
  hostgroup and the modules their daemons, as in the run;
- `NoneLeftOut` (`NobodyLeftOut`): in a tier of two none is left out meanwhile, of the hosts taken over
  neither.

`cmp_peer` is a strict total order on the nodes of a tier, so every node has a rank of its own
(`RankOne` and the lemmas around it) and the ranks of the connected ones are the
numbers below `active_nodes`. The invariant (`Sorting`) is that the groups of a node that
is up are at all times ranked by what it knows now. Settled nodes know the same, so
their groups are the same, and an id modulo the number of active nodes names one
of them. Masters and pollers agree since `host_id_table` maps the one id to the other.
For the numbers, `CountInv` says that the counters are always those that
`pgroup_reassign_checks` makes of the present groups. A sum over ids is then turned into a set of
hosts: `IdsDiffer` shows that a poller numbers its hosts one to one, `AssignOne` and
`InheritOne` that with a single hostgroup the sums over hostgroups count nothing twice, and a lemma
for each pair of tiers (`PollerCounts`, `MasterCounts`, `MasterCountsPoller`) that these are the
hosts of which `pgroup_host_node` says the same.

`HousekeepingProofs` proves of two parts of `Housekeeping`:

- `Reported` (`OrphansReported`) for any objects, interval,
windows and timeouts (`Sizes`: natural numbers, a window within the interval, and
a patience that is not zero), and `CountsKept` (`OrphansCounted`) for any finite set of
objects. The invariant of the first follows one object: its next check and its
expiration event, of which there is one at most, are due at a bounded time
(`Punctual`); one with a record has been silent for the patience of an event, and so
has its pending event, which cannot take the record away (`Silent`); without a record
the first event after a result is still to come, or the second, which makes one
(`OnTheWay`). The second counts: a step moves an
object from the set of one node to that of another, which `ChecksMoved` and
`RecordsMoved` translate to cardinalities.
- `DeletionLeavesOne` (`DeletedRightly`) and `DeletionInTime`
(`DeletedInTime`) for any finite set of pollers and any times. The
invariant puts the clocks in order (`InOrder`), says that `last_action` is ahead of the
last sign of life by the data_timeout at most (`Behind`, for all nodes `InTouch`), and that at the last check every node whose time had
passed was asked for (`Asked`); `FoundRightly` and `FoundInTime` show what
`should_auto_delete` returns for one node.

These are theorems about `OrphansSpec`, `DeletionSpec` and `QuerySpec`, the specifications
of the parts. A step of `Housekeeping` is a step of one part that leaves the variables of the others
unchanged, so a behaviour of it is one of each part.

Model-checked only, and why:

- liveness (`EventuallyLinked`, `DeadNodeNoticed`, `EventuallySynced`, `EventuallyStored`): the prover
  has no rule for fairness;
- `NodeRestart`: needs what `binlog_flush` and `binlog_save` compute for a backlog of any
  length, which is induction over data;
- `Events`: its properties hold for networks in which an event has one way to a node; that a
  network is such a tree is a fact about paths, which are recursive;
- `Merlind`: its three safety properties each survive other faults, and their inductive
  invariant has to follow packets, halves of packets and statements through every buffer;
- `Files`: what the log tools compute is defined by recursion over lines and files.

## 5. Limits of the code that the models show

Most are reached by a run and named in the antecedent of a property, or stated as a
definition that does not hold; `NodeSendUnread` has a finding in `PROJECT.json`. Those
that say "left out" are seen in the code and lie outside the model.

- A failed send of a stored event duplicates the event of the call (the limit of
  `KeptOnce`; fault "resend" of `Merlind`), and one that came from the file makes
  the backlog unreadable (`NodeSendUnread`). If that happens again and again the read
  offset may go back to the start of an old record: events are sent again, more are read
  than are counted, and new ones overtake those left in the file. It takes events of very different
  lengths, longer than those of the run; `NoOvertaking` says nothing of it.
- `stats.events.logged` is unsigned and not always what is in the file: it may be brought
  down from zero (fault "wrap") when old records are read again, also those of a
  file that a wipe has left behind (`binlog_wipe` removes only a file that was read to its end).
- After a wipe the backlog has no path to be saved to, and `binlog_flush` drops the
  events that no longer fit in the file: both are in `lost` of `NodeRestart`, the
  exceptions of `NothingLostByRestart`.
- `binlog_save` writes the memory behind newer events in the file (`late`, the
  exception of `SentInOrderAcrossRestarts`).
- After two kills the metadata of one backlog may stand beside the file of another
  (`SentInOrderAcrossRestarts` allows one kill). A save whose `fopen`, `fwrite` or
  `rename` fails counts as a kill, since it leaves the same files behind. The
  `write()` calls of the flush itself succeed in the model.
- A socket accepted while a connect is pending is forgotten (`net.c:548`, `561`;
  `NoForgottenSocket` of `Link` does not hold), and
  nodes known by UUID that both connect may disagree on their socket: the
  properties of `Link` on sockets are stated for nodes known by address.
- Two nodes that both connect may go on doing so for ever; `LinkLive` has one
  connecting end.
- A notification may be wiped by its own result (`hooks.c:1032` with `242`;
  `NotificationNotWiped` of `Events` does not hold), be held for long
  (flaw "held"), or reach a master ahead of the result on another way ("other way").
- A comment deleted while it still travels to a third node stays there ("overtaken").
- A passive result is executed twice or never if responsibility moves meanwhile ("moved").
  One that reaches the responsible node after a later result puts `last_check` back
  there, and the other nodes discard it ("late").
- `module.c:488` says "discard check results that are older than our latest". What is
  compared includes the execution time of the latest, so that a result which ends
  sooner after it than that is discarded too, and the nodes disagree until the next
  ("rushed").
- A change made while a push to that master runs is undone ("edited_during_push"). A poller may be set back for a while by a push that overlaps with one of the other
  master, that began before the master had noticed its peer's restart, or that began
  when both masters had lost the newest files; and by files that such a push has left
  (`risky`). A push that copies files and fails to restart the receiver may make nodes
  restart each other for ever ("not_restarted").
- A node that blocks a hostgroup (`node_blocked_hostgroup`) blocks checks of hosts that
  no other node takes over (`OneNodeActs` and `NobodyLeftOut` allow it).
- With a `data_timeout` of 0 a peer that loses power stays connected: `disconnect_inactive`
  never ends the connection (the exception of `DeadNodeNoticed`; the kernel's
  retransmission timeout is left out).
- With several hostgroups the reported numbers of assigned checks are too high
  (`pgroup.c:412`; the counts of `OwnerIsRunner` are checked with one).
- The daemon drops a connection that waits to be accepted when it makes its socket
  anew (fault "race"), and what it has not read of one that is replaced ("replaced",
  "stale").
- A statement whose answer is lost may be stored twice ("answer"). Statements not yet
  committed go with the session or with the daemon ("db", "exit"), fewer than
  `commit_queries` of them if that is set; `sql_reinit` after an error that is not
  one of the session's rolls them back too ("db" with "refused" or "rerun"). Except with MySQL a session is never replaced.
- The backlog for the daemon goes out with the next event only: `EventuallyStored`
  says nothing of what is in it.
- `expire_event` counts a record off twice when `last_check` has moved on without a
  result (`twice`, `module.c:242`).
- A check for nodes to delete that finds the daemon disconnected is the last one
  ("no_event", `module.c:1436`). A node with an `auto_delete` below two pulse intervals
  may go while it lives. When the names of the nodes to delete do not fit into the
  buffer no command starts ("too_long"), and the names may be written behind it
  (`module.c:1446` passes the size of the whole buffer, left out). `last_action` is also set by
  what is sent into a dead connection, for up to the `data_timeout`; with one of 0 without
  end, which is left out. When the daemon connects late or again, nodes never seen
  count as seen ("late_ipc").
- The answer of a command may go to a client that got the descriptor of one that
  left (`Queries`). A fetch may be cut off when the node restarts because of another
  one, and what was asked for last may then not be fetched. `csync_fetch` uses the child of a poller without looking whether there is one
  (`script-helpers.c:255`; the process ends in the model).
- Lines longer than the buffer stop the readers of log files (`Lparse`, left out).
- `showlog --count` is off by one with a duration (`showlog.c:1476`, left out). `--all-nodes`
  applies the limit before reverse, skip and the filters (`1105`). It does not look at how
  the commands ended (`1057`): an answer that is cut short is merged without a warning (the
  exception of `MergedExact`). Two runs of it at once share their files, and a `sort` that fails
  is not noticed (left out). Lines on suppressed notifications of contacts of services
  have the code of hosts (`showlog.c:93`) and are filtered by it (left out).
- A killed import leaves the keys of the table disabled until a run
  inserts enough to disable them itself.
  Each run adds the rows of `report_data_extras` again, and the rows of the newest
  second are inserted again (the table is a set in `Import`). Nothing commits at the end
  where tables have transactions (`import.c:1203`, left out). INSERTs that fail are
  passed over (`import.c:98`, left out).
- When one batch renames an object twice, a log line gets the first new name only
  (case "chain", `rename.c:115`). A run on a part of the data that does not save the
  records loses them for the rest (case "left out"). A record added between count and
  select is written behind the array (`rename.c:194`). An UPDATE or `rename()` that fails
  is not noticed, and the records are deleted all the same (case "failed"). Names of which one is the
  beginning of another are left out.
- A poller's file may name a parent service of a host that it lacks (`oconfsplit.c:230`
  says otherwise, `235` compares hosts only; `ParentsRemoved` of `Split` does not hold).
  A group that is listed twice is written twice. A stopped split leaves its
  temporary file. A write or `fclose` that fails is not noticed and the file is put in place
  as it is (`oconfsplit.c:453`, left out).

## 6. Not modelled

- The byte layout of packets (`shared/codec.c`) and encryption: conversions without
  state; lengths and cut packets are in `Link`, `Merlind` and `Binlog`.
- Reading `merlin.conf` (`shared/configuration.c`, `node_grok_config`) and the object
  tables: done once, before the first step of every model.
- `node_mconf_cmp` and the cluster update: the update command is a script that
  rewrites `merlin.conf`, whose effect is not in the code that starts it.
- Queries that only report; text output, logging, the tools `oconf`, `keygen` and
  `slist`; the C library replacements.
- In `Events`: duplicate suppression (`is_dupe`), contact notification methods, flapping
  and program status. In `Link`: fixed source ports and partial packets. In `Csync`: commands
  of a node end with it, users restart a master when they change it, and fetch
  commands are in `Queries`; nodes with `connect = no` are left out. In `Merlind`: SQL text and the repair of tables. In `Import`: the
  notification table and the purging of downtimes. In `Split`: the text of a definition and
  the arithmetic of SHA-1. Formats of times everywhere.

`PROJECT.json` has the list by component.

## 7. Plan

Done: all parts of the table in section 1. To come, in this order:

1. `Duty`: three nodes in a tier.
2. `is_dupe` and contact notifications in `Events`; `node_mconf_cmp` in `Csync`.
3. A composition of `Link` and `Duty`: the start times that `Duty` takes for granted.
