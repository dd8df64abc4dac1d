-------------------------------- MODULE Csync --------------------------------
(***************************************************************************)
(* Synchronisation of the object configuration (node_oconf_cmp in          *)
(* shared/node.c, handle_control in module/module.c and                    *)
(* module/script-helpers.c): two masters that are peers push the newer     *)
(* configuration to each other, and their part of it to a poller.  Only    *)
(* push commands are configured, which is the default, and no node has     *)
(* `connect = no', which would stop pushes to it unless a command of its   *)
(* own is configured (script-helpers.c:140).  `mon oconf push'             *)
(* copies the files with their times and restarts the receiver.  The view  *)
(* of the poller is left out: any configuration of a master is what it     *)
(* expects, and it pushes nothing.                                         *)
(***************************************************************************)
EXTENDS Integers, Sequences, FiniteSets

CONSTANTS
  Masters, Poller,
  MaxEdits,  \* bound on changes that users make
  MaxFails   \* bound on push commands that fail

ASSUME CsyncAssumption ==
  /\ IsFiniteSet(Masters) /\ Cardinality(Masters) = 2 /\ Poller \notin Masters
  /\ MaxEdits \in Nat /\ MaxFails \in Nat

Nodes == Masters \cup {Poller}

VARIABLES
  disk,    \* disk[n]: [cfg, time], the files and their newest mtime
  run,     \* run[n]: the same as read when n started: config_hash, last_cfg_change
  order,   \* the masters, in the order in which they started
  conn,    \* conn[n][m]: is m CONNECTED on n?  "stale" if m has restarted since
  pushing, \* pushing[n][m]: node->csync.push.is_running
  recent,  \* recent[n][m]: csync_last_attempt is less than 30 seconds ago
  edits,   \* the configurations that users made: [cfg, time]
  fails,
  flaws,   \* history: races with users, and restarts that failed, so far
  risky    \* history: masters whose running push may set the poller back

vars == <<disk, run, order, conn, pushing, recent, edits, fails, flaws, risky>>

\* The part of a configuration that concerns the poller: one change in two.
Part(cfg) == cfg \div 2

None == [n \in Masters |-> [m \in Nodes |-> FALSE]]

Init ==
  /\ disk = [n \in Nodes |-> [cfg |-> 0, time |-> 0]]
  /\ run = disk
  /\ order = CHOOSE s \in [1 .. 2 -> Masters] : s[1] # s[2]
  /\ conn = [n \in Masters |-> [m \in Nodes |-> "no"]]
  /\ pushing = None /\ recent = None
  /\ edits = {[cfg |-> 0, time |-> 0]}
  /\ fails = 0
  /\ flaws = {} /\ risky = {}

-----------------------------------------------------------------------------
(* The decision.                                                           *)

\* post_process_nodes and split_config: what n expects m to have.
expected(n, m) ==
  [cfg |-> IF m = Poller THEN Part(run[n].cfg) ELSE run[n].cfg, time |-> run[n].time]

Before(n, m) == order[1] = n /\ order[2] = m

tdelta(n, m) == run[m].time - expected(n, m).time

\* Mutant: of two peers with files of the same time both want to push.
node_oconf_cmp_NoTiebreak(n, m) ==
  IF run[m].cfg = expected(n, m).cfg THEN 0
  ELSE IF tdelta(n, m) = 0 THEN -1
  ELSE tdelta(n, m)

\* 0: as expected; < 0: theirs is older; > 0: theirs is newer.
node_oconf_cmp(n, m) ==
  IF run[m].cfg = expected(n, m).cfg THEN 0
  ELSE IF tdelta(n, m) # 0 THEN tdelta(n, m)
  ELSE IF m = Poller \/ Before(n, m) THEN -1
  ELSE 1

Peer(n) == CHOOSE m \in Masters : m # n

\* Mutant: pollers are always pushed to.
WantsPush_Always(n, m) == IF m = Poller THEN TRUE ELSE node_oconf_cmp(n, m) < 0

\* Mutant: pollers are pushed to only when their files are older.
WantsPush_OlderOnly(n, m) ==
  IF m = Poller THEN tdelta(n, m) < 0 ELSE node_oconf_cmp(n, m) < 0

\* csync_node_active chooses the push command.  A poller whose files are not
\* older gets them only from a master that is connected to its peer.
WantsPush(n, m) ==
  IF m = Poller
  THEN tdelta(n, m) < 0 \/ conn[n][Peer(n)] # "no"
  ELSE node_oconf_cmp(n, m) < 0

\* What the poller has is gone: a push undid the change on the master it was from.
Gone == \A n \in Masters : run[n].time < run[Poller].time

\* History: the masters whose pushes may set the poller back when n starts one to
\* m, the poller: both if the other master pushes too; n if its peer has restarted
\* unnoticed, or if the masters agree on an older configuration.
Risks(n, m) ==
  IF m # Poller THEN {}
  ELSE IF pushing[Peer(n)][m] THEN Masters
  ELSE IF tdelta(n, m) >= 0 /\ (conn[n][Peer(n)] = "stale" \/ Gone) THEN {n}
  ELSE {}

\* csync_node_active starts the command, unless it runs already or was tried
\* less than 30 seconds ago.
csync_node_active(n, m) ==
  IF WantsPush(n, m) /\ ~pushing[n][m] /\ ~recent[n][m]
  THEN /\ pushing' = [pushing EXCEPT ![n][m] = TRUE]
       /\ recent' = [recent EXCEPT ![n][m] = TRUE]
       /\ risky' = risky \cup Risks(n, m)
  ELSE UNCHANGED <<pushing, recent, risky>>

-----------------------------------------------------------------------------
(* Steps.                                                                  *)

\* handle_control on n, CTRL_ACTIVE from m, on a connection of the two
\* processes that run now.
HandleActive(n, m) ==
  /\ n # m /\ conn[n][m] # "stale" /\ (m \in Masters => conn[m][n] # "stale")
  /\ IF node_oconf_cmp(n, m) = 0
     THEN /\ conn' = [conn EXCEPT ![n][m] = "yes"]
          /\ UNCHANGED <<pushing, recent, risky>>
     ELSE /\ csync_node_active(n, m)
          /\ conn' = [conn EXCEPT ![n][m] = "no"]
  /\ UNCHANGED <<disk, run, order, edits, fails, flaws>>

\* n finds out that the process it was connected to is gone.
NoticeGone(n, m) ==
  /\ conn[n][m] = "stale"
  /\ conn' = [conn EXCEPT ![n][m] = "no"]
  /\ UNCHANGED <<disk, run, order, pushing, recent, edits, fails, flaws, risky>>

\* nebmodule_init in a new process of n, which reads the files in d.
Restart(n, d) ==
  /\ run' = [run EXCEPT ![n] = d[n]]
  /\ order' = IF n = Poller THEN order ELSE <<Peer(n), n>>
  /\ conn' = [k \in Masters |-> [m \in Nodes |->
                IF k = n THEN "no"
                ELSE IF m = n /\ conn[k][m] = "yes" THEN "stale" ELSE conn[k][m]]]
  /\ recent' = [k \in Masters |-> IF k = n THEN [m \in Nodes |-> FALSE] ELSE recent[k]]

\* What the push command copies: the poller gets the file that split_config
\* made when n started.
Pushed(n, m) == [disk EXCEPT ![m] = IF m = Poller THEN expected(n, m) ELSE disk[n]]

\* History: the risk ends with the push.
StillRisky(p) == {n \in risky : p[n][Poller]}

\* The command of n, cmd_push, restarts m, which then reads the files in d.  The
\* commands that m has running end with it.
RestartNode(n, m, d) ==
  /\ disk' = d
  /\ Restart(m, d)
  /\ pushing' = [k \in Masters |-> [j \in Nodes |->
                   pushing[k][j] /\ k # m /\ ~(k = n /\ j = m)]]
  /\ risky' = StillRisky(pushing')

\* The command succeeds.
PushDone(n, m) ==
  /\ pushing[n][m]
  /\ RestartNode(n, m, Pushed(n, m))
  /\ UNCHANGED <<edits, fails, flaws>>

\* The command fails: it does not copy the files but restarts m all the same, or
\* it does not restart m, whose files then need not be those that it runs with.
PushFails(n, m) ==
  /\ pushing[n][m] /\ fails < MaxFails
  /\ fails' = fails + 1
  /\ \/ /\ RestartNode(n, m, disk)
        /\ UNCHANGED flaws
     \/ /\ disk' \in {disk, Pushed(n, m)}
        /\ pushing' = [pushing EXCEPT ![n][m] = FALSE]
        /\ risky' = StillRisky(pushing')
        /\ flaws' = flaws \cup IF disk' # disk THEN {"not_restarted"} ELSE {}
        /\ UNCHANGED <<run, order, conn, recent>>
  /\ UNCHANGED edits

\* 30 seconds pass.
Elapse(n, m) ==
  /\ recent[n][m]
  /\ recent' = [recent EXCEPT ![n][m] = FALSE]
  /\ UNCHANGED <<disk, run, order, conn, pushing, edits, fails, flaws, risky>>

Latest == CHOOSE e \in edits : \A f \in edits : f.time <= e.time

\* A user changes the configuration of a master at time t, and restarts it.  A
\* push to this master that runs meanwhile will undo the change.
Edit(n, t) ==
  LET new == [cfg |-> Cardinality(edits), time |-> t]
      d   == [disk EXCEPT ![n] = new]
  IN /\ Cardinality(edits) <= MaxEdits
     /\ edits' = edits \cup {new}
     /\ disk' = d
     /\ Restart(n, d)
     /\ pushing' = [pushing EXCEPT ![n] = [k \in Nodes |-> FALSE]]
     /\ risky' = StillRisky(pushing')
     /\ flaws' = flaws \cup IF \E m \in Masters : pushing[m][n] THEN {"edited_during_push"} ELSE {}
     /\ UNCHANGED fails

Next ==
  \/ \E n \in Masters, m \in Nodes : HandleActive(n, m) \/ NoticeGone(n, m) \/ PushDone(n, m)
                          \/ PushFails(n, m) \/ Elapse(n, m)
  \/ \E n \in Masters : \E t \in Latest.time .. Latest.time + 1 : Edit(n, t)

\* Nodes send CTRL_ACTIVE every 15 seconds, notice silence, and wait 30 seconds
\* at most; the worker process ends every command after 600 seconds.
Fairness ==
  \A n \in Masters, m \in Nodes :
    /\ WF_vars(HandleActive(n, m)) /\ WF_vars(NoticeGone(n, m))
    /\ WF_vars(PushDone(n, m)) /\ WF_vars(Elapse(n, m))

Spec == Init /\ [][Next]_vars /\ Fairness

-----------------------------------------------------------------------------
(* Properties.                                                             *)

Configs == [cfg : 0 .. MaxEdits, time : Nat]

\* The values csync_node_active and the push commands give to their fields.
TypeOK ==
  /\ disk \in [Nodes -> Configs] /\ run \in [Nodes -> Configs]
  /\ order \in [1 .. 2 -> Masters] /\ order[1] # order[2]
  /\ conn \in [Masters -> [Nodes -> {"no", "yes", "stale"}]]
  /\ pushing \in [Masters -> [Nodes -> BOOLEAN]]
  /\ recent \in [Masters -> [Nodes -> BOOLEAN]]
  /\ edits \subseteq Configs /\ fails \in 0 .. MaxFails
  /\ flaws \subseteq {"edited_during_push", "not_restarted"} /\ risky \subseteq Masters

\* The two masters never push to each other at the same time, which would swap
\* their configurations: node_oconf_cmp gives both the same answer to who is
\* newer, the time of the files being the same or not.  And a push never replaces
\* the newest files by older ones, unless a user changed them during the push.
NewestKept ==
  "edited_during_push" \notin flaws =>
    /\ \A n, m \in Masters : pushing[n][m] => ~pushing[m][n]
    /\ \E n \in Masters : disk[n].time = Latest.time

\* The poller never goes back to older files, although the masters disagree for
\* a while and each may push ("if our config isn't newer than the poller's,
\* avoid pushing unless all our peers are connected"), changes are undone by
\* pushes, and pushes fail half-way.  It may only by the end of a push that began
\* while the other master pushed too (or was joined by it), or whose master had
\* not noticed that its peer had restarted; or that began when no master had
\* files as new as those of the poller any more; or by reading files that such a
\* push left there without a restart.
PollerNotRolledBack ==
  [][run'[Poller].time < run[Poller].time =>
       \/ \E n \in risky : pushing[n][Poller] /\ ~pushing'[n][Poller]
       \/ disk[Poller].time < run[Poller].time]_vars

Synced ==
  /\ \A n, m \in Masters : run[n] = run[m]
  /\ \A n \in Masters : run[Poller].cfg = expected(n, Poller).cfg
  /\ \A n \in Masters, m \in Nodes : n # m => conn[n][m] = "yes"

\* Once users make no more changes, the masters get to run one configuration and
\* the poller its part, and all stay connected (the retries of
\* csync_node_active).  Exception: a push copied the files of a node and failed
\* to restart it; when such a node pushes, it pushes files that it does not run
\* with, and may do so for ever.
EventuallySynced == <>[]("not_restarted" \in flaws \/ Synced)
=============================================================================
