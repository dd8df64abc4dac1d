------------------------------ MODULE Merlind -------------------------------
(***************************************************************************)
(* From the module to the database.  Inside Naemon the module sends what   *)
(* is to be reported to merlind over a Unix socket (shared/ipc.c), with a  *)
(* backlog for the time the socket is down.  merlind is one loop           *)
(* (daemon/daemon.c): it makes its listening socket anew while nobody is   *)
(* connected, accepts, reads, turns packets into SQL statements            *)
(* (daemon/db_updater.c) and commits them now and then (daemon/sql.c).     *)
(*                                                                         *)
(* A handler of the module is one step.  A round of merlind is cut where   *)
(* the module or the database server can come in between: dm.pc says where *)
(* it is.  A packet is two units, a header and a body, because read() and  *)
(* send() may stop inside one.  The backlog is a sequence here: its        *)
(* inner life is the subject of NodeSend, from which the one effect that   *)
(* shows here is taken over, that a failed drain stores its event twice.   *)
(***************************************************************************)
EXTENDS Naturals, Sequences, SequencesExt

CONSTANTS
  MaxEvents,    \* bound: how many events the module reports
  Perf,         \* the events that also have performance data to store
  Settings,     \* database configurations, each a set of Options
  CommitQueries,  \* the value of commit_queries where it is set
  SockCap,      \* how many packets a socket holds
  MaxPulses,    \* bound: how many pulses the module sends
  MaxFaults     \* bound: how many faults happen

\* commit_interval is set, commit_queries is set, the type is not MySQL.
Options == {"interval", "queries", "pgsql"}

ASSUME MerlindAssumption ==
  /\ MaxEvents \in Nat /\ MaxPulses \in Nat /\ MaxFaults \in Nat
  /\ SockCap \in Nat \ {0} /\ CommitQueries \in Nat \ {0}
  /\ Perf \subseteq 1 .. MaxEvents
  /\ Settings \subseteq SUBSET Options

VARIABLES
  conf,     \* the configuration of the database
  mod,      \* the module: its end of the connection and ipc.binlog
  calls,    \* how many events ipc_send_event has been called with
  pulses,   \* how many pulses have been sent
  pend,     \* connections merlind has not accepted yet
  acc,      \* the connection in merlind's ipc.sock: none or one
  dm,       \* merlind: place in its loop, ipc.bq, statements to run
  db,       \* merlind's connection to the database, and sql.c's counters
  rows,     \* the committed statements
  dbup,     \* the database server accepts connections
  faults,   \* history: what has happened that can cost events
  left      \* how many faults may still happen

vars == <<conf, mod, calls, pulses, pend, acc, dm, db, rows, dbup, faults, left>>

Without(kinds) == faults \cap kinds = {}

Active == 0
Unit == (0 .. MaxEvents) \X {"header", "body"}
Packet(e) == <<<<e, "header">>, <<e, "body">>>>
Packets(events) == FlattenSeq([i \in DOMAIN events |-> Packet(events[i])])

\* The statements that an event leads to (db_updater.c): a check result may
\* have one for the report and one for its performance data.  Events that
\* lead to none are left out.
Statements(e) == IF e \in Perf THEN <<<<e, 1>>, <<e, 2>>>> ELSE <<<<e, 1>>>>

NoSession == [conn |-> FALSE, alive |-> FALSE, txn |-> <<>>]

Init ==
  /\ conf \in Settings
  /\ mod = [link |-> "none", log |-> <<>>]
  /\ calls = 0
  /\ pulses = 0
  /\ pend = <<>>
  /\ acc = <<>>
  /\ dm = [pc |-> "down", bq |-> <<>>, todo |-> <<>>, elapsed |-> FALSE]
  /\ db = NoSession @@ [queries |-> 0, due |-> FALSE]
  /\ rows = <<>>
  /\ dbup = TRUE
  /\ faults = {}
  /\ left = MaxFaults

Fault(kinds) ==
  /\ left > 0
  /\ left' = left - 1
  /\ faults' = faults \cup kinds

-----------------------------------------------------------------------------
(* The module.  mod.link is "none" (ipc.sock is -1), "pending" (its        *)
(* connection is the last in pend), "accepted" (it is merlind's), or       *)
(* "dead" (merlind has closed its end).                                    *)

\* ipc_is_connected, with ipc_reinit, ipc_init and ipc_action_handler:
\* connect() succeeds before merlind accepts, and CTRL_ACTIVE goes first.
\* The queue of listen(.., 1) holds two.
CanConnect == mod.link = "none" /\ dm.pc # "down" /\ Len(pend) < 2

ipc_is_connected ==
  IF CanConnect
  THEN [link |-> "pending", acc |-> acc,
        pend |-> Append(pend, [buf |-> Packet(Active), open |-> TRUE])]
  ELSE [link |-> mod.link, acc |-> acc, pend |-> pend]

\* The module's connection, in a record of link, acc and pend.
Stream(c) == IF c.link = "accepted" THEN c.acc[1] ELSE Last(c.pend)

\* The same record with units sent, and the module's end closed or not.
Put(c, units, open) ==
  LET s == [buf |-> Stream(c).buf \o units, open |-> open]
      link == IF open THEN c.link ELSE "none"
  IN  IF c.link = "accepted"
      THEN [link |-> link, acc |-> <<s>>, pend |-> c.pend]
      ELSE [link |-> link, acc |-> c.acc,
            pend |-> [c.pend EXCEPT ![Len(c.pend)] = s]]

\* How many more packets the socket takes.
Room(c) ==
  LET used == (Len(Stream(c).buf) + 1) \div 2
  IN  IF used >= SockCap THEN 0 ELSE SockCap - used

Become(c, log) ==
  /\ mod' = [link |-> c.link, log |-> log]
  /\ acc' = c.acc
  /\ pend' = c.pend

\* What is stored when a send fails with the packets of rest unsent, of which
\* the last is the event of the call: that one is stored twice if the failed
\* packet came from the backlog.
Restored(rest) ==
  IF Len(rest) = 1 THEN rest ELSE Append(rest, Last(rest))

\* The order in which node_send_event sends.  Mutant: the event first.
Outgoing_Overtakes(log, e) == <<e>> \o log

Outgoing(log, e) == Append(log, e)

\* What stays in the backlog when k of these are sent.  Mutant: one event does.
Kept_Drops(all, k) == SubSeq(all, k + 1, IF k < Len(all) THEN k + 1 ELSE k)

Kept(all, k) == SubSeq(all, k + 1, Len(all))

NewEvent ==
  /\ calls < MaxEvents
  /\ calls' = calls + 1
  /\ UNCHANGED <<conf, pulses, dm, db, rows, dbup>>

\* ipc_send_event: connect if need be, then node_send_event.  When the
\* backlog goes out but leaves no room for the event itself, node_send finds
\* that out by failing, and disconnects.
ipc_send_event ==
  /\ NewEvent
  /\ LET c == ipc_is_connected
         all == Outgoing(mod.log, calls + 1)
     IN  \/ /\ c.link = "none"
            /\ Become(c, all)
            /\ UNCHANGED faults
         \/ /\ c.link = "dead"
            /\ Become([c EXCEPT !.link = "none"], Restored(all))
            /\ faults' = faults \cup IF Len(all) > 1 THEN {"resend"} ELSE {}
         \/ /\ c.link \in {"pending", "accepted"}
            /\ LET k == IF Room(c) < Len(all) THEN Room(c) ELSE Len(all)
                   fails == k > 0 /\ k = Len(all) - 1
               IN  Become(Put(c, Packets(SubSeq(all, 1, k)), ~fails),
                          Kept(all, k))
            /\ UNCHANGED faults
  /\ UNCHANGED left

\* send() takes only the header of a packet: node_send disconnects.
SendsPartly ==
  /\ NewEvent
  /\ LET c == ipc_is_connected
         all == Outgoing(mod.log, calls + 1)
     IN  /\ c.link \in {"pending", "accepted"}
         /\ \E k \in 0 .. Len(all) - 1 :
              LET rest == Kept(all, k)
              IN  /\ k < Room(c)
                  /\ Become(Put(c, Packets(SubSeq(all, 1, k))
                                     \o <<<<rest[1], "header">>>>, FALSE),
                            Restored(rest))
                  /\ Fault(IF Len(rest) > 1 THEN {"resend"} ELSE {})

\* connect_to_all, every second.
connect_to_all ==
  /\ CanConnect
  /\ Become(ipc_is_connected, mod.log)
  /\ UNCHANGED <<conf, calls, pulses, dm, db, rows, dbup, faults, left>>

\* send_pulse goes past the backlog, and past io_write_ok: a socket that is
\* full is closed.
send_pulse ==
  /\ pulses < MaxPulses
  /\ pulses' = pulses + 1
  /\ LET c == [link |-> mod.link, acc |-> acc, pend |-> pend]
     IN  \/ /\ mod.link = "dead"
            /\ Become([c EXCEPT !.link = "none"], mod.log)
         \/ /\ mod.link \in {"pending", "accepted"}
            /\ IF Room(c) > 0
               THEN Become(Put(c, Packet(Active), TRUE), mod.log)
               ELSE Become(Put(c, <<>>, FALSE), mod.log)
  /\ UNCHANGED <<conf, calls, dm, db, rows, dbup, faults, left>>

\* The module sees that merlind has closed the connection.
ipc_reaper ==
  /\ mod.link = "dead"
  /\ mod' = [mod EXCEPT !.link = "none"]
  /\ UNCHANGED <<conf, calls, pulses, pend, acc, dm, db, rows, dbup, faults, left>>

\* Naemon restarts: nebmodule_deinit closes the socket and wipes the backlog.
nebmodule_deinit ==
  /\ LET c == [link |-> mod.link, acc |-> acc, pend |-> pend]
     IN  IF mod.link \in {"pending", "accepted"}
         THEN Become(Put(c, <<>>, FALSE), <<>>)
         ELSE Become([c EXCEPT !.link = "none"], <<>>)
  /\ Fault({"restart"})
  /\ UNCHANGED <<conf, calls, pulses, dm, db, rows, dbup>>

-----------------------------------------------------------------------------
(* sql.c.  db.conn: there is a handle; db.alive: the server still knows    *)
(* the session; db.txn: statements run but not committed; db.queries: the  *)
(* counter of sql_try_commit; db.due: commit_interval has passed.          *)

AutoCommit == conf \cap {"interval", "queries"} = {}

\* sql_is_connected(1), with sql_init.  All that is_connected of the driver
\* tells is that there is a handle.
sql_is_connected(d) ==
  IF d.conn \/ ~dbup THEN d
  ELSE [d EXCEPT !.conn = TRUE, !.alive = TRUE, !.due = FALSE]

sql_close(d) == NoSession @@ d

\* Mutants: a commit comes one statement late; a commit is only thought of
\* when there is a new statement.
sql_try_commit_Late(s, query) ==
  LET n == s.db.queries + query
  IN  IF ~s.db.conn THEN s
      ELSE IF n > 0 /\ \/ "interval" \in conf /\ s.db.due
                       \/ "queries" \in conf /\ n > CommitQueries
      THEN [rows |-> s.rows \o s.db.txn,
            db |-> [s.db EXCEPT !.txn = <<>>, !.queries = 0, !.due = FALSE]]
      ELSE [s EXCEPT !.db.queries = n]

sql_try_commit_OnlyCounts(s, query) ==
  LET n == s.db.queries + query
  IN  IF ~s.db.conn THEN s
      ELSE IF query > 0 /\ \/ "interval" \in conf /\ s.db.due
                           \/ "queries" \in conf /\ n >= CommitQueries
      THEN [rows |-> s.rows \o s.db.txn,
            db |-> [s.db EXCEPT !.txn = <<>>, !.queries = 0, !.due = FALSE]]
      ELSE [s EXCEPT !.db.queries = n]

\* sql_try_commit on a pair of db and rows.  A commit that the server does
\* not get counts like any other.
sql_try_commit(s, query) ==
  LET n == s.db.queries + query
  IN  IF ~s.db.conn THEN s
      ELSE IF n > 0 /\ \/ "interval" \in conf /\ s.db.due
                       \/ "queries" \in conf /\ n >= CommitQueries
      THEN [rows |-> s.rows \o s.db.txn,
            db |-> [s.db EXCEPT !.txn = <<>>, !.queries = 0, !.due = FALSE]]
      ELSE [s EXCEPT !.db.queries = n]

\* The server executes a statement.
Execute(s, stmt) ==
  IF AutoCommit THEN [s EXCEPT !.rows = Append(s.rows, stmt)]
  ELSE [s EXCEPT !.db.txn = Append(s.db.txn, stmt)]

\* run_query on a session that is alive.
run_query(s, stmt) == sql_try_commit(Execute(s, stmt), 1)

\* sql_vquery after run_query has failed: with MySQL, one attempt to
\* reconnect and run the statement again; it is given up otherwise.
Rerun(s, stmt) ==
  LET d == sql_is_connected(sql_close(s.db))
  IN  IF "pgsql" \in conf THEN s
      ELSE IF d.conn THEN run_query([s EXCEPT !.db = d], stmt)
      ELSE [s EXCEPT !.db = d]

sql_vquery(s, stmt) ==
  LET d == sql_is_connected(s.db)
      t == [s EXCEPT !.db = d]
  IN  IF ~d.conn THEN t
      ELSE IF d.alive THEN run_query(t, stmt)
      ELSE Rerun(t, stmt)

-----------------------------------------------------------------------------
(* merlind.                                                                *)

\* The module's end when merlind closes the connections in the set closed.
Hangup(closed) == [mod EXCEPT !.link = IF @ \in closed THEN "dead" ELSE @]

\* merlind_main up to ipc_init.
StartDaemon ==
  /\ dm.pc = "down"
  /\ dm' = [dm EXCEPT !.pc = "init"]
  /\ UNCHANGED <<conf, mod, calls, pulses, pend, acc, db, rows, dbup, faults, left>>

\* The rest of merlind_main.  last_ipc_reinit is 0: the first round finds
\* that five seconds have passed.
EnterLoop ==
  /\ dm.pc = "init"
  /\ dm' = [dm EXCEPT !.pc = "top", !.elapsed = TRUE]
  /\ db' = sql_is_connected(db)
  /\ UNCHANGED <<conf, mod, calls, pulses, pend, acc, rows, dbup, faults, left>>

\* From the end of io_poll_sockets to the select() of the next: commit, and
\* ipc_reinit when nobody is connected for a while.  Connections that wait to
\* be accepted are lost then.
NextRound ==
  /\ dm.pc = "top"
  /\ LET s == sql_try_commit([db |-> db, rows |-> rows], 0)
     IN  db' = s.db /\ rows' = s.rows
  /\ IF acc = <<>> /\ dm.elapsed
     THEN /\ dm' = [dm EXCEPT !.pc = "select", !.elapsed = FALSE, !.bq = <<>>]
          /\ pend' = <<>>
          /\ mod' = Hangup({"pending"})
          /\ faults' = faults \cup IF pend = <<>> THEN {} ELSE {"race"}
     ELSE /\ dm' = [dm EXCEPT !.pc = "select"]
          /\ UNCHANGED <<pend, mod, faults>>
  /\ UNCHANGED <<conf, calls, pulses, acc, dbup, left>>

\* ipc_accept: what merlind has not read of the connection before is lost,
\* and what it has read of a packet stays in ipc.bq.
Accept ==
  /\ dm.pc = "select"
  /\ pend # <<>>
  /\ acc' = <<Head(pend)>>
  /\ pend' = Tail(pend)
  /\ mod' = IF mod.link = "pending" /\ Len(pend) = 1
            THEN [mod EXCEPT !.link = "accepted"] ELSE mod
  /\ dm' = [dm EXCEPT !.pc = "top"]
  /\ faults' = faults
       \cup (IF acc # <<>> /\ acc[1].buf # <<>> THEN {"replaced"} ELSE {})
       \cup (IF acc # <<>> /\ dm.bq # <<>> THEN {"stale"} ELSE {})
  /\ UNCHANGED <<conf, calls, pulses, db, rows, dbup, left>>

\* node_recv reads something.
Receive ==
  /\ dm.pc = "select"
  /\ pend = <<>>
  /\ acc # <<>>
  /\ \E k \in 1 .. Len(acc[1].buf) :
       /\ dm' = [dm EXCEPT !.pc = "reap",
                           !.bq = @ \o SubSeq(acc[1].buf, 1, k)]
       /\ acc' = <<[acc[1] EXCEPT !.buf = SubSeq(@, k + 1, Len(@))]>>
  /\ UNCHANGED <<conf, mod, calls, pulses, pend, db, rows, dbup, faults, left>>

\* node_recv sees the end: node_disconnect.
ReceiveEnd ==
  /\ dm.pc = "select"
  /\ pend = <<>>
  /\ acc # <<>>
  /\ acc[1].buf = <<>> /\ ~acc[1].open
  /\ acc' = <<>>
  /\ dm' = [dm EXCEPT !.pc = "top", !.bq = <<>>]
  /\ UNCHANGED <<conf, mod, calls, pulses, pend, db, rows, dbup, faults, left>>

\* select() times out.
Timeout ==
  /\ dm.pc = "select"
  /\ pend = <<>>
  /\ \A s \in ToSet(acc) : s.buf = <<>> /\ s.open
  /\ dm' = [dm EXCEPT !.pc = "top"]
  /\ UNCHANGED <<conf, mod, calls, pulses, pend, acc, db, rows, dbup, faults, left>>

\* ipc_reap_events between two packets.
Reaping == dm.pc = "reap" /\ dm.todo = <<>>

\* node_get_event has no complete packet.  What is taken for a header may
\* ask for more than there is.
NoPacket ==
  /\ Reaping
  /\ Len(dm.bq) >= 2 => dm.bq[1][2] = "body"
  /\ dm' = [dm EXCEPT !.pc = "top"]
  /\ UNCHANGED <<conf, mod, calls, pulses, pend, acc, db, rows, dbup, faults, left>>

\* Bytes that are no header: node_disconnect.
BadSignature ==
  /\ Reaping
  /\ dm.bq # <<>> /\ dm.bq[1][2] = "body"
  /\ acc' = <<>>
  /\ mod' = Hangup({"accepted"})
  /\ dm' = [dm EXCEPT !.pc = "top", !.bq = <<>>]
  /\ UNCHANGED <<conf, calls, pulses, pend, db, rows, dbup, faults, left>>

\* A CTRL_ACTIVE, of which merlind keeps the node info only.  With a body that
\* is not its own, node_compat_cmp disconnects.
GetControl ==
  /\ Reaping
  /\ Len(dm.bq) >= 2
  /\ dm.bq[1] = <<Active, "header">>
  /\ IF dm.bq[2] = <<Active, "body">>
     THEN /\ dm' = [dm EXCEPT !.bq = Tail(Tail(@))]
          /\ UNCHANGED <<acc, mod>>
     ELSE /\ dm' = [dm EXCEPT !.bq = <<>>]
          /\ acc' = <<>>
          /\ mod' = Hangup({"accepted"})
  /\ UNCHANGED <<conf, calls, pulses, pend, db, rows, dbup, faults, left>>

\* An event: handle_ipc_event and mrm_db_update up to its statements.  Without
\* a database, or with a body that cannot be decoded, it is skipped.
GetEvent ==
  /\ Reaping
  /\ Len(dm.bq) >= 2
  /\ dm.bq[1][2] = "header" /\ dm.bq[1][1] # Active
  /\ db' = sql_is_connected(db)
  /\ LET e == dm.bq[1][1]
         whole == dm.bq[2] = <<e, "body">>
     IN  \E decoded \in {TRUE, whole} :
           dm' = [dm EXCEPT !.bq = Tail(Tail(@)),
                            !.todo = IF db'.conn /\ decoded
                                     THEN Statements(e) ELSE <<>>]
  /\ faults' = faults \cup IF db'.conn THEN {} ELSE {"db"}
  /\ UNCHANGED <<conf, mod, calls, pulses, pend, acc, rows, dbup, left>>

\* One sql_query of the handler.
Query ==
  /\ dm.pc = "reap" /\ dm.todo # <<>>
  /\ LET s == sql_vquery([db |-> db, rows |-> rows], Head(dm.todo))
     IN  db' = s.db /\ rows' = s.rows
  /\ dm' = [dm EXCEPT !.todo = Tail(@)]
  /\ UNCHANGED <<conf, mod, calls, pulses, pend, acc, dbup, faults, left>>

\* The same when the server refuses the statement.  After a duplicate key or with
\* a table that is missing or crashed it is given up; after another error MySQL
\* is connected anew, which rolls back what is not committed, and the statement
\* is run again, perhaps with success.
QueryRefused ==
  /\ dm.pc = "reap" /\ dm.todo # <<>>
  /\ db.alive
  /\ dm' = [dm EXCEPT !.todo = Tail(@)]
  /\ \/ Fault({"refused"}) /\ UNCHANGED <<db, rows>>
     \/ /\ "pgsql" \notin conf
        /\ LET d == sql_is_connected(sql_close(db))
               left_out == [db |-> d, rows |-> rows]
               rolledback == IF db.txn = <<>> THEN {} ELSE {"db"}
           IN  \/ /\ db' = d /\ UNCHANGED rows
                  /\ Fault({"refused"} \cup rolledback)
               \/ /\ d.conn
                  /\ db' = run_query(left_out, Head(dm.todo)).db
                  /\ rows' = run_query(left_out, Head(dm.todo)).rows
                  /\ Fault({"rerun"} \cup rolledback)
  /\ UNCHANGED <<conf, mod, calls, pulses, pend, acc, dbup>>

\* The same when the session ends after the statement was executed and before
\* merlind has the answer: what is not committed is rolled back.
AnswerLost ==
  /\ dm.pc = "reap" /\ dm.todo # <<>>
  /\ db.alive
  /\ LET done == Execute([db |-> db, rows |-> rows], Head(dm.todo))
         lost == [done EXCEPT !.db.txn = <<>>, !.db.alive = FALSE]
         s == Rerun(lost, Head(dm.todo))
     IN  /\ db' = s.db /\ rows' = s.rows
         /\ Fault({"answer"} \cup IF db.txn = <<>> /\ "pgsql" \notin conf THEN {} ELSE {"db"})
  /\ dm' = [dm EXCEPT !.todo = Tail(@)]
  /\ UNCHANGED <<conf, mod, calls, pulses, pend, acc, dbup>>

\* merlind ends, by clean_exit or a crash: neither commits.
clean_exit ==
  /\ dm.pc # "down"
  /\ dm' = [pc |-> "down", bq |-> <<>>, todo |-> <<>>, elapsed |-> FALSE]
  /\ acc' = <<>>
  /\ pend' = <<>>
  /\ mod' = Hangup({"accepted", "pending"})
  /\ db' = [sql_close(db) EXCEPT !.queries = 0, !.due = FALSE]
  /\ Fault({"exit"})
  /\ UNCHANGED <<conf, calls, pulses, rows, dbup>>

-----------------------------------------------------------------------------
(* Time and the database server.                                           *)

\* Time is observed only where somebody looks at it: by NextRound when
\* nobody is connected, and by sql_try_commit when there are statements.
FiveSeconds ==
  /\ dm.pc \notin {"down", "init"} /\ acc = <<>> /\ ~dm.elapsed
  /\ dm' = [dm EXCEPT !.elapsed = TRUE]
  /\ UNCHANGED <<conf, mod, calls, pulses, pend, acc, db, rows, dbup, faults, left>>

CommitInterval ==
  /\ "interval" \in conf /\ db.conn /\ ~db.due
  /\ db.queries > 0 \/ dm.todo # <<>>
  /\ db' = [db EXCEPT !.due = TRUE]
  /\ UNCHANGED <<conf, mod, calls, pulses, pend, acc, dm, rows, dbup, faults, left>>

\* The session ends, alone or with the server.
SessionEnds ==
  /\ db.alive
  /\ dbup' \in BOOLEAN
  /\ db' = [db EXCEPT !.alive = FALSE, !.txn = <<>>]
  /\ Fault({"db"})
  /\ UNCHANGED <<conf, mod, calls, pulses, pend, acc, dm, rows>>

ServerBack ==
  /\ ~dbup
  /\ dbup' = TRUE
  /\ UNCHANGED <<conf, mod, calls, pulses, pend, acc, dm, db, rows, faults, left>>

DaemonStep ==
  \/ StartDaemon \/ EnterLoop \/ NextRound
  \/ Accept \/ Receive \/ ReceiveEnd \/ Timeout
  \/ NoPacket \/ BadSignature \/ GetControl \/ GetEvent \/ Query

Next ==
  \/ ipc_send_event \/ SendsPartly \/ connect_to_all \/ send_pulse
  \/ ipc_reaper \/ nebmodule_deinit
  \/ DaemonStep
  \/ QueryRefused \/ AnswerLost \/ clean_exit
  \/ FiveSeconds \/ CommitInterval \/ SessionEnds \/ ServerBack

\* merlind's loop and the module's callbacks run.  merlind waits in select for
\* up to two seconds in each round while nothing happens, and the module reads
\* at once and tries to connect every second, so that neither for ever falls
\* in the short time between two select().
Fairness ==
  /\ WF_vars(DaemonStep)
  /\ WF_vars(CommitInterval)
  /\ SF_vars(ipc_reaper /\ dm.pc = "select")
  /\ SF_vars(connect_to_all /\ dm.pc = "select")

Spec == Init /\ [][Next]_vars /\ Fairness

-----------------------------------------------------------------------------

StreamType == [buf : Seq(Unit), open : BOOLEAN]
Statement == (1 .. MaxEvents) \X {1, 2}

\* The values of the fields, and which connection is the module's: the last
\* one that waits to be accepted, or merlind's when none waits.
TypeOK ==
  /\ conf \in Settings
  /\ mod.link \in {"none", "pending", "accepted", "dead"}
  /\ mod.log \in Seq(1 .. MaxEvents)
  /\ calls \in 0 .. MaxEvents
  /\ pend \in Seq(StreamType) /\ Len(pend) <= 2
  /\ acc \in Seq(StreamType) /\ Len(acc) <= 1
  /\ dm.pc \in {"down", "init", "top", "select", "reap"}
  /\ dm.bq \in Seq(Unit)
  /\ dm.todo \in Seq(Statement)
  /\ db.txn \in Seq(Statement) /\ rows \in Seq(Statement)
  /\ db.alive => db.conn
  /\ db.txn # <<>> => db.alive
  /\ \A i \in DOMAIN pend :
       pend[i].open <=> mod.link = "pending" /\ i = Len(pend)
  /\ \A i \in DOMAIN acc : acc[i].open <=> mod.link = "accepted"

Earlier(a, b) == a[1] < b[1] \/ (a[1] = b[1] /\ a[2] < b[2])

\* What merlind has read and will read of its connection is a sequence of
\* packets, the last one perhaps not complete: node_get_event finds its
\* headers where they are.
PacketsWhole ==
  LET s == dm.bq \o IF acc = <<>> THEN <<>> ELSE acc[1].buf
  IN  /\ acc = <<>> /\ dm.pc # "reap" => dm.bq = <<>>
      /\ \A i \in DOMAIN s :
           /\ s[i][2] = IF i % 2 = 1 THEN "header" ELSE "body"
           /\ i % 2 = 0 => s[i][1] = s[i - 1][1]

\* No statement is stored twice or after a later one, over all restarts of
\* either process, new connections and sessions.  It does not survive a
\* failed drain of the backlog (NodeSend), the answer to a statement that is
\* lost, or half a packet left in ipc.bq by ipc_accept, which is the only way to
\* lose the headers.
RowsInOrder ==
  /\ Without({"stale"}) => PacketsWhole
  /\ Without({"resend", "answer", "stale"}) =>
       LET all == rows \o db.txn
       IN  \A i, j \in DOMAIN all : i < j => Earlier(all[i], all[j])

\* What is on its way: in the backlog, in a socket or in ipc.bq.
Waiting ==
  ToSet(mod.log) \cup
  {u[1] : u \in ToSet(dm.bq) \cup UNION {ToSet(s.buf) : s \in ToSet(pend \o acc)}}

\* Every event that ipc_send_event was called with is on its way or stored,
\* also when sends fail half-way or the socket is full, as long as both
\* processes and the database go on, merlind makes no new listening socket
\* while a connection waits, and drops no connection before it has read it.
EventsAccounted ==
  Without({"exit", "restart", "db", "refused", "race", "replaced", "stale"}) =>
    \A e \in 1 .. calls :
      \/ e \in Waiting
      \/ ToSet(Statements(e)) \subseteq ToSet(rows \o db.txn \o dm.todo)

\* The counter of sql_try_commit is never below the number of statements that
\* wait to be committed, although it is not reset when a session ends, so a
\* lost session costs fewer than commit_queries of them.
CommitsInTime ==
  /\ Len(db.txn) <= db.queries
  /\ "queries" \in conf => Len(db.txn) < CommitQueries

\* In the end module and daemon are connected, merlind has read everything
\* there is to read, and, if commits do not wait for a number of statements,
\* nothing is left to commit.
EventuallyStored ==
  <>[](Without({"stale"}) =>
         /\ mod.link = "accepted"
         /\ acc # <<>> /\ acc[1].buf = <<>> /\ dm.bq = <<>> /\ dm.todo = <<>>
         /\ "interval" \in conf => db.txn = <<>>)
=============================================================================
