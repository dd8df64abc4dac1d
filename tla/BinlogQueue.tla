---------------------------- MODULE BinlogQueue -----------------------------
(***************************************************************************)
(* One backlog and a caller that adds events, reads them and puts back an  *)
(* event it has just read from memory: the part of the interface of        *)
(* shared/binlog.h under which the backlog is the queue of EventQueue.     *)
(* NodeSend is the caller the program really has.                          *)
(***************************************************************************)
EXTENDS Binlog, FiniteSets

CONSTANTS
  AddLens,     \* the lengths an event may have
  MaxAdded     \* bound: how many events are added

ASSUME QueueAssumption ==
  /\ AddLens \subseteq Nat \ {0}
  /\ MaxAdded \in Nat

VARIABLES
  log,      \* the binlog
  added,    \* how many events have been passed to binlog_add
  held      \* the event binlog_read just returned, NoEvent if none

queueVars == <<log, added, held>>

QueueInit ==
  /\ log = binlog_create
  /\ added = 0
  /\ held = NoEvent

Add(len) ==
  /\ added < MaxAdded
  /\ added' = added + 1
  /\ log' = binlog_add(log, [id |-> added + 1, len |-> len], "ok").bl
  /\ held' = NoEvent

Read ==
  /\ log' = binlog_read(log).bl
  /\ held' = binlog_read(log).e
  /\ UNCHANGED added

\* Only an event that came from memory may be put back: nothing has been
\* read from the file.
UnreadHeld ==
  /\ held # NoEvent
  /\ log.file_read_pos = 0
  /\ log' = binlog_unread(log, held, "ok").bl
  /\ held' = NoEvent
  /\ UNCHANGED added

\* Only a backlog with nothing left in its file may be wiped.
Wipe ==
  /\ log.file_read_pos = log.file_write_pos
  /\ log' = binlog_wipe(log, TRUE)
  /\ held' = NoEvent
  /\ UNCHANGED added

QueueNext ==
  \/ \E len \in AddLens : Add(len)
  \/ Read
  \/ UnreadHeld
  \/ Wipe

QueueSpec == QueueInit /\ [][QueueNext]_queueVars

-----------------------------------------------------------------------------

\* The values the functions of binlog.c give to the fields of a binlog.
QueueTypeOK ==
  /\ log \in BinlogType
  /\ added \in Nat
  /\ held \in Event \cup {NoEvent}

\* Memory before file, and each half in the order of its additions: the
\* order binlog_read relies on when it tries the memory first.
SequentialOrder == Sequential(log)

\* The offsets and sizes kept in the struct are those of the file.
CountersMatchFile == FileConsistent(log)

\* binlog_num_entries, which decides whether the caller drains the backlog
\* at all, counts exactly the events that reading returns.
EntriesCounted == binlog_num_entries(log) = Len(log.cache) + Cardinality(Unread(log))

\* Every event that is held back by the caller is older than all of the
\* backlog, and what is in the backlog has been added.
Bounds ==
  /\ Contents(log) \subseteq 1 .. added
  /\ \A n \in Contents(log) : held.id < n

Queue == INSTANCE EventQueue
           WITH pending <- Contents(log), offered <- added, got <- held.id

\* The memory and the file together are one first-in first-out queue.
ImplementsQueue == Queue!Spec
=============================================================================
