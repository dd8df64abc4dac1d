------------------------------- MODULE Import -------------------------------
(***************************************************************************)
(* `mon log import' (tools/import.c, with daemon/state.c): it fills the    *)
(* table report_data from Naemon's log files.  Runs are repeated, mostly   *)
(* incrementally from the newest timestamp in the table on, and may be     *)
(* killed; Naemon writes on and rotates its log.  A row is what a reader   *)
(* of the table tells apart: a time and what happened then.  The table has *)
(* no transactions (MyISAM, sql/mysql/merlin.sql).  One host               *)
(* stands for all hosts and services; downtimes are rows without a state.  *)
(* Only the importer writes to the table.  The rows of report_data_extras, *)
(* which each run adds once more, are left out, and taken to be old.  So   *)
(* are INSERTs that fail, which the tool passes over unless the table has  *)
(* crashed (handle_sql_result): their rows would be missing for good.      *)
(***************************************************************************)
EXTENDS Integers, Sequences, SequencesExt, FiniteSetsExt

CONSTANTS
    MaxEntries, \* bound on the lines of all log files
    MaxDate,    \* bound on timestamps
    MaxKilled,  \* bound on killed runs
    MaxRuns     \* bound on runs

VARIABLES
    log,        \* lines: time, kind of event and number of the file
    full,       \* history: what a full import of these lines does
    pc,         \* "idle" or "reading"
    at, end,    \* the next line of the run, and the last when it looked
    incremental, \* timestamp to start from
    run,        \* what the run knows: is the daemon up, last time and state
    rows,       \* rows in the table
    keys,       \* are the indexes of the table enabled?
    disabled,   \* indexes_disabled: has this run disabled them?
    finished,   \* history: number of lines when the last finished run began, or -1
    killed,     \* history: runs killed so far
    runs        \* history: runs so far

vars == <<log, full, pc, at, end, incremental, run, rows, keys, disabled,
          finished, killed, runs>>

Kinds == {"start", "stop", "up", "down", "downtime"}

\* What a process knows before the first line.
Fresh == [daemon_is_running |-> FALSE, last_ltime |-> 0, state |-> {}]

Init ==
    /\ log = << >> /\ full = [run |-> Fresh, rows |-> {}]
    /\ pc = "idle" /\ at = 0 /\ end = 0 /\ incremental = 0
    /\ run = Fresh /\ rows = {}
    /\ keys = TRUE /\ disabled = FALSE
    /\ finished = -1 /\ killed = 0 /\ runs = 0

-----------------------------------------------------------------------------
(* What a line does *)

\* parse_line makes the times of a run monotone.
LTime(r, line) == Max({line.t, r.last_ltime})

Row(t, what) == [t |-> t, what |-> what]

\* handle_start_event, handle_stop_event, and what the other events do first.
ProcessRows(r, line) ==
    LET t == LTime(r, line)
    IN  IF line.kind = "stop" THEN IF r.daemon_is_running THEN {Row(t, "SHUTDOWN")} ELSE {}
        ELSE IF r.daemon_is_running THEN {} ELSE {Row(t, "START")}

\* insert_host_result and insert_service_result leave out a state that the table
\* of states has already; sql_insert_downtime takes each line.
EventRows(r, line) ==
    LET t == LTime(r, line)
    IN  IF line.kind = "downtime" \/ line.kind \in {"up", "down"} \ r.state
        THEN {Row(t, line.kind)} ELSE {}

\* The state of the run after the line.
After(r, line) ==
    [daemon_is_running |-> line.kind # "stop",
     last_ltime |-> LTime(r, line),
     state |-> IF line.kind \in {"up", "down"} THEN {line.kind} ELSE r.state]

\* Mutant: the test looks at the time as logged, not as made monotone.
Older_Raw(r, line) == line.t < incremental

\* "Incremental" skips lines before the newest row of the table.
Older(r, line) == LTime(r, line) < incremental

-----------------------------------------------------------------------------
(* Naemon *)

LastFile == IF log = << >> THEN 1 ELSE Last(log).file

\* Naemon logs a line.  Its clock may have been set back; after a rotation it
\* is ahead of the other files again.  A run reads no further than the size that
\* the files had when it began, so lines logged meanwhile may as well come later.
Log ==
    /\ pc = "idle" /\ Len(log) < MaxEntries
    /\ \E t \in 1 .. MaxDate, kind \in Kinds, rotate \in BOOLEAN :
           LET line == [t |-> t, kind |-> kind,
                        file |-> IF rotate /\ log # << >> THEN LastFile + 1 ELSE LastFile]
           IN  /\ \A l \in Range(log) : l.file < line.file => l.t <= t
               /\ log' = Append(log, line)
               /\ full' = [run |-> After(full.run, line),
                           rows |-> full.rows \cup ProcessRows(full.run, line)
                                              \cup EventRows(full.run, line)]
    /\ UNCHANGED <<pc, at, end, incremental, run, rows, keys, disabled, finished,
                   killed, runs>>

-----------------------------------------------------------------------------
(* The importer *)

Max0(times) == IF times = {} THEN 0 ELSE Max(times)

\* The first line of the file after that of line i, among those of the run.
NextFirst(i) ==
    LET later == {j \in i + 1 .. end : log[j].file > log[i].file}
    IN  IF later = {} THEN {} ELSE {log[Min(later)].t}

\* Mutant: a file is passed over if the next starts in the second to start from.
SkipFile_Same(i) == \E first \in NextFirst(i) : incremental >= first

\* The file of line i is passed over if the next one starts early enough.
SkipFile(i) == \E first \in NextFirst(i) : incremental > first

\* main: a run looks at the table and at the size of the files.  An empty table
\* gives 0.  With --truncate-db it starts from nothing.
Start ==
    /\ pc = "idle" /\ runs < MaxRuns /\ log # << >>
    /\ pc' = "reading" /\ runs' = runs + 1
    /\ at' = 1 /\ end' = Len(log)
    /\ run' = Fresh /\ disabled' = FALSE
    /\ finished' = -1
    /\ \E truncate \in BOOLEAN :
           /\ rows' = IF truncate THEN {} ELSE rows
           /\ incremental' = IF truncate THEN 0 ELSE Max0({r.t : r \in rows})
    /\ UNCHANGED <<log, full, keys, killed>>

\* disable_indexes: before the first row, unless little is left to do.
disable_indexes ==
    \/ disabled /\ UNCHANGED <<keys, disabled>>
    \/ ~disabled /\ at = end /\ UNCHANGED <<keys, disabled>>
    \/ ~disabled /\ keys' = FALSE /\ disabled' = TRUE

\* parse_line of one line.
parse_line ==
    /\ pc = "reading" /\ at <= end
    /\ LET line == log[at]
           inserts == ProcessRows(run, line) \cup EventRows(run, line)
       IN  IF SkipFile(at)
           THEN UNCHANGED <<run, rows, keys, disabled>>
           ELSE IF Older(run, line)
           THEN /\ run' = [run EXCEPT !.last_ltime = LTime(run, line)]
                /\ UNCHANGED <<rows, keys, disabled>>
           ELSE /\ run' = After(run, line)
                /\ rows' = rows \cup inserts
                /\ IF line.kind \in {"up", "down", "downtime"} \/ inserts # {}
                   THEN disable_indexes ELSE UNCHANGED <<keys, disabled>>
    /\ at' = at + 1
    /\ UNCHANGED <<log, full, pc, end, incremental, finished, killed, runs>>

\* The process ends, with what it knows.
Exit == pc' = "idle" /\ at' = 0 /\ end' = 0 /\ incremental' = 0 /\ run' = Fresh /\ disabled' = FALSE

\* The end of main: enable_indexes.
Finish ==
    /\ pc = "reading" /\ at > end
    /\ keys' = (keys \/ disabled)
    /\ finished' = end
    /\ Exit
    /\ UNCHANGED <<log, full, rows, killed, runs>>

\* The process is killed, perhaps between the two rows of a line.
Kill ==
    /\ pc = "reading" /\ killed < MaxKilled
    /\ killed' = killed + 1
    /\ \/ UNCHANGED <<rows, keys>>
       \/ /\ at <= end /\ ~SkipFile(at) /\ ~Older(run, log[at])
          /\ rows' = rows \cup ProcessRows(run, log[at])
          /\ keys' \in {keys, FALSE}
    /\ Exit
    /\ UNCHANGED <<log, full, finished, runs>>

Next == Log \/ Start \/ parse_line \/ Finish \/ Kill

Spec == Init /\ [][Next]_vars

-----------------------------------------------------------------------------
(* Properties *)

\* After a finished run the table has what a full import of the log would have
\* put there, although the run may be one of many, each with no memory of the
\* states, times and restarts that the others saw, and although others may have
\* been killed half-way.  What it has beside that are repeated states and starts
\* at the time of a line.  The indexes are enabled then; limit: those that a
\* killed run disabled stay so until a run inserts enough to disable them.
ImportComplete ==
    pc = "idle" /\ finished = Len(log) =>
        /\ full.rows \subseteq rows
        /\ \A r \in rows :
               \E i \in DOMAIN log :
                   /\ r.t = Max({log[j].t : j \in 1 .. i})
                   /\ r.what = log[i].kind \/ (r.what = "SHUTDOWN" /\ log[i].kind = "stop")
                      \/ (r.what = "START" /\ log[i].kind # "stop")
        /\ killed = 0 => keys

=============================================================================
