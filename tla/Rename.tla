------------------------------- MODULE Rename -------------------------------
(***************************************************************************)
(* The rename tool (tools/rename.c): hosts and services that were renamed  *)
(* are recorded in the table rename_log; the tool then changes their names *)
(* in the table report_data and in the log files, and deletes the records. *)
(* It may be killed between any two steps.  A name is an object and a      *)
(* number, which grows with each renaming; names are not used again, and   *)
(* none is the beginning of another.  The configuration tool that records  *)
(* a renaming is external, and Naemon is stopped while the tool runs.      *)
(***************************************************************************)
EXTENDS Integers, Sequences, SequencesExt, FiniteSetsExt

CONSTANTS
    Named,       \* hosts and services
    MaxRenames,  \* bound on renamings
    MaxStops     \* bound on killed runs and failing steps

VARIABLES
    current,     \* the number of each object's name
    rename_log,  \* records: id and the name before and after
    report_data, \* names in the table
    logfiles,    \* names in the archived and in the current log file
    newfile,     \* .new files that a killed run left: "none", "empty" or "part"
    flags,       \* options of the run
    stage,       \* step of the run
    work,        \* log files to do
    rename_len,  \* number of records when they were counted
    batch,       \* records that were read
    stops,       \* history: runs killed and steps that failed
    cases        \* history: cases in which names may stay

vars == <<current, rename_log, report_data, logfiles, newfile, flags, stage, work,
          rename_len, batch, stops, cases>>

LogFiles == {"archived", "log"}
AllFlags == {"db", "archived", "log"}
Name(o) == <<o, current[o]>>

Init ==
    /\ current = [o \in Named |-> 0]
    /\ rename_log = << >>
    /\ report_data = {Name(o) : o \in Named}
    /\ logfiles = [f \in LogFiles |-> {Name(o) : o \in Named}]
    /\ newfile = "none"
    /\ flags = {} /\ stage = "idle" /\ work = {} /\ rename_len = 0 /\ batch = << >>
    /\ stops = 0 /\ cases = {}

Idle == stage = "idle"

-----------------------------------------------------------------------------
(* Outside *)

\* The configuration tool renames an object.
Record(o) ==
    /\ MapThenSumSet(LAMBDA p : current[p], Named) < MaxRenames
    /\ current' = [current EXCEPT ![o] = @ + 1]
    /\ rename_log' = Append(rename_log, [id |-> <<o, current[o] + 1>>, from |-> Name(o),
                                         to |-> <<o, current[o] + 1>>])
    /\ UNCHANGED <<report_data, logfiles, newfile, flags, stage, work, rename_len, batch,
                   stops, cases>>

\* Naemon, started again, logs something about an object.
Write(o) ==
    /\ Idle
    /\ Name(o) \notin logfiles["log"]
    /\ logfiles' = [logfiles EXCEPT !["log"] = @ \cup {Name(o)}]
    /\ report_data' = report_data \cup {Name(o)}
    /\ UNCHANGED <<current, rename_log, newfile, flags, stage, work, rename_len, batch, stops,
                   cases>>

-----------------------------------------------------------------------------
(* The tool *)

Exit ==
    /\ stage' = "idle" /\ flags' = {} /\ work' = {} /\ rename_len' = 0 /\ batch' = << >>

\* A run, with the options to rename in the table or in log files.
Start ==
    /\ Idle
    /\ \E fs \in (SUBSET AllFlags \ {{}}), save \in BOOLEAN :
           flags' = IF save THEN fs \cup {"save"} ELSE fs
    /\ stage' = "count"
    /\ UNCHANGED <<current, rename_log, report_data, logfiles, newfile, work,
                   rename_len, batch, stops, cases>>

\* find_renames counts the records; without any there is nothing to do.
Count ==
    /\ stage = "count"
    /\ IF rename_log = << >>
       THEN Exit
       ELSE /\ stage' = "select" /\ rename_len' = Len(rename_log)
            /\ UNCHANGED <<flags, work, batch>>
    /\ UNCHANGED <<current, rename_log, report_data, logfiles, newfile, stops, cases>>

\* ... and then reads them.  A record that came in between is written behind the
\* end of the array: the program crashes, or goes on with those it counted.
Select ==
    /\ stage = "select"
    /\ \/ /\ stage' = "db" /\ batch' = SubSeq(rename_log, 1, rename_len)
          /\ UNCHANGED <<flags, work, rename_len>>
       \/ Len(rename_log) > rename_len /\ Exit
    /\ UNCHANGED <<current, rename_log, report_data, logfiles, newfile, stops, cases>>

\* One record applied to a set of names.
Apply(names, r) == IF r.from \in names THEN (names \ {r.from}) \cup {r.to} ELSE names

\* rename_db: one UPDATE for each record in turn; those that fail are not noticed.
rename_db ==
    /\ stage = "db"
    /\ \/ /\ report_data' = IF "db" \in flags THEN FoldLeft(Apply, report_data, batch) ELSE report_data
          /\ UNCHANGED <<stops, cases>>
       \/ /\ "db" \in flags /\ stops < MaxStops
          /\ \E done \in SUBSET Range(batch) :
                 report_data' = FoldLeft(Apply, report_data, SelectSeq(batch, LAMBDA r : r \in done))
          /\ stops' = stops + 1 /\ cases' = cases \cup {"failed"}
    /\ stage' = "logs" /\ work' = flags \cap LogFiles
    /\ UNCHANGED <<current, rename_log, logfiles, newfile, flags, rename_len, batch>>

\* parse_line: the first record that matches the name is applied.
parse_line(name) ==
    LET matching == {i \in DOMAIN batch : batch[i].from = name}
    IN  IF matching = {} THEN name ELSE batch[Min(matching)].to

\* Records that rename in turn: a log line gets the first new name only.
Chained == \E i, j \in DOMAIN batch : i < j /\ batch[i].to = batch[j].from

\* rename_log writes a new file and renames it over the old one.  In the archive
\* directory a new file that was left behind is one of the log files: one without
\* a line ends the program, and the name of another is used again; it may remain,
\* empty, if the tool comes to it last.  If rename() fails, which is not noticed,
\* the new file stays beside the old one.
rename_log_file(f) ==
    /\ stage = "logs" /\ f \in work
    /\ IF "archived" \in work /\ newfile = "empty"
       THEN Exit /\ UNCHANGED <<logfiles, newfile, stops, cases>>
       ELSE /\ \/ /\ logfiles' = [logfiles EXCEPT ![f] = {parse_line(n) : n \in logfiles[f]}]
                  /\ newfile' \in IF f = "archived" /\ newfile = "part" THEN {"none", "empty"}
                                  ELSE {newfile}
                  /\ UNCHANGED <<stops, cases>>
               \/ /\ stops < MaxStops /\ stops' = stops + 1
                  /\ newfile' = IF f = "archived" THEN "part" ELSE newfile
                  /\ cases' = cases \cup {"failed"}
                  /\ UNCHANGED logfiles
            /\ work' = work \ {f}
            /\ UNCHANGED <<flags, stage, rename_len, batch>>
    /\ UNCHANGED <<current, rename_log, report_data>>

\* Mutant: all records are deleted.
Deleted_All == << >>

\* clear_renames deletes the records that were read, by their ids.
Deleted == SelectSeq(rename_log, LAMBDA r : r \notin Range(batch))

clear_renames ==
    /\ stage = "logs" /\ work = {}
    /\ IF "save" \in flags
       THEN UNCHANGED <<rename_log, cases>>
       ELSE /\ rename_log' = Deleted
            /\ cases' = cases \cup (IF AllFlags \subseteq flags THEN {} ELSE {"left out"})
                             \cup (IF Chained THEN {"chain"} ELSE {})
    /\ Exit
    /\ UNCHANGED <<current, report_data, logfiles, newfile, stops>>

\* The tool is killed, perhaps between two UPDATEs (report_data has no
\* transactions) or while it writes a file.
Kill ==
    /\ ~Idle /\ stops < MaxStops
    /\ stops' = stops + 1
    /\ report_data' \in IF stage = "db" /\ "db" \in flags
                        THEN {FoldLeft(Apply, report_data, SubSeq(batch, 1, k)) : k \in 0 .. Len(batch)}
                        ELSE {report_data}
    /\ newfile' \in IF stage = "logs" /\ "archived" \in work THEN {newfile, "empty", "part"}
                    ELSE {newfile}
    /\ Exit
    /\ UNCHANGED <<current, rename_log, logfiles, cases>>

Next ==
    \/ \E o \in Named : Record(o) \/ Write(o)
    \/ Start \/ Count \/ Select \/ rename_db
    \/ \E f \in LogFiles : rename_log_file(f)
    \/ clear_renames \/ Kill

Spec == Init /\ [][Next]_vars

-----------------------------------------------------------------------------
(* Properties *)

\* When no renaming is recorded any more and the tool does not run, the table and
\* the log files have current names only: neither a run that was killed nor a
\* renaming recorded during a run is forgotten.  Limits: a run that is told to
\* rename only in a part and not to save the records, records that rename one
\* object twice, of which a log line gets the first name only (rename.c:115), and
\* an UPDATE or a rename() that fails, as the records are deleted all the same
\* (rename.c:49, 162).
NamesCurrent ==
    Idle /\ rename_log = << >> /\ cases = {} =>
        report_data \cup logfiles["archived"] \cup logfiles["log"] \subseteq {Name(o) : o \in Named}


=============================================================================
