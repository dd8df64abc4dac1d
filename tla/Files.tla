-------------------------------- MODULE Files -------------------------------
(***************************************************************************)
(* The parts of Merlin that each work on files by themselves: the reader   *)
(* of log files (Lparse) and the tools that use it, showlog with its       *)
(* --all-nodes (Showlog, Nodelogs), import (Import) and rename (Rename),   *)
(* and the splitting of the object configuration (Split).  They are        *)
(* separate programs, or run at separate times, so a behaviour follows one *)
(* of them.                                                                *)
(***************************************************************************)
EXTENDS Integers, Sequences, FiniteSets, TLC

CONSTANTS MAX_BUF, MaxSize, MaxGrowth
CONSTANTS MaxTime, MaxLines, MaxFiles
CONSTANTS LogNodes, MaxStamp, MaxLog, MaxLimit, MaxKills
CONSTANTS MaxEntries, MaxDate, MaxKilled, MaxRuns
CONSTANTS Named, MaxRenames, MaxStops
CONSTANTS SplitPollers, MaxSplitStops

ASSUME FilesAssumption ==
    /\ MAX_BUF \in Nat \ {0} /\ MaxSize \in Nat \ {0} /\ MaxGrowth \in Nat
    /\ MaxTime \in Nat /\ MaxLines \in Nat /\ MaxFiles \in Nat
    /\ IsFiniteSet(LogNodes) /\ "local" \notin LogNodes
    /\ MaxStamp \in Nat /\ MaxLog \in Nat /\ MaxLimit \in Nat /\ MaxKills \in Nat
    /\ MaxEntries \in Nat /\ MaxDate \in Nat /\ MaxKilled \in Nat /\ MaxRuns \in Nat
    /\ IsFiniteSet(Named) /\ MaxRenames \in Nat /\ MaxStops \in Nat
    /\ SplitPollers \in Nat \ {0} /\ MaxSplitStops \in Nat

VARIABLES bytes, size, rev, tot_rd, reads, parsed
VARIABLES opts, event_filter, skip, limit, nf, num_nfile, showing, ltime, host_states,
          last_line, printed, printed_lines, exited, read
VARIABLES logs, line_max, listed, step, tmp, taken, merged, arrived, kills
VARIABLES log, full, pc, at, end, incremental, run, rows, keys, disabled,
          finished, killed, runs
VARIABLES current, rename_log, report_data, logfiles, newfile, flags, stage, work,
          rename_len, batch, stops, cases
VARIABLES conf, poller, phase, maphosts, seen, fp, outfile, expected, splitstops
VARIABLE part \* the part that is followed

Lines == INSTANCE Lparse
Show == INSTANCE Showlog
AllNodes == INSTANCE Nodelogs
Imports == INSTANCE Import
Renames == INSTANCE Rename
Splits == INSTANCE Split

linesVars == <<bytes, size, rev, tot_rd, reads, parsed>>
showVars == <<opts, event_filter, skip, limit, nf, num_nfile, showing, ltime, host_states,
              last_line, printed, printed_lines, exited, read>>
nodesVars == <<logs, line_max, listed, step, tmp, taken, merged, arrived, kills>>
importVars == <<log, full, pc, at, end, incremental, run, rows, keys, disabled,
                finished, killed, runs>>
renameVars == <<current, rename_log, report_data, logfiles, newfile, flags, stage, work,
                rename_len, batch, stops, cases>>
splitVars == <<conf, poller, phase, maphosts, seen, fp, outfile, expected, splitstops>>
vars == <<linesVars, showVars, nodesVars, importVars, renameVars, splitVars, part>>

\* The parts that are not followed stay in one of their initial states.
Init ==
    /\ part \in {"lines", "show", "all-nodes", "import", "rename", "split"}
    /\ IF part = "lines" THEN TRUE ELSE bytes = <<TRUE>> /\ size = 1 /\ rev = FALSE
    /\ IF part = "show" THEN Show!Init ELSE Show!Starts(Show!Defaults)
    /\ IF part = "all-nodes" THEN TRUE
       ELSE line_max = 0 /\ logs = [s \in AllNodes!Sources |-> << >>]
    /\ IF part = "split" THEN TRUE
       ELSE conf = [members |-> [g1 |-> {"h1"}, g2 |-> {}],
                    hostgroups |-> [p \in 1 .. SplitPollers |-> << >>],
                    contacts |-> [h1 |-> {}, h2 |-> {}],
                    related |-> FALSE]
    /\ Lines!Init /\ AllNodes!Init /\ Imports!Init /\ Renames!Init /\ Splits!Init

Next ==
    /\ \/ /\ part = "lines" /\ Lines!Next
          /\ UNCHANGED <<showVars, nodesVars, importVars, renameVars, splitVars>>
       \/ /\ part = "show" /\ Show!Next
          /\ UNCHANGED <<linesVars, nodesVars, importVars, renameVars, splitVars>>
       \/ /\ part = "all-nodes" /\ AllNodes!Next
          /\ UNCHANGED <<linesVars, showVars, importVars, renameVars, splitVars>>
       \/ /\ part = "import" /\ Imports!Next
          /\ UNCHANGED <<linesVars, showVars, nodesVars, renameVars, splitVars>>
       \/ /\ part = "rename" /\ Renames!Next
          /\ UNCHANGED <<linesVars, showVars, nodesVars, importVars, splitVars>>
       \/ /\ part = "split" /\ Splits!Next
          /\ UNCHANGED <<linesVars, showVars, nodesVars, importVars, renameVars>>
    /\ UNCHANGED part

Spec == Init /\ [][Next]_vars

\* Nodes are interchangeable, and so are the objects that are renamed.
Symmetry == Permutations(LogNodes) \cup Permutations(Named)

-----------------------------------------------------------------------------
(* Properties *)

\* Every whole line of a log is parsed once and in order (lparse.c lparse_fd,
\* lparse_rev_fd).
LinesOnce == Lines!LinesOnce

\* showlog prints the lines that its options ask for (showlog.c parse_line).
ShownExact == Show!ShownExact

\* --all-nodes shows the first lines of the logs, as far as it got them (showlog.c
\* processNodeLogs).
MergedExact == AllNodes!MergedExact

\* Incremental imports leave what a full one would (import.c parse_line, main).
ImportComplete == Imports!ImportComplete

\* Renaming leaves no old name, and no record that is still needed goes (rename.c
\* rename_db, rename_log_file, clear_renames).
NamesCurrent == Renames!NamesCurrent

\* The configuration of a poller has all that it refers to (oconfsplit.c
\* split_config).
SelfContained == Splits!SelfContained

=============================================================================
