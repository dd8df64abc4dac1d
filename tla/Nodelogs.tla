------------------------------ MODULE Nodelogs ------------------------------
(***************************************************************************)
(* `mon log show --all-nodes' (tools/showlog.c processAllNodes): the log   *)
(* of each node is fetched into a file of a fixed temporary directory and  *)
(* the files are merged into one, which is then shown as any other log.    *)
(* Runs are killed, and the next run finds their files.  Two runs at a     *)
(* time would share these files and are left out, and so is a sort that    *)
(* fails: only whether it could be started is looked at (showlog.c:1127).  *)
(***************************************************************************)
EXTENDS Integers, Sequences, SequencesExt, FiniteSetsExt

CONSTANTS
    LogNodes,   \* the nodes that `mon node list' may print
    MaxStamp,   \* bound on timestamps
    MaxLog,     \* bound on the lines of a node's log
    MaxLimit,   \* bound on --limit
    MaxKills    \* bound on killed runs

VARIABLES
    logs,      \* the log of each node and of this one, as timestamps
    line_max,  \* --limit of this run
    listed,    \* nodes that are left to be fetched, "local" last
    step,      \* "idle", "fetch", "merge" or "show"
    tmp,       \* files in the temporary directory, by node; << >> for none
    taken,     \* lines of each file merged so far
    merged,    \* naemon_merged.log: pairs of a node and a line number
    arrived,   \* history: the number of lines that this run got from each node
    kills      \* history: runs killed

vars == <<logs, line_max, listed, step, tmp, taken, merged, arrived, kills>>

Sources == LogNodes \cup {"local"}
Stamps == {s \in UNION {[1 .. n -> 1 .. MaxStamp] : n \in 0 .. MaxLog} :
              \A i \in DOMAIN s : i > 1 => s[i - 1] <= s[i]}

Stamp(l) == logs[l[1]][l[2]]

Init ==
    /\ logs \in [Sources -> Stamps]
    /\ line_max \in 0 .. MaxLimit
    /\ listed = {} /\ step = "idle"
    /\ tmp = [s \in Sources |-> << >>] /\ taken = [s \in Sources |-> 0] /\ merged = << >>
    /\ arrived = [s \in Sources |-> 0] /\ kills = 0

\* Mutant: what a killed run left behind is kept.
cleanupTmpLog_Not == UNCHANGED <<tmp, merged>>

cleanupTmpLog ==
    /\ tmp' = [s \in Sources |-> << >>]
    /\ merged' = << >>

\* A run starts by cleaning up after an earlier one that was interrupted.
Begin ==
    /\ step = "idle"
    /\ cleanupTmpLog
    /\ step' = "fetch"
    /\ \E nodes \in SUBSET LogNodes : listed' = nodes \cup {"local"}
    /\ taken' = [s \in Sources |-> 0] /\ arrived' = [s \in Sources |-> 0]
    /\ UNCHANGED <<logs, line_max, kills>>

\* Mutant: the commands get a limit that is one too small.
Fetched_Less(s) == SubSeq([i \in DOMAIN logs[s] |-> <<s, i>>], 1,
                          IF line_max = 0 THEN Len(logs[s]) ELSE line_max - 1)

\* `mon log show --limit' on the node prints the first lines of its log.
Fetched(s) ==
    LET all == [i \in DOMAIN logs[s] |-> <<s, i>>]
    IN  IF line_max = 0 THEN all ELSE SubSeq(all, 1, Min({line_max, Len(all)}))

\* createTmpLog of the output of a node's command, or of this node's at the end.
\* The output may be cut short, as how the command ended is not looked at; a line
\* that is cut in its text counts as that line.  Only if there is none at all a
\* warning is printed.
createTmpLog ==
    /\ step = "fetch"
    /\ \E s \in listed :
           /\ s = "local" => listed = {"local"}
           /\ listed' = listed \ {s}
           /\ \E k \in 0 .. Len(Fetched(s)) :
                  /\ tmp' = [tmp EXCEPT ![s] = SubSeq(Fetched(s), 1, k)]
                  /\ arrived' = [arrived EXCEPT ![s] = k]
           /\ step' = IF s = "local" THEN "merge" ELSE step
    /\ UNCHANGED <<logs, line_max, taken, merged, kills>>

\* A command or sort cannot be started, or a file cannot be made: exit(1).
Fails ==
    /\ step = "fetch" \/ (step = "merge" /\ merged = << >>)
    /\ step' = "idle"
    /\ cleanupTmpLog
    /\ UNCHANGED <<logs, line_max, listed, taken, arrived, kills>>

Left == {s \in Sources : taken[s] < Len(tmp[s])}

\* sort --merge tmp/* >> naemon_merged.log: lines of one second in any order.
Merge ==
    /\ step = "merge" /\ Left # {}
    /\ \E s \in Left :
           /\ \A r \in Left : Stamp(tmp[s][taken[s] + 1]) <= Stamp(tmp[r][taken[r] + 1])
           /\ merged' = Append(merged, tmp[s][taken[s] + 1])
           /\ taken' = [taken EXCEPT ![s] = @ + 1]
    /\ UNCHANGED <<logs, line_max, listed, step, tmp, arrived, kills>>

Merged ==
    /\ step = "merge" /\ Left = {}
    /\ step' = "show"
    /\ UNCHANGED <<logs, line_max, listed, tmp, taken, merged, arrived, kills>>

\* The lines have been shown, up to the limit.
Done ==
    /\ step = "show"
    /\ step' = "idle"
    /\ cleanupTmpLog
    /\ UNCHANGED <<logs, line_max, listed, taken, arrived, kills>>

Killed ==
    /\ step # "idle" /\ kills < MaxKills
    /\ step' = "idle" /\ kills' = kills + 1
    /\ UNCHANGED <<logs, line_max, listed, tmp, taken, merged, arrived>>

Next == Begin \/ createTmpLog \/ Fails \/ Merge \/ Merged \/ Done \/ Killed

Spec == Init /\ [][Next]_vars

-----------------------------------------------------------------------------
(* Properties *)

\* What is shown of the merged log is what the logs of all nodes begin with: each
\* line once, by time and in the order of its node, whatever an interrupted run
\* has left behind.  With a limit these are the oldest lines: none is missing that
\* is older than one shown.  Limits: of an answer that was cut short only what has
\* arrived is there, and no warning tells (showlog.c:1057); the nodes apply
\* --limit, but neither --reverse, --skip nor a filter, so that the lines asked
\* for may not be among those merged (showlog.c:1105).
MergedExact ==
    step = "show" =>
        LET count == IF line_max = 0 THEN Len(merged) ELSE Min({line_max, Len(merged)})
            shown == SubSeq(merged, 1, count)
            whole(s) == line_max = arrived[s] \/ arrived[s] = Len(logs[s])
            all == UNION {{<<s, i>> : i \in 1 .. IF arrived[s] > 0 /\ whole(s) THEN Len(logs[s])
                                                 ELSE arrived[s]} : s \in Sources}
        IN  /\ \A i, j \in 1 .. count : i < j =>
                   /\ shown[i] # shown[j] /\ Stamp(shown[i]) <= Stamp(shown[j])
                   /\ shown[i][1] = shown[j][1] => shown[i][2] < shown[j][2]
            /\ Range(shown) \subseteq all
            /\ \A l \in all \ Range(shown) :
                   line_max > 0 /\ count = line_max /\ \A k \in Range(shown) : Stamp(k) <= Stamp(l)

=============================================================================
