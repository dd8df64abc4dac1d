------------------------------ MODULE Showlog -------------------------------
(***************************************************************************)
(* `mon log show' (tools/showlog.c, with the selections of                 *)
(* tools/logutils.c and the table of states of daemon/state.c): which      *)
(* lines of the log files are printed, forwards or in reverse.  The files  *)
(* are read as they come: each step picks the next line, so the log is     *)
(* part of the input.  Colours, HTML and time formats are left out, but    *)
(* for "duration", which holds a line back until the next one is known.    *)
(***************************************************************************)
EXTENDS Integers, Sequences, SequencesExt, FiniteSetsExt

CONSTANTS
    MaxTime,   \* bound on timestamps
    MaxLines,  \* bound on the number of lines
    MaxFiles   \* bound on the number of log files

VARIABLES
    opts,          \* the options
    event_filter,  \* bits of the events to show
    skip, limit,   \* counters that start with the options
    nf,            \* the current file: its first timestamp, and its last possible one
    num_nfile,     \* number of files so far
    showing,       \* is the file parsed, or passed over?
    ltime,         \* timestamp of the last line
    host_states,   \* state of each object in its last line, as a set
    last_line,     \* the line that "duration" holds back, as a sequence
    printed,       \* lines printed
    printed_lines, \* and their number as --count prints it
    exited,
    read           \* history: lines of all files so far

vars == <<opts, event_filter, skip, limit, nf, num_nfile, showing, ltime, host_states,
          last_line, printed, printed_lines, exited, read>>

-----------------------------------------------------------------------------
(* Lines and options *)

\* What a line is about: the bits of its event, its host, is it about a service
\* of the host, its state and is that a hard one.  Events that are treated alike
\* share a bit: ALERT stands for STATE too, NOTIFY for downtimes, flapping and
\* event handlers.  A PROCESS line of state 0 is of a start or a stop, which have
\* no colon, one of state 1 a message like a warning.
Line_of(code, host, svc, state, hard) ==
    [code |-> code, host |-> host, svc |-> svc, state |-> state, hard |-> hard]
Shape == {
    Line_of({"ALERT", "HOST"},    "a",    FALSE, 0, TRUE),
    Line_of({"ALERT", "HOST"},    "a",    FALSE, 1, TRUE),
    Line_of({"ALERT", "HOST"},    "b",    FALSE, 1, TRUE),
    Line_of({"ALERT", "SERVICE"}, "a",    TRUE,  1, TRUE),
    Line_of({"NOTIFY", "HOST"},   "a",    FALSE, 0, TRUE),
    Line_of({"PROCESS"},          "none", FALSE, 0, TRUE)}
MoreShapes == Shape \cup {
    Line_of({"ALERT", "HOST"},     "a",    FALSE, 1, FALSE),
    Line_of({"ALERT", "SERVICE"},  "b",    TRUE,  0, TRUE),
    Line_of({"NOTIFY", "SERVICE"}, "a",    TRUE,  0, TRUE),
    Line_of({"PROCESS"},           "none", FALSE, 1, TRUE)}

ObjectBits == {"HOST", "SERVICE"}
Bits == {"ALERT", "NOTIFY", "PROCESS"} \cup ObjectBits

\* --show-x and --hide-x, where x is a kind of event or all of them.
ShowHide == {[show |-> FALSE, what |-> {"ALERT", "NOTIFY", "PROCESS"}],
             [show |-> TRUE,  what |-> {"NOTIFY"}],
             [show |-> TRUE,  what |-> {"PROCESS"}],
             [show |-> FALSE, what |-> {"NOTIFY"}]}
hide_all == [show |-> FALSE, what |-> {"ALERT", "NOTIFY", "PROCESS"}]

\* Options about the part of the log that is shown, on a log of similar lines;
\* about the kind of lines, on a log of all kinds of them; and about states and
\* the objects that one may see, which select line by line, on a short log.  An
\* option that may be absent is a sequence.
Defaults == [first |-> 0, last |-> 0, skip |-> 0, limit |-> 0, reverse |-> FALSE,
             duration |-> FALSE, dupes |-> FALSE, shows |-> << >>, hosts |-> {},
             services |-> {}, hoststates |-> << >>, servicestates |-> << >>,
             statetype |-> BOOLEAN, restrict |-> << >>, tty |-> FALSE,
             now |-> 1, shapes |-> Shape, lines |-> MaxLines]
Parts == {[Defaults EXCEPT !.first = f, !.last = l, !.skip = s, !.limit = n, !.reverse = r,
                           !.duration = d, !.now = MaxTime, !.shapes = {x \in Shape : x.host = "b"}] :
             f \in {0, 2, MaxTime}, l \in {0, 2}, s \in 0 .. 1, n \in 0 .. 2,
             r \in BOOLEAN, d \in BOOLEAN}
Kinds == {[Defaults EXCEPT !.shows = o, !.hosts = h, !.services = s, !.dupes = d] :
             o \in UNION {[1 .. n -> ShowHide] : n \in 0 .. 2}, h \in {{}, {"a"}},
             s \in {{}, {"a"}}, d \in BOOLEAN}
States == {[Defaults EXCEPT !.shows = o, !.hosts = h, !.services = s, !.dupes = d,
                            !.hoststates = u, !.servicestates = v, !.statetype = t,
                            !.shapes = MoreShapes, !.lines = 2] :
             o \in {<< >>, <<hide_all>>}, h \in {{}, {"a"}}, s \in {{}, {"a"}}, d \in BOOLEAN,
             u \in {<< >>, <<{1}>>}, v \in {<< >>, <<{0}>>}, t \in {BOOLEAN, {TRUE}}}
Seen == {[Defaults EXCEPT !.shows = o, !.hosts = h, !.services = s, !.tty = y,
                          !.restrict = r, !.shapes = MoreShapes, !.lines = 2] :
             o \in UNION {[1 .. n -> ShowHide] : n \in 0 .. 1}, h \in {{}, {"a"}},
             s \in {{}, {"a"}}, y \in BOOLEAN,
             r \in {<<[hosts |-> h, services |-> {"a"} \ h]>> : h \in {{"a"}, {"b"}, {}}}
                    \cup {<< >>}}

\* Mutant: showing events does not show the objects that they are about.
show_hide_Events(filter, o) ==
    IF o.show THEN filter \cup o.what
    ELSE filter \ (o.what \cup (IF o = hide_all THEN ObjectBits ELSE {}))

\* show_hide adds the bits of the objects with those of the events; hiding all
\* takes away both.
show_hide(filter, o) ==
    IF o.show THEN filter \cup o.what \cup (IF o.what = {"PROCESS"} THEN {} ELSE ObjectBits)
    ELSE filter \ (o.what \cup (IF o = hide_all THEN ObjectBits ELSE {}))

\* The loop over the options; --show and --hide come before the others.  On a
\* terminal PROCESS lines are hidden to begin with.
Filter(o) ==
    LET hosts_are_interesting == o.hosts # {} \/ o.hoststates # << >>
        services_are_interesting == o.services # {}
        start == IF o.tty THEN Bits \ {"PROCESS"} ELSE Bits
        added == FoldLeft(show_hide, start, o.shows)
                     \cup (IF hosts_are_interesting THEN {"HOST"} ELSE {})
                     \cup (IF services_are_interesting \/ o.servicestates # << >>
                           THEN {"SERVICE"} ELSE {})
    IN  IF ~hosts_are_interesting /\ services_are_interesting THEN added \ {"HOST"} ELSE added

\* The period: to now and from the start by default, flipped if upside down.
Given(o) == [first |-> IF o.first = 0 THEN 1 ELSE o.first,
             last |-> IF o.last = 0 THEN o.now ELSE o.last]
first_time == Min({Given(opts).first, Given(opts).last})
last_time == Max({Given(opts).first, Given(opts).last})

\* The program has read its options.
Starts(o) ==
    /\ opts = o
    /\ event_filter = Filter(opts)
    /\ skip = opts.skip
    /\ limit = IF opts.limit > 0 /\ opts.duration THEN opts.limit + 1 ELSE opts.limit
    /\ nf = [first |-> 0, last |-> IF opts.reverse THEN opts.now ELSE 0]
    /\ num_nfile = 0 /\ showing = FALSE
    /\ ltime = 0 /\ host_states = {}
    /\ last_line = << >> /\ printed = << >> /\ printed_lines = 0
    /\ exited = FALSE /\ read = << >>

Init == \E o \in Parts \cup Kinds \cup States \cup Seen : Starts(o)

-----------------------------------------------------------------------------
(* Lines *)

is_interesting_host(h) == opts.hosts = {} \/ h \in opts.hosts
is_interesting_service(h) ==
    IF opts.services = {} THEN is_interesting_host(h) ELSE h \in opts.services

Object(l) == <<l.host, l.svc>>

\* parse_host_state_filter, parse_service_state_filter and --state-type.
StateShown(l) ==
    LET filter == IF l.svc THEN opts.servicestates ELSE opts.hoststates
    IN  l.hard \in opts.statetype /\ (filter # << >> => l.state \in filter[1])

\* auth_host_ok and auth_service_ok under --restrict-objects; starts and stops
\* are not shown then, other messages of the daemon are.
auth_ok(l) ==
    \/ opts.restrict = << >>
    \/ l.code = {"PROCESS"} /\ l.state = 1
    \/ l.host \in opts.restrict[1].hosts
    \/ l.svc /\ l.host \in opts.restrict[1].services

\* The tests of parse_line before that for duplicates.
Passes(l) ==
    /\ l.t \in first_time .. last_time
    /\ l.code \subseteq event_filter
    /\ "ALERT" \in l.code => StateShown(l)
    /\ auth_ok(l)
    /\ l.code # {"PROCESS"} =>
           IF l.svc THEN is_interesting_service(l.host) ELSE is_interesting_host(l.host)

\* host_has_new_state and service_has_new_state.
host_has_new_state(l) == <<Object(l), l.state, l.hard>> \notin host_states

\* Mutant: a line that is skipped counts against the limit.
print_line_Skipped(ls) ==
    /\ skip' = IF skip > 0 THEN skip - 1 ELSE 0
    /\ limit' = IF limit > 0 THEN limit - 1 ELSE 0
    /\ LET out == IF skip > 0 THEN << >> ELSE IF opts.duration THEN last_line ELSE ls
       IN  printed' = printed \o out /\ printed_lines' = printed_lines + Len(out)
    /\ last_line' = IF opts.duration THEN ls ELSE last_line

\* print_line of a line, or of none at the end.
print_line(ls) ==
    IF skip > 0
    THEN /\ skip' = skip - 1
         /\ UNCHANGED <<limit, last_line, printed, printed_lines>>
    ELSE /\ LET out == IF opts.duration THEN last_line ELSE ls
            IN  printed' = printed \o out /\ printed_lines' = printed_lines + Len(out)
         /\ last_line' = IF opts.duration THEN ls ELSE last_line
         /\ limit' = IF limit > 0 THEN limit - 1 ELSE 0
         /\ UNCHANGED skip

\* After the last line of the limit the program exits.
parse_line(l) ==
    /\ IF Passes(l) /\ ("ALERT" \in l.code /\ opts.dupes => host_has_new_state(l))
       THEN print_line(<<l>>) /\ exited' = (limit > 0 /\ limit' = 0)
       ELSE UNCHANGED <<skip, limit, last_line, printed, printed_lines, exited>>
    /\ host_states' = IF Passes(l) /\ "ALERT" \in l.code /\ opts.dupes
                      THEN {s \in host_states : s[1] # Object(l)} \cup {<<Object(l), l.state, l.hard>>}
                      ELSE host_states

-----------------------------------------------------------------------------
(* Files *)

\* Mutant: a file that ends in the first second of the period is passed over.
Overlaps_Open(f) == ~(first_time >= f.last \/ last_time < f.first)

Overlaps(f) == ~(first_time > f.last \/ last_time < f.first)

\* The next file in the order of first timestamps; one ends where the next starts.
NextFile ==
    /\ ~exited /\ num_nfile < MaxFiles
    /\ IF opts.reverse
       THEN \E f \in 1 .. nf.last :
                nf' = [first |-> f, last |-> IF num_nfile = 0 THEN opts.now ELSE nf.first]
       ELSE \E f \in (IF num_nfile = 0 THEN 1 .. opts.now ELSE {nf.last}), l \in 1 .. opts.now :
                l >= f /\ nf' = [first |-> f, last |-> l]
    /\ nf'.first <= nf'.last
    /\ num_nfile' = num_nfile + 1
    /\ showing' = Overlaps(nf')
    /\ UNCHANGED <<opts, event_filter, skip, limit, ltime, host_states, last_line, printed,
                   printed_lines, exited, read>>

\* The next line of the file.
Line ==
    /\ ~exited /\ num_nfile > 0 /\ Len(read) < opts.lines
    /\ \E s \in opts.shapes, t \in nf.first .. nf.last :
           LET l == [code |-> s.code, host |-> s.host, svc |-> s.svc, state |-> s.state,
                     hard |-> s.hard, t |-> t]
           IN  /\ IF opts.reverse THEN read # << >> => t <= ltime ELSE t >= ltime
               /\ ltime' = t
               /\ read' = Append(read, l)
               /\ IF showing THEN parse_line(l)
                  ELSE UNCHANGED <<skip, limit, last_line, printed, printed_lines, exited,
                                   host_states>>
    /\ UNCHANGED <<opts, event_filter, nf, num_nfile, showing>>

\* After the last file the line that was held back is printed.  It is counted
\* twice.
Finish ==
    /\ ~exited /\ num_nfile > 0
    /\ opts.reverse \/ nf.last = opts.now
    /\ IF opts.duration
       THEN /\ skip' = IF skip > 0 THEN skip - 1 ELSE 0
            /\ printed' = IF skip > 0 THEN printed ELSE printed \o last_line
            /\ printed_lines' = printed_lines + 1 + (IF skip > 0 THEN 0 ELSE Len(last_line))
       ELSE UNCHANGED <<skip, printed, printed_lines>>
    /\ exited' = TRUE
    /\ UNCHANGED <<opts, event_filter, limit, nf, num_nfile, showing, ltime, host_states,
                   last_line, read>>

Next == NextFile \/ Line \/ Finish

Spec == Init /\ [][Next]_vars

-----------------------------------------------------------------------------
(* Properties *)

\* The last option that names a kind of event decides whether it is shown.
Chosen(bit) ==
    LET named == {i \in DOMAIN opts.shows : bit \in opts.shows[i].what}
    IN  IF named = {} THEN ~(opts.tty /\ bit = "PROCESS") ELSE opts.shows[Max(named)].show

\* Hosts and services that are asked for; asking for services alone leaves out
\* the lines about hosts, unless states of hosts are asked for.
Asked(l) ==
    \/ l.code = {"PROCESS"}
    \/ IF l.svc THEN IF opts.services # {} THEN l.host \in opts.services
                     ELSE opts.hosts = {} \/ l.host \in opts.hosts
       ELSE IF opts.hosts # {} THEN l.host \in opts.hosts
            ELSE opts.services = {} \/ opts.hoststates # << >>

\* The state that a line reports is one of those asked for.
StateAsked(l) ==
    /\ l.hard \in opts.statetype
    /\ \A k \in DOMAIN opts.hoststates : ~l.svc => l.state \in opts.hoststates[k]
    /\ \A k \in DOMAIN opts.servicestates : l.svc => l.state \in opts.servicestates[k]

\* Under --restrict-objects the hosts that are listed with their services, the
\* services that are listed, and messages that are about no object.
Visible(l) ==
    \A k \in DOMAIN opts.restrict :
        IF l.code = {"PROCESS"} THEN l.state = 1
        ELSE l.host \in opts.restrict[k].hosts \cup (IF l.svc THEN opts.restrict[k].services ELSE {})

Wanted(l) ==
    /\ l.t >= first_time /\ l.t <= last_time
    /\ \A bit \in l.code \ ObjectBits : Chosen(bit)
    /\ Asked(l) /\ Visible(l) /\ ("ALERT" \in l.code => StateAsked(l))

\* The state of the line is that of the wanted line before it, about the object.
Repeated(i) ==
    LET before == {j \in 1 .. i - 1 : /\ Wanted(read[j]) /\ "ALERT" \in read[j].code
                                      /\ Object(read[j]) = Object(read[i])}
    IN  /\ opts.dupes /\ "ALERT" \in read[i].code /\ before # {}
        /\ read[Max(before)].state = read[i].state
        /\ read[Max(before)].hard = read[i].hard

\* The lines to be printed of those that were read.
Due ==
    LET shown == {i \in DOMAIN read : Wanted(read[i]) /\ ~Repeated(i)}
        inorder == SelectSeq([i \in DOMAIN read |-> i], LAMBDA i : i \in shown)
        rest == SubSeq(inorder, opts.skip + 1, Len(inorder))
        cut == IF opts.limit = 0 THEN rest ELSE SubSeq(rest, 1, Min({opts.limit, Len(rest)}))
    IN  [k \in DOMAIN cut |-> read[cut[k]]]

\* showlog prints the lines that the options ask for, all of them, in the order
\* in which they are read, without the first of them if some are to be skipped,
\* and no more than the limit; no line that is wanted is in a file that is passed
\* over.  With durations a line comes later.  Limit: --count with durations is
\* one too many when the last line is printed at the end (showlog.c:1476).
ShownExact ==
    /\ IF opts.duration THEN IsPrefix(printed, Due) ELSE printed = Due
    /\ exited => printed = Due
    /\ ~opts.duration => printed_lines = Len(printed)

=============================================================================
