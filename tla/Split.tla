-------------------------------- MODULE Split -------------------------------
(***************************************************************************)
(* How the module writes the object configuration of each poller           *)
(* (module/oconfsplit.c, called when Naemon has read its configuration):   *)
(* the hosts of the poller's groups and what they refer to, each once.  A  *)
(* definition in the file is [is, uses]: an object, which is a pair of a   *)
(* type and a name, and the objects that the text refers to.               *)
(*                                                                         *)
(* Each host has one service.  A host and its service have the same        *)
(* command, period and contacts, so that what the second refers to is      *)
(* often written already, which is the case the maps are there for.  A     *)
(* write or fclose() that fails is not noticed (oconfsplit.c:453): the     *)
(* file would be cut short, and is left out here.                          *)
(***************************************************************************)
EXTENDS Integers, Sequences, SequencesExt, FiniteSetsExt

CONSTANTS
    SplitPollers,  \* number of pollers
    MaxSplitStops  \* how often the process ends while it writes

VARIABLES
    conf,          \* the object configuration, and the host groups of each poller
    poller,        \* the poller whose file is written
    phase,         \* "open", "stuff", "partial", "rename", "utimes" or "done"
    maphosts,      \* map.hosts
    seen,          \* htrack and the other maps: what was written to fp
    fp,            \* the temporary file: a sequence of definitions
    outfile,       \* the file of each poller; << >>: as it was before
    expected,      \* node->expected.config_hash: the text it is the hash of, or << >>
    splitstops

vars == <<conf, poller, phase, maphosts, seen, fp, outfile, expected, splitstops>>

Pollers == 1 .. SplitPollers
Hosts == {"h1", "h2"}
HostGroups == {"g1", "g2"}

\* "related": h2 is a parent of h1, the service of h2 one of that of h1, and h1
\* and its service depend on h2 and its service.
Confs ==
    [members : [g1 : {{"h1"}, Hosts}, g2 : {{}, {"h1"}, {"h2"}}],
     hostgroups : [Pollers -> {<< >>, <<"g1">>, <<"g2", "g1">>, <<"g2", "missing">>}],
     contacts : [h1 : {{}, {"contacts"}, {"contact_groups"}, {"escalation"},
                       {"escalation_groups"}},
                 h2 : {{}, {"contacts"}}],
     related : BOOLEAN]

Command(c) == <<"command", c>>
Timeperiod(t) == <<"timeperiod", t>>
Contact == <<"contact", "c">>
ContactGroup == <<"contactgroup", "cg">>

\* The check of h2 has the command that is also the global one (ochp_command).
CheckCommand(h) == IF h = "h1" THEN "check" ELSE "global"
Exclusions(t) == IF t = "workhours" THEN <<"holidays">> ELSE << >>

Init ==
    /\ conf \in Confs
    /\ poller = 1 /\ phase = "open"
    /\ maphosts = {} /\ seen = {} /\ fp = << >>
    /\ outfile = [p \in Pollers |-> << >>]
    /\ expected = [p \in Pollers |-> << >>]
    /\ splitstops = 0

-----------------------------------------------------------------------------
(* Writing objects: each operator maps [seen, fp] to what it is after. *)

Put(st, obj, uses) == [st EXCEPT !.fp = Append(@, [is |-> obj, uses |-> uses])]
Mark(st, obj) == [st EXCEPT !.seen = @ \cup {obj}]

nsplit_cache_command(st, c) ==
    IF Command(c) \in st.seen THEN st
    ELSE Mark(Put(st, Command(c), {}), Command(c))

RECURSIVE nsplit_cache_timeperiod(_, _)

\* Mutant: the periods a period excludes are not followed.
nsplit_cache_timeperiod_Flat(st, t) ==
    IF Timeperiod(t) \in st.seen THEN st
    ELSE Put(Mark(st, Timeperiod(t)), Timeperiod(t), {Timeperiod(e) : e \in Range(Exclusions(t))})

nsplit_cache_timeperiod(st, t) ==
    IF Timeperiod(t) \in st.seen THEN st
    ELSE FoldLeft(nsplit_cache_timeperiod,
                  Put(Mark(st, Timeperiod(t)), Timeperiod(t),
                      {Timeperiod(e) : e \in Range(Exclusions(t))}),
                  Exclusions(t))

\* The one contact has a period and a command of its own.
nsplit_cache_contacts(st) ==
    IF Contact \in st.seen THEN st
    ELSE LET used == nsplit_cache_command(nsplit_cache_timeperiod(st, "always"), "notify")
         IN Put(Mark(used, Contact), Contact, {Timeperiod("always"), Command("notify")})

nsplit_cache_contactgroups(st) ==
    IF ContactGroup \in st.seen THEN st
    ELSE Put(Mark(nsplit_cache_contacts(st), ContactGroup), ContactGroup, {Contact})

Has(h, how) == how \in conf.contacts[h]

\* What a host and its service refer to alike.
Slaves(h) ==
    {Command(CheckCommand(h)), Timeperiod("workhours")}
    \cup (IF Has(h, "contacts") THEN {Contact} ELSE {})
    \cup (IF Has(h, "contact_groups") THEN {ContactGroup} ELSE {})

nsplit_cache_slaves(st, h) ==
    LET own == nsplit_cache_timeperiod(nsplit_cache_command(st, CheckCommand(h)), "workhours")
        groups == IF Has(h, "contact_groups") THEN nsplit_cache_contactgroups(own) ELSE own
    IN IF Has(h, "contacts") THEN nsplit_cache_contacts(groups) ELSE groups

\* nsplit_cache_hostdependencies() and nsplit_cache_servicedependencies(): only
\* on what is in the file.
Dependencies(st, type, h) ==
    IF conf.related /\ h = "h1" /\ "h2" \in maphosts
    THEN Put(nsplit_cache_timeperiod(st, "holidays"), <<type \o "dependency", h>>,
             {Timeperiod("holidays"), <<type, "h1">>, <<type, "h2">>})
    ELSE st

\* Escalations to a contact or to a group of contacts.
Escalations(st, type, h) ==
    LET period == nsplit_cache_timeperiod(st, "always")
        to(who, used) == Put(used, <<type \o "escalation", h>>,
                             {Timeperiod("always"), who, <<type, h>>})
    IN  IF Has(h, "escalation_groups") THEN to(ContactGroup, nsplit_cache_contactgroups(period))
        ELSE IF Has(h, "escalation") THEN to(Contact, nsplit_cache_contacts(period))
        ELSE st

Parents(h) == IF conf.related /\ h = "h1" THEN {"h2"} ELSE {}

\* copy_relevant_parents()
\* Mutant: all parents are copied.
RelevantParents_All(h) == {<<"host", p>> : p \in Parents(h)}

RelevantParents(h) == {<<"host", p>> : p \in Parents(h) \cap maphosts}

\* Of the service it is the original that is written, with all its parents, and
\* not the copy that lacks those on other pollers (line 235).
ServiceParents(h) == {<<"service", p>> : p \in Parents(h)}

nsplit_cache_host(st, h) ==
    IF <<"host", h>> \in st.seen THEN st
    ELSE LET hst == Put(nsplit_cache_slaves(Mark(st, <<"host", h>>), h),
                        <<"host", h>>, Slaves(h) \cup RelevantParents(h))
             hext == Escalations(Dependencies(hst, "host", h), "host", h)
             svc == Put(nsplit_cache_slaves(hext, h), <<"service", h>>,
                        Slaves(h) \cup {<<"host", h>>} \cup ServiceParents(h))
         IN Escalations(Dependencies(svc, "service", h), "service", h)

\* The members of a group in the order of their names.
Members(g) == SelectSeq(<<"h1", "h2">>, LAMBDA h : h \in conf.members[g])

GroupHosts(st, g) ==
    FoldLeft(nsplit_cache_host,
             Mark(Put(st, <<"hostgroup", g>>, {<<"host", h>> : h \in conf.members[g]}),
                  <<"hostgroup", g>>),
             Members(g))

-----------------------------------------------------------------------------

St == [seen |-> seen, fp |-> fp]

\* The loop goes on with the next poller.
NextPoller ==
    /\ poller' = poller + 1
    /\ phase' = IF poller = SplitPollers THEN "done" ELSE "open"

\* split_config(): the file is made, the maps are cleared, and the commands of
\* the main configuration are written.
\* Mutant: the maps are not cleared for the next poller.
Cleared_Not(st) == [seen |-> st.seen, fp |-> << >>]

Cleared(st) == [seen |-> {}, fp |-> << >>]

Open ==
    /\ phase = "open"
    /\ \/ NextPoller /\ UNCHANGED <<maphosts, seen, fp>>  \* mkstemp() fails
       \/ LET st == nsplit_cache_command(Cleared(St), "global")
          IN /\ maphosts' = {} /\ seen' = st.seen /\ fp' = st.fp
             /\ phase' = "stuff"
             /\ UNCHANGED poller
    /\ UNCHANGED <<conf, outfile, expected, splitstops>>

\* nsplit_cache_stuff(): all hosts are mapped before one is written.  An unknown
\* group leaves the temporary file as it is; a poller with no groups gets what is
\* written so far.
MapHosts ==
    /\ phase = "stuff"
    /\ LET groups == conf.hostgroups[poller] IN
       IF "missing" \in Range(groups)
       THEN NextPoller /\ UNCHANGED <<maphosts, seen, fp>>
       ELSE /\ maphosts' = UNION {conf.members[g] : g \in Range(groups)}
            /\ phase' = "partial"
            /\ UNCHANGED <<poller, seen, fp>>
    /\ UNCHANGED <<conf, outfile, expected, splitstops>>

\* The second loop of nsplit_cache_stuff(), nsplit_partial_groups() and fclose().
Partial(st, g) ==
    IF <<"hostgroup", g>> \in st.seen \/ conf.members[g] \cap maphosts = {} THEN st
    ELSE Put(st, <<"hostgroup", g>>, {<<"host", h>> : h \in conf.members[g] \cap maphosts})

ServiceGroup(st) ==
    IF maphosts = {} THEN st
    ELSE Put(st, <<"servicegroup", "sg">>, {<<"service", h>> : h \in maphosts})

WriteDefinitions ==
    /\ phase = "partial"
    /\ LET hosts == FoldLeft(GroupHosts, St, conf.hostgroups[poller])
           st == ServiceGroup(FoldLeft(Partial, hosts, <<"g1", "g2">>))
       IN seen' = st.seen /\ fp' = st.fp
    /\ phase' = "rename"
    /\ UNCHANGED <<conf, poller, maphosts, outfile, expected, splitstops>>

Rename ==
    /\ phase = "rename"
    /\ \/ NextPoller /\ UNCHANGED outfile
       \/ /\ outfile' = [outfile EXCEPT ![poller] = fp]
          /\ phase' = "utimes"
          /\ UNCHANGED poller
    /\ UNCHANGED <<conf, maphosts, seen, fp, expected, splitstops>>

\* utimes() and the hash, which is of the file in place.
Hash ==
    /\ phase = "utimes"
    /\ \/ UNCHANGED expected
       \/ expected' = [expected EXCEPT ![poller] = outfile[poller]]
    /\ NextPoller
    /\ UNCHANGED <<conf, maphosts, seen, fp, outfile, splitstops>>

\* The process ends and Naemon starts again: the files are what is left.
Stop ==
    /\ splitstops < MaxSplitStops
    /\ phase # "done"
    /\ splitstops' = splitstops + 1
    /\ poller' = 1 /\ phase' = "open"
    /\ maphosts' = {} /\ seen' = {} /\ fp' = << >>
    /\ expected' = [p \in Pollers |-> << >>]
    /\ UNCHANGED <<conf, outfile>>

Next == Open \/ MapHosts \/ WriteDefinitions \/ Rename \/ Hash \/ Stop

Spec == Init /\ [][Next]_vars

-----------------------------------------------------------------------------

Objects(text) == {d.is : d \in Range(text)}
HostsOf(p) == UNION {conf.members[g] : g \in Range(conf.hostgroups[p])}

\* The only objects that a file refers to and need not hold: parents of services.
Dangling(p) == UNION {ServiceParents(h) : h \in HostsOf(p)}

(* A file that is in place is whole, also when the process ended while it  *)
(* wrote: it has the hosts of the poller's groups and no others, each      *)
(* object once, each object that one of them refers to (but for parents    *)
(* of services), and no command, period or contact that none of them       *)
(* needs.  A hash that the poller's is compared with is the hash of the    *)
(* file in place (split_config() and what it calls).                       *)
SelfContained ==
    \A p \in Pollers :
        LET text == outfile[p]
            used == UNION {d.uses : d \in Range(text)}
        IN /\ expected[p] \in {<< >>, text}
           /\ text # << >> =>
                /\ IsInjective([i \in DOMAIN text |-> text[i].is])
                /\ {h \in Hosts : <<"host", h>> \in Objects(text)} = HostsOf(p)
                /\ used \ Dangling(p) \subseteq Objects(text)
                /\ \A o \in Objects(text) :
                       o[1] \in {"command", "timeperiod", "contact", "contactgroup"} =>
                           o \in used \cup {Command("global")}

(* What the comment above the loop over a service's parents says, "remove  *)
(* cross-host service parents, if any": a file refers to no service that   *)
(* is not in it (nsplit_cache_host()).                                     *)
ParentsRemoved ==
    \A p \in Pollers : \A d \in Range(outfile[p]) :
        \A o \in d.uses : o[1] = "service" => o \in Objects(outfile[p])
=============================================================================
