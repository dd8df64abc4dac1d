------------------------------- MODULE Queries -------------------------------
(***************************************************************************)
(* The two queries of the query handler that make another node do          *)
(* something (module/queries.c, module/runcmd.c, csync_fetch in            *)
(* module/script-helpers.c, cmd_fetch in oconf.py.in): "runcmd" runs a command on the node and       *)
(* prints its output to the client, "remote-fetch" makes the node fetch    *)
(* its configuration from here.  Both go straight to the socket, so they   *)
(* are lost when the node is not connected.  The asking node has clients;  *)
(* the other one has workers that run the commands.                        *)
(***************************************************************************)
EXTENDS Integers, Sequences, FiniteSetsExt

CONSTANTS
    Clients,   \* clients of the query handler; each asks once
    MaxFile    \* bound on changes of the configuration

ASSUME QueriesAssumption == IsFiniteSet(Clients) /\ MaxFile \in Nat

VARIABLES
    node,     \* the other node as configured: its type, encryption, accept_runcmd
              \* for this node, and whether it has a fetch command
    client,   \* "new", "open" (waits on its socket) or "closed"
    sd,       \* the descriptor of each client, 0 before it has one
    answers,  \* what was printed to each client: errors, or answers to a client
    events,   \* timed events that are to send a packet
    up,       \* are the nodes connected?
    to, back, \* packets under way
    running,  \* commands that run on the node for a runcmd
    fetch,    \* the fetch command that runs on the node for each client: how far it is
    version,  \* and the version of the configuration that it has read
    file,     \* version of the configuration here, which only grows
    copy,     \* and of the copy on the node
    loaded,   \* and of the one the node has loaded
    silent,   \* history: clients that get no answer: lost, refused, or a fetch
    gave_up   \* history: has a client closed before its answer?

queryVars == <<node, client, sd, answers, events, up, to, back, running, fetch, version,
               file, copy, loaded, silent, gave_up>>

Sds == 1 .. Cardinality(Clients)
Packets == [kind : {"runcmd", "fetch"}, from : Clients, sd : Sds]
Stages == {"none", "started", "read", "placed"}
NodeTypes == {"peer", "poller", "master"}

QueryTypeOK ==
    /\ node \in [type : NodeTypes, encrypted : BOOLEAN, accept_runcmd : BOOLEAN,
                 fetch : BOOLEAN]
    /\ client \in [Clients -> {"new", "open", "closed"}]
    /\ sd \in [Clients -> Sds \cup {0}]
    /\ answers \in [Clients -> Seq(Clients \cup {"error"})]
    /\ events \in Seq(Packets) /\ to \in Seq(Packets) /\ back \in Seq(Packets)
    /\ up \in BOOLEAN
    /\ running \subseteq Packets
    /\ fetch \in [Clients -> Stages] /\ version \in [Clients -> 0 .. MaxFile]
    /\ {file, copy, loaded} \subseteq 0 .. MaxFile
    /\ silent \subseteq Clients
    /\ gave_up \in BOOLEAN

QueryInit ==
    /\ node \in [type : NodeTypes, encrypted : BOOLEAN, accept_runcmd : BOOLEAN,
                 fetch : BOOLEAN]
    /\ client = [c \in Clients |-> "new"]
    /\ sd = [c \in Clients |-> 0]
    /\ answers = [c \in Clients |-> << >>]
    /\ events = << >> /\ to = << >> /\ back = << >>
    /\ up = TRUE
    /\ running = {}
    /\ fetch = [c \in Clients |-> "none"] /\ version = [c \in Clients |-> 0]
    /\ file = 0 /\ copy = 0 /\ loaded = 0
    /\ silent = {} /\ gave_up = FALSE

fetchVars == <<fetch, version, copy, loaded>>
remoteVars == <<running, fetchVars>>

-----------------------------------------------------------------------------
(* The asking node *)

\* Descriptors of open clients; the kernel gives out the smallest other one.
Open(d) == \E c \in Clients : client[c] = "open" /\ sd[c] = d
FreeSd == Min({d \in Sds : ~Open(d)})

Error(b) == IF b THEN <<"error">> ELSE << >>

\* The query of c is answered with errors, or its packet scheduled, or both.
Reply(c, kind, errors, scheduled) ==
    /\ events' = IF scheduled THEN Append(events, [kind |-> kind, from |-> c, sd |-> FreeSd])
                 ELSE events
    /\ answers' = [answers EXCEPT ![c] = errors]
    /\ silent' = IF errors # << >> \/ scheduled THEN silent ELSE silent \cup {c}

\* The node must be named, found, encrypted, connected and no master, and a
\* command must follow.
remote_runcmd(c) ==
    \E parsed \in BOOLEAN :
        LET ok == parsed /\ node.encrypted /\ up /\ node.type # "master"
        IN  Reply(c, "runcmd", Error(~ok), ok)

\* Asks for the node by its name, by its type, by a type that no node has (or by
\* nothing), or by what is unknown.  A query that does not start with a name
\* or a type is read on after that error.  The type "master" is refused; nodes of
\* the type asked for that are not connected are left out without a word.
remote_fetch(c) ==
    \E prefixed \in BOOLEAN, by \in {"name", "type", "nobody", "unknown"} :
        LET scheduled == up /\ (by = "name" \/ (by = "type" /\ node.type # "master"))
            refused == \/ by = "unknown"
                       \/ by = "name" /\ ~up
                       \/ by = "type" /\ node.type = "master"
        IN  Reply(c, "fetch", Error(~prefixed) \o Error(refused), scheduled)

\* merlin_qh reads the query of a client.
merlin_qh(c) ==
    /\ client[c] = "new"
    /\ client' = [client EXCEPT ![c] = "open"]
    /\ sd' = [sd EXCEPT ![c] = FreeSd]
    /\ remote_runcmd(c) \/ remote_fetch(c)
    /\ UNCHANGED <<node, up, to, back, file, gave_up>>
    /\ UNCHANGED remoteVars

\* send_runcmd_cmd and send_ctrl_fetch call node_send directly, which fails
\* without a connection; a packet that is too long is not sent either.
send_runcmd_cmd ==
    /\ events # << >>
    /\ events' = Tail(events)
    /\ \E fits \in BOOLEAN :
         IF up /\ fits
         THEN to' = Append(to, Head(events)) /\ UNCHANGED silent
         ELSE silent' = silent \cup {Head(events).from} /\ UNCHANGED to
    /\ UNCHANGED <<node, client, sd, answers, up, back, file, gave_up>>
    /\ UNCHANGED remoteVars

\* RUNCMD_RESP arrives: printed to the descriptor that it names, whoever has
\* that now.  Nothing happens if it is closed.
runcmd_callback ==
    /\ back # << >>
    /\ back' = Tail(back)
    /\ answers' = [c \in Clients |->
           IF client[c] = "open" /\ sd[c] = Head(back).sd
           THEN Append(answers[c], Head(back).from) ELSE answers[c]]
    /\ UNCHANGED <<node, client, sd, events, up, to, file, silent, gave_up>>
    /\ UNCHANGED remoteVars

\* The client has its answer, or does not want to wait any longer.
Close(c) ==
    /\ client[c] = "open"
    /\ client' = [client EXCEPT ![c] = "closed"]
    /\ gave_up' = (gave_up \/ answers[c] = << >>)
    /\ UNCHANGED <<node, sd, answers, events, up, to, back, file, silent>>
    /\ UNCHANGED remoteVars

\* The connection breaks, with what is under way on it.
Broken == /\ up' = FALSE /\ to' = << >> /\ back' = << >>

Under_way == {p.from : p \in Range(to) \cup Range(back)}

Disconnect ==
    /\ up /\ Broken
    /\ silent' = silent \cup Under_way
    /\ UNCHANGED <<node, client, sd, answers, events, file, gave_up>>
    /\ UNCHANGED remoteVars

Connect ==
    /\ ~up
    /\ up' = TRUE
    /\ UNCHANGED <<node, client, sd, answers, events, to, back, file, silent, gave_up>>
    /\ UNCHANGED remoteVars

\* This node restarts with another configuration; its clients are cut off.
Reconfigure ==
    /\ file < MaxFile
    /\ file' = file + 1
    /\ Broken
    /\ events' = << >>
    /\ client' = [c \in Clients |-> IF client[c] = "open" THEN "closed" ELSE client[c]]
    /\ silent' = silent \cup Under_way \cup {p.from : p \in Range(events)}
    /\ gave_up' = (gave_up \/ running # {})
    /\ UNCHANGED <<node, sd, answers>>
    /\ UNCHANGED remoteVars

-----------------------------------------------------------------------------
(* The other node, which sees this one as its master, peer or poller *)

OurType == CASE node.type = "poller" -> "master"
             [] node.type = "master" -> "poller"
             [] OTHER                -> "peer"

\* handle_runcmd_event runs the command, or ignores it without an answer.
RuncmdAccepted == node.encrypted /\ OurType \in {"peer", "master"} /\ node.accept_runcmd

handle_runcmd_event ==
    /\ to # << >> /\ Head(to).kind = "runcmd"
    /\ to' = Tail(to)
    /\ IF RuncmdAccepted
       THEN running' = running \cup {Head(to)} /\ UNCHANGED silent
       ELSE silent' = silent \cup {Head(to).from} /\ UNCHANGED running
    /\ UNCHANGED <<node, client, sd, answers, events, up, back, file, gave_up>>
    /\ UNCHANGED fetchVars

\* Mutant: the answer carries the descriptor of another client.
Response_Mixed(p) == [p EXCEPT !.sd = Min(Sds)]

\* The response is the request with the output in place of the command.
Response(p) == p

\* Commands end in any order, by themselves or after five seconds.  The response
\* goes the way of a request: one that is too long is not sent.
runcmd_wproc_callback ==
    \E p \in running, fits \in BOOLEAN :
        /\ running' = running \ {p}
        /\ IF up /\ fits THEN back' = Append(back, Response(p)) /\ UNCHANGED silent
           ELSE silent' = silent \cup {p.from} /\ UNCHANGED back
        /\ UNCHANGED <<node, client, sd, answers, events, up, to, file, gave_up>>
        /\ UNCHANGED fetchVars

\* The process of the other node ends, its commands with it, and starts again.
RemoteGone ==
    /\ Broken
    /\ running' = {}
    /\ fetch' = [c \in Clients |-> "none"] /\ version' = [c \in Clients |-> 0]
    /\ loaded' = copy
    /\ silent' = silent \cup Under_way \cup {p.from : p \in running}

\* handle_control, CTRL_FETCH: nothing is fetched if no command is configured.
\* Otherwise it is started, whether or not one is running.  From a poller the code
\* dereferences a null child (script-helpers.c:255).
csync_fetch ==
    /\ to # << >> /\ Head(to).kind = "fetch"
    /\ \/ /\ OurType = "poller"
          /\ RemoteGone
       \/ /\ OurType # "poller"
          /\ to' = Tail(to)
          /\ fetch' = IF node.fetch THEN [fetch EXCEPT ![Head(to).from] = "started"] ELSE fetch
          /\ silent' = silent \cup {Head(to).from}
          /\ UNCHANGED <<up, back, running, version, loaded>>
    /\ UNCHANGED <<node, client, sd, answers, events, file, copy, gave_up>>

\* The rest of the node while a command `mon oconf fetch' goes on.
FetchElse == <<node, client, sd, answers, events, up, to, back, running, file, loaded,
               silent, gave_up>>

\* rsync reads the file from here ...
ReadFile(c) ==
    /\ fetch[c] = "started"
    /\ fetch' = [fetch EXCEPT ![c] = "read"]
    /\ version' = [version EXCEPT ![c] = file]
    /\ UNCHANGED <<FetchElse, copy>>

\* ... and puts it in place.
PlaceFile(c) ==
    /\ fetch[c] = "read"
    /\ fetch' = [fetch EXCEPT ![c] = "placed"]
    /\ copy' = version[c]
    /\ UNCHANGED <<FetchElse, version>>

\* This file cannot be copied, or one of those that are synced after it: the
\* command ends without a restart.
FailFetch(c) ==
    /\ fetch[c] # "none"
    /\ fetch' = [fetch EXCEPT ![c] = "none"]
    /\ UNCHANGED <<FetchElse, version, copy>>

\* Mutant: the files are read in again without a restart, so commands go on.
EndFetch_Reload(c) ==
    /\ fetch[c] = "placed"
    /\ fetch' = [fetch EXCEPT ![c] = "none"]
    /\ loaded' = copy
    /\ UNCHANGED <<node, client, sd, answers, events, up, to, back, running, version, file,
                   copy, silent, gave_up>>

\* When all files are copied, `sudo mon restart'.
EndFetch(c) ==
    /\ fetch[c] = "placed"
    /\ RemoteGone
    /\ UNCHANGED <<node, client, sd, answers, events, file, copy, gave_up>>

QueryNext ==
    \/ \E c \in Clients :
           \/ merlin_qh(c) \/ Close(c)
           \/ ReadFile(c) \/ PlaceFile(c) \/ FailFetch(c) \/ EndFetch(c)
    \/ send_runcmd_cmd \/ runcmd_callback
    \/ Disconnect \/ Connect \/ Reconfigure
    \/ handle_runcmd_event \/ runcmd_wproc_callback \/ csync_fetch

QuerySpec == QueryInit /\ [][QueryNext]_queryVars

-----------------------------------------------------------------------------
(* Properties *)

Pending(c) ==
    \E p \in Range(events) \cup Range(to) \cup running \cup Range(back) :
        p.from = c /\ p.kind = "runcmd"

Fetching(c) == \E p \in Range(events) \cup Range(to) : p.from = c /\ p.kind = "fetch"

\* A client of runcmd sees errors, or one answer, that of its own command, although
\* answers come in any order and carry a descriptor only; it waits in vain only
\* if a packet was lost or the node refused.  Limit: once a client has closed
\* before its answer, another one may have its descriptor.
AnsweredOnce ==
    ~gave_up =>
        \A c \in Clients :
            /\ answers[c] \in Seq({"error"}) \cup {<<c>>}
            /\ answers[c] # << >> => ~Pending(c)
            /\ client[c] = "open" /\ answers[c] = << >> 
                   => Pending(c) \/ c \in silent \/ Fetching(c)

\* The node never loads an older configuration than the one it has loaded, although
\* csync_fetch starts a fetch while others run: these may read the file at
\* different times, put it in place in another order, fail half-way, or be cut
\* off by the restart at the end of another.  (The restart is what makes it so: no
\* command that read an older file survives it.)
NeverRolledBack == [][loaded' >= loaded]_queryVars

=============================================================================
