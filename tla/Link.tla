-------------------------------- MODULE Link --------------------------------
(***************************************************************************)
(* The connection between two Merlin nodes: module/net.c, node_set_state   *)
(* and node_disconnect of shared/node.c, the CTRL_ACTIVE handshake of      *)
(* module/module.c and its timers.  node[n] is the merlin_node with which  *)
(* n represents the other node; a file descriptor is the number of its     *)
(* TCP connection, 0 standing for -1.  The kernel's part (handshake,       *)
(* accept queue, end of file) is external.                                 *)
(***************************************************************************)
EXTENDS Integers, FiniteSets

CONSTANTS
    Connectors,    \* the nodes whose peer is flagged MERLIN_NODE_CONNECT
    UuidChoices,   \* the sets of nodes that may know their peer by UUID only
    SlowChoices,   \* the sets of nodes that may have data_timeout 0 for their peer
    MaxConns,      \* connections that exist at the same time
    MaxFaults,     \* crashes, power losses and failed calls of a behaviour
    Timely         \* whether messages travel faster than the code's timers run

Nodes == {1, 2}    \* ordered as their IP addresses are

Conns == 1 .. MaxConns

NoSock == 0

ASSUME LinkAssumption ==
    /\ Connectors \subseteq Nodes /\ UuidChoices \subseteq SUBSET Nodes
    /\ SlowChoices \subseteq SUBSET Nodes
    /\ MaxConns \in Nat /\ MaxFaults \in Nat /\ Timely \in BOOLEAN

Other(n) == 3 - n

VARIABLES
    node,      \* per node: up, state, sock, conn_sock, active (active_peers), ctx
    conns,     \* per connection: from, status, open ends, queued, inbox, silent
    uuidNodes, \* configuration: the nodes that know their peer by its UUID, not
               \* by its address
    slowNodes, \* configuration: the nodes that wait for ever for their peer
    faults     \* how many faults have happened

vars == <<node, conns, uuidNodes, slowNodes, faults>>

States == {"NONE", "PENDING", "NEGOTIATING", "CONNECTED"}

FreshNode == [up |-> TRUE, state |-> "NONE", sock |-> NoSock, conn_sock |-> NoSock,
              active |-> 0, ctx |-> {}]

NoConn == [from |-> 1, status |-> "closed", open |-> {}, queued |-> FALSE,
           inbox |-> {}, silent |-> FALSE]

\* A world w is the pair of the two variables, so that the functions of
\* net.c and node.c compose as they call each other.
World == [node |-> node, conns |-> conns]

Become(w) == node' = w.node /\ conns' = w.conns /\ UNCHANGED <<uuidNodes, slowNodes>>

-----------------------------------------------------------------------------
(* Functions of the code *)

\* iobroker_close: what the other end has sent is lost with the descriptor.
iobroker_close(w, n, c) ==
    IF c = NoSock THEN w
    ELSE [w EXCEPT !.conns[c].open = @ \ {n}, !.conns[c].inbox = @ \ {n}]

SetConn(w, n, c) == [w EXCEPT !.node[n].conn_sock = c]

SetSock(w, n, c) == [w EXCEPT !.node[n].sock = c]

\* The active_peers arithmetic of node_set_state.
CountActive(w, n, state) ==
    IF state = "CONNECTED" THEN [w EXCEPT !.node[n].active = @ + 1]
    ELSE IF w.node[n].state = "CONNECTED" THEN [w EXCEPT !.node[n].active = @ - 1]
    ELSE w

node_disconnect(w, n) ==
    LET closed  == SetSock(iobroker_close(w, n, w.node[n].sock), n, NoSock)
        counted == IF closed.node[n].state = "NONE" THEN closed
                   ELSE CountActive(closed, n, "NONE")
    IN  [counted EXCEPT !.node[n].state = "NONE"]

\* node_send_ctrl_active: without a socket node_send sends nothing, and what
\* is sent to an end that is closed arrives nowhere.
node_send_ctrl_active(w, n) ==
    LET c == w.node[n].sock
    IN  IF c = NoSock THEN w
        ELSE [w EXCEPT !.conns[c].inbox = @ \cup ({Other(n)} \cap w.conns[c].open)]

TransitionAllowed(from, to) ==
    \/ from = "NONE" /\ to \in {"PENDING", "NEGOTIATING"}
    \/ from = "PENDING"
    \/ from = "NEGOTIATING" /\ to = "CONNECTED"

\* Mutant: no CTRL_ACTIVE when the negotiation starts.
node_set_state_Silent(w, n, state) ==
    IF w.node[n].state = state THEN w
    ELSE IF ~TransitionAllowed(w.node[n].state, state) THEN node_disconnect(w, n)
    ELSE [CountActive(w, n, state) EXCEPT !.node[n].state = state]

node_set_state(w, n, state) ==
    LET changed == [CountActive(w, n, state) EXCEPT !.node[n].state = state]
    IN  IF w.node[n].state = state THEN w
        ELSE IF ~TransitionAllowed(w.node[n].state, state) THEN node_disconnect(w, n)
        ELSE IF state = "NEGOTIATING" THEN node_send_ctrl_active(changed, n)
        ELSE changed

\* The socket with the lowest address is preferred: getsockname of lis is
\* n's own address, getpeername of con the other node's.
net_negotiate_socket(n, con, lis) ==
    IF con = NoSock THEN lis
    ELSE IF lis = NoSock \/ n > Other(n) THEN con
    ELSE lis

\* net_is_connected, for a descriptor whose connect() has completed.
net_is_connected(w, n) ==
    LET me == w.node[n]
    IN  /\ me.sock # NoSock /\ me.state # "NONE"
        /\ me.state = "CONNECTED" \/ w.conns[me.sock].status = "up"

conn_writable(w, n) ==
    LET sd   == w.node[n].conn_sock
        old  == w.node[n].sock
        w1   == SetConn(SetSock(w, n, sd), n, NoSock)
        sel  == net_negotiate_socket(n, sd, old)
        lost == IF sel = sd THEN old ELSE sd
    IN  IF old # NoSock
        THEN node_set_state(SetConn(SetSock(iobroker_close(w, n, lost), n, sel), n, NoSock),
                            n, "NEGOTIATING")
        ELSE IF net_is_connected(w1, n) THEN node_set_state(w1, n, "NEGOTIATING")
        ELSE node_disconnect(w1, n)

\* Mutants: the accepted socket is never stored, and it replaces the one
\* in use, which stays open.
node_accept_Forgets(w, n, c) == node_set_state(w, n, "NEGOTIATING")

node_accept_Switches(w, n, c) ==
    node_set_state(SetSock(w, n, c), n, "NEGOTIATING")

\* node_accept, for the accepted socket c.  The socket that the negotiation
\* selects is not stored in the node, and neither is the one that is
\* accepted while the node has none: PENDING.
node_accept(w, n, c) ==
    LET me == w.node[n]
        w1 == CASE me.state = "NONE" -> SetSock(node_disconnect(w, n), n, c)
                [] me.state # "NONE" /\ me.sock # NoSock ->
                       IF net_negotiate_socket(n, me.sock, c) # c
                       THEN iobroker_close(w, n, c) ELSE w
                [] OTHER -> w
    IN  node_set_state(w1, n, "NEGOTIATING")

\* handle_control for CTRL_ACTIVE: the comparisons of protocol, cluster and
\* object configuration have the outcome ok.
handle_control(w, n, ok) ==
    IF ~ok THEN node_disconnect(w, n)
    ELSE IF w.node[n].state # "CONNECTED" THEN node_set_state(w, n, "CONNECTED")
    ELSE w

-----------------------------------------------------------------------------
(* Actions *)

Init ==
    /\ node = [n \in Nodes |-> FreshNode]
    /\ conns = [c \in Conns |-> NoConn]
    /\ uuidNodes \in UuidChoices /\ slowNodes \in SlowChoices
    /\ faults = 0

Fault == faults < MaxFaults /\ faults' = faults + 1

\* The ends that code or kernel still look at.  A connection no end of
\* which is in use is available for reuse; a descriptor that was accepted
\* and forgotten does not keep it.
InUse(c) == \/ conns[c].queued
            \/ \E n \in Nodes : c \in {node[n].sock, node[n].conn_sock} \cup node[n].ctx

\* An end of file the node has not read yet.  A silent end was lost without
\* a FIN: only a host that is up again answers with a reset.
EofPending(n, c) ==
    /\ Other(n) \notin conns[c].open
    /\ ~conns[c].silent \/ node[Other(n)].up

\* Every message and every end of file has been handled.
Quiet ==
    \A c \in Conns :
        /\ InUse(c) => conns[c].status # "syn" /\ ~conns[c].queued
        /\ \A n \in Nodes : (node[n].up /\ c \in {node[n].sock} \cup node[n].ctx)
                                => (n \notin conns[c].inbox /\ ~EofPending(n, c))
        /\ \A n \in Nodes : node[n].conn_sock # c

\* connect_to_all and net_try_connect with a connection attempt that starts:
\* a new socket, after what the code calls a struct reset.
TryConnect(n) ==
    LET me == node[n] IN
    /\ me.up /\ n \in Connectors
    /\ me.state \in {"NONE", "NEGOTIATING"} /\ me.conn_sock = NoSock
    /\ Timely => Quiet
    /\ \E c \in Conns :
        /\ ~InUse(c) /\ \A d \in 1 .. c - 1 : InUse(d)
        /\ LET w1 == node_disconnect(World, n)
               w2 == [w1 EXCEPT !.conns[c] = [NoConn EXCEPT !.from = n, !.status = "syn",
                                                            !.open = {n}]]
           IN  Become(node_set_state(SetConn(w2, n, c), n, "PENDING"))
    /\ UNCHANGED faults

\* net_try_connect when connect() fails at once.
TryConnectFails(n) ==
    /\ node[n].up /\ n \in Connectors
    /\ node[n].state \in {"NONE", "NEGOTIATING"} /\ node[n].conn_sock = NoSock
    /\ Timely => Quiet
    /\ Fault
    /\ Become(node_disconnect(World, n))

\* net_try_connect on the conn_sock an earlier attempt left behind.
TryConnectAgain(n) ==
    LET c == node[n].conn_sock IN
    /\ node[n].up /\ node[n].state = "NONE" /\ c # NoSock
    /\ Become(IF conns[c].status = "syn" THEN node_set_state(World, n, "PENDING")
              ELSE node_disconnect(SetConn(iobroker_close(World, n, c), n, NoSock), n))
    /\ UNCHANGED faults

\* The kernel completes or refuses a connect(): the listening process is
\* there or it is not.
Handshake(c) ==
    LET to == Other(conns[c].from) IN
    /\ conns[c].status = "syn"
    /\ conns' = [conns EXCEPT ![c] =
           IF node[to].up
           THEN [conns[c] EXCEPT !.status = "up", !.open = @ \cup {to}, !.queued = TRUE]
           ELSE [conns[c] EXCEPT !.status = "refused"]]
    /\ UNCHANGED <<node, uuidNodes, slowNodes, faults>>

ConnWritable(n) ==
    LET c == node[n].conn_sock IN
    /\ node[n].up /\ c # NoSock /\ conns[c].status # "syn"
    /\ Become(conn_writable(World, n))
    /\ UNCHANGED faults

Dequeue(c) == [World EXCEPT !.conns[c].queued = FALSE]

\* net_accept_one: a known address is a node's, any other waits for its UUID.
Accept(n, c) ==
    /\ node[n].up /\ conns[c].queued /\ conns[c].from # n
    /\ IF n \in uuidNodes
       THEN Become([Dequeue(c) EXCEPT !.node[n].ctx = @ \cup {c}])
       ELSE Become(node_accept(Dequeue(c), n, c))
    /\ UNCHANGED faults

\* The packet c holds for n is read.
Taken(w, n, c) == [w EXCEPT !.conns[c].inbox = @ \ {n}]

Forget(w, n, c) == [w EXCEPT !.node[n].ctx = @ \ {c}]

\* find_node_uuid: the first packet names the node; it is handled after
\* node_accept.
FindNodeUuid(n, c, ok) ==
    /\ node[n].up /\ c \in node[n].ctx /\ n \in conns[c].inbox
    /\ Become(handle_control(node_accept(Forget(Taken(World, n, c), n, c), n, c), n, ok))

\* find_node_uuid without a header, and uuid_socket_timeout.
DropUnidentified(n, c) ==
    /\ node[n].up /\ c \in node[n].ctx
    /\ n \notin conns[c].inbox
    /\ Timely => EofPending(n, c) \/ Quiet
    /\ Become(Forget(iobroker_close(World, n, c), n, c))
    /\ UNCHANGED faults

\* net_input with a CTRL_ACTIVE packet.
InputActive(n, ok) ==
    LET c == node[n].sock IN
    /\ node[n].up /\ c # NoSock /\ n \in conns[c].inbox
    /\ Become(handle_control(Taken(World, n, c), n, ok))

Identify(n, c) ==
    \/ FindNodeUuid(n, c, TRUE) /\ UNCHANGED faults
    \/ FindNodeUuid(n, c, FALSE) /\ Fault

Input(n) == InputActive(n, TRUE) /\ UNCHANGED faults

InputIncompatible(n) == InputActive(n, FALSE) /\ Fault

\* net_input when node_recv reads zero bytes or an error.
InputEof(n) ==
    LET c == node[n].sock IN
    /\ node[n].up /\ c # NoSock /\ EofPending(n, c)
    /\ Become(node_disconnect(World, n))
    /\ UNCHANGED faults

SendPulse(n) ==
    /\ node[n].up /\ node[n].state = "CONNECTED"
    /\ Become(node_send_ctrl_active(World, n))
    /\ UNCHANGED faults

\* A send that fails or that would block disconnects the node.
SendPulseFails(n) ==
    /\ node[n].up /\ node[n].state = "CONNECTED" /\ node[n].sock # NoSock
    /\ Fault
    /\ Become(node_disconnect(World, n))

\* Mutant: the wrong state is looked at.
DisconnectInactive_Negotiating(n) ==
    LET c == node[n].sock IN
    /\ node[n].up /\ c # NoSock /\ node[n].state = "NEGOTIATING" /\ n \notin slowNodes
    /\ Timely => n \notin conns[c].inbox /\ (~node[Other(n)].up \/ node[Other(n)].sock # c)
    /\ Become(node_disconnect(World, n))
    /\ UNCHANGED faults

\* disconnect_inactive, which leaves a node whose data_timeout is 0 alone.  With
\* timely messages nothing is heard for data_timeout seconds only when the other
\* end no longer serves the socket.
DisconnectInactive(n) ==
    LET c == node[n].sock IN
    /\ node[n].up /\ c # NoSock /\ node[n].state = "CONNECTED" /\ n \notin slowNodes
    /\ Timely => n \notin conns[c].inbox /\ (~node[Other(n)].up \/ node[Other(n)].sock # c)
    /\ Become(node_disconnect(World, n))
    /\ UNCHANGED faults

\* The process ends: the kernel closes its descriptors, with a FIN for each
\* (a crash, or net_deinit at shutdown) or without (the host lost power).
Die(n, silently) ==
    /\ node[n].up /\ Fault
    /\ node' = [node EXCEPT ![n] = [FreshNode EXCEPT !.up = FALSE]]
    /\ conns' = [c \in Conns |->
           IF n \notin conns[c].open THEN conns[c]
           ELSE [conns[c] EXCEPT !.open = @ \ {n}, !.inbox = @ \ {n}, !.silent = silently,
                                 !.queued = @ /\ conns[c].from = n,
                                 !.status = IF @ = "syn" THEN "closed" ELSE @]]
    /\ UNCHANGED <<uuidNodes, slowNodes>>

Start(n) ==
    /\ ~node[n].up
    /\ node' = [node EXCEPT ![n] = FreshNode]
    /\ UNCHANGED <<conns, uuidNodes, slowNodes, faults>>

NodeStep(n) ==
    \/ TryConnect(n) \/ TryConnectAgain(n) \/ ConnWritable(n)
    \/ Input(n) \/ InputEof(n) \/ SendPulse(n) \/ DisconnectInactive(n) \/ Start(n)
    \/ \E c \in Conns : Accept(n, c) \/ DropUnidentified(n, c)

Next ==
    \/ \E c \in Conns : Handshake(c)
    \/ \E n \in Nodes :
        \/ NodeStep(n)
        \/ \E c \in Conns : Identify(n, c)
        \/ TryConnectFails(n) \/ InputIncompatible(n) \/ SendPulseFails(n)
        \/ \E silently \in BOOLEAN : Die(n, silently)

Spec == Init /\ [][Next]_vars

\* The timers run every second or every few seconds, and the I/O broker
\* calls the handler of every descriptor that is ready.  Nothing makes a
\* process that has died start again.
Fairness ==
    /\ \A c \in Conns : WF_vars(Handshake(c))
    /\ \A n \in Nodes :
        /\ WF_vars(TryConnect(n)) /\ WF_vars(TryConnectAgain(n)) /\ WF_vars(ConnWritable(n))
        /\ WF_vars(Input(n)) /\ WF_vars(InputEof(n))
        /\ WF_vars(SendPulse(n)) /\ WF_vars(DisconnectInactive(n))
        /\ \A c \in Conns :
            /\ WF_vars(Accept(n, c)) /\ WF_vars(FindNodeUuid(n, c, TRUE) /\ UNCHANGED faults)
            /\ WF_vars(DropUnidentified(n, c))

FairSpec == Spec /\ Fairness

-----------------------------------------------------------------------------
(* Properties *)

\* The values node_set_state, net.c and the kernel give to their fields.
TypeOK ==
    /\ node \in [Nodes -> [up : BOOLEAN, state : States, sock : Conns \cup {NoSock},
                           conn_sock : Conns \cup {NoSock}, active : Nat,
                           ctx : SUBSET Conns]]
    /\ conns \in [Conns -> [from : Nodes, status : {"closed", "syn", "up", "refused"},
                            open : SUBSET Nodes, queued : BOOLEAN, inbox : SUBSET Nodes,
                            silent : BOOLEAN]]
    /\ uuidNodes \subseteq Nodes /\ slowNodes \subseteq Nodes
    /\ faults \in 0 .. MaxFaults

\* active_peers, which node_set_state adjusts on every transition, is the
\* number of nodes that are CONNECTED, whatever disconnects, transition errors
\* and struct resets came before: it is sent in every CTRL_ACTIVE packet and
\* divides the checks among the peers.  And each state has the socket that gets
\* the node out of it: the pending connect() of a PENDING node, a socket to hear
\* CTRL_ACTIVE or end of file on, and none for a node that net_try_connect must
\* connect anew.  (With UUIDs find_node_uuid can make a node CONNECTED before it
\* has a socket.)
StateHasSocket ==
    /\ \A n \in Nodes : node[n].active = IF node[n].state = "CONNECTED" THEN 1 ELSE 0
    /\ uuidNodes = {} => \A n \in Nodes :
         LET me == node[n]
             Usable(c) == c # NoSock /\ n \in conns[c].open
         IN  CASE me.state = "NONE"        -> me.sock = NoSock /\ me.conn_sock = NoSock
               [] me.state = "PENDING"     -> me.sock = NoSock /\ Usable(me.conn_sock)
               [] me.state = "NEGOTIATING" -> Usable(me.sock) \/ Usable(me.conn_sock)
               [] me.state = "CONNECTED"   -> Usable(me.sock)

\* A node that is CONNECTED on a connection whose other end is still open is
\* served by that end: the other node uses the same connection and has not
\* forgotten it in a negotiation.  With UUIDs this fails: find_node_uuid
\* handles a packet of a connection that node_accept has not kept.
BothUseOneSocket ==
    uuidNodes = {} =>
    \A n \in Nodes :
        (node[n].state = "CONNECTED" /\ node[n].sock # NoSock
             /\ Other(n) \in conns[node[n].sock].open)
            => node[Other(n)].sock = node[n].sock

\* Every accepted descriptor is the node's, or waits to be identified.  This does
\* not hold: node_accept neither keeps nor closes a socket that it accepts while
\* the node is PENDING, nor the one net_negotiate_socket selects in place of
\* node->sock, although its comment says "we must close it unconditionally or
\* we'll leak fd's".  Two connecting nodes and no fault are enough.
NoForgottenSocket ==
    \A n \in Nodes, c \in Conns :
        (n \in conns[c].open /\ ~conns[c].queued)
            => c \in {node[n].sock, node[n].conn_sock} \cup node[n].ctx

Linked == /\ node[1].state = "CONNECTED" /\ node[2].state = "CONNECTED"
          /\ node[1].sock = node[2].sock

\* When the faults are over and both processes run, the two nodes get
\* connected over one socket, and stay connected, without anyone's help.
EventuallyLinked == <>[](node[1].up /\ node[2].up) => <>[]Linked

\* A node that has died, even without closing its connections, does not stay
\* CONNECTED in the eyes of the other node, which then takes over its checks.
\* With a data_timeout of 0 only if the connection was closed: nothing in the
\* code tells a node that is silent from one "on a reaaaally slow link".
DeadNodeNoticed ==
    \A n \in Nodes :
        LET Told == node[n].sock # NoSock /\ ~conns[node[n].sock].silent
        IN  (node[n].state = "CONNECTED" /\ ~node[Other(n)].up /\ (n \in slowNodes => Told))
                ~> (node[n].state # "CONNECTED")
=============================================================================
