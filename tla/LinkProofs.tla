----------------------------- MODULE LinkProofs -----------------------------
(***************************************************************************)
(* Proofs about the connections between two nodes, for any number of       *)
(* connections and of faults and any configuration: the count of active    *)
(* peers, the socket that each state needs, and that two nodes that are    *)
(* connected use one socket.                                               *)
(***************************************************************************)
EXTENDS Link, TLAPS


NodeRecords == [up : BOOLEAN, state : States, sock : Conns \cup {NoSock},
                conn_sock : Conns \cup {NoSock}, active : Int, ctx : SUBSET Conns]
ConnRecords == [from : Nodes, status : {"closed", "syn", "up", "refused"}, open : SUBSET Nodes,
                queued : BOOLEAN, inbox : SUBSET Nodes, silent : BOOLEAN]

Worlds == [node : [Nodes -> NodeRecords], conns : [Conns -> ConnRecords]]

\* active_peers counts the nodes that are CONNECTED.
Counting(w) ==
    \A n \in Nodes : w.node[n].active = IF w.node[n].state = "CONNECTED" THEN 1 ELSE 0

\* A node has one socket at most: the one it uses, or the one it connects with.
\* Its end is open, and its state fits.
Socket(w, n) ==
    LET me == w.node[n]
    IN  /\ me.ctx = {}
        /\ me.up \/ me.sock = NoSock
        /\ me.sock = NoSock \/ me.conn_sock = NoSock
        /\ me.sock # NoSock => n \in w.conns[me.sock].open /\ w.conns[me.sock].status # "syn"
        /\ me.conn_sock # NoSock =>
               n \in w.conns[me.conn_sock].open /\ w.conns[me.conn_sock].from = n
        /\ me.state = "NONE" <=> me.sock = NoSock /\ me.conn_sock = NoSock
        /\ me.state = "PENDING" => me.sock = NoSock
        /\ me.state = "CONNECTED" => me.sock # NoSock

Sockets(w) == \A n \in Nodes : Socket(w, n)

\* A connection to accept is open at the end that does not use it yet; one whose
\* handshake is not over carries nothing.
FreshConn(w, c) ==
    LET conn == w.conns[c]
    IN  /\ conn.queued => /\ conn.status = "up" /\ Other(conn.from) \in conn.open
                          /\ w.node[Other(conn.from)].sock # c
        /\ conn.status = "syn" => \A m \in Nodes : m \notin conn.inbox

Fresh(w) == \A c \in Conns : FreshConn(w, c)

\* Who has sent something, or is CONNECTED in the eyes of the other node, uses
\* the connection as long as its end is open.
Serves(w, n, c) ==
    /\ n \in w.conns[c].inbox \/ (w.node[n].state = "CONNECTED" /\ w.node[n].sock = c)
    /\ Other(n) \in w.conns[c].open
    => w.node[Other(n)].sock = c

Served(w) == \A n \in Nodes, c \in Conns : Serves(w, n, c)

Wired(w) == Sockets(w) /\ Fresh(w) /\ Served(w)

Inv(w, uuid) == w \in Worlds /\ Counting(w) /\ (uuid = {} => Wired(w))

IInv == Inv(World, uuidNodes)

-----------------------------------------------------------------------------
(* What the functions of the code do to a world *)

LEMMA OtherNode == \A n \in Nodes : Other(n) \in Nodes /\ Other(n) # n /\ Other(Other(n)) = n
BY DEF Nodes, Other

LEMMA NoSockIsNone == NoSock \notin Conns
BY DEF NoSock, Conns

LEMMA InWorld ==
    ASSUME NEW w \in Worlds
    PROVE  /\ \A n \in Nodes : w.node[n] \in NodeRecords
           /\ \A c \in Conns : w.conns[c] \in ConnRecords
BY DEF Worlds

LEMMA Fields ==
    ASSUME NEW w \in Worlds
    PROVE  /\ \A n \in Nodes : /\ w.node[n].sock \in Conns \cup {NoSock}
                               /\ w.node[n].conn_sock \in Conns \cup {NoSock}
                               /\ w.node[n].state \in States
           /\ \A c \in Conns : w.conns[c].from \in Nodes
<1>1. \A n \in Nodes : w.node[n] \in NodeRecords
  BY Zenon, InWorld
<1>2. \A c \in Conns : w.conns[c] \in ConnRecords
  BY Zenon, InWorld
<1>3. \A c \in Conns : w.conns[c].from \in Nodes
  BY <1>2 DEF ConnRecords
<1>4. QED
  BY <1>1, <1>3 DEF NodeRecords

LEMMA SetNode ==
    ASSUME NEW w \in Worlds, NEW n \in Nodes, NEW r \in NodeRecords
    PROVE  LET v == [w EXCEPT !.node[n] = r]
           IN  /\ v \in Worlds /\ v.conns = w.conns
               /\ v.node[n] = r /\ v.node[Other(n)] = w.node[Other(n)]
BY OtherNode DEF Worlds

LEMMA SetConnection ==
    ASSUME NEW w \in Worlds, NEW c \in Conns, NEW r \in ConnRecords
    PROVE  LET v == [w EXCEPT !.conns[c] = r]
           IN  /\ v \in Worlds /\ v.node = w.node
               /\ v.conns[c] = r /\ \A d \in Conns \ {c} : v.conns[d] = w.conns[d]
BY DEF Worlds

\* From w to v: the fields of node n, the other node keeping its own.
Holds(v, w, n, state, sock, conn_sock) ==
    /\ v.node[n].state = state /\ v.node[n].sock = sock /\ v.node[n].conn_sock = conn_sock
    /\ v.node[n].up = w.node[n].up /\ v.node[n].ctx = w.node[n].ctx
    /\ v.node[Other(n)] = w.node[Other(n)]

\* From w to v: n closes its end of c (of none, if c is NoSock).
Shut(v, w, n, c) ==
    \A d \in Conns :
        /\ v.conns[d].from = w.conns[d].from /\ v.conns[d].status = w.conns[d].status
        /\ v.conns[d].queued = w.conns[d].queued
        /\ \A m \in Nodes :
            /\ m \in v.conns[d].open <=> m \in w.conns[d].open /\ ~(d = c /\ m = n)
            /\ m \in v.conns[d].inbox <=> m \in w.conns[d].inbox /\ ~(d = c /\ m = n)

\* From w to v: n sends CTRL_ACTIVE over c (over none, if c is NoSock).
Sent(v, w, n, c) ==
    \A d \in Conns :
        /\ v.conns[d].from = w.conns[d].from /\ v.conns[d].status = w.conns[d].status
        /\ v.conns[d].queued = w.conns[d].queued
        /\ \A m \in Nodes :
            /\ m \in v.conns[d].open <=> m \in w.conns[d].open
            /\ m \in v.conns[d].inbox <=> \/ m \in w.conns[d].inbox
                                          \/ d = c /\ m = Other(n) /\ m \in w.conns[d].open

LEMMA SetSockEffect ==
    ASSUME NEW w \in Worlds, NEW n \in Nodes, NEW c \in Conns \cup {NoSock}
    PROVE  LET v == SetSock(w, n, c)
           IN  /\ v \in Worlds /\ v.conns = w.conns /\ (Counting(w) => Counting(v))
               /\ Holds(v, w, n, w.node[n].state, c, w.node[n].conn_sock)
<1> DEFINE r == [w.node[n] EXCEPT !.sock = c]
           v == [w EXCEPT !.node[n] = r]
<1>1. /\ r \in NodeRecords /\ r.sock = c /\ r.state = w.node[n].state
      /\ r.conn_sock = w.node[n].conn_sock /\ r.ctx = w.node[n].ctx /\ r.up = w.node[n].up
      /\ r.active = w.node[n].active
  BY DEF Worlds, NodeRecords
<1>2. SetSock(w, n, c) = v
  BY DEF SetSock
<1> HIDE DEF r
<1>3. /\ v \in Worlds /\ v.conns = w.conns
      /\ v.node[n] = r /\ v.node[Other(n)] = w.node[Other(n)]
  BY <1>1, SetNode
<1> HIDE DEF v
<1>4. Counting(w) => Counting(v)
  BY <1>1, <1>3, OtherNode DEF Counting, Nodes, Other
<1>5. QED
  BY <1>1, <1>2, <1>3, <1>4 DEF Holds

LEMMA SetConnEffect ==
    ASSUME NEW w \in Worlds, NEW n \in Nodes, NEW c \in Conns \cup {NoSock}
    PROVE  LET v == SetConn(w, n, c)
           IN  /\ v \in Worlds /\ v.conns = w.conns /\ (Counting(w) => Counting(v))
               /\ Holds(v, w, n, w.node[n].state, w.node[n].sock, c)
<1> DEFINE r == [w.node[n] EXCEPT !.conn_sock = c]
           v == [w EXCEPT !.node[n] = r]
<1>1. /\ r \in NodeRecords /\ r.conn_sock = c /\ r.state = w.node[n].state
      /\ r.sock = w.node[n].sock /\ r.ctx = w.node[n].ctx /\ r.up = w.node[n].up
      /\ r.active = w.node[n].active
  BY DEF Worlds, NodeRecords
<1>2. SetConn(w, n, c) = v
  BY DEF SetConn
<1> HIDE DEF r
<1>3. /\ v \in Worlds /\ v.conns = w.conns
      /\ v.node[n] = r /\ v.node[Other(n)] = w.node[Other(n)]
  BY <1>1, SetNode
<1> HIDE DEF v
<1>4. Counting(w) => Counting(v)
  BY <1>1, <1>3, OtherNode DEF Counting, Nodes, Other
<1>5. QED
  BY <1>1, <1>2, <1>3, <1>4 DEF Holds

\* iobroker_close changes the connection only.
LEMMA CloseEffect ==
    ASSUME NEW w \in Worlds, NEW n \in Nodes, NEW c \in Conns \cup {NoSock}
    PROVE  LET v == iobroker_close(w, n, c)
           IN  v \in Worlds /\ v.node = w.node /\ Shut(v, w, n, c)
<1>1. CASE c = NoSock
  BY <1>1, NoSockIsNone DEF iobroker_close, Shut
<1>2. CASE c \in Conns
  <2> DEFINE r == [w.conns[c] EXCEPT !.open = @ \ {n}, !.inbox = @ \ {n}]
             v == [w EXCEPT !.conns[c] = r]
  <2>1. /\ r \in ConnRecords /\ r.from = w.conns[c].from /\ r.status = w.conns[c].status
        /\ r.queued = w.conns[c].queued /\ r.open = w.conns[c].open \ {n}
        /\ r.inbox = w.conns[c].inbox \ {n}
    <3> DEFINE k == w.conns[c]
    <3>1. k \in ConnRecords
      BY <1>2 DEF Worlds
    <3> HIDE DEF k
    <3>2. /\ r \in ConnRecords /\ r.from = k.from /\ r.status = k.status
          /\ r.queued = k.queued /\ r.open = k.open \ {n} /\ r.inbox = k.inbox \ {n}
      BY Zenon, <3>1 DEF ConnRecords, k
    <3>3. QED
      BY Zenon, <3>2 DEF k
  <2>2. iobroker_close(w, n, c) = v
    BY Zenon, <1>2, NoSockIsNone DEF iobroker_close, Worlds
  <2> HIDE DEF r
  <2>3. /\ v \in Worlds /\ v.node = w.node
        /\ v.conns[c] = r /\ \A d \in Conns \ {c} : v.conns[d] = w.conns[d]
    BY <1>2, <2>1, SetConnection
  <2> HIDE DEF v
  <2>4. QED
    BY <1>2, <2>1, <2>2, <2>3 DEF Shut
<1>3. QED
  BY <1>1, <1>2

\* node_disconnect closes the socket and leaves the node NONE, uncounted.
LEMMA DisconnectEffect ==
    ASSUME NEW w \in Worlds, NEW n \in Nodes
    PROVE  LET v == node_disconnect(w, n)
           IN  /\ v \in Worlds /\ (Counting(w) => Counting(v))
               /\ Holds(v, w, n, "NONE", NoSock, w.node[n].conn_sock)
               /\ Shut(v, w, n, w.node[n].sock)
<1> DEFINE u == iobroker_close(w, n, w.node[n].sock)
           s == SetSock(u, n, NoSock)
           k == IF s.node[n].state = "NONE" THEN s ELSE CountActive(s, n, "NONE")
           r == [k.node[n] EXCEPT !.state = "NONE"]
           v == [k EXCEPT !.node[n] = r]
<1>1. u \in Worlds /\ u.node = w.node /\ Shut(u, w, n, w.node[n].sock)
  <2>1. w.node[n].sock \in Conns \cup {NoSock}
    BY DEF Worlds, NodeRecords
  <2>2. QED
    BY <2>1, CloseEffect
<1>2. node_disconnect(w, n) = v
  BY DEF node_disconnect
<1> HIDE DEF u
<1>3. /\ s \in Worlds /\ s.conns = u.conns /\ (Counting(u) => Counting(s))
      /\ Holds(s, u, n, u.node[n].state, NoSock, u.node[n].conn_sock)
  BY <1>1, SetSockEffect
<1> HIDE DEF s
<1>4. /\ k \in Worlds /\ k.conns = s.conns /\ k.node[Other(n)] = s.node[Other(n)]
      /\ k.node[n].sock = s.node[n].sock /\ k.node[n].conn_sock = s.node[n].conn_sock
      /\ k.node[n].ctx = s.node[n].ctx /\ k.node[n].up = s.node[n].up
      /\ k.node[n].active = IF s.node[n].state = "CONNECTED" THEN s.node[n].active - 1
                                                             ELSE s.node[n].active
  <2> DEFINE q == [s.node[n] EXCEPT !.active = @ - 1]
             x == [s EXCEPT !.node[n] = q]
  <2>1. /\ q \in NodeRecords /\ q.sock = s.node[n].sock /\ q.conn_sock = s.node[n].conn_sock
        /\ q.ctx = s.node[n].ctx /\ q.up = s.node[n].up /\ q.active = s.node[n].active - 1
    <3>1. s.node[n] \in NodeRecords
      BY <1>3 DEF Worlds
    <3>2. QED
      BY <3>1 DEF NodeRecords
  <2>2. k = IF s.node[n].state = "CONNECTED" THEN x ELSE s
    BY DEF CountActive
  <2> HIDE DEF q, k
  <2>3. /\ x \in Worlds /\ x.conns = s.conns
        /\ x.node[n] = q /\ x.node[Other(n)] = s.node[Other(n)]
    BY <1>3, <2>1, SetNode
  <2> HIDE DEF x
  <2>4. QED
    BY <1>3, <2>1, <2>2, <2>3
<1> HIDE DEF k
<1>5. /\ r \in NodeRecords /\ r.state = "NONE" /\ r.sock = k.node[n].sock
      /\ r.conn_sock = k.node[n].conn_sock /\ r.ctx = k.node[n].ctx /\ r.up = k.node[n].up
      /\ r.active = k.node[n].active
  BY <1>4 DEF Worlds, NodeRecords, States
<1> HIDE DEF r
<1>6. /\ v \in Worlds /\ v.conns = k.conns
      /\ v.node[n] = r /\ v.node[Other(n)] = k.node[Other(n)]
  BY <1>4, <1>5, SetNode
<1> HIDE DEF v
<1>7. Counting(w) => Counting(v)
  <2>1. v.node[n].active = IF w.node[n].state = "CONNECTED" THEN w.node[n].active - 1
                                                            ELSE w.node[n].active
    <3>1. s.node[n].active = w.node[n].active /\ s.node[n].state = w.node[n].state
      BY <1>1, <1>3 DEF Holds, Worlds, NodeRecords, SetSock, s
    <3>2. QED
      BY <1>4, <1>5, <1>6, <3>1
  <2>2. v.node[Other(n)] = w.node[Other(n)] /\ v.node[n].state = "NONE"
    BY <1>1, <1>3, <1>4, <1>5, <1>6 DEF Holds
  <2>3. QED
    BY <2>1, <2>2 DEF Counting, Nodes, Other
<1>8. Holds(v, w, n, "NONE", NoSock, w.node[n].conn_sock)
  BY Zenon, <1>1, <1>3, <1>4, <1>5, <1>6 DEF Holds
<1>9. Shut(v, w, n, w.node[n].sock)
  BY <1>1, <1>3, <1>4, <1>6 DEF Shut
<1>10. QED
  BY <1>2, <1>6, <1>7, <1>8, <1>9

LEMMA SendEffect ==
    ASSUME NEW w \in Worlds, NEW n \in Nodes
    PROVE  LET v == node_send_ctrl_active(w, n)
           IN  v \in Worlds /\ v.node = w.node /\ Sent(v, w, n, w.node[n].sock)
<1>1. CASE w.node[n].sock = NoSock
  BY <1>1, NoSockIsNone DEF node_send_ctrl_active, Sent
<1>2. ASSUME NEW c \in Conns, c = w.node[n].sock
      PROVE  /\ node_send_ctrl_active(w, n) \in Worlds
             /\ node_send_ctrl_active(w, n).node = w.node
             /\ Sent(node_send_ctrl_active(w, n), w, n, c)
  <2> DEFINE k == w.conns[c]
             r == [k EXCEPT !.inbox = @ \cup ({Other(n)} \cap k.open)]
             v == [w EXCEPT !.conns[c] = r]
  <2>1. k \in ConnRecords
    BY Zenon, InWorld
  <2>2. node_send_ctrl_active(w, n) = v
    BY Zenon, <1>2, NoSockIsNone DEF node_send_ctrl_active
  <2> HIDE DEF k
  <2>3. /\ r \in ConnRecords /\ r.from = k.from /\ r.status = k.status
        /\ r.queued = k.queued /\ r.open = k.open
        /\ r.inbox = k.inbox \cup ({Other(n)} \cap k.open)
    BY <2>1, OtherNode DEF ConnRecords
  <2> HIDE DEF r
  <2>4. /\ v \in Worlds /\ v.node = w.node
        /\ v.conns[c] = r /\ \A d \in Conns \ {c} : v.conns[d] = w.conns[d]
    BY <2>3, SetConnection
  <2> HIDE DEF v
  <2>5. Sent(v, w, n, c)
    BY <2>3, <2>4 DEF Sent, k
  <2>6. QED
    BY <2>2, <2>4, <2>5
<1>3. w.node[n].sock \in Conns \cup {NoSock}
  BY DEF Worlds, NodeRecords
<1>4. QED
  BY <1>1, <1>2, <1>3

\* node_set_state: an allowed transition, or a disconnect.
LEMMA SetStateEffect ==
    ASSUME NEW w \in Worlds, NEW n \in Nodes, NEW state \in States, w.node[n].state # state,
           TransitionAllowed(w.node[n].state, state)
    PROVE  LET v == node_set_state(w, n, state)
           IN  /\ v \in Worlds /\ (Counting(w) => Counting(v))
               /\ Holds(v, w, n, state, w.node[n].sock, w.node[n].conn_sock)
               /\ IF state = "NEGOTIATING" THEN Sent(v, w, n, w.node[n].sock)
                  ELSE v.conns = w.conns
<1> DEFINE k == CountActive(w, n, state)
           r == [k.node[n] EXCEPT !.state = state]
           v == [k EXCEPT !.node[n] = r]
           x == IF state = "NEGOTIATING" THEN node_send_ctrl_active(v, n) ELSE v
<1>1. w.node[n].state # "CONNECTED"
  BY DEF TransitionAllowed
<1>2. /\ k \in Worlds /\ k.conns = w.conns /\ k.node[Other(n)] = w.node[Other(n)]
      /\ k.node[n].sock = w.node[n].sock /\ k.node[n].conn_sock = w.node[n].conn_sock
      /\ k.node[n].ctx = w.node[n].ctx /\ k.node[n].up = w.node[n].up
      /\ k.node[n].active = IF state = "CONNECTED" THEN w.node[n].active + 1
                                                   ELSE w.node[n].active
  <2> DEFINE q == [w.node[n] EXCEPT !.active = @ + 1]
             y == [w EXCEPT !.node[n] = q]
  <2>1. /\ q \in NodeRecords /\ q.sock = w.node[n].sock /\ q.conn_sock = w.node[n].conn_sock
        /\ q.ctx = w.node[n].ctx /\ q.up = w.node[n].up /\ q.active = w.node[n].active + 1
    BY DEF Worlds, NodeRecords
  <2>2. k = IF state = "CONNECTED" THEN y ELSE w
    BY <1>1 DEF CountActive
  <2> HIDE DEF q, k
  <2>3. /\ y \in Worlds /\ y.conns = w.conns
        /\ y.node[n] = q /\ y.node[Other(n)] = w.node[Other(n)]
    BY <2>1, SetNode
  <2> HIDE DEF y
  <2>4. QED
    BY <2>1, <2>2, <2>3
<1>3. node_set_state(w, n, state) = x
  BY DEF node_set_state
<1> HIDE DEF k
<1>4. /\ r \in NodeRecords /\ r.state = state /\ r.sock = k.node[n].sock
      /\ r.conn_sock = k.node[n].conn_sock /\ r.ctx = k.node[n].ctx /\ r.up = k.node[n].up
      /\ r.active = k.node[n].active
  BY <1>2 DEF Worlds, NodeRecords
<1> HIDE DEF r
<1>5. /\ v \in Worlds /\ v.conns = k.conns
      /\ v.node[n] = r /\ v.node[Other(n)] = k.node[Other(n)]
  BY <1>2, <1>4, SetNode
<1> HIDE DEF v
<1>6. /\ x \in Worlds /\ x.node = v.node
      /\ IF state = "NEGOTIATING" THEN Sent(x, v, n, v.node[n].sock) ELSE x.conns = v.conns
  BY <1>5, SendEffect
<1> HIDE DEF x
<1>7. Counting(w) => Counting(x)
  <2>1. x.node[n].active = (IF state = "CONNECTED" THEN w.node[n].active + 1
                                                  ELSE w.node[n].active)
        /\ x.node[n].state = state /\ x.node[Other(n)] = w.node[Other(n)]
    BY <1>2, <1>4, <1>5, <1>6
  <2>2. QED
    BY <1>1, <2>1 DEF Counting, Nodes, Other
<1>8. Holds(x, w, n, state, w.node[n].sock, w.node[n].conn_sock)
  BY Zenon, <1>2, <1>4, <1>5, <1>6 DEF Holds
<1>9. IF state = "NEGOTIATING" THEN Sent(x, w, n, w.node[n].sock) ELSE x.conns = w.conns
  BY <1>2, <1>4, <1>5, <1>6 DEF Sent
<1>10. QED
  BY <1>3, <1>6, <1>7, <1>8, <1>9

-----------------------------------------------------------------------------
(* The functions keep the types and the count of active peers, UUIDs or not *)

Sound(w) == w \in Worlds /\ Counting(w)

LEMMA SoundState ==
    ASSUME NEW w, Sound(w), NEW n \in Nodes, NEW state \in States
    PROVE  Sound(node_set_state(w, n, state))
<1>1. CASE w.node[n].state = state
  BY <1>1 DEF node_set_state
<1>2. CASE w.node[n].state # state /\ ~TransitionAllowed(w.node[n].state, state)
  <2>1. node_set_state(w, n, state) = node_disconnect(w, n)
    BY <1>2 DEF node_set_state
  <2>2. QED
    BY <2>1, DisconnectEffect DEF Sound
<1>3. CASE w.node[n].state # state /\ TransitionAllowed(w.node[n].state, state)
  BY <1>3, SetStateEffect DEF Sound
<1>4. QED
  BY <1>1, <1>2, <1>3

LEMMA SoundClose ==
    ASSUME NEW w, Sound(w), NEW n \in Nodes, NEW c \in Conns \cup {NoSock}
    PROVE  /\ Sound(iobroker_close(w, n, c)) /\ Sound(SetSock(w, n, c)) /\ Sound(SetConn(w, n, c))
           /\ Sound(node_disconnect(w, n)) /\ Sound(node_send_ctrl_active(w, n))
<1>1. Sound(iobroker_close(w, n, c))
  BY CloseEffect DEF Sound, Counting
<1>2. Sound(SetSock(w, n, c))
  BY SetSockEffect DEF Sound
<1>3. Sound(SetConn(w, n, c))
  BY SetConnEffect DEF Sound
<1>4. Sound(node_disconnect(w, n))
  BY DisconnectEffect DEF Sound
<1>5. Sound(node_send_ctrl_active(w, n))
  BY SendEffect DEF Sound, Counting
<1>6. QED
  BY <1>1, <1>2, <1>3, <1>4, <1>5

LEMMA SoundWritable ==
    ASSUME NEW w, Sound(w), NEW n \in Nodes
    PROVE  Sound(conn_writable(w, n))
<1> DEFINE sd == w.node[n].conn_sock
           old == w.node[n].sock
           w1 == SetConn(SetSock(w, n, sd), n, NoSock)
           sel == net_negotiate_socket(n, sd, old)
           lost == IF sel = sd THEN old ELSE sd
           w2 == SetConn(SetSock(iobroker_close(w, n, lost), n, sel), n, NoSock)
<1>1. sd \in Conns \cup {NoSock} /\ old \in Conns \cup {NoSock}
  BY DEF Sound, Worlds, NodeRecords
<1>2. sel \in Conns \cup {NoSock} /\ lost \in Conns \cup {NoSock}
  BY <1>1 DEF net_negotiate_socket
<1>3. conn_writable(w, n) = IF old # NoSock THEN node_set_state(w2, n, "NEGOTIATING")
                            ELSE IF net_is_connected(w1, n)
                                 THEN node_set_state(w1, n, "NEGOTIATING")
                                 ELSE node_disconnect(w1, n)
  BY DEF conn_writable
<1> HIDE DEF sd, old, sel, lost
<1>4. Sound(w1)
  BY <1>1, SoundClose
<1>5. Sound(w2)
  <2>1. Sound(iobroker_close(w, n, lost))
    BY <1>2, SoundClose
  <2>2. Sound(SetSock(iobroker_close(w, n, lost), n, sel))
    BY <1>2, <2>1, SoundClose
  <2>3. QED
    BY <2>2, SoundClose
<1> HIDE DEF w1, w2
<1>6. "NEGOTIATING" \in States
  BY DEF States
<1>7. QED
  BY Zenon, <1>3, <1>4, <1>5, <1>6, SoundState, SoundClose

LEMMA SoundAccept ==
    ASSUME NEW w, Sound(w), NEW n \in Nodes, NEW c \in Conns
    PROVE  Sound(node_accept(w, n, c))
<1> DEFINE x == SetSock(node_disconnect(w, n), n, c)
           y == iobroker_close(w, n, c)
<1>1. Sound(x) /\ Sound(y)
  BY SoundClose
<1>2. PICK w1 \in {w, x, y} : node_accept(w, n, c) = node_set_state(w1, n, "NEGOTIATING")
  BY DEF node_accept
<1>3. QED
  BY <1>1, <1>2, SoundState DEF States

LEMMA SoundControl ==
    ASSUME NEW w, Sound(w), NEW n \in Nodes, NEW ok
    PROVE  Sound(handle_control(w, n, ok))
BY Zenon, SoundState, SoundClose DEF handle_control, States

LEMMA SoundTaken ==
    ASSUME NEW w, Sound(w), NEW n \in Nodes, NEW c \in Conns
    PROVE  Sound(Taken(w, n, c)) /\ Sound(Forget(w, n, c))
<1>1. Sound(Taken(w, n, c))
  <2> DEFINE r == [w.conns[c] EXCEPT !.inbox = @ \ {n}]
  <2>1. r \in ConnRecords
    BY DEF Sound, Worlds, ConnRecords
  <2>2. Taken(w, n, c) = [w EXCEPT !.conns[c] = r]
    BY DEF Taken
  <2> HIDE DEF r
  <2>3. QED
    BY <2>1, <2>2, SetConnection DEF Sound, Counting
<1>2. Sound(Forget(w, n, c))
  <2> DEFINE r == [w.node[n] EXCEPT !.ctx = @ \ {c}]
             v == [w EXCEPT !.node[n] = r]
  <2>1. r \in NodeRecords /\ r.state = w.node[n].state /\ r.active = w.node[n].active
    BY DEF Sound, Worlds, NodeRecords
  <2>2. Forget(w, n, c) = v
    BY DEF Forget
  <2> HIDE DEF r
  <2>3. v \in Worlds /\ v.node[n] = r /\ v.node[Other(n)] = w.node[Other(n)]
    BY <2>1, SetNode DEF Sound
  <2> HIDE DEF v
  <2>4. QED
    BY <2>1, <2>2, <2>3 DEF Sound, Counting, Nodes, Other
<1>3. QED
  BY <1>1, <1>2

-----------------------------------------------------------------------------
(* The functions keep the wiring when every peer is known by its address *)

LEMMA TwoNodes == \A m, n \in Nodes : m = n \/ m = Other(n)
BY SMTT(30) DEF Nodes, Other

\* What does not touch a node or its socket.
LEMMA SocketKept ==
    ASSUME NEW w \in Worlds, NEW v \in Worlds, NEW m \in Nodes, Socket(w, m),
           v.node[m] = w.node[m],
           \A d \in Conns : d \in {w.node[m].sock, w.node[m].conn_sock} =>
               /\ v.conns[d].from = w.conns[d].from /\ v.conns[d].status = w.conns[d].status
               /\ m \in v.conns[d].open <=> m \in w.conns[d].open
    PROVE  Socket(v, m)
<1>1. w.node[m].sock # NoSock => w.node[m].sock \in Conns
  BY Fields
<1>2. w.node[m].conn_sock # NoSock => w.node[m].conn_sock \in Conns
  BY Fields
<1>3. QED
  BY <1>1, <1>2 DEF Socket

\* A node gives up the socket it has.
LEMMA Leaves ==
    ASSUME NEW w \in Worlds, NEW v \in Worlds, NEW n \in Nodes, Wired(w),
           Holds(v, w, n, "NONE", NoSock, NoSock),
           Shut(v, w, n, IF w.node[n].sock # NoSock THEN w.node[n].sock ELSE w.node[n].conn_sock)
    PROVE  Wired(v)
<1>1. Sockets(v)
  <2>1. Socket(v, n)
    BY DEF Wired, Sockets, Socket, Holds
  <2>2. Socket(v, Other(n))
    BY OtherNode, SocketKept DEF Wired, Sockets, Holds, Shut
  <2>3. QED
    BY Zenon, <2>1, <2>2, TwoNodes DEF Sockets
<1>2. Fresh(v)
  <2> SUFFICES ASSUME NEW d \in Conns PROVE FreshConn(v, d)
    BY Zenon DEF Fresh
  <2>1. /\ FreshConn(w, d) /\ w.conns[d].from \in Nodes
        /\ w.node[n].conn_sock = d => w.conns[d].from = n
    BY Fields, NoSockIsNone DEF Wired, Fresh, Sockets, Socket
  <2>2. QED
    BY <2>1, OtherNode, TwoNodes, NoSockIsNone DEF FreshConn, Holds, Shut
<1>3. Served(v)
  <2> SUFFICES ASSUME NEW m \in Nodes, NEW d \in Conns PROVE Serves(v, m, d)
    BY DEF Served
  <2>1. Serves(w, m, d)
    BY DEF Wired, Served
  <2>2. QED
    BY <2>1, OtherNode, TwoNodes, NoSockIsNone DEF Serves, Holds, Shut
<1>4. QED
  BY <1>1, <1>2, <1>3 DEF Wired

LEMMA WiredDisconnect ==
    ASSUME NEW w \in Worlds, NEW n \in Nodes, Wired(w), w.node[n].conn_sock = NoSock
    PROVE  Wired(node_disconnect(w, n))
BY DisconnectEffect, Leaves

\* A node sends over the socket it uses.
LEMMA WiredSend ==
    ASSUME NEW w \in Worlds, NEW v \in Worlds, NEW n \in Nodes, Wired(w),
           v.node = w.node, Sent(v, w, n, w.node[n].sock)
    PROVE  Wired(v)
<1>1. Sockets(v)
  BY SocketKept DEF Wired, Sockets, Sent
<1>2. Fresh(v)
  <2> SUFFICES ASSUME NEW d \in Conns PROVE FreshConn(v, d)
    BY Zenon DEF Fresh
  <2>1. /\ FreshConn(w, d) /\ w.conns[d].from \in Nodes
        /\ w.node[n].sock = d => w.conns[d].status # "syn"
    BY SMTT(30), Fields, NoSockIsNone DEF Wired, Fresh, Sockets, Socket
  <2>2. QED
    BY <2>1, OtherNode, TwoNodes, NoSockIsNone DEF FreshConn, Sent
<1>3. Served(v)
  <2> SUFFICES ASSUME NEW m \in Nodes, NEW d \in Conns PROVE Serves(v, m, d)
    BY DEF Served
  <2>1. Serves(w, m, d)
    BY DEF Wired, Served
  <2>2. QED
    BY <2>1, OtherNode, TwoNodes, NoSockIsNone DEF Serves, Sent
<1>4. QED
  BY <1>1, <1>2, <1>3 DEF Wired

\* A node closes an end that it does not use.
LEMMA WiredClose ==
    ASSUME NEW w \in Worlds, NEW v \in Worlds, NEW n \in Nodes, NEW c \in Conns, Wired(w),
           v.node = w.node, Shut(v, w, n, c), w.node[n].sock # c, w.node[n].conn_sock # c,
           ~w.conns[c].queued
    PROVE  Wired(v)
<1>1. Sockets(v)
  BY SocketKept DEF Wired, Sockets, Shut
<1>2. Fresh(v)
  <2> SUFFICES ASSUME NEW d \in Conns PROVE FreshConn(v, d)
    BY DEF Fresh
  <2>1. FreshConn(w, d) /\ w.conns[d].from \in Nodes
    BY Fields DEF Wired, Fresh
  <2>2. QED
    BY <2>1, OtherNode, TwoNodes, NoSockIsNone DEF FreshConn, Shut
<1>3. Served(v)
  <2> SUFFICES ASSUME NEW m \in Nodes, NEW d \in Conns PROVE Serves(v, m, d)
    BY DEF Served
  <2>1. Serves(w, m, d)
    BY DEF Wired, Served
  <2>2. QED
    BY <2>1, OtherNode, TwoNodes, NoSockIsNone DEF Serves, Shut
<1>4. QED
  BY <1>1, <1>2, <1>3 DEF Wired

\* A node has a new socket and sends over it.
LEMMA WiredNegotiate ==
    ASSUME NEW w \in Worlds, NEW v \in Worlds, NEW n \in Nodes, NEW c \in Conns, Wired(w), w.node[n].up,
           Holds(v, w, n, "NEGOTIATING", c, NoSock), Sent(v, w, n, c) \/ v.conns = w.conns,
           w.node[n].sock = NoSock, w.node[n].conn_sock \in {c, NoSock},
           n \in w.conns[c].open, w.conns[c].status # "syn",
           w.conns[c].queued => w.conns[c].from = n
    PROVE  Wired(v)
<1>1. PICK k \in {c, NoSock} : Sent(v, w, n, k)
  BY NoSockIsNone DEF Sent
<1>2. Sockets(v)
  <2>1. Socket(v, n)
    <3>1. w.node[n].ctx = {}
      BY Zenon DEF Wired, Sockets, Socket
    <3>2. /\ v.node[n].sock = c /\ v.node[n].conn_sock = NoSock /\ v.node[n].state = "NEGOTIATING"
          /\ v.node[n].ctx = {} /\ v.node[n].up
      BY Zenon, <3>1 DEF Holds
    <3>3. n \in v.conns[c].open /\ v.conns[c].status # "syn"
      BY Zenon, <1>1 DEF Sent
    <3>4. QED
      BY <3>2, <3>3, NoSockIsNone DEF Socket
  <2>2. Socket(v, Other(n))
    BY <1>1, OtherNode, SocketKept DEF Wired, Sockets, Holds, Sent
  <2>3. QED
    BY Zenon, <2>1, <2>2, TwoNodes DEF Sockets
<1>3. Fresh(v)
  <2> SUFFICES ASSUME NEW d \in Conns PROVE FreshConn(v, d)
    BY DEF Fresh
  <2>1. FreshConn(w, d) /\ w.conns[d].from \in Nodes
    BY Fields DEF Wired, Fresh
  <2>2. QED
    BY SMTT(30), <1>1, <2>1, OtherNode, TwoNodes, NoSockIsNone DEF FreshConn, Holds, Sent
<1>4. Served(v)
  <2> SUFFICES ASSUME NEW m \in Nodes, NEW d \in Conns PROVE Serves(v, m, d)
    BY DEF Served
  <2>1. Serves(w, m, d)
    BY Zenon DEF Wired, Served
  <2>2. CASE m = n
    BY <1>1, <2>1, <2>2, OtherNode DEF Serves, Holds, Sent
  <2>3. CASE m = Other(n)
    BY SMTT(30), <1>1, <2>1, <2>3, OtherNode, NoSockIsNone DEF Serves, Holds, Sent
  <2>4. QED
    BY <2>2, <2>3, TwoNodes
<1>5. QED
  BY Zenon, <1>2, <1>3, <1>4 DEF Wired

\* A node changes state only.
LEMMA WiredState ==
    ASSUME NEW w \in Worlds, NEW v \in Worlds, NEW n \in Nodes, NEW state, Wired(w), w.node[n].up,
           Holds(v, w, n, state, w.node[n].sock, w.node[n].conn_sock), v.conns = w.conns,
           \/ w.node[n].state = "PENDING" /\ state = "NEGOTIATING"
           \/ /\ w.node[n].sock # NoSock /\ state = "CONNECTED"
              /\ Other(n) \in w.conns[w.node[n].sock].open
                     => w.node[Other(n)].sock = w.node[n].sock
    PROVE  Wired(v)
<1>1. Sockets(v)
  <2>1. Socket(v, n)
    <3>1. Socket(w, n)
      BY Zenon DEF Wired, Sockets
    <3>2. QED
      BY Zenon, <3>1, Fields, NoSockIsNone DEF Socket, Holds
  <2>2. Socket(v, Other(n))
    BY Zenon, OtherNode, SocketKept DEF Wired, Sockets, Holds
  <2>3. QED
    BY Zenon, <2>1, <2>2, TwoNodes DEF Sockets
<1>2. Fresh(v)
  <2> SUFFICES ASSUME NEW d \in Conns PROVE FreshConn(v, d)
    BY Zenon DEF Fresh
  <2>1. FreshConn(w, d) /\ w.conns[d].from \in Nodes
    BY Zenon, Fields DEF Wired, Fresh
  <2>2. QED
    BY <2>1, OtherNode, TwoNodes DEF FreshConn, Holds
<1>3. Served(v)
  <2> SUFFICES ASSUME NEW m \in Nodes, NEW d \in Conns PROVE Serves(v, m, d)
    BY Zenon DEF Served
  <2>1. Serves(w, m, d)
    BY DEF Wired, Served
  <2>2. QED
    BY <2>1, OtherNode, TwoNodes DEF Serves, Holds
<1>4. QED
  BY Zenon, <1>1, <1>2, <1>3 DEF Wired

\* conn_writable, once connect() has completed.
LEMMA WiredWritable ==
    ASSUME NEW w \in Worlds, NEW n \in Nodes, Wired(w), w.node[n].up, w.node[n].conn_sock # NoSock,
           w.conns[w.node[n].conn_sock].status # "syn"
    PROVE  Wired(conn_writable(w, n))
<1> DEFINE sd == w.node[n].conn_sock
           s == SetSock(w, n, sd)
           w1 == SetConn(s, n, NoSock)
<1>1. /\ w.node[n].sock = NoSock /\ n \in w.conns[sd].open /\ w.conns[sd].from = n
      /\ w.node[n].state \in {"PENDING", "NEGOTIATING"} /\ sd \in Conns
  BY Zenon, Fields DEF Wired, Sockets, Socket, States
<1>2. conn_writable(w, n) = IF net_is_connected(w1, n) THEN node_set_state(w1, n, "NEGOTIATING")
                            ELSE node_disconnect(w1, n)
  BY Zenon, <1>1 DEF conn_writable
<1> HIDE DEF sd
<1>3. s \in Worlds /\ s.conns = w.conns /\ Holds(s, w, n, w.node[n].state, sd, w.node[n].conn_sock)
  BY <1>1, SetSockEffect
<1> HIDE DEF s
<1>4. w1 \in Worlds /\ w1.conns = s.conns /\ Holds(w1, s, n, s.node[n].state, s.node[n].sock, NoSock)
  BY Zenon, <1>3, SetConnEffect
<1> HIDE DEF w1
<1>5. w1.conns = w.conns /\ Holds(w1, w, n, w.node[n].state, sd, NoSock)
  BY Zenon, <1>3, <1>4 DEF Holds
<1>6. Wired(node_disconnect(w1, n))
  <2> DEFINE v == node_disconnect(w1, n)
  <2>1. /\ v \in Worlds /\ Holds(v, w1, n, "NONE", NoSock, w1.node[n].conn_sock)
        /\ Shut(v, w1, n, w1.node[n].sock)
    BY Zenon, <1>4, DisconnectEffect
  <2> HIDE DEF v
  <2>2. Holds(v, w, n, "NONE", NoSock, NoSock)
    BY Zenon, <1>5, <2>1 DEF Holds
  <2>3. Shut(v, w, n, sd)
    BY SMTT(30), <1>5, <2>1 DEF Holds, Shut
  <2>4. sd = IF w.node[n].sock # NoSock THEN w.node[n].sock ELSE w.node[n].conn_sock
    BY <1>1 DEF sd
  <2>5. QED
    BY Zenon, <2>1, <2>2, <2>3, <2>4, Leaves DEF v
<1>7. Wired(node_set_state(w1, n, "NEGOTIATING"))
  <2> DEFINE v == node_set_state(w1, n, "NEGOTIATING")
  <2>1. /\ v \in Worlds /\ Holds(v, w1, n, "NEGOTIATING", w1.node[n].sock, w1.node[n].conn_sock)
        /\ Sent(v, w1, n, w1.node[n].sock) \/ v.conns = w1.conns
    <3>1. CASE w.node[n].state = "NEGOTIATING"
      <4>1. v = w1
        BY Zenon, <1>5, <3>1 DEF node_set_state, Holds
      <4> HIDE DEF v
      <4>2. QED
        BY Zenon, <1>4, <1>5, <3>1, <4>1 DEF Holds
    <3>2. CASE w.node[n].state = "PENDING"
      <4>1. w1.node[n].state = "PENDING"
        BY Zenon, <1>5, <3>2 DEF Holds
      <4>2. QED
        BY Zenon, <1>4, <4>1, SetStateEffect DEF TransitionAllowed, States
    <3>3. QED
      BY <1>1, <3>1, <3>2
  <2> HIDE DEF v
  <2>2. /\ Holds(v, w, n, "NEGOTIATING", sd, NoSock)
        /\ Sent(v, w, n, sd) \/ v.conns = w.conns
    <3>1. w1.node[n].sock = sd /\ w1.node[n].conn_sock = NoSock
      BY Zenon, <1>5 DEF Holds
    <3>2. Holds(v, w, n, "NEGOTIATING", sd, NoSock)
      BY Zenon, <1>5, <2>1, <3>1 DEF Holds
    <3>3. Sent(v, w1, n, sd) => Sent(v, w, n, sd)
      BY Zenon, <1>5 DEF Sent
    <3>4. QED
      BY Zenon, <1>5, <2>1, <3>1, <3>2, <3>3
  <2>3. w.node[n].conn_sock = sd /\ w.conns[sd].status # "syn"
    BY DEF sd
  <2>4. Wired(v)
    BY Zenon, <1>1, <2>1, <2>2, <2>3, WiredNegotiate
  <2>5. QED
    BY Zenon, <2>4 DEF v
<1>8. QED
  BY Zenon, <1>2, <1>6, <1>7

\* node_accept of a connection that the node does not use.
LEMMA WiredAccept ==
    ASSUME NEW w \in Worlds, NEW n \in Nodes, NEW c \in Conns, Wired(w), w.node[n].up,
           w.node[n].sock # c, w.node[n].conn_sock # c,
           n \in w.conns[c].open, w.conns[c].status = "up", ~w.conns[c].queued
    PROVE  Wired(node_accept(w, n, c))
<1> DEFINE me == w.node[n]
<1>1. CASE me.state = "NONE"
  <2> DEFINE d == node_disconnect(w, n)
             s == SetSock(d, n, c)
             v == node_set_state(s, n, "NEGOTIATING")
  <2>1. node_accept(w, n, c) = v
    BY Zenon, <1>1 DEF node_accept
  <2>2. me.sock = NoSock /\ me.conn_sock = NoSock
    BY Zenon, <1>1 DEF Wired, Sockets, Socket
  <2>3. /\ d \in Worlds /\ Holds(d, w, n, "NONE", NoSock, NoSock) /\ Shut(d, w, n, NoSock)
    BY Zenon, <2>2, DisconnectEffect
  <2> HIDE DEF d
  <2>4. s \in Worlds /\ s.conns = d.conns /\ Holds(s, d, n, d.node[n].state, c, d.node[n].conn_sock)
    BY Zenon, <2>3, SetSockEffect
  <2> HIDE DEF s
  <2>5. Holds(s, w, n, "NONE", c, NoSock)
    BY Zenon, <2>3, <2>4 DEF Holds
  <2>6. /\ v \in Worlds /\ Holds(v, s, n, "NEGOTIATING", s.node[n].sock, s.node[n].conn_sock)
        /\ Sent(v, s, n, s.node[n].sock)
    <3>1. s.node[n].state = "NONE"
      BY <2>5 DEF Holds
    <3>2. "NEGOTIATING" \in States /\ TransitionAllowed("NONE", "NEGOTIATING")
      BY Zenon DEF States, TransitionAllowed
    <3>3. QED
      BY Zenon, <2>4, <3>1, <3>2, SetStateEffect
  <2> HIDE DEF v
  <2>7. Holds(v, w, n, "NEGOTIATING", c, NoSock)
    BY Zenon, <2>5, <2>6 DEF Holds
  <2>8. Sent(v, w, n, c)
    <3>1. Sent(v, s, n, c)
      BY <2>5, <2>6 DEF Holds
    <3>2. QED
      BY <2>3, <2>4, <3>1, NoSockIsNone DEF Sent, Shut
  <2>9. QED
    BY <2>1, <2>2, <2>6, <2>7, <2>8, WiredNegotiate
<1>2. CASE me.state # "NONE" /\ me.sock # NoSock
  <2> DEFINE w1 == IF net_negotiate_socket(n, me.sock, c) # c THEN iobroker_close(w, n, c) ELSE w
  <2>1. node_accept(w, n, c) = node_set_state(w1, n, "NEGOTIATING")
    BY Zenon, <1>2 DEF node_accept
  <2>2. w1 \in Worlds /\ w1.node = w.node /\ Wired(w1)
    BY Zenon, CloseEffect, WiredClose
  <2> HIDE DEF w1
  <2>3. me.conn_sock = NoSock /\ me.state \in {"NEGOTIATING", "CONNECTED"}
    BY <1>2, Fields DEF Wired, Sockets, Socket, States
  <2>4. CASE me.state = "NEGOTIATING"
    BY <2>1, <2>2, <2>4 DEF node_set_state
  <2>5. CASE me.state = "CONNECTED"
    <3>1. node_set_state(w1, n, "NEGOTIATING") = node_disconnect(w1, n)
      BY <2>2, <2>5 DEF node_set_state, TransitionAllowed
    <3>2. QED
      BY <2>1, <2>2, <2>3, <3>1, WiredDisconnect
  <2>6. QED
    BY <2>3, <2>4, <2>5
<1>3. CASE me.state # "NONE" /\ me.sock = NoSock
  <2> DEFINE v == node_set_state(w, n, "NEGOTIATING")
  <2>1. node_accept(w, n, c) = v
    BY <1>3 DEF node_accept
  <2>2. CASE me.state = "NEGOTIATING"
    BY Zenon, <2>1, <2>2 DEF node_set_state
  <2>3. CASE me.state = "PENDING"
    <3>1. /\ v \in Worlds /\ Holds(v, w, n, "NEGOTIATING", me.sock, me.conn_sock)
          /\ Sent(v, w, n, me.sock)
      BY Zenon, <2>3, SetStateEffect DEF TransitionAllowed, States
    <3>2. v.conns = w.conns
      BY <1>3, <2>3 DEF node_set_state, node_send_ctrl_active, TransitionAllowed, CountActive, Worlds, NodeRecords
    <3> HIDE DEF v
    <3>3. QED
      BY Zenon, <2>1, <2>3, <3>1, <3>2, WiredState
  <2>4. me.state \in {"NEGOTIATING", "PENDING"}
    BY Zenon, <1>3, Fields DEF Wired, Sockets, Socket, States
  <2>5. QED
    BY <2>2, <2>3, <2>4
<1>4. QED
  BY Zenon, <1>1, <1>2, <1>3

\* handle_control for a CTRL_ACTIVE packet that the socket held.
LEMMA WiredControl ==
    ASSUME NEW w \in Worlds, NEW n \in Nodes, NEW ok, Wired(w), w.node[n].up, w.node[n].sock # NoSock,
           n \in w.conns[w.node[n].sock].inbox
    PROVE  Wired(handle_control(Taken(w, n, w.node[n].sock), n, ok))
<1> DEFINE c == w.node[n].sock
           t == Taken(w, n, c)
           v == node_set_state(t, n, "CONNECTED")
<1>1. /\ c \in Conns /\ w.node[n].conn_sock = NoSock
      /\ w.node[n].state \in {"NEGOTIATING", "CONNECTED"}
      /\ Other(n) \in w.conns[c].open => w.node[Other(n)].sock = c
  <2>1. Socket(w, n) /\ c \in Conns /\ w.node[n].state \in States
    BY Zenon, Fields DEF Wired, Sockets
  <2>2. Serves(w, n, c)
    BY Zenon, <2>1 DEF Wired, Served
  <2>3. QED
    BY Zenon, <2>1, <2>2 DEF Socket, Serves, States
<1>2. /\ t \in Worlds /\ t.node = w.node
      /\ \A d \in Conns : /\ t.conns[d].from = w.conns[d].from
                          /\ t.conns[d].status = w.conns[d].status
                          /\ t.conns[d].queued = w.conns[d].queued
                          /\ t.conns[d].open = w.conns[d].open
                          /\ \A m \in t.conns[d].inbox : m \in w.conns[d].inbox
  <2> DEFINE r == [w.conns[c] EXCEPT !.inbox = @ \ {n}]
  <2>1. /\ r \in ConnRecords /\ r.from = w.conns[c].from /\ r.status = w.conns[c].status
        /\ r.queued = w.conns[c].queued /\ r.open = w.conns[c].open
        /\ r.inbox = w.conns[c].inbox \ {n}
    BY <1>1 DEF Worlds, ConnRecords
  <2>2. t = [w EXCEPT !.conns[c] = r]
    BY DEF Taken
  <2> HIDE DEF r, t, c
  <2>3. /\ t \in Worlds /\ t.node = w.node
        /\ t.conns[c] = r /\ \A d \in Conns \ {c} : t.conns[d] = w.conns[d]
    BY <1>1, <2>1, <2>2, SetConnection
  <2>4. QED
    BY Zenon, <1>1, <2>1, <2>3
<1> HIDE DEF t
<1>3. Wired(t)
  <2>1. Sockets(t)
    <3> SUFFICES ASSUME NEW m \in Nodes PROVE Socket(t, m)
      BY Zenon DEF Sockets
    <3>1. Socket(w, m)
      BY Zenon DEF Wired, Sockets
    <3>2. /\ t \in Worlds /\ t.node[m] = w.node[m]
          /\ \A d \in Conns : d \in {w.node[m].sock, w.node[m].conn_sock} =>
               /\ t.conns[d].from = w.conns[d].from /\ t.conns[d].status = w.conns[d].status
               /\ m \in t.conns[d].open <=> m \in w.conns[d].open
      BY Zenon, <1>2
    <3>3. QED
      BY Zenon, <3>1, <3>2, SocketKept
  <2>2. Fresh(t)
    BY <1>2 DEF Wired, Fresh, FreshConn
  <2>3. Served(t)
    BY <1>2 DEF Wired, Served, Serves
  <2>4. QED
    BY Zenon, <2>1, <2>2, <2>3 DEF Wired
<1>4. Wired(node_disconnect(t, n))
  BY Zenon, <1>1, <1>2, <1>3, WiredDisconnect
<1>5. w.node[n].state = "NEGOTIATING" => Wired(v)
  <2> SUFFICES ASSUME w.node[n].state = "NEGOTIATING" PROVE Wired(v)
    OBVIOUS
  <2>1. /\ v \in Worlds /\ Holds(v, t, n, "CONNECTED", t.node[n].sock, t.node[n].conn_sock)
        /\ v.conns = t.conns
    BY <1>2, SetStateEffect DEF TransitionAllowed, States
  <2> HIDE DEF v
  <2>2. QED
    <3>1. /\ t.node[n].sock # NoSock /\ t.node[n].up
          /\ Other(n) \in t.conns[t.node[n].sock].open => t.node[Other(n)].sock = t.node[n].sock
      BY Zenon, <1>1, <1>2 DEF c
    <3>2. QED
      BY Zenon, <1>2, <1>3, <2>1, <3>1, WiredState
<1>6. QED
  BY Zenon, <1>1, <1>2, <1>3, <1>4, <1>5 DEF handle_control, t

-----------------------------------------------------------------------------
(* The actions *)

LEMMA Becomes ==
    ASSUME NEW w \in Worlds, Become(w)
    PROVE  World' = w /\ uuidNodes' = uuidNodes
BY DEF Become, World, Worlds

LEMMA StepBecomes ==
    ASSUME NEW w, Sound(w), Become(w), uuidNodes = {} => Wired(w)
    PROVE  Inv(World', uuidNodes')
BY Becomes DEF Sound, Inv

LEMMA ThisWorld == IInv => /\ World \in Worlds /\ Sound(World)
                           /\ World.node = node /\ World.conns = conns
                           /\ uuidNodes = {} => Wired(World)
BY Zenon DEF IInv, Inv, Sound, World

LEMMA TryConnectStep ==
    ASSUME IInv, NEW n \in Nodes, TryConnect(n)
    PROVE  Inv(World', uuidNodes')
<1> DEFINE w1 == node_disconnect(World, n)
           r(c) == [NoConn EXCEPT !.from = n, !.status = "syn", !.open = {n}]
           w2(c) == [w1 EXCEPT !.conns[c] = r(c)]
           w3(c) == SetConn(w2(c), n, c)
           v(c) == node_set_state(w3(c), n, "PENDING")
<1>1. /\ World \in Worlds /\ Sound(World) /\ World.node = node /\ World.conns = conns
      /\ uuidNodes = {} => Wired(World)
  BY ThisWorld
<1>2. node[n].conn_sock = NoSock
  BY DEF TryConnect
<1>3. PICK c \in Conns : ~InUse(c) /\ Become(v(c))
  BY Zenon DEF TryConnect
<1>4. /\ Sound(w1) /\ w1 \in Worlds /\ Holds(w1, World, n, "NONE", NoSock, NoSock)
      /\ Shut(w1, World, n, node[n].sock) /\ (uuidNodes = {} => Wired(w1))
  BY <1>1, <1>2, DisconnectEffect, WiredDisconnect DEF Sound
<1> HIDE DEF w1
<1>5. /\ r(c) \in ConnRecords /\ r(c).from = n /\ r(c).status = "syn" /\ r(c).open = {n}
      /\ r(c).inbox = {} /\ r(c).queued = FALSE
  BY Zenon DEF NoConn, ConnRecords, Nodes
<1> HIDE DEF r
<1>6. /\ w2(c) \in Worlds /\ w2(c).node = w1.node
      /\ w2(c).conns[c] = r(c) /\ \A d \in Conns \ {c} : w2(c).conns[d] = w1.conns[d]
  BY <1>4, <1>5, SetConnection
<1> HIDE DEF w2
<1>7. Sound(w2(c))
  BY Zenon, <1>4, <1>6 DEF Sound, Counting
<1>8. /\ w3(c) \in Worlds /\ w3(c).conns = w2(c).conns /\ Sound(w3(c))
      /\ Holds(w3(c), w2(c), n, w2(c).node[n].state, w2(c).node[n].sock, c)
  BY Zenon, <1>6, <1>7, SetConnEffect DEF Sound
<1> HIDE DEF w3
<1>9. Holds(w3(c), w1, n, "NONE", NoSock, c)
  BY Zenon, <1>4, <1>6, <1>8 DEF Holds
<1>10. /\ v(c) \in Worlds /\ v(c).conns = w3(c).conns /\ Sound(v(c))
       /\ Holds(v(c), w3(c), n, "PENDING", w3(c).node[n].sock, w3(c).node[n].conn_sock)
  <2>1. w3(c).node[n].state = "NONE"
    BY <1>9 DEF Holds
  <2>2. QED
    BY Zenon, <1>8, <2>1, SetStateEffect DEF Sound, States, TransitionAllowed
<1> HIDE DEF v
<1>11. ASSUME uuidNodes = {} PROVE Wired(v(c))
  <2> DEFINE x == v(c)
  <2>a. Holds(x, w1, n, "PENDING", NoSock, c)
    BY Zenon, <1>9, <1>10 DEF Holds
  <2>b. x.conns = w2(c).conns
    BY Zenon, <1>8, <1>10
  <2>c. Wired(w1) /\ x \in Worlds
    BY Zenon, <1>4, <1>10, <1>11
  <2>1. /\ Wired(w1) /\ x \in Worlds /\ Holds(x, w1, n, "PENDING", NoSock, c)
        /\ \A d \in Conns \ {c} : x.conns[d] = w1.conns[d]
        /\ x.conns[c].from = n /\ x.conns[c].status = "syn" /\ x.conns[c].open = {n}
        /\ x.conns[c].inbox = {} /\ x.conns[c].queued = FALSE
    BY Zenon, <1>5, <1>6, <2>a, <2>b, <2>c
  <2>2. w1.node[Other(n)].sock # c /\ w1.node[Other(n)].conn_sock # c
    BY <1>1, <1>3, <1>4, OtherNode DEF InUse, Holds
  <2> HIDE DEF x
  <2>3. Sockets(x)
    <3>1. Socket(x, n)
      BY Zenon, <2>1, <1>4, NoSockIsNone DEF Wired, Sockets, Socket, Holds
    <3>2. Socket(x, Other(n))
      <4>1. /\ Other(n) \in Nodes /\ Socket(w1, Other(n))
            /\ x.node[Other(n)] = w1.node[Other(n)]
        BY <2>1, OtherNode DEF Wired, Sockets, Holds
      <4>2. \A d \in Conns : d \in {w1.node[Other(n)].sock, w1.node[Other(n)].conn_sock} =>
              x.conns[d] = w1.conns[d]
        BY <2>1, <2>2
      <4>3. QED
        <5>1. \A d \in Conns : d \in {w1.node[Other(n)].sock, w1.node[Other(n)].conn_sock} =>
                /\ x.conns[d].from = w1.conns[d].from /\ x.conns[d].status = w1.conns[d].status
                /\ Other(n) \in x.conns[d].open <=> Other(n) \in w1.conns[d].open
          BY Zenon, <4>2
        <5>2. x \in Worlds /\ w1 \in Worlds
          BY Zenon, <1>4, <2>1
        <5>3. QED
          BY Zenon, <4>1, <5>1, <5>2, SocketKept
    <3>3. QED
      BY <3>1, <3>2, TwoNodes DEF Sockets
  <2>d. \A m \in Nodes, d \in Conns :
          x.node[m].sock = d \/ w1.node[m].sock = d => x.node[m] = w1.node[m]
    <3>1. x.node[n].sock = NoSock /\ w1.node[n].sock = NoSock
      BY Zenon, <1>4, <2>1 DEF Holds
    <3>2. x.node[Other(n)] = w1.node[Other(n)]
      BY Zenon, <2>1 DEF Holds
    <3>3. QED
      BY Zenon, <3>1, <3>2, TwoNodes, NoSockIsNone
  <2>4. Fresh(x)
    <3> SUFFICES ASSUME NEW d \in Conns PROVE FreshConn(x, d)
      BY Zenon DEF Fresh
    <3>1. FreshConn(w1, d) /\ w1.conns[d].from \in Nodes
      BY Zenon, <1>4, <2>1, Fields DEF Wired, Fresh
    <3>2. CASE d = c
      BY Zenon, <2>1, <3>2 DEF FreshConn
    <3>3. CASE d # c
      <4>1. x.conns[d] = w1.conns[d]
        BY Zenon, <2>1, <3>3
      <4>2. LET m == Other(w1.conns[d].from) IN x.node[m].sock = d => w1.node[m].sock = d
        BY Zenon, <2>d, <3>1, OtherNode
      <4>3. QED
        BY Zenon, <3>1, <4>1, <4>2 DEF FreshConn
    <3>4. QED
      BY <3>2, <3>3
  <2>5. Served(x)
    <3> SUFFICES ASSUME NEW m \in Nodes, NEW d \in Conns PROVE Serves(x, m, d)
      BY Zenon DEF Served
    <3>1. Serves(w1, m, d) /\ w1.node[n].sock = NoSock
      BY Zenon, <1>4, <2>1 DEF Wired, Served, Holds
    <3>2. CASE d = c
      BY <2>1, <2>2, <3>2, OtherNode, TwoNodes, NoSockIsNone DEF Serves, Holds
    <3>3. CASE d # c
      <4>1. x.conns[d] = w1.conns[d]
        BY Zenon, <2>1, <3>3
      <4>2. QED
        BY Zenon, <2>d, <3>1, <4>1, OtherNode DEF Serves
    <3>4. QED
      BY <3>2, <3>3
  <2>6. QED
    BY Zenon, <2>3, <2>4, <2>5 DEF Wired, x
<1>12. QED
  BY Zenon, <1>3, <1>10, <1>11, StepBecomes

LEMMA TryConnectAgainStep ==
    ASSUME IInv, NEW n \in Nodes, TryConnectAgain(n)
    PROVE  Inv(World', uuidNodes')
<1> DEFINE c == node[n].conn_sock
           x == node_set_state(World, n, "PENDING")
           y == node_disconnect(SetConn(iobroker_close(World, n, c), n, NoSock), n)
<1>1. Sound(World) /\ World \in Worlds /\ World.node = node /\ (uuidNodes = {} => Wired(World))
  BY Zenon, ThisWorld
<1>2. c \in Conns
  BY Zenon, <1>1, Fields DEF TryConnectAgain
<1>3. uuidNodes # {}
  BY Zenon, <1>1 DEF TryConnectAgain, Wired, Sockets, Socket
<1>4. Become(x) \/ Become(y)
  BY DEF TryConnectAgain
<1>5. Sound(x)
  BY <1>1, SoundState DEF States
<1>6. Sound(y)
  BY Zenon, <1>1, <1>2, SoundClose
<1>7. QED
  BY <1>3, <1>4, <1>5, <1>6, StepBecomes

LEMMA HandshakeStep ==
    ASSUME IInv, NEW c \in Conns, Handshake(c)
    PROVE  Inv(World', uuidNodes')
<1> DEFINE to == Other(conns[c].from)
           r == IF node[to].up
                THEN [conns[c] EXCEPT !.status = "up", !.open = @ \cup {to}, !.queued = TRUE]
                ELSE [conns[c] EXCEPT !.status = "refused"]
           v == [World EXCEPT !.conns[c] = r]
<1>1. /\ World \in Worlds /\ Sound(World) /\ World.node = node /\ World.conns = conns
      /\ uuidNodes = {} => Wired(World)
  BY ThisWorld
<1>2. conns[c] \in ConnRecords /\ to \in Nodes
  BY <1>1, Fields, OtherNode DEF Worlds
<1>3. /\ r \in ConnRecords /\ r.from = conns[c].from /\ r.inbox = conns[c].inbox
      /\ IF node[to].up THEN r.status = "up" /\ r.open = conns[c].open \cup {to} /\ r.queued = TRUE
         ELSE r.status = "refused" /\ r.open = conns[c].open /\ r.queued = conns[c].queued
  BY Zenon, <1>2 DEF ConnRecords
<1>4. World' = v /\ uuidNodes' = uuidNodes /\ conns[c].status = "syn"
  BY DEF Handshake, World
<1> HIDE DEF r
<1>5. /\ v \in Worlds /\ v.node = World.node
      /\ v.conns[c] = r /\ \A d \in Conns \ {c} : v.conns[d] = World.conns[d]
  BY <1>1, <1>3, SetConnection
<1> HIDE DEF v, to
<1>6. Counting(v)
  BY <1>1, <1>5 DEF Sound, Counting
<1>7. ASSUME uuidNodes = {} PROVE Wired(v)
  <2> DEFINE w == World
  <2>1. /\ Wired(w) /\ w \in Worlds /\ w.conns[c].status = "syn" /\ v.node = w.node
        /\ \A d \in Conns \ {c} : v.conns[d] = w.conns[d]
        /\ v.conns[c].from = w.conns[c].from /\ v.conns[c].inbox = w.conns[c].inbox
        /\ v.conns[c].status # "syn" /\ to = Other(w.conns[c].from)
        /\ \/ /\ v.conns[c].queued = w.conns[c].queued /\ v.conns[c].open = w.conns[c].open
              /\ v.conns[c].status = "refused"
           \/ /\ v.conns[c].queued = TRUE /\ v.conns[c].open = w.conns[c].open \cup {to}
              /\ v.conns[c].status = "up"
    BY Zenon, <1>1, <1>3, <1>4, <1>5, <1>7 DEF to
  <2> HIDE DEF w
  <2>2. \A n \in Nodes : w.node[n].sock # c /\ n \notin w.conns[c].inbox
    <3> SUFFICES ASSUME NEW n \in Nodes PROVE w.node[n].sock # c /\ n \notin w.conns[c].inbox
      BY Zenon
    <3>1. Socket(w, n) /\ FreshConn(w, c)
      BY Zenon, <2>1 DEF Wired, Sockets, Fresh
    <3>2. QED
      BY Zenon, <2>1, <3>1, NoSockIsNone DEF Socket, FreshConn
  <2>3. ~w.conns[c].queued
    BY Zenon, <2>1 DEF Wired, Fresh, FreshConn
  <2>4. \A n \in Nodes : w.node[n].conn_sock = c => w.conns[c].from = n
    <3> SUFFICES ASSUME NEW n \in Nodes, w.node[n].conn_sock = c PROVE w.conns[c].from = n
      BY Zenon
    <3>1. Socket(w, n)
      BY <2>1 DEF Wired, Sockets
    <3>2. QED
      BY Zenon, <3>1, NoSockIsNone DEF Socket
  <2>5. Sockets(v)
    <3> SUFFICES ASSUME NEW m \in Nodes PROVE Socket(v, m)
      BY Zenon DEF Sockets
    <3>1. CASE w.node[m].conn_sock # c
      <4>1. Socket(w, m) /\ v.node[m] = w.node[m]
        BY Zenon, <2>1 DEF Wired, Sockets
      <4>2. \A d \in Conns : d \in {w.node[m].sock, w.node[m].conn_sock} => v.conns[d] = w.conns[d]
        BY Zenon, <2>1, <2>2, <3>1
      <4>3. QED
        BY <1>5, <2>1, <4>1, <4>2, SocketKept
    <3>2. CASE w.node[m].conn_sock = c
      <4>1. m \in w.conns[c].open /\ w.conns[c].from = m /\ w.node[m].sock = NoSock
            /\ Socket(w, m)
        BY Zenon, <2>1, <3>2, NoSockIsNone DEF Wired, Sockets, Socket
      <4>2. m \in v.conns[c].open
        BY Zenon, <2>1, <4>1
      <4>3. QED
        BY Zenon, <1>5, <2>1, <3>2, <4>1, <4>2 DEF Socket
    <3>3. QED
      BY <3>1, <3>2
  <2>6. Fresh(v)
    <3> SUFFICES ASSUME NEW d \in Conns PROVE FreshConn(v, d)
      BY DEF Fresh
    <3>1. FreshConn(w, d)
      BY Zenon, <2>1 DEF Wired, Fresh
    <3>2. QED
      BY Zenon, <1>2, <2>1, <2>2, <2>3, <3>1 DEF FreshConn
  <2>7. Served(v)
    <3> SUFFICES ASSUME NEW m \in Nodes, NEW d \in Conns PROVE Serves(v, m, d)
      BY Zenon DEF Served
    <3>1. Serves(w, m, d)
      BY Zenon, <2>1 DEF Wired, Served
    <3>2. QED
      BY <2>1, <2>2, <3>1 DEF Serves
  <2>8. QED
    BY Zenon, <2>5, <2>6, <2>7 DEF Wired
<1>8. QED
  BY Zenon, <1>4, <1>5, <1>6, <1>7 DEF Inv

LEMMA ConnWritableStep ==
    ASSUME IInv, NEW n \in Nodes, ConnWritable(n)
    PROVE  Inv(World', uuidNodes')
<1> DEFINE v == conn_writable(World, n)
<1>1. /\ World \in Worlds /\ Sound(World) /\ World.node = node /\ World.conns = conns
      /\ uuidNodes = {} => Wired(World)
  BY ThisWorld
<1>2. /\ Become(v) /\ World.node[n].conn_sock # NoSock /\ World.node[n].up
      /\ World.conns[World.node[n].conn_sock].status # "syn"
  BY Zenon, <1>1 DEF ConnWritable
<1>3. Sound(v) /\ (uuidNodes = {} => Wired(v))
  BY Zenon, <1>1, <1>2, SoundWritable, WiredWritable
<1>4. QED
  BY Zenon, <1>2, <1>3, StepBecomes

LEMMA DequeueOk ==
    ASSUME IInv, NEW c \in Conns
    PROVE  LET w == Dequeue(c)
           IN  /\ Sound(w) /\ w \in Worlds /\ w.node = node /\ w.conns[c].queued = FALSE
               /\ w.conns[c].open = conns[c].open /\ w.conns[c].status = conns[c].status
               /\ uuidNodes = {} => Wired(w)
<1> DEFINE r == [conns[c] EXCEPT !.queued = FALSE]
           w == [World EXCEPT !.conns[c] = r]
<1>1. /\ World \in Worlds /\ Sound(World) /\ World.node = node /\ World.conns = conns
      /\ uuidNodes = {} => Wired(World)
  BY ThisWorld
<1>2. conns[c] \in ConnRecords
  BY <1>1 DEF Worlds
<1>3. /\ r \in ConnRecords /\ r.from = conns[c].from /\ r.inbox = conns[c].inbox
      /\ r.status = conns[c].status /\ r.open = conns[c].open /\ r.queued = FALSE
  BY Zenon, <1>2 DEF ConnRecords
<1>4. Dequeue(c) = w
  BY <1>1 DEF Dequeue
<1> HIDE DEF r
<1>5. /\ w \in Worlds /\ w.node = World.node
      /\ w.conns[c] = r /\ \A d \in Conns \ {c} : w.conns[d] = World.conns[d]
  BY <1>1, <1>3, SetConnection
<1> HIDE DEF w
<1>6. Sound(w)
  BY Zenon, <1>1, <1>5 DEF Sound, Counting
<1>7. \A d \in Conns : /\ w.conns[d].from = conns[d].from /\ w.conns[d].inbox = conns[d].inbox
                       /\ w.conns[d].status = conns[d].status /\ w.conns[d].open = conns[d].open
                       /\ w.conns[d].queued => conns[d].queued
  BY <1>1, <1>3, <1>5
<1>8. ASSUME uuidNodes = {} PROVE Wired(w)
  <2>1. Wired(World)
    BY Zenon, <1>1, <1>8
  <2>2. Sockets(w)
    BY <1>1, <1>5, <1>7, <2>1, SocketKept DEF Wired, Sockets
  <2>3. Fresh(w)
    <3> SUFFICES ASSUME NEW d \in Conns PROVE FreshConn(w, d)
      BY DEF Fresh
    <3>1. FreshConn(World, d)
      BY Zenon, <2>1 DEF Wired, Fresh
    <3>2. QED
      BY <1>1, <1>5, <1>7, <3>1 DEF FreshConn
  <2>4. Served(w)
    BY <1>1, <1>5, <1>7, <2>1 DEF Wired, Served, Serves
  <2>5. QED
    BY <2>2, <2>3, <2>4 DEF Wired
<1>9. QED
  BY <1>1, <1>3, <1>4, <1>5, <1>6, <1>8

LEMMA AcceptStep ==
    ASSUME IInv, NEW n \in Nodes, NEW c \in Conns, Accept(n, c)
    PROVE  Inv(World', uuidNodes')
<1> DEFINE w == Dequeue(c)
<1>1. /\ Sound(w) /\ w \in Worlds /\ w.node = node /\ w.conns[c].queued = FALSE
      /\ w.conns[c].open = conns[c].open /\ w.conns[c].status = conns[c].status
      /\ uuidNodes = {} => Wired(w)
  BY Zenon, DequeueOk
<1> HIDE DEF w
<1>2. CASE n \in uuidNodes
  <2> DEFINE r == [w.node[n] EXCEPT !.ctx = @ \cup {c}]
             v == [w EXCEPT !.node[n] = r]
  <2>1. Become(v)
    BY Zenon, <1>2 DEF Accept, w
  <2>2. w.node[n] \in NodeRecords
    BY <1>1 DEF Worlds
  <2>3. r \in NodeRecords /\ r.state = w.node[n].state /\ r.active = w.node[n].active
    BY <2>2 DEF NodeRecords
  <2> HIDE DEF r
  <2>4. v \in Worlds /\ v.node[n] = r /\ v.node[Other(n)] = w.node[Other(n)]
    BY <1>1, <2>3, SetNode
  <2> HIDE DEF v
  <2>5. Sound(v)
    BY <1>1, <2>3, <2>4, TwoNodes DEF Sound, Counting
  <2>6. QED
    BY <1>2, <2>1, <2>5, StepBecomes
<1>3. CASE n \notin uuidNodes
  <2> DEFINE v == node_accept(w, n, c)
  <2>1. Become(v) /\ conns[c].queued /\ conns[c].from # n /\ node[n].up
    BY Zenon, <1>3 DEF Accept, w
  <2>2. Sound(v)
    BY Zenon, <1>1, SoundAccept
  <2>3. ASSUME uuidNodes = {} PROVE Wired(v)
    <3>1. Wired(World) /\ World \in Worlds /\ World.node = node /\ World.conns = conns
      BY Zenon, <2>3, ThisWorld
    <3>2. Other(conns[c].from) = n
      BY Zenon, <2>1, <3>1, Fields, TwoNodes, OtherNode
    <3>3. conns[c].status = "up" /\ n \in conns[c].open /\ node[n].sock # c
      BY Zenon, <2>1, <3>1, <3>2 DEF Wired, Fresh, FreshConn
    <3>4. node[n].conn_sock # c
      BY <2>1, <3>1, NoSockIsNone DEF Wired, Sockets, Socket
    <3>5. QED
      BY Zenon, <1>1, <2>1, <2>3, <3>3, <3>4, WiredAccept
  <2> HIDE DEF v
  <2>4. QED
    BY <2>1, <2>2, <2>3, StepBecomes
<1>4. QED
  BY <1>2, <1>3

LEMMA UuidStep ==
    ASSUME IInv, NEW n \in Nodes, NEW c \in Conns, Identify(n, c) \/ DropUnidentified(n, c)
    PROVE  Inv(World', uuidNodes')
<1>1. Sound(World) /\ World.node = node /\ (uuidNodes = {} => Wired(World))
  BY ThisWorld
<1>2. uuidNodes # {}
  BY Zenon, <1>1 DEF Identify, FindNodeUuid, DropUnidentified, Wired, Sockets, Socket
<1>3. CASE Identify(n, c)
  <2> DEFINE f == Forget(Taken(World, n, c), n, c)
             v(ok) == handle_control(node_accept(f, n, c), n, ok)
  <2>1. Become(v(TRUE)) \/ Become(v(FALSE))
    BY Zenon, <1>3 DEF Identify, FindNodeUuid
  <2>2. Sound(f)
    BY <1>1, SoundTaken
  <2> HIDE DEF f
  <2>3. Sound(v(TRUE)) /\ Sound(v(FALSE))
    BY Zenon, <2>2, SoundAccept, SoundControl
  <2> HIDE DEF v
  <2>4. QED
    BY Zenon, <1>2, <2>1, <2>3, StepBecomes
<1>4. CASE DropUnidentified(n, c)
  <2> DEFINE u == iobroker_close(World, n, c)
  <2>1. Become(Forget(u, n, c))
    BY <1>4 DEF DropUnidentified
  <2>2. Sound(u)
    BY <1>1, SoundClose
  <2>3. Sound(Forget(u, n, c))
    BY Zenon, <2>2, SoundTaken
  <2>4. QED
    BY Zenon, <1>2, <2>1, <2>3, StepBecomes
<1>5. QED
  BY <1>3, <1>4

LEMMA InputStep ==
    ASSUME IInv, NEW n \in Nodes, NEW ok, InputActive(n, ok)
    PROVE  Inv(World', uuidNodes')
<1> DEFINE c == World.node[n].sock
           t == Taken(World, n, c)
           v == handle_control(t, n, ok)
<1>1. /\ World \in Worlds /\ Sound(World) /\ World.node = node /\ World.conns = conns
      /\ uuidNodes = {} => Wired(World)
  BY Zenon, ThisWorld
<1>2. c # NoSock /\ n \in World.conns[c].inbox /\ Become(v) /\ World.node[n].up
  BY Zenon, <1>1 DEF InputActive
<1>3. c \in Conns
  BY <1>1, <1>2, Fields
<1>4. Sound(t)
  BY <1>1, <1>3, SoundTaken
<1>5. Sound(v)
  BY Zenon, <1>4, SoundControl
<1>6. uuidNodes = {} => Wired(v)
  BY Zenon, <1>1, <1>2, WiredControl
<1> HIDE DEF v
<1>7. QED
  BY <1>2, <1>5, <1>6, StepBecomes

LEMMA DisconnectStep ==
    ASSUME IInv, NEW n \in Nodes, Become(node_disconnect(World, n)),
           node[n].conn_sock = NoSock \/ node[n].sock # NoSock
    PROVE  Inv(World', uuidNodes')
<1> DEFINE v == node_disconnect(World, n)
<1>1. World \in Worlds /\ Sound(World) /\ World.node = node /\ (uuidNodes = {} => Wired(World))
  BY Zenon, ThisWorld
<1>2. uuidNodes = {} => node[n].conn_sock = NoSock
  BY Zenon, <1>1 DEF Wired, Sockets, Socket
<1>3. Sound(v) /\ (uuidNodes = {} => Wired(v))
  BY <1>1, <1>2, SoundClose, WiredDisconnect
<1>4. QED
  BY Zenon, <1>3, StepBecomes

LEMMA SendPulseStep ==
    ASSUME IInv, NEW n \in Nodes, SendPulse(n)
    PROVE  Inv(World', uuidNodes')
<1> DEFINE v == node_send_ctrl_active(World, n)
<1>1. World \in Worlds /\ Sound(World) /\ (uuidNodes = {} => Wired(World))
  BY ThisWorld
<1>2. Sound(v) /\ (uuidNodes = {} => Wired(v))
  BY Zenon, <1>1, SoundClose, SendEffect, WiredSend
<1>3. Become(v)
  BY DEF SendPulse
<1>4. QED
  BY <1>2, <1>3, StepBecomes

LEMMA DieStep ==
    ASSUME IInv, NEW n \in Nodes, NEW silently \in BOOLEAN, Die(n, silently)
    PROVE  Inv(World', uuidNodes')
<1> DEFINE r == [FreshNode EXCEPT !.up = FALSE]
           q(c) == [conns[c] EXCEPT !.open = @ \ {n}, !.inbox = @ \ {n}, !.silent = silently,
                                    !.queued = @ /\ conns[c].from = n,
                                    !.status = IF @ = "syn" THEN "closed" ELSE @]
           v == World'
           w == World
<1>1. /\ w \in Worlds /\ Counting(w) /\ w.node = node /\ w.conns = conns
      /\ uuidNodes = {} => Wired(w)
  BY ThisWorld DEF Sound
<1>2. /\ v.node = [node EXCEPT ![n] = r]
      /\ v.conns = [c \in Conns |-> IF n \notin conns[c].open THEN conns[c] ELSE q(c)]
      /\ v = [node |-> v.node, conns |-> v.conns] /\ uuidNodes' = uuidNodes
  BY Zenon DEF Die, World
<1>3. /\ r \in NodeRecords /\ r.state = "NONE" /\ r.sock = NoSock /\ r.conn_sock = NoSock
      /\ r.ctx = {} /\ r.active = 0
  <2>1. /\ FreshNode \in NodeRecords /\ FreshNode.state = "NONE" /\ FreshNode.sock = NoSock
        /\ FreshNode.conn_sock = NoSock /\ FreshNode.ctx = {} /\ FreshNode.active = 0
    BY DEF FreshNode, NodeRecords, States
  <2>2. QED
    BY Zenon, <2>1 DEF NodeRecords
<1>4. \A c \in Conns : /\ q(c) \in ConnRecords /\ q(c).from = conns[c].from
                       /\ q(c).open = conns[c].open \ {n} /\ q(c).inbox = conns[c].inbox \ {n}
                       /\ q(c).queued = (conns[c].queued /\ conns[c].from = n)
                       /\ q(c).status = IF conns[c].status = "syn" THEN "closed" ELSE conns[c].status
  <2> SUFFICES ASSUME NEW c \in Conns
               PROVE  /\ q(c) \in ConnRecords /\ q(c).from = conns[c].from
                      /\ q(c).open = conns[c].open \ {n} /\ q(c).inbox = conns[c].inbox \ {n}
                      /\ q(c).queued = (conns[c].queued /\ conns[c].from = n)
                      /\ q(c).status = IF conns[c].status = "syn" THEN "closed" ELSE conns[c].status
    BY Zenon
  <2>1. conns[c] \in ConnRecords
    BY Zenon, <1>1 DEF Worlds
  <2>2. QED
    BY Zenon, <2>1 DEF ConnRecords
<1> HIDE DEF r, q, v, w
<1>5. v.node \in [Nodes -> NodeRecords] /\ v.node[n] = r /\ v.node[Other(n)] = w.node[Other(n)]
  <2>1. node \in [Nodes -> NodeRecords]
    BY <1>1 DEF Worlds
  <2>2. Other(n) \in Nodes /\ Other(n) # n
    BY Zenon, OtherNode
  <2>3. QED
    BY <1>1, <1>2, <1>3, <2>1, <2>2
<1>6. v.conns \in [Conns -> ConnRecords]
  BY <1>1, <1>2, <1>4 DEF Worlds
<1>7. v \in Worlds
  BY Zenon, <1>2, <1>5, <1>6 DEF Worlds
<1>8. Counting(v)
  <2> SUFFICES ASSUME NEW m \in Nodes
               PROVE  v.node[m].active = IF v.node[m].state = "CONNECTED" THEN 1 ELSE 0
    BY Zenon DEF Counting
  <2>1. CASE m = n
    BY Zenon, <1>3, <1>5, <2>1
  <2>2. CASE m = Other(n)
    BY Zenon, <1>1, <1>3, <1>5, <2>2, OtherNode DEF Counting
  <2>3. QED
    BY Zenon, <2>1, <2>2, TwoNodes
<1>9. \A c \in Conns :
        /\ v.conns[c].from = w.conns[c].from
        /\ v.conns[c].status = "syn" => w.conns[c].status = "syn"
        /\ w.conns[c].status # "syn" => v.conns[c].status = w.conns[c].status
        /\ v.conns[c].queued => /\ w.conns[c].queued
                                /\ w.conns[c].from = n \/ n \notin w.conns[c].open
        /\ \A m \in Nodes : /\ m \in v.conns[c].open <=> m \in w.conns[c].open /\ m # n
                            /\ m \in v.conns[c].inbox => m \in w.conns[c].inbox
  <2> SUFFICES ASSUME NEW c \in Conns
               PROVE
                       /\ v.conns[c].from = w.conns[c].from
                       /\ v.conns[c].status = "syn" => w.conns[c].status = "syn"
                       /\ w.conns[c].status # "syn" => v.conns[c].status = w.conns[c].status
                       /\ v.conns[c].queued => /\ w.conns[c].queued
                                               /\ w.conns[c].from = n \/ n \notin w.conns[c].open
                       /\ \A m \in Nodes : /\ m \in v.conns[c].open <=> m \in w.conns[c].open /\ m # n
                                           /\ m \in v.conns[c].inbox => m \in w.conns[c].inbox
    BY Zenon
  <2>1. CASE n \notin conns[c].open
    <3>1. v.conns[c] = w.conns[c]
      BY <1>1, <1>2, <2>1
    <3>2. QED
      BY Zenon, <1>1, <2>1, <3>1
  <2>2. CASE n \in conns[c].open
    <3>1. v.conns[c] = q(c)
      BY <1>2, <2>2
    <3>2. QED
      BY Zenon, <1>1, <1>4, <3>1
  <2>3. QED
    BY Zenon, <2>1, <2>2
<1>10. ASSUME uuidNodes = {} PROVE Wired(v)
  <2>1. Wired(w)
    BY <1>1, <1>10
  <2>2. Sockets(v)
    <3>1. Socket(v, n)
      BY <1>3, <1>5 DEF Socket
    <3>2. Socket(v, Other(n))
      <4> DEFINE o == Other(n)
      <4>1. o \in Nodes /\ o # n /\ v.node[o] = w.node[o] /\ Socket(w, o)
        BY Zenon, <1>5, <2>1, OtherNode DEF Wired, Sockets
      <4>2. /\ w.node[o].sock # NoSock => w.node[o].sock \in Conns
            /\ w.node[o].conn_sock # NoSock => w.node[o].conn_sock \in Conns
        BY <1>1, <4>1, Fields
      <4> HIDE DEF o
      <4>3. Socket(v, o)
        BY Zenon, <1>9, <4>1, <4>2 DEF Socket
      <4>4. QED
        BY Zenon, <4>3 DEF o
    <3>3. QED
      BY Zenon, <3>1, <3>2, TwoNodes DEF Sockets
  <2>3. Fresh(v)
    <3> SUFFICES ASSUME NEW d \in Conns PROVE FreshConn(v, d)
      BY Zenon DEF Fresh
    <3>1. FreshConn(w, d) /\ w.conns[d].from \in Nodes
      BY Zenon, <1>1, <2>1, Fields DEF Wired, Fresh
    <3>2. QED
      BY SMTT(30), <1>3, <1>5, <1>9, <3>1, OtherNode, TwoNodes, NoSockIsNone DEF FreshConn
  <2>4. Served(v)
    <3> SUFFICES ASSUME NEW m \in Nodes, NEW d \in Conns PROVE Serves(v, m, d)
      BY DEF Served
    <3>1. Serves(w, m, d)
      BY Zenon, <2>1 DEF Wired, Served
    <3>2. QED
      BY Zenon, <1>3, <1>5, <1>9, <3>1, OtherNode, TwoNodes, NoSockIsNone DEF Serves
  <2>5. QED
    BY <2>2, <2>3, <2>4 DEF Wired
<1>11. QED
  BY <1>2, <1>7, <1>8, <1>10 DEF Inv, v

LEMMA StartStep ==
    ASSUME IInv, NEW n \in Nodes, Start(n)
    PROVE  Inv(World', uuidNodes')
<1> DEFINE v == [World EXCEPT !.node[n] = FreshNode]
<1>1. /\ World \in Worlds /\ Counting(World) /\ World.node = node /\ World.conns = conns
      /\ uuidNodes = {} => Wired(World)
  BY ThisWorld DEF Sound
<1>2. World' = v /\ uuidNodes' = uuidNodes /\ ~node[n].up
  BY DEF Start, World
<1>3. /\ FreshNode \in NodeRecords /\ FreshNode.up /\ FreshNode.state = "NONE" /\ FreshNode.sock = NoSock
      /\ FreshNode.conn_sock = NoSock /\ FreshNode.ctx = {} /\ FreshNode.active = 0
  BY DEF FreshNode, NodeRecords, States
<1>4. /\ v \in Worlds /\ v.conns = World.conns
      /\ v.node[n] = FreshNode /\ v.node[Other(n)] = World.node[Other(n)]
  BY Zenon, <1>1, <1>3, SetNode
<1> HIDE DEF v
<1>5. Counting(v)
  <2> SUFFICES ASSUME NEW m \in Nodes
               PROVE  v.node[m].active = IF v.node[m].state = "CONNECTED" THEN 1 ELSE 0
    BY Zenon DEF Counting
  <2>1. CASE m = n
    BY Zenon, <1>3, <1>4, <2>1
  <2>2. CASE m = Other(n)
    BY <1>1, <1>3, <1>4, <2>2, OtherNode DEF Counting
  <2>3. QED
    BY Zenon, <2>1, <2>2, TwoNodes
<1>6. uuidNodes = {} => Wired(v)
  <2> SUFFICES ASSUME Wired(World) PROVE Wired(v)
    BY <1>1
  <2>1. Sockets(v)
    <3>1. Socket(v, n)
      BY Zenon, <1>3, <1>4 DEF Socket
    <3>2. Socket(v, Other(n))
      BY Zenon, <1>1, <1>4, OtherNode, SocketKept DEF Wired, Sockets
    <3>3. QED
      BY Zenon, <3>1, <3>2, TwoNodes DEF Sockets
  <2>2. Fresh(v)
    <3> SUFFICES ASSUME NEW d \in Conns PROVE FreshConn(v, d)
      BY Zenon DEF Fresh
    <3>1. FreshConn(World, d) /\ conns[d].from \in Nodes
      BY Zenon, <1>1, Fields DEF Wired, Fresh
    <3>2. QED
      BY SMTT(30), <1>1, <1>3, <1>4, <3>1, OtherNode, TwoNodes, NoSockIsNone DEF FreshConn
  <2>3. Served(v)
    <3>1. node[n].sock = NoSock
      BY Zenon, <1>1, <1>2 DEF Wired, Sockets, Socket
    <3> SUFFICES ASSUME NEW m \in Nodes, NEW d \in Conns PROVE Serves(v, m, d)
      BY DEF Served
    <3>2. Serves(World, m, d)
      BY DEF Wired, Served
    <3>3. QED
      BY SMTT(30), <1>1, <1>3, <1>4, <3>1, <3>2, OtherNode, TwoNodes, NoSockIsNone DEF Serves
  <2>4. QED
    BY <2>1, <2>2, <2>3 DEF Wired
<1>7. QED
  BY <1>2, <1>4, <1>5, <1>6 DEF Inv

-----------------------------------------------------------------------------
(* The theorems *)

LEMMA InitOk == Init => IInv
<1> SUFFICES ASSUME Init PROVE IInv
  BY Zenon
<1>1. /\ FreshNode \in NodeRecords /\ FreshNode.state = "NONE" /\ FreshNode.sock = NoSock
      /\ FreshNode.conn_sock = NoSock /\ FreshNode.ctx = {} /\ FreshNode.active = 0
  BY DEF FreshNode, NodeRecords, States
<1>2. /\ NoConn \in ConnRecords /\ NoConn.queued = FALSE /\ NoConn.inbox = {}
      /\ NoConn.status = "closed"
  BY DEF NoConn, ConnRecords, Nodes
<1>3. /\ World.node = node /\ World.conns = conns
      /\ node = [n \in Nodes |-> FreshNode] /\ conns = [c \in Conns |-> NoConn]
  BY Zenon DEF Init, World
<1>4. World \in Worlds
  BY Zenon, <1>1, <1>2, <1>3 DEF World, Worlds
<1>5. Counting(World)
  BY Zenon, <1>1, <1>3 DEF Counting
<1>6. Sockets(World)
  BY Zenon, <1>1, <1>3 DEF Sockets, Socket
<1>7. Fresh(World)
  BY Zenon, <1>2, <1>3 DEF Fresh, FreshConn
<1>8. Served(World)
  BY <1>1, <1>2, <1>3 DEF Served, Serves
<1>9. QED
  BY <1>4, <1>5, <1>6, <1>7, <1>8 DEF IInv, Inv, Wired

LEMMA StepOk == IInv /\ [Next]_vars => IInv'
<1> SUFFICES ASSUME IInv, [Next]_vars PROVE Inv(World', uuidNodes')
  BY DEF IInv
<1>1. CASE UNCHANGED vars
  <2>1. World' = World /\ uuidNodes' = uuidNodes
    BY <1>1 DEF vars, World
  <2>2. QED
    BY <2>1 DEF IInv
<1>2. ASSUME NEW c \in Conns, Handshake(c) PROVE Inv(World', uuidNodes')
  BY <1>2, HandshakeStep
<1>3. ASSUME NEW n \in Nodes, TryConnect(n) \/ TryConnectAgain(n) \/ ConnWritable(n)
      PROVE  Inv(World', uuidNodes')
  BY <1>3, TryConnectStep, TryConnectAgainStep, ConnWritableStep
<1>4. ASSUME NEW n \in Nodes, Input(n) \/ InputIncompatible(n) PROVE Inv(World', uuidNodes')
  BY Zenon, <1>4, InputStep DEF Input, InputIncompatible
<1>5. ASSUME NEW n \in Nodes,
             TryConnectFails(n) \/ InputEof(n) \/ SendPulseFails(n) \/ DisconnectInactive(n)
      PROVE  Inv(World', uuidNodes')
  BY Zenon, <1>5, DisconnectStep DEF TryConnectFails, InputEof, SendPulseFails, DisconnectInactive
<1>6. ASSUME NEW n \in Nodes, SendPulse(n) \/ Start(n) PROVE Inv(World', uuidNodes')
  BY <1>6, SendPulseStep, StartStep
<1>7. ASSUME NEW n \in Nodes, NEW c \in Conns,
             Accept(n, c) \/ DropUnidentified(n, c) \/ Identify(n, c)
      PROVE  Inv(World', uuidNodes')
  BY <1>7, AcceptStep, UuidStep
<1>8. ASSUME NEW n \in Nodes, NEW silently \in BOOLEAN, Die(n, silently)
      PROVE  Inv(World', uuidNodes')
  BY <1>8, DieStep
<1>9. QED
  BY Zenon, <1>1, <1>2, <1>3, <1>4, <1>5, <1>6, <1>7, <1>8 DEF Next, NodeStep

\* node_set_state, node_disconnect and net.c keep active_peers and the sockets
\* in step with the state of the node, for any number of connections and faults.
THEOREM StateAndSocket == Spec => []StateHasSocket
<1>1. IInv => StateHasSocket
  <2> SUFFICES ASSUME IInv PROVE StateHasSocket
    OBVIOUS
  <2>1. /\ World \in Worlds /\ Counting(World) /\ World.node = node /\ World.conns = conns
        /\ uuidNodes = {} => Wired(World)
    BY ThisWorld DEF Sound
  <2>2. \A n \in Nodes : node[n].active = IF node[n].state = "CONNECTED" THEN 1 ELSE 0
    BY <2>1 DEF Counting
  <2>3. ASSUME uuidNodes = {}, NEW n \in Nodes
        PROVE  LET me == node[n]
                   Usable(c) == c # NoSock /\ n \in conns[c].open
               IN  CASE me.state = "NONE"        -> me.sock = NoSock /\ me.conn_sock = NoSock
                     [] me.state = "PENDING"     -> me.sock = NoSock /\ Usable(me.conn_sock)
                     [] me.state = "NEGOTIATING" -> Usable(me.sock) \/ Usable(me.conn_sock)
                     [] me.state = "CONNECTED"   -> Usable(me.sock)
    <3>1. Socket(World, n) /\ node[n].state \in States
      BY Zenon, <2>1, <2>3, Fields DEF Wired, Sockets
    <3>2. QED
      BY Zenon, <2>1, <3>1 DEF Socket, States
  <2>4. QED
    BY Zenon, <2>2, <2>3 DEF StateHasSocket
<1>2. QED
  BY InitOk, StepOk, <1>1, PTL DEF Spec

\* Two nodes that know each other by address use one socket, whatever crossing
\* connections, negotiations, crashes and lost hosts came before.
THEOREM OneSocket == Spec => []BothUseOneSocket
<1>1. IInv => BothUseOneSocket
  <2> SUFFICES ASSUME IInv, uuidNodes = {}, NEW n \in Nodes,
                      node[n].state = "CONNECTED", node[n].sock # NoSock,
                      Other(n) \in conns[node[n].sock].open
               PROVE  node[Other(n)].sock = node[n].sock
    BY Zenon DEF BothUseOneSocket
  <2>1. World \in Worlds /\ Wired(World) /\ World.node = node /\ World.conns = conns
    BY Zenon, ThisWorld
  <2>2. node[n].sock \in Conns
    BY <2>1, Fields
  <2>3. QED
    BY Zenon, <2>1, <2>2 DEF Wired, Served, Serves
<1>2. QED
  BY InitOk, StepOk, <1>1, PTL DEF Spec
=============================================================================
