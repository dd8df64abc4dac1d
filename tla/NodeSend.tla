------------------------------ MODULE NodeSend ------------------------------
(***************************************************************************)
(* How events leave for one node (shared/node.c): node_send_event sends an *)
(* event, or stores it in the node's binlog when the node is not connected *)
(* or not writable, and sends the stored events first when there are any.  *)
(*                                                                         *)
(* The process is an event loop, so one call of node_send_event runs to    *)
(* its end before another handler does; pc follows it through the loop of  *)
(* node_send_binlog, where each round has its own outcome on the socket.   *)
(* Events are numbered in the order node_send_event is called with them.   *)
(***************************************************************************)
EXTENDS Binlog, FiniteSets

CONSTANTS
  Lens,          \* the lengths an event may have
  MaxEvents,     \* bound: how many events are sent
  Writes         \* what write() to the binlog file may do

ASSUME SendAssumption ==
  /\ Lens \subseteq Nat \ {0}
  /\ MaxEvents \in Nat
  /\ Writes \subseteq WriteOutcomes

VARIABLES
  bl,         \* node->binlog
  connected,  \* node->sock >= 0 and node->state == STATE_CONNECTED
  pc,         \* where the call of node_send_event is
  pkt,        \* the event of that call
  calls,      \* how many events node_send_event has been called with
  sent,       \* the numbers of the events the socket took, in order
  stats,      \* node->stats.events: logged and dropped; unsigned in C, so that
              \* a negative value here stands for one that has wrapped
  faults      \* history: what has gone wrong so far

vars == <<bl, connected, pc, pkt, calls, sent, stats, faults>>

\* A stored event was put back into memory after a failed send, or into the
\* file; a write() to the file failed; the file was full; stats.events.logged
\* was brought down from zero.
FaultKinds == {"resend", "file_resend", "write", "full", "wrap"}

Without(kinds) == faults \cap kinds = {}

Init ==
  /\ bl = binlog_create
  /\ connected = FALSE
  /\ pc = "idle"
  /\ pkt = NoEvent
  /\ calls = 0
  /\ sent = <<>>
  /\ stats = [logged |-> 0, dropped |-> 0]
  /\ faults = {}

-----------------------------------------------------------------------------

\* A full binlog is left as it is and the event is gone; any other error
\* wipes the binlog.
node_binlog_add(b, s, e, w) ==
  LET r == binlog_add(b, e, w) IN
  IF r.ret = "enospc"
  THEN [bl |-> r.bl, stats |-> s, fault |-> {"full"}]
  ELSE IF r.ret = "ok"
  THEN [bl |-> r.bl, stats |-> [s EXCEPT !.logged = s.logged + 1],
        fault |-> {}]
  ELSE [bl |-> binlog_wipe(r.bl, TRUE), fault |-> {"write"},
        stats |-> [logged |-> 0, dropped |-> s.dropped + s.logged + 1]]

\* The call stores its event and returns.
StoreAndReturn(b, s, e) ==
  \E w \in Writes :
    /\ bl' = node_binlog_add(b, s, e, w).bl
    /\ stats' = node_binlog_add(b, s, e, w).stats
    /\ faults' = faults \cup node_binlog_add(b, s, e, w).fault
    /\ pc' = "idle"
    /\ pkt' = NoEvent

-----------------------------------------------------------------------------
(* node_send_event up to node_send_binlog.                                 *)

NewCall ==
  /\ pc = "idle"
  /\ calls < MaxEvents
  /\ calls' = calls + 1

\* Not connected, or connected but not writable.
SendEventStores(len) ==
  /\ NewCall
  /\ StoreAndReturn(bl, stats, [id |-> calls + 1, len |-> len])
  /\ UNCHANGED <<connected, sent>>

SendEventDrains(len) ==
  /\ NewCall
  /\ connected
  /\ pkt' = [id |-> calls + 1, len |-> len]
  /\ pc' = IF binlog_num_entries(bl) # 0 THEN "drain" ELSE "send"
  /\ UNCHANGED <<bl, connected, sent, stats, faults>>

-----------------------------------------------------------------------------
(* The loop of node_send_binlog.                                           *)

\* The socket is not writable, or the binlog has nothing more to read.
DrainEnds ==
  /\ pc = "drain"
  /\ bl' \in {bl} \cup
       (IF binlog_read(bl).ret \in {"ok", "garbage"} THEN {}
        ELSE {binlog_read(bl).bl})
  /\ pc' = "send"
  /\ UNCHANGED <<connected, pkt, calls, sent, stats, faults>>

\* What was read is not a packet.
DrainCorrupt ==
  /\ pc = "drain"
  /\ binlog_read(bl).ret = "garbage"
  /\ bl' = binlog_wipe(binlog_read(bl).bl, TRUE)
  /\ pc' = "send"
  /\ UNCHANGED <<connected, pkt, calls, sent, stats, faults>>

\* Mutant: stats.events.logged is not brought down.
DrainSends_KeepsCount ==
  /\ pc = "drain"
  /\ binlog_read(bl).ret = "ok"
  /\ bl' = binlog_read(bl).bl
  /\ sent' = Append(sent, binlog_read(bl).e.id)
  /\ UNCHANGED <<connected, pc, pkt, calls, stats, faults>>

DrainSends ==
  /\ pc = "drain"
  /\ binlog_read(bl).ret = "ok"
  /\ bl' = binlog_read(bl).bl
  /\ sent' = Append(sent, binlog_read(bl).e.id)
  /\ stats' = [stats EXCEPT !.logged = stats.logged - 1]
  /\ faults' = faults \cup (IF stats.logged = 0 THEN {"wrap"} ELSE {})
  /\ UNCHANGED <<connected, pc, pkt, calls>>

\* node_send has closed the connection.  The event goes back and the call's
\* own event is stored after it; if it cannot go back, all is wiped.
DrainFails ==
  /\ pc = "drain"
  /\ binlog_read(bl).ret = "ok"
  /\ connected' = FALSE
  /\ pc' = "send"
  /\ \E w \in Writes :
       LET r == binlog_read(bl)
           b == IF binlog_num_entries(r.bl) = 0 THEN binlog_wipe(r.bl, TRUE)
                ELSE r.bl
           u == binlog_unread(b, r.e, w)
           a == node_binlog_add(u.bl, stats, pkt, w)
           resend == {IF bl.cache = <<>> THEN "file_resend" ELSE "resend"}
       IN  IF u.ret = "ok"
           THEN /\ bl' = a.bl
                /\ stats' = a.stats
                /\ faults' = faults \cup resend \cup a.fault
           ELSE /\ bl' = binlog_wipe(u.bl, TRUE)
                /\ stats' = [stats EXCEPT
                               !.dropped = stats.dropped + stats.logged + 1]
                /\ faults' = faults \cup resend \cup {"write"}
  /\ UNCHANGED <<pkt, calls, sent>>

-----------------------------------------------------------------------------
(* node_send_event after node_send_binlog.                                 *)

\* The binlog still has entries: the event is added to it.
SendAppends ==
  /\ pc = "send"
  /\ binlog_num_entries(bl) # 0
  /\ StoreAndReturn(bl, stats, pkt)
  /\ UNCHANGED <<connected, calls, sent>>

\* Mutant: the backlog is not asked for.
SendSucceeds_IgnoresBacklog ==
  /\ pc = "send"
  /\ connected
  /\ sent' = Append(sent, pkt.id)
  /\ pc' = "idle"
  /\ pkt' = NoEvent
  /\ UNCHANGED <<bl, connected, calls, stats, faults>>

SendSucceeds ==
  /\ pc = "send"
  /\ binlog_num_entries(bl) = 0
  /\ connected
  /\ sent' = Append(sent, pkt.id)
  /\ pc' = "idle"
  /\ pkt' = NoEvent
  /\ UNCHANGED <<bl, connected, calls, stats, faults>>

\* Mutant: the event that failed is not stored.
SendFails_Forgets ==
  /\ pc = "send"
  /\ binlog_num_entries(bl) = 0
  /\ connected' = FALSE
  /\ pc' = "idle"
  /\ pkt' = NoEvent
  /\ UNCHANGED <<bl, stats, calls, sent, faults>>

\* node_send fails and disconnects, or there is no socket any more.
SendFails ==
  /\ pc = "send"
  /\ binlog_num_entries(bl) = 0
  /\ connected' = FALSE
  /\ StoreAndReturn(bl, stats, pkt)
  /\ UNCHANGED <<calls, sent>>

-----------------------------------------------------------------------------
(* The connection, driven by other handlers.                               *)

Connect ==
  /\ pc = "idle"
  /\ ~connected
  /\ connected' = TRUE
  /\ UNCHANGED <<bl, pc, pkt, calls, sent, stats, faults>>

node_disconnect ==
  /\ pc = "idle"
  /\ connected
  /\ connected' = FALSE
  /\ UNCHANGED <<bl, pc, pkt, calls, sent, stats, faults>>

Next ==
  \/ \E len \in Lens : SendEventStores(len) \/ SendEventDrains(len)
  \/ DrainEnds
  \/ DrainCorrupt
  \/ DrainSends
  \/ DrainFails
  \/ SendAppends
  \/ SendSucceeds
  \/ SendFails
  \/ Connect
  \/ node_disconnect

Spec == Init /\ [][Next]_vars

-----------------------------------------------------------------------------

\* The values node_send_event and binlog.c give to their fields.
TypeOK ==
  /\ bl \in BinlogType
  /\ connected \in BOOLEAN
  /\ pc \in {"idle", "drain", "send"}
  /\ pkt \in Event \cup {NoEvent}
  /\ calls \in 0 .. MaxEvents
  /\ sent \in Seq(1 .. MaxEvents)
  /\ stats \in [logged : Int, dropped : Int]
  /\ faults \subseteq FaultKinds

\* The receiver sees no event after a later one: stored events go out in the
\* order of the calls, and before the event of the call that drains them,
\* whatever sends fail, as long as none of the events put back by
\* binlog_unread came from the file and no write() to it failed.
SentInOrder ==
  Without({"file_resend", "write"}) =>
    /\ \A i, j \in DOMAIN sent : i < j => sent[i] <= sent[j]
    /\ \A i \in DOMAIN sent, n \in Contents(bl) : sent[i] <= n

Accounted(n) ==
  \/ n \in {sent[i] : i \in DOMAIN sent}
  \/ n \in Contents(bl)
  \/ n = pkt.id

\* What binlog_unread is for: a failed send alone loses no stored event.
UnreadLosesNothing ==
  Without({"write", "full"}) => \A n \in 1 .. calls : Accounted(n)

\* The socket takes no event twice, and no event is stored that was sent.
SentOnce ==
  /\ \A i, j \in DOMAIN sent : sent[i] = sent[j] => i = j
  /\ \A i \in DOMAIN sent : sent[i] \notin Contents(bl)

\* An event node_send_event has been called with is sent, stored or being
\* handled, whatever sends fail, under the conditions of SentInOrder and as long
\* as the file has room; and it is so once, until a send of a stored event fails
\* (node_send_binlog).
KeptOnce ==
  /\ Without({"file_resend", "write", "full"}) => \A n \in 1 .. calls : Accounted(n)
  /\ Without({"resend", "file_resend", "write"}) => SentOnce

\* An event overtakes no stored one: when the event of a call goes out, the
\* entry count that let it go stands for a backlog with nothing left to read,
\* under the conditions of SentInOrder (node_send_event).
NoOvertaking ==
  [][sent' # sent /\ pc = "send" /\ Without({"file_resend", "write"})
       => Contents(bl) = {}]_vars

\* The counters that the query handler reports, between calls: logged, which is
\* said to be the length of the backlog, is the number of events in it, and every
\* event a call was made with is in one of them, whatever sends and writes fail,
\* unless the file is full or logged has wrapped (node_binlog_add,
\* node_send_binlog).
EventsCounted ==
  pc = "idle" =>
    /\ Without({"file_resend", "write"}) => stats.logged = binlog_num_entries(bl)
    /\ Without({"full", "wrap"}) => calls <= Len(sent) + stats.logged + stats.dropped
=============================================================================
