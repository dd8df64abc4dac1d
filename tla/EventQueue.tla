----------------------------- MODULE EventQueue -----------------------------
(***************************************************************************)
(* What a backlog promises to the code that sends events: a first-in       *)
(* first-out queue.  Events are numbered in the order they are offered, so *)
(* the queue is the set of the numbers it holds and its head is the        *)
(* smallest one.  The event got last may be put back once, and a full      *)
(* queue refuses what it is offered.                                       *)
(***************************************************************************)
EXTENDS Integers

VARIABLES
  pending,   \* the numbers of the events in the queue
  offered,   \* how many events have been offered so far
  got        \* the event got last, 0 when it can no longer be put back

vars == <<pending, offered, got>>

Init ==
  /\ pending = {}
  /\ offered = 0
  /\ got = 0

Put ==
  /\ offered' = offered + 1
  /\ pending' = pending \cup {offered + 1}
  /\ got' = 0

Refuse ==
  /\ offered' = offered + 1
  /\ got' = 0
  /\ UNCHANGED pending

Get ==
  \E n \in pending :
    /\ \A m \in pending : n <= m
    /\ pending' = pending \ {n}
    /\ got' = n
    /\ UNCHANGED offered

GetNothing ==
  /\ pending = {}
  /\ got' = 0
  /\ UNCHANGED <<pending, offered>>

PutBack ==
  /\ got # 0
  /\ pending' \in {pending, pending \cup {got}}
  /\ got' = 0
  /\ UNCHANGED offered

Clear ==
  /\ pending' = {}
  /\ got' = 0
  /\ UNCHANGED offered

Next == Put \/ Refuse \/ Get \/ GetNothing \/ PutBack \/ Clear

Spec == Init /\ [][Next]_vars
=============================================================================
