------------------------------- MODULE MCDuty -------------------------------
(***************************************************************************)
(* Duty with two masters and two pollers, which check two of four hosts.   *)
(***************************************************************************)
EXTENDS Duty

CONSTANTS m1, m2, p1, p2

MCHostgroups == <<{1, 2}>>

\* Host 0 is blocked on one master and host 2 on one poller.
MCBlocked == [n \in Nodes |-> IF n = m1 THEN {0} ELSE IF n = p1 THEN {2} ELSE {}]

MCConfs == [takeover : BOOLEAN, notifies : BOOLEAN, blocked : {MCBlocked}]

MCFirstStart == [n \in Nodes |-> IF n \in {m1, p1} THEN 1 ELSE 2]
=============================================================================
