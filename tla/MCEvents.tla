------------------------------ MODULE MCEvents ------------------------------
(***************************************************************************)
(* Events in three networks of three nodes: two masters with a poller, a   *)
(* master with two pollers, and a chain.                                   *)
(***************************************************************************)
EXTENDS Events

CONSTANTS n1, n2, n3

Node(masters, peers, pollers) == [masters |-> masters, peers |-> peers, pollers |-> pollers]

TwoMasters == [n \in Nodes |-> CASE n = n1 -> Node({}, {n2}, {n3})
                                 [] n = n2 -> Node({}, {n1}, {n3})
                                 [] n = n3 -> Node({n1, n2}, {}, {})]

TwoPollers == [n \in Nodes |-> CASE n = n1 -> Node({}, {}, {n2, n3})
                                 [] n = n2 -> Node({n1}, {n3}, {})
                                 [] n = n3 -> Node({n1}, {n2}, {})]

Chain == [n \in Nodes |-> CASE n = n1 -> Node({}, {}, {n2})
                            [] n = n2 -> Node({n1}, {}, {n3})
                            [] n = n3 -> Node({n2}, {}, {})]

MCNets == {TwoMasters, TwoPollers, Chain}
=============================================================================
