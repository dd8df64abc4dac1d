---------------------------- MODULE Housekeeping ----------------------------
(***************************************************************************)
(* What the module does beside its events: it watches for orphaned checks  *)
(* (Expiry), deletes pollers that stay away (AutoDelete) and serves the    *)
(* query handler (Queries).  All three run in Naemon's event loop.  They   *)
(* have no state in common but the clock, so an order of steps of one says *)
(* nothing about another, and a behaviour follows one of them.             *)
(***************************************************************************)
EXTENDS Expiry, AutoDelete, Queries, TLC

CONSTANT Here \* the node that runs the module

ASSUME HereAssumption == Here \in Runners /\ Untracked \notin Runners

VARIABLE part \* the part that is followed

vars == <<orphanVars, deletionVars, queryVars, part>>

\* The parts that are not followed stay in one of their initial states.
Init ==
    /\ part \in {"orphans", "deletion", "query"}
    /\ OrphansInit /\ DeletionInit /\ QueryInit
    /\ part # "orphans" => \A o \in Objects : window[o] = 0 /\ responsible[o] = Here
    /\ part # "deletion" => \A n \in Pollers : auto_delete[n] = 1
    /\ part # "query" => node = [type |-> "peer", encrypted |-> TRUE,
                                 accept_runcmd |-> TRUE, fetch |-> TRUE]

Next ==
    /\ \/ part = "orphans"  /\ OrphansNext  /\ UNCHANGED <<deletionVars, queryVars>>
       \/ part = "deletion" /\ DeletionNext /\ UNCHANGED <<orphanVars, queryVars>>
       \/ part = "query"    /\ QueryNext    /\ UNCHANGED <<orphanVars, deletionVars>>
    /\ UNCHANGED part

Spec == Init /\ [][Next]_vars

\* Pollers are interchangeable.
Symmetry == Permutations(Pollers)
=============================================================================
