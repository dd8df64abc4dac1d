------------------------- MODULE HousekeepingProofs -------------------------
(***************************************************************************)
(* Proofs about two parts of Housekeeping.  Expiry, for any objects, nodes *)
(* and times: an orphaned check is reported in time, nothing else is, and  *)
(* the counters agree with the records.  AutoDelete, for any pollers and   *)
(* times: which of those that stay away are deleted, and when.             *)
(***************************************************************************)
EXTENDS Expiry, AutoDelete, FiniteSetTheorems, TLAPS

-----------------------------------------------------------------------------
(* Orphans are reported *)

\* The types of what the timing depends on.
Timed ==
    /\ now \in Nat
    /\ last_check \in [Objects -> Nat]
    /\ window \in [Objects -> Windows]
    /\ due \in [Objects -> Nat]
    /\ expiry_map \in [Objects -> SUBSET [added : Nat, node : Runners]]
    /\ expired \in [Objects -> SUBSET Runners]
    /\ responsible \in [Objects -> Runners]
    /\ heard \in [Objects -> Nat]
    /\ unheard \subseteq Objects

\* The clock waits for what is due: neither the next check of an object nor its
\* event, of which there is one at most, is ever late or too far ahead.
Punctual(o) ==
    /\ heard[o] <= now /\ now <= due[o] /\ due[o] <= now + Interval
    /\ \A e, f \in expiry_map[o] : e = f
    /\ \A e \in expiry_map[o] : /\ heard[o] <= e.added /\ e.added <= now
                                /\ now <= e.added + Patience

\* An object with a record has been silent for the patience of an event, and
\* so has the event that is pending: that one cannot take the record away.
Silent(o) ==
    expired[o] # {} =>
        /\ now >= heard[o] + Patience
        /\ \A e \in expiry_map[o] : e.added >= heard[o] + Patience

\* Without a record, the first event after a result is still to come, or the
\* second, which makes one.
OnTheWay(o) ==
    o \notin unheard =>
        /\ last_check[o] <= heard[o]
        /\ expired[o] = {} =>
            /\ expiry_map[o] = {} =>
                   \/ due[o] <= heard[o] + Interval
                   \/ /\ now >= heard[o] + Patience
                      /\ due[o] <= heard[o] + 2 * Interval + Patience
            /\ \A e \in expiry_map[o] :
                   \/ e.added <= heard[o] + Interval
                   \/ /\ e.added >= heard[o] + Patience
                      /\ e.added <= heard[o] + 2 * Interval + Patience

OrphansInv == Timed /\ \A o \in Objects : Punctual(o) /\ Silent(o) /\ OnTheWay(o)

\* The first state of Merlin satisfies the invariant: no event, no record.
LEMMA OrphansInitOk == OrphansInit => OrphansInv
<1> SUFFICES ASSUME OrphansInit PROVE OrphansInv
    OBVIOUS
<1>1. Timed
    BY Zenon, Sizes DEF OrphansInit, Timed, event_start
<1>2. ASSUME NEW o \in Objects PROVE Punctual(o) /\ Silent(o) /\ OnTheWay(o)
    BY Sizes DEF OrphansInit, Punctual, Silent, OnTheWay, Patience, event_start
<1> QED
    BY <1>1, <1>2 DEF OrphansInv

\* Running an expiration event keeps the invariant; if the check came in although
\* there is a record, last_check has changed without a result.
LEMMA ExpireOk ==
    ASSUME OrphansInv, NEW o \in Objects, expire_event(o)
    PROVE  OrphansInv'
<1>0. Timed /\ Punctual(o) /\ Silent(o) /\ OnTheWay(o)
    BY Zenon DEF OrphansInv
<1>1. PICK evt \in expiry_map[o] :
          /\ evt.added + Patience <= now
          /\ expiry_map' = [expiry_map EXCEPT ![o] = {}]
          /\ IF CameIn(o, evt) THEN Recover(o) ELSE Orphan(o, evt)
          /\ UNCHANGED <<now, responsible, last_check, window, due, heard, unheard>>
    BY DEF expire_event
<1>2. evt.added \in Nat /\ evt.node \in Runners /\ now \in Nat /\ heard[o] \in Nat /\ due[o] \in Nat
      /\ window[o] \in 0 .. Interval /\ last_check[o] \in Nat
    <2>1. evt \in [added : Nat, node : Runners]
        BY DEF OrphansInv, Timed
    <2>2. window[o] \in Windows /\ Windows \subseteq 0 .. Interval
        BY Zenon, Sizes DEF OrphansInv, Timed
    <2> QED
        BY Zenon, <2>1, <2>2 DEF OrphansInv, Timed
<1>3. Timed'
    BY <1>1, <1>2 DEF OrphansInv, Timed, Recover, Orphan
<1>4. expiry_map'[o] = {} /\ \A p \in Objects \ {o} : expiry_map'[p] = expiry_map[p]
    BY Zenon, <1>1 DEF OrphansInv, Timed
<1>5. \A p \in Objects \ {o} : expired'[p] = expired[p]
    BY Zenon, <1>1 DEF OrphansInv, Timed, Recover, Orphan
<1>6. ASSUME NEW p \in Objects \ {o} PROVE (Punctual(p) /\ Silent(p) /\ OnTheWay(p))'
    BY Zenon, <1>1, <1>4, <1>5 DEF OrphansInv, Timed, Punctual, Silent, OnTheWay
<1>7. Punctual(o)'
    BY Zenon, <1>1, <1>4 DEF OrphansInv, Punctual
<1>8. now >= heard[o] + Patience /\ now <= evt.added + Patience
    BY <1>0, <1>1, <1>2, Sizes DEF Punctual, Patience
<1>9. Silent(o)'
    BY <1>1, <1>4, <1>8 DEF Silent
<1>10. OnTheWay(o)'
    <2>1. CASE CameIn(o, evt)
        <3>1. expired'[o] = {}
            BY Zenon, <1>1, <2>1 DEF Recover, OrphansInv, Timed
        <3>2. o \notin unheard => evt.added < heard[o] + Patience
            BY <1>0, <1>2, <2>1, Sizes DEF CameIn, event_start, OnTheWay, Punctual, Patience
        <3>3. o \notin unheard => evt.added <= heard[o] + Interval
            BY <1>0, <1>2, <3>2, Sizes DEF OnTheWay, Silent, Patience
        <3>4. o \notin unheard => due[o] <= heard[o] + 2 * Interval + Patience
            BY <1>0, <1>2, <1>8, <3>3, Sizes DEF Punctual, Patience
        <3> QED
            BY Zenon, <1>1, <1>4, <1>8, <3>1, <3>4 DEF OrphansInv, OnTheWay
    <2>2. CASE ~CameIn(o, evt)
        <3>1. expired'[o] # {}
            BY Zenon, <1>0, <1>1, <2>2 DEF Orphan, Timed
        <3>2. /\ unheard' = unheard /\ last_check' = last_check /\ heard' = heard
              /\ o \notin unheard => last_check[o] <= heard[o]
            BY Zenon, <1>0, <1>1 DEF OnTheWay
        <3> QED
            BY Zenon, <3>1, <3>2 DEF OnTheWay
    <2> QED
        BY <2>1, <2>2
<1> QED
    BY Zenon, <1>3, <1>6, <1>7, <1>9, <1>10 DEF OrphansInv

\* Naemon's hook keeps the invariant: the event that it schedules is the first
\* or the second after the last result.
LEMMA PrecheckOk ==
    ASSUME OrphansInv, NEW o \in Objects, Precheck(o)
    PROVE  OrphansInv'
<1>0. Timed /\ Punctual(o) /\ Silent(o) /\ OnTheWay(o)
    BY Zenon DEF OrphansInv
<1>1. Timed'
    BY <1>0, Sizes DEF Timed, Precheck, schedule_expiration_event
<1>2. ASSUME NEW p \in Objects PROVE (Punctual(p) /\ Silent(p) /\ OnTheWay(p))'
    <2>1. CASE p # o
        BY <2>1 DEF OrphansInv, Timed, Precheck, schedule_expiration_event, Punctual, Silent, OnTheWay
    <2>2. CASE p = o /\ expiry_map[o] # {}
        BY <1>0, <2>2, Sizes DEF Timed, Precheck, schedule_expiration_event, Punctual, Silent, OnTheWay
    <2>3. CASE p = o /\ expiry_map[o] = {}
        <3>1. expiry_map'[o] = {[added |-> now, node |-> responsible[o]]} /\ due'[o] = now + Interval
            BY <1>0, <2>3 DEF Timed, Precheck, schedule_expiration_event
        <3>2. now \in Nat /\ heard[o] \in Nat /\ due[o] \in Nat /\ Interval \in Nat /\ Patience \in Nat
            BY <1>0, Sizes DEF Timed, Patience
        <3>3. Punctual(o)'
            BY <1>0, <3>1, <3>2, Sizes DEF Precheck, Punctual, Patience
        <3>4. UNCHANGED <<now, heard, last_check, expired, unheard>>
            BY DEF Precheck
        <3>5. \A e \in expiry_map'[o] : e.added = now
            BY <3>1
        <3>6. Silent(o)'
            BY <1>0, <3>2, <3>4, <3>5 DEF Silent
        <3>7. o \notin unheard /\ expired[o] = {} =>
                  \/ now <= heard[o] + Interval
                  \/ now >= heard[o] + Patience /\ now <= heard[o] + 2 * Interval + Patience
            BY <1>0, <2>3, <3>2 DEF OnTheWay, Punctual
        <3>8. OnTheWay(o)'
            BY Zenon, <3>1, <3>4, <3>5, <3>7 DEF OrphansInv, OnTheWay
        <3> QED
            BY <2>3, <3>3, <3>6, <3>8
    <2> QED
        BY Zenon, <2>1, <2>2, <2>3
<1> QED
    BY Zenon, <1>1, <1>2 DEF OrphansInv

\* A result takes the record and the pending event with it, and everything is
\* counted from its time on.
LEMMA ProcessedOk ==
    ASSUME OrphansInv, NEW o \in Objects, Processed(o)
    PROVE  OrphansInv'
<1>1. PICK end_time \in last_check[o] .. now, w \in Windows :
          /\ unexpire_host(o)
          /\ last_check' = [last_check EXCEPT ![o] = end_time]
          /\ window' = [window EXCEPT ![o] = w]
          /\ heard' = [heard EXCEPT ![o] = now]
          /\ unheard' = unheard \ {o}
          /\ UNCHANGED <<now, responsible, due>>
    BY Zenon DEF Processed
<1>2. now \in Nat /\ last_check[o] \in Nat /\ end_time \in Nat /\ end_time <= now
    BY DEF OrphansInv, Timed
<1>3. Timed'
    BY <1>1, <1>2 DEF OrphansInv, Timed, unexpire_host
<1>4. ASSUME NEW p \in Objects \ {o} PROVE (Punctual(p) /\ Silent(p) /\ OnTheWay(p))'
    BY <1>1 DEF OrphansInv, Timed, unexpire_host, Punctual, Silent, OnTheWay
<1>5. /\ expiry_map'[o] = {} /\ expired'[o] = {}
      /\ heard'[o] = now /\ last_check'[o] = end_time
    BY <1>1 DEF OrphansInv, Timed, unexpire_host
<1>6. (Punctual(o) /\ Silent(o) /\ OnTheWay(o))'
    <2>1. /\ now' = now /\ due' = due
          /\ now <= due[o] /\ due[o] <= now + Interval
        BY Zenon, <1>1 DEF OrphansInv, Punctual
    <2>2. Punctual(o)'
        BY <2>1, <1>2, <1>5 DEF Punctual
    <2>3. Silent(o)' /\ OnTheWay(o)'
        BY Zenon, <2>1, <1>2, <1>5 DEF Silent, OnTheWay
    <2> QED
        BY Zenon, <2>2, <2>3
<1> QED
    BY <1>3, <1>4, <1>6 DEF OrphansInv

\* The clock keeps the invariant, because it waits for checks and events.
LEMMA OrphansTickOk == ASSUME OrphansInv, OrphansTick PROVE OrphansInv'
<1>1. now' = now + 1 /\ now \in Nat
    BY Zenon DEF OrphansTick, OrphansInv, Timed
<1>2. UNCHANGED <<responsible, last_check, window, due, expiry_map, expired, heard, unheard>>
    BY Zenon DEF OrphansTick
<1>3. Timed'
    BY <1>1, <1>2 DEF OrphansInv, Timed
<1>4. ASSUME NEW o \in Objects PROVE (Punctual(o) /\ Silent(o) /\ OnTheWay(o))'
    <2>1. heard[o] \in Nat /\ due[o] \in Nat /\ Interval \in Nat /\ Patience \in Nat
          /\ \A e \in expiry_map[o] : e.added \in Nat
        <3>1. expiry_map[o] \subseteq [added : Nat, node : Runners]
            BY Zenon DEF OrphansInv, Timed
        <3> QED
            BY <3>1, Sizes DEF OrphansInv, Timed, Patience
    <2>2. due[o] > now /\ \A e \in expiry_map[o] : e.added + Patience > now
        BY Zenon DEF OrphansTick
    <2>3. Punctual(o)'
        BY <1>1, <1>2, <2>1, <2>2 DEF OrphansInv, Punctual
    <2>4. Silent(o)' /\ OnTheWay(o)'
        BY <1>1, <1>2, <2>1 DEF OrphansInv, Silent, OnTheWay
    <2> QED
        BY Zenon, <2>3, <2>4
<1> QED
    BY Zenon, <1>3, <1>4 DEF OrphansInv

\* Every step of Expiry keeps the invariant.
LEMMA OrphansStepOk == ASSUME OrphansInv, [OrphansNext]_orphanVars PROVE OrphansInv'
<1>1. ASSUME NEW o \in Objects, StatusOnly(o) PROVE OrphansInv'
    <2>1. Timed'
        BY Zenon, <1>1 DEF OrphansInv, Timed, StatusOnly
    <2>2. ASSUME NEW p \in Objects PROVE (Punctual(p) /\ Silent(p) /\ OnTheWay(p))'
        BY Zenon, <1>1 DEF OrphansInv, Timed, StatusOnly, Punctual, Silent, OnTheWay
    <2> QED
        BY Zenon, <2>1, <2>2 DEF OrphansInv
<1>2. ASSUME NEW o \in Objects, Reassign(o) PROVE OrphansInv'
    BY <1>2 DEF OrphansInv, Timed, Reassign, Punctual, Silent, OnTheWay
<1>3. ASSUME UNCHANGED orphanVars PROVE OrphansInv'
    BY Zenon, <1>3 DEF orphanVars, OrphansInv, Timed, Punctual, Silent, OnTheWay
<1> QED
    BY Zenon, <1>1, <1>2, <1>3, ExpireOk, PrecheckOk, ProcessedOk, OrphansTickOk DEF OrphansNext

\* An object with no result for two rounds is reported as an orphan, and one that
\* had a result lately is not (module.c schedule_expiration_event, expire_event).
THEOREM Reported == OrphansSpec => []OrphansReported
<1>1. OrphansInit => OrphansInv
    BY OrphansInitOk
<1>2. OrphansInv /\ [OrphansNext]_orphanVars => OrphansInv'
    BY OrphansStepOk
<1>3. OrphansInv => OrphansReported
    <2> SUFFICES ASSUME OrphansInv, NEW o \in Objects
                 PROVE  /\ now > heard[o] + 2 * (Interval + Patience) /\ o \notin unheard
                                => expired[o] # {}
                        /\ expired[o] # {} => now >= heard[o] + Patience
        BY DEF OrphansReported
    <2>1. now \in Nat /\ heard[o] \in Nat /\ due[o] \in Nat /\ Interval \in Nat /\ Patience \in Nat
        BY Sizes DEF OrphansInv, Timed, Patience
    <2>2. CASE expiry_map[o] = {}
        BY <2>1, <2>2 DEF OrphansInv, Punctual, Silent, OnTheWay
    <2>3. CASE expiry_map[o] # {}
        <3>1. PICK e \in expiry_map[o] : TRUE
            BY <2>3
        <3>2. e.added \in Nat
            <4>1. e \in [added : Nat, node : Runners]
                BY DEF OrphansInv, Timed
            <4> QED
                BY <4>1
        <3> QED
            BY <2>1, <3>2 DEF OrphansInv, Punctual, Silent, OnTheWay
    <2> QED
        BY Zenon, <2>2, <2>3
<1> QED
    BY <1>1, <1>2, <1>3, PTL DEF OrphansSpec

-----------------------------------------------------------------------------
(* Orphans are counted *)

\* How the size of a set changes with the membership of one element.
LEMMA OneMember ==
    ASSUME NEW S, IsFiniteSet(S), NEW o \in S, NEW A \in SUBSET S, NEW B \in SUBSET S,
           A \ {o} = B \ {o}
    PROVE  /\ Cardinality(A) \in Nat /\ Cardinality(B) \in Nat
           /\ Cardinality(B) = Cardinality(A) + (IF o \in B THEN 1 ELSE 0)
                                              - (IF o \in A THEN 1 ELSE 0)
<1>1. IsFiniteSet(A) /\ IsFiniteSet(B)
    BY FS_Subset
<1>2. Cardinality(A) \in Nat /\ Cardinality(B) \in Nat
    BY Zenon, <1>1, FS_CardinalityType
<1>3. Cardinality(A \ {o}) = IF o \in A THEN Cardinality(A) - 1 ELSE Cardinality(A)
    BY <1>1, FS_RemoveElement
<1>4. Cardinality(B \ {o}) = IF o \in B THEN Cardinality(B) - 1 ELSE Cardinality(B)
    BY <1>1, FS_RemoveElement
<1> QED
    BY <1>2, <1>3, <1>4

CheckedBy(n) == {o \in Objects : check_node[o] = n}
BlamedOn(n) == {o \in Objects : n \in expired[o]}

\* The invariant: the counters are numbers, and agree.
Counted ==
    /\ expiry_map \in [Objects -> SUBSET [added : Nat, node : Runners]]
    /\ responsible \in [Objects -> Runners] /\ now \in Nat
    /\ expired \in [Objects -> SUBSET Runners]
    /\ check_node \in [Objects -> Tracked]
    /\ count \in [Runners -> Int] /\ host_checks \in [Tracked -> Int]
    /\ twice \in BOOLEAN
    /\ OrphansCounted

\* set_host_check_node moves one check from a who to another.
LEMMA ChecksMoved ==
    ASSUME IsFiniteSet(Objects), NEW o \in Objects, NEW who \in Runners, Counted,
           set_host_check_node(o, who)
    PROVE  /\ check_node' \in [Objects -> Tracked] /\ host_checks' \in [Tracked -> Int]
           /\ \A n \in Tracked :
                  host_checks'[n] = Cardinality(CheckedBy(n)')
                                    - (IF n = Untracked THEN Cardinality(Objects) ELSE 0)
<1>1. who \in Tracked
    BY DEF Tracked
<1>2. check_node' \in [Objects -> Tracked] /\ host_checks' \in [Tracked -> Int]
    BY SMTT(30), Zenon, <1>1 DEF Counted, set_host_check_node
<1>3. ASSUME NEW n \in Tracked
      PROVE  host_checks'[n] = Cardinality(CheckedBy(n)')
                               - (IF n = Untracked THEN Cardinality(Objects) ELSE 0)
    <2>1. /\ CheckedBy(n) \subseteq Objects /\ CheckedBy(n)' \subseteq Objects
          /\ CheckedBy(n) \ {o} = CheckedBy(n)' \ {o}
          /\ (o \in CheckedBy(n)) = (check_node[o] = n)
          /\ (o \in CheckedBy(n)') = (who = n)
        BY DEF CheckedBy, Counted, set_host_check_node
    <2>2. /\ Cardinality(CheckedBy(n)) \in Nat /\ Cardinality(CheckedBy(n)') \in Nat
          /\ Cardinality(CheckedBy(n)') = Cardinality(CheckedBy(n))
                 + (IF o \in CheckedBy(n)' THEN 1 ELSE 0) - (IF o \in CheckedBy(n) THEN 1 ELSE 0)
        BY <2>1, OneMember
    <2>3. Cardinality(Objects) \in Nat
        BY Zenon, FS_CardinalityType
    <2>4. host_checks[n] = Cardinality(CheckedBy(n))
                           - (IF n = Untracked THEN Cardinality(Objects) ELSE 0)
        BY DEF Counted, OrphansCounted, CheckedBy
    <2>5. host_checks'[n] = host_checks[n] + (IF n = who THEN 1 ELSE 0)
                                           - (IF n = check_node[o] THEN 1 ELSE 0)
        BY DEF set_host_check_node
    <2> QED
        BY <2>1, <2>2, <2>3, <2>4, <2>5
<1> QED
    BY <1>2, <1>3

\* A record that comes, goes or moves is counted accordingly.
LEMMA RecordsMoved ==
    ASSUME IsFiniteSet(Objects), NEW o \in Objects, NEW who \in SUBSET Runners, Counted,
           expired' = [expired EXCEPT ![o] = who], count' = Recount(expired[o], who)
    PROVE  /\ expired' \in [Objects -> SUBSET Runners] /\ count' \in [Runners -> Int]
           /\ ~twice => \A n \in Runners : count'[n] = Cardinality(BlamedOn(n)')
<1>1. expired' \in [Objects -> SUBSET Runners] /\ count' \in [Runners -> Int]
    BY DEF Counted, Recount
<1>2. ASSUME NEW n \in Runners, ~twice PROVE count'[n] = Cardinality(BlamedOn(n)')
    <2>1. /\ BlamedOn(n) \subseteq Objects /\ BlamedOn(n)' \subseteq Objects
          /\ BlamedOn(n) \ {o} = BlamedOn(n)' \ {o}
          /\ (o \in BlamedOn(n)) = (n \in expired[o])
          /\ (o \in BlamedOn(n)') = (n \in who)
        BY DEF BlamedOn, Counted
    <2>2. /\ Cardinality(BlamedOn(n)) \in Nat /\ Cardinality(BlamedOn(n)') \in Nat
          /\ Cardinality(BlamedOn(n)') = Cardinality(BlamedOn(n))
                 + (IF o \in BlamedOn(n)' THEN 1 ELSE 0) - (IF o \in BlamedOn(n) THEN 1 ELSE 0)
        BY <2>1, OneMember
    <2>3. count[n] = Cardinality(BlamedOn(n))
        BY <1>2 DEF Counted, OrphansCounted, BlamedOn
    <2>4. count'[n] = count[n] + (IF n \in who THEN 1 ELSE 0) - (IF n \in expired[o] THEN 1 ELSE 0)
        BY Zenon DEF Recount
    <2> QED
        BY Zenon, <2>1, <2>2, <2>3, <2>4
<1> QED
    BY <1>1, <1>2

\* Running an expiration event keeps the counts, or counts a record off twice.
LEMMA ExpireCounted ==
    ASSUME IsFiniteSet(Objects), Counted, NEW o \in Objects, expire_event(o)
    PROVE  Counted'
<1>1. PICK evt \in expiry_map[o] :
          /\ expiry_map' = [expiry_map EXCEPT ![o] = {}]
          /\ IF CameIn(o, evt) THEN Recover(o) ELSE Orphan(o, evt)
          /\ UNCHANGED <<now, responsible, check_node, host_checks>>
    BY DEF expire_event
<1>2. evt.node \in Runners
    <2>1. evt \in [added : Nat, node : Runners]
        BY DEF Counted
    <2> QED
        BY <2>1
<1>3. expiry_map' \in [Objects -> SUBSET [added : Nat, node : Runners]]
    BY Zenon, <1>1 DEF Counted
<1>4. CASE ~CameIn(o, evt)
    <2>1. expired' = [expired EXCEPT ![o] = {evt.node}] /\ count' = Recount(expired[o], {evt.node})
          /\ twice' = twice
        BY Zenon, <1>1, <1>4 DEF Orphan
    <2>2. {evt.node} \in SUBSET Runners
        BY <1>2
    <2>3. /\ expired' \in [Objects -> SUBSET Runners] /\ count' \in [Runners -> Int]
          /\ ~twice => \A n \in Runners : count'[n] = Cardinality(BlamedOn(n)')
        BY Zenon, <2>1, <2>2, RecordsMoved
    <2>4. OrphansCounted'
        <3>1. \A n \in Tracked : host_checks'[n] = Cardinality({p \in Objects : check_node'[p] = n})
                                     - (IF n = Untracked THEN Cardinality(Objects) ELSE 0)
            BY <1>1 DEF Counted, OrphansCounted
        <3>2. ~twice' => \A n \in Runners :
                             count'[n] = Cardinality({p \in Objects : n \in expired'[p]})
            BY Zenon, <2>1, <2>3 DEF BlamedOn
        <3> QED
            BY <3>1, <3>2, Zenon DEF OrphansCounted
    <2>5. twice' \in BOOLEAN
        BY Zenon, <2>1 DEF Counted
    <2> QED
        BY Zenon, <1>1, <1>3, <2>3, <2>4, <2>5 DEF Counted
<1>5. CASE CameIn(o, evt) /\ expired[o] = {}
    <2>1. Recover(o) /\ expired \in [Objects -> SUBSET Runners] /\ count \in [Runners -> Int]
        BY Zenon, <1>1, <1>5 DEF Counted
    <2>2. expired' = expired
        BY Zenon, <1>5, <2>1 DEF Recover
    <2>3. count' = count
        BY <1>5, <2>1 DEF Recover
    <2>4. twice' = twice
        BY <1>5, <2>1, Zenon DEF Recover, Counted
    <2> QED
        BY <1>1, <1>3, <2>2, <2>3, <2>4 DEF Counted, OrphansCounted
<1>6. CASE CameIn(o, evt) /\ expired[o] # {}
    <2>1. Recover(o) /\ expired \in [Objects -> SUBSET Runners] /\ count \in [Runners -> Int]
        BY Zenon, <1>1, <1>6 DEF Counted
    <2>2. expired' \in [Objects -> SUBSET Runners] /\ count' \in [Runners -> Int]
        BY <2>1 DEF Recover
    <2>3. twice' = TRUE
        BY <1>6, <2>1, Zenon DEF Recover
    <2>4. OrphansCounted'
        BY Zenon, <1>1, <2>3 DEF Counted, OrphansCounted
    <2> QED
        BY Zenon, <1>1, <1>3, <2>2, <2>3, <2>4 DEF Counted
<1> QED
    BY Zenon, <1>4, <1>5, <1>6

\* A result counts the record off and moves the check to the who that ran it.
LEMMA ProcessedCounted ==
    ASSUME IsFiniteSet(Objects), Counted, NEW o \in Objects, Processed(o)
    PROVE  Counted'
<1>1. PICK who \in Runners :
          /\ unexpire_host(o) /\ set_host_check_node(o, who)
          /\ UNCHANGED <<now, responsible, twice>>
    BY DEF Processed
<1>2. /\ expired' \in [Objects -> SUBSET Runners] /\ count' \in [Runners -> Int]
      /\ ~twice => \A n \in Runners : count'[n] = Cardinality(BlamedOn(n)')
    BY Zenon, <1>1, RecordsMoved DEF unexpire_host
<1>3. expiry_map' \in [Objects -> SUBSET [added : Nat, node : Runners]]
    BY Zenon, <1>1 DEF Counted, unexpire_host
<1> QED
    BY <1>1, <1>2, <1>3, ChecksMoved DEF Counted, OrphansCounted, BlamedOn, CheckedBy

\* The numbers reported for a who are the records that blame it and the checks
\* that it ran last, for any number of objects (module.c expire_event,
\* unexpire_host, set_host_check_node), unless a record was counted off twice.
THEOREM CountsKept == OrphansSpec => []OrphansCounted
<1>1. OrphansInit => Counted
    <2> SUFFICES ASSUME OrphansInit PROVE Counted
        OBVIOUS
    <2>1. ASSUME NEW n \in Tracked
          PROVE  host_checks[n] = Cardinality(CheckedBy(n))
                                  - (IF n = Untracked THEN Cardinality(Objects) ELSE 0)
        <3>1. CheckedBy(n) = IF n = Untracked THEN Objects ELSE {}
            BY DEF OrphansInit, CheckedBy
        <3>2. host_checks[n] = 0
            BY DEF OrphansInit
        <3> QED
            BY <3>1, <3>2, Sizes, FS_CardinalityType, FS_EmptySet
    <2>2. ASSUME NEW n \in Runners PROVE count[n] = Cardinality(BlamedOn(n))
        <3>1. BlamedOn(n) = {}
            BY Zenon DEF OrphansInit, BlamedOn
        <3> QED
            BY Zenon, <3>1, FS_EmptySet DEF OrphansInit
    <2>3. OrphansCounted
        BY Zenon, <2>1, <2>2 DEF OrphansCounted, CheckedBy, BlamedOn
    <2> QED
        <3>1. twice \in BOOLEAN
            BY Zenon DEF OrphansInit
        <3>2. /\ expiry_map \in [Objects -> SUBSET [added : Nat, node : Runners]]
              /\ expired \in [Objects -> SUBSET Runners] /\ check_node \in [Objects -> Tracked]
            BY DEF OrphansInit, Tracked
        <3>3. count \in [Runners -> Int] /\ host_checks \in [Tracked -> Int] /\ now \in Nat
              /\ responsible \in [Objects -> Runners]
            BY DEF OrphansInit, event_start
        <3> QED
            BY <2>3, <3>1, <3>2, <3>3 DEF Counted
<1>2. Counted /\ [OrphansNext]_orphanVars => Counted'
    <2> SUFFICES ASSUME Counted, [OrphansNext]_orphanVars PROVE Counted'
        OBVIOUS
    <2>1. ASSUME NEW o \in Objects, Precheck(o) PROVE Counted'
        <3>1. expiry_map' \in [Objects -> SUBSET [added : Nat, node : Runners]]
            BY <2>1 DEF Counted, Precheck, schedule_expiration_event
        <3> QED
            BY Zenon, <2>1, <3>1 DEF Counted, OrphansCounted, Precheck
    <2>2. ASSUME NEW o \in Objects, StatusOnly(o) PROVE Counted'
        BY Zenon, <2>2 DEF Counted, OrphansCounted, StatusOnly
    <2>3. ASSUME NEW o \in Objects, Reassign(o) PROVE Counted'
        BY <2>3 DEF Counted, OrphansCounted, Reassign
    <2>4. ASSUME OrphansTick PROVE Counted'
        BY <2>4 DEF Counted, OrphansCounted, OrphansTick
    <2>5. ASSUME UNCHANGED orphanVars PROVE Counted'
        BY <2>5 DEF Counted, OrphansCounted, orphanVars
    <2> QED
        BY Zenon, <2>1, <2>2, <2>3, <2>4, <2>5, Sizes, ExpireCounted, ProcessedCounted DEF OrphansNext
<1>3. Counted => OrphansCounted
    BY DEF Counted
<1> QED
    BY <1>1, <1>2, <1>3, PTL DEF OrphansSpec

-----------------------------------------------------------------------------
(* Pollers are deleted rightly *)

\* The types of what the decisions are taken from.
Typed ==
    /\ clock \in Nat
    /\ auto_delete \in [Pollers -> Nat]
    /\ nodes \in SUBSET Pollers /\ connected \in SUBSET nodes
    /\ last_action \in [Pollers -> Int]
    /\ touch \in [Pollers -> Nat]
    /\ connect_time \in Nat /\ active_since \in Nat
    /\ event \in SUBSET Nat

\* Times are those of this process: a node was last in action at some time up
\* to now, a connected one now, and the daemon was there before any of them,
\* unless it came late.  The next check is at most an interval ahead.
InOrder ==
    /\ clock > 0 /\ connect_time <= clock
    /\ \A n \in Pollers : last_action[n] <= clock
    /\ \A n \in connected : last_action[n] = clock
    /\ "late_ipc" \notin limits => \A n \in Pollers : last_action[n] > 0 => last_action[n] >= connect_time
    /\ \A t \in event : clock <= t /\ t <= clock + CheckInterval
    /\ "no_event" \notin limits => event # {}

\* The last sign of life of a node was before the time that counts as its last
\* action, and before that by the time only that a connected one may be silent.
Behind(n) ==
    /\ touch[n] <= clock
    /\ last_action[n] <= 0 => touch[n] <= connect_time
    /\ last_action[n] > 0 => touch[n] <= last_action[n] /\ last_action[n] - touch[n] <= MaxSilence

InTouch == \A n \in Pollers : Behind(n)

\* At the last check, an interval before the next, every node was asked for
\* whose time was over then, unless there were too many.
Asked ==
    \A t \in event : \A n \in nodes \ connected :
        /\ "no_event" \notin limits /\ connected # {}
        /\ auto_delete[n] > 0 /\ last_action[n] > 0
        /\ t - CheckInterval > last_action[n] + auto_delete[n]
        /\ t - CheckInterval > active_since
        => n \in asked \/ "too_long" \in limits

DeletionInv == Typed /\ InOrder /\ InTouch /\ Asked

\* What auto_delete_nodes finds has been silent for its time.
LEMMA FoundSilent ==
    ASSUME DeletionInv, NEW n \in nodes, should_auto_delete(n)
    PROVE  clock - touch[n] > auto_delete[n]
<1>1. /\ n \in Pollers /\ clock \in Nat /\ connect_time \in Nat /\ touch[n] \in Nat
      /\ last_action[n] \in Int /\ auto_delete[n] \in Nat
    BY DEF DeletionInv, Typed
<1>2. Behind(n)
    BY Zenon, <1>1 DEF DeletionInv, InTouch
<1>3. auto_del_last_seen_delta(n) > auto_delete[n]
    BY Zenon DEF should_auto_delete
<1> QED
    BY <1>1, <1>2, <1>3 DEF auto_del_last_seen_delta, Behind

\* A node whose last action is recent gave a sign of life not long before.
LEMMA RecentlyAlive ==
    ASSUME DeletionInv, NEW m \in nodes, last_action[m] > 0, last_action[m] > clock - Recently
    PROVE  clock - touch[m] < Recently + MaxSilence
<1>1. /\ m \in Pollers /\ clock \in Nat /\ touch[m] \in Nat /\ last_action[m] \in Int
      /\ MaxSilence \in Nat
    BY Settings DEF DeletionInv, Typed
<1>2. Behind(m)
    BY Zenon, <1>1 DEF DeletionInv, InTouch
<1>3. Recently = 2
    BY DEF Recently, Pulse
<1> QED
    BY <1>1, <1>2, <1>3 DEF Behind

\* With settings of two pulse intervals or more and a daemon that was there from
\* the start, what auto_delete_nodes finds leaves a node that is alive.
LEMMA FoundRightly ==
    ASSUME DeletionInv, "late_ipc" \notin limits,
           \A k \in nodes : auto_delete[k] > 0 => auto_delete[k] >= 2,
           NEW n \in nodes, should_auto_delete(n)
    PROVE  \E m \in nodes \ {k \in nodes : should_auto_delete(k)} :
               clock - touch[m] < Recently + MaxSilence
<1> DEFINE found == {m \in nodes : should_auto_delete(m)}
<1>1. CASE connected # {}
    <2>1. PICK m \in connected : TRUE
        BY <1>1
    <2>2. m \in nodes \ found
        BY <2>1 DEF DeletionInv, Typed, should_auto_delete
    <2>3. last_action[m] > 0 /\ last_action[m] > clock - Recently
        BY <2>1 DEF DeletionInv, Typed, InOrder, Recently, Pulse
    <2> QED
        BY Zenon, <2>2, <2>3, RecentlyAlive
<1>2. CASE connected = {}
    <2>1. PICK m \in nodes \ {n} : auto_del_last_seen_delta(m) < Recently
        BY <1>2 DEF should_auto_delete, auto_delete_pgroup_recently_seen
    <2>2. /\ m \in Pollers /\ n \in Pollers /\ clock \in Nat /\ connect_time \in Nat
          /\ last_action[m] \in Int /\ last_action[n] \in Int
          /\ auto_delete[m] \in Nat /\ auto_delete[n] \in Nat
        BY <2>1 DEF DeletionInv, Typed
    <2> HIDE DEF found
    <2>r. Recently = 2
        BY DEF Recently, Pulse
    <2>3. (auto_delete[m] > 0 => auto_delete[m] >= 2) /\ (auto_delete[n] > 0 => auto_delete[n] >= 2)
        BY <2>1
    <2>4. m \notin found
        <3>1. auto_delete[m] > 0 => ~(auto_del_last_seen_delta(m) > auto_delete[m])
            BY <2>1, <2>2, <2>3, <2>r DEF auto_del_last_seen_delta
        <3> QED
            BY Zenon, <3>1 DEF should_auto_delete, found
    <2>5. clock - (IF last_action[n] <= 0 THEN connect_time ELSE last_action[n]) > 2
        <3>1. auto_delete[n] > 0 /\ auto_del_last_seen_delta(n) > auto_delete[n]
            BY Zenon DEF should_auto_delete
        <3> QED
            BY <2>2, <2>3, <3>1 DEF auto_del_last_seen_delta
    <2>6. last_action[n] > 0 => last_action[n] >= connect_time
        BY Zenon, <2>2 DEF DeletionInv, InOrder
    <2>7. last_action[m] <= clock
        BY Zenon, <2>2 DEF DeletionInv, InOrder
    <2>8. last_action[m] > 0 /\ last_action[m] > clock - Recently
        <3>1. clock - (IF last_action[m] <= 0 THEN connect_time ELSE last_action[m]) < 2
            BY Zenon, <2>1, <2>r DEF auto_del_last_seen_delta
        <3>2. last_action[m] > 0 /\ last_action[m] > clock - 2
            BY <2>2, <2>5, <2>6, <3>1
        <3> QED
            BY <2>2, <2>7, <2>r, <3>2
    <2>9. clock - touch[m] < Recently + MaxSilence
        BY Zenon, <2>1, <2>8, RecentlyAlive
    <2> QED
        BY Zenon, <2>1, <2>4, <2>9 DEF found
<1> QED
    BY <1>1, <1>2

\* While a node is active, a check finds every other one whose time is over.
LEMMA FoundInTime ==
    ASSUME DeletionInv, NEW n \in nodes \ connected, connected # {},
           auto_delete[n] > 0, last_action[n] > 0, clock > last_action[n] + auto_delete[n]
    PROVE  should_auto_delete(n)
<1>1. n \in Pollers /\ clock \in Nat /\ last_action[n] \in Int /\ auto_delete[n] \in Nat
    BY DEF DeletionInv, Typed
<1>2. Cardinality(nodes) # 1
    <2>1. IsFiniteSet(nodes)
        BY FS_Subset, Settings DEF DeletionInv, Typed
    <2>2. PICK m \in connected : TRUE
        OBVIOUS
    <2>3. m \in nodes /\ m # n
        BY <2>2 DEF DeletionInv, Typed
    <2> QED
        BY <2>1, <2>3, FS_Singleton
<1> QED
    BY <1>1, <1>2 DEF should_auto_delete, auto_del_last_seen_delta

\* The first process starts with no node seen and no command.
LEMMA DeletionInitOk == DeletionInit => DeletionInv
<1> SUFFICES ASSUME DeletionInit PROVE DeletionInv
    OBVIOUS
<1>1. Typed /\ InOrder
    <2>1. auto_delete \in [Pollers -> Nat]
        BY Zenon, Settings DEF DeletionInit
    <2>2. Typed
        BY <2>1, Settings DEF DeletionInit, Typed
    <2>3. InOrder
        BY Settings DEF DeletionInit, InOrder
    <2> QED
        BY <2>2, <2>3
<1>2. Asked /\ InTouch
    BY DEF DeletionInit, Asked, InTouch, Behind
<1> QED
    BY <1>1, <1>2 DEF DeletionInv

\* The timed event asks for the nodes whose time is over.
LEMMA CheckOk == ASSUME DeletionInv, auto_delete_nodes PROVE DeletionInv'
<1> USE DEF DeletionInv
<1>1. /\ UNCHANGED <<clock, auto_delete, nodes, connected, last_action, connect_time, touch,
                     active_since>>
      /\ \E t \in event : t <= clock
    BY DEF auto_delete_nodes
<1>t. InTouch'
    BY Zenon, <1>1 DEF InTouch, Behind
<1>2. CASE ~ipc_connected
    <2>1. event' = {} /\ limits' = limits \cup {"no_event"} /\ asked' = asked
        BY Zenon, <1>2 DEF auto_delete_nodes
    <2>2. Typed' /\ InOrder'
        BY Zenon, <1>1, <2>1 DEF Typed, InOrder
    <2>3. Asked'
        BY <1>1, <2>1 DEF Asked
    <2> QED
        BY Zenon, <1>t, <2>2, <2>3
<1>3. CASE ipc_connected
    <2> DEFINE found == {n \in nodes : should_auto_delete(n)}
    <2>0. event' = {clock + CheckInterval} /\ Command(found)
        BY Zenon, <1>3 DEF auto_delete_nodes
    <2> HIDE DEF found
    <2>1. /\ event' = {clock + CheckInterval}
          /\ \/ asked' = found
             \/ "too_long" \in limits'
          /\ "no_event" \notin limits' => "no_event" \notin limits
          /\ "late_ipc" \notin limits' => "late_ipc" \notin limits
        BY <2>0 DEF Command
    <2>2. clock \in Nat /\ CheckInterval \in Nat
        BY Zenon, Settings DEF Typed
    <2>3. Typed'
        BY SMTT(30), Zenon, <1>1, <2>1, <2>2 DEF Typed
    <2>4. InOrder'
        BY SMTT(30), Zenon, <1>1, <2>1, <2>2 DEF InOrder
    <2>5. Asked'
        <3> SUFFICES ASSUME NEW t \in event', NEW n \in nodes' \ connected', connected' # {},
                            auto_delete'[n] > 0, last_action'[n] > 0,
                            t - CheckInterval > last_action'[n] + auto_delete'[n]
                     PROVE  n \in asked' \/ "too_long" \in limits'
            BY SMTT(30), Zenon DEF Asked
        <3>1. n \in nodes \ connected /\ connected # {} /\ auto_delete[n] > 0 /\ last_action[n] > 0
            BY Zenon, <1>1
        <3>2. clock > last_action[n] + auto_delete[n]
            BY SMTT(30), Zenon, <1>1, <2>1, <2>2
        <3>3. n \in found
            BY <3>1, <3>2, FoundInTime DEF found
        <3> QED
            BY Zenon, <2>1, <3>3
    <2> QED
        BY Zenon, <1>t, <2>3, <2>4, <2>5
<1> QED
    BY Zenon, <1>2, <1>3

\* A new process knows no times and runs no commands.
LEMMA RestartOk ==
    ASSUME DeletionInv, NEW configured \in SUBSET nodes, Restart(configured)
    PROVE  DeletionInv'
<1> USE DEF DeletionInv
<1>1. Typed' /\ InOrder'
    BY SMTT(30), Zenon, Settings DEF Restart, Typed, InOrder
<1>2. Asked'
    BY DEF Restart, Asked, Typed
<1>3. InTouch'
    BY DEF Restart, InTouch, Behind, Typed
<1> QED
    BY Zenon, <1>1, <1>2, <1>3

\* A node that is in contact starts anew, and so does the group with its first.
LEMMA ContactOk == ASSUME DeletionInv, NEW n \in Pollers, Contact(n) PROVE DeletionInv'
<1> USE DEF DeletionInv
<1>1. Typed'
    BY DEF Contact, Typed
<1>2. InOrder'
    <2>1. last_action' = [last_action EXCEPT ![n] = clock] /\ connected' \in {connected, connected \cup {n}}
          /\ UNCHANGED <<clock, connect_time, event, limits>>
        BY DEF Contact
    <2>2. last_action'[n] = clock /\ \A m \in Pollers \ {n} : last_action'[m] = last_action[m]
        BY Zenon, <2>1 DEF Typed
    <2> QED
        BY <2>1, <2>2 DEF Typed, InOrder
<1>3. Asked'
    BY Settings DEF Contact, Typed, InOrder, Asked
<1>4. InTouch'
    BY Settings DEF Contact, Typed, InOrder, InTouch, Behind
<1> QED
    BY Zenon, <1>1, <1>2, <1>3, <1>4

\* The clock waits for the timed event.
LEMMA DeletionTickOk == ASSUME DeletionInv, DeletionTick PROVE DeletionInv'
<1> USE DEF DeletionInv
<1>1. Typed'
    BY DEF DeletionTick, Typed
<1>2. InOrder'
    BY Settings DEF DeletionTick, Typed, InOrder
<1>3. Asked'
    BY DEF DeletionTick, Typed, InOrder, Asked
<1>4. InTouch'
    BY Settings DEF DeletionTick, Typed, InOrder, InTouch, Behind
<1> QED
    BY <1>1, <1>2, <1>3, <1>4

\* Every step keeps the invariant.
LEMMA DeletionStepOk == ASSUME DeletionInv, [DeletionNext]_deletionVars PROVE DeletionInv'
<1>1. ASSUME NEW n \in Pollers, Drop(n) PROVE DeletionInv'
    <2>1. Typed' /\ InOrder'
        BY Zenon, <1>1 DEF DeletionInv, Drop, Typed, InOrder
    <2>2. Asked'
        BY SMTT(30), Zenon, <1>1, Settings DEF DeletionInv, Drop, Typed, InOrder, Asked
    <2>3. InTouch'
        BY Zenon, <1>1 DEF DeletionInv, Drop, InTouch, Behind
    <2> QED
        BY Zenon, <2>1, <2>2, <2>3 DEF DeletionInv
<1>2. ASSUME Ipc PROVE DeletionInv'
    <2>1. /\ UNCHANGED <<clock, auto_delete, nodes, connected, last_action, event, touch,
                         active_since, asked>>
          /\ connect_time' \in {connect_time, clock}
          /\ (limits' = limits /\ connect_time' = connect_time) \/ limits' = limits \cup {"late_ipc"}
        BY Zenon, <1>2 DEF Ipc
    <2>2. Typed' /\ InOrder'
        BY <2>1 DEF DeletionInv, Typed, InOrder
    <2>3. Asked' /\ InTouch'
        BY <2>1 DEF DeletionInv, Typed, Asked, InTouch, Behind
    <2> QED
        BY Zenon, <2>2, <2>3 DEF DeletionInv
<1>3. ASSUME auto_delete_node_cmd PROVE DeletionInv'
    <2>1. PICK c \in cmds : \/ Restart(nodes \ c)
                            \/ UNCHANGED <<clock, auto_delete, nodes, connected, last_action, touch,
                                   connect_time, event, active_since, asked, limits>>
        BY Zenon, <1>3 DEF auto_delete_node_cmd
    <2>2. CASE Restart(nodes \ c)
        BY <2>2, RestartOk
    <2>3. CASE ~Restart(nodes \ c)
        BY Zenon, <2>1, <2>3 DEF DeletionInv, Typed, InOrder, InTouch, Behind, Asked
    <2> QED
        BY <2>2, <2>3
<1>4. ASSUME UNCHANGED deletionVars PROVE DeletionInv'
    BY Zenon, <1>4 DEF deletionVars, DeletionInv, Typed, InOrder, InTouch, Behind, Asked
<1> QED
    BY Zenon, <1>1, <1>2, <1>3, <1>4, CheckOk, RestartOk, ContactOk, DeletionTickOk DEF DeletionNext

\* Only the timed event starts a command, for the nodes that it finds.
LEMMA CommandsOfCheck ==
    ASSUME [DeletionNext]_deletionVars, NEW gone \in cmds' \ cmds
    PROVE  /\ auto_delete_nodes /\ gone # {}
           /\ gone = {n \in nodes : should_auto_delete(n)}
<1>1. ASSUME auto_delete_nodes PROVE gone # {} /\ gone = {n \in nodes : should_auto_delete(n)}
    <2> DEFINE found == {n \in nodes : should_auto_delete(n)}
    <2>1. Command(found) \/ cmds' = cmds
        BY Zenon, <1>1 DEF auto_delete_nodes
    <2> HIDE DEF found
    <2>2. gone # {} /\ gone = found
        BY <2>1 DEF Command
    <2> QED
        BY Zenon, <2>2 DEF found
<1>2. ASSUME ~auto_delete_nodes PROVE cmds' \subseteq cmds
    BY Zenon, <1>2 DEF DeletionNext, deletionVars, auto_delete_node_cmd, Contact, Drop, Ipc,
       Restart, DeletionTick
<1> QED
    BY Zenon, <1>1, <1>2

\* For any group, settings and times: a command that auto_delete_nodes starts
\* removes only nodes that gave no sign of life for their auto_delete time, and
\* leaves one that gave one lately, also after an outage, restarts of the master or
\* a deletion that failed (module.c should_auto_delete).
THEOREM DeletionLeavesOne == DeletionSpec => DeletedRightly
<1>1. DeletionInit => DeletionInv
    BY DeletionInitOk
<1>2. DeletionInv /\ [DeletionNext]_deletionVars => DeletionInv'
    BY DeletionStepOk
<1> DEFINE Due(gone) == \A n \in gone : clock - touch[n] > auto_delete[n]
           Left(gone) == \/ \E n \in nodes : auto_delete[n] \in 1 .. Recently - 1
                         \/ "late_ipc" \in limits
                         \/ \E m \in nodes \ gone : clock - touch[m] < Recently + MaxSilence
<1>3. DeletionInv /\ [DeletionNext]_deletionVars =>
          [\A gone \in cmds' \ cmds :
             /\ \A n \in gone : clock - touch[n] > auto_delete[n]
             /\ \/ \E n \in nodes : auto_delete[n] \in 1 .. Recently - 1
                \/ "late_ipc" \in limits
                \/ \E m \in nodes \ gone : clock - touch[m] < Recently + MaxSilence
          ]_deletionVars
    <2> SUFFICES ASSUME DeletionInv, [DeletionNext]_deletionVars, NEW gone \in cmds' \ cmds
                 PROVE  Due(gone) /\ Left(gone)
        OBVIOUS
    <2>1. gone # {} /\ gone = {n \in nodes : should_auto_delete(n)}
        BY CommandsOfCheck
    <2>2. Due(gone)
        BY Zenon, <2>1, FoundSilent
    <2>3. CASE "late_ipc" \in limits \/ \E n \in nodes : auto_delete[n] \in 1 .. Recently - 1
        BY Zenon, <2>2, <2>3
    <2>4. CASE "late_ipc" \notin limits /\ \A n \in nodes : auto_delete[n] \notin 1 .. Recently - 1
        <3>1. \A k \in nodes : auto_delete[k] > 0 => auto_delete[k] >= 2
            <4> SUFFICES ASSUME NEW k \in nodes PROVE auto_delete[k] > 0 => auto_delete[k] >= 2
                OBVIOUS
            <4>1. auto_delete[k] \in Nat /\ Recently = 2
                BY DEF DeletionInv, Typed, Recently, Pulse
            <4>2. auto_delete[k] \notin 1 .. 1
                BY <2>4, <4>1
            <4> QED
                BY <4>1, <4>2
        <3>2. PICK n \in nodes : should_auto_delete(n)
            BY Zenon, <2>1
        <3>3. \E m \in nodes \ gone : clock - touch[m] < Recently + MaxSilence
            BY Zenon, <2>1, <2>4, <3>1, <3>2, FoundRightly
        <3> QED
            BY Zenon, <2>2, <3>3
    <2> QED
        BY Zenon, <2>3, <2>4
<1> QED
    BY <1>1, <1>2, <1>3, PTL DEF DeletionSpec, DeletedRightly

\* For any group and settings: while some node is active, one that stays away is
\* named in a command at the first check after its time and at every later one,
\* unless too many are found or the checks have ended (module.c auto_delete_nodes).
THEOREM DeletionInTime == DeletionSpec => []DeletedInTime
<1>1. DeletionInit => DeletionInv
    BY DeletionInitOk
<1>2. DeletionInv /\ [DeletionNext]_deletionVars => DeletionInv'
    BY DeletionStepOk
<1>3. DeletionInv => DeletedInTime
    <2> SUFFICES ASSUME DeletionInv, NEW n \in nodes \ connected, "no_event" \notin limits, connected # {},
                        auto_delete[n] > 0, last_action[n] > 0,
                        clock - CheckInterval > last_action[n] + auto_delete[n],
                        clock - CheckInterval > active_since
                 PROVE  n \in asked \/ "too_long" \in limits
        BY Zenon DEF DeletedInTime
    <2>1. PICK t \in event : TRUE
        BY Zenon DEF DeletionInv, InOrder
    <2>2. t \in Nat /\ clock \in Nat /\ CheckInterval \in Nat /\ t >= clock /\ active_since \in Nat
          /\ last_action[n] \in Int /\ auto_delete[n] \in Nat
        BY Settings DEF DeletionInv, Typed, InOrder
    <2>3. t - CheckInterval > last_action[n] + auto_delete[n] /\ t - CheckInterval > active_since
        BY <2>2
    <2> QED
        BY Zenon, <2>1, <2>3 DEF DeletionInv, Asked
<1> QED
    BY <1>1, <1>2, <1>3, PTL DEF DeletionSpec
=============================================================================
