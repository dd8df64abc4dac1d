----------------------------- MODULE DutyProofs -----------------------------
(***************************************************************************)
(* Proofs about who runs the checks, for any masters, pollers, hosts and   *)
(* start times: all nodes that have settled sort their peers the same      *)
(* way, and so exactly one of them acts for each host.  The counters of    *)
(* handled hosts agree with these decisions.                               *)
(***************************************************************************)
EXTENDS Duty, FiniteSetTheorems, TLAPS

-----------------------------------------------------------------------------
(* cmp_peer is a strict order, and qsort gives each node its rank          *)

Known == [Nodes -> Nat]

LEMMA TiersFinite ==
  /\ IsFiniteSet(Nodes) /\ IsFiniteSet(Masters) /\ IsFiniteSet(Pollers)
  /\ Masters \subseteq Nodes /\ Pollers \subseteq Nodes
  /\ \A n \in Nodes : Tier(n) \in {Masters, Pollers} /\ n \in Tier(n)
BY Zenon, PgroupAssumption, FS_Union DEF Nodes, Tier

LEMMA PlaceOk ==
  /\ Place \in [Nodes -> Nat]
  /\ \A n, m \in Nodes : Place[n] = Place[m] => n = m
<1> DEFINE N == Cardinality(Nodes)
           Good(f) == \A n, m \in Nodes : f[n] = f[m] => n = m
<1>1. N \in Nat /\ ExistsBijection(Nodes, 1 .. N)
  <2>1. N \in Nat
    BY TiersFinite, FS_CardinalityType
  <2>2. IsFiniteSet(1 .. N) /\ Cardinality(1 .. N) = N
    BY <2>1, FS_Interval
  <2>3. QED
    BY <2>1, <2>2, TiersFinite, FS_SameCardinalityBij
<1>2. PICK f \in Bijection(Nodes, 1 .. N) : TRUE
  BY <1>1 DEF ExistsBijection
<1>3. f \in [Nodes -> 1 .. N] /\ Good(f)
  BY <1>2 DEF Bijection, Injection, IsInjective
<1>4. Place \in [Nodes -> 1 .. N] /\ Good(Place)
  <2>1. \E g \in [Nodes -> 1 .. N] : Good(g)
    BY <1>3
  <2>2. QED
    BY <2>1 DEF Place
<1>5. QED
  BY <1>1, <1>4

LEMMA StrictOrder ==
  ASSUME NEW s \in Known, NEW a \in Nodes, NEW b \in Nodes
  PROVE  /\ ~cmp_peer(s, a, a)
         /\ a # b => cmp_peer(s, a, b) \/ cmp_peer(s, b, a)
         /\ \A c \in Nodes : cmp_peer(s, a, b) /\ cmp_peer(s, b, c) => cmp_peer(s, a, c)
<1>1. /\ \A n \in Nodes : s[n] \in Nat /\ Place[n] \in Nat
      /\ Place[a] = Place[b] => a = b
  BY PlaceOk DEF Known
<1>2. QED
  BY <1>1 DEF cmp_peer

LEMMA RankType ==
  ASSUME NEW s \in Known, NEW T \in SUBSET Nodes, NEW a \in T
  PROVE  Rank(T, s, a) \in 0 .. Cardinality(T) - 1
<1> DEFINE A == {x \in T : cmp_peer(s, x, a)}
<1>1. IsFiniteSet(T) /\ Cardinality(T) \in Nat
  BY TiersFinite, FS_Subset, FS_CardinalityType
<1>2. A \subseteq T /\ a \notin A
  BY StrictOrder
<1>3. IsFiniteSet(A) /\ Cardinality(A) <= Cardinality(T) /\ (Cardinality(A) = Cardinality(T) => A = T)
  BY <1>1, <1>2, FS_Subset
<1>4. Cardinality(A) \in Nat
  BY <1>3, FS_CardinalityType
<1>5. Rank(T, s, a) = Cardinality(A)
  BY DEF Rank
<1> HIDE DEF A
<1>6. QED
  BY <1>1, <1>2, <1>3, <1>4, <1>5

LEMMA RankLess ==
  ASSUME NEW s \in Known, NEW T \in SUBSET Nodes, NEW a \in T, NEW b \in T, cmp_peer(s, a, b)
  PROVE  Rank(T, s, a) < Rank(T, s, b)
<1> DEFINE A == {x \in T : cmp_peer(s, x, a)}
           B == {x \in T : cmp_peer(s, x, b)}
<1>1. A \subseteq B /\ a \in B /\ a \notin A
  BY StrictOrder
<1>2. IsFiniteSet(B) /\ Cardinality(B) \in Nat
  <2>1. B \subseteq Nodes
    OBVIOUS
  <2>2. QED
    BY <2>1, TiersFinite, FS_Subset, FS_CardinalityType
<1>3. Rank(T, s, a) = Cardinality(A) /\ Rank(T, s, b) = Cardinality(B)
  BY DEF Rank
<1> HIDE DEF A, B
<1>4. /\ IsFiniteSet(A) /\ Cardinality(A) <= Cardinality(B)
      /\ Cardinality(A) = Cardinality(B) => A = B
  BY <1>1, <1>2, FS_Subset
<1>5. Cardinality(A) \in Nat
  BY <1>4, FS_CardinalityType
<1>6. QED
  BY <1>1, <1>2, <1>3, <1>4, <1>5

\* Different nodes have different ranks, and every rank is some node's.
LEMMA RankOne ==
  ASSUME NEW s \in Known, NEW T \in SUBSET Nodes
  PROVE  /\ \A a, b \in T : Rank(T, s, a) = Rank(T, s, b) => a = b
         /\ \A i \in 0 .. Cardinality(T) - 1 : \E a \in T : Rank(T, s, a) = i
<1> DEFINE R == 0 .. Cardinality(T) - 1
           f == [a \in T |-> Rank(T, s, a)]
<1>1. \A a, b \in T : Rank(T, s, a) = Rank(T, s, b) => a = b
  <2> SUFFICES ASSUME NEW a \in T, NEW b \in T, a # b PROVE Rank(T, s, a) # Rank(T, s, b)
    OBVIOUS
  <2>1. cmp_peer(s, a, b) \/ cmp_peer(s, b, a)
    BY StrictOrder
  <2>2. Rank(T, s, a) \in Int /\ Rank(T, s, b) \in Int
    BY RankType
  <2>3. Rank(T, s, a) < Rank(T, s, b) \/ Rank(T, s, b) < Rank(T, s, a)
    BY <2>1, RankLess
  <2>4. QED
    BY <2>2, <2>3
<1>2. IsFiniteSet(T) /\ Cardinality(T) \in Nat
  BY TiersFinite, FS_Subset, FS_CardinalityType
<1>3. IsFiniteSet(R) /\ Cardinality(R) = Cardinality(T)
  BY SMTT(30), <1>2, FS_Interval
<1>4. f \in Injection(T, R)
  BY <1>1, RankType DEF Injection, IsInjective
<1> HIDE DEF f
<1>5. f \in Surjection(T, R)
  BY <1>3, <1>4, FS_Injection
<1>6. \A i \in R : \E a \in T : f[a] = i
  BY <1>5 DEF Surjection
<1>7. QED
  BY <1>1, <1>6 DEF f

\* The connected nodes have the lowest ranks.
LEMMA ConnectedFirst ==
  ASSUME NEW s \in Known, NEW T \in SUBSET Nodes, NEW a \in T
  PROVE  s[a] # 0 <=> Rank(T, s, a) < Cardinality(Connected(T, s))
<1> DEFINE A == {x \in T : cmp_peer(s, x, a)}
           C == Connected(T, s)
<1>1. \A x \in T : s[x] \in Nat
  BY DEF Known
<1>2. C \subseteq T /\ (a \in C <=> s[a] # 0) /\ a \notin A /\ A \subseteq T
  BY StrictOrder DEF Connected
<1>3. /\ s[a] # 0 => A \subseteq C
      /\ s[a] = 0 => C \subseteq A
  BY <1>1 DEF cmp_peer, Connected
<1>4. Rank(T, s, a) = Cardinality(A)
  BY DEF Rank
<1> HIDE DEF A, C
<1>5. /\ IsFiniteSet(A) /\ IsFiniteSet(C) /\ Cardinality(A) \in Nat /\ Cardinality(C) \in Nat
  <2>1. IsFiniteSet(T)
    BY TiersFinite, FS_Subset
  <2>2. IsFiniteSet(A) /\ IsFiniteSet(C)
    BY <1>2, <2>1, FS_Subset
  <2>3. QED
    BY <2>2, FS_CardinalityType
<1>6. CASE s[a] # 0
  <2>1. Cardinality(A) <= Cardinality(C) /\ (Cardinality(C) = Cardinality(A) => C = A)
    BY <1>3, <1>5, <1>6, FS_Subset
  <2>2. QED
    BY <1>2, <1>4, <1>5, <1>6, <2>1 DEF C
<1>7. CASE s[a] = 0
  <2>1. Cardinality(C) <= Cardinality(A)
    BY <1>3, <1>5, <1>7, FS_Subset
  <2>2. QED
    BY <1>4, <1>5, <1>7, <2>1 DEF C
<1>8. QED
  BY <1>6, <1>7

-----------------------------------------------------------------------------
(* A peer group that is sorted by what its node knows                      *)

\* pg->nodes has every node of the tier once.
Group(pg, T) == DOMAIN pg.nodes = 1 .. Cardinality(T) /\ Members(pg) = T

\* The peer ids are the ranks by the start times s, of which only those of
\* the tier matter.
Ranked(pg, T, s) ==
  /\ pg.active = Cardinality(Connected(T, s))
  /\ \A m \in T : pg.nodes[Rank(T, s, m) + 1] = m

LEMMA AssignOk ==
  ASSUME NEW s \in Known, NEW T \in SUBSET Nodes, NEW pg, Members(pg) = T
  PROVE  Group(pgroup_assign_peer_ids(pg, s), T) /\ Ranked(pgroup_assign_peer_ids(pg, s), T, s)
<1> DEFINE q == pgroup_assign_peer_ids(pg, s)
           C == Cardinality(T)
<1>1. /\ q.nodes = [i \in 1 .. C |-> CHOOSE m \in T : Rank(T, s, m) = i - 1]
      /\ q.active = Cardinality(Connected(T, s))
  BY DEF pgroup_assign_peer_ids, Sorted
<1>2. C \in Nat
  BY TiersFinite, FS_Subset, FS_CardinalityType
<1>3. \A i \in 1 .. C : q.nodes[i] \in T /\ Rank(T, s, q.nodes[i]) = i - 1
  <2> SUFFICES ASSUME NEW i \in 1 .. C PROVE q.nodes[i] \in T /\ Rank(T, s, q.nodes[i]) = i - 1
    OBVIOUS
  <2>1. \E m \in T : Rank(T, s, m) = i - 1
    <3>1. i - 1 \in 0 .. C - 1
      BY <1>2
    <3>2. QED
      BY <3>1, RankOne
  <2>2. q.nodes[i] = CHOOSE m \in T : Rank(T, s, m) = i - 1
    BY <1>1
  <2> HIDE DEF q
  <2>3. QED
    BY <2>1, <2>2
<1>4. \A m \in T : Rank(T, s, m) + 1 \in 1 .. C
  BY <1>2, RankType
<1>5. DOMAIN q.nodes = 1 .. C
  BY <1>1
<1> HIDE DEF q
<1>6. \A m \in T : q.nodes[Rank(T, s, m) + 1] = m
  <2> SUFFICES ASSUME NEW m \in T PROVE q.nodes[Rank(T, s, m) + 1] = m
    OBVIOUS
  <2> DEFINE i == Rank(T, s, m) + 1
  <2>1. i \in 1 .. C /\ Rank(T, s, m) \in 0 .. C - 1
    BY <1>4, RankType
  <2>2. q.nodes[i] \in T /\ Rank(T, s, q.nodes[i]) = Rank(T, s, m)
    BY <1>2, <1>3, <2>1
  <2>3. QED
    BY <2>2, RankOne
<1>7. Members(q) = T
  <2>1. \A m \in Members(q) : m \in T
    BY <1>3, <1>5 DEF Members
  <2>2. \A m \in T : m \in Members(q)
    BY <1>4, <1>5, <1>6 DEF Members
  <2>3. QED
    BY <2>1, <2>2
<1>8. QED
  BY <1>1, <1>5, <1>6, <1>7 DEF Group, Ranked, q

\* Start times of nodes elsewhere make no difference.
LEMMA RankedElsewhere ==
  ASSUME NEW s, NEW z, NEW T, NEW pg, Ranked(pg, T, s),
         \A m \in T : s[m] = z[m]
  PROVE  Ranked(pg, T, z)
<1>1. Connected(T, s) = Connected(T, z)
  BY DEF Connected
<1>2. \A m \in T : Rank(T, s, m) = Rank(T, z, m)
  <2> SUFFICES ASSUME NEW m \in T PROVE Rank(T, s, m) = Rank(T, z, m)
    OBVIOUS
  <2>1. {x \in T : cmp_peer(s, x, m)} = {x \in T : cmp_peer(z, x, m)}
    BY DEF cmp_peer
  <2>2. QED
    BY <2>1 DEF Rank
<1>3. QED
  BY <1>1, <1>2 DEF Ranked

\* All peer groups that are sorted by the same start times give an id to the
\* same node, which is connected if any node of the tier is.
LEMMA Picks ==
  ASSUME NEW s \in Known, NEW T \in SUBSET Nodes, T # {}, NEW id \in Nat
  PROVE  \E p \in T :
           /\ Connected(T, s) # {} => p \in Connected(T, s)
           /\ assigned_peer(id, Cardinality(Connected(T, s))) = Rank(T, s, p)
           /\ \A pg : Ranked(pg, T, s) => pg.nodes[assigned_peer(id, pg.active) + 1] = p
<1> DEFINE c == Cardinality(Connected(T, s))
           i == assigned_peer(id, c)
<1>1. /\ IsFiniteSet(T) /\ IsFiniteSet(Connected(T, s)) /\ c \in Nat
      /\ Cardinality(T) \in Nat /\ c <= Cardinality(T)
  <2>1. IsFiniteSet(T)
    BY TiersFinite, FS_Subset
  <2>2. Connected(T, s) \subseteq T
    BY DEF Connected
  <2>3. QED
    BY <2>1, <2>2, FS_Subset, FS_CardinalityType
<1>2. Cardinality(T) # 0 /\ (c = 0 <=> Connected(T, s) = {})
  BY <1>1, FS_EmptySet
<1>3. i \in 0 .. Cardinality(T) - 1 /\ (c # 0 => i < c)
  BY <1>1, <1>2 DEF assigned_peer
<1>4. PICK p \in T : Rank(T, s, p) = i
  BY <1>3, RankOne
<1>5. Connected(T, s) # {} => p \in Connected(T, s)
  BY <1>2, <1>3, <1>4, ConnectedFirst DEF Connected
<1>6. QED
  BY <1>4, <1>5 DEF Ranked

-----------------------------------------------------------------------------
(* The inductive invariant                                                 *)

\* The start times by which n sorts its own peers.
View(n) == [info[n] EXCEPT ![n] = start[n]]

Tables ==
  /\ conf \in Confs /\ up \subseteq Nodes
  /\ start \in [Nodes -> Times]
  /\ info \in [Nodes -> [Nodes -> Times \cup {0}]]
  /\ \A n \in Nodes : info[n][n] = 0
  /\ \A n \in Nodes \ up : info[n] = [m \in Nodes |-> 0]
  /\ DOMAIN own = Nodes /\ DOMAIN below = Nodes

\* Whatever changes in what a node knows, its groups are sorted accordingly
\* in the same step.
Sorting(n) ==
  /\ Group(own[n], Tier(n)) /\ Group(below[n], Pollers)
  /\ n \in up => /\ Ranked(own[n], Tier(n), View(n))
                 /\ n \in Masters => Ranked(below[n], Pollers, info[n])

IInv == Tables /\ \A n \in Nodes : Sorting(n)

LEMMA TimesOk == \A t \in Times : t \in Nat /\ t # 0
BY DutyAssumption

LEMMA KnownOk ==
  ASSUME NEW k \in [Nodes -> Times \cup {0}], NEW n \in Nodes, NEW t \in Times
  PROVE  /\ k \in Known /\ [k EXCEPT ![n] = t] \in Known
         /\ \A x \in Nodes : [k EXCEPT ![n] = t][x] = IF x = n THEN t ELSE k[x]
<1>1. t \in Nat /\ \A x \in Nodes : k[x] \in Nat
  BY TimesOk
<1>2. QED
  BY <1>1 DEF Known

LEMMA Knows ==
  ASSUME Tables, NEW n \in Nodes
  PROVE  /\ info[n] \in Known /\ View(n) \in Known
         /\ \A m \in Nodes : View(n)[m] = IF m = n THEN start[n] ELSE info[n][m]
<1>1. start[n] \in Times /\ info[n] \in [Nodes -> Times \cup {0}]
  BY DEF Tables
<1>2. QED
  BY <1>1, KnownOk DEF View

LEMMA LoadedOk ==
  ASSUME NEW n \in Nodes, NEW t \in Times, NEW takeover
  PROVE  /\ Group(Loaded(n, t, takeover).own, Tier(n))
         /\ Group(Loaded(n, t, takeover).below, Pollers)
         /\ Ranked(Loaded(n, t, takeover).own, Tier(n), [[m \in Nodes |-> 0] EXCEPT ![n] = t])
         /\ n \in Masters => Ranked(Loaded(n, t, takeover).below, Pollers, [m \in Nodes |-> 0])
<1> DEFINE zero  == [m \in Nodes |-> 0]
           known == [m \in Nodes |-> IF m = n THEN t ELSE 0]
           mine  == [m \in Nodes |-> IF m = n THEN 1 ELSE 0]
           first == Initially(n, Tier(n))
           lower == Initially(n, Pollers)
<1>1. zero \in Known /\ mine \in Known /\ known \in Known /\ known = [zero EXCEPT ![n] = t]
  BY DutyAssumption DEF Known
<1>2. Tier(n) \in SUBSET Nodes /\ Pollers \in SUBSET Nodes
  BY TiersFinite
<1>3. ASSUME NEW T \in SUBSET Nodes
      PROVE  Group(Initially(n, T), T) /\ (n \notin T => Ranked(Initially(n, T), T, zero))
  <2> DEFINE e == [nodes |-> [m \in T |-> m], active |-> 0]
  <2>1. Members(e) = T
    BY DEF Members
  <2> DEFINE p == pgroup_assign_peer_ids(e, mine)
             q == Initially(n, T)
  <2>2. p.nodes = q.nodes /\ p.active = Cardinality(Connected(T, mine)) /\ q.active = 0
    BY <2>1 DEF pgroup_assign_peer_ids, Initially
  <2>3. n \notin T => Connected(T, mine) = {}
    BY DEF Connected
  <2>4. n \notin T => \A m \in T : mine[m] = zero[m]
    OBVIOUS
  <2> HIDE DEF e, zero, mine
  <2>5. Group(p, T) /\ Ranked(p, T, mine)
    BY Zenon, <1>1, <2>1, AssignOk
  <2> HIDE DEF p, q
  <2>6. Group(q, T)
    BY Zenon, <2>2, <2>5 DEF Group, Members
  <2>7. ASSUME n \notin T PROVE Ranked(q, T, zero)
    <3>1. Ranked(p, T, zero)
      BY Zenon, <2>4, <2>5, <2>7, RankedElsewhere
    <3>2. p.active = q.active
      BY Zenon, <2>2, <2>3, <2>7, FS_EmptySet
    <3>3. QED
      BY Zenon, <2>2, <3>1, <3>2 DEF Ranked
  <2>8. QED
    BY Zenon, <2>6, <2>7 DEF q
<1>4. Members(first) = Tier(n)
  BY <1>2, <1>3 DEF Group
<1>5. /\ Loaded(n, t, takeover).own = pgroup_assign_peer_ids(first, known)
      /\ Loaded(n, t, takeover).below = lower
  BY DEF Loaded
<1> HIDE DEF zero, known, first
<1>6. Group(pgroup_assign_peer_ids(first, known), Tier(n)) /\ Ranked(pgroup_assign_peer_ids(first, known), Tier(n), known)
  BY <1>1, <1>2, <1>4, AssignOk
<1>7. n \in Masters => n \notin Pollers
  BY Zenon, PgroupAssumption
<1>8. QED
  BY Zenon, <1>1, <1>2, <1>3, <1>5, <1>6, <1>7 DEF zero

LEMMA InitOk == Init => IInv
<1> SUFFICES ASSUME Init PROVE IInv
  OBVIOUS
<1>1. Tables
  BY DutyAssumption DEF Init, Tables
<1>2. ASSUME NEW n \in Nodes PROVE Sorting(n)
  <2>1. /\ own[n] = Loaded(n, start[n], conf.takeover).own
        /\ below[n] = Loaded(n, start[n], conf.takeover).below
        /\ info[n] = [m \in Nodes |-> 0] /\ start[n] \in Times
    BY DutyAssumption DEF Init
  <2>2. View(n) = [[m \in Nodes |-> 0] EXCEPT ![n] = start[n]]
    BY <2>1 DEF View
  <2>3. QED
    BY <2>1, <2>2, LoadedOk DEF Sorting
<1>3. QED
  BY <1>1, <1>2 DEF IInv

\* A node that gets, or loses, the link to another sorts the group of the other.
LEMMA HandlerStep ==
  ASSUME IInv, NEW n \in up, NEW m \in Nodes \ {n}, NEW t \in Times \cup {0},
         info' = [info EXCEPT ![n][m] = t],
         node_action_handler(n, Tier(m), info'[n]),
         UNCHANGED <<conf, up, start>>
  PROVE  IInv'
<1> DEFINE j == info'
<1>1. Tables /\ n \in Nodes /\ \A x \in Nodes : Sorting(x)
  BY DEF IInv, Tables
<1>2. /\ j \in [Nodes -> [Nodes -> Times \cup {0}]]
      /\ \A x \in Nodes : x # n => j[x] = info[x]
      /\ \A x \in Nodes : j[n][x] = IF x = m THEN t ELSE info[n][x]
  BY <1>1 DEF Tables
<1>3. /\ DOMAIN own' = Nodes /\ DOMAIN below' = Nodes
      /\ \A x \in Nodes : x # n => own'[x] = own[x] /\ below'[x] = below[x]
  BY <1>1 DEF node_action_handler, Tables
<1>4. Tables'
  BY <1>1, <1>2, <1>3 DEF Tables
<1>5. ASSUME NEW x \in Nodes, x # n PROVE Sorting(x)'
  <2>1. Sorting(x) /\ j[x] = info[x] /\ own'[x] = own[x] /\ below'[x] = below[x]
    BY <1>1, <1>2, <1>3, <1>5
  <2>2. QED
    BY <2>1 DEF Sorting, View
<1>6. Sorting(n)'
  <2> DEFINE o == own'[n]
             b == below'[n]
             k == j[n]
             v == [k EXCEPT ![n] = start[n]]
  <2>1. k \in Known /\ v \in Known /\ \A x \in Nodes : v[x] = IF x = n THEN start[n] ELSE k[x]
    <3>1. start[n] \in Times /\ k \in [Nodes -> Times \cup {0}]
      BY <1>1, <1>2 DEF Tables
    <3> HIDE DEF j
    <3>2. QED
      BY <1>1, <3>1, KnownOk
  <2>2. /\ Group(own[n], Tier(n)) /\ Group(below[n], Pollers)
        /\ Ranked(own[n], Tier(n), View(n))
        /\ n \in Masters => Ranked(below[n], Pollers, info[n])
    BY <1>1 DEF Sorting
  <2>3. /\ \A x \in Nodes \ {m} : k[x] = info[n][x] /\ v[x] = View(n)[x]
    BY <1>1, <1>2, <2>1, Knows
  <2>4. Members(own[n]) = Tier(n) /\ Members(below[n]) = Pollers
    BY <2>2 DEF Group
  <2>5. Tier(n) \in SUBSET Nodes /\ Pollers \in SUBSET Nodes
    BY <1>1, TiersFinite
  <2>6. CASE m \in Tier(n)
    <3>1. Tier(m) = Tier(n) /\ ~(n \in Pollers /\ Tier(m) = Masters)
      BY <1>1, <2>6, PgroupAssumption DEF Tier, Nodes
    <3>2. o = pgroup_assign_peer_ids(own[n], v) /\ b = below[n]
      BY <1>1, <3>1 DEF node_action_handler, Tables
    <3>3. Group(o, Tier(n)) /\ Ranked(o, Tier(n), v)
      BY <2>1, <2>4, <2>5, <3>2, AssignOk
    <3>4. n \in Masters => m \notin Pollers
      BY <2>6, PgroupAssumption DEF Tier
    <3>5. n \in Masters => \A x \in Pollers : info[n][x] = k[x]
      BY <2>3, <2>5, <3>4
    <3>6. n \in Masters => Ranked(b, Pollers, k)
      BY Zenon, <2>2, <3>2, <3>5, RankedElsewhere
    <3>7. QED
      BY <2>2, <3>2, <3>3, <3>6 DEF Sorting, View
  <2>7. CASE m \notin Tier(n) /\ n \in Masters
    <3>1. Tier(m) = Pollers /\ Tier(n) = Masters /\ n \notin Pollers /\ Masters # Pollers
      BY <2>7, PgroupAssumption DEF Tier
    <3>2. b = pgroup_assign_peer_ids(below[n], k) /\ o = own[n]
      BY <1>1, <3>1 DEF node_action_handler, Tables
    <3>3. Group(b, Pollers) /\ Ranked(b, Pollers, k)
      BY <2>1, <2>4, <2>5, <3>2, AssignOk
    <3>4. \A x \in Tier(n) : View(n)[x] = v[x]
      BY Zenon, <2>3, <2>5, <2>7
    <3>5. Ranked(o, Tier(n), v)
      BY Zenon, <2>2, <3>2, <3>4, RankedElsewhere
    <3>6. QED
      BY <2>2, <3>2, <3>3, <3>5 DEF Sorting, View
  <2>8. CASE m \notin Tier(n) /\ n \notin Masters
    <3>1. Tier(m) = Masters /\ n \in Pollers
      BY <1>1, <2>8, PgroupAssumption DEF Tier, Nodes
    <3>2. b = below[n] /\ o = own[n]
      BY <3>1 DEF node_action_handler
    <3>3. \A x \in Tier(n) : View(n)[x] = v[x]
      BY Zenon, <2>3, <2>5, <2>8
    <3>4. Ranked(o, Tier(n), v)
      BY Zenon, <2>2, <3>2, <3>3, RankedElsewhere
    <3>5. QED
      BY <2>2, <2>8, <3>2, <3>4 DEF Sorting, View
  <2>9. QED
    BY <2>6, <2>7, <2>8
<1>7. QED
  BY <1>4, <1>5, <1>6 DEF IInv

LEMMA DieStep ==
  ASSUME IInv, NEW n \in Nodes, Die(n)
  PROVE  IInv'
<1>1. Tables /\ \A x \in Nodes : Sorting(x)
  BY DEF IInv
<1>2. /\ info' = [info EXCEPT ![n] = [m \in Nodes |-> 0]] /\ up' = up \ {n}
      /\ conf' = conf /\ start' = start /\ own' = own /\ below' = below
  BY DEF Die
<1>3. Tables'
  BY <1>1, <1>2 DEF Tables
<1>4. ASSUME NEW x \in Nodes PROVE Sorting(x)'
  <2>1. Sorting(x)
    BY Zenon, <1>1
  <2>2. CASE x = n
    BY Zenon, <1>2, <2>1, <2>2 DEF Sorting, Group, Members
  <2>3. CASE x # n
    <3>1. info'[x] = info[x] /\ (x \in up' <=> x \in up)
      BY <1>1, <1>2, <2>3 DEF Tables
    <3>2. View(x)' = View(x)
      BY <1>2, <3>1 DEF View
    <3>3. QED
      BY Zenon, <1>2, <2>1, <3>1, <3>2 DEF Sorting
  <2>4. QED
    BY <2>2, <2>3
<1>5. QED
  BY <1>3, <1>4 DEF IInv

LEMMA StartStep ==
  ASSUME IInv, NEW n \in Nodes, NEW t \in Times, Start(n, t)
  PROVE  IInv'
<1>1. Tables /\ \A x \in Nodes : Sorting(x)
  BY DEF IInv
<1>2. /\ own' = [own EXCEPT ![n] = Loaded(n, t, conf.takeover).own]
      /\ below' = [below EXCEPT ![n] = Loaded(n, t, conf.takeover).below]
      /\ up' = up \cup {n} /\ start' = [start EXCEPT ![n] = t]
      /\ conf' = conf /\ info' = info /\ n \notin up
  BY DEF Start
<1>3. Tables'
  BY <1>1, <1>2 DEF Tables
<1>4. ASSUME NEW x \in Nodes PROVE Sorting(x)'
  <2>1. Sorting(x)
    BY Zenon, <1>1
  <2>2. CASE x = n
    <3>1. /\ own'[x] = Loaded(n, t, conf.takeover).own
          /\ below'[x] = Loaded(n, t, conf.takeover).below
          /\ info'[x] = [m \in Nodes |-> 0] /\ start'[x] = t
      BY Zenon, <1>1, <1>2, <2>2 DEF Tables
    <3>2. View(x)' = [[m \in Nodes |-> 0] EXCEPT ![n] = t]
      BY Zenon, <2>2, <3>1 DEF View
    <3>3. QED
      BY <2>2, <3>1, <3>2, LoadedOk DEF Sorting
  <2>3. CASE x # n
    <3>1. own'[x] = own[x] /\ below'[x] = below[x] /\ start'[x] = start[x] /\ (x \in up' <=> x \in up)
      BY Zenon, <1>1, <1>2, <2>3 DEF Tables
    <3>2. View(x)' = View(x)
      BY <1>2, <3>1 DEF View
    <3>3. QED
      BY <1>2, <2>1, <3>1, <3>2 DEF Sorting
  <2>4. QED
    BY <2>2, <2>3
<1>5. QED
  BY <1>3, <1>4 DEF IInv

LEMMA StepOk == IInv /\ [Next]_vars => IInv'
<1> SUFFICES ASSUME IInv, [Next]_vars PROVE IInv'
  OBVIOUS
<1>1. ASSUME NEW n \in Nodes, NEW m \in Nodes, Connect(n, m) PROVE IInv'
  <2>1. n \in up /\ m \in Nodes \ {n} /\ start[m] \in Times \cup {0}
    BY <1>1 DEF Connect, IInv, Tables
  <2>2. /\ info' = [info EXCEPT ![n][m] = start[m]]
        /\ node_action_handler(n, Tier(m), info'[n])
        /\ UNCHANGED <<conf, up, start>>
    BY <1>1 DEF Connect
  <2>3. QED
    BY Zenon, <2>1, <2>2, HandlerStep
<1>2. ASSUME NEW n \in Nodes, NEW m \in Nodes, Disconnect(n, m) PROVE IInv'
  <2>1. n \in up /\ m \in Nodes \ {n} /\ 0 \in Times \cup {0}
    BY <1>2 DEF Disconnect, IInv, Tables
  <2>2. /\ info' = [info EXCEPT ![n][m] = 0]
        /\ node_action_handler(n, Tier(m), info'[n])
        /\ UNCHANGED <<conf, up, start>>
    BY Zenon, <1>2 DEF Disconnect
  <2>3. QED
    BY Zenon, <2>1, <2>2, HandlerStep
<1>3. CASE UNCHANGED vars
  BY <1>3 DEF vars, IInv, Tables, Sorting, View
<1>4. QED
  BY <1>1, <1>2, <1>3, DieStep, StartStep DEF Next

-----------------------------------------------------------------------------
(* The node that is responsible                                            *)

LEMMA HostsOk ==
  /\ Hosts \subseteq Nat /\ PollerHosts \subseteq Hosts
  /\ \A h \in Hosts : host_id_table(h, PollerHosts) \in Nat
<1>1. Hosts \subseteq Nat /\ IsFiniteSet(Hosts)
  BY PgroupAssumption, FS_Interval DEF Hosts
<1>2. PollerHosts \subseteq Hosts
  BY PgroupAssumption DEF PollerHosts, host_map, Hosts
<1>3. ASSUME NEW h \in Hosts PROVE host_id_table(h, PollerHosts) \in Nat
  <2>1. {g \in PollerHosts : g < h} \subseteq Hosts
    BY Zenon, <1>2
  <2>2. QED
    BY <1>1, <2>1, FS_Subset, FS_CardinalityType DEF host_id_table
<1>4. QED
  BY <1>1, <1>2, <1>3

\* The start times when the links have settled.
Now == [m \in Nodes |-> IF m \in up THEN start[m] ELSE 0]

LEMMA SettledViews ==
  ASSUME IInv, Settled
  PROVE  /\ Now \in Known
         /\ \A T \in {Masters, Pollers} : Connected(T, Now) = up \cap T
         /\ \A n \in up : /\ n \in Nodes
                          /\ Ranked(own[n], Tier(n), Now)
                          /\ n \in Masters => Ranked(below[n], Pollers, Now)
<1>1. Tables /\ \A n \in Nodes : Sorting(n)
  BY DEF IInv
<1>2. \A m \in Nodes : start[m] \in Nat /\ start[m] # 0
  BY <1>1, TimesOk DEF Tables
<1>3. Now \in Known /\ \A m \in Nodes : Now[m] = IF m \in up THEN start[m] ELSE 0
  BY <1>2 DEF Now, Known
<1>4. ASSUME NEW T \in {Masters, Pollers} PROVE Connected(T, Now) = up \cap T
  BY <1>2, <1>3, TiersFinite DEF Connected
<1>5. ASSUME NEW n \in up
      PROVE  /\ n \in Nodes /\ Ranked(own[n], Tier(n), Now)
             /\ n \in Masters => Ranked(below[n], Pollers, Now)
  <2>1. n \in Nodes /\ Sorting(n) /\ Tier(n) \subseteq Nodes /\ Pollers \subseteq Nodes
    BY <1>1, TiersFinite DEF Tables
  <2>2. \A m \in Nodes \ {n} : info[n][m] = Now[m]
    BY <1>3 DEF Settled
  <2>3. \A m \in Nodes : View(n)[m] = Now[m]
    BY Zenon, <1>1, <1>3, <2>1, <2>2, Knows
  <2>4. Ranked(own[n], Tier(n), Now)
    BY Zenon, <2>1, <2>3, RankedElsewhere DEF Sorting
  <2>5. ASSUME n \in Masters PROVE Ranked(below[n], Pollers, Now)
    <3>1. \A m \in Pollers : info[n][m] = Now[m]
      BY Zenon, <2>1, <2>2, <2>5, PgroupAssumption
    <3>2. QED
      BY Zenon, <2>1, <2>5, <3>1, RankedElsewhere DEF Sorting
  <2>6. QED
    BY <2>1, <2>4, <2>5
<1>6. QED
  BY <1>3, <1>4, <1>5

\* The node of tier T that all settled nodes hold responsible for an id.
Picked(p, T, id) ==
  /\ p \in T
  /\ up \cap T # {} => p \in up
  /\ assigned_peer(id, Cardinality(up \cap T)) = Rank(T, Now, p)
  /\ \A pg : Ranked(pg, T, Now) => pg.nodes[assigned_peer(id, pg.active) + 1] = p

LEMMA PickOne ==
  ASSUME IInv, Settled, NEW T \in {Masters, Pollers}, NEW id \in Nat
  PROVE  \E p \in T : Picked(p, T, id)
<1>1. Now \in Known /\ Connected(T, Now) = up \cap T /\ T \in SUBSET Nodes /\ T # {}
  BY SettledViews, TiersFinite, PgroupAssumption
<1>2. \E p \in T :
           /\ Connected(T, Now) # {} => p \in Connected(T, Now)
           /\ assigned_peer(id, Cardinality(Connected(T, Now))) = Rank(T, Now, p)
           /\ \A pg : Ranked(pg, T, Now) => pg.nodes[assigned_peer(id, pg.active) + 1] = p
  BY Zenon, <1>1, Picks
<1>3. QED
  BY <1>1, <1>2 DEF Picked

\* Is the poller's tier out, and its hosts with the masters?
Fallback == up \cap Pollers = {} /\ conf.takeover

LEMMA Owners ==
  ASSUME IInv, Settled, NEW h \in Hosts, NEW n \in up,
         NEW pm, Picked(pm, Masters, h),
         NEW pp, Picked(pp, Pollers, host_id_table(h, PollerHosts))
  PROVE  /\ n \in Masters => Owner(n, h) = IF h \in PollerHosts /\ ~Fallback THEN pp ELSE pm
         /\ n \in Pollers => Owner(n, h) = pp
<1>1. /\ n \in Nodes /\ Ranked(own[n], Tier(n), Now)
      /\ n \in Masters => Ranked(below[n], Pollers, Now)
  BY Zenon, SettledViews
<1>2. ASSUME n \in Masters PROVE Owner(n, h) = IF h \in PollerHosts /\ ~Fallback THEN pp ELSE pm
  <2>1. below[n].active = 0 <=> up \cap Pollers = {}
    <3>1. below[n].active = Cardinality(up \cap Pollers)
      BY Zenon, <1>1, <1>2, SettledViews DEF Ranked
    <3>2. IsFiniteSet(up \cap Pollers)
      BY Zenon, TiersFinite, FS_Subset
    <3>3. QED
      BY <3>1, <3>2, FS_EmptySet
  <2>2. own[n].nodes[assigned_peer(h, own[n].active) + 1] = pm
    BY Zenon, <1>1, <1>2 DEF Tier, Picked
  <2>3. below[n].nodes[assigned_peer(host_id_table(h, PollerHosts), below[n].active) + 1] = pp
    BY Zenon, <1>1, <1>2 DEF Picked
  <2>4. QED
    BY Zenon, <1>2, <2>1, <2>2, <2>3 DEF Owner, pgroup_host_node, HostId, Fallback
<1>3. ASSUME n \in Pollers PROVE Owner(n, h) = pp
  <2>1. n \notin Masters
    BY Zenon, <1>3, PgroupAssumption
  <2>2. own[n].nodes[assigned_peer(host_id_table(h, PollerHosts), own[n].active) + 1] = pp
    BY <1>1, <2>1 DEF Tier, Picked
  <2>3. QED
    BY <2>1, <2>2 DEF Owner, pgroup_host_node, HostId
<1>4. QED
  BY Zenon, <1>2, <1>3

LEMMA PeerId ==
  ASSUME NEW s \in Known, NEW T \in SUBSET Nodes, NEW pg, Group(pg, T), Ranked(pg, T, s), NEW n \in T
  PROVE  peer_id(pg, n) = Rank(T, s, n)
<1> DEFINE C == Cardinality(T)
           R(m) == Rank(T, s, m)
<1>1. C \in Nat /\ DOMAIN pg.nodes = 1 .. C
  BY TiersFinite, FS_Subset, FS_CardinalityType DEF Group
<1>2. \A m \in T : R(m) \in 0 .. C - 1 /\ pg.nodes[R(m) + 1] = m
  BY RankType DEF Ranked
<1>3. \A i \in 0 .. C - 1 : \E m \in T : R(m) = i
  BY RankOne
<1> HIDE DEF C, R
<1>4. R(n) + 1 \in 1 .. C /\ pg.nodes[R(n) + 1] = n
  BY <1>1, <1>2
<1>5. ASSUME NEW i \in 1 .. C, pg.nodes[i] = n PROVE i = R(n) + 1
  <2>1. i - 1 \in 0 .. C - 1
    BY <1>1
  <2>2. PICK m \in T : R(m) = i - 1
    BY <1>3, <2>1
  <2>3. m = n
    BY <1>1, <1>2, <1>5, <2>2
  <2>4. QED
    BY <1>1, <2>2, <2>3
<1> DEFINE c == CHOOSE i \in DOMAIN pg.nodes : pg.nodes[i] = n
<1>6. c = R(n) + 1
  BY <1>1, <1>4, <1>5
<1>7. peer_id(pg, n) = c - 1
  BY DEF peer_id
<1> HIDE DEF c
<1>8. peer_id(pg, n) = R(n)
  BY <1>1, <1>2, <1>6, <1>7
<1>9. QED
  BY <1>8 DEF R

LEMMA ShouldRun ==
  ASSUME IInv, Settled, NEW h \in Hosts, NEW n \in up, n \in Masters,
         NEW pm, Picked(pm, Masters, h)
  PROVE  (Cardinality(Masters) = 1 \/ should_run_check(n, h)) <=> n = pm
<1>1. Tables /\ n \in Nodes /\ Sorting(n) /\ Now \in Known /\ Masters \in SUBSET Nodes
      /\ Tier(n) = Masters /\ Ranked(own[n], Masters, Now) /\ IsFiniteSet(Masters)
  BY SettledViews, TiersFinite DEF IInv, Tables, Tier
<1>2. active_peers(n) + 1 = Cardinality(up \cap Masters)
  <2>1. {m \in Masters : info[n][m] # 0} = (up \cap Masters) \ {n}
    <3>1. \A m \in Nodes : start[m] # 0
      BY <1>1, TimesOk DEF Tables
    <3>2. QED
      BY Zenon, <1>1, <3>1 DEF Settled, Tables
  <2>2. IsFiniteSet(up \cap Masters) /\ n \in up \cap Masters
    BY <1>1, FS_Subset
  <2>3. /\ Cardinality((up \cap Masters) \ {n}) = Cardinality(up \cap Masters) - 1
        /\ Cardinality(up \cap Masters) \in Nat
    BY Zenon, <2>2, FS_RemoveElement, FS_CardinalityType
  <2>4. active_peers(n) = Cardinality((up \cap Masters) \ {n})
    BY Zenon, <1>1, <2>1 DEF active_peers
  <2>5. QED
    BY <2>3, <2>4
<1>3. peer_id(own[n], n) = Rank(Masters, Now, n)
  BY Zenon, <1>1, PeerId DEF Sorting
<1>4. pm \in Masters /\ assigned_peer(h, Cardinality(up \cap Masters)) = Rank(Masters, Now, pm)
  BY DEF Picked
<1>5. should_run_check(n, h) <=> Rank(Masters, Now, pm) = Rank(Masters, Now, n)
  BY <1>2, <1>3, <1>4 DEF should_run_check
<1>6. Rank(Masters, Now, pm) = Rank(Masters, Now, n) <=> pm = n
  BY Zenon, <1>1, <1>4, RankOne
<1>7. Cardinality(Masters) = 1 => n = pm
  BY <1>1, <1>4, FS_Singleton
<1>8. QED
  BY Zenon, <1>5, <1>6, <1>7

\* The only node that is responsible for h, given the picks of the two tiers.
LEMMA HandlesOne ==
  ASSUME IInv, Settled, NEW h \in Hosts,
         NEW pm, Picked(pm, Masters, h),
         NEW pp, Picked(pp, Pollers, host_id_table(h, PollerHosts)),
         NEW n \in Nodes
  PROVE  Handles(n, h) <=> Checkable(h) /\ n = IF h \in PollerHosts /\ ~Fallback THEN pp ELSE pm
<1>1. /\ n \in Masters \/ n \in Pollers
      /\ ~(n \in Masters /\ n \in Pollers)
      /\ pm \in Masters /\ pp \in Pollers /\ pm \notin Pollers /\ pp \notin Masters
      /\ up \cap Masters # {} => pm \in up
      /\ up \cap Pollers # {} => pp \in up
  BY PgroupAssumption DEF Nodes, Picked
<1>2. ASSUME n \in up
      PROVE  /\ n \in Masters => Owner(n, h) = IF h \in PollerHosts /\ ~Fallback THEN pp ELSE pm
             /\ n \in Pollers => Owner(n, h) = pp
  BY <1>2, Owners
<1>3. Fallback => up \cap Pollers = {}
  BY DEF Fallback
<1>4. CASE n \notin up
  BY <1>1, <1>3, <1>4 DEF Handles, Checkable, Fallback
<1>5. CASE n \in up /\ n \in Masters
  BY <1>1, <1>2, <1>3, <1>5 DEF Handles, Has, Checkable, Fallback
<1>6. CASE n \in up /\ n \in Pollers
  BY <1>1, <1>2, <1>3, <1>6 DEF Handles, Has, Checkable, Fallback
<1>7. QED
  BY Zenon, <1>1, <1>4, <1>5, <1>6

\* The only node that notifies of h.
Notifier(h, pm, pp) ==
  IF /\ h \in PollerHosts /\ ~Fallback
     /\ conf.notifies \/ up \cap Masters = {}
  THEN pp ELSE pm

LEMMA NotifiesOne ==
  ASSUME IInv, Settled, NEW h \in Hosts, Checkable(h),
         NEW pm, Picked(pm, Masters, h),
         NEW pp, Picked(pp, Pollers, host_id_table(h, PollerHosts)),
         NEW n \in Nodes
  PROVE  /\ Notifies(n, h) <=> n = Notifier(h, pm, pp)
         /\ NotifiesCustom(n, h) <=> n = Notifier(h, pm, pp)
<1>1. /\ n \in Masters \/ n \in Pollers
      /\ ~(n \in Masters /\ n \in Pollers)
      /\ pm \in Masters /\ pp \in Pollers /\ pm \notin Pollers /\ pp \notin Masters
      /\ up \cap Masters # {} => pm \in up
      /\ up \cap Pollers # {} => pp \in up
  BY PgroupAssumption DEF Nodes, Picked
<1>2. ASSUME n \in up
      PROVE  /\ n \in Masters => Owner(n, h) = IF h \in PollerHosts /\ ~Fallback THEN pp ELSE pm
             /\ n \in Pollers => Owner(n, h) = pp
  BY <1>2, Owners
<1>3. Fallback <=> up \cap Pollers = {} /\ conf.takeover
  BY DEF Fallback
<1>4. CASE n \notin up
  BY <1>1, <1>3, <1>4 DEF Notifies, NotifiesCustom, Checkable, Notifier
<1>5. CASE n \in up /\ n \in Masters
  <2>1. (Cardinality(Masters) = 1 \/ should_run_check(n, h)) <=> n = pm
    BY Zenon, <1>5, ShouldRun
  <2>2. online_masters(n) = 0 /\ HostId(n, h) = h /\ Has(n, h) /\ Tier(n) = Masters
    BY <1>1, <1>5 DEF online_masters, HostId, Has, Tier
  <2>3. ~conf.notifies => pgroup_num_notify(n) = 0
    BY DEF pgroup_num_notify
  <2>4. hook_notification(n, h) <=>
          \/ Owner(n, h) = n
          \/ Owner(n, h) \in Pollers /\ ~conf.notifies /\ n = pm
    BY <1>5, <2>1, <2>2, <2>3 DEF hook_notification
  <2>5. hook_notification(n, h) => custom_notification(n, h)
    BY <1>5, <2>1, <2>2, <2>3, <2>4 DEF custom_notification
  <2>6. Owner(n, h) = IF h \in PollerHosts /\ ~Fallback THEN pp ELSE pm
    BY <1>2, <1>5
  <2>7. hook_notification(n, h) <=> n = Notifier(h, pm, pp)
    BY <1>1, <1>5, <2>4, <2>6 DEF Notifier
  <2>8. QED
    BY <1>5, <2>2, <2>5, <2>7 DEF Notifies, NotifiesCustom
<1>6. CASE n \in up /\ n \in Pollers
  <2>1. online_masters(n) > 0 <=> up \cap Masters # {}
    <3>1. {m \in Masters : info[n][m] # 0} = up \cap Masters
      <4>1. \A m \in Nodes : start[m] # 0
        BY TimesOk DEF IInv, Tables
      <4>2. QED
        BY Zenon, <1>1, <1>6, <4>1 DEF Settled, Nodes
    <3>2. IsFiniteSet(up \cap Masters)
      BY TiersFinite, FS_Subset
    <3>3. Cardinality(up \cap Masters) \in Nat /\ (Cardinality(up \cap Masters) = 0 <=> up \cap Masters = {})
      BY Zenon, <3>2, FS_EmptySet, FS_CardinalityType
    <3>4. QED
      BY <1>6, <3>1, <3>3 DEF online_masters
  <2>2. Owner(n, h) = pp /\ ~Fallback /\ n \notin Masters /\ (Has(n, h) <=> h \in PollerHosts)
    BY <1>1, <1>2, <1>3, <1>6 DEF Has
  <2>3. hook_notification(n, h) <=> (conf.notifies \/ up \cap Masters = {}) /\ pp = n
    BY Zenon, <2>1, <2>2 DEF hook_notification
  <2>4. hook_notification(n, h) => custom_notification(n, h)
    BY Zenon, <2>2, <2>3 DEF hook_notification, custom_notification
  <2>5. Has(n, h) /\ hook_notification(n, h) <=> n = Notifier(h, pm, pp)
    BY <1>1, <1>6, <2>2, <2>3 DEF Notifier
  <2>6. QED
    BY Zenon, <1>6, <2>4, <2>5 DEF Notifies, NotifiesCustom
<1>7. QED
  BY Zenon, <1>1, <1>4, <1>5, <1>6

-----------------------------------------------------------------------------
(* Theorems                                                                *)

LEMMA Invariant == Spec => []IInv
<1>1. QED
  BY InitOk, StepOk, PTL DEF Spec

\* For any number of masters and pollers, and any hosts: once the links have
\* settled, exactly one node runs the event handler of a host, it alone checks
\* the host unless it blocks it, and exactly one node lets its notification out
\* (pgroup_host_node, hook_host_result, hook_notification).
THEOREM OneActs == Spec => []OneNodeActs
<1>1. IInv => OneNodeActs
  <2> SUFFICES ASSUME IInv, Settled, NEW h \in Hosts
               PROVE  /\ Cardinality({n \in Nodes : Handles(n, h)}) = IF Checkable(h) THEN 1 ELSE 0
                      /\ \A n \in Nodes : Runs(n, h) => \A m \in Nodes : Handles(m, h) => m = n
                      /\ Checkable(h) /\ (\A n \in up : ~node_blocked_hostgroup(n, h))
                           => \E n \in Nodes : Runs(n, h)
                      /\ Checkable(h) => /\ Cardinality({n \in Nodes : Notifies(n, h)}) = 1
                                         /\ Cardinality({n \in Nodes : NotifiesCustom(n, h)}) = 1
    BY Zenon DEF OneNodeActs
  <2>1. h \in Nat /\ host_id_table(h, PollerHosts) \in Nat
    BY HostsOk
  <2>2. PICK pm \in Masters : Picked(pm, Masters, h)
    BY <2>1, PickOne
  <2>3. PICK pp \in Pollers : Picked(pp, Pollers, host_id_table(h, PollerHosts))
    BY <2>1, PickOne
  <2> DEFINE r == IF h \in PollerHosts /\ ~Fallback THEN pp ELSE pm
             q == Notifier(h, pm, pp)
  <2>4. r \in Nodes /\ q \in Nodes
    BY DEF Nodes, Notifier
  <2>5. \A n \in Nodes : Handles(n, h) <=> Checkable(h) /\ n = r
    BY <2>2, <2>3, HandlesOne
  <2>6. Checkable(h) => \A n \in Nodes : /\ Notifies(n, h) <=> n = q
                                         /\ NotifiesCustom(n, h) <=> n = q
    BY <2>2, <2>3, NotifiesOne
  <2> HIDE DEF r, q
  <2>a. \A n \in Nodes : Runs(n, h) => \A m \in Nodes : Handles(m, h) => m = n
    BY Zenon, <2>5 DEF Runs
  <2>b. ASSUME Checkable(h), \A n \in up : ~node_blocked_hostgroup(n, h)
        PROVE  \E n \in Nodes : Runs(n, h)
    BY Zenon, <2>4, <2>5, <2>b DEF Runs, Handles
  <2>7. CASE Checkable(h)
    <3>1. /\ {x \in Nodes : Handles(x, h)} = {r}
          /\ {x \in Nodes : Notifies(x, h)} = {q}
          /\ {x \in Nodes : NotifiesCustom(x, h)} = {q}
      BY <2>4, <2>5, <2>6, <2>7
    <3>2. Cardinality({r}) = 1 /\ Cardinality({q}) = 1
      BY Zenon, FS_Singleton
    <3>3. QED
      BY <2>7, <2>a, <2>b, <3>1, <3>2
  <2>8. CASE ~Checkable(h)
    <3>1. {x \in Nodes : Handles(x, h)} = {}
      BY <2>5, <2>8
    <3>2. QED
      BY <2>8, <2>a, <3>1, FS_EmptySet
  <2>9. QED
    BY <2>7, <2>8
<1>2. QED
  BY <1>1, Invariant, PTL

\* The first half of OwnerIsRunner.
OwnerRuns ==
  Settled => \A n \in up, h \in Hosts :
    Has(n, h) /\ Owner(n, h) \in up
    => Runs(Owner(n, h), h) \/ node_blocked_hostgroup(Owner(n, h), h)

\* Once the links have settled, a node that any running node holds responsible
\* for a host, and that runs, does check it or blocks it: pgroup_host_node decides
\* alike on masters and pollers, although their ids of the host differ.
THEOREM OwnersRun == Spec => []OwnerRuns
<1>1. IInv => OwnerRuns
  <2> SUFFICES ASSUME IInv, Settled, NEW n \in up, NEW h \in Hosts, Has(n, h), Owner(n, h) \in up
               PROVE  Handles(Owner(n, h), h)
    BY Zenon DEF OwnerRuns, Runs
  <2>1. h \in Nat /\ host_id_table(h, PollerHosts) \in Nat
    BY HostsOk
  <2>2. PICK pm \in Masters : Picked(pm, Masters, h)
    BY <2>1, PickOne
  <2>3. PICK pp \in Pollers : Picked(pp, Pollers, host_id_table(h, PollerHosts))
    BY Zenon, <2>1, PickOne
  <2> DEFINE r == IF h \in PollerHosts /\ ~Fallback THEN pp ELSE pm
  <2>4. r \in Nodes /\ n \in Nodes /\ up \subseteq Nodes
    BY DEF Nodes, IInv, Tables
  <2>5. Handles(r, h) <=> Checkable(h)
    BY <2>2, <2>3, <2>4, HandlesOne
  <2>6. /\ n \in Masters => Owner(n, h) = r
        /\ n \in Pollers => Owner(n, h) = pp
    BY <2>2, <2>3, Owners
  <2>7. n \notin Masters => n \in Pollers /\ h \in PollerHosts /\ r = pp
    BY <2>4 DEF Has, Nodes, Fallback
  <2>8. Owner(n, h) = r
    BY <2>4, <2>6, <2>7
  <2>9. Checkable(h)
    BY Zenon, <2>8 DEF Checkable, Fallback
  <2>10. QED
    BY <2>5, <2>8, <2>9
<1>2. QED
  BY <1>1, Invariant, PTL

\* Of the two nodes of a tier, whatever each of them knows of the other's
\* link, one always takes the check of a host that they do not block, those
\* taken over from pollers included (pgroup_host_node with the sorted group of
\* each): a node that sees no peer takes all hosts.
THEOREM NoneLeftOut == Spec => []NobodyLeftOut
<1>1. IInv => NobodyLeftOut
  <2> SUFFICES ASSUME IInv, NEW T \in {Masters, Pollers}, Cardinality(T) = 2, T \subseteq up,
                      \A n, m \in T : info[n][m] \in {0, start[m]},
                      NEW h \in TierHosts(T)
               PROVE  \E n \in T : Handles(n, h)
    BY Zenon DEF NobodyLeftOut, Runs
  <2> DEFINE id == IF T = Masters THEN h ELSE host_id_table(h, PollerHosts)
  <2>1. h \in Hosts /\ id \in Nat
    BY HostsOk DEF TierHosts
  <2>2. /\ T \in SUBSET Nodes /\ IsFiniteSet(T) /\ T # {} /\ Tables
        /\ \A n \in T : Tier(n) = T /\ Sorting(n) /\ n \in up
    BY Zenon, TiersFinite, PgroupAssumption DEF IInv, Tier
  <2>3. ASSUME NEW n \in T
        PROVE  /\ Ranked(own[n], T, View(n)) /\ View(n) \in Known
               /\ \A m \in T : View(n)[m] = IF m = n THEN start[n] ELSE info[n][m]
               /\ start[n] # 0
               /\ Handles(n, h) <=> own[n].nodes[assigned_peer(id, own[n].active) + 1] = n
    <3>1. Ranked(own[n], T, View(n)) /\ n \in Nodes
      BY Zenon, <2>2 DEF Sorting
    <3>2. /\ View(n) \in Known /\ start[n] # 0
          /\ \A m \in T : View(n)[m] = IF m = n THEN start[n] ELSE info[n][m]
      BY Zenon, <2>2, <3>1, Knows, TimesOk DEF Tables
    <3>3. Handles(n, h) <=> own[n].nodes[assigned_peer(id, own[n].active) + 1] = n
      <4>1. CASE T = Masters
        <5>1. ASSUME h \in PollerHosts PROVE below[n].active = 0 /\ conf.takeover
          <6>1. conf.takeover /\ \A p \in Pollers : info[n][p] = 0
            BY <4>1, <5>1, PgroupAssumption DEF TierHosts
          <6>2. Connected(Pollers, info[n]) = {}
            BY <6>1 DEF Connected
          <6>3. below[n].active = Cardinality(Connected(Pollers, info[n]))
            BY Zenon, <2>2, <4>1 DEF Sorting, Ranked
          <6> QED
            BY Zenon, <6>1, <6>2, <6>3, FS_EmptySet
        <5> QED
          BY Zenon, <2>2, <4>1, <5>1 DEF Handles, Has, Owner, pgroup_host_node, HostId
      <4>2. CASE T = Pollers
        <5>1. h \in PollerHosts /\ n \notin Masters /\ T # Masters
          BY Zenon, <4>2, PgroupAssumption DEF TierHosts
        <5> QED
          BY Zenon, <2>2, <4>2, <5>1 DEF Handles, Has, Owner, pgroup_host_node, HostId
      <4> QED
        BY Zenon, <4>1, <4>2
    <3>4. QED
      BY Zenon, <3>1, <3>2, <3>3
  <2> HIDE DEF id
  <2>4. CASE \E n \in T : \A m \in T \ {n} : info[n][m] = 0
    <3>1. PICK n \in T : \A m \in T \ {n} : info[n][m] = 0
      BY Zenon, <2>4
    <3>2. Connected(T, View(n)) = {n}
      BY <2>3, <3>1 DEF Connected
    <3>3. \E p \in T : /\ p \in Connected(T, View(n))
                       /\ own[n].nodes[assigned_peer(id, own[n].active) + 1] = p
      <4> DEFINE s == View(n)
      <4>1. s \in Known /\ Ranked(own[n], T, s) /\ Connected(T, s) # {}
        BY <2>3, <3>2
      <4> HIDE DEF s
      <4>2. \E p \in T : /\ Connected(T, s) # {} => p \in Connected(T, s)
                         /\ \A pg : Ranked(pg, T, s) => pg.nodes[assigned_peer(id, pg.active) + 1] = p
        BY Zenon, <2>1, <2>2, <4>1, Picks
      <4>3. QED
        BY Zenon, <4>1, <4>2 DEF s
    <3>4. QED
      BY Zenon, <2>3, <3>2, <3>3
  <2>5. CASE \A n \in T : \E m \in T \ {n} : info[n][m] # 0
    <3>1. PICK a \in T : TRUE
      BY <2>2
    <3>2. \E b : T \ {a} = {b}
      <4>1. IsFiniteSet(T \ {a}) /\ Cardinality(T \ {a}) = Cardinality(T) - 1
        BY Zenon, <2>2, FS_RemoveElement
      <4>2. Cardinality(T \ {a}) = 1
        BY <4>1
      <4>3. QED
        BY Zenon, <4>1, <4>2, FS_Singleton
    <3>3. PICK b \in T : T = {a, b} /\ a # b
      BY <3>2
    <3>4. info[a][b] = start[b] /\ info[b][a] = start[a]
      BY Zenon, <2>5, <3>3
    <3>5. \A m \in T : View(b)[m] = View(a)[m]
      BY Zenon, <2>3, <3>3, <3>4
    <3>6. Ranked(own[a], T, View(a)) /\ Ranked(own[b], T, View(a))
      BY <2>3, <3>5, RankedElsewhere
    <3>7. PICK p \in T : \A pg : Ranked(pg, T, View(a)) => pg.nodes[assigned_peer(id, pg.active) + 1] = p
      <4> DEFINE s == View(a)
      <4>1. s \in Known
        BY <2>3
      <4> HIDE DEF s
      <4>2. \E p \in T : \A pg : Ranked(pg, T, s) => pg.nodes[assigned_peer(id, pg.active) + 1] = p
        BY Zenon, <2>1, <2>2, <4>1, Picks
      <4>3. QED
        BY <4>2 DEF s
    <3>8. own[p].nodes[assigned_peer(id, own[p].active) + 1] = p
      BY Zenon, <3>3, <3>6, <3>7
    <3>9. QED
      BY Zenon, <2>3, <3>8
  <2>6. QED
    BY Zenon, <2>4, <2>5
<1>2. QED
  BY <1>1, Invariant, PTL

-----------------------------------------------------------------------------
(* The counters of handled hosts                                           *)

\* The ids of the hosts on a poller.
PollerIds == {host_id_table(h, PollerHosts) : h \in PollerHosts}

\* The hosts of S whose id goes to peer r when A nodes are active.
Falls(S, A, r) == {h \in S : assigned_peer(h, A) = r}

PollerFalls(A, r) == {h \in PollerHosts : assigned_peer(host_id_table(h, PollerHosts), A) = r}

\* A poller numbers its hosts in the order of the master, each differently.
LEMMA IdsDiffer ==
  ASSUME NEW g \in PollerHosts, NEW h \in PollerHosts, g # h
  PROVE  host_id_table(g, PollerHosts) # host_id_table(h, PollerHosts)
<1>1. ASSUME NEW a \in PollerHosts, NEW b \in PollerHosts, a < b
      PROVE  host_id_table(a, PollerHosts) # host_id_table(b, PollerHosts)
  <2> DEFINE A == {x \in PollerHosts : x < a}
             B == {x \in PollerHosts : x < b}
  <2>1. IsFiniteSet(B) /\ A \subseteq B /\ A # B
    <3>1. PollerHosts \subseteq Nat /\ IsFiniteSet(PollerHosts)
      <4>1. IsFiniteSet(Hosts)
        BY PgroupAssumption, FS_Interval DEF Hosts
      <4> QED
        BY Zenon, <4>1, HostsOk, FS_Subset
    <3>2. IsFiniteSet(B)
      BY <3>1, FS_Subset
    <3>3. A \subseteq B
      <4>1. ASSUME NEW x \in A PROVE x \in B
        <5>1. x \in Nat /\ a \in Nat /\ b \in Nat /\ x < a
          BY <3>1
        <5>2. x < b
          BY <5>1, <1>1
        <5> QED
          BY <5>2
      <4> QED
        BY Zenon, <4>1
    <3>4. a \in B /\ a \notin A
      BY <3>1, <1>1
    <3> QED
      BY Zenon, <3>2, <3>3, <3>4
  <2> HIDE DEF A, B
  <2>2. Cardinality(A) # Cardinality(B)
    BY Zenon, <2>1, FS_Subset
  <2> QED
    BY Zenon, <2>2 DEF host_id_table, A, B
<1>2. g \in Nat /\ h \in Nat
  BY Zenon, HostsOk
<1>3. g < h \/ h < g
  BY <1>2
<1> QED
  BY Zenon, <1>1, <1>3

\* A share of ids is a share of hosts.
LEMMA PollerShare ==
  ASSUME NEW A \in Nat \ {0}, NEW r
  PROVE  /\ Share(PollerIds, A, r) = Cardinality(PollerFalls(A, r))
         /\ IsFiniteSet(PollerFalls(A, r)) /\ Cardinality(PollerFalls(A, r)) \in Nat
<1> DEFINE X == PollerFalls(A, r)
           Y == {i \in PollerIds : i % A = r}
           f == [h \in X |-> host_id_table(h, PollerHosts)]
<1>1. IsFiniteSet(X)
  <2>1. IsFiniteSet(Hosts)
    BY PgroupAssumption, FS_Interval DEF Hosts
  <2>2. X \subseteq Hosts
    BY Zenon, HostsOk DEF PollerFalls
  <2> QED
    BY Zenon, <2>1, <2>2, FS_Subset
<1>2. \A i : assigned_peer(i, A) = i % A
  BY Zenon DEF assigned_peer
<1>3. \A h \in X : f[h] \in Y
  BY Zenon, <1>2 DEF PollerFalls, PollerIds
<1>4. \A i \in Y : \E h \in X : f[h] = i
  BY Zenon, <1>2 DEF PollerFalls, PollerIds
<1>5. \A g, h \in X : f[g] = f[h] => g = h
  BY Zenon, IdsDiffer DEF PollerFalls
<1>6. f \in [X -> Y]
  <2>1. DOMAIN f = X /\ f = [h \in X |-> f[h]]
    BY Zenon
  <2> HIDE DEF f, X, Y
  <2> QED
    BY <2>1, <1>3
<1> HIDE DEF f, X, Y
<1>7. ExistsBijection(X, Y)
  BY <1>3, <1>4, <1>5, <1>6 DEF ExistsBijection, Bijection, Injection, IsInjective, Surjection
<1>8. Cardinality(Y) = Cardinality(X) /\ Cardinality(X) \in Nat
  BY Zenon, <1>1, <1>7, FS_Bijection, FS_CardinalityType
<1>9. Share(PollerIds, A, r) = Cardinality(Y)
  BY Zenon DEF Share, Y
<1> QED
  BY Zenon, <1>1, <1>8, <1>9 DEF X

LEMMA MasterShare ==
  ASSUME NEW A \in Nat \ {0}, NEW r, NEW S \in SUBSET Hosts
  PROVE  /\ Share(S, A, r) = Cardinality(Falls(S, A, r))
         /\ IsFiniteSet(Falls(S, A, r)) /\ Cardinality(Falls(S, A, r)) \in Nat
<1>1. \A i : assigned_peer(i, A) = i % A
  BY Zenon DEF assigned_peer
<1>2. {i \in S : i % A = r} = Falls(S, A, r)
  <2>1. \A i \in S : i % A = r <=> assigned_peer(i, A) = r
    BY Zenon, <1>1
  <2> QED
    BY Zenon, <2>1 DEF Falls
<1>3. IsFiniteSet(Hosts)
  BY PgroupAssumption, FS_Interval DEF Hosts
<1>4. Falls(S, A, r) \subseteq Hosts
  BY Zenon DEF Falls
<1>5. IsFiniteSet(Falls(S, A, r))
  BY Zenon, <1>3, <1>4, FS_Subset
<1> QED
  BY Zenon, <1>2, <1>5, FS_CardinalityType DEF Share

LEMMA OneGroup ==
  ASSUME Len(Hostgroups) = 1
  PROVE  DOMAIN Hostgroups = {1} /\ host_map(1) = PollerHosts
BY PgroupAssumption DEF PollerHosts

\* With a single hostgroup nothing is counted twice.
LEMMA AssignOne ==
  ASSUME Len(Hostgroups) = 1, NEW n \in Nat \ {0}, NEW r
  PROVE  assign(n, r) = Cardinality(PollerFalls(n, r))
<1> DEFINE c == Cardinality(PollerFalls(n, r))
           G(k) == Share({host_id_table(h, host_map(k)) : h \in host_map(k)}, n, r)
           Body(f) == [s \in SUBSET {1} |->
              IF s = {} THEN 0 ELSE LET x == CHOOSE y \in s : TRUE IN G(x) + f[s \ {x}]]
           iter == CHOOSE f : f = Body(f)
           g == [s \in SUBSET {1} |-> IF s = {} THEN 0 ELSE c]
<1>1. DOMAIN Hostgroups = {1} /\ host_map(1) = PollerHosts
  BY OneGroup
<1>2. assign(n, r) = iter[{1}]
  BY <1>1 DEF assign, MapThenSumSet, MapThenFoldSet
<1>3. /\ \A s \in SUBSET {1} : s = {} \/ s = {1}
      /\ (CHOOSE y \in {1} : TRUE) = 1 /\ {1} \ {1} = {} /\ {1} # {}
      /\ {} \in SUBSET {1} /\ {1} \in SUBSET {1}
  BY Zenon
<1>4. G(1) = c /\ c \in Nat
  BY Zenon, <1>1, PollerShare DEF PollerIds
<1> HIDE DEF c, G
<1>5. g = Body(g)
  <2>1. g[{}] = 0 /\ g[{1}] = c
    BY Zenon, <1>3
  <2>2. Body(g)[{}] = 0 /\ Body(g)[{1}] = G(1) + g[{}]
    BY Zenon, <1>3
  <2>3. g[{1}] = G(1) + g[{}]
    BY <2>1, <1>4
  <2>4. \A s \in SUBSET {1} : g[s] = Body(g)[s]
    BY Zenon, <1>3, <2>1, <2>2, <2>3
  <2>5. g = [s \in SUBSET {1} |-> g[s]]
    OBVIOUS
  <2>6. Body(g) = [s \in SUBSET {1} |-> Body(g)[s]]
    OBVIOUS
  <2> HIDE DEF g, Body
  <2> QED
    BY <2>4, <2>5, <2>6
<1>6. iter = Body(iter)
  <2> HIDE DEF Body, g
  <2> QED
    BY Zenon, <1>5
<1> HIDE DEF iter
<1>7. iter[{}] = 0
  BY <1>6
<1>8. iter[{1}] = G(1) + iter[{}]
  <2>1. Body(iter)[{1}] = G(1) + iter[{}]
    BY Zenon, <1>3
  <2> HIDE DEF Body
  <2> QED
    BY Zenon, <2>1, <1>6
<1>9. iter[{1}] = c
  BY <1>4, <1>7, <1>8
<1> QED
  BY Zenon, <1>2, <1>9 DEF c

LEMMA InheritOne ==
  ASSUME Len(Hostgroups) = 1, NEW n \in Nat \ {0}, NEW r
  PROVE  inherit(n, r) = Cardinality(Falls(PollerHosts, n, r))
<1> DEFINE c == Cardinality(Falls(PollerHosts, n, r))
           G(k) == Share(host_map(k), n, r)
           Body(f) == [s \in SUBSET {1} |->
              IF s = {} THEN 0 ELSE LET x == CHOOSE y \in s : TRUE IN G(x) + f[s \ {x}]]
           iter == CHOOSE f : f = Body(f)
           g == [s \in SUBSET {1} |-> IF s = {} THEN 0 ELSE c]
<1>1. DOMAIN Hostgroups = {1} /\ host_map(1) = PollerHosts
  BY OneGroup
<1>2. inherit(n, r) = iter[{1}]
  BY <1>1 DEF inherit, MapThenSumSet, MapThenFoldSet
<1>3. /\ \A s \in SUBSET {1} : s = {} \/ s = {1}
      /\ (CHOOSE y \in {1} : TRUE) = 1 /\ {1} \ {1} = {} /\ {1} # {}
      /\ {} \in SUBSET {1} /\ {1} \in SUBSET {1}
  BY Zenon
<1>4. G(1) = c /\ c \in Nat
  BY Zenon, <1>1, MasterShare, HostsOk
<1> HIDE DEF c, G
<1>5. g = Body(g)
  <2>1. g[{}] = 0 /\ g[{1}] = c
    BY Zenon, <1>3
  <2>2. Body(g)[{}] = 0 /\ Body(g)[{1}] = G(1) + g[{}]
    BY Zenon, <1>3
  <2>3. g[{1}] = G(1) + g[{}]
    BY <2>1, <1>4
  <2>4. \A s \in SUBSET {1} : g[s] = Body(g)[s]
    BY Zenon, <1>3, <2>1, <2>2, <2>3
  <2>5. g = [s \in SUBSET {1} |-> g[s]]
    OBVIOUS
  <2>6. Body(g) = [s \in SUBSET {1} |-> Body(g)[s]]
    OBVIOUS
  <2> HIDE DEF g, Body
  <2> QED
    BY <2>4, <2>5, <2>6
<1>6. iter = Body(iter)
  <2> HIDE DEF Body, g
  <2> QED
    BY Zenon, <1>5
<1> HIDE DEF iter
<1>7. iter[{}] = 0
  BY <1>6
<1>8. iter[{1}] = G(1) + iter[{}]
  <2>1. Body(iter)[{1}] = G(1) + iter[{}]
    BY Zenon, <1>3
  <2> HIDE DEF Body
  <2> QED
    BY Zenon, <2>1, <1>6
<1>9. iter[{1}] = c
  BY <1>4, <1>7, <1>8
<1> QED
  BY Zenon, <1>2, <1>9 DEF c

ActiveNodes(pg) == {pg.nodes[i] : i \in 1 .. pg.active}

\* The nodes of tier T that are active by s, and the ids that each of them has.
Splits(pg, T, s) ==
  /\ pg.active \in Nat /\ (pg.active = 0 <=> Connected(T, s) = {})
  /\ ActiveNodes(pg) = Connected(T, s)
  /\ \A id \in Nat : pg.nodes[assigned_peer(id, pg.active) + 1] \in T
  /\ \A m \in T, id \in Nat :
       pg.nodes[assigned_peer(id, pg.active) + 1] = m
       <=> assigned_peer(id, pg.active) = peer_id(pg, m)

\* What a sorted group says of a node that is active in it.
LEMMA InGroup ==
  ASSUME NEW s \in Known, NEW T \in SUBSET Nodes, T # {}, NEW pg, Group(pg, T), Ranked(pg, T, s)
  PROVE  Splits(pg, T, s)
<1> DEFINE C == Connected(T, s)
<1>1. IsFiniteSet(T) /\ C \subseteq T /\ pg.active = Cardinality(C)
  BY Zenon, TiersFinite, FS_Subset DEF Connected, Ranked
<1>2. pg.active \in Nat /\ (pg.active = 0 <=> C = {}) /\ pg.active <= Cardinality(T) /\ Cardinality(T) \in Nat
  <2>1. IsFiniteSet(C) /\ Cardinality(C) <= Cardinality(T)
    BY Zenon, <1>1, FS_Subset
  <2>2. Cardinality(C) \in Nat /\ (Cardinality(C) = 0 <=> C = {}) /\ Cardinality(T) \in Nat
    BY Zenon, <1>1, <2>1, FS_CardinalityType, FS_EmptySet
  <2> QED
    BY Zenon, <1>1, <2>1, <2>2
<1>3. \A m \in T : /\ peer_id(pg, m) = Rank(T, s, m) /\ Rank(T, s, m) \in 0 .. Cardinality(T) - 1
                   /\ pg.nodes[Rank(T, s, m) + 1] = m
                   /\ m \in C <=> Rank(T, s, m) < pg.active
  <2> SUFFICES ASSUME NEW m \in T
               PROVE  /\ peer_id(pg, m) = Rank(T, s, m) /\ Rank(T, s, m) \in 0 .. Cardinality(T) - 1
                      /\ pg.nodes[Rank(T, s, m) + 1] = m
                      /\ m \in C <=> Rank(T, s, m) < pg.active
    OBVIOUS
  <2>1. peer_id(pg, m) = Rank(T, s, m) /\ Rank(T, s, m) \in 0 .. Cardinality(T) - 1
    BY Zenon, PeerId, RankType
  <2>2. s[m] # 0 <=> Rank(T, s, m) < Cardinality(C)
    BY Zenon, ConnectedFirst
  <2>3. m \in C <=> s[m] # 0
    BY Zenon DEF Connected
  <2> QED
    BY Zenon, <1>1, <2>1, <2>2, <2>3 DEF Ranked
<1>4. \A i \in 0 .. Cardinality(T) - 1 : \E m \in T : Rank(T, s, m) = i
  BY Zenon, RankOne
<1>5. {pg.nodes[i] : i \in 1 .. pg.active} = C
  <2>1. ASSUME NEW i \in 1 .. pg.active PROVE pg.nodes[i] \in C
    <3>1. i - 1 \in 0 .. Cardinality(T) - 1 /\ i - 1 < pg.active /\ i - 1 + 1 = i
      BY <1>2
    <3>2. PICK m \in T : Rank(T, s, m) = i - 1
      BY Zenon, <3>1, <1>4
    <3> QED
      BY Zenon, <3>1, <3>2, <1>3
  <2>2. ASSUME NEW m \in C PROVE \E i \in 1 .. pg.active : pg.nodes[i] = m
    <3>1. m \in T
      BY Zenon, <1>1
    <3> DEFINE k == Rank(T, s, m)
    <3>2. k < pg.active /\ k \in 0 .. Cardinality(T) - 1 /\ pg.nodes[k + 1] = m
      BY Zenon, <3>1, <1>3
    <3> HIDE DEF k
    <3>3. k + 1 \in 1 .. pg.active
      BY <3>2, <1>2
    <3> QED
      BY Zenon, <3>2, <3>3
  <2> HIDE DEF C
  <2> QED
    BY Zenon, <2>1, <2>2
<1>6. ASSUME NEW id \in Nat
      PROVE  \E p \in T : /\ pg.nodes[assigned_peer(id, pg.active) + 1] = p
                         /\ assigned_peer(id, pg.active) = Rank(T, s, p)
  BY Zenon, <1>1, Picks
<1>7. \A m, p \in T : Rank(T, s, m) = Rank(T, s, p) => m = p
  BY Zenon, RankOne
<1>8. \A id \in Nat : pg.nodes[assigned_peer(id, pg.active) + 1] \in T
  BY Zenon, <1>6
<1>9. ASSUME NEW m \in T, NEW id \in Nat
      PROVE  pg.nodes[assigned_peer(id, pg.active) + 1] = m
             <=> assigned_peer(id, pg.active) = peer_id(pg, m)
  BY Zenon, <1>3, <1>6, <1>7
<1> QED
  BY Zenon, <1>2, <1>5, <1>8, <1>9 DEF Splits, ActiveNodes

-----------------------------------------------------------------------------
(* pgroup_reassign_checks ran after every change of the groups             *)

\* The nodes in STATE_CONNECTED on n.
Linked(n) == {m \in Nodes : IF m = n THEN Daemon ELSE info[n][m] # 0}

CountInv ==
  /\ DOMAIN assigned = Nodes
  /\ \A n \in up :
       /\ assigned[n] = pgroup_reassign_checks(n, own[n], below[n], conf.takeover, Linked(n))
       /\ n \in Pollers => below[n].active = 0

\* What pgroup_reassign_checks gives to m.
GivenTo(v, n, o, b, k, C, m) ==
  /\ m \in ActiveNodes(o) /\ m \notin ActiveNodes(b) =>
       v[m].current = own_assign(n, o.active, peer_id(o, m))
  /\ m \notin ActiveNodes(o) /\ m \in ActiveNodes(b) =>
       v[m].current = assign(b.active, peer_id(b, m))
  /\ n \in Masters /\ b.active = 0 /\ k /\ m \in ActiveNodes(o) /\ m \in C =>
       v[m].extra = inherit(o.active, peer_id(o, m))
  /\ ~(n \in Masters /\ b.active = 0 /\ k /\ m \in ActiveNodes(o)) =>
       v[m].extra = 0

LEMMA Reassigned ==
  ASSUME NEW n, NEW o, NEW b, NEW k, NEW C, NEW m \in Nodes
  PROVE  GivenTo(pgroup_reassign_checks(n, o, b, k, C), n, o, b, k, C, m)
BY Zenon DEF pgroup_reassign_checks, ActiveNodes, GivenTo

\* On a poller no host is inherited.
LEMMA NoneInherited ==
  ASSUME NEW n, n \notin Masters, NEW o, NEW b, NEW t, NEW C, NEW D
  PROVE  pgroup_reassign_checks(n, o, b, t, C) = pgroup_reassign_checks(n, o, b, t, D)
BY DEF pgroup_reassign_checks

\* The same on a process that has just started.
LinkedFirst(n) == IF Daemon THEN {n} ELSE {}

Counts(n, l, k) ==
  /\ l.assigned = pgroup_reassign_checks(n, l.own, l.below, k, LinkedFirst(n))
  /\ l.below.active = 0

LEMMA LoadedCounts ==
  ASSUME NEW n \in Nodes, NEW t, NEW k
  PROVE  Counts(n, Loaded(n, t, k), k)
<1>1. Loaded(n, t, k).below.active = 0
  BY Zenon DEF Loaded, Initially
<1>2. Loaded(n, t, k).assigned =
        pgroup_reassign_checks(n, Loaded(n, t, k).own, Loaded(n, t, k).below, k,
          LinkedFirst(n))
  BY Zenon DEF Loaded, LinkedFirst
<1> QED
  BY Zenon, <1>1, <1>2 DEF Counts

LEMMA CountHandler ==
  ASSUME IInv, CountInv, NEW n \in up, NEW m \in Nodes \ {n}, NEW t,
         info' = [info EXCEPT ![n][m] = t],
         node_action_handler(n, Tier(m), info'[n]),
         UNCHANGED <<conf, up, start>>
  PROVE  CountInv'
<1>1. n \in Nodes /\ info \in [Nodes -> [Nodes -> Times \cup {0}]] /\ DOMAIN own = Nodes /\ DOMAIN below = Nodes
      /\ DOMAIN assigned = Nodes /\ up \subseteq Nodes
  BY Zenon DEF IInv, Tables, CountInv
<1>2. \A x \in Nodes : x # n => info'[x] = info[x]
  BY Zenon, <1>1
<1>3. \A x \in Nodes : x # n => /\ own'[x] = own[x] /\ below'[x] = below[x] /\ assigned'[x] = assigned[x]
  BY Zenon, <1>1 DEF node_action_handler
<1>4. DOMAIN assigned' = Nodes
  BY Zenon, <1>1 DEF node_action_handler
<1>5. ASSUME NEW x \in up, x # n
      PROVE  /\ assigned'[x] = pgroup_reassign_checks(x, own'[x], below'[x], conf'.takeover, Linked(x)')
             /\ x \in Pollers => below'[x].active = 0
  <2>1. Linked(x)' = Linked(x) /\ x \in Nodes
    BY Zenon, <1>1, <1>2, <1>5 DEF Linked
  <2>2. conf' = conf /\ own'[x] = own[x] /\ below'[x] = below[x] /\ assigned'[x] = assigned[x]
    BY Zenon, <2>1, <1>3, <1>5
  <2>3. /\ assigned[x] = pgroup_reassign_checks(x, own[x], below[x], conf.takeover, Linked(x))
        /\ x \in Pollers => below[x].active = 0
    BY Zenon DEF CountInv
  <2> QED
    BY Zenon, <2>1, <2>2, <2>3
<1>6. /\ assigned'[n] = pgroup_reassign_checks(n, own'[n], below'[n], conf'.takeover, Linked(n)')
      /\ n \in Pollers => below'[n].active = 0
  <2>1. conf' = conf
    BY Zenon
  <2>2. CASE n \in Pollers /\ Tier(m) = Masters
    <3>1. own' = own /\ below' = below /\ assigned' = assigned
      BY Zenon, <2>2 DEF node_action_handler
    <3>2. n \notin Masters
      BY Zenon, <2>2, PgroupAssumption
    <3>3. pgroup_reassign_checks(n, own[n], below[n], conf.takeover, Linked(n)) =
            pgroup_reassign_checks(n, own[n], below[n], conf.takeover, Linked(n)')
      BY Zenon, <3>2, NoneInherited
    <3>4. /\ assigned[n] = pgroup_reassign_checks(n, own[n], below[n], conf.takeover, Linked(n))
          /\ n \in Pollers => below[n].active = 0
      BY Zenon DEF CountInv
    <3> QED
      BY Zenon, <2>1, <3>1, <3>3, <3>4
  <2>3. CASE ~(n \in Pollers /\ Tier(m) = Masters)
    <3>1. assigned'[n] = pgroup_reassign_checks(n, own'[n], below'[n], conf.takeover,
                           {x \in Nodes : IF x = n THEN Daemon ELSE info'[n][x] # 0})
      BY Zenon, <2>3, <1>1 DEF node_action_handler
    <3>2. assigned'[n] = pgroup_reassign_checks(n, own'[n], below'[n], conf.takeover, Linked(n)')
      BY Zenon, <3>1 DEF Linked
    <3>3. ASSUME n \in Pollers PROVE below'[n].active = 0
      <4>1. Tier(m) = Tier(n)
        BY Zenon, <2>3, <3>3, PgroupAssumption DEF Tier
      <4>2. below'[n] = below[n]
        BY Zenon, <2>3, <4>1, <1>1 DEF node_action_handler
      <4> QED
        BY Zenon, <3>3, <4>2 DEF CountInv
    <3> QED
      BY Zenon, <2>1, <3>2, <3>3
  <2> QED
    BY Zenon, <2>2, <2>3
<1>7. up' = up
  BY Zenon
<1> QED
  BY Zenon, <1>4, <1>5, <1>6, <1>7 DEF CountInv

LEMMA CountStep == IInv /\ CountInv /\ [Next]_vars => CountInv'
<1> SUFFICES ASSUME IInv, CountInv, [Next]_vars PROVE CountInv'
  OBVIOUS
<1>0. Tables /\ up \subseteq Nodes /\ DOMAIN own = Nodes /\ DOMAIN below = Nodes /\ DOMAIN assigned = Nodes
  BY Zenon DEF IInv, Tables, CountInv
<1>1. ASSUME NEW n \in Nodes, NEW m \in Nodes, Connect(n, m) PROVE CountInv'
  <2>1. n \in up /\ m \in Nodes \ {n}
    BY <1>1 DEF Connect
  <2>2. /\ info' = [info EXCEPT ![n][m] = start[m]]
        /\ node_action_handler(n, Tier(m), info'[n])
        /\ UNCHANGED <<conf, up, start>>
    BY <1>1 DEF Connect
  <2> QED
    BY Zenon, <2>1, <2>2, CountHandler
<1>2. ASSUME NEW n \in Nodes, NEW m \in Nodes, Disconnect(n, m) PROVE CountInv'
  <2>1. n \in up /\ m \in Nodes \ {n}
    BY <1>2 DEF Disconnect, IInv, Tables
  <2>2. /\ info' = [info EXCEPT ![n][m] = 0]
        /\ node_action_handler(n, Tier(m), info'[n])
        /\ UNCHANGED <<conf, up, start>>
    BY Zenon, <1>2 DEF Disconnect
  <2> QED
    BY Zenon, <2>1, <2>2, CountHandler
<1>3. ASSUME NEW n \in Nodes, Die(n) PROVE CountInv'
  <2>1. /\ up' = up \ {n} /\ conf' = conf /\ own' = own /\ below' = below /\ assigned' = assigned
        /\ info' = [info EXCEPT ![n] = [m \in Nodes |-> 0]]
    BY Zenon, <1>3 DEF Die
  <2>2. ASSUME NEW x \in up' PROVE x \in up /\ Linked(x)' = Linked(x)
    <3>1. x \in up /\ x # n /\ x \in Nodes
      BY <2>1, <1>0
    <3>2. info'[x] = info[x]
      BY <2>1, <3>1, <1>0 DEF Tables
    <3> QED
      BY Zenon, <3>1, <3>2 DEF Linked
  <2> QED
    BY Zenon, <2>1, <2>2 DEF CountInv
<1>4. ASSUME NEW n \in Nodes, NEW t \in Times, Start(n, t) PROVE CountInv'
  <2>1. /\ own' = [own EXCEPT ![n] = Loaded(n, t, conf.takeover).own]
        /\ below' = [below EXCEPT ![n] = Loaded(n, t, conf.takeover).below]
        /\ assigned' = [assigned EXCEPT ![n] = Loaded(n, t, conf.takeover).assigned]
        /\ up' = up \cup {n} /\ conf' = conf /\ info' = info /\ n \notin up
    BY Zenon, <1>4 DEF Start
  <2>2. DOMAIN assigned' = Nodes
    BY Zenon, <2>1, <1>0
  <2>3. ASSUME NEW x \in up
        PROVE  /\ assigned'[x] = pgroup_reassign_checks(x, own'[x], below'[x], conf'.takeover, Linked(x)')
               /\ x \in Pollers => below'[x].active = 0
    <3>1. own'[x] = own[x] /\ below'[x] = below[x] /\ assigned'[x] = assigned[x]
      BY Zenon, <2>1, <1>0
    <3>2. Linked(x)' = Linked(x)
      BY Zenon, <2>1 DEF Linked
    <3>3. /\ assigned[x] = pgroup_reassign_checks(x, own[x], below[x], conf.takeover, Linked(x))
          /\ x \in Pollers => below[x].active = 0
      BY Zenon DEF CountInv
    <3> QED
      BY Zenon, <2>1, <3>1, <3>2, <3>3
  <2>4. /\ assigned'[n] = pgroup_reassign_checks(n, own'[n], below'[n], conf'.takeover, Linked(n)')
        /\ n \in Pollers => below'[n].active = 0
    <3>1. /\ own'[n] = Loaded(n, t, conf.takeover).own
          /\ below'[n] = Loaded(n, t, conf.takeover).below
          /\ assigned'[n] = Loaded(n, t, conf.takeover).assigned
      BY Zenon, <2>1, <1>0
    <3>2. info'[n] = [x \in Nodes |-> 0]
      BY Zenon, <2>1, <1>0 DEF Tables
    <3>3. Linked(n)' = LinkedFirst(n)
      BY <3>2, DutyAssumption DEF Linked, LinkedFirst
    <3>4. Counts(n, Loaded(n, t, conf.takeover), conf.takeover)
      BY Zenon, LoadedCounts
    <3> QED
      BY <2>1, <3>1, <3>3, <3>4 DEF Counts
  <2>5. \A x \in up' : x = n \/ x \in up
    BY Zenon, <2>1
  <2> QED
    BY Zenon, <2>2, <2>3, <2>4, <2>5 DEF CountInv
<1>5. CASE UNCHANGED vars
  BY Zenon, <1>5 DEF vars, CountInv, Linked
<1> QED
  BY <1>1, <1>2, <1>3, <1>4, <1>5 DEF Next

LEMMA CountInit == Init => CountInv
<1> SUFFICES ASSUME Init PROVE CountInv
  OBVIOUS
<1>1. ASSUME NEW n \in Nodes
      PROVE  /\ assigned[n] = pgroup_reassign_checks(n, own[n], below[n], conf.takeover, Linked(n))
             /\ below[n].active = 0
  <2>1. start[n] \in Times
    BY Zenon, DutyAssumption DEF Init
  <2>2. /\ own[n] = Loaded(n, start[n], conf.takeover).own
        /\ below[n] = Loaded(n, start[n], conf.takeover).below
        /\ assigned[n] = Loaded(n, start[n], conf.takeover).assigned
        /\ info[n] = [m \in Nodes |-> 0]
    BY Zenon DEF Init
  <2>3. Linked(n) = LinkedFirst(n)
    BY <2>2, DutyAssumption DEF Linked, LinkedFirst
  <2>4. Counts(n, Loaded(n, start[n], conf.takeover), conf.takeover)
    BY Zenon, LoadedCounts
  <2> QED
    BY <2>2, <2>3, <2>4 DEF Counts
<1>2. up = Nodes /\ DOMAIN assigned = Nodes
  BY Zenon DEF Init
<1> QED
  BY Zenon, <1>1, <1>2 DEF CountInv

-----------------------------------------------------------------------------
(* The counters are the numbers of hosts                                   *)

HostsOf(n, m) == {h \in Hosts : Has(n, h) /\ Owner(n, h) = m}

Counter(n, m) == assigned[n][m].current + assigned[n][m].extra

\* A poller counts its own hosts and those of its peers.
LEMMA PollerCounts ==
  ASSUME IInv, CountInv, NEW n \in up, n \in Pollers, NEW m \in Pollers, m = n \/ info[n][m] # 0
  PROVE  Counter(n, m) = Cardinality(HostsOf(n, m))
<1> DEFINE A == own[n].active
           r == peer_id(own[n], m)
           O == ActiveNodes(own[n])
           B == ActiveNodes(below[n])
           s == View(n)
<1>1. n \in Nodes /\ n \notin Masters /\ Tier(n) = Pollers /\ Pollers \in SUBSET Nodes /\ Pollers # {} /\ m \in Nodes
  BY Zenon, PgroupAssumption, TiersFinite DEF IInv, Tables, Tier
<1>2. s \in Known /\ s[m] # 0 /\ Group(own[n], Pollers) /\ Ranked(own[n], Pollers, s)
  BY Zenon, <1>1, Knows, TimesOk DEF IInv, Tables, Sorting
<1>3. m \in Connected(Pollers, s)
  BY Zenon, <1>2 DEF Connected
<1> HIDE DEF s
<1>4. /\ A \in Nat /\ (A = 0 <=> Connected(Pollers, s) = {}) /\ O = Connected(Pollers, s)
      /\ \A id \in Nat : own[n].nodes[assigned_peer(id, A) + 1] = m <=> assigned_peer(id, A) = r
  <2>1. Splits(own[n], Pollers, s)
    BY Zenon, <1>1, <1>2, InGroup
  <2> QED
    BY Zenon, <2>1 DEF Splits
<1>5. m \in O /\ A \in Nat \ {0} /\ B = {}
  <2>1. below[n].active = 0
    BY Zenon DEF CountInv
  <2>2. 1 .. 0 = {}
    OBVIOUS
  <2>3. A \in Nat \ {0}
    BY Zenon, <1>3, <1>4
  <2> QED
    BY Zenon, <1>3, <1>4, <2>1, <2>2, <2>3 DEF ActiveNodes
<1>6. /\ assigned[n][m].current = own_assign(n, A, r)
      /\ assigned[n][m].extra = 0
  <2>1. assigned[n] = pgroup_reassign_checks(n, own[n], below[n], conf.takeover, Linked(n))
    BY Zenon DEF CountInv
  <2>2. m \notin ActiveNodes(below[n])
    BY Zenon, <1>5
  <2>3. GivenTo(assigned[n], n, own[n], below[n], conf.takeover, Linked(n), m)
    BY Zenon, <1>1, <2>1, Reassigned
  <2> QED
    BY Zenon, <1>1, <1>5, <2>2, <2>3 DEF GivenTo
<1>7. own_assign(n, A, r) = Share(PollerIds, A, r)
  <2>1. {HostId(n, h) : h \in PollerHosts} = PollerIds
    BY Zenon, <1>1 DEF HostId, PollerIds
  <2> QED
    BY Zenon, <1>1, <2>1 DEF own_assign
<1>8. HostsOf(n, m) = PollerFalls(A, r)
  <2>1. ASSUME NEW h \in PollerHosts
        PROVE  h \in Hosts /\ Has(n, h) /\ (Owner(n, h) = m <=> assigned_peer(host_id_table(h, PollerHosts), A) = r)
    <3>1. h \in Hosts /\ host_id_table(h, PollerHosts) \in Nat
      BY Zenon, HostsOk
    <3>2. Owner(n, h) = own[n].nodes[assigned_peer(host_id_table(h, PollerHosts), A) + 1]
      BY Zenon, <1>1 DEF Owner, pgroup_host_node, HostId
    <3> QED
      BY Zenon, <3>1, <3>2, <1>4 DEF Has
  <2>2. \A h : Has(n, h) => h \in PollerHosts
    BY Zenon, <1>1 DEF Has
  <2> QED
    BY Zenon, <2>1, <2>2 DEF HostsOf, PollerFalls
<1> HIDE DEF A, r
<1>9. Counter(n, m) = Cardinality(PollerFalls(A, r)) + 0
  BY Zenon, <1>5, <1>6, <1>7, PollerShare DEF Counter
<1>10. Cardinality(PollerFalls(A, r)) \in Nat
  BY Zenon, <1>5, PollerShare
<1> QED
  BY <1>8, <1>9, <1>10

\* What a master knows of a node of either tier, and where it sends a host.
MasterView(n) ==
  /\ n \in Nodes /\ n \notin Pollers
  /\ Splits(own[n], Masters, View(n)) /\ Splits(below[n], Pollers, info[n])
  /\ \A h \in Hosts \ PollerHosts :
       Owner(n, h) = own[n].nodes[assigned_peer(h, own[n].active) + 1]
  /\ below[n].active = 0 /\ conf.takeover =>
       \A h \in PollerHosts :
         Owner(n, h) = own[n].nodes[assigned_peer(h, own[n].active) + 1]
  /\ ~(below[n].active = 0 /\ conf.takeover) =>
       \A h \in PollerHosts :
         Owner(n, h) =
           below[n].nodes[assigned_peer(host_id_table(h, PollerHosts), below[n].active) + 1]
  /\ \A m \in Nodes : GivenTo(assigned[n], n, own[n], below[n], conf.takeover, Linked(n), m)

LEMMA MasterViews ==
  ASSUME IInv, CountInv, NEW n \in up, n \in Masters
  PROVE  MasterView(n)
<1>1. /\ n \in Nodes /\ n \notin Pollers /\ Tier(n) = Masters /\ Masters # {} /\ Pollers # {}
      /\ Masters \in SUBSET Nodes /\ Pollers \in SUBSET Nodes
  BY Zenon, PgroupAssumption, TiersFinite DEF Tier
<1>2. /\ View(n) \in Known /\ info[n] \in Known
      /\ Group(own[n], Masters) /\ Ranked(own[n], Masters, View(n))
      /\ Group(below[n], Pollers) /\ Ranked(below[n], Pollers, info[n])
  BY Zenon, <1>1, Knows DEF IInv, Sorting
<1>3. Splits(own[n], Masters, View(n)) /\ Splits(below[n], Pollers, info[n])
  BY Zenon, <1>1, <1>2, InGroup
<1>4. ASSUME NEW h \in Hosts \ PollerHosts
      PROVE  Owner(n, h) = own[n].nodes[assigned_peer(h, own[n].active) + 1]
  BY Zenon, <1>4 DEF Owner, pgroup_host_node, HostId
<1>5. ASSUME below[n].active = 0, conf.takeover, NEW h \in PollerHosts
      PROVE  Owner(n, h) = own[n].nodes[assigned_peer(h, own[n].active) + 1]
  BY Zenon, <1>5 DEF Owner, pgroup_host_node, HostId
<1>6. ASSUME ~(below[n].active = 0 /\ conf.takeover), NEW h \in PollerHosts
      PROVE  Owner(n, h) =
               below[n].nodes[assigned_peer(host_id_table(h, PollerHosts), below[n].active) + 1]
  BY Zenon, <1>6 DEF Owner, pgroup_host_node
<1>7. ASSUME NEW m \in Nodes
      PROVE  GivenTo(assigned[n], n, own[n], below[n], conf.takeover, Linked(n), m)
  <2>1. assigned[n] = pgroup_reassign_checks(n, own[n], below[n], conf.takeover, Linked(n))
    BY Zenon DEF CountInv
  <2> QED
    BY Zenon, <2>1, Reassigned
<1> QED
  BY Zenon, <1>1, <1>3, <1>4, <1>5, <1>6, <1>7 DEF MasterView

\* A master counts for a poller what it leaves to it.
LEMMA MasterCountsPoller ==
  ASSUME IInv, CountInv, Len(Hostgroups) = 1,
         NEW n \in up, n \in Masters, NEW m \in Pollers, info[n][m] # 0
  PROVE  Counter(n, m) = Cardinality(HostsOf(n, m))
<1> DEFINE B == below[n].active
           r == peer_id(below[n], m)
<1>1. MasterView(n) /\ m \in Nodes /\ m \notin Masters
  BY Zenon, MasterViews, TiersFinite, PgroupAssumption
<1>2. /\ m \in Connected(Pollers, info[n]) /\ m \notin Connected(Masters, View(n))
  BY Zenon, <1>1 DEF Connected
<1>3. /\ m \in ActiveNodes(below[n]) /\ m \notin ActiveNodes(own[n]) /\ B \in Nat \ {0}
  BY Zenon, <1>1, <1>2 DEF MasterView, Splits
<1>4. GivenTo(assigned[n], n, own[n], below[n], conf.takeover, Linked(n), m)
  BY Zenon, <1>1 DEF MasterView
<1>5. assigned[n][m].current = assign(B, r) /\ assigned[n][m].extra = 0
  BY Zenon, <1>3, <1>4 DEF GivenTo
<1>6. HostsOf(n, m) = PollerFalls(B, r)
  <2>1. B # 0
    BY Zenon, <1>3
  <2>2. ASSUME NEW h \in PollerHosts
        PROVE  h \in Hosts /\ Has(n, h) /\ (Owner(n, h) = m <=> assigned_peer(host_id_table(h, PollerHosts), B) = r)
    <3>1. h \in Hosts /\ host_id_table(h, PollerHosts) \in Nat
      BY Zenon, HostsOk
    <3>2. Owner(n, h) = below[n].nodes[assigned_peer(host_id_table(h, PollerHosts), B) + 1]
      BY Zenon, <1>1, <2>1 DEF MasterView
    <3>3. below[n].nodes[assigned_peer(host_id_table(h, PollerHosts), B) + 1] = m
          <=> assigned_peer(host_id_table(h, PollerHosts), B) = r
      BY Zenon, <1>1, <3>1 DEF MasterView, Splits
    <3> QED
      BY Zenon, <3>1, <3>2, <3>3 DEF Has
  <2>3. ASSUME NEW h \in Hosts, h \notin PollerHosts PROVE Owner(n, h) # m
    <3>1. h \in Nat /\ h \in Hosts \ PollerHosts
      BY Zenon, <2>3, HostsOk
    <3>2. Owner(n, h) = own[n].nodes[assigned_peer(h, own[n].active) + 1]
      BY Zenon, <1>1, <3>1 DEF MasterView
    <3>3. own[n].nodes[assigned_peer(h, own[n].active) + 1] \in Masters
      BY Zenon, <1>1, <3>1 DEF MasterView, Splits
    <3> QED
      BY Zenon, <1>1, <3>2, <3>3
  <2> QED
    BY Zenon, <2>2, <2>3 DEF HostsOf, PollerFalls
<1> HIDE DEF B, r
<1>7. Counter(n, m) = Cardinality(PollerFalls(B, r)) + 0
  BY Zenon, <1>3, <1>5, AssignOne DEF Counter
<1>8. Cardinality(PollerFalls(B, r)) \in Nat
  BY Zenon, <1>3, PollerShare
<1> QED
  BY <1>6, <1>7, <1>8

\* A master counts for itself and for its peers the hosts that no poller has
\* and, while it sees no poller, those it takes over.
LEMMA MasterCounts ==
  ASSUME IInv, CountInv, Len(Hostgroups) = 1, Daemon,
         NEW n \in up, n \in Masters, NEW m \in Masters, m = n \/ info[n][m] # 0
  PROVE  Counter(n, m) = Cardinality(HostsOf(n, m))
<1> DEFINE A == own[n].active
           r == peer_id(own[n], m)
           F == Falls(Hosts \ PollerHosts, A, r)
           P == Falls(PollerHosts, A, r)
<1>1. MasterView(n) /\ n \in Nodes /\ m \in Nodes /\ m \notin Pollers
  BY Zenon, MasterViews, TiersFinite, PgroupAssumption
<1>2. View(n)[m] # 0
  BY Zenon, <1>1, Knows, TimesOk DEF IInv, Tables
<1>3. /\ m \in Connected(Masters, View(n)) /\ m \notin Connected(Pollers, info[n])
  BY Zenon, <1>1, <1>2 DEF Connected
<1>4. /\ m \notin ActiveNodes(below[n]) /\ m \in ActiveNodes(own[n]) /\ A \in Nat \ {0}
  BY Zenon, <1>1, <1>3 DEF MasterView, Splits
<1>5. GivenTo(assigned[n], n, own[n], below[n], conf.takeover, Linked(n), m) /\ m \in Linked(n)
  BY Zenon, <1>1 DEF MasterView, Linked
<1>6. assigned[n][m].current = Cardinality(F)
  <2>1. assigned[n][m].current = own_assign(n, A, r)
    BY Zenon, <1>4, <1>5 DEF GivenTo
  <2>2. own_assign(n, A, r) = Share(Hosts \ PollerHosts, A, r)
    BY Zenon DEF own_assign
  <2>3. Share(Hosts \ PollerHosts, A, r) = Cardinality(F)
    BY Zenon, <1>4, MasterShare
  <2> QED
    BY Zenon, <2>1, <2>2, <2>3
<1>7. IsFiniteSet(F) /\ Cardinality(F) \in Nat /\ IsFiniteSet(P) /\ Cardinality(P) \in Nat
  <2>1. Hosts \ PollerHosts \in SUBSET Hosts /\ PollerHosts \in SUBSET Hosts
    BY Zenon, HostsOk
  <2> QED
    BY Zenon, <2>1, <1>4, MasterShare
<1>8. \A h \in Hosts : own[n].nodes[assigned_peer(h, A) + 1] = m <=> assigned_peer(h, A) = r
  <2>1. \A h \in Hosts : h \in Nat
    BY Zenon, HostsOk
  <2> QED
    BY Zenon, <1>1, <2>1 DEF MasterView, Splits
<1>9. \A h \in Hosts : h \notin PollerHosts => (Owner(n, h) = m <=> h \in F)
  BY Zenon, <1>1, <1>8 DEF MasterView, Falls
<1>10. \A h \in Hosts : Has(n, h)
  BY Zenon DEF Has
<1>11. CASE below[n].active = 0 /\ conf.takeover
  <2>1. assigned[n][m].extra = inherit(A, r)
    BY Zenon, <1>4, <1>5, <1>11 DEF GivenTo
  <2>2. inherit(A, r) = Cardinality(P)
    BY Zenon, <1>4, InheritOne
  <2>3. \A h \in PollerHosts : h \in Hosts /\ (Owner(n, h) = m <=> h \in P)
    BY Zenon, <1>1, <1>8, <1>11, HostsOk DEF MasterView, Falls
  <2>4. \A h : /\ h \in F => h \in Hosts /\ h \notin PollerHosts
               /\ h \in P => h \in PollerHosts
    BY Zenon DEF Falls
  <2> HIDE DEF F, P
  <2>5. HostsOf(n, m) = F \cup P
    BY Zenon, <1>9, <1>10, <2>3, <2>4 DEF HostsOf
  <2>6. F \cap P = {}
    BY Zenon, <2>4
  <2>7. Cardinality(F \cup P) = Cardinality(F) + Cardinality(P)
    <3>1. Cardinality(F \cup P) = Cardinality(F) + Cardinality(P) - Cardinality(F \cap P)
      BY Zenon, <1>7, FS_Union
    <3>2. Cardinality(F \cap P) = 0
      BY Zenon, <2>6, FS_EmptySet
    <3> QED
      BY <1>7, <3>1, <3>2
  <2> QED
    BY Zenon, <1>6, <2>1, <2>2, <2>5, <2>7 DEF Counter
<1>12. CASE ~(below[n].active = 0 /\ conf.takeover)
  <2>1. assigned[n][m].extra = 0
    BY Zenon, <1>5, <1>12 DEF GivenTo
  <2>2. ASSUME NEW h \in PollerHosts PROVE h \in Hosts /\ Owner(n, h) # m
    <3>1. h \in Hosts /\ host_id_table(h, PollerHosts) \in Nat
      BY Zenon, HostsOk
    <3>2. Owner(n, h) = below[n].nodes[assigned_peer(host_id_table(h, PollerHosts), below[n].active) + 1]
      BY Zenon, <1>1, <1>12 DEF MasterView
    <3>3. below[n].nodes[assigned_peer(host_id_table(h, PollerHosts), below[n].active) + 1] \in Pollers
      BY Zenon, <1>1, <3>1 DEF MasterView, Splits
    <3> QED
      BY Zenon, <1>1, <3>1, <3>2, <3>3
  <2>3. \A h \in F : h \in Hosts /\ h \notin PollerHosts
    BY Zenon DEF Falls
  <2> HIDE DEF F, P
  <2>4. HostsOf(n, m) = F
    BY Zenon, <1>9, <1>10, <2>2, <2>3 DEF HostsOf
  <2>5. Counter(n, m) = Cardinality(F) + 0
    BY Zenon, <1>6, <2>1 DEF Counter
  <2> QED
    BY <1>7, <2>4, <2>5
<1> QED
  BY Zenon, <1>11, <1>12

\* When the pollers have a single hostgroup and the modules their daemons, a
\* node that is held responsible for a host once the links have settled does
\* check it, and at any time the counters that pgroup_reassign_checks makes
\* from the tables of assign and inherit are the numbers of hosts for which
\* pgroup_host_node names each node.
THEOREM CountersTell ==
  ASSUME Len(Hostgroups) = 1, Daemon
  PROVE  Spec => []OwnerIsRunner
<1>1. ASSUME IInv, CountInv, NEW n \in up, NEW m \in Nodes,
             m = n \/ (info[n][m] # 0 /\ (n \in Masters \/ m \in Pollers))
      PROVE  Counter(n, m) = Cardinality(HostsOf(n, m))
  <2>1. n \in Masters \/ n \in Pollers
    BY Zenon, <1>1 DEF Nodes, IInv, Tables
  <2>2. m \in Masters \/ m \in Pollers
    BY Zenon DEF Nodes
  <2>3. CASE n \in Pollers
    <3>1. m \in Pollers /\ n \notin Masters
      BY Zenon, <1>1, <2>3, PgroupAssumption
    <3> QED
      BY Zenon, <1>1, <2>3, <3>1, PollerCounts
  <2>4. CASE n \in Masters /\ m \in Masters
    BY Zenon, <1>1, <2>4, MasterCounts
  <2>5. CASE n \in Masters /\ m \in Pollers
    <3>1. info[n][m] # 0
      BY Zenon, <1>1, <2>5, PgroupAssumption
    <3> QED
      BY Zenon, <1>1, <2>5, <3>1, MasterCountsPoller
  <2> QED
    BY Zenon, <2>1, <2>2, <2>3, <2>4, <2>5
<1>2. IInv /\ CountInv /\ OwnerRuns => OwnerIsRunner
  BY Zenon, <1>1 DEF OwnerIsRunner, OwnerRuns, Counter, HostsOf
<1> QED
  BY <1>2, Invariant, OwnersRun, CountInit, CountStep, PTL DEF Spec
=============================================================================
