----------------------------- MODULE CsyncProofs -----------------------------
(***************************************************************************)
(* Proofs about configurations and queries.  Csync, for any number of      *)
(* edits and of failing pushes: the masters never push to each other at    *)
(* once, the newest configuration survives, and the poller gets no older   *)
(* one.  Queries, for any clients: who is answered, and that no fetch      *)
(* makes the daemon load an older configuration.                           *)
(***************************************************************************)
EXTENDS Csync, Queries, FiniteSetTheorems, TLAPS

Config == [cfg : Nat, time : Nat]

\* The types of what the masters decide from.
Typed ==
  /\ disk \in [Nodes -> Config] /\ run \in [Nodes -> Config]
  /\ order \in [1 .. 2 -> Masters]
  /\ pushing \in [Masters -> [Nodes -> BOOLEAN]]
  /\ edits \in SUBSET Config /\ IsFiniteSet(edits)

\* There is a newest configuration, and no node has a later one.
LatestKnown ==
  /\ \E e \in edits : \A f \in edits : f.time <= e.time
  /\ \A n \in Masters : disk[n].time <= Latest.time

\* The files of a master are not older than what it runs with.  If they are
\* newer, they were copied to it without a restart, and the other master, from
\* which they came, has them or newer ones.
FilesNewer ==
  \A n, m \in Masters : n # m =>
    /\ run[n].time <= disk[n].time
    /\ run[n].time = disk[n].time \/ disk[n].time <= disk[m].time

\* A push from n to m is still right: n runs with the newer configuration, or it
\* is the first to have started with one of the same time.
PushRight ==
  \A n, m \in Masters : pushing[n][m] =>
    /\ n # m
    /\ run[m].time < run[n].time \/ (run[m].time = run[n].time /\ Before(n, m))

NewestThere == \E n \in Masters : disk[n].time = Latest.time

IInv ==
  /\ Typed /\ LatestKnown
  /\ "edited_during_push" \notin flaws => FilesNewer /\ PushRight /\ NewestThere

-----------------------------------------------------------------------------

\* There are two masters.
LEMMA Two ==
  ASSUME NEW n \in Masters
  PROVE  /\ Peer(n) \in Masters /\ Peer(n) # n
         /\ \A m \in Masters : m = n \/ m = Peer(n)
<1>1. IsFiniteSet(Masters \ {n}) /\ Cardinality(Masters \ {n}) = 1
    BY CsyncAssumption, FS_RemoveElement
<1>2. PICK m : Masters \ {n} = {m}
    BY Zenon, <1>1, FS_Singleton
<1>3. m \in Masters /\ m # n /\ \A k \in Masters : k = n \/ k = m
    BY <1>2
<1>4. Peer(n) \in Masters /\ Peer(n) # n
    BY <1>3 DEF Peer
<1> QED
    BY <1>3, <1>4

\* The latest edit, which is one of them.
LEMMA LatestIs ==
  ASSUME NEW E \in SUBSET Config, NEW e \in E, \A f \in E : f.time <= e.time,
         NEW l, l = CHOOSE x \in E : \A f \in E : f.time <= x.time
  PROVE  l \in E /\ l.time = e.time
<1>1. l \in E /\ \A f \in E : f.time <= l.time
    OBVIOUS
<1>2. l.time \in Nat /\ e.time \in Nat
    BY <1>1 DEF Config
<1> QED
    BY <1>1, <1>2

\* The first state has one configuration.
LEMMA InitOk == Init => IInv
<1> SUFFICES ASSUME Init PROVE IInv
    OBVIOUS
<1> DEFINE c == [cfg |-> 0, time |-> 0]
<1>1. c \in Config /\ edits = {c} /\ IsFiniteSet(edits)
    BY Zenon, FS_Singleton DEF Init, Config
<1>2. PICK n \in Masters : TRUE
    BY CsyncAssumption, FS_EmptySet
<1>3. order \in [1 .. 2 -> Masters]
    <2>1. [i \in 1 .. 2 |-> IF i = 1 THEN n ELSE Peer(n)] \in [1 .. 2 -> Masters]
        BY Two
    <2>2. \E s \in [1 .. 2 -> Masters] : s[1] # s[2]
        <3> DEFINE t == [i \in 1 .. 2 |-> IF i = 1 THEN n ELSE Peer(n)]
        <3>1. t \in [1 .. 2 -> Masters]
            BY Zenon, <2>1
        <3>2. t[1] # t[2]
            BY Two
        <3> HIDE DEF t
        <3> QED
            BY Zenon, <3>1, <3>2
    <2> QED
        BY <2>2 DEF Init
<1>4. pushing \in [Masters -> [Nodes -> BOOLEAN]] /\ \A k \in Masters, m \in Nodes : ~pushing[k][m]
    BY DEF Init, None
<1>5. disk = [k \in Nodes |-> c] /\ run = disk
    BY DEF Init
<1>6. Typed
    BY <1>1, <1>3, <1>4, <1>5 DEF Typed
<1>7. Latest = c
    BY <1>1, LatestIs DEF Latest, Config
<1>8. LatestKnown /\ FilesNewer /\ NewestThere
    BY <1>1, <1>2, <1>5, <1>7 DEF LatestKnown, FilesNewer, NewestThere, Nodes
<1>9. PushRight
    BY <1>4 DEF PushRight, Nodes
<1> QED
    BY <1>6, <1>8, <1>9 DEF IInv

-----------------------------------------------------------------------------

\* A step that changes neither the masters nor what they push to each other,
\* other than to end it, keeps the invariant.
LEMMA MastersKept ==
  ASSUME IInv, Typed', edits' = edits, order' = order, flaws \subseteq flaws',
         \A n \in Masters : disk'[n] = disk[n] /\ run'[n] = run[n],
         \A n, m \in Masters : pushing'[n][m] => pushing[n][m]
  PROVE  IInv'
<1>1. Latest' = Latest
    BY DEF Latest
<1>2. LatestKnown'
    BY <1>1 DEF IInv, LatestKnown
<1>3. ASSUME "edited_during_push" \notin flaws'
      PROVE  (FilesNewer /\ PushRight /\ NewestThere)'
    <2>1. FilesNewer /\ PushRight /\ NewestThere
        BY <1>3 DEF IInv
    <2>2. FilesNewer'
        BY <2>1 DEF FilesNewer
    <2>3. PushRight'
        BY <2>1 DEF PushRight, Before
    <2>4. NewestThere'
        BY <2>1, <1>1 DEF NewestThere
    <2> QED
        BY <2>2, <2>3, <2>4
<1> QED
    BY <1>2, <1>3 DEF IInv

\* Starting a push: only to a peer that is behind.
LEMMA ActiveOk ==
  ASSUME IInv, NEW n \in Masters, NEW m \in Nodes, HandleActive(n, m)
  PROVE  IInv'
<1>1. /\ disk' = disk /\ run' = run /\ order' = order /\ edits' = edits
      /\ n # m /\ flaws \subseteq flaws'
    BY DEF HandleActive, csync_node_active
<1>2. CASE pushing' = pushing
    <2>1. Typed'
        BY <1>1, <1>2 DEF IInv, Typed
    <2> QED
        BY <1>1, <1>2, <2>1, MastersKept
<1>3. CASE pushing' # pushing
    <2>1. pushing' = [pushing EXCEPT ![n][m] = TRUE] /\ WantsPush(n, m)
        BY <1>3 DEF HandleActive, csync_node_active
    <2>2. pushing' \in [Masters -> [Nodes -> BOOLEAN]]
        BY <2>1 DEF IInv, Typed
    <2>3. Typed'
        BY <1>1, <2>2 DEF IInv, Typed
    <2>4. \A k \in Masters, j \in Nodes : ~(k = n /\ j = m) => (pushing'[k][j] => pushing[k][j])
        BY <2>1 DEF IInv, Typed
    <2>5. CASE m = Poller
        <3>1. \A k, j \in Masters : pushing'[k][j] => pushing[k][j]
            BY <2>4, <2>5, CsyncAssumption DEF Nodes
        <3> QED
            BY <1>1, <2>3, <3>1, MastersKept
    <2>6. CASE m # Poller
        <3>1. m \in Masters
            BY <2>6 DEF Nodes
        <3>2. run[n] \in Config /\ run[m] \in Config
            BY <3>1 DEF IInv, Typed, Nodes
        <3>3. node_oconf_cmp(n, m) < 0
            BY <2>1, <2>6 DEF WantsPush
        <3>4. run[m].time < run[n].time \/ (run[m].time = run[n].time /\ Before(n, m))
            <4>1. run[m].time \in Nat /\ run[n].time \in Nat
                BY <3>2 DEF Config
            <4>2. tdelta(n, m) = run[m].time - run[n].time
                BY DEF tdelta, expected
            <4> HIDE DEF tdelta
            <4>3. CASE tdelta(n, m) = 0
                BY <3>3, <2>6, <4>3, <4>1, <4>2 DEF node_oconf_cmp
            <4>4. CASE tdelta(n, m) # 0
                BY <3>3, <2>6, <4>4, <4>1, <4>2 DEF node_oconf_cmp
            <4> QED
                BY <4>3, <4>4
        <3>5. Latest' = Latest
            BY <1>1 DEF Latest
        <3>6. LatestKnown'
            BY <1>1, <3>5 DEF IInv, LatestKnown
        <3>7. ASSUME "edited_during_push" \notin flaws'
              PROVE  (FilesNewer /\ PushRight /\ NewestThere)'
            <4>1. FilesNewer /\ PushRight /\ NewestThere
                BY <3>7, <1>1 DEF IInv
            <4>2. FilesNewer' /\ NewestThere'
                BY <4>1, <1>1, <3>5 DEF FilesNewer, NewestThere
            <4>3. PushRight'
                BY <4>1, <1>1, <2>4, <3>4 DEF PushRight, Before, Nodes
            <4> QED
                BY <4>2, <4>3
        <3> QED
            BY <2>3, <3>6, <3>7 DEF IInv
    <2> QED
        BY <2>5, <2>6
<1> QED
    BY <1>2, <1>3

\* What a push copies is a configuration.
LEMMA PushedTyped ==
  ASSUME Typed, NEW n \in Masters, NEW m \in Nodes
  PROVE  /\ Pushed(n, m) \in [Nodes -> Config]
         /\ m # Poller => Pushed(n, m)[m] = disk[n]
         /\ \A k \in Nodes : k # m => Pushed(n, m)[k] = disk[k]
<1>1. n \in Nodes /\ disk[n] \in Config /\ run[n] \in Config
    BY DEF Typed, Nodes
<1>2. expected(n, m) \in Config
    BY <1>1 DEF expected, Part, Config
<1> QED
    BY <1>1, <1>2 DEF Pushed, Typed

\* The files that a master gets from the other: the newest stay.
LEMMA FilesCopied ==
  ASSUME IInv, NEW n \in Masters, NEW m \in Masters, pushing[n][m],
         "edited_during_push" \notin flaws
  PROVE  /\ n # m /\ \A k \in Masters : k = n \/ k = m
         /\ disk[m].time <= disk[n].time /\ disk[n].time = Latest.time
         /\ run[m].time <= disk[n].time /\ run[n].time <= disk[n].time
<1>1. FilesNewer /\ PushRight /\ NewestThere
    BY DEF IInv
<1>2. n # m /\ run[m].time <= run[n].time
    <2>1. run[m].time \in Nat /\ run[n].time \in Nat
        BY DEF IInv, Typed, Config, Nodes
    <2> QED
        BY <1>1, <2>1 DEF PushRight
<1>3. \A k \in Masters : k = n \/ k = m
    BY <1>2, Two
<1>4. /\ disk[m].time \in Nat /\ disk[n].time \in Nat
      /\ run[m].time \in Nat /\ run[n].time \in Nat
    BY DEF IInv, Typed, Config, Nodes
<1>5. /\ run[n].time <= disk[n].time
      /\ run[m].time = disk[m].time \/ disk[m].time <= disk[n].time
    BY <1>1, <1>2 DEF FilesNewer
<1>6. disk[m].time <= disk[n].time /\ run[m].time <= disk[n].time
    BY <1>2, <1>4, <1>5
<1>7. disk[n].time <= Latest.time /\ (disk[n].time = Latest.time \/ disk[m].time = Latest.time)
    BY <1>1, <1>3 DEF IInv, LatestKnown, NewestThere
<1>8. disk[n].time = Latest.time
    BY <1>4, <1>6, <1>7
<1> QED
    BY <1>2, <1>3, <1>5, <1>6, <1>8

\* A push that restarts m, with the files in d.
LEMMA RestartOk ==
  ASSUME IInv, NEW n \in Masters, NEW m \in Nodes, pushing[n][m],
         NEW d, d \in {disk, Pushed(n, m)}, RestartNode(n, m, d),
         edits' = edits, flaws' = flaws
  PROVE  IInv'
<1>1. /\ d \in [Nodes -> Config] /\ disk' = d
      /\ \A k \in Nodes : k # m => d[k] = disk[k]
    BY PushedTyped DEF IInv, Typed, RestartNode
<1>2. run' = [run EXCEPT ![m] = d[m]] /\ run' \in [Nodes -> Config]
    BY Zenon, <1>1 DEF RestartNode, Restart, IInv, Typed
<1>3. /\ pushing' \in [Masters -> [Nodes -> BOOLEAN]]
      /\ \A k \in Masters, j \in Nodes :
           pushing'[k][j] => pushing[k][j] /\ k # m /\ ~(k = n /\ j = m)
    BY Zenon DEF RestartNode
<1>4. order' \in [1 .. 2 -> Masters] /\ (m = Poller => order' = order)
    <2>1. CASE m = Poller
        BY <2>1 DEF RestartNode, Restart, IInv, Typed
    <2>2. CASE m # Poller
        BY <2>2, Two DEF RestartNode, Restart, Nodes
    <2> QED
        BY <2>1, <2>2
<1>5. Typed'
    BY Zenon, <1>1, <1>2, <1>3, <1>4 DEF IInv, Typed
<1>6. CASE m = Poller
    <2>1. \A k \in Masters : disk'[k] = disk[k] /\ run'[k] = run[k]
        BY <1>1, <1>2, <1>6, CsyncAssumption DEF Nodes, IInv, Typed
    <2>2. \A k, j \in Masters : pushing'[k][j] => pushing[k][j]
        BY <1>3 DEF Nodes
    <2> QED
        BY <1>4, <1>5, <1>6, <2>1, <2>2, MastersKept
<1>7. CASE m # Poller
    <2>1. m \in Masters /\ (d[m] = disk[m] \/ d[m] = disk[n])
        BY <1>7, PushedTyped DEF Nodes, IInv
    <2>2. Latest' = Latest
        BY DEF Latest
    <2>3. LatestKnown'
        BY <1>1, <2>1, <2>2 DEF IInv, LatestKnown, Nodes
    <2>4. ASSUME "edited_during_push" \notin flaws'
          PROVE  (FilesNewer /\ PushRight /\ NewestThere)'
        <3>1. /\ n # m /\ \A k \in Masters : k = n \/ k = m
              /\ disk[m].time <= disk[n].time /\ disk[n].time = Latest.time
              /\ run[n].time <= disk[n].time
              /\ run[n].time = disk[n].time \/ disk[n].time <= disk[m].time
            BY <2>1, <2>4, FilesCopied DEF IInv, FilesNewer
        <3>2. disk'[n] = disk[n] /\ run'[n] = run[n] /\ run'[m] = disk'[m]
            BY <1>1, <1>2, <3>1 DEF IInv, Typed, Nodes
        <3>3. /\ disk[n].time \in Nat /\ disk[m].time \in Nat
              /\ run[n].time \in Nat /\ disk'[m].time \in Nat
            BY Zenon, <2>1, <1>1 DEF IInv, Typed, Nodes, Config
        <3>4. FilesNewer'
            BY <1>1, <2>1, <3>1, <3>2, <3>3 DEF FilesNewer
        <3>5. NewestThere'
            BY <2>2, <3>1, <3>2 DEF NewestThere
        <3>6. PushRight'
            <4>1. ASSUME NEW k \in Masters, NEW j \in Masters, pushing'[k][j] PROVE FALSE
                <5>1. k = n /\ j = n /\ pushing[n][n]
                    BY <4>1, <1>3, <3>1 DEF Nodes
                <5> QED
                    BY <5>1, <2>4 DEF IInv, PushRight
            <4> QED
                BY <4>1 DEF PushRight
        <3> QED
            BY Zenon, <3>4, <3>5, <3>6
    <2> QED
        BY <1>5, <2>3, <2>4 DEF IInv
<1> QED
    BY <1>6, <1>7

\* A push that fails to restart m, with or without having copied the files.
LEMMA NotRestartedOk ==
  ASSUME IInv, NEW n \in Masters, NEW m \in Nodes, pushing[n][m],
         disk' \in {disk, Pushed(n, m)},
         pushing' = [pushing EXCEPT ![n][m] = FALSE],
         flaws \subseteq flaws', UNCHANGED <<run, order, edits>>
  PROVE  IInv'
<1>1. /\ disk' \in [Nodes -> Config]
      /\ \A k \in Nodes : k # m => disk'[k] = disk[k]
    BY PushedTyped DEF IInv, Typed
<1>2. /\ pushing' \in [Masters -> [Nodes -> BOOLEAN]]
      /\ \A k \in Masters, j \in Nodes : pushing'[k][j] => pushing[k][j]
    BY DEF IInv, Typed
<1>3. Typed'
    BY <1>1, <1>2 DEF IInv, Typed
<1>4. CASE m = Poller
    <2>1. \A k \in Masters : disk'[k] = disk[k]
        BY <1>1, <1>4, CsyncAssumption DEF Nodes
    <2>2. \A k, j \in Masters : pushing'[k][j] => pushing[k][j]
        BY <1>2 DEF Nodes
    <2> QED
        BY <1>3, <2>1, <2>2, MastersKept
<1>5. CASE m # Poller
    <2>1. m \in Masters /\ (disk'[m] = disk[m] \/ disk'[m] = disk[n])
        BY <1>5, PushedTyped DEF Nodes, IInv
    <2>2. Latest' = Latest
        BY DEF Latest
    <2>3. LatestKnown'
        BY <1>1, <2>1, <2>2 DEF IInv, LatestKnown, Nodes
    <2>4. ASSUME "edited_during_push" \notin flaws'
          PROVE  (FilesNewer /\ PushRight /\ NewestThere)'
        <3>1. FilesNewer /\ PushRight
            BY <2>4 DEF IInv
        <3>2. /\ n # m /\ \A k \in Masters : k = n \/ k = m
              /\ disk[m].time <= disk[n].time /\ disk[n].time = Latest.time
              /\ run[m].time <= disk[n].time /\ run[n].time <= disk[n].time
            BY <2>1, <2>4, FilesCopied
        <3>3. disk'[n] = disk[n]
            BY <1>1, <3>2 DEF Nodes
        <3>4. /\ disk[n].time \in Nat /\ disk[m].time \in Nat
              /\ run[n].time \in Nat /\ run[m].time \in Nat
            BY <2>1 DEF IInv, Typed, Nodes, Config
        <3>5. FilesNewer'
            BY <2>1, <3>1, <3>2, <3>3, <3>4 DEF FilesNewer
        <3>6. NewestThere'
            BY <2>2, <3>2, <3>3 DEF NewestThere
        <3>7. PushRight'
            BY <1>2, <3>1 DEF PushRight, Before, Nodes
        <3> QED
            BY <3>5, <3>6, <3>7
    <2> QED
        BY <1>3, <2>3, <2>4 DEF IInv
<1> QED
    BY <1>4, <1>5

\* A user's change is the newest configuration, and the master that has it runs
\* with it.
LEMMA EditOk ==
  ASSUME IInv, NEW n \in Masters, NEW t \in Latest.time .. Latest.time + 1, Edit(n, t)
  PROVE  IInv'
<1> DEFINE new == [cfg |-> Cardinality(edits), time |-> t]
<1>1. PICK e \in edits : \A f \in edits : f.time <= e.time
    BY DEF IInv, LatestKnown
<1>2. Latest \in edits /\ Latest.time = e.time
    BY Zenon, <1>1, LatestIs DEF Latest, IInv, Typed
<1>3. Latest.time \in Nat /\ t \in Nat /\ Latest.time <= t
    BY <1>2 DEF IInv, Typed, Config
<1>4. new \in Config /\ Cardinality(edits) \in Nat
    BY <1>3, FS_CardinalityType DEF IInv, Typed, Config
<1>5. /\ edits' = edits \cup {new}
      /\ disk' = [disk EXCEPT ![n] = new]
      /\ run' = [run EXCEPT ![n] = disk'[n]]
      /\ pushing' = [pushing EXCEPT ![n] = [k \in Nodes |-> FALSE]]
      /\ n # Poller /\ n \in Nodes
    BY CsyncAssumption DEF Edit, Restart, Nodes
<1>6. order' \in [1 .. 2 -> Masters]
    BY <1>5, Two DEF Edit, Restart
<1>7. disk' \in [Nodes -> Config] /\ run' \in [Nodes -> Config] /\ disk'[n] = new /\ run'[n] = new
    BY <1>4, <1>5 DEF IInv, Typed
<1>8. /\ pushing' \in [Masters -> [Nodes -> BOOLEAN]]
      /\ \A k \in Masters, j \in Nodes : pushing'[k][j] => pushing[k][j] /\ k # n
    BY <1>5 DEF IInv, Typed
<1>9. edits' \in SUBSET Config /\ IsFiniteSet(edits')
    BY Zenon, <1>4, <1>5, FS_AddElement DEF IInv, Typed
<1>10. Typed'
    BY <1>6, <1>7, <1>8, <1>9 DEF Typed
<1>11. new \in edits' /\ \A f \in edits' : f.time <= new.time
    <2>1. ASSUME NEW f \in edits PROVE f.time <= t
        BY <2>1, <1>1, <1>2, <1>3 DEF IInv, Typed, Config
    <2> QED
        BY <1>3, <1>5, <2>1
<1>12. Latest'.time = t
    <2>1. Latest' = CHOOSE x \in edits' : \A f \in edits' : f.time <= x.time
        BY DEF Latest
    <2> HIDE DEF new
    <2>2. Latest'.time = new.time
        BY <1>9, <1>11, <2>1, LatestIs
    <2> QED
        BY <2>2 DEF new
<1>13. \A k \in Masters : k # n => disk'[k] = disk[k] /\ run'[k] = run[k] /\ disk[k].time <= t
    <2>1. ASSUME NEW k \in Masters, k # n PROVE disk[k].time <= t
        <3>1. disk[k].time \in Nat /\ disk[k].time <= Latest.time
            BY Zenon DEF IInv, Typed, Config, Nodes, LatestKnown
        <3> QED
            BY <3>1, <1>3
    <2> QED
        BY <1>5, <2>1 DEF IInv, Typed, Nodes
<1>14. LatestKnown'
    BY <1>3, <1>7, <1>11, <1>12, <1>13 DEF LatestKnown
<1>15. ASSUME "edited_during_push" \notin flaws'
       PROVE  (FilesNewer /\ PushRight /\ NewestThere)'
    <2>1. FilesNewer /\ PushRight /\ \A k \in Masters : ~pushing[k][n]
        BY Zenon, <1>15 DEF IInv, Edit
    <2>2. FilesNewer'
        BY <1>3, <1>7, <1>13, <2>1, Two DEF FilesNewer
    <2>3. NewestThere'
        BY <1>7, <1>12 DEF NewestThere
    <2>4. PushRight'
        <3>1. ASSUME NEW k \in Masters, NEW j \in Masters, pushing'[k][j] PROVE FALSE
            <4>1. k # n /\ j # n /\ pushing[k][j]
                BY Zenon, <3>1, <1>8, <2>1 DEF Nodes
            <4>2. k = j
                BY <4>1, Two
            <4> QED
                BY <4>1, <4>2, <2>1 DEF PushRight
        <3> QED
            BY <3>1 DEF PushRight
    <2> QED
        BY Zenon, <2>2, <2>3, <2>4
<1> QED
    BY <1>10, <1>14, <1>15 DEF IInv

\* Every step keeps the invariant.
LEMMA StepOk == IInv /\ [Next]_vars => IInv'
<1> SUFFICES ASSUME IInv, [Next]_vars PROVE IInv'
    BY Zenon
<1>1. CASE UNCHANGED vars
    BY <1>1, MastersKept DEF IInv, Typed, vars
<1>2. ASSUME NEW n \in Masters, NEW m \in Nodes, HandleActive(n, m) PROVE IInv'
    BY Zenon, <1>2, ActiveOk
<1>3. ASSUME NEW n \in Masters, NEW m \in Nodes, NoticeGone(n, m) \/ Elapse(n, m) PROVE IInv'
    <2>1. UNCHANGED <<disk, run, order, pushing, edits, flaws>>
        BY <1>3 DEF NoticeGone, Elapse
    <2> QED
        BY <2>1, MastersKept DEF IInv, Typed
<1>4. ASSUME NEW n \in Masters, NEW m \in Nodes, PushDone(n, m) PROVE IInv'
    BY <1>4, RestartOk DEF PushDone
<1>5. ASSUME NEW n \in Masters, NEW m \in Nodes, PushFails(n, m) PROVE IInv'
    <2>1. CASE RestartNode(n, m, disk) /\ UNCHANGED flaws
        BY <1>5, <2>1, RestartOk DEF PushFails
    <2>2. CASE ~(RestartNode(n, m, disk) /\ UNCHANGED flaws)
        BY <1>5, <2>2, NotRestartedOk DEF PushFails
    <2> QED
        BY <2>1, <2>2
<1>6. ASSUME NEW n \in Masters, NEW t \in Latest.time .. Latest.time + 1, Edit(n, t) PROVE IInv'
    BY <1>6, EditOk
<1> QED
    BY <1>1, <1>2, <1>3, <1>4, <1>5, <1>6 DEF Next

\* The masters never push to each other at the same time, and the newest files
\* stay on one of them, unless a user changed a master while it was being pushed
\* to: for any number of changes, of failing pushes, of restarts, and with equal
\* times of the files (node_oconf_cmp, csync_node_active).
THEOREM NewestSurvives == Spec => []NewestKept
<1>1. IInv => NewestKept
    <2> SUFFICES ASSUME IInv, "edited_during_push" \notin flaws PROVE NewestKept
        BY DEF NewestKept
    <2>1. PushRight /\ NewestThere
        BY DEF IInv
    <2>2. ASSUME NEW n \in Masters, NEW m \in Masters, pushing[n][m], pushing[m][n] PROVE FALSE
        <3>1. run[n].time \in Nat /\ run[m].time \in Nat
            BY DEF IInv, Typed, Config, Nodes
        <3> QED
            BY <2>1, <2>2, <3>1 DEF PushRight, Before
    <2> QED
        BY <2>1, <2>2 DEF NewestKept, NewestThere
<1> QED
    BY <1>1, InitOk, StepOk, PTL DEF Spec

-----------------------------------------------------------------------------
(* The poller.                                                             *)

\* The masters have and run what users have made, and a hash tells which it is.
HashTells ==
  /\ \A n \in Masters : run[n] \in edits /\ disk[n] \in edits
  /\ \A e \in edits : e.cfg < Cardinality(edits)
  /\ \A e, f \in edits : e.cfg = f.cfg => e = f

\* Masters that are connected to each other run with the same configuration.
Agreed == \A n \in Masters : conn[n][Peer(n)] = "yes" => run[n].cfg = run[Peer(n)].cfg

\* A push to the poller that is not risky is the only one, and has files that are
\* not older than those the poller runs with.
PushesRight ==
  \A n \in Masters : pushing[n][Poller] /\ n \notin risky =>
    run[Poller].time <= run[n].time /\ ~pushing[Peer(n)][Poller]

PollerInv ==
  /\ conn \in [Masters -> [Nodes -> {"no", "yes", "stale"}]]
  /\ HashTells /\ Agreed /\ PushesRight

\* A step that starts and ends no process and makes no connection.
LEMMA PollerKept ==
  ASSUME PollerInv, edits' = edits, run' = run,
         \A n \in Masters : disk'[n] \in edits,
         conn' \in [Masters -> [Nodes -> {"no", "yes", "stale"}]],
         \A n \in Masters : conn'[n][Peer(n)] = "yes" => conn[n][Peer(n)] = "yes",
         \A n \in Masters : pushing'[n][Poller] =>
           pushing[n][Poller] /\ (n \in risky => n \in risky')
  PROVE  PollerInv'
<1>1. HashTells /\ Agreed /\ PushesRight
    BY Zenon DEF PollerInv
<1>2. HashTells' /\ Agreed'
    BY Zenon, <1>1 DEF HashTells, Agreed
<1>3. PushesRight'
    BY Zenon, <1>1, Two DEF PushesRight
<1> QED
    BY Zenon, <1>2, <1>3 DEF PollerInv

\* Masters that agree have files as new as the poller's, unless those are gone.
LEMMA AgreedNewest ==
  ASSUME IInv, PollerInv, ~Gone, NEW n \in Masters, conn[n][Peer(n)] = "yes"
  PROVE  run[Poller].time <= run[n].time
<1>1. run[n] = run[Peer(n)]
    BY Zenon, Two DEF PollerInv, HashTells, Agreed
<1>2. PICK k \in Masters : ~(run[k].time < run[Poller].time)
    BY Zenon DEF Gone
<1>3. run[k] = run[n]
    BY Zenon, <1>1, Two
<1>4. run[Poller].time \in Nat /\ run[n].time \in Nat
    BY Zenon DEF IInv, Typed, Config, Nodes
<1> QED
    BY <1>2, <1>3, <1>4

\* CTRL_ACTIVE: a master connects to what it expects, or starts a push.
LEMMA PollerActive ==
  ASSUME IInv, PollerInv, NEW n \in Masters, NEW m \in Nodes, HandleActive(n, m)
  PROVE  PollerInv'
<1>1. /\ disk' = disk /\ run' = run /\ edits' = edits /\ n # m
      /\ \A k \in Masters : run[k] \in edits /\ disk[k] \in edits
    BY Zenon DEF HandleActive, PollerInv, HashTells
<1>2. /\ conn \in [Masters -> [Nodes -> {"no", "yes", "stale"}]]
      /\ pushing \in [Masters -> [Nodes -> BOOLEAN]]
      /\ Poller \in Nodes /\ Poller \notin Masters /\ \A k \in Masters : Peer(k) \in Nodes
    BY Zenon, CsyncAssumption, Two DEF PollerInv, IInv, Typed, Nodes
<1>3. HashTells /\ Agreed /\ PushesRight
    BY Zenon DEF PollerInv
<1>4. CASE node_oconf_cmp(n, m) = 0
    <2>1. conn' = [conn EXCEPT ![n][m] = "yes"] /\ pushing' = pushing /\ risky' = risky
        BY Zenon, <1>4 DEF HandleActive
    <2>2. /\ conn' \in [Masters -> [Nodes -> {"no", "yes", "stale"}]]
          /\ \A k \in Masters, j \in Nodes : conn'[k][j] = conn[k][j] \/ (k = n /\ j = m)
        BY <2>1, <1>2
    <2>3. m = Peer(n) => run[n].cfg = run[m].cfg
        <3> SUFFICES ASSUME m = Peer(n) PROVE run[n].cfg = run[m].cfg
            OBVIOUS
        <3>1. m # Poller /\ m \in Masters
            BY Zenon, <1>2, Two
        <3>2. expected(n, m).cfg = run[n].cfg
            BY Zenon, <3>1 DEF expected
        <3> DEFINE x == tdelta(n, m)
        <3> HIDE DEF x
        <3>3. CASE run[m].cfg # expected(n, m).cfg
            BY <1>4, <3>3 DEF node_oconf_cmp, x
        <3> QED
            BY Zenon, <3>2, <3>3
    <2>4. Agreed'
        BY Zenon, <1>1, <1>2, <1>3, <2>2, <2>3 DEF Agreed
    <2>5. HashTells' /\ PushesRight'
        BY Zenon, <1>1, <1>3, <2>1 DEF HashTells, PushesRight
    <2> QED
        BY Zenon, <2>2, <2>4, <2>5 DEF PollerInv
<1>5. CASE node_oconf_cmp(n, m) # 0
    <2>1. conn' = [conn EXCEPT ![n][m] = "no"] /\ csync_node_active(n, m)
        BY Zenon, <1>5 DEF HandleActive
    <2>2. /\ conn' \in [Masters -> [Nodes -> {"no", "yes", "stale"}]]
          /\ \A k \in Masters : conn'[k][Peer(k)] = "yes" => conn[k][Peer(k)] = "yes"
        BY <2>1, <1>2
    <2>3. risky \subseteq risky'
        BY <2>1 DEF csync_node_active
    <2>4. CASE \A k \in Masters : pushing'[k][Poller] => pushing[k][Poller]
        BY Zenon, <2>2, <2>3, <2>4, <1>1, PollerKept
    <2>5. CASE ~ \A k \in Masters : pushing'[k][Poller] => pushing[k][Poller]
        <3>1. /\ WantsPush(n, m) /\ pushing' = [pushing EXCEPT ![n][m] = TRUE]
              /\ risky' = risky \cup Risks(n, m)
            BY Zenon, <2>1, <2>5 DEF csync_node_active
        <3>2. m = Poller /\ \A k \in Masters : pushing'[k][Poller] => k = n \/ pushing[k][Poller]
            BY <3>1, <2>5, <1>2
        <3>3. CASE pushing[Peer(n)][Poller]
            <4>1. Masters \subseteq risky'
                BY <3>1, <3>2, <3>3 DEF Risks
            <4>2. PushesRight'
                BY Zenon, <4>1 DEF PushesRight
            <4> QED
                BY Zenon, <1>1, <1>3, <2>2, <4>2 DEF PollerInv, HashTells, Agreed
        <3>4. CASE ~pushing[Peer(n)][Poller]
            <4>1. ASSUME n \notin risky' PROVE run[Poller].time <= run[n].time
                <5>1. ~(tdelta(n, m) >= 0 /\ (conn[n][Peer(n)] = "stale" \/ Gone))
                    BY <3>1, <3>2, <3>4, <4>1 DEF Risks
                <5>2. run[Poller].time \in Nat /\ run[n].time \in Nat
                    BY Zenon, <1>2 DEF IInv, Typed, Config, Nodes
                <5>3. tdelta(n, m) = run[Poller].time - run[n].time
                    BY Zenon, <3>2 DEF tdelta, expected
                <5> HIDE DEF tdelta
                <5>4. CASE tdelta(n, m) < 0
                    BY <5>2, <5>3, <5>4
                <5>5. CASE ~(tdelta(n, m) < 0)
                    <6>1. tdelta(n, m) >= 0
                        BY <5>2, <5>3, <5>5
                    <6>2. conn[n][Peer(n)] \in {"no", "yes", "stale"}
                        BY <1>2
                    <6>3. conn[n][Peer(n)] # "no"
                        BY Zenon, <3>1, <3>2, <5>5 DEF WantsPush
                    <6>4. conn[n][Peer(n)] = "yes" /\ ~Gone
                        BY Zenon, <6>1, <6>2, <6>3, <5>1
                    <6> QED
                        BY Zenon, <6>4, AgreedNewest
                <5> QED
                    BY Zenon, <5>4, <5>5
            <4>2. ASSUME NEW k \in Masters, pushing'[k][Poller], k \notin risky'
                  PROVE  run[Poller].time <= run[k].time /\ ~pushing'[Peer(k)][Poller]
                <5>1. CASE k = n
                    BY Zenon, <5>1, <4>1, <4>2, <3>2, <3>4, Two
                <5>2. CASE k # n
                    BY Zenon, <5>2, <4>2, <3>2, <3>4, Two
                <5> QED
                    BY Zenon, <5>1, <5>2
            <4>3. PushesRight'
                BY Zenon, <1>1, <4>2 DEF PushesRight
            <4> QED
                BY Zenon, <1>1, <1>3, <2>2, <4>3 DEF PollerInv, HashTells, Agreed
        <3> QED
            BY Zenon, <3>3, <3>4
    <2> QED
        BY Zenon, <2>4, <2>5
<1> QED
    BY Zenon, <1>4, <1>5

\* A new process of m has no connections, and nobody knows of it yet.
LEMMA RestartConn ==
  ASSUME PollerInv, NEW m \in Nodes, NEW d, Restart(m, d)
  PROVE  /\ conn' \in [Masters -> [Nodes -> {"no", "yes", "stale"}]]
         /\ \A k \in Masters : conn'[k][Peer(k)] = "yes" =>
              conn[k][Peer(k)] = "yes" /\ k # m /\ Peer(k) # m
<1>1. /\ conn \in [Masters -> [Nodes -> {"no", "yes", "stale"}]]
      /\ \A k \in Masters : Peer(k) \in Nodes
    BY Zenon, Two DEF PollerInv, Nodes
<1>2. conn' = [k \in Masters |-> [j \in Nodes |->
                IF k = m THEN "no"
                ELSE IF j = m /\ conn[k][j] = "yes" THEN "stale" ELSE conn[k][j]]]
    BY Zenon DEF Restart
<1> QED
    BY <1>1, <1>2

\* What the poller may go back by in a step (the two cases of the property).
Excused ==
  \/ \E n \in risky : pushing[n][Poller] /\ ~pushing'[n][Poller]
  \/ disk[Poller].time < run[Poller].time

\* A push that restarts m, with the files in d.
LEMMA PollerRestart ==
  ASSUME IInv, PollerInv, NEW n \in Masters, NEW m \in Nodes, pushing[n][m],
         NEW d, d \in {disk, Pushed(n, m)}, RestartNode(n, m, d), edits' = edits
  PROVE  PollerInv' /\ (run'[Poller].time < run[Poller].time => Excused)
<1>1. /\ conn' \in [Masters -> [Nodes -> {"no", "yes", "stale"}]]
      /\ \A k \in Masters : conn'[k][Peer(k)] = "yes" =>
           conn[k][Peer(k)] = "yes" /\ k # m /\ Peer(k) # m
    BY Zenon, RestartConn DEF RestartNode
<1>2. HashTells /\ Agreed /\ PushesRight
    BY Zenon DEF PollerInv
<1>3. /\ Poller \in Nodes /\ Poller \notin Masters /\ Masters \subseteq Nodes
      /\ \A k \in Nodes : k = Poller \/ k \in Masters
      /\ run \in [Nodes -> Config] /\ disk \in [Nodes -> Config]
    BY Zenon, CsyncAssumption DEF Nodes, IInv, Typed
<1>4. /\ d \in [Nodes -> Config] /\ disk' = d
      /\ m # Poller => d[m] \in {disk[m], disk[n]}
      /\ \A k \in Nodes : k # m => d[k] = disk[k]
    BY PushedTyped DEF IInv, Typed, RestartNode
<1>5. run' = [run EXCEPT ![m] = d[m]]
    BY Zenon DEF RestartNode, Restart
<1>6. run'[m] = d[m] /\ \A k \in Nodes : k # m => run'[k] = run[k]
    BY <1>3, <1>5
<1>7. HashTells'
    <2>1. \A k \in Masters : disk'[k] \in edits
        BY <1>2, <1>3, <1>4 DEF HashTells
    <2>2. \A k \in Masters : run'[k] \in edits
        BY Zenon, <1>2, <1>3, <1>4, <1>6, <2>1 DEF HashTells
    <2> QED
        BY Zenon, <2>1, <2>2, <1>2 DEF HashTells
<1>8. Agreed'
    BY Zenon, <1>1, <1>2, <1>3, <1>6, Two DEF Agreed
<1>9. /\ \A k \in Masters : pushing'[k][Poller] => pushing[k][Poller] /\ k # m /\ ~(k = n /\ m = Poller)
      /\ risky' = {k \in risky : pushing'[k][Poller]}
    BY Zenon, <1>3 DEF RestartNode, StillRisky
<1>10. ASSUME NEW k \in Masters, pushing'[k][Poller], k \notin risky'
       PROVE  run'[Poller].time <= run'[k].time /\ ~pushing'[Peer(k)][Poller]
    <2>1. pushing[k][Poller] /\ k # m /\ run'[k] = run[k] /\ k \notin risky
        BY Zenon, <1>3, <1>6, <1>9, <1>10
    <2>2. run[Poller].time <= run[k].time /\ ~pushing[Peer(k)][Poller]
        BY Zenon, <2>1, <1>2 DEF PushesRight
    <2>3. m # Poller
        BY Zenon, <2>2, <1>9, <1>10, Two
    <2>4. run'[Poller] = run[Poller] /\ ~pushing'[Peer(k)][Poller]
        BY Zenon, <2>2, <2>3, <1>3, <1>6, <1>9, Two
    <2> QED
        BY Zenon, <2>1, <2>2, <2>4
<1>11. PushesRight'
    BY Zenon, <1>10 DEF PushesRight
<1>12. ASSUME run'[Poller].time < run[Poller].time PROVE Excused
    <2>1. run[Poller].time \in Nat /\ run[n].time \in Nat
        BY Zenon, <1>3 DEF Config
    <2>2. m = Poller
        <3> SUFFICES ASSUME m # Poller PROVE FALSE
            OBVIOUS
        <3>1. run'[Poller] = run[Poller]
            BY Zenon, <1>3, <1>6
        <3> QED
            BY <1>12, <2>1, <3>1
    <2>3. CASE d = disk
        BY Zenon, <2>2, <2>3, <1>6, <1>12 DEF Excused
    <2>4. CASE d = Pushed(n, m)
        <3>1. run'[Poller] = expected(n, m)
            BY <2>2, <2>4, <1>3, <1>6 DEF Pushed
        <3>2. run'[Poller].time = run[n].time
            BY <3>1 DEF expected
        <3>3. ~(run[Poller].time <= run[n].time)
            BY <1>12, <2>1, <3>2
        <3>4. n \in risky /\ pushing[n][Poller] /\ ~pushing'[n][Poller]
            BY Zenon, <2>2, <3>3, <1>2, <1>9 DEF PushesRight
        <3> QED
            BY Zenon, <3>4 DEF Excused
    <2> QED
        BY Zenon, <2>3, <2>4
<1> QED
    BY Zenon, <1>1, <1>7, <1>8, <1>11, <1>12 DEF PollerInv

\* A user's change has a hash of its own.
LEMMA PollerEdit ==
  ASSUME IInv, PollerInv, NEW n \in Masters,
         NEW t \in Latest.time .. Latest.time + 1, Edit(n, t)
  PROVE  PollerInv' /\ run'[Poller] = run[Poller]
<1> DEFINE new == [cfg |-> Cardinality(edits), time |-> t]
<1>1. /\ edits' = edits \cup {new}
      /\ disk' = [disk EXCEPT ![n] = new]
      /\ run' = [run EXCEPT ![n] = disk'[n]]
      /\ pushing' = [pushing EXCEPT ![n] = [k \in Nodes |-> FALSE]]
      /\ risky' = {k \in risky : pushing'[k][Poller]}
    BY Zenon DEF Edit, Restart, StillRisky
<1>2. /\ Poller \in Nodes /\ Poller \notin Masters /\ Masters \subseteq Nodes
      /\ run \in [Nodes -> Config] /\ disk \in [Nodes -> Config]
      /\ edits \in SUBSET Config /\ IsFiniteSet(edits)
      /\ pushing \in [Masters -> [Nodes -> BOOLEAN]]
    BY Zenon, CsyncAssumption DEF Nodes, IInv, Typed
<1>3. /\ conn' \in [Masters -> [Nodes -> {"no", "yes", "stale"}]]
      /\ \A k \in Masters : conn'[k][Peer(k)] = "yes" =>
           conn[k][Peer(k)] = "yes" /\ k # n /\ Peer(k) # n
    <2>1. Restart(n, [disk EXCEPT ![n] = new]) /\ n \in Nodes
        BY Zenon, <1>2 DEF Edit
    <2> QED
        BY Zenon, <2>1, RestartConn
<1>4. /\ disk'[n] = new /\ run'[n] = new
      /\ \A k \in Nodes : k # n => run'[k] = run[k] /\ disk'[k] = disk[k]
    BY <1>1, <1>2
<1>5. run'[Poller] = run[Poller]
    BY Zenon, <1>2, <1>4
<1>6. HashTells /\ Agreed /\ PushesRight
    BY Zenon DEF PollerInv
<1>7. Cardinality(edits) \in Nat /\ Cardinality(edits') = Cardinality(edits) + 1
    <2>1. Cardinality(edits) \in Nat
        BY Zenon, <1>2, FS_CardinalityType
    <2>2. new \notin edits
        BY <2>1, <1>6 DEF HashTells
    <2> HIDE DEF new
    <2> QED
        BY Zenon, <2>1, <2>2, <1>1, <1>2, FS_AddElement
<1>8. HashTells'
    <2>1. \A k \in Masters : run'[k] \in edits' /\ disk'[k] \in edits'
        BY Zenon, <1>1, <1>2, <1>4, <1>6 DEF HashTells
    <2>2. \A e \in edits : e.cfg < Cardinality(edits) /\ e.cfg \in Nat
        BY Zenon, <1>2, <1>6 DEF HashTells, Config
    <2>3. \A e \in edits' : e.cfg < Cardinality(edits')
        BY <1>1, <1>7, <2>2
    <2>4. \A e, f \in edits' : e.cfg = f.cfg => e = f
        <3>1. \A e \in edits : e.cfg # new.cfg
            BY <1>7, <2>2
        <3>2. \A e, f \in edits : e.cfg = f.cfg => e = f
            BY Zenon, <1>6 DEF HashTells
        <3> HIDE DEF new
        <3> QED
            BY Zenon, <1>1, <3>1, <3>2
    <2> QED
        BY Zenon, <2>1, <2>3, <2>4 DEF HashTells
<1>9. Agreed'
    BY Zenon, <1>2, <1>3, <1>4, <1>6, Two DEF Agreed
<1>10. \A k \in Masters : pushing'[k][Poller] => pushing[k][Poller] /\ k # n
    BY <1>1, <1>2
<1>11. PushesRight'
    BY Zenon, <1>1, <1>2, <1>4, <1>5, <1>6, <1>10, Two DEF PushesRight
<1> QED
    BY Zenon, <1>3, <1>5, <1>8, <1>9, <1>11 DEF PollerInv

\* Every step keeps the invariant, and gives the poller older files only in the
\* named cases.
LEMMA PollerStep ==
  ASSUME IInv, PollerInv, [Next]_vars
  PROVE  PollerInv' /\ (run'[Poller].time < run[Poller].time => Excused)
<1> DEFINE NotOlder == run'[Poller].time < run[Poller].time => Excused
<1>1. run[Poller].time \in Nat
    BY DEF IInv, Typed, Config, Nodes
<1>2. run'[Poller] = run[Poller] => NotOlder
    BY <1>1
<1>3. (run'[Poller].time < run[Poller].time => Excused) => NotOlder
    BY Zenon
<1> HIDE DEF NotOlder
<1>4. /\ conn \in [Masters -> [Nodes -> {"no", "yes", "stale"}]]
      /\ \A k \in Masters : disk[k] \in edits
    BY Zenon DEF PollerInv, HashTells
<1>5. ASSUME UNCHANGED vars PROVE PollerInv' /\ NotOlder
    <2>1. /\ run' = run /\ edits' = edits /\ conn' = conn /\ pushing' = pushing
          /\ disk' = disk /\ risky' = risky
        BY <1>5 DEF vars
    <2> QED
        BY Zenon, <1>2, <1>4, <2>1, PollerKept
<1>6. ASSUME NEW n \in Masters, NEW m \in Nodes, HandleActive(n, m) PROVE PollerInv' /\ NotOlder
    BY Zenon, <1>2, <1>6, PollerActive DEF HandleActive
<1>7. ASSUME NEW n \in Masters, NEW m \in Nodes, NoticeGone(n, m) PROVE PollerInv' /\ NotOlder
    <2>1. /\ disk' = disk /\ run' = run /\ edits' = edits /\ risky' = risky /\ pushing' = pushing
          /\ conn' = [conn EXCEPT ![n][m] = "no"]
        BY Zenon, <1>7 DEF NoticeGone
    <2>2. \A k \in Masters : Peer(k) \in Nodes
        BY Zenon, Two DEF Nodes
    <2>3. /\ conn' \in [Masters -> [Nodes -> {"no", "yes", "stale"}]]
          /\ \A k \in Masters : conn'[k][Peer(k)] = "yes" => conn[k][Peer(k)] = "yes"
        BY <1>4, <2>1, <2>2
    <2> QED
        BY Zenon, <1>2, <1>4, <2>1, <2>3, PollerKept
<1>8. ASSUME NEW n \in Masters, NEW m \in Nodes, Elapse(n, m) PROVE PollerInv' /\ NotOlder
    BY Zenon, <1>2, <1>4, <1>8, PollerKept DEF Elapse
<1>9. ASSUME NEW n \in Masters, NEW m \in Nodes, PushDone(n, m) PROVE PollerInv' /\ NotOlder
    BY Zenon, <1>3, <1>9, PollerRestart DEF PushDone
<1>10. ASSUME NEW n \in Masters, NEW m \in Nodes, PushFails(n, m) PROVE PollerInv' /\ NotOlder
    <2>1. pushing[n][m] /\ edits' = edits
        BY Zenon, <1>10 DEF PushFails
    <2>2. CASE RestartNode(n, m, disk) /\ UNCHANGED flaws
        BY Zenon, <1>3, <2>1, <2>2, PollerRestart
    <2>3. CASE ~(RestartNode(n, m, disk) /\ UNCHANGED flaws)
        <3>1. /\ pushing' = [pushing EXCEPT ![n][m] = FALSE]
              /\ disk' \in {disk, Pushed(n, m)}
              /\ risky' = {k \in risky : pushing'[k][Poller]}
              /\ run' = run /\ conn' = conn
            BY Zenon, <1>10, <2>3 DEF PushFails, StillRisky
        <3>2. /\ pushing \in [Masters -> [Nodes -> BOOLEAN]] /\ Poller \in Nodes
              /\ Poller \notin Masters /\ Masters \subseteq Nodes /\ Typed
            BY Zenon, CsyncAssumption DEF IInv, Typed, Nodes
        <3>3. \A k \in Masters : pushing'[k][Poller] => pushing[k][Poller] /\ (k \in risky => k \in risky')
            BY <3>1, <3>2
        <3>4. \A k \in Masters : disk'[k] \in edits
            <4>1. CASE disk' = disk
                BY Zenon, <4>1, <1>4
            <4>2. CASE disk' = Pushed(n, m)
                <5>1. /\ m # Poller => disk'[m] = disk[n]
                      /\ \A k \in Nodes : k # m => disk'[k] = disk[k]
                    BY <4>2, <3>2, PushedTyped
                <5>2. ASSUME NEW k \in Masters PROVE disk'[k] \in edits
                    <6>1. CASE k = m
                        BY Zenon, <6>1, <5>1, <1>4, <3>2
                    <6>2. CASE k # m
                        BY Zenon, <6>2, <5>1, <1>4, <3>2
                    <6> QED
                        BY Zenon, <6>1, <6>2
                <5> QED
                    BY Zenon, <5>2
            <4> QED
                BY Zenon, <3>1, <4>1, <4>2
        <3> QED
            BY Zenon, <1>2, <1>4, <2>1, <3>1, <3>3, <3>4, PollerKept
    <2> QED
        BY Zenon, <2>2, <2>3
<1>11. ASSUME NEW n \in Masters, NEW t \in Latest.time .. Latest.time + 1, Edit(n, t)
       PROVE  PollerInv' /\ NotOlder
    BY Zenon, <1>2, <1>11, PollerEdit
<1>12. PollerInv' /\ NotOlder
    <2>1. Next \/ UNCHANGED vars
        OBVIOUS
    <2> QED
        BY Zenon, <2>1, <1>5, <1>6, <1>7, <1>8, <1>9, <1>10, <1>11 DEF Next
<1> QED
    BY Zenon, <1>12 DEF NotOlder

\* The poller never goes back to older files than it runs with, except by a push
\* that began in one of the named races (the other master pushes too; the peer
\* restarted unnoticed; no master had as new files), or by files that such a push
\* left without a restart (csync_node_active, node_oconf_cmp, cmd_push).
THEOREM PollerKeepsNewest == Spec => PollerNotRolledBack
<1>1. Init => PollerInv
    <2> SUFFICES ASSUME Init PROVE PollerInv
        OBVIOUS
    <2> DEFINE c == [cfg |-> 0, time |-> 0]
    <2>1. edits = {c} /\ c.cfg = 0 /\ c.time = 0
        BY Zenon DEF Init
    <2>2. disk = [k \in Nodes |-> c] /\ run = disk
        BY Zenon DEF Init
    <2>3. /\ conn \in [Masters -> [Nodes -> {"no", "yes", "stale"}]]
          /\ \A k \in Masters, m \in Nodes : ~pushing[k][m]
        BY DEF Init, None
    <2> HIDE DEF c
    <2>4. \A k \in Nodes : run[k] = c /\ disk[k] = c
        BY Zenon, <2>2
    <2>5. Cardinality(edits) = 1
        BY Zenon, <2>1, FS_Singleton
    <2>6. HashTells
        BY <2>1, <2>4, <2>5 DEF HashTells, Nodes
    <2>7. Agreed
        BY Zenon, <2>4, Two DEF Agreed, Nodes
    <2>8. PushesRight
        BY Zenon, <2>3 DEF PushesRight, Nodes
    <2> QED
        BY Zenon, <2>3, <2>6, <2>7, <2>8 DEF PollerInv
<1>2. IInv /\ PollerInv /\ [Next]_vars => PollerInv'
    BY Zenon, PollerStep
<1>3. IInv /\ PollerInv /\ [Next]_vars =>
        [run'[Poller].time < run[Poller].time =>
           \/ \E n \in risky : pushing[n][Poller] /\ ~pushing'[n][Poller]
           \/ disk[Poller].time < run[Poller].time]_vars
    BY Zenon, PollerStep DEF Excused
<1> QED
    BY <1>1, <1>2, <1>3, InitOk, StepOk, PTL DEF Spec, PollerNotRolledBack

-----------------------------------------------------------------------------
(* Clients are answered *)

\* The packets of the queries, wherever they are.
UnderWay == Range(events) \cup Range(to) \cup running \cup Range(back)

\* The types of what the answers depend on.
QueryTyped ==
    /\ client \in [Clients -> {"new", "open", "closed"}]
    /\ sd \in [Clients -> Sds \cup {0}]
    /\ answers \in [Clients -> Seq(Clients \cup {"error"})]
    /\ events \in Seq(Packets) /\ to \in Seq(Packets) /\ back \in Seq(Packets)
    /\ running \subseteq Packets
    /\ \A p \in running \cup Range(back) : p.kind = "runcmd"

From(S) == {p.from : p \in S}

OncePerClient(s) == \A i, j \in DOMAIN s : s[i].from = s[j].from => i = j

Apart(e, t, r, b) == e \cap (t \cup r \cup b) = {} /\ t \cap (r \cup b) = {} /\ r \cap b = {}

\* A client asks once, and its packet is in one place at a time.
OnePacket ==
    /\ OncePerClient(events) /\ OncePerClient(to) /\ OncePerClient(back)
    /\ \A p, q \in running : p.from = q.from => p = q
    /\ Apart(From(Range(events)), From(Range(to)), From(running), From(Range(back)))
    /\ \A c \in From(UnderWay) : client[c] # "new"

\* Clients that are open at a time have descriptors of their own.
OwnDescriptor ==
    /\ \A c \in Clients : client[c] = "open" => sd[c] \in Sds
    /\ \A c, d \in Clients : client[c] = "open" /\ client[d] = "open" /\ sd[c] = sd[d] => c = d

\* As long as every client waits for its answer, a runcmd under way belongs to
\* a client that waits at the descriptor it names.
Waiting ==
    ~gave_up =>
        /\ \A c \in Clients : client[c] = "new" => answers[c] = << >>
        /\ \A p \in UnderWay : p.kind = "runcmd" =>
               client[p.from] = "open" /\ sd[p.from] = p.sd /\ answers[p.from] = << >>

AnswerInv == QueryTyped /\ OnePacket /\ OwnDescriptor /\ Waiting /\ AnsweredOnce

\* A nonempty set of numbers has a least one.
LEMMA LeastOne ==
    ASSUME NEW S \in SUBSET Nat, S # {}
    PROVE  Min(S) \in S
<1>1. PICK x \in S : \A y \in S : ~(<<y, x>> \in OpToRel(<, Nat))
    BY Zenon, NatLessThanWellFounded, WFMin
<1>2. ASSUME NEW y \in S PROVE x <= y
    <2>1. x \in Nat /\ y \in Nat
        OBVIOUS
    <2>2. y < x => <<y, x>> \in OpToRel(<, Nat)
        BY <2>1 DEF OpToRel
    <2>3. ~(y < x)
        BY <1>1, <2>2, Zenon
    <2> QED
        BY <2>1, <2>3
<1> QED
    BY Zenon, <1>2 DEF Min

\* The first packet of a queue leaves it.
LEMMA FirstLeaves ==
    ASSUME NEW s \in Seq(Packets), s # << >>, OncePerClient(s)
    PROVE  /\ Head(s) \in Packets /\ Head(s) \in Range(s) /\ Tail(s) \in Seq(Packets)
           /\ Range(Tail(s)) = Range(s) \ {Head(s)}
           /\ From(Range(Tail(s))) = From(Range(s)) \ {Head(s).from}
           /\ OncePerClient(Tail(s))
<1>1. /\ Head(s) = s[1] /\ Tail(s) \in Seq(Packets) /\ 1 \in DOMAIN s
      /\ DOMAIN s = 1 .. Len(s) /\ DOMAIN Tail(s) = 1 .. Len(s) - 1 /\ Len(s) \in Nat
      /\ \A i \in DOMAIN Tail(s) : Tail(s)[i] = s[i + 1]
    OBVIOUS
<1>2. \A i \in DOMAIN s \ {1} : s[i].from # s[1].from
    BY <1>1 DEF OncePerClient
<1>3. ASSUME NEW i \in DOMAIN s \ {1} PROVE s[i] \in Range(Tail(s))
    <2>1. i - 1 \in DOMAIN Tail(s) /\ Tail(s)[i - 1] = s[i]
        BY <1>1
    <2> QED
        BY <2>1, Zenon DEF Range
<1>4. ASSUME NEW p \in Range(Tail(s)) PROVE \E i \in DOMAIN s \ {1} : p = s[i]
    <2>1. PICK i \in DOMAIN Tail(s) : p = Tail(s)[i]
        BY Zenon DEF Range
    <2>2. i + 1 \in DOMAIN s \ {1} /\ p = s[i + 1]
        BY <1>1, <2>1
    <2> QED
        BY <2>2
<1>5. Range(s) = {s[i] : i \in DOMAIN s}
    BY DEF Range
<1>6. Range(Tail(s)) = Range(s) \ {Head(s)}
    <2>1. ASSUME NEW p \in Range(Tail(s)) PROVE p \in Range(s) \ {Head(s)}
        BY <1>1, <1>2, <1>4, <1>5
    <2>2. ASSUME NEW p \in Range(s) \ {Head(s)} PROVE p \in Range(Tail(s))
        BY Zenon, <1>1, <1>3, <1>5
    <2> QED
        BY <2>1, <2>2
<1>7. From(Range(Tail(s))) = From(Range(s)) \ {Head(s).from}
    <2>1. ASSUME NEW p \in Range(Tail(s)) PROVE p \in Range(s) /\ p.from # Head(s).from
        BY Zenon, <1>1, <1>2, <1>4, <1>5
    <2>2. ASSUME NEW p \in Range(s), p.from # Head(s).from PROVE p \in Range(Tail(s))
        BY <1>6, <2>2
    <2> QED
        BY <2>1, <2>2 DEF From
<1>8. OncePerClient(Tail(s))
    BY <1>1 DEF OncePerClient
<1>9. Head(s) \in Packets /\ Head(s) \in Range(s)
    BY <1>1, <1>5
<1> QED
    BY <1>1, <1>6, <1>7, <1>8, <1>9

\* A packet joins a queue.
LEMMA LastJoins ==
    ASSUME NEW s \in Seq(Packets), NEW p \in Packets, OncePerClient(s), p.from \notin From(Range(s))
    PROVE  /\ Append(s, p) \in Seq(Packets)
           /\ Range(Append(s, p)) = Range(s) \cup {p}
           /\ From(Range(Append(s, p))) = From(Range(s)) \cup {p.from}
           /\ OncePerClient(Append(s, p))
<1>1. /\ Append(s, p) \in Seq(Packets) /\ Len(s) \in Nat
      /\ DOMAIN s = 1 .. Len(s) /\ DOMAIN Append(s, p) = 1 .. Len(s) + 1
      /\ \A i \in DOMAIN s : Append(s, p)[i] = s[i]
      /\ Append(s, p)[Len(s) + 1] = p
    OBVIOUS
<1>2. DOMAIN Append(s, p) = DOMAIN s \cup {Len(s) + 1}
    BY <1>1
<1>3. Range(Append(s, p)) = Range(s) \cup {p}
    <2> DEFINE t == Append(s, p)
               n == Len(s) + 1
    <2>1. DOMAIN t = DOMAIN s \cup {n} /\ t[n] = p /\ \A i \in DOMAIN s : t[i] = s[i]
        BY Zenon, <1>1, <1>2
    <2> HIDE DEF t, n
    <2>2. \A x : x \in Range(t) <=> x \in Range(s) \/ x = p
        BY Zenon, <2>1 DEF Range
    <2> QED
        BY Zenon, <2>2 DEF t
<1>4. From(Range(Append(s, p))) = From(Range(s)) \cup {p.from}
    BY <1>3 DEF From
<1>5. \A i \in DOMAIN s : s[i].from # p.from
    BY DEF From, Range
<1>6. OncePerClient(Append(s, p))
    BY <1>1, <1>2, <1>5 DEF OncePerClient
<1> QED
    BY Zenon, <1>1, <1>3, <1>4, <1>6

\* An empty queue holds nothing.
LEMMA NothingThere ==
    << >> \in Seq(Packets) /\ Range(<< >>) = {} /\ From({}) = {} /\ OncePerClient(<< >>)
    BY DEF Range, From, OncePerClient

\* A packet goes from one place to the next.
LEMMA GoesOn ==
    ASSUME NEW e, NEW t, NEW r, NEW b, NEW x, Apart(e, t, r, b)
    PROVE  /\ x \in e => Apart(e \ {x}, t \cup {x}, r, b)
           /\ x \in r => Apart(e, t, r \ {x}, b \cup {x})
    BY DEF Apart

\* Packets are those of clients.
LEMMA PacketsOfClients == ASSUME QueryTyped PROVE UnderWay \subseteq Packets /\ From(UnderWay) \subseteq Clients
<1>1. ASSUME NEW s \in Seq(Packets) PROVE Range(s) \subseteq Packets
    BY DEF Range
<1>2. UnderWay \subseteq Packets
    BY <1>1 DEF QueryTyped, UnderWay
<1>3. \A p \in Packets : p.from \in Clients
    BY DEF Packets
<1> QED
    BY <1>2, <1>3 DEF From

\* A step that neither opens nor closes nor answers a client keeps the invariant
\* if packets only go on or get lost, and the lost ones are noted.
LEMMA GoingOn ==
    ASSUME AnswerInv, UNCHANGED <<client, sd, answers>>, (gave_up => gave_up'),
           silent \subseteq silent', QueryTyped', OnePacket', UnderWay' \subseteq UnderWay,
           \A p \in UnderWay \ UnderWay' : p.from \in silent'
    PROVE  AnswerInv'
<1>1. OwnDescriptor'
    BY DEF AnswerInv, OwnDescriptor
<1>2. Waiting'
    BY SMTT(30), Zenon DEF AnswerInv, Waiting
<1>3. ASSUME NEW c \in Clients
      PROVE  /\ Pending(c)' => Pending(c)
             /\ Pending(c) => Pending(c)' \/ c \in silent'
             /\ Fetching(c) => Fetching(c)' \/ c \in silent'
    <2>1. Pending(c)' => Pending(c)
        BY DEF Pending, UnderWay
    <2>2. Pending(c) => Pending(c)' \/ c \in silent'
        BY DEF Pending, UnderWay
    <2>3. ASSUME NEW p \in Range(events) \cup Range(to), p.from = c, p.kind = "fetch"
          PROVE  Fetching(c)' \/ c \in silent'
        <3>1. p \in UnderWay
            BY <2>3 DEF UnderWay
        <3>2. p \in UnderWay' => p \in (Range(events) \cup Range(to))'
            BY Zenon, <2>3 DEF UnderWay, QueryTyped
        <3> QED
            BY <2>3, <3>1, <3>2 DEF Fetching
    <2> QED
        BY <2>1, <2>2, <2>3 DEF Fetching
<1>4. AnsweredOnce'
    <2> SUFFICES ASSUME ~gave_up', NEW c \in Clients
                 PROVE  /\ answers'[c] \in Seq({"error"}) \cup {<<c>>}
                        /\ answers'[c] # << >> => ~Pending(c)'
                        /\ client'[c] = "open" /\ answers'[c] = << >>
                               => Pending(c)' \/ c \in silent' \/ Fetching(c)'
        BY Zenon DEF AnsweredOnce
    <2>1. /\ answers[c] \in Seq({"error"}) \cup {<<c>>}
          /\ answers[c] # << >> => ~Pending(c)
          /\ client[c] = "open" /\ answers[c] = << >> => Pending(c) \/ c \in silent \/ Fetching(c)
        BY DEF AnswerInv, AnsweredOnce
    <2> QED
        BY <1>3, <2>1
<1> QED
    BY Zenon, <1>1, <1>2, <1>4 DEF AnswerInv

\* The kernel has a descriptor left for a client that comes.
LEMMA DescriptorLeft ==
    ASSUME AnswerInv, NEW c \in Clients, client[c] = "new"
    PROVE  FreeSd \in Sds /\ \A d \in Clients : client[d] = "open" => sd[d] # FreeSd
<1> DEFINE left == {d \in Sds : ~Open(d)}
<1>1. Cardinality(Clients) \in Nat /\ IsFiniteSet(Sds) /\ Cardinality(Sds) = Cardinality(Clients)
    BY QueriesAssumption, FS_CardinalityType, FS_Interval DEF Sds
<1>2. IsFiniteSet(Clients \ {c}) /\ Cardinality(Clients \ {c}) < Cardinality(Sds)
    <2>1. /\ IsFiniteSet(Clients \ {c})
          /\ Cardinality(Clients \ {c}) = Cardinality(Clients) - 1
        BY QueriesAssumption, FS_RemoveElement
    <2> QED
        BY <1>1, <2>1
<1>3. left # {}
    <2> SUFFICES ASSUME left = {} PROVE FALSE
        OBVIOUS
    <2>1. \A d \in Sds : \E e \in Clients \ {c} : client[e] = "open" /\ sd[e] = d
        BY DEF Open
    <2> DEFINE f == [d \in Sds |-> CHOOSE e \in Clients \ {c} : client[e] = "open" /\ sd[e] = d]
    <2>2. \A d \in Sds : f[d] \in Clients \ {c} /\ sd[f[d]] = d
        BY <2>1
    <2>3. f \in [Sds -> Clients \ {c}]
        BY <2>2
    <2> HIDE DEF f
    <2>4. \E x, y \in Sds : x # y /\ f[x] = f[y]
        BY <1>1, <1>2, <2>3, FS_PigeonHole
    <2> QED
        BY <2>2, <2>4
<1>4. left \in SUBSET Nat
    BY <1>1 DEF Sds
<1>5. FreeSd \in left
    <2>1. Min(left) \in left
        <3> HIDE DEF left
        <3> QED
            BY <1>3, <1>4, LeastOne
    <2> QED
        BY <2>1 DEF FreeSd
<1> QED
    BY <1>5 DEF Open

\* A query gets no error, one or two.
LEMMA Refused ==
    ASSUME NEW b1 \in BOOLEAN, NEW b2 \in BOOLEAN
    PROVE  Error(b1) \in Seq({"error"}) /\ (Error(b1) \o Error(b2)) \in Seq({"error"})
<1>0. << >> \in Seq({"error"}) /\ <<"error">> \in Seq({"error"})
    OBVIOUS
<1>1. Error(b1) \in Seq({"error"}) /\ Error(b2) \in Seq({"error"})
    BY Zenon, <1>0 DEF Error
<1> QED
    BY <1>1

\* The query handler takes a query.
LEMMA AskedOk == ASSUME AnswerInv, NEW c \in Clients, merlin_qh(c) PROVE AnswerInv'
<1>1. /\ client[c] = "new" /\ c \notin From(UnderWay)
      /\ client' = [client EXCEPT ![c] = "open"] /\ sd' = [sd EXCEPT ![c] = FreeSd]
      /\ UNCHANGED <<to, back, running, gave_up>>
    BY DEF merlin_qh, AnswerInv, OnePacket, remoteVars
<1>2. PICK kind \in {"runcmd", "fetch"}, errors \in Seq({"error"}), scheduled \in BOOLEAN :
          Reply(c, kind, errors, scheduled) /\ (kind = "runcmd" /\ scheduled => errors = << >>)
    <2>1. CASE remote_runcmd(c)
        <3>1. PICK parsed \in BOOLEAN : LET ok == parsed /\ node.encrypted /\ up /\ node.type # "master"
                                        IN  Reply(c, "runcmd", Error(~ok), ok)
            BY Zenon, <2>1 DEF remote_runcmd
        <3> DEFINE ok == parsed /\ node.encrypted /\ up /\ node.type # "master"
        <3>2. Reply(c, "runcmd", Error(~ok), ok) /\ ok \in BOOLEAN
            BY Zenon, <3>1
        <3>3. Error(~ok) \in Seq({"error"}) /\ (ok => Error(~ok) = << >>)
            BY Zenon, Refused DEF Error
        <3> QED
            BY Zenon, <3>2, <3>3
    <2>2. CASE remote_fetch(c)
        <3>1. \E b1, b2, s \in BOOLEAN : Reply(c, "fetch", Error(b1) \o Error(b2), s)
            BY Zenon, <2>2 DEF remote_fetch
        <3> QED
            BY Zenon, <3>1, Refused
    <2> QED
        BY <2>1, <2>2 DEF merlin_qh
<1> DEFINE p == [kind |-> kind, from |-> c, sd |-> FreeSd]
           joined == IF scheduled THEN {p} ELSE {}
<1>3. /\ FreeSd \in Sds /\ \A d \in Clients : client[d] = "open" => sd[d] # FreeSd
      /\ p \in Packets
    BY SMTT(30), Zenon, <1>1, DescriptorLeft DEF Packets
<1>4. /\ c \notin From(Range(events)) /\ c \notin From(Range(to)) /\ c \notin From(running)
      /\ c \notin From(Range(back))
    BY Zenon, <1>1 DEF From, UnderWay
<1>5. /\ events' \in Seq(Packets) /\ Range(events') = Range(events) \cup joined
      /\ From(Range(events')) = From(Range(events)) \cup From(joined)
      /\ OncePerClient(events)'
    <2>1. CASE scheduled
        <3>1. events' = Append(events, p)
            BY Zenon, <1>2, <2>1 DEF Reply
        <3>2. events \in Seq(Packets) /\ OncePerClient(events) /\ p.from \notin From(Range(events))
            BY <1>4 DEF AnswerInv, QueryTyped, OnePacket, Apart
        <3>3. joined = {p} /\ From(joined) = {p.from}
            BY SMTT(30), Zenon, <2>1 DEF From
        <3> HIDE DEF p, joined
        <3>4. /\ Append(events, p) \in Seq(Packets)
              /\ Range(Append(events, p)) = Range(events) \cup {p}
              /\ From(Range(Append(events, p))) = From(Range(events)) \cup {p.from}
              /\ OncePerClient(Append(events, p))
            BY Zenon, <1>3, <3>2, LastJoins
        <3> QED
            BY Zenon, <3>1, <3>3, <3>4
    <2>2. CASE ~scheduled
        <3>1. events' = events /\ joined = {} /\ From(joined) = {}
            BY Zenon, <1>2, <2>2, NothingThere DEF Reply
        <3> QED
            BY Zenon, <3>1 DEF AnswerInv, QueryTyped, OnePacket, Apart
    <2> QED
        BY Zenon, <2>1, <2>2
<1>6. From(joined) \subseteq {c} /\ UnderWay' = UnderWay \cup joined
    BY <1>1, <1>5 DEF From, UnderWay
<1>7. /\ answers' \in [Clients -> Seq(Clients \cup {"error"})]
      /\ \A d \in Clients \ {c} : answers'[d] = answers[d]
      /\ answers'[c] = errors
    <2>1. errors \in Seq(Clients \cup {"error"})
        OBVIOUS
    <2>2. answers' = [answers EXCEPT ![c] = errors] /\ answers \in [Clients -> Seq(Clients \cup {"error"})]
        BY Zenon, <1>2 DEF Reply, AnswerInv, QueryTyped
    <2> QED
        BY Zenon, <2>1, <2>2
<1>8. /\ client' \in [Clients -> {"new", "open", "closed"}] /\ client'[c] = "open"
      /\ sd' \in [Clients -> Sds \cup {0}] /\ sd'[c] = FreeSd
      /\ \A d \in Clients \ {c} : client'[d] = client[d] /\ sd'[d] = sd[d]
    BY <1>1, <1>3 DEF AnswerInv, QueryTyped
<1> HIDE DEF p
<1>9. QueryTyped'
    BY Zenon, <1>1, <1>5, <1>7, <1>8 DEF AnswerInv, QueryTyped
<1>10. OnePacket'
    <2>1. \A d \in From(UnderWay)' : client'[d] # "new"
        <3>1. From(UnderWay)' \subseteq From(UnderWay) \cup From(joined)
            BY Zenon, <1>6 DEF From
        <3>2. From(UnderWay) \subseteq Clients
            BY PacketsOfClients DEF AnswerInv
        <3> QED
            BY Zenon, <1>6, <1>8, <3>1, <3>2 DEF AnswerInv, OnePacket, Apart
    <2>2. From(joined) \cap From(Range(to)) = {} /\ From(joined) \cap From(running) = {}
          /\ From(joined) \cap From(Range(back)) = {}
        BY Zenon, <1>4, <1>6
    <2> HIDE DEF joined
    <2>3. Apart(From(Range(events)), From(Range(to)), From(running), From(Range(back)))'
        <3>1. Apart(From(Range(events)), From(Range(to)), From(running), From(Range(back)))
            BY Zenon DEF AnswerInv, OnePacket
        <3>2. /\ From(Range(to))' = From(Range(to)) /\ From(running)' = From(running)
              /\ From(Range(back))' = From(Range(back))
              /\ From(Range(events))' = From(Range(events)) \cup From(joined)
            BY Zenon, <1>1, <1>5
        <3> QED
            BY Zenon, <2>2, <3>1, <3>2 DEF Apart
    <2>4. /\ OncePerClient(to)' /\ OncePerClient(back)'
          /\ (\A q, r \in running : q.from = r.from => q = r)'
        BY Zenon, <1>1 DEF AnswerInv, OnePacket
    <2> QED
        BY Zenon, <1>5, <2>1, <2>3, <2>4 DEF OnePacket
<1>11. OwnDescriptor'
    BY <1>3, <1>8 DEF AnswerInv, OwnDescriptor
<1>12. Waiting'
    <2> SUFFICES ASSUME ~gave_up'
                 PROVE  /\ \A d \in Clients : client'[d] = "new" => answers'[d] = << >>
                        /\ \A q \in UnderWay' : q.kind = "runcmd" =>
                               client'[q.from] = "open" /\ sd'[q.from] = q.sd /\ answers'[q.from] = << >>
        BY DEF Waiting
    <2>1. \A d \in Clients : client[d] = "new" => answers[d] = << >>
        BY <1>1 DEF AnswerInv, Waiting
    <2>2. ASSUME NEW q \in UnderWay, q.kind = "runcmd"
          PROVE  client'[q.from] = "open" /\ sd'[q.from] = q.sd /\ answers'[q.from] = << >>
        <3>1. q.from \in Clients \ {c}
            BY Zenon, <1>1, <2>2, PacketsOfClients DEF AnswerInv, From
        <3> QED
            BY Zenon, <1>1, <1>7, <1>8, <2>2, <3>1 DEF AnswerInv, Waiting
    <2>3. ASSUME scheduled, kind = "runcmd"
          PROVE  client'[p.from] = "open" /\ sd'[p.from] = p.sd /\ answers'[p.from] = << >>
        BY Zenon, <1>1, <1>2, <1>7, <1>8, <2>1, <2>3 DEF p
    <2>4. p.kind = kind
        BY DEF p
    <2> QED
        BY Zenon, <1>6, <1>7, <1>8, <2>1, <2>2, <2>3, <2>4
<1>13. AnsweredOnce'
    <2> SUFFICES ASSUME ~gave_up', NEW d \in Clients
                 PROVE  /\ answers'[d] \in Seq({"error"}) \cup {<<d>>}
                        /\ answers'[d] # << >> => ~Pending(d)'
                        /\ client'[d] = "open" /\ answers'[d] = << >>
                               => Pending(d)' \/ d \in silent' \/ Fetching(d)'
        BY Zenon DEF AnsweredOnce
    <2>1. CASE d = c
        <3>1. answers[c] = << >>
            BY Zenon, <1>1 DEF AnswerInv, Waiting
        <3>2. answers'[c] # << >> => errors # << >>
            BY Zenon, <1>7, <3>1
        <3>3. Pending(c)' => scheduled /\ kind = "runcmd"
            <4>1. Pending(c)' => p \in joined /\ p.kind = "runcmd"
                BY <1>4, <1>6 DEF Pending, From, UnderWay
            <4> QED
                BY Zenon, <4>1 DEF p
        <3>4. scheduled => Pending(c)' \/ Fetching(c)'
            <4>1. p.from = c /\ p.kind = kind
                BY DEF p
            <4>2. scheduled => p \in Range(events')
                BY <1>5
            <4> QED
                BY <4>1, <4>2 DEF Pending, Fetching
        <3>5. ~scheduled /\ errors = << >> => c \in silent'
            BY SMTT(30), Zenon, <1>2 DEF Reply
        <3>6. answers'[c] \in Seq({"error"})
            BY Zenon, <1>2, <1>7
        <3>7. answers'[c] # << >> => ~Pending(c)'
            BY <1>2, <3>2, <3>3
        <3>8. answers'[c] = << >> => errors = << >>
            BY Zenon, <1>7
        <3>9. answers'[c] = << >> => Pending(c)' \/ c \in silent' \/ Fetching(c)'
            BY <3>4, <3>5, <3>8
        <3> QED
            BY Zenon, <2>1, <3>6, <3>7, <3>9
    <2>2. CASE d # c
        <3>1. p.from = c
            BY DEF p
        <3>2. Pending(d)' <=> Pending(d)
            BY Zenon, <1>1, <1>5, <2>2, <3>1 DEF Pending
        <3>3. Fetching(d) => Fetching(d)'
            BY <1>1, <1>5 DEF Fetching
        <3>4. silent \subseteq silent'
            BY <1>2 DEF Reply
        <3> QED
            BY Zenon, <1>1, <1>7, <1>8, <2>2, <3>2, <3>3, <3>4 DEF AnswerInv, AnsweredOnce
    <2> QED
        BY Zenon, <2>1, <2>2
<1> QED
    BY Zenon, <1>9, <1>10, <1>11, <1>12, <1>13 DEF AnswerInv

\* The timed event sends a packet, or loses it.
LEMMA SentToNode == ASSUME AnswerInv, send_runcmd_cmd PROVE AnswerInv'
<1>1. /\ events # << >> /\ events' = Tail(events)
      /\ UNCHANGED <<client, sd, answers, gave_up, running, back>>
    BY DEF send_runcmd_cmd, remoteVars
<1>2. /\ Head(events) \in Packets /\ Head(events) \in Range(events) /\ events' \in Seq(Packets)
      /\ Range(events') = Range(events) \ {Head(events)}
      /\ From(Range(events')) = From(Range(events)) \ {Head(events).from}
      /\ OncePerClient(events)'
    BY Zenon, <1>1, FirstLeaves DEF AnswerInv, QueryTyped, OnePacket, Apart
<1>3. Head(events).from \in From(Range(events))
    BY Zenon, <1>2 DEF From
<1>4. CASE to' = Append(to, Head(events)) /\ silent' = silent
    <2>1. /\ to' \in Seq(Packets) /\ Range(to') = Range(to) \cup {Head(events)}
          /\ From(Range(to')) = From(Range(to)) \cup {Head(events).from}
          /\ OncePerClient(to)'
        <3> DEFINE p == Head(events)
        <3>1. to \in Seq(Packets) /\ OncePerClient(to) /\ p \in Packets /\ p.from \notin From(Range(to))
            BY Zenon, <1>2, <1>3 DEF AnswerInv, QueryTyped, OnePacket, Apart
        <3> HIDE DEF p
        <3>2. /\ Append(to, p) \in Seq(Packets) /\ Range(Append(to, p)) = Range(to) \cup {p}
              /\ From(Range(Append(to, p))) = From(Range(to)) \cup {p.from}
              /\ OncePerClient(Append(to, p))
            BY Zenon, <3>1, LastJoins
        <3> QED
            BY <1>4, <3>2 DEF p
    <2>2. UnderWay' = UnderWay
        BY SMTT(30), Zenon, <1>1, <1>2, <2>1 DEF UnderWay
    <2>3. QueryTyped'
        BY Zenon, <1>1, <1>2, <2>1 DEF AnswerInv, QueryTyped
    <2>4. Apart(From(Range(events')), From(Range(to')), From(running'), From(Range(back')))
        <3>1. Apart(From(Range(events)), From(Range(to)), From(running), From(Range(back)))
            BY DEF AnswerInv, OnePacket
        <3>2. Apart(From(Range(events)) \ {Head(events).from},
                    From(Range(to)) \cup {Head(events).from}, From(running), From(Range(back)))
            BY Zenon, <1>3, <3>1, GoesOn
        <3> QED
            BY Zenon, <1>1, <1>2, <2>1, <3>2
    <2>5. OnePacket'
        BY Zenon, <1>1, <1>2, <2>1, <2>2, <2>4 DEF AnswerInv, OnePacket
    <2> QED
        BY Zenon, <1>1, <1>4, <2>2, <2>3, <2>5, GoingOn
<1>5. CASE to' = to /\ silent' = silent \cup {Head(events).from}
    <2>1. UnderWay' \subseteq UnderWay /\ UnderWay \ UnderWay' \subseteq {Head(events)}
        BY Zenon, <1>1, <1>2, <1>5 DEF UnderWay
    <2>2. QueryTyped'
        BY <1>1, <1>2, <1>5 DEF AnswerInv, QueryTyped
    <2>3. OnePacket'
        <3>1. From(UnderWay)' \subseteq From(UnderWay)
            BY SMTT(30), Zenon, <2>1 DEF From
        <3> QED
            BY Zenon, <1>1, <1>2, <1>5, <3>1 DEF AnswerInv, OnePacket, Apart
    <2> QED
        BY Zenon, <1>1, <1>5, <2>1, <2>2, <2>3, GoingOn
<1> QED
    BY Zenon, <1>4, <1>5 DEF send_runcmd_cmd

\* The node runs a command, or ignores it.
LEMMA CommandStarted == ASSUME AnswerInv, handle_runcmd_event PROVE AnswerInv'
<1>1. /\ to # << >> /\ to' = Tail(to) /\ Head(to).kind = "runcmd"
      /\ UNCHANGED <<client, sd, answers, gave_up, events, back>>
    BY DEF handle_runcmd_event
<1>2. /\ Head(to) \in Packets /\ Head(to) \in Range(to) /\ to' \in Seq(Packets)
      /\ Range(to') = Range(to) \ {Head(to)}
      /\ From(Range(to')) = From(Range(to)) \ {Head(to).from}
      /\ OncePerClient(to)'
    BY Zenon, <1>1, FirstLeaves DEF AnswerInv, QueryTyped, OnePacket, Apart
<1>3. Head(to).from \in From(Range(to))
    BY Zenon, <1>2 DEF From
<1>4. CASE running' = running \cup {Head(to)} /\ silent' = silent
    <2>1. From(running') = From(running) \cup {Head(to).from}
        BY <1>4 DEF From
    <2>2. UnderWay' = UnderWay
        BY Zenon, <1>1, <1>2, <1>4 DEF UnderWay
    <2>3. QueryTyped'
        BY Zenon, <1>1, <1>2, <1>4 DEF AnswerInv, QueryTyped
    <2>4. \A p, q \in running' : p.from = q.from => p = q
        <3>1. \A p \in running : p.from \in From(running)
            BY Zenon DEF From
        <3>2. Head(to).from \notin From(running)
            BY SMTT(30), Zenon, <1>3 DEF AnswerInv, OnePacket, Apart
        <3> QED
            BY <1>4, <3>1, <3>2 DEF AnswerInv, OnePacket, Apart
    <2>5. OnePacket'
        <3>1. Apart(From(Range(events)), From(Range(to)), From(running), From(Range(back)))
            BY DEF AnswerInv, OnePacket
        <3>2. From(Range(events))' = From(Range(events)) /\ From(Range(back))' = From(Range(back))
            BY <1>1
        <3>3. Apart(From(Range(events)), From(Range(to)), From(running), From(Range(back)))'
            BY Zenon, <1>2, <1>3, <2>1, <3>1, <3>2 DEF Apart
        <3>4. /\ OncePerClient(events)' /\ OncePerClient(back)'
              /\ \A c \in From(UnderWay)' : client'[c] # "new"
            BY <1>1, <2>2 DEF AnswerInv, OnePacket
        <3> QED
            BY Zenon, <1>2, <2>4, <3>3, <3>4 DEF OnePacket
    <2> QED
        BY Zenon, <1>1, <1>4, <2>2, <2>3, <2>5, GoingOn
<1>5. CASE running' = running /\ silent' = silent \cup {Head(to).from}
    <2>1. UnderWay' \subseteq UnderWay /\ UnderWay \ UnderWay' \subseteq {Head(to)}
        BY <1>1, <1>2, <1>5 DEF UnderWay
    <2>2. QueryTyped'
        BY <1>1, <1>2, <1>5 DEF AnswerInv, QueryTyped
    <2>3. OnePacket'
        <3>1. From(UnderWay)' \subseteq From(UnderWay)
            BY <2>1 DEF From
        <3> QED
            BY Zenon, <1>1, <1>2, <1>5, <3>1 DEF AnswerInv, OnePacket, Apart
    <2> QED
        BY Zenon, <1>1, <1>5, <2>1, <2>2, <2>3, GoingOn
<1> QED
    BY Zenon, <1>4, <1>5 DEF handle_runcmd_event

\* A command ends; its answer is sent, or lost.
LEMMA CommandEnded == ASSUME AnswerInv, runcmd_wproc_callback PROVE AnswerInv'
<1>1. PICK p \in running :
          /\ running' = running \ {p}
          /\ UNCHANGED <<client, sd, answers, gave_up, events, to>>
          /\ \/ back' = Append(back, p) /\ silent' = silent
             \/ back' = back /\ silent' = silent \cup {p.from}
    BY Zenon DEF runcmd_wproc_callback, Response
<1>2. p \in Packets /\ p.from \in From(running) /\ p.kind = "runcmd"
    BY DEF AnswerInv, QueryTyped, From
<1>3. From(running') = From(running) \ {p.from}
    BY Zenon, <1>1 DEF From, AnswerInv, OnePacket
<1>4. CASE back' = Append(back, p) /\ silent' = silent
    <2>1. back \in Seq(Packets) /\ OncePerClient(back) /\ p.from \notin From(Range(back))
        BY Zenon, <1>2 DEF AnswerInv, QueryTyped, OnePacket, Apart
    <2>2. /\ back' \in Seq(Packets) /\ Range(back') = Range(back) \cup {p}
          /\ From(Range(back')) = From(Range(back)) \cup {p.from}
          /\ OncePerClient(back)'
        BY Zenon, <1>2, <1>4, <2>1, LastJoins
    <2>3. UnderWay' = UnderWay
        BY Zenon, <1>1, <2>2 DEF UnderWay
    <2>4. QueryTyped'
        BY <1>1, <1>2, <2>2 DEF AnswerInv, QueryTyped
    <2>5. Apart(From(Range(events')), From(Range(to')), From(running'), From(Range(back')))
        <3>1. Apart(From(Range(events)), From(Range(to)), From(running), From(Range(back)))
            BY DEF AnswerInv, OnePacket
        <3>2. Apart(From(Range(events)), From(Range(to)), From(running) \ {p.from},
                    From(Range(back)) \cup {p.from})
            BY Zenon, <1>2, <3>1, GoesOn
        <3> QED
            BY Zenon, <1>1, <1>3, <2>2, <3>2
    <2>6. OnePacket'
        BY Zenon, <1>1, <2>2, <2>3, <2>5 DEF AnswerInv, OnePacket
    <2> QED
        BY Zenon, <1>1, <1>4, <2>3, <2>4, <2>6, GoingOn
<1>5. CASE back' = back /\ silent' = silent \cup {p.from}
    <2>1. UnderWay' \subseteq UnderWay /\ UnderWay \ UnderWay' \subseteq {p}
        BY SMTT(30), Zenon, <1>1, <1>5 DEF UnderWay
    <2>2. QueryTyped'
        BY <1>1, <1>5 DEF AnswerInv, QueryTyped
    <2>3. OnePacket'
        <3>1. From(UnderWay)' \subseteq From(UnderWay)
            BY <2>1 DEF From
        <3> QED
            BY Zenon, <1>1, <1>3, <1>5, <3>1 DEF AnswerInv, OnePacket, Apart
    <2> QED
        BY SMTT(30), Zenon, <1>1, <1>5, <2>1, <2>2, <2>3, GoingOn
<1> QED
    BY SMTT(30), Zenon, <1>1, <1>4, <1>5

\* The answer of a command is printed to the client that waits for it.
LEMMA AnswerPrinted == ASSUME AnswerInv, runcmd_callback PROVE AnswerInv'
<1> DEFINE p == Head(back)
<1>1. /\ back # << >> /\ back' = Tail(back)
      /\ answers' = [c \in Clients |->
             IF client[c] = "open" /\ sd[c] = p.sd THEN Append(answers[c], p.from) ELSE answers[c]]
      /\ UNCHANGED <<client, sd, events, to, running, silent, gave_up>>
    BY Zenon DEF runcmd_callback, remoteVars
<1>2. /\ p \in Packets /\ p \in Range(back) /\ back' \in Seq(Packets)
      /\ Range(back') = Range(back) \ {p}
      /\ From(Range(back')) = From(Range(back)) \ {p.from}
      /\ OncePerClient(back)'
    BY Zenon, <1>1, FirstLeaves DEF AnswerInv, QueryTyped, OnePacket
<1>3. p.kind = "runcmd" /\ p.from \in Clients /\ p \in UnderWay
    BY ZenonT(30), <1>2 DEF AnswerInv, QueryTyped, Packets, UnderWay
<1> HIDE DEF p
<1>4. UnderWay' \subseteq UnderWay /\ UnderWay \ {p} \subseteq UnderWay' /\ p.from \notin From(UnderWay')
    <2>1. UnderWay' \subseteq UnderWay /\ UnderWay \ {p} \subseteq UnderWay'
        BY Zenon, <1>1, <1>2 DEF UnderWay
    <2>2. p.from \in From(Range(back))
        BY Zenon, <1>2 DEF From
    <2>3. /\ p.from \notin From(Range(events)) /\ p.from \notin From(Range(to))
          /\ p.from \notin From(running) /\ p.from \notin From(Range(back'))
        BY Zenon, <1>2, <2>2 DEF AnswerInv, OnePacket, Apart
    <2> QED
        BY Zenon, <1>1, <2>1, <2>3 DEF From, UnderWay
<1>5. QueryTyped'
    <2>1. answers' \in [Clients -> Seq(Clients \cup {"error"})]
        BY <1>1, <1>3 DEF AnswerInv, QueryTyped
    <2> QED
        BY SMTT(30), Zenon, <1>1, <1>2, <2>1 DEF AnswerInv, QueryTyped
<1>6. OnePacket'
    <2>1. From(UnderWay') \subseteq From(UnderWay)
        BY <1>4 DEF From
    <2> QED
        BY Zenon, <1>1, <1>2, <2>1 DEF AnswerInv, OnePacket, Apart
<1>7. OwnDescriptor'
    BY Zenon, <1>1 DEF AnswerInv, OwnDescriptor
<1>8. ASSUME ~gave_up
      PROVE  /\ client[p.from] = "open" /\ sd[p.from] = p.sd /\ answers[p.from] = << >>
             /\ answers'[p.from] = <<p.from>>
             /\ \A c \in Clients \ {p.from} : answers'[c] = answers[c]
    <2>1. client[p.from] = "open" /\ sd[p.from] = p.sd /\ answers[p.from] = << >>
        BY Zenon, <1>3, <1>8 DEF AnswerInv, Waiting
    <2>2. \A c \in Clients \ {p.from} : ~(client[c] = "open" /\ sd[c] = p.sd)
        BY <1>3, <2>1 DEF AnswerInv, OwnDescriptor
    <2>3. Append(<< >>, p.from) = <<p.from>>
        BY SMTT(30), Zenon
    <2> QED
        BY Zenon, <1>1, <1>3, <2>1, <2>2, <2>3
<1>9. Waiting'
    <2> SUFFICES ASSUME ~gave_up
                 PROVE  /\ \A d \in Clients : client[d] = "new" => answers'[d] = << >>
                        /\ \A q \in UnderWay' : q.kind = "runcmd" =>
                               client[q.from] = "open" /\ sd[q.from] = q.sd /\ answers'[q.from] = << >>
        BY <1>1 DEF Waiting
    <2>1. ASSUME NEW q \in UnderWay' PROVE q \in UnderWay /\ q.from \in Clients \ {p.from}
        BY Zenon, <1>4, PacketsOfClients DEF AnswerInv, From
    <2> QED
        BY Zenon, <1>8, <2>1 DEF AnswerInv, Waiting
<1>10. AnsweredOnce'
    <2> SUFFICES ASSUME ~gave_up, NEW d \in Clients
                 PROVE  /\ answers'[d] \in Seq({"error"}) \cup {<<d>>}
                        /\ answers'[d] # << >> => ~Pending(d)'
                        /\ client'[d] = "open" /\ answers'[d] = << >>
                               => Pending(d)' \/ d \in silent' \/ Fetching(d)'
        BY ZenonT(30), <1>1 DEF AnsweredOnce
    <2>1. CASE d = p.from
        <3>1. ~Pending(d)'
            BY SMTT(30), Zenon, <1>4, <2>1 DEF Pending, UnderWay, From
        <3>2. answers'[d] = <<d>> /\ <<d>> # << >>
            BY <1>8, <2>1
        <3> QED
            BY Zenon, <3>1, <3>2
    <2>2. CASE d # p.from
        <3>1. Pending(d)' <=> Pending(d)
            BY <1>4, <2>2 DEF Pending, UnderWay
        <3>2. Fetching(d)' <=> Fetching(d)
            BY Zenon, <1>1 DEF Fetching
        <3> QED
            BY Zenon, <1>1, <1>8, <2>2, <3>1, <3>2 DEF AnswerInv, AnsweredOnce
    <2> QED
        BY <2>1, <2>2
<1> QED
    BY Zenon, <1>5, <1>6, <1>7, <1>9, <1>10 DEF AnswerInv

\* A client leaves.
LEMMA ClientLeaves == ASSUME AnswerInv, NEW c \in Clients, Close(c) PROVE AnswerInv'
<1>1. /\ client[c] = "open" /\ client' = [client EXCEPT ![c] = "closed"]
      /\ UNCHANGED <<sd, answers, events, to, back, running, silent>>
      /\ ~gave_up' => ~gave_up /\ answers[c] # << >>
    BY Zenon DEF Close, remoteVars
<1>2. client' \in [Clients -> {"new", "open", "closed"}] /\ client'[c] = "closed"
      /\ \A d \in Clients \ {c} : client'[d] = client[d]
    BY <1>1 DEF AnswerInv, QueryTyped
<1>3. UnderWay' = UnderWay
    BY Zenon, <1>1 DEF UnderWay
<1>4. QueryTyped'
    BY <1>1, <1>2 DEF AnswerInv, QueryTyped
<1>5. OnePacket'
    <2>1. \A d \in From(UnderWay') : client'[d] # "new"
        BY Zenon, <1>2, <1>3, PacketsOfClients DEF AnswerInv, OnePacket
    <2> QED
        BY Zenon, <1>1, <2>1 DEF AnswerInv, OnePacket
<1>6. OwnDescriptor'
    BY <1>1, <1>2 DEF AnswerInv, OwnDescriptor
<1>7. Waiting'
    <2> SUFFICES ASSUME ~gave_up'
                 PROVE  /\ \A d \in Clients : client'[d] = "new" => answers[d] = << >>
                        /\ \A q \in UnderWay : q.kind = "runcmd" =>
                               client'[q.from] = "open" /\ sd[q.from] = q.sd /\ answers[q.from] = << >>
        BY <1>1, <1>3 DEF Waiting
    <2>1. \A q \in UnderWay : q.from \in Clients
        BY PacketsOfClients DEF AnswerInv, From
    <2> QED
        BY Zenon, <1>1, <1>2, <2>1 DEF AnswerInv, Waiting
<1>8. AnsweredOnce'
    <2>1. \A d \in Clients : (Pending(d)' <=> Pending(d)) /\ (Fetching(d)' <=> Fetching(d))
        BY Zenon, <1>1 DEF Pending, Fetching
    <2>2. \A d \in Clients : client'[d] = "open" => client[d] = "open"
        BY <1>2
    <2> QED
        BY Zenon, <1>1, <2>1, <2>2 DEF AnswerInv, AnsweredOnce
<1> QED
    BY SMTT(30), Zenon, <1>4, <1>5, <1>6, <1>7, <1>8 DEF AnswerInv

\* The connection breaks, perhaps with one of the processes.
LEMMA ConnectionBreaks ==
    ASSUME AnswerInv, to' = << >>, back' = << >>, events' = events, running' \in SUBSET running,
           silent' = silent \cup Under_way \cup From(running \ running'),
           UNCHANGED <<client, sd, answers>>, (gave_up => gave_up')
    PROVE  AnswerInv'
<1>1. /\ to' \in Seq(Packets) /\ back' \in Seq(Packets) /\ Range(to') = {} /\ Range(back') = {}
      /\ From(Range(to')) = {} /\ From(Range(back')) = {}
      /\ OncePerClient(to)' /\ OncePerClient(back)'
    BY Zenon, NothingThere
<1>2. UnderWay' \subseteq UnderWay
    BY <1>1 DEF UnderWay
<1>3. \A p \in UnderWay \ UnderWay' : p.from \in silent'
    BY Zenon DEF UnderWay, Under_way, From
<1>4. QueryTyped'
    BY SMTT(30), Zenon, <1>1 DEF AnswerInv, QueryTyped
<1>5. OnePacket'
    <2>1. From(UnderWay') \subseteq From(UnderWay) /\ From(running') \subseteq From(running)
        BY Zenon, <1>2 DEF From
    <2> QED
        BY Zenon, <1>1, <2>1 DEF AnswerInv, OnePacket, Apart
<1> QED
    BY Zenon, <1>2, <1>3, <1>4, <1>5, GoingOn

\* This node restarts, and all clients and packets here are gone.
LEMMA NodeRestarts == ASSUME AnswerInv, Reconfigure PROVE AnswerInv'
<1>1. /\ to' = << >> /\ back' = << >> /\ events' = << >>
      /\ client' = [c \in Clients |-> IF client[c] = "open" THEN "closed" ELSE client[c]]
      /\ UNCHANGED <<sd, answers, running>>
      /\ ~gave_up' => ~gave_up /\ running = {}
    BY Zenon DEF Reconfigure, Broken, remoteVars
<1>2. /\ to' \in Seq(Packets) /\ back' \in Seq(Packets) /\ events' \in Seq(Packets)
      /\ Range(to') = {} /\ Range(back') = {} /\ Range(events') = {}
      /\ From(Range(to')) = {} /\ From(Range(back')) = {} /\ From(Range(events')) = {}
      /\ OncePerClient(to)' /\ OncePerClient(back)' /\ OncePerClient(events)'
    BY Zenon, <1>1, NothingThere
<1>3. UnderWay' = running /\ UnderWay' \subseteq UnderWay
    BY SMTT(30), Zenon, <1>1, <1>2 DEF UnderWay
<1>4. /\ client' \in [Clients -> {"new", "open", "closed"}]
      /\ \A c \in Clients : client'[c] # "open" /\ (client'[c] = "new" <=> client[c] = "new")
    BY Zenon, <1>1 DEF AnswerInv, QueryTyped
<1>5. QueryTyped'
    BY SMTT(30), Zenon, <1>1, <1>2, <1>4 DEF AnswerInv, QueryTyped
<1>6. OnePacket'
    <2>1. From(UnderWay') \subseteq From(UnderWay) /\ From(UnderWay) \subseteq Clients
        BY <1>3, PacketsOfClients DEF AnswerInv, From
    <2> QED
        BY Zenon, <1>1, <1>2, <1>4, <2>1 DEF AnswerInv, OnePacket, Apart
<1>7. OwnDescriptor'
    BY Zenon, <1>4 DEF OwnDescriptor
<1>8. Waiting'
    BY <1>1, <1>3, <1>4 DEF AnswerInv, Waiting
<1>9. AnsweredOnce'
    <2>1. \A c \in Clients : Pending(c)' => Pending(c)
        BY Zenon, <1>3 DEF Pending, UnderWay
    <2> QED
        BY Zenon, <1>1, <1>4, <2>1 DEF AnswerInv, AnsweredOnce
<1> QED
    BY <1>5, <1>6, <1>7, <1>8, <1>9 DEF AnswerInv

\* The node is told to fetch: it starts a command, or ignores it, or goes down.
LEMMA FetchTold == ASSUME AnswerInv, csync_fetch PROVE AnswerInv'
<1>1. CASE /\ RemoteGone /\ gave_up' = gave_up
           /\ UNCHANGED <<client, sd, answers, events>>
    BY Zenon, <1>1, ConnectionBreaks DEF RemoteGone, Broken, From
<1>2. CASE /\ to # << >> /\ to' = Tail(to) /\ silent' = silent \cup {Head(to).from}
           /\ UNCHANGED <<client, sd, answers, events, back, running, gave_up>>
    <2>1. /\ to' \in Seq(Packets) /\ Range(to') = Range(to) \ {Head(to)}
          /\ From(Range(to')) = From(Range(to)) \ {Head(to).from}
          /\ OncePerClient(to)'
        BY Zenon, <1>2, FirstLeaves DEF AnswerInv, QueryTyped, OnePacket
    <2>2. UnderWay' \subseteq UnderWay /\ UnderWay \ UnderWay' \subseteq {Head(to)}
        BY Zenon, <1>2, <2>1 DEF UnderWay
    <2>3. QueryTyped'
        BY <1>2, <2>1 DEF AnswerInv, QueryTyped
    <2>4. OnePacket'
        <3>1. From(UnderWay') \subseteq From(UnderWay)
            BY <2>2 DEF From
        <3> QED
            BY Zenon, <1>2, <2>1, <3>1 DEF AnswerInv, OnePacket, Apart
    <2> QED
        BY <1>2, <2>2, <2>3, <2>4, GoingOn
<1> QED
    BY Zenon, <1>1, <1>2 DEF csync_fetch

\* What does not touch the packets keeps the invariant.
LEMMA NothingMoves ==
    ASSUME AnswerInv, UNCHANGED <<client, sd, answers, events, to, back, running, silent>>,
           (gave_up => gave_up')
    PROVE  AnswerInv'
<1>1. UnderWay' = UnderWay
    BY DEF UnderWay
<1>2. QueryTyped'
    BY Zenon DEF AnswerInv, QueryTyped
<1>3. OnePacket'
    BY Zenon, <1>1 DEF AnswerInv, OnePacket
<1> QED
    BY <1>1, <1>2, <1>3, GoingOn

\* A fetch ends.
LEMMA FetchEnds == ASSUME AnswerInv, NEW c \in Clients, EndFetch(c) PROVE AnswerInv'
<1>1. RemoteGone /\ UNCHANGED <<client, sd, answers, events, gave_up>>
    BY Zenon DEF EndFetch
<1> QED
    BY Zenon, <1>1, ConnectionBreaks DEF RemoteGone, Broken, From

\* Every step keeps the invariant.
LEMMA AnswerStep == ASSUME AnswerInv, [QueryNext]_queryVars PROVE AnswerInv'
<1>1. ASSUME Disconnect PROVE AnswerInv'
    BY Zenon, <1>1, ConnectionBreaks DEF Disconnect, Broken, remoteVars, From
<1>2. ASSUME \/ Connect \/ UNCHANGED queryVars
             \/ \E c \in Clients : ReadFile(c) \/ PlaceFile(c) \/ FailFetch(c)
      PROVE  AnswerInv'
    <2>1. UNCHANGED <<client, sd, answers, events, to, back, running, silent, gave_up>>
        BY Zenon, <1>2 DEF Connect, ReadFile, PlaceFile, FailFetch, FetchElse, queryVars, remoteVars
    <2> QED
        BY <2>1, NothingMoves
<1> QED
    BY Zenon, <1>1, <1>2, AskedOk, ClientLeaves, SentToNode, AnswerPrinted, NodeRestarts,
       CommandStarted, CommandEnded, FetchTold, FetchEnds DEF QueryNext

\* A client of runcmd sees one answer, that of its own command, and waits in vain
\* only if a packet was lost or the node refused (queries.c runcmd_callback,
\* runcmd.c runcmd_wproc_callback), for any number of clients.
THEOREM OwnAnswers == QuerySpec => []AnsweredOnce
<1>1. QueryInit => AnswerInv
    <2> SUFFICES ASSUME QueryInit PROVE AnswerInv
        OBVIOUS
    <2>1. /\ UnderWay = {} /\ From(UnderWay) = {} /\ From(running) = {}
          /\ Range(events) = {} /\ Range(to) = {} /\ Range(back) = {}
        BY Zenon, NothingThere DEF QueryInit, UnderWay
    <2>2. QueryTyped
        BY <2>1, NothingThere DEF QueryInit, QueryTyped
    <2>3. OnePacket
        BY Zenon, <2>1, NothingThere DEF QueryInit, OnePacket, Apart
    <2>4. OwnDescriptor /\ Waiting
        BY Zenon, <2>1 DEF QueryInit, OwnDescriptor, Waiting
    <2>5. AnsweredOnce
        BY <2>1 DEF QueryInit, AnsweredOnce, Pending, UnderWay
    <2> QED
        BY <2>2, <2>3, <2>4, <2>5 DEF AnswerInv
<1>2. AnswerInv /\ [QueryNext]_queryVars => AnswerInv'
    BY AnswerStep
<1>3. AnswerInv => AnsweredOnce
    BY DEF AnswerInv
<1> QED
    BY <1>1, <1>2, <1>3, PTL DEF QuerySpec

-----------------------------------------------------------------------------
(* Nothing older is loaded *)

\* A fetch that runs was started after the node had loaded what it has, and has
\* read a file that is not older.
FetchInv ==
    /\ file \in Nat /\ copy \in Nat /\ loaded \in Nat /\ loaded <= copy /\ copy <= file
    /\ fetch \in [Clients -> Stages] /\ version \in [Clients -> Nat]
    /\ \A c \in Clients : fetch[c] = "read" => loaded <= version[c] /\ version[c] <= file

\* A restart ends all fetches.
LEMMA FetchesEnd == ASSUME FetchInv, RemoteGone, UNCHANGED <<file, copy>> PROVE FetchInv' /\ loaded' >= loaded
<1>1. /\ fetch' = [c \in Clients |-> "none"] /\ version' = [c \in Clients |-> 0]
      /\ loaded' = copy
    BY Zenon DEF RemoteGone
<1> QED
    BY <1>1 DEF FetchInv, Stages

\* Every step keeps the invariant and loads nothing older.
LEMMA FetchStep == ASSUME FetchInv, [QueryNext]_queryVars PROVE FetchInv' /\ loaded' >= loaded
<1>1. CASE \/ \E c \in Clients : merlin_qh(c) \/ Close(c)
           \/ send_runcmd_cmd \/ runcmd_callback \/ Disconnect \/ Connect \/ Reconfigure
           \/ handle_runcmd_event \/ runcmd_wproc_callback \/ UNCHANGED queryVars
    <2>1. UNCHANGED <<fetch, version, copy, loaded>> /\ file' \in {file, file + 1}
        BY Zenon, <1>1 DEF merlin_qh, Close, send_runcmd_cmd, runcmd_callback, Disconnect, Connect,
                    Reconfigure, handle_runcmd_event, runcmd_wproc_callback, queryVars, remoteVars,
                    fetchVars
    <2> QED
        BY <2>1 DEF FetchInv
<1>2. CASE csync_fetch
    <2>1. UNCHANGED <<file, copy>>
        BY Zenon, <1>2 DEF csync_fetch
    <2>2. CASE RemoteGone
        BY <2>1, <2>2, FetchesEnd
    <2>3. CASE /\ UNCHANGED <<version, loaded>> /\ to # << >>
               /\ fetch' = IF node.fetch THEN [fetch EXCEPT ![Head(to).from] = "started"] ELSE fetch
        <3>1. fetch' \in [Clients -> Stages] /\ \A c \in Clients : fetch'[c] = "read" => fetch[c] = "read"
            BY Zenon, <2>3 DEF FetchInv, Stages
        <3> QED
            BY <2>1, <2>3, <3>1 DEF FetchInv
    <2> QED
        BY Zenon, <1>2, <2>2, <2>3 DEF csync_fetch
<1>3. ASSUME NEW c \in Clients, ReadFile(c) PROVE FetchInv' /\ loaded' >= loaded
    BY <1>3 DEF ReadFile, FetchElse, FetchInv, Stages
<1>4. ASSUME NEW c \in Clients, PlaceFile(c) PROVE FetchInv' /\ loaded' >= loaded
    BY <1>4 DEF PlaceFile, FetchElse, FetchInv, Stages
<1>5. ASSUME NEW c \in Clients, FailFetch(c) PROVE FetchInv' /\ loaded' >= loaded
    BY <1>5 DEF FailFetch, FetchElse, FetchInv, Stages
<1>6. ASSUME NEW c \in Clients, EndFetch(c) PROVE FetchInv' /\ loaded' >= loaded
    BY Zenon, <1>6, FetchesEnd DEF EndFetch
<1> QED
    BY Zenon, <1>1, <1>2, <1>3, <1>4, <1>5, <1>6 DEF QueryNext

\* The node never loads an older configuration than the one it has loaded, although
\* csync_fetch starts fetches while others run (script-helpers.c csync_fetch,
\* oconf.py cmd_fetch), for any number of clients, requests and changes.
THEOREM NothingOlderLoaded == QuerySpec => NeverRolledBack
<1>1. QueryInit => FetchInv
    BY DEF QueryInit, FetchInv, Stages
<1>2. FetchInv /\ [QueryNext]_queryVars => FetchInv'
    BY FetchStep
<1>3. FetchInv /\ [QueryNext]_queryVars => [loaded' >= loaded]_queryVars
    BY FetchStep
<1> QED
    BY <1>1, <1>2, <1>3, PTL DEF QuerySpec, NeverRolledBack
=============================================================================
