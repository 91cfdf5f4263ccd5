-------------------------- MODULE PoolDriverProofs --------------------------
(***************************************************************************)
(* Proofs about PoolDriver, for any classes, caps, streams and number of   *)
(* circuits: every step keeps the invariant of PoolLemmas.                 *)
(***************************************************************************)
EXTENDS PoolSteps

-----------------------------------------------------------------------------
(* Circuits come to the pool and leave it.                                  *)

\* record_built.
LEMMA BuiltSteps ==
    ASSUME Inv, NEW t \in Tasks, Built(t)
    PROVE  Inv'
<1> USE DEF Inv
<1> DEFINE c == build[t].class
           id0 == build[t].id
           es == entries[c]
           f == FirstBuilding(es)
           new == RecordBuilt(es, id0)
<1>1. /\ build[t].pc = "record" /\ f > 0
      /\ entries' = [entries EXCEPT ![c] = new]
      /\ idIndex' = [idIndex EXCEPT ![c] = @ \cup {id0}]
      /\ ringing' = TRUE /\ build' = [build EXCEPT ![t] = NoBuild]
      /\ UNCHANGED driverVars
  BY Zenon DEF Built, Rings
<1>2. stream' = stream
  BY Zenon DEF Built
<1>3. /\ entries \in [Classes -> Seq(Entry)] /\ c \in Classes /\ es \in Seq(Entry)
      /\ idIndex \in [Classes -> SUBSET Ids] /\ stream \in [Streams -> StreamRec]
  BY Zenon DEF Typed, TypeOK, StreamRec
<1>4. /\ id0 \in Ids /\ id0 < nextId /\ registry[id0] > 0
      /\ ~Has(entries, id0) /\ id0 \notin todo.retire /\ Users(id0) = {}
  BY Zenon, <1>1 DEF Issued
<1>5. id0 \in Nat /\ id0 # NoId
  BY <1>4, DriverAssumption DEF Ids, NoId
<1>7. /\ Updated(new, es, f)
      /\ new[f].id = id0 /\ new[f].state = "Healthy" /\ new[f].streams = es[f].pending
      /\ es[f].state = "Building" /\ es[f].id = NoId
      /\ Count(new, "Building") = Count(es, "Building") - 1
  BY <1>1, <1>3, <1>5, RecordBuiltIs, Zenon
<1> HIDE DEF new, f
<1>8. /\ new \in Seq(Entry) /\ Len(new) = Len(es) /\ f \in 1..Len(es)
      /\ \A j \in 1..Len(es) : j # f => new[j] = es[j]
  BY Zenon, <1>7 DEF Updated
<1>9. /\ entries' \in [Classes -> Seq(Entry)] /\ entries'[c] = new
      /\ \A d \in Classes : d # c => entries'[d] = entries[d]
  BY <1>1, <1>3, <1>8
<1>10. /\ idIndex' \in [Classes -> SUBSET Ids] /\ idIndex'[c] = idIndex[c] \cup {id0}
       /\ \A d \in Classes : d # c => idIndex'[d] = idIndex[d]
  BY <1>1, <1>3, <1>4
<1>11. stream' \in [Streams -> StreamRec]
  BY Zenon, <1>2, <1>3
<1>12. /\ todo' = todo /\ nextId' = nextId /\ registry' = registry
       /\ hopsUp' = hopsUp /\ draining' = draining
  BY Zenon, <1>1 DEF driverVars
<1>13. /\ build' \in [Tasks -> BuildRec]
       /\ \A u \in Tasks : build'[u].pc = "record" =>
             u # t /\ build[u].pc = "record" /\ build'[u].id = build[u].id
       /\ \A u \in Tasks : build'[u].hops = build[u].hops
       /\ HopsWhileBuilding'
       /\ \A d \in Classes : Cardinality(InFlight(d)') =
             IF d = c THEN Cardinality(InFlight(d)) - 1 ELSE Cardinality(InFlight(d))
  BY Zenon, <1>1, Freed
<1> HIDE DEF c, id0
<1>14. \A d \in Classes : \A j \in 1..Len(entries[d]) : entries[d][j].id # id0
  BY Zenon, <1>4 DEF Has
<1>15. \A id : Users(id)' = Users(id)
  BY Zenon, <1>2 DEF Users, At
<1>16. Typed'
  BY <1>1, <1>9, <1>10, <1>11, <1>12, <1>13 DEF Typed, TypeOK, StreamRec, BuildRec
\* An entry after the step is the new one, or was there before.
<1>17. ASSUME NEW d \in Classes, NEW j \in 1..Len(entries'[d])
       PROVE  \/ d = c /\ j = f /\ entries'[d][j] = new[f]
              \/ /\ ~(d = c /\ j = f)
                 /\ j \in 1..Len(entries[d]) /\ entries'[d][j] = entries[d][j]
  <2>1. CASE d = c
    BY <1>8, <1>9, <2>1
  <2>2. CASE d # c
    BY <1>9, <2>2
  <2> QED  BY <2>1, <2>2
<1>18. Distinct(entries')
  <2>1. ASSUME NEW d \in Classes, NEW j \in 1..Len(entries'[d])
        PROVE  /\ entries'[d][j].id \in Ids \cup {NoId}
               /\ entries'[d][j].id = NoId <=> entries'[d][j].state = "Building"
    <3>1. CASE entries'[d][j] = new[f]
      BY <1>4, <1>5, <1>7, <3>1 DEF id0
    <3>2. CASE j \in 1..Len(entries[d]) /\ entries'[d][j] = entries[d][j]
      BY <3>2 DEF Distinct
    <3> QED  BY Zenon, <1>17, <3>1, <3>2
  <2>2. ASSUME NEW d \in Classes, NEW e \in Classes,
               NEW j \in 1..Len(entries'[d]), NEW k \in 1..Len(entries'[e]),
               entries'[d][j].id = entries'[e][k].id, entries'[d][j].id # NoId
        PROVE  d = e /\ j = k
    <3>1. CASE (d = c /\ j = f) /\ (e = c /\ k = f)
      BY <3>1
    <3>2. CASE ~(d = c /\ j = f) /\ ~(e = c /\ k = f)
      <4>1. /\ j \in 1..Len(entries[d]) /\ entries'[d][j] = entries[d][j]
            /\ k \in 1..Len(entries[e]) /\ entries'[e][k] = entries[e][k]
        BY <1>17, <3>2
      <4>2. entries[d][j].id = entries[e][k].id /\ entries[d][j].id # NoId
        BY <2>2, <4>1
      <4> QED  BY <4>1, <4>2, Zenon DEF Distinct
    <3>3. CASE (d = c /\ j = f) /\ ~(e = c /\ k = f)
      <4>1. entries'[d][j].id = id0
        BY <1>7, <1>17, <3>3
      <4>2. k \in 1..Len(entries[e]) /\ entries'[e][k] = entries[e][k]
        BY <1>17, <3>3
      <4> QED  BY <1>14, <2>2, <4>1, <4>2
    <3>4. CASE ~(d = c /\ j = f) /\ (e = c /\ k = f)
      <4>1. entries'[e][k].id = id0
        BY <1>7, <1>17, <3>4
      <4>2. j \in 1..Len(entries[d]) /\ entries'[d][j] = entries[d][j]
        BY <1>17, <3>4
      <4> QED  BY <1>14, <2>2, <4>1, <4>2
    <3> QED  BY Zenon, <3>1, <3>2, <3>3, <3>4
  <2> QED  BY <2>1, <2>2 DEF Distinct
<1>19. ASSUME NEW d \in Classes, NEW id \in Ids
       PROVE  (\E j \in 1..Len(entries'[d]) : entries'[d][j].id = id)
                <=> \/ \E j \in 1..Len(entries[d]) : entries[d][j].id = id
                    \/ d = c /\ id = id0
  <2>1. CASE d # c
    BY <1>9, <2>1
  <2>2. CASE d = c
    <3>1. id # NoId
      BY DriverAssumption DEF Ids, NoId
    <3>2. ASSUME NEW j \in 1..Len(es), es[j].id = id
          PROVE  \E k \in 1..Len(new) : new[k].id = id
      <4>1. j # f
        BY <1>7, <3>1, <3>2
      <4> QED  BY <1>8, <3>2, <4>1
    <3>3. ASSUME id = id0  PROVE \E k \in 1..Len(new) : new[k].id = id
      BY <1>7, <1>8, <3>3
    <3>4. ASSUME NEW k \in 1..Len(new), new[k].id = id, id # id0
          PROVE  \E j \in 1..Len(es) : es[j].id = id
      <4>1. k # f
        BY <1>7, <3>4
      <4> QED  BY <1>8, <3>4, <4>1
    <3> QED  BY <1>9, <2>2, <3>2, <3>3, <3>4
  <2> QED  BY <2>1, <2>2
<1>20. Indexed(entries', idIndex')
  <2> SUFFICES ASSUME NEW d \in Classes, NEW id \in Ids
               PROVE  id \in idIndex'[d] <=> \E j \in 1..Len(entries'[d]) : entries'[d][j].id = id
    BY Zenon DEF Indexed
  <2>1. id \in idIndex[d] <=> \E j \in 1..Len(entries[d]) : entries[d][j].id = id
    BY Zenon DEF Indexed
  <2>2. id \in idIndex'[d] <=> id \in idIndex[d] \/ (d = c /\ id = id0)
    BY Zenon, <1>10
  <2> QED  BY <1>19, <2>1, <2>2
<1>21. Counted'
  <2> SUFFICES ASSUME NEW d \in Classes, NEW j \in 1..Len(entries'[d]), entries'[d][j].id # NoId
               PROVE  Cardinality(Users(entries[d][j].id)') <= entries'[d][j].streams
    BY Zenon DEF Counted
  <2>1. ASSUME NEW id, id = entries'[d][j].id
        PROVE  Users(entries[d][j].id)' = Users(id)'
    BY <2>1 DEF Users, At
  <2>2. CASE d = c /\ j = f
    <3>1. entries'[d][j].id = id0 /\ entries'[d][j].streams = es[f].pending
      BY <1>7, <1>17, <2>2
    <3>2. Users(entries[d][j].id)' = {}
      BY Zenon, <1>4, <1>15, <2>1, <3>1 DEF id0
    <3>3. es[f].pending \in Nat
      <4>1. ASSUME NEW E, NEW q \in Seq(E), NEW k \in 1..Len(q)  PROVE q[k] \in E
        BY <4>1
      <4>2. es[f] \in Entry
        BY Zenon, <1>3, <1>8, <4>1
      <4> QED  BY Zenon, <4>2 DEF Entry
    <3>4. ASSUME NEW n \in Nat  PROVE 0 <= n
      BY <3>4
    <3> QED  BY Zenon, <3>1, <3>2, <3>3, <3>4, FS_EmptySet
  <2>3. CASE ~(d = c /\ j = f)
    <3>1. j \in 1..Len(entries[d]) /\ entries'[d][j] = entries[d][j]
      BY <1>17, <2>3
    <3>2. Cardinality(Users(entries[d][j].id)) <= entries[d][j].streams
      BY Zenon, <3>1 DEF Counted
    <3>3. Users(entries[d][j].id)' = Users(entries[d][j].id)
      BY Zenon, <1>15, <2>1, <3>1
    <3> QED  BY Zenon, <3>1, <3>2, <3>3
  <2> QED  BY <2>2, <2>3
<1>22. Issued'
  <2>1. \A id \in Ids : Has(entries', id) <=> Has(entries, id) \/ id = id0
    BY <1>3, <1>19 DEF Has
  <2>2. \A id \in Ids : Has(entries', id) => id < nextId' /\ registry'[id] > 0
    BY Zenon, <1>4, <1>12, <2>1 DEF Issued, id0
  <2>3. todo.retire \in SUBSET Ids
    BY Zenon DEF Typed
  <2>4. \A id \in todo'.retire : id < nextId' /\ ~Has(entries', id)
    BY <1>4, <1>12, <2>1, <2>3 DEF Issued, id0
  <2>5. ASSUME NEW u \in Tasks, build'[u].pc = "record"
        PROVE  /\ build'[u].id \in Ids /\ build'[u].id < nextId' /\ registry'[build'[u].id] > 0
               /\ ~Has(entries', build'[u].id) /\ build'[u].id \notin todo'.retire
               /\ Users(build[u].id)' = {}
    <3>1. u # t /\ build[u].pc = "record" /\ build'[u].id = build[u].id
      BY <1>13, <2>5
    <3>2. /\ build[u].id \in Ids /\ build[u].id < nextId /\ registry[build[u].id] > 0
          /\ ~Has(entries, build[u].id) /\ build[u].id \notin todo.retire
          /\ Users(build[u].id) = {}
      BY <3>1 DEF Issued
    <3>3. build[u].id # id0
      BY <1>1, <3>1 DEF Issued, id0
    <3>4. ASSUME NEW id, id = build'[u].id
          PROVE  Users(build[u].id)' = Users(id)'
      BY Zenon, <3>4 DEF Users, At
    <3>5. Users(build[u].id)' = Users(build[u].id)
      BY <1>15, <3>1, <3>3, <3>4
    <3> QED  BY <1>12, <2>1, <3>1, <3>2, <3>3, <3>5
  <2>6. \A u, v \in Tasks : build'[u].pc = "record" /\ build'[v].pc = "record"
          /\ build'[u].id = build'[v].id => u = v
    BY <1>13 DEF Issued
  <2>7. nextId \in Nat /\ Ids \in SUBSET Nat
    BY DriverAssumption DEF Typed, TypeOK, Ids
  <2>8. \A id \in Ids : id >= nextId' => registry'[id] = 0 /\ Users(id)' = {}
    BY Zenon, <1>12, <1>15 DEF Issued
  <2>9. \A r \in Streams : At(r, "using")' => stream'[r].id \in Ids
    BY Zenon, <1>2 DEF Issued, At
  <2> QED  BY <2>2, <2>4, <2>5, <2>6, <2>8, <2>9 DEF Issued
<1>23. EveryBuildHasItsEntry' /\ PendingCapped'
  <2>1. ASSUME NEW d \in Classes
        PROVE  /\ Count(entries'[d], "Building") = Cardinality(InFlight(d)') + todo'.spawn[d]
               /\ Count(entries'[d], "Building") <= MaxPendingBuilds
    <3>1. /\ Count(entries[d], "Building") = Cardinality(InFlight(d)) + todo.spawn[d]
          /\ Count(entries[d], "Building") <= MaxPendingBuilds
      BY Zenon DEF EveryBuildHasItsEntry, PendingCapped
    <3>2. /\ Count(entries[d], "Building") \in Nat /\ Cardinality(InFlight(d)) \in Nat
          /\ todo.spawn[d] \in Nat /\ MaxPendingBuilds \in Nat
      BY <1>3, CountBuilding, InFlightFinite, PoolPolicyAssumption DEF Typed
    <3>3. CASE d = c
      <4>1. Count(entries'[d], "Building") = Count(entries[d], "Building") - 1
        BY <1>7, <1>9, <3>3
      <4>2. Cardinality(InFlight(d)') = Cardinality(InFlight(d)) - 1 /\ todo'.spawn[d] = todo.spawn[d]
        BY <1>12, <1>13, <3>3
      <4> QED  BY <3>1, <3>2, <4>1, <4>2
    <3>4. CASE d # c
      BY <1>9, <1>12, <1>13, <3>1, <3>4
    <3> QED  BY <3>3, <3>4
  <2> QED  BY <2>1 DEF EveryBuildHasItsEntry, PendingCapped
<1>24. NoHopLeaks' /\ Wakeups'
  BY <1>1, <1>12, <1>13, HopsFrame DEF Wakeups
<1> QED  BY <1>13, <1>16, <1>18, <1>20, <1>21, <1>22, <1>23, <1>24

\* What tick does to the pool.
LEMMA TickSteps ==
    ASSUME Inv, Tick
    PROVE  Inv'
<1> USE DEF Inv
<1> DEFINE swept == [c \in Classes |-> Swept(entries[c])]
<1>1. /\ todo = NoWork
      /\ todo' = [drain |-> ToDrain, retire |-> ToRetire,
                  spawn |-> [c \in Classes |-> ToRequest(c, swept[c])]]
      /\ entries' = [c \in Classes |-> Refilled(c, swept[c])]
      /\ idIndex' = [c \in Classes |-> idIndex[c] \ ToRetire]
      /\ ringing' = TRUE
      /\ UNCHANGED <<stream, build, nextId, registry, draining, hopsUp>>
  BY Zenon DEF Tick, Sweep, Rings
<1>0. \A c \in Classes : swept[c] = Swept(entries[c])
  BY Zenon
<1> HIDE DEF swept
<1>2. /\ entries \in [Classes -> Seq(Entry)] /\ idIndex \in [Classes -> SUBSET Ids]
      /\ \A c \in Classes : entries[c] \in Seq(Entry)
  BY Zenon DEF Typed, TypeOK
<1>3. \A c \in Classes : todo.spawn[c] = 0
  BY Zenon, <1>1 DEF NoWork
<1>4. \A c \in Classes : entries'[c] = Ticked(c, entries[c])
  BY Zenon, <1>0, <1>1 DEF Ticked
<1>5. ASSUME NEW c \in Classes
      PROVE  /\ entries'[c] \in Seq(Entry) /\ todo'.spawn[c] \in Nat
             /\ Count(entries'[c], "Building") = Count(entries[c], "Building") + todo'.spawn[c]
             /\ Count(entries'[c], "Building") <= MaxPendingBuilds
             /\ \E p : Survives(p, entries'[c], entries[c])
  <2>1. Count(entries[c], "Building") <= MaxPendingBuilds
    BY Zenon DEF PendingCapped
  <2>2. entries'[c] = Ticked(c, entries[c]) /\ todo'.spawn[c] = ToRequest(c, Swept(entries[c]))
    BY Zenon, <1>0, <1>1, <1>4
  <2>3. entries[c] \in Seq(Entry)
    BY Zenon, <1>2
  <2>4. \E p : Survives(p, Ticked(c, entries[c]), entries[c])
    BY <2>1, <2>3, TickedIs
  <2>5. /\ Ticked(c, entries[c]) \in Seq(Entry)
        /\ ToRequest(c, Swept(entries[c])) \in Nat
        /\ Count(Ticked(c, entries[c]), "Building")
             = Count(entries[c], "Building") + ToRequest(c, Swept(entries[c]))
        /\ Count(Ticked(c, entries[c]), "Building") <= MaxPendingBuilds
    BY <2>1, <2>3, TickedIs
  <2> QED  BY <2>2, <2>4, <2>5
\* ids that retire.
<1>6. ToRetire \in SUBSET Ids /\ ToDrain \in SUBSET Ids
  <2>1. ASSUME NEW e \in AllEntries, Retires(e) \/ Drains(e)
        PROVE  e.id \in Ids
    <3>1. PICK c \in Classes : \E i \in 1..Len(entries[c]) : e = entries[c][i]
      BY <1>2 DEF AllEntries, Range
    <3>2. e.state # "Building"
      BY Zenon, <2>1 DEF Retires, Drains
    <3> QED  BY <3>1, <3>2 DEF Distinct
  <2> QED  BY Zenon, <2>1 DEF ToRetire, ToDrain
<1>7. \A id \in Ids : id \in ToRetire <=>
         \E c \in Classes : \E i \in 1..Len(entries[c]) : entries[c][i].id = id /\ Retires(entries[c][i])
  <2>1. ASSUME NEW id \in ToRetire
        PROVE  \E c \in Classes : \E i \in 1..Len(entries[c]) :
                  entries[c][i].id = id /\ Retires(entries[c][i])
    <3>1. PICK e \in AllEntries : Retires(e) /\ id = e.id
      BY Zenon DEF ToRetire
    <3>2. PICK c \in Classes : \E i \in 1..Len(entries[c]) : e = entries[c][i]
      BY <1>2 DEF AllEntries, Range
    <3> QED  BY Zenon, <3>1, <3>2
  <2>2. ASSUME NEW c \in Classes, NEW i \in 1..Len(entries[c]), Retires(entries[c][i])
        PROVE  entries[c][i].id \in ToRetire
    <3>1. entries[c][i] \in AllEntries
      BY <1>2 DEF AllEntries, Range
    <3> QED  BY Zenon, <2>2, <3>1 DEF ToRetire
  <2> QED  BY Zenon, <2>1, <2>2
<1>8. /\ todo'.retire = ToRetire /\ todo' \in [drain : SUBSET Ids, retire : SUBSET Ids, spawn : [Classes -> Nat]]
  <2>1. [c \in Classes |-> ToRequest(c, swept[c])] \in [Classes -> Nat]
    BY Zenon, <1>1, <1>5
  <2> QED  BY Zenon, <1>1, <1>6, <2>1
<1>9. /\ stream' = stream /\ build' = build /\ nextId' = nextId /\ registry' = registry
      /\ draining' = draining /\ hopsUp' = hopsUp
  BY Zenon, <1>1
<1>10. Typed'
  <2>1. entries' \in [Classes -> Seq(Entry)]
    BY Zenon, <1>1, <1>5
  <2>2. idIndex' \in [Classes -> SUBSET Ids]
    BY <1>1, <1>2
  <2> QED  BY <1>1, <1>8, <1>9, <2>1, <2>2 DEF Typed, TypeOK
<1>11. Distinct(entries') /\ Inherits(entries', entries)
  <2>1. \A c \in Classes : \E p : Descends(p, entries'[c], entries[c])
    BY Zenon, <1>5 DEF Survives
  <2> QED  BY <2>1, DescendsDistinct
<1>12. \A id : Users(id)' = Users(id)
  BY Zenon, <1>9 DEF Users, At
<1>13. Counted'
  BY <1>11, <1>12, CountedFrame
\* The entries that stay.
<1>14. ASSUME NEW c \in Classes, NEW id \in Ids
       PROVE  (\E j \in 1..Len(entries'[c]) : entries'[c][j].id = id)
                <=> /\ \E i \in 1..Len(entries[c]) : entries[c][i].id = id
                    /\ id \notin ToRetire
  <2>1. PICK p : Survives(p, entries'[c], entries[c])
    BY <1>5
  <2>2. id # NoId
    BY DriverAssumption DEF Ids, NoId
  <2>3. ASSUME NEW j \in 1..Len(entries'[c]), entries'[c][j].id = id
        PROVE  /\ \E i \in 1..Len(entries[c]) : entries[c][i].id = id
               /\ id \notin ToRetire
    <3>1. /\ p[j] # 0 /\ p[j] \in 1..Len(entries[c]) /\ entries[c][p[j]].id = id
      BY <2>1, <2>2, <2>3, DescendsAt DEF Survives
    <3>2. ~Retires(entries[c][p[j]])
      BY Zenon, <2>1, <3>1 DEF Survives
    <3>3. id \notin ToRetire
      <4> SUFFICES ASSUME id \in ToRetire  PROVE FALSE
        BY Zenon
      <4>1. PICK d \in Classes : \E i \in 1..Len(entries[d]) :
                   entries[d][i].id = id /\ Retires(entries[d][i])
        BY Zenon, <1>7
      <4>2. PICK i \in 1..Len(entries[d]) : entries[d][i].id = id /\ Retires(entries[d][i])
        BY Zenon, <4>1
      <4>3. entries[d][i].id = entries[c][p[j]].id /\ entries[d][i].id # NoId
        BY <2>2, <3>1, <4>2
      <4>4. d = c /\ i = p[j]
        <5>1. Distinct(entries)
          BY Zenon
        <5> HIDE DEF Inv
        <5> QED  BY <3>1, <4>3, <5>1 DEF Distinct
      <4> QED  BY Zenon, <3>2, <4>2, <4>4
    <3> QED  BY Zenon, <3>1, <3>3
  <2>4. ASSUME NEW i \in 1..Len(entries[c]), entries[c][i].id = id, id \notin ToRetire
        PROVE  \E j \in 1..Len(entries'[c]) : entries'[c][j].id = id
    <3>1. ~Retires(entries[c][i])
      BY <1>7, <2>4
    <3>2. PICK j \in 1..Len(entries'[c]) : p[j] = i
      BY <2>1, <3>1 DEF Survives
    <3>3. i # 0
      OBVIOUS
    <3>4. entries'[c][j].id = entries[c][i].id
      BY <2>1, <3>2, <3>3 DEF Survives, Descends
    <3> QED  BY <2>4, <3>4
  <2> QED  BY <2>3, <2>4
<1>15. Indexed(entries', idIndex')
  <2> SUFFICES ASSUME NEW c \in Classes, NEW id \in Ids
               PROVE  id \in idIndex'[c] <=> \E j \in 1..Len(entries'[c]) : entries'[c][j].id = id
    BY Zenon DEF Indexed
  <2>1. id \in idIndex[c] <=> \E j \in 1..Len(entries[c]) : entries[c][j].id = id
    BY Zenon DEF Indexed
  <2>2. id \in idIndex'[c] <=> id \in idIndex[c] /\ id \notin ToRetire
    BY Zenon, <1>1
  <2> QED  BY <1>14, <2>1, <2>2
<1>16. \A id \in Ids : /\ Has(entries', id) <=> Has(entries, id) /\ id \notin ToRetire
                       /\ id \in ToRetire => Has(entries, id)
  <2>1. \A id \in Ids : Has(entries', id) <=> Has(entries, id) /\ id \notin ToRetire
    BY <1>14 DEF Has
  <2>2. \A id \in Ids : id \in ToRetire => Has(entries, id)
    BY Zenon, <1>7 DEF Has
  <2> QED  BY Zenon, <2>1, <2>2
<1>17. Issued'
  <2>1. \A id \in Ids : Has(entries', id) => id < nextId' /\ registry'[id] > 0
    BY <1>9, <1>16 DEF Issued
  <2>2. \A id \in todo'.retire : id < nextId' /\ ~Has(entries', id)
    BY <1>6, <1>8, <1>9, <1>16 DEF Issued
  <2>3. ASSUME NEW u \in Tasks, build'[u].pc = "record"
        PROVE  /\ build'[u].id \in Ids /\ build'[u].id < nextId' /\ registry'[build'[u].id] > 0
               /\ ~Has(entries', build'[u].id) /\ build'[u].id \notin todo'.retire
               /\ Users(build[u].id)' = {}
    <3>1. /\ build[u].id \in Ids /\ build[u].id < nextId /\ registry[build[u].id] > 0
          /\ ~Has(entries, build[u].id) /\ Users(build[u].id) = {}
      BY <1>9, <2>3 DEF Issued
    <3>2. Users(build[u].id)' = Users(build[u].id)
      BY Zenon, <1>9 DEF Users, At
    <3> QED  BY <1>8, <1>9, <1>16, <3>1, <3>2
  <2>4. \A u, v \in Tasks : build'[u].pc = "record" /\ build'[v].pc = "record"
          /\ build'[u].id = build'[v].id => u = v
    BY Zenon, <1>9 DEF Issued
  <2>5. \A id \in Ids : id >= nextId' => registry'[id] = 0 /\ Users(id)' = {}
    BY <1>9, <1>12 DEF Issued
  <2>6. \A r \in Streams : At(r, "using")' => stream'[r].id \in Ids
    BY Zenon, <1>9 DEF Issued, At
  <2> QED  BY <2>1, <2>2, <2>3, <2>4, <2>5, <2>6 DEF Issued
<1>18. EveryBuildHasItsEntry' /\ PendingCapped'
  <2>1. ASSUME NEW c \in Classes
        PROVE  Count(entries'[c], "Building") = Cardinality(InFlight(c)') + todo'.spawn[c]
    <3>1. Count(entries[c], "Building") = Cardinality(InFlight(c)) + todo.spawn[c]
      BY Zenon DEF EveryBuildHasItsEntry
    <3>2. Cardinality(InFlight(c)') = Cardinality(InFlight(c)) /\ Cardinality(InFlight(c)) \in Nat
      BY <1>9, InFlightFinite DEF InFlight
    <3> QED  BY <1>3, <1>5, <3>1, <3>2
  <2> QED  BY <1>5, <2>1 DEF EveryBuildHasItsEntry, PendingCapped
<1>19. NoHopLeaks' /\ HopsWhileBuilding' /\ Wakeups'
  BY <1>1, <1>9, HopsFrame DEF Wakeups, HopsWhileBuilding
<1> QED  BY <1>10, <1>11, <1>13, <1>15, <1>17, <1>18, <1>19

-----------------------------------------------------------------------------
(* The theorems.                                                            *)

\* The pool starts empty.
LEMMA InitInv == Init => Inv
<1> SUFFICES ASSUME Init  PROVE Inv
  BY Zenon
<1>1. /\ entries = [c \in Classes |-> <<>>] /\ idIndex = [c \in Classes |-> {}]
      /\ ringing = FALSE /\ nextId = 1 /\ registry = [i \in Ids |-> 0]
      /\ stream = [s \in Streams |-> [pc |-> "idle", id |-> NoId, notified |-> FALSE]]
      /\ build = [t \in Tasks |-> NoBuild] /\ draining = {} /\ todo = NoWork /\ hopsUp = 0
  BY Zenon DEF Init
<1>2. MaxIds \in Nat /\ MaxPendingBuilds \in Nat /\ Cardinality(Classes) \in Nat
      /\ MaxPendingBuilds * Cardinality(Classes) \in Nat
  BY PoolPolicyAssumption, DriverAssumption, FS_CardinalityType
<1>3. /\ \A c \in Classes : entries[c] = <<>> /\ idIndex[c] = {} /\ todo.spawn[c] = 0
      /\ \A c \in Classes : Len(entries[c]) = 0
      /\ todo.retire = {} /\ \A t \in Tasks : build[t] = NoBuild
      /\ NoBuild.pc = "free" /\ NoBuild.hops = 0
      /\ \A s \in Streams : stream[s].pc = "idle"
  BY Zenon, <1>1 DEF NoWork, NoBuild
<1>4. Typed
  <2>1. entries \in [Classes -> Seq(Entry)] /\ idIndex \in [Classes -> SUBSET Ids]
    BY <1>1
  <2>2. build \in [Tasks -> BuildRec]
    <3>1. ASSUME NEW t \in Tasks  PROVE Classes # {}
      <4>1. t \in 1 .. (MaxPendingBuilds * Cardinality(Classes))
        BY Zenon DEF Tasks
      <4>2. Cardinality(Classes) # 0
        BY <1>2, <4>1
      <4> QED  BY Zenon, <4>2, FS_EmptySet
    <3>2. ASSUME NEW t \in Tasks  PROVE NoBuild \in BuildRec
      BY Zenon, <3>1 DEF NoBuild, BuildRec
    <3> QED  BY Zenon, <1>1, <3>2
  <2>3. stream \in [Streams -> StreamRec]
    BY Zenon, <1>1 DEF StreamRec
  <2>4. registry \in [Ids -> Nat] /\ draining \in SUBSET Ids /\ hopsUp \in Nat /\ ringing \in BOOLEAN
    BY Zenon, <1>1
  <2>5. nextId \in 1 .. MaxIds + 1
    BY <1>1, <1>2
  <2>6. todo \in [drain : SUBSET Ids, retire : SUBSET Ids, spawn : [Classes -> Nat]]
    BY Zenon, <1>1 DEF NoWork
  <2> QED  BY Zenon, <2>1, <2>2, <2>3, <2>4, <2>5, <2>6 DEF Typed, TypeOK, BuildRec, StreamRec
<1>5. \A c \in Classes : \A i \in 1..Len(entries[c]) : FALSE
  BY <1>3
<1>6. Distinct(entries) /\ Indexed(entries, idIndex) /\ Counted
  BY Zenon, <1>3, <1>5 DEF Distinct, Indexed, Counted
<1>7. Issued
  <2>1. \A id : Users(id) = {}
    BY Zenon, <1>3 DEF Users, At
  <2>2. \A id : ~Has(entries, id)
    BY Zenon, <1>5 DEF Has
  <2>3. \A id \in Ids : registry[id] = 0
    BY Zenon, <1>1
  <2> QED  BY Zenon, <1>3, <2>1, <2>2, <2>3 DEF Issued, At
<1>8. EveryBuildHasItsEntry /\ PendingCapped
  <2>1. ASSUME NEW c \in Classes
        PROVE  Count(entries[c], "Building") = 0 /\ Cardinality(InFlight(c)) = 0
    <3>1. {i \in DOMAIN entries[c] : entries[c][i].state = "Building"} = {}
      BY <1>3
    <3>2. InFlight(c) = {}
      BY Zenon, <1>3 DEF InFlight
    <3> QED  BY Zenon, <3>1, <3>2, FS_EmptySet DEF Count
  <2> QED  BY <1>2, <1>3, <2>1 DEF EveryBuildHasItsEntry, PendingCapped
<1>9. HopsWhileBuilding
  BY Zenon, <1>3 DEF HopsWhileBuilding
<1>10. NoHopLeaks
  <2> DEFINE f == [t \in Tasks |-> build[t].hops]
             n == MaxPendingBuilds * Cardinality(Classes)
  <2>1. f \in [Tasks -> Nat] /\ \A t \in Tasks : f[t] = 0
    BY <1>3
  <2>2. n \in Nat /\ Tasks = 1..n
    BY Zenon, <1>2 DEF Tasks
  <2>3. hopsUp = Total(f) + Total(registry) => NoHopLeaks
    BY Zenon DEF NoHopLeaks
  <2> HIDE DEF f, n
  <2>4. f \in Seq(Int) /\ Len(f) = n
    BY Zenon, <2>1, <2>2, FunctionSeq
  <2>5. Total(f) = 0
    BY Zenon, <2>1, <2>2, <2>4, TotalZeros
  <2>6. registry \in [1..MaxIds -> Nat] /\ \A i \in 1..MaxIds : registry[i] = 0
    BY Zenon, <1>1 DEF Ids
  <2>7. registry \in Seq(Int) /\ Len(registry) = MaxIds
    BY <1>2, <2>6, FunctionSeq
  <2>8. Total(registry) = 0
    BY <2>6, <2>7, TotalZeros
  <2> QED  BY <1>1, <2>3, <2>5, <2>8
<1>11. Wakeups
  BY Zenon, <1>3 DEF Wakeups
<1> QED  BY <1>4, <1>6, <1>7, <1>8, <1>9, <1>10, <1>11 DEF Inv

\* Nothing changes.
LEMMA StutterInv == Inv /\ UNCHANGED vars => Inv'
<1> SUFFICES ASSUME Inv, UNCHANGED vars  PROVE Inv'
  BY Zenon
<1>1. /\ entries' = entries /\ idIndex' = idIndex /\ ringing' = ringing /\ stream' = stream
      /\ build' = build /\ nextId' = nextId /\ registry' = registry /\ draining' = draining
      /\ todo' = todo /\ hopsUp' = hopsUp
  BY Zenon DEF vars
<1>2. UNCHANGED <<poolVars, build, driverVars>>
  BY Zenon, <1>1 DEF poolVars, driverVars
<1>3. stream' \in [Streams -> StreamRec] /\ ringing' \in BOOLEAN
  BY Zenon, <1>1 DEF Inv, Typed, TypeOK, StreamRec
<1>4. Wakeups'
  BY Zenon, <1>1 DEF Inv, Wakeups
<1> QED  BY <1>1, <1>2, <1>3, <1>4, StreamOnly

\* Every step keeps the invariant.
LEMMA NextInv == Inv /\ [Next]_vars => Inv'
<1> SUFFICES ASSUME Inv, [Next]_vars  PROVE Inv'
  BY Zenon
<1>1. ASSUME NEW s \in Streams, StreamStep(s)  PROVE Inv'
  BY <1>1, AcquireSteps, ReleaseSteps, WaitSteps DEF StreamStep
<1>2. ASSUME NEW t \in Tasks, BuildStep(t)  PROVE Inv'
  BY <1>2, HopSteps, RegisterSteps, BuiltSteps, BuildFailedSteps DEF BuildStep
<1>3. CASE DriverStep
  BY <1>3, TickSteps, DrainSteps, RetireSteps, SpawnSteps DEF DriverStep
<1>4. CASE NotifyWaiters
  BY Zenon, <1>4, NotifySteps
<1>5. ASSUME NEW id \in Ids, FailCircuit(id)  PROVE Inv'
  BY Zenon, <1>5, FailSteps
<1>6. ASSUME NEW c \in Classes, NEW i \in DOMAIN entries[c], Age(c, i)  PROVE Inv'
  BY Zenon, <1>6, AgeSteps
<1>7. CASE UNCHANGED vars
  BY Zenon, <1>7, StutterInv
<1> QED  BY <1>1, <1>2, <1>3, <1>4, <1>5, <1>6, <1>7 DEF Next

\* The inductive invariant holds in every reachable state of PoolDriver, for
\* any classes, caps, streams and number of circuits.
THEOREM PoolInv == Spec => []Inv
BY InitInv, NextInv, PTL DEF Spec

\* The types of the pool, the callers, the builds and the registry.
THEOREM PoolTypeOK == Spec => []TypeOK
<1>1. Inv => TypeOK
  BY Zenon DEF Inv, Typed
<1> QED  BY <1>1, PoolInv, PTL

\* driver.rs dispatch_build: no build report finds the pool without a Building
\* entry, and no Building entry is left without a build.
THEOREM EveryBuildHasItsEntryHolds == Spec => []EveryBuildHasItsEntry
<1>1. Inv => EveryBuildHasItsEntry
  BY Zenon DEF Inv
<1> QED  BY <1>1, PoolInv, PTL

\* runtime/lib.rs "Builder leak invariant": every hop that was built belongs to a
\* build in flight or a stored circuit, and is destroyed with it, once.
THEOREM NoHopLeaksHolds == Spec => []NoHopLeaks
<1>1. Inv => NoHopLeaks
  BY DEF Inv
<1> QED  BY <1>1, PoolInv, PTL

\* runtime/pool.rs acquire_with_wait: no caller sleeps on a pool that could serve
\* it, unless a notification is on its way.
THEOREM NoLostWakeupHolds == Spec => []NoLostWakeup
<1>1. Inv => NoLostWakeup
  BY DEF Inv, Wakeups, NoLostWakeup, At
<1> QED  BY <1>1, PoolInv, PTL

\* pool.rs PoolEntry::streams is never below the number of streams on the circuit.
THEOREM StreamsCountedHolds == Spec => []StreamsCounted
<1>1. Inv => StreamsCounted
  <2> SUFFICES ASSUME Inv, NEW e \in AllEntries, e.id # NoId
               PROVE  Cardinality(Users(e.id)) <= e.streams
    BY Zenon DEF StreamsCounted
  <2>1. \A c \in Classes : entries[c] \in Seq(Entry)
    BY Zenon DEF Inv, Typed, TypeOK
  <2>2. PICK c \in Classes : \E i \in 1..Len(entries[c]) : e = entries[c][i]
    BY <2>1 DEF AllEntries, Range
  <2> QED  BY Zenon, <2>2 DEF Inv, Counted
<1> QED  BY <1>1, PoolInv, PTL

\* driver.rs: a circuit the pool can hand out is in the registry.
THEOREM HandedOutIsRegisteredHolds == Spec => []HandedOutIsRegistered
<1>1. Inv => HandedOutIsRegistered
  <2> SUFFICES ASSUME Inv, NEW e \in AllEntries, e.id # NoId
               PROVE  registry[e.id] > 0
    BY Zenon DEF HandedOutIsRegistered
  <2>1. \A c \in Classes : entries[c] \in Seq(Entry)
    BY Zenon DEF Inv, Typed, TypeOK
  <2>2. PICK c \in Classes : \E i \in 1..Len(entries[c]) : e = entries[c][i]
    BY <2>1 DEF AllEntries, Range
  <2>3. e.id \in Ids /\ Has(entries, e.id)
    BY <2>2 DEF Inv, Distinct, Has
  <2> QED  BY Zenon, <2>3 DEF Inv, Issued
<1> QED  BY <1>1, PoolInv, PTL

\* id_index loses an id in a tick only.
LEMMA IndexKept ==
    ASSUME Inv, [Next]_vars, ~Tick, NEW c \in Classes
    PROVE  idIndex[c] \subseteq idIndex'[c]
<1>1. ASSUME NEW s \in Streams, StreamStep(s)  PROVE idIndex' = idIndex
  BY Zenon, <1>1 DEF StreamStep, AcquireFor, AcquireIsolated, WaitServed, Take, ReleaseBy, WaitEnable,
              WaitFull, WaitSleep, WaitEnds, poolVars
<1>2. ASSUME NEW t \in Tasks, BuildStep(t)  PROVE idIndex[c] \subseteq idIndex'[c]
  <2>1. CASE Built(t)
    <3>1. idIndex \in [Classes -> SUBSET Ids]
      BY Zenon DEF Inv, Typed, TypeOK
    <3>2. idIndex' = [idIndex EXCEPT ![build[t].class] = @ \cup {build[t].id}]
      BY Zenon, <2>1 DEF Built
    <3> QED  BY Zenon, <3>1, <3>2
  <2>2. CASE ~Built(t)
    <3>1. idIndex' = idIndex
      BY Zenon, <1>2, <2>2 DEF BuildStep, Select, HopBuilt, HopFailed, Register, BuildFailed, poolVars
    <3> QED  BY Zenon, <3>1
  <2> QED  BY Zenon, <2>1, <2>2
<1>3. CASE DriverStep
  BY Zenon, <1>3 DEF DriverStep, DoDrain, DoRetire, DoSpawn, poolVars
<1>4. CASE NotifyWaiters
  BY Zenon, <1>4 DEF NotifyWaiters, poolVars
<1>5. ASSUME NEW id \in Ids, FailCircuit(id)  PROVE idIndex' = idIndex
  BY Zenon, <1>5 DEF FailCircuit
<1>6. ASSUME NEW d \in Classes, NEW i \in DOMAIN entries[d], Age(d, i)  PROVE idIndex' = idIndex
  BY Zenon, <1>6 DEF Age
<1>7. CASE UNCHANGED vars
  BY Zenon, <1>7 DEF vars
<1> QED  BY <1>1, <1>2, <1>3, <1>4, <1>5, <1>6, <1>7 DEF Next

\* pool.rs tick: a circuit leaves the pool only when it failed or when no stream
\* is on it.
THEOREM NeverRetiredInUseHolds == Spec => NeverRetiredInUse
<1>1. ASSUME Inv, [Next]_vars
      PROVE  [\A e \in AllEntries :
                e.id # NoId /\ ~(\E c \in Classes : e.id \in idIndex'[c])
                  => e.state = "Failed" \/ Users(e.id) = {}]_vars
  <2> SUFFICES ASSUME NEW e \in AllEntries, e.id # NoId,
                      ~(\E c \in Classes : e.id \in idIndex'[c])
               PROVE  e.state = "Failed" \/ Users(e.id) = {}
    BY Zenon
  <2> USE <1>1
  <2>1. \A c \in Classes : entries[c] \in Seq(Entry)
    BY Zenon DEF Inv, Typed, TypeOK
  <2>2. PICK c \in Classes : \E i \in 1..Len(entries[c]) : e = entries[c][i]
    BY <2>1 DEF AllEntries, Range
  <2>3. PICK i \in 1..Len(entries[c]) : e = entries[c][i]
    BY Zenon, <2>2
  <2>4. e.id \in Ids /\ e.id \in idIndex[c]
    BY <2>3 DEF Inv, Distinct, Indexed
  <2>5. CASE ~Tick
    BY Zenon, <2>4, <2>5, IndexKept
  <2>6. CASE Tick
    <3>1. e.id \in ToRetire
      BY Zenon, <2>4, <2>6 DEF Tick
    <3>2. PICK x \in AllEntries : Retires(x) /\ x.id = e.id
      BY Zenon, <3>1 DEF ToRetire
    <3>3. PICK d \in Classes : \E j \in 1..Len(entries[d]) : x = entries[d][j]
      BY <2>1 DEF AllEntries, Range
    <3>4. PICK j \in 1..Len(entries[d]) : x = entries[d][j]
      BY Zenon, <3>3
    <3>5. entries[d][j].id = entries[c][i].id /\ entries[d][j].id # NoId
      BY Zenon, <2>3, <3>2, <3>4
    <3>6. d = c /\ j = i
      <4>1. Distinct(entries)
        BY Zenon DEF Inv
      <4> QED  BY <3>5, <4>1 DEF Distinct
    <3>7. Retires(e)
      BY <2>3, <3>2, <3>4, <3>6
    <3>8. Cardinality(Users(e.id)) <= e.streams
      BY Zenon, <2>3 DEF Inv, Counted
    <3>9. IsFiniteSet(Users(e.id)) /\ Cardinality(Users(e.id)) \in Nat
      BY Zenon, FS_Subset, FS_CardinalityType, DriverAssumption DEF Users
    <3>10. ASSUME NEW n \in Nat, n <= 0  PROVE n = 0
      BY <3>10
    <3>11. e.state = "Failed" \/ e.streams = 0
      BY Zenon, <3>7 DEF Retires
    <3> QED  BY Zenon, <3>8, <3>9, <3>10, <3>11, FS_EmptySet
  <2> QED  BY Zenon, <2>5, <2>6
<1> QED  BY <1>1, PoolInv, PTL DEF Spec, NeverRetiredInUse
=============================================================================
