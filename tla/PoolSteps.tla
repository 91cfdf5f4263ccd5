----------------------------- MODULE PoolSteps ------------------------------
(***************************************************************************)
(* The steps of the build tasks and of the circuits' users keep the        *)
(* invariant of PoolLemmas.                                                *)
(***************************************************************************)
EXTENDS PoolLemmas

\* record_failure.
LEMMA FailSteps ==
    ASSUME Inv, NEW id \in Ids, FailCircuit(id)
    PROVE  Inv'
<1> USE DEF Inv
<1>1. PICK c \in ClassOf(id) : /\ entries' = [entries EXCEPT ![c] = RecordFailure(@, id)]
                               /\ ringing' = TRUE
                               /\ UNCHANGED <<idIndex, stream, build, driverVars>>
  BY Zenon DEF FailCircuit, Rings
<1>2. c \in Classes /\ entries[c] \in Seq(Entry) /\ id # NoId
  BY DriverAssumption DEF ClassOf, Typed, TypeOK, Ids, NoId
<1>3. \E i \in 1..Len(entries[c]) : entries[c][i].id = id
  BY Zenon, <1>2 DEF ClassOf, Indexed
<1> DEFINE es == entries[c]
           new == RecordFailure(es, id)
           i == IndexOf(es, id)
<1>4. /\ Updated(new, es, i) /\ es[i].id = id
      /\ new[i].id = id /\ new[i].streams = es[i].streams /\ new[i].state = "Failed"
  BY <1>2, <1>3, RecordFailureIs, Zenon
<1>5. new \in Seq(Entry) /\ i \in 1..Len(es)
  BY Zenon, <1>4 DEF Updated
<1>6. es[i].state # "Building"
  BY Zenon, <1>2, <1>4, <1>5 DEF Distinct
<1>7. entries' = [entries EXCEPT ![c] = new]
  BY Zenon, <1>1, <1>2 DEF Typed, TypeOK
<1> HIDE DEF new, i
<1>8. Rearranged(new, es) /\ Count(new, "Building") = Count(es, "Building")
  <2>1. new[i].state = "Building" <=> es[i].state = "Building"
    BY Zenon, <1>4, <1>6
  <2> QED  BY Zenon, <1>2, <1>4, <2>1, RearrangedUpdated, CountUpdated
<1>9. /\ entries' \in [Classes -> Seq(Entry)]
      /\ \A d \in Classes : Rearranged(entries'[d], entries[d])
      /\ entries'[c] = new
      /\ \A d \in Classes : d # c => entries'[d] = entries[d]
  BY Zenon, <1>2, <1>5, <1>7, <1>8, RearrangedClass
<1>10. /\ stream' = stream /\ build' = build /\ idIndex' = idIndex /\ todo' = todo
       /\ nextId' = nextId /\ registry' = registry /\ hopsUp' = hopsUp /\ draining' = draining
  BY Zenon, <1>1 DEF driverVars
<1>11. Typed'
  BY <1>1, <1>9, <1>10 DEF Typed, TypeOK
<1>12. \A d \in Classes : /\ Count(entries'[d], "Building") = Count(entries[d], "Building")
                          /\ Cardinality(InFlight(d)') = Cardinality(InFlight(d))
  BY Zenon, <1>8, <1>9, <1>10 DEF InFlight
<1>13. EveryBuildHasItsEntry' /\ PendingCapped'
  BY Zenon, <1>10, <1>12, PendingFrame
<1>14. NoHopLeaks' /\ HopsWhileBuilding'
  BY Zenon, <1>10, HopsFrame DEF HopsWhileBuilding
<1>15. \A n : Users(n)' = Users(n)
  BY Zenon, <1>10 DEF Users, At
<1>16. Wakeups'
  BY Zenon, <1>1 DEF Wakeups
<1> HIDE DEF Inv
<1> QED  BY <1>9, <1>10, <1>11, <1>13, <1>14, <1>15, <1>16, Frame

\* Time passes: an entry that grows old serves as before.
LEMMA AgeSteps ==
    ASSUME Inv, NEW c \in Classes, NEW i \in DOMAIN entries[c], Age(c, i)
    PROVE  Inv'
<1> USE DEF Inv
<1>1. /\ entries' = [entries EXCEPT ![c][i].old = TRUE]
      /\ UNCHANGED <<idIndex, ringing, stream, build, driverVars>>
  BY Zenon DEF Age
<1> DEFINE es == entries[c]
           new == [es EXCEPT ![i].old = TRUE]
<1>2. entries \in [Classes -> Seq(Entry)]
  BY Zenon DEF Typed, TypeOK
<1>3. es \in Seq(Entry) /\ i \in 1..Len(es) /\ entries' = [entries EXCEPT ![c] = new]
  BY <1>1, <1>2
<1>4. /\ Updated(new, es, i)
      /\ new[i].id = es[i].id /\ new[i].state = es[i].state
      /\ new[i].streams = es[i].streams /\ new[i].pending = es[i].pending
  BY <1>3, AgedIs, Zenon
<1> HIDE DEF new
<1>5. new \in Seq(Entry) /\ Len(new) = Len(es)
  BY Zenon, <1>4 DEF Updated
<1>6. Rearranged(new, es) /\ Count(new, "Building") = Count(es, "Building")
  BY Zenon, <1>3, <1>4, RearrangedUpdated, CountUpdated
<1>7. /\ entries' \in [Classes -> Seq(Entry)]
      /\ \A d \in Classes : Rearranged(entries'[d], entries[d])
      /\ entries'[c] = new
      /\ \A d \in Classes : d # c => entries'[d] = entries[d]
  BY Zenon, <1>3, <1>5, <1>6, RearrangedClass
<1>8. /\ stream' = stream /\ build' = build /\ idIndex' = idIndex /\ todo' = todo
      /\ ringing' = ringing
      /\ nextId' = nextId /\ registry' = registry /\ hopsUp' = hopsUp /\ draining' = draining
  BY Zenon, <1>1 DEF driverVars
<1>9. Typed'
  BY Zenon, <1>7, <1>8 DEF Typed, TypeOK
<1>10. \A d \in Classes : /\ Count(entries'[d], "Building") = Count(entries[d], "Building")
                          /\ Cardinality(InFlight(d)') = Cardinality(InFlight(d))
  BY Zenon, <1>6, <1>7, <1>8 DEF InFlight
<1>11. EveryBuildHasItsEntry' /\ PendingCapped'
  BY Zenon, <1>8, <1>10, PendingFrame
<1>12. NoHopLeaks' /\ HopsWhileBuilding'
  BY Zenon, <1>8, HopsFrame DEF HopsWhileBuilding
<1>13. \A n : Users(n)' = Users(n)
  BY Zenon, <1>8 DEF Users, At
<1>14. Serves(c, new) => Serves(c, es)
  <2>1. \A j \in 1..Len(es) : HasRoom(c, new[j]) \/ HasPendingRoom(c, new[j])
                              => HasRoom(c, es[j]) \/ HasPendingRoom(c, es[j])
    BY Zenon, <1>4 DEF Updated, HasRoom, HasPendingRoom
  <2>2. MayBuild(c, new) => MayBuild(c, es)
    BY Zenon, <1>5, <1>6 DEF MayBuild
  <2>3. Serves(c, new) <=> \/ \E j \in 1..Len(new) : HasRoom(c, new[j]) \/ HasPendingRoom(c, new[j])
                           \/ MayBuild(c, new)
    BY <1>5, AcquireGrants, Zenon
  <2>4. Serves(c, es) <=> \/ \E j \in 1..Len(es) : HasRoom(c, es[j]) \/ HasPendingRoom(c, es[j])
                          \/ MayBuild(c, es)
    BY <1>3, AcquireGrants, Zenon
  <2> QED  BY <1>5, <2>1, <2>2, <2>3, <2>4
<1>15. Wakeups'
  BY <1>7, <1>8, <1>14, DriverAssumption DEF Wakeups
<1> HIDE DEF Inv
<1> QED  BY <1>7, <1>8, <1>9, <1>11, <1>12, <1>13, <1>15, Frame

-----------------------------------------------------------------------------
(* build_circuit and its driver.                                            *)

\* A pool that does not change.
LEMMA SamePool ==
    ASSUME Typed, entries' = entries
    PROVE  /\ \A c \in Classes : Rearranged(entries'[c], entries[c])
           /\ \A c \in Classes : Count(entries'[c], "Building") = Count(entries[c], "Building")
<1>1. \A c \in Classes : entries[c] \in Seq(Entry)
  BY Zenon DEF Typed, TypeOK
<1> QED  BY Zenon, <1>1, RearrangedSame

\* Steps of a task that still builds, or fails to.
LEMMA BuildFrame ==
    ASSUME Inv, NEW t \in Tasks, build[t].pc # "free",
           build' \in [Tasks -> BuildRec], hopsUp' \in Nat,
           \A u \in Tasks : u # t => build'[u] = build[u],
           build'[t].pc \notin {"free", "record"}, build'[t].class = build[t].class,
           build'[t].pc # "hop" => build'[t].hops = 0,
           UNCHANGED <<poolVars, ringing, stream, nextId, registry, draining, todo>>,
           hopsUp' = hopsUp - build[t].hops + build'[t].hops
    PROVE  Inv'
<1> USE DEF Inv
<1>1. /\ entries' = entries /\ idIndex' = idIndex /\ ringing' = ringing /\ stream' = stream
      /\ nextId' = nextId /\ registry' = registry /\ draining' = draining /\ todo' = todo
  BY Zenon DEF poolVars
<1>2. Typed'
  BY Zenon, <1>1 DEF Typed, TypeOK, BuildRec
<1>3. \A d \in Classes : InFlight(d)' = InFlight(d)
  BY Zenon DEF InFlight
<1>4. EveryBuildHasItsEntry' /\ PendingCapped'
  BY Zenon, <1>1, <1>3 DEF EveryBuildHasItsEntry, PendingCapped
<1>5. HopsWhileBuilding'
  BY Zenon DEF HopsWhileBuilding
<1>6. NoHopLeaks'
  <2> DEFINE n == MaxPendingBuilds * Cardinality(Classes)
             f == [u \in Tasks |-> build[u].hops]
             g == [u \in Tasks |-> build'[u].hops]
  <2>1. n \in Nat /\ Tasks = 1..n
    BY PoolPolicyAssumption, DriverAssumption, FS_CardinalityType DEF Tasks
  <2>2. f \in [Tasks -> Nat] /\ g \in [Tasks -> Nat]
    BY Zenon DEF Typed, TypeOK, BuildRec
  <2>3. \A u \in Tasks : u # t => g[u] = f[u]
    BY Zenon
  <2>4. f[t] = build[t].hops /\ g[t] = build'[t].hops
    BY Zenon
  <2>5. hopsUp = Total(f) + Total(registry)
    BY Zenon DEF NoHopLeaks
  <2> HIDE DEF f, g, n
  <2>6. /\ Total(f) \in Nat /\ Total(g) \in Nat
        /\ Total(g) = Total(f) - f[t] + g[t]
    BY Zenon, <2>1, <2>2, <2>3, TotalChange
  <2>7. registry \in [Ids -> Nat] /\ MaxIds \in Nat
    BY Zenon, DriverAssumption DEF Typed, TypeOK
  <2>8. Total(registry) \in Nat
    BY Zenon, <2>7, FunctionSeq, TotalNat DEF Ids
  <2>9. f[t] \in Nat /\ g[t] \in Nat
    BY Zenon, <2>2
  <2>10. hopsUp' = Total(g) + Total(registry)
    BY <2>4, <2>5, <2>6, <2>8, <2>9
  <2> QED  BY Zenon, <1>1, <2>10 DEF NoHopLeaks, g
<1>7. Wakeups'
  BY <1>1 DEF Wakeups
<1>8. \A id : Users(id)' = Users(id)
  BY Zenon, <1>1 DEF Users, At
<1>9. \A u \in Tasks : build'[u].pc = "record" =>
              build[u].pc = "record" /\ build'[u].id = build[u].id
  BY Zenon
<1>10. \A c \in Classes : Rearranged(entries'[c], entries[c])
  BY Zenon, <1>1, SamePool
<1> HIDE DEF Inv
<1> QED  BY <1>1, <1>2, <1>4, <1>5, <1>6, <1>7, <1>8, <1>9, <1>10, Frame

\* Select, HopBuilt and HopFailed.
LEMMA HopSteps ==
    ASSUME Inv, NEW t \in Tasks, Select(t) \/ HopBuilt(t) \/ HopFailed(t)
    PROVE  Inv'
<1>1. /\ build \in [Tasks -> BuildRec] /\ build[t] \in BuildRec
      /\ HopsWhileBuilding /\ hopsUp \in Nat
  BY Zenon DEF Inv, Typed, TypeOK, BuildRec
<1>2. build[t].hops \in Nat
  BY Zenon, <1>1 DEF BuildRec
<1>3. CASE Select(t)
  <2>1. PICK pc \in {"hop", "fail"} : build' = [build EXCEPT ![t].pc = pc]
    BY Zenon, <1>3 DEF Select
  <2>2. /\ build[t].pc = "select" /\ hopsUp' = hopsUp
        /\ UNCHANGED <<poolVars, ringing, stream, nextId, registry, draining, todo>>
    BY Zenon, <1>3 DEF Select, driverVars
  <2>3. /\ build' \in [Tasks -> BuildRec]
        /\ \A u \in Tasks : u # t => build'[u] = build[u]
        /\ build'[t].pc = pc /\ build'[t].class = build[t].class /\ build'[t].hops = build[t].hops
    BY Zenon, <1>1, <2>1 DEF BuildRec
  <2>4. build[t].hops = 0
    BY Zenon, <1>1, <2>2 DEF HopsWhileBuilding
  <2>5. hopsUp' = hopsUp - build[t].hops + build'[t].hops
    BY <1>1, <2>2, <2>3, <2>4
  <2> QED  BY <1>1, <2>2, <2>3, <2>4, <2>5, BuildFrame
<1>4. CASE HopBuilt(t)
  <2>1. /\ build[t].pc = "hop" /\ hopsUp' = hopsUp + 1
        /\ build' = [build EXCEPT ![t].hops = @ + 1]
        /\ UNCHANGED <<poolVars, ringing, stream, nextId, registry, draining, todo>>
    BY Zenon, <1>4 DEF HopBuilt
  <2>2. build[t].hops + 1 \in Nat
    BY <1>2
  <2>3. /\ build' \in [Tasks -> BuildRec]
        /\ \A u \in Tasks : u # t => build'[u] = build[u]
        /\ build'[t].pc = "hop" /\ build'[t].class = build[t].class
        /\ build'[t].hops = build[t].hops + 1
    BY Zenon, <1>1, <2>1, <2>2 DEF BuildRec
  <2>4. hopsUp' = hopsUp - build[t].hops + build'[t].hops /\ hopsUp' \in Nat
    BY <1>1, <1>2, <2>1, <2>3
  <2> QED  BY Zenon, <2>1, <2>3, <2>4, BuildFrame
<1>5. CASE HopFailed(t)
  <2>1. /\ build[t].pc = "hop" /\ hopsUp' = hopsUp - build[t].hops
        /\ build' = [build EXCEPT ![t].pc = "fail", ![t].hops = 0]
        /\ UNCHANGED <<poolVars, ringing, stream, nextId, registry, draining, todo>>
    BY Zenon, <1>5 DEF HopFailed, Abandon
  <2>2. /\ build' \in [Tasks -> BuildRec]
        /\ \A u \in Tasks : u # t => build'[u] = build[u]
        /\ build'[t].pc = "fail" /\ build'[t].class = build[t].class
        /\ build'[t].hops = 0
    BY Zenon, <1>1, <2>1 DEF BuildRec
  <2>3. hopsUp >= build[t].hops
    <3> DEFINE n == MaxPendingBuilds * Cardinality(Classes)
               f == [u \in Tasks |-> build[u].hops]
               g == [u \in Tasks |-> IF u = t THEN 0 ELSE build[u].hops]
    <3>1. n \in Nat /\ Tasks = 1..n
      BY PoolPolicyAssumption, DriverAssumption, FS_CardinalityType DEF Tasks
    <3>2. f \in [Tasks -> Nat] /\ g \in [Tasks -> Nat]
      BY Zenon, <1>1 DEF BuildRec
    <3>3. \A u \in Tasks : u # t => g[u] = f[u]
      BY Zenon
    <3>4. f[t] = build[t].hops /\ g[t] = 0
      BY Zenon
    <3>5. hopsUp = Total(f) + Total(registry)
      BY Zenon DEF Inv, NoHopLeaks
    <3> HIDE DEF f, g, n
    <3>6. /\ Total(f) \in Nat /\ Total(g) \in Nat
          /\ Total(g) = Total(f) - f[t] + g[t]
      BY Zenon, <3>1, <3>2, <3>3, TotalChange
    <3>7. registry \in [Ids -> Nat] /\ MaxIds \in Nat
      BY Zenon, DriverAssumption DEF Inv, Typed, TypeOK
    <3>8. Total(registry) \in Nat
      BY Zenon, <3>7, FunctionSeq, TotalNat DEF Ids
    <3> QED  BY <1>2, <3>4, <3>5, <3>6, <3>8
  <2>4. hopsUp' \in Nat /\ hopsUp' = hopsUp - build[t].hops + build'[t].hops
    BY <1>1, <1>2, <2>1, <2>2, <2>3
  <2> QED  BY Zenon, <2>1, <2>2, <2>4, BuildFrame
<1> QED  BY Zenon, <1>3, <1>4, <1>5

\* The sums of NoHopLeaks are sums of natural numbers.
LEMMA HopSums ==
    ASSUME NEW r \in [Ids -> Nat], NEW b \in [Tasks -> BuildRec]
    PROVE  Total(r) \in Nat /\ Total([t \in Tasks |-> b[t].hops]) \in Nat
<1> DEFINE n == MaxPendingBuilds * Cardinality(Classes)
           f == [u \in Tasks |-> b[u].hops]
<1>1. n \in Nat /\ Tasks = 1..n
  BY PoolPolicyAssumption, DriverAssumption, FS_CardinalityType DEF Tasks
<1>2. f \in [Tasks -> Nat]
  BY Zenon DEF BuildRec
<1> HIDE DEF f, n
<1>3. Total(f) \in Nat
  BY Zenon, <1>1, <1>2, FunctionSeq, TotalNat
<1>4. MaxIds \in Nat
  BY Zenon, DriverAssumption
<1>5. Total(r) \in Nat
  BY Zenon, <1>4, FunctionSeq, TotalNat DEF Ids
<1> QED  BY Zenon, <1>3, <1>5 DEF f

\* The registry stores the circuit of a build.
LEMMA RegisterSteps ==
    ASSUME Inv, NEW t \in Tasks, Register(t)
    PROVE  Inv'
<1> USE DEF Inv
<1>1. /\ build \in [Tasks -> BuildRec] /\ build[t] \in BuildRec
      /\ registry \in [Ids -> Nat] /\ hopsUp \in Nat
      /\ todo.retire \in SUBSET Ids /\ nextId \in 1 .. MaxIds + 1 /\ MaxIds \in Nat
  BY Zenon, DriverAssumption DEF Typed, TypeOK, BuildRec
<1>2. /\ build[t].pc = "hop" /\ build[t].hops = HopCount[build[t].class]
      /\ nextId <= MaxIds /\ nextId' = nextId + 1
      /\ registry' = [registry EXCEPT ![nextId] = build[t].hops]
      /\ build' = [build EXCEPT ![t].pc = "record", ![t].id = nextId, ![t].hops = 0]
      /\ UNCHANGED <<poolVars, ringing, stream, draining, todo, hopsUp>>
  BY Zenon DEF Register
<1>3. nextId \in Ids /\ Ids \in SUBSET Nat
  BY <1>1, <1>2 DEF Ids
<1>4. build[t].hops \in Nat \ {0} /\ build[t].class \in Classes
  BY Zenon, <1>1, <1>2, DriverAssumption DEF BuildRec
<1>5. /\ build' \in [Tasks -> BuildRec]
      /\ \A u \in Tasks : u # t => build'[u] = build[u]
      /\ build'[t].pc = "record" /\ build'[t].class = build[t].class
      /\ build'[t].id = nextId /\ build'[t].hops = 0
  BY Zenon, <1>1, <1>2, <1>3 DEF BuildRec
<1>6. /\ registry' \in [Ids -> Nat]
      /\ registry'[nextId] = build[t].hops
      /\ \A id \in Ids : id # nextId => registry'[id] = registry[id]
  BY <1>1, <1>2, <1>3, <1>4
<1>7. /\ entries' = entries /\ idIndex' = idIndex /\ ringing' = ringing /\ stream' = stream
      /\ draining' = draining /\ todo' = todo /\ hopsUp' = hopsUp
  BY Zenon, <1>2 DEF poolVars
<1>8. Typed'
  <2>1. nextId' \in 1 .. MaxIds + 1
    BY <1>1, <1>2
  <2> QED  BY <1>5, <1>6, <1>7, <2>1 DEF Typed, TypeOK, BuildRec
<1>9. EveryBuildHasItsEntry' /\ PendingCapped'
  <2>1. \A d \in Classes : InFlight(d)' = InFlight(d)
    BY <1>2, <1>5 DEF InFlight
  <2> QED  BY Zenon, <1>7, <2>1 DEF EveryBuildHasItsEntry, PendingCapped
<1>10. HopsWhileBuilding'
  BY Zenon, <1>5 DEF HopsWhileBuilding
<1>11. NoHopLeaks'
  <2> DEFINE n == MaxPendingBuilds * Cardinality(Classes)
             f == [u \in Tasks |-> build[u].hops]
             g == [u \in Tasks |-> build'[u].hops]
  <2>1. n \in Nat /\ Tasks = 1..n
    BY PoolPolicyAssumption, DriverAssumption, FS_CardinalityType DEF Tasks
  <2>2. f \in [Tasks -> Nat] /\ g \in [Tasks -> Nat]
    BY Zenon, <1>1, <1>5 DEF BuildRec
  <2>3. \A u \in Tasks : u # t => g[u] = f[u]
    BY Zenon, <1>5
  <2>4. f[t] = build[t].hops /\ g[t] = 0
    BY Zenon, <1>5
  <2>5. hopsUp = Total(f) + Total(registry)
    BY Zenon DEF NoHopLeaks
  <2> HIDE DEF f, g, n
  <2>6. /\ Total(f) \in Nat /\ Total(g) \in Nat
        /\ Total(g) = Total(f) - f[t] + g[t]
    BY <2>1, <2>2, <2>3, TotalChange
  <2>7. /\ Total(registry) \in Nat /\ Total(registry') \in Nat
        /\ Total(registry') = Total(registry) - registry[nextId] + registry'[nextId]
    BY <1>1, <1>3, <1>6, TotalChange DEF Ids
  <2>8. registry[nextId] = 0
    BY <1>3 DEF Issued
  <2>9. hopsUp' = Total(g) + Total(registry')
    BY <1>4, <1>6, <1>7, <2>4, <2>5, <2>6, <2>7, <2>8
  <2> QED  BY Zenon, <2>9 DEF NoHopLeaks, g
<1>12. Wakeups'
  BY Zenon, <1>7 DEF Wakeups
<1>13. Distinct(entries') /\ Indexed(entries', idIndex')
  BY Zenon, <1>7
<1>14. \A id : Users(id)' = Users(id)
  BY Zenon, <1>7 DEF Users, At
<1>15. Counted'
  <2>1. Inherits(entries', entries)
    BY Zenon, <1>7 DEF Inherits
  <2> QED  BY Zenon, <1>14, <2>1, CountedFrame
<1>16. Issued'
  <2>1. ~Has(entries, nextId) /\ nextId \notin todo.retire /\ Users(nextId) = {}
    BY <1>1, <1>3 DEF Issued
  <2>2. \A id \in Ids : Has(entries', id) => id < nextId' /\ registry'[id] > 0
    BY <1>2, <1>3, <1>6, <1>7, <2>1 DEF Issued
  <2>3. \A id \in todo'.retire : id < nextId' /\ ~Has(entries', id)
    BY <1>1, <1>2, <1>3, <1>7 DEF Issued
  <2>4. \A u \in Tasks : u # t /\ build[u].pc = "record" =>
           build[u].id \in Ids /\ build[u].id # nextId /\ build[u].id < nextId'
    BY <1>2, <1>3 DEF Issued
  <2>5. ASSUME NEW u \in Tasks, build'[u].pc = "record"
        PROVE  /\ build'[u].id \in Ids /\ build'[u].id < nextId' /\ registry'[build'[u].id] > 0
               /\ ~Has(entries', build'[u].id) /\ build'[u].id \notin todo'.retire
               /\ Users(build[u].id)' = {}
    <3>1. CASE u = t
      <4>1. nextId < nextId' /\ registry'[nextId] > 0
        BY <1>2, <1>3, <1>4, <1>6
      <4>2. Users(build[t].id)' = Users(build'[t].id)
        BY Zenon, <1>7 DEF Users, At
      <4>3. Users(build'[t].id) = {}
        BY Zenon, <1>5, <2>1
      <4> QED  BY <1>3, <1>5, <1>7, <2>1, <3>1, <4>1, <4>2, <4>3
    <3>2. CASE u # t
      <4>1. build'[u] = build[u] /\ build[u].pc = "record"
        BY Zenon, <1>5, <2>5, <3>2
      <4>2. build[u].id \in Ids /\ build[u].id # nextId /\ build[u].id < nextId'
        BY Zenon, <2>4, <3>2, <4>1
      <4>3. /\ registry[build[u].id] > 0 /\ ~Has(entries, build[u].id)
            /\ build[u].id \notin todo.retire /\ Users(build[u].id) = {}
        BY Zenon, <4>1 DEF Issued
      <4>4. Users(build[u].id)' = Users(build'[u].id)
        BY Zenon, <1>7 DEF Users, At
      <4> QED  BY Zenon, <1>6, <1>7, <4>1, <4>2, <4>3, <4>4
    <3> QED  BY Zenon, <3>1, <3>2
  <2>6. \A u, v \in Tasks : build'[u].pc = "record" /\ build'[v].pc = "record"
          /\ build'[u].id = build'[v].id => u = v
    BY <1>5, <2>4 DEF Issued
  <2>7. \A id \in Ids : id >= nextId' => registry'[id] = 0 /\ Users(id)' = {}
    <3>1. \A id \in Ids : id >= nextId' => id >= nextId /\ id # nextId
      BY <1>2, <1>3
    <3> QED  BY Zenon, <1>6, <1>14, <3>1 DEF Issued
  <2>8. \A r \in Streams : At(r, "using")' => stream'[r].id \in Ids
    BY Zenon, <1>7 DEF Issued, At
  <2> QED  BY <2>2, <2>3, <2>5, <2>6, <2>7, <2>8 DEF Issued
<1> QED  BY <1>8, <1>9, <1>10, <1>11, <1>12, <1>13, <1>15, <1>16

\* record_build_failure.
LEMMA BuildFailedSteps ==
    ASSUME Inv, NEW t \in Tasks, BuildFailed(t)
    PROVE  Inv'
<1> USE DEF Inv
<1> DEFINE c == build[t].class
           es == entries[c]
           new == RecordBuildFailure(es)
<1>1. /\ build[t].pc = "fail" /\ FirstBuilding(es) > 0
      /\ entries' = [entries EXCEPT ![c] = RecordBuildFailure(@)]
      /\ ringing' = TRUE /\ build' = [build EXCEPT ![t] = NoBuild]
      /\ UNCHANGED <<idIndex, stream, driverVars>>
  BY Zenon DEF BuildFailed, Rings
<1>2. entries \in [Classes -> Seq(Entry)] /\ c \in Classes
  BY Zenon DEF Typed, TypeOK
<1>3. es \in Seq(Entry) /\ entries' = [entries EXCEPT ![c] = new]
  BY Zenon, <1>1, <1>2
<1>4. new \in Seq(Entry) /\ Count(new, "Building") = Count(es, "Building") - 1
  BY <1>1, <1>3, RecordBuildFailureIs, Zenon
<1>5. Rearranged(new, es)
  BY Zenon, <1>1, <1>3, RearrangedRemoved
<1> HIDE DEF new
<1>6. /\ entries' \in [Classes -> Seq(Entry)]
      /\ \A d \in Classes : Rearranged(entries'[d], entries[d])
      /\ entries'[c] = new
      /\ \A d \in Classes : d # c => entries'[d] = entries[d]
  BY <1>2, <1>3, <1>4, <1>5, RearrangedClass
<1>7. /\ build' \in [Tasks -> BuildRec]
      /\ \A u \in Tasks : build'[u].pc = "record" =>
            u # t /\ build[u].pc = "record" /\ build'[u].id = build[u].id
      /\ \A u \in Tasks : build'[u].hops = build[u].hops
      /\ HopsWhileBuilding'
      /\ \A d \in Classes : Cardinality(InFlight(d)') =
            IF d = c THEN Cardinality(InFlight(d)) - 1 ELSE Cardinality(InFlight(d))
  BY Zenon, <1>1, Freed
<1>8. /\ stream' = stream /\ idIndex' = idIndex /\ todo' = todo
      /\ nextId' = nextId /\ registry' = registry /\ hopsUp' = hopsUp /\ draining' = draining
  BY Zenon, <1>1 DEF driverVars
<1>9. Typed'
  BY <1>1, <1>6, <1>7, <1>8 DEF Typed, TypeOK, BuildRec
<1>10. EveryBuildHasItsEntry' /\ PendingCapped'
  <2>1. ASSUME NEW d \in Classes
        PROVE  /\ Count(entries'[d], "Building") = Cardinality(InFlight(d)') + todo'.spawn[d]
               /\ Count(entries'[d], "Building") <= MaxPendingBuilds
    <3>1. /\ Count(entries[d], "Building") = Cardinality(InFlight(d)) + todo.spawn[d]
          /\ Count(entries[d], "Building") <= MaxPendingBuilds
      BY Zenon DEF EveryBuildHasItsEntry, PendingCapped
    <3>2. /\ Count(entries[d], "Building") \in Nat /\ Cardinality(InFlight(d)) \in Nat
          /\ todo.spawn[d] \in Nat /\ MaxPendingBuilds \in Nat
      BY Zenon, <1>2, CountBuilding, InFlightFinite, PoolPolicyAssumption DEF Typed
    <3>3. CASE d = c
      <4>1. /\ Count(entries'[d], "Building") = Count(entries[d], "Building") - 1
            /\ Cardinality(InFlight(d)') = Cardinality(InFlight(d)) - 1
            /\ todo'.spawn[d] = todo.spawn[d]
        BY Zenon, <1>4, <1>6, <1>7, <1>8, <3>3
      <4> DEFINE a == Count(entries[d], "Building")
                 b == Cardinality(InFlight(d))
                 p == todo.spawn[d]
      <4>2. a \in Nat /\ b \in Nat /\ p \in Nat /\ a = b + p /\ a <= MaxPendingBuilds
        BY Zenon, <3>1, <3>2
      <4> HIDE DEF a, b, p
      <4>3. a - 1 = (b - 1) + p /\ a - 1 <= MaxPendingBuilds
        BY <3>2, <4>2
      <4> QED  BY Zenon, <4>1, <4>3 DEF a, b, p
    <3>4. CASE d # c
      BY Zenon, <1>6, <1>7, <1>8, <3>1, <3>4
    <3> QED  BY Zenon, <3>3, <3>4
  <2> QED  BY Zenon, <2>1 DEF EveryBuildHasItsEntry, PendingCapped
<1>11. NoHopLeaks'
  BY Zenon, <1>7, <1>8, HopsFrame
<1>12. \A n : Users(n)' = Users(n)
  BY Zenon, <1>8 DEF Users, At
<1>13. Wakeups'
  BY Zenon, <1>1 DEF Wakeups
<1> HIDE DEF Inv
<1> QED  BY <1>6, <1>7, <1>8, <1>9, <1>10, <1>11, <1>12, <1>13, Frame

-----------------------------------------------------------------------------
(* The driver executes the actions of a tick.                               *)

\* Drain.
LEMMA DrainSteps ==
    ASSUME Inv, NEW id \in Ids, DoDrain(id)
    PROVE  Inv'
<1> USE DEF Inv
<1>1. /\ todo' = [todo EXCEPT !.drain = @ \ {id}] /\ draining' = draining \cup {id}
      /\ UNCHANGED <<poolVars, ringing, stream, build, nextId, registry, hopsUp>>
  BY Zenon DEF DoDrain
<1>2. /\ todo' \in [drain : SUBSET Ids, retire : SUBSET Ids, spawn : [Classes -> Nat]]
      /\ todo'.retire = todo.retire /\ todo'.spawn = todo.spawn
  BY Zenon, <1>1 DEF Typed
<1>3. /\ entries' = entries /\ idIndex' = idIndex /\ ringing' = ringing /\ stream' = stream
      /\ nextId' = nextId /\ registry' = registry /\ build' = build /\ hopsUp' = hopsUp
  BY Zenon, <1>1 DEF poolVars
<1>4. Typed'
  BY Zenon, <1>1, <1>2, <1>3 DEF Typed, TypeOK
<1>5. EveryBuildHasItsEntry' /\ PendingCapped' /\ HopsWhileBuilding' /\ Wakeups'
  BY Zenon, <1>2, <1>3 DEF EveryBuildHasItsEntry, PendingCapped, HopsWhileBuilding, InFlight, Wakeups
<1>6. NoHopLeaks'
  BY Zenon, <1>3, HopsFrame
<1>7. \A n : Users(n)' = Users(n)
  BY Zenon, <1>3 DEF Users, At
<1>8. \A c \in Classes : Rearranged(entries'[c], entries[c])
  BY Zenon, <1>3, SamePool
<1> HIDE DEF Inv
<1> QED  BY <1>2, <1>3, <1>4, <1>5, <1>6, <1>7, <1>8, Frame

\* SpawnBuild.
LEMMA SpawnSteps ==
    ASSUME Inv, NEW c \in Classes, DoSpawn(c)
    PROVE  Inv'
<1> USE DEF Inv
<1>1. /\ todo.spawn[c] > 0 /\ todo' = [todo EXCEPT !.spawn[c] = @ - 1] /\ Dispatch(c)
      /\ UNCHANGED <<poolVars, ringing, stream, nextId, registry, draining, hopsUp>>
  BY Zenon DEF DoSpawn
<1>2. todo \in [drain : SUBSET Ids, retire : SUBSET Ids, spawn : [Classes -> Nat]]
      /\ todo.spawn \in [Classes -> Nat]
  BY Zenon DEF Typed
<1>3. todo.spawn[c] - 1 \in Nat
  BY <1>1, <1>2
<1>4. /\ todo' \in [drain : SUBSET Ids, retire : SUBSET Ids, spawn : [Classes -> Nat]]
      /\ todo'.retire = todo.retire
      /\ \A d \in Classes : todo'.spawn[d] = IF d = c THEN todo.spawn[d] - 1 ELSE todo.spawn[d]
  BY Zenon, <1>1, <1>2, <1>3
<1>5. /\ entries' = entries /\ idIndex' = idIndex /\ ringing' = ringing /\ stream' = stream
      /\ nextId' = nextId /\ registry' = registry /\ draining' = draining /\ hopsUp' = hopsUp
  BY Zenon, <1>1 DEF poolVars
<1>6. \A d \in Classes : /\ Count(entries[d], "Building") = Cardinality(InFlight(d)) + todo.spawn[d]
                         /\ Count(entries[d], "Building") <= MaxPendingBuilds
                         /\ Cardinality(InFlight(d)) \in Nat /\ todo.spawn[d] \in Nat
  BY Zenon, <1>2, InFlightFinite DEF EveryBuildHasItsEntry, PendingCapped
<1>7. Cardinality(InFlight(c)) < MaxPendingBuilds
  <2>1. MaxPendingBuilds \in Nat
    BY Zenon, PoolPolicyAssumption
  <2> QED  BY <1>1, <1>6, <2>1
<1>8. FreeTask \in Tasks /\ build[FreeTask].pc = "free"
  BY Zenon, <1>7, TaskLeft
<1>9. /\ build' \in [Tasks -> BuildRec]
      /\ \A t \in Tasks : build'[t].pc = "record" =>
            build[t].pc = "record" /\ build'[t].id = build[t].id
      /\ \A t \in Tasks : build'[t].hops = build[t].hops
      /\ HopsWhileBuilding'
      /\ \A d \in Classes : Cardinality(InFlight(d)') =
            IF d = c THEN Cardinality(InFlight(d)) + 1 ELSE Cardinality(InFlight(d))
  BY Zenon, <1>1, <1>8, Dispatched
<1>10. Typed'
  BY Zenon, <1>4, <1>5, <1>9 DEF Typed, TypeOK, BuildRec
<1>11. EveryBuildHasItsEntry' /\ PendingCapped'
  <2>1. \A d \in Classes : Count(entries[d], "Building") = Cardinality(InFlight(d)') + todo'.spawn[d]
    BY <1>4, <1>6, <1>9
  <2> QED  BY Zenon, <1>5, <1>6, <2>1 DEF EveryBuildHasItsEntry, PendingCapped
<1>12. NoHopLeaks' /\ Wakeups'
  BY Zenon, <1>5, <1>9, HopsFrame DEF Wakeups
<1>13. \A n : Users(n)' = Users(n)
  BY Zenon, <1>5 DEF Users, At
<1>14. \A d \in Classes : Rearranged(entries'[d], entries[d])
  BY Zenon, <1>5, SamePool
<1> HIDE DEF Inv
<1> QED  BY <1>4, <1>5, <1>9, <1>10, <1>11, <1>12, <1>13, <1>14, Frame

\* Retire: take() and destroy_circuit.
LEMMA RetireSteps ==
    ASSUME Inv, NEW id \in Ids, DoRetire(id)
    PROVE  Inv'
<1> USE DEF Inv
<1>1. /\ id \in todo.retire /\ todo' = [todo EXCEPT !.retire = @ \ {id}]
      /\ draining' = draining \ {id} /\ registry' = [registry EXCEPT ![id] = 0]
      /\ hopsUp' = hopsUp - registry[id]
      /\ UNCHANGED <<poolVars, ringing, stream, build, nextId>>
  BY Zenon DEF DoRetire
<1>2. /\ todo' \in [drain : SUBSET Ids, retire : SUBSET Ids, spawn : [Classes -> Nat]]
      /\ todo'.retire = todo.retire \ {id} /\ todo'.spawn = todo.spawn
      /\ todo.retire \in SUBSET Ids
  BY Zenon, <1>1 DEF Typed
<1>3. registry \in [Ids -> Nat] /\ build \in [Tasks -> BuildRec]
      /\ MaxIds \in Nat /\ Ids \in SUBSET Nat
  BY DriverAssumption DEF Typed, TypeOK, BuildRec, Ids
<1>4. /\ registry' \in [Ids -> Nat] /\ registry'[id] = 0
      /\ \A n \in Ids : n # id => registry'[n] = registry[n]
  BY Zenon, <1>1, <1>3
<1>5. /\ entries' = entries /\ idIndex' = idIndex /\ ringing' = ringing /\ stream' = stream
      /\ nextId' = nextId /\ build' = build
  BY Zenon, <1>1 DEF poolVars
<1>6. NoHopLeaks' /\ hopsUp' \in Nat
  <2> DEFINE f == [u \in Tasks |-> build[u].hops]
  <2>1. hopsUp = Total(f) + Total(registry)
    BY Zenon DEF NoHopLeaks
  <2>2. Total(f) \in Nat
    BY Zenon, <1>3, HopSums
  <2> HIDE DEF f
  <2>3. /\ Total(registry) \in Nat /\ Total(registry') \in Nat
        /\ Total(registry') = Total(registry) - registry[id] + registry'[id]
    BY <1>3, <1>4, TotalChange DEF Ids
  <2>4. registry[id] \in Nat
    BY Zenon, <1>3
  <2>5. hopsUp' = Total(f) + Total(registry') /\ hopsUp' \in Nat
    BY <1>1, <1>4, <2>1, <2>2, <2>3, <2>4
  <2> QED  BY Zenon, <1>5, <2>5 DEF NoHopLeaks, f
<1>7. Typed'
  BY Zenon, <1>1, <1>2, <1>4, <1>5, <1>6 DEF Typed, TypeOK
<1>8. EveryBuildHasItsEntry' /\ PendingCapped' /\ HopsWhileBuilding' /\ Wakeups'
  BY Zenon, <1>2, <1>5 DEF EveryBuildHasItsEntry, PendingCapped, HopsWhileBuilding, InFlight, Wakeups
<1>9. Distinct(entries') /\ Indexed(entries', idIndex')
  BY Zenon, <1>5
<1>10. \A n : Users(n)' = Users(n)
  BY <1>5 DEF Users, At
<1>11. Counted'
  <2>1. Inherits(entries', entries)
    BY Zenon, <1>5 DEF Inherits
  <2> QED  BY Zenon, <1>10, <2>1, CountedFrame
<1>12. Issued'
  <2>1. ~Has(entries, id)
    BY Zenon, <1>1 DEF Issued
  <2>2. \A n \in Ids : Has(entries', n) => n < nextId' /\ registry'[n] > 0
    BY Zenon, <1>4, <1>5, <2>1 DEF Issued
  <2>3. \A n \in todo'.retire : n < nextId' /\ ~Has(entries', n)
    BY Zenon, <1>2, <1>5 DEF Issued
  <2>4. ASSUME NEW u \in Tasks, build'[u].pc = "record"
        PROVE  /\ build'[u].id \in Ids /\ build'[u].id < nextId' /\ registry'[build'[u].id] > 0
               /\ ~Has(entries', build'[u].id) /\ build'[u].id \notin todo'.retire
               /\ Users(build[u].id)' = {}
    <3>1. /\ build[u].id \in Ids /\ build[u].id < nextId /\ registry[build[u].id] > 0
          /\ ~Has(entries, build[u].id) /\ build[u].id \notin todo.retire
          /\ Users(build[u].id) = {}
      BY Zenon, <1>5, <2>4 DEF Issued
    <3>2. build[u].id # id
      BY Zenon, <1>1, <3>1
    <3>3. Users(build[u].id)' = Users(build[u].id)
      BY Zenon, <1>5 DEF Users, At
    <3> QED  BY <1>2, <1>4, <1>5, <3>1, <3>2, <3>3
  <2>5. \A u, v \in Tasks : build'[u].pc = "record" /\ build'[v].pc = "record"
          /\ build'[u].id = build'[v].id => u = v
    BY Zenon, <1>5 DEF Issued
  <2>6. \A n \in Ids : n >= nextId' => registry'[n] = 0 /\ Users(n)' = {}
    BY Zenon, <1>4, <1>5, <1>10 DEF Issued
  <2>7. \A r \in Streams : At(r, "using")' => stream'[r].id \in Ids
    BY Zenon, <1>5 DEF Issued, At
  <2> QED  BY <2>2, <2>3, <2>4, <2>5, <2>6, <2>7 DEF Issued
<1> QED  BY <1>6, <1>7, <1>8, <1>9, <1>11, <1>12

-----------------------------------------------------------------------------
(* Streams come to circuits and leave them.                                 *)

\* The entries stay where they are, with their ids.
SameNames(E2, E) ==
    \A c \in Classes :
      /\ Len(E2[c]) = Len(E[c])
      /\ \A i \in 1..Len(E[c]) : /\ E2[c][i].id = E[c][i].id
                                 /\ E2[c][i].state = "Building" <=> E[c][i].state = "Building"

\* What depends on the names only.
LEMMA SameNamesPool ==
    ASSUME NEW E, NEW E2, NEW index, Distinct(E), Indexed(E, index), SameNames(E2, E)
    PROVE  /\ Distinct(E2) /\ Indexed(E2, index)
           /\ \A id \in Ids : Has(E2, id) => Has(E, id)
<1>1. Distinct(E2)
  BY DEF SameNames, Distinct
<1>2. Indexed(E2, index)
  BY DEF SameNames, Indexed
<1>3. \A id \in Ids : Has(E2, id) => Has(E, id)
  BY DEF SameNames, Has
<1> QED  BY Zenon, <1>1, <1>2, <1>3

\* One entry changes its streams.
LEMMA SameNamesUpdated ==
    ASSUME Typed, NEW c \in Classes, NEW new, NEW i, Updated(new, entries[c], i),
           new[i].id = entries[c][i].id, new[i].state = entries[c][i].state,
           entries' = [entries EXCEPT ![c] = new]
    PROVE  /\ entries' \in [Classes -> Seq(Entry)]
           /\ entries'[c] = new /\ \A d \in Classes : d # c => entries'[d] = entries[d]
           /\ SameNames(entries', entries)
           /\ \A d \in Classes : Count(entries'[d], "Building") = Count(entries[d], "Building")
<1>1. entries \in [Classes -> Seq(Entry)]
  BY Zenon DEF Typed, TypeOK
<1>2. new \in Seq(Entry) /\ Len(new) = Len(entries[c]) /\ i \in 1..Len(entries[c])
      /\ \A j \in 1..Len(entries[c]) : j # i => new[j] = entries[c][j]
  BY Zenon DEF Updated
<1>3. /\ entries' \in [Classes -> Seq(Entry)]
      /\ entries'[c] = new /\ \A d \in Classes : d # c => entries'[d] = entries[d]
  BY Zenon, <1>1, <1>2
<1>4. ASSUME NEW d \in Classes
      PROVE  /\ Len(entries'[d]) = Len(entries[d])
             /\ \A j \in 1..Len(entries[d]) :
                  /\ entries'[d][j].id = entries[d][j].id
                  /\ entries'[d][j].state = "Building" <=> entries[d][j].state = "Building"
  <2>1. CASE d = c
    BY Zenon, <1>2, <1>3, <2>1
  <2>2. CASE d # c
    BY Zenon, <1>3, <2>2
  <2> QED  BY Zenon, <2>1, <2>2
<1>5. SameNames(entries', entries)
  BY Zenon, <1>4 DEF SameNames
<1>6. entries[c] \in Seq(Entry)
  BY Zenon, <1>1
<1>7. Count(new, "Building") = Count(entries[c], "Building")
  BY Zenon, <1>6, CountUpdated
<1> QED  BY Zenon, <1>3, <1>5, <1>7

\* A caller served by acquire cannot have been one of those that wait.
LEMMA TakeWakes ==
    ASSUME Inv, NEW s \in Streams,
           Serves(StreamClass[s], entries[StreamClass[s]]),
           \A d \in Classes : d # StreamClass[s] => entries'[d] = entries[d],
           \A r \in Streams : r # s => stream'[r] = stream[r],
           stream'[s].pc \notin {"full", "asleep"}, ringing' = ringing
    PROVE  Wakeups'
<1> SUFFICES ASSUME NEW r \in Streams, stream'[r].pc \in {"full", "asleep"},
                    ~stream'[r].notified, ~ringing'
             PROVE  ~Serves(StreamClass[r], entries'[StreamClass[r]])
  BY Zenon DEF Wakeups
<1>1. r # s /\ stream'[r] = stream[r]
  BY Zenon
<1>2. ~Serves(StreamClass[r], entries[StreamClass[r]])
  BY Zenon, <1>1 DEF Inv, Wakeups
<1>3. StreamClass[r] # StreamClass[s] /\ StreamClass[r] \in Classes
  BY Zenon, <1>2, DriverAssumption
<1> QED  BY Zenon, <1>2, <1>3

\* new is es with n streams on its entry h.
Joined(new, es, h, n) ==
    /\ Updated(new, es, h)
    /\ new[h].id = es[h].id /\ new[h].state = es[h].state
    /\ new[h].streams = n

\* Ready: the stream is on the circuit.
LEMMA TakeReady ==
    ASSUME Inv, NEW s \in Streams, stream[s].pc \notin {"using"},
           NEW new, NEW c, c = StreamClass[s], Serves(c, entries[c]),
           NEW h \in 1..Len(entries[c]), HasRoom(c, entries[c][h]),
           Joined(new, entries[c], h, entries[c][h].streams + 1),
           entries' = [entries EXCEPT ![c] = new],
           stream' = Goto(s, "using", entries[c][h].id), build' = build,
           UNCHANGED <<idIndex, ringing, driverVars>>
    PROVE  Inv'
<1> USE DEF Inv
<1> DEFINE id0 == entries[c][h].id
<1>1. c \in Classes /\ entries[c] \in Seq(Entry) /\ stream \in [Streams -> StreamRec]
  BY Zenon, DriverAssumption DEF Typed, TypeOK, StreamRec
<1>2. id0 \in Ids /\ id0 # NoId
  BY Zenon, <1>1 DEF Distinct, HasRoom
<1>3. /\ entries' \in [Classes -> Seq(Entry)]
      /\ entries'[c] = new /\ \A d \in Classes : d # c => entries'[d] = entries[d]
      /\ SameNames(entries', entries)
      /\ \A d \in Classes : Count(entries'[d], "Building") = Count(entries[d], "Building")
  BY Zenon, <1>1, SameNamesUpdated DEF Joined
<1>4. /\ idIndex' = idIndex /\ ringing' = ringing /\ todo' = todo /\ nextId' = nextId
      /\ registry' = registry /\ hopsUp' = hopsUp /\ draining' = draining
  BY Zenon DEF driverVars
<1>5. /\ stream' \in [Streams -> StreamRec]
      /\ \A r \in Streams : r # s => stream'[r] = stream[r]
      /\ stream'[s].pc = "using" /\ stream'[s].id = id0
  BY Zenon, <1>1, <1>2 DEF Goto, StreamRec
<1>6. Typed'
  BY <1>3, <1>4, <1>5 DEF Typed, TypeOK, StreamRec
<1>7. /\ Distinct(entries') /\ Indexed(entries', idIndex)
      /\ \A id \in Ids : Has(entries', id) => Has(entries, id)
  BY Zenon, <1>3, SameNamesPool
<1>8. /\ \A id : id # id0 => Users(id)' = Users(id)
      /\ \A id : id = id0 => Users(id)' = Users(id) \cup {s} /\ s \notin Users(id)
  BY <1>5 DEF Users, At
<1>9. Issued'
  <2>1. Has(entries, id0)
    BY Zenon, <1>1 DEF Has
  <2>2. \A id \in Ids : ~Has(entries, id) /\ Users(id) = {} => Users(id)' = {}
    BY Zenon, <1>8, <2>1
  <2>3. \A r \in Streams : At(r, "using")' => stream'[r].id \in Ids
    BY Zenon, <1>2, <1>5 DEF Issued, At
  <2>4. \A t \in Tasks : build'[t].pc = "record" =>
              build[t].pc = "record" /\ build'[t].id = build[t].id
    BY Zenon
  <2> HIDE DEF id0
  <2> QED  BY Zenon, <1>4, <1>7, <2>2, <2>3, <2>4, IssuedFrame
<1>10. Counted'
  <2> SUFFICES ASSUME NEW d \in Classes, NEW j \in 1..Len(entries'[d]), entries'[d][j].id # NoId
               PROVE  Cardinality(Users(entries[d][j].id)') <= entries'[d][j].streams
    BY Zenon DEF Counted
  <2>1. j \in 1..Len(entries[d]) /\ entries'[d][j].id = entries[d][j].id
    BY Zenon, <1>3 DEF SameNames
  <2>2. Cardinality(Users(entries[d][j].id)) <= entries[d][j].streams
    BY Zenon, <2>1 DEF Counted
  <2>3. ASSUME NEW id, id = entries'[d][j].id
        PROVE  Users(entries[d][j].id)' = Users(id)'
    BY Zenon, <2>3 DEF Users, At
  <2>4. CASE entries[d][j].id = id0
    <3>1. d = c /\ j = h
      BY <1>1, <1>2, <2>1, <2>4 DEF Distinct
    <3>2. IsFiniteSet(Users(id0)) /\ Users(id0) \in SUBSET Streams
      BY Zenon, FS_Subset, DriverAssumption DEF Users
    <3>3. /\ Cardinality(Users(id0) \cup {s}) = Cardinality(Users(id0)) + 1
          /\ Cardinality(Users(id0)) \in Nat
      BY Zenon, <1>8, <3>2, FS_AddElement, FS_CardinalityType
    <3>4. entries'[d][j].streams = entries[d][j].streams + 1
      BY Zenon, <1>3, <3>1 DEF Joined
    <3>5. Users(entries[d][j].id)' = Users(id0) \cup {s}
      BY Zenon, <1>8, <2>1, <2>3, <2>4
    <3>6. entries[d][j].streams \in Nat
      <4>1. entries[d] \in Seq(Entry)
        BY Zenon, <1>1, <3>1
      <4>2. ASSUME NEW E, NEW q \in Seq(E), NEW k \in 1..Len(q)  PROVE q[k] \in E
        BY <4>2
      <4>3. entries[d][j] \in Entry
        BY Zenon, <2>1, <4>1, <4>2
      <4> QED  BY Zenon, <4>3 DEF Entry
    <3>7. ASSUME NEW u \in Nat, NEW n \in Nat, u <= n  PROVE u + 1 <= n + 1
      BY <3>7
    <3>8. Cardinality(Users(id0)) + 1 <= entries[d][j].streams + 1
      BY Zenon, <2>2, <2>4, <3>3, <3>6, <3>7
    <3> QED  BY Zenon, <3>3, <3>4, <3>5, <3>8
  <2>5. CASE entries[d][j].id # id0
    <3>1. entries'[d][j] = entries[d][j]
      <4>1. CASE d # c
        BY Zenon, <1>3, <4>1
      <4>2. CASE d = c
        <5>1. j # h
          BY Zenon, <2>5, <4>2
        <5> QED  BY Zenon, <1>3, <2>1, <4>2, <5>1 DEF Joined, Updated
      <4> QED  BY Zenon, <4>1, <4>2
    <3>2. Users(entries[d][j].id)' = Users(entries[d][j].id)
      BY Zenon, <1>8, <2>1, <2>3, <2>5
    <3> QED  BY Zenon, <2>2, <3>1, <3>2
  <2> QED  BY Zenon, <2>4, <2>5
<1>11. EveryBuildHasItsEntry' /\ PendingCapped' /\ HopsWhileBuilding'
  <2>1. \A d \in Classes : Cardinality(InFlight(d)') = Cardinality(InFlight(d))
    BY Zenon DEF InFlight
  <2> QED  BY Zenon, <1>3, <1>4, <2>1, PendingFrame DEF HopsWhileBuilding
<1>12. NoHopLeaks'
  BY Zenon, <1>4, HopsFrame
<1>13. Wakeups'
  <2> HIDE DEF Inv
  <2> QED  BY Zenon, <1>3, <1>4, <1>5, TakeWakes
<1> QED  BY <1>4, <1>6, <1>7, <1>9, <1>10, <1>11, <1>12, <1>13

\* What the three answers of acquire say.
LEMMA GrantsMeans ==
    ASSUME NEW c, NEW es, NEW o, Grants(c, es, o)
    PROVE  /\ o.res = "Ready" => \E h \in 1..Len(es) :
                 HasRoom(c, es[h]) /\ o.id = es[h].id /\ Joined(o.entries, es, h, es[h].streams + 1)
           /\ o.res = "Pending" => o.id = NoId /\ \E b \in 1..Len(es) : Joined(o.entries, es, b, es[b].streams)
           /\ o.res = "BuildFirst" => o.id = NoId /\ o.entries = InsertBuilding(es, 1) /\ MayBuild(c, es)
           /\ o.res \in {"Ready", "Pending", "BuildFirst"}
BY Zenon DEF Grants, Joined

\* Pending and BuildFirst: the caller gets no circuit.
LEMMA TakeQueued ==
    ASSUME Inv, NEW s \in Streams, stream[s].pc \notin {"using"},
           NEW c, c = StreamClass[s], Serves(c, entries[c]),

           entries' \in [Classes -> Seq(Entry)], build' \in [Tasks -> BuildRec],
           \A d \in Classes : Rearranged(entries'[d], entries[d]),
           \A d \in Classes : d # c => entries'[d] = entries[d],
           \A t \in Tasks : build'[t].pc = "record" =>
              build[t].pc = "record" /\ build'[t].id = build[t].id,
           \A t \in Tasks : build'[t].hops = build[t].hops,
           HopsWhileBuilding', EveryBuildHasItsEntry', PendingCapped',
           stream' = Goto(s, "idle", NoId),
           UNCHANGED <<idIndex, ringing, driverVars>>
    PROVE  Inv'
<1>1. /\ idIndex' = idIndex /\ ringing' = ringing /\ todo' = todo /\ nextId' = nextId
      /\ registry' = registry /\ hopsUp' = hopsUp /\ draining' = draining
  BY Zenon DEF driverVars
<1>2. stream \in [Streams -> StreamRec]
  BY Zenon DEF Inv, Typed, TypeOK, StreamRec
<1>3. /\ stream' \in [Streams -> StreamRec]
      /\ \A r \in Streams : r # s => stream'[r] = stream[r]
      /\ stream'[s].pc = "idle"
  BY Zenon, <1>2 DEF Goto, StreamRec
<1>4. Typed'
  BY Zenon, <1>1, <1>3 DEF Inv, Typed, TypeOK, StreamRec, BuildRec
<1>5. \A id : Users(id)' = Users(id)
  BY <1>3 DEF Users, At
<1>6. NoHopLeaks'
  BY Zenon, <1>1, HopsFrame DEF Inv
<1>7. stream'[s].pc \notin {"full", "asleep"}
  BY Zenon, <1>3
<1>8. Wakeups'
  BY Zenon, <1>1, <1>3, <1>7, TakeWakes
<1>9. UNCHANGED <<idIndex, nextId, registry>> /\ todo'.retire = todo.retire
  BY Zenon, <1>1
<1> QED  BY <1>4, <1>5, <1>6, <1>8, <1>9, Frame

\* A caller takes what it is granted.
LEMMA TakeSteps ==
    ASSUME Inv, NEW s \in Streams, stream[s].pc \notin {"using"}, NEW o, Take(s, o),
           Grants(StreamClass[s], entries[StreamClass[s]], o),
           Serves(StreamClass[s], entries[StreamClass[s]])
    PROVE  Inv'
<1> DEFINE c == StreamClass[s]
           es == entries[c]
           new == o.entries
           res == o.res
<1>1. /\ c \in Classes /\ es \in Seq(Entry)
      /\ Typed /\ HopsWhileBuilding /\ EveryBuildHasItsEntry /\ PendingCapped
      /\ build \in [Tasks -> BuildRec]
  BY Zenon, DriverAssumption DEF Inv, Typed, TypeOK, BuildRec
<1>2. /\ entries' = [entries EXCEPT ![c] = new]
      /\ UNCHANGED <<idIndex, ringing, driverVars>>
      /\ res = "BuildFirst" => Dispatch(c)
      /\ res # "BuildFirst" => build' = build
  BY Zenon DEF Take
<1>3. /\ res = "Ready" => stream' = Goto(s, "using", o.id)
      /\ res # "Ready" => stream' = Goto(s, "idle", o.id)
  <2>1. stream' = Goto(s, IF res = "Ready" THEN "using" ELSE "idle", o.id)
    BY Zenon DEF Take
  <2> HIDE DEF res
  <2> QED  BY Zenon, <2>1
<1>4. /\ res = "Ready" => \E h \in 1..Len(es) :
            HasRoom(c, es[h]) /\ o.id = es[h].id /\ Joined(new, es, h, es[h].streams + 1)
      /\ res = "Pending" => o.id = NoId /\ \E b \in 1..Len(es) : Joined(new, es, b, es[b].streams)
      /\ res = "BuildFirst" => o.id = NoId /\ new = InsertBuilding(es, 1) /\ MayBuild(c, es)
      /\ res \in {"Ready", "Pending", "BuildFirst"}
  BY Zenon, GrantsMeans
<1> HIDE DEF c, es, new, res
<1>5. c = StreamClass[s] /\ Serves(c, es) /\ es = entries[c]
  BY Zenon DEF c, es
<1>6. CASE res = "Ready"
  <2>1. PICK h \in 1..Len(es) : HasRoom(c, es[h]) /\ o.id = es[h].id /\ Joined(new, es, h, es[h].streams + 1)
    BY Zenon, <1>4, <1>6
  <2>2. build' = build /\ stream' = Goto(s, "using", es[h].id)
    BY <1>2, <1>3, <1>6, <2>1
  <2> QED  BY <1>2, <1>5, <2>1, <2>2, TakeReady
<1>7. CASE res = "Pending"
  <2>1. PICK b \in 1..Len(es) : Joined(new, es, b, es[b].streams)
    BY Zenon, <1>4, <1>7
  <2>2. build' = build /\ stream' = Goto(s, "idle", NoId)
    BY <1>2, <1>3, <1>4, <1>7
  <2>3. new \in Seq(Entry)
    BY Zenon, <2>1 DEF Joined, Updated
  <2>4. Rearranged(new, entries[c])
    BY Zenon, <1>1, <1>5, <2>1, RearrangedUpdated DEF Joined
  <2>5. /\ entries' \in [Classes -> Seq(Entry)]
        /\ \A d \in Classes : Rearranged(entries'[d], entries[d])
        /\ entries'[c] = new
        /\ \A d \in Classes : d # c => entries'[d] = entries[d]
    BY <1>1, <1>2, <2>3, <2>4, RearrangedClass
  <2>6. Count(new, "Building") = Count(es, "Building")
    BY Zenon, <1>1, <2>1, CountUpdated DEF Joined
  <2>7. \A d \in Classes : /\ Count(entries'[d], "Building") = Count(entries[d], "Building")
                           /\ Cardinality(InFlight(d)') = Cardinality(InFlight(d))
    BY <1>5, <2>2, <2>5, <2>6 DEF InFlight
  <2>8. todo' = todo
    BY Zenon, <1>2 DEF driverVars
  <2>9. EveryBuildHasItsEntry' /\ PendingCapped'
    BY <1>1, <2>7, <2>8, PendingFrame
  <2>10. HopsWhileBuilding'
    BY Zenon, <1>1, <2>2 DEF HopsWhileBuilding
  <2>11. /\ build' \in [Tasks -> BuildRec]
         /\ \A t \in Tasks : build'[t].pc = "record" =>
              build[t].pc = "record" /\ build'[t].id = build[t].id
         /\ \A t \in Tasks : build'[t].hops = build[t].hops
    BY Zenon, <1>1, <2>2
  <2> QED  BY <1>2, <1>5, <2>2, <2>5, <2>9, <2>10, <2>11, TakeQueued
<1>8. CASE res = "BuildFirst"
  <2>1. /\ new = InsertBuilding(es, 1) /\ MayBuild(c, es)
        /\ Dispatch(c) /\ stream' = Goto(s, "idle", NoId)
    BY <1>2, <1>3, <1>4, <1>8
  <2>2. new \in Seq(Entry) /\ Count(new, "Building") = Count(es, "Building") + 1
    BY Zenon, <1>1, <2>1, InsertBuildingIs
  <2>3. Rearranged(new, entries[c])
    BY <1>1, <1>5, <2>1, RearrangedInserted
  <2>4. /\ entries' \in [Classes -> Seq(Entry)]
        /\ \A d \in Classes : Rearranged(entries'[d], entries[d])
        /\ entries'[c] = new
        /\ \A d \in Classes : d # c => entries'[d] = entries[d]
    BY <1>1, <1>2, <2>2, <2>3, RearrangedClass
  <2>5. \A d \in Classes : /\ Count(entries[d], "Building") = Cardinality(InFlight(d)) + todo.spawn[d]
                           /\ Count(entries[d], "Building") <= MaxPendingBuilds
                           /\ Cardinality(InFlight(d)) \in Nat /\ todo.spawn[d] \in Nat
    BY Zenon, <1>1, InFlightFinite DEF EveryBuildHasItsEntry, PendingCapped, Typed
  <2>6. MaxPendingBuilds \in Nat /\ Count(es, "Building") < MaxPendingBuilds
    BY Zenon, <2>1, PoolPolicyAssumption DEF MayBuild
  <2>7. Cardinality(InFlight(c)) < MaxPendingBuilds
    BY <1>1, <1>5, <2>5, <2>6
  <2>8. FreeTask \in Tasks /\ build[FreeTask].pc = "free"
    BY Zenon, <1>1, <2>7, TaskLeft
  <2>9. /\ build' \in [Tasks -> BuildRec]
        /\ \A t \in Tasks : build'[t].pc = "record" =>
              build[t].pc = "record" /\ build'[t].id = build[t].id
        /\ \A t \in Tasks : build'[t].hops = build[t].hops
        /\ HopsWhileBuilding'
        /\ \A d \in Classes : Cardinality(InFlight(d)') =
              IF d = c THEN Cardinality(InFlight(d)) + 1 ELSE Cardinality(InFlight(d))
    BY Zenon, <1>1, <2>1, <2>8, Dispatched
  <2>10. todo' = todo
    BY Zenon, <1>2 DEF driverVars
  <2>11. ASSUME NEW d \in Classes
         PROVE  /\ Count(entries'[d], "Building") = Cardinality(InFlight(d)') + todo'.spawn[d]
                /\ Count(entries'[d], "Building") <= MaxPendingBuilds
    <3>1. CASE d = c
      <4>1. /\ Count(entries'[d], "Building") = Count(entries[d], "Building") + 1
            /\ Count(entries[d], "Building") < MaxPendingBuilds
        BY <1>5, <2>2, <2>4, <2>6, <3>1
      <4>2. Cardinality(InFlight(d)') = Cardinality(InFlight(d)) + 1 /\ todo'.spawn[d] = todo.spawn[d]
        BY Zenon, <2>9, <2>10, <3>1
      <4> QED  BY <2>5, <2>6, <4>1, <4>2
    <3>2. CASE d # c
      BY <2>4, <2>5, <2>9, <2>10, <3>2
    <3> QED  BY Zenon, <3>1, <3>2
  <2>12. EveryBuildHasItsEntry' /\ PendingCapped'
    BY Zenon, <2>11 DEF EveryBuildHasItsEntry, PendingCapped
  <2> QED  BY <1>2, <1>5, <2>1, <2>4, <2>9, <2>12, TakeQueued
<1> QED  BY Zenon, <1>4, <1>6, <1>7, <1>8

\* acquire, acquire_for_domain, and acquire_with_wait when it is served.
LEMMA AcquireSteps ==
    ASSUME Inv, NEW s \in Streams, AcquireFor(s) \/ AcquireIsolated(s) \/ WaitServed(s)
    PROVE  Inv'
<1> DEFINE c == StreamClass[s]
           es == entries[c]
<1>1. c \in Classes /\ es \in Seq(Entry)
  BY Zenon, DriverAssumption DEF Inv, Typed, TypeOK
<1>2. ASSUME stream[s].pc \notin {"using"}, Take(s, Acquire(c, es))
      PROVE  Inv'
  <2>1. Acquire(c, es).res # "PoolFull"
    BY Zenon, <1>2 DEF Take
  <2>2. Grants(c, es, Acquire(c, es)) /\ Serves(c, es)
    BY Zenon, <1>1, <2>1, AcquireGrants DEF Serves
  <2> QED  BY Zenon, <1>2, <2>2, TakeSteps
<1>3. CASE AcquireFor(s) \/ WaitServed(s)
  BY Zenon, <1>2, <1>3 DEF AcquireFor, WaitServed, At
<1>4. CASE AcquireIsolated(s)
  <2>1. PICK slot \in Slots(es) : Take(s, AcquireForDomain(c, es, slot))
    BY Zenon, <1>4 DEF AcquireIsolated
  <2>2. AcquireForDomain(c, es, slot).res # "PoolFull" /\ stream[s].pc \notin {"using"}
    BY Zenon, <1>4, <2>1 DEF Take, AcquireIsolated, At
  <2>3. Grants(c, es, AcquireForDomain(c, es, slot)) /\ Serves(c, es)
    BY Zenon, <1>1, <2>2, AcquireForDomainGrants
  <2> QED  BY Zenon, <2>1, <2>2, <2>3, TakeSteps
<1> QED  BY Zenon, <1>3, <1>4

\* new is es with one stream fewer on the entry called id, if there is one.
Released(new, es, id) ==
    /\ new \in Seq(Entry) /\ Len(new) = Len(es)
    /\ Count(new, "Building") = Count(es, "Building")
    /\ \A j \in 1..Len(es) :
         /\ new[j].id = es[j].id
         /\ new[j].state = "Building" <=> es[j].state = "Building"
         /\ es[j].id # id => new[j] = es[j]
         /\ es[j].id = id => new[j].streams = Saturating(es[j].streams)

\* release does that.
LEMMA ReleaseReleases ==
    ASSUME NEW es \in Seq(Entry), NEW id, \E i \in 1..Len(es) : es[i].id = id,
           \A i, j \in 1..Len(es) : es[i].id = id /\ es[j].id = id => i = j
    PROVE  Released(Release(es, id), es, id)
<1> DEFINE new == Release(es, id)
           i == IndexOf(es, id)
<1>1. /\ Updated(new, es, i) /\ es[i].id = id
      /\ new[i].id = id /\ new[i].state = es[i].state
      /\ new[i].streams = Saturating(es[i].streams)
  BY ReleaseIs, Zenon
<1> HIDE DEF i, new
<1>2. Count(new, "Building") = Count(es, "Building")
  BY Zenon, <1>1, CountUpdated
<1>3. /\ new \in Seq(Entry) /\ Len(new) = Len(es) /\ i \in 1..Len(es)
      /\ \A j \in 1..Len(es) : j # i => new[j] = es[j]
  BY Zenon, <1>1 DEF Updated
<1>4. Released(new, es, id)
  BY Zenon, <1>1, <1>2, <1>3 DEF Released
<1> QED  BY Zenon, <1>4 DEF new

\* release.
LEMMA ReleaseSteps ==
    ASSUME Inv, NEW s \in Streams, ReleaseBy(s)
    PROVE  Inv'
<1> USE DEF Inv
<1> DEFINE id0 == stream[s].id
<1>1. /\ stream[s].pc = "using"
      /\ entries' = [c \in Classes |-> IF c \in ClassOf(id0)
                                       THEN Release(entries[c], id0) ELSE entries[c]]
      /\ ringing' = TRUE /\ stream' = Goto(s, "idle", NoId)
      /\ UNCHANGED <<idIndex, build, driverVars>>
  BY Zenon DEF ReleaseBy, Rings, At
<1>2. /\ entries \in [Classes -> Seq(Entry)] /\ stream \in [Streams -> StreamRec]
      /\ id0 \in Ids /\ id0 # NoId
  BY <1>1, DriverAssumption DEF Typed, TypeOK, StreamRec, Issued, At, Ids, NoId
<1>3. /\ idIndex' = idIndex /\ build' = build /\ todo' = todo /\ nextId' = nextId
      /\ registry' = registry /\ hopsUp' = hopsUp /\ draining' = draining
  BY Zenon, <1>1 DEF driverVars
<1>4. /\ stream' \in [Streams -> StreamRec]
      /\ \A r \in Streams : r # s => stream'[r] = stream[r]
      /\ stream'[s].pc = "idle"
  BY Zenon, <1>1, <1>2 DEF Goto, StreamRec
<1>5. /\ \A id : id # id0 => Users(id)' = Users(id)
      /\ \A id : id = id0 => Users(id)' = Users(id) \ {s} /\ s \in Users(id)
  BY Zenon, <1>1, <1>4 DEF Users, At
<1>6. IsFiniteSet(Users(id0)) /\ Cardinality(Users(id0)) \in Nat
  BY Zenon, FS_Subset, FS_CardinalityType, DriverAssumption DEF Users
<1>7. /\ Cardinality(Users(id0) \ {s}) = Cardinality(Users(id0)) - 1
      /\ Cardinality(Users(id0)) # 0
  <2>1. Users(id0) # {}
    BY Zenon, <1>5
  <2> QED  BY <1>5, <1>6, <2>1, FS_RemoveElement, FS_EmptySet
<1> HIDE DEF id0
<1>8. \A d \in Classes : Released(entries'[d], entries[d], id0)
  <2> SUFFICES ASSUME NEW d \in Classes PROVE Released(entries'[d], entries[d], id0)
    BY Zenon
  <2>1. entries[d] \in Seq(Entry)
    BY Zenon, <1>2
  <2>2. CASE d \notin ClassOf(id0)
    <3>1. entries'[d] = entries[d]
      BY Zenon, <1>1, <2>2
    <3>2. \A j \in 1..Len(entries[d]) : entries[d][j].id # id0
      BY Zenon, <1>2, <2>2 DEF ClassOf, Indexed
    <3> QED  BY Zenon, <2>1, <3>1, <3>2 DEF Released
  <2>3. CASE d \in ClassOf(id0)
    <3>1. entries'[d] = Release(entries[d], id0)
      BY Zenon, <1>1, <2>3
    <3>2. \E i \in 1..Len(entries[d]) : entries[d][i].id = id0
      BY Zenon, <1>2, <2>3 DEF ClassOf, Indexed
    <3>3. \A i, j \in 1..Len(entries[d]) :
              entries[d][i].id = id0 /\ entries[d][j].id = id0 => i = j
      BY <1>2 DEF Distinct
    <3> QED  BY <2>1, <3>1, <3>2, <3>3, ReleaseReleases
  <2> QED  BY Zenon, <2>2, <2>3
<1>9. entries' \in [Classes -> Seq(Entry)]
  BY Zenon, <1>1, <1>8 DEF Released
<1>10. SameNames(entries', entries)
  BY Zenon, <1>8 DEF SameNames, Released
<1>11. /\ Distinct(entries') /\ Indexed(entries', idIndex)
       /\ \A id \in Ids : Has(entries', id) => Has(entries, id)
  BY Zenon, <1>10, SameNamesPool
<1>12. Typed'
  BY <1>1, <1>3, <1>4, <1>9 DEF Typed, TypeOK, StreamRec
<1>13. Issued'
  <2>1. \A id \in Ids : ~Has(entries, id) /\ Users(id) = {} => Users(id)' = {}
    BY Zenon, <1>5
  <2>2. \A r \in Streams : At(r, "using")' => stream'[r].id \in Ids
    BY Zenon, <1>4 DEF Issued, At
  <2>3. \A t \in Tasks : build'[t].pc = "record" =>
              build[t].pc = "record" /\ build'[t].id = build[t].id
    BY Zenon, <1>3
  <2> QED  BY <1>3, <1>11, <2>1, <2>2, <2>3, IssuedFrame
<1>14. Counted'
  <2> SUFFICES ASSUME NEW d \in Classes, NEW j \in 1..Len(entries'[d]), entries'[d][j].id # NoId
               PROVE  Cardinality(Users(entries[d][j].id)') <= entries'[d][j].streams
    BY Zenon DEF Counted
  <2>1. /\ j \in 1..Len(entries[d]) /\ entries'[d][j].id = entries[d][j].id
        /\ entries[d][j].id # id0 => entries'[d][j] = entries[d][j]
        /\ entries[d][j].id = id0 => entries'[d][j].streams = Saturating(entries[d][j].streams)
    BY Zenon, <1>8 DEF Released
  <2>2. Cardinality(Users(entries[d][j].id)) <= entries[d][j].streams
    BY Zenon, <2>1 DEF Counted
  <2>3. ASSUME NEW id, id = entries'[d][j].id
        PROVE  Users(entries[d][j].id)' = Users(id)'
    BY Zenon, <2>3 DEF Users, At
  <2>4. CASE entries[d][j].id = id0
    <3>1. Users(entries[d][j].id)' = Users(id0) \ {s}
      BY Zenon, <1>5, <2>1, <2>3, <2>4
    <3>2. entries[d][j].streams \in Nat
      <4>1. entries[d] \in Seq(Entry)
        BY Zenon, <1>2
      <4>2. ASSUME NEW E, NEW q \in Seq(E), NEW k \in 1..Len(q)  PROVE q[k] \in E
        BY <4>2
      <4>3. entries[d][j] \in Entry
        BY Zenon, <2>1, <4>1, <4>2
      <4> QED  BY Zenon, <4>3 DEF Entry
    <3>3. ASSUME NEW u \in Nat, NEW n \in Nat, u # 0, u <= n  PROVE u - 1 <= Saturating(n)
      BY <3>3 DEF Saturating
    <3>4. Cardinality(Users(id0)) - 1 <= Saturating(entries[d][j].streams)
      BY Zenon, <1>6, <1>7, <2>2, <2>4, <3>2, <3>3
    <3> QED  BY Zenon, <1>7, <2>1, <2>4, <3>1, <3>4
  <2>5. CASE entries[d][j].id # id0
    <3>1. Users(entries[d][j].id)' = Users(entries[d][j].id)
      BY Zenon, <1>5, <2>1, <2>3, <2>5
    <3> QED  BY Zenon, <2>1, <2>2, <2>5, <3>1
  <2> QED  BY Zenon, <2>4, <2>5
<1>15. EveryBuildHasItsEntry' /\ PendingCapped' /\ HopsWhileBuilding'
  <2>1. \A d \in Classes : Cardinality(InFlight(d)') = Cardinality(InFlight(d))
    BY Zenon, <1>3 DEF InFlight
  <2>2. \A d \in Classes : Count(entries'[d], "Building") = Count(entries[d], "Building")
    BY Zenon, <1>8 DEF Released
  <2> QED  BY Zenon, <1>3, <2>1, <2>2, PendingFrame DEF HopsWhileBuilding
<1>16. NoHopLeaks' /\ Wakeups'
  BY Zenon, <1>1, <1>3, HopsFrame DEF Wakeups
<1> QED  BY <1>3, <1>11, <1>12, <1>13, <1>14, <1>15, <1>16

=============================================================================
