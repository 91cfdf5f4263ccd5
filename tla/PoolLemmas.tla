----------------------------- MODULE PoolLemmas -----------------------------
(***************************************************************************)
(* The inductive invariant of PoolDriver, what the operators of            *)
(* CircuitPool do to a list of entries, and what each part of the          *)
(* invariant needs of a step.  PoolSteps and PoolDriverProofs take the     *)
(* steps one by one.                                                       *)
(***************************************************************************)
EXTENDS PoolDriver, ListProofs, FiniteSetTheorems

-----------------------------------------------------------------------------
(* The inductive invariant.                                                 *)

\* TypeOK and the two variables it leaves out.
Typed ==
    /\ TypeOK
    /\ ringing \in BOOLEAN
    /\ todo \in [drain : SUBSET Ids, retire : SUBSET Ids, spawn : [Classes -> Nat]]

\* The records of build and of stream.
BuildRec == [pc : {"free", "select", "hop", "record", "fail"},
             class : Classes, hops : Nat, id : Ids \cup {NoId}]
StreamRec == [pc : {"idle", "enabled", "full", "asleep", "using"},
              id : Ids \cup {NoId}, notified : BOOLEAN]

\* The pool has an entry for the circuit id.
Has(E, id) == \E c \in Classes : \E i \in 1..Len(E[c]) : E[c][i].id = id

\* Entries without an id are the Building ones, and an id names one entry.
Distinct(E) ==
    /\ \A c \in Classes : \A i \in 1..Len(E[c]) : E[c][i].id \in Ids \cup {NoId}
    /\ \A c \in Classes : \A i \in 1..Len(E[c]) : E[c][i].id = NoId <=> E[c][i].state = "Building"
    /\ \A c, d \in Classes : \A i \in 1..Len(E[c]), j \in 1..Len(E[d]) :
          E[c][i].id = E[d][j].id /\ E[c][i].id # NoId => c = d /\ i = j

\* id_index knows the ids of the entries and no other.
Indexed(E, index) ==
    \A c \in Classes, id \in Ids :
      id \in index[c] <=> \E i \in 1..Len(E[c]) : E[c][i].id = id

\* The circuits the pool knows, is about to hear of, or has dropped have ids
\* that were given out, and each is in one of these places only.
Issued ==
    /\ \A id \in Ids : Has(entries, id) => id < nextId /\ registry[id] > 0
    /\ \A id \in todo.retire : id < nextId /\ ~Has(entries, id)
    /\ \A t \in Tasks : build[t].pc = "record" =>
          /\ build[t].id \in Ids /\ build[t].id < nextId /\ registry[build[t].id] > 0
          /\ ~Has(entries, build[t].id) /\ build[t].id \notin todo.retire
          /\ Users(build[t].id) = {}
    /\ \A t, u \in Tasks : build[t].pc = "record" /\ build[u].pc = "record"
          /\ build[t].id = build[u].id => t = u
    /\ \A id \in Ids : id >= nextId => registry[id] = 0 /\ Users(id) = {}
    /\ \A s \in Streams : At(s, "using") => stream[s].id \in Ids

\* Only a build that is extending its circuit has hops of its own.
HopsWhileBuilding == \A t \in Tasks : build[t].pc # "hop" => build[t].hops = 0

\* The cap on pending builds, which also bounds the tasks.
PendingCapped == \A c \in Classes : Count(entries[c], "Building") <= MaxPendingBuilds

\* NoLostWakeup, from the moment the caller has found the pool full.
Wakeups ==
    \A s \in Streams :
      stream[s].pc \in {"full", "asleep"} /\ ~stream[s].notified /\ ~ringing
        => ~Serves(StreamClass[s], entries[StreamClass[s]])

\* StreamsCounted, entry by entry.
Counted ==
    \A c \in Classes : \A i \in 1..Len(entries[c]) :
      entries[c][i].id # NoId => Cardinality(Users(entries[c][i].id)) <= entries[c][i].streams

Inv ==
    /\ Typed
    /\ Distinct(entries) /\ Indexed(entries, idIndex) /\ Issued
    /\ Counted
    /\ EveryBuildHasItsEntry /\ PendingCapped
    /\ HopsWhileBuilding /\ NoHopLeaks
    /\ Wakeups

-----------------------------------------------------------------------------
(* What the operators of CircuitPool do to a list of entries.               *)

\* The places of s that hold an element of B.
Where(s, B) == {i \in 1..Len(s) : s[i] \in B}

\* Filtering loses no place of what it is to keep.
LEMMA FilterCount ==
    ASSUME NEW S, NEW s \in Seq(S), NEW K, NEW B, B \subseteq K
    PROVE  Cardinality(Where(Filter(s, K), B)) = Cardinality(Where(s, B))
<1> DEFINE t == Filter(s, K)
<1>1. t \in Seq(S) /\ \E p : Embeds(p, t, s, K)
  BY Zenon, FilterEmbeds
<1> HIDE DEF t
<1>2. PICK p : Embeds(p, t, s, K)
  BY Zenon, <1>1
<1> DEFINE X == Where(t, B)
           Y == Where(s, B)
           q == [i \in X |-> p[i]]
<1>3. Len(s) \in Nat /\ Len(t) \in Nat
  BY <1>1
<1>4. IsFiniteSet(X)
  <2>1. IsFiniteSet(1..Len(t)) /\ X \in SUBSET (1..Len(t))
    BY <1>3, FS_Interval DEF Where
  <2> QED  BY Zenon, <2>1, FS_Subset
<1>5. \A i \in X : p[i] \in Y
  BY Zenon, <1>2 DEF Embeds, Where
<1>6. \A i, j \in X : p[i] = p[j] => i = j
  <2> SUFFICES ASSUME NEW i \in X, NEW j \in X, i # j PROVE p[i] # p[j]
    BY Zenon
  <2>1. i \in 1..Len(t) /\ j \in 1..Len(t) /\ (i < j \/ j < i)
    BY <1>3 DEF Where
  <2>2. p[i] \in 1..Len(s) /\ p[j] \in 1..Len(s)
    BY Zenon, <1>2, <2>1 DEF Embeds
  <2>3. p[i] < p[j] \/ p[j] < p[i]
    BY Zenon, <1>2, <2>1 DEF Embeds
  <2> QED  BY <1>3, <2>2, <2>3
<1>7. \A j \in Y : \E i \in X : p[i] = j
  BY Zenon, <1>2 DEF Embeds, Where
<1> HIDE DEF X, Y
<1>8. q \in Bijection(X, Y)
  BY Zenon, <1>5, <1>6, <1>7 DEF Bijection, Injection, Surjection, IsInjective
<1>9. Cardinality(X) = Cardinality(Y)
  <2>1. ExistsBijection(X, Y)
    BY <1>8, Zenon DEF ExistsBijection
  <2> QED  BY Zenon, <1>4, <2>1, FS_Bijection
<1> QED  BY Zenon, <1>9 DEF X, Y, t

\* The places of the Building entries.
Building(es) == {i \in 1..Len(es) : es[i].state = "Building"}

\* Count counts them.
LEMMA CountBuilding ==
    ASSUME NEW es \in Seq(Entry)
    PROVE  /\ Count(es, "Building") = Cardinality(Building(es))
           /\ IsFiniteSet(Building(es))
           /\ Count(es, "Building") \in Nat
<1>1. DOMAIN es = 1..Len(es) /\ Len(es) \in Nat
  OBVIOUS
<1>2. Count(es, "Building") = Cardinality(Building(es))
  BY Zenon, <1>1 DEF Count, Building
<1>3. IsFiniteSet(Building(es))
  <2>1. IsFiniteSet(1..Len(es))
    BY <1>1, FS_Interval
  <2>2. Building(es) \in SUBSET (1..Len(es))
    BY Zenon DEF Building
  <2> QED  BY Zenon, <2>1, <2>2, FS_Subset
<1> QED  BY Zenon, <1>2, <1>3, FS_CardinalityType

\* FirstBuilding is 0 or the place of a Building entry without an id.
LEMMA FirstBuildingIs ==
    ASSUME NEW es \in Seq(Entry)
    PROVE  /\ FirstBuilding(es) > 0 =>
                /\ FirstBuilding(es) \in 1..Len(es)
                /\ es[FirstBuilding(es)].state = "Building" /\ es[FirstBuilding(es)].id = NoId
           /\ FirstBuilding(es) \in Nat
<1> DEFINE I == {i \in 1..Len(es) : es[i].state = "Building" /\ es[i].id = NoId}
<1>1. FirstBuilding(es) = IF I # {} THEN Least(I) ELSE 0
  BY Zenon DEF FirstBuilding, FirstPlace
<1>2. CASE I = {}
  BY <1>1, <1>2
<1>3. CASE I # {}
  <2>1. I \in SUBSET Nat
    OBVIOUS
  <2>2. Least(I) \in I
    BY Zenon, <1>3, <2>1, LeastIs
  <2> QED  BY <1>1, <1>3, <2>2
<1> QED  BY Zenon, <1>2, <1>3

\* IndexOf finds the entry of a circuit that has one.
LEMMA IndexOfIs ==
    ASSUME NEW es \in Seq(Entry), NEW id, \E i \in 1..Len(es) : es[i].id = id
    PROVE  IndexOf(es, id) \in 1..Len(es) /\ es[IndexOf(es, id)].id = id
<1> DEFINE I == {i \in 1..Len(es) : es[i].id = id}
<1>1. IndexOf(es, id) = IF I # {} THEN Least(I) ELSE 0
  BY Zenon DEF IndexOf, FirstPlace
<1>2. I # {} /\ I \in SUBSET Nat
  OBVIOUS
<1>3. Least(I) \in I
  BY Zenon, <1>2, LeastIs
<1> QED  BY Zenon, <1>1, <1>2, <1>3

\* new is old with another entry at i.
Updated(new, old, i) ==
    /\ new \in Seq(Entry) /\ Len(new) = Len(old) /\ i \in 1..Len(old)
    /\ \A j \in 1..Len(old) : j # i => new[j] = old[j]

\* What EXCEPT does.
LEMMA SetAt ==
    ASSUME NEW es \in Seq(Entry), NEW i \in 1..Len(es), NEW e \in Entry
    PROVE  Updated([es EXCEPT ![i] = e], es, i) /\ [es EXCEPT ![i] = e][i] = e
BY DEF Updated

\* An entry that changes one of its counters is an entry.
LEMMA CounterTyped ==
    ASSUME NEW e \in Entry, NEW n \in Nat
    PROVE  /\ [e EXCEPT !.streams = n] \in Entry
           /\ [e EXCEPT !.pending = n] \in Entry
           /\ e.streams \in Nat /\ e.pending \in Nat /\ e.id \in Nat
BY Zenon DEF Entry

\* The places of the Building entries are as many after a change that makes
\* none and ends none.
LEMMA CountUpdated ==
    ASSUME NEW old \in Seq(Entry), NEW new, NEW i, Updated(new, old, i),
           new[i].state = "Building" <=> old[i].state = "Building"
    PROVE  Count(new, "Building") = Count(old, "Building")
<1>1. Building(new) = Building(old)
  BY Zenon DEF Building, Updated
<1> QED  BY Zenon, <1>1, CountBuilding DEF Updated

\* insert_building adds one.
LEMMA InsertBuildingIs ==
    ASSUME NEW es \in Seq(Entry), NEW p \in Nat
    PROVE  LET new == InsertBuilding(es, p) IN
           /\ new \in Seq(Entry) /\ Len(new) = Len(es) + 1
           /\ \A j \in 1..Len(es) : new[j] = es[j]
           /\ new[Len(es) + 1].state = "Building" /\ new[Len(es) + 1].id = NoId
           /\ Count(new, "Building") = Count(es, "Building") + 1
<1> DEFINE e == [id |-> NoId, state |-> "Building", streams |-> 0, pending |-> p, old |-> FALSE]
           new == InsertBuilding(es, p)
<1>1. e \in Entry /\ e.state = "Building" /\ e.id = NoId
  BY Zenon DEF Entry, EntryState, NoId
<1>2. new = Append(es, e)
  BY Zenon DEF InsertBuilding
<1> HIDE DEF e, new
<1>3. /\ new \in Seq(Entry) /\ Len(new) = Len(es) + 1 /\ Len(es) \in Nat
      /\ \A j \in 1..Len(es) : new[j] = es[j]
      /\ new[Len(es) + 1] = e
  BY <1>1, <1>2
<1>4. Building(new) = Building(es) \cup {Len(es) + 1} /\ Len(es) + 1 \notin Building(es)
  BY <1>1, <1>3 DEF Building
<1>5. Cardinality(Building(new)) = Cardinality(Building(es)) + 1
  BY <1>4, CountBuilding, FS_AddElement
<1> QED  BY Zenon, <1>1, <1>3, <1>5, CountBuilding DEF new

\* record_built takes the first Building entry.
LEMMA RecordBuiltIs ==
    ASSUME NEW es \in Seq(Entry), NEW id \in Nat, FirstBuilding(es) > 0
    PROVE  LET new == RecordBuilt(es, id)
               f == FirstBuilding(es) IN
           /\ Updated(new, es, f)
           /\ new[f].id = id /\ new[f].state = "Healthy" /\ new[f].streams = es[f].pending
           /\ es[f].state = "Building" /\ es[f].id = NoId
           /\ Count(new, "Building") = Count(es, "Building") - 1
<1> DEFINE f == FirstBuilding(es)
           e == [id |-> id, state |-> "Healthy", streams |-> es[f].pending,
                 pending |-> 0, old |-> FALSE]
           new == RecordBuilt(es, id)
<1>1. f \in 1..Len(es) /\ es[f].state = "Building" /\ es[f].id = NoId
  BY Zenon, FirstBuildingIs
<1>2. new = [es EXCEPT ![f] = e]
  BY Zenon DEF RecordBuilt
<1> HIDE DEF f, new
<1>3. es[f] \in Entry
  BY <1>1
<1>4. e \in Entry /\ e.id = id /\ e.state = "Healthy" /\ e.streams = es[f].pending
  BY Zenon, <1>3 DEF Entry, EntryState
<1> HIDE DEF e
<1>5. Updated(new, es, f) /\ new[f] = e
  BY Zenon, <1>1, <1>2, <1>4, SetAt
<1>6. Building(new) = Building(es) \ {f} /\ f \in Building(es)
  BY Zenon, <1>1, <1>4, <1>5 DEF Building, Updated
<1>7. Cardinality(Building(new)) = Cardinality(Building(es)) - 1
  BY Zenon, <1>6, CountBuilding, FS_RemoveElement
<1>8. Count(new, "Building") = Count(es, "Building") - 1
  BY Zenon, <1>5, <1>7, CountBuilding DEF Updated
<1> QED  BY Zenon, <1>1, <1>4, <1>5, <1>8 DEF f, new

\* record_build_failure: the last entry takes the place of the first Building one.
LEMMA RecordBuildFailureIs ==
    ASSUME NEW es \in Seq(Entry), FirstBuilding(es) > 0
    PROVE  LET new == RecordBuildFailure(es)
               f == FirstBuilding(es) IN
           /\ new \in Seq(Entry) /\ Len(new) = Len(es) - 1 /\ f \in 1..Len(es)
           /\ \A j \in 1..Len(new) : new[j] = IF j = f THEN es[Len(es)] ELSE es[j]
           /\ es[f].state = "Building" /\ es[f].id = NoId
           /\ Count(new, "Building") = Count(es, "Building") - 1
<1> DEFINE f == FirstBuilding(es)
           n == Len(es)
           mid == [es EXCEPT ![f] = es[n]]
           new == RecordBuildFailure(es)
<1>1. f \in 1..n /\ es[f].state = "Building" /\ es[f].id = NoId
  BY Zenon, FirstBuildingIs
<1>2. n \in Nat /\ n = Len(es) /\ n >= 1 /\ es[n] \in Entry
  BY <1>1
<1>3. new = SubSeq(mid, 1, Len(mid) - 1)
  BY DEF RecordBuildFailure, SwapRemove
<1> HIDE DEF f, n, new
<1>4. Updated(mid, es, f) /\ mid[f] = es[n]
  BY <1>1, <1>2, SetAt
<1> HIDE DEF mid
<1>5. mid \in Seq(Entry) /\ Len(mid) = n /\ \A j \in 1..n : mid[j] = IF j = f THEN es[n] ELSE es[j]
  BY Zenon, <1>2, <1>4 DEF Updated
<1>6. new \in Seq(Entry) /\ Len(new) = n - 1 /\ \A j \in 1..(n - 1) : new[j] = mid[j]
  BY <1>2, <1>3, <1>5
<1>7. \A j \in 1..(n - 1) : new[j] = IF j = f THEN es[n] ELSE es[j]
  BY <1>2, <1>5, <1>6
<1>8. f \in Building(es)
  BY Zenon, <1>1, <1>2 DEF Building
<1>9. Cardinality(Building(new)) = Cardinality(Building(es)) - 1
  <2>1. CASE es[n].state = "Building"
    <3>1. Building(new) = Building(es) \ {n} /\ n \in Building(es)
      BY <1>1, <1>2, <1>6, <1>7, <2>1 DEF Building
    <3> QED  BY Zenon, <3>1, CountBuilding, FS_RemoveElement
  <2>2. CASE es[n].state # "Building"
    <3>1. Building(new) = Building(es) \ {f}
      BY <1>1, <1>2, <1>6, <1>7, <2>2 DEF Building
    <3> QED  BY Zenon, <1>8, <3>1, CountBuilding, FS_RemoveElement
  <2> QED  BY Zenon, <2>1, <2>2
<1>10. Count(new, "Building") = Count(es, "Building") - 1
  BY Zenon, <1>6, <1>9, CountBuilding
<1> QED  BY Zenon, <1>1, <1>2, <1>6, <1>7, <1>10 DEF f, new

\* release lowers the count of the entry that has the id.
LEMMA ReleaseIs ==
    ASSUME NEW es \in Seq(Entry), NEW id, \E i \in 1..Len(es) : es[i].id = id
    PROVE  LET new == Release(es, id)
               i == IndexOf(es, id) IN
           /\ Updated(new, es, i) /\ es[i].id = id
           /\ new[i].id = id /\ new[i].state = es[i].state
           /\ new[i].streams = Saturating(es[i].streams)
<1> DEFINE i == IndexOf(es, id)
           e == [es[i] EXCEPT !.streams = Saturating(es[i].streams)]
           new == Release(es, id)
<1>1. i \in 1..Len(es) /\ es[i].id = id
  BY Zenon, IndexOfIs
<1>2. new = [es EXCEPT ![i] = e]
  BY Zenon DEF Release
<1> HIDE DEF i, new
<1>3. es[i] \in Entry
  BY <1>1
<1>4. es[i].streams \in Nat
  BY Zenon, <1>3 DEF Entry
<1>5. Saturating(es[i].streams) \in Nat
  BY <1>4 DEF Saturating
<1>6. e \in Entry /\ e.id = es[i].id /\ e.state = es[i].state
        /\ e.streams = Saturating(es[i].streams)
  BY Zenon, <1>3, <1>5 DEF Entry
<1> HIDE DEF e
<1>7. Updated(new, es, i) /\ new[i] = e
  BY Zenon, <1>1, <1>2, <1>6, SetAt
<1> QED  BY Zenon, <1>1, <1>6, <1>7 DEF i, new

\* record_failure changes the state of the entry that has the id.
LEMMA RecordFailureIs ==
    ASSUME NEW es \in Seq(Entry), NEW id, \E i \in 1..Len(es) : es[i].id = id
    PROVE  LET new == RecordFailure(es, id)
               i == IndexOf(es, id) IN
           /\ Updated(new, es, i) /\ es[i].id = id
           /\ new[i].id = id /\ new[i].streams = es[i].streams /\ new[i].state = "Failed"
<1> DEFINE i == IndexOf(es, id)
           e == [es[i] EXCEPT !.state = "Failed"]
           new == RecordFailure(es, id)
<1>1. i \in 1..Len(es) /\ es[i].id = id
  BY Zenon, IndexOfIs
<1>2. new = [es EXCEPT ![i] = e]
  BY Zenon DEF RecordFailure
<1> HIDE DEF i, new
<1>3. es[i] \in Entry
  BY <1>1
<1>4. e \in Entry /\ e.id = es[i].id /\ e.streams = es[i].streams /\ e.state = "Failed"
  BY Zenon, <1>3 DEF Entry, EntryState
<1> HIDE DEF e
<1>5. Updated(new, es, i) /\ new[i] = e
  BY Zenon, <1>1, <1>2, <1>4, SetAt
<1> QED  BY Zenon, <1>1, <1>4, <1>5 DEF i, new

\* Time passes for one entry: only its age changes.
LEMMA AgedIs ==
    ASSUME NEW es \in Seq(Entry), NEW i \in 1..Len(es)
    PROVE  LET new == [es EXCEPT ![i].old = TRUE] IN
           /\ Updated(new, es, i)
           /\ new[i].id = es[i].id /\ new[i].state = es[i].state
           /\ new[i].streams = es[i].streams /\ new[i].pending = es[i].pending
<1> DEFINE e == [es[i] EXCEPT !.old = TRUE]
<1>1. es[i] \in Entry
  OBVIOUS
<1>2. e \in Entry /\ e.id = es[i].id /\ e.state = es[i].state
        /\ e.streams = es[i].streams /\ e.pending = es[i].pending
  BY Zenon, <1>1 DEF Entry
<1> HIDE DEF e
<1>3. Updated([es EXCEPT ![i] = e], es, i) /\ [es EXCEPT ![i] = e][i] = e
  BY Zenon, <1>2, SetAt
<1> QED  BY Zenon, <1>2, <1>3 DEF e

\* What acquire grants when it does not answer PoolFull.
Grants(c, es, o) ==
    \/ /\ o.res = "Ready"
       /\ \E h \in 1..Len(es) :
            /\ HasRoom(c, es[h]) /\ o.id = es[h].id /\ Updated(o.entries, es, h)
            /\ o.entries[h].id = es[h].id /\ o.entries[h].state = es[h].state
            /\ o.entries[h].streams = es[h].streams + 1
    \/ /\ o.res = "Pending" /\ o.id = NoId
       /\ \E b \in 1..Len(es) :
            /\ HasPendingRoom(c, es[b]) /\ Updated(o.entries, es, b)
            /\ o.entries[b].id = es[b].id /\ o.entries[b].state = es[b].state
            /\ o.entries[b].streams = es[b].streams
    \/ /\ o.res = "BuildFirst" /\ o.id = NoId /\ o.entries = InsertBuilding(es, 1)
       /\ MayBuild(c, es)

\* A Healthy entry with room is handed out.
LEMMA ReadyGrants ==
    ASSUME NEW c \in Classes, NEW es \in Seq(Entry), NEW h \in 1..Len(es), HasRoom(c, es[h])
    PROVE  Grants(c, es, Ready(es, h)) /\ Ready(es, h).res = "Ready"
<1> DEFINE e == [es[h] EXCEPT !.streams = es[h].streams + 1]
<1>1. es[h] \in Entry
  OBVIOUS
<1>2. es[h].streams + 1 \in Nat
  BY <1>1 DEF Entry
<1>3. e \in Entry /\ e.id = es[h].id /\ e.state = es[h].state /\ e.streams = es[h].streams + 1
  BY Zenon, <1>1, <1>2 DEF Entry
<1>4. Ready(es, h).res = "Ready" /\ Ready(es, h).id = es[h].id
         /\ Ready(es, h).entries = [es EXCEPT ![h] = e]
  BY Zenon DEF Ready, Outcome
<1> HIDE DEF e
<1>5. Updated([es EXCEPT ![h] = e], es, h) /\ [es EXCEPT ![h] = e][h] = e
  BY <1>3, SetAt
<1>6. /\ Updated(Ready(es, h).entries, es, h)
      /\ Ready(es, h).entries[h].id = es[h].id /\ Ready(es, h).entries[h].state = es[h].state
      /\ Ready(es, h).entries[h].streams = es[h].streams + 1
  BY Zenon, <1>3, <1>4, <1>5
<1> QED  BY Zenon, <1>4, <1>6 DEF Grants

\* acquire grants when some entry has room or another may be built, and only then.
LEMMA AcquireGrants ==
    ASSUME NEW c \in Classes, NEW es \in Seq(Entry)
    PROVE  /\ Acquire(c, es).res # "PoolFull" => Grants(c, es, Acquire(c, es))
           /\ Serves(c, es) <=> \/ \E i \in 1..Len(es) : HasRoom(c, es[i]) \/ HasPendingRoom(c, es[i])
                                \/ MayBuild(c, es)
<1> DEFINE H == {i \in 1..Len(es) : HasRoom(c, es[i])}
           B == {i \in 1..Len(es) : HasPendingRoom(c, es[i])}
           h == IF H # {} THEN Least(H) ELSE 0
           b == IF B # {} THEN Least(B) ELSE 0
           pend == Outcome("Pending", NoId, [es EXCEPT ![b].pending = @ + 1])
           first == Outcome("BuildFirst", NoId, InsertBuilding(es, 1))
           full == Outcome("PoolFull", NoId, es)
<1>1. Acquire(c, es) = IF h > 0 THEN Ready(es, h) ELSE IF b > 0 THEN pend
                       ELSE IF MayBuild(c, es) THEN first ELSE full
  BY Zenon DEF Acquire, FirstPlace
<1>2. H \in SUBSET Nat /\ B \in SUBSET Nat
  OBVIOUS
<1>3. (h > 0 <=> H # {}) /\ (h > 0 => h \in H)
  <2>1. H # {} => Least(H) \in H
    BY Zenon, <1>2, LeastIs
  <2> QED  BY <2>1
<1>4. (b > 0 <=> B # {}) /\ (b > 0 => b \in B)
  <2>1. B # {} => Least(B) \in B
    BY Zenon, <1>2, LeastIs
  <2> QED  BY <2>1
<1> HIDE DEF h, b, pend, first, full
<1>5. CASE h > 0
  <2>1. Grants(c, es, Ready(es, h)) /\ Ready(es, h).res = "Ready"
    BY Zenon, <1>3, <1>5, ReadyGrants
  <2> QED  BY Zenon, <1>1, <1>3, <1>5, <2>1 DEF Serves
<1>6. CASE ~(h > 0) /\ b > 0
  <2>1. b \in 1..Len(es) /\ HasPendingRoom(c, es[b]) /\ es[b] \in Entry
    BY <1>4, <1>6
  <2> DEFINE e == [es[b] EXCEPT !.pending = es[b].pending + 1]
  <2>2. es[b].pending + 1 \in Nat
    BY <2>1 DEF Entry
  <2>3. e \in Entry /\ e.id = es[b].id /\ e.state = es[b].state /\ e.streams = es[b].streams
    BY Zenon, <2>1, <2>2 DEF Entry
  <2>4. pend.res = "Pending" /\ pend.id = NoId /\ pend.entries = [es EXCEPT ![b] = e]
    BY Zenon DEF pend, Outcome
  <2> HIDE DEF e
  <2>5. Updated([es EXCEPT ![b] = e], es, b) /\ [es EXCEPT ![b] = e][b] = e
    BY Zenon, <2>1, <2>3, SetAt
  <2>6. /\ Updated(pend.entries, es, b)
        /\ pend.entries[b].id = es[b].id /\ pend.entries[b].state = es[b].state
        /\ pend.entries[b].streams = es[b].streams
    BY Zenon, <2>3, <2>4, <2>5
  <2>7. Grants(c, es, pend)
    BY Zenon, <2>1, <2>4, <2>6 DEF Grants
  <2> QED  BY <1>1, <1>4, <1>6, <2>4, <2>7 DEF Serves
<1>7. CASE ~(h > 0) /\ ~(b > 0) /\ MayBuild(c, es)
  <2>1. first.res = "BuildFirst" /\ first.id = NoId /\ first.entries = InsertBuilding(es, 1)
    BY Zenon DEF first, Outcome
  <2>2. Grants(c, es, first)
    BY Zenon, <1>7, <2>1 DEF Grants
  <2> QED  BY Zenon, <1>1, <1>7, <2>1, <2>2 DEF Serves
<1>8. CASE ~(h > 0) /\ ~(b > 0) /\ ~MayBuild(c, es)
  <2>1. full.res = "PoolFull"
    BY Zenon DEF full, Outcome
  <2>2. ~ \E i \in 1..Len(es) : HasRoom(c, es[i]) \/ HasPendingRoom(c, es[i])
    BY Zenon, <1>3, <1>4, <1>8
  <2> QED  BY Zenon, <1>1, <1>8, <2>1, <2>2 DEF Serves
<1> QED  BY Zenon, <1>5, <1>6, <1>7, <1>8

\* acquire_for_domain grants the same, and only what acquire could.
LEMMA AcquireForDomainGrants ==
    ASSUME NEW c \in Classes, NEW es \in Seq(Entry), NEW slot \in Slots(es)
    PROVE  AcquireForDomain(c, es, slot).res # "PoolFull" =>
              Grants(c, es, AcquireForDomain(c, es, slot)) /\ Serves(c, es)
<1>1. slot \in 1..Len(es)
  BY DEF Slots
<1>2. CASE HasRoom(c, es[slot])
  BY Zenon, <1>1, <1>2, ReadyGrants, AcquireGrants DEF AcquireForDomain
<1>3. CASE ~HasRoom(c, es[slot])
  BY Zenon, <1>3, AcquireGrants DEF AcquireForDomain, Serves
<1> QED  BY Zenon, <1>2, <1>3

\* Draining an entry changes neither what it is nor what it carries.
LEMMA DrainedIs ==
    ASSUME NEW e \in Entry
    PROVE  /\ Drained(e) \in Entry
           /\ Drained(e).id = e.id /\ Drained(e).streams = e.streams
           /\ Drained(e).state = "Building" <=> e.state = "Building"
           /\ Retires(Drained(e)) <=> Retires(e)
<1> DEFINE d == [e EXCEPT !.state = "Draining", !.old = FALSE]
<1>1. d \in Entry /\ d.id = e.id /\ d.streams = e.streams /\ d.state = "Draining" /\ d.old = FALSE
  BY Zenon DEF Entry, EntryState
<1>2. Drained(e) = IF Drains(e) THEN d ELSE e
  BY Zenon DEF Drained
<1> HIDE DEF d
<1>3. CASE Drains(e)
  BY Zenon, <1>1, <1>2, <1>3 DEF Drains, Retires
<1>4. CASE ~Drains(e)
  BY Zenon, <1>2, <1>4
<1> QED  BY Zenon, <1>3, <1>4

\* p says which entry of old each entry of new was, or that it is a new
\* Building one (0).  Nothing but its age and the state of its circuit changed.
Descends(p, new, old) ==
    /\ p \in [1..Len(new) -> 0..Len(old)]
    /\ \A j, k \in 1..Len(new) : p[j] = p[k] /\ p[j] # 0 => j = k
    /\ \A j \in 1..Len(new) :
         IF p[j] = 0 THEN new[j].id = NoId /\ new[j].state = "Building"
         ELSE /\ new[j].id = old[p[j]].id /\ new[j].streams = old[p[j]].streams
              /\ new[j].state = "Building" <=> old[p[j]].state = "Building"

\* The first half of tick: entries stay in their order, the ones to retire go.
LEMMA SweptIs ==
    ASSUME NEW es \in Seq(Entry)
    PROVE  /\ Swept(es) \in Seq(Entry)
           /\ Count(Swept(es), "Building") = Count(es, "Building")
           /\ \E p : /\ Descends(p, Swept(es), es)
                     /\ \A j \in 1..Len(Swept(es)) : p[j] # 0 /\ ~Retires(es[p[j]])
                     /\ \A i \in 1..Len(es) :
                          ~Retires(es[i]) => \E j \in 1..Len(Swept(es)) : p[j] = i
<1> DEFINE d == [i \in 1..Len(es) |-> Drained(es[i])]
           K == {e \in Entry : ~Retires(e)}
           B == {e \in Entry : e.state = "Building"}
<1>1. Swept(es) = Filter(d, K)
  <2>1. DOMAIN es = 1..Len(es)
    OBVIOUS
  <2> QED  BY <2>1, Zenon DEF Swept
<1>2. \A i \in 1..Len(es) : /\ es[i] \in Entry /\ Drained(es[i]) \in Entry
                            /\ Drained(es[i]).id = es[i].id
                            /\ Drained(es[i]).streams = es[i].streams
                            /\ Drained(es[i]).state = "Building" <=> es[i].state = "Building"
                            /\ Retires(Drained(es[i])) <=> Retires(es[i])
  BY DrainedIs
<1>3. Len(es) \in Nat /\ d \in Seq(Entry) /\ Len(d) = Len(es)
         /\ \A i \in 1..Len(es) : d[i] = Drained(es[i])
  BY <1>2
<1> HIDE DEF d
<1>4. \A e \in Entry : (e \in K <=> ~Retires(e)) /\ (e \in B <=> e.state = "Building")
  BY Zenon
<1>5. B \subseteq K
  BY Zenon DEF Retires
<1> HIDE DEF K, B
<1>6. Filter(d, K) \in Seq(Entry) /\ \E p : Embeds(p, Filter(d, K), d, K)
  BY Zenon, <1>3, FilterEmbeds
<1>7. PICK p : Embeds(p, Filter(d, K), d, K)
  BY Zenon, <1>6
<1> DEFINE t == Filter(d, K)
<1>8. t = Swept(es) /\ t \in Seq(Entry) /\ Len(t) \in Nat
  BY <1>1, <1>6
<1>9. /\ p \in [1..Len(t) -> 1..Len(es)]
      /\ \A j \in 1..Len(t) : t[j] = d[p[j]] /\ d[p[j]] \in K
      /\ \A i, j \in 1..Len(t) : i < j => p[i] < p[j]
      /\ \A i \in 1..Len(es) : d[i] \in K => \E j \in 1..Len(t) : p[j] = i
  BY Zenon, <1>3, <1>7 DEF Embeds
<1>10. Cardinality(Where(t, B)) = Cardinality(Where(d, B))
  BY Zenon, <1>3, <1>5, FilterCount
<1> HIDE DEF t
<1>11. Where(t, B) = Building(t)
  <2>1. \A j \in 1..Len(t) : t[j] \in Entry
    BY <1>8
  <2> QED  BY Zenon, <1>4, <2>1 DEF Where, Building
<1>12. Where(d, B) = Building(es)
  BY <1>2, <1>3, <1>4 DEF Where, Building
<1>13. Count(t, "Building") = Count(es, "Building")
  BY Zenon, <1>8, <1>10, <1>11, <1>12, CountBuilding
<1>14. \A j \in 1..Len(t) : /\ p[j] \in 1..Len(es) /\ p[j] # 0 /\ p[j] \in 0..Len(es)
                            /\ t[j] = Drained(es[p[j]]) /\ ~Retires(es[p[j]])
  <2> SUFFICES ASSUME NEW j \in 1..Len(t)
               PROVE  /\ p[j] \in 1..Len(es) /\ p[j] # 0 /\ p[j] \in 0..Len(es)
                      /\ t[j] = Drained(es[p[j]]) /\ ~Retires(es[p[j]])
    BY Zenon
  <2>1. p[j] \in 1..Len(es) /\ t[j] = d[p[j]] /\ d[p[j]] \in K
    BY Zenon, <1>9
  <2>2. p[j] # 0 /\ p[j] \in 0..Len(es)
    BY <1>3, <2>1
  <2> QED  BY <1>2, <1>3, <1>4, <2>1, <2>2, Zenon
<1>15. \A j, k \in 1..Len(t) : p[j] = p[k] => j = k
  <2> SUFFICES ASSUME NEW j \in 1..Len(t), NEW k \in 1..Len(t), j # k PROVE p[j] # p[k]
    BY Zenon
  <2>1. j < k \/ k < j
    BY <1>8
  <2>2. p[j] \in 1..Len(es) /\ p[k] \in 1..Len(es) /\ (p[j] < p[k] \/ p[k] < p[j])
    BY Zenon, <1>9, <1>14, <2>1
  <2> QED  BY <1>3, <2>2
<1>16. Descends(p, t, es)
  <2>1. p \in [1..Len(t) -> 0..Len(es)]
    BY Zenon, <1>9, <1>14
  <2> QED  BY <1>2, <1>14, <1>15, <2>1 DEF Descends
<1>17. \A i \in 1..Len(es) : ~Retires(es[i]) => \E j \in 1..Len(t) : p[j] = i
  <2> SUFFICES ASSUME NEW i \in 1..Len(es), ~Retires(es[i])
               PROVE  \E j \in 1..Len(t) : p[j] = i
    BY Zenon
  <2>1. d[i] \in K
    BY <1>2, <1>3, <1>4
  <2> QED  BY Zenon, <1>9, <2>1
<1> QED  BY Zenon, <1>8, <1>13, <1>14, <1>16, <1>17

\* tick asks for no more builds than the caps leave room for.
LEMMA ToRequestIs ==
    ASSUME NEW c \in Classes, NEW es \in Seq(Entry), Count(es, "Building") <= MaxPendingBuilds
    PROVE  ToRequest(c, es) \in Nat /\ Count(es, "Building") + ToRequest(c, es) <= MaxPendingBuilds
<1> DEFINE pending == Count(es, "Building")
           x == Minus(MinPoolSize[c], Count(es, "Healthy") + pending)
           y == Minus(MaxPerClass[c], Len(es))
           z == Minus(MaxPendingBuilds, pending)
<1>1. ToRequest(c, es) = Least({x, y, z})
  BY Zenon DEF ToRequest
<1>2. pending \in Nat /\ MaxPendingBuilds \in Nat /\ MinPoolSize[c] \in Nat /\ MaxPerClass[c] \in Nat
  BY Zenon, PoolPolicyAssumption, CountBuilding
<1>3. Count(es, "Healthy") \in Nat
  <2>1. DOMAIN es = 1..Len(es) /\ Len(es) \in Nat
    OBVIOUS
  <2>2. IsFiniteSet(1..Len(es))
    BY <2>1, FS_Interval
  <2>3. {i \in DOMAIN es : es[i].state = "Healthy"} \in SUBSET (1..Len(es))
    BY Zenon, <2>1
  <2> QED  BY Zenon, <2>2, <2>3, FS_Subset, FS_CardinalityType DEF Count
<1>4. x \in Nat /\ y \in Nat /\ z \in Nat /\ pending + z <= MaxPendingBuilds
  BY <1>2, <1>3 DEF Minus
<1> HIDE DEF x, y, z, pending
<1>5. Least({x, y, z}) \in {x, y, z} /\ Least({x, y, z}) <= z
  <2>1. {x, y, z} \in SUBSET Nat /\ {x, y, z} # {} /\ z \in {x, y, z}
    BY Zenon, <1>4
  <2> QED  BY Zenon, <2>1, LeastIs
<1> QED  BY <1>1, <1>2, <1>4, <1>5 DEF pending

\* new holds the entries of old that do not retire, and Building ones.
Survives(p, new, old) ==
    /\ Descends(p, new, old)
    /\ \A j \in 1..Len(new) : p[j] # 0 => ~Retires(old[p[j]])
    /\ \A i \in 1..Len(old) : ~Retires(old[i]) => \E j \in 1..Len(new) : p[j] = i

\* What tick makes of the entries of one class.
Ticked(c, es) == Refilled(c, Swept(es))

\* tick on one class.
LEMMA TickedIs ==
    ASSUME NEW c \in Classes, NEW es \in Seq(Entry), Count(es, "Building") <= MaxPendingBuilds
    PROVE  /\ Ticked(c, es) \in Seq(Entry)
           /\ ToRequest(c, Swept(es)) \in Nat
           /\ Count(Ticked(c, es), "Building") = Count(es, "Building") + ToRequest(c, Swept(es))
           /\ Count(Ticked(c, es), "Building") <= MaxPendingBuilds
           /\ \E p : Survives(p, Ticked(c, es), es)
<1> DEFINE sw == Swept(es)
           k == ToRequest(c, sw)
           e == InsertBuilding(<<>>, 0)[1]
           add == [i \in 1..k |-> e]
           new == sw \o add
           m == Len(sw)
<1>1. Ticked(c, es) = new
  BY Zenon DEF Ticked, Refilled
<1>2. PICK p : /\ Descends(p, sw, es)
               /\ \A j \in 1..m : p[j] # 0 /\ ~Retires(es[p[j]])
               /\ \A i \in 1..Len(es) : ~Retires(es[i]) => \E j \in 1..m : p[j] = i
  BY Zenon, SweptIs
<1>3. sw \in Seq(Entry) /\ m = Len(sw) /\ m \in Nat /\ Count(sw, "Building") = Count(es, "Building")
  BY SweptIs
<1>4. k \in Nat /\ Count(sw, "Building") + k <= MaxPendingBuilds
  BY Zenon, <1>3, ToRequestIs
<1>5. e \in Entry /\ e.id = NoId /\ e.state = "Building"
  BY DEF InsertBuilding, Entry, EntryState, NoId
<1> HIDE DEF e, sw, k
<1>6. add \in Seq(Entry) /\ Len(add) = k /\ \A i \in 1..k : add[i] = e
  BY <1>4, <1>5
<1> HIDE DEF add
<1>7. /\ new \in Seq(Entry) /\ Len(new) = m + k
      /\ \A j \in 1..m : new[j] = sw[j]
      /\ \A j \in (m + 1)..(m + k) : new[j] = e
  <2>1. /\ new \in Seq(Entry) /\ Len(new) = m + k
        /\ \A j \in 1..(m + k) : new[j] = IF j <= m THEN sw[j] ELSE add[j - m]
    BY <1>3, <1>6
  <2>2. \A j \in (m + 1)..(m + k) : j - m \in 1..k /\ j \in 1..(m + k) /\ ~(j <= m)
    BY <1>3, <1>4
  <2>3. \A j \in 1..m : j <= m /\ j \in 1..(m + k)
    BY <1>3, <1>4
  <2> HIDE DEF new, m
  <2> QED  BY Zenon, <1>6, <2>1, <2>2, <2>3
<1> HIDE DEF new, m
<1>8. \A j \in 1..(m + k) : (j \in 1..m /\ j <= m) \/ (j \in (m + 1)..(m + k) /\ ~(j <= m))
  BY <1>3, <1>4
<1>9. Count(new, "Building") = Count(es, "Building") + k
  <2> DEFINE X == (m + 1)..(m + k)
  <2>1. Building(new) = Building(sw) \cup X
    BY <1>3, <1>4, <1>5, <1>7, <1>8 DEF Building
  <2>2. Building(sw) \cap X = {}
    BY <1>3, <1>4 DEF Building
  <2>3. IsFiniteSet(X) /\ Cardinality(X) = k
    <3>1. m + 1 \in Int /\ m + k \in Int /\ (m + 1 > m + k <=> k = 0) /\ (m + k) - (m + 1) + 1 = k
      BY <1>3, <1>4
    <3> QED  BY Zenon, <3>1, FS_Interval
  <2> HIDE DEF X
  <2>4. Cardinality(Building(sw) \cup X) = Cardinality(Building(sw)) + Cardinality(X)
    <3>1. IsFiniteSet(Building(sw)) /\ Cardinality(Building(sw)) \in Nat
      BY Zenon, <1>3, CountBuilding
    <3>2. Cardinality(Building(sw) \cup X)
            = Cardinality(Building(sw)) + Cardinality(X) - Cardinality(Building(sw) \cap X)
      BY Zenon, <2>3, <3>1, FS_Union
    <3>3. Cardinality(Building(sw) \cap X) = 0
      BY Zenon, <2>2, FS_EmptySet
    <3> QED  BY <1>4, <2>3, <3>1, <3>2, <3>3
  <2> QED  BY Zenon, <1>3, <1>7, <2>1, <2>3, <2>4, CountBuilding
<1> DEFINE q == [j \in 1..(m + k) |-> IF j <= m THEN p[j] ELSE 0]
<1>10. \A j \in 1..m : /\ p[j] \in 0..Len(es) /\ p[j] # 0 /\ ~Retires(es[p[j]])
                       /\ sw[j].id = es[p[j]].id /\ sw[j].streams = es[p[j]].streams
                       /\ sw[j].state = "Building" <=> es[p[j]].state = "Building"
  BY Zenon, <1>2, <1>3 DEF Descends
<1>11. \A i, j \in 1..m : p[i] = p[j] => i = j
  BY Zenon, <1>2, <1>3, <1>10 DEF Descends
<1>12. q \in [1..(m + k) -> 0..Len(es)]
  BY <1>8, <1>10
<1>13. /\ \A j \in 1..m : q[j] = p[j]
       /\ \A j \in (m + 1)..(m + k) : q[j] = 0
  BY <1>3, <1>4
<1> HIDE DEF q
<1>14. Descends(q, new, es)
  <2>1. \A i, j \in 1..(m + k) : q[i] = q[j] /\ q[i] # 0 => i = j
    BY <1>8, <1>11, <1>13
  <2>2. \A j \in 1..(m + k) :
         IF q[j] = 0 THEN new[j].id = NoId /\ new[j].state = "Building"
         ELSE /\ new[j].id = es[q[j]].id /\ new[j].streams = es[q[j]].streams
              /\ new[j].state = "Building" <=> es[q[j]].state = "Building"
    BY <1>5, <1>7, <1>8, <1>10, <1>13
  <2> QED  BY Zenon, <1>7, <1>12, <2>1, <2>2 DEF Descends
<1>15. \A j \in 1..(m + k) : q[j] # 0 => ~Retires(es[q[j]])
  BY Zenon, <1>8, <1>10, <1>13
<1>16. \A i \in 1..Len(es) : ~Retires(es[i]) => \E j \in 1..(m + k) : q[j] = i
  <2>1. \A j \in 1..m : j \in 1..(m + k)
    BY <1>3, <1>4
  <2> QED  BY <1>2, <1>13, <2>1
<1>17. Survives(q, new, es)
  BY Zenon, <1>7, <1>14, <1>15, <1>16 DEF Survives
<1> QED  BY Zenon, <1>1, <1>3, <1>4, <1>7, <1>9, <1>17 DEF k, sw

-----------------------------------------------------------------------------
(* Changes that leave the circuits of a class what they are.                *)

\* The entries of new are those of old, moved, without some Building ones or
\* with some more.
Rearranged(new, old) ==
    /\ \E p : Descends(p, new, old)
    /\ \A i \in 1..Len(old) : old[i].id # NoId => \E j \in 1..Len(new) : new[j].id = old[i].id

\* Nothing changes.
LEMMA RearrangedSame ==
    ASSUME NEW es \in Seq(Entry)
    PROVE  Rearranged(es, es)
<1> DEFINE p == [j \in 1..Len(es) |-> j]
<1>1. Len(es) \in Nat
  OBVIOUS
<1>2. p \in [1..Len(es) -> 0..Len(es)] /\ \A j \in 1..Len(es) : p[j] = j /\ j # 0
  BY <1>1
<1> HIDE DEF p
<1>3. Descends(p, es, es)
  BY Zenon, <1>2 DEF Descends
<1> QED  BY <1>3, Zenon DEF Rearranged

\* One entry changes, but not its id, its streams or its being Building.
LEMMA RearrangedUpdated ==
    ASSUME NEW old \in Seq(Entry), NEW new, NEW i, Updated(new, old, i),
           new[i].id = old[i].id, new[i].streams = old[i].streams,
           new[i].state = "Building" <=> old[i].state = "Building"
    PROVE  Rearranged(new, old)
<1> DEFINE p == [j \in 1..Len(old) |-> j]
<1>1. Len(old) \in Nat
  OBVIOUS
<1>2. p \in [1..Len(old) -> 0..Len(old)] /\ \A j \in 1..Len(old) : p[j] = j /\ j # 0
  BY <1>1
<1> HIDE DEF p
<1>3. Len(new) = Len(old) /\ i \in 1..Len(old) /\ \A j \in 1..Len(old) : j # i => new[j] = old[j]
  BY Zenon DEF Updated
<1>4. \A j \in 1..Len(old) : /\ new[j].id = old[j].id /\ new[j].streams = old[j].streams
                             /\ new[j].state = "Building" <=> old[j].state = "Building"
  BY Zenon, <1>3
<1>5. Descends(p, new, old)
  BY <1>2, <1>3, <1>4 DEF Descends
<1>6. \A j \in 1..Len(old) : old[j].id # NoId => \E k \in 1..Len(new) : new[k].id = old[j].id
  BY Zenon, <1>3, <1>4
<1> QED  BY <1>5, <1>6, Zenon DEF Rearranged

\* One more Building entry.
LEMMA RearrangedInserted ==
    ASSUME NEW old \in Seq(Entry), NEW n \in Nat
    PROVE  Rearranged(InsertBuilding(old, n), old)
<1> DEFINE new == InsertBuilding(old, n)
           m == Len(old)
           p == [j \in 1..(m + 1) |-> IF j = m + 1 THEN 0 ELSE j]
<1>1. /\ Len(new) = m + 1 /\ m \in Nat /\ m = Len(old)
      /\ \A j \in 1..m : new[j] = old[j]
      /\ new[m + 1].state = "Building" /\ new[m + 1].id = NoId
  <2>1. m \in Nat
    OBVIOUS
  <2> QED  BY <2>1, InsertBuildingIs, Zenon
<1> HIDE DEF new, m
<1>2. /\ p \in [1..(m + 1) -> 0..m] /\ p[m + 1] = 0
      /\ \A j \in 1..m : p[j] = j /\ j # 0
      /\ \A j \in 1..(m + 1) : j \in 1..m \/ j = m + 1
      /\ \A j \in 1..m : j \in 1..(m + 1)
  BY <1>1
<1> HIDE DEF p
<1>3. Descends(p, new, old)
  <2>1. \A j, k \in 1..(m + 1) : p[j] = p[k] /\ p[j] # 0 => j = k
    BY Zenon, <1>2
  <2>2. \A j \in 1..(m + 1) :
         IF p[j] = 0 THEN new[j].id = NoId /\ new[j].state = "Building"
         ELSE /\ new[j].id = old[p[j]].id /\ new[j].streams = old[p[j]].streams
              /\ new[j].state = "Building" <=> old[p[j]].state = "Building"
    BY <1>1, <1>2
  <2> QED  BY Zenon, <1>1, <1>2, <2>1, <2>2 DEF Descends
<1>4. \A i \in 1..m : old[i].id # NoId => \E j \in 1..(m + 1) : new[j].id = old[i].id
  BY Zenon, <1>1, <1>2
<1> QED  BY <1>1, <1>3, <1>4, Zenon DEF Rearranged, new

\* One Building entry less, and the last entry in its place.
LEMMA RearrangedRemoved ==
    ASSUME NEW old \in Seq(Entry), FirstBuilding(old) > 0
    PROVE  Rearranged(RecordBuildFailure(old), old)
<1> DEFINE new == RecordBuildFailure(old)
           f == FirstBuilding(old)
           n == Len(old)
           p == [j \in 1..(n - 1) |-> IF j = f THEN n ELSE j]
<1>1. /\ Len(new) = n - 1 /\ n \in Nat /\ n = Len(old) /\ f \in 1..n
      /\ \A j \in 1..(n - 1) : new[j] = IF j = f THEN old[n] ELSE old[j]
      /\ old[f].state = "Building" /\ old[f].id = NoId
  BY RecordBuildFailureIs
<1> HIDE DEF new, f, n
<1>2. /\ p \in [1..(n - 1) -> 0..n]
      /\ \A j \in 1..(n - 1) : p[j] # 0 /\ p[j] = IF j = f THEN n ELSE j
  BY <1>1
<1> HIDE DEF p
<1>3. \A j \in 1..(n - 1) : new[j] = old[p[j]] /\ j # n
  BY <1>1, <1>2
<1>4. Descends(p, new, old)
  <2>1. \A j, k \in 1..(n - 1) : p[j] = p[k] => j = k
    BY <1>1, <1>2
  <2> QED  BY Zenon, <1>1, <1>2, <1>3, <2>1 DEF Descends
<1>5. ASSUME NEW i \in 1..n, old[i].id # NoId
      PROVE  \E j \in 1..(n - 1) : new[j].id = old[i].id
  <2>1. i # f
    BY Zenon, <1>1, <1>5
  <2>2. CASE i = n
    <3>1. f \in 1..(n - 1) /\ new[f] = old[n]
      BY <1>1, <2>1, <2>2
    <3> QED  BY Zenon, <2>2, <3>1
  <2>3. CASE i # n
    <3>1. i \in 1..(n - 1) /\ new[i] = old[i]
      BY <1>1, <2>1, <2>3
    <3> QED  BY Zenon, <3>1
  <2> QED  BY Zenon, <2>2, <2>3
<1> QED  BY <1>1, <1>4, <1>5, Zenon DEF Rearranged, new

\* A moved entry with an id comes from somewhere.
LEMMA DescendsAt ==
    ASSUME NEW p, NEW new, NEW old, Descends(p, new, old),
           NEW j \in 1..Len(new), new[j].id # NoId
    PROVE  /\ p[j] \in 1..Len(old) /\ p[j] # 0
           /\ new[j].id = old[p[j]].id /\ new[j].streams = old[p[j]].streams
<1>1. p[j] # 0
  BY Zenon DEF Descends
<1> QED  BY <1>1 DEF Descends

\* The entries of E2 with an id have it, and their streams, from E.
Inherits(E2, E) ==
    \A c \in Classes : \A j \in 1..Len(E2[c]) : E2[c][j].id # NoId =>
      \E i \in 1..Len(E[c]) : E[c][i].id = E2[c][j].id /\ E[c][i].streams = E2[c][j].streams

\* Moved entries have the ids and the streams they had.
LEMMA DescendsDistinct ==
    ASSUME NEW E, NEW E2, Distinct(E), \A c \in Classes : \E p : Descends(p, E2[c], E[c])
    PROVE  Distinct(E2) /\ Inherits(E2, E)
<1>1. ASSUME NEW c \in Classes, NEW j \in 1..Len(E2[c])
      PROVE  /\ E2[c][j].id \in Ids \cup {NoId}
             /\ E2[c][j].id = NoId <=> E2[c][j].state = "Building"
             /\ E2[c][j].id # NoId =>
                \E i \in 1..Len(E[c]) : E[c][i].id = E2[c][j].id /\ E[c][i].streams = E2[c][j].streams
  <2>1. PICK p : Descends(p, E2[c], E[c])
    BY Zenon
  <2>2. CASE p[j] = 0
    BY Zenon, <2>1, <2>2 DEF Descends
  <2>3. CASE p[j] # 0
    <3>1. /\ p[j] \in 1..Len(E[c]) /\ E2[c][j].id = E[c][p[j]].id
          /\ E2[c][j].streams = E[c][p[j]].streams
          /\ E2[c][j].state = "Building" <=> E[c][p[j]].state = "Building"
      BY <2>1, <2>3 DEF Descends
    <3> QED  BY <3>1 DEF Distinct
  <2> QED  BY Zenon, <2>2, <2>3
<1>2. ASSUME NEW c \in Classes, NEW d \in Classes,
             NEW i \in 1..Len(E2[c]), NEW j \in 1..Len(E2[d]),
             E2[c][i].id = E2[d][j].id, E2[c][i].id # NoId
      PROVE  c = d /\ i = j
  <2>1. PICK p : Descends(p, E2[c], E[c])
    BY Zenon
  <2>2. PICK q : Descends(q, E2[d], E[d])
    BY Zenon
  <2>3. p[i] # 0 /\ p[i] \in 1..Len(E[c]) /\ E2[c][i].id = E[c][p[i]].id
    BY <1>2, <2>1, DescendsAt
  <2>4. q[j] # 0 /\ q[j] \in 1..Len(E[d]) /\ E2[d][j].id = E[d][q[j]].id
    BY <1>2, <2>2, DescendsAt
  <2>5. E[c][p[i]].id = E[d][q[j]].id /\ E[c][p[i]].id # NoId
    BY Zenon, <1>2, <2>3, <2>4
  <2>6. c = d
    BY <2>3, <2>4, <2>5, Zenon DEF Distinct
  <2>7. p[i] # 0 /\ p[i] \in 1..Len(E[c]) /\ E2[c][i].id = E[c][p[i]].id
        /\ j \in 1..Len(E2[c]) /\ E2[c][j].id = E2[c][i].id
    BY Zenon, <1>2, <2>3, <2>6
  <2>8. p[j] # 0 /\ p[j] \in 1..Len(E[c]) /\ E2[c][j].id = E[c][p[j]].id
    BY <1>2, <2>1, <2>7, DescendsAt
  <2>9. p[i] = p[j]
    <3>1. E[c][p[i]].id = E[c][p[j]].id /\ E[c][p[i]].id # NoId
      BY Zenon, <1>2, <2>7, <2>8
    <3> QED  BY <2>7, <2>8, <3>1, Zenon DEF Distinct
  <2> QED  BY <2>1, <2>6, <2>7, <2>9, Zenon DEF Descends
<1> QED  BY <1>1, <1>2 DEF Distinct, Inherits

-----------------------------------------------------------------------------
(* There is always a task for one more build.                               *)

\* The elements of S that f sends to c.
Fiber(f, S, c) == {x \in S : f[x] = c}

\* A finite set of at most k elements can be numbered 1 to k.
LEMMA Numbering ==
    ASSUME NEW S, IsFiniteSet(S), NEW k \in Nat, Cardinality(S) <= k
    PROVE  \E g \in [S -> 1..k] : \A x, y \in S : g[x] = g[y] => x = y
<1> DEFINE n == Cardinality(S)
<1>1. n \in Nat /\ ExistsBijection(1..n, S)
  BY Zenon, FS_CardinalityType
<1>2. PICK b \in [1..n -> S] : \A x \in S : \E i \in 1..n : b[i] = x
  BY Zenon, <1>1 DEF ExistsBijection, Bijection, Surjection
<1>3. n <= k
  BY Zenon
<1> HIDE DEF n
<1> DEFINE g == [x \in S |-> CHOOSE i \in 1..n : b[i] = x]
<1>4. ASSUME NEW x \in S
      PROVE  g[x] \in 1..n /\ b[g[x]] = x
  BY Zenon, <1>2
<1>5. g \in [S -> 1..n]
  BY Zenon, <1>4
<1> HIDE DEF g
<1>6. g \in [S -> 1..k]
  BY <1>1, <1>3, <1>5
<1>7. \A x, y \in S : g[x] = g[y] => x = y
  BY <1>4, Zenon
<1> QED  BY <1>6, <1>7, Zenon

\* When no class has more than k elements and one has fewer, there are fewer
\* than k for each class.
LEMMA FewerThanFull ==
    ASSUME NEW S, NEW C, IsFiniteSet(S), IsFiniteSet(C), NEW k \in Nat, NEW f \in [S -> C],
           \A c \in C : Cardinality(Fiber(f, S, c)) <= k,
           NEW d \in C, Cardinality(Fiber(f, S, d)) < k
    PROVE  Cardinality(S) < k * Cardinality(C)
<1> DEFINE Numbers(g, c) == /\ g \in [Fiber(f, S, c) -> 1..k]
                            /\ \A x, y \in Fiber(f, S, c) : g[x] = g[y] => x = y
                            /\ c = d => \A x \in Fiber(f, S, c) : g[x] # k
           G == [c \in C |-> CHOOSE g : Numbers(g, c)]
           h == [x \in S |-> <<G[f[x]][x], f[x]>>]
           P == (1..k) \X C
           T == P \ {<<k, d>>}
<1>1. ASSUME NEW c \in C
      PROVE  \E g : Numbers(g, c)
  <2>1. IsFiniteSet(Fiber(f, S, c)) /\ Cardinality(Fiber(f, S, c)) \in Nat
    BY Zenon, FS_Subset, FS_CardinalityType DEF Fiber
  <2>2. CASE c # d
    <3>1. \E g \in [Fiber(f, S, c) -> 1..k] : \A x, y \in Fiber(f, S, c) : g[x] = g[y] => x = y
      BY Zenon, <2>1, Numbering
    <3> QED  BY Zenon, <2>2, <3>1
  <2>3. CASE c = d
    <3>1. k - 1 \in Nat /\ Cardinality(Fiber(f, S, c)) <= k - 1
      BY <2>1, <2>3
    <3>2. PICK g \in [Fiber(f, S, c) -> 1..(k - 1)] :
            \A x, y \in Fiber(f, S, c) : g[x] = g[y] => x = y
      BY Zenon, <2>1, <3>1, Numbering
    <3>3. g \in [Fiber(f, S, c) -> 1..k] /\ \A x \in Fiber(f, S, c) : g[x] # k
      BY <3>2
    <3> QED  BY Zenon, <3>2, <3>3
  <2> QED  BY Zenon, <2>2, <2>3
<1>2. \A c \in C : Numbers(G[c], c)
  <2> HIDE DEF Numbers
  <2> QED  BY Zenon, <1>1
<1> HIDE DEF G
<1>3. ASSUME NEW x \in S
      PROVE  /\ f[x] \in C /\ x \in Fiber(f, S, f[x])
             /\ G[f[x]][x] \in 1..k
             /\ f[x] = d => G[f[x]][x] # k
  <2>1. f[x] \in C /\ x \in Fiber(f, S, f[x])
    BY Zenon DEF Fiber
  <2>2. Numbers(G[f[x]], f[x])
    BY Zenon, <1>2, <2>1
  <2> QED  BY Zenon, <2>1, <2>2
<1>4. h \in [S -> T]
  <2>1. ASSUME NEW x \in S  PROVE <<G[f[x]][x], f[x]>> \in T
    BY Zenon, <1>3
  <2> QED  BY Zenon, <2>1
<1>5. ASSUME NEW x \in S, NEW y \in S, h[x] = h[y]
      PROVE  x = y
  <2>1. f[x] = f[y] /\ G[f[x]][x] = G[f[x]][y]
    BY Zenon, <1>5
  <2>2. x \in Fiber(f, S, f[x]) /\ y \in Fiber(f, S, f[x]) /\ f[x] \in C
    BY Zenon, <1>3, <2>1 DEF Fiber
  <2>3. Numbers(G[f[x]], f[x])
    BY Zenon, <1>2, <2>2
  <2> QED  BY Zenon, <2>1, <2>2, <2>3
<1>6. h \in Injection(S, T)
  <2> HIDE DEF h, T
  <2> QED  BY Zenon, <1>4, <1>5 DEF Injection, IsInjective
<1>7. Cardinality(Fiber(f, S, d)) \in Nat /\ Cardinality(C) \in Nat
  BY Zenon, FS_Subset, FS_CardinalityType DEF Fiber
<1>8. IsFiniteSet(P) /\ Cardinality(P) = k * Cardinality(C) /\ <<k, d>> \in P
  <2>1. IsFiniteSet(1..k) /\ Cardinality(1..k) = k
    BY FS_Interval
  <2>2. k \in 1..k
    BY <1>7
  <2> QED  BY Zenon, <2>1, <2>2, FS_Product
<1>9. IsFiniteSet(T) /\ Cardinality(T) = k * Cardinality(C) - 1
  <2> HIDE DEF P
  <2> QED  BY Zenon, <1>8, FS_RemoveElement
<1>10. Cardinality(S) <= Cardinality(T) /\ Cardinality(S) \in Nat
  <2> HIDE DEF T, h
  <2> QED  BY Zenon, <1>6, <1>9, FS_Injection, FS_CardinalityType
<1>11. k * Cardinality(C) \in Nat
  BY <1>7
<1> QED  BY <1>9, <1>10, <1>11

\* The number of tasks is enough.
LEMMA TaskLeft ==
    ASSUME Typed, EveryBuildHasItsEntry, PendingCapped,
           NEW c \in Classes, Cardinality(InFlight(c)) < MaxPendingBuilds
    PROVE  FreeTask \in Tasks /\ build[FreeTask].pc = "free"
<1> DEFINE F == {t \in Tasks : build[t].pc = "free"}
           f == [t \in Tasks |-> build[t].class]
<1>1. MaxPendingBuilds \in Nat /\ Cardinality(Classes) \in Nat
  BY Zenon, PoolPolicyAssumption, DriverAssumption, FS_CardinalityType
<1>2. MaxPendingBuilds * Cardinality(Classes) \in Nat
  BY <1>1
<1>3. IsFiniteSet(Tasks) /\ Cardinality(Tasks) = MaxPendingBuilds * Cardinality(Classes)
      /\ Tasks \in SUBSET Nat
  BY <1>2, FS_Interval DEF Tasks
<1>4. F # {}
  <2> SUFFICES ASSUME F = {}  PROVE FALSE
    BY Zenon
  <2>1. f \in [Tasks -> Classes]
    BY Zenon DEF Typed, TypeOK
  <2>2. \A d \in Classes : Fiber(f, Tasks, d) = InFlight(d)
    BY Zenon DEF Fiber, InFlight
  <2>3. ASSUME NEW d \in Classes
        PROVE  Cardinality(InFlight(d)) <= MaxPendingBuilds
    <3>1. /\ Count(entries[d], "Building") <= MaxPendingBuilds
          /\ Count(entries[d], "Building") = Cardinality(InFlight(d)) + todo.spawn[d]
      BY Zenon DEF PendingCapped, EveryBuildHasItsEntry
    <3>2. todo.spawn[d] \in Nat
      BY Zenon DEF Typed
    <3>3. Cardinality(InFlight(d)) \in Nat
      BY Zenon, <1>3, FS_Subset, FS_CardinalityType DEF InFlight
    <3> QED  BY <1>1, <3>1, <3>2, <3>3
  <2> HIDE DEF f
  <2>4. /\ \A d \in Classes : Cardinality(Fiber(f, Tasks, d)) <= MaxPendingBuilds
        /\ Cardinality(Fiber(f, Tasks, c)) < MaxPendingBuilds
    BY Zenon, <2>2, <2>3
  <2>5. Cardinality(Tasks) < MaxPendingBuilds * Cardinality(Classes)
    BY Zenon, <1>1, <1>3, <2>1, <2>4, DriverAssumption, FewerThanFull
  <2> QED  BY <1>2, <1>3, <2>5
<1>5. F \in SUBSET Nat
  BY Zenon, <1>3
<1>6. Least(F) \in F
  <2> HIDE DEF F
  <2> QED  BY Zenon, <1>4, <1>5, LeastIs
<1> QED  BY Zenon, <1>6 DEF FreeTask

-----------------------------------------------------------------------------
(* What the parts of the invariant need of a step.                          *)

\* Circuits that are rearranged keep their names.
LEMMA RearrangedPool ==
    ASSUME NEW E, NEW E2, NEW index, Distinct(E), Indexed(E, index),
           \A c \in Classes : Rearranged(E2[c], E[c])
    PROVE  /\ Distinct(E2) /\ Indexed(E2, index)
           /\ \A id \in Ids : Has(E2, id) => Has(E, id)
           /\ Inherits(E2, E)
<1>1. \A c \in Classes : \E p : Descends(p, E2[c], E[c])
  BY Zenon DEF Rearranged
<1>2. \A c \in Classes : \A i \in 1..Len(E[c]) : E[c][i].id # NoId =>
         \E j \in 1..Len(E2[c]) : E2[c][j].id = E[c][i].id
  BY Zenon DEF Rearranged
<1>3. Distinct(E2) /\ Inherits(E2, E)
  BY Zenon, <1>1, DescendsDistinct
<1>4. \A id \in Ids : id # NoId
  BY DriverAssumption DEF Ids, NoId
<1>5. ASSUME NEW c \in Classes, NEW id \in Ids
      PROVE  (\E j \in 1..Len(E2[c]) : E2[c][j].id = id) <=> (\E i \in 1..Len(E[c]) : E[c][i].id = id)
  <2>1. ASSUME NEW j \in 1..Len(E2[c]), E2[c][j].id = id
        PROVE  \E i \in 1..Len(E[c]) : E[c][i].id = id
    BY <1>3, <1>4, <2>1, Zenon DEF Inherits
  <2>2. ASSUME NEW i \in 1..Len(E[c]), E[c][i].id = id
        PROVE  \E j \in 1..Len(E2[c]) : E2[c][j].id = id
    BY <1>2, <1>4, <2>2, Zenon
  <2> QED  BY Zenon, <2>1, <2>2
<1>6. Indexed(E2, index)
  BY <1>5 DEF Indexed
<1>7. \A id \in Ids : Has(E2, id) => Has(E, id)
  BY Zenon, <1>5 DEF Has
<1> QED  BY Zenon, <1>3, <1>6, <1>7

\* The same when one class is rearranged.
LEMMA RearrangedClass ==
    ASSUME Typed, NEW c \in Classes, NEW new \in Seq(Entry), Rearranged(new, entries[c]),
           entries' = [entries EXCEPT ![c] = new]
    PROVE  /\ entries' \in [Classes -> Seq(Entry)]
           /\ \A d \in Classes : Rearranged(entries'[d], entries[d])
           /\ entries'[c] = new
           /\ \A d \in Classes : d # c => entries'[d] = entries[d]
<1>1. entries \in [Classes -> Seq(Entry)]
  BY Zenon DEF Typed, TypeOK
<1>2. \A d \in Classes : entries[d] \in Seq(Entry) /\ entries'[d] = IF d = c THEN new ELSE entries[d]
  BY Zenon, <1>1
<1>3. \A d \in Classes : Rearranged(entries[d], entries[d])
  BY Zenon, <1>2, RearrangedSame
<1> QED  BY Zenon, <1>1, <1>2, <1>3

\* Steps that give out no id and destroy no circuit.
LEMMA IssuedFrame ==
    ASSUME Typed, Issued,
           UNCHANGED <<nextId, registry>>, todo'.retire = todo.retire,
           \A t \in Tasks : build'[t].pc = "record" =>
              build[t].pc = "record" /\ build'[t].id = build[t].id,
           \A id \in Ids : Has(entries', id) => Has(entries, id),
           \A id \in Ids : ~Has(entries, id) /\ Users(id) = {} => Users(id)' = {},
           \A s \in Streams : At(s, "using")' => stream'[s].id \in Ids
    PROVE  Issued'
<1>1. \A id \in Ids : Has(entries', id) => id < nextId' /\ registry'[id] > 0
  BY Zenon DEF Issued
<1>2. todo.retire \in SUBSET Ids /\ nextId \in Nat /\ Ids \in SUBSET Nat
  BY DriverAssumption DEF Typed, TypeOK, Ids
<1>3. \A id \in todo'.retire : id < nextId' /\ ~Has(entries', id)
  BY Zenon, <1>2 DEF Issued
<1>4. \A t \in Tasks : build'[t].pc = "record" =>
          /\ build'[t].id \in Ids /\ build'[t].id < nextId' /\ registry'[build'[t].id] > 0
          /\ ~Has(entries', build'[t].id) /\ build'[t].id \notin todo'.retire
          /\ Users(build[t].id)' = {}
  BY Zenon DEF Issued
<1>5. \A t, u \in Tasks : build'[t].pc = "record" /\ build'[u].pc = "record"
          /\ build'[t].id = build'[u].id => t = u
  BY DEF Issued
<1>6. \A id \in Ids : id >= nextId => ~Has(entries, id)
  BY <1>2 DEF Issued
<1>7. \A id \in Ids : id >= nextId' => registry'[id] = 0 /\ Users(id)' = {}
  BY Zenon, <1>6 DEF Issued
<1> QED  BY <1>1, <1>3, <1>4, <1>5, <1>7 DEF Issued

\* Steps that put no stream on a circuit and take none from it.
LEMMA CountedFrame ==
    ASSUME Counted, Inherits(entries', entries), \A id : Users(id)' = Users(id)
    PROVE  Counted'
<1> SUFFICES ASSUME NEW c \in Classes, NEW j \in 1..Len(entries'[c]), entries'[c][j].id # NoId
             PROVE  Cardinality(Users(entries[c][j].id)') <= entries'[c][j].streams
  BY Zenon DEF Counted
<1>1. PICK i \in 1..Len(entries[c]) : /\ entries[c][i].id = entries'[c][j].id
                                      /\ entries[c][i].streams = entries'[c][j].streams
  BY Zenon DEF Inherits
<1>2. Cardinality(Users(entries[c][i].id)) <= entries[c][i].streams
  BY Zenon, <1>1 DEF Counted
<1>3. Users(entries[c][j].id)' = Users(entries'[c][j].id)
  BY Zenon DEF Users, At
<1> QED  BY Zenon, <1>1, <1>2, <1>3

\* Steps that build no hop and destroy none.
LEMMA HopsFrame ==
    ASSUME NoHopLeaks, \A t \in Tasks : build'[t].hops = build[t].hops, UNCHANGED <<registry, hopsUp>>
    PROVE  NoHopLeaks'
<1>1. [t \in Tasks |-> build'[t].hops] = [t \in Tasks |-> build[t].hops]
  BY Zenon
<1> QED  BY Zenon, <1>1 DEF NoHopLeaks

\* The tasks of a class are finitely many.
LEMMA InFlightFinite ==
    ASSUME NEW c
    PROVE  /\ IsFiniteSet(InFlight(c)) /\ Cardinality(InFlight(c)) \in Nat
           /\ IsFiniteSet(InFlight(c)') /\ Cardinality(InFlight(c)') \in Nat
<1>1. MaxPendingBuilds * Cardinality(Classes) \in Nat
  BY PoolPolicyAssumption, DriverAssumption, FS_CardinalityType
<1>2. IsFiniteSet(Tasks)
  BY <1>1, FS_Interval DEF Tasks
<1>3. InFlight(c) \in SUBSET Tasks /\ InFlight(c)' \in SUBSET Tasks
  BY Zenon DEF InFlight
<1> QED  BY Zenon, <1>2, <1>3, FS_Subset, FS_CardinalityType

\* A task takes up a build.
LEMMA Dispatched ==
    ASSUME Typed, HopsWhileBuilding, FreeTask \in Tasks, build[FreeTask].pc = "free",
           NEW c \in Classes, Dispatch(c)
    PROVE  /\ build' \in [Tasks -> BuildRec]
           /\ \A t \in Tasks : build'[t].pc = "record" =>
                 build[t].pc = "record" /\ build'[t].id = build[t].id
           /\ \A t \in Tasks : build'[t].hops = build[t].hops
           /\ HopsWhileBuilding'
           /\ \A d \in Classes : Cardinality(InFlight(d)') =
                 IF d = c THEN Cardinality(InFlight(d)) + 1 ELSE Cardinality(InFlight(d))
<1> USE DEF BuildRec
<1> DEFINE f == FreeTask
           b == [pc |-> "select", class |-> c, hops |-> 0, id |-> NoId]
<1>1. build' = [build EXCEPT ![f] = b]
  BY Zenon DEF Dispatch
<1>2. build \in [Tasks -> BuildRec]
  BY Zenon DEF Typed, TypeOK
<1>3. f \in Tasks /\ build[f].pc = "free" /\ build[f].hops = 0
  BY Zenon DEF HopsWhileBuilding
<1> HIDE DEF f
<1>4. \A t \in Tasks : build'[t] = IF t = f THEN b ELSE build[t]
  BY Zenon, <1>1, <1>2
<1>5. build' \in [Tasks -> BuildRec]
  BY Zenon, <1>1, <1>2
<1>6. \A t \in Tasks : build'[t].hops = build[t].hops
  BY <1>3, <1>4
<1>7. HopsWhileBuilding'
  BY <1>4 DEF HopsWhileBuilding
<1>8. ASSUME NEW d \in Classes
      PROVE  Cardinality(InFlight(d)') =
                 IF d = c THEN Cardinality(InFlight(d)) + 1 ELSE Cardinality(InFlight(d))
  <2>1. CASE d # c
    <3>1. InFlight(d)' = InFlight(d)
      BY <1>3, <1>4, <2>1 DEF InFlight
    <3> QED  BY Zenon, <2>1, <3>1
  <2>2. CASE d = c
    <3>1. InFlight(d)' = InFlight(d) \cup {f} /\ f \notin InFlight(d)
      BY <1>3, <1>4, <2>2 DEF InFlight
    <3> QED  BY Zenon, <2>2, <3>1, InFlightFinite, FS_AddElement
  <2> QED  BY Zenon, <2>1, <2>2
<1> QED  BY <1>4, <1>5, <1>6, <1>7, <1>8

\* A task ends.
LEMMA Freed ==
    ASSUME Typed, HopsWhileBuilding, NEW u \in Tasks, build[u].pc \in {"record", "fail"},
           build' = [build EXCEPT ![u] = NoBuild]
    PROVE  /\ build' \in [Tasks -> BuildRec]
           /\ \A t \in Tasks : build'[t].pc = "record" =>
                 t # u /\ build[t].pc = "record" /\ build'[t].id = build[t].id
           /\ \A t \in Tasks : build'[t].hops = build[t].hops
           /\ HopsWhileBuilding'
           /\ \A d \in Classes : Cardinality(InFlight(d)') =
                 IF d = build[u].class THEN Cardinality(InFlight(d)) - 1 ELSE Cardinality(InFlight(d))
<1> USE DEF BuildRec
<1>2. build \in [Tasks -> BuildRec]
  BY Zenon DEF Typed, TypeOK
<1>3. build[u].hops = 0 /\ build[u].class \in Classes
  BY Zenon, <1>2 DEF HopsWhileBuilding
<1>4. /\ NoBuild \in BuildRec
      /\ NoBuild.pc = "free" /\ NoBuild.hops = 0
  BY Zenon, <1>3 DEF NoBuild
<1>5. \A t \in Tasks : build'[t] = IF t = u THEN NoBuild ELSE build[t]
  BY Zenon, <1>2
<1>6. build' \in [Tasks -> BuildRec]
  BY Zenon, <1>2, <1>4
<1>7. \A t \in Tasks : build'[t].hops = build[t].hops
  BY Zenon, <1>3, <1>4, <1>5
<1>8. HopsWhileBuilding'
  BY Zenon, <1>4, <1>5 DEF HopsWhileBuilding
<1>9. \A t \in Tasks : build'[t].pc = "record" =>
         t # u /\ build[t].pc = "record" /\ build'[t].id = build[t].id
  BY Zenon, <1>4, <1>5
<1>10. ASSUME NEW d \in Classes
       PROVE  Cardinality(InFlight(d)') =
                 IF d = build[u].class THEN Cardinality(InFlight(d)) - 1 ELSE Cardinality(InFlight(d))
  <2>1. CASE d # build[u].class
    <3>1. InFlight(d)' = InFlight(d)
      BY Zenon, <1>4, <1>5, <2>1 DEF InFlight
    <3> QED  BY Zenon, <2>1, <3>1
  <2>2. CASE d = build[u].class
    <3>1. InFlight(d)' = InFlight(d) \ {u} /\ u \in InFlight(d)
      BY Zenon, <1>4, <1>5, <2>2 DEF InFlight
    <3> QED  BY Zenon, <2>2, <3>1, InFlightFinite, FS_RemoveElement
  <2> QED  BY Zenon, <2>1, <2>2
<1> QED  BY Zenon, <1>6, <1>7, <1>8, <1>9, <1>10

\* Steps of the callers that leave the pool alone and use no circuit.
LEMMA StreamOnly ==
    ASSUME Inv, UNCHANGED <<poolVars, build, driverVars>>,
           stream' \in [Streams -> StreamRec],
           ringing' \in BOOLEAN,
           \A s \in Streams : \/ stream'[s].pc = stream[s].pc /\ stream'[s].id = stream[s].id
                              \/ stream'[s].pc # "using" /\ stream[s].pc # "using",
           Wakeups'
    PROVE  Inv'
<1> USE DEF StreamRec
<1> USE DEF Inv
<1>0. /\ entries' = entries /\ idIndex' = idIndex /\ build' = build /\ nextId' = nextId
      /\ registry' = registry /\ draining' = draining /\ todo' = todo /\ hopsUp' = hopsUp
  BY Zenon DEF poolVars, driverVars
<1>1. Typed'
  BY Zenon, <1>0 DEF Typed, TypeOK
<1>2. \A id : Users(id)' = Users(id)
  BY Zenon DEF Users, At
<1>3. Distinct(entries') /\ Indexed(entries', idIndex')
  BY Zenon, <1>0
<1>4. Inherits(entries', entries)
  BY Zenon, <1>0 DEF Inherits
<1>5. Counted'
  BY Zenon, <1>2, <1>4, CountedFrame
<1>6. Issued'
  <2>1. \A s \in Streams : At(s, "using")' => stream'[s].id \in Ids
    BY Zenon DEF Issued, At
  <2> QED  BY Zenon, <1>0, <1>2, <2>1, IssuedFrame
<1>7. EveryBuildHasItsEntry' /\ PendingCapped' /\ HopsWhileBuilding'
  BY Zenon, <1>0 DEF EveryBuildHasItsEntry, PendingCapped, HopsWhileBuilding, InFlight
<1>8. NoHopLeaks'
  BY Zenon, <1>0, HopsFrame
<1> QED  BY <1>1, <1>3, <1>5, <1>6, <1>7, <1>8

\* A caller goes where it uses no circuit, and is not about to sleep.
LEMMA GotoOnly ==
    ASSUME Inv, NEW s \in Streams, stream[s].pc # "using",
           NEW pc \in {"idle", "enabled"}, stream' = Goto(s, pc, NoId),
           UNCHANGED <<poolVars, ringing, build, driverVars>>
    PROVE  Inv'
<1> USE DEF StreamRec
<1>1. stream \in [Streams -> StreamRec]
      /\ ringing \in BOOLEAN
  BY Zenon DEF Inv, Typed, TypeOK
<1>2. \A r \in Streams : stream'[r] = IF r = s THEN [pc |-> pc, id |-> NoId, notified |-> FALSE]
                                                ELSE stream[r]
  BY Zenon, <1>1 DEF Goto
<1>3. stream' \in [Streams -> StreamRec]
  BY Zenon, <1>1 DEF Goto
<1>4. \A r \in Streams : \/ stream'[r].pc = stream[r].pc /\ stream'[r].id = stream[r].id
                         \/ stream'[r].pc # "using" /\ stream[r].pc # "using"
  BY <1>2
<1>5. entries' = entries /\ ringing' = ringing
  BY Zenon DEF poolVars
<1>6. Wakeups'
  BY <1>2, <1>5 DEF Inv, Wakeups
<1>7. UNCHANGED <<poolVars, build, driverVars>>
  BY Zenon
<1> QED  BY <1>1, <1>3, <1>4, <1>5, <1>6, <1>7, StreamOnly

\* The steps of acquire_with_wait.
LEMMA WaitSteps ==
    ASSUME Inv, NEW s \in Streams,
           WaitEnable(s) \/ WaitFull(s) \/ WaitSleep(s) \/ WaitEnds(s)
    PROVE  Inv'
<1> USE DEF StreamRec
<1>1. CASE WaitEnable(s) \/ WaitEnds(s)
  BY Zenon, <1>1, GotoOnly DEF WaitEnable, WaitEnds, At
<1>2. CASE WaitFull(s) /\ stream' = Goto(s, "idle", NoId)
  BY Zenon, <1>2, GotoOnly DEF WaitFull, At
<1>3. ASSUME NEW pc \in {"full", "asleep"}, stream' = [stream EXCEPT ![s].pc = pc],
             stream[s].pc # "using", UNCHANGED <<poolVars, ringing, build, driverVars>>,
             stream[s].pc # "full" => ~Serves(StreamClass[s], entries[StreamClass[s]])
      PROVE  Inv'
  <2>1. stream \in [Streams -> StreamRec]
        /\ ringing \in BOOLEAN
    BY Zenon DEF Inv, Typed, TypeOK
  <2>2. /\ \A r \in Streams : r # s => stream'[r] = stream[r]
        /\ stream'[s].pc = pc /\ stream'[s].id = stream[s].id
        /\ stream'[s].notified = stream[s].notified
    BY Zenon, <1>3, <2>1
  <2>3. stream' \in [Streams -> StreamRec]
    BY Zenon, <1>3, <2>1
  <2>4. \A r \in Streams : \/ stream'[r].pc = stream[r].pc /\ stream'[r].id = stream[r].id
                           \/ stream'[r].pc # "using" /\ stream[r].pc # "using"
    BY Zenon, <1>3, <2>2
  <2>5. entries' = entries /\ ringing' = ringing
    BY Zenon, <1>3 DEF poolVars
  <2>6. Wakeups'
    BY <1>3, <2>2, <2>5 DEF Inv, Wakeups
  <2>7. UNCHANGED <<poolVars, build, driverVars>>
    BY Zenon, <1>3
  <2> QED  BY <2>1, <2>3, <2>4, <2>5, <2>6, <2>7, StreamOnly
<1>4. CASE WaitFull(s) /\ stream' # Goto(s, "idle", NoId)
  BY Zenon, <1>3, <1>4 DEF WaitFull, At
<1>5. CASE WaitSleep(s)
  BY Zenon, <1>3, <1>5 DEF WaitSleep, At
<1> QED  BY Zenon, <1>1, <1>2, <1>4, <1>5

\* notify_waiters.
LEMMA NotifySteps ==
    ASSUME Inv, NotifyWaiters
    PROVE  Inv'
<1> USE DEF StreamRec
<1>1. stream \in [Streams -> StreamRec]
  BY Zenon DEF Inv, Typed, TypeOK
<1>2. \A r \in Streams : /\ stream'[r].pc = stream[r].pc /\ stream'[r].id = stream[r].id
                         /\ stream'[r].notified = (stream[r].notified
                              \/ stream[r].pc \in {"enabled", "full", "asleep"})
  BY Zenon, <1>1 DEF NotifyWaiters
<1>3. stream' \in [Streams -> StreamRec]
  BY Zenon, <1>1 DEF NotifyWaiters
<1>4. ringing' = FALSE /\ UNCHANGED <<poolVars, build, driverVars>>
  BY Zenon DEF NotifyWaiters
<1>5. Wakeups'
  BY Zenon, <1>2 DEF Wakeups
<1> QED  BY Zenon, <1>2, <1>3, <1>4, <1>5, StreamOnly

\* Steps that neither put a stream on a circuit nor end one.
LEMMA Frame ==
    ASSUME Inv, Typed', \A c \in Classes : Rearranged(entries'[c], entries[c]),
           UNCHANGED <<idIndex, nextId, registry>>, todo'.retire = todo.retire,
           \A t \in Tasks : build'[t].pc = "record" =>
              build[t].pc = "record" /\ build'[t].id = build[t].id,
           \A id : Users(id)' = Users(id),
           EveryBuildHasItsEntry', PendingCapped', HopsWhileBuilding', NoHopLeaks', Wakeups'
    PROVE  Inv'
<1>1. /\ Typed /\ Distinct(entries) /\ Indexed(entries, idIndex) /\ Issued /\ Counted
  BY Zenon DEF Inv
<1>2. /\ Distinct(entries') /\ Indexed(entries', idIndex)
      /\ \A id \in Ids : Has(entries', id) => Has(entries, id)
      /\ Inherits(entries', entries)
  BY Zenon, <1>1, RearrangedPool
<1>3. Counted'
  BY Zenon, <1>1, <1>2, CountedFrame
<1>4. \A r \in Streams : At(r, "using")' => stream'[r].id \in Ids
  <2> SUFFICES ASSUME NEW r \in Streams, stream'[r].pc = "using"
               PROVE  stream'[r].id \in Ids
    BY Zenon DEF At
  <2>1. \A i : i = stream'[r].id => r \in Users(i)
    <3> SUFFICES ASSUME NEW i, i = stream'[r].id  PROVE r \in Users(i)
      BY Zenon
    <3>1. r \in Users(i)'
      BY Zenon DEF Users, At
    <3> QED  BY Zenon, <3>1
  <2>2. stream[r].pc = "using" /\ stream[r].id = stream'[r].id
    BY Zenon, <2>1 DEF Users, At
  <2> QED  BY Zenon, <1>1, <2>2 DEF Issued, At
<1>5. Issued'
  BY Zenon, <1>1, <1>2, <1>4, IssuedFrame
<1> QED  BY Zenon, <1>2, <1>3, <1>5 DEF Inv

\* Builds in flight and caps, when neither the tasks nor the Building entries
\* change.
LEMMA PendingFrame ==
    ASSUME EveryBuildHasItsEntry, PendingCapped,
           \A c \in Classes : Count(entries'[c], "Building") = Count(entries[c], "Building"),
           \A c \in Classes : Cardinality(InFlight(c)') = Cardinality(InFlight(c)),
           todo'.spawn = todo.spawn
    PROVE  EveryBuildHasItsEntry' /\ PendingCapped'
BY Zenon DEF EveryBuildHasItsEntry, PendingCapped
=============================================================================
