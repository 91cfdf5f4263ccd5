----------------------------- MODULE PoolDriver -----------------------------
(***************************************************************************)
(* The circuit pool at work: SharedCircuitPool (runtime/src/pool.rs, a     *)
(* CircuitPool behind a mutex with a Notify), PoolDriver and its registry  *)
(* (runtime/src/driver.rs) and build_circuit with its CircuitBuilder       *)
(* (runtime/src/lib.rs, circuit/src/builder.rs).                           *)
(*                                                                         *)
(* Tasks that interleave: the streams that acquire and release circuits,   *)
(* the driver's tick loop, and one task per circuit being built.  Every    *)
(* step below is one critical section of the pool's or the registry's lock *)
(* or one network operation of a build.  The callers of acquire are not in *)
(* the repository: they follow what the pool's docs ask of them (a         *)
(* BuildFirst is handed to dispatch_build, a Ready stream is released      *)
(* once).  A caller told Pending or BuildFirst gets nothing more from the  *)
(* code: dispatch_build drops the number of waiting streams record_built   *)
(* returns, so the caller has to ask again.                                *)
(***************************************************************************)
EXTENDS CircuitPool

CONSTANTS
    Streams,      \* callers of acquire
    StreamClass,  \* the class each of them asks for
    HopCount,     \* CircuitProfile::hop_count, by class
    MaxIds        \* bound: circuits that can be built in a behaviour

ASSUME DriverAssumption ==
    /\ IsFiniteSet(Streams) /\ IsFiniteSet(Classes)
    /\ StreamClass \in [Streams -> Classes]
    /\ HopCount \in [Classes -> Nat \ {0}]
    /\ MaxIds \in Nat \ {0}

Ids == 1 .. MaxIds
Tasks == 1 .. (MaxPendingBuilds * Cardinality(Classes))

VARIABLES
    entries,   \* CircuitPool::by_class
    idIndex,   \* CircuitPool::id_index, the ids of each class
    ringing,   \* some task has unlocked the pool and not yet called notify_waiters()
    stream,    \* each caller: where it stands, and its circuit
    build,     \* the dispatch_build tasks
    nextId,    \* PoolDriver::next_id
    registry,  \* MemoryCircuitRegistry::inner: hops of each stored circuit, 0 if none
    draining,  \* MemoryCircuitRegistry::draining
    todo,      \* actions of the last tick that the driver has not executed
    hopsUp     \* history: hops dialled or extended and not destroyed, in all

vars == <<entries, idIndex, ringing, stream, build, nextId, registry, draining, todo, hopsUp>>
poolVars == <<entries, idIndex>>
driverVars == <<nextId, registry, draining, todo, hopsUp>>

NoBuild == [pc |-> "free", class |-> CHOOSE c \in Classes : TRUE, hops |-> 0, id |-> NoId]
NoWork == [drain |-> {}, retire |-> {}, spawn |-> [c \in Classes |-> 0]]

Init ==
    /\ entries = [c \in Classes |-> <<>>]
    /\ idIndex = [c \in Classes |-> {}]
    /\ ringing = FALSE
    /\ stream = [s \in Streams |-> [pc |-> "idle", id |-> NoId, notified |-> FALSE]]
    /\ build = [t \in Tasks |-> NoBuild]
    /\ nextId = 1
    /\ registry = [i \in Ids |-> 0]
    /\ draining = {}
    /\ todo = NoWork
    /\ hopsUp = 0

-----------------------------------------------------------------------------
(* Helpers.                                                                 *)

At(s, pc) == stream[s].pc = pc
Goto(s, pc, id) == [stream EXCEPT ![s] = [pc |-> pc, id |-> id, notified |-> FALSE]]
FreeTask == Least({t \in Tasks : build[t].pc = "free"})
Dispatch(c) ==
    build' = [build EXCEPT ![FreeTask] = [pc |-> "select", class |-> c, hops |-> 0, id |-> NoId]]

\* One bell for all the tasks that are about to notify: the calls that come
\* after the first could only wake waiters to find the pool unchanged.
Rings == ringing' = TRUE

ClassOf(id) == {c \in Classes : id \in idIndex[c]}

\* What a caller does with acquire's answer; PoolFull is left to each caller.
\* One that is told Pending or BuildFirst is where it was before it asked.
Take(s, o) ==
    /\ o.res # "PoolFull"
    /\ entries' = [entries EXCEPT ![StreamClass[s]] = o.entries]
    /\ stream' = Goto(s, IF o.res = "Ready" THEN "using" ELSE "idle", o.id)
    /\ IF o.res = "BuildFirst" THEN Dispatch(StreamClass[s]) ELSE UNCHANGED build
    /\ UNCHANGED <<idIndex, ringing, driverVars>>

-----------------------------------------------------------------------------
(* Streams.                                                                 *)

AcquireFor(s) ==
    /\ At(s, "idle")
    /\ Take(s, Acquire(StreamClass[s], entries[StreamClass[s]]))

AcquireIsolated(s) ==
    /\ At(s, "idle")
    /\ LET c == StreamClass[s] IN
         \E slot \in Slots(entries[c]) : Take(s, AcquireForDomain(c, entries[c], slot))



\* acquire_with_wait: interest in the notifier is registered, ...
WaitEnable(s) ==
    /\ At(s, "idle")
    /\ stream' = Goto(s, "enabled", NoId)
    /\ UNCHANGED <<poolVars, ringing, build, driverVars>>

\* ... acquire is tried, ...
WaitServed(s) ==
    /\ At(s, "enabled")
    /\ Take(s, Acquire(StreamClass[s], entries[StreamClass[s]]))

\* ... on PoolFull the caller gives up if the deadline has passed, ...
WaitFull(s) ==
    /\ At(s, "enabled")
    /\ ~Serves(StreamClass[s], entries[StreamClass[s]])
    /\ \/ stream' = [stream EXCEPT ![s].pc = "full"]
       \/ stream' = Goto(s, "idle", NoId)
    /\ UNCHANGED <<poolVars, ringing, build, driverVars>>

\* Interest is registered when the wait begins, not before the attempt.
WaitSleepLate(s) ==
    /\ At(s, "full")
    /\ stream' = Goto(s, "asleep", NoId)
    /\ UNCHANGED <<poolVars, ringing, build, driverVars>>

\* ... or waits for a notification, which may have come since it registered.
WaitSleep(s) ==
    /\ At(s, "full")
    /\ stream' = [stream EXCEPT ![s].pc = "asleep"]
    /\ UNCHANGED <<poolVars, ringing, build, driverVars>>

\* The notification or the deadline ends the wait: the loop starts again.
WaitEnds(s) ==
    /\ At(s, "asleep")
    /\ stream' = Goto(s, "enabled", NoId)
    /\ UNCHANGED <<poolVars, ringing, build, driverVars>>

\* The stream ends.  A circuit the pool has retired is UnknownId to release,
\* and the waiters are woken either way.
ReleaseBy(s) ==
    /\ At(s, "using")
    /\ entries' = [c \in Classes |-> IF c \in ClassOf(stream[s].id)
                                     THEN Release(entries[c], stream[s].id) ELSE entries[c]]
    /\ Rings
    /\ stream' = Goto(s, "idle", NoId)
    /\ UNCHANGED <<idIndex, build, driverVars>>

\* notify_waiters(), after the lock is dropped.
NotifyWaiters ==
    /\ ringing
    /\ ringing' = FALSE
    /\ stream' = [s \in Streams |-> [stream[s] EXCEPT !.notified =
                    @ \/ stream[s].pc \in {"enabled", "full", "asleep"}]]
    /\ UNCHANGED <<poolVars, build, driverVars>>

\* The runtime reports that a circuit broke.
FailCircuit(id) ==
    \E c \in ClassOf(id) :
      /\ entries[c][IndexOf(entries[c], id)].state # "Failed"
      /\ entries' = [entries EXCEPT ![c] = RecordFailure(@, id)]
      /\ Rings
      /\ UNCHANGED <<idIndex, stream, build, driverVars>>

\* Time passes: the age limit of an entry is reached.
Age(c, i) ==
    /\ ~entries[c][i].old
    /\ entries[c][i].state \in {"Healthy", "Draining"}
    /\ entries' = [entries EXCEPT ![c][i].old = TRUE]
    /\ UNCHANGED <<idIndex, ringing, stream, build, driverVars>>

-----------------------------------------------------------------------------
(* build_circuit, run by a dispatch_build task.                             *)

\* A failed build: the hops built so far are destroyed, then the pool is told.
Abandon(t) ==
    /\ build' = [build EXCEPT ![t].pc = "fail", ![t].hops = 0]
    /\ hopsUp' = hopsUp - build[t].hops

Select(t) ==
    /\ build[t].pc = "select"
    /\ \E pc \in {"hop", "fail"} : build' = [build EXCEPT ![t].pc = pc]
    /\ UNCHANGED <<poolVars, ringing, stream, driverVars>>

\* DialHop0 or Extend succeeds: record_hop_built.
HopBuilt(t) ==
    /\ build[t].pc = "hop" /\ build[t].hops < HopCount[build[t].class]
    /\ build' = [build EXCEPT ![t].hops = @ + 1]
    /\ hopsUp' = hopsUp + 1
    /\ UNCHANGED <<poolVars, ringing, stream, nextId, registry, draining, todo>>

\* A hop fails, or the global deadline is over (even with every hop built).
HopFailed(t) ==
    /\ build[t].pc = "hop"
    /\ Abandon(t)
    /\ UNCHANGED <<poolVars, ringing, stream, nextId, registry, draining, todo>>

\* Ready: the circuit gets its id and is stored before the pool hears of it.
RegisterLate(t) ==
    /\ build[t].pc = "hop" /\ build[t].hops = HopCount[build[t].class]
    /\ nextId <= MaxIds
    /\ nextId' = nextId + 1
    /\ build' = [build EXCEPT ![t].pc = "record", ![t].id = nextId]
    /\ UNCHANGED <<poolVars, ringing, stream, registry, draining, todo, hopsUp>>
Register(t) ==
    /\ build[t].pc = "hop" /\ build[t].hops = HopCount[build[t].class]
    /\ nextId <= MaxIds
    /\ nextId' = nextId + 1
    /\ registry' = [registry EXCEPT ![nextId] = build[t].hops]
    /\ build' = [build EXCEPT ![t].pc = "record", ![t].id = nextId, ![t].hops = 0]
    /\ UNCHANGED <<poolVars, ringing, stream, draining, todo, hopsUp>>

\* record_built: the streams that wait are counted on the circuit, and their
\* number is dropped, so none of them is put on it.  With no Building entry left
\* the pool would refuse and the circuit be torn down: the invariant
\* EveryBuildHasItsEntry says that this does not happen.
Built(t) ==
    /\ build[t].pc = "record"
    /\ LET c == build[t].class IN
         /\ FirstBuilding(entries[c]) > 0
         /\ entries' = [entries EXCEPT ![c] = RecordBuilt(@, build[t].id)]
         /\ idIndex' = [idIndex EXCEPT ![c] = @ \cup {build[t].id}]
    /\ Rings
    /\ build' = [build EXCEPT ![t] = NoBuild]
    /\ UNCHANGED <<stream, driverVars>>

\* A failed hop selection returns without telling the pool.
BuildFailedSilently(t) ==
    /\ build[t].pc = "fail"
    /\ build' = [build EXCEPT ![t] = NoBuild]
    /\ UNCHANGED <<poolVars, ringing, stream, driverVars>>

BuildFailed(t) ==
    /\ build[t].pc = "fail"
    /\ LET c == build[t].class IN
         /\ FirstBuilding(entries[c]) > 0
         /\ entries' = [entries EXCEPT ![c] = RecordBuildFailure(@)]
    /\ Rings
    /\ build' = [build EXCEPT ![t] = NoBuild]
    /\ UNCHANGED <<idIndex, stream, driverVars>>

-----------------------------------------------------------------------------
(* PoolDriver::tick_once.                                                   *)

AllEntries == UNION {Range(entries[c]) : c \in Classes}
ToDrain == {e.id : e \in {x \in AllEntries : Drains(x)}}
ToRetire == {e.id : e \in {x \in AllEntries : Retires(x)}}

\* A tick without an action to return notifies nobody, and changes nothing.
Sweep ==
    /\ todo = NoWork
    /\ \E swept \in {[c \in Classes |-> Swept(entries[c])]} :
         /\ todo' = [drain |-> ToDrain, retire |-> ToRetire,
                     spawn |-> [c \in Classes |-> ToRequest(c, swept[c])]]
         /\ entries' = [c \in Classes |-> Refilled(c, swept[c])]
    /\ todo' # NoWork
    /\ Rings
    /\ UNCHANGED <<stream, build, nextId, registry, draining, hopsUp>>

Tick == Sweep /\ idIndex' = [c \in Classes |-> idIndex[c] \ ToRetire]

DoDrain(id) ==
    /\ id \in todo.drain
    /\ todo' = [todo EXCEPT !.drain = @ \ {id}]
    /\ draining' = draining \cup {id}
    /\ UNCHANGED <<poolVars, ringing, stream, build, nextId, registry, hopsUp>>

\* The circuit is forgotten without being destroyed.
DoRetireLeaky(id) ==
    /\ todo.drain = {} /\ id \in todo.retire
    /\ todo' = [todo EXCEPT !.retire = @ \ {id}]
    /\ draining' = draining \ {id}
    /\ registry' = [registry EXCEPT ![id] = 0]
    /\ UNCHANGED <<poolVars, ringing, stream, build, nextId, hopsUp>>

\* take() and destroy_circuit.
DoRetire(id) ==
    /\ todo.drain = {} /\ id \in todo.retire
    /\ todo' = [todo EXCEPT !.retire = @ \ {id}]
    /\ draining' = draining \ {id}
    /\ registry' = [registry EXCEPT ![id] = 0]
    /\ hopsUp' = hopsUp - registry[id]
    /\ UNCHANGED <<poolVars, ringing, stream, build, nextId>>

DoSpawn(c) ==
    /\ todo.drain = {} /\ todo.retire = {} /\ todo.spawn[c] > 0
    /\ todo' = [todo EXCEPT !.spawn[c] = @ - 1]
    /\ Dispatch(c)
    /\ UNCHANGED <<poolVars, ringing, stream, nextId, registry, draining, hopsUp>>

-----------------------------------------------------------------------------
StreamStep(s) ==
    \/ AcquireFor(s) \/ AcquireIsolated(s) \/ ReleaseBy(s)
    \/ WaitEnable(s) \/ WaitServed(s) \/ WaitFull(s) \/ WaitSleep(s)
    \/ WaitEnds(s)
BuildStep(t) ==
    \/ Select(t) \/ HopBuilt(t) \/ HopFailed(t) \/ Register(t)
    \/ Built(t) \/ BuildFailed(t)
DriverStep ==
    \/ Tick
    \/ \E id \in Ids : DoDrain(id) \/ DoRetire(id)
    \/ \E c \in Classes : DoSpawn(c)

Next ==
    \/ \E s \in Streams : StreamStep(s)
    \/ \E t \in Tasks : BuildStep(t)
    \/ DriverStep
    \/ NotifyWaiters
    \/ \E id \in Ids : FailCircuit(id)
    \/ \E c \in Classes : \E i \in DOMAIN entries[c] : Age(c, i)

\* The driver's interval keeps ticking, its loop runs to the end, and a task
\* that has unlocked the pool goes on to notify.
Fairness == WF_vars(DriverStep) /\ WF_vars(NotifyWaiters)
Spec == Init /\ [][Next]_vars /\ Fairness

-----------------------------------------------------------------------------
(* Properties.                                                              *)

InFlight(c) == {t \in Tasks : build[t].pc # "free" /\ build[t].class = c}
Users(id) == {s \in Streams : At(s, "using") /\ stream[s].id = id}

\* The type of every variable.
TypeOK ==
    /\ entries \in [Classes -> Seq(Entry)]
    /\ idIndex \in [Classes -> SUBSET Ids]
    /\ build \in [Tasks -> [pc : {"free", "select", "hop", "record", "fail"},
                            class : Classes, hops : Nat, id : Ids \cup {NoId}]]
    /\ stream \in [Streams -> [pc : {"idle", "enabled", "full", "asleep", "using"},
                               id : Ids \cup {NoId}, notified : BOOLEAN]]
    /\ registry \in [Ids -> Nat] /\ draining \subseteq Ids
    /\ nextId \in 1 .. MaxIds + 1 /\ hopsUp \in Nat

\* driver.rs dispatch_build, "no Building entry - shouldn't happen under our
\* discipline": a class has as many Building entries as builds in flight or
\* still to be spawned, so every report finds an entry and none is left behind
\* to count against the caps for ever.
EveryBuildHasItsEntry ==
    \A c \in Classes :
      Count(entries[c], "Building") = Cardinality(InFlight(c)) + todo.spawn[c]

\* pool.rs PoolEntry::streams, "number of streams currently using this
\* circuit", on which tick's decision to retire rests: however streams come and
\* go while circuits are built, drained, failed and retired, the count is never
\* below the streams that are on the circuit.  (It can stay above: see Built.)
StreamsCounted ==
    \A e \in AllEntries : e.id # NoId => Cardinality(Users(e.id)) <= e.streams

\* pool.rs tick: a circuit leaves the pool only when it failed or when no
\* stream is on it.
NeverRetiredInUse ==
    [][\A e \in AllEntries :
         e.id # NoId /\ ~(\E c \in Classes : e.id \in idIndex'[c])
           => e.state = "Failed" \/ Users(e.id) = {}]_vars

\* driver.rs stores a circuit before the pool can hand it out and takes it back
\* only after the pool has dropped it: a stream on a circuit that has not
\* failed finds it in the registry.
HandedOutIsRegistered ==
    \A e \in AllEntries : e.id # NoId => registry[e.id] > 0

\* runtime/lib.rs "Builder leak invariant", and the driver's teardowns: every
\* hop that was dialled or extended belongs to a build in flight or to a stored
\* circuit, so a failed or retired circuit has all its hops destroyed, once.
NoHopLeaks ==
    hopsUp = Total([t \in Tasks |-> build[t].hops]) + Total(registry)

\* runtime/pool.rs acquire_with_wait, "a race could miss a notify": a caller that
\* sleeps unnotified has nothing to be served with, unless a task that changed
\* the pool is about to notify.
NoLostWakeup ==
    \A s \in Streams :
      At(s, "asleep") /\ ~stream[s].notified /\ ~ringing
        => ~Serves(StreamClass[s], entries[StreamClass[s]])

\* driver.rs: a circuit reported failed is in the end destroyed and forgotten.
FailedIsDestroyed ==
    \A id \in Ids :
      (\E e \in AllEntries : e.id = id /\ e.state = "Failed") ~> registry[id] = 0

=============================================================================
