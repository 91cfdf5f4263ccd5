---------------------------- MODULE CircuitPool ----------------------------
(***************************************************************************)
(* The I/O-free circuit pool of crates/router/src/pool.rs, as operators on *)
(* the entries of one class (by_class[class], a Vec: order matters).       *)
(*                                                                         *)
(* Time is one bit per entry: old says that the age limit of the entry's   *)
(* state (effective_max_age since built_at when Healthy, idle_ttl since    *)
(* state_entered when Draining) has passed.  The jitter only moves that    *)
(* moment.  A Building entry has no id; nothing else is ever without one   *)
(* (an invariant of PoolDriver), so the code's handling of an id-less      *)
(* Healthy or Failed entry has no counterpart here.                        *)
(***************************************************************************)
EXTENDS Integers, Sequences, FiniteSets, Functions, Lists

CONSTANTS
    Classes,            \* router::Class
    MaxPerClass,        \* PoolPolicy::max_per_class
    MaxPendingBuilds,   \* PoolPolicy::max_pending_builds_per_class
    MinPoolSize,        \* CircuitProfile::min_pool_size
    MaxStreams          \* CircuitProfile::max_streams

\* PoolPolicy::validate, which SharedCircuitPool::new insists on, and
\* CircuitProfile::validate.
ASSUME PoolPolicyAssumption ==
    /\ MaxPerClass \in [Classes -> Nat] /\ MinPoolSize \in [Classes -> Nat]
    /\ MaxStreams \in [Classes -> Nat \ {0}]
    /\ MaxPendingBuilds \in Nat
    /\ \A c \in Classes : MinPoolSize[c] > 0 => MaxPerClass[c] > 0 /\ MaxPendingBuilds > 0

NoId == 0
EntryState == {"Building", "Healthy", "Draining", "Failed"}
Entry == [id : Nat, state : EntryState, streams : Nat, pending : Nat, old : BOOLEAN]

Count(es, st) == Cardinality({i \in DOMAIN es : es[i].state = st})
IndexOf(es, id) == FirstPlace({i \in 1..Len(es) : es[i].id = id})
FirstBuilding(es) ==
    FirstPlace({i \in 1..Len(es) : es[i].state = "Building" /\ es[i].id = NoId})

InsertBuilding(es, pending) ==
    Append(es, [id |-> NoId, state |-> "Building", streams |-> 0,
                pending |-> pending, old |-> FALSE])

-----------------------------------------------------------------------------
(* acquire: [res, id, entries].                                             *)

HasRoom(c, e) == e.state = "Healthy" /\ e.streams < MaxStreams[c]
HasPendingRoom(c, e) == e.state = "Building" /\ e.pending < MaxStreams[c]
MayBuild(c, es) ==
    Len(es) < MaxPerClass[c] /\ Count(es, "Building") < MaxPendingBuilds

Outcome(res, id, es) == [res |-> res, id |-> id, entries |-> es]

\* The caller is handed the circuit and not counted on it.
ReadyUncounted(es, i) == Outcome("Ready", es[i].id, es)

Ready(es, i) == Outcome("Ready", es[i].id, [es EXCEPT ![i].streams = @ + 1])

Acquire(c, es) ==
    LET h == FirstPlace({i \in 1..Len(es) : HasRoom(c, es[i])})
        b == FirstPlace({i \in 1..Len(es) : HasPendingRoom(c, es[i])})
    IN  IF h > 0 THEN Ready(es, h)
        ELSE IF b > 0 THEN Outcome("Pending", NoId, [es EXCEPT ![b].pending = @ + 1])
        ELSE IF MayBuild(c, es) THEN Outcome("BuildFirst", NoId, InsertBuilding(es, 1))
        ELSE Outcome("PoolFull", NoId, es)

\* acquire_for_domain: the keyed hash picks any one of the Healthy entries.
Slots(es) == {i \in DOMAIN es : es[i].state = "Healthy"}
AcquireForDomain(c, es, slot) ==
    IF HasRoom(c, es[slot]) THEN Ready(es, slot) ELSE Acquire(c, es)

-----------------------------------------------------------------------------
(* Build reports.  They name a class, not an entry: the first Building      *)
(* entry of the class takes them.                                           *)

RecordBuilt(es, id) ==
    [es EXCEPT ![FirstBuilding(es)] =
        [id |-> id, state |-> "Healthy", streams |-> @.pending, pending |-> 0, old |-> FALSE]]

\* swap_remove: the last entry moves into the hole.
SwapRemove(es, i) == SubSeq([es EXCEPT ![i] = es[Len(es)]], 1, Len(es) - 1)
RecordBuildFailure(es) == SwapRemove(es, FirstBuilding(es))

Saturating(n) == IF n = 0 THEN 0 ELSE n - 1
Release(es, id) == [es EXCEPT ![IndexOf(es, id)].streams = Saturating(@)]
RecordFailure(es, id) == [es EXCEPT ![IndexOf(es, id)].state = "Failed"]

-----------------------------------------------------------------------------
(* tick, on the entries of one class.                                       *)

Drains(e) == e.state = "Healthy" /\ e.old
\* A failed circuit is left for its age limit to remove.
RetiresAged(e) == e.state = "Draining" /\ e.streams = 0 /\ e.old
\* A draining circuit is retired on age alone, streams or not.
RetiresBusy(e) == e.state = "Failed" \/ (e.state = "Draining" /\ e.old)
Retires(e) == e.state = "Failed" \/ (e.state = "Draining" /\ e.streams = 0 /\ e.old)

\* An entry that starts to drain is not old, so the same tick does not retire it.
Drained(e) == IF Drains(e) THEN [e EXCEPT !.state = "Draining", !.old = FALSE] ELSE e
Swept(es) == Filter([i \in DOMAIN es |-> Drained(es[i])], {e \in Entry : ~Retires(e)})

Minus(a, b) == IF a > b THEN a - b ELSE 0
ToRequest(c, es) ==
    LET pending == Count(es, "Building")
    IN  Least({Minus(MinPoolSize[c], Count(es, "Healthy") + pending),
               Minus(MaxPerClass[c], Len(es)),
               Minus(MaxPendingBuilds, pending)})

Refilled(c, es) == es \o [i \in 1 .. ToRequest(c, es) |-> InsertBuilding(<<>>, 0)[1]]

\* A further acquire could be served now.
Serves(c, es) == Acquire(c, es).res # "PoolFull"
=============================================================================
