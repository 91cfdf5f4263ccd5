-------------------------- MODULE RendezvousRouter --------------------------
(***************************************************************************)
(* The rendezvous tables shared by the session tasks of one bridge:        *)
(* RendezvousRouter of bridge/src/rendezvous_router.rs and what            *)
(* bridge/src/session_task.rs does with it.  A session task registers a    *)
(* bounded delivery queue, serves the cells of its own circuits, drains    *)
(* its queue, and releases its circuits' roles when it ends.               *)
(*                                                                         *)
(* One step is one call of the router under its mutex with the rest of the *)
(* handler, which touches only the caller's own session.  A circuit        *)
(* belongs to one session, as <<session, circ_id>>; session handles are    *)
(* never reused.                                                           *)
(***************************************************************************)
EXTENDS Rendezvous, Sequences

CONSTANTS
    Sessions,        \* session handles
    CircIds,         \* circuit ids within a session
    DELIVERY_QUEUE   \* capacity of a session's delivery queue

ASSUME RouterAssumption ==
    /\ Circuits = Sessions \X CircIds
    /\ DELIVERY_QUEUE \in Nat \ {0}

VARIABLES
    session,      \* session -> "new", "live" (registered) or "gone"
    open,         \* the circuits that can carry relay cells
    rv_circuits,  \* the circuits their session task takes for rendezvous ones
    queue         \* session -> deliveries waiting for its task

sessionVars == <<session, open, rv_circuits, queue>>
routerVars == <<intros, introOld, cookies, cookieOld, roles, joined,
          session, open, rv_circuits, queue>>

Delivery == [circ : Circuits, cmd : {"INTRODUCE", "RENDEZVOUS", "DATA"}]
Registered(s) == session[s] = "live"

(* The sessions entry is there and try_send finds room.                    *)
Deliverable(x) == Registered(x[1]) /\ Len(queue[x[1]]) < DELIVERY_QUEUE
Send(x, cmd) ==
    queue' = [queue EXCEPT ![x[1]] = Append(@, [circ |-> x, cmd |-> cmd])]

----------------------------------------------------------------------------
register_session(s) ==
    /\ session[s] = "new"
    /\ session' = [session EXCEPT ![s] = "live"]
    /\ UNCHANGED <<rvVars, open, rv_circuits, queue>>

(* The circuit state machine opens a circuit, and later removes it.  The   *)
(* rendezvous tables are not told.                                         *)
OpenCircuit(x) ==
    /\ Registered(x[1]) /\ x \notin open
    /\ open' = open \cup {x}
    /\ UNCHANGED <<rvVars, session, rv_circuits, queue>>

RemoveCircuit(x) ==
    /\ x \in open
    /\ open' = open \ {x}
    /\ UNCHANGED <<rvVars, session, rv_circuits, queue>>

EstablishIntroUnrecorded(x, k) ==
    /\ x \in open
    /\ establish_intro(x, k)
    /\ UNCHANGED sessionVars

EstablishIntro(x, k) ==
    /\ x \in open
    /\ establish_intro(x, k)
    /\ rv_circuits' = rv_circuits \cup {x}
    /\ UNCHANGED <<session, open, queue>>

EstablishRendezvous(x, c) ==
    /\ x \in open
    /\ establish_rendezvous(x, c)
    /\ rv_circuits' = rv_circuits \cup {x}
    /\ UNCHANGED <<session, open, queue>>

(* An INTRODUCE that cannot be delivered changes nothing.                  *)
Introduce(x, k) ==
    /\ x \in open
    /\ introduce(k) # NoCircuit /\ Deliverable(introduce(k))
    /\ Send(introduce(k), "INTRODUCE")
    /\ UNCHANGED <<rvVars, session, open, rv_circuits>>

(* The tables join the pair before the client is told.  When telling it    *)
(* fails the caller sees an error and does not record its circuit.         *)
RendezvousTold(x, c) ==
    /\ x \in open
    /\ rendezvous(x, c)
    /\ Deliverable(cookies[c])
    /\ Send(cookies[c], "RENDEZVOUS")
    /\ rv_circuits' = rv_circuits \cup {x}
    /\ UNCHANGED <<session, open>>

RendezvousUntold(x, c) ==
    /\ x \in open
    /\ rendezvous(x, c)
    /\ ~ Deliverable(cookies[c])
    /\ UNCHANGED sessionVars

(* relay_between_partners: a cell for a partner that is gone or does not   *)
(* drain is lost.                                                          *)
relay_to_partner(x) ==
    /\ x \in open /\ x \in rv_circuits
    /\ joined[x] # NoCircuit /\ Deliverable(joined[x])
    /\ Send(joined[x], "DATA")
    /\ UNCHANGED <<rvVars, session, open, rv_circuits>>

(* deliver_rendezvous: sealed to the peer, or dropped if the circuit has   *)
(* been reaped.                                                            *)
Deliver(s) ==
    /\ Registered(s) /\ queue[s] # <<>>
    /\ queue' = [queue EXCEPT ![s] = Tail(@)]
    /\ UNCHANGED <<rvVars, session, open, rv_circuits>>

(* The tick arm of a session's loop sweeps the shared tables.  The Expire  *)
(* actions it returns are discarded.                                       *)
RouterTick(s) ==
    /\ Registered(s)
    /\ tick
    /\ UNCHANGED sessionVars

(* Drop of SessionTask, whatever ended it: forget_session.                 *)
Of(s) == {x \in Circuits : x[1] = s}

SessionEnd(s) ==
    /\ Registered(s)
    /\ forget(rv_circuits \cap Of(s))
    /\ session' = [session EXCEPT ![s] = "gone"]
    /\ open' = open \ Of(s)
    /\ rv_circuits' = rv_circuits \ Of(s)
    /\ queue' = [queue EXCEPT ![s] = <<>>]

TimePasses == Age /\ UNCHANGED sessionVars

RouterInit ==
    /\ RvInit
    /\ session = [s \in Sessions |-> "new"]
    /\ open = {} /\ rv_circuits = {}
    /\ queue = [s \in Sessions |-> <<>>]

CircuitStep(x) ==
    \/ OpenCircuit(x)
    \/ RemoveCircuit(x)
    \/ \E k \in Keys : EstablishIntro(x, k) \/ Introduce(x, k)
    \/ \E c \in Cookies :
          EstablishRendezvous(x, c) \/ RendezvousTold(x, c) \/ RendezvousUntold(x, c)
    \/ relay_to_partner(x)

SessionStep(s) == register_session(s) \/ Deliver(s) \/ RouterTick(s) \/ SessionEnd(s)

RouterNext ==
    \/ \E x \in Circuits : CircuitStep(x)
    \/ \E s \in Sessions : SessionStep(s)
    \/ TimePasses

(* Some session's loop reaches its tick arm.                               *)
SomeTick == \E s \in Sessions : RouterTick(s)

RouterSpec == RouterInit /\ [][RouterNext]_routerVars /\ WF_routerVars(SomeTick)

----------------------------------------------------------------------------

(* The tables and the session tasks' state keep their types, a queue never *)
(* exceeds its capacity and holds only its own session's deliveries, and   *)
(* an ended session has no circuit and no delivery.                        *)
RouterTypeOK ==
    /\ RvTypeOK
    /\ session \in [Sessions -> {"new", "live", "gone"}]
    /\ open \subseteq Circuits /\ rv_circuits \subseteq Circuits
    /\ \A x \in open \cup rv_circuits : Registered(x[1])
    /\ \A s \in Sessions :
          /\ queue[s] \in Seq(Delivery) /\ Len(queue[s]) <= DELIVERY_QUEUE
          /\ \A i \in DOMAIN queue[s] : queue[s][i].circ[1] = s
          /\ ~ Registered(s) => queue[s] = <<>>

(* An ended session holds no introduction key and no parked cookie,        *)
(* however it ended: Drop forgets every circuit the handlers recorded, and *)
(* they record every registration they make.  A leaked one would keep a    *)
(* key claimed by a service that is gone.                                  *)
GoneHoldsNoRegistration ==
    /\ \A k \in Keys : intros[k] # NoCircuit => Registered(intros[k][1])
    /\ \A c \in Cookies : cookies[c] # NoCircuit => Registered(cookies[c][1])

(* A cookie nobody claims and a registration nobody renews are swept, or   *)
(* taken over, once they are past their TTL, whatever sessions come and    *)
(* go: a session that could sweep them is there as long as they are.       *)
ExpiredSwept ==
    /\ \A k \in Keys : k \in introOld ~> k \notin introOld
    /\ \A c \in Cookies : c \in cookieOld ~> c \notin cookieOld

=============================================================================
