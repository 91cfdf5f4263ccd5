-------------------------- MODULE CircuitSession --------------------------
(***************************************************************************)
(* A circuit session of a bridge: the loop of SessionTask::run             *)
(* (src/crates/bridge/src/session_task.rs) over the circuit table, with    *)
(* the executor that carries out what the table asks for                   *)
(* (src/crates/bridge/src/circuit_executor.rs) and the role                *)
(* run_authenticated_session gives the session                             *)
(* (src/crates/bridge/src/main.rs).                                        *)
(*                                                                         *)
(* The loop takes one event at a time and executes its actions before the  *)
(* next: a cell of the previous hop, a cell of a next hop, an event of the *)
(* exit, or the tick.  It awaits in them, and the tasks of the links and   *)
(* of the exit run on meanwhile: a dial to the next hop and the connect of *)
(* a BEGIN, which have a timeout; the send of a DATA into a full channel;  *)
(* and the writes of cells to the previous hop, to a next hop and to a     *)
(* link that is being given up, which last until the peer reads.  The maps *)
(* belong to the loop, so what a handler does to them before and after a   *)
(* write is one step, and the wait follows it.  The previous hop may send  *)
(* any cell at any time and a next hop likewise; a cell is read whole or   *)
(* not at all.  The rendezvous cells are RendezvousRouter's subject.       *)
(***************************************************************************)
EXTENDS BridgeCircuit, ExitDispatcher

CONSTANT InCap  \* NEXT_HOP_INBOUND_CAP

ASSUME SessionAssumption == InCap \in Nat \ {0} /\ None \notin Sids

VARIABLES
    role,            \* [relay, capable]: what the handshake and the config say
    phase,           \* "new", "running", "refused", "ended"
    at,              \* where the loop is: "select", or what it waits for
    cur,             \* the circuit whose action the loop executes
    target,          \* the stream id, the slot or the link it waits for
    links,           \* executor.links: the outgoing ids with a link
    inbound,         \* the number of cells the links' pumps have for the loop
    responders,      \* executor.pending_responders
    stream_to_circ,  \* stream id -> circuit
    proved           \* ghost: circuits that showed a valid token since their CREATE

execVars == <<links, responders, proved>>
tableVars == <<circuits, out_to_in>>
loopVars == <<at, cur, target>>
vars == <<circuits, out_to_in, streams, conn, events, role, phase, at, cur, target,
          links, inbound, responders, stream_to_circ, proved>>

relay_mode == role.relay

supports_token_verification == role.relay \/ role.capable

NoReturns == [s \in Sids |-> None]

Init ==
    /\ TableInit
    /\ ExitInit
    /\ role \in [relay : BOOLEAN, capable : BOOLEAN]
    /\ phase = "new"
    /\ at = "select" /\ cur = None /\ target = None
    /\ links = {}
    /\ inbound = 0
    /\ responders = {}
    /\ stream_to_circ = NoReturns
    /\ proved = {}

(***************************************************************************)
(* check_relay_token_coupling.                                             *)
(***************************************************************************)
Start ==
    /\ phase = "new"
    /\ phase' = IF relay_mode = supports_token_verification THEN "running" ELSE "refused"
    /\ UNCHANGED <<role, inbound, stream_to_circ>>
    /\ UNCHANGED <<tableVars, exitVars, execVars, loopVars>>

-----------------------------------------------------------------------------
Selecting == phase = "running" /\ at = "select"

Await(place, c, x) ==
    /\ at' = place
    /\ cur' = c
    /\ target' = x

Resume == Await("select", None, None)

(***************************************************************************)
(* SendToPrev: write_cell on the session.                                  *)
(***************************************************************************)
SendToPrev == Await("reply", None, None)

(***************************************************************************)
(* DestroyNextLink for the circuits of a set: destroy_next_link takes the  *)
(* links from the map and sends each a DESTROY.                            *)
(***************************************************************************)
LinksOf(cs) == {o \in links : \E c \in cs : circuits[c].out_circ_id = o}

CutLinks(cs) ==
    /\ links' = links \ LinksOf(cs)
    /\ IF LinksOf(cs) = {} THEN Resume ELSE Await("farewell", None, None)

(***************************************************************************)
(* DestroyPrevLink: forget_pending_responder, nothing on the wire.         *)
(***************************************************************************)
Forget(cs) == responders' = responders \ cs

Purge(cs) ==
    stream_to_circ' = [s \in Sids |-> IF stream_to_circ[s] \in cs THEN None
                                      ELSE stream_to_circ[s]]

(***************************************************************************)
(* A mutant of handle_destroy_from_prev: DestroyPrevLink is not executed.  *)
(***************************************************************************)
DestroyKeepsResponder(c) ==
    /\ Tombstone(c)
    /\ CutLinks({c} \cap {d \in Circs : Live(d)})
    /\ UNCHANGED <<out_to_in, proved, responders>>

(***************************************************************************)
(* What a DESTROY of the previous hop, or reap_circuit of the table, makes *)
(* of a circuit; a tombstone and an unknown id are left alone.             *)
(***************************************************************************)
handle_destroy_from_prev(c) ==
    /\ Tombstone(c)
    /\ CutLinks({c} \cap {d \in Circs : Live(d)})
    /\ responders' = IF Live(c) THEN responders \ {c} ELSE responders
    /\ UNCHANGED <<out_to_in, proved>>

(***************************************************************************)
(* handle_destroy_from_next: the next hop is gone, so only the previous    *)
(* side is released; executor.links keeps the link.                        *)
(***************************************************************************)
handle_destroy_from_next(c) ==
    /\ Tombstone(c)
    /\ responders' = IF Live(c) THEN responders \ {c} ELSE responders
    /\ UNCHANGED <<out_to_in, proved, links>>

(***************************************************************************)
(* SessionTask::reap_circuit, the answer to a failed action.               *)
(***************************************************************************)
reap_circuit(c) ==
    /\ Purge({c})
    /\ Tombstone(c)
    /\ CutLinks({c} \cap {d \in Circs : Live(d)})
    /\ Forget({c})
    /\ UNCHANGED <<out_to_in, proved>>

reap_circuit_by_out_id(o) ==
    IF out_to_in[o] = None
    THEN UNCHANGED <<tableVars, execVars, stream_to_circ>>
    ELSE Purge({out_to_in[o]}) /\ handle_destroy_from_next(out_to_in[o])

-----------------------------------------------------------------------------
(***************************************************************************)
(* Cells of the previous hop.  Every handler that returns an error, for    *)
(* whatever reason (wrong state, a cap, no authorization, a body that does *)
(* not decode, an unknown command), ends in the same reap of the circuit.  *)
(* As a body that does not decode can come at any time, CellError is       *)
(* always possible, and the actions below are the handlers' successes.     *)
(***************************************************************************)
CellError(c) ==
    /\ Selecting
    /\ handle_destroy_from_prev(c)
    /\ UNCHANGED <<role, phase, inbound, stream_to_circ, exitVars>>

Destroy(c) ==
    /\ Selecting
    /\ State(c) # "absent"
    /\ handle_destroy_from_prev(c)
    /\ UNCHANGED <<role, phase, inbound, stream_to_circ, exitVars>>

(***************************************************************************)
(* PerformHandshake and record_create_complete, or the reap.               *)
(***************************************************************************)
PerformHandshake(c, entry) ==
    /\ \/ /\ circuits' = [circuits EXCEPT ![c] = Opened(entry)]
          /\ responders' = IF supports_token_verification THEN responders \cup {c}
                           ELSE responders
          /\ SendToPrev
          /\ UNCHANGED stream_to_circ
       \/ /\ circuits' = [circuits EXCEPT ![c] = [Absent EXCEPT !.state = "Destroyed"]]
          /\ Forget({c})
          /\ Purge({c})
          /\ UNCHANGED loopVars
    /\ UNCHANGED <<out_to_in, links, proved>>

Create(c) ==
    /\ Selecting
    /\ CanCreate(c)
    /\ \/ PerformHandshake(c, NewEntry(relay_mode, FALSE))
       \/ /\ circuits' = [circuits EXCEPT ![c] = NewEntry(relay_mode, TRUE)]
          /\ UNCHANGED <<out_to_in, execVars, stream_to_circ, loopVars>>
    /\ UNCHANGED <<role, phase, inbound, exitVars>>

(***************************************************************************)
(* The last fragment; one that leaves the message incomplete changes no    *)
(* more than a clock, and one too long loses the fragments and is an error.*)
(***************************************************************************)
CreateCont(c) ==
    /\ Selecting
    /\ CanCreateCont(c)
    /\ PerformHandshake(c, circuits[c])
    /\ UNCHANGED <<role, phase, inbound, exitVars>>

(***************************************************************************)
(* OpenNextHop: the loop waits for the executor.                           *)
(***************************************************************************)
StartDial(c) ==
    /\ \E o \in allocate_out_circ_id : dispatch_pending_extend(c, o)
    /\ Await("dial", c, None)

Extend(c) ==
    /\ Selecting
    /\ CanExtend(relay_mode, c)
    /\ \/ StartDial(c)
       \/ /\ circuits' = [circuits EXCEPT ![c].pending_extend = TRUE]
          /\ UNCHANGED <<out_to_in, loopVars>>
    /\ UNCHANGED <<role, phase, inbound, stream_to_circ, exitVars, execVars>>

ExtendCont(c) ==
    /\ Selecting
    /\ CanExtendCont(c)
    /\ StartDial(c)
    /\ UNCHANGED <<role, phase, inbound, stream_to_circ, exitVars, execVars>>

(***************************************************************************)
(* A mutant of DialOk: the link is not registered with the executor.       *)
(***************************************************************************)
DialOkUnlinked ==
    /\ at = "dial"
    /\ role.capable
    /\ emit_extended(cur)
    /\ SendToPrev
    /\ UNCHANGED <<out_to_in, links, responders, proved>>
    /\ UNCHANGED <<role, phase, inbound, stream_to_circ, exitVars>>

(***************************************************************************)
(* The dialer is there only if the bridge is relay-capable; a failure, the *)
(* timeout of the dial among them, reaps the circuit.                      *)
(***************************************************************************)
DialOk ==
    /\ at = "dial"
    /\ role.capable
    /\ links' = links \cup {circuits[cur].out_circ_id}
    /\ emit_extended(cur)
    /\ SendToPrev
    /\ UNCHANGED <<out_to_in, responders, proved>>
    /\ UNCHANGED <<role, phase, inbound, stream_to_circ, exitVars>>

DialFails ==
    /\ at = "dial"
    /\ reap_circuit(cur)
    /\ UNCHANGED <<role, phase, inbound, exitVars>>

(***************************************************************************)
(* A send to the next hop fails at once without a link.                    *)
(***************************************************************************)
SendToNext(o) ==
    IF o \in links
    THEN Await("forward", None, o) /\ UNCHANGED <<tableVars, execVars, stream_to_circ>>
    ELSE reap_circuit_by_out_id(o) /\ Resume

ForwardExtendFinish(c) ==
    /\ Selecting
    /\ State(c) = "Open"
    /\ circuits[c].out_circ_id # None
    /\ SendToNext(circuits[c].out_circ_id)
    /\ UNCHANGED <<role, phase, inbound, exitVars>>

(***************************************************************************)
(* VerifyExtendFinish: the responder is used up whatever the token is      *)
(* worth; without one, or with a bad token, the circuit is reaped.         *)
(***************************************************************************)
VerifyExtendFinish(c) ==
    /\ Selecting
    /\ State(c) = "Open"
    /\ circuits[c].out_circ_id = None
    /\ relay_mode
    /\ \/ /\ c \in responders
          /\ Forget({c})
          /\ record_token_verified(c)
          /\ proved' = proved \cup {c}
          /\ UNCHANGED <<out_to_in, links, stream_to_circ, loopVars>>
       \/ reap_circuit(c)
    /\ UNCHANGED <<role, phase, inbound, exitVars>>

-----------------------------------------------------------------------------
(***************************************************************************)
(* RELAY cells with a payload that is not for the table: onwards, or out.  *)
(***************************************************************************)
CanRelay(c) == Selecting /\ State(c) = "Open" /\ Authorized(relay_mode, c)

Relay(c) ==
    /\ CanRelay(c)
    /\ circuits[c].out_circ_id # None
    /\ SendToNext(circuits[c].out_circ_id)
    /\ UNCHANGED <<role, phase, inbound, exitVars>>

AtExit(c) == CanRelay(c) /\ circuits[c].out_circ_id = None

(***************************************************************************)
(* BEGIN: the return path is entered before the dispatcher looks at the    *)
(* id; its refusal reaps the circuit, and with it the entry.               *)
(***************************************************************************)
Begin(c, s) ==
    /\ AtExit(c)
    /\ \E g \in Slots : Free(g)
    /\ IF CanBegin(s)
       THEN /\ stream_to_circ' = [stream_to_circ EXCEPT ![s] = c]
            /\ Await("connect", c, s)
            /\ UNCHANGED <<tableVars, execVars>>
       ELSE /\ stream_to_circ' = [t \in Sids |-> IF t = s \/ stream_to_circ[t] = c THEN None
                                                 ELSE stream_to_circ[t]]
            /\ handle_destroy_from_prev(c)
    /\ UNCHANGED <<role, phase, inbound, exitVars>>

BeginOk ==
    /\ at = "connect"
    /\ Connected(target)
    /\ Resume
    /\ UNCHANGED <<role, phase, inbound, stream_to_circ, tableVars, execVars>>

BeginFails ==
    /\ at = "connect"
    /\ reap_circuit(cur)
    /\ UNCHANGED <<role, phase, inbound, exitVars>>

(***************************************************************************)
(* DATA: the loop waits for room in the stream's channel; an unknown id,   *)
(* or a write task that gave up, is an error.                              *)
(***************************************************************************)
Data(c, s) ==
    /\ AtExit(c)
    /\ IF streams[s] = NoSlot
       THEN reap_circuit(c)
       ELSE /\ Await("send", c, streams[s])
            /\ UNCHANGED <<tableVars, execVars, stream_to_circ>>
    /\ UNCHANGED <<role, phase, inbound, exitVars>>

DataSent ==
    /\ at = "send"
    /\ Forward(target)
    /\ Resume
    /\ UNCHANGED <<streams, events>>
    /\ UNCHANGED <<role, phase, inbound, stream_to_circ, tableVars, execVars>>

DataFails ==
    /\ at = "send"
    /\ conn[target].writer = "gone"
    /\ reap_circuit(cur)
    /\ UNCHANGED <<role, phase, inbound, exitVars>>

End(c, s) ==
    /\ AtExit(c)
    /\ stream_to_circ' = [stream_to_circ EXCEPT ![s] = None]
    /\ Unlist(s)
    /\ UNCHANGED <<conn, events>>
    /\ UNCHANGED <<role, phase, inbound, tableVars, execVars, loopVars>>

BadPayload(c) ==
    /\ AtExit(c)
    /\ reap_circuit(c)
    /\ UNCHANGED <<role, phase, inbound, exitVars>>

-----------------------------------------------------------------------------
(***************************************************************************)
(* The other events of the loop.  A next hop's cell bears any id and any   *)
(* command: the pumps pass on what comes, and the table looks the id up    *)
(* whichever link it came on.                                              *)
(***************************************************************************)
NextHopCell(o, command) ==
    /\ Selecting
    /\ inbound > 0
    /\ inbound' = inbound - 1
    /\ LET c == out_to_in[o]
       IN CASE c # None /\ command = "relay" /\ State(c) = "Open" ->
                   SendToPrev /\ UNCHANGED <<tableVars, execVars, stream_to_circ>>
            [] c # None /\ command = "created" /\ State(c) = "Extending" ->
                   /\ emit_extended(c)
                   /\ SendToPrev
                   /\ UNCHANGED <<out_to_in, execVars, stream_to_circ>>
            [] c # None /\ command = "destroy" ->
                   handle_destroy_from_next(c) /\ UNCHANGED <<stream_to_circ, loopVars>>
            [] OTHER -> reap_circuit_by_out_id(o) /\ UNCHANGED loopVars
    /\ UNCHANGED <<role, phase, exitVars>>

(***************************************************************************)
(* An event without a circuit, or of a circuit that is not open, is        *)
(* discarded; else it is sent to the previous hop.  The table and the      *)
(* return path stay as they are.                                           *)
(***************************************************************************)
ExitEvent ==
    /\ Selecting
    /\ events # <<>>
    /\ events' = Tail(events)
    /\ IF \E c \in Circs : stream_to_circ[Head(events)] = c /\ State(c) = "Open"
       THEN SendToPrev ELSE UNCHANGED loopVars
    /\ UNCHANGED <<streams, conn>>
    /\ UNCHANGED <<role, phase, inbound, stream_to_circ, tableVars, execVars>>

Tick ==
    /\ Selecting
    /\ \E expired \in SUBSET {c \in Circs : Live(c)} :
           /\ Sweep(Victims(expired))
           /\ CutLinks(expired)
           /\ Forget(expired)
           /\ proved' = proved \ Victims(expired)
    /\ UNCHANGED <<role, phase, inbound, stream_to_circ, exitVars>>

(***************************************************************************)
(* The previous hop hangs up, nothing came for cell_read_timeout, or a     *)
(* write to it fails: the task and all it owns are dropped.                *)
(***************************************************************************)
SessionEnds ==
    /\ phase = "running"
    /\ at \in {"select", "reply"}
    /\ phase' = "ended"
    /\ Resume
    /\ circuits' = NoCircuits /\ out_to_in' = NoOuts
    /\ streams' = NoStreams /\ conn' = NoConns /\ events' = <<>>
    /\ links' = {} /\ inbound' = 0
    /\ responders' = {} /\ proved' = {} /\ stream_to_circ' = NoReturns
    /\ UNCHANGED role

(***************************************************************************)
(* The writes that last until a peer reads, and their end: the peer has    *)
(* read enough, or the write fails.  A failed reply is SessionEnds, and a  *)
(* failed farewell is ignored.                                             *)
(***************************************************************************)
PeerWaits == {"reply", "forward", "farewell"}

PeerReads ==
    /\ at \in PeerWaits
    /\ Resume
    /\ UNCHANGED <<role, phase, inbound, stream_to_circ, tableVars, exitVars, execVars>>

ForwardFails ==
    /\ at = "forward"
    /\ reap_circuit_by_out_id(target)
    /\ Resume
    /\ UNCHANGED <<role, phase, inbound, exitVars>>

(***************************************************************************)
(* The pump of a link.  It runs on while its link is told of the end, and  *)
(* when a later link of the same id has taken the place of its own, so it  *)
(* may have a cell at any time.  Nobody looks at the cell before the loop  *)
(* takes it: what it holds is chosen there.                                *)
(***************************************************************************)
LinkDelivers ==
    /\ phase = "running"
    /\ role.capable
    /\ inbound < InCap
    /\ inbound' = inbound + 1
    /\ UNCHANGED <<role, phase, stream_to_circ, tableVars, exitVars, execVars, loopVars>>

Held(g) == at = "send" /\ target = g

WriterTask(g) ==
    /\ phase = "running"
    /\ WriterTakes(g) \/ Writes(g) \/ WriteTimesOut(g) \/ WriterEnds(g, Held(g))
    /\ UNCHANGED <<role, phase, inbound, stream_to_circ, tableVars, execVars, loopVars>>

ReaderTask(g) ==
    /\ phase = "running"
    /\ Reads(g) \/ ReadEof(g) \/ SendEvent(g) \/ ReaderEnds(g)
    /\ UNCHANGED <<role, phase, inbound, stream_to_circ, tableVars, execVars, loopVars>>

-----------------------------------------------------------------------------
PrevHop(c) ==
    \/ CellError(c) \/ Destroy(c) \/ Create(c) \/ CreateCont(c)
    \/ Extend(c) \/ ExtendCont(c) \/ ForwardExtendFinish(c) \/ VerifyExtendFinish(c)
    \/ Relay(c) \/ BadPayload(c)
    \/ \E s \in Sids : Begin(c, s) \/ Data(c, s) \/ End(c, s)

LoopGoesOn == DialOk \/ DialFails \/ BeginOk \/ BeginFails \/ DataSent \/ DataFails

Next ==
    \/ Start
    \/ \E c \in Circs : PrevHop(c)
    \/ LoopGoesOn
    \/ PeerReads
    \/ ForwardFails
    \/ LinkDelivers
    \/ \E o \in Outs, command \in {"relay", "created", "destroy"} : NextHopCell(o, command)
    \/ ExitEvent
    \/ Tick
    \/ SessionEnds
    \/ \E g \in Slots : WriterTask(g) \/ ReaderTask(g)

Spec == Init /\ [][Next]_vars

(***************************************************************************)
(* A dial and a connect end, for both have a timeout; the loop goes on     *)
(* once it can; a write task runs, and its write ends by the timeout if by *)
(* nothing else.  The tick is one branch of a select that polls its        *)
(* branches in random order, so it is taken if it is ready again and       *)
(* again.  Nothing is assumed of the peers, which need not read, of the    *)
(* upstream or of the readers.                                             *)
(***************************************************************************)
Fairness ==
    /\ WF_vars(LoopGoesOn)
    /\ SF_vars(Tick)
    /\ \A g \in Slots : WF_vars(WriterTask(g))

FairSpec == Spec /\ Fairness

-----------------------------------------------------------------------------
TypeOK ==
    /\ TableTypeOK
    /\ role \in [relay : BOOLEAN, capable : BOOLEAN]
    /\ phase \in {"new", "running", "refused", "ended"}
    /\ at \in {"select", "dial", "connect", "send"} \cup PeerWaits
    /\ cur \in Circs \cup {None}
    /\ (at \in {"dial", "connect", "send"}) <=> (cur # None)
    /\ at = "forward" => target \in Outs
    /\ links \subseteq Outs
    /\ inbound \in 0 .. InCap
    /\ responders \subseteq Circs
    /\ proved \subseteq Circs
    /\ stream_to_circ \in [Sids -> Circs \cup {None}]

(***************************************************************************)
(* On a session from another bridge, no circuit collects an EXTEND, has a  *)
(* next hop, or keeps the loop on its behalf, unless its current use of    *)
(* the id showed a valid token: the gate of handle_extend and              *)
(* handle_relay_from_prev holds whatever the order of the cells, and a new *)
(* circuit does not inherit the standing of the one that had its id.       *)
(***************************************************************************)
TokenGate ==
    relay_mode => \A c \in Circs :
        \/ circuits[c].out_circ_id # None
        \/ circuits[c].pending_extend
        \/ cur = c
        => c \in proved

(***************************************************************************)
(* out_to_in is the inverse of the entries' out_circ_id, tombstones        *)
(* included, whichever side destroys a circuit, whenever the sweep comes   *)
(* and whatever ids the next hops put on their cells: a cell is handled    *)
(* for the circuit its id was allocated for and for no other, and an id is *)
(* not allocated again before its circuit has left the table.  Which link  *)
(* brought the cell is not asked.                                          *)
(***************************************************************************)
OutInverse ==
    \A o \in Outs, c \in Circs : (out_to_in[o] = c) <=> (circuits[c].out_circ_id = o)

(***************************************************************************)
(* The executor holds a handshake responder for exactly the open circuits  *)
(* of a relay session that have shown no token: every teardown releases    *)
(* it (DestroyPrevLink), and no circuit that may still present its token   *)
(* has lost it.                                                            *)
(***************************************************************************)
RespondersExact ==
    \A c \in Circs :
        (c \in responders) <=> (/\ relay_mode
                                /\ State(c) = "Open"
                                /\ ~circuits[c].token_verified)

(***************************************************************************)
(* An open circuit with a next hop has the link it sends on, and while the *)
(* loop selects no circuit is half extended: record_create_complete and    *)
(* record_extend_complete, whose errors would end the session, find the    *)
(* state they expect.                                                      *)
(***************************************************************************)
NextLinkBacked ==
    \A c \in Circs :
        /\ (State(c) = "Open" /\ circuits[c].out_circ_id # None)
               => circuits[c].out_circ_id \in links
        /\ (State(c) = "Extending") <=> (at = "dial" /\ cur = c)

(***************************************************************************)
(* The loop comes back to serve its circuits, with every tombstone swept,  *)
(* unless it is held for good by a write of a cell to a peer that reads no *)
(* more (write_cell and NextHopLink::send have no timeout): no other wait  *)
(* inside an action lasts, not even the one for room to a stream whose     *)
(* upstream waits for the loop to drain its events.                        *)
(***************************************************************************)
LoopComesBack ==
    \/ <>[](at \in PeerWaits)
    \/ []<>(phase = "running" => at = "select" /\ \A c \in Circs : State(c) # "Destroyed")
=============================================================================
