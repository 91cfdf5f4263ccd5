-------------------------------- MODULE Mux ---------------------------------
(***************************************************************************)
(* A mux connection: two endpoints of crates/mux/src/conn.rs over one      *)
(* reliable, ordered carrier.  At each endpoint a reader task, a writer    *)
(* task and the applications that hold stream handles share the MuxState   *)
(* (one Mutex), the routing map ConnInner::streams, the open_waiters and   *)
(* each stream's StreamShared buffers.                                     *)
(*                                                                         *)
(* One action is one critical section of the state lock (with the leaf     *)
(* locks taken inside it), or one that takes no state lock.  The reader    *)
(* handles a frame in two: recv() under the state lock, then the event's   *)
(* delivery to the handle; event[s] holds what is between the two.         *)
(* MultiThread = FALSE is a current-thread runtime, where no other task    *)
(* of the endpoint runs in between.                                        *)
(*                                                                         *)
(* Not modelled: MuxAcceptor being dropped (every incoming stream is       *)
(* accepted or rejected), wakers (a parked task is one whose action is not *)
(* enabled) and frames that violate the wire format.                       *)
(***************************************************************************)
EXTENDS MuxScheduler

CONSTANTS
    MultiThread,   \* the endpoint's tasks run in parallel
    MayClose,      \* a connection may be closed, or its carrier die
    MayAbandon,    \* an application may drop a stream or time out its open()
    MaxBytes       \* side -> bound: units an application writes to a stream

ASSUME MuxConnAssumption ==
    /\ MultiThread \in BOOLEAN /\ MayClose \in BOOLEAN /\ MayAbandon \in BOOLEAN
    /\ MaxBytes \in [Side -> Nat]

VARIABLES
    mux,      \* side -> MuxState
    wire,     \* side -> frames written to the carrier, not yet read by the peer
    routed,   \* side -> ids in ConnInner::streams
    waiting,  \* side -> ids in ConnInner::open_waiters
    shared,   \* side -> id -> StreamShared (OutBuf and InBuf)
    app,      \* side -> id -> what the application has of the stream
    event,    \* side -> the reader's event between recv() and its delivery
    closed,   \* side -> "no", "closing" (flag set, maps not drained), "yes"
    written,  \* side -> id -> units the application has written
    got       \* side -> id -> units the application has read

vars == <<mux, wire, routed, waiting, shared, app, event, closed, written, got>>

App == {"none", "entering", "rechecking", "answered", "opening", "abandoned",
        "incoming", "held", "gone"}

Shared == [buf : Seq(Nat), ending : BOOLEAN, endedSent : BOOLEAN, outClosed : BOOLEAN,
           inb : Seq(Nat), unacked : Nat, eof : BOOLEAN, reset : BOOLEAN]
FreshShared ==
    [buf |-> <<>>, ending |-> FALSE, endedSent |-> FALSE, outClosed |-> FALSE,
     inb |-> <<>>, unacked |-> 0, eof |-> FALSE, reset |-> FALSE]

EventKind == {"None", "Incoming", "Established", "Data", "PeerEndLocal", "Reset", "Fault"}
NoEvent == [kind |-> "None", id |-> 0, body |-> <<>>]

Init ==
    /\ mux = [s \in Side |-> NewMux]
    /\ wire = [s \in Side |-> <<>>]
    /\ routed = [s \in Side |-> {}]
    /\ waiting = [s \in Side |-> {}]
    /\ shared = [s \in Side |-> [i \in StreamIds |-> FreshShared]]
    /\ app = [s \in Side |-> [i \in StreamIds |-> "none"]]
    /\ event = [s \in Side |-> NoEvent]
    /\ closed = [s \in Side |-> "no"]
    /\ written = [s \in Side |-> [i \in StreamIds |-> 0]]
    /\ got = [s \in Side |-> [i \in StreamIds |-> 0]]

\* A task may start a step: on a single thread, no other task is in mid-step.
Free(s) ==
    MultiThread \/ /\ event[s] = NoEvent
                   /\ closed[s] # "closing"
                   /\ \A i \in StreamIds :
                        app[s][i] \notin {"entering", "rechecking", "answered"}

-----------------------------------------------------------------------------
(* Applications: MuxConnection::open, IncomingStream, MuxStream.           *)

\* open(): the first is_closed() check passed.  Ids are handed out in order.
OpenEnter(s) ==
    \E i \in OwnIds(s) :
        /\ Free(s)
        /\ closed[s] = "no"
        /\ app[s][i] = "none"
        /\ \A j \in OwnIds(s) : j < i => app[s][j] # "none"
        /\ app' = [app EXCEPT ![s][i] = "entering"]
        /\ UNCHANGED <<mux, wire, routed, waiting, shared, event, closed, written, got>>

\* open(): under the state lock, or its error return.  An id stands for one call
\* of open(): it is spent also by a call refused at the stream cap, where the code
\* has not allocated one yet (the ids in use only differ in name).
OpenInsert(s, i) ==
    /\ app[s][i] = "entering"
    /\ IF CanOpen(mux[s])
       THEN /\ mux' = [mux EXCEPT ![s] = OpenLocal(@, i)]
            /\ routed' = [routed EXCEPT ![s] = @ \cup {i}]
            /\ waiting' = [waiting EXCEPT ![s] = @ \cup {i}]
            /\ app' = [app EXCEPT ![s][i] = "rechecking"]
       ELSE /\ app' = [app EXCEPT ![s][i] = "gone"]
            /\ UNCHANGED <<mux, routed, waiting>>
    /\ UNCHANGED <<wire, shared, event, closed, written, got>>

\* Mutant of OpenRecheck: the close-race guard is dropped.
OpenRecheckUnguarded(s, i) ==
    /\ app[s][i] \in {"rechecking", "answered"}
    /\ app' = [app EXCEPT ![s][i] = IF @ = "answered" THEN "held" ELSE "opening"]
    /\ UNCHANGED <<mux, wire, routed, waiting, shared, event, closed, written, got>>

\* open(): the close-race guard, then the wait for the peer's answer.
OpenRecheck(s, i) ==
    /\ app[s][i] \in {"rechecking", "answered"}
    /\ IF closed[s] # "no"
       THEN /\ routed' = [routed EXCEPT ![s] = @ \ {i}]
            /\ waiting' = [waiting EXCEPT ![s] = @ \ {i}]
            /\ app' = [app EXCEPT ![s][i] = "gone"]
       ELSE /\ app' = [app EXCEPT ![s][i] = IF @ = "answered" THEN "held" ELSE "opening"]
            /\ UNCHANGED <<routed, waiting>>
    /\ UNCHANGED <<mux, wire, shared, event, closed, written, got>>

\* The client's timeout drops the open() future: nothing is cleaned up.
OpenTimeout(s, i) ==
    /\ MayAbandon
    /\ Free(s)
    /\ app[s][i] = "opening"
    /\ app' = [app EXCEPT ![s][i] = "abandoned"]
    /\ UNCHANGED <<mux, wire, routed, waiting, shared, event, closed, written, got>>

AcceptStream(s, i) ==
    /\ Free(s)
    /\ app[s][i] = "incoming"
    /\ mux' = [mux EXCEPT ![s] = Accept(@, i)]
    /\ app' = [app EXCEPT ![s][i] = "held"]
    /\ UNCHANGED <<wire, routed, waiting, shared, event, closed, written, got>>

\* IncomingStream::reject, and its Drop without a decision.
RejectStream(s, i) ==
    /\ Free(s)
    /\ app[s][i] = "incoming"
    /\ mux' = [mux EXCEPT ![s] = ResetStream(@, i)]
    /\ routed' = [routed EXCEPT ![s] = @ \ {i}]
    /\ app' = [app EXCEPT ![s][i] = "gone"]
    /\ UNCHANGED <<wire, waiting, shared, event, closed, written, got>>

\* poll_write: one more unit (no caller writes after its shutdown), while the staging buffer has room.
Write(s, i) ==
    /\ Free(s)
    /\ app[s][i] = "held"
    /\ ~shared[s][i].outClosed /\ ~shared[s][i].ending
    /\ Len(shared[s][i].buf) < InitialWindow
    /\ written[s][i] < MaxBytes[s]
    /\ written' = [written EXCEPT ![s][i] = @ + 1]
    /\ shared' = [shared EXCEPT ![s][i].buf = Append(@, written[s][i] + 1)]
    /\ UNCHANGED <<mux, wire, routed, waiting, app, event, closed, got>>

\* poll_shutdown.
Shutdown(s, i) ==
    /\ Free(s)
    /\ app[s][i] = "held"
    /\ ~shared[s][i].ending
    /\ shared' = [shared EXCEPT ![s][i].ending = TRUE]
    /\ UNCHANGED <<mux, wire, routed, waiting, app, event, closed, written, got>>

\* Mutant of ReadAcked: a grant leaves the consumed bytes unacknowledged.
ReadAckedTwice(u) == u

\* poll_read: consumed bytes are granted back once they are half a window.
Grants(u) == u >= InitialWindow \div 2
ReadAcked(u) == IF Grants(u) THEN 0 ELSE u

\* poll_read fills the caller's buffer from the chunks (inb is what is left of
\* them, past the cursor); a grant that finds the queue full is lost.
Read(s, i) ==
    /\ Free(s)
    /\ app[s][i] = "held"
    /\ \E n \in 1..Len(shared[s][i].inb) :
         LET u == shared[s][i].unacked + n IN
         /\ shared' = [shared EXCEPT ![s][i].inb = SubSeq(@, n + 1, Len(@)),
                                    ![s][i].unacked = ReadAcked(u)]
         /\ mux' = [mux EXCEPT ![s] = IF Grants(u) THEN GrantCredit(@, i, u) ELSE @]
         /\ got' = [got EXCEPT ![s][i] = @ + n]
    /\ UNCHANGED <<wire, routed, waiting, app, event, closed, written>>

\* Drop for MuxStream.
DropStream(s, i) ==
    /\ MayAbandon
    /\ Free(s)
    /\ app[s][i] = "held"
    /\ app' = [app EXCEPT ![s][i] = "gone"]
    /\ routed' = [routed EXCEPT ![s] = @ \ {i}]
    /\ mux' = [mux EXCEPT ![s] = IF i \in routed[s] THEN ResetStream(@, i) ELSE @]
    /\ UNCHANGED <<wire, waiting, shared, event, closed, written, got>>

-----------------------------------------------------------------------------
(* The reader task.                                                        *)

\* handle_frame, first half: recv() under the state lock.  After a close the
\* reader may still work through frames it has already taken off the carrier.
ReadFrame(s) ==
    /\ Free(s)
    /\ MultiThread \/ closed[s] = "no"
    /\ event[s] = NoEvent
    /\ wire[Other(s)] # <<>>
    /\ LET fr == Head(wire[Other(s)])
           res == Recv(mux[s], s, fr) IN
         /\ mux' = [mux EXCEPT ![s] = res.mux]
         /\ event' = [event EXCEPT ![s] =
              IF res.ev = "Ignore" THEN NoEvent
              ELSE [kind |-> res.ev, id |-> fr.id, body |-> fr.body]]
    /\ wire' = [wire EXCEPT ![Other(s)] = Tail(@)]
    /\ UNCHANGED <<routed, waiting, shared, app, closed, written, got>>

Ev(s, kind) == event[s].kind = kind
Delivered(s) == event' = [event EXCEPT ![s] = NoEvent]

DeliverIncoming(s) ==
    LET i == event[s].id IN
    /\ Ev(s, "Incoming")
    /\ routed' = [routed EXCEPT ![s] = @ \cup {i}]
    /\ shared' = [shared EXCEPT ![s][i] = FreshShared]
    /\ app' = [app EXCEPT ![s][i] = "incoming"]
    /\ Delivered(s)
    /\ UNCHANGED <<mux, wire, waiting, closed, written, got>>

DeliverEstablished(s) ==
    LET i == event[s].id IN
    /\ Ev(s, "Established")
    /\ waiting' = [waiting EXCEPT ![s] = @ \ {i}]
    /\ app' = [app EXCEPT ![s][i] =
                  CASE @ = "opening" /\ i \in waiting[s] -> "held"
                    [] @ = "rechecking" /\ i \in waiting[s] -> "answered"
                    [] OTHER -> @]
    /\ Delivered(s)
    /\ UNCHANGED <<mux, wire, routed, shared, closed, written, got>>

DeliverData(s) ==
    LET i == event[s].id IN
    /\ Ev(s, "Data")
    /\ shared' = IF i \in routed[s]
                 THEN [shared EXCEPT ![s][i].inb = @ \o event[s].body]
                 ELSE shared
    /\ Delivered(s)
    /\ UNCHANGED <<mux, wire, routed, waiting, app, closed, written, got>>

\* Mutant of DeliverPeerEndLocal: a closed stream is evicted before its handle
\* is looked up.
DeliverPeerEndLocalLate(s) ==
    LET i == event[s].id
        r == IF i \in Live(mux[s]) THEN routed[s] ELSE routed[s] \ {i} IN
    /\ Ev(s, "PeerEndLocal")
    /\ shared' = IF i \in r THEN [shared EXCEPT ![s][i].eof = TRUE] ELSE shared
    /\ routed' = [routed EXCEPT ![s] = r]
    /\ Delivered(s)
    /\ UNCHANGED <<mux, wire, waiting, app, closed, written, got>>

DeliverPeerEndLocal(s) ==
    LET i == event[s].id IN
    /\ Ev(s, "PeerEndLocal")
    /\ shared' = IF i \in routed[s] THEN [shared EXCEPT ![s][i].eof = TRUE] ELSE shared
    /\ routed' = IF i \in Live(mux[s]) THEN routed ELSE [routed EXCEPT ![s] = @ \ {i}]
    /\ Delivered(s)
    /\ UNCHANGED <<mux, wire, waiting, app, closed, written, got>>

\* fault_stream on a handle that is still routed.
Faulted(sh) == [sh EXCEPT !.reset = TRUE, !.outClosed = TRUE]

\* Reset and the recv-error path: fault_stream; Reset also fails a pending open.
DeliverFault(s) ==
    LET i == event[s].id IN
    /\ Ev(s, "Reset") \/ Ev(s, "Fault")
    /\ IF Ev(s, "Reset") /\ i \in waiting[s]
       THEN /\ waiting' = [waiting EXCEPT ![s] = @ \ {i}]
            /\ app' = [app EXCEPT ![s][i] = IF @ = "abandoned" THEN @ ELSE "gone"]
       ELSE UNCHANGED <<waiting, app>>
    /\ shared' = IF i \in routed[s] THEN [shared EXCEPT ![s][i] = Faulted(@)] ELSE shared
    /\ routed' = [routed EXCEPT ![s] = @ \ {i}]
    /\ Delivered(s)
    /\ UNCHANGED <<mux, wire, closed, written, got>>

Deliver(s) ==
    \/ DeliverIncoming(s) \/ DeliverEstablished(s) \/ DeliverData(s)
    \/ DeliverPeerEndLocal(s) \/ DeliverFault(s)

-----------------------------------------------------------------------------
(* The writer task.                                                        *)

\* Mutant of SendOne: what was framed stays staged.
SendOneResends(c, i) ==
    LET n == Chunk(c.mux, i, Len(c.shared[i].buf))
    IN  IF n = 0 THEN c ELSE [c EXCEPT !.mux = SendData(@, i, n, c.shared[i].buf)]

\* The send_data loop on one stream: until the staging buffer, the credit or
\* the queue gives out.
SendOne(c, i) ==
    LET b == c.shared[i].buf
        n == Chunk(c.mux, i, Len(b))
    IN  IF n = 0 THEN c
        ELSE [mux |-> SendData(c.mux, i, n, b),
              shared |-> [c.shared EXCEPT ![i].buf = SubSeq(b, n + 1, Len(b))]]

SendStaged(c, i) ==
    LET sent[n \in 0..InitialWindow] == IF n = 0 THEN c ELSE SendOne(sent[n - 1], i)
    IN  sent[InitialWindow]

\* Mutant of EndIfDone: the half-close does not wait for the staged bytes.
EndIfDoneEarly(c, i) ==
    IF ~c.shared[i].ending \/ c.shared[i].endedSent THEN c
    ELSE [mux |-> EndLocal(c.mux, i), shared |-> [c.shared EXCEPT ![i].endedSent = TRUE]]

\* Half-close once everything staged has been framed; the result is ignored.
EndIfDone(c, i) ==
    LET o == c.shared[i] IN
    IF ~o.ending \/ o.buf # <<>> \/ o.endedSent THEN c
    ELSE [mux |-> EndLocal(c.mux, i), shared |-> [c.shared EXCEPT ![i].endedSent = TRUE]]

\* Mutant of Flushed: the half-close goes out ahead of the staged bytes.
FlushedEndFirst(c, ids) ==
    LET flushed[n \in 0..Len(ids)] ==
          IF n = 0 THEN c ELSE SendStaged(EndIfDoneEarly(flushed[n - 1], ids[n]), ids[n])
    IN  flushed[Len(ids)]

Flushed(c, ids) ==
    LET flushed[n \in 0..Len(ids)] ==
          IF n = 0 THEN c ELSE EndIfDone(SendStaged(flushed[n - 1], ids[n]), ids[n])
    IN  flushed[Len(ids)]

\* drain_pass (the routing map is walked in any order), then the carrier write.
\* A pass whose is_closed() check was made before a close still runs.
DrainPass(s) ==
    /\ Free(s)
    /\ MultiThread \/ closed[s] = "no"
    /\ \E c \in {Flushed([mux |-> mux[s], shared |-> shared[s]], ids) :
                    ids \in Orderings(routed[s])} :
           /\ mux' = [mux EXCEPT ![s] = [c.mux EXCEPT !.outbound = <<>>]]
           /\ shared' = [shared EXCEPT ![s] = c.shared]
           /\ routed' = [routed EXCEPT ![s] = @ \cap Live(c.mux)]
           /\ wire' = [wire EXCEPT ![s] = @ \o DeficitRoundRobin(c.mux.outbound)]
    /\ UNCHANGED <<waiting, app, event, closed, written, got>>

-----------------------------------------------------------------------------
(* close_connection.                                                       *)

\* close() or a carrier error at s, or the end of a carrier the peer closed.
CloseBegin(s) ==
    /\ MayClose
    /\ Free(s)
    /\ closed[s] = "no"
    /\ closed' = [closed EXCEPT ![s] = "closing"]
    /\ UNCHANGED <<mux, wire, routed, waiting, shared, app, event, written, got>>

ClosedShared(sh) ==
    [sh EXCEPT !.reset = @ \/ ~sh.eof, !.outClosed = TRUE]

\* Drain the routing map and the waiters; a dropped waiter fails its open().
CloseDrain(s) ==
    /\ closed[s] = "closing"
    /\ closed' = [closed EXCEPT ![s] = "yes"]
    /\ shared' = [shared EXCEPT ![s] = [i \in StreamIds |->
                    IF i \in routed[s] THEN ClosedShared(@[i]) ELSE @[i]]]
    /\ app' = [app EXCEPT ![s] = [i \in StreamIds |->
                    IF i \in waiting[s] /\ @[i] = "opening" THEN "gone" ELSE @[i]]]
    /\ routed' = [routed EXCEPT ![s] = {}]
    /\ waiting' = [waiting EXCEPT ![s] = {}]
    /\ UNCHANGED <<mux, wire, event, written, got>>

-----------------------------------------------------------------------------
ReaderTask(s) == ReadFrame(s) \/ Deliver(s)

\* What the task that holds a stream always goes on to do: finish an open(),
\* decide on an incoming stream, read what has arrived.
HolderTask(s, i) ==
    \/ OpenInsert(s, i) \/ OpenRecheck(s, i)
    \/ AcceptStream(s, i) \/ RejectStream(s, i)
    \/ Read(s, i)

HolderMay(s, i) ==
    \/ Write(s, i) \/ Shutdown(s, i) \/ OpenTimeout(s, i) \/ DropStream(s, i)

Next ==
    \E s \in Side :
        \/ ReaderTask(s) \/ DrainPass(s)
        \/ OpenEnter(s) \/ \E i \in StreamIds : HolderTask(s, i) \/ HolderMay(s, i)
        \/ CloseBegin(s) \/ CloseDrain(s)

\* The runtime runs every task that can go on, and each change is followed by a
\* notify_one to the writer.  What a task may do next is one action at a time, so
\* fairness is stated per task.  Nothing obliges an application to write, shut
\* down or drop.
Fairness ==
    \A s \in Side :
        /\ WF_vars(ReaderTask(s)) /\ WF_vars(DrainPass(s)) /\ WF_vars(CloseDrain(s))
        /\ \A i \in StreamIds : WF_vars(HolderTask(s, i))

Spec == Init /\ [][Next]_vars /\ Fairness

-----------------------------------------------------------------------------
(* Properties.                                                             *)

\* The pipes of a connection: <<s, i>> is stream i in the direction s to Other(s).
Pipe == INSTANCE BytePipe WITH
    Pipes <- Side \X StreamIds,
    sent <- [p \in Side \X StreamIds |-> written[p[1]][p[2]]],
    delivered <- [p \in Side \X StreamIds |->
                    got[Other(p[1])][p[2]] + Len(shared[Other(p[1])][p[2]].inb)],
    read <- [p \in Side \X StreamIds |-> got[Other(p[1])][p[2]]],
    ended <- [p \in Side \X StreamIds |-> shared[p[1]][p[2]].ending],
    eof <- [p \in Side \X StreamIds |-> shared[Other(p[1])][p[2]].eof]

\* A stream is "a full-duplex byte pipe indistinguishable from a TcpStream"
\* (conn.rs, MuxStream): every step of the connection, whatever is framed,
\* reset, dropped or pruned, is a step of one of its byte pipes or of none.
ImplementsPipes == Pipe!Spec

\* The type of every variable.
TypeOK ==
    /\ mux \in [Side -> [stream : [StreamIds -> Stream], outbound : Seq(Frame)]]
    /\ wire \in [Side -> Seq(Frame)]
    /\ routed \in [Side -> SUBSET StreamIds]
    /\ waiting \in [Side -> SUBSET StreamIds]
    /\ shared \in [Side -> [StreamIds -> Shared]]
    /\ app \in [Side -> [StreamIds -> App]]
    /\ event \in [Side -> [kind : EventKind, id : StreamIds \cup {0}, body : Seq(Nat)]]
    /\ closed \in [Side -> {"no", "closing", "yes"}]
    /\ written \in [Side -> [StreamIds -> Nat]]
    /\ got \in [Side -> [StreamIds -> Nat]]

InFlight(s, i) == OfStream(wire[s] \o mux[s].outbound, i)
Bytes(frames) == Total([k \in DOMAIN frames |-> Len(frames[k].body)])
Credit(frames) == Total([k \in DOMAIN frames |-> frames[k].delta])
DataInFlight(s, i) == Bytes(InFlight(s, i))
CreditInFlight(s, i) == Credit(InFlight(s, i))
Buffered(s, i) == Len(shared[s][i].inb) + (IF Ev(s, "Data") /\ event[s].id = i THEN Len(event[s].body) ELSE 0)

\* Two honest endpoints never trip the over-send check in recv: what a sender may
\* still send, with everything on its way in either direction, fits the window the
\* receiver holds open; also when a full queue swallows grants (send_data debits
\* only after it queued, grant_credit opens only after it queued).
NoOverSend ==
    \A s \in Side, i \in StreamIds :
        i \in Live(mux[s]) \cap Live(mux[Other(s)]) =>
            mux[s].stream[i].sendCredit + DataInFlight(s, i) + CreditInFlight(Other(s), i)
                <= mux[Other(s)].stream[i].recvWindow

\* "Per-stream flow-control windows bound memory": what is buffered for a slow
\* reader, with what its peer may still send, never exceeds the initial window.
WindowBoundsMemory ==
    \A s \in Side, i \in StreamIds :
        i \in Live(mux[s]) =>
            mux[s].stream[i].recvWindow + Buffered(s, i) + shared[s][i].unacked
                <= InitialWindow

\* The bytes a reader has and will see are the ones written, in order, without a
\* gap, whatever frames, credits and resets interleave.
DeliveredInOrder ==
    \A s \in Side, i \in StreamIds :
        LET b == shared[s][i].inb IN
        /\ b = [k \in 1..Len(b) |-> got[s][i] + k]
        /\ got[s][i] + Len(b) <= written[Other(s)][i]

\* No open() waits for ever on a closed connection: the close-race guard MUX-1
\* ("This is race-free") and the drained waiters leave none behind.
NoOpenAfterClose ==
    \A s \in Side, i \in StreamIds :
        ~(closed[s] = "yes" /\ app[s][i] = "opening")

\* conn.rs:741-743: fault_stream exists "so a state-machine-closed stream never
\* orphans a parked task": a held handle that no longer receives events (its id
\* is not routed, nothing is being delivered) has been told EOF or reset.
NeverOrphaned ==
    \A s \in Side, i \in StreamIds :
        app[s][i] = "held" /\ i \notin routed[s] /\ event[s].id # i =>
            shared[s][i].eof \/ shared[s][i].reset

\* A half-close propagates end to end: after poll_shutdown the peer's reader
\* sees EOF, unless one of the two dropped the stream or it was reset.
HalfClosePropagates ==
    \A s \in Side, i \in StreamIds :
        (app[s][i] = "held" /\ shared[s][i].ending)
            ~> \/ shared[Other(s)][i].eof \/ shared[Other(s)][i].reset
               \/ shared[s][i].reset \/ app[s][i] = "gone" \/ app[Other(s)][i] = "gone"

\* Every open() is answered: established, refused, timed out or closed.
OpenAnswered ==
    \A s \in Side, i \in StreamIds :
        app[s][i] = "opening" ~> app[s][i] # "opening"
=============================================================================
