------------------------------ MODULE MuxState ------------------------------
(***************************************************************************)
(* The I/O-free stream state machine of crates/mux/src/state.rs, as        *)
(* operators on one endpoint's MuxState                                    *)
(*     m = [stream |-> [StreamIds -> Stream], outbound |-> Seq(Frame)].    *)
(*                                                                         *)
(* A stream that is not in the code's map has state "Closed" here: the     *)
(* code never keeps a Closed entry.  open_count is the number of entries.  *)
(* Targets, error codes and wire encodings are left out.  A Data body is   *)
(* the sequence of units (numbered by their writer) that it carries.       *)
(***************************************************************************)
EXTENDS Integers, Sequences, FiniteSets, Lists

CONSTANTS
    StreamIds,       \* stream ids in play: even ones are the initiator's
    InitialWindow,   \* MuxPolicy::initial_window
    MaxStreams,      \* MuxPolicy::max_concurrent_streams
    MaxPending,      \* MuxPolicy::max_pending_outbound
    MaxBody          \* MAX_MUX_FRAME_BODY

ASSUME MuxPolicyAssumption ==
    /\ StreamIds \subseteq Nat \ {0} /\ IsFiniteSet(StreamIds)
    /\ InitialWindow \in Nat \ {0}
    /\ MaxStreams \in Nat /\ MaxPending \in Nat
    /\ MaxBody \in Nat \ {0}

Side == {"Initiator", "Responder"}
Other(s) == IF s = "Initiator" THEN "Responder" ELSE "Initiator"

StreamState == {"SynSent", "SynReceived", "Open", "HalfClosedLocal",
                "HalfClosedRemote", "Closed"}
Stream == [state : StreamState, sendCredit : Nat, recvWindow : Nat]

Cmd == {"Begin", "BeginOk", "Data", "WindowUpdate", "EndLocal", "Reset"}
Frame == [id : StreamIds, cmd : Cmd, body : Seq(Nat), delta : Nat]

Control(id, cmd) == [id |-> id, cmd |-> cmd, body |-> <<>>, delta |-> 0]
Data(id, body) == [id |-> id, cmd |-> "Data", body |-> body, delta |-> 0]
WindowUpdate(id, n) == [id |-> id, cmd |-> "WindowUpdate", body |-> <<>>, delta |-> n]

NoStream == [state |-> "Closed", sendCredit |-> 0, recvWindow |-> 0]
NewStream(st) ==
    [state |-> st, sendCredit |-> InitialWindow, recvWindow |-> InitialWindow]
NewMux == [stream |-> [i \in StreamIds |-> NoStream], outbound |-> <<>>]

\* Ids of the role's parity: StreamIdAllocator, and the check in recv(Begin).
OwnIds(s) == {i \in StreamIds : i % 2 = IF s = "Initiator" THEN 0 ELSE 1}

Live(m) == {i \in StreamIds : m.stream[i].state # "Closed"}
AtCap(m) == Cardinality(Live(m)) >= MaxStreams
Full(m) == Len(m.outbound) >= MaxPending
Push(m, fr) == [m EXCEPT !.outbound = Append(@, fr)]
SetState(m, id, st) == [m EXCEPT !.stream[id].state = st]
Close(m, id) == [m EXCEPT !.stream[id] = NoStream]

-----------------------------------------------------------------------------
(* Local operations.  Each is what the call leaves behind; a call that      *)
(* fails returns m as the failing call left it.                             *)

CanOpen(m) == ~AtCap(m) /\ ~Full(m)
OpenLocal(m, id) ==
    [Push(m, Control(id, "Begin")) EXCEPT !.stream[id] = NewStream("SynSent")]

\* accept() becomes Open before it finds out whether BeginOk fits.
Accept(m, id) ==
    IF m.stream[id].state # "SynReceived" THEN m
    ELSE LET o == SetState(m, id, "Open")
         IN  IF Full(m) THEN o ELSE Push(o, Control(id, "BeginOk"))

ResetStream(m, id) ==
    IF m.stream[id].state = "Closed" \/ Full(m) THEN m
    ELSE Close(Push(m, Control(id, "Reset")), id)

\* Mutant of SendData: the credit is not debited.
SendDataNoDebit(m, id, n, body) == Push(m, Data(id, SubSeq(body, 1, n)))

\* How much of a staged body of length k the next Data frame may carry.
Chunk(m, id, k) ==
    IF m.stream[id].state \notin {"Open", "HalfClosedRemote"} \/ Full(m) THEN 0
    ELSE Least({MaxBody, m.stream[id].sendCredit, k})
SendData(m, id, n, body) ==
    [Push(m, Data(id, SubSeq(body, 1, n))) EXCEPT !.stream[id].sendCredit = @ - n]

CanEnd(m, id) == m.stream[id].state \in {"Open", "HalfClosedRemote"} /\ ~Full(m)
EndLocal(m, id) ==
    IF ~CanEnd(m, id) THEN m
    ELSE LET q == Push(m, Control(id, "EndLocal"))
         IN  IF m.stream[id].state = "Open" THEN SetState(q, id, "HalfClosedLocal")
             ELSE Close(q, id)

GrantCredit(m, id, n) ==
    IF m.stream[id].state = "Closed" \/ Full(m) THEN m
    ELSE [Push(m, WindowUpdate(id, n)) EXCEPT !.stream[id].recvWindow = @ + n]

-----------------------------------------------------------------------------
(* recv(): the state after an inbound frame, and the event it yields.       *)

Result(m, ev) == [mux |-> m, ev |-> ev]
\* A recv error: the driver faults the handle iff the stream is gone.
Failed(m, id) == Result(m, IF m.stream[id].state = "Closed" THEN "Fault" ELSE "Ignore")

\* Mutant of RecvBegin: a stream over the cap is dropped, not refused.
RecvBeginNoReset(m, s, id) ==
    IF id \in OwnIds(s) \/ AtCap(m) THEN Failed(m, id)
    ELSE Result([m EXCEPT !.stream[id] = NewStream("SynReceived")], "Incoming")

RecvBegin(m, s, id) ==
    IF id \in OwnIds(s) \/ (m.stream[id].state = "Closed" /\ AtCap(m))
    THEN Failed(IF Full(m) THEN m ELSE Push(m, Control(id, "Reset")), id)
    ELSE IF m.stream[id].state # "Closed" THEN Failed(m, id)
    ELSE Result([m EXCEPT !.stream[id] = NewStream("SynReceived")], "Incoming")

RecvBeginOk(m, id) ==
    IF m.stream[id].state = "SynSent" THEN Result(SetState(m, id, "Open"), "Established")
    ELSE Failed(m, id)

RecvData(m, id, n) ==
    IF m.stream[id].state \notin {"Open", "HalfClosedLocal"} THEN Failed(m, id)
    ELSE IF n <= m.stream[id].recvWindow
    THEN Result([m EXCEPT !.stream[id].recvWindow = @ - n], "Data")
    ELSE Failed(ResetStream(m, id), id)

RecvWindowUpdate(m, id, n) ==
    IF m.stream[id].state = "Closed" THEN Failed(m, id)
    ELSE Result([m EXCEPT !.stream[id].sendCredit = @ + n], "Ignore")

\* Mutant of RecvEndLocal: the EndLocal that closes a stream is not announced.
RecvEndLocalSilent(m, id) ==
    IF m.stream[id].state = "Open"
    THEN Result(SetState(m, id, "HalfClosedRemote"), "PeerEndLocal")
    ELSE Result(Close(m, id), "Ignore")

RecvEndLocal(m, id) ==
    CASE m.stream[id].state = "Open" ->
           Result(SetState(m, id, "HalfClosedRemote"), "PeerEndLocal")
      [] m.stream[id].state = "HalfClosedLocal" -> Result(Close(m, id), "PeerEndLocal")
      [] OTHER -> Failed(m, id)

RecvReset(m, id) ==
    IF m.stream[id].state = "Closed" THEN Failed(m, id)
    ELSE Result(Close(m, id), "Reset")

Recv(m, s, fr) ==
    CASE fr.cmd = "Begin" -> RecvBegin(m, s, fr.id)
      [] fr.cmd = "BeginOk" -> RecvBeginOk(m, fr.id)
      [] fr.cmd = "Data" -> RecvData(m, fr.id, Len(fr.body))
      [] fr.cmd = "WindowUpdate" -> RecvWindowUpdate(m, fr.id, fr.delta)
      [] fr.cmd = "EndLocal" -> RecvEndLocal(m, fr.id)
      [] fr.cmd = "Reset" -> RecvReset(m, fr.id)
=============================================================================
