-------------------------- MODULE ExitDispatcher --------------------------
(***************************************************************************)
(* The exit's streams of one session                                       *)
(* (src/crates/bridge/src/stream_dispatcher.rs): the table of forward      *)
(* channels by stream id and, for every connection, a task that writes to  *)
(* the upstream socket and one that reads from it.                         *)
(*                                                                         *)
(* A connection takes a slot while one of its tasks runs; a stream id can  *)
(* be used again while the reader of an earlier connection still runs.     *)
(* Payloads are counted in chunks.  The upstream server is external: it    *)
(* takes up to UpCap chunks, sends back what it took, and may close at any *)
(* time.  A server that waits for its own output to be read before it      *)
(* reads on is the case UpCap stands for.                                  *)
(***************************************************************************)
EXTENDS Integers, Sequences, FiniteSets

CONSTANTS Sids,        \* stream ids, chosen by the client
          Slots,       \* connections that exist at once
          MaxStreams,  \* config.max_streams
          FwdCap,      \* FORWARD_CHANNEL_CAP
          EvCap,       \* EXIT_EVENTS_CHANNEL_CAP
          UpCap        \* chunks the upstream takes before it waits

VARIABLES streams,  \* stream id -> the slot whose channel it names
          conn,     \* slot -> its connection
          events    \* events_tx: what the readers have for the session loop

exitVars == <<streams, conn, events>>

NoSlot == "none"

ASSUME ExitAssumption ==
    /\ NoSlot \notin Slots
    /\ {MaxStreams, FwdCap, EvCap, UpCap} \subseteq Nat \ {0}

Idle == [sid |-> NoSlot, fwd |-> 0, writer |-> "gone", reader |-> "gone", up |-> 0]

NoStreams == [s \in Sids |-> NoSlot]

NoConns == [g \in Slots |-> Idle]

ExitInit == streams = NoStreams /\ conn = NoConns /\ events = <<>>

-----------------------------------------------------------------------------
Free(g) == conn[g].writer = "gone" /\ conn[g].reader = "gone"

CanBegin(s) ==
    /\ streams[s] = NoSlot
    /\ Cardinality({t \in Sids : streams[t] # NoSlot}) < MaxStreams

(***************************************************************************)
(* The end of a BEGIN whose connect succeeded.                             *)
(***************************************************************************)
Connected(s) ==
    \E g \in Slots :
        /\ Free(g)
        /\ streams' = [streams EXCEPT ![s] = g]
        /\ conn' = [conn EXCEPT ![g] = [Idle EXCEPT !.sid = s, !.writer = "wait",
                                                    !.reader = "read"]]
        /\ UNCHANGED events

(***************************************************************************)
(* END drops the sender; the reader goes on.                               *)
(***************************************************************************)
Unlist(s) == streams' = [streams EXCEPT ![s] = NoSlot]

Forward(g) ==
    /\ conn[g].writer # "gone"
    /\ conn[g].fwd < FwdCap
    /\ conn' = [conn EXCEPT ![g].fwd = @ + 1]

-----------------------------------------------------------------------------
(***************************************************************************)
(* The write task: it takes a chunk, writes it within the timeout or gives *)
(* up, and stops when no sender is left (held: the session loop has one).  *)
(***************************************************************************)
WriterTakes(g) ==
    /\ conn[g].writer = "wait"
    /\ conn[g].fwd > 0
    /\ conn' = [conn EXCEPT ![g].fwd = @ - 1, ![g].writer = "write"]
    /\ UNCHANGED <<streams, events>>

Writes(g) ==
    /\ conn[g].writer = "write"
    /\ conn[g].up < UpCap
    /\ conn' = [conn EXCEPT ![g].up = @ + 1, ![g].writer = "wait"]
    /\ UNCHANGED <<streams, events>>

(***************************************************************************)
(* A mutant of WriteTimesOut: a write has no timeout.                      *)
(***************************************************************************)
WriteWithoutTimeout(g) == FALSE

WriteTimesOut(g) ==
    /\ conn[g].writer = "write"
    /\ conn' = [conn EXCEPT ![g].fwd = 0, ![g].writer = "gone"]
    /\ UNCHANGED <<streams, events>>

WriterEnds(g, held) ==
    /\ conn[g].writer = "wait"
    /\ conn[g].fwd = 0
    /\ ~held
    /\ \A s \in Sids : streams[s] # g
    /\ conn' = [conn EXCEPT ![g].writer = "gone"]
    /\ UNCHANGED <<streams, events>>

(***************************************************************************)
(* The read task: a chunk, or the end of the stream, and its event; after  *)
(* the end it removes the table's entry of its id.                         *)
(***************************************************************************)
Reads(g) ==
    /\ conn[g].reader = "read"
    /\ conn[g].up > 0
    /\ conn' = [conn EXCEPT ![g].up = @ - 1, ![g].reader = "data"]
    /\ UNCHANGED <<streams, events>>

ReadEof(g) ==
    /\ conn[g].reader = "read"
    /\ conn' = [conn EXCEPT ![g].reader = "end"]
    /\ UNCHANGED <<streams, events>>

SendEvent(g) ==
    /\ conn[g].reader \in {"data", "end"}
    /\ Len(events) < EvCap
    /\ events' = Append(events, conn[g].sid)
    /\ conn' = [conn EXCEPT ![g].reader = IF @ = "data" THEN "read" ELSE "unlist"]
    /\ UNCHANGED streams

ReaderEnds(g) ==
    /\ conn[g].reader = "unlist"
    /\ Unlist(conn[g].sid)
    /\ conn' = [conn EXCEPT ![g].reader = "gone"]
    /\ UNCHANGED events
=============================================================================
