-------------------------- MODULE ReliableEndpoint --------------------------
(***************************************************************************)
(* The state machine at each end of the DNS tunnel: a byte stream with    *)
(* cumulative acknowledgements and Go-Back-N retransmission from          *)
(* send_base.  The operators take an endpoint and return the new one; the *)
(* module that owns the endpoints is DnsTunnel.                            *)
(*                                                                         *)
(* A byte is the number its writer gave it.  Offsets wrap at SeqSpace,     *)
(* which stands for 2^32: as in the code they are compared as plain        *)
(* numbers.  The SYN flag is left out: nothing reads peer_syn.             *)
(***************************************************************************)
EXTENDS Integers, Sequences, FiniteSets

CONSTANTS
    SeqSpace,   \* the number of byte offsets
    MaxReorder, \* MAX_REORDER_SEGS
    MaxAhead    \* MAX_REORDER_AHEAD

ASSUME ArqAssumption ==
    /\ SeqSpace \in Nat \ {0}
    /\ MaxReorder \in Nat
    /\ MaxAhead \in Nat

Offset == 0 .. SeqSpace - 1
NoFin == SeqSpace

new ==
    [send_stream |-> <<>>, send_base |-> 0, fin_queued |-> FALSE,
     recv_next |-> 0, reorder |-> [o \in Offset |-> <<>>], peer_fin_at |-> NoFin]

Least(m, n) == IF m < n THEN m ELSE n
Wrap(n) == n % SeqSpace

write(e, byte) == [e EXCEPT !.send_stream = Append(@, byte)]

close(e) == [e EXCEPT !.fin_queued = TRUE]

peer_finished(e) == e.peer_fin_at # NoFin /\ e.recv_next >= e.peer_fin_at

build_packet(e, max_data) ==
    LET n == Least(Len(e.send_stream), max_data) IN
    [seq |-> e.send_base, ack |-> e.recv_next,
     fin |-> e.fin_queued /\ n = Len(e.send_stream),
     data |-> SubSeq(e.send_stream, 1, n)]

\* Mutant of ApplyAck: any progress acknowledges all that was queued.
ApplyAckAll(e, ack) ==
    LET acked == IF ack > e.send_base THEN Len(e.send_stream) ELSE 0
    IN  [e EXCEPT !.send_stream = SubSeq(@, acked + 1, Len(@)),
                  !.send_base = Wrap(@ + acked)]

ApplyAck(e, ack) ==
    LET acked == IF ack > e.send_base THEN Least(ack - e.send_base, Len(e.send_stream)) ELSE 0
    IN  [e EXCEPT !.send_stream = SubSeq(@, acked + 1, Len(@)),
                  !.send_base = Wrap(@ + acked)]

\* The offsets of the buffered segments that follow on from offset `at`.
RECURSIVE Contiguous(_, _)
Contiguous(reorder, at) ==
    IF reorder[at] = <<>> THEN <<>>
    ELSE <<at>> \o Contiguous([reorder EXCEPT ![at] = <<>>], Wrap(at + Len(reorder[at])))

RECURSIVE Segments(_, _)
Segments(reorder, offsets) ==
    IF offsets = <<>> THEN <<>>
    ELSE reorder[Head(offsets)] \o Segments(reorder, Tail(offsets))

\* Mutant of Accepted: a segment from before recv_next is taken again.
AcceptedAgain(e, seq, data) ==
    IF data = <<>> \/ seq > e.recv_next THEN <<>>
    ELSE data \o Segments(e.reorder, Contiguous(e.reorder, Wrap(seq + Len(data))))

\* What accept_data hands up: the segment in turn and all that follows on from it.
Accepted(e, seq, data) ==
    IF data = <<>> \/ seq # e.recv_next THEN <<>>
    ELSE data \o Segments(e.reorder, Contiguous(e.reorder, Wrap(seq + Len(data))))

\* A future segment is kept if it is near, and new within the cap or longer.
Buffers(e, seq, data) ==
    /\ data # <<>>
    /\ seq > e.recv_next
    /\ seq - e.recv_next <= MaxAhead
    /\ IF e.reorder[seq] = <<>>
       THEN Cardinality({o \in Offset : e.reorder[o] # <<>>}) < MaxReorder
       ELSE Len(data) > Len(e.reorder[seq])

accept_data(e, seq, data) ==
    LET taken == Accepted(e, seq, data)
        used  == Contiguous(e.reorder, Wrap(seq + Len(data))) IN
    IF taken # <<>>
    THEN [e EXCEPT !.recv_next = Wrap(@ + Len(taken)),
                   !.reorder = [o \in Offset |->
                       IF \E i \in 1 .. Len(used) : used[i] = o THEN <<>> ELSE @[o]]]
    ELSE [e EXCEPT !.reorder = IF Buffers(e, seq, data) THEN [@ EXCEPT ![seq] = data] ELSE @]

NoteFin(e, p) ==
    [e EXCEPT !.peer_fin_at = IF p.fin THEN Wrap(p.seq + Len(p.data)) ELSE @]

\* The delivered bytes of the same call are Accepted(e, p.seq, p.data).
on_packet(e, p) == NoteFin(accept_data(ApplyAck(e, p.ack), p.seq, p.data), p)
=============================================================================
