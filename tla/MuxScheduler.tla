---------------------------- MODULE MuxScheduler ----------------------------
(***************************************************************************)
(* deficit_round_robin of crates/mux/src/state.rs: the order in which one  *)
(* drain of the outbound queue goes to the carrier.  A frame costs its     *)
(* body length, at least 1.                                                *)
(***************************************************************************)
EXTENDS MuxState

CONSTANT Quantum   \* MuxPolicy::drr_quantum_bytes; 0 is strict FIFO

ASSUME QuantumAssumption == Quantum \in Nat

OfStream(frames, id) == Filter(frames, {fr \in Frame : fr.id = id})

\* The streams of frames, by first appearance.
Order(frames) ==
    LET places == [k \in DOMAIN frames |-> k]
        firsts == Filter(places, {k \in DOMAIN frames :
                                    \A j \in 1..(k - 1) : frames[j].id # frames[k].id})
    IN  [n \in DOMAIN firsts |-> frames[firsts[n]].id]

Cost(fr) == IF Len(fr.body) > 1 THEN Len(fr.body) ELSE 1
Spent(q) == Total([k \in DOMAIN q |-> Cost(q[k])])

\* How many frames at the head of q a deficit of d pays for.
Affordable(q, d) ==
    CHOOSE k \in 0..Len(q) :
        /\ Spent(SubSeq(q, 1, k)) <= d
        /\ \A j \in 0..Len(q) : Spent(SubSeq(q, 1, j)) <= d => j <= k

DrrState == [active : Seq(StreamIds), queue : [StreamIds -> Seq(Frame)],
             deficit : [StreamIds -> Nat], out : Seq(Frame)]

\* Mutant of Served: a stream with frames left is served from the far end.
ServedReversed(st) ==
    LET sid == Head(st.active)
        q   == st.queue[sid]
    IN  [st EXCEPT !.active = Tail(@), !.queue[sid] = <<>>,
                   !.out = @ \o [k \in DOMAIN q |-> q[Len(q) + 1 - k]]]

\* Mutant of Served: a stream with frames left keeps no credit for its next turn.
ServedForgetful(st) ==
    LET sid  == Head(st.active)
        q    == st.queue[sid]
        k    == Affordable(q, Quantum)
        rest == SubSeq(q, k + 1, Len(q))
    IN  [st EXCEPT !.active = Tail(@) \o (IF rest = <<>> THEN <<>> ELSE <<sid>>),
                   !.queue[sid] = rest, !.out = @ \o SubSeq(q, 1, k)]

\* Mutant of Served: a stream with frames left goes to the front of the list.
ServedStarving(st) ==
    LET sid  == Head(st.active)
        q    == st.queue[sid]
        d    == st.deficit[sid] + Quantum
        k    == Affordable(q, d)
        rest == SubSeq(q, k + 1, Len(q))
    IN  [active  |-> (IF rest = <<>> THEN <<>> ELSE <<sid>>) \o Tail(st.active),
         queue   |-> [st.queue EXCEPT ![sid] = rest],
         deficit |-> [st.deficit EXCEPT ![sid] = d - Spent(SubSeq(q, 1, k))],
         out     |-> st.out \o SubSeq(q, 1, k)]

\* One turn of the stream at the front of the active list.
Served(st) ==
    LET sid  == Head(st.active)
        q    == st.queue[sid]
        d    == st.deficit[sid] + Quantum
        k    == Affordable(q, d)
        rest == SubSeq(q, k + 1, Len(q))
    IN  [active  |-> Tail(st.active) \o (IF rest = <<>> THEN <<>> ELSE <<sid>>),
         queue   |-> [st.queue EXCEPT ![sid] = rest],
         deficit |-> [st.deficit EXCEPT ![sid] = IF rest = <<>> THEN 0 ELSE d - Spent(SubSeq(q, 1, k))],
         out     |-> st.out \o SubSeq(q, 1, k)]

DrrStart(frames) ==
    [active |-> Order(frames), queue |-> [i \in StreamIds |-> OfStream(frames, i)],
     deficit |-> [i \in StreamIds |-> 0], out |-> <<>>]

\* The loop runs until no stream is active.  Each turn pays for at least 1 of
\* what the queued frames cost, so it takes no more turns than that.
Turns(frames) ==
    LET order == Order(frames)
    IN  Total([k \in DOMAIN order |-> Spent(OfStream(frames, order[k]))])

ServeAll(frames) ==
    LET serve[n \in 0..Turns(frames)] == [st \in DrrState |->
            IF n = 0 \/ st.active = <<>> THEN st.out ELSE serve[n - 1][Served(st)]]
    IN  serve[Turns(frames)][DrrStart(frames)]

DeficitRoundRobin(frames) ==
    IF Quantum = 0 \/ Cardinality({frames[k].id : k \in DOMAIN frames}) < 2 THEN frames
    ELSE ServeAll(frames)
=============================================================================
