------------------------------ MODULE MuxDrain ------------------------------
(***************************************************************************)
(* One drain of the outbound queue, turn by turn: deficit_round_robin as a *)
(* state machine, over every queue content of up to MaxQueued frames.      *)
(***************************************************************************)
EXTENDS MuxScheduler

CONSTANT MaxQueued   \* bound: frames in the queue when it is drained

ASSUME MaxQueuedAssumption == MaxQueued \in Nat

VARIABLES input, drr
drainVars == <<input, drr>>

\* A frame is told apart from the others of its stream by its place in the queue.
Sizes == 0..MaxBody
Queued(ids, sizes) ==
    [k \in DOMAIN ids |->
        [id |-> ids[k], cmd |-> "Data", body |-> [j \in 1..sizes[k] |-> k], delta |-> 0]]
DrainInit ==
    /\ \E n \in 0..MaxQueued : \E ids \in [1..n -> StreamIds], sizes \in [1..n -> Sizes] :
         input = Queued(ids, sizes)
    /\ drr = DrrStart(input)

Turn ==
    /\ drr.active # <<>>
    /\ drr' = Served(drr)
    /\ UNCHANGED input

DrainSpec == DrainInit /\ [][Turn]_drainVars /\ WF_drainVars(Turn)

-----------------------------------------------------------------------------
SentBytes(id) == Spent(OfStream(drr.out, id))
Backlogged(id) == drr.queue[id] # <<>>

\* "order WITHIN a stream is preserved exactly": at every turn what has gone out
\* for a stream followed by what is still queued is what the queue held for it.
StreamOrderKept ==
    \A id \in StreamIds : OfStream(drr.out, id) \o drr.queue[id] = OfStream(input, id)

\* No head-of-line blocking: of two streams that still have frames, neither is
\* ahead of the other by one quantum and one largest frame.
FairShare ==
    \A i, j \in StreamIds :
        Backlogged(i) /\ Backlogged(j) => SentBytes(i) - SentBytes(j) < Quantum + MaxBody

\* Every drain ends, also when a frame is larger than the quantum ("this always
\* terminates"), with every frame out, in the order the operator computes.
DrainEnds == <>(drr.active = <<>> /\ Len(drr.out) = Len(input)
                  /\ (Len(Order(input)) >= 2 => drr.out = DeficitRoundRobin(input)))
=============================================================================
