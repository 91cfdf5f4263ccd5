------------------------------ MODULE BytePipe ------------------------------
(***************************************************************************)
(* What a connection promises the applications on its two sides: one byte *)
(* pipe with half-close for each stream and direction.  Units are counted; *)
(* that they keep their order is a property of the detailed specification. *)
(***************************************************************************)
EXTENDS Naturals

CONSTANT Pipes

VARIABLES
    sent,       \* pipe -> units the writer has put in
    delivered,  \* pipe -> units that have reached the reader's end
    read,       \* pipe -> units the reader has taken out
    ended,      \* pipe -> the writer has shut its side down
    eof         \* pipe -> the reader's end knows that no more will come

pipeVars == <<sent, delivered, read, ended, eof>>

Init ==
    /\ sent = [p \in Pipes |-> 0]
    /\ delivered = [p \in Pipes |-> 0]
    /\ read = [p \in Pipes |-> 0]
    /\ ended = [p \in Pipes |-> FALSE]
    /\ eof = [p \in Pipes |-> FALSE]

Put(p) ==
    /\ ~ended[p]
    /\ sent' = [sent EXCEPT ![p] = @ + 1]
    /\ UNCHANGED <<delivered, read, ended, eof>>

End(p) ==
    /\ ended' = [ended EXCEPT ![p] = TRUE]
    /\ UNCHANGED <<sent, delivered, read, eof>>

\* The last units may bring the news of the end with them.
Arrive(p) ==
    /\ ~eof[p]
    /\ \E n \in delivered[p] + 1 .. sent[p] :
        /\ delivered' = [delivered EXCEPT ![p] = n]
        /\ \/ eof' = eof
           \/ ended[p] /\ n = sent[p] /\ eof' = [eof EXCEPT ![p] = TRUE]
    /\ UNCHANGED <<sent, read, ended>>

Take(p) ==
    /\ \E n \in read[p] + 1 .. delivered[p] : read' = [read EXCEPT ![p] = n]
    /\ UNCHANGED <<sent, delivered, ended, eof>>

SeeEnd(p) ==
    /\ ended[p] /\ delivered[p] = sent[p]
    /\ eof' = [eof EXCEPT ![p] = TRUE]
    /\ UNCHANGED <<sent, delivered, read, ended>>

Next == \E p \in Pipes : Put(p) \/ End(p) \/ Arrive(p) \/ Take(p) \/ SeeEnd(p)

Spec == Init /\ [][Next]_pipeVars
=============================================================================
