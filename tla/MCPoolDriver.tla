---------------------------- MODULE MCPoolDriver ----------------------------
(* One class, two callers, two hops a circuit.  The floor is one circuit, so  *)
(* the driver builds beside the callers; the caps are two circuits of two     *)
(* streams, so callers share a circuit, reserve on one that is being built,   *)
(* and find the pool full while circuits drain.                               *)
EXTENDS PoolDriver

MCPerClass == [c \in Classes |-> 2]
MCOne == [c \in Classes |-> 1]
MCClass == [s \in Streams |-> CHOOSE c \in Classes : TRUE]
=============================================================================
