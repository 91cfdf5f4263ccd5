------------------------------- MODULE MCMux --------------------------------
(* Small mux connections.  Stream 2 is opened by the initiator, 1 by the    *)
(* responder.                                                               *)
EXTENDS Mux

OneWay == [s \in Side |-> IF s = "Initiator" THEN 3 ELSE 0]
Unit == [s \in Side |-> 1]
=============================================================================
