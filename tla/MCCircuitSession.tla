------------------------- MODULE MCCircuitSession -------------------------
(***************************************************************************)
(* CircuitSession for TLC: two circuits that compete for one pending       *)
(* handshake, two outgoing ids, one exit stream, queues of one.            *)
(***************************************************************************)
EXTENDS CircuitSession
=============================================================================
