---------------------------- MODULE MCRendezvous ----------------------------
(* RendezvousRouter for TLC: a service session and a client session.       *)
EXTENDS RendezvousRouter

CONSTANTS s1, s2

MCSessions == {s1, s2}
MCCircIds == {1, 2}
MCCircuits == MCSessions \X MCCircIds

=============================================================================
