-------------------------- MODULE MCSessionRatchet --------------------------
(* TLC instance of SessionRatchet; the bounds are given by the .cfg files. *)
EXTENDS SessionRatchet
=============================================================================
