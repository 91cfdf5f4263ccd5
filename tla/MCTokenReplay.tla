--------------------------- MODULE MCTokenReplay ---------------------------
(* Instances of TokenReplay for TLC.                                       *)
EXTENDS TokenReplay, TLC

CONSTANTS t1, t2, t3

(* Two tokens whose windows end at different times, and a third one that   *)
(* outlives both, so that a set of two entries is full, evicts and, after  *)
(* a failed sync, overflows on restore.                                    *)
MCExpiresAt == (t1 :> 0) @@ (t2 :> 1) @@ (t3 :> 2)

=============================================================================
