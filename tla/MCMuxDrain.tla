----------------------------- MODULE MCMuxDrain -----------------------------
(* Three streams; frames larger than the quantum, empty (control) ones too. *)
EXTENDS MuxDrain
=============================================================================
