--------------------------- MODULE BridgeCircuit ---------------------------
(***************************************************************************)
(* The circuit table of one bridge session                                 *)
(* (src/crates/circuit/src/bridge_circuit.rs): the entries by incoming id, *)
(* the map from outgoing ids back to them, and what each cell, completion  *)
(* and sweep does to the two.                                              *)
(*                                                                         *)
(* An entry's keys, sequence numbers and clocks are abstracted.  A clock   *)
(* only decides which circuits have outlived a limit when a sweep runs.    *)
(* The fragments of a handshake message are abstracted to whether one is   *)
(* being collected.  A cell wrapped in a RELAY is handled like the bare    *)
(* one, so one operator stands for both.  The operators give the new value *)
(* of the table; the session task (CircuitSession) carries out the         *)
(* BridgeActions that go with it.                                          *)
(***************************************************************************)
EXTENDS Integers, FiniteSets

CONSTANTS Circs,        \* incoming circuit ids, chosen by the previous hop
          Outs,         \* outgoing circuit ids, chosen by this bridge
          MaxCircuits,  \* policy.max_circuits
          MaxPending    \* policy.max_pending_handshakes

VARIABLES circuits, out_to_in

(***************************************************************************)
(* No value of a bounded field: no outgoing id, no circuit.                *)
(***************************************************************************)
None == "none"

ASSUME CircuitAssumption ==
    /\ None \notin Circs
    /\ None \notin Outs
    /\ MaxCircuits \in Nat
    /\ MaxPending \in Nat

CircuitEntryState == {"absent", "Creating", "Open", "Extending", "Destroyed"}

CircuitEntry == [state : CircuitEntryState,
                 out_circ_id : Outs \cup {None},
                 pending_create : BOOLEAN,
                 pending_extend : BOOLEAN,
                 token_verified : BOOLEAN]

Absent == [state |-> "absent", out_circ_id |-> None, pending_create |-> FALSE,
           pending_extend |-> FALSE, token_verified |-> FALSE]

NoCircuits == [c \in Circs |-> Absent]

NoOuts == [o \in Outs |-> None]

TableInit == circuits = NoCircuits /\ out_to_in = NoOuts

TableTypeOK ==
    /\ circuits \in [Circs -> CircuitEntry]
    /\ out_to_in \in [Outs -> Circs \cup {None}]

-----------------------------------------------------------------------------
State(c) == circuits[c].state

Live(c) == State(c) \in {"Creating", "Open", "Extending"}

pending_count == Cardinality({c \in Circs : State(c) \in {"Creating", "Extending"}})

HasRoom == Cardinality({c \in Circs : State(c) # "absent"}) < MaxCircuits

(***************************************************************************)
(* The entry handle_create inserts; partial says that the first cell does  *)
(* not hold the whole message.                                             *)
(***************************************************************************)
NewEntry(relay_mode, partial) ==
    [Absent EXCEPT !.state = "Creating", !.pending_create = partial,
                   !.token_verified = ~relay_mode]

CanCreate(c) ==
    /\ State(c) = "absent"
    /\ HasRoom
    /\ pending_count < MaxPending

CanCreateCont(c) == State(c) = "Creating" /\ circuits[c].pending_create

(***************************************************************************)
(* record_create_complete.                                                 *)
(***************************************************************************)
Opened(e) == [e EXCEPT !.state = "Open", !.pending_create = FALSE]

(***************************************************************************)
(* AuthorizedAlways, a mutant of Authorized: no token is asked for.        *)
(***************************************************************************)
AuthorizedAlways(relay_mode, c) == TRUE

Authorized(relay_mode, c) == relay_mode => circuits[c].token_verified

CanExtend(relay_mode, c) ==
    /\ State(c) = "Open"
    /\ Authorized(relay_mode, c)
    /\ circuits[c].out_circ_id = None
    /\ ~circuits[c].pending_extend
    /\ pending_count < MaxPending

CanExtendCont(c) == State(c) = "Open" /\ circuits[c].pending_extend

(***************************************************************************)
(* The ids allocate_out_circ_id may return: the picker is free, the map    *)
(* decides.                                                                *)
(***************************************************************************)
allocate_out_circ_id == {o \in Outs : out_to_in[o] = None}

dispatch_pending_extend(c, o) ==
    /\ circuits' = [circuits EXCEPT ![c].state = "Extending",
                                    ![c].out_circ_id = o,
                                    ![c].pending_extend = FALSE]
    /\ out_to_in' = [out_to_in EXCEPT ![o] = c]

(***************************************************************************)
(* record_extend_complete.                                                 *)
(***************************************************************************)
emit_extended(c) == circuits' = [circuits EXCEPT ![c].state = "Open"]

record_token_verified(c) ==
    circuits' = [circuits EXCEPT ![c].token_verified = TRUE]

(***************************************************************************)
(* The tombstone of handle_destroy_from_prev, handle_destroy_from_next and *)
(* reap_circuit: the entry stays, with its outgoing id, until a sweep;     *)
(* nothing reads its other fields any more.                                *)
(***************************************************************************)
Tombstone(c) ==
    circuits' = IF State(c) = "absent" THEN circuits
                ELSE [circuits EXCEPT ![c] = [Absent EXCEPT !.state = "Destroyed",
                                                            !.out_circ_id = circuits[c].out_circ_id]]

(***************************************************************************)
(* tick: expired is the set of live circuits that outlived a limit; they   *)
(* and every tombstone leave both maps.                                    *)
(***************************************************************************)
Victims(expired) == expired \cup {c \in Circs : State(c) = "Destroyed"}

(***************************************************************************)
(* SweepCircuitsOnly, a mutant of Sweep: the outgoing ids stay.            *)
(***************************************************************************)
SweepCircuitsOnly(victims) ==
    /\ circuits' = [c \in Circs |-> IF c \in victims THEN Absent ELSE circuits[c]]
    /\ UNCHANGED out_to_in

Sweep(victims) ==
    /\ circuits' = [c \in Circs |-> IF c \in victims THEN Absent ELSE circuits[c]]
    /\ out_to_in' = [o \in Outs |-> IF \E c \in victims : circuits[c].out_circ_id = o
                                    THEN None ELSE out_to_in[o]]
=============================================================================
