--------------------------- MODULE SessionProofs ----------------------------
(***************************************************************************)
(* Proofs about the three state machines a session goes through: the       *)
(* circuits of one session (CircuitSession), the rendezvous tables that    *)
(* the sessions of a bridge share (RendezvousRouter), and the key ratchet  *)
(* of a session's two framers (SessionRatchet).                            *)
(***************************************************************************)
EXTENDS CircuitSession, RendezvousRouter, SessionRatchet, TLAPS

-----------------------------------------------------------------------------
(***************************************************************************)
(* The circuits of a session, for any circuit ids, outgoing ids and caps.  *)
(***************************************************************************)


(***************************************************************************)
(* What the invariants need of a single entry: an outgoing id exists       *)
(* exactly from the dial on, an EXTEND is collected only before it, and    *)
(* on a relay session the mark of the gate is backed by a token.           *)
(***************************************************************************)
EntryOK(c) ==
    /\ State(c) \in {"absent", "Creating"} => circuits[c].out_circ_id = None
    /\ State(c) = "Extending" => circuits[c].out_circ_id # None /\ Authorized(relay_mode, c)
    /\ circuits[c].pending_extend => /\ State(c) = "Open"
                                     /\ circuits[c].out_circ_id = None
                                     /\ Authorized(relay_mode, c)
    /\ relay_mode /\ circuits[c].token_verified => c \in proved /\ State(c) # "Creating"

(***************************************************************************)
(* check_relay_token_coupling has been passed by every session that runs.  *)
(***************************************************************************)
Coupled ==
    /\ phase = "running" => (supports_token_verification <=> relay_mode)
    /\ at # "select" => phase = "running"

(***************************************************************************)
(* The loop acts for no circuit: it selects, or it writes to a peer.       *)
(***************************************************************************)
Unbound ==
    /\ at \in {"select"} \cup PeerWaits
    /\ cur = None
    /\ at = "forward" => target \in Outs
    /\ at # "select" => phase = "running"

IInv ==
    /\ TypeOK
    /\ Coupled
    /\ TokenGate
    /\ OutInverse
    /\ RespondersExact
    /\ NextLinkBacked
    /\ \A c \in Circs : EntryOK(c)

(***************************************************************************)
(* A fresh session satisfies the invariant.                                *)
(***************************************************************************)
LEMMA InitInv == Init => IInv
<1> SUFFICES ASSUME Init PROVE IInv
  BY Zenon
<1> USE CircuitAssumption, SessionAssumption
        DEF Init, TableInit, NoCircuits, NoOuts, NoReturns, Absent, None, State
<1>0. 0 \in 0 .. InCap
  BY DEF SessionAssumption
<1>1. TypeOK
  BY Zenon, <1>0 DEF TypeOK, TableTypeOK, CircuitEntry, CircuitEntryState
<1>2. Coupled
  BY Zenon DEF Coupled
<1>3. TokenGate /\ OutInverse /\ RespondersExact /\ NextLinkBacked
  BY Zenon DEF TokenGate, OutInverse, RespondersExact, NextLinkBacked
<1>4. \A c \in Circs : EntryOK(c)
  BY Zenon DEF EntryOK, Authorized
<1> QED BY Zenon, <1>1, <1>2, <1>3, <1>4 DEF IInv

(***************************************************************************)
(* A step that leaves alone what the invariant speaks of preserves it.     *)
(***************************************************************************)
LEMMA Untouched ==
    ASSUME IInv,
           UNCHANGED <<circuits, out_to_in, role, phase, links, responders, proved>>,
           UNCHANGED <<at, cur, target>>, inbound' \in 0 .. InCap,
           stream_to_circ' \in [Sids -> Circs \cup {None}]
    PROVE  IInv'
<1> USE DEF IInv
<1>1. TypeOK'
  BY Zenon DEF TypeOK, TableTypeOK
<1>2. Coupled' /\ TokenGate' /\ OutInverse' /\ RespondersExact'
  BY Zenon DEF Coupled, TokenGate, OutInverse, RespondersExact, State, relay_mode,
               supports_token_verification
<1>3. NextLinkBacked'
  BY Zenon DEF NextLinkBacked, State
<1>4. \A c \in Circs : EntryOK(c)'
  BY Zenon DEF EntryOK, State, relay_mode, Authorized
<1> QED BY Zenon, <1>1, <1>2, <1>3, <1>4

(* Nor does it mind when the loop ends a wait, or writes to a peer.        *)
LEMMA Unbinding ==
    ASSUME IInv, at # "dial", Unbound',
           UNCHANGED <<circuits, out_to_in, role, phase, links, responders, proved>>,
           inbound' \in 0 .. InCap, stream_to_circ' \in [Sids -> Circs \cup {None}]
    PROVE  IInv'
<1> USE CircuitAssumption DEF IInv
<1>0. /\ at' \in {"select", "dial", "connect", "send"} \cup PeerWaits /\ at' # "dial"
      /\ cur' \in Circs \cup {None} /\ cur' = None
      /\ (at' \in {"dial", "connect", "send"}) <=> (cur' # None)
      /\ at' = "forward" => target' \in Outs
      /\ at' # "select" => phase = "running"
  BY DEF Unbound, PeerWaits
<1>1. TypeOK'
  BY Zenon, <1>0 DEF TypeOK, TableTypeOK
<1>2. Coupled'
  BY Zenon, <1>0 DEF Coupled, relay_mode, supports_token_verification
<1>3. TokenGate'
  BY Zenon, <1>0 DEF TokenGate, relay_mode
<1>4. OutInverse' /\ RespondersExact'
  <2>1. OutInverse'
    BY Zenon DEF OutInverse
  <2>2. relay_mode' = relay_mode /\ \A d \in Circs : State(d)' = State(d)
    BY Zenon DEF relay_mode, State
  <2>3. RespondersExact'
    BY Zenon, <2>2 DEF RespondersExact
  <2> QED  BY Zenon, <2>1, <2>3
<1>5. NextLinkBacked'
  BY Zenon, <1>0 DEF NextLinkBacked, State
<1>6. \A c \in Circs : EntryOK(c)'
  BY Zenon DEF EntryOK, State, relay_mode, Authorized
<1> QED BY Zenon, <1>1, <1>2, <1>3, <1>4, <1>5, <1>6

(***************************************************************************)
(* Every way a circuit dies: its entry becomes a tombstone, its responder  *)
(* is gone, and no other circuit's link is touched.  The loop comes back   *)
(* to its select, or tells the next hop first.                             *)
(***************************************************************************)
LEMMA Death ==
    ASSUME IInv, NEW c \in Circs,
           Tombstone(c), UNCHANGED <<out_to_in, role, phase, proved>>,
           responders' = responders \ {c},
           links' \subseteq Outs,
           \A o \in links : o # circuits[c].out_circ_id => o \in links',
           at # "dial" \/ cur = c, Unbound', inbound' \in 0 .. InCap,
           stream_to_circ' \in [Sids -> Circs \cup {None}]
    PROVE  IInv'
<1> USE CircuitAssumption DEF IInv, Unbound, PeerWaits
<1>0. /\ circuits' \in [Circs -> CircuitEntry]
      /\ \A d \in Circs : d # c => circuits'[d] = circuits[d]
      /\ circuits'[c].out_circ_id = circuits[c].out_circ_id
      /\ State(c)' \in {"absent", "Destroyed"}
      /\ State(c)' = "absent" => circuits'[c] = circuits[c]
      /\ State(c)' # "absent" => /\ ~circuits'[c].pending_extend
                                 /\ ~circuits'[c].token_verified
  BY DEF TypeOK, TableTypeOK, Tombstone, State, Absent, CircuitEntry, CircuitEntryState, None
<1>1. TypeOK'
  BY Zenon, <1>0 DEF TypeOK, TableTypeOK
<1>2. Coupled'
  BY Zenon DEF Coupled, supports_token_verification, relay_mode
<1>3. TokenGate'
  BY Zenon, <1>0 DEF TokenGate, relay_mode, TypeOK
<1>4. OutInverse'
  BY <1>0 DEF OutInverse
<1>5. RespondersExact'
  BY Zenon, <1>0 DEF RespondersExact, relay_mode, State
<1>6. NextLinkBacked'
  <2> SUFFICES ASSUME NEW d \in Circs
               PROVE  /\ (State(d)' = "Open" /\ circuits'[d].out_circ_id # None)
                             => circuits'[d].out_circ_id \in links'
                      /\ (State(d)' = "Extending") <=> (at' = "dial" /\ cur' = d)
    BY Zenon DEF NextLinkBacked
  <2>1. CASE d = c
    BY Zenon, <2>1, <1>0
  <2>2. CASE d # c
    <3>1. State(d)' = State(d)
      BY Zenon, <2>2, <1>0 DEF State
    <3>2. State(d) # "Extending"
      BY Zenon, <2>2 DEF NextLinkBacked, TypeOK
    <3>3. ASSUME State(d) = "Open", circuits[d].out_circ_id # None
          PROVE  circuits[d].out_circ_id \in links'
      <4>1. circuits[d].out_circ_id \in Outs
        BY Zenon, <3>3 DEF TypeOK, TableTypeOK, CircuitEntry
      <4>2. circuits[d].out_circ_id # circuits[c].out_circ_id
        BY <4>1, <2>2 DEF OutInverse
      <4> QED BY Zenon, <4>1, <4>2, <3>3 DEF NextLinkBacked
    <3> QED BY Zenon, <3>1, <3>2, <3>3, <2>2, <1>0
  <2> QED BY Zenon, <2>1, <2>2
<1>7. \A d \in Circs : EntryOK(d)'
  BY <1>0 DEF EntryOK, State, relay_mode, Authorized
<1> QED BY Zenon, <1>1, <1>2, <1>3, <1>4, <1>5, <1>6, <1>7

(***************************************************************************)
(* What the code calls when a circuit dies has the shape of Death.         *)
(***************************************************************************)
LEMMA LinksCut ==
    ASSUME IInv, NEW c \in Circs, CutLinks({c} \cap {d \in Circs : Live(d)}),
           phase = "running", phase' = phase
    PROVE  /\ links' \subseteq Outs
           /\ \A o \in links : o # circuits[c].out_circ_id => o \in links'
           /\ Unbound'
BY Zenon DEF CutLinks, LinksOf, Resume, Await, Unbound, PeerWaits, IInv, TypeOK

(* A DESTROY of the previous hop, or an error of the table.                *)
LEMMA DestroyFromPrev ==
    ASSUME IInv, NEW c \in Circs, handle_destroy_from_prev(c), UNCHANGED <<role, phase>>,
           at # "dial" \/ cur = c, phase = "running", inbound' \in 0 .. InCap,
           stream_to_circ' \in [Sids -> Circs \cup {None}]
    PROVE  IInv'
<1>1. responders' = responders \ {c}
  BY Zenon DEF handle_destroy_from_prev, IInv, RespondersExact, Live, State, TypeOK
<1> QED BY Zenon, <1>1, LinksCut, Death DEF handle_destroy_from_prev

(* A DESTROY from the next hop keeps the invariant.                        *)
LEMMA DestroyFromNext ==
    ASSUME IInv, NEW c \in Circs, handle_destroy_from_next(c), UNCHANGED <<role, phase>>,
           at # "dial", Unbound', inbound' \in 0 .. InCap,
           stream_to_circ' \in [Sids -> Circs \cup {None}]
    PROVE  IInv'
<1>1. responders' = responders \ {c}
  BY Zenon DEF handle_destroy_from_next, IInv, RespondersExact, Live, State, TypeOK
<1>2. links' = links /\ links \subseteq Outs
  BY Zenon DEF handle_destroy_from_next, IInv, TypeOK
<1> QED BY Zenon, <1>1, <1>2, Death DEF handle_destroy_from_next

(* Forgetting the streams of circuits keeps the type of the return paths.  *)
LEMMA PurgeTyped ==
    ASSUME IInv, NEW cs, Purge(cs)
    PROVE  stream_to_circ' \in [Sids -> Circs \cup {None}]
BY Zenon DEF IInv, TypeOK, Purge

(* Reaping a circuit by its own id keeps the invariant.                    *)
LEMMA ReapCircuit ==
    ASSUME IInv, NEW c \in Circs, reap_circuit(c), UNCHANGED <<role, phase>>,
           at # "dial" \/ cur = c, phase = "running", inbound' \in 0 .. InCap
    PROVE  IInv'
<1>1. stream_to_circ' \in [Sids -> Circs \cup {None}]
  BY Zenon, PurgeTyped DEF reap_circuit
<1> QED BY Zenon, <1>1, LinksCut, Death DEF reap_circuit, Forget

(* So does reaping one by its outgoing id, known or not.                   *)
LEMMA ReapByOut ==
    ASSUME IInv, NEW o \in Outs, reap_circuit_by_out_id(o), UNCHANGED <<role, phase>>,
           at # "dial", Unbound', inbound' \in 0 .. InCap
    PROVE  IInv'
<1>1. CASE out_to_in[o] = None
  BY Zenon, <1>1, Unbinding DEF reap_circuit_by_out_id, tableVars, execVars, IInv, TypeOK
<1>2. CASE out_to_in[o] # None
  <2>1. out_to_in[o] \in Circs
    BY Zenon, <1>2 DEF IInv, TypeOK, TableTypeOK
  <2> QED BY Zenon, <1>2, <2>1, PurgeTyped, DestroyFromNext DEF reap_circuit_by_out_id
<1> QED BY Zenon, <1>1, <1>2

(* A cell for the next hop goes out, or its dead link reaps the circuit.   *)
LEMMA Sending ==
    ASSUME IInv, NEW o \in Outs, SendToNext(o), UNCHANGED <<role, phase, inbound>>, Selecting
    PROVE  IInv'
<1>1. inbound' \in 0 .. InCap /\ at = "select" /\ phase = "running"
  BY Zenon DEF IInv, TypeOK, Selecting
<1>2. Unbound'
  BY Zenon, <1>1 DEF SendToNext, Resume, Await, Unbound, PeerWaits
<1>3. CASE o \in links
  BY Zenon, <1>1, <1>2, <1>3, Unbinding DEF SendToNext, tableVars, execVars, IInv, TypeOK
<1>4. CASE o \notin links
  BY Zenon, <1>1, <1>2, <1>4, ReapByOut DEF SendToNext
<1> QED BY Zenon, <1>3, <1>4

-----------------------------------------------------------------------------
(***************************************************************************)
(* A new entry, open or creating, without an outgoing id: CREATE and its   *)
(* last fragment.                                                          *)
(***************************************************************************)
LEMMA Creation ==
    ASSUME IInv, Selecting, NEW c \in Circs, NEW e \in CircuitEntry,
           State(c) \in {"absent", "Creating"},
           circuits' = [circuits EXCEPT ![c] = e],
           e.out_circ_id = None, ~e.pending_extend,
           e.state \in {"Creating", "Open", "Destroyed"},
           relay_mode => ~e.token_verified,
           responders' = IF e.state = "Open" /\ supports_token_verification
                         THEN responders \cup {c} ELSE responders \ {c},
           UNCHANGED <<out_to_in, role, phase, links, inbound, proved>>, Unbound',
           stream_to_circ' \in [Sids -> Circs \cup {None}]
    PROVE  IInv'
<1> USE CircuitAssumption DEF IInv, Selecting, Unbound, PeerWaits
<1>0. /\ circuits' \in [Circs -> CircuitEntry]
      /\ circuits'[c] = e
      /\ \A d \in Circs : d # c => circuits'[d] = circuits[d]
      /\ circuits[c].out_circ_id = None
  BY Zenon DEF TypeOK, TableTypeOK, EntryOK
<1>1. TypeOK'
  BY Zenon, <1>0 DEF TypeOK, TableTypeOK
<1>2. Coupled'
  BY Zenon DEF Coupled, supports_token_verification, relay_mode
<1>3. TokenGate'
  BY Zenon, <1>0 DEF TokenGate, relay_mode, TypeOK
<1>4. OutInverse'
  BY <1>0 DEF OutInverse
<1>5. RespondersExact'
  <2> SUFFICES ASSUME NEW d \in Circs
               PROVE  (d \in responders') <=> (/\ relay_mode
                                               /\ circuits'[d].state = "Open"
                                               /\ ~circuits'[d].token_verified)
    BY Zenon DEF RespondersExact, State, relay_mode
  <2>1. CASE d = c
    BY Zenon, <2>1, <1>0 DEF Coupled
  <2>2. CASE d # c
    BY Zenon, <2>2, <1>0 DEF RespondersExact, State
  <2> QED BY Zenon, <2>1, <2>2
<1>6. NextLinkBacked'
  BY Zenon, <1>0 DEF NextLinkBacked, State, TypeOK
<1>7. \A d \in Circs : EntryOK(d)'
  BY Zenon, <1>0 DEF EntryOK, State, relay_mode, Authorized
<1> QED BY Zenon, <1>1, <1>2, <1>3, <1>4, <1>5, <1>6, <1>7

(* The handshake that opens a circuit, or drops it, keeps the invariant.   *)
LEMMA HandshakeStep ==
    ASSUME IInv, Selecting, NEW c \in Circs, NEW e \in CircuitEntry,
           State(c) \in {"absent", "Creating"}, PerformHandshake(c, e),
           e.out_circ_id = None, ~e.pending_extend, relay_mode => ~e.token_verified,
           UNCHANGED <<role, phase, inbound>>
    PROVE  IInv'
<1>0. c \notin responders
  BY Zenon DEF IInv, RespondersExact
<1>u. Unbound'
  BY Zenon DEF PerformHandshake, SendToPrev, Await, loopVars, Selecting, IInv, TypeOK, Unbound,
               PeerWaits
<1>1. CASE /\ circuits' = [circuits EXCEPT ![c] = Opened(e)]
           /\ responders' = IF supports_token_verification THEN responders \cup {c}
                            ELSE responders
           /\ SendToPrev
           /\ UNCHANGED stream_to_circ
  <2> DEFINE n == Opened(e)
  <2>1. /\ n \in CircuitEntry /\ n.state = "Open" /\ n.out_circ_id = e.out_circ_id
        /\ n.pending_extend = e.pending_extend /\ n.token_verified = e.token_verified
    BY Zenon DEF Opened, CircuitEntry, CircuitEntryState
  <2>2. responders' = IF n.state = "Open" /\ supports_token_verification
                      THEN responders \cup {c} ELSE responders \ {c}
    BY Zenon, <1>0, <1>1, <2>1
  <2>3. stream_to_circ' \in [Sids -> Circs \cup {None}]
    BY Zenon, <1>1 DEF IInv, TypeOK
  <2>4. circuits' = [circuits EXCEPT ![c] = n]
    BY Zenon, <1>1
  <2> HIDE DEF n
  <2> QED BY Zenon, <1>u, <2>1, <2>2, <2>3, <2>4, Creation DEF PerformHandshake
<1>2. CASE /\ circuits' = [circuits EXCEPT ![c] = [Absent EXCEPT !.state = "Destroyed"]]
           /\ Forget({c})
           /\ Purge({c})
           /\ UNCHANGED loopVars
  <2> DEFINE n == [Absent EXCEPT !.state = "Destroyed"]
  <2>1. /\ n \in CircuitEntry /\ n.state = "Destroyed" /\ n.out_circ_id = None
        /\ ~n.pending_extend /\ ~n.token_verified
    BY Zenon DEF Absent, CircuitEntry, CircuitEntryState
  <2>2. responders' = IF n.state = "Open" /\ supports_token_verification
                      THEN responders \cup {c} ELSE responders \ {c}
    BY Zenon, <1>2, <2>1 DEF Forget
  <2>3. stream_to_circ' \in [Sids -> Circs \cup {None}]
    BY Zenon, <1>2, PurgeTyped
  <2>4. circuits' = [circuits EXCEPT ![c] = n]
    BY Zenon, <1>2
  <2> HIDE DEF n
  <2> QED BY Zenon, <1>u, <2>1, <2>2, <2>3, <2>4, Creation DEF PerformHandshake
<1> QED BY Zenon, <1>1, <1>2 DEF PerformHandshake

(* A new entry is Creating, with no next hop and no dial.                  *)
LEMMA NewEntryShape ==
    ASSUME NEW m \in BOOLEAN, NEW p \in BOOLEAN
    PROVE  /\ NewEntry(m, p) \in CircuitEntry
           /\ NewEntry(m, p).state = "Creating"
           /\ NewEntry(m, p).out_circ_id = None
           /\ ~NewEntry(m, p).pending_extend
           /\ NewEntry(m, p).token_verified = ~m
BY Zenon DEF NewEntry, Absent, CircuitEntry, CircuitEntryState

(* CREATE: a new entry, with its handshake or waiting for the rest.        *)
LEMMA CreateStep ==
    ASSUME IInv, NEW c \in Circs, Create(c)
    PROVE  IInv'
<1>0. /\ Selecting /\ State(c) = "absent" /\ UNCHANGED <<role, phase, inbound>>
      /\ relay_mode \in BOOLEAN
  BY Zenon DEF Create, CanCreate, IInv, TypeOK, relay_mode
<1>1. CASE PerformHandshake(c, NewEntry(relay_mode, FALSE))
  BY Zenon, <1>0, <1>1, NewEntryShape, HandshakeStep
<1>2. CASE /\ circuits' = [circuits EXCEPT ![c] = NewEntry(relay_mode, TRUE)]
           /\ UNCHANGED <<out_to_in, execVars, stream_to_circ, loopVars>>
  <2>1. /\ responders' = responders \ {c}
        /\ stream_to_circ' \in [Sids -> Circs \cup {None}]
        /\ UNCHANGED <<out_to_in, links, proved>>
        /\ Unbound'
    BY Zenon, <1>0, <1>2 DEF IInv, RespondersExact, TypeOK, execVars, loopVars, Unbound, Selecting
  <2> QED BY Zenon, <1>0, <1>2, <2>1, NewEntryShape, Creation
<1> QED BY Zenon, <1>1, <1>2 DEF Create

(* CREATE_CONT: the rest of a fragmented CREATE.                           *)
LEMMA CreateContStep ==
    ASSUME IInv, NEW c \in Circs, CreateCont(c)
    PROVE  IInv'
<1>1. /\ circuits[c] \in CircuitEntry /\ State(c) = "Creating"
      /\ circuits[c].out_circ_id = None
      /\ relay_mode => ~circuits[c].token_verified
  BY Zenon DEF CreateCont, CanCreateCont, IInv, TypeOK, TableTypeOK, EntryOK
<1>2. ~circuits[c].pending_extend
  BY Zenon, <1>1 DEF IInv, EntryOK
<1> QED BY Zenon, <1>1, <1>2, HandshakeStep DEF CreateCont

-----------------------------------------------------------------------------
(***************************************************************************)
(* OpenNextHop: a circuit that may extend gets an id no other circuit has, *)
(* and the loop waits for it.                                              *)
(***************************************************************************)
LEMMA DialStarts ==
    ASSUME IInv, Selecting, NEW c \in Circs, StartDial(c),
           State(c) = "Open", circuits[c].out_circ_id = None,
           Authorized(relay_mode, c), relay_mode => c \in proved,
           UNCHANGED <<role, phase, links, inbound, responders, proved, stream_to_circ>>
    PROVE  IInv'
<1> USE CircuitAssumption DEF IInv, Selecting
<1>0. PICK o \in Outs : /\ out_to_in[o] = None
                        /\ dispatch_pending_extend(c, o)
  BY Zenon DEF StartDial, allocate_out_circ_id
<1>1. /\ circuits' \in [Circs -> CircuitEntry]
      /\ circuits'[c].state = "Extending" /\ circuits'[c].out_circ_id = o
      /\ ~circuits'[c].pending_extend
      /\ circuits'[c].token_verified = circuits[c].token_verified
      /\ \A d \in Circs : d # c => circuits'[d] = circuits[d]
  BY <1>0 DEF TypeOK, TableTypeOK, dispatch_pending_extend, CircuitEntry, CircuitEntryState
<1>2. /\ out_to_in' \in [Outs -> Circs \cup {None}]
      /\ out_to_in'[o] = c /\ \A p \in Outs : p # o => out_to_in'[p] = out_to_in[p]
  BY Zenon, <1>0 DEF TypeOK, TableTypeOK, dispatch_pending_extend
<1>3. at' = "dial" /\ cur' = c
  BY Zenon DEF StartDial, Await
<1>4. TypeOK'
  BY Zenon, <1>1, <1>2, <1>3 DEF TypeOK, TableTypeOK
<1>5. Coupled'
  BY Zenon, <1>3 DEF Coupled, supports_token_verification, relay_mode
<1>6. TokenGate'
  BY Zenon, <1>1, <1>3 DEF TokenGate, relay_mode
<1>7. OutInverse'
  BY <1>0, <1>1, <1>2 DEF OutInverse
<1>8. RespondersExact'
  BY Zenon, <1>1 DEF RespondersExact, State, relay_mode, Authorized
<1>9. NextLinkBacked'
  BY <1>1, <1>3 DEF NextLinkBacked, State, TypeOK
<1>10. \A d \in Circs : EntryOK(d)'
  BY <1>1 DEF EntryOK, State, relay_mode, Authorized
<1> QED BY Zenon, <1>4, <1>5, <1>6, <1>7, <1>8, <1>9, <1>10

(* EXTEND: the dial starts only with the token verified, or none needed.   *)
LEMMA ExtendStep ==
    ASSUME IInv, NEW c \in Circs, Extend(c)
    PROVE  IInv'
<1>0. /\ Selecting /\ State(c) = "Open" /\ circuits[c].out_circ_id = None
      /\ Authorized(relay_mode, c)
      /\ relay_mode => c \in proved
      /\ UNCHANGED <<role, phase, links, inbound, responders, proved, stream_to_circ>>
  BY Zenon DEF Extend, CanExtend, Authorized, IInv, EntryOK, execVars
<1>1. CASE StartDial(c)
  BY Zenon, <1>0, <1>1, DialStarts
<1>2. CASE /\ circuits' = [circuits EXCEPT ![c].pending_extend = TRUE]
           /\ UNCHANGED <<out_to_in, loopVars>>
  <2> USE CircuitAssumption DEF IInv, loopVars
  <2> DEFINE e == [circuits[c] EXCEPT !.pending_extend = TRUE]
  <2>a. circuits[c] \in CircuitEntry
    BY Zenon DEF TypeOK, TableTypeOK
  <2>b. /\ e \in CircuitEntry /\ e.state = circuits[c].state
        /\ e.out_circ_id = circuits[c].out_circ_id
        /\ e.token_verified = circuits[c].token_verified
    BY Zenon, <2>a DEF CircuitEntry
  <2>c. circuits' = [circuits EXCEPT ![c] = e]
    BY Zenon, <1>2
  <2> HIDE DEF e
  <2>0. circuits' \in [Circs -> CircuitEntry]
    BY Zenon, <2>b, <2>c DEF TypeOK, TableTypeOK
  <2>1. \A d \in Circs : /\ circuits'[d].state = circuits[d].state
                         /\ circuits'[d].out_circ_id = circuits[d].out_circ_id
                         /\ circuits'[d].token_verified = circuits[d].token_verified
                         /\ d # c => circuits'[d] = circuits[d]
    BY Zenon, <2>b, <2>c DEF TypeOK, TableTypeOK
  <2>2. TypeOK'
    BY Zenon, <1>0, <1>2, <2>0 DEF TypeOK, TableTypeOK
  <2>3. Coupled' /\ TokenGate' /\ OutInverse'
    BY <1>0, <1>2, <2>1 DEF Coupled, TokenGate, OutInverse, relay_mode,
                            supports_token_verification
  <2>4. RespondersExact' /\ NextLinkBacked'
    BY <1>0, <1>2, <2>1 DEF RespondersExact, NextLinkBacked, State, relay_mode
  <2>5. \A d \in Circs : EntryOK(d)'
    BY <1>0, <1>2, <2>1 DEF EntryOK, State, relay_mode, Authorized
  <2> QED BY Zenon, <2>2, <2>3, <2>4, <2>5
<1> QED BY Zenon, <1>1, <1>2 DEF Extend

(* EXTEND_CONT: the rest of a fragmented EXTEND.                           *)
LEMMA ExtendContStep ==
    ASSUME IInv, NEW c \in Circs, ExtendCont(c)
    PROVE  IInv'
<1>1. /\ Selecting /\ State(c) = "Open" /\ circuits[c].out_circ_id = None
      /\ UNCHANGED <<role, phase, links, inbound, responders, proved, stream_to_circ>>
  BY Zenon DEF ExtendCont, CanExtendCont, IInv, EntryOK, execVars
<1>2. relay_mode => c \in proved
  BY Zenon DEF ExtendCont, CanExtendCont, IInv, TokenGate
<1>3. Authorized(relay_mode, c)
  BY Zenon DEF ExtendCont, CanExtendCont, IInv, EntryOK
<1> QED BY Zenon, <1>1, <1>2, <1>3, DialStarts DEF ExtendCont

(***************************************************************************)
(* The dial answers: the link is stored before the circuit is open again.  *)
(***************************************************************************)
LEMMA DialOkStep ==
    ASSUME IInv, DialOk
    PROVE  IInv'
<1> USE CircuitAssumption DEF IInv, PeerWaits
<1> DEFINE o == circuits[cur].out_circ_id
<1>0. /\ cur \in Circs /\ State(cur) = "Extending" /\ o \in Outs
      /\ at = "dial" /\ at' = "reply" /\ cur' = None
      /\ UNCHANGED <<role, phase, inbound, out_to_in, responders, proved, stream_to_circ>>
  BY Zenon DEF DialOk, SendToPrev, Await, TypeOK, TableTypeOK, NextLinkBacked, EntryOK, CircuitEntry
<1>1. links' \subseteq Outs /\ o \in links' /\ links \subseteq links'
  BY Zenon, <1>0 DEF DialOk, TypeOK
<1>2. /\ circuits' \in [Circs -> CircuitEntry]
      /\ circuits'[cur].state = "Open" /\ circuits'[cur].out_circ_id = o
      /\ circuits'[cur].pending_extend = circuits[cur].pending_extend
      /\ circuits'[cur].token_verified = circuits[cur].token_verified
      /\ \A d \in Circs : d # cur => circuits'[d] = circuits[d]
  BY <1>0 DEF DialOk, emit_extended, TypeOK, TableTypeOK, CircuitEntry, CircuitEntryState
<1>3. relay_mode => circuits[cur].token_verified
  BY Zenon, <1>0 DEF EntryOK, Authorized
<1> HIDE DEF o
<1>4. TypeOK'
  BY Zenon, <1>0, <1>1, <1>2 DEF TypeOK, TableTypeOK
<1>5. Coupled' /\ TokenGate'
  BY Zenon, <1>0, <1>2 DEF Coupled, TokenGate, relay_mode, supports_token_verification
<1>6. OutInverse'
  BY <1>0, <1>2 DEF OutInverse, o
<1>7. RespondersExact'
  BY Zenon, <1>0, <1>2, <1>3 DEF RespondersExact, State, relay_mode
<1>8. NextLinkBacked'
  <2> SUFFICES ASSUME NEW d \in Circs
               PROVE  /\ (State(d)' = "Open" /\ circuits'[d].out_circ_id # None)
                             => circuits'[d].out_circ_id \in links'
                      /\ (State(d)' = "Extending") <=> (at' = "dial" /\ cur' = d)
    BY Zenon DEF NextLinkBacked
  <2>1. CASE d = cur
    BY Zenon, <2>1, <1>0, <1>1, <1>2 DEF State
  <2>2. CASE d # cur
    <3>1. circuits'[d] = circuits[d] /\ circuits[d].out_circ_id \in Outs \cup {None}
      BY Zenon, <2>2, <1>2 DEF TypeOK, TableTypeOK, CircuitEntry
    <3> QED BY Zenon, <2>2, <3>1, <1>0, <1>1 DEF State, NextLinkBacked
  <2> QED BY Zenon, <2>1, <2>2
<1>9. \A d \in Circs : EntryOK(d)'
  BY Zenon, <1>0, <1>2, <1>3 DEF EntryOK, State, relay_mode, Authorized
<1> QED BY Zenon, <1>4, <1>5, <1>6, <1>7, <1>8, <1>9

(***************************************************************************)
(* A valid EXTEND_FINISH: the mark, the token and the end of the responder *)
(* come together.                                                          *)
(***************************************************************************)
LEMMA VerifiedStep ==
    ASSUME IInv, Selecting, NEW c \in Circs, State(c) = "Open",
           circuits[c].out_circ_id = None,
           Forget({c}), record_token_verified(c), proved' = proved \cup {c},
           UNCHANGED <<role, phase, at, cur, target, inbound, out_to_in, links, stream_to_circ>>
    PROVE  IInv'
<1> USE CircuitAssumption DEF IInv, Selecting
<1> DEFINE e == [circuits[c] EXCEPT !.token_verified = TRUE]
<1>a. circuits[c] \in CircuitEntry
  BY Zenon DEF TypeOK, TableTypeOK
<1>b. /\ e \in CircuitEntry /\ e.state = circuits[c].state
      /\ e.out_circ_id = circuits[c].out_circ_id
      /\ e.pending_extend = circuits[c].pending_extend
      /\ e.token_verified = TRUE
  BY Zenon, <1>a DEF CircuitEntry
<1>c. circuits' = [circuits EXCEPT ![c] = e]
  BY Zenon DEF record_token_verified
<1> HIDE DEF e
<1>1. /\ circuits' \in [Circs -> CircuitEntry] /\ circuits'[c] = e
      /\ \A d \in Circs : d # c => circuits'[d] = circuits[d]
  BY Zenon, <1>b, <1>c DEF TypeOK, TableTypeOK
<1>2. \A d \in Circs : /\ circuits'[d].state = circuits[d].state
                       /\ circuits'[d].out_circ_id = circuits[d].out_circ_id
                       /\ circuits'[d].pending_extend = circuits[d].pending_extend
  BY Zenon, <1>b, <1>1
<1>3. TypeOK'
  BY Zenon, <1>1 DEF TypeOK, TableTypeOK, Forget
<1>4. Coupled' /\ TokenGate' /\ OutInverse'
  BY <1>2 DEF Coupled, TokenGate, OutInverse, relay_mode, supports_token_verification
<1>5. RespondersExact'
  BY Zenon, <1>b, <1>1 DEF RespondersExact, State, relay_mode, Forget
<1>6. NextLinkBacked'
  BY Zenon, <1>2 DEF NextLinkBacked, State
<1>7. \A d \in Circs : EntryOK(d)'
  BY <1>b, <1>1 DEF EntryOK, State, relay_mode, Authorized
<1> QED BY Zenon, <1>3, <1>4, <1>5, <1>6, <1>7

(***************************************************************************)
(* The sweep: what leaves the entries leaves both maps, and only links of  *)
(* circuits that go are cut.                                               *)
(***************************************************************************)
LEMMA TickStep ==
    ASSUME IInv, Tick
    PROVE  IInv'
<1> USE CircuitAssumption DEF IInv
<1>0. PICK expired \in SUBSET {c \in Circs : Live(c)} :
          /\ Sweep(Victims(expired))
          /\ CutLinks(expired)
          /\ Forget(expired)
          /\ proved' = proved \ Victims(expired)
  BY Zenon DEF Tick
<1> DEFINE V == Victims(expired)
<1>1. /\ at = "select" /\ cur = None /\ phase = "running"
      /\ UNCHANGED <<role, phase, inbound, stream_to_circ>>
      /\ at' \in {"select", "farewell"} /\ cur' = None
  BY Zenon, <1>0 DEF Tick, Selecting, CutLinks, Resume, Await, TypeOK
<1>2. /\ \A c \in Circs : circuits'[c] = IF c \in V THEN Absent ELSE circuits[c]
      /\ circuits' \in [Circs -> CircuitEntry]
  BY Zenon, <1>0 DEF Sweep, TypeOK, TableTypeOK, Absent, CircuitEntry, CircuitEntryState
<1>3. /\ \A p \in Outs : out_to_in'[p] = IF \E c \in V : circuits[c].out_circ_id = p
                                         THEN None ELSE out_to_in[p]
      /\ out_to_in' \in [Outs -> Circs \cup {None}]
  BY Zenon, <1>0 DEF Sweep, TypeOK, TableTypeOK
<1>4. V \subseteq Circs /\ expired \subseteq V
  BY Zenon DEF Victims
<1>5. \A c \in Circs : c \in responders => State(c) = "Open"
  BY Zenon DEF RespondersExact
<1>6. responders' = responders \ V
  BY Zenon, <1>0, <1>5 DEF Forget, Victims, TypeOK
<1>7. /\ links' \subseteq Outs
      /\ \A p \in links : (\A c \in V : circuits[c].out_circ_id # p) => p \in links'
  BY Zenon, <1>0, <1>4 DEF CutLinks, LinksOf, TypeOK
<1>8. /\ Absent.state = "absent" /\ Absent.out_circ_id = None
      /\ ~Absent.pending_extend /\ ~Absent.token_verified
  BY Zenon DEF Absent
<1> HIDE DEF V
<1>9. TypeOK'
  BY Zenon, <1>0, <1>1, <1>2, <1>3, <1>6, <1>7 DEF TypeOK, TableTypeOK, PeerWaits
<1>10. Coupled' /\ TokenGate'
  BY Zenon, <1>0, <1>1, <1>2, <1>4, <1>8 DEF Coupled, TokenGate, relay_mode, supports_token_verification, V
<1>11. OutInverse'
  BY <1>2, <1>3, <1>4, <1>8 DEF OutInverse
<1>12. RespondersExact'
  BY Zenon, <1>1, <1>2, <1>6, <1>8 DEF RespondersExact, State, relay_mode
<1>13. NextLinkBacked'
  <2> SUFFICES ASSUME NEW d \in Circs
               PROVE  /\ (State(d)' = "Open" /\ circuits'[d].out_circ_id # None)
                             => circuits'[d].out_circ_id \in links'
                      /\ (State(d)' = "Extending") <=> (at' = "dial" /\ cur' = d)
    BY Zenon DEF NextLinkBacked
  <2>1. CASE d \in V
    BY Zenon, <2>1, <1>1, <1>2, <1>8 DEF State
  <2>2. CASE d \notin V
    <3>1. circuits'[d] = circuits[d] /\ circuits[d].out_circ_id \in Outs \cup {None}
      BY Zenon, <2>2, <1>2 DEF TypeOK, TableTypeOK, CircuitEntry
    <3>2. circuits[d].out_circ_id # None
              => \A c \in V : circuits[c].out_circ_id # circuits[d].out_circ_id
      BY <2>2, <3>1, <1>4 DEF OutInverse
    <3> QED BY Zenon, <3>1, <3>2, <1>1, <1>7 DEF State, NextLinkBacked
  <2> QED BY Zenon, <2>1, <2>2
<1>14. \A d \in Circs : EntryOK(d)'
  BY Zenon, <1>0, <1>1, <1>2, <1>8 DEF EntryOK, State, relay_mode, Authorized, V
<1> QED BY Zenon, <1>9, <1>10, <1>11, <1>12, <1>13, <1>14

-----------------------------------------------------------------------------
(***************************************************************************)
(* The loop waits for the exit.                                            *)
(***************************************************************************)
LEMMA LoopMoves ==
    ASSUME IInv, at # "dial", at' \in {"connect", "send"},
           NEW c \in Circs, cur' = c, relay_mode => c \in proved, phase = "running",
           UNCHANGED <<circuits, out_to_in, role, phase, links, responders, proved>>,
           inbound' \in 0 .. InCap, stream_to_circ' \in [Sids -> Circs \cup {None}]
    PROVE  IInv'
<1> USE CircuitAssumption DEF IInv
<1>0. /\ at' \in {"select", "dial", "connect", "send"} \cup PeerWaits /\ at' # "dial"
      /\ cur' \in Circs \cup {None}
      /\ (at' \in {"dial", "connect", "send"}) <=> (cur' # None)
      /\ at' = "forward" => target' \in Outs
  BY DEF PeerWaits
<1>1. TypeOK'
  BY Zenon, <1>0 DEF TypeOK, TableTypeOK
<1>2. Coupled'
  BY Zenon, <1>0 DEF Coupled, relay_mode, supports_token_verification
<1>3. TokenGate'
  BY Zenon, <1>0 DEF TokenGate, relay_mode
<1>4. OutInverse' /\ RespondersExact'
  <2>1. OutInverse'
    BY Zenon DEF OutInverse
  <2>2. relay_mode' = relay_mode /\ \A d \in Circs : State(d)' = State(d)
    BY Zenon DEF relay_mode, State
  <2>3. RespondersExact'
    BY Zenon, <2>2 DEF RespondersExact
  <2> QED  BY Zenon, <2>1, <2>3
<1>5. NextLinkBacked'
  BY Zenon, <1>0 DEF NextLinkBacked, State
<1>6. \A d \in Circs : EntryOK(d)'
  BY Zenon DEF EntryOK, State, relay_mode, Authorized
<1> QED BY Zenon, <1>1, <1>2, <1>3, <1>4, <1>5, <1>6

(***************************************************************************)
(* The cells a circuit sends to the exit.                                  *)
(***************************************************************************)
LEMMA ExitCells ==
    ASSUME IInv, NEW c \in Circs, NEW s \in Sids, Begin(c, s) \/ Data(c, s) \/ End(c, s)
    PROVE  IInv'
<1> USE CircuitAssumption
<1>0. /\ at = "select" /\ cur = None /\ phase = "running"
      /\ relay_mode => c \in proved
      /\ stream_to_circ \in [Sids -> Circs \cup {None}]
      /\ inbound' \in 0 .. InCap
  BY Zenon DEF Begin, Data, End, AtExit, CanRelay, Selecting, Authorized, IInv, EntryOK, TypeOK
<1>1. CASE Begin(c, s)
  <2>1. CASE CanBegin(s)
    <3>1. /\ at' = "connect" /\ cur' = c
          /\ UNCHANGED <<circuits, out_to_in, role, phase, links, responders, proved>>
          /\ stream_to_circ' = [stream_to_circ EXCEPT ![s] = c]
      BY Zenon, <1>1, <2>1 DEF Begin, Await, tableVars, execVars
    <3>2. stream_to_circ' \in [Sids -> Circs \cup {None}]
      BY Zenon, <1>0, <3>1
    <3> QED BY Zenon, <1>0, <3>1, <3>2, LoopMoves
  <2>2. CASE ~CanBegin(s)
    <3>1. /\ handle_destroy_from_prev(c) /\ UNCHANGED <<role, phase>>
          /\ stream_to_circ' = [t \in Sids |-> IF t = s \/ stream_to_circ[t] = c THEN None
                                               ELSE stream_to_circ[t]]
      BY Zenon, <1>1, <2>2 DEF Begin
    <3>2. stream_to_circ' \in [Sids -> Circs \cup {None}]
      BY Zenon, <1>0, <3>1
    <3> QED BY Zenon, <1>0, <3>1, <3>2, DestroyFromPrev
  <2> QED BY Zenon, <2>1, <2>2
<1>2. CASE Data(c, s)
  <2>1. CASE streams[s] = NoSlot
    BY Zenon, <1>0, <1>2, <2>1, ReapCircuit DEF Data
  <2>2. CASE streams[s] # NoSlot
    <3>1. /\ at' = "send" /\ cur' = c
          /\ UNCHANGED <<circuits, out_to_in, role, phase, links, responders, proved>>
          /\ UNCHANGED stream_to_circ
      BY Zenon, <1>2, <2>2 DEF Data, Await, tableVars, execVars
    <3> QED BY Zenon, <1>0, <3>1, LoopMoves
  <2> QED BY Zenon, <2>1, <2>2
<1>3. CASE End(c, s)
  <2>1. /\ UNCHANGED <<circuits, out_to_in, role, phase, links, responders, proved>>
        /\ UNCHANGED <<at, cur, target>>
        /\ stream_to_circ' \in [Sids -> Circs \cup {None}]
    BY Zenon, <1>0, <1>3 DEF End, tableVars, execVars, loopVars
  <2> QED BY Zenon, <1>0, <2>1, Untouched
<1> QED BY Zenon, <1>1, <1>2, <1>3

(* Every cell of the previous hop keeps the invariant.                     *)
LEMMA PrevHopStep ==
    ASSUME IInv, NEW c \in Circs, PrevHop(c)
    PROVE  IInv'
<1>0. /\ Selecting => at # "dial" /\ phase = "running"
      /\ UNCHANGED inbound => inbound' \in 0 .. InCap
  BY Zenon DEF Selecting, IInv, TypeOK
<1>1. CASE CellError(c) \/ Destroy(c)
  BY Zenon, <1>0, <1>1, DestroyFromPrev DEF CellError, Destroy, IInv, TypeOK
<1>2. CASE Create(c)
  BY Zenon, <1>2, CreateStep
<1>3. CASE CreateCont(c)
  BY Zenon, <1>3, CreateContStep
<1>4. CASE Extend(c)
  BY Zenon, <1>4, ExtendStep
<1>5. CASE ExtendCont(c)
  BY Zenon, <1>5, ExtendContStep
<1>6. CASE ForwardExtendFinish(c) \/ Relay(c)
  <2>1. circuits[c].out_circ_id \in Outs
    BY Zenon, <1>6 DEF ForwardExtendFinish, Relay, IInv, TypeOK, TableTypeOK, CircuitEntry
  <2> QED BY Zenon, <1>0, <1>6, <2>1, Sending DEF ForwardExtendFinish, Relay, CanRelay
<1>7. CASE VerifyExtendFinish(c)
  <2>1. CASE reap_circuit(c)
    BY Zenon, <1>0, <1>7, <2>1, ReapCircuit DEF VerifyExtendFinish
  <2>2. CASE ~reap_circuit(c)
    BY Zenon, <1>7, <2>2, VerifiedStep DEF VerifyExtendFinish, loopVars
  <2> QED BY Zenon, <2>1, <2>2
<1>8. CASE BadPayload(c)
  BY Zenon, <1>0, <1>8, ReapCircuit DEF BadPayload, AtExit, CanRelay
<1>9. CASE \E s \in Sids : Begin(c, s) \/ Data(c, s) \/ End(c, s)
  BY Zenon, <1>9, ExitCells
<1> QED BY Zenon, <1>1, <1>2, <1>3, <1>4, <1>5, <1>6, <1>7, <1>8, <1>9 DEF PrevHop

(* So does the loop when what it awaited comes back.                       *)
LEMMA LoopGoesOnStep ==
    ASSUME IInv, LoopGoesOn
    PROVE  IInv'
<1>0. /\ at \in {"dial", "connect", "send"} => cur \in Circs /\ phase = "running"
      /\ UNCHANGED inbound => inbound' \in 0 .. InCap
  BY Zenon DEF IInv, TypeOK, Coupled
<1>1. CASE DialOk
  BY Zenon, <1>1, DialOkStep
<1>2. CASE DialFails \/ BeginFails \/ DataFails
  BY Zenon, <1>0, <1>2, ReapCircuit DEF DialFails, BeginFails, DataFails
<1>3. CASE BeginOk \/ DataSent
  <2>1. /\ at # "dial" /\ Unbound' /\ UNCHANGED inbound
        /\ UNCHANGED <<circuits, out_to_in, role, phase, links, responders, proved>>
        /\ stream_to_circ' \in [Sids -> Circs \cup {None}]
    BY Zenon, <1>3 DEF BeginOk, DataSent, Resume, Await, tableVars, execVars, Unbound, IInv, TypeOK
  <2> QED BY Zenon, <1>0, <2>1, Unbinding
<1> QED BY Zenon, <1>1, <1>2, <1>3 DEF LoopGoesOn

(* So does every cell of a next hop, whatever its command.                 *)
LEMMA NextHopStep ==
    ASSUME IInv, NEW o \in Outs, NEW command, NextHopCell(o, command)
    PROVE  IInv'
<1>0. /\ at = "select" /\ phase = "running" /\ UNCHANGED <<role, phase>>
      /\ stream_to_circ \in [Sids -> Circs \cup {None}]
      /\ out_to_in[o] \in Circs \cup {None}
      /\ cur = None
  BY Zenon DEF NextHopCell, Selecting, IInv, TypeOK, TableTypeOK
<1>a. inbound' \in 0 .. InCap
  BY SessionAssumption DEF NextHopCell, IInv, TypeOK
<1>b. Unbound'
  BY Zenon, <1>0 DEF NextHopCell, SendToPrev, Await, loopVars, Unbound, PeerWaits
<1>1. CASE UNCHANGED <<tableVars, execVars, stream_to_circ>>
  BY Zenon, <1>0, <1>a, <1>b, <1>1, Unbinding DEF tableVars, execVars
<1>2. CASE out_to_in[o] # None /\ handle_destroy_from_next(out_to_in[o])
           /\ UNCHANGED stream_to_circ
  BY Zenon, <1>0, <1>a, <1>b, <1>2, DestroyFromNext
<1>3. CASE reap_circuit_by_out_id(o)
  BY Zenon, <1>0, <1>a, <1>b, <1>3, ReapByOut
<1>4. ~(out_to_in[o] # None /\ State(out_to_in[o]) = "Extending")
  BY Zenon, <1>0 DEF IInv, NextLinkBacked
<1> QED BY Zenon, <1>1, <1>2, <1>3, <1>4 DEF NextHopCell

(***************************************************************************)
(* Every step of the session preserves the invariant.                      *)
(***************************************************************************)
LEMMA NextInv == IInv /\ [Next]_vars => IInv'
<1> SUFFICES ASSUME IInv, [Next]_vars PROVE IInv'
  BY Zenon
<1>0. stream_to_circ \in [Sids -> Circs \cup {None}] /\ inbound \in 0 .. InCap
  BY Zenon DEF IInv, TypeOK
<1>1. CASE Start
  <2>1. /\ UNCHANGED <<circuits, out_to_in, role, links, responders, proved, at, cur, target,
                       inbound, stream_to_circ>>
        /\ at = "select"
        /\ phase' \in {"running", "refused"}
        /\ phase' = "running" => (supports_token_verification <=> relay_mode)
    BY Zenon, <1>1 DEF Start, tableVars, execVars, loopVars, IInv, Coupled
  <2> QED BY <2>1 DEF IInv, TypeOK, TableTypeOK, Coupled, TokenGate, OutInverse, RespondersExact,
       NextLinkBacked, EntryOK, State, relay_mode, supports_token_verification, Authorized
<1>2. CASE \E c \in Circs : PrevHop(c)
  BY Zenon, <1>2, PrevHopStep
<1>3. CASE LoopGoesOn
  BY Zenon, <1>3, LoopGoesOnStep
<1>4. CASE LinkDelivers
  <2>1. inbound' \in 0 .. InCap
    BY <1>0, <1>4, SessionAssumption DEF LinkDelivers
  <2> QED BY Zenon, <1>0, <1>4, <2>1, Untouched DEF LinkDelivers, tableVars, execVars, loopVars
<1>5. CASE PeerReads \/ ForwardFails
  <2>1. /\ at # "dial" /\ Unbound' /\ inbound' \in 0 .. InCap /\ UNCHANGED <<role, phase>>
    BY Zenon, <1>0, <1>5 DEF PeerReads, ForwardFails, PeerWaits, Resume, Await, Unbound
  <2>2. CASE PeerReads
    BY Zenon, <1>0, <2>1, <2>2, Unbinding DEF PeerReads, tableVars, execVars
  <2>3. CASE ForwardFails
    <3>1. target \in Outs
      BY Zenon, <2>3 DEF ForwardFails, IInv, TypeOK
    <3> QED BY Zenon, <2>1, <2>3, <3>1, ReapByOut DEF ForwardFails
  <2> QED BY Zenon, <1>5, <2>2, <2>3
<1>6. CASE \E o \in Outs, command \in {"relay", "created", "destroy"} : NextHopCell(o, command)
  BY Zenon, <1>6, NextHopStep
<1>7. CASE ExitEvent
  <2>1. at # "dial" /\ Unbound' /\ inbound' = inbound
    BY Zenon, <1>7 DEF ExitEvent, Selecting, SendToPrev, Await, loopVars, IInv, TypeOK, Unbound,
                       PeerWaits
  <2> QED BY Zenon, <1>0, <1>7, <2>1, Unbinding DEF ExitEvent, tableVars, execVars
<1>8. CASE Tick
  BY Zenon, <1>8, TickStep
<1>9. CASE SessionEnds
  <2>1. /\ circuits' = NoCircuits /\ out_to_in' = NoOuts /\ links' = {} /\ inbound' = 0
        /\ responders' = {} /\ proved' = {} /\ stream_to_circ' = NoReturns
        /\ at' = "select" /\ cur' = None /\ phase' = "ended" /\ role' = role
    BY Zenon, <1>9 DEF SessionEnds, Resume, Await
  <2>a. 0 \in 0 .. InCap
    BY SessionAssumption
  <2>2. TypeOK'
    BY Zenon, <2>1, <2>a DEF IInv, TypeOK, TableTypeOK, NoCircuits, NoOuts, NoReturns, Absent,
                CircuitEntry, CircuitEntryState
  <2>3. Coupled' /\ TokenGate' /\ OutInverse' /\ RespondersExact' /\ NextLinkBacked'
    BY Zenon, <2>1, CircuitAssumption DEF Coupled, TokenGate, OutInverse, RespondersExact, NextLinkBacked,
                State, NoCircuits, NoOuts, Absent
  <2>4. \A c \in Circs : EntryOK(c)'
    BY Zenon, <2>1 DEF EntryOK, State, NoCircuits, Absent
  <2> QED BY Zenon, <2>2, <2>3, <2>4 DEF IInv
<1>10. CASE \E g \in Slots : WriterTask(g) \/ ReaderTask(g)
  BY Zenon, <1>0, <1>10, Untouched DEF WriterTask, ReaderTask, tableVars, execVars, loopVars
<1>11. CASE UNCHANGED vars
  BY Zenon, <1>0, <1>11, Untouched DEF vars
<1> QED BY Zenon, <1>1, <1>2, <1>3, <1>4, <1>5, <1>6, <1>7, <1>8, <1>9, <1>10, <1>11 DEF Next

(***************************************************************************)
(* The inductive invariant holds in every state of a session.              *)
(***************************************************************************)
LEMMA SessionInv == Spec => []IInv
BY InitInv, NextInv, PTL DEF Spec

(***************************************************************************)
(* For any number of circuits and any order of cells, a circuit of a relay *)
(* session extends or reaches the exit only after its token was verified.  *)
(***************************************************************************)
THEOREM TokenGateHolds == Spec => []TokenGate
<1>1. IInv => TokenGate
  BY Zenon DEF IInv
<1> QED BY <1>1, SessionInv, PTL

(***************************************************************************)
(* For any ids, out_to_in stays the inverse of the entries' outgoing ids.  *)
(***************************************************************************)
THEOREM OutInverseHolds == Spec => []OutInverse
<1>1. IInv => OutInverse
  BY Zenon DEF IInv
<1> QED BY <1>1, SessionInv, PTL

(***************************************************************************)
(* Responders are held for exactly the circuits that still owe a token, so *)
(* the executor's map is never larger than the circuit table.              *)
(***************************************************************************)
THEOREM RespondersExactHolds == Spec => []RespondersExact
<1>1. IInv => RespondersExact
  BY Zenon DEF IInv
<1> QED BY <1>1, SessionInv, PTL

(***************************************************************************)
(* An open circuit's next hop always has its link in the executor, and     *)
(* only the circuit the loop dials for is half extended.                   *)
(***************************************************************************)
THEOREM NextLinkBackedHolds == Spec => []NextLinkBacked
<1>1. IInv => NextLinkBacked
  BY Zenon DEF IInv
<1> QED BY <1>1, SessionInv, PTL

-----------------------------------------------------------------------------
(***************************************************************************)
(* The rendezvous tables and the router that shares them.                  *)
(*                                                                         *)
(* The three facts RvTypeOK, PartnersAgree and RolesBacked are inductive   *)
(* together and not apart: a join keeps the pairing symmetric only because *)
(* the waiting client holds a cookie and so no partner (RolesBacked), and  *)
(* a sweep never strips half a pair of its role only because what it       *)
(* sweeps holds a registration.  Every router step is a step of the tables *)
(* or leaves them alone, so what holds of the tables holds of the router.  *)
(***************************************************************************)


RvInv == RvTypeOK /\ PartnersAgree /\ RolesBacked

(* Roles of different kinds, or naming different things, are different.    *)
LEMMA RolesDiffer ==
    /\ NoRole # Joined
    /\ \A k : Intro(k) # NoRole /\ Intro(k) # Joined
    /\ \A c : Cookie(c) # NoRole /\ Cookie(c) # Joined
    /\ \A k, c : Intro(k) # Cookie(c)
    /\ \A k, l : Intro(k) = Intro(l) => k = l
    /\ \A c, d : Cookie(c) = Cookie(d) => c = d
    /\ NoRole \in Role /\ Joined \in Role
    /\ \A k \in Keys : Intro(k) \in Role
    /\ \A c \in Cookies : Cookie(c) \in Role
BY Zenon DEF NoRole, Joined, Intro, Cookie, Role

(* The empty tables satisfy the invariant.                                 *)
LEMMA RvInitInv == RvInit => RvInv
BY RolesDiffer, RendezvousAssumption DEF RvInit, RvInv, RvTypeOK, PartnersAgree, RolesBacked

(* A registration, fresh or taken over, keeps the invariant.               *)
LEMMA EstablishIntroInv ==
    ASSUME RvInv, NEW x \in Circuits, NEW k \in Keys, establish_intro(x, k)
    PROVE  RvInv'
<1> USE DEF RvInv, establish_intro
<1>1. RvTypeOK'
  BY Zenon, RolesDiffer, RendezvousAssumption DEF RvTypeOK
<1>2. PartnersAgree'
  BY Zenon, RolesDiffer, RendezvousAssumption DEF RvTypeOK, PartnersAgree
<1>3. RolesBacked'
  BY RolesDiffer, RendezvousAssumption DEF RvTypeOK, RolesBacked
<1> QED BY Zenon, <1>1, <1>2, <1>3

(* Parking a cookie keeps the invariant.                                   *)
LEMMA EstablishRendezvousInv ==
    ASSUME RvInv, NEW x \in Circuits, NEW c \in Cookies, establish_rendezvous(x, c)
    PROVE  RvInv'
<1> USE DEF RvInv, establish_rendezvous
<1>1. RvTypeOK'
  BY Zenon, RolesDiffer, RendezvousAssumption DEF RvTypeOK
<1>2. PartnersAgree'
  BY Zenon, RolesDiffer, RendezvousAssumption DEF RvTypeOK, PartnersAgree
<1>3. RolesBacked'
  BY RolesDiffer, RendezvousAssumption DEF RvTypeOK, RolesBacked
<1> QED BY Zenon, <1>1, <1>2, <1>3

(* The waiting client is a circuit, holds the cookie, and is not the one   *)
(* that presents it.                                                       *)
LEMMA WaitingClient ==
    ASSUME RvInv, NEW x \in Circuits, NEW c \in Cookies, rendezvous(x, c)
    PROVE  /\ cookies[c] \in Circuits
           /\ roles[cookies[c]] = Cookie(c)
           /\ cookies[c] # x
           /\ joined[x] = NoCircuit /\ joined[cookies[c]] = NoCircuit
BY RolesDiffer DEF RvInv, RvTypeOK, PartnersAgree, RolesBacked, rendezvous

(* A join keeps the invariant: both halves were without a partner.         *)
LEMMA RendezvousInv ==
    ASSUME RvInv, NEW x \in Circuits, NEW c \in Cookies, rendezvous(x, c)
    PROVE  RvInv'
<1>0. PICK y \in Circuits : /\ y = cookies[c] /\ roles[y] = Cookie(c) /\ y # x
                            /\ joined[x] = NoCircuit /\ joined[y] = NoCircuit
  BY Zenon, WaitingClient
<1>1. /\ cookies' = [cookies EXCEPT ![c] = NoCircuit]
      /\ roles' = [roles EXCEPT ![y] = Joined, ![x] = Joined]
      /\ joined' = [joined EXCEPT ![y] = x, ![x] = y]
      /\ c \notin cookieOld /\ roles[x] = NoRole
      /\ UNCHANGED <<intros, introOld, cookieOld>>
  BY Zenon, <1>0 DEF rendezvous
<1>2. RvTypeOK'
  BY Zenon, <1>0, <1>1, RolesDiffer, RendezvousAssumption DEF RvInv, RvTypeOK
<1>3. PartnersAgree'
  <2> SUFFICES ASSUME NEW z \in Circuits
               PROVE  /\ roles'[z] = Joined <=> joined'[z] # NoCircuit
                      /\ joined'[z] # NoCircuit => joined'[z] # z /\ joined'[joined'[z]] = z
    BY Zenon DEF PartnersAgree
  <2>1. CASE z \in {x, y}
    BY Zenon, <1>0, <1>1, <2>1, RendezvousAssumption DEF RvInv, RvTypeOK
  <2>2. CASE z \notin {x, y}
    <3>1. roles'[z] = roles[z] /\ joined'[z] = joined[z]
      BY Zenon, <1>0, <1>1, <2>2 DEF RvInv, RvTypeOK
    <3>2. joined[z] # NoCircuit => joined[z] \in Circuits /\ joined[z] \notin {x, y}
      BY <1>0, <2>2, RendezvousAssumption DEF RvInv, RvTypeOK, PartnersAgree
    <3> QED BY Zenon, <1>0, <1>1, <3>1, <3>2 DEF RvInv, RvTypeOK, PartnersAgree
  <2> QED BY Zenon, <2>1, <2>2
<1>4. RolesBacked'
  BY <1>0, <1>1, RolesDiffer, RendezvousAssumption DEF RvInv, RvTypeOK, RolesBacked
<1> QED BY Zenon, <1>2, <1>3, <1>4 DEF RvInv

(* What a sweep takes a role from held a registration or a cookie.         *)
LEMMA ExpiredRoles ==
    ASSUME RvInv, NEW x \in Circuits
    PROVE  x \in Expired <=> \/ \E k \in introOld : intros[k] = x /\ roles[x] = Intro(k)
                             \/ \E c \in cookieOld : cookies[c] = x /\ roles[x] = Cookie(c)
BY DEF RvInv, RvTypeOK, RolesBacked, Expired

(* The sweep keeps the invariant: what it sweeps is in no pair.            *)
LEMMA TickInv ==
    ASSUME RvInv, tick
    PROVE  RvInv'
<1>1. RvTypeOK'
  BY Zenon, RolesDiffer, RendezvousAssumption DEF RvInv, RvTypeOK, tick
<1>2. PartnersAgree'
  BY RolesDiffer, ExpiredRoles, RendezvousAssumption DEF RvInv, RvTypeOK, PartnersAgree, tick
<1>3. RolesBacked'
  <2>1. ASSUME NEW c \in Cookies, NEW x \in Circuits
        PROVE  cookies'[c] = x <=> roles'[x] = Cookie(c)
    BY RolesDiffer, ExpiredRoles, RendezvousAssumption DEF RvInv, RvTypeOK, RolesBacked, tick
  <2>2. ASSUME NEW k \in Keys, NEW x \in Circuits
        PROVE  intros'[k] = x => roles'[x] = Intro(k)
    BY RolesDiffer, ExpiredRoles, RendezvousAssumption DEF RvInv, RvTypeOK, RolesBacked, tick
  <2> QED BY Zenon, <2>1, <2>2 DEF RolesBacked
<1> QED BY Zenon, <1>1, <1>2, <1>3 DEF RvInv

(* Forgetting tears down whole pairs: a circuit is torn exactly when its   *)
(* partner is.                                                             *)
LEMMA TornPairs ==
    ASSUME RvInv, NEW F \in SUBSET Circuits, NEW x \in Circuits
    PROVE  /\ x \in Torn(F) => roles[x] = Joined
           /\ joined[x] # NoCircuit => (joined[x] \in Torn(F) <=> x \in Torn(F))
           /\ x \in F /\ roles[x] = Joined => x \in Torn(F)
<1> USE DEF RvInv, RvTypeOK, PartnersAgree, Torn, Halves
<1>1. x \in Torn(F) => roles[x] = Joined
  BY RendezvousAssumption
<1>2. joined[x] # NoCircuit => (joined[x] \in Torn(F) <=> x \in Torn(F))
  BY RendezvousAssumption
<1>3. x \in F /\ roles[x] = Joined => x \in Torn(F)
  BY Zenon
<1> QED BY Zenon, <1>1, <1>2, <1>3

(* Forgetting circuits keeps the invariant: pairs go as a whole.           *)
LEMMA ForgetInv ==
    ASSUME RvInv, NEW F \in SUBSET Circuits, forget(F)
    PROVE  RvInv'
<1>1. RvTypeOK'
  BY Zenon, RolesDiffer, RendezvousAssumption DEF RvInv, RvTypeOK, forget
<1>2. PartnersAgree'
  <2> SUFFICES ASSUME NEW z \in Circuits
               PROVE  /\ roles'[z] = Joined <=> joined'[z] # NoCircuit
                      /\ joined'[z] # NoCircuit => joined'[z] # z /\ joined'[joined'[z]] = z
    BY Zenon DEF PartnersAgree
  <2> QED BY Zenon, TornPairs, RolesDiffer, RendezvousAssumption
          DEF RvInv, RvTypeOK, PartnersAgree, forget
<1>3. RolesBacked'
  <2>1. ASSUME NEW c \in Cookies, NEW x \in Circuits
        PROVE  cookies'[c] = x <=> roles'[x] = Cookie(c)
    BY TornPairs, RolesDiffer, RendezvousAssumption
    DEF RvInv, RvTypeOK, RolesBacked, forget, Gives
  <2>2. ASSUME NEW k \in Keys, NEW x \in Circuits
        PROVE  intros'[k] = x => roles'[x] = Intro(k)
    BY TornPairs, RolesDiffer, RendezvousAssumption
    DEF RvInv, RvTypeOK, RolesBacked, forget, Gives
  <2> QED BY Zenon, <2>1, <2>2 DEF RolesBacked
<1> QED BY Zenon, <1>1, <1>2, <1>3 DEF RvInv

(* An entry that gets old keeps the invariant.                             *)
LEMMA AgeInv ==
    ASSUME RvInv, Age
    PROVE  RvInv'
BY DEF RvInv, RvTypeOK, PartnersAgree, RolesBacked, Age, Present

(* Every step of the tables preserves the invariant.                       *)
LEMMA RvStepInv == RvInv /\ [RvNext]_rvVars => RvInv'
<1> SUFFICES ASSUME RvInv, [RvNext]_rvVars PROVE RvInv'
  BY Zenon
<1>1. CASE UNCHANGED rvVars
  BY Zenon, <1>1 DEF rvVars, RvInv, RvTypeOK, PartnersAgree, RolesBacked
<1>2. CASE RvNext
  BY Zenon, <1>2, EstablishIntroInv, EstablishRendezvousInv, RendezvousInv, TickInv,
     ForgetInv, AgeInv DEF RvNext
<1> QED BY Zenon, <1>1, <1>2

(* Every step keeps a pair together or tears it down.                      *)
LEMMA RvStepPairs ==
    ASSUME RvInv, [RvNext]_rvVars, NEW x \in Circuits,
           joined[x] # NoCircuit, joined'[x] # NoCircuit
    PROVE  joined'[x] = joined[x]
<1>1. CASE \E y \in Circuits, c \in Cookies : rendezvous(y, c)
  <2>1. PICK y \in Circuits, c \in Cookies : rendezvous(y, c)
    BY Zenon, <1>1
  <2>2. x # y /\ x # cookies[c]
    BY Zenon, <2>1, WaitingClient
  <2> QED BY Zenon, <2>1, <2>2 DEF rendezvous, RvInv, RvTypeOK
<1>2. CASE tick \/ Age \/ UNCHANGED rvVars
  BY Zenon, <1>2 DEF tick, Age, rvVars
<1>3. CASE \E F \in SUBSET Circuits : forget(F)
  BY Zenon, <1>3 DEF forget
<1>4. CASE \E y \in Circuits, k \in Keys : establish_intro(y, k)
  BY Zenon, <1>4 DEF establish_intro
<1>5. CASE \E y \in Circuits, c \in Cookies : establish_rendezvous(y, c)
  BY Zenon, <1>5 DEF establish_rendezvous
<1> QED BY Zenon, <1>1, <1>2, <1>3, <1>4, <1>5 DEF RvNext

(* A router step is a step of the tables, or leaves them alone.            *)
LEMMA RouterStep == [RouterNext]_routerVars => [RvNext]_rvVars
<1> SUFFICES ASSUME [RouterNext]_routerVars PROVE [RvNext]_rvVars
  BY Zenon
<1>1. CASE UNCHANGED routerVars
  BY Zenon, <1>1 DEF routerVars, rvVars
<1>2. ASSUME NEW x \in Circuits, CircuitStep(x) PROVE [RvNext]_rvVars
  BY Zenon, <1>2 DEF CircuitStep, OpenCircuit, RemoveCircuit, EstablishIntro, Introduce,
     EstablishRendezvous, RendezvousTold, RendezvousUntold, relay_to_partner, RvNext
<1>3. ASSUME NEW s \in Sessions, SessionStep(s) PROVE [RvNext]_rvVars
  <2>1. CASE SessionEnd(s)
    <3>1. rv_circuits \cap Of(s) \in SUBSET Circuits
      BY Zenon DEF Of
    <3> QED BY Zenon, <2>1, <3>1 DEF SessionEnd, RvNext
  <2> QED BY Zenon, <1>3, <2>1 DEF SessionStep, register_session, Deliver, RouterTick, RvNext
<1>4. CASE TimePasses
  BY Zenon, <1>4 DEF TimePasses, RvNext
<1> QED BY Zenon, <1>1, <1>2, <1>3, <1>4 DEF RouterNext

(* The router implements the tables: whatever the sessions do, their       *)
(* shared tables only ever take steps of RendezvousState.                  *)
THEOREM RouterImplementsTables == RouterSpec => RvSpec
<1>1. RouterInit => RvInit
  BY Zenon DEF RouterInit
<1> QED BY <1>1, RouterStep, PTL DEF RouterSpec, RvSpec

(* The joint invariant holds of the router.                                *)
LEMMA RouterInv == RouterSpec => []RvInv
<1>1. RouterInit => RvInv
  BY Zenon, RvInitInv DEF RouterInit
<1>2. RvInv /\ [RouterNext]_routerVars => RvInv'
  BY Zenon, RvStepInv, RouterStep
<1> QED BY <1>1, <1>2, PTL DEF RouterSpec

(* The tables keep their types, and only present entries are old.          *)
THEOREM TablesTyped == RouterSpec => []RvTypeOK
<1>1. RvInv => RvTypeOK
  BY Zenon DEF RvInv
<1> QED BY <1>1, RouterInv, PTL

(* No order of joins, expiries, takeovers and session ends leaves half a   *)
(* joined pair behind, for any number of sessions, circuits and cookies.   *)
THEOREM PairsWhole == RouterSpec => []PartnersAgree
<1>1. RvInv => PartnersAgree
  BY Zenon DEF RvInv
<1> QED BY <1>1, RouterInv, PTL

(* A cookie or registration and the circuit that made it name each other.  *)
THEOREM RegistrationsBacked == RouterSpec => []RolesBacked
<1>1. RvInv => RolesBacked
  BY Zenon DEF RvInv
<1> QED BY <1>1, RouterInv, PTL

(* A joined circuit never changes partner: one cookie joins one service.   *)
THEOREM PairsStable == RouterSpec => PairStable
<1>1. RvInv /\ [RouterNext]_routerVars =>
        [\A x \in Circuits :
            joined[x] # NoCircuit /\ joined'[x] # NoCircuit => joined'[x] = joined[x]]_rvVars
  BY Zenon, RvStepPairs, RouterStep
<1> QED BY <1>1, RouterInv, PTL DEF RouterSpec, PairStable

(* The handlers record every circuit that registers something, and only    *)
(* live sessions have circuits.                                            *)
Recorded ==
    /\ \A k \in Keys : intros[k] # NoCircuit => intros[k] \in rv_circuits
    /\ \A c \in Cookies : cookies[c] # NoCircuit => cookies[c] \in rv_circuits
    /\ \A x \in open \cup rv_circuits : Registered(x[1])
    /\ open \subseteq Circuits /\ rv_circuits \subseteq Circuits
    /\ session \in [Sessions -> {"new", "live", "gone"}]

(* A step of one circuit keeps that.                                       *)
LEMMA CircuitStepRecorded ==
    ASSUME RvInv, Recorded, NEW x \in Circuits, CircuitStep(x)
    PROVE  Recorded'
<1> USE RendezvousAssumption DEF RvInv, RvTypeOK, Recorded, Registered
<1>1. CASE OpenCircuit(x) \/ RemoveCircuit(x) \/ relay_to_partner(x)
  BY Zenon, <1>1 DEF OpenCircuit, RemoveCircuit, relay_to_partner, rvVars
<1>2. ASSUME NEW k \in Keys, EstablishIntro(x, k) PROVE Recorded'
  BY Zenon, <1>2 DEF EstablishIntro, establish_intro
<1>3. ASSUME NEW k \in Keys, Introduce(x, k) PROVE Recorded'
  BY Zenon, <1>3 DEF Introduce, rvVars
<1>4. ASSUME NEW c \in Cookies, EstablishRendezvous(x, c) PROVE Recorded'
  BY Zenon, <1>4 DEF EstablishRendezvous, establish_rendezvous
<1>5. ASSUME NEW c \in Cookies, RendezvousTold(x, c) \/ RendezvousUntold(x, c) PROVE Recorded'
  BY <1>5 DEF RendezvousTold, RendezvousUntold, rendezvous, sessionVars
<1> QED BY Zenon, <1>1, <1>2, <1>3, <1>4, <1>5 DEF CircuitStep

(* A session that ends gives up what its recorded circuits registered, and *)
(* other sessions keep theirs.                                             *)
LEMMA SessionEndRecorded ==
    ASSUME RvInv, Recorded, NEW s \in Sessions, SessionEnd(s)
    PROVE  Recorded'
<1> USE RendezvousAssumption DEF RvInv, RvTypeOK, Recorded, SessionEnd, Of
<1>1. ASSUME NEW k \in Keys, intros'[k] # NoCircuit PROVE intros'[k] \in rv_circuits'
  BY Zenon, <1>1 DEF RolesBacked, forget, Gives
<1>2. ASSUME NEW c \in Cookies, cookies'[c] # NoCircuit PROVE cookies'[c] \in rv_circuits'
  BY Zenon, <1>2 DEF RolesBacked, forget, Gives
<1>3. \A x \in open' \cup rv_circuits' : Registered(x[1])'
  BY Zenon, RouterAssumption DEF Registered
<1> QED BY Zenon, <1>1, <1>2, <1>3

(* Every step of the router keeps the record of what is registered.        *)
LEMMA StepRecorded == RvInv /\ Recorded /\ [RouterNext]_routerVars => Recorded'
<1> SUFFICES ASSUME RvInv, Recorded, [RouterNext]_routerVars PROVE Recorded'
  BY Zenon
<1>1. CASE UNCHANGED routerVars
  BY Zenon, <1>1 DEF routerVars, Recorded, Registered
<1>2. ASSUME NEW x \in Circuits, CircuitStep(x) PROVE Recorded'
  BY Zenon, <1>2, CircuitStepRecorded
<1>3. ASSUME NEW s \in Sessions, SessionStep(s) PROVE Recorded'
  <2>1. CASE SessionEnd(s)
    BY Zenon, <2>1, SessionEndRecorded
  <2>2. CASE register_session(s)
    <3>1. \A x \in open' \cup rv_circuits' : Registered(x[1])'
      BY Zenon, <2>2, RouterAssumption DEF register_session, Recorded, Registered
    <3> QED BY Zenon, <2>2, <3>1 DEF register_session, rvVars, Recorded
  <2>4. CASE Deliver(s)
    BY Zenon, <2>4 DEF Deliver, rvVars, Recorded, Registered
  <2>3. CASE RouterTick(s)
    BY Zenon, <2>3 DEF RouterTick, tick, sessionVars, Recorded, Registered
  <2> QED BY Zenon, <1>3, <2>1, <2>2, <2>3, <2>4 DEF SessionStep
<1>4. CASE TimePasses
  BY Zenon, <1>4 DEF TimePasses, Age, sessionVars, Recorded, Registered
<1> QED BY Zenon, <1>1, <1>2, <1>3, <1>4 DEF RouterNext

(* However many sessions come and go, one that has ended holds no key and  *)
(* no cookie (Drop of SessionTask, forget_session).                        *)
THEOREM GoneReleased == RouterSpec => []GoneHoldsNoRegistration
<1>1. RouterInit => Recorded
  BY Zenon DEF RouterInit, RvInit, Recorded
<1>2. Recorded => GoneHoldsNoRegistration
  BY Zenon DEF Recorded, GoneHoldsNoRegistration
<1> QED BY <1>1, <1>2, RouterInv, StepRecorded, PTL DEF RouterSpec
-----------------------------------------------------------------------------
(***************************************************************************)
(* The ratchet, for every MAX_SEND_LEAD_EPOCHS, any number of frames and   *)
(* any clock.  The inductive invariant relates, for each direction, the    *)
(* frames sealed so far to the counters of the two framers.                *)
(***************************************************************************)


\* The frames of one direction: in (epoch, seq) order, without a gap in an
\* epoch, and below the writer's next (epoch, seq).
SendLog(S, g) ==
    /\ \A i, j \in 1..Len(S) : i < j =>
         \/ S[i].epoch < S[j].epoch
         \/ S[i].epoch = S[j].epoch /\ S[i].seq < S[j].seq
    /\ \A i \in 1..Len(S) : S[i].seq > 0 =>
         /\ i > 1
         /\ S[i - 1].epoch = S[i].epoch
         /\ S[i - 1].seq = S[i].seq - 1
    /\ \A i \in 1..Len(S) :
         /\ S[i].epoch <= g.epoch
         /\ S[i].epoch = g.epoch => S[i].seq < g.sendSeq
    /\ g.sendSeq > 0 =>
         /\ Len(S) > 0
         /\ S[Len(S)].epoch = g.epoch
         /\ S[Len(S)].seq = g.sendSeq - 1

\* The counters of one epoch of the reader, after the first n frames of S:
\* every one read was below (e, k), and the last one is its predecessor.
Cursor(S, n, e, k) ==
    /\ \A i \in 1..n : S[i].epoch <= e /\ (S[i].epoch = e => S[i].seq < k)
    /\ k > 0 => n > 0 /\ S[n].epoch = e /\ S[n].seq = k - 1

\* The reader's two cursors; the older one is live until a frame of the
\* current epoch has been read.
RecvCursors(S, n, f) ==
    /\ Cursor(S, n, f.epoch, f.recvSeq)
    /\ f.epoch > 0 /\ f.recvSeq = 0 =>
         /\ f.recvPrev # NoPrev
         /\ Cursor(S, n, f.epoch - 1, f.recvPrev)

\* No unread frame skips an epoch, and the writer cannot make the next one do so.
Contiguous(S, n, f, g) ==
    /\ \A i \in (n + 1)..Len(S) :
         \/ S[i].epoch <= f.epoch + 1
         \/ i > 1 /\ S[i].epoch <= S[i - 1].epoch + 1
    /\ \/ g.epoch <= f.epoch
       \/ Len(S) > 0 /\ g.epoch = S[Len(S)].epoch

\* What the reader believes of the writer's epoch, and its lead over that.
Lead(S, n, f, g) ==
    /\ f.lastRecvEpoch <= g.epoch
    /\ \A i \in (n + 1)..Len(S) : f.lastRecvEpoch <= S[i].epoch
    /\ f.epoch <= f.lastRecvEpoch + MaxSendLead
    /\ f.epoch <= MaxEpoch
    /\ g.epoch <= MaxEpoch

\* One direction: frames S written by g, the first n of them read by f.
Link(S, n, f, g) ==
    /\ SendLog(S, g)
    /\ RecvCursors(S, n, f)
    /\ Contiguous(S, n, f, g)
    /\ Lead(S, n, f, g)

RatchetIInv ==
    /\ RatchetTypeOK
    /\ \A r \in Side : Link(sent[Peer(r)], rcvd[r], framer[r], framer[Peer(r)])

-----------------------------------------------------------------------------
(* One direction at a time.                                                *)

\* What the lemmas use of a sequence of frames.
Log(S) ==
    /\ Len(S) \in Nat
    /\ \A i \in 1..Len(S) : S[i].epoch \in Nat /\ S[i].seq \in Nat

\* The components of frames and framers are numbers.
LEMMA FrameTypes == ASSUME NEW S \in Seq(Frame) PROVE Log(S)
<1>1. \A i \in 1..Len(S) : S[i] \in Frame
  OBVIOUS
<1> QED  BY <1>1 DEF Frame, Log

\* The fields of a framer are numbers.
LEMMA FramerTypes ==
    ASSUME NEW f \in Framer
    PROVE  /\ f.epoch \in Nat /\ f.sendSeq \in Nat /\ f.recvSeq \in Nat
           /\ f.lastRecvEpoch \in Nat /\ f.recvPrev \in Nat \cup {-1}
BY Zenon DEF Framer, NoPrev

\* Later frames of a direction never go back to an earlier epoch.
LEMMA EpochsOrdered ==
    ASSUME NEW S, Log(S), NEW g, SendLog(S, g),
           NEW i \in 1..Len(S), NEW j \in 1..Len(S), i < j
    PROVE  S[i].epoch <= S[j].epoch
<1>1. S[i].epoch \in Nat /\ S[j].epoch \in Nat
  BY Zenon DEF Log
<1>2. S[i].epoch < S[j].epoch \/ S[i].epoch = S[j].epoch
  BY Zenon DEF SendLog
<1> QED  BY <1>1, <1>2

\* Reading the frame a cursor points at moves the cursor by one.
LEMMA CursorStep ==
    ASSUME NEW S, NEW n \in Nat, NEW e \in Nat, NEW k \in Nat, Log(S), n + 1 <= Len(S),
           \A i \in 1..n : S[i].epoch <= e /\ (S[i].epoch = e => S[i].seq < k),
           S[n + 1].epoch = e, S[n + 1].seq = k
    PROVE  Cursor(S, n + 1, e, k + 1)
<1>1. ASSUME NEW i \in 1..(n + 1)
      PROVE  S[i].epoch <= e /\ (S[i].epoch = e => S[i].seq < k + 1)
  <2>1. CASE i = n + 1
    BY <2>1
  <2>2. CASE i # n + 1
    <3>1. i \in 1..n /\ i \in 1..Len(S)
      BY <2>2 DEF Log
    <3>2. S[i].seq \in Nat /\ S[i].epoch <= e /\ (S[i].epoch = e => S[i].seq < k)
      BY Zenon, <3>1 DEF Log
    <3> QED  BY <3>2
  <2> QED  BY Zenon, <2>1, <2>2
<1> QED  BY <1>1 DEF Cursor

\* The next unread frame opens unless the reader is two epochs past it: recv's
\* three trials cover every frame an ordered carrier can deliver.
LEMMA HeadOpens ==
    ASSUME NEW S, Log(S), NEW n \in Nat, NEW f \in Framer, NEW g \in Framer,
           Link(S, n, f, g), n < Len(S), f.epoch <= S[n + 1].epoch + 1
    PROVE  Opens(f, S[n + 1])
<1> DEFINE h == S[n + 1]
<1>0. /\ Len(S) \in Nat
      /\ \A i \in 1..Len(S) : S[i].epoch \in Nat /\ S[i].seq \in Nat
      /\ f.epoch \in Nat /\ f.recvSeq \in Nat /\ f.recvPrev \in Nat \cup {-1}
      /\ g.epoch \in Nat /\ MaxEpoch \in Nat
  BY Zenon, FramerTypes, RatchetAssumption DEF Log
<1>1. /\ h.epoch \in Nat /\ h.seq \in Nat /\ n + 1 \in 1..Len(S)
      /\ n > 0 => n \in 1..n /\ n \in 1..Len(S)
                 /\ S[n].epoch \in Nat /\ S[n].seq \in Nat
  BY <1>0
<1>2. h.epoch <= MaxEpoch
  BY <1>0, <1>1 DEF Link, SendLog, Lead
<1>3. n > 0 => S[n].epoch <= f.epoch
  BY Zenon, <1>1 DEF Link, RecvCursors, Cursor
<1>4. h.epoch <= f.epoch + 1
  <2>1. \/ h.epoch <= f.epoch + 1
        \/ n + 1 > 1 /\ h.epoch <= S[(n + 1) - 1].epoch + 1
    BY <1>0, <1>1 DEF Link, Contiguous
  <2> QED  BY SMTT(30), <1>0, <1>1, <1>3, <2>1
<1>5. h.seq > 0 => n > 0 /\ S[n].epoch = h.epoch /\ S[n].seq = h.seq - 1
  <2>1. h.seq > 0 => /\ n + 1 > 1 
                     /\ S[(n + 1) - 1].epoch = h.epoch
                     /\ S[(n + 1) - 1].seq = h.seq - 1
    BY Zenon, <1>1 DEF Link, SendLog
  <2> QED  BY <2>1
<1>6. n > 0 => \/ S[n].epoch < h.epoch
               \/ S[n].epoch = h.epoch /\ S[n].seq < h.seq
  BY <1>1 DEF Link, SendLog
<1>7. CASE h.epoch = f.epoch
  <2>1. Cursor(S, n, f.epoch, f.recvSeq)
    BY Zenon DEF Link, RecvCursors
  <2>2. h.seq = f.recvSeq
    BY <1>0, <1>1, <1>5, <1>6, <1>7, <2>1 DEF Cursor
  <2> QED  BY Zenon, <2>2, <1>7 DEF Opens, IsCurrent
<1>8. CASE h.epoch = f.epoch - 1
  <2>1. f.epoch > 0 /\ f.recvSeq = 0
    BY <1>0, <1>1, <1>6, <1>8 DEF Link, RecvCursors, Cursor
  <2>2. f.recvPrev # -1 /\ Cursor(S, n, f.epoch - 1, f.recvPrev)
    BY Zenon, <2>1 DEF Link, RecvCursors, NoPrev
  <2>3. h.seq = f.recvPrev
    BY <1>0, <1>1, <1>5, <1>6, <1>8, <2>2 DEF Cursor
  <2> QED  BY Zenon, <2>1, <2>2, <2>3, <1>8 DEF Opens, IsPrev, NoPrev
<1>9. CASE h.epoch = f.epoch + 1
  <2>1. h.seq = 0
    BY <1>0, <1>1, <1>3, <1>5, <1>9
  <2> QED  BY <1>0, <1>1, <1>2, <2>1, <1>9 DEF Opens, IsNext
<1>10. h.epoch = f.epoch \/ h.epoch = f.epoch - 1 \/ h.epoch = f.epoch + 1
  BY SMTT(30), <1>0, <1>1, <1>4
<1> QED  BY Zenon, <1>7, <1>8, <1>9, <1>10

\* Contiguity survives when the reader reads on or moves to a later epoch.
LEMMA ContiguousGrows ==
    ASSUME NEW S, Log(S), NEW n \in Nat, NEW m \in Nat, n <= m, NEW f, NEW c, NEW g,
           f.epoch \in Nat, c.epoch \in Nat, g.epoch \in Nat, f.epoch <= c.epoch,
           Contiguous(S, n, f, g)
    PROVE  Contiguous(S, m, c, g)
<1>1. ASSUME NEW i \in (m + 1)..Len(S)
      PROVE  \/ S[i].epoch <= c.epoch + 1
             \/ i > 1 /\ S[i].epoch <= S[i - 1].epoch + 1
  <2>1. Len(S) \in Nat
    BY Zenon DEF Log
  <2>2. i \in (n + 1)..Len(S) /\ i \in 1..Len(S)
    BY <2>1
  <2>3. S[i].epoch \in Nat
    BY Zenon, <2>2 DEF Log
  <2>4. \/ S[i].epoch <= f.epoch + 1
        \/ i > 1 /\ S[i].epoch <= S[i - 1].epoch + 1
    BY Zenon, <2>2 DEF Contiguous
  <2> QED  BY <2>3, <2>4
<1>2. \/ g.epoch <= c.epoch
      \/ Len(S) > 0 /\ g.epoch = S[Len(S)].epoch
  BY DEF Contiguous
<1> QED  BY Zenon, <1>1, <1>2 DEF Contiguous

\* Reading a frame of the reader's epoch keeps the direction in order.
LEMMA LinkReadCurrent ==
    ASSUME NEW S, Log(S), NEW n \in Nat, NEW f \in Framer, NEW g \in Framer,
           Link(S, n, f, g), n < Len(S), IsCurrent(f, S[n + 1])
    PROVE  Link(S, n + 1, AfterCurrent(f), g)
<1> DEFINE h == S[n + 1]   c == AfterCurrent(f)
<1>0. /\ Len(S) \in Nat
      /\ \A i \in 1..Len(S) : S[i].epoch \in Nat /\ S[i].seq \in Nat
      /\ f.epoch \in Nat /\ f.recvSeq \in Nat /\ f.recvPrev \in Nat \cup {-1}
      /\ f.lastRecvEpoch \in Nat /\ g.epoch \in Nat /\ g.sendSeq \in Nat
      /\ MaxEpoch \in Nat /\ MaxSendLead \in Nat
  BY Zenon, FramerTypes, RatchetAssumption DEF Log
<1>1. n + 1 \in 1..Len(S) /\ h.epoch = f.epoch /\ h.seq = f.recvSeq
  BY <1>0 DEF IsCurrent
<1>2. /\ c.epoch = f.epoch /\ c.recvSeq = f.recvSeq + 1
      /\ c.lastRecvEpoch = f.epoch /\ c.recvPrev = NoPrev
  BY Zenon DEF AfterCurrent, Framer
<1>3. RecvCursors(S, n + 1, c)
  <2>1. Cursor(S, n, f.epoch, f.recvSeq)
    BY Zenon DEF Link, RecvCursors
  <2>2. Cursor(S, n + 1, f.epoch, f.recvSeq + 1)
    BY SMTT(30), <1>0, <1>1, <2>1, CursorStep DEF Cursor
  <2> QED  BY <1>0, <2>2, <1>2 DEF RecvCursors
<1>4. Contiguous(S, n + 1, c, g)
  <2>1. Contiguous(S, n, f, g)
    BY Zenon DEF Link
  <2>2. c.epoch \in Nat /\ f.epoch <= c.epoch /\ n + 1 \in Nat /\ n <= n + 1
    BY <1>0, <1>2
  <2> HIDE DEF c
  <2> QED  BY Zenon, <1>0, <2>1, <2>2, ContiguousGrows
<1>5. Lead(S, n + 1, c, g)
  <2>1. ASSUME NEW i \in (n + 2)..Len(S) PROVE h.epoch <= S[i].epoch
    <3>1. i \in 1..Len(S) /\ n + 1 < i
      BY <1>0
    <3> QED  BY Zenon, <1>1, <3>1, EpochsOrdered DEF Link
  <2>2. f.epoch <= g.epoch
    BY Zenon, <1>0, <1>1 DEF Link, SendLog
  <2> QED  BY <1>0, <1>1, <2>1, <2>2, <1>2 DEF Link, Lead
<1> QED  BY Zenon, <1>3, <1>4, <1>5 DEF Link

\* Reading a straggler of the previous epoch through the grace window.
LEMMA LinkReadPrev ==
    ASSUME NEW S, Log(S), NEW n \in Nat, NEW f \in Framer, NEW g \in Framer,
           Link(S, n, f, g), n < Len(S), IsPrev(f, S[n + 1])
    PROVE  Link(S, n + 1, AfterPrev(f), g)
<1> DEFINE h == S[n + 1]   c == AfterPrev(f)
<1>0. /\ Len(S) \in Nat
      /\ \A i \in 1..Len(S) : S[i].epoch \in Nat /\ S[i].seq \in Nat
      /\ f.epoch \in Nat /\ f.recvSeq \in Nat /\ f.recvPrev \in Nat \cup {-1}
      /\ f.lastRecvEpoch \in Nat /\ g.epoch \in Nat /\ g.sendSeq \in Nat
      /\ MaxEpoch \in Nat /\ MaxSendLead \in Nat
  BY Zenon, FramerTypes, RatchetAssumption DEF Log
<1>1. /\ n + 1 \in 1..Len(S) /\ h.epoch = f.epoch - 1 /\ h.seq = f.recvPrev
      /\ f.epoch > 0 /\ f.recvPrev \in Nat
  BY <1>0 DEF IsPrev, NoPrev
<1>2. /\ c.epoch = f.epoch /\ c.recvSeq = f.recvSeq
      /\ c.lastRecvEpoch = f.lastRecvEpoch /\ c.recvPrev = f.recvPrev + 1
  BY Zenon DEF AfterPrev, Framer
<1>3. RecvCursors(S, n + 1, c)
  <2>1. Cursor(S, n, f.epoch, f.recvSeq)
    BY Zenon DEF Link, RecvCursors
  <2>2. f.recvSeq = 0
    <3>1. n > 0 => S[n].epoch <= h.epoch
      BY SMTT(30), <1>0, <1>1, EpochsOrdered DEF Link
    <3> QED  BY <3>1, <1>0, <1>1, <2>1 DEF Cursor
  <2>3. Cursor(S, n, f.epoch - 1, f.recvPrev)
    BY Zenon, <1>1, <2>2 DEF Link, RecvCursors
  <2>4. Cursor(S, n + 1, f.epoch, 0)
    BY <1>0, <1>1, <2>1, <2>2 DEF Cursor
  <2>5. Cursor(S, n + 1, f.epoch - 1, f.recvPrev + 1)
    BY SMTT(30), <1>0, <1>1, <2>3, CursorStep DEF Cursor
  <2> QED  BY <1>0, <1>1, <1>2, <2>2, <2>4, <2>5 DEF RecvCursors, NoPrev
<1>4. Contiguous(S, n + 1, c, g)
  <2>1. Contiguous(S, n, f, g)
    BY Zenon DEF Link
  <2>2. c.epoch \in Nat /\ f.epoch <= c.epoch /\ n + 1 \in Nat /\ n <= n + 1
    BY <1>0, <1>2
  <2> HIDE DEF c
  <2> QED  BY Zenon, <1>0, <2>1, <2>2, ContiguousGrows
<1>5. Lead(S, n + 1, c, g)
  BY <1>0, <1>1, <1>2 DEF Link, Lead
<1> QED  BY Zenon, <1>3, <1>4, <1>5 DEF Link

\* Following the peer into the next epoch.
LEMMA LinkReadNext ==
    ASSUME NEW S, Log(S), NEW n \in Nat, NEW f \in Framer, NEW g \in Framer,
           Link(S, n, f, g), n < Len(S), IsNext(f, S[n + 1])
    PROVE  Link(S, n + 1, AfterNext(f), g) /\ f.epoch + 1 <= g.epoch
<1> DEFINE h == S[n + 1]   c == AfterNext(f)
<1>0. /\ Len(S) \in Nat
      /\ \A i \in 1..Len(S) : S[i].epoch \in Nat /\ S[i].seq \in Nat
      /\ f.epoch \in Nat /\ f.recvSeq \in Nat /\ f.recvPrev \in Nat \cup {-1}
      /\ f.lastRecvEpoch \in Nat /\ g.epoch \in Nat /\ g.sendSeq \in Nat
      /\ MaxEpoch \in Nat /\ MaxSendLead \in Nat
  BY Zenon, FramerTypes, RatchetAssumption DEF Log
<1>1. /\ n + 1 \in 1..Len(S) /\ h.epoch = f.epoch + 1 /\ h.seq = 0
      /\ f.epoch < MaxEpoch
  BY <1>0 DEF IsNext
<1>2. /\ c.epoch = f.epoch + 1 /\ c.recvSeq = 1 /\ c.lastRecvEpoch = f.epoch + 1
  BY Zenon DEF AfterNext, AdvanceEpoch, Framer
<1>3. RecvCursors(S, n + 1, c)
  <2>1. Cursor(S, n, f.epoch, f.recvSeq)
    BY Zenon DEF Link, RecvCursors
  <2>2. \A i \in 1..n : S[i].epoch <= f.epoch + 1 /\ S[i].epoch # f.epoch + 1
    BY SMTT(30), <1>0, <1>1, <2>1 DEF Cursor
  <2>3. \A i \in 1..n : S[i].epoch <= f.epoch + 1 /\ (S[i].epoch = f.epoch + 1 => S[i].seq < 0)
    BY Zenon, <2>2
  <2>4. Cursor(S, n + 1, f.epoch + 1, 0 + 1)
    BY <1>0, <1>1, <2>3, f.epoch + 1 \in Nat, 0 \in Nat, n + 1 <= Len(S), CursorStep
  <2> QED  BY <1>1, <2>4, <1>2 DEF RecvCursors
<1>4. Contiguous(S, n + 1, c, g)
  <2>1. Contiguous(S, n, f, g)
    BY Zenon DEF Link
  <2>2. c.epoch \in Nat /\ f.epoch <= c.epoch /\ n + 1 \in Nat /\ n <= n + 1
    BY <1>0, <1>2
  <2> HIDE DEF c
  <2> QED  BY Zenon, <1>0, <2>1, <2>2, ContiguousGrows
<1>5. f.epoch + 1 <= g.epoch
  BY Zenon, <1>0, <1>1 DEF Link, SendLog
<1>6. Lead(S, n + 1, c, g)
  <2>1. ASSUME NEW i \in (n + 2)..Len(S) PROVE h.epoch <= S[i].epoch
    <3>1. i \in 1..Len(S) /\ n + 1 < i
      BY <1>0
    <3> QED  BY Zenon, <1>1, <3>1, EpochsOrdered DEF Link
  <2> QED  BY <1>0, <1>1, <2>1, <1>5, <1>2 DEF Link, Lead
<1> QED  BY Zenon, <1>3, <1>4, <1>5, <1>6 DEF Link

\* A write appends (epoch, sendSeq) of the framer after at most one step.
LEMMA LinkWrite ==
    ASSUME NEW S, Log(S), NEW n \in Nat, NEW f \in Framer, NEW g \in Framer,
           NEW k \in Framer, NEW A, Len(A) = Len(S) + 1,
           \A i \in 1..Len(S) : A[i] = S[i], A[Len(S) + 1] = Sealed(k),
           Link(S, n, f, g), n <= Len(S), k.epoch <= MaxEpoch,
           \/ k.epoch = g.epoch /\ k.sendSeq = g.sendSeq
           \/ k.epoch = g.epoch + 1 /\ k.sendSeq = 0
    PROVE  Link(A, n, f, [k EXCEPT !.sendSeq = @ + 1])
<1> DEFINE c == [k EXCEPT !.sendSeq = @ + 1]   m == Len(S) + 1
<1>0. /\ Len(S) \in Nat
      /\ \A i \in 1..Len(S) : S[i].epoch \in Nat /\ S[i].seq \in Nat
      /\ f.epoch \in Nat /\ f.recvSeq \in Nat /\ f.recvPrev \in Nat \cup {-1}
      /\ f.lastRecvEpoch \in Nat /\ g.epoch \in Nat /\ g.sendSeq \in Nat
      /\ MaxEpoch \in Nat /\ MaxSendLead \in Nat
  BY Zenon, FramerTypes, RatchetAssumption DEF Log
<1>1. /\ Len(A) = m /\ m \in Nat /\ m - 1 = Len(S)
      /\ \A i \in 1..Len(S) : A[i].epoch = S[i].epoch /\ A[i].seq = S[i].seq
      /\ A[m].epoch = k.epoch /\ A[m].seq = k.sendSeq
  BY <1>0 DEF Sealed
<1>2. k.epoch \in Nat /\ k.sendSeq \in Nat /\ c.epoch = k.epoch /\ c.sendSeq = k.sendSeq + 1
  BY Zenon DEF Framer
<1> HIDE DEF c, m
<1>3. \A i \in 1..m : i = m \/ i \in 1..Len(S)
  BY <1>0, <1>1
<1>4. SendLog(A, c)
  <2>1. SendLog(S, g)
    BY Zenon DEF Link
  <2>2. \A i \in 1..Len(S) : \/ S[i].epoch < k.epoch
                             \/ S[i].epoch = k.epoch /\ S[i].seq < k.sendSeq
    <3>1. ASSUME NEW i \in 1..Len(S)
          PROVE  \/ S[i].epoch < k.epoch
                 \/ S[i].epoch = k.epoch /\ S[i].seq < k.sendSeq
      <4>1. S[i].epoch \in Nat /\ S[i].seq \in Nat
        BY Zenon, <1>0
      <4>2. S[i].epoch <= g.epoch /\ (S[i].epoch = g.epoch => S[i].seq < g.sendSeq)
        BY Zenon, <2>1 DEF SendLog
      <4>3. g.epoch \in Nat /\ g.sendSeq \in Nat
        BY Zenon, <1>0
      <4>4. CASE k.epoch = g.epoch /\ k.sendSeq = g.sendSeq
        BY <4>1, <4>2, <4>3, <4>4
      <4>5. CASE k.epoch = g.epoch + 1 /\ k.sendSeq = 0
        BY <4>1, <4>2, <4>3, <4>5
      <4> QED  BY Zenon, <4>4, <4>5
    <3> QED  BY Zenon, <3>1
  <2>3. ASSUME NEW i \in 1..m, NEW j \in 1..m, i < j
        PROVE  \/ A[i].epoch < A[j].epoch
               \/ A[i].epoch = A[j].epoch /\ A[i].seq < A[j].seq
    <3>1. i \in 1..Len(S)
      BY <1>0, <1>1, <2>3
    <3>2. CASE j = m
      BY Zenon, <1>1, <2>2, <3>1, <3>2
    <3>3. CASE j \in 1..Len(S)
      BY <1>1, <2>1, <2>3, <3>1, <3>3 DEF SendLog
    <3> QED  BY Zenon, <1>3, <3>2, <3>3
  <2>4. ASSUME NEW i \in 1..m, A[i].seq > 0
        PROVE  i > 1 /\ A[i - 1].epoch = A[i].epoch /\ A[i - 1].seq = A[i].seq - 1
    <3>1. CASE i \in 1..Len(S)
      <4>1. i > 1 /\ S[i - 1].epoch = S[i].epoch /\ S[i - 1].seq = S[i].seq - 1
        BY Zenon, <1>1, <2>1, <2>4, <3>1 DEF SendLog
      <4>2. i - 1 \in 1..Len(S)
        BY SMTT(30), <1>0, <3>1, <4>1
      <4> QED  BY Zenon, <1>1, <3>1, <4>1, <4>2
    <3>2. CASE i = m
      <4>1. k.sendSeq > 0 /\ k.sendSeq = g.sendSeq /\ k.epoch = g.epoch
        BY <1>1, <2>4, <3>2
      <4>2. /\ Len(S) > 0 /\ S[Len(S)].epoch = g.epoch
            /\ S[Len(S)].seq = g.sendSeq - 1
        BY Zenon, <2>1, <4>1 DEF SendLog
      <4> QED  BY SMTT(30), <1>0, <1>1, <3>2, <4>1, <4>2
    <3> QED  BY Zenon, <1>3, <3>1, <3>2
  <2>5. ASSUME NEW i \in 1..m
        PROVE  A[i].epoch <= c.epoch /\ (A[i].epoch = c.epoch => A[i].seq < c.sendSeq)
    <3>1. CASE i \in 1..Len(S)
      BY SMTT(30), <1>0, <1>1, <1>2, <2>2, <3>1
    <3>2. CASE i = m
      BY <1>1, <1>2, <3>2
    <3> QED  BY Zenon, <1>3, <3>1, <3>2
  <2>6. Len(A) > 0 /\ A[Len(A)].epoch = c.epoch /\ A[Len(A)].seq = c.sendSeq - 1
    BY SMTT(30), <1>0, <1>1, <1>2
  <2> QED  BY Zenon, <1>1, <2>3, <2>4, <2>5, <2>6 DEF SendLog
<1>5. RecvCursors(A, n, f)
  <2>1. ASSUME NEW e, NEW q, Cursor(S, n, e, q) PROVE Cursor(A, n, e, q)
    <3>1. \A i \in 1..n : i \in 1..Len(S)
      BY <1>0
    <3>2. n > 0 => n \in 1..n
      OBVIOUS
    <3> QED  BY Zenon, <1>1, <2>1, <3>1, <3>2 DEF Cursor
  <2> QED  BY Zenon, <2>1 DEF Link, RecvCursors
<1>6. Contiguous(A, n, f, c)
  <2>1. Contiguous(S, n, f, g)
    BY Zenon DEF Link
  <2>2. ASSUME NEW i \in (n + 1)..m
        PROVE  A[i].epoch <= f.epoch + 1 \/ (i > 1 /\ A[i].epoch <= A[i - 1].epoch + 1)
    <3>1. CASE i \in 1..Len(S)
      <4>1. S[i].epoch <= f.epoch + 1 \/ (i > 1 /\ S[i].epoch <= S[i - 1].epoch + 1)
        BY <1>0, <2>1, <3>1 DEF Contiguous
      <4>2. i > 1 => i - 1 \in 1..Len(S)
        BY SMTT(30), <1>0, <3>1
      <4> QED  BY Zenon, <1>1, <3>1, <4>1, <4>2
    <3>2. CASE i = m
      <4>1. g.epoch <= f.epoch \/ (Len(S) > 0 /\ g.epoch = S[Len(S)].epoch)
        BY Zenon, <2>1 DEF Contiguous
      <4>2. Len(S) > 0 => A[m - 1].epoch = S[Len(S)].epoch
        BY <1>0, <1>1
      <4> QED  BY SMTT(30), <1>0, <1>1, <1>2, <3>2, <4>1, <4>2
    <3> QED  BY <1>0, <1>1, <1>3, <3>1, <3>2
  <2> QED  BY <1>0, <1>1, <1>2, <2>2 DEF Contiguous
<1>7. Lead(A, n, f, c)
  <2>1. ASSUME NEW i \in (n + 1)..m PROVE f.lastRecvEpoch <= A[i].epoch
    <3>1. CASE i = m
      BY SMTT(30), <1>0, <1>1, <1>2, <3>1 DEF Link, Lead
    <3>2. CASE i \in 1..Len(S)
      BY <1>0, <1>1, <3>2 DEF Link, Lead
    <3> QED  BY <1>0, <1>1, <1>3, <3>1, <3>2
  <2> QED  BY SMTT(30), <1>0, <1>1, <1>2, <2>1 DEF Link, Lead
<1> QED  BY Zenon, <1>4, <1>5, <1>6, <1>7 DEF Link, c

\* The reader of a direction steps its own epoch by the clock: the cursor of the
\* epoch it leaves becomes the grace window.
LEMMA LinkAdvance ==
    ASSUME NEW S, Log(S), NEW n \in Nat, NEW f \in Framer, NEW g \in Framer,
           Link(S, n, f, g), n <= Len(S), f.epoch < MaxEpoch,
           f.epoch < f.lastRecvEpoch + MaxSendLead
    PROVE  Link(S, n, AdvanceEpoch(f), g)
<1> DEFINE c == AdvanceEpoch(f)
<1>0. /\ Len(S) \in Nat
      /\ \A i \in 1..Len(S) : S[i].epoch \in Nat /\ S[i].seq \in Nat
      /\ f.epoch \in Nat /\ f.recvSeq \in Nat /\ f.recvPrev \in Nat \cup {-1}
      /\ f.lastRecvEpoch \in Nat /\ g.epoch \in Nat /\ g.sendSeq \in Nat
      /\ MaxEpoch \in Nat /\ MaxSendLead \in Nat
  BY Zenon, FramerTypes, RatchetAssumption DEF Log
<1>1. /\ c.epoch = f.epoch + 1 /\ c.recvSeq = 0 /\ c.recvPrev = f.recvSeq
      /\ c.lastRecvEpoch = f.lastRecvEpoch
  BY Zenon DEF AdvanceEpoch, Framer
<1>2. RecvCursors(S, n, c)
  <2>1. Cursor(S, n, f.epoch, f.recvSeq)
    BY Zenon DEF Link, RecvCursors
  <2>2. Cursor(S, n, f.epoch + 1, 0)
    <3>1. \A i \in 1..n : i \in 1..Len(S)
      BY <1>0
    <3>2. \A i \in 1..n : S[i].epoch \in Nat /\ S[i].epoch <= f.epoch
      BY Zenon, <1>0, <2>1, <3>1 DEF Cursor
    <3>3. ASSUME NEW e \in Nat, e <= f.epoch
          PROVE  e <= f.epoch + 1 /\ e # f.epoch + 1
      BY <1>0, <3>3
    <3>4. ~(0 > 0)
      OBVIOUS
    <3> QED  BY Zenon, <3>2, <3>3, <3>4 DEF Cursor
  <2>3. f.recvSeq # NoPrev /\ (f.epoch + 1) - 1 = f.epoch
    BY <1>0 DEF NoPrev
  <2> QED  BY Zenon, <1>1, <2>1, <2>2, <2>3 DEF RecvCursors
<1>3. Contiguous(S, n, c, g)
  <2>1. Contiguous(S, n, f, g)
    BY Zenon DEF Link
  <2>2. c.epoch \in Nat /\ f.epoch <= c.epoch /\ n \in Nat /\ n <= n
    BY <1>0, <1>1
  <2> HIDE DEF c
  <2> QED  BY Zenon, <1>0, <2>1, <2>2, ContiguousGrows
<1>4. Lead(S, n, c, g)
  BY <1>0, <1>1 DEF Link, Lead
<1> QED  BY Zenon, <1>2, <1>3, <1>4 DEF Link

\* Link looks only at the receiving half of the reader's framer and the sending
\* half of the writer's.
LEMMA LinkHalves ==
    ASSUME NEW S, NEW n, NEW f, NEW g, NEW c, NEW d, Link(S, n, f, g),
           c.epoch = f.epoch, c.recvSeq = f.recvSeq, c.recvPrev = f.recvPrev,
           c.lastRecvEpoch = f.lastRecvEpoch,
           d.epoch = g.epoch, d.sendSeq = g.sendSeq
    PROVE  Link(S, n, c, d)
BY Zenon DEF Link, SendLog, RecvCursors, Contiguous, Lead

\* The writer of a direction follows its peer to an epoch the peer already has.
LEMMA LinkFollow ==
    ASSUME NEW S, Log(S), NEW n \in Nat, NEW f \in Framer, NEW g \in Framer,
           Link(S, n, f, g), g.epoch + 1 <= f.epoch, g.epoch < MaxEpoch
    PROVE  Link(S, n, f, AfterNext(g))
<1> DEFINE d == AfterNext(g)
<1>0. /\ Len(S) \in Nat
      /\ \A i \in 1..Len(S) : S[i].epoch \in Nat /\ S[i].seq \in Nat
      /\ f.epoch \in Nat /\ f.recvSeq \in Nat /\ f.recvPrev \in Nat \cup {-1}
      /\ f.lastRecvEpoch \in Nat /\ g.epoch \in Nat /\ g.sendSeq \in Nat
      /\ MaxEpoch \in Nat /\ MaxSendLead \in Nat
  BY Zenon, FramerTypes, RatchetAssumption DEF Log
<1>1. d.epoch = g.epoch + 1 /\ d.sendSeq = 0
  BY Zenon DEF AfterNext, AdvanceEpoch, Framer
<1>2. SendLog(S, d)
  <2>1. \A i \in 1..Len(S) : S[i].epoch <= d.epoch /\ S[i].epoch # d.epoch
    BY <1>0, <1>1 DEF Link, SendLog
  <2> QED  BY <1>1, <2>1 DEF Link, SendLog
<1>3. Contiguous(S, n, f, d)
  BY Zenon, <1>0, <1>1 DEF Link, Contiguous
<1>4. Lead(S, n, f, d)
  BY <1>0, <1>1 DEF Link, Lead
<1> QED  BY Zenon, <1>2, <1>3, <1>4 DEF Link

\* Every framer operation yields a framer.
LEMMA FramerClosed ==
    ASSUME NEW f \in Framer
    PROVE  /\ AdvanceEpoch(f) \in Framer
           /\ AfterCurrent(f) \in Framer
           /\ f.recvPrev # NoPrev => AfterPrev(f) \in Framer
           /\ AfterNext(f) \in Framer
           /\ [f EXCEPT !.sendSeq = @ + 1] \in Framer
           /\ Sealed(f) \in Frame
<1>1. AdvanceEpoch(f) \in Framer
  BY DEF AdvanceEpoch, Framer
<1>2. AfterCurrent(f) \in Framer
  <2> DEFINE a == [f EXCEPT !.recvSeq = @ + 1]   b == [a EXCEPT !.lastRecvEpoch = f.epoch]
  <2>1. a \in Framer
    BY DEF Framer
  <2> HIDE DEF a
  <2>2. b \in Framer
    BY Zenon, <2>1 DEF Framer
  <2> HIDE DEF b
  <2>3. [b EXCEPT !.recvPrev = NoPrev] \in Framer
    BY Zenon, <2>2 DEF Framer
  <2> QED  BY Zenon, <2>3 DEF AfterCurrent, a, b
<1>3. f.recvPrev # NoPrev => AfterPrev(f) \in Framer
  BY DEF AfterPrev, Framer
<1>4. AfterNext(f) \in Framer
  <2> DEFINE a == AdvanceEpoch(f)   b == [a EXCEPT !.recvSeq = 1]
  <2> HIDE DEF a
  <2>1. b \in Framer
    BY Zenon, <1>1 DEF Framer, a
  <2> HIDE DEF b
  <2>2. [b EXCEPT !.lastRecvEpoch = f.epoch + 1] \in Framer
    BY <2>1 DEF Framer
  <2> QED  BY Zenon, <2>2 DEF AfterNext, a, b
<1>5. [f EXCEPT !.sendSeq = @ + 1] \in Framer
  BY DEF Framer
<1>6. Sealed(f) \in Frame
  BY Zenon DEF Sealed, Framer, Frame
<1> QED  BY Zenon, <1>1, <1>2, <1>3, <1>4, <1>5, <1>6

-----------------------------------------------------------------------------
(* The two directions together.                                            *)

\* The inductive invariant holds of two fresh framers.
LEMMA InitIInv == RatchetInit => RatchetIInv
<1> SUFFICES ASSUME RatchetInit PROVE RatchetIInv
  BY Zenon
<1>1. \A r \in Side : /\ framer[r] = FreshFramer /\ clock[r] = 0 /\ sent[r] = <<>>
                      /\ rcvd[r] = 0 /\ desync[r] = FALSE
  BY Zenon DEF RatchetInit
<1>2. \A r \in Side : Peer(r) \in Side
  BY Zenon DEF Peer, Side
<1>3. FreshFramer \in Framer
  BY Zenon DEF FreshFramer, Framer
<1>4. RatchetTypeOK
  <2>1. <<>> \in Seq(Frame) /\ Len(<<>>) = 0
    OBVIOUS
  <2>2. /\ framer \in [Side -> Framer] /\ clock \in [Side -> Nat] /\ sent \in [Side -> Seq(Frame)]
        /\ rcvd \in [Side -> Nat]
    BY Zenon, <1>3, <2>1 DEF RatchetInit
  <2>3. desync \in [Side -> BOOLEAN]
    BY Zenon DEF RatchetInit
  <2>4. \A r \in Side : rcvd[r] <= Len(sent[Peer(r)])
    BY <1>1, <1>2, <2>1
  <2> QED  BY Zenon, <2>2, <2>3, <2>4 DEF RatchetTypeOK
<1>5. Link(<<>>, 0, FreshFramer, FreshFramer)
  <2>1. /\ FreshFramer.epoch = 0 /\ FreshFramer.sendSeq = 0 /\ FreshFramer.recvSeq = 0
        /\ FreshFramer.lastRecvEpoch = 0
    BY Zenon DEF FreshFramer
  <2>2. Len(<<>>) = 0 /\ 1..0 = {} /\ (0 + 1)..0 = {}
    OBVIOUS
  <2> QED
    BY <2>1, <2>2, RatchetAssumption
    DEF Link, SendLog, RecvCursors, Cursor, Contiguous, Lead
<1> QED  BY Zenon, <1>1, <1>2, <1>4, <1>5 DEF RatchetIInv

\* Every step of either stream preserves the inductive invariant.
LEMMA NextIInv == RatchetIInv /\ [RatchetNext]_ratchetVars => RatchetIInv'
<1> SUFFICES ASSUME RatchetIInv, [RatchetNext]_ratchetVars PROVE RatchetIInv'
  BY Zenon
<1>1. /\ framer \in [Side -> Framer] /\ clock \in [Side -> Nat] /\ sent \in [Side -> Seq(Frame)]
      /\ rcvd \in [Side -> Nat] /\ desync \in [Side -> BOOLEAN]
      /\ \A r \in Side : rcvd[r] <= Len(sent[Peer(r)])
  BY Zenon DEF RatchetIInv, RatchetTypeOK
<1>2. \A r \in Side : /\ Peer(r) \in Side /\ Peer(Peer(r)) = r /\ Peer(r) # r
                      /\ \A q \in Side : q = r \/ q = Peer(r)
  BY Zenon DEF Peer, Side
<1>3. \A r \in Side : Link(sent[Peer(r)], rcvd[r], framer[r], framer[Peer(r)])
  BY Zenon DEF RatchetIInv
<1>4. \A r \in Side : Log(sent[r])
  BY Zenon, <1>1, FrameTypes
<1>5. ASSUME NEW r \in Side, IntervalElapses(r) PROVE RatchetIInv'
  <2>1. clock' \in [Side -> Nat]
    BY <1>1, <1>5 DEF IntervalElapses
  <2> QED  BY Zenon, <1>1, <1>3, <1>5, <2>1 DEF IntervalElapses, RatchetIInv, RatchetTypeOK
<1>6. ASSUME NEW r \in Side, Write(r) PROVE RatchetIInv'
  <2> DEFINE q == Peer(r)   k == MaybeAdvance(framer[r], clock[r])
             A == Append(sent[r], Sealed(k))   d == [k EXCEPT !.sendSeq = @ + 1]
  <2>1. /\ framer[r] \in Framer /\ framer[q] \in Framer /\ sent[r] \in Seq(Frame)
        /\ rcvd[q] \in Nat /\ rcvd[q] <= Len(sent[r]) /\ rcvd[r] <= Len(sent[q])
        /\ rcvd[r] \in Nat /\ clock[r] \in Nat
    BY Zenon, <1>1, <1>2
  <2>2. /\ k \in Framer /\ k.epoch <= MaxEpoch
        /\ \/ k.epoch = framer[r].epoch /\ k.sendSeq = framer[r].sendSeq
           \/ k.epoch = framer[r].epoch + 1 /\ k.sendSeq = 0
        /\ Link(sent[q], rcvd[r], k, framer[q])
    <3>0. Link(sent[q], rcvd[r], framer[r], framer[q])
      BY Zenon, <1>3
    <3>1. CASE WantsAdvance(framer[r], clock[r])
      <4>1. k = AdvanceEpoch(framer[r])
        BY Zenon, <3>1 DEF MaybeAdvance
      <4>2. /\ framer[r].epoch < MaxEpoch
            /\ framer[r].epoch < framer[r].lastRecvEpoch + MaxSendLead
        <5>1. framer[r].epoch \in Nat
          BY Zenon, <2>1, FramerTypes
        <5> QED  BY <1>6, <3>1, <5>1, RatchetAssumption DEF Write, AdvanceFails, WantsAdvance
      <4>3. Link(sent[q], rcvd[r], AdvanceEpoch(framer[r]), framer[q])
        BY Zenon, <1>2, <1>4, <2>1, <3>0, <4>2, LinkAdvance
      <4>4. /\ AdvanceEpoch(framer[r]).epoch = framer[r].epoch + 1
            /\ AdvanceEpoch(framer[r]).sendSeq = 0
        BY Zenon DEF AdvanceEpoch
      <4>5. framer[r].epoch + 1 <= MaxEpoch
        BY <2>1, <4>2, FramerTypes, RatchetAssumption
      <4> QED  BY Zenon, <2>1, <4>1, <4>3, <4>4, <4>5, FramerClosed
    <3>2. CASE ~WantsAdvance(framer[r], clock[r])
      <4>1. k = framer[r]
        BY Zenon, <3>2 DEF MaybeAdvance
      <4> QED  BY Zenon, <2>1, <3>0, <4>1 DEF Link, Lead
    <3> QED  BY Zenon, <3>1, <3>2
  <2>3. /\ sent' = [sent EXCEPT ![r] = A] /\ framer' = [framer EXCEPT ![r] = d]
        /\ UNCHANGED <<clock, rcvd, desync>>
    BY Zenon, <1>6 DEF Write
  <2> HIDE DEF k
  <2>4. d \in Framer /\ Sealed(k) \in Frame
    BY Zenon, <2>2, FramerClosed
  <2>5. /\ A \in Seq(Frame) /\ Len(A) = Len(sent[r]) + 1
        /\ \A i \in 1..Len(sent[r]) : A[i] = sent[r][i]
        /\ A[Len(sent[r]) + 1] = Sealed(k)
    BY <2>1, <2>4
  <2> HIDE DEF A, d
  <2>6. /\ sent'[r] = A /\ sent'[q] = sent[q]
        /\ framer'[r] = d /\ framer'[q] = framer[q]
    BY Zenon, <1>1, <1>2, <2>3
  <2>7. RatchetTypeOK'
    <3>1. /\ framer' \in [Side -> Framer] /\ sent' \in [Side -> Seq(Frame)]
          /\ clock' \in [Side -> Nat] /\ rcvd' \in [Side -> Nat] /\ desync' \in [Side -> BOOLEAN]
      BY Zenon, <1>1, <2>3, <2>4, <2>5
    <3>2. rcvd'[q] <= Len(sent'[r]) /\ rcvd'[r] <= Len(sent'[q])
      <4>1. Len(sent[r]) \in Nat
        BY Zenon, <1>4 DEF Log
      <4> QED  BY <2>1, <2>3, <2>5, <2>6, <4>1
    <3>3. \A p \in Side : rcvd'[p] <= Len(sent'[Peer(p)])
      BY Zenon, <1>2, <3>2
    <3> QED  BY Zenon, <3>1, <3>3 DEF RatchetTypeOK
  <2>8. Link(A, rcvd[q], framer[q], d)
    <3>1. Link(sent[r], rcvd[q], framer[q], framer[r])
      BY Zenon, <1>2, <1>3
    <3> QED  BY Zenon, <1>4, <2>1, <2>2, <2>5, <3>1, LinkWrite DEF d
  <2>9. Link(sent[q], rcvd[r], d, framer[q])
    <3>1. /\ d.epoch = k.epoch /\ d.recvSeq = k.recvSeq /\ d.recvPrev = k.recvPrev
          /\ d.lastRecvEpoch = k.lastRecvEpoch
      BY Zenon, <2>2 DEF d, Framer
    <3> QED  BY Zenon, <2>2, <3>1, LinkHalves
  <2>10. \A p \in Side : Link(sent'[Peer(p)], rcvd'[p], framer'[p], framer'[Peer(p)])
    BY Zenon, <1>2, <2>3, <2>6, <2>8, <2>9
  <2> QED  BY Zenon, <2>7, <2>10 DEF RatchetIInv
<1>7. ASSUME NEW r \in Side, InFlight(r), NEW c \in Framer,
             framer' = [framer EXCEPT ![r] = c], rcvd' = [rcvd EXCEPT ![r] = @ + 1],
             UNCHANGED <<clock, sent, desync>>,
             Link(sent[Peer(r)], rcvd[r] + 1, c, framer[Peer(r)]),
             Link(sent[r], rcvd[Peer(r)], framer[Peer(r)], c)
      PROVE  RatchetIInv'
  <2> DEFINE q == Peer(r)
  <2>1. /\ framer'[r] = c /\ framer'[q] = framer[q]
        /\ rcvd'[r] = rcvd[r] + 1 /\ rcvd'[q] = rcvd[q]
    BY Zenon, <1>1, <1>2, <1>7
  <2>2. /\ framer' \in [Side -> Framer] /\ rcvd' \in [Side -> Nat]
    BY <1>1, <1>7
  <2>3. rcvd'[r] <= Len(sent'[q]) /\ rcvd'[q] <= Len(sent'[r])
    <3>1. Len(sent[q]) \in Nat /\ rcvd[r] \in Nat /\ rcvd[q] <= Len(sent[r])
      BY Zenon, <1>1, <1>2, <1>4 DEF Log
    <3> QED  BY <1>7, <2>1, <3>1 DEF InFlight
  <2>4. \A p \in Side : rcvd'[p] <= Len(sent'[Peer(p)])
    BY Zenon, <1>2, <2>3
  <2>5. RatchetTypeOK'
    BY Zenon, <1>1, <1>7, <2>2, <2>4 DEF RatchetTypeOK
  <2>6. \A p \in Side : Link(sent'[Peer(p)], rcvd'[p], framer'[p], framer'[Peer(p)])
    BY Zenon, <1>2, <1>7, <2>1
  <2> QED  BY Zenon, <2>5, <2>6 DEF RatchetIInv
<1>8. ASSUME NEW r \in Side
      PROVE  /\ framer[r] \in Framer /\ framer[Peer(r)] \in Framer /\ rcvd[r] \in Nat
             /\ rcvd[Peer(r)] \in Nat
             /\ Log(sent[r]) /\ Log(sent[Peer(r)])
             /\ Link(sent[Peer(r)], rcvd[r], framer[r], framer[Peer(r)])
             /\ Link(sent[r], rcvd[Peer(r)], framer[Peer(r)], framer[r])
  BY Zenon, <1>1, <1>2, <1>3, <1>4
<1>9. ASSUME NEW r \in Side, ReadCurrent(r) PROVE RatchetIInv'
  <2> DEFINE c == AfterCurrent(framer[r])
  <2>1. /\ InFlight(r) /\ IsCurrent(framer[r], HeadFrame(r))
        /\ framer' = [framer EXCEPT ![r] = c] /\ rcvd' = [rcvd EXCEPT ![r] = @ + 1]
        /\ UNCHANGED <<clock, sent, desync>>
    BY Zenon, <1>9 DEF ReadCurrent, Open
  <2>2. Link(sent[Peer(r)], rcvd[r] + 1, c, framer[Peer(r)])
    BY Zenon, <1>8, <2>1, LinkReadCurrent DEF InFlight, HeadFrame
  <2>3. c \in Framer
    BY Zenon, <1>8, FramerClosed
  <2>4. c.epoch = framer[r].epoch /\ c.sendSeq = framer[r].sendSeq
    BY Zenon, <1>8 DEF AfterCurrent, Framer
  <2>5. Link(sent[r], rcvd[Peer(r)], framer[Peer(r)], c)
    BY Zenon, <1>8, <2>4, LinkHalves
  <2> HIDE DEF c
  <2> QED  BY Zenon, <1>7, <2>1, <2>2, <2>3, <2>5
<1>10. ASSUME NEW r \in Side, ReadPrev(r) PROVE RatchetIInv'
  <2> DEFINE c == AfterPrev(framer[r])
  <2>1. /\ InFlight(r) /\ IsPrev(framer[r], HeadFrame(r))
        /\ framer' = [framer EXCEPT ![r] = c] /\ rcvd' = [rcvd EXCEPT ![r] = @ + 1]
        /\ UNCHANGED <<clock, sent, desync>>
    BY Zenon, <1>10 DEF ReadPrev, Open
  <2>2. Link(sent[Peer(r)], rcvd[r] + 1, c, framer[Peer(r)])
    BY Zenon, <1>8, <2>1, LinkReadPrev DEF InFlight, HeadFrame
  <2>3. c \in Framer
    BY Zenon, <1>8, <2>1, FramerClosed DEF IsPrev
  <2>4. c.epoch = framer[r].epoch /\ c.sendSeq = framer[r].sendSeq
    BY Zenon, <1>8 DEF AfterPrev, Framer
  <2>5. Link(sent[r], rcvd[Peer(r)], framer[Peer(r)], c)
    BY Zenon, <1>8, <2>4, LinkHalves
  <2> HIDE DEF c
  <2> QED  BY Zenon, <1>7, <2>1, <2>2, <2>3, <2>5
<1>11. ASSUME NEW r \in Side, ReadNext(r) PROVE RatchetIInv'
  <2> DEFINE c == AfterNext(framer[r])
  <2>1. /\ InFlight(r) /\ IsNext(framer[r], HeadFrame(r))
        /\ framer' = [framer EXCEPT ![r] = c] /\ rcvd' = [rcvd EXCEPT ![r] = @ + 1]
        /\ UNCHANGED <<clock, sent, desync>>
    BY Zenon, <1>11 DEF ReadNext, Open
  <2>2. /\ Link(sent[Peer(r)], rcvd[r] + 1, c, framer[Peer(r)])
        /\ framer[r].epoch + 1 <= framer[Peer(r)].epoch
    BY Zenon, <1>8, <2>1, LinkReadNext DEF InFlight, HeadFrame
  <2>3. c \in Framer
    BY Zenon, <1>8, FramerClosed
  <2>4. Link(sent[r], rcvd[Peer(r)], framer[Peer(r)], c)
    BY Zenon, <1>8, <2>1, <2>2, LinkFollow DEF IsNext
  <2> HIDE DEF c
  <2> QED  BY Zenon, <1>7, <2>1, <2>2, <2>3, <2>4
<1>12. ASSUME NEW r \in Side, ReadFails(r) PROVE RatchetIInv'
  <2>1. desync' = [desync EXCEPT ![r] = TRUE] /\ UNCHANGED <<framer, clock, sent, rcvd>>
    BY Zenon, <1>12 DEF ReadFails
  <2>2. RatchetTypeOK'
    BY Zenon, <1>1, <2>1 DEF RatchetTypeOK
  <2>3. \A p \in Side : Link(sent'[Peer(p)], rcvd'[p], framer'[p], framer'[Peer(p)])
    BY Zenon, <1>3, <2>1
  <2> QED  BY Zenon, <2>2, <2>3 DEF RatchetIInv
<1>13. CASE UNCHANGED ratchetVars
  BY Zenon, <1>13 DEF ratchetVars, RatchetIInv, RatchetTypeOK
<1> QED  BY Zenon, <1>5, <1>6, <1>9, <1>10, <1>11, <1>12, <1>13 DEF RatchetNext, Read

\* The inductive invariant implies the safety properties.
LEMMA IInvImplies == RatchetIInv => RatchetTypeOK /\ NonceFresh /\ GraceWindow /\ LeadOverPeer
<1> SUFFICES ASSUME RatchetIInv PROVE RatchetTypeOK /\ NonceFresh /\ GraceWindow /\ LeadOverPeer
  BY Zenon
<1>1. ASSUME NEW r \in Side
      PROVE  /\ framer[r] \in Framer /\ framer[Peer(r)] \in Framer /\ rcvd[r] \in Nat
             /\ Log(sent[Peer(r)]) /\ Log(sent[r]) /\ Peer(r) \in Side /\ Peer(Peer(r)) = r
             /\ Link(sent[Peer(r)], rcvd[r], framer[r], framer[Peer(r)])
  BY Zenon, FrameTypes DEF RatchetIInv, RatchetTypeOK, Side, Peer
<1>2. NonceFresh
  <2> SUFFICES ASSUME NEW r \in Side, NEW i \in 1..Len(sent[r]), NEW j \in 1..Len(sent[r]),
                      sent[r][i] = sent[r][j]
               PROVE  i = j
    BY Zenon DEF NonceFresh
  <2>1. SendLog(sent[r], framer[r])
    BY Zenon, <1>1 DEF Link
  <2>2. sent[r][i].epoch \in Nat /\ sent[r][i].seq \in Nat /\ Len(sent[r]) \in Nat
    BY Zenon, <1>1 DEF Log
  <2>3. ~(i < j) /\ ~(j < i)
    BY <2>1, <2>2 DEF SendLog
  <2> QED  BY <2>2, <2>3
<1>3. GraceWindow
  BY Zenon, <1>1, HeadOpens DEF GraceWindow, InFlight, HeadFrame
<1>4. LeadOverPeer
  <2> SUFFICES ASSUME NEW r \in Side
               PROVE  framer[r].epoch <= framer[Peer(r)].epoch + MaxSendLead
    BY Zenon DEF LeadOverPeer
  <2>1. /\ framer[r].lastRecvEpoch <= framer[Peer(r)].epoch
        /\ framer[r].epoch <= framer[r].lastRecvEpoch + MaxSendLead
    BY Zenon, <1>1 DEF Link, Lead
  <2>2. /\ framer[r].epoch \in Nat /\ framer[r].lastRecvEpoch \in Nat
        /\ framer[Peer(r)].epoch \in Nat
    BY Zenon, <1>1, FramerTypes
  <2> QED  BY <2>1, <2>2, RatchetAssumption
<1> QED  BY Zenon, <1>2, <1>3, <1>4 DEF RatchetIInv

\* Every reachable state of a session satisfies the inductive invariant.
LEMMA SpecIInv == RatchetSpec => []RatchetIInv
BY InitIInv, NextIInv, PTL DEF RatchetSpec

\* The counters of both framers stay in range, whatever the interleaving.
THEOREM TypeCorrect == RatchetSpec => []RatchetTypeOK
BY SpecIInv, IInvImplies, PTL

\* No (key, nonce) pair seals two frames: send's counter restarts only under
\* the keys of a new epoch (SessionFramer::send, advance_epoch).
THEOREM NonceNeverReused == RatchetSpec => []NonceFresh
BY SpecIInv, IInvImplies, PTL

\* A frame fails to open only for being two or more epochs behind its reader,
\* for any number of frames in flight (SessionFramer::recv).
THEOREM GraceWindowSuffices == RatchetSpec => []GraceWindow
BY SpecIInv, IInvImplies, PTL

\* The gate in maybe_advance bounds the real lead over the peer.
THEOREM LeadBounded == RatchetSpec => []LeadOverPeer
BY SpecIInv, IInvImplies, PTL
=============================================================================
