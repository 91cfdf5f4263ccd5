--------------------------- MODULE SessionRatchet ---------------------------
(***************************************************************************)
(* The outer-layer epoch ratchet of a Mirage session: the two              *)
(* SessionFramers of crates/session/src/frames.rs, driven by the two       *)
(* SessionStreams of crates/session/src/stream.rs over a reliable, ordered *)
(* duplex carrier.                                                         *)
(*                                                                         *)
(* Each framer has ONE epoch for both directions.  An advance re-keys send *)
(* and recv together, restarts both sequence counters and keeps the        *)
(* superseded recv state as a one-epoch grace window.  A frame is          *)
(* identified by what its AEAD binds: the epoch (key, IV, AAD) and the     *)
(* sequence number (nonce, AAD).  Decryption under (e, s) succeeds exactly *)
(* on the frame sealed under (e, s); payloads are left out.                *)
(*                                                                         *)
(* sent[r] is every frame r has sealed, in order; rcvd[r] counts how many  *)
(* of its peer's frames r has opened.  The frames in between are in        *)
(* flight: in the sender's TxState::Draining buffer or on the carrier,     *)
(* which keep the same order.                                              *)
(***************************************************************************)
EXTENDS Integers, Sequences

CONSTANTS
    MaxSendLead,  \* MAX_SEND_LEAD_EPOCHS (16 in the code)
    PromptCarrier,\* TRUE: no frame is in flight for a whole ratchet interval
    MaxEpoch,     \* u32::MAX, the last epoch the nonce can carry
    MaxClock,     \* bound: ratchet intervals that elapse in a behaviour
    MaxFrames     \* bound: frames each side seals in a behaviour

ASSUME RatchetAssumption ==
    /\ MaxSendLead \in Nat
    /\ PromptCarrier \in BOOLEAN
    /\ MaxEpoch \in Nat
    /\ MaxClock \in Nat
    /\ MaxFrames \in Nat

VARIABLES
    framer,   \* role -> the SessionFramer's counters
    clock,    \* role -> ratchet_start.elapsed() / ratchet_secs
    sent,     \* role -> frames sealed so far, in order
    rcvd,     \* role -> number of the peer's frames opened so far
    desync    \* role -> recv failed and the session was dropped

ratchetVars == <<framer, clock, sent, rcvd, desync>>

Side == {"Initiator", "Responder"}
Peer(r) == IF r = "Initiator" THEN "Responder" ELSE "Initiator"

NoPrev == -1   \* recv_prev = None

Framer == [epoch : Nat, sendSeq : Nat, recvSeq : Nat,
           recvPrev : Nat \cup {NoPrev}, lastRecvEpoch : Nat]

Frame == [epoch : Nat, seq : Nat]

-----------------------------------------------------------------------------
(* SessionFramer operations.                                               *)

FreshFramer ==
    [epoch |-> 0, sendSeq |-> 0, recvSeq |-> 0,
     recvPrev |-> NoPrev, lastRecvEpoch |-> 0]

\* Mutants of AdvanceEpoch: the sequence numbers restart without a new epoch;
\* the superseded recv state is not retained.
AdvanceEpochSameKey(f) ==
    [f EXCEPT !.sendSeq = 0, !.recvSeq = 0, !.recvPrev = f.recvSeq]
AdvanceEpochNoGrace(f) ==
    [f EXCEPT !.epoch = @ + 1, !.sendSeq = 0, !.recvSeq = 0, !.recvPrev = NoPrev]

\* Re-key both directions; the old recv counter becomes the grace window.
AdvanceEpoch(f) ==
    [epoch |-> f.epoch + 1, sendSeq |-> 0, recvSeq |-> 0,
     recvPrev |-> f.recvSeq, lastRecvEpoch |-> f.lastRecvEpoch]

\* Mutant of WantsAdvance: the lead gate is dropped.
WantsAdvanceUngated(f, target) == f.epoch < target

\* Is the wall clock ahead of us, and our lead over the peer within bounds?
WantsAdvance(f, target) ==
    /\ f.epoch < target
    /\ f.epoch < f.lastRecvEpoch + MaxSendLead

MaybeAdvance(f, target) == IF WantsAdvance(f, target) THEN AdvanceEpoch(f) ELSE f

\* An advance past u32::MAX is an error, and the write fails with it.
AdvanceFails(f, target) == WantsAdvance(f, target) /\ f.epoch >= MaxEpoch

Sealed(f) == [epoch |-> f.epoch, seq |-> f.sendSeq]

\* The three trial decryptions of recv.
IsCurrent(f, fr) == fr.epoch = f.epoch /\ fr.seq = f.recvSeq
IsPrev(f, fr) ==
    /\ f.epoch > 0
    /\ f.recvPrev # NoPrev
    /\ fr.epoch = f.epoch - 1
    /\ fr.seq = f.recvPrev
IsNext(f, fr) ==
    /\ f.epoch < MaxEpoch
    /\ fr.epoch = f.epoch + 1
    /\ fr.seq = 0
Opens(f, fr) == IsCurrent(f, fr) \/ IsPrev(f, fr) \/ IsNext(f, fr)

\* Mutants of AfterNext: the frame is taken but the epoch is not adopted; the
\* sequence number it consumed is counted down.
AfterNextNoFollow(f) == [f EXCEPT !.lastRecvEpoch = f.epoch + 1]

\* Which::Current wipes the grace window, Which::Prev leaves the epoch
\* alone, Which::Next follows the peer and consumes sequence number 0.
AfterCurrent(f) ==
    [f EXCEPT !.recvSeq = @ + 1, !.lastRecvEpoch = f.epoch, !.recvPrev = NoPrev]
AfterPrev(f) == [f EXCEPT !.recvPrev = @ + 1]
AfterNext(f) ==
    [AdvanceEpoch(f) EXCEPT !.recvSeq = 1, !.lastRecvEpoch = f.epoch + 1]

-----------------------------------------------------------------------------
(* The two SessionStreams.                                                 *)

RatchetInit ==
    /\ framer = [r \in Side |-> FreshFramer]
    /\ clock = [r \in Side |-> 0]
    /\ sent = [r \in Side |-> <<>>]
    /\ rcvd = [r \in Side |-> 0]
    /\ desync = [r \in Side |-> FALSE]

InFlight(r) == rcvd[r] < Len(sent[Peer(r)])
HeadFrame(r) == sent[Peer(r)][rcvd[r] + 1]

\* Time passes.  Both streams start their ratchet clock when the handshake
\* completes, so the two never disagree by more than one interval.
IntervalElapses(r) ==
    /\ clock[r] < MaxClock
    /\ clock[r] <= clock[Peer(r)]
    /\ PromptCarrier => \A q \in Side : ~InFlight(q)
    /\ clock' = [clock EXCEPT ![r] = @ + 1]
    /\ UNCHANGED <<framer, sent, rcvd, desync>>

\* poll_write: step the ratchet at most once, then seal one frame.
Write(r) ==
    /\ ~desync[r]
    /\ Len(sent[r]) < MaxFrames
    /\ ~AdvanceFails(framer[r], clock[r])
    /\ LET f == MaybeAdvance(framer[r], clock[r]) IN
         /\ sent' = [sent EXCEPT ![r] = Append(@, Sealed(f))]
         /\ framer' = [framer EXCEPT ![r] = [f EXCEPT !.sendSeq = @ + 1]]
    /\ UNCHANGED <<clock, rcvd, desync>>

\* poll_read with a whole frame available: SessionFramer::recv.
Open(r, opens, after) ==
    /\ ~desync[r]
    /\ InFlight(r)
    /\ opens
    /\ framer' = [framer EXCEPT ![r] = after]
    /\ rcvd' = [rcvd EXCEPT ![r] = @ + 1]
    /\ UNCHANGED <<clock, sent, desync>>

ReadCurrent(r) ==
    Open(r, IsCurrent(framer[r], HeadFrame(r)), AfterCurrent(framer[r]))

ReadPrev(r) ==
    Open(r, /\ ~IsCurrent(framer[r], HeadFrame(r))
            /\ IsPrev(framer[r], HeadFrame(r)), AfterPrev(framer[r]))

ReadNext(r) ==
    Open(r, /\ ~IsCurrent(framer[r], HeadFrame(r))
            /\ ~IsPrev(framer[r], HeadFrame(r))
            /\ IsNext(framer[r], HeadFrame(r)), AfterNext(framer[r]))

\* No trial decryption matched: the stream is desynchronised and dropped.
ReadFails(r) ==
    /\ ~desync[r]
    /\ InFlight(r)
    /\ ~Opens(framer[r], HeadFrame(r))
    /\ desync' = [desync EXCEPT ![r] = TRUE]
    /\ UNCHANGED <<framer, clock, sent, rcvd>>

Read(r) == ReadCurrent(r) \/ ReadPrev(r) \/ ReadNext(r) \/ ReadFails(r)

RatchetNext == \E r \in Side : IntervalElapses(r) \/ Write(r) \/ Read(r)

\* The runtime polls a stream whose carrier has data to read.
RatchetFairness == \A r \in Side : WF_ratchetVars(Read(r))

RatchetSpec == RatchetInit /\ [][RatchetNext]_ratchetVars /\ RatchetFairness

-----------------------------------------------------------------------------
(* Properties.                                                             *)

\* Every counter of the two framers and streams stays in its range.
RatchetTypeOK ==
    /\ framer \in [Side -> Framer]
    /\ clock \in [Side -> Nat]
    /\ sent \in [Side -> Seq(Frame)]
    /\ rcvd \in [Side -> Nat]
    /\ \A r \in Side : rcvd[r] <= Len(sent[Peer(r)])
    /\ desync \in [Side -> BOOLEAN]

\* No (key, nonce) pair is ever used for two frames of one direction, although
\* an advance (by the clock or by following the peer, in any interleaving)
\* restarts the sequence numbers (SessionFramer::send, advance_epoch).
NonceFresh ==
    \A r \in Side : \A i, j \in 1..Len(sent[r]) :
        sent[r][i] = sent[r][j] => i = j

\* The grace window does its job up to its width: whatever both sides did while
\* the frame was in flight, the next frame opens unless the reader has moved two
\* or more epochs past the one it was sealed under.  In particular a frame is
\* never lost for being ahead, nor for its sequence number (recv's three trials).
GraceWindow ==
    \A r \in Side :
        InFlight(r) /\ framer[r].epoch <= HeadFrame(r).epoch + 1
            => Opens(framer[r], HeadFrame(r))

\* A framer never runs more than MAX_SEND_LEAD_EPOCHS ahead of where its peer
\* really is, although the gate in maybe_advance only sees the last frame read.
LeadOverPeer ==
    \A r \in Side : framer[r].epoch <= framer[Peer(r)].epoch + MaxSendLead

\* A peer reactively follows: once a frame is sealed under an epoch, the other
\* side reaches that epoch too, or has dropped the session.
PeerFollows ==
    \A r \in Side : \A e \in 1..MaxClock :
        (\E i \in 1..Len(sent[r]) : sent[r][i].epoch = e)
            ~> (framer[Peer(r)].epoch >= e \/ desync[Peer(r)])
=============================================================================
