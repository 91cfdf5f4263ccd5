# A TLA+ model of Mirage

This directory models the stateful core of Mirage: what its session, stream,
circuit, circuit-pool, token, rendezvous and DNS-tunnel code does, checked with
TLC on small instances and proved with TLAPS for every value of the constants,
as far as safety goes and TLAPS reaches. `PROJECT.json` says which lines each
definition stands for.

    tlc -config MCRendezvous.cfg MCRendezvous      # one run
    tlapm MuxProofs.tla                            # one module of proofs

## The system

A client reaches a bridge in layers.

| part | state | operations | what makes it hard |
|---|---|---|---|
| carriers (`transport-*`) | a socket each | connect, read, write | hand the session an ordered byte stream that may end |
| DNS tunnel (`transport-dnstt`) | send buffer, receive cursor and reorder buffer per end | write, poll, answer, close | queries and answers are lost, repeated and reordered, and only the client may speak first |
| session (`session`) | epoch, send and receive counters, the superseded receive keys, the last epoch read, per end | seal, open, advance by the clock or by following the peer | both ends advance alone while frames are in flight |
| mux (`mux`) | streams, credit, one outbound queue, routing map, open waiters, per end | open, accept, read, write, half-close, reset, drain, close | reader task, writer task and the handle holders of each end share a few locks |
| circuits (`circuit/bridge_circuit`, `bridge/session_task`, `circuit_executor`, `stream_dispatcher`) | a table of circuits per session, links to next hops, exit streams | create, extend, relay, destroy, sweep; begin, data, end | dials, connects, full channels and peers that do not read are awaited inside the session loop |
| rendezvous (`circuit/rendezvous`, `bridge/rendezvous_router`) | introductions, cookies, roles, pairs; a queue per session | establish, introduce, meet, relay, sweep, forget | one table shared by all sessions, which end at any time |
| circuit pool (`router/pool`, `runtime`) | entries per class, registry, notifier | acquire, release, build, fail, tick | callers, driver and builds interleave |
| tokens (`discovery/replay*`, `session/handshake`) | seen set, append-only log, clock readings | check and insert, append, compact, restore, ingest a burn | crashes, torn writes, clocks read early |
| token supply (`client`, `bridge/main`, `claim_log`) | deque and cursors per client; claims and their log, a table of roots | dial, claim, refresh, mint | two tasks share a deque, replies get lost, either side starts over |
| discovery, adaptivity, ingress, roles | bridge lists, statistics, sockets | fetch, choose, dial | mostly encoding, statistics and I/O |

They meet at four places: a session runs on a carrier, and the mux on a session,
each taken as an ordered, reliable stream (`BytePipe` states that promise, and
the mux is shown to keep it; of the DNS tunnel `InOrder` and `EverythingArrives`
say the same without the end of the stream, which it never passes on); a session is admitted
through the token check, which consults the replay set; a bridge session task
drives circuits and, for hidden services, the rendezvous router; claims and
refreshes run inside admitted sessions and put back the tokens that later
sessions present.

## Modules

| module | models | state and actions |
|---|---|---|
| `SessionRatchet` | `session/src/frames.rs`, the read and write paths of `stream.rs` | `framer` holds the counters of each `SessionFramer`; `Write`, `Read` and `Tick`; a frame that does not open drops the session. Keys are named by (epoch, seq); opening tries current, previous and next epoch as the code does |
| `MuxState` | `mux/src/state.rs` | the state machine as operators from one state and input to the next: guards and errors in the code's order |
| `MuxScheduler`, `MuxDrain` | deficit round robin of `pending_outbound` | the algorithm, run over every small queue |
| `Mux` | `mux/src/conn.rs` with two ends and the wires between | reader task in two steps (`recv` and the delivery of its event, between which the lock is free), drain pass, handle calls, `open()` in its steps, closing |
| `BytePipe` | the promise of a set of one-way pipes | what was written arrives in order; EOF only after all of it |
| `ReliableEndpoint`, `DnsTunnel` | `transport-dnstt/src/{stream,transport}.rs` | one end as operators (offsets modulo `SeqSpace`, the reorder buffer and its limit); the pumps, poller, reader and driver as actions around a network that keeps, drops and repeats packets |
| `BridgeCircuit`, `ExitDispatcher` | `circuit/src/bridge_circuit.rs`; `bridge/src/stream_dispatcher.rs` | the circuit table and `out_to_in`; the exit streams with their writer and reader tasks, channels and time-outs |
| `CircuitSession` | the circuit half of `session_task.rs`, `circuit_executor.rs`, the roles of `main.rs` | composes the two: one event at a time, with the awaits (dial, connect, room in a channel, and the writes to the previous hop, a next hop or a link given up) as places where the loop stands while the other tasks go on |
| `TokenSupply` | `next_credentials` and the claim and refresh loops of `client/src/lib.rs`; `RefreshState`, `ClaimState` and their handlers in `bridge/src/main.rs`; `claim_log.rs` | sessions as client tasks see them, known on the bridge by the token they presented; a user's session may ask for anything; both sides restart; the claim log is the set of records the next load finds, with the part that survives a power failure |
| `CircuitPool`, `PoolDriver` | `router/src/pool.rs`; `runtime/src/{pool,driver,lib}.rs` | entries per class; callers, driver and builds as processes |
| `TokenReplay` | `discovery/src/{replay,replay_log}.rs`, the token part of message 3, ingested burns | the set, the file as a sequence of half records, its synced prefix, `BufWriter` leftovers, and the handshakes with the clock each one read |
| `Rendezvous` | `circuit/src/rendezvous.rs` | the four tables; one action per operation |
| `RendezvousRouter` | `bridge/src/rendezvous_router.rs` and the rendezvous half of `session_task.rs` | sessions, their queues, the circuits each task takes for rendezvous ones; a handler is one step, since it holds one lock and otherwise touches its own session |
| `Lists` | `retain`, `position`, iteration over a map, sums | what the models compute with sequences, in a form a prover can expand |
| `ListProofs` | | induction over numbers and sequences; what filters and sums do |
| `SessionProofs` | | theorems on `SessionRatchet`, `RendezvousRouter` and `CircuitSession` |
| `MuxProofs` | | theorems on `Mux` and `MuxDrain` |
| `PoolLemmas`, `PoolSteps`, `PoolDriverProofs` | | the pool: its operators, its actions, its theorems |
| `TokenReplayProofs`, `TokenSupplyProofs` | | theorems on `TokenReplay` and `TokenSupply` |

`MC*` modules and `.cfg` files give the constants their values. A definition
placed before a modelled one with nearly its body is a faulty variant of it; it
is used to see that a property notices the fault.

Time is a bounded clock where durations are compared (`SessionRatchet`,
`TokenReplay`) and one bit, "past its limit", elsewhere. Payloads are counted or
named, never spelled out; cryptography succeeds exactly when key and nonce match.

`TypeOK` says what the variables of a specification range over. It documents the
state and serves the proofs; the runs spend their properties on other things.

## Runs

| run | asks | bounds and why they suffice |
|---|---|---|
| `ratchet` | nonces fresh; a frame opens unless its reader is two epochs past it; lead bounded; a peer follows | lead 2, epochs to 3, 3 frames a direction: reaches the epoch limit, all three trial keys, and frames two epochs late |
| `mux_flow` | flow control, order, no `open()` after close, and the connection implements two `BytePipe`s (EOF only when complete) | one stream, window 2, queue of 2, 3 bytes one way: credit runs out, the queue fills, a body is split, ends close or drop the handle at any step |
| `mux_live` | every `open` answered, every half-close arrives, no handle forgotten | streams from both ends with room for one, current-thread runtime, queue that does not fill |
| `mux_drain` | order in a stream, fair share, termination of the round robin | every queue of up to 4 frames of 3 streams, bodies above the quantum included |
| `pool` | every build has its entry, stream counts, registry, teardown, wake-ups, failed circuits destroyed | 2 callers, 2 builds, 2 circuits of 2 streams each: a second build, a full class, a waiting caller, and a caller counted twice all occur |
| `replay` | an accepted token stays in the log and is not accepted again in its window | 3 tokens on a set of 2, 2 handshakes with clock readings of their own, power loss and failed syncs: eviction, a truncated restore, and a second acceptance just after the window are reached |
| `rendezvous` | pairs whole and stable, registrations backed and released, expired entries swept | 2 sessions of 2 circuits, 1 key, 2 cookies with room for 1, queues of 1: takeover of an expired key, a full table, a full queue, ends of either session |
| `dnstt` | bytes in order, none lost or doubled; nothing leaves the send buffer before it was taken; everything written and every FIN arrives at the other endpoint | 2 bytes up, 1 down, segments of 1 or 2, a pipe of 1 byte to each application, 1 packet towards the client and 2 towards the server: segments overlap, come late and repeated, and both drivers wait for their readers. Each end sends from its oldest unacknowledged byte, so with two such ends no segment comes early: the reorder buffer is modelled but stays empty |
| `circuit` | the token gate, `out_to_in` inverse to the entries, one responder per circuit that owes a token, a link behind every extended circuit, and the loop comes back unless a peer stops reading | 2 circuits for 1 pending handshake and 2 outgoing ids, 1 exit stream, channels of 1, all four roles: ids are refused, reused after the sweep, destroyed from either side in mid-dial, the exit's channels fill both ways, a next hop's cell bears the other circuit's id, and peers stop reading |
| `tokens` | a claim granted once until there is a reason to forget it, refresh tokens bounded per bootstrap token and one generation deep, no refresh token offered twice | a forward-secure and a legacy token, 1 claim, 2 refresh ids, a table of 1 root, any restarts of the client and one of the bridge, lost replies, appends that fail whole or half, no sync: the claim is tried again with the other token while an older session is still served, a session that presented a refresh token asks for a claim and for a refresh, each of the reasons to forget a claim occurs, the table forgets a root |

`CHECK_DEADLOCK FALSE` stands where the system may stop: sessions end, streams
close, the bounds are used up.

### Disagreements found

Two runs are expected to fail; each states what a comment in the source says.

| run | the source says | what happens |
|---|---|---|
| `mux_orphan` | a closed stream never orphans a parked task | a drain pass between `recv` and the delivery prunes the handle; its reader waits for ever. Needs a multi-thread runtime |
| `replay_torn` | a torn record cannot desync later appends | if the realigning flush fails too, the `BufWriter` puts the rest of the torn record in front of the next one |

`mux_live` checks the property of `mux_orphan` where it does hold: when the
reader and the writer share one thread, no pass can fall between the two steps.

The models contain further behaviour that a comment does not lead one to expect.
No run is kept for it; the action named shows it.

- `frames.rs:33` wants a frame in flight across an epoch boundary to decrypt and
  `stream.rs:346` a lead of one epoch. The lead may be 16 epochs and one old epoch
  is kept (`Read`, `Write`): a frame two of its reader's advances late is lost, and
  the session with it. `GraceWindow` speaks of the frames before that point.
- `mux/conn.rs:825`: `end_local` errors only if the stream is gone. It also fails
  on a full queue, and the half-close is then recorded as sent (`EndIfDone`).
- `session_task.rs`: a circuit with a rendezvous role is never an exit. A join is
  recorded before the client is told; when its queue is full the service's session
  does not take the circuit for a rendezvous one (`RendezvousUntold`).
- `main.rs`: the roles of a session are all expressible. A relay-capable bridge
  that serves a direct client verifies tokens without relay mode, which
  `check_relay_token_coupling` refuses (`Start` of `CircuitSession`).
- `bridge_circuit.rs:1585`: the client of a reaped circuit must be told that it
  died. The session task's `DestroyPrevLink` writes nothing to it
  (`reap_circuit`). After a DESTROY of the next hop the executor keeps the dead
  link (`handle_destroy_from_next`), and the pump of a link that closes tells
  nobody: the model has no action for it, as nothing of the session changes.
- `stream_dispatcher.rs`: END half-closes. The session task forgets the stream's
  circuit at that END, so what the upstream still sends is discarded (`End`).
- `stream_to_circ` is keyed by stream id alone and written before the dispatcher
  accepts the BEGIN; a circuit that reuses an id, or a new circuit with an old
  circuit's id, takes over its return path (`Begin`, `Purge`, `ExitEvent`). A
  reader that meets its EOF late removes the entry of a newer stream
  (`ReaderEnds`).
- `transport-dnstt`: offsets wrap at 2^32 but are compared as plain numbers
  (`ApplyAck`, `Accepted`), so a tunnel stops after 4 GiB in one direction; the
  run stays below `SeqSpace`. The comment at `transport.rs:393` has a session end
  when the peer FIN'd; only tests read `peer_finished`, and a FIN ends neither the
  driver nor the poller and is not passed on to the application.
- `client/lib.rs:4395`: a refresh costs one token and returns eight. The bridge
  gives at most four to a request (`REFRESH_MAX_PER_REQUEST`) and no more than the
  per-root cap, and to a session that presented a refresh token
  nothing (`handle_refresh_request`): with one to three fresh tokens left each
  refresh burns one of them for a refusal.
- `replay.rs:68-77` and the error text at 110-117: a truncated restore reopens the
  window of the tokens it drops. It may also shorten the window of one it keeps:
  the last record of a token counts, and that one may be among the dropped. The
  variable `reopened` of `TokenReplay` has both, and `AcceptedOnceInWindow` speaks
  of the other tokens.
- `main.rs:473-475` and `refresh.rs:104-106` speak of a prior refresh token as a
  root with a cap of its own. Both handlers refuse to mint for one
  (`refresh_authenticated`). Since a session makes one request and its token is
  burned, the table of roots and its counters never decide anything while the
  replay set holds: `LineageBound` is kept by the replay set and the limit per
  request.
- `claim_log.rs:125-128`: a torn record cannot desync the loader and drop a claim.
  As in the replay log, when the realigning flush fails too the `BufWriter` keeps
  the rest of the record and puts it in front of the next one (`AppendFails`,
  `append`): later claims are granted and not found by the next load.
- A claim log that cannot be read or opened is a warning, and the bridge goes on
  without it (`Restore`). `claim_log_fsync` is off by default (`main.rs:505-510`),
  so a power failure may take the last grants. `ClaimedOnce` counts a claim anew
  after these and after a grant past the log, and only then (`Forgettable`).
- `router/pool.rs:259-262`: the runtime should release as many queued streams onto
  a built circuit as `record_built` returns. `driver.rs:248` drops the number: a
  waiter acquires again and is counted a second time. What was reserved is never
  released, so `PoolEntry::streams` stays above the streams in use and such a
  circuit is not retired by age, only when it failed (`Built`, `StreamsCounted`).
- A cell of a next hop is looked up by its id alone, whichever link brought it
  (`circuit_executor.rs:406-413`, `NextHopCell`): `OutInverse` says which circuit
  an id stands for, not that only its own link may name it.
- The writes of cells have no time-out (`PeerWaits`): a peer that stops reading
  holds the session's loop for ever, and two neighbouring bridges with full
  buffers can wait for each other.

## Fairness

- `SessionRatchet`: a reader keeps polling while a frame is there. Writes are
  not fair; nobody has to send.
- `Mux`: the reader, the writer, the close path and each call a handle holder
  has begun run when they can; every wait in the code is paired with a waker.
  Nobody has to write, shut down or drop.
- `MuxDrain`: a loop that goes on while it can.
- `PoolDriver`: the driver loop and the notification it triggers. Callers and
  builds owe nothing.
- `RendezvousRouter`: some live session reaches its tick arm. A loop can be held
  up by a peer that does not read, so fairness is asked of the sweep as a whole
  and not of each session; if every live session is held up for ever nothing
  sweeps, and `ExpiredSwept` does not speak of that.
- `DnsTunnel`: the pumps, the poller and the driver are tasks that go on, and the
  applications read. The poller asks for ever and the serve loop's queue holds a
  query for the driver, so a packet that is up to date is not lost for ever nor
  shown to its reader only while that is busy (strong fairness). Nobody has to
  write or close.
- `CircuitSession`: dials and connects end, since each has a time-out in the
  code; a write task runs, and its write ends by the time-out if by nothing else;
  the tick is taken if it is ready again and again (strong fairness: `select!`
  polls its branches in random order). Nothing is asked of the peers, the
  upstream or the read tasks. A write to a peer therefore may never end, and
  `LoopComesBack` excepts the behaviours in which one does not.

## Proofs

tlapm has no induction over data that its provers can use, so `ListProofs` builds
one: a non-empty set of naturals has a least element (`LeastNumber`), hence a set
that contains 0 and successors is `Nat` (`NatInduct`), hence every sequence is
reached by appending (`SeqInduct`), and a function that follows a recursion up to
a bound exists and is unique (`Recursion`, `RecursionUnique`). What `Filter` and
`Total` do on an append, a concatenation or an update follows, and is what the
proofs on the scheduler, the pool and the replay log rest on.

**Session ratchet** (`SessionProofs`), for every lead, epoch limit, clock and number of
frames (`RatchetAssumption`: they are naturals). None of the four properties is
inductive: that a nonce is fresh depends on where the writer's counters are, and
that a frame opens depends on which frames were read. The invariant `RatchetIInv` adds
for each direction a `Link` between the frames sealed, the number read, and the
two framers:

- `SendLog`: frames are in (epoch, seq) order below the writer's counters;
- `RecvCursors`: what was read lies below the reader's cursors, and the older
  cursor is live until a current frame has been read;
- `Contiguous`: no unread frame skips an epoch, and the writer cannot make the
  next one do so;
- `Lead`: what the reader takes for the writer's epoch is not ahead of it, and
  the reader's own lead is bounded over that.

It yields `TypeCorrect`, `NonceNeverReused`, `GraceWindowSuffices` and
`LeadBounded`.

**Mux connection** (`MuxProofs`), for any streams, windows and queue sizes and both
kinds of runtime. `NoOpenAfterClose` needs `WaiterKept`: until `close_connection`
has drained `open_waiters`, an `open()` between its insert and its answer is in
them. The frames play no role, so neither do their types.
It yields `NoOpenAfterCloseHolds`.

**Mux scheduler** (`MuxProofs`), for every queue content, quantum and frame size
(`MuxPolicyAssumption`, `QuantumAssumption`). `DrainInv` says what one turn after
the other leaves: every stream's frames are split into what has gone out and what
is queued (`StreamOrderKept` itself), the active list names each backlogged stream
once, a stream's deficit is less than its next frame's cost, what a stream has
sent plus its deficit is a whole number of quanta, and that number is the same
for all backlogged streams up to one, by their places in the active list.
`StreamOrderKeptHolds` and `FairShareHolds` follow; the second needs the rounds
because two streams are compared after different numbers of turns.

**Rendezvous** (`SessionProofs`), for any sets of sessions, circuits, keys and cookies
(`RendezvousAssumption`, `RouterAssumption`). `RvTypeOK`, `PartnersAgree` and
`RolesBacked` are inductive together and not apart: a join keeps pairs symmetric
only because the waiting client holds a cookie and hence no partner, and a sweep
spares pairs only because what it sweeps holds a registration. Each operation
has its lemma. `RouterImplementsTables` shows that every step of the router is a
step of the tables or leaves them alone, which carries the results over:
`TablesTyped`, `PairsWhole`, `RegistrationsBacked`, `PairsStable`. The last one,
`GoneReleased`, needs the router's own state: the invariant `Recorded` says that
a session task remembers every circuit of its own that holds something in the
tables and that only live sessions have circuits, so that the clean-up at a
session's end finds them all.

**Circuit sessions** (`SessionProofs`), for any circuits, ids and streams
(`CircuitAssumption`, `SessionAssumption`). The four invariants are inductive
with the type invariant and `EntryOK` for each circuit, which relates an entry's
state to its outgoing id, its token and its pending dial. Removal of an entry is proved once and
used by every path that ends a circuit: a peer's DESTROY, a failed dial, the end
of the next link and the end of the session. `TokenGateHolds`, `OutInverseHolds`,
`RespondersExactHolds`, `NextLinkBackedHolds`.

**Token supply** (`TokenSupplyProofs`), for any clients, tokens, claims, table
sizes and restarts, with and without sync (`SupplyAssumption`). The invariant has
`Typed`, `ServedOnce` (a session still to be served has minted nothing since the
replay set last lost its token, and only burned bootstrap tokens have), `Bounded`
(how many a bootstrap token has minted since then) and `Durable` (what was granted
and has no reason to be forgotten is in memory and in the part of the log that a
restart finds: the synced part with `Fsync`, all of it without). `ClaimedOnceHolds`
and `LineageBoundHolds` follow. Neither uses the `per_root` counters: the bound on a
lineage holds without them. `NeverReplayedHolds`: a client presents a refresh token at most once. Its
invariant `HInv` says that such a token is in one place at a time (a client's
deque, a dial or an answer on its way), at one position there, and was never
accepted while it is, whatever the replay set has lost.

**Circuit pool** (`PoolLemmas`, `PoolSteps`, `PoolDriverProofs`), for any callers,
builds, classes and limits (`PoolPolicyAssumption`, `DriverAssumption`). The
properties the run checks lean on one another, and the invariant `Inv` holds them
together with what they need: `Typed`; `Distinct` and `Indexed` (an id is in one
entry of one class, and the id index of a class is the ids of its live entries);
`Issued` (an id beyond the counter is nowhere, and one between build and record is
in the registry and in no entry); `Counted` (an entry's stream count is at least the
number of its callers); `EveryBuildHasItsEntry` and `PendingCapped` (building entries are
the builds in flight and those still to be spawned); `HopsWhileBuilding` and
`NoHopLeaks`; `Wakeups` (a caller that waits while its class has room has a
notification on its way). `PoolLemmas` says what each operation of `pool.rs` does
to counts, ids and places; `PoolSteps` and `PoolDriverProofs` have a lemma for each
action.

**Token replay** (`TokenReplayProofs`), for any tokens, set sizes, windows and
clocks (`ReplayAssumption`). The theorems assume `Reliable`: a write never fails
part of the way (it may fail to sync), and either every append is synced or a crash
does not lose what was written. `replay_torn` shows that the first is needed. `Inv`
has `Typed`; `Aligned` (while the bridge runs the log ends with a whole record);
`Logged` (the record of an acceptance in its window is in the part of the log that
a crash leaves); `Ordered` (no later record of the token hides it from a restore);
`Remembered` (the set refuses the token), the last two unless a truncated restore
has reopened the window. `ReplayInv`, `DurableBurnHolds` and
`AcceptedOnceInWindowHolds` follow.

Only model-checked:

- liveness, which needs fairness and ENABLED: `PeerFollows`, `OpenAnswered`,
  `HalfClosePropagates`, `DrainEnds`, `FailedIsDestroyed`, `ExpiredSwept`,
  `EverythingArrives`, `LoopComesBack`;
- the refinement of `BytePipe` by the mux, which rests on the next ones;
- the flow-control and order invariants of a mux connection (`NoOverSend`,
  `WindowBoundsMemory`, `DeliveredInOrder`, `NeverOrphaned`);
- `InOrder` and `KeptUntilTaken` of the DNS tunnel, whose reassembly is a
  RECURSIVE operator, which takes the module out of the prover's reach.

## Not modelled

- Cryptography, encodings and wire formats: a message verifies or it does not.
- Carriers, discovery channels, SOCKS and TUN ingress, user interfaces: I/O.
- Transport selection and learning: floating-point statistics.
- Lock poisoning, and clocks that step backwards.
- The two halves of `session_task.rs` in one model: `CircuitSession` has no
  rendezvous cells and `RendezvousRouter` no circuit table. A circuit that ends
  inside a live session keeps its rendezvous role; the router has this
  (`RemoveCircuit`, `OpenCircuit`) but no property about it, since a circuit is
  known by its id alone.
- DNS lookups of a BEGIN have no time-out in the code; the model takes the
  resolver's own as given.
- Half records of the claim log: `TokenSupply` knows which records the next load
  finds, `TokenReplay` has the same writer half record by half record.
- Directory entries: `replay_log.rs:285` renames the compacted log, and both logs
  are created, without a sync of the directory. The models take the name as
  durable once the call returns.
- `read_cell` inside `select!`: another branch may cancel it with part of a cell
  read, and its time-out starts again at every turn of the loop. `CircuitSession`
  reads a cell whole or not at all, and may end the session on silence at any time.
- Per-peer admission, the client's list of bridges, path migration and cohort
  gossip: small machines of their own that nothing above depends on, left for
  later.

`PROJECT.json` lists every part with its reason, and the hazards that no property
covers yet.
