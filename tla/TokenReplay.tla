---------------------------- MODULE TokenReplay ----------------------------
(***************************************************************************)
(* Single use of capability tokens on one bridge: the in-memory replay set *)
(* (discovery/src/replay.rs), its append-only log with process crashes,    *)
(* power loss and restarts (discovery/src/replay_log.rs), the token check  *)
(* that concurrent handshakes make in message 3 (session/src/handshake.rs) *)
(* with the clock value each read when it began (bridge/src/main.rs), and  *)
(* the burns that cohort peers gossip (bridge/src/cohort_replay.rs).       *)
(*                                                                         *)
(* A 40-byte record is two halves here, so that a write can be torn.  A    *)
(* chunk the loader reads across two records has an id that no token has;  *)
(* it is left out of what Load returns.  The file header is not modelled.  *)
(***************************************************************************)
EXTENDS Integers, Sequences, FiniteSets, FiniteSetsExt, Lists

CONSTANTS
    Tokens,            \* capability tokens of this bridge, correctly signed
    ExpiresAt,         \* [Tokens -> Nat], the expires_at field
    Grace,             \* TOKEN_GRACE_SECONDS
    MaxEntries,        \* max_entries of the set
    IngestTtl,         \* lifetime of a gossiped burn
    Handshakes,        \* concurrent responder handshakes
    HandshakeTimeout,  \* deadline of a handshake, in clock ticks
    Fsync,             \* fsync_every_write
    PowerLoss,         \* a crash may also lose what was not synced
    Faults,            \* the I/O errors an append may meet
    MaxClock,          \* bound on the clock
    MaxRecords         \* bound on the records of the log

ASSUME ReplayAssumption ==
    /\ ExpiresAt \in [Tokens -> Nat]
    /\ MaxEntries \in Nat \ {0}
    /\ {Grace, IngestTtl, HandshakeTimeout, MaxClock, MaxRecords} \subseteq Nat
    /\ {Fsync, PowerLoss} \subseteq BOOLEAN
    /\ Faults \subseteq {"write", "sync"}

VARIABLES
    clock,      \* unix time of the bridge host, never stepped back
    up,         \* the bridge process is running
    entries,    \* token id -> expiry, the HashMap of the set
    reopened,   \* history: accepted tokens that a truncated restore forgot
    file,       \* body of the log, in half records
    synced,     \* how much of it has reached the disk
    buffer,     \* what the BufWriter still holds
    hs,         \* handshake -> [pc, now]
    accepted    \* history: how often each token was accepted

vars == <<clock, up, entries, reopened, file, synced, buffer, hs, accepted>>
store == <<entries, file, synced, buffer>>

----------------------------------------------------------------------------
(* The log. *)

RecordLen == 2
Half == [id : Tokens, expiry : Nat, part : 1..RecordLen]
Record(t, e) == [p \in 1..RecordLen |-> [id |-> t, expiry |-> e, part |-> p]]

WholeRecords(f) == SubSeq(f, 1, Len(f) - (Len(f) % RecordLen))

Chunks(f) == [i \in 1..(Len(f) \div RecordLen) |->
                 [p \in 1..RecordLen |-> f[RecordLen * (i - 1) + p]]]

Live(now) == {c \in [1..RecordLen -> Half] :
                 c = Record(c[1].id, c[1].expiry) /\ c[1].expiry >= now}

Load(f, now) == Filter(Chunks(f), Live(now))

Compact(records) == [k \in 1..(RecordLen * Len(records)) |->
                        records[((k - 1) \div RecordLen) + 1][((k - 1) % RecordLen) + 1]]

(* What an append leaves in the file and in the BufWriter.  A failed flush *)
(* keeps the unwritten bytes buffered; realign_to_record_boundary flushes  *)
(* once more and cuts the file, which may fail too.                        *)
Appended(t, e) ==
    [ok |-> TRUE, file |-> file \o buffer \o Record(t, e), buffer |-> <<>>,
     synced |-> IF Fsync THEN Len(file \o buffer) + RecordLen ELSE synced]

WriteFailures(t, e) ==
    LET pending == buffer \o Record(t, e)
        cut(k) == file \o SubSeq(pending, 1, k)
    IN  UNION {{[ok |-> FALSE, file |-> f, synced |-> Min({synced, Len(f)}),
                 buffer |-> SubSeq(pending, k + 1, Len(pending))] :
                    f \in {cut(k), WholeRecords(cut(k))}} : k \in 0..Len(pending)}

SyncFailure(t, e) ==
    [ok |-> FALSE, file |-> file \o buffer \o Record(t, e), buffer |-> <<>>,
     synced |-> synced]

append(t, e) ==
    {Appended(t, e)}
        \cup (IF "write" \in Faults THEN WriteFailures(t, e) ELSE {})
        \cup (IF Fsync /\ "sync" \in Faults THEN {SyncFailure(t, e)} ELSE {})

----------------------------------------------------------------------------
(* The set. *)

Without(es, T) == [t \in DOMAIN es \ T |-> es[t]]
With(es, t, e) == [u \in DOMAIN es \cup {t} |-> IF u = t THEN e ELSE es[u]]

Full(es) == Cardinality(DOMAIN es) >= MaxEntries

EvictEarly(es, now) == Without(es, {t \in DOMAIN es : es[t] <= now})
evict_expired(es, now) == Without(es, {t \in DOMAIN es : es[t] < now})

MadeRoom(es, now) == IF Full(es) THEN evict_expired(es, now) ELSE es

(* check_and_insert: a known id, or no room, is a refusal; a failed append *)
(* takes the entry back out.                                               *)
Refuses(t, now) == t \in DOMAIN entries \/ Full(MadeRoom(entries, now))

Refuse(t, now) ==
    /\ Refuses(t, now)
    /\ entries' = IF t \in DOMAIN entries THEN entries ELSE MadeRoom(entries, now)
    /\ UNCHANGED <<file, synced, buffer>>

Insert(t, e, now, outcome) ==
    /\ ~Refuses(t, now)
    /\ Len(file) < RecordLen * MaxRecords
    /\ entries' = IF outcome.ok THEN With(MadeRoom(entries, now), t, e)
                                ELSE MadeRoom(entries, now)
    /\ file' = outcome.file
    /\ synced' = outcome.synced
    /\ buffer' = outcome.buffer

----------------------------------------------------------------------------
(* Handshakes. *)

Retention(t) == ExpiresAt[t] + Grace
is_expired(t, now) == now > Retention(t)

Idle == [pc |-> "idle", now |-> 0]
Finished(h) == [hs EXCEPT ![h] = Idle]

BeginHandshake(h) ==
    /\ up /\ hs[h].pc = "idle"
    /\ hs' = [hs EXCEPT ![h] = [pc |-> "open", now |-> clock]]
    /\ UNCHANGED <<clock, up, reopened, accepted, store>>

(* A timeout, or a message 3 refused before the replay set is asked.       *)
EndHandshake(h) ==
    /\ up /\ hs[h].pc = "open"
    /\ hs' = Finished(h)
    /\ UNCHANGED <<clock, up, reopened, accepted, store>>

read_message_3(h, t) ==
    /\ up /\ hs[h].pc = "open"
    /\ ~is_expired(t, hs[h].now)
    /\ hs' = Finished(h)
    /\ \/ Refuse(t, hs[h].now) /\ UNCHANGED <<accepted, reopened>>
       \/ \E outcome \in append(t, Retention(t)) :
             /\ Insert(t, Retention(t), hs[h].now, outcome)
             /\ accepted' = IF outcome.ok THEN [accepted EXCEPT ![t] = @ + 1]
                                          ELSE accepted
             /\ reopened' = IF outcome.ok THEN reopened \ {t} ELSE reopened
    /\ UNCHANGED <<clock, up>>

(* A burn at a cohort peer, at any earlier time, reaches this bridge; one  *)
(* that is lost, or over the publisher's rate, is a step not taken.        *)
TokenBurned(t, burned_at) ==
    /\ up
    /\ \/ Refuse(t, clock)
       \/ \E outcome \in append(t, burned_at + IngestTtl) :
             Insert(t, burned_at + IngestTtl, clock, outcome)
    /\ UNCHANGED <<clock, up, reopened, hs, accepted>>

----------------------------------------------------------------------------
(* Clock, crash and restart. *)

Tick ==
    /\ clock < MaxClock
    /\ \A h \in Handshakes :
          hs[h].pc = "open" => clock + 1 - hs[h].now <= HandshakeTimeout
    /\ clock' = clock + 1
    /\ UNCHANGED <<up, reopened, hs, accepted, store>>

Dead ==
    /\ up' = FALSE
    /\ entries' = <<>>
    /\ buffer' = <<>>
    /\ hs' = [h \in Handshakes |-> Idle]
    /\ UNCHANGED <<clock, reopened, accepted>>

Crash ==
    /\ up
    /\ \E k \in (IF PowerLoss THEN synced ELSE Len(file))..Len(file) :
          file' = SubSeq(file, 1, k) /\ synced' = k
    /\ Dead

(* The process dies inside append, with a part of the record written.      *)
CrashInAppend(h, t) ==
    /\ up /\ hs[h].pc = "open"
    /\ ~is_expired(t, hs[h].now) /\ ~Refuses(t, hs[h].now)
    /\ Len(file) < RecordLen * MaxRecords
    /\ \E k \in 1..RecordLen :
          file' = file \o SubSeq(buffer \o Record(t, Retention(t)), 1, k)
    /\ synced' = synced
    /\ Dead

(* The MaxEntries records with the latest expiry; sort_unstable_by leaves  *)
(* the order of equal ones open, and a later duplicate of an id wins.      *)
Kept(records) ==
    IF Len(records) <= MaxEntries
    THEN {records}
    ELSE {SubSeq(s, 1, MaxEntries) :
             s \in {[i \in DOMAIN records |-> records[p[i]]] :
                       p \in {q \in [DOMAIN records -> DOMAIN records] :
                                 /\ \A i, j \in DOMAIN q : i # j => q[i] # q[j]
                                 /\ \A i, j \in DOMAIN q : i < j =>
                                       records[q[i]][1].expiry >= records[q[j]][1].expiry}}}

Restored(records) ==
    LET ids == {records[i][1].id : i \in DOMAIN records}
        last(t) == CHOOSE i \in DOMAIN records :
                      /\ records[i][1].id = t
                      /\ \A j \in DOMAIN records : records[j][1].id = t => j <= i
    IN  [t \in ids |-> records[last(t)][1].expiry]

(* A restore of more records than max_entries reopens the window of an     *)
(* accepted token that it drops, or that it restores from a record of a    *)
(* burn with an earlier expiry.                                            *)
Reopens(records, es) ==
    {t \in Tokens : /\ Len(records) > MaxEntries
                    /\ accepted[t] > 0 /\ clock <= Retention(t)
                    /\ ~(t \in DOMAIN es /\ es[t] >= Retention(t))}

RestoreThenCompact ==
    /\ ~up
    /\ \E records \in {Load(WholeRecords(file), clock)} :
          \E kept \in Kept(records) :
             /\ file' = Compact(kept)
             /\ synced' = Len(file')
             /\ entries' = Restored(kept)
             /\ reopened' = reopened \cup Reopens(records, entries')
    /\ up' = TRUE
    /\ UNCHANGED <<clock, buffer, hs, accepted>>

(* open, then new_with_log: the live records are compacted to disk in full *)
(* before the set in memory is cut to max_entries.  The rename that puts   *)
(* the compacted log in place is taken as durable.                         *)
new_with_log ==
    /\ ~up
    /\ \E records \in {Load(WholeRecords(file), clock)} :
          /\ file' = Compact(records)
          /\ synced' = Len(file')
          /\ \E kept \in Kept(records) : entries' = Restored(kept)
          /\ reopened' = reopened \cup Reopens(records, entries')
    /\ up' = TRUE
    /\ UNCHANGED <<clock, buffer, hs, accepted>>

----------------------------------------------------------------------------
Init ==
    /\ clock = 0
    /\ up = FALSE
    /\ entries = <<>>
    /\ reopened = {}
    /\ file = <<>> /\ synced = 0 /\ buffer = <<>>
    /\ hs = [h \in Handshakes |-> Idle]
    /\ accepted = [t \in Tokens |-> 0]

Next ==
    \/ \E h \in Handshakes : BeginHandshake(h) \/ EndHandshake(h)
    \/ \E h \in Handshakes, t \in Tokens : read_message_3(h, t) \/ CrashInAppend(h, t)
    \/ \E t \in Tokens, burned_at \in 0..clock : TokenBurned(t, burned_at)
    \/ Tick
    \/ Crash
    \/ new_with_log

Spec == Init /\ [][Next]_vars

----------------------------------------------------------------------------

(* Every variable keeps its type, what is synced is a part of the file, and *)
(* a bridge that is down holds nothing in memory.                           *)
TypeOK ==
    /\ clock \in 0..MaxClock
    /\ up \in BOOLEAN /\ reopened \subseteq Tokens
    /\ DOMAIN entries \subseteq Tokens /\ \A t \in DOMAIN entries : entries[t] \in Nat
    /\ \A f \in {file, buffer} : \A i \in DOMAIN f : f[i] \in Half
    /\ synced \in 0..Len(file)
    /\ \A h \in Handshakes : hs[h].pc \in {"idle", "open"} /\ hs[h].now \in 0..clock
    /\ accepted \in [Tokens -> Nat]
    /\ ~up => entries = <<>> /\ buffer = <<>>

(* A token that a handshake accepted is in the log, with the expiry of its  *)
(* whole acceptance window, for as long as that window lasts: whichever     *)
(* crashes, failed syncs, compactions and truncated restores come between,  *)
(* a load finds it.  (check_and_insert returns true only after the append;  *)
(* new_with_log compacts the full set before it truncates.)                 *)
DurableBurn ==
    \A t \in Tokens :
        accepted[t] > 0 /\ Retention(t) >= clock =>
            \E i \in DOMAIN Load(file, clock) :
                Load(file, clock)[i] = Record(t, Retention(t))

(* An accepted token is not accepted again before the clock has passed its  *)
(* expiry and grace, by any of the concurrent handshakes and across         *)
(* restarts.  Only a restore that had to drop records, which new_with_log   *)
(* reports as an error, may reopen the window, and only for a token whose   *)
(* burn it dropped or cut short since the token was last accepted.  After   *)
(* the window a handshake that read the clock before the end of it may      *)
(* still accept the token, once another one has evicted the entry.          *)
AcceptedOnceInWindow ==
    [][\A t \in Tokens :
          accepted'[t] > accepted[t] /\ accepted[t] > 0 /\ clock <= Retention(t)
              => t \in reopened]_vars

============================================================================
