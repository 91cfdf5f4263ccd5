---------------------------- MODULE TokenSupply ----------------------------
(***************************************************************************)
(* Where single-use tokens come from and where they go.  A client starts   *)
(* with the bootstrap tokens of its invite, redeems the invite's claim and *)
(* refreshes its supply in the background (client/src/lib.rs).  The bridge *)
(* burns a token when it accepts it, grants a claim once, and signs        *)
(* refresh tokens (bridge/src/main.rs, bridge/src/claim_log.rs).  Clients  *)
(* may hold the same invite.  Carriers fail, replies are lost, the bridge  *)
(* and the clients crash and start again.                                  *)
(*                                                                         *)
(* What a restart leaves of the replay set is any part of it: nothing when *)
(* no replay log is configured, else what TokenReplay shows.  The claim    *)
(* log is known by the records that the next load finds in it.  When an    *)
(* append fails its record is whole in the file, whole in the BufWriter,   *)
(* from where it reaches the file with a later record or never, or cut in  *)
(* two; a cut one puts what follows off the record boundary, where no load *)
(* finds it.                                                               *)
(***************************************************************************)
EXTENDS Integers, Sequences, FiniteSets, SequencesExt

CONSTANTS
    Clients,        \* client processes, each with one entry for the bridge
    FsTokens,       \* sequence of forward-secure tokens in the invite
    LegacyTokens,   \* sequence of legacy bootstrap tokens in the invite
    RefreshIds,     \* ids the bridge's random generator can still produce
    Claims,         \* claim ids
    ClaimsOf,       \* [Clients -> SUBSET Claims], what a client may redeem
    Fsync,          \* claim_log_fsync
    Watermark,      \* FRESH_TOKEN_LOW_WATERMARK
    PerRootCap,     \* per_root_cap
    PerRequest,     \* REFRESH_MAX_PER_REQUEST
    TableCap,       \* REFRESH_PER_ROOT_TABLE_CAP
    Capacity,       \* capacity of the claim sets
    MaxRestarts     \* bound on the restarts of the bridge

Bootstrap == Range(FsTokens) \cup Range(LegacyTokens)
Tokens == Bootstrap \cup RefreshIds

ASSUME SupplyAssumption ==
    /\ FsTokens \in Seq(Bootstrap) /\ LegacyTokens \in Seq(Bootstrap)
    /\ Bootstrap # {}
    /\ Bootstrap \cap RefreshIds = {}
    /\ "none" \notin Tokens
    /\ IsFiniteSet(RefreshIds)
    /\ ClaimsOf \in [Clients -> SUBSET Claims]
    /\ Claims \cap {"none", "refresh"} = {}
    /\ Fsync \in BOOLEAN
    /\ {Watermark, PerRootCap, PerRequest, Capacity, MaxRestarts} \subseteq Nat
    /\ TableCap \in Nat \ {0}

VARIABLES
    \* client
    phase,       \* client -> "claiming" at its start, then "running"
    fresh_tokens,\* client -> deque of refresh tokens
    cursor,      \* client -> next legacy token
    fs_cursor,   \* client -> next forward-secure token
    downgraded,  \* client -> fs_unsupported_until lies ahead
    session,     \* client, task -> the session that task is in
    \* bridge
    burned,      \* the replay set
    restarts,    \* how often the bridge has restarted
    serving,     \* token -> "refresh", or the claim id, that its session asks
    claimed,     \* claim ids granted, in memory
    used_roots,  \* tokens whose session was granted a claim, in memory
    log,         \* records that the next load of the claim log finds
    synced,      \* those of them that a power failure leaves
    torn,        \* the next append lands off the record boundary
    logging,     \* the claim log could be opened
    table,       \* keys of per_root, the least recently used first
    counter,     \* token -> its count in per_root, 0 for none
    \* history
    spent,       \* the refresh tokens ever accepted
    parent,      \* refresh id -> the token its session presented
    recent,      \* refresh ids minted since the replay set last lost the parent
    granted,     \* claim id -> sessions granted it since it was last forgotten
    unlogged     \* claims granted without a record that a load finds

clientVars == <<phase, fresh_tokens, cursor, fs_cursor, downgraded>>
replayVars == <<burned, restarts, spent>>
logVars == <<log, synced, torn, logging>>
claimVars == <<claimed, used_roots, logVars, granted, unlogged>>
refreshVars == <<table, counter, parent, recent>>
vars == <<clientVars, session, replayVars, serving, claimVars, refreshVars>>

----------------------------------------------------------------------------
(* A session on the client: "connecting" before a token is chosen,         *)
(* "dialing" with the handshake under way, "open" once the token was       *)
(* accepted, "replied" when the answer to its one request is there, "cut"  *)
(* when the bridge went away before that.  On the bridge a session is      *)
(* known by the token it presented; its handler goes on when the client    *)
(* has given up.                                                           *)

None == "none"
Tasks == {"maintenance", "dial"}
Sessions == Clients \X Tasks
NoSession == [pc |-> "idle", token |-> None, reply |-> <<>>]

Client(s) == s[1]
IsClaim(s) == s[2] = "maintenance" /\ phase[Client(s)] = "claiming"
IsRefresh(s) == s[2] = "maintenance" /\ phase[Client(s)] = "running"

Moved(s, pc) == [session EXCEPT ![s].pc = pc]
Ended(s) == [session EXCEPT ![s] = NoSession]

(* One claim is tried after a start, whatever comes of it; then the client *)
(* runs.                                                                   *)
StartPhase(c) == IF ClaimsOf[c] = {} THEN "running" ELSE "claiming"
AfterAttempt(s) == phase' = [phase EXCEPT ![Client(s)] = "running"]

(* A cursor starts anywhere in its pool.                                   *)
rand_start(pool) == IF pool = <<>> THEN {0} ELSE 0..(Len(pool) - 1)

Init ==
    /\ phase = [c \in Clients |-> StartPhase(c)]
    /\ fresh_tokens = [c \in Clients |-> <<>>]
    /\ cursor \in [Clients -> rand_start(LegacyTokens)]
    /\ fs_cursor \in [Clients -> rand_start(FsTokens)]
    /\ downgraded = [c \in Clients |-> FALSE]
    /\ session = [s \in Sessions |-> NoSession]
    /\ burned = {} /\ restarts = 0 /\ spent = {}
    /\ serving = [t \in Tokens |-> None]
    /\ claimed = {} /\ used_roots = {}
    /\ log = {} /\ synced = {} /\ torn = FALSE /\ logging \in BOOLEAN
    /\ table = <<>>
    /\ counter = [t \in Tokens |-> 0]
    /\ parent = [t \in RefreshIds |-> None] /\ recent = {}
    /\ granted = [k \in Claims |-> 0] /\ unlogged = {}

----------------------------------------------------------------------------
(* The client. *)

(* The task loops.  The low watermark is read before the connection is     *)
(* made, the token is taken after it.                                      *)
Begin(s) ==
    /\ session[s].pc = "idle"
    /\ \/ s[2] = "dial" /\ phase[Client(s)] = "running"
       \/ IsClaim(s)
       \/ IsRefresh(s) /\ Len(fresh_tokens[Client(s)]) <= Watermark
    /\ session' = Moved(s, "connecting")
    /\ UNCHANGED <<clientVars, replayVars, serving, claimVars, refreshVars>>

PeekedFresh(c) == fresh_tokens[c]
PoppedFresh(c) == Tail(fresh_tokens[c])

(* Fresh tokens first; then the bootstrap pools, around and around.        *)
next_credentials(s) ==
    LET c == Client(s)
        use_fs == FsTokens # <<>> /\ (~downgraded[c] \/ LegacyTokens = <<>>)
    IN  /\ session[s].pc = "connecting"
        /\ \/ /\ fresh_tokens[c] # <<>>
              /\ session' = [session EXCEPT ![s].pc = "dialing",
                                            ![s].token = Head(fresh_tokens[c])]
              /\ fresh_tokens' = [fresh_tokens EXCEPT ![c] = PoppedFresh(c)]
              /\ UNCHANGED <<cursor, fs_cursor>>
           \/ /\ fresh_tokens[c] = <<>> /\ use_fs
              /\ session' = [session EXCEPT ![s].pc = "dialing",
                                            ![s].token = FsTokens[fs_cursor[c] + 1]]
              /\ fs_cursor' = [fs_cursor EXCEPT ![c] = (@ + 1) % Len(FsTokens)]
              /\ UNCHANGED <<fresh_tokens, cursor>>
           \/ /\ fresh_tokens[c] = <<>> /\ ~use_fs
              /\ session' = [session EXCEPT ![s].pc = "dialing",
                                            ![s].token = LegacyTokens[cursor[c] + 1]]
              /\ cursor' = [cursor EXCEPT ![c] = (@ + 1) % Len(LegacyTokens)]
              /\ UNCHANGED <<fresh_tokens, fs_cursor>>
        /\ UNCHANGED <<phase, downgraded, replayVars, serving, claimVars, refreshVars>>

(* A carrier that fails, a handshake that is refused or times out, a user  *)
(* session that ends, a reply that is lost.  A user's session that         *)
(* presented a forward-secure token and died is noted (note_fs_dial_dead). *)
Fail(s) ==
    /\ session[s].pc # "idle"
    /\ session' = Ended(s)
    /\ AfterAttempt(s)
    /\ \/ UNCHANGED downgraded
       \/ /\ s[2] = "dial" /\ session[s].token \in Range(FsTokens)
          /\ downgraded' = [downgraded EXCEPT ![Client(s)] = TRUE]
    /\ UNCHANGED <<fresh_tokens, cursor, fs_cursor, replayVars, serving, claimVars,
                   refreshVars>>

DowngradeExpires(c) ==
    /\ downgraded[c]
    /\ downgraded' = [downgraded EXCEPT ![c] = FALSE]
    /\ UNCHANGED <<phase, fresh_tokens, cursor, fs_cursor, session, replayVars, serving,
                   claimVars, refreshVars>>

push_tokens_to_entry(s) ==
    /\ session[s].pc = "replied"
    /\ fresh_tokens' = [fresh_tokens EXCEPT ![Client(s)] = @ \o session[s].reply]
    /\ session' = Ended(s)
    /\ AfterAttempt(s)
    /\ UNCHANGED <<cursor, fs_cursor, downgraded, replayVars, serving, claimVars,
                   refreshVars>>

(* Nothing the client holds is on disk but the invite.                     *)
ClientRestarts(c) ==
    /\ phase' = [phase EXCEPT ![c] = StartPhase(c)]
    /\ fresh_tokens' = [fresh_tokens EXCEPT ![c] = <<>>]
    /\ \E i \in rand_start(LegacyTokens) : cursor' = [cursor EXCEPT ![c] = i]
    /\ \E i \in rand_start(FsTokens) : fs_cursor' = [fs_cursor EXCEPT ![c] = i]
    /\ downgraded' = [downgraded EXCEPT ![c] = FALSE]
    /\ session' = [s \in Sessions |-> IF Client(s) = c THEN NoSession ELSE session[s]]
    /\ UNCHANGED <<replayVars, serving, claimVars, refreshVars>>

----------------------------------------------------------------------------
(* The bridge. *)

(* Message 3: the token is burned, or refused because it was.  The request *)
(* of an accepted session follows.  A user's session passes on what an     *)
(* application asks for, the names of these services included.             *)
Requests(s) ==
    IF IsClaim(s) THEN ClaimsOf[Client(s)]
    ELSE IF IsRefresh(s) THEN {"refresh"} ELSE Claims \cup {"refresh", None}

Accept(s) ==
    LET t == session[s].token
    IN  /\ session[s].pc = "dialing"
        /\ t \notin burned
        /\ burned' = burned \cup {t}
        /\ spent' = spent \cup ({t} \cap RefreshIds)
        /\ session' = Moved(s, "open")
        /\ \E r \in Requests(s) : serving' = [serving EXCEPT ![t] = r]
        /\ UNCHANGED <<clientVars, restarts, claimVars, refreshVars>>

(* The answer reaches the task that still waits for it.  On a user's       *)
(* session it goes to the application.                                     *)
Answer(t, reply) ==
    /\ serving' = [serving EXCEPT ![t] = None]
    /\ session' = [s \in Sessions |->
                      IF session[s].pc = "open" /\ session[s].token = t /\ s[2] = "maintenance"
                      THEN [session[s] EXCEPT !.pc = "replied", !.reply = reply]
                      ELSE session[s]]

(* No request within MAGIC_HOST_REQUEST_TIMEOUT, or one that cannot be     *)
(* decoded.                                                                *)
Abandon(t) ==
    /\ serving[t] # None
    /\ serving' = [serving EXCEPT ![t] = None]
    /\ UNCHANGED <<clientVars, session, replayVars, claimVars, refreshVars>>

NeverRefresh(t) == FALSE
refresh_authenticated(t) == t \in RefreshIds

(* mint_for_root: the table makes room by forgetting the root it has not   *)
(* seen for longest.                                                       *)
Forgotten(root) ==
    IF Len(table) >= TableCap /\ root \notin Range(table) THEN {Head(table)} ELSE {}
Count(root) == IF root \in Forgotten(root) THEN 0 ELSE counter[root]
Seen(root) ==
    Append(SelectSeq(table, LAMBDA r : r # root /\ r \notin Forgotten(root)), root)

Least(a, b) == IF a < b THEN a ELSE b
to_mint(root) == Least(PerRequest, PerRootCap - Count(root))

(* The random generator may fail part-way; what was signed is returned.    *)
mint_for_root(root, minted) ==
    /\ minted \subseteq {t \in RefreshIds : parent[t] = None}
    /\ Cardinality(minted) <= to_mint(root)
    /\ table' = Seen(root)
    /\ counter' = [t \in Tokens |->
                      IF t = root THEN Count(root) + Cardinality(minted)
                      ELSE IF t \in Forgotten(root) THEN 0 ELSE counter[t]]
    /\ parent' = [t \in RefreshIds |-> IF t \in minted THEN root ELSE parent[t]]
    /\ recent' = recent \cup minted

handle_refresh_request(t) ==
    /\ serving[t] = "refresh"
    /\ \/ /\ refresh_authenticated(t)
          /\ Answer(t, <<>>)
          /\ UNCHANGED refreshVars
       \/ /\ ~refresh_authenticated(t)
          /\ \E minted \in SUBSET RefreshIds :
                /\ mint_for_root(t, minted)
                /\ \E reply \in SetToSeqs(minted) : Answer(t, reply)
    /\ UNCHANGED <<clientVars, replayVars, claimVars>>

(* try_claim, with all three locks held: whether it gets as far as the log.*)
Claimable(k, root) ==
    /\ root \notin used_roots
    /\ Cardinality(used_roots) < Capacity
    /\ k \notin claimed
    /\ Cardinality(claimed) < Capacity

(* PersistentClaimLog::append that succeeds: the BufWriter is empty after  *)
(* it, and the file on disk when Fsync asks for it.                        *)
append(rec) ==
    /\ logging
    /\ log' = IF torn THEN log ELSE log \cup {rec}
    /\ synced' = IF Fsync THEN log' ELSE synced
    /\ UNCHANGED <<torn, logging>>

(* One that fails refuses the claim.  The second flush, or the one before  *)
(* a failing sync, has written the record, or the BufWriter keeps it or,   *)
(* when realign_to_record_boundary has cut it, its rest; a later failure   *)
(* may cut the file at the boundary again.                                 *)
AppendFails(k, root) ==
    /\ Claimable(k, root) /\ logging
    /\ log' \in {log, log \cup {<<k, root>>}}
    /\ torn' \in BOOLEAN
    /\ UNCHANGED <<claimed, used_roots, synced, logging, granted, unlogged>>

(* The log is written before the sets, if it is open.                      *)
GrantUnlogged(k, root) ==
    /\ Claimable(k, root)
    /\ claimed' = claimed \cup {k}
    /\ used_roots' = used_roots \cup {root}
    /\ granted' = [granted EXCEPT ![k] = @ + 1]
    /\ UNCHANGED <<logVars, unlogged>>

Grant(k, root) ==
    /\ Claimable(k, root)
    /\ \/ append(<<k, root>>)
       \/ ~logging /\ UNCHANGED logVars
    /\ claimed' = claimed \cup {k}
    /\ used_roots' = used_roots \cup {root}
    /\ granted' = [granted EXCEPT ![k] = @ + 1]
    /\ unlogged' = IF torn \/ ~logging THEN unlogged \cup {k} ELSE unlogged

(* A session that asked for no tokens, or may not have any, gets none.     *)
handle_claim_request(t, k) ==
    /\ serving[t] = k
    /\ \/ /\ Grant(k, t)
          /\ ~refresh_authenticated(t)
          /\ \E minted \in SUBSET RefreshIds :
                /\ mint_for_root(t, minted)
                /\ \E reply \in SetToSeqs(minted) : Answer(t, reply)
       \/ /\ Grant(k, t) \/ AppendFails(k, t)
          /\ Answer(t, <<>>)
          /\ UNCHANGED refreshVars
       \/ /\ ~Claimable(k, t)
          /\ Answer(t, <<>>)
          /\ UNCHANGED <<claimVars, refreshVars>>
    /\ UNCHANGED <<clientVars, replayVars>>

(* new_with_optional_log.  A log that cannot be read leaves the sets empty,*)
(* one that cannot be opened leaves them in memory only.  Opening it cuts  *)
(* what is off the boundary.                                               *)
Restore(found, read, opened) ==
    /\ claimed' = IF read THEN {r[1] : r \in found} ELSE {}
    /\ used_roots' = IF read THEN {r[2] : r \in found} ELSE {}
    /\ log' = found
    /\ torn' = FALSE
    /\ logging' = opened
    /\ UNCHANGED synced

(* The claims that have a reason to be forgotten: their record was never   *)
(* where a load finds it, or the log is not read, or the power fails and   *)
(* appends are not synced.                                                 *)
Forgettable(found, read) ==
    unlogged \cup (IF read THEN {} ELSE Claims)
             \cup (IF Fsync THEN {} ELSE {r[1] : r \in log \ found})

BridgeRestarts ==
    /\ restarts < MaxRestarts /\ restarts' = restarts + 1
    /\ \E found \in SUBSET log, read, opened \in BOOLEAN :
          /\ synced \subseteq found
          /\ Restore(found, read, opened)
          /\ granted' = [k \in Claims |->
                            IF k \in Forgettable(found, read) THEN 0 ELSE granted[k]]
    /\ unlogged' = {}
    /\ \E kept \in SUBSET burned :
          /\ burned' = kept
          /\ recent' = {t \in recent : parent[t] \in kept}
    /\ session' = [s \in Sessions |->
                      IF session[s].pc = "open" THEN [session[s] EXCEPT !.pc = "cut"]
                      ELSE session[s]]
    /\ serving' = [t \in Tokens |-> None]
    /\ table' = <<>>
    /\ counter' = [t \in Tokens |-> 0]
    /\ UNCHANGED <<clientVars, spent, parent>>

Next ==
    \/ \E s \in Sessions : \/ Begin(s) \/ next_credentials(s) \/ Fail(s)
                           \/ Accept(s) \/ push_tokens_to_entry(s)
    \/ \E c \in Clients : DowngradeExpires(c) \/ ClientRestarts(c)
    \/ \E t \in Tokens : \/ Abandon(t) \/ handle_refresh_request(t)
                         \/ \E k \in Claims : handle_claim_request(t, k)
    \/ BridgeRestarts

Spec == Init /\ [][Next]_vars

----------------------------------------------------------------------------
(* Properties. *)

(* A claim id is granted to one session only, whoever redeems it and       *)
(* however often appends fail and the bridge restarts, until one of four   *)
(* things makes the bridge forget it: it was granted while the log was not *)
(* open, or off its record boundary; a start does not read the log; the    *)
(* power fails and claim_log_fsync is off (try_claim, append,              *)
(* new_with_optional_log).  A failed append costs no earlier grant, and    *)
(* with claim_log_fsync a power failure costs none.                        *)
ClaimedOnce == \A k \in Claims : granted[k] <= 1

(* Refresh tokens have no descendants: a session that presented one gets   *)
(* none by a refresh or a claim, whatever it asks for.  One bootstrap      *)
(* token yields no more of them than the cap and one request allow until   *)
(* the replay set loses it, whatever the table of roots forgets            *)
(* (handle_refresh_request, handle_claim_request, mint_for_root).  Without *)
(* a replay log that is until the next restart.                            *)
LineageBound ==
    /\ \A t \in RefreshIds : parent[t] \in Bootstrap \cup {None}
    /\ \A r \in Bootstrap :
          Cardinality({t \in recent : parent[t] = r}) <= Least(PerRequest, PerRootCap)

(* A refresh token that a client presents was never accepted before: the   *)
(* tasks that share the deque, lost replies and restarts never make a      *)
(* client offer one twice (next_credentials, push_tokens_to_entry).        *)
NeverReplayed ==
    \A s \in Sessions :
        session[s].pc = "dialing" /\ session[s].token \in RefreshIds
            => session[s].token \notin spent

============================================================================
