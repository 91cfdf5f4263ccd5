------------------------ MODULE TokenSupplyProofs --------------------------
(***************************************************************************)
(* ClaimedOnce and LineageBound for any clients, invites, caps and table   *)
(* sizes, with and without claim_log_fsync.  Neither rests on the counters *)
(* of per_root, which eviction and restarts clear: a session is served     *)
(* once, and while the replay set has its token no other session presents  *)
(* it.                                                                     *)
(***************************************************************************)
EXTENDS TokenSupply, FiniteSetTheorems, TLAPS

Children(r) == {t \in recent : parent[t] = r}

Typed ==
    /\ serving \in [Tokens -> Claims \cup {None, "refresh"}]
    /\ counter \in [Tokens -> Nat]
    /\ parent \in [RefreshIds -> Tokens \cup {None}]
    /\ recent \subseteq RefreshIds
    /\ granted \in [Claims -> Nat]

(* A session still to be served has minted nothing yet; whoever minted is  *)
(* of the bootstrap family, and burned unless the replay set lost it.      *)
ServedOnce ==
    /\ \A t \in Tokens : serving[t] # None => t \in burned /\ Children(t) = {}
    /\ \A t \in RefreshIds : parent[t] # None => parent[t] \in Bootstrap
    /\ \A t \in recent : parent[t] # None /\ parent[t] \in burned

Bounded ==
    \A r \in Bootstrap : Cardinality(Children(r)) <= Least(PerRequest, PerRootCap)

(* What was granted is in memory and, if it was logged at all, where a     *)
(* restart finds it.                                                       *)
Kept == IF Fsync THEN synced ELSE log

Durable ==
    /\ synced \subseteq log
    /\ \A k \in Claims : granted[k] # 0 =>
          granted[k] = 1 /\ k \in claimed /\ (k \in unlogged \/ \E r \in Kept : r[1] = k)

IInv == Typed /\ ServedOnce /\ Bounded /\ Durable

----------------------------------------------------------------------------

(* Initially nothing is minted, granted or logged.                         *)
LEMMA InitInv == Init => IInv
<1> SUFFICES ASSUME Init PROVE IInv
  BY Zenon
<1>1. Typed
  BY Zenon DEF Init, Typed, None
<1>2. ServedOnce
  BY Zenon DEF Init, ServedOnce, None
<1>3. Bounded
  <2> SUFFICES ASSUME NEW r \in Bootstrap
               PROVE  Cardinality(Children(r)) <= Least(PerRequest, PerRootCap)
    BY Zenon DEF Bounded
  <2>1. r # None
    BY Zenon, SupplyAssumption DEF Tokens, None
  <2>2. Children(r) = {}
    BY Zenon, <2>1 DEF Children, Init
  <2>3. Cardinality({}) = 0
    BY Zenon, FS_EmptySet
  <2> QED
    BY <2>2, <2>3, SupplyAssumption DEF Least
<1>4. Durable
  BY Zenon DEF Init, Durable, Kept
<1> QED
  BY <1>1, <1>2, <1>3, <1>4 DEF IInv

(* A step that touches none of the variables of the invariant.             *)
LEMMA Untouched ==
    ASSUME IInv, UNCHANGED <<replayVars, serving, claimVars, refreshVars>>
    PROVE  IInv'
BY DEF IInv, Typed, ServedOnce, Bounded, Durable, Kept, Children, claimVars, logVars, refreshVars, replayVars

(* Accepting a session burns its token before it is served.                *)
LEMMA AcceptStep ==
    ASSUME IInv, NEW s \in Sessions, Accept(s)
    PROVE  IInv'
<1> DEFINE t == session[s].token
<1>1. PICK r \in Requests(s) : serving' = [serving EXCEPT ![t] = r]
  BY Zenon DEF Accept
<1>2. r \in Claims \cup {None, "refresh"}
  BY Zenon, SupplyAssumption DEF Requests, Client, Sessions
<1>3. Typed'
  BY Zenon, <1>1, <1>2 DEF IInv, Typed, Accept, refreshVars, claimVars
<1>4. ServedOnce'
  <2>1. t \notin burned /\ burned' = burned \cup {t} /\ UNCHANGED <<parent, recent>>
    BY Zenon DEF Accept, refreshVars
  <2>2. \A u \in Tokens : u # t => serving'[u] = serving[u]
    BY Zenon, <1>1 DEF IInv, Typed
  <2>3. t \in Tokens => Children(t) = {}
    BY Zenon, <2>1 DEF Children, IInv, ServedOnce
  <2> QED
    BY <2>1, <2>2, <2>3 DEF IInv, ServedOnce, Children
<1>5. Bounded' /\ Durable'
  BY Zenon DEF IInv, Bounded, Durable, Kept, Children, Accept, claimVars, logVars, refreshVars, replayVars
<1> QED
  BY Zenon, <1>3, <1>4, <1>5 DEF IInv

(* The request of one token is over.                                       *)
LEMMA AnswerTyped ==
    ASSUME IInv, NEW t \in Tokens, serving' = [serving EXCEPT ![t] = None]
    PROVE  /\ serving' \in [Tokens -> Claims \cup {None, "refresh"}]
           /\ serving'[t] = None
           /\ \A u \in Tokens : serving'[u] # None => serving'[u] = serving[u]
BY Zenon DEF IInv, Typed

(* An answer that mints nothing keeps the bound on lineages.               *)
LEMMA Unminted ==
    ASSUME IInv, NEW t \in Tokens, serving' = [serving EXCEPT ![t] = None],
           UNCHANGED <<burned, refreshVars>>, granted' \in [Claims -> Nat]
    PROVE  Typed' /\ ServedOnce' /\ Bounded'
<1>1. Typed'
  BY Zenon, AnswerTyped DEF IInv, Typed, refreshVars, replayVars
<1>2. ServedOnce'
  BY Zenon, AnswerTyped DEF IInv, ServedOnce, Children, refreshVars, replayVars
<1>3. Bounded'
  BY Zenon DEF IInv, Bounded, Children, refreshVars, replayVars
<1> QED
  BY <1>1, <1>2, <1>3

(* The tokens that a bootstrap session mints are the first and the last of *)
(* its root.                                                               *)
LEMMA Minted ==
    ASSUME IInv, NEW t \in Tokens, serving[t] # None, t \notin RefreshIds,
           serving' = [serving EXCEPT ![t] = None],
           NEW minted \in SUBSET RefreshIds, mint_for_root(t, minted),
           UNCHANGED burned, granted' \in [Claims -> Nat]
    PROVE  Typed' /\ ServedOnce' /\ Bounded'
<1>1. /\ t \in burned /\ t \in Bootstrap /\ t # None
      /\ Children(t) = {}
  BY Zenon, SupplyAssumption DEF IInv, ServedOnce, Tokens, None
<1>2. Cardinality(minted) \in Nat
  BY SupplyAssumption, FS_Subset, FS_CardinalityType
<1>3. Count(t) \in Nat
  BY Zenon DEF Count, IInv, Typed
<1>4. parent' = [x \in RefreshIds |-> IF x \in minted THEN t ELSE parent[x]]
  BY Zenon DEF mint_for_root
<1>5. recent' = recent \cup minted /\ \A x \in minted : parent[x] = None
  BY Zenon DEF mint_for_root
<1>6. Typed'
  <2>1. counter' \in [Tokens -> Nat]
    <3>1. counter' = [u \in Tokens |->
                        IF u = t THEN Count(t) + Cardinality(minted)
                        ELSE IF u \in Forgotten(t) THEN 0 ELSE counter[u]]
      BY Zenon DEF mint_for_root
    <3>2. \A u \in Tokens : counter[u] \in Nat
      BY Zenon DEF IInv, Typed
    <3>3. Count(t) + Cardinality(minted) \in Nat
      BY <1>2, <1>3
    <3> HIDE DEF Count, Forgotten
    <3> QED
      BY <3>1, <3>2, <3>3
  <2>2. parent' \in [RefreshIds -> Tokens \cup {None}]
    BY Zenon, <1>4 DEF IInv, Typed
  <2>3. recent' \subseteq RefreshIds
    BY Zenon, <1>5 DEF IInv, Typed
  <2> QED
    BY <2>1, <2>2, <2>3, AnswerTyped DEF Typed
<1>7. ServedOnce'
  <2>1. \A u \in Tokens : serving'[u] # None => u # t /\ serving[u] # None
    BY Zenon, AnswerTyped
  <2>2. \A x \in recent' : parent'[x] = IF x \in minted THEN t ELSE parent[x]
    BY Zenon, <1>4, <1>5 DEF IInv, Typed
  <2>3. \A u \in Tokens : u # t /\ Children(u) = {} => Children(u)' = {}
    BY Zenon, <1>5, <2>2 DEF Children
  <2>4. \A u \in Tokens : serving'[u] # None => u \in burned' /\ Children(u)' = {}
    BY Zenon, <2>1, <2>3 DEF IInv, ServedOnce
  <2>5. \A x \in RefreshIds : parent'[x] # None => parent'[x] \in Bootstrap
    BY Zenon, <1>1, <1>4 DEF IInv, ServedOnce
  <2>6. \A x \in recent' : parent'[x] # None /\ parent'[x] \in burned'
    BY Zenon, <1>1, <1>5, <2>2 DEF IInv, ServedOnce
  <2> QED
    BY Zenon, <2>4, <2>5, <2>6 DEF ServedOnce
<1>8. Bounded'
  <2> SUFFICES ASSUME NEW r \in Bootstrap
               PROVE  Cardinality(Children(r)') <= Least(PerRequest, PerRootCap)
    BY Zenon DEF Bounded
  <2>1. CASE r = t
    <3>1. Children(r)' = minted
      <4>1. \A x \in recent' : parent'[x] = IF x \in minted THEN t ELSE parent[x]
        BY Zenon, <1>4, <1>5 DEF IInv, Typed
      <4>2. \A x \in recent : parent[x] # t
        BY Zenon, <1>1 DEF Children
      <4> QED  BY Zenon, <1>5, <2>1, <4>1, <4>2 DEF Children
    <3>2. Cardinality(minted) <= to_mint(t)
      BY Zenon DEF mint_for_root
    <3>3. to_mint(t) <= Least(PerRequest, PerRootCap)
      BY <1>3, SupplyAssumption DEF to_mint, Least
    <3>4. to_mint(t) \in Int /\ Least(PerRequest, PerRootCap) \in Int
      BY <1>3, SupplyAssumption DEF to_mint, Least
    <3> QED
      BY <1>2, <3>1, <3>2, <3>3, <3>4
  <2>2. CASE r # t
    <3>1. r # None
      BY Zenon, SupplyAssumption DEF Tokens, None
    <3>2. Children(r)' = Children(r)
      <4>1. \A x \in recent' : parent'[x] = IF x \in minted THEN t ELSE parent[x]
        BY Zenon, <1>4, <1>5 DEF IInv, Typed
      <4>2. \A x \in recent : x \in minted => parent[x] = None
        BY Zenon, <1>5
      <4> QED  BY Zenon, <1>5, <2>2, <3>1, <4>1, <4>2 DEF Children
    <3> QED
      BY Zenon, <3>2 DEF IInv, Bounded
  <2> QED
    BY Zenon, <2>1, <2>2
<1> QED
  BY <1>6, <1>7, <1>8

(* A refresh request mints within the caps, or is refused.                 *)
LEMMA RefreshStep ==
    ASSUME IInv, NEW t \in Tokens, handle_refresh_request(t)
    PROVE  IInv'
<1>1. /\ serving[t] # None
      /\ serving' = [serving EXCEPT ![t] = None]
      /\ UNCHANGED <<burned, granted>>
      /\ granted' \in [Claims -> Nat]
  BY Zenon DEF handle_refresh_request, Answer, IInv, Typed, None, replayVars, claimVars
<1>2. Durable'
  BY Zenon DEF IInv, Durable, Kept, handle_refresh_request, claimVars, logVars
<1>3. CASE refresh_authenticated(t)
  <2>1. UNCHANGED refreshVars
    BY Zenon, <1>3 DEF handle_refresh_request
  <2> QED
    BY <1>1, <1>2, <2>1, Unminted DEF IInv
<1>4. CASE ~refresh_authenticated(t)
  <2>1. PICK minted \in SUBSET RefreshIds : mint_for_root(t, minted)
    BY Zenon, <1>4 DEF handle_refresh_request
  <2>2. t \notin RefreshIds
    BY Zenon, <1>4 DEF refresh_authenticated
  <2> QED
    BY <1>1, <1>2, <2>1, <2>2, Minted DEF IInv
<1> QED
  BY Zenon, <1>3, <1>4

(* A grant is of a claim that memory has not got, and leaves its record    *)
(* where a restart finds it, or the claim among the unlogged.              *)
LEMMA GrantDurable ==
    ASSUME IInv, NEW k \in Claims, NEW t \in Tokens, Grant(k, t)
    PROVE  Durable' /\ granted' \in [Claims -> Nat]
<1>1. granted' = [granted EXCEPT ![k] = @ + 1] /\ granted \in [Claims -> Nat]
  BY Zenon DEF Grant, IInv, Typed
<1>2. granted' \in [Claims -> Nat] /\ granted'[k] = granted[k] + 1
  BY <1>1
<1>3. k \notin claimed /\ claimed' = claimed \cup {k} /\ unlogged \subseteq unlogged'
  BY Zenon DEF Grant, Claimable
<1>4. granted[k] = 0
  BY Zenon, <1>3 DEF IInv, Durable
<1>5. /\ synced' \subseteq log' /\ Kept \subseteq Kept'
      /\ k \in unlogged' \/ <<k, t>> \in Kept'
  <2>1. CASE append(<<k, t>>)
    <3>1. log \subseteq log' /\ synced \subseteq log
      BY Zenon, <2>1 DEF append, IInv, Durable
    <3>2. synced' \subseteq log' /\ Kept \subseteq Kept'
      BY Zenon, <2>1, <3>1 DEF append, Kept
    <3>3. CASE torn
      BY Zenon, <3>2, <3>3 DEF Grant
    <3>4. CASE ~torn
      BY Zenon, <2>1, <3>2, <3>4 DEF append, Kept
    <3> QED  BY Zenon, <3>3, <3>4
  <2>2. CASE ~logging /\ UNCHANGED logVars
    BY Zenon, <2>2 DEF Grant, logVars, Kept, IInv, Durable
  <2> QED  BY Zenon, <2>1, <2>2 DEF Grant
<1>6. granted'[k] = 1
  BY <1>2, <1>4
<1>7. <<k, t>>[1] = k
  OBVIOUS
<1>8. ASSUME NEW j \in Claims, granted'[j] # 0
      PROVE  granted'[j] = 1 /\ j \in claimed' /\ (j \in unlogged' \/ \E r \in Kept' : r[1] = j)
  <2>1. CASE j = k
    BY Zenon, <1>3, <1>5, <1>6, <1>7, <2>1
  <2>2. CASE j # k
    <3>1. granted'[j] = granted[j]
      BY Zenon, <1>1, <2>2
    <3> QED  BY Zenon, <1>3, <1>5, <1>8, <3>1 DEF IInv, Durable
  <2> QED  BY Zenon, <2>1, <2>2
<1> QED
  BY Zenon, <1>2, <1>5, <1>8 DEF Durable

(* An append that fails takes no record away.                              *)
LEMMA FailureDurable ==
    ASSUME IInv, NEW k \in Claims, NEW t \in Tokens, AppendFails(k, t)
    PROVE  Durable' /\ granted' \in [Claims -> Nat]
<1>1. /\ log \subseteq log'
      /\ UNCHANGED <<claimed, synced, granted, unlogged>>
  BY Zenon DEF AppendFails
<1>2. Kept \subseteq Kept'
  BY Zenon, <1>1 DEF Kept
<1> QED
  BY Zenon, <1>1, <1>2 DEF IInv, Typed, Durable

(* A claim request grants an unclaimed id, logged first, or is refused.    *)
LEMMA ClaimStep ==
    ASSUME IInv, NEW t \in Tokens, NEW k \in Claims, handle_claim_request(t, k)
    PROVE  IInv'
<1>1. /\ serving[t] # None
      /\ serving' = [serving EXCEPT ![t] = None]
      /\ UNCHANGED burned
  BY Zenon, SupplyAssumption DEF handle_claim_request, Answer, None, replayVars
<1>2. CASE /\ Grant(k, t) /\ ~refresh_authenticated(t)
           /\ \E minted \in SUBSET RefreshIds : mint_for_root(t, minted)
  <2>1. Durable' /\ granted' \in [Claims -> Nat]
    BY <1>2, GrantDurable
  <2>2. PICK minted \in SUBSET RefreshIds : mint_for_root(t, minted)
    BY Zenon, <1>2
  <2>3. t \notin RefreshIds
    BY Zenon, <1>2 DEF refresh_authenticated
  <2> QED
    BY <1>1, <2>1, <2>2, <2>3, Minted DEF IInv
<1>3. CASE UNCHANGED refreshVars /\ (Grant(k, t) \/ AppendFails(k, t))
  <2>1. Durable' /\ granted' \in [Claims -> Nat]
    BY Zenon, <1>3, GrantDurable, FailureDurable
  <2> QED
    BY <1>1, <1>3, <2>1, Unminted DEF IInv
<1>4. CASE UNCHANGED <<refreshVars, claimVars>>
  <2>1. Durable' /\ granted' \in [Claims -> Nat]
    BY Zenon, <1>4 DEF IInv, Typed, Durable, Kept, claimVars, logVars
  <2> QED
    BY <1>1, <1>4, <2>1, Unminted DEF IInv
<1> QED
  BY Zenon, <1>2, <1>3, <1>4 DEF handle_claim_request

(* A claim that a restart does not count as forgotten has its record among *)
(* the ones that are found.                                                *)
LEMMA RestartStep ==
    ASSUME IInv, BridgeRestarts
    PROVE  IInv'
<1>1. PICK found \in SUBSET log, read \in BOOLEAN, opened \in BOOLEAN :
            /\ synced \subseteq found
            /\ Restore(found, read, opened)
            /\ granted' = [k \in Claims |->
                              IF k \in Forgettable(found, read) THEN 0 ELSE granted[k]]
  BY Zenon DEF BridgeRestarts
<1>2. PICK kept \in SUBSET burned :
            burned' = kept /\ recent' = {t \in recent : parent[t] \in kept}
  BY Zenon DEF BridgeRestarts
<1>3. /\ serving' = [t \in Tokens |-> None] /\ counter' = [t \in Tokens |-> 0]
      /\ unlogged' = {} /\ UNCHANGED parent
  BY Zenon DEF BridgeRestarts
<1>4. \A k \in Claims : granted'[k] # 0 => k \notin Forgettable(found, read) /\ granted'[k] = granted[k]
  BY Zenon, <1>1
<1>5. Typed'
  <2>1. granted' \in [Claims -> Nat]
    BY <1>1 DEF IInv, Typed
  <2>2. serving' \in [Tokens -> Claims \cup {None, "refresh"}] /\ counter' \in [Tokens -> Nat]
    BY <1>3
  <2> QED  BY Zenon, <1>2, <1>3, <2>1, <2>2 DEF IInv, Typed
<1>6. ServedOnce'
  BY Zenon, <1>2, <1>3 DEF IInv, ServedOnce
<1>7. Bounded'
  <2> SUFFICES ASSUME NEW r \in Bootstrap
               PROVE  Cardinality(Children(r)') <= Least(PerRequest, PerRootCap)
    BY Zenon DEF Bounded
  <2>1. CASE r \in kept
    <3>1. Children(r)' = Children(r)
      BY Zenon, <1>2, <1>3, <2>1 DEF Children
    <3> QED  BY Zenon, <3>1 DEF IInv, Bounded
  <2>2. CASE r \notin kept
    <3>1. Children(r)' = {}
      BY Zenon, <1>2, <1>3, <2>2 DEF Children
    <3>2. Cardinality({}) = 0
      BY Zenon, FS_EmptySet
    <3> QED  BY <3>1, <3>2, SupplyAssumption DEF Least
  <2> QED  BY Zenon, <2>1, <2>2
<1>8. Durable'
  <2>1. /\ claimed' = (IF read THEN {r[1] : r \in found} ELSE {})
        /\ log' = found /\ synced' = synced
    BY Zenon, <1>1 DEF Restore
  <2>2. ASSUME NEW k \in Claims, granted'[k] # 0
        PROVE  granted'[k] = 1 /\ k \in claimed' /\ \E r \in Kept' : r[1] = k
    <3>1. read /\ k \notin unlogged /\ (Fsync \/ \A r \in log \ found : r[1] # k)
      BY Zenon, <1>4, <2>2 DEF Forgettable
    <3>2. granted[k] = 1 /\ \E r \in Kept : r[1] = k
      BY Zenon, <1>4, <2>2, <3>1 DEF IInv, Durable
    <3>3. PICK r \in Kept : r[1] = k
      BY Zenon, <3>2
    <3>4. r \in found /\ r \in Kept'
      BY Zenon, <1>1, <2>1, <3>1, <3>3 DEF Kept
    <3> QED  BY Zenon, <1>4, <2>1, <2>2, <3>1, <3>2, <3>3, <3>4
  <2> QED  BY Zenon, <1>1, <2>1, <2>2 DEF Durable
<1> QED
  BY Zenon, <1>5, <1>6, <1>7, <1>8 DEF IInv

(* A session that ends unserved mints and grants nothing.                  *)
LEMMA AbandonStep ==
    ASSUME IInv, NEW t \in Tokens, Abandon(t)
    PROVE  IInv'
<1>1. /\ serving' = [serving EXCEPT ![t] = None]
      /\ UNCHANGED <<burned, refreshVars, claimVars>>
  BY Zenon DEF Abandon, replayVars
<1>2. Durable' /\ granted' \in [Claims -> Nat]
  BY Zenon, <1>1 DEF IInv, Typed, Durable, Kept, claimVars, logVars
<1> QED
  BY <1>1, <1>2, Unminted DEF IInv

(* Every step keeps the invariant.                                         *)
LEMMA NextInv == IInv /\ [Next]_vars => IInv'
<1> SUFFICES ASSUME IInv, [Next]_vars PROVE IInv'
  BY Zenon
<1>1. ASSUME NEW s \in Sessions,
             Begin(s) \/ next_credentials(s) \/ Fail(s) \/ push_tokens_to_entry(s)
      PROVE  IInv'
  BY Zenon, <1>1, Untouched DEF Begin, next_credentials, Fail, push_tokens_to_entry
<1>2. ASSUME NEW s \in Sessions, Accept(s) PROVE IInv'
  BY Zenon, <1>2, AcceptStep
<1>3. ASSUME NEW c \in Clients, DowngradeExpires(c) \/ ClientRestarts(c) PROVE IInv'
  BY Zenon, <1>3, Untouched DEF DowngradeExpires, ClientRestarts
<1>4. ASSUME NEW t \in Tokens, Abandon(t) PROVE IInv'
  BY Zenon, <1>4, AbandonStep
<1>5. ASSUME NEW t \in Tokens, handle_refresh_request(t) PROVE IInv'
  BY Zenon, <1>5, RefreshStep
<1>6. ASSUME NEW t \in Tokens, NEW k \in Claims, handle_claim_request(t, k) PROVE IInv'
  BY Zenon, <1>6, ClaimStep
<1>7. CASE BridgeRestarts
  BY Zenon, <1>7, RestartStep
<1>8. CASE UNCHANGED vars
  BY Zenon, <1>8, Untouched DEF vars
<1> QED
  BY <1>1, <1>2, <1>3, <1>4, <1>5, <1>6, <1>7, <1>8 DEF Next

(* The invariant holds throughout.                                         *)
LEMMA SupplyInv == Spec => []IInv
BY InitInv, NextInv, PTL DEF Spec

----------------------------------------------------------------------------

(* A claim id is granted once, whichever sessions redeem it, however often *)
(* appends fail and the bridge restarts, until the bridge has one of the   *)
(* four reasons to forget it: try_claim writes the record before it        *)
(* answers, no failed append takes a record away, and the next start reads *)
(* it back.  With claim_log_fsync a power failure is no such reason.       *)
THEOREM ClaimedOnceHolds == Spec => []ClaimedOnce
<1>1. IInv => ClaimedOnce
  BY DEF IInv, Typed, Durable, ClaimedOnce
<1> QED
  BY <1>1, SupplyInv, PTL

(* Refresh tokens come from bootstrap sessions only, by a refresh or by a  *)
(* claim, whatever is asked for on a refresh-authenticated session; and    *)
(* until the replay set loses a bootstrap token it yields no more of them  *)
(* than mint_for_root allows in one request, although its table forgets    *)
(* roots and restarts clear it.                                            *)
THEOREM LineageBoundHolds == Spec => []LineageBound
<1>1. IInv => LineageBound
  BY Zenon DEF IInv, Typed, ServedOnce, Bounded, Children, LineageBound
<1> QED
  BY <1>1, SupplyInv, PTL

-----------------------------------------------------------------------------
(***************************************************************************)
(* NeverReplayed for any clients, invites and caps: a refresh token is in  *)
(* one place at a time (a reply, a deque, or a handshake under way) until  *)
(* it is accepted or lost.                                                 *)
(***************************************************************************)

Deq(c) == Range(fresh_tokens[c])

Held(s) ==
    IF session[s].pc = "replied" THEN Range(session[s].reply)
    ELSE IF session[s].pc = "dialing" THEN {session[s].token} \cap RefreshIds ELSE {}

Unspent == {t \in RefreshIds : parent[t] # None /\ t \notin spent}

SessionRec ==
    [pc : {"idle", "connecting", "dialing", "open", "replied", "cut"},
     token : Tokens \cup {None}, reply : Seq(RefreshIds)]

Shapes ==
    /\ session \in [Sessions -> SessionRec]
    /\ \A s \in Sessions : IsInjective(session[s].reply)
    /\ fresh_tokens \in [Clients -> Seq(RefreshIds)]
    /\ \A c \in Clients : IsInjective(fresh_tokens[c])

Cursors ==
    /\ cursor \in [Clients -> rand_start(LegacyTokens)]
    /\ fs_cursor \in [Clients -> rand_start(FsTokens)]

(* Nobody holds what another one holds, or what was accepted once.         *)
Apart ==
    /\ \A c \in Clients : Deq(c) \subseteq Unspent
    /\ \A s \in Sessions : Held(s) \subseteq Unspent
    /\ \A c, d \in Clients : c # d => Deq(c) \cap Deq(d) = {}
    /\ \A c \in Clients, s \in Sessions : Deq(c) \cap Held(s) = {}
    /\ \A s, r \in Sessions : s # r => Held(s) \cap Held(r) = {}

(* An answer has one session to go to, and what was accepted was minted.   *)
OpenOnce ==
    /\ \A s \in Sessions : session[s].pc = "open" => session[s].token \in burned
    /\ \A s, r \in Sessions :
          session[s].pc = "open" /\ session[r].pc = "open"
             /\ session[s].token = session[r].token => s = r
    /\ \A t \in RefreshIds : t \in spent => parent[t] # None

HInv == Shapes /\ Cursors /\ Apart /\ OpenOnce

----------------------------------------------------------------------------
(* Sequences without repetition. *)

(* A token popped from the deque is in what is left no more.               *)
LEMMA PopInjective ==
    ASSUME NEW S, NEW q \in Seq(S), q # <<>>, IsInjective(q)
    PROVE  /\ Tail(q) \in Seq(S) /\ IsInjective(Tail(q))
           /\ Range(Tail(q)) = Range(q) \ {Head(q)}
           /\ Head(q) \in Range(q) /\ Head(q) \in S
<1>1. /\ Tail(q) \in Seq(S) /\ Len(Tail(q)) = Len(q) - 1 /\ Len(q) >= 1
      /\ DOMAIN Tail(q) = 1..(Len(q) - 1) /\ DOMAIN q = 1..Len(q)
      /\ \A i \in 1..(Len(q) - 1) : Tail(q)[i] = q[i + 1]
      /\ Head(q) = q[1] /\ Len(q) \in Nat
  OBVIOUS
<1>2. IsInjective(Tail(q))
  BY <1>1 DEF IsInjective
<1>3. ASSUME NEW x \in Range(Tail(q)) PROVE x \in Range(q) \ {Head(q)}
  <2>1. PICK i \in 1..(Len(q) - 1) : x = q[i + 1]
    BY Zenon, <1>1 DEF Range
  <2>2. i + 1 \in 1..Len(q) /\ 1 \in 1..Len(q) /\ i + 1 # 1
    BY <1>1
  <2> QED BY Zenon, <1>1, <2>1, <2>2 DEF Range, IsInjective
<1>4. ASSUME NEW x \in Range(q), x # Head(q) PROVE x \in Range(Tail(q))
  <2>1. PICK i \in 1..Len(q) : x = q[i]
    BY Zenon, <1>1 DEF Range
  <2>2. i - 1 \in 1..(Len(q) - 1) /\ (i - 1) + 1 = i
    BY <1>1, <1>4, <2>1
  <2>3. Tail(q)[i - 1] = x
    BY Zenon, <1>1, <2>1, <2>2
  <2> QED BY <1>1, <2>2, <2>3 DEF Range
<1>5. 1 \in 1..Len(q) /\ Head(q) \in Range(q) /\ Head(q) \in S
  BY <1>1 DEF Range
<1> QED BY <1>1, <1>2, <1>3, <1>4, <1>5

(* A deque extended by tokens it has not got has each one once.            *)
LEMMA JoinInjective ==
    ASSUME NEW S, NEW p \in Seq(S), NEW q \in Seq(S), IsInjective(p), IsInjective(q),
           Range(p) \cap Range(q) = {}
    PROVE  /\ p \o q \in Seq(S) /\ IsInjective(p \o q)
           /\ Range(p \o q) = Range(p) \cup Range(q)
<1>1. /\ p \o q \in Seq(S) /\ Len(p \o q) = Len(p) + Len(q)
      /\ DOMAIN (p \o q) = 1..(Len(p) + Len(q))
      /\ DOMAIN p = 1..Len(p) /\ DOMAIN q = 1..Len(q)
      /\ Len(p) \in Nat /\ Len(q) \in Nat
      /\ \A i \in 1..(Len(p) + Len(q)) :
            (p \o q)[i] = IF i <= Len(p) THEN p[i] ELSE q[i - Len(p)]
  OBVIOUS
<1>2. ASSUME NEW i \in 1..(Len(p) + Len(q)) PROVE (p \o q)[i] \in Range(p) \cup Range(q)
  <2>1. CASE i <= Len(p)
    BY <1>1, <2>1 DEF Range
  <2>2. CASE i > Len(p)
    <3>1. i - Len(p) \in 1..Len(q)
      BY <1>1, <2>2
    <3> QED BY <1>1, <2>2, <3>1 DEF Range
  <2> QED BY <1>1, <2>1, <2>2
<1>3. ASSUME NEW i \in 1..(Len(p) + Len(q)), NEW j \in 1..(Len(p) + Len(q)),
             (p \o q)[i] = (p \o q)[j], i < j
      PROVE  FALSE
  <2>1. CASE j <= Len(p)
    <3>1. i \in DOMAIN p /\ j \in DOMAIN p /\ p[i] = p[j]
      BY <1>1, <1>3, <2>1
    <3> QED BY <1>3, <3>1 DEF IsInjective
  <2>2. CASE i > Len(p)
    <3>1. /\ i - Len(p) \in DOMAIN q /\ j - Len(p) \in DOMAIN q
          /\ q[i - Len(p)] = q[j - Len(p)] /\ i - Len(p) # j - Len(p)
      BY <1>1, <1>3, <2>2
    <3> QED BY Zenon, <3>1 DEF IsInjective
  <2>3. CASE i <= Len(p) /\ j > Len(p)
    <3>1. i \in DOMAIN p /\ j - Len(p) \in DOMAIN q /\ p[i] = q[j - Len(p)]
      BY <1>1, <1>3, <2>3
    <3> QED BY Zenon, <3>1 DEF Range
  <2> QED BY <1>1, <1>3, <2>1, <2>2, <2>3
<1>4. IsInjective(p \o q)
  <2> SUFFICES ASSUME NEW i \in 1..(Len(p) + Len(q)), NEW j \in 1..(Len(p) + Len(q)),
                      (p \o q)[i] = (p \o q)[j]
               PROVE  i = j
    BY Zenon, <1>1 DEF IsInjective
  <2>1. i < j \/ j < i \/ i = j
    BY <1>1
  <2> QED BY Zenon, <1>3, <2>1
<1>5. ASSUME NEW x \in Range(p) PROVE x \in Range(p \o q)
  <2>1. PICK i \in 1..Len(p) : x = p[i]
    BY Zenon, <1>1 DEF Range
  <2>2. i \in DOMAIN (p \o q) /\ (p \o q)[i] = x
    BY <1>1, <2>1
  <2> QED BY Zenon, <2>2 DEF Range
<1>6. ASSUME NEW x \in Range(q) PROVE x \in Range(p \o q)
  <2>1. PICK i \in 1..Len(q) : x = q[i]
    BY Zenon, <1>1 DEF Range
  <2>2. Len(p) + i \in 1..(Len(p) + Len(q)) /\ ~(Len(p) + i <= Len(p)) /\ (Len(p) + i) - Len(p) = i
    BY <1>1
  <2>3. (p \o q)[Len(p) + i] = x
    BY Zenon, <1>1, <2>1, <2>2
  <2> QED BY Zenon, <1>1, <2>2, <2>3 DEF Range
<1>7. ASSUME NEW x \in Range(p \o q) PROVE x \in Range(p) \cup Range(q)
  BY Zenon, <1>1, <1>2, <1>7 DEF Range
<1> QED BY Zenon, <1>1, <1>4, <1>5, <1>6, <1>7

(* What SetToSeqs offers.                                                  *)
LEMMA OrderInjective ==
    ASSUME NEW S \in SUBSET RefreshIds, NEW q \in SetToSeqs(S)
    PROVE  q \in Seq(RefreshIds) /\ IsInjective(q) /\ Range(q) \subseteq S
<1>1. Cardinality(S) \in Nat
  BY Zenon, SupplyAssumption, FS_Subset, FS_CardinalityType
<1>2. q \in [1..Cardinality(S) -> S]
  BY Zenon DEF SetToSeqs
<1>3. q \in Seq(RefreshIds)
  BY <1>1, <1>2
<1>4. IsInjective(q)
  BY Zenon, <1>2 DEF SetToSeqs, IsInjective
<1>5. Range(q) \subseteq S
  BY Zenon, <1>2 DEF Range
<1> QED BY Zenon, <1>3, <1>4, <1>5

(* The empty deque has no token.                                           *)
LEMMA EmptyInjective == <<>> \in Seq(RefreshIds) /\ IsInjective(<<>>) /\ Range(<<>>) = {}
<1>1. DOMAIN <<>> = {}
  OBVIOUS
<1> QED BY <1>1 DEF IsInjective, Range
----------------------------------------------------------------------------
(* How a step changes one session. *)

(* The state of a session that is not there is well-formed.                *)
LEMMA NoSessionRec == NoSession \in SessionRec /\ IsInjective(NoSession.reply)
BY Zenon, EmptyInjective DEF NoSession, SessionRec

(* A session that moves on changes no token and no other session.          *)
LEMMA MovedRec ==
    ASSUME Shapes, NEW s \in Sessions,
           NEW pc \in {"idle", "connecting", "dialing", "open", "replied", "cut"},
           session' = Moved(s, pc)
    PROVE  /\ session' \in [Sessions -> SessionRec]
           /\ session'[s].pc = pc
           /\ session'[s].token = session[s].token
           /\ session'[s].reply = session[s].reply
           /\ \A r \in Sessions : r # s => session'[r] = session[r]
<1>1. session' = [session EXCEPT ![s] = [session[s] EXCEPT !.pc = pc]]
  BY Zenon DEF Moved
<1>2. session[s] \in SessionRec /\ session \in [Sessions -> SessionRec]
  BY Zenon DEF Shapes
<1>3. /\ [session[s] EXCEPT !.pc = pc] \in SessionRec
      /\ [session[s] EXCEPT !.pc = pc].pc = pc
      /\ [session[s] EXCEPT !.pc = pc].token = session[s].token
      /\ [session[s] EXCEPT !.pc = pc].reply = session[s].reply
  BY Zenon, <1>2 DEF SessionRec
<1> HIDE DEF SessionRec
<1> QED BY <1>1, <1>2, <1>3

(* A session that ends leaves the others alone.                            *)
LEMMA EndedRec ==
    ASSUME Shapes, NEW s \in Sessions, session' = Ended(s)
    PROVE  /\ session' \in [Sessions -> SessionRec]
           /\ session'[s] = NoSession
           /\ \A r \in Sessions : r # s => session'[r] = session[r]
BY Zenon, NoSessionRec DEF Shapes, Ended

(* Nobody gets anything. *)
LEMMA Narrow ==
    ASSUME Apart, UNCHANGED <<spent, parent>>,
           \A c \in Clients : Deq(c)' \subseteq Deq(c),
           \A s \in Sessions : Held(s)' \subseteq Held(s)
    PROVE  Apart'
<1>1. Unspent' = Unspent
  BY Zenon DEF Unspent
<1> QED BY Zenon, <1>1 DEF Apart

(* A step that opens no session keeps an answer's addressee unique.        *)
LEMMA NoneOpened ==
    ASSUME OpenOnce, UNCHANGED <<burned, spent, parent>>,
           \A s \in Sessions : session'[s].pc = "open" => session'[s] = session[s]
    PROVE  OpenOnce'
BY Zenon DEF OpenOnce

(* A session that is not there is not open.                                *)
LEMMA NoSessionHolds == NoSession.pc = "idle" /\ NoSession.pc # "open"
BY DEF NoSession

----------------------------------------------------------------------------
(* The steps. *)

(* At the start nobody holds a refresh token.                              *)
LEMMA InitHInv == Init => HInv
<1> SUFFICES ASSUME Init PROVE HInv
  BY Zenon
<1>1. Shapes
  BY Zenon, NoSessionRec, EmptyInjective DEF Init, Shapes
<1>2. Cursors
  BY Zenon DEF Init, Cursors
<1>3. \A c \in Clients : Deq(c) = {}
  BY Zenon, EmptyInjective DEF Init, Deq
<1>4. \A s \in Sessions : Held(s) = {} /\ session[s].pc # "open"
  BY Zenon, NoSessionHolds DEF Init, Held
<1>5. Apart
  BY Zenon, <1>3, <1>4 DEF Apart
<1>6. OpenOnce
  BY Zenon, <1>4 DEF Init, OpenOnce
<1> QED BY Zenon, <1>1, <1>2, <1>5, <1>6 DEF HInv

(* A session that begins holds nothing yet.                                *)
LEMMA BeginStep ==
    ASSUME HInv, NEW s \in Sessions, Begin(s)
    PROVE  HInv'
<1> USE DEF HInv
<1>1. /\ session' = Moved(s, "connecting") /\ session[s].pc = "idle"
      /\ UNCHANGED <<fresh_tokens, cursor, fs_cursor, burned, spent, parent>>
  BY Zenon DEF Begin, clientVars, refreshVars, replayVars
<1>2. /\ session' \in [Sessions -> SessionRec] /\ session'[s].pc = "connecting"
      /\ session'[s].reply = session[s].reply
      /\ \A r \in Sessions : r # s => session'[r] = session[r]
  BY Zenon, <1>1, MovedRec
<1>3. Shapes' /\ Cursors'
  BY Zenon, <1>1, <1>2 DEF Shapes, Cursors
<1>4. Apart'
  <2>1. \A c \in Clients : Deq(c)' \subseteq Deq(c)
    BY Zenon, <1>1 DEF Deq
  <2>2. \A r \in Sessions : Held(r)' \subseteq Held(r)
    BY Zenon, <1>2 DEF Held
  <2> QED BY <1>1, <2>1, <2>2, Narrow
<1>5. OpenOnce'
  BY <1>1, <1>2, NoneOpened
<1> QED BY <1>3, <1>4, <1>5

(* A dial that fails loses its token: it goes back to no deque.            *)
LEMMA FailStep ==
    ASSUME HInv, NEW s \in Sessions, Fail(s)
    PROVE  HInv'
<1> USE DEF HInv
<1>1. /\ session' = Ended(s)
      /\ UNCHANGED <<fresh_tokens, cursor, fs_cursor, burned, spent, parent>>
  BY Zenon DEF Fail, refreshVars, replayVars
<1>2. /\ session' \in [Sessions -> SessionRec] /\ session'[s] = NoSession
      /\ \A r \in Sessions : r # s => session'[r] = session[r]
  BY Zenon, <1>1, EndedRec
<1>3. Shapes' /\ Cursors'
  BY <1>1, <1>2, NoSessionRec DEF Shapes, Cursors
<1>4. Apart'
  <2>1. \A c \in Clients : Deq(c)' \subseteq Deq(c)
    BY Zenon, <1>1 DEF Deq
  <2>2. \A r \in Sessions : Held(r)' \subseteq Held(r)
    BY Zenon, <1>2, NoSessionHolds DEF Held
  <2> QED BY <1>1, <2>1, <2>2, Narrow
<1>5. OpenOnce'
  BY <1>1, <1>2, NoSessionHolds, NoneOpened
<1> QED BY Zenon, <1>3, <1>4, <1>5

(* The tokens of a reply move into the deque.                              *)
LEMMA PushStep ==
    ASSUME HInv, NEW s \in Sessions, push_tokens_to_entry(s)
    PROVE  HInv'
<1> DEFINE c == Client(s)
<1> USE DEF HInv
<1>0. c \in Clients
  BY Zenon DEF Client, Sessions
<1>1. /\ session' = Ended(s) /\ session[s].pc = "replied"
      /\ fresh_tokens' = [fresh_tokens EXCEPT ![c] = @ \o session[s].reply]
      /\ UNCHANGED <<cursor, fs_cursor, burned, spent, parent>>
  BY Zenon DEF push_tokens_to_entry, refreshVars, replayVars
<1>2. /\ session' \in [Sessions -> SessionRec] /\ session'[s] = NoSession
      /\ \A r \in Sessions : r # s => session'[r] = session[r]
  BY Zenon, <1>1, EndedRec
<1>3. /\ fresh_tokens[c] \in Seq(RefreshIds) /\ IsInjective(fresh_tokens[c])
      /\ session[s].reply \in Seq(RefreshIds) /\ IsInjective(session[s].reply)
  BY Zenon, <1>0 DEF Shapes, SessionRec
<1>4. Held(s) = Range(session[s].reply) /\ Deq(c) = Range(fresh_tokens[c])
      /\ Deq(c) \cap Held(s) = {}
  BY Zenon, <1>0, <1>1 DEF Held, Deq, Apart
<1>5. LET q == fresh_tokens[c] \o session[s].reply
      IN  q \in Seq(RefreshIds) /\ IsInjective(q) /\ Range(q) = Deq(c) \cup Held(s)
  BY <1>3, <1>4, JoinInjective
<1>6. Shapes' /\ Cursors'
  <2>1. fresh_tokens' \in [Clients -> Seq(RefreshIds)] /\ \A d \in Clients : IsInjective(fresh_tokens'[d])
    BY Zenon, <1>0, <1>1, <1>5 DEF Shapes
  <2> QED BY Zenon, <1>1, <1>2, <2>1, NoSessionRec DEF Shapes, Cursors
<1>7. Apart'
  <2>1. Deq(c)' = Deq(c) \cup Held(s)
    BY Zenon, <1>0, <1>1, <1>5 DEF Deq, Shapes
  <2>2. \A d \in Clients : d # c => Deq(d)' = Deq(d)
    BY Zenon, <1>1 DEF Deq, Shapes
  <2>3. Held(s)' = {}
    BY Zenon, <1>2, NoSessionHolds DEF Held
  <2>4. \A r \in Sessions : r # s => Held(r)' = Held(r)
    BY Zenon, <1>2 DEF Held
  <2>5. Unspent' = Unspent
    BY Zenon, <1>1 DEF Unspent
  <2> HIDE DEF c
  <2> QED BY <1>0, <2>1, <2>2, <2>3, <2>4, <2>5 DEF Apart
<1>8. OpenOnce'
  BY <1>1, <1>2, NoSessionHolds, NoneOpened
<1> QED BY Zenon, <1>6, <1>7, <1>8

(* The head of the deque, or a bootstrap token, goes into a handshake.     *)
LEMMA CredentialsStep ==
    ASSUME HInv, NEW s \in Sessions, next_credentials(s)
    PROVE  HInv'
<1> DEFINE c == Client(s)
           q == fresh_tokens[c]
<1> USE DEF HInv
<1>0. c \in Clients
  BY Zenon DEF Client, Sessions
<1>1. session[s].pc = "connecting" /\ UNCHANGED <<burned, spent, parent>>
  BY Zenon DEF next_credentials, refreshVars, replayVars
<1>2. session[s] \in SessionRec /\ session \in [Sessions -> SessionRec]
  BY Zenon DEF Shapes
<1>3. q \in Seq(RefreshIds) /\ IsInjective(q)
  BY Zenon, <1>0 DEF Shapes
<1>4. ASSUME NEW t \in Tokens,
             session' = [session EXCEPT ![s].pc = "dialing", ![s].token = t]
      PROVE  /\ session' \in [Sessions -> SessionRec]
             /\ session'[s].pc = "dialing" /\ session'[s].token = t
             /\ session'[s].reply = session[s].reply
             /\ \A r \in Sessions : r # s => session'[r] = session[r]
  <2> DEFINE rec == [[session[s] EXCEPT !.pc = "dialing"] EXCEPT !.token = t]
  <2>1. session' = [session EXCEPT ![s] = rec]
    BY Zenon, <1>2, <1>4
  <2>2. /\ rec \in SessionRec /\ rec.pc = "dialing" /\ rec.token = t
        /\ rec.reply = session[s].reply
    BY <1>2 DEF SessionRec
  <2> HIDE DEF rec, SessionRec
  <2> QED BY <1>2, <2>1, <2>2
<1>5. CASE q # <<>>
  <2>1. /\ session' = [session EXCEPT ![s].pc = "dialing", ![s].token = Head(q)]
        /\ fresh_tokens' = [fresh_tokens EXCEPT ![c] = Tail(q)]
        /\ UNCHANGED <<cursor, fs_cursor>>
    BY Zenon, <1>5 DEF next_credentials, PoppedFresh
  <2>2. /\ Tail(q) \in Seq(RefreshIds) /\ IsInjective(Tail(q))
        /\ Range(Tail(q)) = Range(q) \ {Head(q)}
        /\ Head(q) \in Range(q) /\ Head(q) \in RefreshIds
    BY <1>3, <1>5, PopInjective
  <2>3. Head(q) \in Tokens
    BY Zenon, <2>2 DEF Tokens
  <2>4. /\ session' \in [Sessions -> SessionRec]
        /\ session'[s].pc = "dialing" /\ session'[s].token = Head(q)
        /\ session'[s].reply = session[s].reply
        /\ \A r \in Sessions : r # s => session'[r] = session[r]
    BY <1>4, <2>1, <2>3
  <2>5. Shapes' /\ Cursors'
    <3>1. fresh_tokens' \in [Clients -> Seq(RefreshIds)] /\ \A d \in Clients : IsInjective(fresh_tokens'[d])
      BY <1>0, <2>1, <2>2 DEF Shapes
    <3> QED BY <2>1, <2>4, <3>1 DEF Shapes, Cursors
  <2>6. Apart'
    <3>1. Deq(c)' = Deq(c) \ {Head(q)} /\ Head(q) \in Deq(c)
      BY Zenon, <1>0, <2>1, <2>2 DEF Deq, Shapes
    <3>2. \A d \in Clients : d # c => Deq(d)' = Deq(d)
      BY Zenon, <2>1 DEF Deq, Shapes
    <3>3. Held(s)' = {Head(q)}
      BY Zenon, <2>2, <2>4 DEF Held
    <3>4. \A r \in Sessions : r # s => Held(r)' = Held(r)
      BY Zenon, <2>4 DEF Held
    <3>5. Unspent' = Unspent
      BY Zenon, <1>1 DEF Unspent
    <3> HIDE DEF c, q
    <3> QED BY <1>0, <3>1, <3>2, <3>3, <3>4, <3>5 DEF Apart
  <2>7. OpenOnce'
    BY <1>1, <2>4, NoneOpened
  <2> QED BY Zenon, <2>5, <2>6, <2>7
<1>6. CASE q = <<>>
  <2>1. PICK t \in Bootstrap :
            /\ session' = [session EXCEPT ![s].pc = "dialing", ![s].token = t]
            /\ fresh_tokens' = fresh_tokens
            /\ Cursors'
    <3>1. CASE UNCHANGED <<fresh_tokens, cursor>> /\ FsTokens # <<>>
               /\ session' = [session EXCEPT ![s].pc = "dialing",
                                             ![s].token = FsTokens[fs_cursor[c] + 1]]
               /\ fs_cursor' = [fs_cursor EXCEPT ![c] = (@ + 1) % Len(FsTokens)]
      <4>1. /\ Len(FsTokens) \in Nat /\ Len(FsTokens) >= 1
            /\ DOMAIN FsTokens = 1..Len(FsTokens)
        BY <3>1, SupplyAssumption
      <4>2. fs_cursor[c] \in 0..(Len(FsTokens) - 1) /\ rand_start(FsTokens) = 0..(Len(FsTokens) - 1)
        BY Zenon, <1>0, <3>1 DEF Cursors, rand_start
      <4>3. FsTokens[fs_cursor[c] + 1] \in Bootstrap
        BY <4>1, <4>2 DEF Bootstrap, Range
      <4>4. (fs_cursor[c] + 1) % Len(FsTokens) \in 0..(Len(FsTokens) - 1)
        BY <4>1, <4>2
      <4>5. Cursors'
        BY <1>0, <3>1, <4>2, <4>4 DEF Cursors
      <4> QED BY <3>1, <4>3, <4>5
    <3>2. CASE UNCHANGED <<fresh_tokens, fs_cursor>> /\ LegacyTokens # <<>>
               /\ session' = [session EXCEPT ![s].pc = "dialing",
                                             ![s].token = LegacyTokens[cursor[c] + 1]]
               /\ cursor' = [cursor EXCEPT ![c] = (@ + 1) % Len(LegacyTokens)]
      <4>1. /\ Len(LegacyTokens) \in Nat /\ Len(LegacyTokens) >= 1
            /\ DOMAIN LegacyTokens = 1..Len(LegacyTokens)
        BY <3>2, SupplyAssumption
      <4>2. cursor[c] \in 0..(Len(LegacyTokens) - 1) /\ rand_start(LegacyTokens) = 0..(Len(LegacyTokens) - 1)
        BY Zenon, <1>0, <3>2 DEF Cursors, rand_start
      <4>3. LegacyTokens[cursor[c] + 1] \in Bootstrap
        BY <4>1, <4>2 DEF Bootstrap, Range
      <4>4. (cursor[c] + 1) % Len(LegacyTokens) \in 0..(Len(LegacyTokens) - 1)
        BY <4>1, <4>2
      <4>5. Cursors'
        BY <1>0, <3>2, <4>2, <4>4 DEF Cursors
      <4> QED BY Zenon, <3>2, <4>3, <4>5
    <3>3. FsTokens # <<>> \/ LegacyTokens # <<>>
      <4> SUFFICES ASSUME FsTokens = <<>>, LegacyTokens = <<>> PROVE FALSE
        BY Zenon
      <4>1. Bootstrap = {}
        BY Zenon, EmptyInjective DEF Bootstrap
      <4> QED BY Zenon, <4>1, SupplyAssumption
    <3> QED BY <1>6, <3>1, <3>2, <3>3 DEF next_credentials
  <2>2. t \in Tokens /\ t \notin RefreshIds
    BY Zenon, <2>1, SupplyAssumption DEF Tokens
  <2>3. /\ session' \in [Sessions -> SessionRec]
        /\ session'[s].pc = "dialing" /\ session'[s].token = t
        /\ session'[s].reply = session[s].reply
        /\ \A r \in Sessions : r # s => session'[r] = session[r]
    BY <1>4, <2>1, <2>2
  <2>4. Shapes'
    BY Zenon, <2>1, <2>3 DEF Shapes
  <2>5. Apart'
    <3>1. \A d \in Clients : Deq(d)' \subseteq Deq(d)
      BY Zenon, <2>1 DEF Deq
    <3>2. \A r \in Sessions : Held(r)' \subseteq Held(r)
      BY Zenon, <2>2, <2>3 DEF Held
    <3> QED BY <1>1, <3>1, <3>2, Narrow
  <2>6. OpenOnce'
    BY <1>1, <2>3, NoneOpened
  <2> QED BY <2>1, <2>4, <2>5, <2>6
<1> QED BY <1>5, <1>6

(* A restarted client has lost all its refresh tokens.                     *)
LEMMA ClientRestartStep ==
    ASSUME HInv, NEW c \in Clients, ClientRestarts(c)
    PROVE  HInv'
<1> USE DEF HInv
<1>1. /\ session' = [s \in Sessions |-> IF Client(s) = c THEN NoSession ELSE session[s]]
      /\ fresh_tokens' = [fresh_tokens EXCEPT ![c] = <<>>]
      /\ UNCHANGED <<burned, spent, parent>>
  BY Zenon DEF ClientRestarts, refreshVars, replayVars
<1>2. Shapes'
  BY <1>1, NoSessionRec, EmptyInjective DEF Shapes
<1>3. Cursors'
  BY Zenon DEF ClientRestarts, Cursors
<1>4. Apart'
  <2>1. \A d \in Clients : Deq(d)' \subseteq Deq(d)
    BY Zenon, <1>1, EmptyInjective DEF Deq, Shapes
  <2>2. \A r \in Sessions : Held(r)' \subseteq Held(r)
    BY Zenon, <1>1, NoSessionHolds DEF Held
  <2> QED BY <1>1, <2>1, <2>2, Narrow
<1>5. OpenOnce'
  BY <1>1, NoSessionHolds, NoneOpened
<1> QED BY <1>2, <1>3, <1>4, <1>5

(* The token is burned while nobody else holds it.                         *)
LEMMA AcceptHeldStep ==
    ASSUME HInv, NEW s \in Sessions, Accept(s)
    PROVE  HInv'
<1> DEFINE t == session[s].token
<1> USE DEF HInv
<1>1. /\ session[s].pc = "dialing" /\ t \notin burned /\ burned' = burned \cup {t}
      /\ session' = Moved(s, "open") /\ spent' = spent \cup ({t} \cap RefreshIds)
      /\ UNCHANGED <<fresh_tokens, cursor, fs_cursor, parent>>
  BY Zenon DEF Accept, clientVars, refreshVars, replayVars
<1>2. /\ session' \in [Sessions -> SessionRec] /\ session'[s].pc = "open"
      /\ session'[s].token = t /\ session'[s].reply = session[s].reply
      /\ \A r \in Sessions : r # s => session'[r] = session[r]
  BY Zenon, <1>1, MovedRec
<1>3. Shapes' /\ Cursors'
  BY Zenon, <1>1, <1>2 DEF Shapes, Cursors
<1>4. Held(s) = {t} \cap RefreshIds
  BY Zenon, <1>1 DEF Held
<1>5. Apart'
  <2>1. \A d \in Clients : Deq(d)' = Deq(d)
    BY Zenon, <1>1 DEF Deq
  <2>2. Held(s)' = {}
    BY Zenon, <1>2 DEF Held
  <2>3. \A r \in Sessions : r # s => Held(r)' = Held(r)
    BY Zenon, <1>2 DEF Held
  <2>4. Unspent' = Unspent \ Held(s)
    BY Zenon, <1>1, <1>4 DEF Unspent
  <2> HIDE DEF t
  <2> QED BY <2>1, <2>2, <2>3, <2>4 DEF Apart
<1>6. OpenOnce'
  <2>1. \A x \in RefreshIds : x \in spent' => parent'[x] # None
    BY Zenon, <1>1, <1>4 DEF OpenOnce, Apart, Unspent
  <2>2. \A r \in Sessions : r # s /\ session[r].pc = "open" => session[r].token # t
    BY Zenon, <1>1 DEF OpenOnce
  <2> HIDE DEF t
  <2> QED BY <1>1, <1>2, <2>1, <2>2 DEF OpenOnce
<1> QED BY Zenon, <1>3, <1>5, <1>6

(* An answer puts the minted tokens, which nobody had, into one session.   *)
LEMMA AnswerHeld ==
    ASSUME HInv, NEW t \in Tokens, NEW minted \in SUBSET RefreshIds,
           NEW reply \in Seq(RefreshIds), IsInjective(reply), Range(reply) \subseteq minted,
           Answer(t, reply),
           \A x \in minted : parent[x] = None,
           parent' = [x \in RefreshIds |-> IF x \in minted THEN t ELSE parent[x]],
           UNCHANGED <<fresh_tokens, cursor, fs_cursor, burned, spent>>
    PROVE  HInv'
<1> DEFINE Gets(s) == session[s].pc = "open" /\ session[s].token = t /\ s[2] = "maintenance"
<1> USE DEF HInv
<1>0. t # None
  BY Zenon, SupplyAssumption DEF None
<1>1. ASSUME NEW s \in Sessions
      PROVE  /\ ~Gets(s) => session'[s] = session[s]
             /\ Gets(s) => session'[s].pc = "replied" /\ session'[s].reply = reply
             /\ session'[s] \in SessionRec
  <2>1. session[s] \in SessionRec
    BY Zenon DEF Shapes
  <2>2. session'[s] = IF Gets(s) THEN [session[s] EXCEPT !.pc = "replied", !.reply = reply]
                      ELSE session[s]
    BY Zenon DEF Answer
  <2> HIDE DEF Gets
  <2> QED BY Zenon, <2>1, <2>2 DEF SessionRec
<1>2. Shapes'
  <2>1. session' = [s \in Sessions |-> session'[s]]
    BY Zenon DEF Answer
  <2>2. session' \in [Sessions -> SessionRec]
    BY Zenon, <1>1, <2>1
  <2>3. \A s \in Sessions : IsInjective(session'[s].reply)
    BY Zenon, <1>1 DEF Shapes
  <2> QED BY Zenon, <2>2, <2>3 DEF Shapes
<1>3. Cursors'
  BY Zenon DEF Cursors
<1>4. Unspent \subseteq Unspent' /\ minted \subseteq Unspent' /\ minted \cap Unspent = {}
  <2>1. \A x \in RefreshIds : x \in spent => parent[x] # None
    BY Zenon DEF OpenOnce
  <2> QED BY Zenon, <1>0, <2>1 DEF Unspent
<1>5. \A s, r \in Sessions : Gets(s) /\ Gets(r) => s = r
  BY Zenon DEF OpenOnce
<1>6. Apart'
  <2>1. \A d \in Clients : Deq(d)' = Deq(d)
    BY Zenon DEF Deq
  <2>2. \A s \in Sessions : ~Gets(s) => Held(s)' = Held(s)
    BY Zenon, <1>1 DEF Held
  <2>3. \A s \in Sessions : Gets(s) => Held(s)' \subseteq minted
    BY Zenon, <1>1 DEF Held
  <2> HIDE DEF Gets
  <2> QED BY <1>4, <1>5, <2>1, <2>2, <2>3 DEF Apart
<1>7. OpenOnce'
  <2>1. \A s \in Sessions : session'[s].pc = "open" => session'[s] = session[s]
    BY Zenon, <1>1
  <2>2. \A x \in RefreshIds : parent[x] # None => parent'[x] # None
    BY Zenon, <1>0
  <2> QED BY <2>1, <2>2 DEF OpenOnce
<1> QED BY <1>2, <1>3, <1>6, <1>7

(* An answer without tokens.                                               *)
LEMMA RefusalHeld ==
    ASSUME HInv, NEW t \in Tokens, Answer(t, <<>>), UNCHANGED refreshVars,
           UNCHANGED <<fresh_tokens, cursor, fs_cursor, burned, spent>>,
           parent \in [RefreshIds -> Tokens \cup {None}]
    PROVE  HInv'
<1>1. parent' = [x \in RefreshIds |-> IF x \in {} THEN t ELSE parent[x]]
  BY Zenon DEF refreshVars, replayVars
<1> QED BY Zenon, <1>1, EmptyInjective, AnswerHeld

(* Freshly minted tokens are held by the answer alone.                     *)
LEMMA MintedHeld ==
    ASSUME HInv, NEW t \in Tokens, NEW minted \in SUBSET RefreshIds,
           mint_for_root(t, minted), NEW reply \in SetToSeqs(minted), Answer(t, reply),
           UNCHANGED <<fresh_tokens, cursor, fs_cursor, burned, spent>>
    PROVE  HInv'
<1>1. reply \in Seq(RefreshIds) /\ IsInjective(reply) /\ Range(reply) \subseteq minted
  BY Zenon, OrderInjective
<1>2. /\ \A x \in minted : parent[x] = None
      /\ parent' = [x \in RefreshIds |-> IF x \in minted THEN t ELSE parent[x]]
  BY Zenon DEF mint_for_root
<1> QED BY Zenon, <1>1, <1>2, AnswerHeld

(* Steps that move no token.                                               *)
LEMMA NothingMoves ==
    ASSUME HInv, UNCHANGED <<session, fresh_tokens, cursor, fs_cursor, burned, spent, parent>>
    PROVE  HInv'
<1>1. /\ \A c \in Clients : Deq(c)' = Deq(c)
      /\ \A s \in Sessions : Held(s)' = Held(s)
  BY Zenon DEF Deq, Held
<1>2. Apart'
  BY Zenon, <1>1, Narrow DEF HInv
<1> QED BY Zenon, <1>2 DEF HInv, Shapes, Cursors, OpenOnce

(* A bridge that goes away leaves no session that waits for an answer.     *)
LEMMA BridgeRestartStep ==
    ASSUME HInv, BridgeRestarts
    PROVE  HInv'
<1> DEFINE Cut(s) == [session[s] EXCEPT !.pc = "cut"]
<1>1. /\ session' = [s \in Sessions |-> IF session[s].pc = "open" THEN Cut(s) ELSE session[s]]
      /\ UNCHANGED <<fresh_tokens, cursor, fs_cursor, spent, parent>>
  BY Zenon DEF BridgeRestarts, clientVars
<1>2. ASSUME NEW s \in Sessions
      PROVE  /\ session'[s] \in SessionRec /\ session'[s].reply = session[s].reply
             /\ session'[s].pc # "open"
             /\ session'[s].pc = session[s].pc \/ session'[s].pc = "cut"
             /\ session'[s].token = session[s].token
  <2>1. session[s] \in SessionRec
    BY Zenon DEF HInv, Shapes
  <2>2. /\ Cut(s) \in SessionRec /\ Cut(s).reply = session[s].reply
        /\ Cut(s).pc = "cut" /\ Cut(s).token = session[s].token
    BY Zenon, <2>1 DEF SessionRec
  <2>3. session'[s] = IF session[s].pc = "open" THEN Cut(s) ELSE session[s]
    BY Zenon, <1>1
  <2> HIDE DEF Cut
  <2> QED  BY <2>1, <2>2, <2>3
<1>3. Shapes'
  <2>1. session' \in [Sessions -> SessionRec]
    BY Zenon, <1>1, <1>2
  <2> QED  BY Zenon, <1>1, <1>2, <2>1 DEF HInv, Shapes
<1>4. Cursors'
  BY Zenon, <1>1 DEF HInv, Cursors
<1>5. Apart'
  <2>1. /\ \A c \in Clients : Deq(c)' \subseteq Deq(c)
        /\ \A s \in Sessions : Held(s)' \subseteq Held(s)
    BY <1>1, <1>2 DEF Deq, Held
  <2> QED  BY Zenon, <1>1, <2>1, Narrow DEF HInv
<1>6. OpenOnce'
  BY Zenon, <1>1, <1>2 DEF HInv, OpenOnce
<1> QED BY Zenon, <1>3, <1>4, <1>5, <1>6 DEF HInv

ParentTyped == parent \in [RefreshIds -> Tokens \cup {None}]

(* Every step keeps a refresh token in one place.                          *)
LEMMA NextHInv == HInv /\ ParentTyped /\ [Next]_vars => HInv' /\ ParentTyped'
<1> SUFFICES ASSUME HInv, ParentTyped, [Next]_vars PROVE HInv' /\ ParentTyped'
  BY Zenon
<1>1. ASSUME NEW s \in Sessions,
             Begin(s) \/ next_credentials(s) \/ Fail(s) \/ push_tokens_to_entry(s) \/ Accept(s)
      PROVE  HInv' /\ ParentTyped'
  <2>1. HInv'
    BY <1>1, BeginStep, CredentialsStep, FailStep, PushStep, AcceptHeldStep
  <2>2. UNCHANGED parent
    BY Zenon, <1>1 DEF Begin, next_credentials, Fail, push_tokens_to_entry, Accept, refreshVars, replayVars
  <2> QED BY Zenon, <2>1, <2>2 DEF ParentTyped
<1>2. ASSUME NEW c \in Clients, ClientRestarts(c) PROVE HInv' /\ ParentTyped'
  BY Zenon, <1>2, ClientRestartStep DEF ClientRestarts, refreshVars, replayVars, ParentTyped
<1>3. ASSUME NEW c \in Clients, DowngradeExpires(c) PROVE HInv' /\ ParentTyped'
  BY Zenon, <1>3, NothingMoves DEF DowngradeExpires, refreshVars, replayVars, ParentTyped
<1>4. ASSUME NEW t \in Tokens, Abandon(t) PROVE HInv' /\ ParentTyped'
  BY Zenon, <1>4, NothingMoves DEF Abandon, clientVars, refreshVars, replayVars, ParentTyped
<1>5. ASSUME NEW t \in Tokens,
             handle_refresh_request(t) \/ \E k \in Claims : handle_claim_request(t, k)
      PROVE  HInv' /\ ParentTyped'
  <2>1. UNCHANGED <<fresh_tokens, cursor, fs_cursor, burned, spent>>
    BY Zenon, <1>5 DEF handle_refresh_request, handle_claim_request, clientVars, replayVars
  <2>2. CASE Answer(t, <<>>) /\ UNCHANGED refreshVars
    BY <2>1, <2>2, RefusalHeld DEF refreshVars, replayVars, ParentTyped
  <2>3. CASE \E minted \in SUBSET RefreshIds :
               mint_for_root(t, minted) /\ \E reply \in SetToSeqs(minted) : Answer(t, reply)
    <3>1. PICK minted \in SUBSET RefreshIds : /\ mint_for_root(t, minted)
                                              /\ \E reply \in SetToSeqs(minted) : Answer(t, reply)
      BY Zenon, <2>3
    <3>2. PICK reply \in SetToSeqs(minted) : Answer(t, reply)
      BY Zenon, <3>1
    <3>3. HInv'
      BY <2>1, <3>1, <3>2, MintedHeld
    <3>4. ParentTyped'
      BY Zenon, <3>1 DEF mint_for_root, ParentTyped
    <3> QED BY Zenon, <3>3, <3>4
  <2> QED BY <1>5, <2>2, <2>3 DEF handle_refresh_request, handle_claim_request
<1>6. CASE BridgeRestarts
  BY Zenon, <1>6, BridgeRestartStep DEF BridgeRestarts, ParentTyped
<1>7. CASE UNCHANGED vars
  BY Zenon, <1>7, NothingMoves DEF vars, clientVars, refreshVars, replayVars, ParentTyped
<1> QED BY <1>1, <1>2, <1>3, <1>4, <1>5, <1>6, <1>7 DEF Next

(* For any number of clients and any invite, a refresh token that a client *)
(* presents was never accepted before: two tasks on one deque, lost replies*)
(* and restarts never put it in two places (next_credentials,              *)
(* push_tokens_to_entry, handle_refresh_request, handle_claim_request).    *)
THEOREM NeverReplayedHolds == Spec => []NeverReplayed
<1>1. Init => HInv /\ ParentTyped
  BY Zenon, InitHInv DEF Init, ParentTyped
<1>2. HInv => NeverReplayed
  <2> SUFFICES ASSUME HInv, NEW s \in Sessions,
                      session[s].pc = "dialing", session[s].token \in RefreshIds
               PROVE  session[s].token \notin spent
    BY Zenon DEF NeverReplayed
  <2>1. session[s].token \in Held(s)
    BY Zenon DEF Held
  <2> QED BY Zenon, <2>1 DEF HInv, Apart, Unspent
<1> QED BY <1>1, <1>2, NextHInv, PTL DEF Spec
=============================================================================
