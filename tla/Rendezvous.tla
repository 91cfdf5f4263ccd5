----------------------------- MODULE Rendezvous -----------------------------
(***************************************************************************)
(* RendezvousState of circuit/src/rendezvous.rs: the tables in which one   *)
(* bridge keeps the introduction points and the parked cookies of its      *)
(* circuits, the role of each circuit, and the pairs that have met.        *)
(*                                                                         *)
(* A map is a function with the value NoCircuit where the key is absent.   *)
(* The age of an entry is one bit: past its TTL or not.  Signatures are    *)
(* checked before any table is touched; a request that fails there, or     *)
(* that a guard below refuses, changes nothing and is not a step.          *)
(***************************************************************************)
EXTENDS Naturals, FiniteSets

CONSTANTS
    Circuits,    \* CircuitRefs: a session handle and a circuit id
    Keys,        \* introduction keys
    Cookies,     \* rendezvous cookies
    MaxIntros,   \* MAX_INTRO_REGISTRATIONS
    MaxCookies,  \* MAX_PARKED_COOKIES
    NoCircuit

ASSUME RendezvousAssumption ==
    /\ NoCircuit \notin Circuits \cup Keys \cup Cookies
    /\ MaxIntros \in Nat /\ MaxCookies \in Nat

VARIABLES
    intros,     \* key -> the circuit that registered it
    introOld,   \* the keys whose registration is past its TTL
    cookies,    \* cookie -> the circuit that parked it
    cookieOld,  \* the cookies past their TTL
    roles,      \* circuit -> its role
    joined      \* circuit -> its partner

rvVars == <<intros, introOld, cookies, cookieOld, roles, joined>>

NoRole == [kind |-> "none", of |-> NoCircuit]
Intro(k) == [kind |-> "intro", of |-> k]
Cookie(c) == [kind |-> "cookie", of |-> c]
Joined == [kind |-> "joined", of |-> NoCircuit]
Role == {NoRole, Joined} \cup {Intro(k) : k \in Keys} \cup {Cookie(c) : c \in Cookies}

Present(table) == {x \in DOMAIN table : table[x] # NoCircuit}
Room(table, cap) == Cardinality(Present(table)) < cap

----------------------------------------------------------------------------
(* A key stays with the circuit that registered it until its TTL is over.  *)
(* A circuit that lost its key that way keeps its role.                    *)
establish_intro(circ, k) ==
    /\ roles[circ] = NoRole
    /\ intros[k] \in {NoCircuit, circ} \/ k \in introOld
    /\ Room(intros, MaxIntros)
    /\ intros' = [intros EXCEPT ![k] = circ]
    /\ introOld' = introOld \ {k}
    /\ roles' = [roles EXCEPT ![circ] = Intro(k)]
    /\ UNCHANGED <<cookies, cookieOld, joined>>

EstablishRendezvousBusy(circ, c) ==
    /\ cookies[c] = NoCircuit
    /\ Room(cookies, MaxCookies)
    /\ cookies' = [cookies EXCEPT ![c] = circ]
    /\ roles' = [roles EXCEPT ![circ] = Cookie(c)]
    /\ UNCHANGED <<intros, introOld, cookieOld, joined>>

establish_rendezvous(circ, c) ==
    /\ roles[circ] = NoRole
    /\ cookies[c] = NoCircuit
    /\ Room(cookies, MaxCookies)
    /\ cookies' = [cookies EXCEPT ![c] = circ]
    /\ roles' = [roles EXCEPT ![circ] = Cookie(c)]
    /\ UNCHANGED <<intros, introOld, cookieOld, joined>>

(* introduce only reads: the circuit an INTRODUCE for k goes to.           *)
introduce(k) == IF k \in introOld THEN NoCircuit ELSE intros[k]

RendezvousDisplacing(service, c) ==
    LET client == cookies[c] IN
    /\ roles[service] \in {NoRole, Joined}
    /\ client # NoCircuit /\ c \notin cookieOld
    /\ cookies' = [cookies EXCEPT ![c] = NoCircuit]
    /\ roles' = [x \in Circuits |-> IF x \in {client, service} THEN Joined
                                    ELSE IF x = joined[service] THEN NoRole ELSE roles[x]]
    /\ joined' = [x \in Circuits |-> CASE x = client -> service [] x = service -> client
                                     [] x = joined[service] -> NoCircuit [] OTHER -> joined[x]]
    /\ UNCHANGED <<intros, introOld, cookieOld>>

rendezvous(service, c) ==
    /\ roles[service] = NoRole
    /\ cookies[c] # NoCircuit /\ c \notin cookieOld
    /\ cookies' = [cookies EXCEPT ![c] = NoCircuit]
    /\ roles' = [roles EXCEPT ![cookies[c]] = Joined, ![service] = Joined]
    /\ joined' = [joined EXCEPT ![cookies[c]] = service, ![service] = cookies[c]]
    /\ UNCHANGED <<intros, introOld, cookieOld>>

Expired == {intros[k] : k \in introOld} \cup {cookies[c] : c \in cookieOld}

TickIntrosOnly ==
    /\ intros' = [k \in Keys |-> IF k \in introOld THEN NoCircuit ELSE intros[k]]
    /\ introOld' = {}
    /\ roles' = [x \in Circuits |-> IF \E k \in introOld : intros[k] = x THEN NoRole ELSE roles[x]]
    /\ UNCHANGED <<cookies, cookieOld, joined>>

tick ==
    /\ intros' = [k \in Keys |-> IF k \in introOld THEN NoCircuit ELSE intros[k]]
    /\ cookies' = [c \in Cookies |-> IF c \in cookieOld THEN NoCircuit ELSE cookies[c]]
    /\ introOld' = {} /\ cookieOld' = {}
    /\ roles' = [x \in Circuits |-> IF x \in Expired THEN NoRole ELSE roles[x]]
    /\ UNCHANGED joined

(* forget, for every circuit of F in turn: each gives up what its role     *)
(* names, and a half of a pair takes its partner's role with it.           *)
Gives(F, table, x, role) == table[x] \in F /\ roles[table[x]] = role
Halves(F) == {x \in F : roles[x] = Joined}
Torn(F) == Halves(F) \cup {joined[x] : x \in Halves(F)}

ForgetHalf(F) ==
    /\ intros' = [k \in Keys |-> IF Gives(F, intros, k, Intro(k)) THEN NoCircuit ELSE intros[k]]
    /\ introOld' = {k \in introOld : ~ Gives(F, intros, k, Intro(k))}
    /\ cookies' = [c \in Cookies |-> IF Gives(F, cookies, c, Cookie(c)) THEN NoCircuit ELSE cookies[c]]
    /\ cookieOld' = {c \in cookieOld : ~ Gives(F, cookies, c, Cookie(c))}
    /\ joined' = [x \in Circuits |-> IF x \in Halves(F) THEN NoCircuit ELSE joined[x]]
    /\ roles' = [x \in Circuits |-> IF x \in F THEN NoRole ELSE roles[x]]

forget(F) ==
    /\ intros' = [k \in Keys |-> IF Gives(F, intros, k, Intro(k)) THEN NoCircuit ELSE intros[k]]
    /\ introOld' = {k \in introOld : ~ Gives(F, intros, k, Intro(k))}
    /\ cookies' = [c \in Cookies |-> IF Gives(F, cookies, c, Cookie(c)) THEN NoCircuit ELSE cookies[c]]
    /\ cookieOld' = {c \in cookieOld : ~ Gives(F, cookies, c, Cookie(c))}
    /\ joined' = [x \in Circuits |-> IF x \in Torn(F) THEN NoCircuit ELSE joined[x]]
    /\ roles' = [x \in Circuits |-> IF x \in F \cup Torn(F) THEN NoRole ELSE roles[x]]

(* Time passes: an entry gets older than its TTL.                          *)
Age ==
    /\ \/ \E k \in Present(intros) \ introOld :
             introOld' = introOld \cup {k} /\ UNCHANGED cookieOld
       \/ \E c \in Present(cookies) \ cookieOld :
             cookieOld' = cookieOld \cup {c} /\ UNCHANGED introOld
    /\ UNCHANGED <<intros, cookies, roles, joined>>

RvInit ==
    /\ intros = [k \in Keys |-> NoCircuit] /\ introOld = {}
    /\ cookies = [c \in Cookies |-> NoCircuit] /\ cookieOld = {}
    /\ roles = [x \in Circuits |-> NoRole]
    /\ joined = [x \in Circuits |-> NoCircuit]

RvNext ==
    \/ \E x \in Circuits, k \in Keys : establish_intro(x, k)
    \/ \E x \in Circuits, c \in Cookies : establish_rendezvous(x, c) \/ rendezvous(x, c)
    \/ tick
    \/ \E F \in SUBSET Circuits : forget(F)
    \/ Age

RvSpec == RvInit /\ [][RvNext]_rvVars

----------------------------------------------------------------------------
(* Every table keeps its type, and only an entry that is there can be old. *)
RvTypeOK ==
    /\ intros \in [Keys -> Circuits \cup {NoCircuit}]
    /\ introOld \subseteq {k \in Keys : intros[k] # NoCircuit}
    /\ cookies \in [Cookies -> Circuits \cup {NoCircuit}]
    /\ cookieOld \subseteq {c \in Cookies : cookies[c] # NoCircuit}
    /\ roles \in [Circuits -> Role]
    /\ joined \in [Circuits -> Circuits \cup {NoCircuit}]

(* A joined circuit is its partner's partner and never its own, and the    *)
(* circuits with the role Joined are exactly the ones with a partner: no   *)
(* order of joins, expiries and teardowns leaves half a pair behind.       *)
PartnersAgree ==
    \A x \in Circuits :
        /\ roles[x] = Joined <=> joined[x] # NoCircuit
        /\ joined[x] # NoCircuit => joined[x] # x /\ joined[joined[x]] = x

(* A cookie and the circuit waiting on it name each other, and so a        *)
(* registration and the circuit that made it, so that an expiry or a       *)
(* teardown of the one always finds the other.                             *)
RolesBacked ==
    /\ \A c \in Cookies, x \in Circuits : cookies[c] = x <=> roles[x] = Cookie(c)
    /\ \A k \in Keys, x \in Circuits : intros[k] = x => roles[x] = Intro(k)

(* A pair that has met is never re-paired: a circuit gets a second partner *)
(* only after the first pair was torn down.  (rendezvous consumes the      *)
(* cookie, "leaving it parked would let a second party join the same       *)
(* client".)                                                               *)
PairStable ==
    [][\A x \in Circuits :
          joined[x] # NoCircuit /\ joined'[x] # NoCircuit => joined'[x] = joined[x]]_rvVars

=============================================================================
