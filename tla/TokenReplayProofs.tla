------------------------- MODULE TokenReplayProofs --------------------------
(***************************************************************************)
(* An accepted token stays burnt, for every number of tokens, handshakes,  *)
(* entries, records and clock ticks.                                       *)
(*                                                                         *)
(* Two hypotheses say which bridges the theorems are about: a write never  *)
(* fails part of the way (it may fail to sync), and either every append is *)
(* synced or a crash does not lose what was written.  The run replay_torn  *)
(* shows that DurableBurn needs the first one.                             *)
(***************************************************************************)
EXTENDS TokenReplay, ListProofs

Frame == [1..RecordLen -> Half]

\* How much of the log a crash leaves in place.
Secure == IF PowerLoss THEN synced ELSE Len(file)

\* Among the first k halves of f there is the record of t's acceptance.
Burnt(f, k, t) ==
    \E i \in 1..(k \div RecordLen) : Chunks(f)[i] = Record(t, Retention(t))

\* Record i of f is one of t that outlives t's window, and the last of t.
LatestAt(f, t, i) ==
    /\ Chunks(f)[i] = Record(t, Chunks(f)[i][1].expiry)
    /\ Chunks(f)[i][1].expiry >= Retention(t)
    /\ \A j \in (i + 1)..(Len(f) \div RecordLen) : Chunks(f)[j][1].id # t

Latest(f, k, t) == \E i \in 1..(k \div RecordLen) : LatestAt(f, t, i)

\* The tokens whose window is still open after an acceptance.
InWindow(t) == accepted[t] > 0 /\ clock <= Retention(t)

Typed ==
    /\ clock \in Nat
    /\ up \in BOOLEAN
    /\ \A t \in DOMAIN entries : entries[t] \in Nat
    /\ file \in Seq(Half)
    /\ buffer = <<>>
    /\ synced \in 0..Len(file)
    /\ hs \in [Handshakes -> [pc : {"idle", "open"}, now : Nat]]
    /\ \A h \in Handshakes : hs[h].now <= clock
    /\ accepted \in [Tokens -> Nat]
    /\ reopened \subseteq Tokens

\* While the bridge runs, the log ends with a whole record.
Aligned == up => Len(file) % RecordLen = 0

\* The record of an acceptance survives whatever a crash may take.
Logged == \A t \in Tokens : InWindow(t) => Burnt(file, Secure, t)

\* Unless a truncated restore reopened the window, no later record of the
\* token hides that one from a restore, ...
Ordered == \A t \in Tokens \ reopened : InWindow(t) => Latest(file, Secure, t)

\* ... and the set in memory refuses the token as long as the window is open.
Remembered ==
    up => \A t \in Tokens \ reopened :
             InWindow(t) => t \in DOMAIN entries /\ entries[t] >= Retention(t)

Inv == Typed /\ Aligned /\ Logged /\ Ordered /\ Remembered
----------------------------------------------------------------------------
(* The log. *)

\* A record is two halves.
LEMMA RecordFrame ==
    ASSUME NEW t \in Tokens, NEW e \in Nat
    PROVE  /\ Record(t, e) \in Frame /\ Record(t, e) \in Seq(Half)
           /\ Len(Record(t, e)) = RecordLen
           /\ Record(t, e)[1].id = t /\ Record(t, e)[1].expiry = e
<1>1. \A p \in 1..2 : [id |-> t, expiry |-> e, part |-> p] \in Half
  BY Zenon DEF Half, RecordLen
<1>2. Record(t, e) \in [1..2 -> Half]
  BY <1>1, Zenon DEF Record, RecordLen
<1>3. Record(t, e)[1] = [id |-> t, expiry |-> e, part |-> 1]
  BY DEF Record, RecordLen
<1>4. Record(t, e) \in Seq(Half) /\ Len(Record(t, e)) = 2
  BY Zenon, <1>2, SeqOfFunction
<1> QED  BY <1>2, <1>3, <1>4 DEF Frame, RecordLen

\* A retention time is a natural number.
LEMMA RetentionNat ==
    ASSUME NEW t \in Tokens
    PROVE  Retention(t) \in Nat
BY ReplayAssumption DEF Retention

\* The chunks of a file are frames, one for every two halves.
LEMMA ChunkFrames ==
    ASSUME NEW f \in Seq(Half)
    PROVE  /\ Chunks(f) \in Seq(Frame) /\ Len(Chunks(f)) = Len(f) \div 2
           /\ \A i \in 1..(Len(f) \div 2) :
                 /\ Chunks(f)[i] \in Frame
                 /\ Chunks(f)[i][1] = f[2 * (i - 1) + 1]
                 /\ Chunks(f)[i][2] = f[2 * (i - 1) + 2]
<1> DEFINE n == Len(f) \div 2
<1>1. n \in Nat /\ \A i \in 1..n, p \in 1..2 : 2 * (i - 1) + p \in 1..Len(f)
  OBVIOUS
<1>2. \A i \in 1..n, p \in 1..2 : f[2 * (i - 1) + p] \in Half
  BY <1>1
<1>3. Chunks(f) = [i \in 1..n |-> [p \in 1..2 |-> f[2 * (i - 1) + p]]]
  BY Zenon DEF Chunks, RecordLen
<1>4. \A i \in 1..n : [p \in 1..2 |-> f[2 * (i - 1) + p]] \in [1..2 -> Half]
  BY Zenon, <1>2
<1>5. Chunks(f) \in [1..n -> Frame]
  BY <1>3, <1>4, Zenon DEF Frame, RecordLen
<1>6. \A i \in 1..n : Chunks(f)[i] = [p \in 1..2 |-> f[2 * (i - 1) + p]]
  BY Zenon, <1>3
<1> HIDE DEF n
<1>7. ASSUME NEW i \in 1..n
      PROVE  Chunks(f)[i][1] = f[2 * (i - 1) + 1] /\ Chunks(f)[i][2] = f[2 * (i - 1) + 2]
  <2> DEFINE c == [p \in 1..2 |-> f[2 * (i - 1) + p]]
  <2>1. c[1] = f[2 * (i - 1) + 1] /\ c[2] = f[2 * (i - 1) + 2]
    OBVIOUS
  <2> QED  BY <1>6, <2>1, Zenon
<1>10. Chunks(f) \in Seq(Frame) /\ Len(Chunks(f)) = n
  BY <1>1, <1>5
<1>11. \A i \in 1..n : Chunks(f)[i] \in Frame
  BY <1>5, Zenon
<1> QED  BY <1>7, <1>10, <1>11, Zenon DEF n

\* Two frames are equal if their halves are.
LEMMA SameFrame ==
    ASSUME NEW c \in Frame, NEW d \in Frame, c[1] = d[1], c[2] = d[2]
    PROVE  c = d
<1>1. 1..2 = {1, 2}
  OBVIOUS
<1>2. c \in [{1, 2} -> Half] /\ d \in [{1, 2} -> Half]
  BY <1>1, Zenon DEF Frame, RecordLen
<1> QED  BY <1>2

\* Files with the same first 2n halves have the same first n chunks.
LEMMA SamePrefix ==
    ASSUME NEW f \in Seq(Half), NEW g \in Seq(Half), NEW n \in Nat,
           2 * n <= Len(f), 2 * n <= Len(g), \A k \in 1..(2 * n) : f[k] = g[k]
    PROVE  \A i \in 1..n : Chunks(f)[i] = Chunks(g)[i]
<1> TAKE i \in 1..n
<1>1. i \in 1..(Len(f) \div 2) /\ i \in 1..(Len(g) \div 2)
      /\ 2 * (i - 1) + 1 \in 1..(2 * n) /\ 2 * (i - 1) + 2 \in 1..(2 * n)
  OBVIOUS
<1>2. /\ Chunks(f)[i] \in Frame /\ Chunks(g)[i] \in Frame
      /\ Chunks(f)[i][1] = f[2 * (i - 1) + 1] /\ Chunks(f)[i][2] = f[2 * (i - 1) + 2]
      /\ Chunks(g)[i][1] = g[2 * (i - 1) + 1] /\ Chunks(g)[i][2] = g[2 * (i - 1) + 2]
  BY <1>1, ChunkFrames, Zenon
<1>3. f[2 * (i - 1) + 1] = g[2 * (i - 1) + 1] /\ f[2 * (i - 1) + 2] = g[2 * (i - 1) + 2]
  BY <1>1, Zenon
<1> QED  BY <1>2, <1>3, SameFrame, Zenon

\* A file that agrees with f as far as k, and after that with f or with
\* records of other tokens, holds the same acceptance, and it is the latest.
LEMMA KeepsRecords ==
    ASSUME NEW f \in Seq(Half), NEW g \in Seq(Half), NEW t \in Tokens,
           NEW k \in Nat, NEW m \in Nat, k <= m, m <= Len(f), m <= Len(g),
           \A j \in 1..m : f[j] = g[j],
           \A j \in (m \div 2 + 1)..(Len(g) \div 2) : g[2 * (j - 1) + 1].id # t
    PROVE  /\ Burnt(f, k, t) => Burnt(g, k, t)
           /\ Latest(f, k, t) => Latest(g, k, t)
<1> DEFINE n == m \div 2
<1>1. /\ n \in Nat /\ 2 * n <= m /\ k \div 2 <= n /\ k \div 2 \in Nat
      /\ n <= Len(f) \div 2 /\ n <= Len(g) \div 2 /\ 2 * n <= Len(f) /\ 2 * n <= Len(g)
      /\ Len(f) \div 2 \in Nat /\ Len(g) \div 2 \in Nat
  OBVIOUS
<1>2. \A j \in 1..(2 * n) : f[j] = g[j]
  BY <1>1
<1>3. \A j \in (n + 1)..(Len(g) \div 2) : g[2 * (j - 1) + 1].id # t
  BY Zenon
<1> HIDE DEF n
<1>4. \A i \in 1..n : Chunks(f)[i] = Chunks(g)[i]
  BY Zenon, <1>1, <1>2, SamePrefix
<1>5. \A i \in 1..(k \div 2) : i \in 1..n /\ Chunks(f)[i] = Chunks(g)[i]
  BY <1>1, <1>4
<1>6. Burnt(f, k, t) => Burnt(g, k, t)
  BY Zenon, <1>5 DEF Burnt, RecordLen
<1>7. ASSUME NEW i \in 1..(k \div 2), LatestAt(f, t, i)
      PROVE  LatestAt(g, t, i)
  <2>1. Chunks(g)[i] = Chunks(f)[i]
    BY Zenon, <1>5
  <2>2. ASSUME NEW j \in (i + 1)..(Len(g) \div 2)
        PROVE  Chunks(g)[j][1].id # t
    <3>1. CASE j <= n
      <4>1. j \in 1..n /\ j \in (i + 1)..(Len(f) \div 2)
        BY <1>1, <3>1
      <4>2. Chunks(g)[j] = Chunks(f)[j]
        BY Zenon, <1>4, <4>1
      <4> QED  BY Zenon, <1>7, <4>1, <4>2 DEF LatestAt, RecordLen
    <3>2. CASE j > n
      <4>1. j \in (n + 1)..(Len(g) \div 2) /\ j \in 1..(Len(g) \div 2)
        BY <1>1, <3>2
      <4>2. Chunks(g)[j][1] = g[2 * (j - 1) + 1]
        BY <4>1, ChunkFrames, Zenon
      <4> QED  BY Zenon, <1>3, <4>1, <4>2
    <3> QED  BY <1>1, <3>1, <3>2
  <2> QED  BY Zenon, <1>7, <2>1, <2>2 DEF LatestAt, RecordLen
<1>8. Latest(f, k, t) => Latest(g, k, t)
  BY Zenon, <1>7 DEF Latest, RecordLen
<1> QED  BY Zenon, <1>6, <1>8

\* A longer secure part holds what a shorter one does.
LEMMA SecureGrows ==
    ASSUME NEW f, NEW t, NEW k \in Nat, NEW m \in Nat, k <= m
    PROVE  /\ Burnt(f, k, t) => Burnt(f, m, t)
           /\ Latest(f, k, t) => Latest(f, m, t)
<1>1. \A i \in 1..(k \div 2) : i \in 1..(m \div 2)
  OBVIOUS
<1> QED  BY <1>1, Zenon DEF Burnt, Latest, RecordLen

\* An append to an aligned file, of which the first q halves are written.
LEMMA AppendedHalves ==
    ASSUME NEW f \in Seq(Half), Len(f) % 2 = 0, NEW u \in Tokens,
           NEW h \in Seq(Half), Len(h) \in 1..2, h[1].id = u
    PROVE  /\ f \o h \in Seq(Half) /\ Len(f \o h) = Len(f) + Len(h)
           /\ \A j \in 1..Len(f) : f[j] = (f \o h)[j]
           /\ \A j \in 1..Len(h) : (f \o h)[Len(f) + j] = h[j]
           /\ \A j \in (Len(f) \div 2 + 1)..(Len(f \o h) \div 2) :
                 (f \o h)[2 * (j - 1) + 1].id = u
<1> DEFINE g == f \o h
           n == Len(f)
           q == Len(h)
<1>1. n \in Nat /\ q \in 1..2 /\ n % 2 = 0
  OBVIOUS
<1>2. g \in Seq(Half) /\ Len(g) = n + q
  OBVIOUS
<1>3. \A j \in 1..n : f[j] = g[j]
  OBVIOUS
<1>4. \A j \in 1..q : g[n + j] = h[j]
  OBVIOUS
<1>5. g[n + 1].id = u
  BY <1>1, <1>4
<1> HIDE DEF g, n, q
<1>6. ASSUME NEW j \in (n \div 2 + 1)..(Len(g) \div 2)
      PROVE  g[2 * (j - 1) + 1].id = u
  <2>1. 2 * (j - 1) + 1 = n + 1
    BY <1>1, <1>2
  <2> QED  BY Zenon, <1>5, <2>1
<1> QED  BY Zenon, <1>2, <1>3, <1>4, <1>6 DEF g, n, q

\* What is written of a record begins with its token.
LEMMA PartOfRecord ==
    ASSUME NEW u \in Tokens, NEW e \in Nat, NEW q \in 1..2
    PROVE  LET h == SubSeq(Record(u, e), 1, q)
           IN  h \in Seq(Half) /\ Len(h) = q /\ h[1].id = u
<1> DEFINE r == Record(u, e)
<1>1. r \in Seq(Half) /\ Len(r) = 2 /\ r[1].id = u
  BY Zenon, RecordFrame DEF RecordLen
<1> HIDE DEF r
<1>2. /\ SubSeq(r, 1, q) \in Seq(Half) /\ Len(SubSeq(r, 1, q)) = q
      /\ \A j \in 1..q : SubSeq(r, 1, q)[j] = r[j]
  <2>1. q \in 0..Len(r)
    BY <1>1
  <2> QED  BY Zenon, <1>1, <2>1, PrefixOf
<1>3. 1 \in 1..q
  OBVIOUS
<1> QED  BY Zenon, <1>1, <1>2, <1>3 DEF r

\* What an append leaves at the end of a file.
LEMMA AppendedAre ==
    ASSUME NEW f \in Seq(Half), NEW h \in Seq(Half)
    PROVE  /\ f \o h \in Seq(Half) /\ Len(f \o h) = Len(f) + Len(h)
           /\ \A j \in 1..Len(h) : (f \o h)[Len(f) + j] = h[j]
OBVIOUS

\* The record of an acceptance, at the end of an aligned file.
LEMMA AcceptanceLogged ==
    ASSUME NEW f \in Seq(Half), Len(f) % 2 = 0, NEW t \in Tokens
    PROVE  LET g == f \o Record(t, Retention(t))
           IN  Burnt(g, Len(g), t) /\ Latest(g, Len(g), t)
<1> DEFINE R == Retention(t)
           r == Record(t, R)
           g == f \o r
           i == (Len(f) \div 2) + 1
<1>1. /\ R \in Nat /\ r \in Frame /\ r \in Seq(Half) /\ Len(r) = 2
      /\ r[1].id = t /\ r[1].expiry = R
  BY RetentionNat, RecordFrame DEF RecordLen
<1>2. r = Record(t, R) /\ R = Retention(t)
  BY Zenon
<1> HIDE DEF R, r
<1>3. g \in Seq(Half) /\ Len(g) = Len(f) + 2 /\ \A j \in 1..2 : g[Len(f) + j] = r[j]
  <2>1. /\ g \in Seq(Half) /\ Len(g) = Len(f) + Len(r)
        /\ \A j \in 1..Len(r) : g[Len(f) + j] = r[j]
    BY Zenon, <1>1, AppendedAre
  <2> QED  BY Zenon, <1>1, <2>1
<1> HIDE DEF g
<1>4. /\ i \in 1..(Len(g) \div 2) /\ Len(g) \div 2 = i
      /\ 2 * (i - 1) + 1 = Len(f) + 1 /\ 2 * (i - 1) + 2 = Len(f) + 2
  <2>1. Len(f) \in Nat /\ Len(g) = Len(f) + 2
    BY <1>3
  <2> QED  BY <2>1
<1> HIDE DEF i
<1>5. Chunks(g)[i] \in Frame /\ Chunks(g)[i][1] = r[1] /\ Chunks(g)[i][2] = r[2]
  <2>1. /\ Chunks(g)[i] \in Frame /\ Chunks(g)[i][1] = g[2 * (i - 1) + 1]
        /\ Chunks(g)[i][2] = g[2 * (i - 1) + 2]
    BY <1>3, <1>4, ChunkFrames, Zenon
  <2>2. g[Len(f) + 1] = r[1] /\ g[Len(f) + 2] = r[2]
    BY <1>3
  <2> QED  BY Zenon, <1>4, <2>1, <2>2
<1>6. Chunks(g)[i] = r
  BY <1>1, <1>5, SameFrame, Zenon
<1>7. Burnt(g, Len(g), t)
  BY Zenon, <1>2, <1>4, <1>6 DEF Burnt, RecordLen
<1>8. (i + 1)..(Len(g) \div 2) = {}
  BY <1>4
<1>9. LatestAt(g, t, i)
  <2>1. Chunks(g)[i][1].expiry = R
    BY Zenon, <1>1, <1>6
  <2>2. Chunks(g)[i] = Record(t, Chunks(g)[i][1].expiry)
    BY Zenon, <1>2, <1>6, <2>1
  <2>3. Chunks(g)[i][1].expiry >= Retention(t)
    BY <1>1, <1>2, <2>1
  <2> QED  BY Zenon, <1>8, <2>2, <2>3 DEF LatestAt, RecordLen
<1>10. Latest(g, Len(g), t)
  BY Zenon, <1>4, <1>9 DEF Latest, RecordLen
<1> QED  BY Zenon, <1>7, <1>10 DEF g, r, R


\* The last record of t among the records r outlives t's window.
LastOf(r, t, m) ==
    /\ m \in 1..Len(r)
    /\ r[m] = Record(t, r[m][1].expiry) /\ r[m][1].expiry >= Retention(t)
    /\ \A j \in (m + 1)..Len(r) : r[j][1].id # t

\* What Load returns are live records.
LEMMA LoadFrames ==
    ASSUME NEW f \in Seq(Half), NEW now \in Nat
    PROVE  /\ Load(f, now) \in Seq(Frame)
           /\ \A m \in 1..Len(Load(f, now)) :
                 Load(f, now)[m][1].id \in Tokens /\ Load(f, now)[m][1].expiry \in Nat
<1> DEFINE c == Chunks(f)
           K == Live(now)
           r == Filter(c, K)
<1>1. c \in Seq(Frame)
  BY Zenon, ChunkFrames
<1> HIDE DEF c, K
<1>2. r \in Seq(Frame)
  BY Zenon, <1>1, FilterEmbeds
<1>3. \A d \in Frame : d[1] \in Half
  BY DEF Frame, RecordLen
<1>4. \A x \in Half : x.id \in Tokens /\ x.expiry \in Nat
  BY Zenon DEF Half
<1>5. Load(f, now) = r
  BY Zenon DEF Load, c, K
<1> HIDE DEF r
<1>6. \A m \in 1..Len(r) : r[m] \in Frame
  BY <1>2
<1> QED  BY Zenon, <1>2, <1>3, <1>4, <1>5, <1>6

\* Load finds a burn whose window is open, and it is still the last of its token.
LEMMA LoadKeeps ==
    ASSUME NEW f \in Seq(Half), NEW now \in Nat, NEW t \in Tokens, now <= Retention(t),
           NEW k \in 0..Len(f)
    PROVE  /\ Burnt(f, k, t) =>
                 \E m \in 1..Len(Load(f, now)) : Load(f, now)[m] = Record(t, Retention(t))
           /\ Latest(f, k, t) => \E m : LastOf(Load(f, now), t, m)
<1> DEFINE c == Chunks(f)
           K == Live(now)
           r == Filter(c, K)
           n == Len(f) \div 2
<1>1. c \in Seq(Frame) /\ Len(c) = n /\ \A i \in 1..n : c[i] \in Frame
  BY ChunkFrames, Zenon
<1>2. c = Chunks(f) /\ n = Len(f) \div 2 /\ n \in Nat /\ Retention(t) \in Nat
      /\ \A i \in 1..(k \div 2) : i \in 1..n
  BY RetentionNat
<1>3. ASSUME NEW e \in Nat, e >= now
      PROVE  Record(t, e) \in K
  <2>1. Record(t, e) \in Frame /\ Record(t, e)[1].id = t /\ Record(t, e)[1].expiry = e
    BY Zenon, RecordFrame
  <2>2. Record(t, e) = Record(Record(t, e)[1].id, Record(t, e)[1].expiry)
    BY Zenon, <2>1
  <2> QED  BY Zenon, <1>3, <2>1, <2>2 DEF Live, Frame
<1>4. Load(f, now) = r
  BY Zenon DEF Load
<1> HIDE DEF c, K, n
<1>5. r \in Seq(Frame) /\ \E p : Embeds(p, r, c, K)
  BY Zenon, <1>1, FilterEmbeds
<1> HIDE DEF r
<1>6. PICK p : Embeds(p, r, c, K)
  BY Zenon, <1>5
<1>7. /\ p \in [1..Len(r) -> 1..n] /\ Len(r) \in Nat
      /\ \A i \in 1..Len(r) : r[i] = c[p[i]]
      /\ \A i, j \in 1..Len(r) : i < j => p[i] < p[j]
      /\ \A j \in 1..n : c[j] \in K => \E i \in 1..Len(r) : p[i] = j
  BY <1>1, <1>5, <1>6 DEF Embeds
<1>8. ASSUME NEW j \in 1..n, NEW e \in Nat, e >= now, c[j] = Record(t, e)
      PROVE  \E m \in 1..Len(r) : p[m] = j /\ r[m] = c[j]
  <2>1. c[j] \in K
    BY Zenon, <1>3, <1>8
  <2> QED  BY <1>7, <2>1
<1>9. Burnt(f, k, t) => \E m \in 1..Len(r) : r[m] = Record(t, Retention(t))
  <2> SUFFICES ASSUME Burnt(f, k, t)
               PROVE  \E m \in 1..Len(r) : r[m] = Record(t, Retention(t))
    BY Zenon
  <2>1. PICK i \in 1..(k \div 2) : c[i] = Record(t, Retention(t))
    BY Zenon, <1>2 DEF Burnt, RecordLen
  <2>2. i \in 1..n /\ Retention(t) \in Nat /\ Retention(t) >= now
    BY Zenon, <1>2
  <2> QED  BY Zenon, <1>8, <2>1, <2>2
<1>10. Latest(f, k, t) => \E m : LastOf(r, t, m)
  <2> SUFFICES ASSUME Latest(f, k, t)
               PROVE  \E m : LastOf(r, t, m)
    BY Zenon
  <2>1. PICK i \in 1..(k \div 2) : LatestAt(f, t, i)
    BY Zenon DEF Latest, RecordLen
  <2> DEFINE e == c[i][1].expiry
  <2>2. /\ c[i] = Record(t, e) /\ e >= Retention(t)
        /\ \A j \in (i + 1)..n : c[j][1].id # t
    BY Zenon, <1>2, <2>1 DEF LatestAt, RecordLen
  <2>3. i \in 1..n
    BY Zenon, <1>2
  <2>4. e \in Nat /\ e = c[i][1].expiry
    BY <1>1, <2>3 DEF Frame, Half, RecordLen
  <2> HIDE DEF e
  <2>5. e >= now
    BY <1>2, <2>2, <2>4
  <2>6. PICK m \in 1..Len(r) : p[m] = i /\ r[m] = c[i]
    BY Zenon, <1>8, <2>2, <2>3, <2>4, <2>5
  <2>7. ASSUME NEW j \in (m + 1)..Len(r)
        PROVE  r[j][1].id # t
    <3>1. j \in 1..Len(r) /\ m < j
      BY <1>7
    <3>2. p[j] \in 1..n /\ p[m] < p[j]
      BY Zenon, <1>7, <3>1
    <3>3. p[j] \in (i + 1)..n
      BY <1>2, <2>3, <2>6, <3>2
    <3> QED  BY <1>7, <2>2, <3>1, <3>3
  <2>8. r[m] = Record(t, r[m][1].expiry) /\ r[m][1].expiry >= Retention(t)
    BY Zenon, <2>2, <2>4, <2>6
  <2> QED  BY Zenon, <2>7, <2>8 DEF LastOf
<1> QED  BY Zenon, <1>4, <1>9, <1>10

\* Compact writes the records one after the other.
LEMMA CompactChunks ==
    ASSUME NEW r \in Seq(Frame)
    PROVE  /\ Compact(r) \in Seq(Half) /\ Len(Compact(r)) = 2 * Len(r)
           /\ \A m \in 1..Len(r) : Chunks(Compact(r))[m] = r[m]
<1> DEFINE n == Len(r)
           g == Compact(r)
<1>1. n \in Nat /\ 2 * n \in Nat /\ n = Len(r) /\ \A m \in 1..n : r[m] \in Frame
  OBVIOUS
<1>2. \A m \in 1..n, q \in 1..2 : r[m][q] \in Half
  BY Zenon, <1>1 DEF Frame, RecordLen
<1>3. g = [k \in 1..(2 * n) |-> r[((k - 1) \div 2) + 1][((k - 1) % 2) + 1]]
  BY Zenon DEF Compact, RecordLen
<1> HIDE DEF n, g
<1>4. \A k \in 1..(2 * n) : ((k - 1) \div 2) + 1 \in 1..n /\ ((k - 1) % 2) + 1 \in 1..2
  BY <1>1
<1>5. g \in [1..(2 * n) -> Half]
  BY Zenon, <1>2, <1>3, <1>4
<1>6. g \in Seq(Half) /\ Len(g) = 2 * n
  BY Zenon, <1>1, <1>5, SeqOfFunction
<1>7. ASSUME NEW m \in 1..n
      PROVE  Chunks(g)[m] = r[m]
  <2>1. /\ 2 * (m - 1) + 1 \in 1..(2 * n) /\ 2 * (m - 1) + 2 \in 1..(2 * n)
        /\ ((2 * (m - 1) + 1 - 1) \div 2) + 1 = m /\ ((2 * (m - 1) + 1 - 1) % 2) + 1 = 1
        /\ ((2 * (m - 1) + 2 - 1) \div 2) + 1 = m /\ ((2 * (m - 1) + 2 - 1) % 2) + 1 = 2
    BY <1>1
  <2>2. g[2 * (m - 1) + 1] = r[m][1] /\ g[2 * (m - 1) + 2] = r[m][2]
    BY <1>3, <2>1
  <2>3. m \in 1..(Len(g) \div 2)
    BY <1>1, <1>6
  <2>4. /\ Chunks(g)[m] \in Frame /\ Chunks(g)[m][1] = g[2 * (m - 1) + 1]
        /\ Chunks(g)[m][2] = g[2 * (m - 1) + 2]
    BY <1>6, <2>3, ChunkFrames, Zenon
  <2> QED  BY <1>1, <2>2, <2>4, SameFrame, Zenon
<1> QED  BY Zenon, <1>1, <1>6, <1>7 DEF g

\* A compacted log holds the acceptances among the records, in their order.
LEMMA CompactKeeps ==
    ASSUME NEW r \in Seq(Frame), NEW t
    PROVE  /\ (\E m \in 1..Len(r) : r[m] = Record(t, Retention(t)))
                 => Burnt(Compact(r), Len(Compact(r)), t)
           /\ (\E m : LastOf(r, t, m)) => Latest(Compact(r), Len(Compact(r)), t)
<1> DEFINE n == Len(r)
           g == Compact(r)
<1>1. n \in Nat /\ Len(g) = 2 * n /\ \A m \in 1..n : Chunks(g)[m] = r[m]
  BY CompactChunks
<1>2. n = Len(r)
  BY Zenon
<1> HIDE DEF n, g
<1>3. Len(g) \div 2 = n
  BY <1>1
<1>4. (\E m \in 1..n : r[m] = Record(t, Retention(t))) => Burnt(g, Len(g), t)
  BY Zenon, <1>1, <1>3 DEF Burnt, RecordLen
<1>5. ASSUME NEW m, LastOf(r, t, m)
      PROVE  Latest(g, Len(g), t)
  <2>1. /\ m \in 1..n /\ r[m] = Record(t, r[m][1].expiry) /\ r[m][1].expiry >= Retention(t)
        /\ \A j \in (m + 1)..n : r[j][1].id # t
    BY Zenon, <1>2, <1>5 DEF LastOf
  <2>2. Chunks(g)[m] = r[m] /\ \A j \in (m + 1)..n : Chunks(g)[j] = r[j]
    BY <1>1, <2>1
  <2>3. LatestAt(g, t, m)
    BY Zenon, <1>3, <2>1, <2>2 DEF LatestAt, RecordLen
  <2> QED  BY Zenon, <1>3, <2>1, <2>3 DEF Latest, RecordLen
<1> QED  BY Zenon, <1>2, <1>4, <1>5 DEF g

\* open cuts the file to whole records.
LEMMA WholePart ==
    ASSUME NEW f \in Seq(Half), NEW t \in Tokens, NEW k \in 0..Len(f)
    PROVE  LET w == WholeRecords(f)
           IN  /\ w \in Seq(Half)
               /\ \E q \in 0..Len(w) : /\ Burnt(f, k, t) => Burnt(w, q, t)
                                       /\ Latest(f, k, t) => Latest(w, q, t)
<1> DEFINE n == Len(f) - (Len(f) % 2)
           w == WholeRecords(f)
           q == 2 * (k \div 2)
<1>1. /\ n \in 0..Len(f) /\ q \in 0..n /\ n \div 2 = Len(f) \div 2 /\ q \div 2 = k \div 2
      /\ n \in Nat /\ q \in Nat /\ k \in Nat
  OBVIOUS
<1>2. w = SubSeq(f, 1, n)
  BY Zenon DEF WholeRecords, RecordLen
<1> HIDE DEF n, w, q
<1>3. w \in Seq(Half) /\ Len(w) = n /\ \A j \in 1..n : w[j] = f[j]
  BY Zenon, <1>1, <1>2, PrefixOf
<1>4. /\ q <= n /\ n <= Len(f) /\ n <= Len(w) /\ \A j \in 1..n : f[j] = w[j]
      /\ \A j \in (n \div 2 + 1)..(Len(w) \div 2) : w[2 * (j - 1) + 1].id # t
  BY <1>1, <1>3
<1>5. /\ Burnt(f, q, t) => Burnt(w, q, t)
      /\ Latest(f, q, t) => Latest(w, q, t)
  BY Zenon, <1>1, <1>3, <1>4, KeepsRecords
<1>6. /\ Burnt(f, k, t) => Burnt(f, q, t)
      /\ Latest(f, k, t) => Latest(f, q, t)
  BY Zenon, <1>1 DEF Burnt, Latest, RecordLen
<1> QED  BY Zenon, <1>1, <1>3, <1>5, <1>6 DEF w

----------------------------------------------------------------------------
(* The set in memory. *)

\* The index of the record that wins for t, as Restored chooses it.
Wins(r, t, i) ==
    /\ r[i][1].id = t
    /\ \A j \in DOMAIN r : r[j][1].id = t => j <= i

\* Every id that is restored has the expiry of the last of its records.
LEMMA RestoredWins ==
    ASSUME NEW r, NEW n \in Nat, DOMAIN r = 1..n, NEW t
    PROVE  /\ t \in DOMAIN Restored(r) <=> \E i \in 1..n : r[i][1].id = t
           /\ t \in DOMAIN Restored(r) =>
                 \E i \in 1..n : Wins(r, t, i) /\ Restored(r)[t] = r[i][1].expiry
<1> DEFINE ids == {r[i][1].id : i \in DOMAIN r}
           last(u) == CHOOSE i \in DOMAIN r :
                         /\ r[i][1].id = u
                         /\ \A j \in DOMAIN r : r[j][1].id = u => j <= i
<1>1. Restored(r) = [u \in ids |-> r[last(u)][1].expiry]
  BY Zenon DEF Restored
<1>2. t \in ids <=> \E i \in 1..n : r[i][1].id = t
  BY Zenon
<1>3. last(t) = CHOOSE i \in DOMAIN r : Wins(r, t, i)
  BY Zenon DEF Wins
<1> HIDE DEF last
<1>4. t \in DOMAIN Restored(r) <=> t \in ids
  BY Zenon, <1>1
<1>5. t \in ids => Restored(r)[t] = r[last(t)][1].expiry
  BY Zenon, <1>1
<1> HIDE DEF ids
<1>6. ASSUME t \in ids
      PROVE  \E i \in 1..n : Wins(r, t, i) /\ Restored(r)[t] = r[i][1].expiry
  <2> DEFINE T == {i \in 1..n : r[i][1].id = t}
  <2>1. T \in SUBSET (1..n) /\ T # {}
    BY Zenon, <1>2, <1>6
  <2>2. PICK i \in T : \A j \in T : j <= i
    BY Zenon, <2>1, GreatestIndex
  <2>3. i \in DOMAIN r /\ Wins(r, t, i)
    BY Zenon, <2>2 DEF Wins
  <2>4. last(t) \in DOMAIN r /\ Wins(r, t, last(t))
    BY <1>3, <2>3, Zenon
  <2> QED  BY Zenon, <1>5, <1>6, <2>4
<1> QED  BY Zenon, <1>2, <1>4, <1>6

\* Every expiry that is restored is the one of some record.
LEMMA RestoredFrom ==
    ASSUME NEW r, NEW n \in Nat, DOMAIN r = 1..n, NEW t \in DOMAIN Restored(r)
    PROVE  \E i \in 1..n : Restored(r)[t] = r[i][1].expiry
<1>1. \E i \in 1..n : Wins(r, t, i) /\ Restored(r)[t] = r[i][1].expiry
  BY RestoredWins
<1> QED  BY Zenon, <1>1

\* A restore without truncation remembers a token for its whole window.
LEMMA RestoredLast ==
    ASSUME NEW r \in Seq(Frame), NEW t \in Tokens, NEW m, LastOf(r, t, m)
    PROVE  t \in DOMAIN Restored(r) /\ Restored(r)[t] >= Retention(t)
<1> DEFINE n == Len(r)
<1>1. n \in Nat /\ DOMAIN r = 1..n /\ \A i \in 1..n : r[i] \in Frame
  OBVIOUS
<1>2. /\ m \in 1..n /\ r[m] = Record(t, r[m][1].expiry) /\ r[m][1].expiry >= Retention(t)
      /\ \A j \in (m + 1)..n : r[j][1].id # t
  BY Zenon DEF LastOf
<1> HIDE DEF n
<1>3. r[m][1].id = t
  <2>1. r[m][1].expiry \in Nat
    BY <1>1, <1>2 DEF Frame, Half, RecordLen
  <2>2. Record(t, r[m][1].expiry)[1].id = t
    BY Zenon, <2>1, RecordFrame
  <2> QED  BY <1>2, <2>2, Zenon
<1>4. t \in DOMAIN Restored(r)
  BY Zenon, <1>1, <1>2, <1>3, RestoredWins
<1>5. PICK i \in 1..n : Wins(r, t, i) /\ Restored(r)[t] = r[i][1].expiry
  BY <1>1, <1>4, RestoredWins
<1>6. m <= i /\ r[i][1].id = t
  BY Zenon, <1>1, <1>2, <1>3, <1>5 DEF Wins
<1>7. i = m
  BY <1>2, <1>5, <1>6
<1> QED  BY Zenon, <1>2, <1>4, <1>5, <1>7

\* A restore keeps some of the records, so what it remembers are numbers.
LEMMA KeptRecords ==
    ASSUME NEW r \in Seq(Frame), \A i \in 1..Len(r) : r[i][1].expiry \in Nat,
           NEW kept \in Kept(r)
    PROVE  \A t \in DOMAIN Restored(kept) : Restored(kept)[t] \in Nat
<1> DEFINE N == Len(r)
<1>1. N \in Nat /\ DOMAIN r = 1..N /\ MaxEntries \in Nat /\ \A i \in 1..N : r[i][1].expiry \in Nat
  BY ReplayAssumption
<1>2. \E n \in Nat : DOMAIN kept = 1..n /\ \A i \in 1..n : kept[i][1].expiry \in Nat
  <2>1. CASE N <= MaxEntries
    <3>1. kept = r
      BY Zenon, <2>1 DEF Kept
    <3> QED  BY Zenon, <1>1, <3>1
  <2>2. CASE ~(N <= MaxEntries)
    <3> DEFINE P == {q \in [DOMAIN r -> DOMAIN r] :
                        /\ \A i, j \in DOMAIN q : i # j => q[i] # q[j]
                        /\ \A i, j \in DOMAIN q : i < j => r[q[i]][1].expiry >= r[q[j]][1].expiry}
               A(p) == [i \in DOMAIN r |-> r[p[i]]]
    <3>1. Kept(r) = {SubSeq(s, 1, MaxEntries) : s \in {A(p) : p \in P}}
      BY <2>2, Zenon DEF Kept
    <3>2. PICK p \in P : kept = SubSeq(A(p), 1, MaxEntries)
      BY Zenon, <3>1
    <3>3. p \in [1..N -> 1..N]
      BY Zenon, <1>1, <3>2
    <3> HIDE DEF P, N
    <3>4. A(p) = [i \in 1..N |-> r[p[i]]]
      BY Zenon, <1>1
    <3>5. A(p) \in [1..N -> Frame] /\ \A i \in 1..N : A(p)[i][1].expiry \in Nat
      <4>1. \A i \in 1..N : r[p[i]] \in Frame /\ r[p[i]][1].expiry \in Nat
        BY <1>1, <3>3 DEF N
      <4> QED  BY Zenon, <3>4, <4>1
    <3> HIDE DEF A
    <3>6. A(p) \in Seq(Frame) /\ Len(A(p)) = N
      BY Zenon, <1>1, <3>5, SeqOfFunction
    <3>7. MaxEntries \in 0..N
      BY <1>1, <2>2
    <3>8. /\ kept \in Seq(Frame) /\ Len(kept) = MaxEntries
          /\ \A i \in 1..MaxEntries : kept[i] = A(p)[i]
      BY Zenon, <3>2, <3>6, <3>7, PrefixOf
    <3>9. DOMAIN kept = 1..MaxEntries
      BY <3>8
    <3>10. \A i \in 1..MaxEntries : kept[i][1].expiry \in Nat
      <4>1. \A i \in 1..MaxEntries : i \in 1..N
        BY <1>1, <3>7
      <4> QED  BY Zenon, <3>5, <3>8, <4>1
    <3> QED  BY Zenon, <1>1, <3>9, <3>10
  <2> QED  BY Zenon, <2>1, <2>2
<1>3. PICK n \in Nat : DOMAIN kept = 1..n /\ \A i \in 1..n : kept[i][1].expiry \in Nat
  BY Zenon, <1>2
<1> SUFFICES ASSUME NEW t \in DOMAIN Restored(kept)
             PROVE  Restored(kept)[t] \in Nat
  BY Zenon
<1>4. PICK i \in 1..n : Restored(kept)[t] = kept[i][1].expiry
  BY Zenon, <1>3, RestoredFrom
<1> QED  BY Zenon, <1>3, <1>4

\* An eviction takes out only what has expired by the time it is given.
LEMMA RoomKeeps ==
    ASSUME NEW es, NEW now
    PROVE  /\ \A t \in DOMAIN MadeRoom(es, now) :
                 t \in DOMAIN es /\ MadeRoom(es, now)[t] = es[t]
           /\ \A t \in DOMAIN es : ~(es[t] < now) => t \in DOMAIN MadeRoom(es, now)
<1> DEFINE G == {t \in DOMAIN es : es[t] < now}
<1>1. evict_expired(es, now) = [t \in DOMAIN es \ G |-> es[t]]
  BY Zenon DEF evict_expired, Without
<1> HIDE DEF G
<1>2. /\ DOMAIN evict_expired(es, now) = DOMAIN es \ G
      /\ \A t \in DOMAIN es \ G : evict_expired(es, now)[t] = es[t]
  BY Zenon, <1>1
<1>3. \A t \in DOMAIN es : ~(es[t] < now) => t \notin G
  BY Zenon DEF G
<1> QED  BY Zenon, <1>2, <1>3 DEF MadeRoom

\* A file that agrees with f as far as k holds the same acceptances there.
LEMMA KeepsBurnt ==
    ASSUME NEW f \in Seq(Half), NEW g \in Seq(Half), NEW t,
           NEW k \in Nat, k <= Len(f), k <= Len(g), \A j \in 1..k : f[j] = g[j],
           Burnt(f, k, t)
    PROVE  Burnt(g, k, t)
<1> DEFINE n == k \div 2
<1>1. n \in Nat /\ 2 * n <= k /\ 2 * n <= Len(f) /\ 2 * n <= Len(g) /\ n = k \div 2
  OBVIOUS
<1> HIDE DEF n
<1>2. \A j \in 1..(2 * n) : f[j] = g[j]
  BY <1>1
<1>3. \A i \in 1..n : Chunks(f)[i] = Chunks(g)[i]
  BY Zenon, <1>1, <1>2, SamePrefix
<1> QED  BY Zenon, <1>1, <1>3 DEF Burnt, RecordLen

\* The bridges the theorems are about.
Reliable == "write" \notin Faults /\ (Fsync \/ ~PowerLoss)

\* What an append writes, synced if it succeeds where it matters.
LEMMA AppendOutcome ==
    ASSUME Reliable, Typed, NEW u \in Tokens, NEW e \in Nat, NEW o \in append(u, e)
    PROVE  /\ o.file = file \o Record(u, e) /\ o.buffer = <<>> /\ o.ok \in BOOLEAN
           /\ o.synced = synced \/ o.synced = Len(file) + 2
           /\ o.ok /\ PowerLoss => o.synced = Len(file) + 2
<1>1. file \o buffer = file /\ Len(file) \in Nat
  BY DEF Typed
<1>2. o = Appended(u, e) \/ o = SyncFailure(u, e)
  BY Zenon DEF append, Reliable
<1>3. Appended(u, e) = [ok |-> TRUE, file |-> file \o Record(u, e), buffer |-> <<>>,
                        synced |-> IF Fsync THEN Len(file) + 2 ELSE synced]
  BY <1>1, Zenon DEF Appended, RecordLen
<1>4. SyncFailure(u, e) = [ok |-> FALSE, file |-> file \o Record(u, e), buffer |-> <<>>,
                           synced |-> synced]
  BY <1>1, Zenon DEF SyncFailure
<1>5. CASE o = Appended(u, e)
  BY <1>3, <1>5 DEF Reliable
<1>6. CASE o = SyncFailure(u, e)
  BY <1>4, <1>6
<1> QED  BY Zenon, <1>2, <1>5, <1>6

----------------------------------------------------------------------------
(* The steps. *)

\* What is secure is a part of the file.
LEMMA SecureNat ==
    ASSUME Typed
    PROVE  /\ Secure \in Nat /\ Secure <= Len(file) /\ Len(file) \in Nat
           /\ synced \in Nat /\ synced <= Len(file)
BY DEF Typed, Secure

\* The log and the set keep what the invariant says of the windows open now.
Keeps ==
    /\ \A t \in DOMAIN entries' : entries'[t] \in Nat
    /\ file' \in Seq(Half) /\ buffer' = <<>> /\ synced' \in 0..Len(file')
    /\ \A t \in Tokens : InWindow(t) => Burnt(file', Secure', t)
    /\ \A t \in Tokens \ reopened : InWindow(t) => Latest(file', Secure', t)

\* An entry of an open window survives a call at any earlier time.
LEMMA EntryKept ==
    ASSUME Typed, Remembered, up, NEW now \in Nat, now <= clock,
           NEW t \in Tokens \ reopened, InWindow(t)
    PROVE  LET es == MadeRoom(entries, now)
           IN  /\ t \in DOMAIN entries /\ t \in DOMAIN es
               /\ entries[t] >= Retention(t) /\ es[t] >= Retention(t)
<1>1. t \in DOMAIN entries /\ entries[t] >= Retention(t) /\ entries[t] \in Nat
  BY Zenon DEF Remembered, Typed
<1>2. Retention(t) \in Nat /\ clock \in Nat /\ clock <= Retention(t)
  BY Zenon, RetentionNat DEF Typed, InWindow
<1>3. ~(entries[t] < now)
  BY <1>1, <1>2
<1>4. t \in DOMAIN MadeRoom(entries, now)
  BY <1>1, <1>3, RoomKeeps, Zenon
<1>5. MadeRoom(entries, now)[t] = entries[t]
  BY <1>4, RoomKeeps, Zenon
<1> QED  BY Zenon, <1>1, <1>4, <1>5

\* A refusal changes nothing but for expired entries.
LEMMA RefuseKeeps ==
    ASSUME Inv, up, NEW now \in Nat, now <= clock, NEW u, Refuse(u, now)
    PROVE  /\ Keeps
           /\ \A t \in Tokens \ reopened :
                 InWindow(t) => t \in DOMAIN entries' /\ entries'[t] >= Retention(t)
           /\ UNCHANGED file
<1> USE DEF Inv
<1>1. file' = file /\ synced' = synced /\ buffer' = buffer
  BY Zenon DEF Refuse
<1>2. entries' = entries \/ entries' = MadeRoom(entries, now)
  BY Zenon DEF Refuse
<1>3. \A t \in DOMAIN entries' : entries'[t] \in Nat
  <2>1. CASE entries' = entries
    BY Zenon, <2>1 DEF Typed
  <2>2. CASE entries' = MadeRoom(entries, now)
    BY <2>2, RoomKeeps DEF Typed
  <2> QED  BY Zenon, <1>2, <2>1, <2>2
<1>4. Secure' = Secure
  BY Zenon, <1>1 DEF Secure
<1>5. Keeps
  BY Zenon, <1>1, <1>3, <1>4 DEF Keeps, Typed, Logged, Ordered
<1>6. ASSUME NEW t \in Tokens \ reopened, InWindow(t)
      PROVE  t \in DOMAIN entries' /\ entries'[t] >= Retention(t)
  BY Zenon, <1>2, <1>6, EntryKept
<1> QED  BY Zenon, <1>1, <1>5, <1>6

\* A file that grew, and a secure part that did not shrink, keep every burn,
\* and its place as the last of its token if the new record is of another.
LEMMA GrownLog ==
    ASSUME Typed, Logged, Ordered, Len(file) % 2 = 0, NEW u \in Tokens,
           NEW h \in Seq(Half), Len(h) \in 1..2, h[1].id = u,
           file' = file \o h, synced' \in 0..Len(file'), synced <= synced'
    PROVE  /\ file' \in Seq(Half) /\ Len(file') = Len(file) + Len(h)
           /\ Secure' \in Nat /\ Secure <= Secure'
           /\ \A t \in Tokens : InWindow(t) => Burnt(file', Secure', t)
           /\ \A t \in Tokens \ reopened :
                 InWindow(t) /\ t # u => Latest(file', Secure', t)
<1> DEFINE g == file \o h
<1>1. /\ g \in Seq(Half) /\ Len(g) = Len(file) + Len(h)
      /\ \A j \in 1..Len(file) : file[j] = g[j]
      /\ \A j \in (Len(file) \div 2 + 1)..(Len(g) \div 2) : g[2 * (j - 1) + 1].id = u
  BY AppendedHalves DEF Typed
<1>2. file' = g
  BY Zenon
<1> HIDE DEF g
<1>3. /\ Secure \in Nat /\ Secure <= Len(file) /\ Len(file) \in Nat
      /\ Len(file) <= Len(g) /\ Len(h) \in Nat /\ file \in Seq(Half)
  BY <1>1, SecureNat DEF Typed
<1>4. Secure' \in Nat /\ Secure <= Secure'
  BY <1>1, <1>2, <1>3 DEF Secure, Typed
<1>5. ASSUME NEW t \in Tokens, InWindow(t)
      PROVE  Burnt(g, Secure', t)
  <2>1. Burnt(file, Secure, t)
    BY Zenon, <1>5 DEF Logged
  <2>2. \A j \in 1..Secure : file[j] = g[j]
    <3>1. \A j \in 1..Secure : j \in 1..Len(file)
      BY <1>3
    <3> QED  BY <1>1, <3>1, Zenon
  <2>3. Burnt(g, Secure, t)
    BY <1>1, <1>3, <2>1, <2>2, KeepsBurnt
  <2> QED  BY Zenon, <1>3, <1>4, <2>3, SecureGrows
<1>6. ASSUME NEW t \in Tokens \ reopened, InWindow(t), t # u
      PROVE  Latest(g, Secure', t)
  <2>1. Latest(file, Secure, t)
    BY Zenon, <1>6 DEF Ordered
  <2> DEFINE m == Len(file)
  <2>2. /\ m \in Nat /\ Secure <= m /\ m <= Len(file) /\ m <= Len(g)
        /\ \A j \in 1..m : file[j] = g[j]
        /\ \A j \in (m \div 2 + 1)..(Len(g) \div 2) : g[2 * (j - 1) + 1].id # t
    BY <1>1, <1>3, <1>6
  <2> HIDE DEF m
  <2>3. Latest(g, Secure, t)
    BY Zenon, <1>1, <1>3, <2>1, <2>2, KeepsRecords
  <2> QED  BY Zenon, <1>3, <1>4, <2>3, SecureGrows
<1> QED  BY Zenon, <1>1, <1>2, <1>4, <1>5, <1>6

\* An insert keeps the log and the set, and a successful one burns its token.
LEMMA InsertKeeps ==
    ASSUME Reliable, Inv, up, NEW now \in Nat, now <= clock, NEW u \in Tokens, NEW e \in Nat,
           NEW o \in append(u, e), Insert(u, e, now, o)
    PROVE  /\ Keeps
           /\ \A t \in Tokens \ reopened :
                 InWindow(t) => t # u /\ t \in DOMAIN entries' /\ entries'[t] >= Retention(t)
           /\ Len(file') % 2 = 0
           /\ o.ok => u \in DOMAIN entries' /\ entries'[u] = e
           /\ o.ok /\ e = Retention(u) =>
                 Burnt(file', Secure', u) /\ Latest(file', Secure', u)
<1> DEFINE r == Record(u, e)
           es == MadeRoom(entries, now)
<1>1. Typed /\ Logged /\ Ordered /\ Remembered /\ Len(file) % 2 = 0 /\ file \in Seq(Half)
  BY Zenon DEF Inv, Aligned, RecordLen, Typed
<1>2. r \in Seq(Half) /\ Len(r) = 2 /\ r[1].id = u
  BY Zenon, RecordFrame DEF RecordLen
<1>3. /\ file' = file \o r /\ buffer' = <<>> /\ o.ok \in BOOLEAN
      /\ synced' = synced \/ synced' = Len(file) + 2
      /\ o.ok /\ PowerLoss => synced' = Len(file) + 2
  BY Zenon, <1>1, AppendOutcome DEF Insert
<1>4. r = Record(u, e)
  BY Zenon
<1>5. entries' = IF o.ok THEN With(es, u, e) ELSE es
  BY Zenon DEF Insert
<1>6. u \notin DOMAIN entries
  BY Zenon DEF Insert, Refuses
<1>7. DOMAIN With(es, u, e) = DOMAIN es \cup {u} /\ With(es, u, e)[u] = e
      /\ \A t \in DOMAIN es \cup {u} : t # u => With(es, u, e)[t] = es[t]
  BY Zenon DEF With
<1>8. \A t \in DOMAIN es : es[t] \in Nat
  BY <1>1, RoomKeeps DEF Typed
<1> HIDE DEF r
<1>9. /\ synced \in Nat /\ synced <= Len(file) /\ Len(file) \in Nat
  BY Zenon, <1>1, SecureNat
<1>10. Len(file') = Len(file) + 2
  <2>1. file \in Seq(Half) /\ r \in Seq(Half)
    BY Zenon, <1>1, <1>2
  <2>2. Len(file \o r) = Len(file) + Len(r)
    BY <2>1
  <2> QED  BY Zenon, <1>2, <1>3, <2>2
<1>11. synced' \in 0..Len(file') /\ synced <= synced'
  BY <1>3, <1>9, <1>10
<1>12. /\ file' \in Seq(Half) /\ Secure' \in Nat
       /\ \A t \in Tokens : InWindow(t) => Burnt(file', Secure', t)
       /\ \A t \in Tokens \ reopened :
             InWindow(t) /\ t # u => Latest(file', Secure', t)
  <2>1. Len(r) \in 1..2
    BY <1>2
  <2> QED  BY Zenon, <1>1, <1>2, <1>3, <1>11, <2>1, GrownLog
<1>13. ASSUME NEW t \in Tokens \ reopened, InWindow(t)
       PROVE  t # u /\ t \in DOMAIN entries' /\ entries'[t] >= Retention(t)
  <2>1. t \in DOMAIN entries /\ t \in DOMAIN es /\ es[t] >= Retention(t)
    BY Zenon, <1>1, <1>13, EntryKept
  <2> HIDE DEF es
  <2>2. t # u
    BY Zenon, <1>6, <2>1
  <2>3. CASE o.ok
    BY Zenon, <1>5, <1>7, <2>1, <2>2, <2>3
  <2>4. CASE ~o.ok
    BY Zenon, <1>5, <2>1, <2>2, <2>4
  <2> QED  BY Zenon, <2>3, <2>4
<1> HIDE DEF es
<1>14. \A t \in DOMAIN entries' : entries'[t] \in Nat
  <2>1. CASE o.ok
    BY Zenon, <1>5, <1>7, <1>8, <2>1
  <2>2. CASE ~o.ok
    BY Zenon, <1>5, <1>8, <2>2
  <2> QED  BY Zenon, <2>1, <2>2
<1>15. Keeps
  BY <1>3, <1>11, <1>12, <1>13, <1>14, Zenon DEF Keeps
<1>16. Len(file') % 2 = 0
  BY <1>1, <1>9, <1>10
<1>17. o.ok => u \in DOMAIN entries' /\ entries'[u] = e
  BY Zenon, <1>5, <1>7
<1>18. ASSUME o.ok, e = Retention(u)
       PROVE  Burnt(file', Secure', u) /\ Latest(file', Secure', u)
  <2>1. Secure' = Len(file')
    BY Zenon, <1>3, <1>10, <1>18 DEF Secure
  <2>2. file' = file \o Record(u, Retention(u))
    BY Zenon, <1>3, <1>4, <1>18
  <2>3. LET g == file \o Record(u, Retention(u))
        IN  Burnt(g, Len(g), u) /\ Latest(g, Len(g), u)
    BY Zenon, <1>1, AcceptanceLogged
  <2> QED  BY Zenon, <2>1, <2>2, <2>3
<1> QED  BY Zenon, <1>13, <1>15, <1>16, <1>17, <1>18

\* A crash leaves the secure part of the file, or more of it.
LEMMA CrashKeeps ==
    ASSUME Inv, Crash
    PROVE  Keeps
<1> USE DEF Inv
<1>1. PICK k \in (IF PowerLoss THEN synced ELSE Len(file))..Len(file) :
         file' = SubSeq(file, 1, k) /\ synced' = k
  BY Zenon DEF Crash
<1>2. /\ Secure \in Nat /\ Secure <= Len(file) /\ Len(file) \in Nat /\ file \in Seq(Half)
      /\ synced \in Nat
  BY Zenon, SecureNat DEF Typed
<1>3. k \in Nat /\ k \in 0..Len(file) /\ Secure <= k
  BY <1>1, <1>2 DEF Secure
<1> DEFINE g == SubSeq(file, 1, k)
<1>4. g \in Seq(Half) /\ Len(g) = k /\ \A j \in 1..k : g[j] = file[j]
  BY Zenon, <1>2, <1>3, PrefixOf
<1>5. file' = g
  BY Zenon, <1>1
<1> HIDE DEF g
<1>6. Secure' = k
  BY Zenon, <1>1, <1>4, <1>5 DEF Secure
<1>7. ASSUME NEW t \in Tokens
      PROVE  /\ Burnt(file, Secure, t) => Burnt(g, k, t)
             /\ Latest(file, Secure, t) => Latest(g, k, t)
  <2>1. /\ k <= Len(file) /\ k <= Len(g) /\ \A j \in 1..k : file[j] = g[j]
        /\ \A j \in (k \div 2 + 1)..(Len(g) \div 2) : g[2 * (j - 1) + 1].id # t
    BY <1>3, <1>4
  <2>2. /\ Burnt(file, Secure, t) => Burnt(g, Secure, t)
        /\ Latest(file, Secure, t) => Latest(g, Secure, t)
    BY Zenon, <1>2, <1>3, <1>4, <2>1, KeepsRecords
  <2> QED  BY Zenon, <1>2, <1>3, <2>2, SecureGrows
<1>8. entries' = <<>> /\ buffer' = <<>>
  BY Zenon DEF Crash, Dead
<1>9. \A t \in DOMAIN entries' : entries'[t] \in Nat
  BY <1>8
<1>10. file' \in Seq(Half) /\ synced' \in 0..Len(file')
  BY <1>1, <1>3, <1>4, <1>5
<1>11. /\ \A t \in Tokens : InWindow(t) => Burnt(file', Secure', t)
       /\ \A t \in Tokens \ reopened : InWindow(t) => Latest(file', Secure', t)
  BY Zenon, <1>5, <1>6, <1>7 DEF Logged, Ordered
<1> QED  BY Zenon, <1>8, <1>9, <1>10, <1>11 DEF Keeps

\* A crash in the middle of an append leaves a part of a record behind.
LEMMA CrashInAppendKeeps ==
    ASSUME Inv, NEW h \in Handshakes, NEW u \in Tokens, CrashInAppend(h, u)
    PROVE  Keeps
<1> DEFINE r == Record(u, Retention(u))
<1>1. Typed /\ Logged /\ Ordered /\ Remembered /\ Len(file) % 2 = 0 /\ file \in Seq(Half) /\ up
  BY Zenon DEF Inv, Aligned, RecordLen, Typed, CrashInAppend
<1>2. r \in Seq(Half)
  BY Zenon, RetentionNat, RecordFrame
<1>3. buffer \o r = r
  BY <1>1, <1>2 DEF Typed
<1>4. PICK k \in 1..2 : file' = file \o SubSeq(buffer \o r, 1, k)
  BY Zenon DEF CrashInAppend, RecordLen
<1>5. file' = file \o SubSeq(r, 1, k)
  BY <1>3, <1>4, Zenon
<1>6. LET s == SubSeq(r, 1, k) IN s \in Seq(Half) /\ Len(s) = k /\ s[1].id = u
  BY Zenon, RetentionNat, PartOfRecord
<1> DEFINE s == SubSeq(r, 1, k)
<1>7. s \in Seq(Half) /\ Len(s) = k /\ s[1].id = u /\ file' = file \o s
  BY Zenon, <1>5, <1>6
<1> HIDE DEF s, r
<1>8. synced' = synced /\ entries' = <<>> /\ buffer' = <<>>
  BY Zenon DEF CrashInAppend, Dead
<1>9. synced \in Nat /\ synced <= Len(file) /\ Len(file) \in Nat
  BY Zenon, <1>1, SecureNat
<1>10. Len(file') = Len(file) + k
  <2>1. Len(file \o s) = Len(file) + Len(s)
    BY <1>1, <1>7
  <2> QED  BY Zenon, <1>7, <2>1
<1>11. synced' \in 0..Len(file') /\ synced <= synced'
  BY <1>8, <1>9, <1>10
<1>12. /\ file' \in Seq(Half)
       /\ \A t \in Tokens : InWindow(t) => Burnt(file', Secure', t)
       /\ \A t \in Tokens \ reopened :
             InWindow(t) /\ t # u => Latest(file', Secure', t)
  <2>1. Len(s) \in 1..2
    BY Zenon, <1>7
  <2> QED  BY Zenon, <1>1, <1>7, <1>11, <2>1, GrownLog
<1>13. \A t \in Tokens \ reopened : InWindow(t) => t # u
  <2>1. u \notin DOMAIN entries
    BY Zenon DEF CrashInAppend, Refuses
  <2> QED  BY Zenon, <1>1, <2>1 DEF Remembered
<1>14. \A t \in DOMAIN entries' : entries'[t] \in Nat
  BY <1>8
<1> QED  BY <1>8, <1>11, <1>12, <1>13, <1>14, Zenon DEF Keeps

\* A restart finds every burn, compacts the log to the live records, and
\* remembers every burn that the step does not count as reopened.
LEMMA RestartKeeps ==
    ASSUME Inv, new_with_log
    PROVE  /\ Keeps /\ Len(file') % 2 = 0
           /\ \A t \in Tokens \ reopened' :
                 InWindow(t) => t \in DOMAIN entries' /\ entries'[t] >= Retention(t)
<1> USE DEF Inv
<1> DEFINE w == WholeRecords(file)
           r == Load(w, clock)
<1>1. /\ file' = Compact(r) /\ synced' = Len(file') /\ buffer' = buffer
      /\ reopened' = reopened \cup Reopens(r, entries')
  BY Zenon DEF new_with_log
<1>2. PICK kept \in Kept(r) : entries' = Restored(kept)
  BY Zenon DEF new_with_log
<1>3. /\ Secure \in Nat /\ Secure \in 0..Len(file) /\ file \in Seq(Half)
      /\ clock \in Nat /\ buffer = <<>>
  BY SecureNat DEF Typed
<1>4. w \in Seq(Half)
  <2>1. Len(file) \in Nat /\ Len(file) - (Len(file) % 2) \in 0..Len(file)
    BY <1>3
  <2> QED  BY Zenon, <1>3, <2>1, PrefixOf DEF WholeRecords, RecordLen
<1>5. ASSUME NEW t \in Tokens
      PROVE  \E q \in 0..Len(w) : /\ Burnt(file, Secure, t) => Burnt(w, q, t)
                                  /\ Latest(file, Secure, t) => Latest(w, q, t)
  BY Zenon, <1>3, WholePart
<1>6. r = Load(w, clock)
  BY Zenon
<1> HIDE DEF w
<1>7. /\ r \in Seq(Frame)
      /\ \A m \in 1..Len(r) : r[m][1].id \in Tokens /\ r[m][1].expiry \in Nat
  BY Zenon, <1>3, <1>4, LoadFrames
<1> HIDE DEF r
<1>8. ASSUME NEW t \in Tokens, clock <= Retention(t)
      PROVE  /\ Burnt(file, Secure, t) => \E m \in 1..Len(r) : r[m] = Record(t, Retention(t))
             /\ Latest(file, Secure, t) => \E m : LastOf(r, t, m)
  <2>1. PICK q \in 0..Len(w) : /\ Burnt(file, Secure, t) => Burnt(w, q, t)
                               /\ Latest(file, Secure, t) => Latest(w, q, t)
    BY Zenon, <1>5
  <2>2. /\ Burnt(w, q, t) => \E m \in 1..Len(r) : r[m] = Record(t, Retention(t))
        /\ Latest(w, q, t) => \E m : LastOf(r, t, m)
    BY Zenon, <1>3, <1>4, <1>6, <1>8, LoadKeeps
  <2> QED  BY <2>1, <2>2, Zenon
<1>9. file' \in Seq(Half) /\ Len(file') = 2 * Len(r) /\ Len(r) \in Nat
  BY <1>1, <1>7, CompactChunks
<1>10. Secure' = Len(file') /\ synced' \in 0..Len(file') /\ Len(file') % 2 = 0
  BY <1>1, <1>9 DEF Secure
<1>11. ASSUME NEW t \in Tokens, InWindow(t)
       PROVE  Burnt(file', Secure', t)
  <2>1. \E m \in 1..Len(r) : r[m] = Record(t, Retention(t))
    BY Zenon, <1>8, <1>11 DEF Logged, InWindow
  <2> QED  BY Zenon, <1>1, <1>7, <1>10, <2>1, CompactKeeps
<1>12. ASSUME NEW t \in Tokens \ reopened, InWindow(t)
       PROVE  \E m : LastOf(r, t, m)
  BY Zenon, <1>8, <1>12 DEF Ordered, InWindow
<1>13. ASSUME NEW t \in Tokens \ reopened, InWindow(t)
       PROVE  Latest(file', Secure', t)
  <2>1. \E m : LastOf(r, t, m)
    BY Zenon, <1>12, <1>13
  <2> QED  BY Zenon, <1>1, <1>7, <1>10, <2>1, CompactKeeps
<1>14. \A t \in DOMAIN entries' : entries'[t] \in Nat
  BY Zenon, <1>2, <1>7, KeptRecords
<1>15. Keeps
  BY <1>1, <1>3, <1>9, <1>10, <1>11, <1>13, <1>14, Zenon DEF Keeps
<1>16. ASSUME NEW t \in Tokens \ reopened', InWindow(t)
       PROVE  t \in DOMAIN entries' /\ entries'[t] >= Retention(t)
  <2>1. t \in Tokens \ reopened /\ t \notin Reopens(r, entries')
    BY Zenon, <1>1, <1>16
  <2>2. CASE Len(r) > MaxEntries
    BY Zenon, <1>16, <2>1, <2>2 DEF Reopens, InWindow
  <2>3. CASE ~(Len(r) > MaxEntries)
    <3>1. kept = r
      BY <1>2, <1>9, <2>3, ReplayAssumption DEF Kept
    <3>2. PICK m : LastOf(r, t, m)
      BY Zenon, <1>12, <1>16, <2>1
    <3>3. t \in DOMAIN Restored(r) /\ Restored(r)[t] >= Retention(t)
      BY Zenon, <1>7, <1>16, <3>2, RestoredLast
    <3> QED  BY Zenon, <1>2, <3>1, <3>3
  <2> QED  BY Zenon, <2>2, <2>3
<1> QED  BY Zenon, <1>10, <1>15, <1>16

\* The initial state.
LEMMA InvInit == Init => Inv
<1> SUFFICES ASSUME Init PROVE Inv
  BY Zenon
<1>1. Typed
  <2>1. hs \in [Handshakes -> [pc : {"idle", "open"}, now : Nat]]
    BY Zenon DEF Init, Idle
  <2>2. \A h \in Handshakes : hs[h].now <= clock
    BY DEF Init, Idle
  <2>3. accepted \in [Tokens -> Nat]
    BY Zenon DEF Init
  <2>4. file \in Seq(Half) /\ synced \in 0..Len(file) /\ \A t \in DOMAIN entries : entries[t] \in Nat
    BY DEF Init
  <2>5. clock \in Nat /\ up \in BOOLEAN /\ buffer = <<>> /\ reopened \subseteq Tokens
    BY Zenon DEF Init
  <2> QED  BY <2>1, <2>2, <2>3, <2>4, <2>5, Zenon DEF Typed
<1>2. \A t \in Tokens : ~InWindow(t)
  BY DEF Init, InWindow
<1> QED  BY Zenon, <1>1, <1>2 DEF Inv, Aligned, Logged, Ordered, Remembered, Init

\* The windows open after a step were open before it, where the clock and the
\* acceptances stay.
LEMMA KeepsInv ==
    ASSUME Inv, Keeps, UNCHANGED <<clock, accepted>>, reopened \subseteq reopened',
           reopened' \subseteq Tokens, up' \in BOOLEAN, up' => Len(file') % 2 = 0,
           up' => \A t \in Tokens \ reopened' :
                    InWindow(t) => t \in DOMAIN entries' /\ entries'[t] >= Retention(t),
           hs' \in [Handshakes -> [pc : {"idle", "open"}, now : Nat]],
           \A h \in Handshakes : hs'[h].now <= clock
    PROVE  Inv'
<1>1. \A t : InWindow(t)' <=> InWindow(t)
  BY Zenon DEF InWindow
<1>2. /\ \A t \in DOMAIN entries' : entries'[t] \in Nat
      /\ file' \in Seq(Half) /\ buffer' = <<>> /\ synced' \in 0..Len(file')
      /\ \A t \in Tokens : InWindow(t) => Burnt(file', Secure', t)
      /\ \A t \in Tokens \ reopened : InWindow(t) => Latest(file', Secure', t)
  BY Zenon DEF Keeps
<1>3. clock' = clock /\ clock \in Nat /\ accepted' = accepted /\ accepted \in [Tokens -> Nat]
  BY Zenon DEF Inv, Typed
<1>4. Typed'
  <2>1. \A h \in Handshakes : hs'[h].now <= clock'
    BY Zenon, <1>3
  <2> QED  BY <1>2, <1>3, <2>1, Zenon DEF Typed
<1>5. Aligned'
  BY Zenon DEF Aligned, RecordLen
<1>6. Logged'
  <2>1. \A t \in Tokens : InWindow(t)' => Burnt(file', Secure', t)
    BY Zenon, <1>1, <1>2
  <2>2. \A t : Burnt(file, Secure, t)' <=> Burnt(file', Secure', t)
    BY Zenon DEF Burnt
  <2> QED  BY Zenon, <2>1, <2>2 DEF Logged
<1>7. Ordered'
  <2>1. \A t \in Tokens \ reopened' : InWindow(t)' => Latest(file', Secure', t)
    BY Zenon, <1>1, <1>2
  <2>2. \A t : Latest(file, Secure, t)' <=> Latest(file', Secure', t)
    BY Zenon DEF Latest
  <2> QED  BY Zenon, <2>1, <2>2 DEF Ordered
<1>8. Remembered'
  BY Zenon, <1>1 DEF Remembered
<1> QED  BY Zenon, <1>4, <1>5, <1>6, <1>7, <1>8 DEF Inv

\* A step that leaves the log and the set alone.
LEMMA StoreUnchanged ==
    ASSUME Inv, UNCHANGED store
    PROVE  /\ Keeps /\ Secure' = Secure
           /\ up => Len(file') % 2 = 0
           /\ up => \A t \in Tokens \ reopened :
                       InWindow(t) => t \in DOMAIN entries' /\ entries'[t] >= Retention(t)
<1>1. file' = file /\ synced' = synced /\ buffer' = buffer /\ entries' = entries
  BY Zenon DEF store
<1>2. Secure' = Secure
  BY Zenon, <1>1 DEF Secure
<1> QED  BY Zenon, <1>1, <1>2 DEF Inv, Keeps, Typed, Logged, Ordered, Aligned, Remembered, RecordLen

\* A handshake that ends, whether its token was accepted or not.
LEMMA FinishedType ==
    ASSUME Typed, NEW h \in Handshakes, hs' = Finished(h)
    PROVE  /\ hs' \in [Handshakes -> [pc : {"idle", "open"}, now : Nat]]
           /\ \A i \in Handshakes : hs'[i].now <= clock
<1>1. Idle \in [pc : {"idle", "open"}, now : Nat] /\ Idle.now = 0
  BY Zenon DEF Idle
<1>2. hs' = [hs EXCEPT ![h] = Idle] /\ hs \in [Handshakes -> [pc : {"idle", "open"}, now : Nat]]
      /\ clock \in Nat
  BY Zenon DEF Finished, Typed
<1>3. hs' \in [Handshakes -> [pc : {"idle", "open"}, now : Nat]]
  BY Zenon, <1>1, <1>2
<1>4. ASSUME NEW i \in Handshakes
      PROVE  hs'[i].now <= clock
  <2>1. CASE i = h
    BY <1>1, <1>2, <2>1
  <2>2. CASE i # h
    BY Zenon, <1>2, <2>2 DEF Typed
  <2> QED  BY Zenon, <2>1, <2>2
<1> QED  BY Zenon, <1>3, <1>4

\* An acceptance burns its token, in the log and in the set.
LEMMA AcceptKeeps ==
    ASSUME Reliable, Inv, up, NEW h \in Handshakes, NEW u \in Tokens,
           NEW o \in append(u, Retention(u)), Insert(u, Retention(u), hs[h].now, o), o.ok,
           accepted' = [accepted EXCEPT ![u] = @ + 1], reopened' = reopened \ {u},
           hs' = Finished(h), UNCHANGED <<clock, up>>
    PROVE  Inv'
<1>1. /\ hs[h].now \in Nat /\ hs[h].now <= clock /\ Retention(u) \in Nat
      /\ Typed /\ accepted \in [Tokens -> Nat]
  BY Zenon, RetentionNat DEF Inv, Typed
<1>2. /\ Keeps
      /\ \A t \in Tokens \ reopened :
            InWindow(t) => t # u /\ t \in DOMAIN entries' /\ entries'[t] >= Retention(t)
      /\ Len(file') % 2 = 0
      /\ u \in DOMAIN entries' /\ entries'[u] = Retention(u)
      /\ Burnt(file', Secure', u) /\ Latest(file', Secure', u)
  BY Zenon, <1>1, InsertKeeps
<1>3. \A t \in Tokens : t # u => (InWindow(t)' <=> InWindow(t))
  BY Zenon, <1>1 DEF InWindow
<1>4. /\ \A t \in DOMAIN entries' : entries'[t] \in Nat
      /\ file' \in Seq(Half) /\ buffer' = <<>> /\ synced' \in 0..Len(file')
      /\ \A t \in Tokens : InWindow(t) => Burnt(file', Secure', t)
      /\ \A t \in Tokens \ reopened : InWindow(t) => Latest(file', Secure', t)
  BY Zenon, <1>2 DEF Keeps
<1>5. Typed'
  <2>1. /\ hs' \in [Handshakes -> [pc : {"idle", "open"}, now : Nat]]
        /\ \A i \in Handshakes : hs'[i].now <= clock'
    BY Zenon, <1>1, FinishedType
  <2>2. accepted' \in [Tokens -> Nat]
    BY <1>1
  <2>3. clock' \in Nat /\ up' \in BOOLEAN /\ reopened' \subseteq Tokens
    BY Zenon DEF Inv, Typed
  <2> QED  BY <1>4, <2>1, <2>2, <2>3, Zenon DEF Typed
<1>6. Aligned'
  BY Zenon, <1>2 DEF Aligned, RecordLen
<1>7. Logged'
  <2>1. \A t \in Tokens : InWindow(t)' => Burnt(file', Secure', t)
    BY Zenon, <1>2, <1>3, <1>4
  <2>2. \A t : Burnt(file, Secure, t)' <=> Burnt(file', Secure', t)
    BY Zenon DEF Burnt
  <2> QED  BY Zenon, <2>1, <2>2 DEF Logged
<1>8. Ordered'
  <2>1. \A t \in Tokens \ reopened' : InWindow(t)' => Latest(file', Secure', t)
    BY Zenon, <1>2, <1>3, <1>4
  <2>2. \A t : Latest(file, Secure, t)' <=> Latest(file', Secure', t)
    BY Zenon DEF Latest
  <2> QED  BY Zenon, <2>1, <2>2 DEF Ordered
<1>9. Remembered'
  <2>1. entries'[u] >= Retention(u)
    BY <1>1, <1>2
  <2>2. \A t \in Tokens \ reopened' : t # u => t \in Tokens \ reopened
    BY Zenon
  <2>3. ASSUME NEW t \in Tokens \ reopened', InWindow(t)'
        PROVE  t \in DOMAIN entries' /\ entries'[t] >= Retention(t)
    BY Zenon, <1>2, <1>3, <2>1, <2>2, <2>3
  <2> QED  BY Zenon, <2>3 DEF Remembered
<1> QED  BY Zenon, <1>5, <1>6, <1>7, <1>8, <1>9 DEF Inv

\* Every step keeps the invariant.
LEMMA InvNext == Reliable /\ Inv /\ [Next]_vars => Inv'
<1> SUFFICES ASSUME Reliable, Inv, [Next]_vars PROVE Inv'
  BY Zenon
<1>0. /\ Typed /\ clock \in Nat /\ up \in BOOLEAN /\ reopened \subseteq Tokens
      /\ hs \in [Handshakes -> [pc : {"idle", "open"}, now : Nat]]
      /\ \A h \in Handshakes : hs[h].now \in Nat /\ hs[h].now <= clock
  BY Zenon DEF Inv, Typed
<1>1. ASSUME NEW h \in Handshakes, BeginHandshake(h)
      PROVE  Inv'
  <2>1. UNCHANGED store /\ UNCHANGED <<clock, up, reopened, accepted>>
        /\ hs' = [hs EXCEPT ![h] = [pc |-> "open", now |-> clock]]
    BY Zenon, <1>1 DEF BeginHandshake
  <2>2. hs' \in [Handshakes -> [pc : {"idle", "open"}, now : Nat]]
    BY Zenon, <1>0, <2>1
  <2>3. \A i \in Handshakes : hs'[i].now <= clock
    BY <1>0, <2>1
  <2> QED  BY Zenon, <1>0, <2>1, <2>2, <2>3, StoreUnchanged, KeepsInv
<1>2. ASSUME NEW h \in Handshakes, EndHandshake(h)
      PROVE  Inv'
  <2>1. UNCHANGED store /\ UNCHANGED <<clock, up, reopened, accepted>> /\ hs' = Finished(h)
    BY Zenon, <1>2 DEF EndHandshake
  <2>2. /\ hs' \in [Handshakes -> [pc : {"idle", "open"}, now : Nat]]
        /\ \A i \in Handshakes : hs'[i].now <= clock
    BY Zenon, <1>0, <2>1, FinishedType
  <2> QED  BY Zenon, <1>0, <2>1, <2>2, StoreUnchanged, KeepsInv
<1>3. ASSUME NEW h \in Handshakes, NEW u \in Tokens, read_message_3(h, u)
      PROVE  Inv'
  <2>1. up /\ hs' = Finished(h) /\ UNCHANGED <<clock, up>>
    BY Zenon, <1>3 DEF read_message_3
  <2>2. /\ hs' \in [Handshakes -> [pc : {"idle", "open"}, now : Nat]]
        /\ \A i \in Handshakes : hs'[i].now <= clock
    BY Zenon, <1>0, <2>1, FinishedType
  <2>3. CASE Refuse(u, hs[h].now) /\ UNCHANGED <<accepted, reopened>>
    <3>1. /\ Keeps /\ file' = file
          /\ \A t \in Tokens \ reopened :
                InWindow(t) => t \in DOMAIN entries' /\ entries'[t] >= Retention(t)
      BY Zenon, <1>0, <2>1, <2>3, RefuseKeeps
    <3>2. Len(file') % 2 = 0
      BY Zenon, <2>1, <3>1 DEF Inv, Aligned, RecordLen
    <3> QED  BY Zenon, <1>0, <2>1, <2>2, <2>3, <3>1, <3>2, KeepsInv
  <2>4. ASSUME NEW o \in append(u, Retention(u)), Insert(u, Retention(u), hs[h].now, o),
               accepted' = IF o.ok THEN [accepted EXCEPT ![u] = @ + 1] ELSE accepted,
               reopened' = IF o.ok THEN reopened \ {u} ELSE reopened
        PROVE  Inv'
    <3>1. CASE o.ok
      BY Zenon, <2>1, <2>4, <3>1, AcceptKeeps
    <3>2. CASE ~o.ok
      <4>1. /\ Keeps /\ Len(file') % 2 = 0
            /\ \A t \in Tokens \ reopened :
                  InWindow(t) => t \in DOMAIN entries' /\ entries'[t] >= Retention(t)
        BY Zenon, <1>0, <2>1, <2>4, RetentionNat, InsertKeeps
      <4> QED  BY Zenon, <1>0, <2>1, <2>2, <2>4, <3>2, <4>1, KeepsInv
    <3> QED  BY Zenon, <3>1, <3>2
  <2> QED  BY Zenon, <1>3, <2>3, <2>4 DEF read_message_3
<1>4. ASSUME NEW h \in Handshakes, NEW u \in Tokens, CrashInAppend(h, u)
      PROVE  Inv'
  <2>1. up' = FALSE /\ UNCHANGED <<clock, reopened, accepted>>
        /\ hs' = [i \in Handshakes |-> Idle]
    BY Zenon, <1>4 DEF CrashInAppend, Dead
  <2>2. /\ hs' \in [Handshakes -> [pc : {"idle", "open"}, now : Nat]]
        /\ \A i \in Handshakes : hs'[i].now <= clock
    BY <1>0, <2>1 DEF Idle
  <2>3. Keeps
    BY Zenon, <1>4, CrashInAppendKeeps
  <2> QED  BY Zenon, <1>0, <2>1, <2>2, <2>3, KeepsInv
<1>5. ASSUME NEW u \in Tokens, NEW b \in 0..clock, TokenBurned(u, b)
      PROVE  Inv'
  <2>1. up /\ UNCHANGED <<clock, up, reopened, hs, accepted>>
    BY Zenon, <1>5 DEF TokenBurned
  <2>2. b + IngestTtl \in Nat
    BY <1>0, ReplayAssumption
  <2>3. CASE Refuse(u, clock)
    <3>1. /\ Keeps /\ file' = file
          /\ \A t \in Tokens \ reopened :
                InWindow(t) => t \in DOMAIN entries' /\ entries'[t] >= Retention(t)
      BY <1>0, <2>1, <2>3, RefuseKeeps
    <3>2. Len(file') % 2 = 0
      BY Zenon, <2>1, <3>1 DEF Inv, Aligned, RecordLen
    <3> QED  BY Zenon, <1>0, <2>1, <3>1, <3>2, KeepsInv
  <2>4. ASSUME NEW o \in append(u, b + IngestTtl), Insert(u, b + IngestTtl, clock, o)
        PROVE  Inv'
    <3>1. /\ Keeps /\ Len(file') % 2 = 0
          /\ \A t \in Tokens \ reopened :
                InWindow(t) => t \in DOMAIN entries' /\ entries'[t] >= Retention(t)
      BY <1>0, <2>1, <2>2, <2>4, InsertKeeps
    <3> QED  BY Zenon, <1>0, <2>1, <3>1, KeepsInv
  <2> QED  BY Zenon, <1>5, <2>3, <2>4 DEF TokenBurned
<1>6. CASE Tick
  <2>1. clock' = clock + 1 /\ UNCHANGED <<up, reopened, hs, accepted, store>>
    BY Zenon, <1>6 DEF Tick
  <2>2. \A t \in Tokens : InWindow(t)' => InWindow(t)
    BY <1>0, <2>1, RetentionNat DEF InWindow
  <2>3. file' = file /\ synced' = synced /\ buffer' = buffer /\ entries' = entries
    BY Zenon, <2>1 DEF store
  <2>4. Secure' = Secure
    BY Zenon, <2>3 DEF Secure
  <2>5. Typed'
    BY <1>0, <2>1, <2>3 DEF Typed
  <2>6. Logged'
    BY Zenon, <2>2, <2>3, <2>4 DEF Inv, Logged, Burnt
  <2>7. Ordered'
    BY Zenon, <2>1, <2>2, <2>3, <2>4 DEF Inv, Ordered, Latest
  <2>8. Aligned' /\ Remembered'
    BY Zenon, <2>1, <2>2, <2>3 DEF Inv, Aligned, Remembered
  <2> QED  BY Zenon, <2>5, <2>6, <2>7, <2>8 DEF Inv
<1>7. CASE Crash
  <2>1. up' = FALSE /\ UNCHANGED <<clock, reopened, accepted>>
        /\ hs' = [i \in Handshakes |-> Idle]
    BY Zenon, <1>7 DEF Crash, Dead
  <2>2. /\ hs' \in [Handshakes -> [pc : {"idle", "open"}, now : Nat]]
        /\ \A i \in Handshakes : hs'[i].now <= clock
    BY <1>0, <2>1 DEF Idle
  <2>3. Keeps
    BY Zenon, <1>7, CrashKeeps
  <2> QED  BY Zenon, <1>0, <2>1, <2>2, <2>3, KeepsInv
<1>8. CASE new_with_log
  <2>1. UNCHANGED <<clock, hs, accepted>> /\ up' = TRUE /\ reopened \subseteq reopened'
    BY Zenon, <1>8 DEF new_with_log
  <2>2. reopened' \subseteq Tokens
    BY Zenon, <1>0, <1>8 DEF new_with_log, Reopens
  <2>3. /\ Keeps /\ Len(file') % 2 = 0
        /\ \A t \in Tokens \ reopened' :
              InWindow(t) => t \in DOMAIN entries' /\ entries'[t] >= Retention(t)
    BY Zenon, <1>8, RestartKeeps
  <2> QED  BY Zenon, <1>0, <2>1, <2>2, <2>3, KeepsInv
<1>9. CASE UNCHANGED vars
  BY Zenon, <1>9 DEF vars, Inv, Typed, Aligned, Logged, Ordered, Remembered, Secure, InWindow,
              Burnt, Latest
<1> QED  BY Zenon, <1>1, <1>2, <1>3, <1>4, <1>5, <1>6, <1>7, <1>8, <1>9 DEF Next

----------------------------------------------------------------------------
(* The theorems. *)

\* The invariant of the replay set and its log, across crashes, power loss,
\* failed syncs, restarts and gossiped burns.
THEOREM ReplayInv ==
    ASSUME Reliable
    PROVE  Spec => []Inv
<1>1. Inv /\ [Next]_vars => Inv'
  BY Zenon, InvNext
<1> QED  BY <1>1, InvInit, PTL DEF Spec

\* A load finds the record of every acceptance whose window is still open,
\* whatever came between: check_and_insert accepts only after the append, and
\* new_with_log compacts the full set before it cuts the one in memory.
THEOREM DurableBurnHolds ==
    ASSUME Reliable
    PROVE  Spec => []DurableBurn
<1>1. ASSUME Inv PROVE DurableBurn
  <2> SUFFICES ASSUME NEW t \in Tokens, accepted[t] > 0, Retention(t) >= clock
               PROVE  \E i \in DOMAIN Load(file, clock) :
                         Load(file, clock)[i] = Record(t, Retention(t))
    BY Zenon DEF DurableBurn
  <2>1. /\ file \in Seq(Half) /\ clock \in Nat /\ Secure \in 0..Len(file)
        /\ clock <= Retention(t) /\ InWindow(t)
    BY <1>1, SecureNat, RetentionNat DEF Inv, Typed, InWindow
  <2>2. Burnt(file, Secure, t)
    BY Zenon, <1>1, <2>1 DEF Inv, Logged
  <2>3. \E i \in 1..Len(Load(file, clock)) : Load(file, clock)[i] = Record(t, Retention(t))
    BY Zenon, <2>1, <2>2, LoadKeeps
  <2>4. Load(file, clock) \in Seq(Frame)
    BY Zenon, <2>1, LoadFrames
  <2> QED  BY <2>3, <2>4
<1> QED  BY <1>1, ReplayInv, PTL

\* No handshake accepts a token a second time in its window, unless a restore
\* that had to drop records has dropped its burn, or cut it short, since the
\* token was last accepted.
THEOREM AcceptedOnceInWindowHolds ==
    ASSUME Reliable
    PROVE  Spec => AcceptedOnceInWindow
<1> DEFINE Once == \A t \in Tokens :
              accepted'[t] > accepted[t] /\ accepted[t] > 0 /\ clock <= Retention(t)
                  => t \in reopened
<1>1. ASSUME Inv, [Next]_vars PROVE [Once]_vars
  <2>0. accepted \in [Tokens -> Nat]
    BY Zenon, <1>1 DEF Inv, Typed
  <2>1. ASSUME UNCHANGED accepted PROVE Once
    BY <2>0, <2>1
  <2>2. ASSUME NEW h \in Handshakes, NEW u \in Tokens, read_message_3(h, u)
        PROVE  Once
    <3>1. CASE accepted' = accepted
      BY Zenon, <2>1, <3>1
    <3>2. CASE accepted' # accepted
      <4>1. /\ accepted' = [accepted EXCEPT ![u] = @ + 1]
            /\ up /\ u \notin DOMAIN entries
        BY Zenon, <2>2, <3>2 DEF read_message_3, Insert, Refuses
      <4>2. \A t \in Tokens : accepted'[t] > accepted[t] => t = u
        BY <2>0, <4>1
      <4>3. accepted[u] > 0 /\ clock <= Retention(u) => u \in reopened
        BY Zenon, <1>1, <4>1 DEF Inv, Remembered, InWindow
      <4> QED  BY Zenon, <4>2, <4>3
    <3> QED  BY Zenon, <3>1, <3>2
  <2>3. CASE UNCHANGED vars
    BY Zenon, <2>3
  <2>4. ASSUME Next, ~(\E h \in Handshakes, u \in Tokens : read_message_3(h, u))
        PROVE  UNCHANGED accepted
    BY Zenon, <2>4 DEF Next, BeginHandshake, EndHandshake, CrashInAppend, TokenBurned, Tick,
                Crash, Dead, new_with_log
  <2> QED  BY Zenon, <1>1, <2>1, <2>2, <2>3, <2>4
<1>2. Inv /\ [Next]_vars => [Once]_vars
  BY Zenon, <1>1
<1> QED  BY <1>2, ReplayInv, PTL DEF Spec, AcceptedOnceInWindow
=============================================================================
