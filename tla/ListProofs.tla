----------------------------- MODULE ListProofs -----------------------------
(***************************************************************************)
(* Induction, recursion, and what Filter and Total compute.                *)
(*                                                                         *)
(* The induction theorems of the library have an operator parameter.  Here *)
(* a predicate is the set of what satisfies it, and induction is that such *)
(* a set is everything: a first-order statement.                           *)
(***************************************************************************)
EXTENDS Lists, WellFoundedInduction, TLAPS

\* A set of natural numbers has a least one.
LEMMA LeastNumber ==
    ASSUME NEW T \in SUBSET Nat, T # {}
    PROVE  \E n \in T : \A m \in T : n <= m
<1> DEFINE R == {ss \in Nat \X Nat : ss[1] < ss[2]}
<1>1. IsWellFoundedOn(R, Nat)
  BY NatLessThanWellFounded, Zenon DEF OpToRel
<1>2. \A m, n \in Nat : m < n => <<m, n>> \in R
  BY Zenon
<1> HIDE DEF R
<1>3. PICK n \in T : \A m \in T : ~ (<<m, n>> \in R)
  BY Zenon, <1>1, WFMin
<1>4. \A m \in T : ~ (m < n)
  BY <1>2, <1>3, Zenon
<1> QED  BY <1>4

\* A set of numbers that is not empty has its minimum.
LEMMA LeastIs ==
    ASSUME NEW I \in SUBSET Nat, I # {}
    PROVE  Least(I) \in I /\ \A y \in I : Least(I) <= y
<1>1. \E x \in I : \A y \in I : x <= y
  BY Zenon, LeastNumber
<1> QED  BY <1>1, Zenon DEF Least

\* Induction on natural numbers.
LEMMA NatInduct ==
    ASSUME NEW P \in SUBSET Nat, 0 \in P, \A n \in P : n + 1 \in P
    PROVE  P = Nat
<1> SUFFICES ASSUME Nat \ P # {} PROVE FALSE
  BY Zenon
<1>1. PICK n \in Nat \ P : \A m \in Nat \ P : n <= m
  BY Zenon, LeastNumber
<1>2. n # 0 /\ n - 1 \in Nat /\ n - 1 \notin Nat \ P
  BY <1>1
<1>3. (n - 1) + 1 \in P
  BY Zenon, <1>2
<1> QED  BY <1>3

\* A set of indices has a greatest one.
LEMMA GreatestIndex ==
    ASSUME NEW n \in Nat, NEW T \in SUBSET (1..n), T # {}
    PROVE  \E i \in T : \A j \in T : j <= i
<1> DEFINE D == {n - i : i \in T}
<1>1. D \in SUBSET Nat /\ D # {}
  <2>1. \A i \in T : i \in Nat /\ n - i \in Nat
    OBVIOUS
  <2>2. PICK x \in T : TRUE
    BY Zenon
  <2>3. n - x \in D
    BY Zenon
  <2>4. \A d \in D : d \in Nat
    BY Zenon, <2>1
  <2> QED  BY Zenon, <2>3, <2>4
<1>2. PICK d \in D : \A m \in D : d <= m
  BY Zenon, <1>1, LeastNumber
<1>3. PICK i \in T : d = n - i
  BY Zenon
<1>4. \A j \in T : n - i <= n - j
  BY Zenon, <1>2, <1>3
<1> QED  BY <1>4

\* A function on 1..n is a sequence.
LEMMA SeqOfFunction ==
    ASSUME NEW S, NEW n \in Nat, NEW f \in [1..n -> S]
    PROVE  f \in Seq(S) /\ Len(f) = n
OBVIOUS

\* Sequences that agree at every place are equal.
LEMMA SameSeq ==
    ASSUME NEW S, NEW s \in Seq(S), NEW t \in Seq(S), Len(s) = Len(t),
           \A i \in 1..Len(s) : s[i] = t[i]
    PROVE  s = t
OBVIOUS

\* The first k elements of a sequence.
LEMMA PrefixOf ==
    ASSUME NEW S, NEW s \in Seq(S), NEW k \in 0..Len(s)
    PROVE  /\ SubSeq(s, 1, k) \in Seq(S) /\ Len(SubSeq(s, 1, k)) = k
           /\ \A j \in 1..k : SubSeq(s, 1, k)[j] = s[j]
<1>1. \A i \in 1..k : s[i] \in S
  OBVIOUS
<1>2. /\ SubSeq(s, 1, k) \in Seq(S)
      /\ Len(SubSeq(s, 1, k)) = IF 1 <= k THEN k - 1 + 1 ELSE 0
      /\ \A i \in 1..(k - 1 + 1) : SubSeq(s, 1, k)[i] = s[1 + i - 1]
  BY <1>1
<1> QED  BY <1>2

\* A sequence with elements has a last one.
LEMMA LastSplit ==
    ASSUME NEW S, NEW s \in Seq(S), s # <<>>
    PROVE  \E r \in Seq(S), e \in S :
             /\ s = Append(r, e) /\ e = s[Len(s)]
             /\ Len(r) = Len(s) - 1 /\ \A i \in 1..(Len(s) - 1) : r[i] = s[i]
<1> DEFINE n == Len(s) - 1
           r == [i \in 1..n |-> s[i]]
           e == s[n + 1]
<1>1. n \in Nat /\ Len(s) = n + 1
  OBVIOUS
<1>2. r \in Seq(S) /\ e \in S /\ Len(r) = n /\ \A i \in 1..n : r[i] = s[i]
  BY <1>1
<1>3. e = s[n + 1] /\ n = Len(s) - 1
  BY Zenon
<1> HIDE DEF n, r, e
<1>4. s = Append(r, e)
  <2>1. /\ Append(r, e) \in Seq(S) /\ Len(Append(r, e)) = n + 1
        /\ \A i \in 1..n : Append(r, e)[i] = r[i]
        /\ Append(r, e)[n + 1] = e
    BY <1>1, <1>2
  <2>2. \A i \in 1..(n + 1) : Append(r, e)[i] = s[i]
    BY <1>1, <1>2, <1>3, <2>1
  <2> QED  BY <1>1, <2>1, <2>2
<1> QED  BY Zenon, <1>1, <1>2, <1>3, <1>4

\* Induction on sequences, one element at the end at a time.
LEMMA SeqInduct ==
    ASSUME NEW S, NEW P \in SUBSET Seq(S), <<>> \in P,
           \A s \in P, e \in S : Append(s, e) \in P
    PROVE  P = Seq(S)
<1> DEFINE Q == {n \in Nat : \A s \in Seq(S) : Len(s) = n => s \in P}
<1>1. 0 \in Q
  OBVIOUS
<1>2. ASSUME NEW n \in Q PROVE n + 1 \in Q
  <2> SUFFICES ASSUME NEW s \in Seq(S), Len(s) = n + 1 PROVE s \in P
    OBVIOUS
  <2>1. s # <<>>
    OBVIOUS
  <2>2. PICK r \in Seq(S), e \in S : s = Append(r, e) /\ Len(r) = Len(s) - 1
    BY <2>1, LastSplit
  <2>3. r \in P
    BY <1>2, <2>2
  <2> QED  BY Zenon, <2>2, <2>3
<1> HIDE DEF Q
<1>3. Q = Nat
  <2>1. Q \in SUBSET Nat
    BY Zenon DEF Q
  <2> QED  BY Zenon, <1>1, <1>2, <2>1, NatInduct
<1>4. ASSUME NEW s \in Seq(S) PROVE s \in P
  <2>1. Len(s) \in Q
    BY <1>3
  <2> QED  BY Zenon, <2>1 DEF Q
<1> QED  BY Zenon, <1>4

\* f starts with v and goes on, up to N, by the step g.
Follows(f, v, N, g) == f[0] = v /\ \A n \in 1..N : f[n] = g[f[n - 1]][n]

\* A function defined from 0 up to N by recursion exists.  The step is itself
\* a function: from the value so far and the next argument to the next value.
LEMMA Recursion ==
    ASSUME NEW V, NEW v \in V, NEW N \in Nat, NEW g \in [V -> [1..N -> V]]
    PROVE  \E f \in [0..N -> V] : Follows(f, v, N, g)
<1> DEFINE Upto(f, m) == f[0] = v /\ \A n \in 1..m : f[n] = g[f[n - 1]][n]
           P == {m \in Nat : m <= N => \E f \in [0..m -> V] : Upto(f, m)}
<1>1. 0 \in P
  <2>1. [n \in 0..0 |-> v] \in [0..0 -> V] /\ Upto([n \in 0..0 |-> v], 0)
    OBVIOUS
  <2> QED  BY Zenon, <2>1
<1>2. ASSUME NEW m \in P PROVE m + 1 \in P
  <2> HIDE DEF Upto
  <2> SUFFICES ASSUME m + 1 <= N PROVE \E f \in [0..(m + 1) -> V] : Upto(f, m + 1)
    OBVIOUS
  <2>1. PICK f \in [0..m -> V] : Upto(f, m)
    BY <1>2
  <2> USE DEF Upto
  <2> DEFINE h == [n \in 0..(m + 1) |-> IF n <= m THEN f[n] ELSE g[f[m]][m + 1]]
  <2>2. f[m] \in V /\ g[f[m]][m + 1] \in V
    OBVIOUS
  <2>3. h \in [0..(m + 1) -> V]
    BY <2>2
  <2>4. h[0] = v /\ \A n \in 0..m : h[n] = f[n]
    BY <2>1
  <2>5. ASSUME NEW n \in 1..(m + 1) PROVE h[n] = g[h[n - 1]][n]
    <3>1. CASE n <= m
      BY <2>1, <2>4, <3>1
    <3>2. CASE n = m + 1
      BY <2>4, <3>2
    <3> QED  BY <3>1, <3>2
  <2> QED  BY Zenon, <2>3, <2>4, <2>5
<1> HIDE DEF P
<1>3. P = Nat
  <2>1. P \in SUBSET Nat
    BY Zenon DEF P
  <2> QED  BY Zenon, <1>1, <1>2, <2>1, NatInduct
<1>4. N \in P
  BY Zenon, <1>3
<1> QED  BY <1>4 DEF P, Follows

\* f and h make the same steps up to M, and have the same values up to M.
SameSteps(f, h, M) == \A n \in 1..M : f[n - 1] = h[n - 1] => f[n] = h[n]
Agree(f, h, M) == \A n \in 0..M : f[n] = h[n]

\* Two functions with the same start and the same step are equal up to M.
LEMMA RecursionUnique ==
    ASSUME NEW M \in Nat, NEW f, NEW h, f[0] = h[0], SameSteps(f, h, M)
    PROVE  Agree(f, h, M)
<1> DEFINE P == {n \in Nat : n <= M => f[n] = h[n]}
<1>1. 0 \in P
  BY Zenon
<1>2. ASSUME NEW n \in P PROVE n + 1 \in P
  <2> SUFFICES ASSUME n + 1 <= M PROVE f[n + 1] = h[n + 1]
    OBVIOUS
  <2>1. f[n] = h[n] /\ n + 1 \in 1..M /\ (n + 1) - 1 = n
    OBVIOUS
  <2> QED  BY Zenon, <2>1 DEF SameSteps
<1> HIDE DEF P
<1>3. P = Nat
  <2>1. P \in SUBSET Nat
    BY Zenon DEF P
  <2> QED  BY Zenon, <1>1, <1>2, <2>1, NatInduct
<1> QED  BY <1>3 DEF P, Agree

\* The prefixes of s filtered are the values of f.
FiltersTo(f, s, K) ==
    /\ f[0] = <<>>
    /\ \A n \in 1..Len(s) :
          f[n] = IF s[n] \in K THEN Append(f[n - 1], s[n]) ELSE f[n - 1]
    /\ Filter(s, K) = f[Len(s)]

\* Filter is the last value of the function that its definition describes.
LEMMA FilterFunction ==
    ASSUME NEW S, NEW s \in Seq(S), NEW K
    PROVE  \E f : f \in [0..Len(s) -> Seq(S)] /\ FiltersTo(f, s, K)
<1> DEFINE g == [r \in Seq(S) |-> [n \in 1..Len(s) |->
                    IF s[n] \in K THEN Append(r, s[n]) ELSE r]]
<1>1. g \in [Seq(S) -> [1..Len(s) -> Seq(S)]]
  OBVIOUS
<1>2. \A r \in Seq(S), n \in 1..Len(s) :
         g[r][n] = IF s[n] \in K THEN Append(r, s[n]) ELSE r
  BY Zenon
<1> HIDE DEF g
<1>3. <<>> \in Seq(S) /\ Len(s) \in Nat
  OBVIOUS
<1>4. PICK f \in [0..Len(s) -> Seq(S)] :
         f[0] = <<>> /\ \A n \in 1..Len(s) : f[n] = g[f[n - 1]][n]
  <2> DEFINE V == Seq(S)
             v == <<>>
             N == Len(s)
  <2>1. v \in V /\ N \in Nat /\ g \in [V -> [1..N -> V]]
    BY Zenon, <1>1, <1>3
  <2> HIDE DEF V, v, N
  <2>2. \E f \in [0..N -> V] : Follows(f, v, N, g)
    BY Zenon, <2>1, Recursion
  <2> QED  BY Zenon, <2>2 DEF V, v, N, Follows
<1> DEFINE Step(h, n) == IF s[n] \in K THEN Append(h[n - 1], s[n]) ELSE h[n - 1]
<1>5. \A n \in 1..Len(s) : f[n] = Step(f, n)
  BY <1>2, <1>4
<1> DEFINE Body(h, n) == IF n = 0 THEN <<>> ELSE Step(h, n)
<1>6. f = [n \in 0..Len(s) |-> Body(f, n)]
  <2> HIDE DEF Step
  <2>1. \A n \in 0..Len(s) : n = 0 \/ n \in 1..Len(s)
    OBVIOUS
  <2>2. \A n \in 0..Len(s) : f[n] = Body(f, n)
    BY <1>4, <1>5, <2>1, Zenon
  <2> HIDE DEF Body
  <2> QED  BY Zenon, <2>2
<1> DEFINE F == CHOOSE h : h = [n \in 0..Len(s) |-> Body(h, n)]
<1>7. F = [n \in 0..Len(s) |-> Body(F, n)]
  <2> HIDE DEF Body
  <2> QED  BY <1>6, Zenon
<1>8. Filter(s, K) = F[Len(s)]
  BY Zenon DEF Filter
<1> HIDE DEF F
<1>9. \A n \in 0..Len(s) : F[n] = Body(F, n)
  <2> HIDE DEF Body
  <2> QED  BY Zenon, <1>7
<1>10. F[0] = f[0]
  BY <1>4, <1>9, <1>3
<1>11. \A n \in 1..Len(s) : F[n - 1] = f[n - 1] => F[n] = f[n]
  BY <1>5, <1>9
<1>12. \A n \in 0..Len(s) : F[n] = f[n]
  <2>1. SameSteps(F, f, Len(s))
    BY Zenon, <1>11 DEF SameSteps
  <2>2. Agree(F, f, Len(s))
    BY Zenon, <1>3, <1>10, <2>1, RecursionUnique
  <2> QED  BY Zenon, <2>2 DEF Agree
<1>13. Filter(s, K) = f[Len(s)]
  BY <1>3, <1>8, <1>12
<1> QED  BY Zenon, <1>4, <1>5, <1>13 DEF FiltersTo

\* Filtering the empty sequence gives the empty sequence.
LEMMA FilterEmpty ==
    ASSUME NEW K
    PROVE  Filter(<<>>, K) = <<>>
<1>1. <<>> \in Seq(K) /\ Len(<<>>) = 0
  OBVIOUS
<1>2. PICK f : FiltersTo(f, <<>>, K)
  BY <1>1, FilterFunction, Zenon
<1> QED  BY Zenon, <1>1, <1>2 DEF FiltersTo

\* Filtering a longer sequence: the last element is kept if it is in K.
LEMMA FilterAppend ==
    ASSUME NEW S, NEW s \in Seq(S), NEW e \in S, NEW K
    PROVE  Filter(Append(s, e), K) =
             IF e \in K THEN Append(Filter(s, K), e) ELSE Filter(s, K)
<1> DEFINE t == Append(s, e)
<1>1. t \in Seq(S) /\ Len(t) = Len(s) + 1 /\ Len(s) \in Nat
         /\ t[Len(s) + 1] = e /\ \A n \in 1..Len(s) : t[n] = s[n]
  OBVIOUS
<1> HIDE DEF t
<1>2. PICK f : FiltersTo(f, s, K)
  BY FilterFunction, Zenon
<1>3. PICK h : FiltersTo(h, t, K)
  BY <1>1, FilterFunction, Zenon
<1>4. \A n \in 1..Len(s) : f[n - 1] = h[n - 1] => f[n] = h[n]
  <2>1. \A n \in 1..Len(s) : n \in 1..Len(t)
    BY <1>1
  <2> QED  BY <1>1, <1>2, <1>3, <2>1, Zenon DEF FiltersTo
<1>5. f[Len(s)] = h[Len(s)]
  <2>1. f[0] = h[0]
    BY Zenon, <1>2, <1>3 DEF FiltersTo
  <2> DEFINE M == Len(s)
  <2> HIDE DEF M
  <2>2. M \in Nat /\ SameSteps(f, h, M)
    BY Zenon, <1>1, <1>4 DEF M, SameSteps
  <2>3. Agree(f, h, M)
    BY Zenon, <2>1, <2>2, RecursionUnique
  <2> QED  BY <1>1, <2>3 DEF M, Agree
<1>6. h[Len(t)] = IF e \in K THEN Append(h[Len(s)], e) ELSE h[Len(s)]
  BY <1>1, <1>3 DEF FiltersTo
<1> QED  BY Zenon, <1>2, <1>3, <1>5, <1>6 DEF t, FiltersTo

\* The elements of t are those of s that are in K, in their order: p says
\* where each of them was.
Embeds(p, t, s, K) ==
    /\ p \in [1..Len(t) -> 1..Len(s)]
    /\ \A i \in 1..Len(t) : t[i] = s[p[i]] /\ s[p[i]] \in K
    /\ \A i, j \in 1..Len(t) : i < j => p[i] < p[j]
    /\ \A j \in 1..Len(s) : s[j] \in K => \E i \in 1..Len(t) : p[i] = j

\* The embedding of t grows with one more element that is kept.
LEMMA EmbedsKept ==
    ASSUME NEW S, NEW s \in Seq(S), NEW t \in Seq(S), NEW K, NEW e \in S, e \in K,
           NEW p, Embeds(p, t, s, K)
    PROVE  \E q : Embeds(q, Append(t, e), Append(s, e), K)
<1> DEFINE m == Len(t)
           n == Len(s)
           w == Append(t, e)
           u == Append(s, e)
           q == [i \in 1..(m + 1) |-> IF i <= m THEN p[i] ELSE n + 1]
<1>1. /\ m \in Nat /\ n \in Nat /\ Len(w) = m + 1 /\ Len(u) = n + 1
      /\ w[m + 1] = e /\ u[n + 1] = e
      /\ \A i \in 1..m : w[i] = t[i]
      /\ \A i \in 1..n : u[i] = s[i]
  OBVIOUS
<1>2. /\ p \in [1..m -> 1..n]
      /\ \A i \in 1..m : t[i] = s[p[i]] /\ s[p[i]] \in K
      /\ \A i, j \in 1..m : i < j => p[i] < p[j]
      /\ \A j \in 1..n : s[j] \in K => \E i \in 1..m : p[i] = j
  BY Zenon DEF Embeds
<1> HIDE DEF m, n, w, u
<1>3. q \in [1..(m + 1) -> 1..(n + 1)]
  BY <1>1, <1>2
<1>4. q[m + 1] = n + 1 /\ \A i \in 1..m : q[i] = p[i]
  BY <1>1
<1> HIDE DEF q
<1>5. \A i \in 1..(m + 1) : i \in 1..m \/ i = m + 1
  BY <1>1
<1>6. \A i \in 1..m : p[i] \in 1..n
  BY Zenon, <1>2
<1>7. \A i \in 1..(m + 1) : w[i] = u[q[i]] /\ u[q[i]] \in K
  BY <1>1, <1>2, <1>4, <1>5, <1>6, Zenon
<1>8. \A i, j \in 1..(m + 1) : i < j => q[i] < q[j]
  <2> SUFFICES ASSUME NEW i \in 1..(m + 1), NEW j \in 1..(m + 1), i < j
               PROVE  q[i] < q[j]
    BY Zenon
  <2>1. i \in 1..m /\ q[i] = p[i] /\ p[i] \in 1..n
    BY <1>1, <1>4, <1>6
  <2>2. CASE j \in 1..m
    BY Zenon, <1>2, <1>4, <2>1, <2>2
  <2>3. CASE j = m + 1
    BY <1>1, <1>4, <2>1, <2>3
  <2> QED  BY Zenon, <1>5, <2>2, <2>3
<1>9. ASSUME NEW j \in 1..(n + 1), u[j] \in K PROVE \E i \in 1..(m + 1) : q[i] = j
  <2>1. CASE j = n + 1
    <3>1. m + 1 \in 1..(m + 1)
      BY <1>1
    <3> QED  BY Zenon, <1>4, <2>1, <3>1
  <2>2. CASE j # n + 1
    <3>1. j \in 1..n /\ s[j] \in K
      BY <1>1, <1>9, <2>2
    <3>2. PICK i \in 1..m : p[i] = j
      BY Zenon, <1>2, <3>1
    <3>3. i \in 1..(m + 1) /\ q[i] = j
      BY <1>1, <1>4, <3>2
    <3> QED  BY Zenon, <3>3
  <2> QED  BY Zenon, <2>1, <2>2
<1>10. Embeds(q, w, u, K)
  BY Zenon, <1>1, <1>3, <1>7, <1>8, <1>9 DEF Embeds
<1> QED  BY Zenon, <1>10 DEF w, u

\* The embedding of t stays with one more element that is not kept.
LEMMA EmbedsDropped ==
    ASSUME NEW S, NEW s \in Seq(S), NEW t \in Seq(S), NEW K, NEW e \in S, e \notin K,
           NEW p, Embeds(p, t, s, K)
    PROVE  Embeds(p, t, Append(s, e), K)
<1> DEFINE m == Len(t)
           n == Len(s)
           u == Append(s, e)
<1>1. /\ m \in Nat /\ n \in Nat /\ Len(u) = n + 1 /\ u[n + 1] = e
      /\ \A i \in 1..n : u[i] = s[i]
  OBVIOUS
<1>2. /\ p \in [1..m -> 1..n]
      /\ \A i \in 1..m : t[i] = s[p[i]] /\ s[p[i]] \in K
      /\ \A i, j \in 1..m : i < j => p[i] < p[j]
      /\ \A j \in 1..n : s[j] \in K => \E i \in 1..m : p[i] = j
  BY Zenon DEF Embeds
<1> HIDE DEF m, n, u
<1>3. \A i \in 1..m : p[i] \in 1..n /\ p[i] \in 1..(n + 1)
  BY <1>1, <1>2
<1>4. p \in [1..m -> 1..(n + 1)]
  BY Zenon, <1>2, <1>3
<1>5. \A i \in 1..m : t[i] = u[p[i]] /\ u[p[i]] \in K
  BY Zenon, <1>1, <1>2, <1>3
<1>6. \A j \in 1..(n + 1) : u[j] \in K => j \in 1..n /\ s[j] \in K
  BY <1>1
<1>7. \A j \in 1..(n + 1) : u[j] \in K => \E i \in 1..m : p[i] = j
  BY <1>2, <1>6, Zenon
<1>8. Embeds(p, t, u, K)
  BY Zenon, <1>1, <1>2, <1>4, <1>5, <1>7 DEF Embeds, m
<1> QED  BY Zenon, <1>8 DEF u

\* What Filter keeps is what the set asks for, in the order of the original.
LEMMA FilterEmbeds ==
    ASSUME NEW S, NEW s \in Seq(S), NEW K
    PROVE  Filter(s, K) \in Seq(S) /\ \E p : Embeds(p, Filter(s, K), s, K)
<1> DEFINE Good(r) == Filter(r, K) \in Seq(S) /\ \E p : Embeds(p, Filter(r, K), r, K)
           P == {r \in Seq(S) : Good(r)}
<1>1. <<>> \in P
  <2>1. Embeds(<<>>, <<>>, <<>>, K) /\ <<>> \in Seq(S)
    BY DEF Embeds
  <2> QED  BY Zenon, <2>1, FilterEmpty
<1>2. ASSUME NEW r \in P, NEW e \in S PROVE Append(r, e) \in P
  <2>1. r \in Seq(S) /\ Append(r, e) \in Seq(S) /\ Filter(r, K) \in Seq(S)
    OBVIOUS
  <2>2. PICK p : Embeds(p, Filter(r, K), r, K)
    BY Zenon
  <2>3. Filter(Append(r, e), K) = IF e \in K THEN Append(Filter(r, K), e) ELSE Filter(r, K)
    BY Zenon, <2>1, FilterAppend
  <2>4. CASE e \in K
    <3>1. \E q : Embeds(q, Append(Filter(r, K), e), Append(r, e), K)
      BY <2>1, <2>2, <2>4, EmbedsKept, Zenon
    <3>2. Append(Filter(r, K), e) \in Seq(S)
      BY <2>1
    <3> QED  BY Zenon, <2>1, <2>3, <2>4, <3>1, <3>2
  <2>5. CASE e \notin K
    <3>1. Embeds(p, Filter(r, K), Append(r, e), K)
      BY <2>1, <2>2, <2>5, EmbedsDropped, Zenon
    <3> QED  BY Zenon, <2>1, <2>3, <2>5, <3>1
  <2> QED  BY Zenon, <2>4, <2>5
<1> HIDE DEF P
<1>3. P = Seq(S)
  <2>1. P \in SUBSET Seq(S)
    BY Zenon DEF P
  <2> QED  BY Zenon, <1>1, <1>2, <2>1, SeqInduct
<1>4. s \in P
  BY Zenon, <1>3
<1> QED  BY Zenon, <1>4 DEF P

\* The sums of the prefixes of s are the values of f.
SumsTo(f, s) ==
    /\ f[0] = 0
    /\ \A n \in 1..Len(s) : f[n] = f[n - 1] + s[n]
    /\ Total(s) = f[Len(s)]

\* Total is the last value of the function that its definition describes.
LEMMA TotalFunction ==
    ASSUME NEW s \in Seq(Int)
    PROVE  \E f : f \in [0..Len(s) -> Int] /\ SumsTo(f, s)
<1> DEFINE g == [r \in Int |-> [n \in 1..Len(s) |-> r + s[n]]]
<1>1. g \in [Int -> [1..Len(s) -> Int]]
  OBVIOUS
<1>2. \A r \in Int, n \in 1..Len(s) : g[r][n] = r + s[n]
  BY Zenon
<1> HIDE DEF g
<1>3. Len(s) \in Nat
  OBVIOUS
<1>4. PICK f \in [0..Len(s) -> Int] : f[0] = 0 /\ \A n \in 1..Len(s) : f[n] = g[f[n - 1]][n]
  <2> DEFINE V == Int
             v == 0
             N == Len(s)
  <2>1. v \in V /\ N \in Nat /\ g \in [V -> [1..N -> V]]
    BY <1>1, <1>3
  <2> HIDE DEF V, v, N
  <2>2. \E f \in [0..N -> V] : Follows(f, v, N, g)
    BY Zenon, <2>1, Recursion
  <2> QED  BY Zenon, <2>2 DEF V, v, N, Follows
<1>5. \A n \in 1..Len(s) : f[n] = f[n - 1] + s[n]
  <2> SUFFICES ASSUME NEW n \in 1..Len(s) PROVE f[n] = f[n - 1] + s[n]
    BY Zenon
  <2>1. f[n - 1] \in Int
    BY <1>3
  <2> QED  BY Zenon, <1>2, <1>4, <2>1
<1> DEFINE Body(h, n) == IF n = 0 THEN 0 ELSE h[n - 1] + s[n]
<1>6. f = [n \in 0..Len(s) |-> Body(f, n)]
  <2>1. \A n \in 0..Len(s) : n = 0 \/ n \in 1..Len(s)
    OBVIOUS
  <2>2. \A n \in 0..Len(s) : f[n] = Body(f, n)
    BY <1>4, <1>5, <2>1, Zenon
  <2> HIDE DEF Body
  <2> QED  BY Zenon, <2>2
<1> DEFINE F == CHOOSE h : h = [n \in 0..Len(s) |-> Body(h, n)]
<1>7. F = [n \in 0..Len(s) |-> Body(F, n)]
  <2> HIDE DEF Body
  <2> QED  BY <1>6, Zenon
<1>8. Total(s) = F[Len(s)]
  BY Zenon DEF Total
<1> HIDE DEF F
<1>9. \A n \in 0..Len(s) : F[n] = Body(F, n)
  <2> HIDE DEF Body
  <2> QED  BY Zenon, <1>7
<1>10. F[0] = f[0]
  BY <1>4, <1>9, <1>3
<1>11. \A n \in 1..Len(s) : F[n - 1] = f[n - 1] => F[n] = f[n]
  BY <1>5, <1>9
<1>12. \A n \in 0..Len(s) : F[n] = f[n]
  <2>1. SameSteps(F, f, Len(s))
    BY Zenon, <1>11 DEF SameSteps
  <2>2. Agree(F, f, Len(s))
    BY Zenon, <1>3, <1>10, <2>1, RecursionUnique
  <2> QED  BY Zenon, <2>2 DEF Agree
<1>13. Total(s) = f[Len(s)]
  BY <1>3, <1>8, <1>12
<1> QED  BY Zenon, <1>4, <1>5, <1>13 DEF SumsTo

\* The sum of nothing.
LEMMA TotalEmpty == Total(<<>>) = 0
<1>1. <<>> \in Seq(Int) /\ Len(<<>>) = 0
  OBVIOUS
<1>2. PICK f : SumsTo(f, <<>>)
  BY <1>1, TotalFunction, Zenon
<1> QED  BY Zenon, <1>1, <1>2 DEF SumsTo

\* A sum of integers is one, and one more summand adds to it.
LEMMA TotalAppend ==
    ASSUME NEW s \in Seq(Int), NEW e \in Int
    PROVE  Total(s) \in Int /\ Total(Append(s, e)) = Total(s) + e
<1> DEFINE t == Append(s, e)
<1>1. t \in Seq(Int) /\ Len(t) = Len(s) + 1 /\ Len(s) \in Nat
         /\ t[Len(s) + 1] = e /\ \A n \in 1..Len(s) : t[n] = s[n]
  OBVIOUS
<1> HIDE DEF t
<1>2. PICK f : f \in [0..Len(s) -> Int] /\ SumsTo(f, s)
  BY TotalFunction, Zenon
<1>3. PICK h : SumsTo(h, t)
  BY <1>1, TotalFunction, Zenon
<1>4. \A n \in 1..Len(s) : f[n - 1] = h[n - 1] => f[n] = h[n]
  <2>1. \A n \in 1..Len(s) : n \in 1..Len(t)
    BY <1>1
  <2> QED  BY <1>1, <1>2, <1>3, <2>1, Zenon DEF SumsTo
<1>5. f[Len(s)] = h[Len(s)]
  <2>1. f[0] = h[0]
    BY Zenon, <1>2, <1>3 DEF SumsTo
  <2> DEFINE M == Len(s)
  <2> HIDE DEF M
  <2>2. M \in Nat /\ SameSteps(f, h, M)
    BY Zenon, <1>1, <1>4 DEF M, SameSteps
  <2>3. Agree(f, h, M)
    BY Zenon, <2>1, <2>2, RecursionUnique
  <2> QED  BY <1>1, <2>3 DEF M, Agree
<1>6. h[Len(t)] = h[Len(s)] + e
  BY <1>1, <1>3 DEF SumsTo
<1>7. Total(s) \in Int
  BY <1>1, <1>2 DEF SumsTo
<1> QED  BY Zenon, <1>2, <1>3, <1>5, <1>6, <1>7 DEF t, SumsTo

\* A sum of natural numbers is one.
LEMMA TotalNat ==
    ASSUME NEW s \in Seq(Nat)
    PROVE  Total(s) \in Nat
<1> DEFINE P == {r \in Seq(Nat) : Total(r) \in Nat}
<1>1. <<>> \in P
  BY TotalEmpty
<1>2. ASSUME NEW r \in P, NEW e \in Nat PROVE Append(r, e) \in P
  <2>1. r \in Seq(Int) /\ Append(r, e) \in Seq(Nat)
    OBVIOUS
  <2>2. Total(Append(r, e)) = Total(r) + e
    BY <2>1, TotalAppend
  <2> QED  BY <2>1, <2>2
<1> HIDE DEF P
<1>3. P = Seq(Nat)
  <2>1. P \in SUBSET Seq(Nat)
    BY Zenon DEF P
  <2> QED  BY Zenon, <1>1, <1>2, <2>1, SeqInduct
<1> QED  BY Zenon, <1>3 DEF P

\* t is s with another number at j.
Changed(s, t, j) ==
    /\ t \in Seq(Int) /\ Len(t) = Len(s)
    /\ \A k \in 1..Len(s) : k # j => t[k] = s[k]

\* Changing one summand changes the sum by as much.
LEMMA TotalUpdate ==
    \A s \in Seq(Int) : \A t, j :
      j \in 1..Len(s) /\ Changed(s, t, j) => Total(t) = Total(s) - s[j] + t[j]
<1> DEFINE Good(r) == \A w, j : j \in 1..Len(r) /\ Changed(r, w, j)
                                  => Total(w) = Total(r) - r[j] + w[j]
           P == {r \in Seq(Int) : Good(r)}
<1>1. <<>> \in P
  OBVIOUS
<1>2. ASSUME NEW r \in P, NEW e \in Int PROVE Append(r, e) \in P
  <2> DEFINE u == Append(r, e)
             n == Len(r)
  <2>1. r \in Seq(Int) /\ u \in Seq(Int) /\ Len(u) = n + 1 /\ u[n + 1] = e
           /\ n \in Nat /\ n = Len(r) /\ \A j \in 1..n : u[j] = r[j] /\ r[j] \in Int
    OBVIOUS
  <2>2. Total(u) = Total(r) + e /\ Total(r) \in Int
    BY Zenon, <2>1, TotalAppend
  <2>3. Good(r)
    BY Zenon
  <2> HIDE DEF u, n, Good
  <2>4. ASSUME NEW w, NEW j \in 1..Len(u), Changed(u, w, j)
        PROVE  Total(w) = Total(u) - u[j] + w[j]
    <3>1. w \in Seq(Int) /\ Len(w) = n + 1 /\ \A k \in 1..(n + 1) : k # j => w[k] = u[k]
      BY Zenon, <2>1, <2>4 DEF Changed
    <3>2. w # <<>>
      BY <2>1, <3>1
    <3>3. PICK q \in Seq(Int), f \in Int :
            /\ w = Append(q, f) /\ f = w[Len(w)]
            /\ Len(q) = Len(w) - 1 /\ \A k \in 1..(Len(w) - 1) : q[k] = w[k]
      BY Zenon, <3>1, <3>2, LastSplit
    <3>4. Len(q) = n /\ f = w[n + 1] /\ \A k \in 1..n : q[k] = w[k]
      BY <2>1, <3>1, <3>3
    <3>5. Total(w) = Total(q) + f /\ Total(q) \in Int
      BY Zenon, <3>3, TotalAppend
    <3>6. CASE j = n + 1
      <4>1. \A k \in 1..n : q[k] = r[k]
        BY <2>1, <3>1, <3>4, <3>6
      <4>2. q = r
        BY Zenon, <2>1, <3>4, <4>1, SameSeq
      <4> QED  BY <2>1, <2>2, <3>4, <3>5, <3>6, <4>2
    <3>7. CASE j # n + 1
      <4>1. j \in 1..n
        BY <2>1, <3>7
      <4>2. f = e /\ q[j] = w[j] /\ u[j] = r[j] /\ r[j] \in Int
        <5>0. n \in Nat => n + 1 \in 1..(n + 1)
          OBVIOUS
        <5>1. w[n + 1] = u[n + 1]
          BY <2>1, <3>1, <3>7, <5>0, Zenon
        <5>2. f = e
          BY Zenon, <2>1, <3>4, <5>1
        <5>3. q[j] = w[j] /\ u[j] = r[j] /\ r[j] \in Int
          BY Zenon, <2>1, <3>4, <4>1
        <5> QED  BY Zenon, <5>2, <5>3
      <4>3. Changed(r, q, j)
        BY <2>1, <3>1, <3>4 DEF Changed
      <4>4. Total(q) = Total(r) - r[j] + q[j]
        BY Zenon, <2>1, <2>3, <4>1, <4>3 DEF Good
      <4>5. q[j] \in Int
        BY <3>4, <4>1
      <4> QED  BY <2>2, <3>5, <4>2, <4>4, <4>5
    <3> QED  BY Zenon, <3>6, <3>7
  <2>5. Good(u)
    BY Zenon, <2>4 DEF Good
  <2> QED  BY Zenon, <2>1, <2>5 DEF u
<1> HIDE DEF P
<1>3. P = Seq(Int)
  <2>1. P \in SUBSET Seq(Int)
    BY Zenon DEF P
  <2> QED  BY Zenon, <1>1, <1>2, <2>1, SeqInduct
<1> QED  BY Zenon, <1>3 DEF P

\* The sum of zeros is zero.
LEMMA TotalZeros ==
    ASSUME NEW s \in Seq(Int), \A i \in 1..Len(s) : s[i] = 0
    PROVE  Total(s) = 0
<1> DEFINE P == {r \in Seq(Int) : (\A i \in 1..Len(r) : r[i] = 0) => Total(r) = 0}
<1>1. <<>> \in P
  BY TotalEmpty
<1>2. ASSUME NEW r \in P, NEW e \in Int PROVE Append(r, e) \in P
  <2> DEFINE u == Append(r, e)
  <2>1. r \in Seq(Int) /\ u \in Seq(Int) /\ Len(u) = Len(r) + 1 /\ u[Len(r) + 1] = e
           /\ Len(r) \in Nat /\ \A j \in 1..Len(r) : u[j] = r[j]
    OBVIOUS
  <2>2. Total(u) = Total(r) + e
    BY Zenon, <2>1, TotalAppend
  <2> HIDE DEF u
  <2>3. ASSUME \A i \in 1..Len(u) : u[i] = 0 PROVE Total(u) = 0
    <3>1. e = 0 /\ \A i \in 1..Len(r) : r[i] = 0
      BY <2>1, <2>3
    <3> QED  BY <2>2, <3>1
  <2>4. u \in P
    BY Zenon, <2>1, <2>3
  <2> QED  BY Zenon, <2>4 DEF u
<1> HIDE DEF P
<1>3. P = Seq(Int)
  <2>1. P \in SUBSET Seq(Int)
    BY Zenon DEF P
  <2> QED  BY Zenon, <1>1, <1>2, <2>1, SeqInduct
<1>4. s \in P
  BY Zenon, <1>3
<1> QED  BY Zenon, <1>4 DEF P

\* A function on 1..n is a sequence.
LEMMA FunctionSeq ==
    ASSUME NEW n \in Nat, NEW f \in [1..n -> Nat]
    PROVE  f \in Seq(Nat) /\ f \in Seq(Int) /\ Len(f) = n
<1>1. f \in Seq(Nat) /\ f \in [1..n -> Int]
  OBVIOUS
<1>2. f \in Seq(Int)
  BY <1>1
<1>3. Len(f) = n
  BY <1>1
<1> QED  BY Zenon, <1>1, <1>2, <1>3

\* The sum of a function on 1..n, and what a change at j does to it.
LEMMA TotalChange ==
    ASSUME NEW n \in Nat, NEW f \in [1..n -> Nat], NEW g \in [1..n -> Nat], NEW j \in 1..n,
           \A k \in 1..n : k # j => g[k] = f[k]
    PROVE  /\ Total(f) \in Nat /\ Total(g) \in Nat
           /\ Total(g) = Total(f) - f[j] + g[j]
<1>1. f \in Seq(Nat) /\ f \in Seq(Int) /\ Len(f) = n
  BY Zenon, FunctionSeq
<1>2. g \in Seq(Nat) /\ g \in Seq(Int) /\ Len(g) = n
  BY Zenon, FunctionSeq
<1>3. Changed(f, g, j)
  BY <1>1, <1>2, Zenon DEF Changed
<1>4. j \in 1..Len(f)
  BY Zenon, <1>1
<1>5. Total(g) = Total(f) - f[j] + g[j]
  BY <1>1, <1>3, <1>4, TotalUpdate, Zenon
<1> QED  BY Zenon, <1>1, <1>2, <1>5, TotalNat

\* What is appended to a concatenation is appended to its second part.
LEMMA ConcatAppend ==
    ASSUME NEW S, NEW a \in Seq(S), NEW b \in Seq(S), NEW e \in S
    PROVE  a \o Append(b, e) = Append(a \o b, e)
OBVIOUS

\* Filtering a concatenation.
LEMMA FilterConcat ==
    ASSUME NEW S, NEW a \in Seq(S), NEW b \in Seq(S), NEW K
    PROVE  Filter(a \o b, K) = Filter(a, K) \o Filter(b, K)
<1> DEFINE P == {r \in Seq(S) : Filter(a \o r, K) = Filter(a, K) \o Filter(r, K)}
<1>1. <<>> \in P
  <2>1. <<>> \in Seq(S) /\ a \o <<>> = a /\ Filter(a, K) \in Seq(S)
    BY FilterEmbeds
  <2>2. Filter(a, K) \o <<>> = Filter(a, K)
    BY <2>1
  <2> QED  BY Zenon, <2>1, <2>2, FilterEmpty
<1>2. ASSUME NEW r \in P, NEW e \in S PROVE Append(r, e) \in P
  <2>1. r \in Seq(S) /\ a \o r \in Seq(S) /\ Append(r, e) \in Seq(S)
           /\ Filter(a, K) \in Seq(S) /\ Filter(r, K) \in Seq(S)
    BY FilterEmbeds
  <2>2. a \o Append(r, e) = Append(a \o r, e)
    BY <2>1, ConcatAppend
  <2>3. Filter(Append(a \o r, e), K) =
           IF e \in K THEN Append(Filter(a \o r, K), e) ELSE Filter(a \o r, K)
    <3> DEFINE t == a \o r
    <3>1. t \in Seq(S)
      BY Zenon, <2>1
    <3> HIDE DEF t
    <3>2. Filter(Append(t, e), K) = IF e \in K THEN Append(Filter(t, K), e) ELSE Filter(t, K)
      BY <3>1, FilterAppend
    <3> QED  BY Zenon, <3>2 DEF t
  <2>4. Filter(Append(r, e), K) = IF e \in K THEN Append(Filter(r, K), e) ELSE Filter(r, K)
    BY <2>1, FilterAppend
  <2>5. Filter(a, K) \o Append(Filter(r, K), e) = Append(Filter(a, K) \o Filter(r, K), e)
    BY <2>1, ConcatAppend
  <2>6. Filter(a \o r, K) = Filter(a, K) \o Filter(r, K)
    BY Zenon
  <2> QED  BY <2>1, <2>2, <2>3, <2>4, <2>5, <2>6, Zenon
<1> HIDE DEF P
<1>3. P = Seq(S)
  <2>1. P \in SUBSET Seq(S)
    BY Zenon DEF P
  <2> QED  BY Zenon, <1>1, <1>2, <2>1, SeqInduct
<1> QED  BY Zenon, <1>3 DEF P

\* A filter that every element passes, and one that none does.
LEMMA FilterAll ==
    ASSUME NEW S, NEW s \in Seq(S), NEW K, \A i \in 1..Len(s) : s[i] \in K
    PROVE  Filter(s, K) = s
<1> DEFINE P == {r \in Seq(S) : (\A i \in 1..Len(r) : r[i] \in K) => Filter(r, K) = r}
<1>1. <<>> \in P
  BY FilterEmpty
<1>2. ASSUME NEW r \in P, NEW e \in S PROVE Append(r, e) \in P
  <2> DEFINE u == Append(r, e)
  <2>1. r \in Seq(S) /\ u \in Seq(S) /\ Len(u) = Len(r) + 1 /\ u[Len(r) + 1] = e
           /\ Len(r) \in Nat /\ \A j \in 1..Len(r) : u[j] = r[j]
    OBVIOUS
  <2>2. Filter(u, K) = IF e \in K THEN Append(Filter(r, K), e) ELSE Filter(r, K)
    BY Zenon, <2>1, FilterAppend
  <2> HIDE DEF u
  <2>3. ASSUME \A i \in 1..Len(u) : u[i] \in K PROVE e \in K /\ Filter(r, K) = r
    BY <2>1, <2>3
  <2> QED  BY Zenon, <2>1, <2>2, <2>3 DEF u
<1> HIDE DEF P
<1>3. P = Seq(S)
  <2>1. P \in SUBSET Seq(S)
    BY Zenon DEF P
  <2> QED  BY Zenon, <1>1, <1>2, <2>1, SeqInduct
<1> QED  BY Zenon, <1>3 DEF P

LEMMA FilterNone ==
    ASSUME NEW S, NEW s \in Seq(S), NEW K, \A i \in 1..Len(s) : s[i] \notin K
    PROVE  Filter(s, K) = <<>>
<1>1. Filter(s, K) \in Seq(S) /\ \E p : Embeds(p, Filter(s, K), s, K)
  BY Zenon, FilterEmbeds
<1>2. PICK p : Embeds(p, Filter(s, K), s, K)
  BY Zenon, <1>1
<1>3. \A i \in 1..Len(Filter(s, K)) : p[i] \in 1..Len(s) /\ s[p[i]] \in K
  BY Zenon, <1>2 DEF Embeds
<1>4. Len(Filter(s, K)) \in Nat /\ 1..Len(Filter(s, K)) = {}
  BY <1>1, <1>3
<1>5. Len(Filter(s, K)) = 0
  BY <1>4
<1> QED  BY <1>1, <1>5

\* A filter keeps every element of its set.
LEMMA FilterKeeps ==
    ASSUME NEW S, NEW s \in Seq(S), NEW K, NEW i \in 1..Len(s), s[i] \in K
    PROVE  \E n \in 1..Len(Filter(s, K)) : Filter(s, K)[n] = s[i]
<1>1. PICK p : Embeds(p, Filter(s, K), s, K)
  BY Zenon, FilterEmbeds
<1>2. PICK n \in 1..Len(Filter(s, K)) : p[n] = i
  BY Zenon, <1>1 DEF Embeds
<1> QED  BY Zenon, <1>1, <1>2 DEF Embeds

\* The sum of a concatenation.
LEMMA TotalConcat ==
    ASSUME NEW a \in Seq(Int), NEW b \in Seq(Int)
    PROVE  Total(a \o b) = Total(a) + Total(b)
<1> DEFINE P == {r \in Seq(Int) : Total(a \o r) = Total(a) + Total(r)}
<1>1. <<>> \in P
  <2>1. Total(a) \in Int
    BY TotalAppend
  <2> QED  BY <2>1, TotalEmpty
<1>2. ASSUME NEW r \in P, NEW e \in Int PROVE Append(r, e) \in P
  <2>1. r \in Seq(Int) /\ a \o r \in Seq(Int) /\ Append(r, e) \in Seq(Int)
           /\ a \o Append(r, e) = Append(a \o r, e)
    BY ConcatAppend
  <2>2. Total(Append(a \o r, e)) = Total(a \o r) + e /\ Total(a) \in Int
    BY Zenon, <2>1, TotalAppend
  <2>3. Total(Append(r, e)) = Total(r) + e /\ Total(r) \in Int
    BY Zenon, <2>1, TotalAppend
  <2>4. Total(a \o r) = Total(a) + Total(r)
    BY Zenon
  <2>5. Total(Append(a \o r, e)) = Total(a) + Total(Append(r, e))
    BY <2>2, <2>3, <2>4
  <2> QED  BY Zenon, <2>1, <2>5
<1> HIDE DEF P
<1>3. P = Seq(Int)
  <2>1. P \in SUBSET Seq(Int)
    BY Zenon DEF P
  <2> QED  BY Zenon, <1>1, <1>2, <2>1, SeqInduct
<1> QED  BY Zenon, <1>3 DEF P

\* A sequence is a concatenation if its elements are those of the two parts.
LEMMA ConcatIs ==
    ASSUME NEW S, NEW x \in Seq(S), NEW y \in Seq(S), NEW z \in Seq(S),
           Len(z) = Len(x) + Len(y),
           \A k \in 1..Len(x) : z[k] = x[k],
           \A k \in 1..Len(y) : z[Len(x) + k] = y[k]
    PROVE  z = x \o y
<1> DEFINE w == x \o y
<1>1. w \in Seq(S)
  OBVIOUS
<1>2. /\ Len(w) = Len(x) + Len(y) /\ Len(x) \in Nat /\ Len(y) \in Nat
      /\ \A k \in 1..Len(x) : w[k] = x[k]
      /\ \A k \in 1..Len(y) : w[Len(x) + k] = y[k]
  OBVIOUS
<1> HIDE DEF w
<1>3. \A k \in 1..Len(z) : z[k] = w[k]
  <2> SUFFICES ASSUME NEW k \in 1..Len(z) PROVE z[k] = w[k]
    BY Zenon
  <2>1. CASE k \in 1..Len(x)
    BY Zenon, <1>2, <2>1
  <2>2. CASE k \notin 1..Len(x)
    <3> DEFINE m == k - Len(x)
    <3>1. m \in 1..Len(y) /\ k = Len(x) + m
      BY <1>2, <2>2
    <3> HIDE DEF m
    <3> QED  BY Zenon, <1>2, <3>1
  <2> QED  BY Zenon, <2>1, <2>2
<1>4. z = w
  BY <1>1, <1>2, <1>3
<1> QED  BY Zenon, <1>4 DEF w

\* A sequence is its first k elements and the rest.
LEMMA SplitAt ==
    ASSUME NEW S, NEW q \in Seq(S), NEW k \in 0..Len(q)
    PROVE  /\ SubSeq(q, 1, k) \in Seq(S) /\ SubSeq(q, k + 1, Len(q)) \in Seq(S)
           /\ Len(SubSeq(q, 1, k)) = k /\ Len(SubSeq(q, k + 1, Len(q))) = Len(q) - k
           /\ \A j \in 1..(Len(q) - k) : SubSeq(q, k + 1, Len(q))[j] = q[k + j]
           /\ q = SubSeq(q, 1, k) \o SubSeq(q, k + 1, Len(q))
<1> DEFINE a == SubSeq(q, 1, k)
           b == SubSeq(q, k + 1, Len(q))
           n == Len(q)
<1>1. n \in Nat /\ k \in Nat /\ k <= n /\ \A i \in 1..n : q[i] \in S
  OBVIOUS
<1>2. a \in Seq(S) /\ Len(a) = k /\ \A j \in 1..k : a[j] = q[j]
  BY Zenon, PrefixOf
<1>3. /\ b \in Seq(S) /\ Len(b) = n - k
      /\ \A j \in 1..(n - k) : b[j] = q[k + j]
  <2>1. \A i \in (k + 1)..n : q[i] \in S
    BY <1>1
  <2>2. /\ SubSeq(q, k + 1, n) \in Seq(S)
        /\ Len(SubSeq(q, k + 1, n)) = IF k + 1 <= n THEN n - (k + 1) + 1 ELSE 0
        /\ \A i \in 1..(n - (k + 1) + 1) : SubSeq(q, k + 1, n)[i] = q[(k + 1) + i - 1]
    BY <1>1, <2>1
  <2>3. Len(b) = n - k
    BY <1>1, <2>2
  <2>4. \A j \in 1..(n - k) : j \in 1..(n - (k + 1) + 1) /\ (k + 1) + j - 1 = k + j
    BY <1>1
  <2> QED  BY Zenon, <2>2, <2>3, <2>4
<1>4. q = a \o b
  <2> HIDE DEF a, b
  <2>1. /\ Len(q) = Len(a) + Len(b)
        /\ \A j \in 1..Len(a) : q[j] = a[j]
        /\ \A j \in 1..Len(b) : q[Len(a) + j] = b[j]
    BY <1>1, <1>2, <1>3
  <2> QED  BY Zenon, <1>2, <1>3, <2>1, ConcatIs
<1> QED  BY Zenon, <1>2, <1>3, <1>4

\* The sum of a single number.
LEMMA TotalOne ==
    ASSUME NEW e \in Int
    PROVE  Total(<<e>>) = e
<1>1. <<e>> = Append(<<>>, e) /\ <<>> \in Seq(Int)
  OBVIOUS
<1>2. Total(Append(<<>>, e)) = Total(<<>>) + e
  BY Zenon, <1>1, TotalAppend
<1> QED  BY <1>1, <1>2, TotalEmpty
=============================================================================
