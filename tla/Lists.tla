------------------------------- MODULE Lists --------------------------------
(***************************************************************************)
(* The operations on sequences that the models compute with and the proofs *)
(* reason about.  Filtering (Rust's retain) and summing are recursive      *)
(* functions, and not SelectSeq and a fold, because those have no          *)
(* definition a prover can expand.                                         *)
(***************************************************************************)
EXTENDS Integers, Sequences, FiniteSets

Least(S) == CHOOSE x \in S : \A y \in S : x <= y

\* The first of the places I of a sequence, 0 when there is none (Rust's position).
FirstPlace(I) == IF I # {} THEN Least(I) ELSE 0

\* The orders in which the elements of a finite set can be visited.
Orderings(S) ==
    {s \in [1..Cardinality(S) -> S] : \A i, j \in DOMAIN s : s[i] = s[j] => i = j}

\* The elements of s that are in K, in their order.
Filter(s, K) ==
    LET f[n \in 0..Len(s)] ==
          IF n = 0 THEN <<>>
          ELSE IF s[n] \in K THEN Append(f[n - 1], s[n]) ELSE f[n - 1]
    IN  f[Len(s)]

\* The sum of a sequence of numbers.
Total(s) ==
    LET t[n \in 0..Len(s)] == IF n = 0 THEN 0 ELSE t[n - 1] + s[n]
    IN  t[Len(s)]
=============================================================================
