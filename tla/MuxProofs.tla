----------------------------- MODULE MuxProofs ------------------------------
(***************************************************************************)
(* Proof that the close-race guard of open() is enough: on a closed mux    *)
(* connection no open() is left waiting, for any number of streams, any    *)
(* window and queue sizes and on either kind of runtime.                   *)
(*                                                                         *)
(* The state property alone is not inductive.  What makes it so is that    *)
(* until the drain an open() between its insert and its answer has its     *)
(* waiter in open_waiters, where close_connection finds it.                *)
(***************************************************************************)
EXTENDS Mux, MuxDrain, ListProofs

\* The part of the type invariant the argument needs; frames, windows and
\* buffers play no role in it.
Typed ==
    /\ app \in [Side -> [StreamIds -> App]]
    /\ waiting \in [Side -> SUBSET StreamIds]
    /\ closed \in [Side -> {"no", "closing", "yes"}]

\* An open() that is past its insert and not answered is in open_waiters until
\* close_connection has drained them.
WaiterKept ==
    \A s \in Side, i \in StreamIds :
        app[s][i] \in {"rechecking", "opening"} /\ closed[s] # "yes" => i \in waiting[s]

IInv == Typed /\ WaiterKept /\ NoOpenAfterClose

\* A new connection has no open() in progress.
LEMMA InitIInv == Init => IInv
  BY DEF Init, IInv, Typed, WaiterKept, NoOpenAfterClose, App

\* A step that moves one open() or stream of s to v, and at most its own waiter,
\* keeps the invariant if it starts a wait only on an open connection and keeps
\* the waiter of an unanswered open().
LEMMA OneMoves ==
    ASSUME IInv, NEW s \in Side, NEW i, NEW v \in App, NEW W \in SUBSET StreamIds,
           closed' = closed,
           app' = [app EXCEPT ![s][i] = v],
           waiting' = [waiting EXCEPT ![s] = W],
           \A j \in waiting[s] : j # i => j \in W,
           v = "opening" => closed[s] # "yes",
           v \in {"rechecking", "opening"} /\ closed[s] # "yes" => i \in W
    PROVE  IInv'
<1>1. Typed'
  BY Zenon DEF IInv, Typed
<1>2. \A t \in Side, j \in StreamIds : app'[t][j] = IF t = s /\ j = i THEN v ELSE app[t][j]
  BY Zenon DEF IInv, Typed
<1>3. \A t \in Side : waiting'[t] = IF t = s THEN W ELSE waiting[t]
  BY Zenon DEF IInv, Typed
<1>4. WaiterKept'
  BY <1>2, <1>3 DEF IInv, WaiterKept
<1>5. NoOpenAfterClose'
  BY <1>2 DEF IInv, NoOpenAfterClose
<1> QED  BY Zenon, <1>1, <1>4, <1>5 DEF IInv

\* So does a step that moves one of them out of, or past, its wait.
LEMMA OneSettles ==
    ASSUME IInv, NEW s \in Side, NEW i, NEW v \in App \ {"rechecking", "opening"},
           closed' = closed, waiting' = waiting, app' = [app EXCEPT ![s][i] = v]
    PROVE  IInv'
<1>1. waiting' = [waiting EXCEPT ![s] = waiting[s]] /\ waiting[s] \in SUBSET StreamIds
  BY Zenon DEF IInv, Typed
<1> QED  BY Zenon, <1>1, OneMoves

\* open(): entering, the insert under the state lock, the recheck (which starts
\* the wait only while the connection is open) and the caller's timeout.
LEMMA OpenStep ==
    ASSUME IInv, NEW s \in Side, NEW i \in StreamIds,
           OpenEnter(s) \/ OpenInsert(s, i) \/ OpenRecheck(s, i) \/ OpenTimeout(s, i)
    PROVE  IInv'
<1>1. CASE OpenEnter(s)
  BY Zenon, <1>1, OneSettles DEF OpenEnter, App
<1>2. CASE OpenInsert(s, i)
  <2>1. CASE CanOpen(mux[s])
    <3> DEFINE W == waiting[s] \cup {i}
    <3>1. /\ closed' = closed
          /\ waiting' = [waiting EXCEPT ![s] = W]
          /\ app' = [app EXCEPT ![s][i] = "rechecking"]
      BY Zenon, <1>2, <2>1 DEF OpenInsert
    <3>2. W \in SUBSET StreamIds
      BY Zenon DEF IInv, Typed
    <3> HIDE DEF W
    <3>3. i \in W /\ waiting[s] \subseteq W
      BY Zenon DEF W
    <3> QED  BY Zenon, <3>1, <3>2, <3>3, OneMoves DEF App
  <2>2. CASE ~CanOpen(mux[s])
    BY Zenon, <1>2, <2>2, OneSettles DEF OpenInsert, App
  <2> QED  BY Zenon, <2>1, <2>2
<1>3. CASE OpenRecheck(s, i)
  <2>1. CASE closed[s] # "no"
    <3> DEFINE W == waiting[s] \ {i}
    <3>1. /\ closed' = closed
          /\ waiting' = [waiting EXCEPT ![s] = W]
          /\ app' = [app EXCEPT ![s][i] = "gone"]
      BY Zenon, <1>3, <2>1 DEF OpenRecheck
    <3>2. W \in SUBSET StreamIds /\ \A j \in waiting[s] : j # i => j \in W
      BY Zenon DEF IInv, Typed
    <3> HIDE DEF W
    <3> QED  BY Zenon, <3>1, <3>2, OneMoves DEF App
  <2>2. CASE closed[s] = "no"
    <3> DEFINE v == IF app[s][i] = "answered" THEN "held" ELSE "opening"
    <3>1. /\ closed' = closed
          /\ waiting' = [waiting EXCEPT ![s] = waiting[s]]
          /\ app' = [app EXCEPT ![s][i] = v]
      BY Zenon, <1>3, <2>2 DEF OpenRecheck, IInv, Typed
    <3>2. v = "opening" => i \in waiting[s]
      BY Zenon, <1>3, <2>2 DEF OpenRecheck, IInv, WaiterKept
    <3>3. v \in App /\ v # "rechecking" /\ waiting[s] \in SUBSET StreamIds
      BY Zenon DEF IInv, Typed, App
    <3> HIDE DEF v
    <3> QED  BY Zenon, <2>2, <3>1, <3>2, <3>3, OneMoves
  <2> QED  BY Zenon, <2>1, <2>2
<1>4. CASE OpenTimeout(s, i)
  BY Zenon, <1>4, OneSettles DEF OpenTimeout, App
<1> QED  BY Zenon, <1>1, <1>2, <1>3, <1>4

\* What the holder of a stream does never makes it an open() in progress.
LEMMA HolderStep ==
    ASSUME IInv, NEW s \in Side, NEW i \in StreamIds,
           \/ AcceptStream(s, i) \/ RejectStream(s, i) \/ DropStream(s, i)
           \/ Read(s, i) \/ Write(s, i) \/ Shutdown(s, i)
    PROVE  IInv'
<1>1. CASE AcceptStream(s, i)
  BY Zenon, <1>1, OneSettles DEF AcceptStream, App
<1>2. CASE RejectStream(s, i)
  BY Zenon, <1>2, OneSettles DEF RejectStream, App
<1>3. CASE DropStream(s, i)
  BY Zenon, <1>3, OneSettles DEF DropStream, App
<1>4. CASE Read(s, i) \/ Write(s, i) \/ Shutdown(s, i)
  <2>1. UNCHANGED <<app, waiting, closed>>
    BY Zenon, <1>4 DEF Read, Write, Shutdown
  <2> QED  BY Zenon, <2>1 DEF IInv, Typed, WaiterKept, NoOpenAfterClose
<1> QED  BY Zenon, <1>1, <1>2, <1>3, <1>4

\* The reader takes a waiter out of the map only to answer or to fail its
\* open() in the same step.
LEMMA ReaderStep ==
    ASSUME IInv, NEW s \in Side, ReaderTask(s)
    PROVE  IInv'
<1>1. CASE ReadFrame(s) \/ DeliverData(s) \/ DeliverPeerEndLocal(s)
  <2>1. UNCHANGED <<app, waiting, closed>>
    BY Zenon, <1>1 DEF ReadFrame, DeliverData, DeliverPeerEndLocal
  <2> QED  BY Zenon, <2>1 DEF IInv, Typed, WaiterKept, NoOpenAfterClose
<1>2. CASE DeliverIncoming(s)
  BY Zenon, <1>2, OneSettles DEF DeliverIncoming, App
<1>3. CASE DeliverEstablished(s)
  <2> DEFINE i == event[s].id
             W == waiting[s] \ {i}
             v == CASE app[s][i] = "opening" -> "held"
                    [] app[s][i] = "rechecking" -> "answered"
                    [] OTHER -> app[s][i]
  <2>1. CASE i \in waiting[s]
    <3>1. /\ closed' = closed
          /\ waiting' = [waiting EXCEPT ![s] = W]
          /\ app' = [app EXCEPT ![s][i] = v]
      BY Zenon, <1>3, <2>1 DEF DeliverEstablished
    <3>2. W \in SUBSET StreamIds /\ \A j \in waiting[s] : j # i => j \in W
      BY Zenon DEF IInv, Typed
    <3>3. app[s][i] \in App
      BY Zenon, <2>1 DEF IInv, Typed
    <3>4. v \in App /\ v \notin {"rechecking", "opening"}
      BY Zenon, <3>3 DEF App
    <3> HIDE DEF v, W, i
    <3> QED  BY Zenon, <3>1, <3>2, <3>4, OneMoves
  <2>2. CASE i \notin waiting[s]
    <3>1. closed' = closed /\ waiting' = waiting /\ app' = app
      BY Zenon, <1>3, <2>2 DEF DeliverEstablished, IInv, Typed
    <3> QED  BY Zenon, <3>1 DEF IInv, Typed, WaiterKept, NoOpenAfterClose
  <2> QED  BY Zenon, <2>1, <2>2
<1>4. CASE DeliverFault(s)
  <2> DEFINE i == event[s].id
  <2>1. CASE Ev(s, "Reset") /\ i \in waiting[s]
    <3> DEFINE v == IF app[s][i] = "abandoned" THEN "abandoned" ELSE "gone"
    <3>1. /\ closed' = closed
          /\ waiting' = [waiting EXCEPT ![s] = waiting[s] \ {i}]
          /\ app' = [app EXCEPT ![s][i] = v]
      BY Zenon, <1>4, <2>1 DEF DeliverFault
    <3>2. v \in App /\ v \notin {"rechecking", "opening"}
      BY Zenon DEF App
    <3>3. waiting[s] \ {i} \in SUBSET StreamIds
      BY Zenon DEF IInv, Typed
    <3> HIDE DEF v, i
    <3> QED  BY Zenon, <3>1, <3>2, <3>3, OneMoves
  <2>2. CASE ~(Ev(s, "Reset") /\ i \in waiting[s])
    <3>1. UNCHANGED <<app, waiting, closed>>
      BY Zenon, <1>4, <2>2 DEF DeliverFault
    <3> QED  BY Zenon, <3>1 DEF IInv, Typed, WaiterKept, NoOpenAfterClose
  <2> QED  BY Zenon, <2>1, <2>2
<1> QED  BY Zenon, <1>1, <1>2, <1>3, <1>4 DEF ReaderTask, Deliver

\* close_connection sets its flag, then drains: every open() still waiting is
\* in open_waiters and fails.
LEMMA CloseStep ==
    ASSUME IInv, NEW s \in Side, CloseBegin(s) \/ CloseDrain(s)
    PROVE  IInv'
<1>1. CASE CloseBegin(s)
  BY Zenon, <1>1 DEF CloseBegin, IInv, Typed, WaiterKept, NoOpenAfterClose, App
<1>2. CASE CloseDrain(s)
  BY <1>2 DEF CloseDrain, IInv, Typed, WaiterKept, NoOpenAfterClose, App
<1> QED  BY Zenon, <1>1, <1>2

\* Every step of either endpoint keeps the inductive invariant.
LEMMA NextIInv == IInv /\ [Next]_vars => IInv'
<1> SUFFICES ASSUME IInv, [Next]_vars PROVE IInv'
  BY Zenon
<1>1. CASE UNCHANGED vars
  BY Zenon, <1>1 DEF vars, IInv, Typed, WaiterKept, NoOpenAfterClose
<1>2. CASE Next
  <2>1. PICK s \in Side :
          \/ ReaderTask(s) \/ DrainPass(s)
          \/ OpenEnter(s) \/ \E i \in StreamIds : HolderTask(s, i) \/ HolderMay(s, i)
          \/ CloseBegin(s) \/ CloseDrain(s)
    BY Zenon, <1>2 DEF Next
  <2>2. CASE ReaderTask(s)
    BY Zenon, <2>2, ReaderStep
  <2>3. CASE DrainPass(s)
    BY Zenon, <2>3 DEF DrainPass, IInv, Typed, WaiterKept, NoOpenAfterClose
  <2>4. CASE OpenEnter(s)
    <3>1. PICK i \in StreamIds : TRUE
      BY Zenon, <2>4 DEF OpenEnter, OwnIds
    <3> QED  BY Zenon, <2>4, OpenStep
  <2>5. CASE \E i \in StreamIds : HolderTask(s, i) \/ HolderMay(s, i)
    <3>1. PICK i \in StreamIds : HolderTask(s, i) \/ HolderMay(s, i)
      BY Zenon, <2>5
    <3> QED  BY Zenon, <3>1, OpenStep, HolderStep DEF HolderTask, HolderMay
  <2>6. CASE CloseBegin(s) \/ CloseDrain(s)
    BY Zenon, <2>6, CloseStep
  <2> QED  BY Zenon, <2>1, <2>2, <2>3, <2>4, <2>5, <2>6
<1> QED  BY Zenon, <1>1, <1>2

\* No open() waits for ever on a closed connection (the guard MUX-1 of
\* conn.rs): whichever way open(), the reader and close_connection interleave.
THEOREM NoOpenAfterCloseHolds == Spec => []NoOpenAfterClose
<1>1. IInv => NoOpenAfterClose
  BY Zenon DEF IInv
<1> QED  BY InitIInv, NextIInv, <1>1, PTL DEF Spec
-----------------------------------------------------------------------------
(***************************************************************************)
(* The scheduler.  A turn takes a front piece off one stream's queue; what *)
(* the deficit did not pay for costs more than what is left of it.         *)
(***************************************************************************)

Sized == {fr \in Frame : Len(fr.body) <= MaxBody}
Own(i) == {fr \in Frame : fr.id = i}
Costs(q) == [k \in DOMAIN q |-> Cost(q[k])]

\* A frame costs at least 1, and one that fits a carrier record at most MaxBody.
LEMMA CostBounds ==
    /\ \A fr \in Frame : Cost(fr) \in Nat
    /\ \A fr \in Sized : Cost(fr) \in 1..MaxBody
<1>1. \A fr \in Frame : Len(fr.body) \in Nat
  BY DEF Frame
<1>2. MaxBody \in Nat \ {0}
  BY Zenon, MuxPolicyAssumption
<1> QED  BY <1>1, <1>2 DEF Cost, Sized

\* The costs of a sequence of frames are a sequence of numbers.
LEMMA CostsTyped ==
    ASSUME NEW q \in Seq(Frame)
    PROVE  /\ Costs(q) \in Seq(Nat) /\ Costs(q) \in Seq(Int)
           /\ Len(Costs(q)) = Len(q)
           /\ \A k \in 1..Len(q) : Costs(q)[k] = Cost(q[k])
<1>1. Len(q) \in Nat /\ DOMAIN q = 1..Len(q) /\ \A k \in 1..Len(q) : q[k] \in Frame
  OBVIOUS
<1>2. Costs(q) = [k \in 1..Len(q) |-> Cost(q[k])]
  BY Zenon, <1>1 DEF Costs
<1>3. Costs(q) \in [1..Len(q) -> Nat]
  BY Zenon, <1>1, <1>2, CostBounds
<1>4. Costs(q) \in Seq(Nat) /\ Costs(q) \in Seq(Int) /\ Len(Costs(q)) = Len(q)
  BY Zenon, <1>1, <1>3, FunctionSeq
<1> QED  BY Zenon, <1>2, <1>4

\* What a sequence of frames costs is a number.
LEMMA SpentNat ==
    ASSUME NEW q \in Seq(Frame)
    PROVE  Spent(q) \in Nat
<1>1. Costs(q) \in Seq(Nat)
  BY Zenon, CostsTyped
<1>2. Total(Costs(q)) \in Nat
  BY Zenon, <1>1, TotalNat
<1> QED  BY Zenon, <1>2 DEF Spent, Costs

\* Nothing costs nothing.
LEMMA SpentEmpty == Spent(<<>>) = 0
<1>1. [k \in DOMAIN <<>> |-> Cost(<<>>[k])] = <<>>
  OBVIOUS
<1> QED  BY Zenon, <1>1, TotalEmpty DEF Spent

\* The cost of a concatenation.
LEMMA SpentConcat ==
    ASSUME NEW a \in Seq(Frame), NEW b \in Seq(Frame)
    PROVE  Spent(a \o b) = Spent(a) + Spent(b)
<1> DEFINE c == a \o b
<1>1. c \in Seq(Frame)
  OBVIOUS
<1>2. /\ Len(c) = Len(a) + Len(b) /\ Len(a) \in Nat /\ Len(b) \in Nat
      /\ \A k \in 1..Len(a) : c[k] = a[k]
      /\ \A k \in 1..Len(b) : c[Len(a) + k] = b[k]
  OBVIOUS
<1> HIDE DEF c
<1>3. /\ Costs(a) \in Seq(Int) /\ Len(Costs(a)) = Len(a)
      /\ \A k \in 1..Len(a) : Costs(a)[k] = Cost(a[k])
  BY Zenon, CostsTyped
<1>4. /\ Costs(b) \in Seq(Int) /\ Len(Costs(b)) = Len(b)
      /\ \A k \in 1..Len(b) : Costs(b)[k] = Cost(b[k])
  BY Zenon, CostsTyped
<1>5. /\ Costs(c) \in Seq(Int) /\ Len(Costs(c)) = Len(c)
      /\ \A k \in 1..Len(c) : Costs(c)[k] = Cost(c[k])
  BY Zenon, <1>1, CostsTyped
<1>6. Costs(c) = Costs(a) \o Costs(b)
  <2> DEFINE x == Costs(a)
             y == Costs(b)
             z == Costs(c)
  <2>1. x \in Seq(Int) /\ y \in Seq(Int) /\ z \in Seq(Int)
           /\ Len(z) = Len(x) + Len(y) /\ Len(x) \in Nat /\ Len(y) \in Nat
    BY Zenon, <1>2, <1>3, <1>4, <1>5
  <2>2. \A k \in 1..Len(x) : z[k] = x[k]
    BY <1>2, <1>3, <1>5
  <2>3. \A k \in 1..Len(y) : z[Len(x) + k] = y[k]
    BY <1>2, <1>3, <1>4, <1>5
  <2> HIDE DEF x, y, z
  <2>5. z = x \o y
    BY Zenon, <2>1, <2>2, <2>3, ConcatIs
  <2> QED  BY Zenon, <2>5 DEF x, y, z
<1>7. Total(Costs(c)) = Total(Costs(a)) + Total(Costs(b))
  BY Zenon, <1>3, <1>4, <1>6, TotalConcat
<1> QED  BY Zenon, <1>7 DEF c, Spent, Costs


\* The deficit pays for the longest front piece a of q that it covers; if some
\* of q is left, what is left of the deficit does not pay for its first frame.
LEMMA TurnSplits ==
    ASSUME NEW q \in Seq(Sized), NEW d \in Nat
    PROVE  \E a, b \in Seq(Sized) :
              /\ a = SubSeq(q, 1, Affordable(q, d))
              /\ b = SubSeq(q, Affordable(q, d) + 1, Len(q))
              /\ q = a \o b
              /\ Spent(a) \in Nat /\ Spent(a) <= d
              /\ b # <<>> => d - Spent(a) < Cost(b[1])
<1> DEFINE n == Len(q)
           cost(j) == Spent(SubSeq(q, 1, j))
           K == {k \in 0..n : cost(k) <= d}
           k == Affordable(q, d)
<1>1. n \in Nat /\ \A fr \in Sized : fr \in Frame
  BY DEF Sized
<1>2. \A j \in 0..n : /\ SubSeq(q, 1, j) \in Seq(Sized)
                      /\ SubSeq(q, 1, j) \in Seq(Frame)
                      /\ Len(SubSeq(q, 1, j)) = j
                      /\ \A i \in 1..j : SubSeq(q, 1, j)[i] = q[i]
  <2> SUFFICES ASSUME NEW j \in 0..n
               PROVE  /\ SubSeq(q, 1, j) \in Seq(Sized)
                      /\ SubSeq(q, 1, j) \in Seq(Frame)
                      /\ Len(SubSeq(q, 1, j)) = j
                      /\ \A i \in 1..j : SubSeq(q, 1, j)[i] = q[i]
    BY Zenon
  <2>1. q \in Seq(Frame)
    BY <1>1
  <2> QED  BY Zenon, <2>1, PrefixOf
<1>3. \A j \in 0..n : cost(j) \in Nat
  BY Zenon, <1>2, SpentNat
<1>4. 0 \in K
  <2>1. SubSeq(q, 1, 0) = <<>>
    BY <1>1, <1>2
  <2>2. cost(0) = 0
    BY Zenon, <2>1, SpentEmpty
  <2> QED  BY <1>1, <2>2
<1>5. \E m \in K : \A j \in K : j <= m
  <2> HIDE DEF K
  <2>1. K \subseteq 0..n
    BY Zenon DEF K
  <2>2. CASE K \cap (1..n) = {}
    BY <1>1, <1>4, <2>1, <2>2
  <2>3. CASE K \cap (1..n) # {}
    <3>1. PICK m \in K \cap (1..n) : \A j \in K \cap (1..n) : j <= m
      BY Zenon, <1>1, <2>3, GreatestIndex
    <3> QED  BY <1>1, <2>1, <3>1
  <2> QED  BY Zenon, <2>2, <2>3
<1>6. k \in 0..n /\ cost(k) <= d /\ \A j \in 0..n : cost(j) <= d => j <= k
  <2>1. \E m \in 0..n : cost(m) <= d /\ \A j \in 0..n : cost(j) <= d => j <= m
    BY Zenon, <1>5
  <2> HIDE DEF cost
  <2> QED  BY Zenon, <2>1 DEF Affordable, cost
<1> DEFINE a == SubSeq(q, 1, k)
           b == SubSeq(q, k + 1, n)
<1> HIDE DEF k
<1>7. /\ a \in Seq(Sized) /\ b \in Seq(Sized) /\ q = a \o b /\ Len(b) = n - k
      /\ \A j \in 1..(n - k) : b[j] = q[k + j]
  BY <1>6, SplitAt
<1>8. ASSUME b # <<>> PROVE d - Spent(a) < Cost(b[1])
  <2>1. k + 1 \in 1..n /\ k \in Nat /\ k + 1 \in 0..n
    <3>1. Len(b) # 0
      BY <1>7, <1>8
    <3> QED  BY <1>1, <1>6, <1>7, <3>1
  <2> DEFINE c == SubSeq(q, 1, k + 1)
             e == q[k + 1]
  <2>2. e \in Sized /\ <<e>> \in Seq(Frame) /\ <<e>> \in Seq(Sized)
    BY <1>1, <2>1
  <2>3. c \in Seq(Sized) /\ Len(c) = k + 1 /\ \A i \in 1..(k + 1) : c[i] = q[i]
    BY Zenon, <1>2, <2>1
  <2>4. Len(a) = k /\ \A i \in 1..k : a[i] = q[i]
    BY Zenon, <1>2, <1>6
  <2>5. Len(<<e>>) = 1 /\ <<e>>[1] = e
    BY Zenon
  <2> HIDE DEF c, a
  <2>6. c = a \o <<e>>
    <3>1. /\ Len(c) = Len(a) + Len(<<e>>)
          /\ \A i \in 1..Len(a) : c[i] = a[i]
          /\ \A i \in 1..Len(<<e>>) : c[Len(a) + i] = <<e>>[i]
      BY <2>1, <2>3, <2>4, <2>5
    <3> HIDE DEF e
    <3> QED  BY Zenon, <1>7, <2>2, <2>3, <3>1, ConcatIs
  <2>7. a \in Seq(Frame)
    BY Zenon, <1>2, <1>6 DEF a
  <2>8. Spent(c) = Spent(a) + Spent(<<e>>)
    BY Zenon, <2>2, <2>6, <2>7, SpentConcat
  <2>9. Spent(<<e>>) = Cost(e)
    <3>1. Cost(e) \in Int /\ Costs(<<e>>) = <<Cost(e)>>
      BY <1>1, <2>2, CostBounds DEF Costs
    <3>2. Total(<<Cost(e)>>) = Cost(e)
      BY Zenon, <3>1, TotalOne
    <3> QED  BY Zenon, <3>1, <3>2 DEF Spent, Costs
  <2>10. ~(Spent(c) <= d)
    BY <1>6, <2>1 DEF c
  <2>11. Cost(e) \in Nat /\ Spent(a) \in Nat
    BY Zenon, <1>1, <2>2, <2>7, CostBounds, SpentNat
  <2>12. b[1] = e
    <3>1. 1 \in 1..(n - k)
      BY <1>1, <1>6, <2>1
    <3> HIDE DEF b
    <3> QED  BY Zenon, <1>7, <3>1
  <2> HIDE DEF e, b
  <2> QED  BY <2>8, <2>9, <2>10, <2>11, <2>12
<1>9. Spent(a) \in Nat /\ Spent(a) <= d
  BY Zenon, <1>3, <1>6
<1> QED  BY Zenon, <1>7, <1>8, <1>9 DEF k

\* The types of a drain's state: frames are sorted by stream and fit a record.
DrrTyped(st) ==
    /\ st.active \in Seq(StreamIds)
    /\ st.queue \in [StreamIds -> Seq(Sized)]
    /\ st.deficit \in [StreamIds -> Nat]
    /\ st.out \in Seq(Sized)
    /\ \A i \in StreamIds : \A k \in 1..Len(st.queue[i]) : st.queue[i][k] \in Own(i)

\* The active list has each stream with frames left once.
Listed(st) ==
    /\ \A k, l \in 1..Len(st.active) : st.active[k] = st.active[l] => k = l
    /\ \A i \in StreamIds : st.queue[i] # <<>> <=> \E k \in 1..Len(st.active) : st.active[k] = i

\* What is kept for a stream's next turn does not pay for its next frame.
Frugal(st) == \A i \in StreamIds : st.queue[i] # <<>> => st.deficit[i] < Cost(st.queue[i][1])

\* What has gone out and what is queued make up what there was.
Whole(st, frames) ==
    \A i \in StreamIds : OfStream(st.out, i) \o st.queue[i] = OfStream(frames, i)

\* nx is st after a turn of sid that sent a and left b.
TurnIs(st, nx, sid, a, b) ==
    /\ st.active # <<>> /\ sid = Head(st.active)
    /\ st.queue[sid] = a \o b
    /\ nx.active = Tail(st.active) \o (IF b = <<>> THEN <<>> ELSE <<sid>>)
    /\ nx.queue = [st.queue EXCEPT ![sid] = b]
    /\ nx.deficit = [st.deficit EXCEPT ![sid] =
                        IF b = <<>> THEN 0 ELSE (st.deficit[sid] + Quantum) - Spent(a)]
    /\ nx.out = st.out \o a
    /\ Spent(a) \in Nat /\ Spent(a) <= st.deficit[sid] + Quantum
    /\ b # <<>> => (st.deficit[sid] + Quantum) - Spent(a) < Cost(b[1])

\* Served is such a turn of the stream at the head of the list.
LEMMA ServedIsTurn ==
    ASSUME NEW st, DrrTyped(st), st.active # <<>>
    PROVE  \E sid \in StreamIds : \E a, b \in Seq(Sized) : TurnIs(st, Served(st), sid, a, b)
<1> DEFINE sid == Head(st.active)
           q == st.queue[sid]
           d == st.deficit[sid] + Quantum
<1>1. sid \in StreamIds
  BY DEF DrrTyped
<1>2. q \in Seq(Sized) /\ d \in Nat
  BY <1>1, QuantumAssumption DEF DrrTyped
<1>3. PICK a, b \in Seq(Sized) :
              /\ a = SubSeq(q, 1, Affordable(q, d))
              /\ b = SubSeq(q, Affordable(q, d) + 1, Len(q))
              /\ q = a \o b
              /\ Spent(a) \in Nat /\ Spent(a) <= d
              /\ b # <<>> => d - Spent(a) < Cost(b[1])
  BY Zenon, <1>2, TurnSplits
<1> DEFINE act == Tail(st.active) \o (IF b = <<>> THEN <<>> ELSE <<sid>>)
           que == [st.queue EXCEPT ![sid] = b]
           def == [st.deficit EXCEPT ![sid] = IF b = <<>> THEN 0 ELSE d - Spent(a)]
           o == st.out \o a
<1>4. Served(st) = [active |-> act, queue |-> que, deficit |-> def, out |-> o]
  BY <1>3, Zenon DEF Served
<1> HIDE DEF act, que, def, o
<1>5. /\ Served(st).active = act /\ Served(st).queue = que
      /\ Served(st).deficit = def /\ Served(st).out = o
  BY <1>4
<1>6. TurnIs(st, Served(st), sid, a, b)
  BY <1>3, <1>5, Zenon DEF TurnIs, act, que, def, o
<1> QED  BY Zenon, <1>1, <1>6

\* The head of s goes to the end of t, or away.
Moved(s, t, sid, b) ==
    /\ Len(s) \in Nat /\ Len(s) > 0 /\ s[1] = sid
    /\ Len(t) = IF b = <<>> THEN Len(s) - 1 ELSE Len(s)
    /\ \A k \in 1..(Len(s) - 1) : t[k] = s[k + 1]
    /\ b # <<>> => t[Len(s)] = sid

\* How a turn changes the list.
LEMMA TurnList ==
    ASSUME NEW st, NEW nx, NEW sid \in StreamIds, NEW a, NEW b, DrrTyped(st),
           TurnIs(st, nx, sid, a, b)
    PROVE  nx.active \in Seq(StreamIds) /\ Moved(st.active, nx.active, sid, b)
<1> DEFINE s == st.active
           t == Tail(s)
           n == Len(s)
<1>1. s \in Seq(StreamIds) /\ s # <<>> /\ sid = Head(s)
  BY Zenon DEF DrrTyped, TurnIs
<1>2. nx.active = t \o (IF b = <<>> THEN <<>> ELSE <<sid>>)
  BY Zenon DEF TurnIs
<1> HIDE DEF s
<1>3. /\ n \in Nat /\ n > 0 /\ s[1] = sid
      /\ t \in Seq(StreamIds) /\ Len(t) = n - 1
      /\ \A k \in 1..(n - 1) : t[k] = s[k + 1]
  BY <1>1
<1> HIDE DEF t
<1>4. CASE b = <<>>
  <2>1. nx.active = t
    BY <1>2, <1>3, <1>4
  <2> QED  BY Zenon, <1>3, <1>4, <2>1 DEF s, Moved
<1>5. CASE b # <<>>
  <2> DEFINE w == Append(t, sid)
  <2>1. nx.active = w
    BY <1>2, <1>3, <1>5
  <2>2. w \in Seq(StreamIds) /\ Len(w) = n /\ w[n] = sid /\ \A k \in 1..(n - 1) : w[k] = t[k]
    BY <1>3
  <2> HIDE DEF w
  <2> QED  BY Zenon, <1>3, <1>5, <2>1, <2>2 DEF s, Moved
<1> QED  BY Zenon, <1>4, <1>5

\* The frames of one stream among sequences of that stream's frames or others'.
LEMMA OfStreamOwn ==
    ASSUME NEW S, NEW f \in Seq(S), NEW i
    PROVE  /\ OfStream(f, i) \in Seq(S)
           /\ (\A k \in 1..Len(f) : f[k] \in Own(i)) => OfStream(f, i) = f
           /\ (\A k \in 1..Len(f) : f[k] \notin Own(i)) => OfStream(f, i) = <<>>
<1>1. OfStream(f, i) = Filter(f, Own(i))
  BY Zenon DEF OfStream, Own
<1> QED  BY <1>1, FilterEmbeds, FilterAll, FilterNone

LEMMA OfStreamConcat ==
    ASSUME NEW S, NEW f \in Seq(S), NEW g \in Seq(S), NEW i
    PROVE  OfStream(f \o g, i) = OfStream(f, i) \o OfStream(g, i)
<1>1. \A h : OfStream(h, i) = Filter(h, Own(i))
  BY Zenon DEF OfStream, Own
<1>2. Filter(f \o g, Own(i)) = Filter(f, Own(i)) \o Filter(g, Own(i))
  BY FilterConcat
<1>3. /\ OfStream(f \o g, i) = Filter(f \o g, Own(i))
      /\ OfStream(f, i) = Filter(f, Own(i)) /\ OfStream(g, i) = Filter(g, Own(i))
  BY <1>1, Zenon
<1> QED  BY <1>2, <1>3, Zenon

\* Both pieces of a turn are frames of its stream.
LEMMA TurnPieces ==
    ASSUME NEW st, NEW nx, NEW sid \in StreamIds, NEW a \in Seq(Sized), NEW b \in Seq(Sized),
           DrrTyped(st), TurnIs(st, nx, sid, a, b)
    PROVE  /\ \A k \in 1..Len(a) : a[k] \in Own(sid)
           /\ \A k \in 1..Len(b) : b[k] \in Own(sid)
           /\ st.queue[sid] # <<>> <=> (a # <<>> \/ b # <<>>)
<1> DEFINE q == a \o b
<1>1. q = st.queue[sid] /\ \A k \in 1..Len(st.queue[sid]) : st.queue[sid][k] \in Own(sid)
  BY Zenon DEF DrrTyped, TurnIs
<1>2. /\ Len(q) = Len(a) + Len(b) /\ Len(a) \in Nat /\ Len(b) \in Nat
      /\ \A k \in 1..Len(a) : q[k] = a[k]
      /\ \A k \in 1..Len(b) : q[Len(a) + k] = b[k]
  OBVIOUS
<1>3. q \in Seq(Sized)
  OBVIOUS
<1> HIDE DEF q
<1>4. \A k \in 1..Len(q) : q[k] \in Own(sid)
  BY Zenon, <1>1
<1>5. \A k \in 1..Len(b) : Len(a) + k \in 1..Len(q)
  BY <1>2
<1>6. \A k \in 1..Len(a) : k \in 1..Len(q)
  BY <1>2
<1>7. q # <<>> <=> (a # <<>> \/ b # <<>>)
  <2>1. (q = <<>> <=> Len(q) = 0) /\ (a = <<>> <=> Len(a) = 0) /\ (b = <<>> <=> Len(b) = 0)
    BY <1>3
  <2> QED  BY <1>2, <2>1
<1> QED  BY Zenon, <1>1, <1>2, <1>4, <1>5, <1>6, <1>7

\* What a turn sends of each stream.
LEMMA TurnSends ==
    ASSUME NEW st, NEW nx, NEW sid \in StreamIds, NEW a \in Seq(Sized), NEW b \in Seq(Sized),
           DrrTyped(st), TurnIs(st, nx, sid, a, b), NEW i \in StreamIds
    PROVE  /\ OfStream(st.out, i) \in Seq(Sized)
           /\ OfStream(nx.out, i) =
                IF i = sid THEN OfStream(st.out, i) \o a ELSE OfStream(st.out, i)
<1> DEFINE o == st.out
           f == OfStream(o, i)
<1>1. o \in Seq(Sized) /\ nx.out = o \o a
  BY Zenon DEF DrrTyped, TurnIs
<1> HIDE DEF o
<1>2. OfStream(o \o a, i) = f \o OfStream(a, i)
  BY <1>1, OfStreamConcat
<1>3. f \in Seq(Sized)
  BY Zenon, <1>1, OfStreamOwn
<1>4. CASE i = sid
  <2>1. \A k \in 1..Len(a) : a[k] \in Own(i)
    BY Zenon, <1>4, TurnPieces
  <2>2. OfStream(a, i) = a
    BY Zenon, <2>1, OfStreamOwn
  <2> QED  BY Zenon, <1>1, <1>2, <1>3, <1>4, <2>2 DEF o
<1>5. CASE i # sid
  <2>1. \A k \in 1..Len(a) : a[k] \notin Own(i)
    BY <1>5, TurnPieces DEF Own
  <2>2. OfStream(a, i) = <<>>
    BY Zenon, <2>1, OfStreamOwn
  <2> HIDE DEF f
  <2>3. f \o <<>> = f
    BY <1>3
  <2> QED  BY Zenon, <1>1, <1>2, <1>3, <1>5, <2>2, <2>3 DEF o, f
<1> QED  BY Zenon, <1>4, <1>5

\* A turn keeps what is known of a drain.
LEMMA TurnTyped ==
    ASSUME NEW st, NEW nx, NEW sid \in StreamIds, NEW a \in Seq(Sized), NEW b \in Seq(Sized),
           DrrTyped(st), TurnIs(st, nx, sid, a, b)
    PROVE  DrrTyped(nx)
<1>1. nx.active \in Seq(StreamIds)
  BY Zenon, TurnList
<1>2. nx.queue \in [StreamIds -> Seq(Sized)]
      /\ \A i \in StreamIds : nx.queue[i] = IF i = sid THEN b ELSE st.queue[i]
  <2>1. st.queue \in [StreamIds -> Seq(Sized)] /\ nx.queue = [st.queue EXCEPT ![sid] = b]
    BY Zenon DEF DrrTyped, TurnIs
  <2> QED  BY Zenon, <2>1
<1>3. nx.out \in Seq(Sized)
  BY DEF DrrTyped, TurnIs
<1>4. nx.deficit \in [StreamIds -> Nat]
  <2> DEFINE v == IF b = <<>> THEN 0 ELSE (st.deficit[sid] + Quantum) - Spent(a)
  <2>1. st.deficit \in [StreamIds -> Nat] /\ nx.deficit = [st.deficit EXCEPT ![sid] = v]
    BY Zenon DEF DrrTyped, TurnIs
  <2>2. v \in Nat
    BY <2>1, QuantumAssumption DEF TurnIs
  <2> HIDE DEF v
  <2> QED  BY Zenon, <2>1, <2>2
<1>5. \A i \in StreamIds : \A k \in 1..Len(nx.queue[i]) : nx.queue[i][k] \in Own(i)
  <2> SUFFICES ASSUME NEW i \in StreamIds
               PROVE  \A k \in 1..Len(nx.queue[i]) : nx.queue[i][k] \in Own(i)
    BY Zenon
  <2>1. CASE i = sid
    BY <1>2, <2>1, TurnPieces
  <2>2. CASE i # sid
    BY Zenon, <1>2, <2>2 DEF DrrTyped
  <2> QED  BY Zenon, <2>1, <2>2
<1> QED  BY Zenon, <1>1, <1>2, <1>3, <1>4, <1>5 DEF DrrTyped

LEMMA TurnListed ==
    ASSUME NEW st, NEW nx, NEW sid \in StreamIds, NEW a \in Seq(Sized), NEW b \in Seq(Sized),
           DrrTyped(st), Listed(st), TurnIs(st, nx, sid, a, b)
    PROVE  Listed(nx)
<1> DEFINE s == st.active
           t == nx.active
           n == Len(s)
<1>1. /\ n \in Nat /\ n > 0 /\ s[1] = sid
      /\ Len(t) = IF b = <<>> THEN n - 1 ELSE n
      /\ \A k \in 1..(n - 1) : t[k] = s[k + 1]
      /\ b # <<>> => t[n] = sid
  <2>1. Moved(s, t, sid, b)
    BY Zenon, TurnList
  <2> QED  BY Zenon, <2>1 DEF Moved
<1>2. \A i \in StreamIds : nx.queue[i] = IF i = sid THEN b ELSE st.queue[i]
  BY Zenon DEF DrrTyped, TurnIs
<1>3. /\ \A k, l \in 1..n : s[k] = s[l] => k = l
      /\ \A i \in StreamIds : st.queue[i] # <<>> <=> \E k \in 1..n : s[k] = i
  BY Zenon DEF Listed
<1> HIDE DEF s, t, n
<1>4. ASSUME NEW k \in 1..(n - 1) PROVE s[k + 1] # sid
  <2>1. k + 1 \in 1..n /\ 1 \in 1..n /\ k + 1 # 1
    BY <1>1
  <2> QED  BY Zenon, <1>1, <1>3, <2>1
<1>5. \A k, l \in 1..Len(t) : t[k] = t[l] => k = l
  <2> SUFFICES ASSUME NEW k \in 1..Len(t), NEW l \in 1..Len(t), t[k] = t[l] PROVE k = l
    BY Zenon
  <2>1. CASE k \in 1..(n - 1) /\ l \in 1..(n - 1)
    <3>1. k + 1 \in 1..n /\ l + 1 \in 1..n
      BY <1>1, <2>1
    <3>2. s[k + 1] = s[l + 1]
      BY Zenon, <1>1, <2>1
    <3>3. k + 1 = l + 1
      BY Zenon, <1>3, <3>1, <3>2
    <3> QED  BY <2>1, <3>3
  <2>2. CASE k \notin 1..(n - 1) \/ l \notin 1..(n - 1)
    <3>1. b # <<>> /\ (k = n \/ l = n)
      BY <1>1, <2>2
    <3>2. t[k] = sid /\ t[l] = sid
      BY Zenon, <1>1, <3>1
    <3>3. \A x \in 1..(n - 1) : t[x] # sid
      BY Zenon, <1>1, <1>4
    <3> QED  BY <1>1, <3>1, <3>2, <3>3
  <2> QED  BY Zenon, <2>1, <2>2
<1>6. ASSUME NEW i \in StreamIds
      PROVE  nx.queue[i] # <<>> <=> \E k \in 1..Len(t) : t[k] = i
  <2>1. CASE i = sid
    <3>1. nx.queue[i] = b
      BY Zenon, <1>2, <2>1
    <3>2. CASE b = <<>>
      BY <1>1, <1>4, <2>1, <3>1, <3>2
    <3>3. CASE b # <<>>
      BY <1>1, <2>1, <3>1, <3>3
    <3> QED  BY Zenon, <3>2, <3>3
  <2>2. CASE i # sid
    <3>1. nx.queue[i] = st.queue[i]
      BY Zenon, <1>2, <2>2
    <3>2. ASSUME NEW k \in 1..n, s[k] = i PROVE \E l \in 1..Len(t) : t[l] = i
      <4>1. k # 1 /\ k - 1 \in 1..(n - 1) /\ (k - 1) + 1 = k
        BY <1>1, <2>2, <3>2
      <4>2. t[k - 1] = i /\ k - 1 \in 1..Len(t)
        BY <1>1, <3>2, <4>1
      <4> QED  BY Zenon, <4>2
    <3>3. ASSUME NEW l \in 1..Len(t), t[l] = i PROVE \E k \in 1..n : s[k] = i
      <4>1. l \in 1..(n - 1)
        BY <1>1, <2>2, <3>3
      <4> QED  BY <1>1, <3>3, <4>1
    <3> QED  BY Zenon, <1>3, <3>1, <3>2, <3>3
  <2> QED  BY Zenon, <2>1, <2>2
<1> QED  BY Zenon, <1>5, <1>6 DEF Listed, t

LEMMA TurnFrugal ==
    ASSUME NEW st, NEW nx, NEW sid \in StreamIds, NEW a \in Seq(Sized), NEW b \in Seq(Sized),
           DrrTyped(st), Frugal(st), TurnIs(st, nx, sid, a, b)
    PROVE  Frugal(nx)
<1>1. \A i \in StreamIds : nx.queue[i] = IF i = sid THEN b ELSE st.queue[i]
  BY Zenon DEF DrrTyped, TurnIs
<1>2. /\ b # <<>> => nx.deficit[sid] < Cost(b[1])
      /\ \A i \in StreamIds : i # sid => nx.deficit[i] = st.deficit[i]
  BY Zenon DEF DrrTyped, TurnIs
<1> QED  BY Zenon, <1>1, <1>2 DEF Frugal

LEMMA TurnWhole ==
    ASSUME NEW st, NEW nx, NEW sid \in StreamIds, NEW a \in Seq(Sized), NEW b \in Seq(Sized),
           NEW frames, DrrTyped(st), Whole(st, frames), TurnIs(st, nx, sid, a, b)
    PROVE  Whole(nx, frames)
<1> SUFFICES ASSUME NEW i \in StreamIds
             PROVE  OfStream(nx.out, i) \o nx.queue[i] = OfStream(frames, i)
  BY Zenon DEF Whole
<1> DEFINE f == OfStream(st.out, i)
<1>1. nx.queue[i] = IF i = sid THEN b ELSE st.queue[i]
  BY Zenon DEF DrrTyped, TurnIs
<1>2. f \in Seq(Sized) /\ OfStream(nx.out, i) = IF i = sid THEN f \o a ELSE f
  BY TurnSends
<1>3. f \o st.queue[i] = OfStream(frames, i)
  BY Zenon DEF Whole
<1>4. st.queue[sid] = a \o b
  BY Zenon DEF TurnIs
<1> HIDE DEF f
<1>5. CASE i = sid
  <2>1. (f \o a) \o b = f \o (a \o b)
    BY <1>2
  <2> QED  BY <1>1, <1>2, <1>3, <1>4, <1>5, <2>1, Zenon
<1>6. CASE i # sid
  BY <1>1, <1>2, <1>3, <1>6, Zenon
<1> QED  BY Zenon, <1>5, <1>6

\* What a stream's turns have brought it: spent, or kept for the next one.
Earned(st, i) == Spent(OfStream(st.out, i)) + st.deficit[i]

\* One quantum a turn.
LEMMA TurnEarns ==
    ASSUME NEW st, NEW nx, NEW sid \in StreamIds, NEW a \in Seq(Sized), NEW b \in Seq(Sized),
           DrrTyped(st), TurnIs(st, nx, sid, a, b)
    PROVE  /\ \A i \in StreamIds : i # sid => Earned(nx, i) = Earned(st, i)
           /\ b # <<>> => Earned(nx, sid) = Earned(st, sid) + Quantum
<1>1. \A i \in StreamIds : i # sid => nx.deficit[i] = st.deficit[i]
  BY Zenon DEF DrrTyped, TurnIs
<1>2. \A i \in StreamIds : i # sid => OfStream(nx.out, i) = OfStream(st.out, i)
  BY TurnSends
<1> DEFINE f == OfStream(st.out, sid)
<1>3. f \in Seq(Sized) /\ OfStream(nx.out, sid) = f \o a
  <2>1. \A i \in StreamIds :
           /\ OfStream(st.out, i) \in Seq(Sized)
           /\ OfStream(nx.out, i) =
                IF i = sid THEN OfStream(st.out, i) \o a ELSE OfStream(st.out, i)
    BY TurnSends
  <2> QED  BY <2>1, Zenon
<1>4. f \in Seq(Frame) /\ a \in Seq(Frame)
  <2>1. \A fr \in Sized : fr \in Frame
    BY Zenon DEF Sized
  <2> HIDE DEF f
  <2> QED  BY <1>3, <2>1
<1>5. Spent(f) \in Nat /\ Spent(a) \in Nat /\ Spent(f \o a) = Spent(f) + Spent(a)
  BY Zenon, <1>4, SpentNat, SpentConcat
<1>6. ASSUME b # <<>> PROVE nx.deficit[sid] = (st.deficit[sid] + Quantum) - Spent(a)
  BY Zenon, <1>6 DEF DrrTyped, TurnIs
<1>7. st.deficit[sid] \in Nat /\ Quantum \in Nat
  BY Zenon, QuantumAssumption DEF DrrTyped
<1>8. ASSUME b # <<>> PROVE Earned(nx, sid) = Earned(st, sid) + Quantum
  <2>1. Earned(nx, sid) = (Spent(f) + Spent(a)) + ((st.deficit[sid] + Quantum) - Spent(a))
    BY Zenon, <1>3, <1>5, <1>6, <1>8 DEF Earned
  <2>2. Earned(st, sid) = Spent(f) + st.deficit[sid]
    BY Zenon DEF Earned
  <2> HIDE DEF f
  <2> QED  BY <1>5, <1>7, <2>1, <2>2
<1> QED  BY Zenon, <1>1, <1>2, <1>8 DEF Earned

\* The turns go round: the first m of the list are one turn behind the others.
InRound(st, T, m) ==
    \A k \in 1..Len(st.active) :
        Earned(st, st.active[k]) = IF k <= m THEN T ELSE T + Quantum
Rounds(st) == \E T \in Nat, m \in 0..Len(st.active) : InRound(st, T, m)

LEMMA TurnRounds ==
    ASSUME NEW st, NEW nx, NEW sid \in StreamIds, NEW a \in Seq(Sized), NEW b \in Seq(Sized),
           DrrTyped(st), Listed(st), Rounds(st), TurnIs(st, nx, sid, a, b)
    PROVE  Rounds(nx)
<1> DEFINE s == st.active
           t == nx.active
           n == Len(s)
<1>1. /\ n \in Nat /\ n > 0 /\ s[1] = sid
      /\ Len(t) = IF b = <<>> THEN n - 1 ELSE n
      /\ \A k \in 1..(n - 1) : t[k] = s[k + 1]
      /\ b # <<>> => t[n] = sid
  <2>1. Moved(s, t, sid, b)
    BY Zenon, TurnList
  <2> QED  BY Zenon, <2>1 DEF Moved
<1>2. \A k \in 1..n : s[k] \in StreamIds
  BY DEF DrrTyped
<1>3. \A k, l \in 1..n : s[k] = s[l] => k = l
  BY Zenon DEF Listed
<1>4. PICK T \in Nat, m \in 1..n : \A k \in 1..n : Earned(st, s[k]) = IF k <= m THEN T ELSE T + Quantum
  <2>1. PICK T \in Nat, m \in 0..n : \A k \in 1..n : Earned(st, s[k]) = IF k <= m THEN T ELSE T + Quantum
    BY Zenon DEF Rounds, InRound
  <2>2. CASE m = 0
    <3> DEFINE U == T + Quantum
    <3>1. U \in Nat /\ n \in 1..n
      BY <1>1, QuantumAssumption
    <3>2. \A k \in 1..n : Earned(st, s[k]) = U /\ k <= n
      BY <1>1, <2>1, <2>2
    <3> HIDE DEF U
    <3>3. \A k \in 1..n : Earned(st, s[k]) = IF k <= n THEN U ELSE U + Quantum
      BY Zenon, <3>2
    <3> QED  BY Zenon, <3>1, <3>3
  <2>3. CASE m # 0
    <3>1. m \in 1..n
      BY <1>1, <2>3
    <3> QED  BY Zenon, <2>1, <3>1
  <2> QED  BY Zenon, <2>2, <2>3
<1>5. /\ \A i \in StreamIds : i # sid => Earned(nx, i) = Earned(st, i)
      /\ b # <<>> => Earned(nx, sid) = Earned(st, sid) + Quantum
  BY TurnEarns
<1> HIDE DEF s, t
<1>6. Earned(st, sid) = T
  BY <1>1, <1>4
<1>7. m - 1 \in 0..Len(t)
  BY <1>1
<1>8. ASSUME NEW k \in 1..Len(t)
      PROVE  Earned(nx, t[k]) = IF k <= m - 1 THEN T ELSE T + Quantum
  <2>1. CASE k \in 1..(n - 1)
    <3>1. t[k] = s[k + 1] /\ k + 1 \in 1..n /\ k + 1 # 1 /\ (k <= m - 1 <=> k + 1 <= m)
      BY <1>1, <2>1
    <3>2. s[k + 1] # sid /\ s[k + 1] \in StreamIds
      BY <1>1, <1>2, <1>3, <3>1
    <3>3. Earned(nx, t[k]) = Earned(st, s[k + 1])
      BY Zenon, <1>5, <3>1, <3>2
    <3> QED  BY Zenon, <1>4, <3>1, <3>3
  <2>2. CASE k \notin 1..(n - 1)
    <3>1. b # <<>> /\ k = n /\ ~(k <= m - 1)
      BY <1>1, <2>2
    <3>2. t[k] = sid
      BY Zenon, <1>1, <3>1
    <3> QED  BY Zenon, <1>5, <1>6, <3>1, <3>2
  <2> QED  BY Zenon, <2>1, <2>2
<1>9. InRound(nx, T, m - 1)
  BY Zenon, <1>8 DEF InRound, t
<1> QED  BY Zenon, <1>7, <1>9 DEF Rounds, t

\* Every turn keeps all of it.
Drains(st, frames) ==
    DrrTyped(st) /\ Listed(st) /\ Frugal(st) /\ Whole(st, frames) /\ Rounds(st)

LEMMA ServedKeeps ==
    ASSUME NEW st, NEW frames, Drains(st, frames), st.active # <<>>
    PROVE  Drains(Served(st), frames)
<1>1. PICK sid \in StreamIds : \E a, b \in Seq(Sized) : TurnIs(st, Served(st), sid, a, b)
  BY Zenon, ServedIsTurn DEF Drains
<1>2. PICK a, b \in Seq(Sized) : TurnIs(st, Served(st), sid, a, b)
  BY Zenon, <1>1
<1> DEFINE nx == Served(st)
<1>3. TurnIs(st, nx, sid, a, b)
  BY Zenon, <1>2
<1> HIDE DEF nx
<1>4. DrrTyped(nx) /\ Listed(nx)
  BY Zenon, <1>3, TurnTyped, TurnListed DEF Drains
<1>5. Frugal(nx) /\ Rounds(nx)
  BY Zenon, <1>3, TurnFrugal, TurnRounds DEF Drains
<1>6. Whole(nx, frames)
  BY Zenon, <1>3, TurnWhole DEF Drains
<1> QED  BY Zenon, <1>4, <1>5, <1>6 DEF Drains, nx

\* The streams of frames, each once and none forgotten.
LEMMA OrderLists ==
    ASSUME NEW frames \in Seq(Sized)
    PROVE  /\ Order(frames) \in Seq(StreamIds)
           /\ \A k, l \in 1..Len(Order(frames)) : Order(frames)[k] = Order(frames)[l] => k = l
           /\ \A i \in StreamIds : (\E j \in 1..Len(frames) : frames[j].id = i)
                  <=> \E k \in 1..Len(Order(frames)) : Order(frames)[k] = i
<1> DEFINE n == Len(frames)
           places == [k \in 1..n |-> k]
           First == {k \in 1..n : \A j \in 1..(k - 1) : frames[j].id # frames[k].id}
           firsts == Filter(places, First)
           order == [m \in 1..Len(firsts) |-> frames[firsts[m]].id]
<1>1. n \in Nat /\ DOMAIN frames = 1..n /\ \A k \in 1..n : frames[k].id \in StreamIds
  BY DEF Sized, Frame
<1>2. places \in Seq(1..n) /\ Len(places) = n /\ \A k \in 1..n : places[k] = k
  <2>1. places \in [1..n -> 1..n]
    BY Zenon
  <2> QED  BY <1>1, <2>1, SeqOfFunction
<1>3. firsts \in Seq(1..n) /\ \E p : Embeds(p, firsts, places, First)
  <2> HIDE DEF places, First
  <2> QED  BY Zenon, <1>2, FilterEmbeds
<1>4. PICK p : Embeds(p, firsts, places, First)
  BY Zenon, <1>3
<1> HIDE DEF firsts, places
<1>5. Len(firsts) \in Nat /\ DOMAIN firsts = 1..Len(firsts)
  BY <1>3
<1>6. Order(frames) = order
  <2>1. Order(frames) = [m \in DOMAIN firsts |-> frames[firsts[m]].id]
    BY <1>1, Zenon DEF Order, firsts, places
  <2> QED  BY Zenon, <1>5, <2>1
<1>7. \A m \in 1..Len(firsts) : firsts[m] = p[m] /\ firsts[m] \in First /\ p[m] \in 1..n
  BY Zenon, <1>2, <1>4 DEF Embeds
<1>8. \A m, l \in 1..Len(firsts) : m < l => firsts[m] < firsts[l]
  BY Zenon, <1>4, <1>7 DEF Embeds
<1>9. \A k \in First : \E m \in 1..Len(firsts) : firsts[m] = k
  <2> SUFFICES ASSUME NEW k \in First PROVE \E m \in 1..Len(firsts) : firsts[m] = k
    BY Zenon
  <2>1. k \in 1..n
    BY Zenon
  <2> HIDE DEF First
  <2>2. k \in 1..Len(places) /\ places[k] \in First
    BY Zenon, <1>2, <2>1
  <2>3. PICK m \in 1..Len(firsts) : p[m] = k
    BY Zenon, <1>4, <2>2 DEF Embeds
  <2> QED  BY Zenon, <1>7, <2>3
<1>10. order \in Seq(StreamIds) /\ Len(order) = Len(firsts)
       /\ \A m \in 1..Len(firsts) : order[m] = frames[firsts[m]].id
  <2>1. order \in [1..Len(firsts) -> StreamIds]
    BY Zenon, <1>1, <1>7
  <2>2. \A m \in 1..Len(firsts) : order[m] = frames[firsts[m]].id
    BY Zenon
  <2> HIDE DEF order
  <2> QED  BY Zenon, <1>5, <2>1, <2>2, SeqOfFunction
<1> HIDE DEF order
<1>11. ASSUME NEW k \in 1..Len(firsts), NEW l \in 1..Len(firsts), k < l
       PROVE  order[k] # order[l]
  <2>1. firsts[k] \in 1..(firsts[l] - 1) /\ firsts[l] \in First
    BY <1>1, <1>7, <1>8, <1>11
  <2>2. frames[firsts[k]].id # frames[firsts[l]].id
    BY Zenon, <2>1
  <2> QED  BY Zenon, <1>10, <2>2
<1>12. \A k, l \in 1..Len(order) : order[k] = order[l] => k = l
  <2> SUFFICES ASSUME NEW k \in 1..Len(order), NEW l \in 1..Len(order), k # l
               PROVE  order[k] # order[l]
    BY Zenon
  <2>1. k < l \/ l < k
    BY <1>5, <1>10
  <2> QED  BY Zenon, <1>10, <1>11, <2>1
<1>13. ASSUME NEW i \in StreamIds, NEW j \in 1..n, frames[j].id = i
       PROVE  \E k \in 1..Len(order) : order[k] = i
  <2> DEFINE J == {x \in 1..n : frames[x].id = i}
  <2>1. J \in SUBSET Nat /\ j \in J
    BY <1>1, <1>13
  <2>2. PICK x \in J : \A y \in J : x <= y
    BY Zenon, <2>1, LeastNumber
  <2>3. x \in First
    BY <1>1, <2>2
  <2>4. PICK m \in 1..Len(firsts) : firsts[m] = x
    BY Zenon, <1>9, <2>3
  <2> QED  BY Zenon, <1>10, <2>2, <2>4
<1>14. ASSUME NEW i \in StreamIds, NEW k \in 1..Len(order), order[k] = i
       PROVE  \E j \in 1..n : frames[j].id = i
  BY Zenon, <1>7, <1>10, <1>14
<1> QED  BY Zenon, <1>6, <1>10, <1>12, <1>13, <1>14

\* A drain starts with everything queued and nothing earned.
LEMMA StartDrains ==
    ASSUME NEW frames \in Seq(Sized)
    PROVE  Drains(DrrStart(frames), frames)
<1> DEFINE st == DrrStart(frames)
           q(i) == OfStream(frames, i)
<1>1. /\ st.active = Order(frames) /\ st.queue = [i \in StreamIds |-> q(i)]
      /\ st.deficit = [i \in StreamIds |-> 0] /\ st.out = <<>>
  BY Zenon DEF DrrStart
<1> HIDE DEF st
<1>2. \A i \in StreamIds : q(i) \in Seq(Sized) /\ \E p : Embeds(p, q(i), frames, Own(i))
  BY Zenon, FilterEmbeds DEF OfStream, Own
<1>3. \A i \in StreamIds : \A k \in 1..Len(q(i)) : q(i)[k] \in Own(i)
  BY Zenon, <1>2 DEF Embeds
<1>4. \A j \in 1..Len(frames) : frames[j] \in Sized /\ frames[j] \in Frame
  BY DEF Sized
<1>5. \A i \in StreamIds : q(i) # <<>> <=> \E j \in 1..Len(frames) : frames[j].id = i
  <2> SUFFICES ASSUME NEW i \in StreamIds
               PROVE  q(i) # <<>> <=> \E j \in 1..Len(frames) : frames[j].id = i
    BY Zenon
  <2>1. PICK p : Embeds(p, q(i), frames, Own(i))
    BY Zenon, <1>2
  <2>2. q(i) \in Seq(Sized) /\ (q(i) = <<>> <=> Len(q(i)) = 0) /\ Len(q(i)) \in Nat
    BY <1>2
  <2>3. \A j \in 1..Len(frames) : frames[j] \in Own(i) <=> frames[j].id = i
    BY Zenon, <1>4 DEF Own
  <2> HIDE DEF q
  <2>4. ASSUME q(i) # <<>> PROVE \E j \in 1..Len(frames) : frames[j].id = i
    <3>1. 1 \in 1..Len(q(i))
      BY <2>2, <2>4
    <3>2. p[1] \in 1..Len(frames) /\ frames[p[1]] \in Own(i)
      BY Zenon, <2>1, <3>1 DEF Embeds
    <3> QED  BY Zenon, <2>3, <3>2
  <2>5. ASSUME NEW j \in 1..Len(frames), frames[j].id = i PROVE q(i) # <<>>
    <3>1. PICK k \in 1..Len(q(i)) : p[k] = j
      BY Zenon, <2>1, <2>3, <2>5 DEF Embeds
    <3> QED  BY <2>2, <3>1
  <2> QED  BY Zenon, <2>4, <2>5
<1>6. DrrTyped(st)
  <2>1. st.queue \in [StreamIds -> Seq(Sized)] /\ \A i \in StreamIds : st.queue[i] = q(i)
    BY Zenon, <1>1, <1>2
  <2>2. st.active \in Seq(StreamIds) /\ st.deficit \in [StreamIds -> Nat] /\ st.out \in Seq(Sized)
    BY <1>1, OrderLists
  <2> HIDE DEF q
  <2> QED  BY Zenon, <1>3, <2>1, <2>2 DEF DrrTyped
<1>7. \A i \in StreamIds : st.queue[i] = q(i)
  BY Zenon, <1>1
<1> HIDE DEF q
<1>8. Listed(st)
  BY <1>1, <1>5, <1>7, OrderLists DEF Listed
<1>9. Frugal(st)
  <2> SUFFICES ASSUME NEW i \in StreamIds, q(i) # <<>> PROVE 0 < Cost(q(i)[1])
    BY Zenon, <1>1, <1>7 DEF Frugal
  <2>1. q(i) \in Seq(Sized)
    BY Zenon, <1>2
  <2>2. q(i)[1] \in Sized
    BY <2>1
  <2> QED  BY <2>2, CostBounds, MuxPolicyAssumption
<1>10. Whole(st, frames)
  <2> SUFFICES ASSUME NEW i \in StreamIds PROVE OfStream(<<>>, i) \o q(i) = OfStream(frames, i)
    BY Zenon, <1>1, <1>7 DEF Whole
  <2>1. OfStream(<<>>, i) = <<>>
    BY Zenon, FilterEmpty DEF OfStream
  <2>2. q(i) \in Seq(Sized)
    BY Zenon, <1>2
  <2>3. <<>> \o q(i) = q(i)
    BY <2>2
  <2> QED  BY Zenon, <2>1, <2>3 DEF q
<1>11. Rounds(st)
  <2>1. ASSUME NEW k \in 1..Len(st.active) PROVE Earned(st, st.active[k]) = 0
    <3>1. st.active[k] \in StreamIds
      BY <1>6 DEF DrrTyped
    <3>2. st.deficit[st.active[k]] = 0
      BY Zenon, <1>1, <3>1
    <3>3. OfStream(st.out, st.active[k]) = <<>>
      BY Zenon, <1>1, FilterEmpty DEF OfStream
    <3> QED  BY <3>2, <3>3, SpentEmpty DEF Earned
  <2>2. Len(st.active) \in Nat
    BY <1>6 DEF DrrTyped
  <2>3. InRound(st, 0, Len(st.active))
    BY <2>1, <2>2 DEF InRound
  <2> QED  BY <2>2, <2>3 DEF Rounds
<1> QED  BY Zenon, <1>6, <1>8, <1>9, <1>10, <1>11 DEF Drains, st

\* MuxDrain: the state of the loop is such a drain of its input.
DrainInv == Drains(drr, input)

LEMMA DrainInitInv == DrainInit => DrainInv
<1> SUFFICES ASSUME DrainInit PROVE DrainInv
  BY Zenon
<1>1. PICK n \in 0..MaxQueued : \E ids \in [1..n -> StreamIds], sizes \in [1..n -> Sizes] :
         input = Queued(ids, sizes)
  BY Zenon DEF DrainInit
<1>2. PICK ids \in [1..n -> StreamIds], sizes \in [1..n -> Sizes] : input = Queued(ids, sizes)
  BY Zenon, <1>1
<1>3. n \in Nat
  BY MaxQueuedAssumption
<1>4. ASSUME NEW k \in 1..n PROVE input[k] \in Sized
  <2> DEFINE b == [j \in 1..sizes[k] |-> k]
  <2>1. sizes[k] \in Nat /\ sizes[k] <= MaxBody /\ k \in Nat /\ ids[k] \in StreamIds
    BY <1>3, MuxPolicyAssumption DEF Sizes
  <2>2. b \in [1..sizes[k] -> Nat]
    BY Zenon, <2>1
  <2>3. b \in Seq(Nat) /\ Len(b) = sizes[k]
    BY <2>1, <2>2, SeqOfFunction
  <2>4. input[k] = [id |-> ids[k], cmd |-> "Data", body |-> b, delta |-> 0]
    BY Zenon, <1>2 DEF Queued
  <2> HIDE DEF b
  <2> QED  BY <2>1, <2>3, <2>4 DEF Sized, Frame, Cmd
<1>5. input \in [1..n -> Sized]
  <2>1. input = [k \in 1..n |-> input[k]]
    BY Zenon, <1>2 DEF Queued
  <2> QED  BY Zenon, <1>4, <2>1
<1>6. input \in Seq(Sized)
  BY Zenon, <1>3, <1>5, SeqOfFunction
<1>7. drr = DrrStart(input)
  BY Zenon DEF DrainInit
<1> QED  BY Zenon, <1>6, <1>7, StartDrains DEF DrainInv

LEMMA DrainNextInv == DrainInv /\ [Turn]_drainVars => DrainInv'
<1>1. ASSUME DrainInv, Turn PROVE DrainInv'
  <2>1. drr.active # <<>> /\ drr' = Served(drr) /\ input' = input
    BY Zenon, <1>1 DEF Turn
  <2>2. Drains(Served(drr), input)
    BY Zenon, <1>1, <2>1, ServedKeeps DEF DrainInv
  <2>3. DrainInv' <=> Drains(drr', input')
    BY Zenon DEF DrainInv
  <2> QED  BY Zenon, <2>1, <2>2, <2>3
<1>2. ASSUME DrainInv, UNCHANGED drainVars PROVE DrainInv'
  <2>1. drr' = drr /\ input' = input
    BY Zenon, <1>2 DEF drainVars
  <2>2. DrainInv' <=> Drains(drr', input')
    BY Zenon DEF DrainInv
  <2> QED  BY Zenon, <1>2, <2>1, <2>2 DEF DrainInv
<1> QED  BY Zenon, <1>1, <1>2

\* "order WITHIN a stream is preserved exactly" (deficit_round_robin), for any
\* queue, quantum and frame sizes and at every turn of the loop.
THEOREM StreamOrderKeptHolds == DrainSpec => []StreamOrderKept
<1>1. DrainInv => StreamOrderKept
  BY Zenon DEF DrainInv, Drains, Whole, StreamOrderKept
<1> QED  BY DrainInitInv, DrainNextInv, <1>1, PTL DEF DrainSpec

\* No head-of-line blocking (deficit_round_robin): of two streams with frames
\* left, neither is ahead by one quantum and one largest frame, for any queue.
THEOREM FairShareHolds == DrainSpec => []FairShare
<1>1. ASSUME DrainInv PROVE FairShare
  <2> SUFFICES ASSUME NEW i \in StreamIds, NEW j \in StreamIds,
                      drr.queue[i] # <<>>, drr.queue[j] # <<>>
               PROVE  SentBytes(i) - SentBytes(j) < Quantum + MaxBody
    BY Zenon DEF FairShare, Backlogged
  <2>1. DrrTyped(drr) /\ Listed(drr) /\ Frugal(drr) /\ Rounds(drr)
    BY Zenon, <1>1 DEF DrainInv, Drains
  <2>2. PICK T \in Nat, m \in 0..Len(drr.active) : InRound(drr, T, m)
    BY Zenon, <2>1 DEF Rounds
  <2>3. ASSUME NEW x \in StreamIds, drr.queue[x] # <<>>
        PROVE  /\ SentBytes(x) \in Nat
               /\ SentBytes(x) <= T + Quantum /\ SentBytes(x) > T - MaxBody
    <3>1. PICK k \in 1..Len(drr.active) : drr.active[k] = x
      BY Zenon, <2>1, <2>3 DEF Listed
    <3>2. Earned(drr, x) = T \/ Earned(drr, x) = T + Quantum
      BY Zenon, <2>2, <3>1 DEF InRound
    <3>3. Earned(drr, x) = SentBytes(x) + drr.deficit[x]
      BY Zenon DEF Earned, SentBytes
    <3>4. drr.deficit[x] \in Nat /\ drr.queue[x] \in Seq(Sized) /\ drr.out \in Seq(Sized)
      BY Zenon, <2>1 DEF DrrTyped
    <3>5. drr.deficit[x] < MaxBody
      <4>1. drr.queue[x][1] \in Sized
        BY <2>3, <3>4
      <4>2. drr.deficit[x] < Cost(drr.queue[x][1])
        BY Zenon, <2>1, <2>3 DEF Frugal
      <4> QED  BY <3>4, <4>1, <4>2, CostBounds, MuxPolicyAssumption
    <3>6. SentBytes(x) \in Nat
      <4>1. OfStream(drr.out, x) \in Seq(Sized)
        BY Zenon, <3>4, OfStreamOwn
      <4>2. \A fr \in Sized : fr \in Frame
        BY Zenon DEF Sized
      <4>3. OfStream(drr.out, x) \in Seq(Frame)
        BY <4>1, <4>2
      <4> QED  BY Zenon, <4>3, SpentNat DEF SentBytes
    <3> QED  BY <3>2, <3>3, <3>4, <3>5, <3>6, QuantumAssumption, MuxPolicyAssumption
  <2>4. SentBytes(i) \in Nat /\ SentBytes(i) <= T + Quantum
    BY Zenon, <2>3
  <2>5. SentBytes(j) \in Nat /\ SentBytes(j) > T - MaxBody
    BY Zenon, <2>3
  <2> QED  BY <2>4, <2>5, QuantumAssumption, MuxPolicyAssumption
<1>2. DrainInv => FairShare
  BY Zenon, <1>1
<1> QED  BY DrainInitInv, DrainNextInv, <1>2, PTL DEF DrainSpec
=============================================================================
