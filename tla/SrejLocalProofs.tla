-------------------------- MODULE SrejLocalProofs --------------------------
(***************************************************************************)
(* Proofs about Srej on a local network, for every file, window, retry     *)
(* limit and number of children, and any loss, corruption and killing of   *)
(* processes: LInv is inductive, and with it the windows of both sides     *)
(* agree, a packet rcopy is asked for is still in its ring, and no packet  *)
(* in the ring of a child is overwritten.                                  *)
(***************************************************************************)
EXTENDS SrejLocal, SrejProofs

-----------------------------------------------------------------------------
(***************************************************************************)
(* Receive queues, element by element.                                     *)
(***************************************************************************)
(* What was queued is an old datagram at its old place or a new one, in order. *)
LEMMA QueuedElements ==
  ASSUME NEW S, NEW q \in Seq(S), NEW ds \in Seq(S)
  PROVE  LET r == Queued(q, ds) IN
         /\ r \in Seq(S)
         /\ Len(r) <= Len(q) + Len(ds)
         /\ \A i \in 1 .. Len(r) :
              \/ i \in 1 .. Len(q) /\ r[i] = q[i]
              \/ i - Len(q) \in 1 .. Len(ds) /\ r[i] = ds[i - Len(q)]
<1> DEFINE r == Queued(q, ds)
<1>1. /\ q \o ds \in Seq(S)
      /\ Len(q \o ds) = Len(q) + Len(ds)
      /\ Len(q) \in Nat /\ Len(ds) \in Nat
      /\ \A i \in 1 .. Len(q \o ds) :
           (q \o ds)[i] = IF i <= Len(q) THEN q[i] ELSE ds[i - Len(q)]
  BY ConcatProperties, LenProperties
<1>2. /\ r \in Seq(S)
      /\ Len(r) <= Len(q \o ds)
      /\ \A i \in 1 .. Len(r) : r[i] = (q \o ds)[i]
  <2>1. CASE Len(q \o ds) <= Capacity
    BY <1>1, <2>1 DEF Queued
  <2>2. CASE ~(Len(q \o ds) <= Capacity)
    <3>1. Capacity \in Nat
      BY NetworkAssumption
    <3>2. /\ SubSeq(q \o ds, 1, Capacity) \in Seq(S)
          /\ Len(SubSeq(q \o ds, 1, Capacity)) = Capacity
          /\ \A i \in 1 .. Capacity :
               SubSeq(q \o ds, 1, Capacity)[i] = (q \o ds)[i]
      BY <1>1, <2>2, <3>1
    <3>3. QED
      BY <1>1, <2>2, <3>1, <3>2 DEF Queued
  <2>3. QED
    BY <2>1, <2>2
<1>3. ASSUME NEW i \in 1 .. Len(r)
      PROVE  \/ i \in 1 .. Len(q) /\ r[i] = q[i]
             \/ i - Len(q) \in 1 .. Len(ds) /\ r[i] = ds[i - Len(q)]
  <2>1. /\ r[i] = (q \o ds)[i]
        /\ i \in 1 .. Len(q \o ds)
        /\ i \in Nat
    <3>1. Len(r) \in Nat
      BY <1>2
    <3> HIDE DEF r
    <3>2. QED
      BY <1>1, <1>2, <3>1
  <2>2. CASE i <= Len(q)
    BY <1>1, <2>1, <2>2
  <2>3. CASE ~(i <= Len(q))
    BY <1>1, <2>1, <2>3
  <2>4. QED
    BY <2>2, <2>3
<1>4. QED
  BY <1>1, <1>2, <1>3

(* The head and the tail of a queue. *)
LEMMA TailElements ==
  ASSUME NEW S, NEW q \in Seq(S), q # <<>>
  PROVE  /\ Tail(q) \in Seq(S)
         /\ Len(q) \in Nat \ {0}
         /\ Len(Tail(q)) = Len(q) - 1
         /\ Head(q) = q[1]
         /\ \A i \in 1 .. Len(Tail(q)) :
              i + 1 \in 1 .. Len(q) /\ Tail(q)[i] = q[i + 1]
BY HeadTailProperties, LenProperties

(* A datagram m that was n when it was sent.                                *)
Survivor(m, n) == m = n \/ (m.from = n.from /\ ~m.ok)

(* r is what is left of the queue q when some datagrams were taken away and *)
(* some corrupted: the i-th of r was the f[i]-th of q.                      *)
Thinned(q, r) ==
  /\ Len(q) \in Nat /\ Len(r) \in Nat
  /\ Len(r) <= Len(q)
  /\ q = <<>> => r = <<>>
  /\ \E f \in [1 .. Len(r) -> 1 .. Len(q)] :
       /\ \A i, j \in 1 .. Len(r) : i < j => f[i] < f[j]
       /\ \A i \in 1 .. Len(r) :
            Survivor(r[i], q[f[i]])

(* A queue left alone, one whose first datagram was received, and the one   *)
(* of a process that ended.                                                 *)
LEMMA ThinnedSame ==
  ASSUME NEW S, NEW q \in Seq(S)
  PROVE  Thinned(q, q)
<1> DEFINE f == [i \in 1 .. Len(q) |-> i]
<1>1. Len(q) \in Nat
  BY LenProperties
<1>2. f \in [1 .. Len(q) -> 1 .. Len(q)] /\ \A i \in 1 .. Len(q) : f[i] = i
  OBVIOUS
<1> HIDE DEF f
<1>3. QED
  BY <1>1, <1>2 DEF Thinned, Survivor

LEMMA ThinnedTail ==
  ASSUME NEW S, NEW q \in Seq(S), q # <<>>
  PROVE  Thinned(q, Tail(q))
<1> DEFINE r == Tail(q)
           f == [i \in 1 .. Len(r) |-> i + 1]
<1>1. /\ Len(q) \in Nat /\ Len(r) \in Nat
      /\ Len(r) <= Len(q)
      /\ \A i \in 1 .. Len(r) : i + 1 \in 1 .. Len(q) /\ r[i] = q[i + 1]
  BY TailElements
<1> HIDE DEF r
<1>2. f \in [1 .. Len(r) -> 1 .. Len(q)] /\ \A i \in 1 .. Len(r) : f[i] = i + 1
  BY <1>1
<1> HIDE DEF f
<1>3. Thinned(q, r)
  BY <1>1, <1>2 DEF Thinned, Survivor
<1>4. QED
  BY <1>3 DEF r

LEMMA ThinnedEmpty ==
  ASSUME NEW S, NEW q \in Seq(S)
  PROVE  Thinned(q, <<>>)
<1> DEFINE r == <<>>
           f == [i \in 1 .. Len(r) |-> 1]
<1>1. Len(q) \in Nat /\ Len(r) = 0
  BY LenProperties, EmptySeq
<1>2. r = <<>>
  OBVIOUS
<1> HIDE DEF r
<1>3. \A i \in 1 .. Len(r) : FALSE
  BY <1>1
<1>4. f \in [1 .. Len(r) -> 1 .. Len(q)]
  BY <1>3
<1> HIDE DEF f
<1>5. \E g \in [1 .. Len(r) -> 1 .. Len(q)] :
        /\ \A i, j \in 1 .. Len(r) : i < j => g[i] < g[j]
        /\ \A i \in 1 .. Len(r) : Survivor(r[i], q[g[i]])
  BY <1>3, <1>4
<1>6. Len(r) \in Nat /\ Len(r) <= Len(q)
  BY <1>1
<1>7. Thinned(q, r)
  BY <1>1, <1>2, <1>5, <1>6, Zenon DEF Thinned
<1>8. QED
  BY <1>2, <1>7

(* What is left of a queue is among what was there, or corrupted.           *)
LEMMA ThinnedElements ==
  ASSUME NEW q, NEW r, Thinned(q, r), NEW i \in 1 .. Len(r)
  PROVE  \E j \in 1 .. Len(q) :
           Survivor(r[i], q[j])
BY DEF Thinned

(* A local network loses and corrupts.                                      *)
LEMMA LocalFault ==
  ASSUME LocalNetwork, UdpInv, NEW p \in Endpoints, NetworkFault(p)
  PROVE  /\ \A x \in Endpoints : Thinned(inbox[x], inbox'[x])
         /\ UNCHANGED <<sockets, due>>
<1> DEFINE q == inbox[p]
<1>1. \A x \in Endpoints : inbox[x] \in Seq(MayReceive(x, file))
  BY DEF UdpInv, MailOK
<1>2. inbox = [x \in Endpoints |-> inbox[x]]
  BY DEF UdpInv, MailOK
<1>3. SUFFICES /\ inbox' = [inbox EXCEPT ![p] = inbox'[p]]
               /\ Thinned(q, inbox'[p])
  <2>1. \A x \in Endpoints \ {p} : inbox'[x] = inbox[x]
    BY <1>2, <1>3
  <2>2. \A x \in Endpoints \ {p} : Thinned(inbox[x], inbox'[x])
    BY <1>1, <2>1, ThinnedSame
  <2>3. UNCHANGED <<sockets, due>>
    BY DEF NetworkFault, Lose, Corrupt, Duplicate, Reorder
  <2>4. QED
    BY <1>3, <2>2, <2>3
<1>4. /\ q \in Seq(MayReceive(p, file))
      /\ Len(q) \in Nat
      /\ DOMAIN q = 1 .. Len(q)
  BY <1>1, LenProperties
<1>5. CASE Lose(p)
  <2>1. PICK i \in 1 .. Len(q) : inbox' = [inbox EXCEPT ![p] = RemoveAt(q, i)]
    BY <1>5 DEF Lose
  <2> DEFINE S == MayReceive(p, file)
             a == SubSeq(q, 1, i - 1)
             b == SubSeq(q, i + 1, Len(q))
             r == RemoveAt(q, i)
             f == [j \in 1 .. Len(r) |-> IF j < i THEN j ELSE j + 1]
  <2> HIDE DEF S, q
  <2>2. q \in Seq(S) /\ i \in Int
    BY <1>4 DEF S
  <2>3. /\ a \in Seq(S) /\ Len(a) = i - 1
        /\ \A j \in 1 .. (i - 1) : a[j] = q[j]
    <3>1. /\ \A j \in 1 .. (i - 1) : q[j] \in S
          /\ i - 1 \in Int
      BY <1>4, <2>2, ElementOfSeq
    <3>2. QED
      BY <1>4, <2>2, <3>1, SubSeqProperties
  <2>4. /\ b \in Seq(S) /\ Len(b) = Len(q) - i
        /\ \A j \in 1 .. (Len(q) - i) : b[j] = q[i + j]
    <3>1. /\ \A j \in (i + 1) .. Len(q) : q[j] \in S
          /\ i + 1 \in Int
      BY <1>4, <2>2, ElementOfSeq
    <3>2. /\ b \in Seq(S)
          /\ Len(b) = IF i + 1 <= Len(q) THEN Len(q) - (i + 1) + 1 ELSE 0
          /\ \A j \in 1 .. (Len(q) - (i + 1) + 1) : b[j] = q[i + 1 + j - 1]
      BY <1>4, <2>2, <3>1, SubSeqProperties
    <3>3. \A j \in 1 .. (Len(q) - i) : i + 1 + j - 1 = i + j
      BY <2>2
    <3>4. Len(q) - (i + 1) + 1 = Len(q) - i
      BY <1>4, <2>2
    <3> HIDE DEF b
    <3>5. Len(b) = Len(q) - i
      <4>1. CASE i + 1 <= Len(q)
        BY <3>2, <3>4, <4>1
      <4>2. CASE ~(i + 1 <= Len(q))
        <5>1. i \in Int /\ Len(q) \in Int /\ i <= Len(q)
          BY <1>4, <2>2
        <5>2. Len(q) - i = 0
          BY <4>2, <5>1
        <5>3. QED
          BY <3>2, <4>2, <5>2
      <4>3. QED
        BY <4>1, <4>2
    <3>6. \A j \in 1 .. (Len(q) - i) : b[j] = q[i + j]
      BY <3>2, <3>3, <3>4
    <3>7. QED
      BY <3>2, <3>5, <3>6
  <2> HIDE DEF a, b
  <2>5. /\ a \o b \in Seq(S)
        /\ Len(a \o b) = Len(q) - 1
        /\ \A j \in 1 .. (Len(q) - 1) :
             (a \o b)[j] = IF j <= i - 1 THEN a[j] ELSE b[j - (i - 1)]
    <3>1. /\ a \o b \in Seq(S)
          /\ Len(a \o b) = Len(a) + Len(b)
          /\ \A j \in 1 .. (Len(a) + Len(b)) :
               (a \o b)[j] = IF j <= Len(a) THEN a[j] ELSE b[j - Len(a)]
      BY <2>3, <2>4, ConcatProperties
    <3>2. Len(a) + Len(b) = Len(q) - 1
      BY <1>4, <2>2, <2>3, <2>4
    <3>3. QED
      BY <2>3, <3>1, <3>2
  <2>6. r = a \o b
    BY DEF RemoveAt, a, b
  <2> HIDE DEF r
  <2>7. f \in [1 .. Len(r) -> 1 .. Len(q)]
    BY <1>4, <2>5, <2>6
  <2>8. \A j \in 1 .. Len(r) : r[j] = q[f[j]]
    <3> SUFFICES ASSUME NEW j \in 1 .. Len(r) PROVE r[j] = q[f[j]]
      OBVIOUS
    <3>1. CASE j < i
      BY <1>4, <2>3, <2>5, <2>6, <3>1
    <3>2. CASE ~(j < i)
      <4>1. j - (i - 1) \in 1 .. (Len(q) - i) /\ i + (j - (i - 1)) = j + 1
        BY <1>4, <2>2, <2>5, <2>6, <3>2
      <4>2. r[j] = b[j - (i - 1)]
        BY <1>4, <2>2, <2>5, <2>6, <3>2
      <4>3. QED
        BY <2>4, <3>2, <4>1, <4>2
    <3>3. QED
      BY <3>1, <3>2
  <2>9. \A j, k \in 1 .. Len(r) : j < k => f[j] < f[k]
    BY <2>2
  <2>10. q # <<>>
    BY <1>4, EmptySeq
  <2>11. Len(r) \in Nat /\ Len(r) <= Len(q)
    BY <1>4, <2>5, <2>6
  <2>12. Thinned(q, r)
    BY <1>4, <2>7, <2>8, <2>9, <2>10, <2>11 DEF Thinned, Survivor
  <2>13. QED
    BY <1>2, <2>1, <2>12 DEF r, q
<1>6. CASE Corrupt(p)
  <2>1. PICK i \in 1 .. Len(q) : inbox' = [inbox EXCEPT ![p][i] = Corrupted(@)]
    BY <1>6 DEF Corrupt
  <2> DEFINE r == [q EXCEPT ![i] = Corrupted(q[i])]
             f == [j \in 1 .. Len(r) |-> j]
  <2>2. inbox' = [inbox EXCEPT ![p] = r]
    BY <2>1
  <2>3. /\ Len(r) = Len(q)
        /\ \A j \in 1 .. Len(q) : j # i => r[j] = q[j]
        /\ r[i] = Corrupted(q[i])
        /\ q # <<>>
    BY <1>4, ExceptSeq, EmptySeq
  <2>4. r[i].from = q[i].from /\ ~r[i].ok
    BY <2>3 DEF Corrupted
  <2> HIDE DEF r, q
  <2>5. f \in [1 .. Len(r) -> 1 .. Len(q)] /\ \A j \in 1 .. Len(r) : f[j] = j
    BY <2>3
  <2> HIDE DEF f
  <2>6. Thinned(q, r)
    BY <1>4, <2>3, <2>4, <2>5 DEF Thinned, Survivor
  <2>7. QED
    BY <1>2, <2>2, <2>6 DEF q
<1>7. CASE Duplicate(p)
  BY <1>7, NetworkAssumption DEF Duplicate, LocalNetwork, UdpInv, FaultCounts
<1>8. CASE Reorder(p)
  BY <1>8, NetworkAssumption DEF Reorder, LocalNetwork, UdpInv, FaultCounts
<1>9. QED
  BY <1>5, <1>6, <1>7, <1>8 DEF NetworkFault

-----------------------------------------------------------------------------
(***************************************************************************)
(* The answers to rcopy stay in order.                                     *)
(***************************************************************************)
(* Whatever happens to them on the way.                                     *)
LEMMA ThinnedInOrder ==
  ASSUME NEW q, NEW r, Thinned(q, r),
         NEW c, NEW first \in Int, NEW last \in Int, NEW top \in Int,
         InOrder(q, c, first, last, top)
  PROVE  InOrder(r, c, first, last, top)
<1> PICK f \in [1 .. Len(r) -> 1 .. Len(q)] :
      /\ \A i, j \in 1 .. Len(r) : i < j => f[i] < f[j]
      /\ \A i \in 1 .. Len(r) :
           Survivor(r[i], q[f[i]])
  BY DEF Thinned
<1>1. ASSUME NEW i \in 1 .. Len(r)
      PROVE  Answer(r[i], c, first, last, top)
  <2>1. f[i] \in 1 .. Len(q)
    OBVIOUS
  <2>2. Answer(q[f[i]], c, first, last, top)
    BY <2>1 DEF InOrder
  <2>3. QED
    BY <2>2 DEF Answer, Survivor
<1>2. ASSUME NEW i \in 1 .. Len(r), NEW j \in 1 .. Len(r), i < j, r[i].ok, r[j].ok
      PROVE  r[i].body <= r[j].body
  <2>1. f[i] \in 1 .. Len(q) /\ f[j] \in 1 .. Len(q) /\ f[i] < f[j]
    BY <1>2
  <2>2. r[i] = q[f[i]] /\ r[j] = q[f[j]]
    BY <1>2 DEF Survivor
  <2>3. QED
    BY <1>2, <2>1, <2>2 DEF InOrder
<1>3. QED
  BY <1>1, <1>2 DEF InOrder

(* rcopy receives the first of them: the others are not for lower numbers.  *)
LEMMA TailInOrder ==
  ASSUME NEW S, NEW q \in Seq(S), q # <<>>,
         NEW c, NEW first \in Int, NEW last \in Int, NEW top \in Int,
         InOrder(q, c, first, last, top)
  PROVE  /\ Answer(Head(q), c, first, last, top)
         /\ InOrder(Tail(q), c, first, last, top)
         /\ Head(q).ok => InOrder(Tail(q), c, Head(q).body, last, top)
<1>1. /\ Tail(q) \in Seq(S)
      /\ Len(q) \in Nat \ {0}
      /\ Len(Tail(q)) = Len(q) - 1
      /\ Head(q) = q[1]
      /\ \A i \in 1 .. Len(Tail(q)) :
           i + 1 \in 1 .. Len(q) /\ Tail(q)[i] = q[i + 1]
  BY TailElements
<1> DEFINE r == Tail(q)
<1> HIDE DEF r
<1>2. Answer(Head(q), c, first, last, top)
  BY <1>1 DEF InOrder
<1>3. InOrder(r, c, first, last, top)
  <2>1. \A i \in 1 .. Len(r) : Answer(r[i], c, first, last, top)
    BY <1>1 DEF InOrder, r
  <2>2. \A i, j \in 1 .. Len(r) :
          i < j /\ r[i].ok /\ r[j].ok => r[i].body <= r[j].body
    <3> SUFFICES ASSUME NEW i \in 1 .. Len(r), NEW j \in 1 .. Len(r),
                        i < j, r[i].ok, r[j].ok
                 PROVE  r[i].body <= r[j].body
      OBVIOUS
    <3>1. i + 1 < j + 1
      OBVIOUS
    <3>2. /\ i + 1 \in 1 .. Len(q) /\ r[i] = q[i + 1]
          /\ j + 1 \in 1 .. Len(q) /\ r[j] = q[j + 1]
      BY <1>1 DEF r
    <3>3. QED
      BY <3>1, <3>2 DEF InOrder
  <2>3. QED
    BY <2>1, <2>2 DEF InOrder
<1>4. ASSUME Head(q).ok
      PROVE  InOrder(r, c, Head(q).body, last, top)
  <2>1. ASSUME NEW i \in 1 .. Len(r)
        PROVE  Answer(r[i], c, Head(q).body, last, top)
    <3>1. i + 1 \in 1 .. Len(q) /\ r[i] = q[i + 1] /\ 1 < i + 1 /\ 1 \in 1 .. Len(q)
      BY <1>1 DEF r
    <3>2. r[i].ok => Head(q).body <= r[i].body
      BY <1>1, <1>4, <3>1 DEF InOrder
    <3>3. Answer(r[i], c, first, last, top)
      BY <1>3 DEF InOrder
    <3>4. Head(q).body \in Int
      BY <1>2, <1>4 DEF Answer
    <3>5. QED
      BY <3>2, <3>3, <3>4 DEF Answer
  <2>2. QED
    BY <1>3, <2>1 DEF InOrder
<1>5. QED
  BY <1>2, <1>3, <1>4 DEF r

(* The child answers once more, for the number it has come to.              *)
LEMMA QueuedInOrder ==
  ASSUME NEW S, NEW q \in Seq(S), NEW ds \in Seq(S),
         NEW c, NEW first \in Int, NEW last \in Int, NEW top \in Int,
         NEW last2 \in Int, NEW top2 \in Int,
         last <= last2, top <= top2, first <= last2,
         InOrder(q, c, first, last, top),
         \A i \in 1 .. Len(ds) :
           ds[i].body = last2 /\ Answer(ds[i], c, first, last2, top2)
  PROVE  InOrder(Queued(q, ds), c, first, last2, top2)
<1> DEFINE r == Queued(q, ds)
<1>1. /\ r \in Seq(S)
      /\ \A i \in 1 .. Len(r) :
              \/ i \in 1 .. Len(q) /\ r[i] = q[i]
              \/ i - Len(q) \in 1 .. Len(ds) /\ r[i] = ds[i - Len(q)]
      /\ Len(r) \in Nat /\ Len(q) \in Nat /\ Len(ds) \in Nat
  BY QueuedElements, LenProperties
<1> HIDE DEF r
<1>2. \A i \in 1 .. Len(q) : Answer(q[i], c, first, last2, top2)
  BY DEF InOrder, Answer
<1>3. \A i \in 1 .. Len(r) : Answer(r[i], c, first, last2, top2)
  BY <1>1, <1>2
<1>4. ASSUME NEW i \in 1 .. Len(r), NEW j \in 1 .. Len(r), i < j, r[i].ok, r[j].ok
      PROVE  r[i].body <= r[j].body
  <2>1. CASE j \in 1 .. Len(q) /\ r[j] = q[j]
    <3>1. i \in 1 .. Len(q) /\ r[i] = q[i]
      BY <1>1, <1>4, <2>1
    <3>2. QED
      BY <1>4, <2>1, <3>1 DEF InOrder
  <2>2. CASE j - Len(q) \in 1 .. Len(ds) /\ r[j] = ds[j - Len(q)]
    <3>1. r[j].body = last2
      BY <2>2
    <3>2. r[i].body \in first .. last2
      BY <1>3, <1>4 DEF Answer
    <3>3. QED
      BY <3>1, <3>2
  <2>3. QED
    BY <1>1, <2>1, <2>2
<1>5. QED
  BY <1>3, <1>4 DEF InOrder, r

(* Nothing has been said while rcopy sends on.                              *)
LEMMA TopMayGrow ==
  ASSUME NEW q, NEW c, NEW first \in Int, NEW last \in Int, NEW top \in Int,
         NEW last2 \in Int, NEW top2 \in Int, last <= last2, top <= top2,
         InOrder(q, c, first, last, top)
  PROVE  InOrder(q, c, first, last2, top2)
BY DEF InOrder, Answer

-----------------------------------------------------------------------------
(***************************************************************************)
(* What a step of rcopy does to the queues: it may receive, and it may     *)
(* send m to `to'.                                                         *)
(***************************************************************************)
ClientQueues(to, m) ==
  /\ Thinned(inbox[Client], inbox'[Client])
  /\ \A p \in Endpoints \ {Client} :
       \/ inbox'[p] = inbox[p]
       \/ p = to /\ p \in sockets /\ inbox'[p] = Queued(inbox[p], <<m>>)
  /\ \/ sockets' = sockets
     \/ sockets' = sockets \ {Client} /\ inbox'[Client] = <<>>

LEMMA ClientMoves ==
  ASSUME UdpInv, NEW box, NEW s, NEW to \in Endpoints \ {Client}, NEW m,
         box = inbox \/ (Arrived(Client) /\ box = Taken(Client)),
         RcopyMoves(s, box) \/ RcopyMoves(s, Delivered(box, to, <<m>>))
  PROVE  /\ ClientQueues(to, m)
         /\ s \notin {"done", "killed"} => inbox'[Client] = box[Client]
         /\ s \in {"done", "killed"} => inbox'[Client] = <<>>
<1>1. /\ inbox = [p \in Endpoints |-> inbox[p]]
      /\ inbox[Client] \in Seq(MayReceive(Client, file))
      /\ Client \in Endpoints
  BY EndpointsFacts DEF UdpInv, MailOK
<1>2. /\ box = [p \in Endpoints |-> box[p]]
      /\ \A p \in Endpoints \ {Client} : box[p] = inbox[p]
      /\ box[Client] = inbox[Client] \/ (inbox[Client] # <<>> /\ box[Client] = Tail(inbox[Client]))
  BY <1>1 DEF Arrived, Taken
<1>3. Thinned(inbox[Client], box[Client]) /\ Thinned(inbox[Client], <<>>)
  BY <1>1, <1>2, ThinnedSame, ThinnedTail, ThinnedEmpty
<1>4. PICK out :
        /\ RcopyMoves(s, out)
        /\ out = box \/ out = Delivered(box, to, <<m>>)
  OBVIOUS
<1>5. /\ out = [p \in Endpoints |-> out[p]]
      /\ out[Client] = box[Client]
      /\ \A p \in Endpoints \ {Client} :
           \/ out[p] = inbox[p]
           \/ p = to /\ p \in sockets /\ out[p] = Queued(inbox[p], <<m>>)
  <2>1. CASE out = box
    BY <1>2, <2>1
  <2>2. CASE out = Delivered(box, to, <<m>>)
    BY <1>2, <2>2 DEF Delivered
  <2>3. QED
    BY <1>4, <2>1, <2>2
<1>6. CASE s \in {"done", "killed"}
  <2>1. /\ sockets' = sockets \ {Client}
        /\ inbox' = [out EXCEPT ![Client] = <<>>]
    BY <1>4, <1>6 DEF RcopyMoves
  <2>2. inbox'[Client] = <<>> /\ \A p \in Endpoints \ {Client} : inbox'[p] = out[p]
    BY <1>1, <1>5, <2>1
  <2>3. QED
    BY <1>3, <1>5, <1>6, <2>1, <2>2 DEF ClientQueues
<1>7. CASE s \notin {"done", "killed"}
  <2>1. sockets' = sockets /\ inbox' = out
    BY <1>4, <1>7 DEF RcopyMoves
  <2>2. QED
    BY <1>3, <1>5, <1>7, <2>1 DEF ClientQueues
<1>8. QED
  BY <1>6, <1>7

(* The slots rcopy may be asked for hold what they should.                  *)
LEMMA LatestHeld ==
  ASSUME RcopyInv, HoldsLatest, current < rr + WindowSize,
         NEW k \in Nat, rr <= k, k < offset
  PROVE  getEntry(ring, WindowSize, k) = DataPdu(k, k)
<1>1. /\ rr \in Nat /\ current \in Int /\ offset \in Int /\ WindowSize \in Nat
      /\ offset <= current + 1
  BY ParamsAssumption DEF RcopyInv, STAY_IN_DATA_STATE, MOVE_TO_DONE_STATE
<1>2. offset <= k + WindowSize
  BY <1>1
<1>3. k \in 0 .. (offset - 1)
  BY <1>1
<1>4. QED
  BY <1>2, <1>3 DEF HoldsLatest

(* Something is unacknowledged while rcopy waits with its file not sent to  *)
(* the end, and that is the packet a timeout sends again.                   *)
LEMMA LowestHeld ==
  ASSUME RcopyInv, SendingInv, WindowInv,
         rState \in {"openPoll", "closedPoll"}, ~EofSent
  PROVE  /\ rr <= current
         /\ getEntry(ring, WindowSize, rr) = DataPdu(rr, rr)
<1>1. /\ rr \in Nat /\ current \in Int /\ WindowSize \in Nat \ {0}
      /\ offset = current + 1
      /\ upper = rr + WindowSize
      /\ current < rr + WindowSize
      /\ HoldsLatest
  BY ParamsAssumption
     DEF RcopyInv, STAY_IN_DATA_STATE, MOVE_TO_DONE_STATE, EofSent, WindowInv,
         SendingInv, RcopyPolls
<1>2. rr <= current
  <2>1. CASE rState = "openPoll"
    BY <2>1 DEF SendingInv, RcopyPolls
  <2>2. CASE rState = "closedPoll"
    <3>1. ~(current + 1 < upper)
      BY <2>2 DEF SendingInv, RcopyPolls, isWindowOpen
    <3>2. QED
      BY <1>1, <3>1
  <2>3. QED
    BY <2>1, <2>2
<1>3. rr < offset
  BY <1>1, <1>2
<1>4. QED
  BY <1>1, <1>2, <1>3, LatestHeld

(* An answer of the child rcopy talks to: it comes first in the queue.      *)
LEMMA AnswerOfChild ==
  ASSUME IInv, SendingInv, rState \in RcopyPolls, Arrived(Client)
  PROVE  LET m == Head(inbox[Client]) IN
         /\ m.from = server
         /\ m.ok => /\ m.flag \in {RR_FLAG, SREJ_FLAG}
                    /\ m.body \in rr .. expected[server]
                    /\ m.flag = SREJ_FLAG => m.body < current
                    /\ InOrder(Tail(inbox[Client]), server, m.body, expected[server], current)
         /\ InOrder(Tail(inbox[Client]), server, rr, expected[server], current)
<1> DEFINE m == Head(inbox[Client])
<1>1. /\ inbox[Client] \in Seq(MayReceive(Client, file))
      /\ inbox[Client] # <<>>
      /\ rr \in Int /\ current \in Int
      /\ server \in Children
      /\ expected[server] \in Int
      /\ InOrder(inbox[Client], server, rr, expected[server], current)
  <2>1. server \in Children
    BY DEF IInv, RcopyInv, SendingInv, Endpoints
  <2>2. expected[server] \in 0 .. (NumBlocks + 1)
    BY <2>1 DEF IInv, ServerInv, ChildInv
  <2>3. QED
    BY <2>1, <2>2, EndpointsFacts, ParamsAssumption
       DEF IInv, UdpInv, MailOK, RcopyInv, SendingInv, Arrived
<1>2. /\ Answer(m, server, rr, expected[server], current)
      /\ InOrder(Tail(inbox[Client]), server, rr, expected[server], current)
      /\ m.ok => InOrder(Tail(inbox[Client]), server, m.body, expected[server], current)
  BY <1>1, TailInOrder
<1>3. QED
  BY <1>2 DEF Answer

(* All that a step of rcopy can mean to the others.                         *)
ClientEffect(m) ==
  /\ ClientQueues(server', m)
  /\ m.ok => m.seq <= 0 \/ m.seq <= current'
  /\ current' \in Int /\ current <= current'
  /\ \/ server' = server
     \/ /\ rState = "filename"
        /\ current' = -1
        /\ Arrived(Client)
        /\ server' = Head(inbox[Client]).from
  /\ due' \subseteq due

LEMMA ClientEffects ==
  ASSUME IInv, LInv, RcopyNext
  PROVE  \E m \in FromRcopy : ClientEffect(m)
<1> DEFINE h == Head(inbox[Client])
           none == EmptyDatagram(Client)
<1>1. /\ none \in FromRcopy /\ ~none.ok
      /\ FilenamePdu \in FromRcopy /\ FilenamePdu.seq = 0
  BY RcopyPdusOK DEF EmptyDatagram, FilenamePdu, createPDU
<1>2. /\ UdpInv
      /\ current \in -1 .. NumBlocks
      /\ current \in Int
      /\ server \in Endpoints \ {Client}
  BY DEF IInv, RcopyInv
<1>3. Arrived(Client) => h.from \in Endpoints \ {Client}
  BY <1>2, RcopyReceives
<1>4. rState \in {"start", "filename"} => current = -1
  BY DEF LInv, AskingInv
<1>5. rState \in RcopyPolls /\ Arrived(Client) => h.from = server
  BY AnswerOfChild DEF LInv
<1> HIDE DEF none
<1>6. CASE RcopyStart
  <2>1. ClientQueues(server', FilenamePdu)
    BY <1>2, <1>6, ClientMoves DEF RcopyStart
  <2>2. QED
    BY <1>1, <1>2, <1>6, <2>1 DEF RcopyStart, ClientEffect
<1>7. CASE RcopyFilenameTimeout
  <2>1. ClientQueues(server', FilenamePdu)
    BY <1>2, <1>7, ClientMoves DEF RcopyFilenameTimeout, RetryFilename
  <2>2. QED
    BY <1>1, <1>2, <1>7, <2>1 DEF RcopyFilenameTimeout, ClientEffect, PollReturns
<1>8. CASE RcopyFilenameCorrupt
  <2>1. ClientQueues(server', FilenamePdu)
    BY <1>2, <1>3, <1>8, ClientMoves DEF RcopyFilenameCorrupt, RetryFilename
  <2>2. QED
    BY <1>1, <1>2, <1>4, <1>8, <2>1 DEF RcopyFilenameCorrupt, ClientEffect, PollReturns
<1>9. CASE RcopyFilenameResponse
  <2>1. ClientQueues(server', none)
    BY <1>2, <1>3, <1>9, ClientMoves DEF RcopyFilenameResponse
  <2>2. QED
    BY <1>1, <1>2, <1>4, <1>9, <2>1 DEF RcopyFilenameResponse, ClientEffect, PollReturns
<1>10. CASE RcopySend
  <2> DEFINE pdu == DataPdu(current + 1, offset)
  <2>1. ClientQueues(server', pdu)
    BY <1>2, <1>10, ClientMoves DEF RcopySend
  <2>2. pdu \in FromRcopy /\ pdu.seq = current + 1
    <3>1. offset = current + 1 /\ offset \in Blocks
      BY <1>10, ParamsAssumption
         DEF RcopySend, IInv, RcopyInv, Blocks, STAY_IN_DATA_STATE, MOVE_TO_DONE_STATE
    <3>2. QED
      BY <3>1, RcopyPdusOK DEF DataPdu, createPDU
  <2> HIDE DEF pdu
  <2>3. QED
    BY <1>2, <1>10, <2>1, <2>2 DEF RcopySend, ClientEffect
<1>11. CASE RcopyEof
  <2> DEFINE pdu == EofPdu(current + 1)
  <2>1. ClientQueues(server', pdu)
    BY <1>2, <1>11, ClientMoves DEF RcopyEof
  <2>2. pdu \in FromRcopy /\ pdu.seq = current + 1
    <3>1. current + 1 = NumBlocks
      BY <1>11, ParamsAssumption
         DEF RcopyEof, IInv, RcopyInv, STAY_IN_DATA_STATE, MOVE_TO_DONE_STATE
    <3>2. QED
      BY <3>1, RcopyPdusOK DEF EofPdu, createPDU
  <2> HIDE DEF pdu
  <2>3. QED
    BY <1>2, <1>11, <2>1, <2>2 DEF RcopyEof, ClientEffect
<1>12. CASE RcopyDrained \/ RcopyAwaitAcks \/ RcopyWindowClosed
  <2>1. ClientQueues(server', none)
    BY <1>2, <1>12, ClientMoves DEF RcopyDrained, RcopyAwaitAcks, RcopyWindowClosed
  <2>2. QED
    BY <1>1, <1>2, <1>12, <2>1
       DEF RcopyDrained, RcopyAwaitAcks, RcopyWindowClosed, ClientEffect
<1>13. CASE RcopyPollTimeout
  <2> DEFINE pdu == getEntry(ring, WindowSize, rr)
  <2>1. ClientQueues(server', pdu)
    BY <1>2, <1>13, ClientMoves DEF RcopyPollTimeout
  <2>2. pdu \in FromRcopy /\ (pdu.ok => pdu.seq <= current)
    <3>1. CASE EofSent
      <4>1. pdu \in {m \in FromRcopy : m.ok => DataPacket(m)}
        <5>1. rr % WindowSize \in 0 .. (WindowSize - 1)
          BY ParamsAssumption DEF IInv, RcopyInv
        <5>2. ring \in [0 .. (WindowSize - 1) -> RcopySlot]
          BY <1>13 DEF RcopyPollTimeout, IInv, RcopyInv
        <5>3. QED
          BY <5>1, <5>2 DEF getEntry, getIndex, RcopySlot
      <4>2. pdu.ok => pdu.seq <= current
        BY <3>1, <4>1, ParamsAssumption DEF EofSent, DataPacket, Blocks
      <4>3. QED
        BY <4>1, <4>2
    <3>2. CASE ~EofSent
      <4>1. rr <= current /\ pdu = DataPdu(rr, rr)
        BY <1>13, <3>2, LowestHeld DEF RcopyPollTimeout, IInv, LInv
      <4>2. rr \in Blocks
        BY <1>2, <3>2, <4>1, ParamsAssumption DEF IInv, RcopyInv, EofSent, Blocks
      <4>3. QED
        BY <4>1, <4>2, RcopyPdusOK DEF DataPdu, createPDU
    <3>3. QED
      BY <3>1, <3>2
  <2> HIDE DEF pdu
  <2>3. QED
    BY <1>2, <1>13, <2>1, <2>2 DEF RcopyPollTimeout, ClientEffect, PollReturns
<1>14. CASE RcopyReceiveCorrupt \/ RcopyReceiveRR
  <2>1. ClientQueues(server', none)
    BY <1>2, <1>3, <1>14, ClientMoves DEF RcopyReceiveCorrupt, RcopyReceiveRR
  <2>2. server' = server /\ current' = current /\ due' \subseteq due
    BY <1>5, <1>14 DEF RcopyReceiveCorrupt, RcopyReceiveRR, PollReturns
  <2>3. QED
    BY <1>1, <1>2, <2>1, <2>2 DEF ClientEffect
<1>15. CASE RcopyReceiveSrej
  <2>1. /\ h.ok /\ h.flag = SREJ_FLAG
        /\ h.body \in Nat /\ rr <= h.body /\ h.body < current
    <3>1. rr \in Nat /\ current \in Int
      BY <1>2 DEF IInv, RcopyInv
    <3>2. h.ok /\ h.flag = SREJ_FLAG /\ h.body \in rr .. expected[server] /\ h.body < current
      BY <1>15, AnswerOfChild DEF RcopyReceiveSrej, LInv
    <3>3. h.body \in Nat
      BY <1>2, <1>15, <3>2, RcopyReceives DEF RcopyReceiveSrej
    <3>4. QED
      BY <3>1, <3>2, <3>3
  <2>2. getEntry(ring, WindowSize, h.body) = DataPdu(h.body, h.body)
    <3>1. h.body < offset
      BY <1>2, <2>1, ParamsAssumption
         DEF IInv, RcopyInv, STAY_IN_DATA_STATE, MOVE_TO_DONE_STATE
    <3>2. QED
      BY <1>15, <2>1, <3>1, LatestHeld
         DEF RcopyReceiveSrej, IInv, LInv, SendingInv, WindowInv
  <2> DEFINE pdu == DataPdu(h.body, h.body)
  <2>3. ClientQueues(server', pdu)
    <3>1. RcopyMoves(AfterPoll(upper), Delivered(Taken(Client), h.from, <<pdu>>))
      BY <1>15, <2>1, <2>2 DEF RcopyReceiveSrej, RequestedBy
    <3>2. QED
      BY <1>2, <1>3, <1>15, <3>1, ClientMoves DEF RcopyReceiveSrej
  <2>4. pdu \in FromRcopy /\ pdu.seq = h.body
    <3>1. h.body \in Blocks
      BY <1>2, <2>1, ParamsAssumption DEF Blocks
    <3>2. QED
      BY <3>1, RcopyPdusOK DEF DataPdu, createPDU
  <2> HIDE DEF pdu
  <2>5. server' = server /\ current' = current /\ due' \subseteq due
    BY <1>5, <1>15 DEF RcopyReceiveSrej, PollReturns
  <2>6. QED
    BY <1>2, <2>1, <2>3, <2>4, <2>5 DEF ClientEffect
<1>16. QED
  BY <1>6, <1>7, <1>8, <1>9, <1>10, <1>11, <1>12, <1>13, <1>14, <1>15 DEF RcopyNext

-----------------------------------------------------------------------------
(***************************************************************************)
(* The sockets, and the highest number sent to each child, through the     *)
(* steps of rcopy.                                                         *)
(***************************************************************************)
LEMMA MailSurvives ==
  ASSUME NEW p, Thinned(inbox[p], inbox'[p]), NEW x \in Mail(p)'
  PROVE  \E y \in Mail(p) : Survivor(x, y)
<1>1. PICK i \in 1 .. Len(inbox'[p]) : x = inbox'[p][i]
  BY DEF Mail
<1>2. PICK j \in 1 .. Len(inbox[p]) : Survivor(x, inbox[p][j])
  BY <1>1, ThinnedElements
<1>3. QED
  BY <1>2 DEF Mail

(* What is queued at p after m was sent there.                              *)
LEMMA MailSent ==
  ASSUME NEW S, NEW p, inbox[p] \in Seq(S), NEW m \in S,
         inbox'[p] = Queued(inbox[p], <<m>>), NEW x \in Mail(p)'
  PROVE  x \in Mail(p) \/ x = m
<1>1. PICK i \in 1 .. Len(inbox'[p]) : x = inbox'[p][i]
  BY DEF Mail
<1> DEFINE ds == <<m>>
<1>2. /\ ds \in Seq(S)
      /\ Len(ds) = 1
      /\ ds[1] = m
      /\ Len(inbox[p]) \in Nat
  BY Singleton, LenProperties
<1> HIDE DEF ds
<1>3. \/ i \in 1 .. Len(inbox[p]) /\ x = inbox[p][i]
      \/ i - Len(inbox[p]) \in 1 .. Len(ds) /\ x = ds[i - Len(inbox[p])]
  <2>1. inbox'[p] = Queued(inbox[p], ds)
    BY DEF ds
  <2>2. QED
    BY <1>1, <1>2, <2>1, QueuedElements
<1>4. CASE i \in 1 .. Len(inbox[p]) /\ x = inbox[p][i]
  BY <1>4 DEF Mail
<1>5. CASE i - Len(inbox[p]) \in 1 .. Len(ds) /\ x = ds[i - Len(inbox[p])]
  <2>1. i - Len(inbox[p]) = 1
    BY <1>2, <1>5
  <2>2. QED
    BY <1>2, <1>5, <2>1
<1>6. QED
  BY <1>3, <1>4, <1>5

LEMMA ClientSockets ==
  ASSUME IInv, SocketInv, NEW m, ClientEffect(m), UNCHANGED serverVars
  PROVE  SocketInv'
<1>1. /\ Thinned(inbox[Client], inbox'[Client])
      /\ \A p \in Endpoints \ {Client} :
           \/ inbox'[p] = inbox[p]
           \/ p = server' /\ p \in sockets /\ inbox'[p] = Queued(inbox[p], <<m>>)
      /\ \/ sockets' = sockets
         \/ sockets' = sockets \ {Client} /\ inbox'[Client] = <<>>
  BY DEF ClientEffect, ClientQueues
<1>2. sState' = sState
  BY DEF serverVars
<1>3. ASSUME NEW p \in Endpoints, p \notin sockets' PROVE inbox'[p] = <<>>
  <2>1. CASE p = Client
    BY <1>1, <1>3, <2>1 DEF SocketInv, Thinned
  <2>2. CASE p # Client
    BY <1>1, <1>3, <2>2 DEF SocketInv
  <2>3. QED
    BY <2>1, <2>2
<1>4. \A c \in Children : c \in sockets' => Started(c)'
  BY <1>1, <1>2 DEF SocketInv, Started
<1>5. ASSUME NEW x \in Mail(Client)' PROVE Started(x.from)'
  <2>1. PICK y \in Mail(Client) : Survivor(x, y)
    BY <1>1, MailSurvives
  <2>2. QED
    BY <1>2, <2>1 DEF SocketInv, Started, Survivor
<1>6. server' # Main => Started(server)'
  <2>1. CASE server' = server
    BY <1>2, <2>1 DEF SocketInv, Started
  <2>2. CASE Arrived(Client) /\ server' = Head(inbox[Client]).from
    <3>1. inbox[Client] \in Seq(MayReceive(Client, file))
      BY EndpointsFacts DEF IInv, UdpInv, MailOK
    <3>2. Head(inbox[Client]) \in Mail(Client)
      BY <2>2, <3>1, TailElements DEF Arrived, Mail
    <3>3. QED
      BY <1>2, <2>2, <3>2 DEF SocketInv, Started
  <2>3. QED
    BY <2>1, <2>2 DEF ClientEffect
<1>7. QED
  BY <1>3, <1>4, <1>5, <1>6 DEF SocketInv

(* The part of WindowInv about child c, and that it survives when rcopy     *)
(* sends.                                                                   *)
HeardOf(c) ==
  /\ highest[c] <= Sent(c)
  /\ \A m \in Mail(c) : m.ok => m.seq <= Sent(c)
  /\ sState[c] = "flush" => 0 < highest[c]

LEMMA ClientHeardOf ==
  ASSUME IInv, WindowInv, NEW m \in FromRcopy, ClientEffect(m),
         UNCHANGED serverVars, NEW c \in Children
  PROVE  HeardOf(c)'
<1>1. /\ c \in Endpoints \ {Client}
      /\ inbox[c] \in Seq(FromRcopy)
      /\ highest[c] \in Int
      /\ current \in Int /\ current' \in Int /\ current <= current'
      /\ \A x \in FromRcopy : x.seq \in Int
  <2>1. c \in Endpoints \ {Client}
    BY EndpointsFacts
  <2>2. inbox[c] \in Seq(FromRcopy)
    BY <2>1, ServerMail DEF IInv, UdpInv
  <2>3. QED
    BY <2>1, <2>2, ParamsAssumption
       DEF IInv, RcopyInv, ServerInv, ChildInv, ClientEffect, FromRcopy, Datagram
<1>2. highest' = highest /\ sState' = sState
  BY DEF serverVars
<1>3. /\ highest[c] <= Sent(c)
      /\ \A x \in Mail(c) : x.ok => x.seq <= Sent(c)
      /\ sState[c] = "flush" => 0 < highest[c]
  BY DEF WindowInv
<1>4. Sent(c) \in Int /\ Sent(c)' \in Int /\ Sent(c) <= Sent(c)' /\ 0 <= Sent(c)'
  <2>1. CASE server' = server
    BY <1>1, <2>1 DEF Sent
  <2>2. CASE current' = -1
    BY <1>1, <2>2 DEF Sent
  <2>3. QED
    BY <2>1, <2>2 DEF ClientEffect
<1>5. ASSUME NEW x \in Mail(c)', x.ok PROVE x.seq <= Sent(c)'
  <2>1. CASE inbox'[c] = inbox[c]
    <3>1. x \in Mail(c)
      BY <2>1 DEF Mail
    <3>2. x \in FromRcopy
      BY <1>1, <3>1, ElementOfSeq DEF Mail
    <3>3. QED
      BY <1>1, <1>3, <1>4, <1>5, <3>1, <3>2
  <2>2. CASE c = server' /\ inbox'[c] = Queued(inbox[c], <<m>>)
    <3>1. x \in Mail(c) \/ x = m
      BY <1>1, <2>2, MailSent
    <3>2. CASE x \in Mail(c)
      <4>1. x \in FromRcopy
        BY <1>1, <3>2, ElementOfSeq DEF Mail
      <4>2. QED
        BY <1>1, <1>3, <1>4, <1>5, <3>2, <4>1
    <3>3. CASE x = m
      <4>1. m.seq <= 0 \/ m.seq <= current'
        BY <1>5, <3>3 DEF ClientEffect
      <4>2. Sent(c)' = IF 0 < current' THEN current' ELSE 0
        BY <2>2 DEF Sent
      <4>3. QED
        BY <1>1, <3>3, <4>1, <4>2
    <3>4. QED
      BY <3>1, <3>2, <3>3
  <2>3. QED
    BY <1>1, <2>1, <2>2 DEF ClientEffect, ClientQueues
<1>6. QED
  BY <1>1, <1>2, <1>3, <1>4, <1>5 DEF HeardOf

-----------------------------------------------------------------------------
(***************************************************************************)
(* Steps of rcopy while it asks for the file.                              *)
(***************************************************************************)
LEMMA ClientActive ==
  ASSUME NEW m, ClientEffect(m), UNCHANGED serverVars,
         NEW q \in Endpoints \ {Client, server'}
  PROVE  inbox'[q] = inbox[q] /\ Active(q)' = Active(q)
<1>1. inbox'[q] = inbox[q] /\ sState' = sState
  BY DEF ClientEffect, ClientQueues, serverVars
<1>2. QED
  BY <1>1 DEF Active, Arrived, CanFork

(* When nobody else has anything to do, rcopy sends the only datagram.      *)
LEMMA OneSent ==
  ASSUME UdpInv, NEW m \in FromRcopy, ClientEffect(m), UNCHANGED serverVars,
         server' \in Endpoints \ {Client},
         \A q \in Endpoints \ {Client} : ~Active(q), inbox'[Client] = <<>>
  PROVE  OneAtATime'
<1> SUFFICES ASSUME NEW q \in Endpoints, Active(q)'
             PROVE  q = server' /\ Len(inbox'[q]) <= 1
  BY EndpointsFacts DEF OneAtATime
<1>1. q # Client
  BY EndpointsFacts DEF Active, Arrived
<1>2. q = server'
  BY <1>1, ClientActive
<1>3. sState' = sState /\ CanFork' = CanFork
  BY DEF serverVars, CanFork
<1>4. inbox[q] = <<>> /\ inbox'[q] # <<>>
  <2>1. CASE q = Main
    BY <1>1, <1>3, <2>1 DEF Active, Arrived
  <2>2. CASE q # Main
    BY <1>1, <1>3, <2>2 DEF Active, Arrived
  <2>3. QED
    BY <2>1, <2>2
<1>5. inbox'[q] = Queued(inbox[q], <<m>>)
  BY <1>1, <1>4 DEF ClientEffect, ClientQueues
<1>6. inbox[q] \in Seq(FromRcopy) /\ <<m>> \in Seq(FromRcopy) /\ Len(<<m>>) = 1
  BY <1>1, Singleton, ServerMail DEF UdpInv
<1>7. Len(inbox'[q]) <= Len(inbox[q]) + Len(<<m>>)
  BY <1>5, <1>6, QueuedElements
<1>8. Len(inbox[q]) = 0 /\ Len(inbox'[q]) \in Nat
  <2>1. inbox'[q] \in Seq(FromRcopy)
    BY <1>5, <1>6, QueuedElements
  <2>2. QED
    BY <1>4, <2>1, EmptySeq, LenProperties
<1>9. QED
  BY <1>2, <1>6, <1>7, <1>8

(* The only datagram is at rcopy: nobody else has anything to do, and once  *)
(* it has been received there is none.                                      *)
LEMMA OnlyAnswer ==
  ASSUME IInv, AskingInv, rState = "filename", Arrived(Client)
  PROVE  /\ \A q \in Endpoints \ {Client} : ~Active(q)
         /\ Tail(inbox[Client]) = <<>>
<1>1. OneAtATime /\ Active(Client) /\ Client \in Endpoints
  BY EndpointsFacts DEF AskingInv, Active
<1>2. Len(inbox[Client]) <= 1 /\ \A q \in Endpoints \ {Client} : ~Active(q)
  BY <1>1 DEF OneAtATime
<1>3. inbox[Client] \in Seq(MayReceive(Client, file)) /\ inbox[Client] # <<>>
  BY <1>1 DEF IInv, UdpInv, MailOK, Arrived
<1>4. Tail(inbox[Client]) \in Seq(MayReceive(Client, file)) /\ Len(Tail(inbox[Client])) = 0
  <2>1. /\ Tail(inbox[Client]) \in Seq(MayReceive(Client, file))
        /\ Len(Tail(inbox[Client])) = Len(inbox[Client]) - 1
        /\ Len(inbox[Client]) \in Nat \ {0}
    BY <1>3, TailElements
  <2>2. Len(inbox[Client]) = 1
    <3> DEFINE n == Len(inbox[Client])
    <3>1. n <= 1 /\ n \in Nat \ {0}
      BY <1>2, <2>1
    <3> HIDE DEF n
    <3>2. n = 1
      BY <3>1
    <3>3. QED
      BY <3>2 DEF n
  <2>3. QED
    BY <2>1, <2>2
<1>5. Tail(inbox[Client]) = <<>>
  BY <1>4, EmptySeq
<1>6. QED
  BY <1>2, <1>5

LEMMA ClientAsking ==
  ASSUME IInv, IInv', LInv, LocalNetwork, RcopyNext, UNCHANGED serverVars
  PROVE  AskingInv'
<1>1. PICK m \in FromRcopy : ClientEffect(m)
  BY ClientEffects
<1>2. /\ UdpInv
      /\ server' \in Endpoints \ {Client}
      /\ inbox[Client] \in Seq(MayReceive(Client, file))
  BY EndpointsFacts DEF IInv, RcopyInv, UdpInv, MailOK
<1>3. ASSUME \A q \in Endpoints : ~Active(q) PROVE OneAtATime'
  <2>1. inbox[Client] = <<>>
    BY <1>3, EndpointsFacts DEF Active, Arrived
  <2>2. inbox'[Client] = <<>>
    BY <1>1, <2>1 DEF ClientEffect, ClientQueues, Thinned
  <2>3. QED
    BY <1>1, <1>2, <1>3, <2>2, OneSent
<1>4. CASE RcopyStart
  <2>1. OneAtATime'
    BY <1>3, <1>4 DEF RcopyStart, LInv, AskingInv
  <2>2. rState' = "filename" /\ current' = current /\ rr' = rr /\ due' = due
    BY <1>4 DEF RcopyStart, RcopyMoves
  <2>3. QED
    BY <1>4, <2>1, <2>2 DEF RcopyStart, LInv, AskingInv
<1>5. CASE RcopyFilenameTimeout
  <2>1. OneAtATime'
    BY <1>3, <1>5 DEF RcopyFilenameTimeout, TimedOut, LocalNetwork, LInv, AskingInv
  <2>2. /\ rState' \in {"filename", "done"} /\ current' = current /\ rr' = rr
        /\ Client \notin due'
    BY <1>5 DEF RcopyFilenameTimeout, RetryFilename, RcopyMoves, PollReturns
  <2>3. QED
    BY <1>5, <2>1, <2>2 DEF RcopyFilenameTimeout, LInv, AskingInv
<1>6. CASE RcopyFilenameCorrupt
  <2>1. /\ rState' \in {"filename", "done"} /\ current' = current /\ rr' = rr
        /\ Client \notin due'
    BY <1>6 DEF RcopyFilenameCorrupt, RetryFilename, RcopyMoves, PollReturns
  <2>2. /\ \A q \in Endpoints \ {Client} : ~Active(q)
        /\ Tail(inbox[Client]) = <<>>
    BY <1>6, OnlyAnswer DEF RcopyFilenameCorrupt, LInv
  <2>3. inbox'[Client] = <<>>
    <3>1. Head(inbox[Client]).from \in Endpoints \ {Client}
      BY <1>2, <1>6, RcopyReceives DEF RcopyFilenameCorrupt
    <3>2. inbox'[Client] = Taken(Client)[Client] \/ inbox'[Client] = <<>>
      BY <1>2, <1>6, <3>1, ClientMoves DEF RcopyFilenameCorrupt, RetryFilename
    <3>3. Taken(Client)[Client] = Tail(inbox[Client])
      BY <1>2, EndpointsFacts DEF Taken, UdpInv, MailOK
    <3>4. QED
      BY <2>2, <3>2, <3>3
  <2>4. OneAtATime'
    BY <1>1, <1>2, <2>2, <2>3, OneSent
  <2>5. QED
    BY <1>6, <2>1, <2>4 DEF RcopyFilenameCorrupt, LInv, AskingInv
<1>7. CASE rState' \notin {"start", "filename"}
  BY <1>7 DEF AskingInv
<1>8. rState' \notin {"start", "filename"} \/ RcopyStart \/ RcopyFilenameTimeout
        \/ RcopyFilenameCorrupt
  BY DEF RcopyNext, RcopyMoves, RcopyFilenameResponse, onFilenameGetNextState,
         RcopySend, RcopyDrained, RcopyEof, RcopyAwaitAcks, RcopyWindowClosed,
         RcopyPollTimeout, RcopyReceiveCorrupt, RcopyReceiveRR, RcopyReceiveSrej,
         AfterPoll, RcopyPolls
<1>9. QED
  BY <1>4, <1>5, <1>6, <1>7, <1>8

-----------------------------------------------------------------------------
(***************************************************************************)
(* Steps of rcopy and its window.                                          *)
(***************************************************************************)
LEMMA ServerIsChild ==
  ASSUME IInv, server # Main
  PROVE  /\ server \in Children
         /\ expected[server] \in Nat
<1>1. server \in Children
  BY DEF IInv, RcopyInv, Endpoints
<1>2. QED
  BY <1>1, ParamsAssumption DEF IInv, ServerInv, ChildInv

(* The bounds of the window never go back and are never ahead of what the   *)
(* child has.                                                               *)
LEMMA ClientBounds ==
  ASSUME IInv, IInv', LInv, RcopyNext, UNCHANGED serverVars
  PROVE  /\ rr <= rr'
         /\ rState' \notin {"start", "done", "killed"} => upper' = rr' + WindowSize
         /\ current' < rr' + WindowSize
         /\ server' # Main => rr' <= expected'[server']
<1> DEFINE h == Head(inbox[Client])
<1>1. /\ rr \in Nat /\ current \in Int /\ upper \in Nat /\ WindowSize \in Nat \ {0}
      /\ rState \notin {"start", "done", "killed"} => upper = rr + WindowSize
      /\ current < rr + WindowSize
      /\ server # Main => rr <= expected[server]
      /\ expected' = expected
  BY ParamsAssumption DEF IInv, RcopyInv, LInv, WindowInv, serverVars
<1>2. PICK m \in FromRcopy : ClientEffect(m)
  BY ClientEffects
<1>3. ASSUME rr' = rr
      PROVE  server' # Main => rr' <= expected'[server']
  <2>1. CASE server' = server
    BY <1>1, <1>3, <2>1
  <2>2. CASE rState = "filename"
    <3>1. rr' = 0
      BY <1>3, <2>2 DEF LInv, AskingInv
    <3>2. server' # Main => expected'[server'] \in Nat
      <4>1. server' # Main => server' \in Children
        BY DEF IInv, RcopyInv, Endpoints
      <4>2. QED
        BY <4>1, ParamsAssumption DEF IInv, ServerInv, ChildInv
    <3>3. QED
      BY <3>1, <3>2
  <2>3. QED
    BY <1>2, <2>1, <2>2 DEF ClientEffect
<1>4. CASE RcopyStart
  <2>1. rr' = rr /\ rr = 0 /\ upper' = WindowSize /\ current' = current /\ current = -1
    BY <1>4 DEF RcopyStart, LInv, AskingInv
  <2>2. upper' = rr' + WindowSize /\ current' < rr' + WindowSize /\ rr <= rr'
    BY <1>1, <2>1
  <2>3. QED
    BY <1>3, <2>1, <2>2
<1>5. CASE RcopySend \/ RcopyEof
  <2>1. /\ rr' = rr /\ upper' = upper /\ current' = current + 1
        /\ current + 1 < upper
        /\ rState = "open"
    BY <1>5 DEF RcopySend, RcopyEof, isWindowOpen
  <2>2. upper' = rr' + WindowSize /\ current' < rr' + WindowSize /\ rr <= rr'
    BY <1>1, <2>1
  <2>3. QED
    BY <1>3, <2>1, <2>2
<1>6. CASE RcopyReceiveRR
  <2>1. /\ rr' = h.body /\ upper' = h.body + WindowSize
        /\ current' = current /\ server' = h.from
        /\ rState \in RcopyPolls /\ Arrived(Client) /\ h.ok
    BY <1>6 DEF RcopyReceiveRR, upperAfter
  <2>2. h.from = server /\ h.body \in rr .. expected[server]
    BY <2>1, AnswerOfChild DEF LInv
  <2>3. server # Main
    BY <2>1 DEF LInv, SendingInv
  <2>4. expected[server] \in Nat
    BY <2>3, ServerIsChild
  <2>5. rr' \in Int /\ rr <= rr' /\ rr' <= expected[server]
    BY <1>1, <2>1, <2>2, <2>4
  <2>6. upper' = rr' + WindowSize /\ current' < rr' + WindowSize
    BY <1>1, <2>1, <2>5
  <2>7. QED
    BY <1>1, <2>1, <2>2, <2>5, <2>6
<1>7. CASE \/ RcopyFilenameTimeout \/ RcopyFilenameCorrupt \/ RcopyFilenameResponse
           \/ RcopyDrained \/ RcopyAwaitAcks \/ RcopyWindowClosed
           \/ RcopyPollTimeout \/ RcopyReceiveCorrupt \/ RcopyReceiveSrej
  <2>1. /\ rr' = rr /\ upper' = upper /\ current' = current
        /\ rState \notin {"start", "done", "killed"}
    BY <1>7
       DEF RcopyFilenameTimeout, RcopyFilenameCorrupt, RcopyFilenameResponse,
           RcopyDrained, RcopyAwaitAcks, RcopyWindowClosed, RcopyPollTimeout,
           RcopyReceiveCorrupt, RcopyReceiveSrej, RcopyPolls
  <2>2. upper' = rr' + WindowSize /\ current' < rr' + WindowSize /\ rr <= rr'
    BY <1>1, <2>1
  <2>3. QED
    BY <1>3, <2>1, <2>2
<1>8. QED
  BY <1>4, <1>5, <1>6, <1>7 DEF RcopyNext

LEMMA ClientWindow ==
  ASSUME IInv, IInv', LInv, RcopyNext, UNCHANGED serverVars
  PROVE  WindowInv'
<1>1. PICK m \in FromRcopy : ClientEffect(m)
  BY ClientEffects
<1>2. \A c \in Children : HeardOf(c)'
  BY <1>1, ClientHeardOf DEF LInv
<1>3. QED
  BY <1>2, ClientBounds DEF WindowInv, HeardOf


(* A later packet is not in the slot of an earlier one of the same window.  *)
LEMMA SlotsDiffer ==
  ASSUME NEW w \in Nat \ {0}, NEW a \in Nat, NEW b \in Nat,
         b < a, a < b + w
  PROVE  getIndex(w, a) # getIndex(w, b)
<1> SUFFICES ASSUME a % w = b % w PROVE FALSE
  BY DEF getIndex
<1> DEFINE x == a \div w
           y == b \div w
<1>1. /\ x \in Int /\ y \in Int
      /\ a = w * x + (a % w) /\ b = w * y + (b % w)
  OBVIOUS
<1> HIDE DEF x, y
<1>2. a - b = w * (x - y)
  BY <1>1
<1>3. CASE x - y <= 0
  <2>1. w * (x - y) <= 0
    BY <1>1, <1>3
  <2>2. QED
    BY <1>2, <2>1
<1>4. CASE x - y >= 1
  <2>1. w * (x - y) >= w
    BY <1>1, <1>4
  <2>2. QED
    BY <1>2, <2>1
<1>5. QED
  BY <1>1, <1>3, <1>4

(* The ring of rcopy after it sent one more packet.                         *)
LEMMA SendHolds ==
  ASSUME IInv, HoldsLatest, RcopySend
  PROVE  HoldsLatest'
<1> DEFINE pdu == DataPdu(offset, offset)
<1>1. /\ offset = current + 1 /\ offset \in Nat /\ WindowSize \in Nat \ {0}
      /\ ring \in [0 .. (WindowSize - 1) -> RcopySlot]
      /\ offset' = offset + 1
      /\ ring' = addToCircularBuffer(ring, WindowSize, offset, pdu)
  BY ParamsAssumption
     DEF RcopySend, IInv, RcopyInv, STAY_IN_DATA_STATE, MOVE_TO_DONE_STATE
<1>2. \A k \in Nat : k % WindowSize \in 0 .. (WindowSize - 1)
  BY <1>1
<1>3. /\ ring'[offset % WindowSize].pdu = pdu
      /\ \A i \in 0 .. (WindowSize - 1) : i # offset % WindowSize => ring'[i] = ring[i]
  BY <1>1, <1>2 DEF addToCircularBuffer, getIndex
<1> SUFFICES ASSUME NEW k \in 0 .. offset, offset + 1 <= k + WindowSize
             PROVE  getEntry(ring', WindowSize, k) = DataPdu(k, k)
  <2>1. offset' - 1 = offset
    BY <1>1
  <2>2. QED
    BY <1>1, <2>1 DEF HoldsLatest
<1>4. CASE k = offset
  BY <1>3, <1>4 DEF getEntry, getIndex
<1>5. CASE k < offset
  <2>1. k \in Nat /\ k \in 0 .. (offset - 1) /\ offset < k + WindowSize
    BY <1>1, <1>5
  <2>2. getIndex(WindowSize, offset) # getIndex(WindowSize, k)
    BY <1>1, <1>5, <2>1, SlotsDiffer
  <2>3. ring'[k % WindowSize] = ring[k % WindowSize]
    BY <1>2, <1>3, <2>1, <2>2 DEF getIndex
  <2>4. getEntry(ring, WindowSize, k) = DataPdu(k, k)
    BY <1>1, <2>1 DEF HoldsLatest
  <2>5. QED
    BY <2>3, <2>4 DEF getEntry, getIndex
<1>6. QED
  BY <1>1, <1>4, <1>5

LEMMA ClientSending ==
  ASSUME IInv, IInv', LInv, RcopyNext, UNCHANGED serverVars,
         rState \in {"open"} \cup RcopyPolls
  PROVE  SendingInv' /\ server' = server
<1> DEFINE h == Head(inbox[Client])
           e == expected[server]
<1>1. PICK m \in FromRcopy : ClientEffect(m)
  BY ClientEffects
<1>2. server' = server /\ server # Main /\ rState # "filename"
  BY <1>1 DEF ClientEffect, RcopyPolls, LInv, SendingInv
<1>3. /\ rr \in Nat /\ current \in Int /\ upper \in Nat
      /\ e \in Nat
      /\ current' \in Int /\ current <= current'
      /\ expected' = expected
      /\ InOrder(inbox[Client], server, rr, e, current)
      /\ HoldsLatest
      /\ Thinned(inbox[Client], inbox'[Client])
  BY <1>1, <1>2, ServerIsChild
     DEF IInv, RcopyInv, LInv, SendingInv, serverVars, ClientEffect, ClientQueues
<1>4. SUFFICES ASSUME rState' \in {"open"} \cup RcopyPolls
               PROVE  SendingInv'
  BY <1>2 DEF SendingInv
<1>5. \A p \in Endpoints : Active(p)' => p \in {Client, server'}
  <2> SUFFICES ASSUME NEW p \in Endpoints, p \notin {Client, server'}
               PROVE  ~Active(p)'
    OBVIOUS
  <2>1. Active(p)' = Active(p)
    BY <1>1, ClientActive
  <2>2. QED
    BY <1>2, <2>1 DEF LInv, SendingInv
<1>6. ASSUME rr' = rr PROVE InOrder(inbox'[Client], server, rr', e, current')
  <2>1. InOrder(inbox'[Client], server, rr, e, current)
    BY <1>3, ThinnedInOrder
  <2>2. QED
    BY <1>3, <1>6, <2>1, TopMayGrow
<1>7. SUFFICES /\ InOrder(inbox'[Client], server, rr', e, current')
               /\ HoldsLatest'
               /\ rState' = "openPoll" => rr' <= current'
               /\ rState' = "closedPoll" => ~isWindowOpen(current', upper')
  BY <1>2, <1>3, <1>5 DEF SendingInv
<1>8. CASE RcopySend
  <2>1. HoldsLatest'
    BY <1>3, <1>8, SendHolds
  <2>2. rr' = rr /\ rState' = "drain"
    BY <1>8 DEF RcopySend, RcopyMoves
  <2>3. QED
    BY <1>6, <2>1, <2>2
<1>9. ASSUME UNCHANGED <<ring, offset>> PROVE HoldsLatest'
  BY <1>3, <1>9 DEF HoldsLatest
<1>10. CASE RcopyEof
  <2>1. /\ rr' = rr /\ current' = current + 1 /\ upper' = upper
        /\ UNCHANGED <<ring, offset>>
        /\ rState' = IF isWindowOpen(current + 1, upper) THEN "done" ELSE "closedPoll"
    BY <1>10 DEF RcopyEof, RcopyMoves
  <2>2. QED
    BY <1>6, <1>9, <2>1
<1>11. CASE RcopyDrained \/ RcopyAwaitAcks \/ RcopyWindowClosed
  <2>1. /\ rr' = rr /\ current' = current /\ upper' = upper
        /\ UNCHANGED <<ring, offset>>
    BY <1>11 DEF RcopyDrained, RcopyAwaitAcks, RcopyWindowClosed
  <2>2. rState' = "openPoll" => rr' <= current'
    <3>1. rState' = "openPoll" => ~(rr > current)
      BY <1>11
         DEF RcopyDrained, RcopyAwaitAcks, RcopyWindowClosed, RcopyMoves,
             isServerDoneReceiving
    <3>2. QED
      BY <1>3, <2>1, <3>1
  <2>3. rState' = "closedPoll" => ~isWindowOpen(current', upper')
    BY <1>11, <2>1 DEF RcopyDrained, RcopyAwaitAcks, RcopyWindowClosed, RcopyMoves
  <2>4. QED
    BY <1>6, <1>9, <2>1, <2>2, <2>3
<1>12. CASE RcopyPollTimeout
  <2>1. /\ rr' = rr /\ current' = current /\ upper' = upper
        /\ UNCHANGED <<ring, offset>>
        /\ rState' \in {"done", rState}
    BY <1>12 DEF RcopyPollTimeout, RcopyMoves
  <2>2. rState' = rState
    BY <1>4, <2>1 DEF RcopyPolls
  <2>3. /\ rState' = "openPoll" => rr' <= current'
        /\ rState' = "closedPoll" => ~isWindowOpen(current', upper')
    BY <2>1, <2>2 DEF LInv, SendingInv, RcopyPolls
  <2>4. QED
    BY <1>6, <1>9, <2>1, <2>3
<1>13. CASE RcopyReceiveCorrupt \/ RcopyReceiveSrej
  <2>1. /\ rr' = rr /\ current' = current /\ upper' = upper
        /\ UNCHANGED <<ring, offset>>
        /\ rState' = AfterPoll(upper)
    BY <1>13 DEF RcopyReceiveCorrupt, RcopyReceiveSrej, RcopyMoves
  <2>2. /\ rState' # "openPoll"
        /\ rState' = "closedPoll" => ~isWindowOpen(current', upper')
    BY <1>13, <2>1 DEF AfterPoll, RcopyReceiveCorrupt, RcopyReceiveSrej, RcopyPolls
  <2>3. QED
    BY <1>6, <1>9, <2>1, <2>2
<1>14. CASE RcopyReceiveRR
  <2>1. /\ rr' = h.body /\ current' = current
        /\ UNCHANGED <<ring, offset>>
        /\ upper' = upperAfter(h.body)
        /\ RcopyMoves(AfterPoll(upper'), Taken(Client))
        /\ rState' = AfterPoll(upper')
        /\ rState \in RcopyPolls /\ Arrived(Client) /\ h.ok
    BY <1>14 DEF RcopyReceiveRR, RcopyMoves
  <2>2. InOrder(Tail(inbox[Client]), server, h.body, e, current)
    BY <2>1, AnswerOfChild DEF LInv
  <2>3. inbox'[Client] = Tail(inbox[Client])
    <3>1. inbox' = Taken(Client)
      BY <1>4, <2>1 DEF RcopyMoves, RcopyPolls
    <3>2. QED
      BY <3>1, EndpointsFacts DEF Taken, IInv, UdpInv, MailOK
  <2>4. /\ rState' # "openPoll"
        /\ rState' = "closedPoll" => ~isWindowOpen(current', upper')
    BY <2>1 DEF AfterPoll, RcopyPolls
  <2>5. QED
    BY <1>9, <2>1, <2>2, <2>3, <2>4
<1>15. QED
  BY <1>2, <1>4, <1>8, <1>10, <1>11, <1>12, <1>13, <1>14
     DEF RcopyNext, RcopyStart, RcopyFilenameTimeout, RcopyFilenameCorrupt,
         RcopyFilenameResponse, RcopyPolls


(* The answer to the filename PDU: nothing else is on its way.              *)
LEMMA ClientAnswered ==
  ASSUME IInv, IInv', LInv, RcopyFilenameResponse, UNCHANGED serverVars
  PROVE  SendingInv'
<1> DEFINE h == Head(inbox[Client])
<1>1. PICK m \in FromRcopy : ClientEffect(m)
  BY ClientEffects DEF RcopyNext
<1>2. /\ rState = "filename" /\ Arrived(Client)
      /\ server' = h.from
      /\ RcopyMoves(onFilenameGetNextState(h), Taken(Client))
      /\ UNCHANGED <<current, offset, rr>>
      /\ UdpInv
  BY DEF RcopyFilenameResponse, IInv
<1>3. SUFFICES ASSUME rState' = "open"
               PROVE  SendingInv'
  BY <1>2 DEF RcopyMoves, onFilenameGetNextState, SendingInv, RcopyPolls
<1>4. /\ \A q \in Endpoints \ {Client} : ~Active(q)
      /\ Tail(inbox[Client]) = <<>>
  BY <1>2, OnlyAnswer DEF LInv
<1>5. inbox' = Taken(Client)
  BY <1>2, <1>3 DEF RcopyMoves
<1>6. /\ inbox'[Client] = <<>>
      /\ \A q \in Endpoints \ {Client} : inbox'[q] = inbox[q]
  BY <1>4, <1>5, EndpointsFacts DEF Taken, IInv, UdpInv, MailOK
<1>7. \A q \in Endpoints : ~Active(q)'
  <2>1. sState' = sState
    BY DEF serverVars
  <2>2. QED
    BY <1>4, <1>6, <2>1, EndpointsFacts DEF Active, Arrived, CanFork
<1>8. server' # Main
  <2>1. h \in FromChildren(file)
    BY <1>2, TakenOK, EndpointsFacts DEF UdpInv, MayReceive
  <2>2. QED
    BY <1>2, <2>1, EndpointsFacts DEF FromChildren
<1>9. InOrder(inbox'[Client], server', rr', expected'[server'], current')
  <2>1. Len(inbox'[Client]) = 0
    BY <1>6, EmptySeq
  <2>2. \A i \in 1 .. Len(inbox'[Client]) : FALSE
    BY <2>1
  <2>3. QED
    BY <2>2 DEF InOrder
<1>10. HoldsLatest'
  <2>1. offset' = 0
    BY <1>2 DEF IInv, RcopyInv, LInv, AskingInv, STAY_IN_DATA_STATE
  <2>2. \A k \in 0 .. (offset' - 1) : FALSE
    BY <2>1
  <2>3. QED
    BY <2>2 DEF HoldsLatest
<1>11. QED
  BY <1>3, <1>7, <1>8, <1>9, <1>10 DEF SendingInv

LEMMA ClientStepLocal ==
  ASSUME LocalNetwork, IInv, IInv', LInv, ClientStep
  PROVE  LInv'
<1>1. RcopyNext /\ UNCHANGED serverVars
  BY DEF ClientStep
<1>2. PICK m \in FromRcopy : ClientEffect(m)
  BY <1>1, ClientEffects
<1>3. SocketInv'
  BY <1>1, <1>2, ClientSockets DEF LInv
<1>4. AskingInv'
  BY <1>1, ClientAsking
<1>5. SendingInv'
  <2>1. CASE rState \in {"open"} \cup RcopyPolls
    BY <1>1, <2>1, ClientSending
  <2>2. CASE RcopyFilenameResponse
    BY <1>1, <2>2, ClientAnswered
  <2>3. CASE RcopyStart \/ RcopyFilenameTimeout \/ RcopyFilenameCorrupt
    <3>1. rState' \in {"filename", "done"}
      BY <2>3
         DEF RcopyStart, RcopyFilenameTimeout, RcopyFilenameCorrupt, RetryFilename,
             RcopyMoves
    <3>2. QED
      BY <3>1 DEF SendingInv, RcopyPolls
  <2>4. QED
    BY <1>1, <2>1, <2>2, <2>3
       DEF RcopyNext, RcopySend, RcopyDrained, RcopyEof, RcopyAwaitAcks,
           RcopyWindowClosed, RcopyPollTimeout, RcopyReceiveCorrupt, RcopyReceiveRR,
           RcopyReceiveSrej, RcopyPolls
<1>6. WindowInv'
  BY <1>1, ClientWindow
<1>7. QED
  BY <1>3, <1>4, <1>5, <1>6 DEF LInv


-----------------------------------------------------------------------------
(***************************************************************************)
(* What a step of child c does to the queues: it may receive, and it may   *)
(* send ds to rcopy.                                                       *)
(***************************************************************************)
ChildQueues(c, ds) ==
  /\ Thinned(inbox[c], inbox'[c])
  /\ \A p \in Endpoints \ {c, Client} : inbox'[p] = inbox[p]
  /\ \/ inbox'[Client] = inbox[Client]
     \/ /\ Client \in sockets
        /\ inbox'[Client] = Queued(inbox[Client], ds)
        /\ \/ sState[c] = "forked" /\ inbox'[c] = inbox[c]
           \/ sState[c] = "flush"
           \/ Arrived(c) /\ inbox'[c] \in {<<>>, Tail(inbox[c])}
  /\ \/ sockets' = sockets
     \/ sockets' = sockets \ {c} /\ inbox'[c] = <<>>
     \/ sockets' = sockets \cup {c} /\ sState[c] = "forked"

LEMMA ChildMovesQueues ==
  ASSUME UdpInv, NEW c \in Children, NEW box, NEW s, NEW ds,
         box = inbox \/ (Arrived(c) /\ box = Taken(c)),
         \/ ChildMoves(c, s, box)
         \/ /\ ChildMoves(c, s, Delivered(box, Client, ds))
            /\ sState[c] = "flush" \/ (Arrived(c) /\ box = Taken(c))
  PROVE  ChildQueues(c, ds)
<1>1. /\ inbox = [p \in Endpoints |-> inbox[p]]
      /\ inbox[c] \in Seq(MayReceive(c, file))
      /\ c \in Endpoints /\ Client \in Endpoints /\ c # Client
  BY EndpointsFacts DEF UdpInv, MailOK
<1>2. /\ box = [p \in Endpoints |-> box[p]]
      /\ \A p \in Endpoints \ {c} : box[p] = inbox[p]
      /\ \/ box[c] = inbox[c]
         \/ inbox[c] # <<>> /\ box[c] = Tail(inbox[c])
      /\ box = Taken(c) => box[c] = Tail(inbox[c])
  BY <1>1 DEF Arrived, Taken
<1>3. Thinned(inbox[c], box[c]) /\ Thinned(inbox[c], <<>>)
  BY <1>1, <1>2, ThinnedSame, ThinnedTail, ThinnedEmpty
<1>4. PICK out :
        /\ ChildMoves(c, s, out)
        /\ \/ out = box
           \/ /\ out = Delivered(box, Client, ds)
              /\ sState[c] = "flush" \/ (Arrived(c) /\ box = Taken(c))
  OBVIOUS
<1>5. /\ out = [p \in Endpoints |-> out[p]]
      /\ out[c] = box[c]
      /\ \A p \in Endpoints \ {c, Client} : out[p] = inbox[p]
      /\ \/ out[Client] = inbox[Client]
         \/ /\ Client \in sockets
            /\ out[Client] = Queued(inbox[Client], ds)
            /\ sState[c] = "flush" \/ (Arrived(c) /\ box[c] = Tail(inbox[c]))
  <2>1. CASE out = box
    BY <1>1, <1>2, <2>1
  <2>2. CASE /\ out = Delivered(box, Client, ds)
             /\ sState[c] = "flush" \/ (Arrived(c) /\ box = Taken(c))
    BY <1>1, <1>2, <2>2 DEF Delivered
  <2>3. QED
    BY <1>4, <2>1, <2>2
<1>6. CASE s \in Ended
  <2>1. /\ sockets' = sockets \ {c}
        /\ inbox' = [out EXCEPT ![c] = <<>>]
    BY <1>4, <1>6 DEF ChildMoves
  <2>2. inbox'[c] = <<>> /\ \A p \in Endpoints \ {c} : inbox'[p] = out[p]
    BY <1>1, <1>5, <2>1
  <2>3. QED
    BY <1>1, <1>3, <1>5, <2>1, <2>2 DEF ChildQueues
<1>7. CASE s \notin Ended
  <2>1. sockets' = sockets /\ inbox' = out
    BY <1>4, <1>7 DEF ChildMoves
  <2>2. QED
    BY <1>1, <1>3, <1>5, <2>1 DEF ChildQueues
<1>8. QED
  BY <1>6, <1>7

(* What child c tells rcopy.  Once it has started, that is the number it    *)
(* has come to.                                                             *)
ChildSays(c, d) ==
  /\ d.from = c
  /\ sState[c] # "forked" =>
       /\ d.ok
       /\ d.flag \in {RR_FLAG, SREJ_FLAG}
       /\ d.body = expected'[c]
       /\ d.flag = SREJ_FLAG => d.body < current

(* All that a step of child c can mean to the others.                       *)
ChildEffect(c, ds) ==
  /\ ChildQueues(c, ds)
  /\ ds \in Seq(Datagram(Endpoints))
  /\ \A i \in 1 .. Len(ds) : ChildSays(c, ds[i])
  /\ sState[c] # "flush" => Len(ds) <= 1
  /\ sState[c] # "unused" /\ sState'[c] \notin {"unused", "forked"}
  /\ \A d \in Children \ {c} :
       sState'[d] = sState[d] /\ expected'[d] = expected[d] /\ highest'[d] = highest[d]
  /\ expected[c] <= expected'[c]
  /\ highest'[c] <= Sent(c)
  /\ sState'[c] = "flush" => 0 < highest'[c]
  /\ due' \subseteq due


LEMMA OneSays ==
  ASSUME NEW c, NEW d \in Datagram(Endpoints), ChildSays(c, d)
  PROVE  LET ds == <<d>> IN
         /\ ds \in Seq(Datagram(Endpoints))
         /\ \A i \in 1 .. Len(ds) : ChildSays(c, ds[i])
         /\ Len(ds) <= 1
<1> DEFINE ds == <<d>>
<1>1. ds \in Seq(Datagram(Endpoints)) /\ Len(ds) = 1 /\ ds[1] = d
  BY Singleton
<1> HIDE DEF ds
<1>2. \A i \in 1 .. Len(ds) : i = 1
  BY <1>1
<1>3. QED
  BY <1>1, <1>2 DEF ds

LEMMA ChildAnswers ==
  ASSUME NEW c \in Children, NEW n \in Nat
  PROVE  /\ Rr(c, n) \in Datagram(Endpoints) /\ Srej(c, n) \in Datagram(Endpoints)
         /\ n = expected'[c] => ChildSays(c, Rr(c, n))
         /\ n = expected'[c] /\ n < current => ChildSays(c, Srej(c, n))
         /\ \A ok \in BOOLEAN :
              /\ FilenameResponse(c, ok) \in Datagram(Endpoints)
              /\ sState[c] = "forked" => ChildSays(c, FilenameResponse(c, ok))
BY EndpointsFacts
   DEF Rr, Srej, FilenameResponse, createPDU, Datagram, ChildSays, RR_FLAG, SREJ_FLAG,
       FILENAME_RESPONSE_FLAG, FILENAME_OK_FLAG, FILENAME_BAD_FLAG

(* A packet child c has received, and what it may do to the highest number. *)
LEMMA ReceivedBySent ==
  ASSUME IInv, WindowInv, NEW c \in Children, Arrived(c)
  PROVE  LET m == Head(inbox[c]) IN
         /\ m \in FromRcopy /\ m.from = Client
         /\ m.ok => m.seq \in Nat /\ m.seq <= Sent(c)
         /\ m.ok /\ expected[c] < m.seq => expected[c] < current
<1> DEFINE m == Head(inbox[c])
<1>1. m \in FromRcopy /\ m.from = Client
  BY ChildReceivesOK DEF IInv
<1>2. m \in Mail(c)
  <2>1. inbox[c] \in Seq(MayReceive(c, file)) /\ inbox[c] # <<>>
    BY EndpointsFacts DEF IInv, UdpInv, MailOK, Arrived
  <2>2. QED
    BY <2>1, TailElements DEF Mail
<1>3. m.ok => m.seq \in Nat /\ m.seq <= Sent(c)
  BY <1>1, <1>2, SeqBounded, ParamsAssumption DEF WindowInv
<1>4. m.ok /\ expected[c] < m.seq => expected[c] < current
  <2>1. expected[c] \in Nat /\ current \in Int
    BY ParamsAssumption DEF IInv, ServerInv, ChildInv, RcopyInv
  <2>2. QED
    BY <1>3, <2>1 DEF Sent
<1>5. QED
  BY <1>1, <1>3, <1>4

LEMMA ChildEffects ==
  ASSUME IInv, RInv, LInv, NEW c \in Children, ChildNext(c)
  PROVE  \E ds : ChildEffect(c, ds)
<1> DEFINE m == Head(inbox[c])
           e == expected[c]
<1>1. /\ UdpInv /\ ServerInv
      /\ sState = [x \in Children |-> sState[x]]
      /\ expected = [x \in Children |-> expected[x]]
      /\ highest = [x \in Children |-> highest[x]]
      /\ e \in Nat /\ highest[c] \in Int
      /\ highest[c] <= Sent(c) /\ Sent(c) \in Int
      /\ sState[c] = "flush" => 0 < highest[c]
      /\ current \in Int
  BY ParamsAssumption
     DEF IInv, ServerInv, ChildInv, RcopyInv, LInv, WindowInv, Sent
<1>2. \A d \in Children \ {c} :
        sState'[d] = sState[d] /\ expected'[d] = expected[d] /\ highest'[d] = highest[d]
  BY <1>1, OthersUntouched
<1>3. Arrived(c) =>
        /\ m \in FromRcopy /\ m.from = Client
        /\ m.ok => m.seq \in Nat /\ m.seq <= Sent(c)
        /\ m.ok /\ e < m.seq => e < current
  BY ReceivedBySent DEF LInv
<1>4. <<>> \in Seq(Datagram(Endpoints)) /\ Len(<<>>) = 0
  BY EmptySeq
<1>5. ASSUME ChildQueues(c, <<>>),
             sState[c] # "unused", sState'[c] \notin {"unused", "forked"},
             expected[c] <= expected'[c], highest'[c] <= Sent(c),
             sState'[c] = "flush" => 0 < highest'[c], due' \subseteq due
      PROVE  ChildEffect(c, <<>>)
  BY <1>2, <1>4, <1>5 DEF ChildEffect
<1>6. ASSUME NEW d \in Datagram(Endpoints), ChildQueues(c, <<d>>), ChildSays(c, d),
             sState[c] # "unused", sState'[c] \notin {"unused", "forked"},
             expected[c] <= expected'[c], highest'[c] <= Sent(c),
             sState'[c] = "flush" => 0 < highest'[c], due' \subseteq due
      PROVE  ChildEffect(c, <<d>>)
  BY <1>2, <1>6, OneSays DEF ChildEffect
<1>7. CASE ChildStart(c)
  <2>1. PICK ok \in OpenOutcomes :
          /\ sState' = [sState EXCEPT ![c] = IF ok THEN "inOrder" ELSE "done"]
          /\ sockets' = IF ok THEN sockets \cup {c} ELSE sockets
          /\ inbox' = Delivered(inbox, Client, <<FilenameResponse(c, ok)>>)
    BY <1>7 DEF ChildStart
  <2>2. ok \in BOOLEAN
    BY ServerAssumption
  <2> DEFINE d == FilenameResponse(c, ok)
  <2>3. d \in Datagram(Endpoints) /\ ChildSays(c, d)
    BY <1>1, <1>7, <2>2, ChildAnswers DEF ChildStart
  <2>4. ChildQueues(c, <<d>>)
    <3>1. /\ inbox = [p \in Endpoints |-> inbox[p]]
          /\ c \in Endpoints /\ Client \in Endpoints /\ c # Client
      BY EndpointsFacts DEF IInv, UdpInv, MailOK
    <3>2. /\ \A p \in Endpoints \ {Client} : inbox'[p] = inbox[p]
          /\ \/ inbox'[Client] = inbox[Client]
             \/ Client \in sockets /\ inbox'[Client] = Queued(inbox[Client], <<d>>)
      BY <2>1, <3>1 DEF Delivered
    <3>3. Thinned(inbox[c], inbox'[c])
      <4>1. inbox[c] \in Seq(MayReceive(c, file))
        BY <3>1 DEF IInv, UdpInv, MailOK
      <4>2. QED
        BY <3>1, <3>2, <4>1, ThinnedSame
    <3>4. QED
      BY <1>7, <2>1, <3>1, <3>2, <3>3 DEF ChildQueues, ChildStart
  <2>5. /\ sState[c] = "forked" /\ sState'[c] \in {"inOrder", "done"}
        /\ expected' = expected /\ highest' = highest /\ due' = due
    BY <1>1, <1>7, <2>1 DEF ChildStart
  <2> HIDE DEF d
  <2>6. QED
    BY <1>1, <1>6, <2>3, <2>4, <2>5
<1>8. CASE ChildTimeout(c) \/ ChildEmptyDatagram(c) \/ ChildCorrupt(c) \/ InOrderEof(c)
  <2>1. /\ sState[c] \in Receiving
        /\ sState' = [sState EXCEPT ![c] = sState'[c]]
        /\ sState'[c] \in Receiving \cup Ended
        /\ expected' = expected /\ highest' = highest /\ due' \subseteq due
    BY <1>1, <1>8
       DEF ChildTimeout, ChildEmptyDatagram, ChildCorrupt, InOrderEof, ChildReceives,
           ChildMoves, PollReturns, Ended, Receiving
  <2>2. ChildQueues(c, <<>>)
    BY <1>1, <1>8, ChildMovesQueues
       DEF ChildTimeout, ChildEmptyDatagram, ChildCorrupt, InOrderEof, ChildReceives
  <2>3. QED
    BY <1>1, <1>5, <2>1, <2>2 DEF Receiving, Ended
<1>9. CASE ChildOldPacket(c)
  <2> DEFINE d == Rr(c, e)
  <2>1. /\ sState[c] \in Receiving /\ sState'[c] = sState[c]
        /\ expected' = expected /\ highest' = highest /\ due' \subseteq due
    BY <1>1, <1>9 DEF ChildOldPacket, ChildReceives, ChildMoves, PollReturns
  <2>2. d \in Datagram(Endpoints) /\ ChildSays(c, d)
    BY <1>1, <2>1, ChildAnswers
  <2>3. ChildQueues(c, <<d>>)
    BY <1>1, <1>3, <1>9, ChildMovesQueues DEF ChildOldPacket, ChildReceives, OldPacketReply
  <2> HIDE DEF d
  <2>4. QED
    BY <1>1, <1>6, <2>1, <2>2, <2>3 DEF Receiving
<1>10. CASE InOrderExpected(c)
  <2> DEFINE d == Rr(c, e + 1)
  <2>1. /\ sState[c] = "inOrder" /\ sState'[c] = "inOrder"
        /\ expected'[c] = e + 1 /\ due' \subseteq due
        /\ highest'[c] = IF m.seq > highest[c] THEN m.seq ELSE highest[c]
        /\ Arrived(c) /\ m.ok
    BY <1>1, <1>10
       DEF InOrderExpected, ChildReceives, ChildMoves, PollReturns, TakenAsData
  <2>2. d \in Datagram(Endpoints) /\ ChildSays(c, d)
    BY <1>1, <2>1, ChildAnswers
  <2>3. ChildQueues(c, <<d>>)
    BY <1>1, <1>3, <1>10, ChildMovesQueues DEF InOrderExpected, ChildReceives
  <2>4. highest'[c] <= Sent(c) /\ e <= expected'[c]
    BY <1>1, <1>3, <2>1
  <2> HIDE DEF d
  <2>5. QED
    BY <1>1, <1>6, <2>1, <2>2, <2>3, <2>4
<1>11. CASE InOrderAhead(c) \/ InOrderAheadNoRing(c)
  <2> DEFINE d == Srej(c, e)
  <2>1. /\ sState[c] = "inOrder" /\ sState'[c] \in {"buffer", "crashed"}
        /\ expected' = expected /\ due' \subseteq due
        /\ \/ highest' = highest
           \/ highest'[c] = IF m.seq > highest[c] THEN m.seq ELSE highest[c]
        /\ Arrived(c) /\ m.ok /\ m.seq > e
    BY <1>1, <1>11
       DEF InOrderAhead, InOrderAheadNoRing, Buffered, ChildReceives, ChildMoves,
           PollReturns, TakenAsData
  <2>2. d \in Datagram(Endpoints) /\ ChildSays(c, d)
    <3>1. e < current
      BY <1>1, <1>3, <2>1
    <3>2. QED
      BY <1>1, <2>1, <3>1, ChildAnswers
  <2>3. ChildQueues(c, <<d>>)
    BY <1>1, <1>3, <1>11, ChildMovesQueues
       DEF InOrderAhead, InOrderAheadNoRing, ChildReceives
  <2>4. highest'[c] <= Sent(c) /\ e <= expected'[c]
    BY <1>1, <1>3, <2>1
  <2> HIDE DEF d
  <2>5. QED
    BY <1>1, <1>6, <2>1, <2>2, <2>3, <2>4
<1>12. CASE BufferExpected(c)
  <2>1. /\ sState[c] = "buffer" /\ sState'[c] = "flush"
        /\ expected'[c] = e + 1 /\ highest' = highest /\ due' \subseteq due
    BY <1>1, <1>12 DEF BufferExpected, ChildReceives, ChildMoves, PollReturns
  <2>2. 0 < highest[c] /\ e <= expected'[c]
    <3>1. e < highest[c]
      BY <2>1 DEF RInv, RingInv
    <3>2. QED
      BY <1>1, <2>1, <3>1
  <2>3. ChildQueues(c, <<>>)
    BY <1>1, <1>12, ChildMovesQueues DEF BufferExpected, ChildReceives
  <2>4. QED
    BY <1>1, <1>5, <2>1, <2>2, <2>3
<1>13. CASE BufferAhead(c)
  <2>1. /\ sState[c] = "buffer" /\ sState'[c] = "buffer"
        /\ expected' = expected /\ due' \subseteq due
        /\ highest'[c] = IF m.seq > highest[c] THEN m.seq ELSE highest[c]
        /\ Arrived(c) /\ m.ok
    BY <1>1, <1>13
       DEF BufferAhead, Buffered, ChildReceives, ChildMoves, PollReturns, TakenAsData
  <2>2. highest'[c] <= Sent(c) /\ e <= expected'[c]
    BY <1>1, <1>3, <2>1
  <2>3. ChildQueues(c, <<>>)
    BY <1>1, <1>13, ChildMovesQueues DEF BufferAhead, ChildReceives
  <2>4. QED
    BY <1>1, <1>5, <2>1, <2>2, <2>3
<1>14. CASE ChildFlush(c)
  <2>1. PICK x \in e .. (highest[c] + 1) :
          /\ expected' = [expected EXCEPT ![c] = x]
          /\ IF x < highest[c]
             THEN ChildMoves(c, "buffer", Delivered(inbox, Client, <<Rr(c, x), Srej(c, x)>>))
             ELSE ChildMoves(c, "inOrder", Delivered(inbox, Client, <<Rr(c, x)>>))
    BY <1>14 DEF ChildFlush
  <2>2. /\ sState[c] = "flush" /\ sState'[c] \in {"buffer", "inOrder"}
        /\ expected'[c] = x /\ highest' = highest /\ due' = due
        /\ x \in Nat /\ e <= x
    BY <1>1, <1>14, <2>1 DEF ChildFlush, ChildMoves
  <2>3. CASE x < highest[c]
    <3> DEFINE a == Rr(c, x)
               b == Srej(c, x)
               ds == <<a, b>>
    <3>1. x < current
      BY <1>1, <2>2, <2>3 DEF Sent
    <3>2. /\ a \in Datagram(Endpoints) /\ ChildSays(c, a)
          /\ b \in Datagram(Endpoints) /\ ChildSays(c, b)
      BY <2>2, <3>1, ChildAnswers
    <3>3. ChildQueues(c, ds)
      BY <1>1, <2>1, <2>2, <2>3, ChildMovesQueues
    <3> HIDE DEF a, b
    <3>4. ds \in Seq(Datagram(Endpoints)) /\ \A i \in 1 .. Len(ds) : ChildSays(c, ds[i])
      BY <3>2
    <3> HIDE DEF ds
    <3>5. QED
      BY <1>1, <1>2, <2>2, <3>3, <3>4 DEF ChildEffect
  <2>4. CASE ~(x < highest[c])
    <3> DEFINE d == Rr(c, x)
    <3>1. d \in Datagram(Endpoints) /\ ChildSays(c, d)
      BY <2>2, ChildAnswers
    <3>2. ChildQueues(c, <<d>>)
      BY <1>1, <2>1, <2>2, <2>4, ChildMovesQueues
    <3> HIDE DEF d
    <3>3. QED
      BY <1>1, <1>6, <2>2, <3>1, <3>2
  <2>5. QED
    BY <2>3, <2>4
<1>15. CASE ChildCutShort(c)
  <2>1. /\ sState[c] \in {"inOrder", "flush"}
        /\ ChildMoves(c, "killed", inbox)
        /\ highest' = highest /\ due' \subseteq due
    BY <1>15 DEF ChildCutShort, PollReturns
  <2>2. e <= expected'[c]
    <3>1. CASE sState[c] = "flush"
      <4>1. PICK x \in (e + 1) .. (highest[c] + 1) : expected' = [expected EXCEPT ![c] = x]
        BY <1>15, <3>1 DEF ChildCutShort
      <4>2. expected'[c] = x
        BY <1>1, <4>1
      <4>3. QED
        BY <1>1, <4>1, <4>2
    <3>2. CASE sState[c] # "flush"
      <4>1. expected' = [expected EXCEPT ![c] = e + 1]
        BY <1>15, <3>2 DEF ChildCutShort
      <4>2. QED
        BY <1>1, <4>1
    <3>3. QED
      BY <3>1, <3>2
  <2>3. sState'[c] = "killed"
    BY <1>1, <2>1 DEF ChildMoves
  <2>4. ChildQueues(c, <<>>)
    BY <1>1, <2>1, ChildMovesQueues
  <2>5. highest'[c] <= Sent(c)
    BY <1>1, <2>1
  <2>6. QED
    BY <1>5, <2>1, <2>2, <2>3, <2>4, <2>5
<1>16. QED
  BY <1>7, <1>8, <1>9, <1>10, <1>11, <1>12, <1>13, <1>14, <1>15 DEF ChildNext


-----------------------------------------------------------------------------
(***************************************************************************)
(* Steps of a child.                                                       *)
(***************************************************************************)
LEMMA ChildSockets ==
  ASSUME IInv, SocketInv, NEW c \in Children, NEW ds, ChildEffect(c, ds),
         UNCHANGED rcopyVars
  PROVE  SocketInv'
<1>1. /\ Thinned(inbox[c], inbox'[c])
      /\ \A p \in Endpoints \ {c, Client} : inbox'[p] = inbox[p]
      /\ \/ inbox'[Client] = inbox[Client]
         \/ Client \in sockets /\ inbox'[Client] = Queued(inbox[Client], ds)
      /\ \/ sockets' = sockets
         \/ sockets' = sockets \ {c} /\ inbox'[c] = <<>>
         \/ sockets' = sockets \cup {c}
      /\ c \in Endpoints /\ Client \in Endpoints /\ c # Client
      /\ server' = server
  BY EndpointsFacts DEF ChildEffect, ChildQueues, rcopyVars
<1>2. Started(c)' /\ \A d \in Children : Started(d) => Started(d)'
  BY DEF ChildEffect, Started
<1>3. ASSUME NEW p \in Endpoints, p \notin sockets' PROVE inbox'[p] = <<>>
  <2>1. CASE p = c
    BY <1>1, <1>3, <2>1 DEF SocketInv, Thinned
  <2>2. CASE p = Client
    BY <1>1, <1>3, <2>2 DEF SocketInv
  <2>3. CASE p \notin {c, Client}
    BY <1>1, <1>3, <2>3 DEF SocketInv
  <2>4. QED
    BY <2>1, <2>2, <2>3
<1>4. ASSUME NEW d \in Children, d \in sockets' PROVE Started(d)'
  BY <1>1, <1>2, <1>4 DEF SocketInv
<1>5. ASSUME NEW x \in Mail(Client)' PROVE Started(x.from)'
  <2>1. CASE inbox'[Client] = inbox[Client]
    <3>1. x \in Mail(Client)
      BY <2>1 DEF Mail
    <3>2. x.from \in Children
      <4>1. inbox[Client] \in Seq(FromChildren(file))
        BY <1>1 DEF IInv, UdpInv, MailOK, MayReceive
      <4>2. x \in FromChildren(file)
        BY <3>1, <4>1, ElementOfSeq DEF Mail
      <4>3. QED
        BY <4>2 DEF FromChildren
    <3>3. QED
      BY <1>2, <3>1, <3>2 DEF SocketInv
  <2>2. CASE inbox'[Client] = Queued(inbox[Client], ds)
    <3>1. /\ inbox[Client] \in Seq(Datagram(Endpoints)) /\ ds \in Seq(Datagram(Endpoints))
          /\ inbox[Client] \in Seq(FromChildren(file))
      BY <1>1, TypeOKFollows
         DEF TypeOK, UdpTypeOK, ChildEffect, IInv, UdpInv, MailOK, MayReceive
    <3>2. PICK i \in 1 .. Len(inbox'[Client]) : x = inbox'[Client][i]
      BY DEF Mail
    <3>3. \/ i \in 1 .. Len(inbox[Client]) /\ x = inbox[Client][i]
          \/ i - Len(inbox[Client]) \in 1 .. Len(ds) /\ x = ds[i - Len(inbox[Client])]
      BY <2>2, <3>1, <3>2, QueuedElements
    <3>4. CASE i \in 1 .. Len(inbox[Client]) /\ x = inbox[Client][i]
      <4>1. x \in FromChildren(file) /\ x \in Mail(Client)
        BY <3>1, <3>4, ElementOfSeq DEF Mail
      <4>2. QED
        BY <1>2, <4>1 DEF SocketInv, FromChildren
    <3>5. CASE i - Len(inbox[Client]) \in 1 .. Len(ds) /\ x = ds[i - Len(inbox[Client])]
      <4>1. x.from = c
        BY <3>5 DEF ChildEffect, ChildSays
      <4>2. QED
        BY <1>2, <4>1
    <3>6. QED
      BY <3>3, <3>4, <3>5
  <2>3. QED
    BY <1>1, <2>1, <2>2
<1>6. server' # Main => Started(server)'
  <2>1. server # Main => server \in Children
    BY DEF IInv, RcopyInv, Endpoints
  <2>2. QED
    BY <1>1, <1>2, <2>1 DEF SocketInv
<1>7. QED
  BY <1>3, <1>4, <1>5, <1>6 DEF SocketInv

(* A child that speaks had something to do, and has nothing left if it was  *)
(* the only one.                                                            *)
LEMMA ChildSpeaks ==
  ASSUME IInv, WindowInv, SocketInv, NEW c \in Children, NEW ds, ChildEffect(c, ds),
         c # server \/ current <= 0, inbox'[Client] # inbox[Client]
  PROVE  /\ Active(c)
         /\ Len(inbox[c]) <= 1 => ~Active(c)'
         /\ inbox'[Client] = Queued(inbox[Client], ds)
         /\ Len(ds) <= 1
<1>1. sState[c] # "flush"
  BY DEF WindowInv, Sent, IInv, ServerInv, ChildInv, RcopyInv
<1>2. /\ inbox'[Client] = Queued(inbox[Client], ds)
      /\ \/ sState[c] = "forked" /\ inbox'[c] = inbox[c]
         \/ Arrived(c) /\ inbox'[c] \in {<<>>, Tail(inbox[c])}
      /\ Len(ds) <= 1
      /\ sState'[c] # "forked"
  BY <1>1 DEF ChildEffect, ChildQueues
<1>3. c \in Endpoints /\ c # Main
  BY EndpointsFacts
<1>4. Active(c)
  BY <1>2, <1>3 DEF Active
<1>5. ASSUME Len(inbox[c]) <= 1 PROVE inbox'[c] = <<>>
  <2>1. inbox[c] \in Seq(MayReceive(c, file))
    BY <1>3 DEF IInv, UdpInv, MailOK
  <2>2. CASE sState[c] = "forked" /\ inbox'[c] = inbox[c]
    BY <1>3, <2>2 DEF SocketInv, Started
  <2>3. CASE Arrived(c) /\ inbox'[c] = Tail(inbox[c])
    <3>1. /\ Tail(inbox[c]) \in Seq(MayReceive(c, file))
          /\ Len(Tail(inbox[c])) = Len(inbox[c]) - 1
          /\ Len(inbox[c]) \in Nat \ {0}
      BY <2>1, <2>3, TailElements DEF Arrived
    <3> DEFINE n == Len(inbox[c])
    <3>2. n \in Nat \ {0} /\ n <= 1
      BY <1>5, <3>1
    <3> HIDE DEF n
    <3>3. n = 1
      BY <3>2
    <3>4. Len(Tail(inbox[c])) = 0
      BY <3>1, <3>3 DEF n
    <3>5. QED
      BY <2>3, <3>1, <3>4, EmptySeq
  <2>4. QED
    BY <1>2, <2>2, <2>3
<1>6. QED
  BY <1>2, <1>3, <1>4, <1>5 DEF Active, Arrived

(* A child makes nobody but rcopy and itself active.                        *)
LEMMA ChildActive ==
  ASSUME NEW c \in Children, NEW ds, ChildEffect(c, ds)
  PROVE  /\ CanFork' = CanFork
         /\ \A q \in Endpoints \ {Client} :
              /\ q # c => inbox'[q] = inbox[q]
              /\ Active(q)' => Active(q)
<1>1. /\ \A d \in Children : sState'[d] = "unused" <=> sState[d] = "unused"
      /\ \A d \in Children : sState'[d] = "forked" => sState[d] = "forked"
  BY DEF ChildEffect
<1>2. CanFork' = CanFork
  BY <1>1 DEF CanFork
<1>3. /\ Thinned(inbox[c], inbox'[c])
      /\ \A q \in Endpoints \ {Client} : q # c => inbox'[q] = inbox[q]
  BY DEF ChildEffect, ChildQueues
<1>4. \A q \in Endpoints \ {Client} : inbox'[q] # <<>> => inbox[q] # <<>>
  BY <1>3 DEF Thinned
<1>5. QED
  BY <1>1, <1>2, <1>3, <1>4 DEF Active, Arrived

LEMMA ThinnedShorter ==
  ASSUME NEW q, NEW r, Thinned(q, r)
  PROVE  Len(q) \in Nat /\ Len(r) \in Nat /\ Len(r) <= Len(q)
BY DEF Thinned

(* When nobody becomes active and no queue grows, there is still at most    *)
(* one datagram.                                                            *)
LEMMA StillOneAtATime ==
  ASSUME OneAtATime,
         \A q \in Endpoints : Active(q)' =>
           /\ Active(q)
           /\ Len(inbox[q]) \in Nat /\ Len(inbox'[q]) \in Nat
           /\ Len(inbox'[q]) <= Len(inbox[q])
  PROVE  OneAtATime'
<1>1. PICK p \in Endpoints : \A q \in Endpoints :
        Active(q) => q = p /\ Len(inbox[q]) <= 1
  BY DEF OneAtATime
<1>2. ASSUME NEW q \in Endpoints, Active(q)' PROVE q = p /\ Len(inbox'[q]) <= 1
  <2>1. /\ q = p /\ Len(inbox[q]) <= 1
        /\ Len(inbox[q]) \in Nat /\ Len(inbox'[q]) \in Nat
        /\ Len(inbox'[q]) <= Len(inbox[q])
    BY <1>1, <1>2
  <2> DEFINE m == Len(inbox[q])
             n == Len(inbox'[q])
  <2> HIDE DEF m, n
  <2>2. m <= 1 /\ m \in Nat /\ n \in Nat /\ n <= m
    BY <2>1 DEF m, n
  <2>3. n <= 1
    BY <2>2
  <2>4. QED
    BY <2>1, <2>3 DEF n
<1>3. QED
  BY <1>2 DEF OneAtATime

LEMMA ChildAsking ==
  ASSUME IInv, LInv, NEW c \in Children, NEW ds, ChildEffect(c, ds),
         UNCHANGED rcopyVars
  PROVE  AskingInv'
<1>1. /\ rState' = rState /\ current' = current /\ rr' = rr
      /\ due' \subseteq due
      /\ Thinned(inbox[c], inbox'[c])
      /\ Client \in Endpoints /\ c \in Endpoints /\ c # Client
  BY EndpointsFacts DEF rcopyVars, ChildEffect, ChildQueues
<1>2. SUFFICES ASSUME rState \in {"start", "filename"}
               PROVE  AskingInv'
  BY <1>1 DEF AskingInv
<1>3. /\ current = -1 /\ rr = 0
      /\ OneAtATime
      /\ rState = "start" \/ Client \in due => \A p \in Endpoints : ~Active(p)
      /\ rState = "start" => Client \notin due
  BY <1>2 DEF LInv, AskingInv
<1>4. \A q \in Endpoints : inbox[q] \in Seq(MayReceive(q, file)) /\ Len(inbox[q]) \in Nat
  BY DEF IInv, UdpInv, MailOK
<1>5. \A q \in Endpoints \ {Client} :
        /\ q # c => inbox'[q] = inbox[q]
        /\ Active(q)' => Active(q)
  BY ChildActive
<1>6. CASE inbox'[Client] = inbox[Client]
  <2>1. Active(Client)' = Active(Client)
    BY <1>6, EndpointsFacts DEF Active, Arrived
  <2>2. \A q \in Endpoints : Active(q)' => Active(q)
    BY <1>5, <2>1
  <2>3. \A q \in Endpoints :
          /\ Len(inbox[q]) \in Nat /\ Len(inbox'[q]) \in Nat
          /\ Len(inbox'[q]) <= Len(inbox[q])
    <3> TAKE q \in Endpoints
    <3>1. CASE q = c
      BY <1>1, <3>1, ThinnedShorter
    <3>2. CASE q # c
      <4>1. inbox'[q] = inbox[q]
        BY <1>5, <1>6, <3>2
      <4>2. QED
        BY <1>4, <4>1
    <3>3. QED
      BY <3>1, <3>2
  <2>4. OneAtATime'
    BY <1>3, <2>2, <2>3, StillOneAtATime
  <2>5. QED
    BY <1>1, <1>3, <2>2, <2>4 DEF AskingInv
<1>7. CASE inbox'[Client] # inbox[Client]
  <2>1. /\ Active(c)
        /\ Len(inbox[c]) <= 1 => ~Active(c)'
        /\ inbox'[Client] = Queued(inbox[Client], ds)
        /\ Len(ds) <= 1
    BY <1>3, <1>7, ChildSpeaks DEF LInv
  <2>2. \A q \in Endpoints : Active(q) => q = c /\ Len(inbox[q]) <= 1
    BY <1>1, <1>3, <2>1 DEF OneAtATime
  <2>3. \A q \in Endpoints : Active(q)' => q = Client
    BY <1>1, <1>5, <2>1, <2>2
  <2>4. inbox[Client] = <<>>
    BY <1>1, <2>2, EndpointsFacts DEF Active, Arrived
  <2>5. Len(inbox'[Client]) <= 1
    <3>1. inbox[Client] \in Seq(Datagram(Endpoints)) /\ ds \in Seq(Datagram(Endpoints))
      BY <2>4, EmptySeq DEF ChildEffect
    <3>2. /\ Len(inbox'[Client]) <= Len(inbox[Client]) + Len(ds)
          /\ inbox'[Client] \in Seq(Datagram(Endpoints))
      BY <2>1, <3>1, QueuedElements
    <3>3. Len(inbox[Client]) = 0 /\ Len(ds) \in Nat /\ Len(inbox'[Client]) \in Nat
      BY <2>4, <3>1, <3>2, EmptySeq
    <3> DEFINE n == Len(inbox'[Client])
               k == Len(ds)
    <3> HIDE DEF n, k
    <3>4. n \in Nat /\ k \in Nat /\ k <= 1 /\ n <= 0 + k
      BY <2>1, <3>2, <3>3 DEF n, k
    <3>5. n <= 1
      BY <3>4
    <3>6. QED
      BY <3>5 DEF n
  <2>6. OneAtATime'
    BY <1>1, <2>3, <2>5 DEF OneAtATime
  <2>7. rState # "start" /\ Client \notin due
    BY <1>1, <1>3, <2>1
  <2>8. QED
    BY <1>1, <1>3, <2>6, <2>7 DEF AskingInv
<1>8. QED
  BY <1>6, <1>7

LEMMA ChildSending ==
  ASSUME IInv, IInv', LInv, NEW c \in Children, NEW ds, ChildEffect(c, ds),
         UNCHANGED rcopyVars
  PROVE  SendingInv'
<1>1. /\ rState' = rState /\ current' = current /\ rr' = rr /\ upper' = upper
      /\ server' = server /\ ring' = ring /\ offset' = offset
      /\ Client \in Endpoints /\ c \in Endpoints /\ c # Client
  BY EndpointsFacts DEF rcopyVars
<1>2. SUFFICES ASSUME rState \in {"open"} \cup RcopyPolls
               PROVE  SendingInv'
  BY <1>1 DEF SendingInv
<1> DEFINE e == expected[server]
           f == expected'[server]
<1>3. /\ server # Main
      /\ \A p \in Endpoints : Active(p) => p \in {Client, server}
      /\ InOrder(inbox[Client], server, rr, e, current)
      /\ HoldsLatest
      /\ rState = "openPoll" => rr <= current
      /\ rState = "closedPoll" => ~isWindowOpen(current, upper)
  BY <1>2 DEF LInv, SendingInv
<1>4. /\ server \in Children
      /\ e \in Nat /\ f \in Nat /\ rr \in Int /\ current \in Int
      /\ rr <= e /\ e <= f
  <2>1. server \in Children /\ e \in Nat
    BY <1>3, ServerIsChild
  <2>2. f \in Nat
    BY <1>1, <1>3, <2>1, ParamsAssumption DEF IInv, ServerInv, ChildInv
  <2>3. rr \in Int /\ current \in Int /\ rr <= e
    BY <1>3 DEF LInv, WindowInv, IInv, RcopyInv
  <2>4. e <= f
    <3>1. CASE server = c
      BY <3>1 DEF ChildEffect
    <3>2. CASE server # c
      BY <2>1, <3>2 DEF ChildEffect
    <3>3. QED
      BY <3>1, <3>2
  <2>5. QED
    BY <2>1, <2>2, <2>3, <2>4
<1>5. \A p \in Endpoints : Active(p)' => p \in {Client, server'}
  BY <1>1, <1>3, ChildActive
<1>6. HoldsLatest'
  BY <1>1, <1>3 DEF HoldsLatest
<1>7. InOrder(inbox'[Client], server, rr, f, current)
  <2>1. CASE inbox'[Client] = inbox[Client]
    <3>1. InOrder(inbox[Client], server, rr, f, current)
      BY <1>3, <1>4, TopMayGrow
    <3>2. QED
      BY <2>1, <3>1
  <2>2. CASE inbox'[Client] # inbox[Client] /\ c = server
    <3>1. /\ inbox[Client] \in Seq(Datagram(Endpoints)) /\ ds \in Seq(Datagram(Endpoints))
      BY TypeOKFollows, <1>1 DEF TypeOK, UdpTypeOK, ChildEffect
    <3>2. inbox'[Client] = Queued(inbox[Client], ds)
      BY <2>2 DEF ChildEffect, ChildQueues
    <3>3. sState[c] # "forked"
      BY <1>3, <2>2 DEF LInv, SocketInv, Started
    <3>4. ASSUME NEW i \in 1 .. Len(ds)
          PROVE  ds[i].body = f /\ Answer(ds[i], c, rr, f, current)
      <4>1. /\ ds[i].from = c
            /\ ds[i].flag \in {RR_FLAG, SREJ_FLAG}
            /\ ds[i].body = f
            /\ ds[i].flag = SREJ_FLAG => ds[i].body < current
        BY <2>2, <3>3, <3>4 DEF ChildEffect, ChildSays
      <4>2. f \in rr .. f
        BY <1>4
      <4>3. QED
        BY <4>1, <4>2 DEF Answer
    <3>5. rr <= f
      BY <1>4
    <3>6. InOrder(Queued(inbox[Client], ds), c, rr, f, current)
      BY <1>3, <1>4, <2>2, <3>1, <3>4, <3>5, QueuedInOrder
    <3>7. QED
      BY <2>2, <3>2, <3>6
  <2>3. CASE inbox'[Client] # inbox[Client] /\ c # server
    <3>1. Active(c)
      BY <2>3, ChildSpeaks DEF LInv
    <3>2. QED
      BY <1>1, <1>3, <2>3, <3>1
  <2>4. QED
    BY <2>1, <2>2, <2>3
<1>8. QED
  BY <1>1, <1>3, <1>5, <1>6, <1>7 DEF SendingInv

(* A queue that was thinned holds no higher number than before.             *)
LEMMA ThinnedHeardOf ==
  ASSUME NEW c \in Children, Thinned(inbox[c], inbox'[c]),
         \A m \in Mail(c) : m.ok => m.seq <= Sent(c),
         UNCHANGED rcopyVars
  PROVE  \A m \in Mail(c)' : m.ok => m.seq <= Sent(c)'
<1>1. Sent(c)' = Sent(c)
  BY DEF Sent, rcopyVars
<1>2. ASSUME NEW m \in Mail(c)', m.ok PROVE m.seq <= Sent(c)'
  <2>1. PICK y \in Mail(c) : Survivor(m, y)
    BY MailSurvives
  <2>2. m = y
    BY <1>2, <2>1 DEF Survivor
  <2>3. QED
    BY <1>1, <1>2, <2>1, <2>2
<1>3. QED
  BY <1>2

LEMMA ChildWindow ==
  ASSUME IInv, IInv', LInv, NEW c \in Children, NEW ds, ChildEffect(c, ds),
         UNCHANGED rcopyVars
  PROVE  WindowInv'
<1>1. /\ rState' = rState /\ current' = current /\ rr' = rr /\ upper' = upper
      /\ server' = server
      /\ \A d \in Children : Sent(d)' = Sent(d)
  BY DEF rcopyVars, Sent
<1>2. server' # Main => rr' <= expected'[server']
  <2> SUFFICES ASSUME server # Main PROVE rr <= expected'[server]
    BY <1>1
  <2>1. /\ server \in Children /\ expected[server] \in Nat
        /\ rr <= expected[server] /\ rr \in Nat
    BY ServerIsChild DEF LInv, WindowInv, IInv, RcopyInv
  <2>2. expected'[server] \in Nat
    BY <2>1, ParamsAssumption DEF IInv, ServerInv, ChildInv
  <2>3. expected[server] <= expected'[server]
    <3>1. CASE server = c
      BY <3>1 DEF ChildEffect
    <3>2. CASE server # c
      BY <2>1, <3>2 DEF ChildEffect
    <3>3. QED
      BY <3>1, <3>2
  <2>4. QED
    BY <2>1, <2>2, <2>3
<1>3. ASSUME NEW d \in Children PROVE HeardOf(d)'
  <2>1. HeardOf(d)
    BY DEF LInv, WindowInv, HeardOf
  <2>2. Thinned(inbox[d], inbox'[d])
    <3>1. CASE d = c
      BY <3>1 DEF ChildEffect, ChildQueues
    <3>2. CASE d # c
      <4>1. inbox'[d] = inbox[d] /\ inbox[d] \in Seq(MayReceive(d, file))
        BY <3>2, EndpointsFacts DEF ChildEffect, ChildQueues, IInv, UdpInv, MailOK
      <4>2. QED
        BY <4>1, ThinnedSame
    <3>3. QED
      BY <3>1, <3>2
  <2>3. \A m \in Mail(d)' : m.ok => m.seq <= Sent(d)'
    BY <2>1, <2>2, ThinnedHeardOf DEF HeardOf
  <2>4. highest'[d] <= Sent(d)' /\ (sState'[d] = "flush" => 0 < highest'[d])
    <3>1. CASE d = c
      BY <1>1, <3>1 DEF ChildEffect
    <3>2. CASE d # c
      BY <1>1, <2>1, <3>2 DEF ChildEffect, HeardOf
    <3>3. QED
      BY <3>1, <3>2
  <2>5. QED
    BY <2>3, <2>4 DEF HeardOf
<1>4. /\ rState' \notin {"start", "done", "killed"} => upper' = rr' + WindowSize
      /\ current' < rr' + WindowSize
  BY <1>1 DEF LInv, WindowInv
<1>5. QED
  BY <1>2, <1>3, <1>4 DEF WindowInv, HeardOf

LEMMA ChildStepLocal ==
  ASSUME IInv, IInv', RInv, LInv, NEW c \in Children, ChildStep(c)
  PROVE  LInv'
<1>1. ChildNext(c) /\ UNCHANGED rcopyVars
  BY DEF ChildStep
<1>2. PICK ds : ChildEffect(c, ds)
  BY <1>1, ChildEffects
<1>3. SocketInv' /\ AskingInv' /\ SendingInv' /\ WindowInv'
  BY <1>1, <1>2, ChildSockets, ChildAsking, ChildSending, ChildWindow DEF LInv
<1>4. QED
  BY <1>3 DEF LInv

-----------------------------------------------------------------------------
(***************************************************************************)
(* Steps in which nobody sends: of the main server, of the network, of     *)
(* time, and the end of a process.                                         *)
(***************************************************************************)
NobodySends ==
  /\ \A p \in Endpoints : Thinned(inbox[p], inbox'[p])
  /\ sockets' \subseteq sockets
  /\ \A p \in sockets \ sockets' : inbox'[p] = <<>>
  /\ \A c \in Children : Started(c) => Started(c)'
  /\ \A c \in Children : sState'[c] = "flush" => sState[c] = "flush"
  /\ UNCHANGED <<current, upper, rr, ring, offset, server, expected, highest>>
  /\ rState' \in {rState, "killed"}

LEMMA SilentSockets ==
  ASSUME IInv, LInv, NobodySends
  PROVE  SocketInv'
<1>1. ASSUME NEW p \in Endpoints, p \notin sockets' PROVE inbox'[p] = <<>>
  BY <1>1 DEF NobodySends, Thinned, LInv, SocketInv
<1>2. ASSUME NEW c \in Children, c \in sockets' PROVE Started(c)'
  BY <1>2 DEF NobodySends, LInv, SocketInv
<1>3. ASSUME NEW x \in Mail(Client)' PROVE Started(x.from)'
  <2>1. PICK y \in Mail(Client) : Survivor(x, y)
    BY MailSurvives, EndpointsFacts DEF NobodySends
  <2>2. x.from = y.from
    BY <2>1 DEF Survivor
  <2>3. y.from \in Children
    <3>1. inbox[Client] \in Seq(FromChildren(file))
      BY EndpointsFacts DEF IInv, UdpInv, MailOK, MayReceive
    <3>2. y \in FromChildren(file)
      BY <3>1, ElementOfSeq DEF Mail
    <3>3. QED
      BY <3>2 DEF FromChildren
  <2>4. QED
    BY <2>2, <2>3 DEF NobodySends, LInv, SocketInv
<1>4. server' # Main => Started(server)'
  <2>1. server # Main => server \in Children
    BY ServerIsChild
  <2>2. QED
    BY <2>1 DEF NobodySends, LInv, SocketInv
<1>5. QED
  BY <1>1, <1>2, <1>3, <1>4 DEF SocketInv

LEMMA SilentWindow ==
  ASSUME IInv, LInv, NobodySends
  PROVE  WindowInv'
<1>1. /\ current' = current /\ rr' = rr /\ upper' = upper /\ server' = server
      /\ expected' = expected /\ highest' = highest
      /\ rState' \in {rState, "killed"}
      /\ \A c \in Children : Sent(c)' = Sent(c)
  BY DEF NobodySends, Sent
<1>2. ASSUME NEW c \in Children, NEW m \in Mail(c)', m.ok PROVE m.seq <= Sent(c)'
  <2>1. PICK y \in Mail(c) : Survivor(m, y)
    BY MailSurvives, EndpointsFacts DEF NobodySends
  <2>2. m = y
    BY <1>2, <2>1 DEF Survivor
  <2>3. QED
    BY <1>1, <1>2, <2>1, <2>2 DEF LInv, WindowInv
<1>3. \A c \in Children : sState'[c] = "flush" => sState[c] = "flush"
  BY DEF NobodySends
<1>4. QED
  BY <1>1, <1>2, <1>3 DEF LInv, WindowInv

LEMMA SilentSending ==
  ASSUME IInv, LInv, NobodySends,
         \A q \in Endpoints : Active(q)' => Active(q)
  PROVE  SendingInv'
<1>1. /\ current' = current /\ rr' = rr /\ upper' = upper /\ server' = server
      /\ expected' = expected /\ ring' = ring /\ offset' = offset
      /\ rState' \in {rState, "killed"}
      /\ Thinned(inbox[Client], inbox'[Client])
  BY EndpointsFacts DEF NobodySends
<1>2. SUFFICES ASSUME rState \in {"open"} \cup RcopyPolls, rState' = rState
               PROVE  SendingInv'
  BY <1>1 DEF SendingInv, RcopyPolls
<1>3. server # Main /\ InOrder(inbox[Client], server, rr, expected[server], current)
  BY <1>2 DEF LInv, SendingInv
<1>4. rr \in Int /\ current \in Int /\ expected[server] \in Int
  BY <1>3, ServerIsChild DEF IInv, RcopyInv
<1>5. InOrder(inbox'[Client], server, rr, expected[server], current)
  BY <1>1, <1>3, <1>4, ThinnedInOrder
<1>6. QED
  BY <1>1, <1>2, <1>5 DEF LInv, SendingInv, HoldsLatest

LEMMA SilentAsking ==
  ASSUME IInv, LInv, NobodySends,
         \A q \in Endpoints : Active(q)' => Active(q),
         Client \in due' => Client \in due \/ \A p \in Endpoints : ~Active(p),
         rState = "start" => Client \notin due'
  PROVE  AskingInv'
<1>1. /\ current' = current /\ rr' = rr
      /\ rState' \in {rState, "killed"}
  BY DEF NobodySends
<1>2. SUFFICES ASSUME rState \in {"start", "filename"}, rState' = rState
               PROVE  AskingInv'
  BY <1>1 DEF AskingInv
<1>3. \A q \in Endpoints :
        /\ Len(inbox[q]) \in Nat /\ Len(inbox'[q]) \in Nat
        /\ Len(inbox'[q]) <= Len(inbox[q])
  BY ThinnedShorter DEF NobodySends
<1>4. OneAtATime'
  BY <1>2, <1>3, StillOneAtATime DEF LInv, AskingInv
<1>5. QED
  BY <1>1, <1>2, <1>4 DEF LInv, AskingInv

LEMMA SilentStep ==
  ASSUME IInv, LInv, NobodySends,
         \A q \in Endpoints : Active(q)' => Active(q),
         Client \in due' => Client \in due \/ \A p \in Endpoints : ~Active(p),
         rState = "start" => Client \notin due'
  PROVE  LInv'
BY SilentSockets, SilentWindow, SilentSending, SilentAsking DEF LInv

(* The main server receives; a child may be forked.                         *)
LEMMA MainReceives ==
  ASSUME IInv, Arrived(Main), inbox' = Taken(Main)
  PROVE  /\ \A p \in Endpoints : Thinned(inbox[p], inbox'[p])
         /\ \A p \in Endpoints \ {Main} : inbox'[p] = inbox[p]
         /\ inbox'[Main] = Tail(inbox[Main])
<1>1. /\ inbox = [p \in Endpoints |-> inbox[p]]
      /\ \A p \in Endpoints : inbox[p] \in Seq(MayReceive(p, file))
      /\ Main \in Endpoints
  BY EndpointsFacts DEF IInv, UdpInv, MailOK
<1>2. /\ \A p \in Endpoints \ {Main} : inbox'[p] = inbox[p]
      /\ inbox'[Main] = Tail(inbox[Main])
  BY <1>1 DEF Taken
<1>3. Thinned(inbox[Main], inbox'[Main])
  BY <1>1, <1>2, ThinnedTail DEF Arrived
<1>4. \A p \in Endpoints \ {Main} : Thinned(inbox[p], inbox'[p])
  BY <1>1, <1>2, ThinnedSame
<1>5. QED
  BY <1>2, <1>3, <1>4

LEMMA LastTaken ==
  ASSUME NEW S, NEW q \in Seq(S), q # <<>>, Len(q) <= 1
  PROVE  Tail(q) = <<>>
<1>1. Tail(q) \in Seq(S) /\ Len(Tail(q)) = Len(q) - 1 /\ Len(q) \in Nat \ {0}
  BY TailElements
<1> DEFINE n == Len(q)
<1>2. n \in Nat \ {0} /\ n <= 1
  BY <1>1
<1> HIDE DEF n
<1>3. n = 1
  BY <1>2
<1>4. Len(Tail(q)) = 0
  BY <1>1, <1>3 DEF n
<1>5. QED
  BY <1>1, <1>4, EmptySeq

(* The forked child takes over from the datagram it was forked for.         *)
LEMMA ForkAsking ==
  ASSUME IInv, LInv, NEW c \in Children, ServerFork(c), UNCHANGED rcopyVars
  PROVE  AskingInv'
<1>1. /\ rState' = rState /\ current' = current /\ rr' = rr /\ due' = due
      /\ sState[c] = "unused" /\ sState' = [sState EXCEPT ![c] = "forked"]
      /\ Arrived(Main) /\ inbox' = Taken(Main)
  BY DEF ServerFork, rcopyVars
<1>2. SUFFICES ASSUME rState \in {"start", "filename"}
               PROVE  AskingInv'
  BY <1>1 DEF AskingInv
<1>3. Active(Main) /\ Main \in Endpoints /\ c \in Endpoints /\ c # Main
  BY <1>1, EndpointsFacts DEF Active, CanFork
<1>4. \A q \in Endpoints : Active(q) => q = Main /\ Len(inbox[q]) <= 1
  BY <1>2, <1>3 DEF LInv, AskingInv, OneAtATime
<1>5. /\ \A p \in Endpoints \ {Main} : inbox'[p] = inbox[p]
      /\ inbox'[Main] = <<>>
  <2>1. inbox[Main] \in Seq(MayReceive(Main, file)) /\ inbox[Main] # <<>>
    BY <1>1, <1>3 DEF IInv, UdpInv, MailOK, Arrived
  <2>2. Tail(inbox[Main]) = <<>>
    BY <1>3, <1>4, <2>1, LastTaken
  <2>3. QED
    BY <1>1, <2>2, MainReceives
<1>6. inbox'[c] = <<>>
  <2>1. c \notin sockets
    BY <1>1 DEF LInv, SocketInv, Started
  <2>2. QED
    BY <1>3, <1>5, <2>1 DEF LInv, SocketInv
<1>7. \A d \in Children \ {c} : sState'[d] = sState[d]
  BY <1>1 DEF IInv, ServerInv
<1>8. ASSUME NEW q \in Endpoints, Active(q)' PROVE q = c /\ Len(inbox'[q]) <= 1
  <2>1. q # Main
    BY <1>5, <1>8 DEF Active, Arrived
  <2>2. q = c
    <3>1. q # c => Active(q)
      BY <1>5, <1>7, <1>8, <2>1 DEF Active, Arrived
    <3>2. QED
      BY <1>4, <2>1, <3>1
  <2>3. Len(inbox'[q]) = 0
    BY <1>6, <2>2, EmptySeq
  <2>4. QED
    BY <2>2, <2>3
<1>9. OneAtATime'
  BY <1>3, <1>8 DEF OneAtATime
<1>10. rState # "start" /\ Client \notin due
  BY <1>2, <1>3 DEF LInv, AskingInv
<1>11. QED
  BY <1>1, <1>2, <1>9, <1>10 DEF LInv, AskingInv

LEMMA MainStepLocal ==
  ASSUME IInv, LInv, MainStep
  PROVE  LInv'
<1>1. UNCHANGED rcopyVars
  BY DEF MainStep
<1>2. ASSUME NEW c \in Children, ServerFork(c) PROVE LInv'
  <2>1. NobodySends
    <3>1. /\ sState[c] = "unused" /\ sState' = [sState EXCEPT ![c] = "forked"]
          /\ \A d \in Children \ {c} : sState'[d] = sState[d]
      BY <1>2 DEF ServerFork, IInv, ServerInv
    <3>2. /\ \A d \in Children : Started(d) => Started(d)'
          /\ \A d \in Children : sState'[d] = "flush" => sState[d] = "flush"
      BY <3>1 DEF Started, IInv, ServerInv
    <3>3. Arrived(Main) /\ inbox' = Taken(Main) /\ UNCHANGED <<sockets, expected, highest>>
      BY <1>2 DEF ServerFork
    <3>4. \A p \in Endpoints : Thinned(inbox[p], inbox'[p])
      BY <3>3, MainReceives
    <3>5. QED
      BY <1>1, <3>2, <3>3, <3>4 DEF NobodySends, rcopyVars
  <2>2. AskingInv'
    BY <1>1, <1>2, ForkAsking
  <2>3. SendingInv'
    <3>1. Active(Main)
      BY <1>2 DEF ServerFork, Active, CanFork
    <3>2. rState \notin {"open"} \cup RcopyPolls
      BY <3>1, EndpointsFacts DEF LInv, SendingInv
    <3>3. QED
      BY <1>1, <3>2 DEF SendingInv, rcopyVars
  <2>4. QED
    BY <2>1, <2>2, <2>3, SilentSockets, SilentWindow DEF LInv
<1>3. CASE ServerIgnore
  <2>1. /\ Arrived(Main) /\ inbox' = Taken(Main)
        /\ sState' = sState /\ due' = due
        /\ UNCHANGED <<sockets, expected, highest>>
    BY <1>3 DEF ServerIgnore, serverVars
  <2>2. /\ \A p \in Endpoints : Thinned(inbox[p], inbox'[p])
        /\ \A p \in Endpoints \ {Main} : inbox'[p] = inbox[p]
    BY <2>1, MainReceives
  <2>3. NobodySends
    BY <1>1, <2>1, <2>2 DEF NobodySends, rcopyVars, Started
  <2>4. \A q \in Endpoints : Active(q)' => Active(q)
    BY <2>1, <2>2 DEF Active, Arrived, CanFork
  <2>5. rState = "start" => Client \notin due
    BY DEF LInv, AskingInv
  <2>6. QED
    BY <2>1, <2>3, <2>4, <2>5, SilentStep
<1>4. QED
  BY <1>2, <1>3 DEF MainStep

LEMMA KillLocal ==
  ASSUME IInv, LInv, Kill
  PROVE  LInv'
<1>1. /\ inbox = [p \in Endpoints |-> inbox[p]]
      /\ \A p \in Endpoints : inbox[p] \in Seq(MayReceive(p, file))
      /\ Client \in Endpoints /\ Children \subseteq Endpoints
      /\ Client \notin Children
  BY EndpointsFacts DEF IInv, UdpInv, MailOK
<1>2. \A p \in Endpoints : Thinned(inbox[p], inbox[p]) /\ Thinned(inbox[p], <<>>)
  BY <1>1, ThinnedSame, ThinnedEmpty
<1>3. rState = "start" => Client \notin due
  BY DEF LInv, AskingInv
<1>4. CASE RcopyKilled /\ UNCHANGED serverVars
  <2>1. /\ inbox' = [inbox EXCEPT ![Client] = <<>>] /\ sockets' = sockets \ {Client}
        /\ rState' = "killed"
        /\ UNCHANGED <<current, upper, rr, ring, offset, server, expected, highest>>
        /\ sState' = sState /\ due' \subseteq due
    BY <1>4 DEF RcopyKilled, RcopyMoves, serverVars, PollReturns
  <2>2. /\ inbox'[Client] = <<>>
        /\ \A p \in Endpoints \ {Client} : inbox'[p] = inbox[p]
    BY <1>1, <2>1
  <2>3. NobodySends
    BY <1>2, <2>1, <2>2 DEF NobodySends, Started
  <2>4. \A q \in Endpoints : Active(q)' => Active(q)
    BY <2>1, <2>2 DEF Active, Arrived, CanFork
  <2>5. QED
    BY <1>3, <2>1, <2>3, <2>4, SilentStep
<1>5. ASSUME NEW c \in Children, ChildKilled(c), UNCHANGED rcopyVars PROVE LInv'
  <2>1. /\ inbox' = [inbox EXCEPT ![c] = <<>>] /\ sockets' = sockets \ {c}
        /\ sState' = [sState EXCEPT ![c] = "killed"] /\ sState[c] # "unused"
        /\ UNCHANGED <<expected, highest>>
        /\ due' \subseteq due
    BY <1>5 DEF ChildKilled, ChildMoves, PollReturns, Ended
  <2>2. /\ inbox'[c] = <<>>
        /\ \A p \in Endpoints \ {c} : inbox'[p] = inbox[p]
    BY <1>1, <2>1
  <2>3. sState'[c] = "killed" /\ \A d \in Children \ {c} : sState'[d] = sState[d]
    BY <2>1 DEF IInv, ServerInv
  <2>4. NobodySends
    <3>1. \A p \in Endpoints : Thinned(inbox[p], inbox'[p])
      BY <1>2, <2>2
    <3>2. /\ \A d \in Children : Started(d) => Started(d)'
          /\ \A d \in Children : sState'[d] = "flush" => sState[d] = "flush"
      BY <2>3 DEF Started
    <3>3. QED
      BY <1>5, <2>1, <2>2, <3>1, <3>2 DEF NobodySends, rcopyVars
  <2>5. \A q \in Endpoints : Active(q)' => Active(q)
    <3>1. CanFork' = CanFork
      BY <2>1, <2>3 DEF CanFork
    <3>2. \A q \in Endpoints : inbox'[q] # <<>> => inbox[q] # <<>>
      BY <2>2
    <3>3. QED
      BY <2>3, <3>1, <3>2 DEF Active, Arrived
  <2>6. QED
    BY <1>3, <2>1, <2>4, <2>5, SilentStep
<1>6. QED
  BY <1>4, <1>5 DEF Kill

LEMMA NetworkLocal ==
  ASSUME LocalNetwork, IInv, LInv, Network
  PROVE  LInv'
<1>1. PICK p \in Endpoints :
        NetworkFault(p) /\ UNCHANGED <<rcopyVars, serverVars>>
  BY DEF Network
<1>2. /\ \A x \in Endpoints : Thinned(inbox[x], inbox'[x])
      /\ UNCHANGED <<sockets, due>>
  BY <1>1, LocalFault DEF IInv
<1>3. NobodySends
  BY <1>1, <1>2 DEF NobodySends, rcopyVars, serverVars, Started
<1>4. \A q \in Endpoints : Active(q)' => Active(q)
  <2>1. sState' = sState
    BY <1>1 DEF serverVars
  <2>2. \A q \in Endpoints : Arrived(q)' => Arrived(q)
    BY <1>2 DEF Thinned, Arrived
  <2>3. QED
    BY <2>1, <2>2, EndpointsFacts DEF Active, CanFork
<1>5. rState = "start" => Client \notin due
  BY DEF LInv, AskingInv
<1>6. QED
  BY <1>2, <1>3, <1>4, <1>5, SilentStep

(* A second passes only when nobody has anything to do.                     *)
LEMMA QuietMeansInactive ==
  ASSUME SocketInv, Quiet, NEW p \in Endpoints
  PROVE  ~Active(p)
<1>1. CASE p = Main
  BY <1>1 DEF Quiet, Active
<1>2. CASE p # Main
  <2>1. ~Arrived(p)
    BY <1>2 DEF Quiet, SocketInv, Arrived
  <2>2. QED
    BY <1>2, <2>1 DEF Quiet, Active
<1>3. QED
  BY <1>1, <1>2

LEMMA UntouchedMail ==
  ASSUME IInv, inbox' = inbox, UNCHANGED <<sockets, rcopyVars, serverVars>>
  PROVE  /\ NobodySends
         /\ \A q \in Endpoints : Active(q)' => Active(q)
<1>1. \A p \in Endpoints : Thinned(inbox[p], inbox'[p])
  BY ThinnedSame DEF IInv, UdpInv, MailOK
<1>2. QED
  BY <1>1 DEF NobodySends, rcopyVars, serverVars, Started, Active, Arrived, CanFork

LEMMA TickLocal ==
  ASSUME IInv, LInv, Tick
  PROVE  LInv'
<1>1. NobodySends /\ \A q \in Endpoints : Active(q)' => Active(q)
  BY UntouchedMail DEF Tick
<1>2. \A p \in Endpoints : ~Active(p)
  BY QuietMeansInactive DEF Tick, LInv
<1>3. rState = "start" => Client \notin due'
  BY EndpointsFacts DEF Tick, Quiet, Polling
<1>4. QED
  BY <1>1, <1>2, <1>3, SilentStep

LEMMA StutterLocal ==
  ASSUME IInv, LInv, UNCHANGED vars
  PROVE  LInv'
<1>1. NobodySends /\ \A q \in Endpoints : Active(q)' => Active(q)
  BY UntouchedMail DEF vars, udpVars
<1>2. due' = due /\ (rState = "start" => Client \notin due)
  BY DEF vars, udpVars, LInv, AskingInv
<1>3. QED
  BY <1>1, <1>2, SilentStep

-----------------------------------------------------------------------------
(***************************************************************************)
(* The invariant.                                                          *)
(***************************************************************************)
LEMMA LocalInit == Init => LInv
<1> SUFFICES ASSUME Init PROVE LInv
  OBVIOUS
<1>1. /\ inbox = [p \in Endpoints |-> <<>>] /\ sockets = {Client, Main} /\ due = {}
      /\ rState = "start" /\ current = -1 /\ rr = 0 /\ server = Main
      /\ sState = [c \in Children |-> "unused"]
      /\ highest = [c \in Children |-> -1]
  BY DEF Init, UdpInit, RcopyInit, ServerInit
<1>2. \A p \in Endpoints : inbox[p] = <<>> /\ Len(inbox[p]) = 0 /\ Mail(p) = {}
  <2>1. \A p \in Endpoints : inbox[p] = <<>> /\ Len(inbox[p]) = 0
    BY <1>1, EmptySeq
  <2>2. \A p \in Endpoints : 1 .. Len(inbox[p]) = {}
    BY <2>1
  <2>3. QED
    BY <2>1, <2>2 DEF Mail
<1>3. SocketInv
  BY <1>1, <1>2, EndpointsFacts DEF SocketInv
<1>4. \A p \in Endpoints : ~Active(p)
  BY <1>1, <1>2 DEF Active, Arrived
<1>5. AskingInv
  BY <1>1, <1>4, EndpointsFacts DEF AskingInv, OneAtATime
<1>6. SendingInv
  BY <1>1 DEF SendingInv, RcopyPolls
<1>7. WindowInv
  <2>1. current < rr + WindowSize
    BY <1>1, ParamsAssumption
  <2>2. \A c \in Children : highest[c] <= Sent(c) /\ Mail(c) = {} /\ sState[c] # "flush"
    BY <1>1, <1>2, EndpointsFacts DEF Sent
  <2>3. QED
    BY <1>1, <2>1, <2>2 DEF WindowInv
<1>8. QED
  BY <1>3, <1>5, <1>6, <1>7 DEF LInv

LEMMA LocalStep ==
  ASSUME LocalNetwork, IInv, RInv, LInv, [Next]_vars
  PROVE  LInv'
<1>1. IInv'
  BY StepOK
<1>2. CASE ClientStep
  BY <1>1, <1>2, ClientStepLocal
<1>3. CASE MainStep
  BY <1>3, MainStepLocal
<1>4. ASSUME NEW c \in Children, ChildStep(c) PROVE LInv'
  BY <1>1, <1>4, ChildStepLocal
<1>5. CASE Kill
  BY <1>5, KillLocal
<1>6. CASE Network
  BY <1>6, NetworkLocal
<1>7. CASE Tick
  BY <1>7, TickLocal
<1>8. CASE UNCHANGED vars
  BY <1>8, StutterLocal
<1>9. QED
  BY <1>2, <1>3, <1>4, <1>5, <1>6, <1>7, <1>8 DEF Next, Idle

(* On a local network, rcopy asks one process at a time and then keeps to   *)
(* one child, whose answers reach it in the order of their numbers and      *)
(* whose packets it still holds (onFilename, onData, safeRecvfrom).         *)
THEOREM LInvHolds ==
  ASSUME LocalNetwork
  PROVE  Spec => []LInv
<1>1. IInv /\ RInv /\ LInv /\ [Next]_vars => LInv'
  BY LocalStep
<1>2. QED
  BY <1>1, LocalInit, Invariance, RInvHolds, PTL DEF Spec

-----------------------------------------------------------------------------
(***************************************************************************)
(* What follows for the two windows and the two rings.                     *)
(***************************************************************************)
LEMMA MaxOfZeroAnd ==
  ASSUME NEW n \in Int
  PROVE  Max({0, n}) = IF 0 < n THEN n ELSE 0
<1> DEFINE top == IF 0 < n THEN n ELSE 0
<1>1. top \in {0, n} /\ \A y \in {0, n} : top >= y
  OBVIOUS
<1>2. ASSUME NEW x \in {0, n}, \A y \in {0, n} : x >= y
      PROVE  x = top
  BY <1>2
<1>3. QED
  BY <1>1, <1>2 DEF Max

(* What child c has heard of fits its window, counted from the packet it    *)
(* expects.                                                                 *)
LEMMA SentFits ==
  ASSUME IInv, LInv, NEW c \in Children
  PROVE  /\ Sent(c) \in Int /\ expected[c] \in Nat
         /\ Sent(c) < expected[c] + WindowSize
<1>1. /\ current \in Int /\ rr \in Nat /\ expected[c] \in Nat
      /\ WindowSize \in Nat \ {0}
      /\ current < rr + WindowSize
  BY ParamsAssumption DEF IInv, RcopyInv, ServerInv, ChildInv, LInv, WindowInv
<1>2. CASE c = server /\ 0 < current
  <2>1. rr <= expected[c]
    BY <1>2, EndpointsFacts DEF LInv, WindowInv
  <2>2. Sent(c) = current
    BY <1>2 DEF Sent
  <2>3. QED
    BY <1>1, <2>1, <2>2
<1>3. CASE ~(c = server /\ 0 < current)
  <2>1. Sent(c) = 0
    BY <1>3 DEF Sent
  <2>2. QED
    BY <1>1, <2>1
<1>4. QED
  BY <1>2, <1>3

(* On a local network the windows of rcopy and its child agree, although    *)
(* neither ever sees the other's counters (incrementBounds, setExpected,    *)
(* setHighest).                                                             *)
THEOREM WindowsAgreeHolds ==
  ASSUME LocalNetwork
  PROVE  Spec => []WindowsAgree
<1>1. IInv /\ LInv => WindowsAgree
  <2> SUFFICES ASSUME IInv, LInv PROVE WindowsAgree
    OBVIOUS
  <2>1. current < rr + WindowSize
    BY DEF LInv, WindowInv
  <2>2. ASSUME NEW c \in Children, c = server
        PROVE  /\ rr <= expected[c]
               /\ highest[c] <= Max({0, current})
               /\ highest[c] < expected[c] + WindowSize
    <3>1. rr <= expected[c]
      BY <2>2, EndpointsFacts DEF LInv, WindowInv
    <3>2. /\ highest[c] \in Int /\ current \in Int
          /\ highest[c] <= Sent(c)
      BY ParamsAssumption DEF IInv, RcopyInv, ServerInv, ChildInv, LInv, WindowInv
    <3>3. Sent(c) = Max({0, current})
      BY <2>2, <3>2, MaxOfZeroAnd DEF Sent
    <3>4. highest[c] < expected[c] + WindowSize
      <4>1. /\ Sent(c) \in Int /\ expected[c] \in Nat
            /\ Sent(c) < expected[c] + WindowSize
        BY SentFits
      <4>2. QED
        BY <3>2, <4>1, ParamsAssumption
    <3>5. QED
      BY <3>1, <3>2, <3>3, <3>4
  <2>3. QED
    BY <2>1, <2>2 DEF WindowsAgree
<1>2. QED
  BY <1>1, LInvHolds, Invariance, PTL

(* On a local network rcopy never sends a packet that has left its ring:    *)
(* onDataResend finds the one it is asked for, and after a timeout          *)
(* onDataPoll resends the lowest that is not acknowledged.                  *)
THEOREM ResendFindsItsPacketHolds ==
  ASSUME LocalNetwork
  PROVE  Spec => []ResendFindsItsPacket
<1>1. IInv /\ LInv => ResendFindsItsPacket
  <2> SUFFICES ASSUME IInv, LInv PROVE ResendFindsItsPacket
    OBVIOUS
  <2>1. ASSUME rState \in RcopyPolls, Arrived(Client),
               Head(inbox[Client]).ok, Head(inbox[Client]).flag = SREJ_FLAG
        PROVE  getEntry(ring, WindowSize, Head(inbox[Client]).body)
                 = DataPdu(Head(inbox[Client]).body, Head(inbox[Client]).body)
    <3> DEFINE n == Head(inbox[Client]).body
    <3>1. n \in rr .. expected[server] /\ n < current
      BY <2>1, AnswerOfChild DEF LInv
    <3>2. expected[server] \in Nat
      BY <2>1, ServerIsChild DEF LInv, SendingInv
    <3>3. RcopyInv /\ rr \in Nat /\ current \in Int /\ offset \in Int
      BY ParamsAssumption DEF IInv, RcopyInv
    <3>4. n \in Nat /\ rr <= n
      BY <3>1, <3>2, <3>3
    <3>5. n < offset
      <4>1. offset = current + 1 \/ (current = NumBlocks /\ offset = NumBlocks)
        BY <3>3 DEF RcopyInv
      <4>2. QED
        BY <3>1, <3>3, <3>4, <4>1
    <3>6. HoldsLatest /\ current < rr + WindowSize
      BY <2>1 DEF LInv, SendingInv, WindowInv
    <3> HIDE DEF n
    <3>7. getEntry(ring, WindowSize, n) = DataPdu(n, n)
      BY <3>3, <3>4, <3>5, <3>6, LatestHeld
    <3>8. QED
      BY <3>7 DEF n
  <2>2. ASSUME rState \in {"openPoll", "closedPoll"}, ~EofSent
        PROVE  getEntry(ring, WindowSize, rr) = DataPdu(rr, rr)
    BY <2>2, LowestHeld DEF LInv, IInv
  <2>3. QED
    BY <2>1, <2>2 DEF ResendFindsItsPacket
<1>2. QED
  BY <1>1, LInvHolds, Invariance, PTL

LEMMA BufferedSlots ==
  ASSUME ServerInv, NEW c \in Children, ServerWindow # 0,
         sring[c] \in [0 .. (ServerWindow - 1) -> ChildSlot],
         NEW m \in FromRcopy, m.ok, Buffered(c, m)
  PROVE  /\ sring'[c][m.seq % ServerWindow].sequenceNumber = m.seq
         /\ \A j \in 0 .. (ServerWindow - 1) :
              j # m.seq % ServerWindow => sring'[c][j] = sring[c][j]
<1> DEFINE b == setValid(addToCircularBuffer(sring[c], ServerWindow, m.seq, m),
                         ServerWindow, m.seq, TRUE)
           i == m.seq % ServerWindow
<1>1. /\ b[i] = [valid |-> TRUE, sequenceNumber |-> m.seq, pdu |-> m]
      /\ \A j \in 0 .. (ServerWindow - 1) : j # i => b[j] = sring[c][j]
  BY BufferedOK
<1>2. sring'[c] = b
  BY DEF Buffered, ServerInv
<1> HIDE DEF b, i
<1>3. /\ sring'[c][i].sequenceNumber = m.seq
      /\ \A j \in 0 .. (ServerWindow - 1) : j # i => sring'[c][j] = sring[c][j]
  BY <1>1, <1>2
<1>4. QED
  BY <1>3 DEF i

(* A packet that child c buffers goes to a slot of its own.                 *)
LEMMA BufferedApart ==
  ASSUME IInv, LInv, NEW c \in Children, ServerWindow = WindowSize, ServerWindow # 0,
         sring[c] \in [0 .. (ServerWindow - 1) -> ChildSlot],
         HoldsFrom(c, expected[c] + 1),
         NEW m \in FromRcopy, m.ok, m.seq > expected[c], m.seq <= Sent(c),
         Buffered(c, m),
         NEW i \in DOMAIN sring[c], sring[c][i].valid
  PROVE  sring'[c][i].sequenceNumber = sring[c][i].sequenceNumber
<1> DEFINE s == sring[c][i].sequenceNumber
           e == expected[c]
           n == m.seq
<1>1. /\ WindowSize \in Nat \ {0} /\ n \in Nat
      /\ i \in 0 .. (ServerWindow - 1)
  BY SeqBounded, ParamsAssumption
<1>2. /\ sring'[c][n % ServerWindow].sequenceNumber = n
      /\ \A j \in 0 .. (ServerWindow - 1) :
           j # n % ServerWindow => sring'[c][j] = sring[c][j]
  BY BufferedSlots DEF IInv
<1>3. CASE i # n % ServerWindow
  BY <1>1, <1>2, <1>3
<1>4. CASE i = n % ServerWindow
  <2>1. s \in (e + 1) .. highest[c] /\ i = s % ServerWindow
    BY <1>1 DEF HoldsFrom, getIndex
  <2>2. /\ highest[c] \in Int /\ highest[c] <= Sent(c)
        /\ Sent(c) \in Int /\ e \in Nat /\ Sent(c) < e + WindowSize
    BY SentFits, ParamsAssumption DEF IInv, ServerInv, ChildInv, LInv, WindowInv
  <2> HIDE DEF s, e
  <2>3. s \in Nat /\ e < s /\ s < e + WindowSize
    BY <1>1, <2>1, <2>2
  <2>4. e < n /\ n < e + WindowSize
    BY <1>1, <2>2 DEF e
  <2> HIDE DEF n
  <2>5. ~(s < n)
    <3> SUFFICES ASSUME s < n PROVE FALSE
      OBVIOUS
    <3>1. n < s + WindowSize
      BY <1>1, <2>2, <2>3, <2>4
    <3>2. getIndex(WindowSize, n) # getIndex(WindowSize, s)
      BY <1>1, <2>3, <3>1, SlotsDiffer
    <3>3. QED
      BY <1>4, <2>1, <3>2 DEF getIndex
  <2>6. ~(n < s)
    <3> SUFFICES ASSUME n < s PROVE FALSE
      OBVIOUS
    <3>1. s < n + WindowSize
      BY <1>1, <2>2, <2>3, <2>4
    <3>2. getIndex(WindowSize, s) # getIndex(WindowSize, n)
      BY <1>1, <2>3, <3>1, SlotsDiffer
    <3>3. QED
      BY <1>4, <2>1, <3>2 DEF getIndex
  <2>7. s = n
    BY <1>1, <2>3, <2>5, <2>6
  <2>8. sring'[c][i].sequenceNumber = n
    BY <1>2, <1>4
  <2>9. QED
    BY <2>7, <2>8 DEF s
<1>5. QED
  BY <1>3, <1>4

(* No step of child d puts a packet into a slot that holds another one.     *)
LEMMA ChildKeepsPackets ==
  ASSUME IInv, RInv, LInv, ServerWindow = WindowSize,
         NEW d \in Children, ChildNext(d),
         NEW i \in DOMAIN sring[d] \cap DOMAIN sring'[d],
         sring[d][i].valid, sring'[d][i].valid
  PROVE  sring'[d][i].sequenceNumber = sring[d][i].sequenceNumber
<1>1. /\ ServerInv
      /\ sring = [x \in Children |-> sring[x]]
      /\ sState[d] \notin {"unused", "forked"} \cup Ended =>
           sring[d] \in [0 .. (ServerWindow - 1) -> ChildSlot]
      /\ sState[d] \in {"buffer", "flush"} => ServerWindow # 0
      /\ RingInv(d)
  BY DEF IInv, ServerInv, ChildInv, RInv
<1>2. CASE ChildStart(d)
  <2>1. sring'[d] = setupCircularBuffer(ServerWindow, Client)
    BY <1>1, <1>2 DEF ChildStart
  <2>2. ~sring'[d][i].valid
    BY <2>1 DEF setupCircularBuffer, EmptySlot
  <2>3. QED
    BY <2>2
<1>3. CASE InOrderAhead(d)
  <2>1. sState[d] = "inOrder"
    BY <1>3 DEF InOrderAhead, ChildReceives
  <2>2. \A j \in DOMAIN sring[d] : ~sring[d][j].valid
    BY <1>1, <2>1 DEF RingInv, Ended
  <2>3. QED
    BY <2>2
<1>4. CASE BufferAhead(d)
  <2> DEFINE m == Head(inbox[d])
  <2>1. /\ sState[d] = "buffer" /\ Arrived(d)
        /\ m.ok /\ m.seq > expected[d] /\ Buffered(d, m)
    BY <1>4 DEF BufferAhead, ChildReceives, TakenAsData
  <2>2. m \in FromRcopy /\ m.seq <= Sent(d)
    BY <2>1, ReceivedBySent DEF LInv
  <2>3. /\ sring[d] \in [0 .. (ServerWindow - 1) -> ChildSlot]
        /\ ServerWindow # 0
        /\ HoldsFrom(d, expected[d] + 1)
    BY <1>1, <2>1 DEF RingInv, Ended
  <2> HIDE DEF m
  <2>4. QED
    BY <2>1, <2>2, <2>3, BufferedApart
<1>5. CASE ChildFlush(d)
  <2>1. PICK e \in expected[d] .. (highest[d] + 1) :
          sring' = [sring EXCEPT ![d] = Released(@, expected[d], e)]
    BY <1>5 DEF ChildFlush
  <2>2. sring'[d] = Released(sring[d], expected[d], e)
    BY <1>1, <2>1
  <2>3. sring[d] \in [0 .. (ServerWindow - 1) -> ChildSlot]
    BY <1>1, <1>5 DEF ChildFlush, Ended
  <2>4. sring'[d][i] = sring[d][i] \/ sring'[d][i] = [sring[d][i] EXCEPT !.valid = FALSE]
    BY <2>2, <2>3 DEF Released
  <2>5. sring[d][i] \in [valid : BOOLEAN, sequenceNumber : Int, pdu : FromRcopy]
    BY <2>3 DEF ChildSlot
  <2>6. QED
    BY <2>4, <2>5
<1>6. CASE \/ ChildTimeout(d) \/ ChildEmptyDatagram(d) \/ ChildCorrupt(d)
           \/ ChildOldPacket(d) \/ InOrderEof(d) \/ InOrderExpected(d)
           \/ InOrderAheadNoRing(d) \/ BufferExpected(d) \/ ChildCutShort(d)
  <2>1. sring' = sring
    BY <1>6
       DEF ChildTimeout, ChildEmptyDatagram, ChildCorrupt, ChildOldPacket, InOrderEof,
           InOrderExpected, InOrderAheadNoRing, BufferExpected, ChildCutShort
  <2>2. QED
    BY <2>1
<1>7. QED
  BY <1>2, <1>3, <1>4, <1>5, <1>6 DEF ChildNext

(* On a local network, and with a window size that passes through onStart's *)
(* uint8_t unchanged, bufferPacket never overwrites a packet that has not   *)
(* been written to the file yet.                                            *)
THEOREM NoRingOverwriteHolds ==
  ASSUME LocalNetwork, WindowSize < Uint8
  PROVE  Spec => NoRingOverwrite
<1> DEFINE Kept(c) ==
      \A i \in DOMAIN sring[c] \cap DOMAIN sring'[c] :
        sring[c][i].valid /\ sring'[c][i].valid =>
          sring'[c][i].sequenceNumber = sring[c][i].sequenceNumber
<1>1. ServerWindow = WindowSize
  BY ParamsAssumption, ServerAssumption DEF ServerWindow
<1>2. IInv /\ RInv /\ LInv /\ [Next]_vars => [\A c \in Children : Kept(c)]_vars
  <2> SUFFICES ASSUME IInv, RInv, LInv, Next, NEW c \in Children
               PROVE  Kept(c)
    OBVIOUS
  <2>1. CASE sring' = sring
    BY <2>1
  <2>2. ASSUME NEW d \in Children, ChildStep(d) PROVE Kept(c)
    <3>1. ChildNext(d)
      BY <2>2 DEF ChildStep
    <3>2. CASE c = d
      BY <1>1, <3>1, <3>2, ChildKeepsPackets
    <3>3. CASE c # d
      <4>1. sring'[c] = sring[c]
        BY <3>1, <3>3, OthersUntouched DEF IInv
      <4>2. QED
        BY <4>1
    <3>4. QED
      BY <3>2, <3>3
  <2>3. CASE ClientStep \/ MainStep \/ Kill \/ Network \/ Tick \/ Idle
    <3>1. sring' = sring
      BY <2>3
         DEF ClientStep, MainStep, Kill, Network, Tick, Idle, ServerFork, ServerIgnore,
             ChildKilled, serverVars, vars
    <3>2. QED
      BY <2>1, <3>1
  <2>4. QED
    BY <2>2, <2>3 DEF Next
<1>3. QED
  BY <1>2, LInvHolds, RInvHolds, Invariance, PTL DEF Spec, NoRingOverwrite

(* On a local network rcopy sends the whole file to one child, although     *)
(* safeRecvfrom lets the sender of any datagram become its peer.            *)
THEOREM OnePeerHolds ==
  ASSUME LocalNetwork
  PROVE  Spec => OnePeer
<1>1. IInv /\ LInv /\ [Next]_vars => [server' # server => rState = "filename"]_vars
  <2> SUFFICES ASSUME IInv, LInv, Next, server' # server
               PROVE  rState = "filename"
    OBVIOUS
  <2>1. CASE ClientStep
    <3>1. PICK m \in FromRcopy : ClientEffect(m)
      BY <2>1, ClientEffects DEF ClientStep
    <3>2. QED
      BY <3>1 DEF ClientEffect
  <2>2. CASE ~ClientStep
    BY <2>2
       DEF Next, MainStep, ChildStep, Kill, Network, Tick, Idle, RcopyKilled, rcopyVars,
           vars
  <2>3. QED
    BY <2>1, <2>2
<1>2. QED
  BY <1>1, LInvHolds, Invariance, PTL DEF Spec, OnePeer

(* On a local network every RR that onDataRR takes over is at least as high *)
(* as the one before.                                                       *)
THEOREM WindowNeverMovesBackHolds ==
  ASSUME LocalNetwork
  PROVE  Spec => WindowNeverMovesBack
<1>1. IInv /\ LInv /\ [Next]_vars => [rr <= rr']_vars
  <2> SUFFICES ASSUME IInv, LInv, Next
               PROVE  rr <= rr'
    OBVIOUS
  <2>1. CASE ClientStep
    <3>1. IInv'
      BY StepOK
    <3>2. QED
      BY <2>1, <3>1, ClientBounds DEF ClientStep
  <2>2. CASE ~ClientStep
    <3>1. rr' = rr
      BY <2>2
         DEF Next, MainStep, ChildStep, Kill, Network, Tick, Idle, RcopyKilled, rcopyVars,
             vars
    <3>2. rr \in Nat
      BY DEF IInv, RcopyInv
    <3>3. QED
      BY <3>1, <3>2
  <2>3. QED
    BY <2>1, <2>2
<1>2. QED
  BY <1>1, LInvHolds, Invariance, PTL DEF Spec, WindowNeverMovesBack
=============================================================================
