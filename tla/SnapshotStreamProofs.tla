------------------------ MODULE SnapshotStreamProofs ------------------------
(***************************************************************************)
(* Proofs about SnapshotStream, for any number of connections and ticks,   *)
(* any queue depth and any length of the history.                          *)
(***************************************************************************)
EXTENDS SnapshotStream, SequenceTheorems, WellFoundedInduction, TLAPS

-----------------------------------------------------------------------------
(* Messages and numbers *)

\* The connection whose turn it is is one of those that are left, and the next delta
\* one of those that were fetched.
LEMMA LeastExists ==
    ASSUME NEW S \in SUBSET Nat, S # {}
    PROVE  \E x \in S : \A y \in S : x <= y
<1>1. PICK x0 \in S : TRUE
  OBVIOUS
<1>2. PICK m \in S : \A k \in S : ~(<<k, m>> \in OpToRel(<, Nat))
  BY <1>1, NatLessThanWellFounded, WFMin, Zenon
<1>3. ASSUME NEW k \in S
      PROVE  m <= k
  <2>1. k \in Nat /\ m \in Nat
    OBVIOUS
  <2>2. ~(<<k, m>> \in OpToRel(<, Nat))
    BY <1>2
  <2>3. ~(k < m)
    BY <2>1, <2>2, Zenon DEF OpToRel
  <2>. QED
    BY <2>1, <2>3
<1>. QED
  BY <1>3

LEMMA NextTargetIn ==
    ASSUME NEW S \in SUBSET Conns, S # {}
    PROVE  NextTarget(S) \in S
<1>1. S \in SUBSET Nat
  BY StreamAssumption DEF Conns
<1>2. \E x \in S : \A y \in S : x <= y
  BY <1>1, LeastExists
<1>. QED
  BY <1>2 DEF NextTarget

LEMMA MessageFacts ==
    ASSUME tickID \in Nat, NEW m \in Messages
    PROVE  /\ m.tick \in 0 .. tickID /\ m.holds \subseteq 0 .. m.tick
           /\ m.kind \in {"full", "delta", "join_accepted", "none"}
           /\ m.kind = "full" => m \in Fulls
           /\ m.kind = "delta" => m \in Deltas
<1>1. CASE m \in Fulls
  BY <1>1 DEF Fulls
<1>2. CASE m \in Deltas
  BY <1>2 DEF Deltas, Delta
<1>3. CASE m \in {Accepted, EmptyStore}
  BY <1>3 DEF Accepted, EmptyStore
<1>. QED
  BY <1>1, <1>2, <1>3 DEF Messages

\* A full snapshot has every change up to its tick.
LEMMA FullFacts ==
    ASSUME tickID \in Nat, NEW m \in Fulls \cup {EmptyStore}
    PROVE  /\ m \in Messages /\ m \in Stores /\ m.kind \in {"full", "none"}
           /\ m.tick \in 0 .. tickID /\ m.holds \subseteq 0 .. m.tick
           /\ \A t \in 1 .. m.tick : t \in m.holds
<1>1. CASE m \in Fulls
  BY <1>1 DEF Fulls, Messages, Stores
<1>2. CASE m = EmptyStore
  BY <1>2 DEF EmptyStore, Messages, Stores
<1>. QED
  BY <1>1, <1>2

LEMMA DeltaFacts ==
    ASSUME tickID \in Nat, NEW t \in 1 .. tickID
    PROVE  /\ Delta(t) \in Messages /\ Delta(t).kind = "delta" /\ Delta(t).tick = t
           /\ Delta(t).holds = {t}
BY DEF Delta, Messages, Deltas

LEMMA StoreFacts ==
    ASSUME tickID \in Nat, NEW s \in Stores
    PROVE  s.tick \in 0 .. tickID /\ s.holds \subseteq 0 .. tickID /\ s.kind \in {"full", "none"}
BY DEF Stores

-----------------------------------------------------------------------------
(* A client's queue *)

LEMMA ApplyFacts ==
    ASSUME tickID \in Nat, NEW s \in Stores, NEW m \in Messages
    PROVE  LET u == ApplySnapshot(s, m) IN
           /\ u \in Stores
           /\ m.kind = "full" => u = m
           /\ m.kind = "delta" /\ s # EmptyStore /\ m.tick > s.tick =>
                 /\ u.tick = m.tick /\ u.holds = s.holds \cup m.holds /\ u # EmptyStore
           /\ m.kind # "full" /\ ~(m.kind = "delta" /\ s # EmptyStore /\ m.tick > s.tick) => u = s
<1>1. m.tick \in 0 .. tickID /\ m.holds \subseteq 0 .. tickID /\ s.tick \in 0 .. tickID
      /\ s.holds \subseteq 0 .. tickID
  BY MessageFacts, StoreFacts
<1>2. CASE m.kind = "full"
  <2>1. ApplySnapshot(s, m) = m
    BY <1>2 DEF ApplySnapshot
  <2>2. m \in Stores
    BY <1>2, MessageFacts, FullFacts
  <2>. QED
    BY <1>2, <2>1, <2>2
<1>3. CASE m.kind = "delta" /\ s # EmptyStore /\ m.tick > s.tick
  <2> DEFINE u == [s EXCEPT !.tick = m.tick, !.holds = @ \cup m.holds]
  <2>1. ApplySnapshot(s, m) = u
    BY <1>3 DEF ApplySnapshot
  <2>2. u \in Stores /\ u.tick = m.tick /\ u.holds = s.holds \cup m.holds
    BY <1>1 DEF Stores
  <2> HIDE DEF u
  <2>3. u.tick > 0
    BY <1>1, <1>3, <2>2
  <2>4. u # EmptyStore
    BY <2>3 DEF EmptyStore
  <2>. QED
    BY <1>3, <2>1, <2>2, <2>4
<1>4. CASE m.kind # "full" /\ ~(m.kind = "delta" /\ s # EmptyStore /\ m.tick > s.tick)
  <2>1. ApplySnapshot(s, m) = s
    BY <1>4 DEF ApplySnapshot
  <2>. QED
    BY <1>4, <2>1
<1>. QED
  BY <1>2, <1>3, <1>4

LEMMA QueueFacts ==
    ASSUME NEW q \in Seq(Messages), q # <<>>
    PROVE  /\ Len(q) \in Nat \ {0} /\ Head(q) = q[1] /\ q[1] \in Messages
           /\ Tail(q) \in Seq(Messages) /\ Len(Tail(q)) = Len(q) - 1
           /\ \A j \in 1 .. Len(q) : q[j] \in Messages
           /\ \A j \in 1 .. Len(q) - 1 : Tail(q)[j] = q[j + 1]
<1>1. Len(q) \in Nat /\ Len(q) # 0
  BY EmptySeq, LenProperties
<1>. QED
  BY <1>1, HeadTailProperties, ElementOfSeq

LEMMA DeliverBased ==
    ASSUME tickID \in Nat, NEW q \in Seq(Messages), q # <<>>, NEW s \in Stores, NEW v,
           v = ApplySnapshot(s, Head(q)), NEW i \in 1 .. Len(q), Based(Tail(q), v, i)
    PROVE  Based(q, s, i + 1)
<1>1. /\ Len(q) \in Nat \ {0} /\ Head(q) = q[1] /\ q[1] \in Messages
      /\ \A j \in 1 .. Len(q) - 1 : Tail(q)[j] = q[j + 1]
  BY QueueFacts
<1>2. CASE v # EmptyStore
  <2>1. v = s \/ q[1].kind = "full" \/ s # EmptyStore
    BY <1>1, ApplyFacts
  <2>. QED
    BY <1>1, <1>2, <2>1 DEF Based
<1>3. CASE \E j \in 1 .. i - 1 : Tail(q)[j].kind = "full"
  <2>1. PICK j \in 1 .. i - 1 : Tail(q)[j].kind = "full"
    BY <1>3
  <2>2. j + 1 \in 1 .. (i + 1) - 1 /\ q[j + 1].kind = "full"
    BY <1>1, <2>1
  <2>. QED
    BY <2>2 DEF Based
<1>. QED
  BY <1>2, <1>3 DEF Based

\* Everything the queue brought the client to, it is still brought to.
LEMMA DeliverReached ==
    ASSUME tickID \in Nat, NEW q \in Seq(Messages), q # <<>>, NEW s \in Stores, NEW newest \in Nat,
           NEW H, QueueInv(q, s, newest, H), NEW v, v = ApplySnapshot(s, Head(q)),
           NEW i \in 1 .. Len(q), NEW u \in Nat,
           Based(Tail(q), v, i), Reached(q, s, i + 1, u)
    PROVE  Reached(Tail(q), v, i, u)
<1>1. /\ Len(q) \in Nat \ {0} /\ Head(q) = q[1] /\ q[1] \in Messages
      /\ \A j \in 1 .. Len(q) : q[j] \in Messages
      /\ \A j \in 1 .. Len(q) - 1 : Tail(q)[j] = q[j + 1]
  BY QueueFacts
<1>2. /\ \A j \in 1 .. Len(q) : q[j].tick \in Nat
      /\ q[1].kind \in {"full", "delta", "join_accepted", "none"}
      /\ s.tick \in Nat
  BY <1>1, MessageFacts, StoreFacts
<1>3. /\ v \in Stores /\ v.tick \in Nat
      /\ q[1].kind = "full" => v = q[1]
      /\ q[1].kind = "delta" /\ s # EmptyStore /\ q[1].tick > s.tick => v.tick = q[1].tick
      /\ q[1].kind # "full" /\ ~(q[1].kind = "delta" /\ s # EmptyStore /\ q[1].tick > s.tick)
            => v = s
  BY <1>1, ApplyFacts, StoreFacts, SMTT(30)
<1>4. s.tick <= v.tick
  <2>1. q[1].kind = "full" => s.tick <= q[1].tick
    BY <1>1 DEF QueueInv
  <2>. QED
    BY <1>1, <1>2, <1>3, <2>1
<1>5. q[1].tick <= v.tick \/ \E j \in 1 .. i - 1 : q[1].tick <= Tail(q)[j].tick
  <2>1. CASE q[1].kind = "full" \/ (q[1].kind = "delta" /\ s # EmptyStore)
    BY <1>1, <1>2, <1>3, <2>1
  <2>2. CASE q[1].kind = "delta" /\ s = EmptyStore
    <3>1. PICK j \in 1 .. i - 1 : Tail(q)[j].kind = "full"
      BY <1>3, <2>2 DEF Based
    <3>2. j + 1 \in 1 .. Len(q) /\ q[j + 1].kind = "full" /\ 1 \in 1 .. (j + 1) - 1
      BY <1>1, <3>1
    <3>3. q[1].tick <= q[j + 1].tick
      BY <3>2 DEF QueueInv
    <3>. QED
      BY <1>1, <3>1, <3>3
  <2>3. CASE q[1].kind \in {"join_accepted", "none"}
    <3>1. q[1] \in {Accepted, EmptyStore}
      BY <1>1, <2>3 DEF Messages, Fulls, Deltas, Delta
    <3>2. q[1].tick = 0
      BY <3>1 DEF Accepted, EmptyStore
    <3>. QED
      BY <1>3, <3>2
  <2>. QED
    BY <1>2, <2>1, <2>2, <2>3
<1>6. CASE u <= s.tick
  BY <1>2, <1>3, <1>4, <1>6 DEF Reached
<1>7. CASE \E j \in 1 .. (i + 1) - 1 : u <= q[j].tick
  <2>1. PICK j \in 1 .. i : u <= q[j].tick
    BY <1>7
  <2>2. CASE j = 1
    <3>1. CASE q[1].tick <= v.tick
      BY <1>1, <1>2, <1>3, <2>1, <2>2, <3>1 DEF Reached
    <3>2. CASE \E k \in 1 .. i - 1 : q[1].tick <= Tail(q)[k].tick
      <4>1. PICK k \in 1 .. i - 1 : q[1].tick <= Tail(q)[k].tick
        BY <3>2
      <4>2. Tail(q)[k] = q[k + 1] /\ k + 1 \in 1 .. Len(q)
        BY <1>1
      <4>3. u <= Tail(q)[k].tick
        BY <1>1, <1>2, <2>1, <2>2, <4>1, <4>2, SMTT(30)
      <4>. QED
        BY <4>3 DEF Reached
    <3>. QED
      BY <1>5, <3>1, <3>2
  <2>3. CASE j # 1
    <3>1. j - 1 \in 1 .. i - 1 /\ Tail(q)[j - 1] = q[j]
      BY <1>1, <2>3
    <3>. QED
      BY <2>1, <3>1 DEF Reached
  <2>. QED
    BY <2>2, <2>3
<1>. QED
  BY <1>6, <1>7 DEF Reached

\* The next message reaches the client: the rest of the queue is as good, and the
\* client's state is still exact.
LEMMA DeliverQueue ==
    ASSUME tickID \in Nat, NEW q \in Seq(Messages), q # <<>>, NEW s \in Stores, NEW newest \in Nat,
           NEW H \in SUBSET Nat, QueueInv(q, s, newest, H), Exact(s, H),
           NEW v, v = ApplySnapshot(s, Head(q))
    PROVE  QueueInv(Tail(q), v, newest, H) /\ Exact(v, H)
<1>1. /\ Len(q) \in Nat \ {0} /\ Head(q) = q[1] /\ q[1] \in Messages
      /\ \A j \in 1 .. Len(q) : q[j] \in Messages
      /\ Tail(q) \in Seq(Messages) /\ Len(Tail(q)) = Len(q) - 1
      /\ \A j \in 1 .. Len(q) - 1 : Tail(q)[j] = q[j + 1]
  BY QueueFacts
<1>2. /\ \A j \in 1 .. Len(q) : q[j].tick \in Nat
      /\ q[1].kind \in {"full", "delta", "join_accepted", "none"}
      /\ s.tick \in Nat
  BY <1>1, MessageFacts, StoreFacts
<1>3. /\ v \in Stores /\ v.tick \in Nat
      /\ q[1].kind = "full" => v = q[1]
      /\ q[1].kind = "delta" /\ s # EmptyStore /\ q[1].tick > s.tick =>
            v.tick = q[1].tick /\ v.holds = s.holds \cup q[1].holds
      /\ q[1].kind # "full" /\ ~(q[1].kind = "delta" /\ s # EmptyStore /\ q[1].tick > s.tick)
            => v = s
  BY <1>1, ApplyFacts, StoreFacts
<1>4. v.tick \in {s.tick, q[1].tick}
  BY <1>2, <1>3
<1>5. v.tick <= newest /\ \A i \in 1 .. Len(Tail(q)) : Tail(q)[i].tick <= newest
  <2>1. s.tick <= newest /\ \A i \in 1 .. Len(q) : q[i].tick <= newest
    BY DEF QueueInv
  <2>2. \A i \in 1 .. Len(q) - 1 : i + 1 \in 1 .. Len(q)
    BY <1>1
  <2>. QED
    BY <1>1, <1>4, <2>1, <2>2
<1>6. Based(Tail(q), v, Len(Tail(q)) + 1) => Reached(Tail(q), v, Len(Tail(q)) + 1, newest)
  <2>1. Len(Tail(q)) + 1 = Len(q) /\ Len(q) \in 1 .. Len(q)
    BY <1>1
  <2>2. Based(q, s, Len(q) + 1) => Reached(q, s, Len(q) + 1, newest)
    BY DEF QueueInv
  <2>3. Based(Tail(q), v, Len(q)) => Based(q, s, Len(q) + 1)
    BY <2>1, DeliverBased
  <2>4. Based(Tail(q), v, Len(q)) => Reached(Tail(q), v, Len(q), newest)
    BY <2>1, <2>2, <2>3, DeliverReached
  <2>. QED
    BY <2>1, <2>4
<1>7. ASSUME NEW i \in 1 .. Len(Tail(q)), Tail(q)[i].kind = "full"
      PROVE  v.tick <= Tail(q)[i].tick /\ \A j \in 1 .. i - 1 : Tail(q)[j].tick <= Tail(q)[i].tick
  <2>1. i + 1 \in 1 .. Len(q) /\ q[i + 1] = Tail(q)[i]
    BY <1>1
  <2>2. s.tick <= q[i + 1].tick /\ \A j \in 1 .. (i + 1) - 1 : q[j].tick <= q[i + 1].tick
    BY <1>7, <2>1 DEF QueueInv
  <2>3. v.tick <= q[i + 1].tick
    BY <1>4, <2>2
  <2>4. \A j \in 1 .. i - 1 : j + 1 \in 1 .. (i + 1) - 1 /\ Tail(q)[j] = q[j + 1]
    BY <1>1
  <2>. QED
    BY <2>1, <2>2, <2>3, <2>4
<1>8. ASSUME NEW i \in 1 .. Len(Tail(q)), Tail(q)[i].kind = "delta", Based(Tail(q), v, i),
             NEW u \in H, u < Tail(q)[i].tick
      PROVE  Reached(Tail(q), v, i, u)
  <2>1. i \in 1 .. Len(q) /\ i + 1 \in 1 .. Len(q) /\ q[i + 1] = Tail(q)[i]
    BY <1>1
  <2>2. Based(q, s, i + 1)
    BY <1>8, <2>1, DeliverBased
  <2>3. Reached(q, s, i + 1, u)
    BY <1>8, <2>1, <2>2 DEF QueueInv
  <2>. QED
    BY <1>8, <2>1, <2>3, DeliverReached
<1>9. QueueInv(Tail(q), v, newest, H)
  BY <1>5, <1>6, <1>7, <1>8 DEF QueueInv
<1>10. Exact(v, H)
  <2>1. CASE q[1].kind = "full"
    <3>1. q[1] \in Fulls
      BY <1>1, <2>1, MessageFacts
    <3>. QED
      BY <1>3, <2>1, <3>1, FullFacts DEF Exact
  <2>2. CASE q[1].kind = "delta" /\ s # EmptyStore /\ q[1].tick > s.tick
    <3>1. q[1] \in Deltas
      BY <1>1, <2>2, MessageFacts
    <3>2. q[1].holds = {q[1].tick}
      BY <3>1 DEF Deltas, Delta
    <3>3. \A u \in H : u < q[1].tick => u <= s.tick
      <4>1. 1 \in 1 .. Len(q) /\ Based(q, s, 1)
        BY <1>1, <2>2 DEF Based
      <4>2. \A u \in H : u < q[1].tick => Reached(q, s, 1, u)
        BY <2>2, <4>1 DEF QueueInv
      <4>. QED
        BY <4>2 DEF Reached
    <3>4. v.tick = q[1].tick /\ v.holds = s.holds \cup {q[1].tick}
      BY <1>3, <2>2, <3>2
    <3>5. v.holds \subseteq 0 .. v.tick
      BY <1>1, <1>2, <2>2, <3>4 DEF Exact
    <3>6. ASSUME NEW t \in 1 .. v.tick, t \in H
          PROVE  t \in v.holds
      <4>1. CASE t = q[1].tick
        BY <3>4, <4>1
      <4>2. CASE t # q[1].tick
        <5>1. t \in 1 .. s.tick
          BY <1>1, <1>2, <3>3, <3>4, <3>6, <4>2
        <5>. QED
          BY <3>4, <3>6, <5>1 DEF Exact
      <4>. QED
        BY <4>1, <4>2
    <3>. QED
      BY <3>5, <3>6 DEF Exact
  <2>3. CASE v = s
    BY <2>3
  <2>. QED
    BY <1>3, <2>1, <2>2, <2>3
<1>. QED
  BY <1>9, <1>10

SentRecords ==
    [ticks : SUBSET (0 .. tickID), newest : 0 .. tickID, lastDelta : 0 .. tickID, clean : BOOLEAN]

LEMMA SentFacts ==
    ASSUME tickID \in Nat, NEW h \in SentRecords
    PROVE  /\ h.ticks \subseteq 0 .. tickID /\ h.newest \in 0 .. tickID
           /\ h.lastDelta \in 0 .. tickID /\ h.clean \in BOOLEAN
BY DEF SentRecords

LEMMA RecordFacts ==
    ASSUME tickID \in Nat, NEW h \in SentRecords, NEW m \in Messages, h.ticks \subseteq 0 .. h.newest
    PROVE  LET k == Record(h, m) IN
           /\ k \in SentRecords
           /\ h.ticks \subseteq k.ticks /\ m.holds \subseteq k.ticks
           /\ k.ticks \subseteq 0 .. k.newest
           /\ k.newest \in {h.newest, m.tick} /\ h.newest <= k.newest /\ m.tick <= k.newest
           /\ m.kind = "delta" => k.lastDelta = m.tick
           /\ m.kind # "delta" => k.lastDelta = h.lastDelta
           /\ k.clean => h.clean /\ (m.kind = "full" => m.tick >= h.newest)
<1> DEFINE n == IF m.tick > h.newest THEN m.tick ELSE h.newest
           d == IF m.kind = "delta" THEN m.tick ELSE h.lastDelta
           b == h.clean /\ (m.kind = "full" => m.tick >= h.newest)
           k == [ticks |-> h.ticks \cup m.holds, newest |-> n, lastDelta |-> d, clean |-> b]
<1>1. Record(h, m) = k
  BY DEF Record
<1>2. m.tick \in 0 .. tickID /\ m.holds \subseteq 0 .. m.tick
  BY MessageFacts
<1>3. /\ h.ticks \subseteq 0 .. tickID /\ h.newest \in 0 .. tickID
      /\ h.lastDelta \in 0 .. tickID /\ h.clean \in BOOLEAN
  BY SentFacts
<1>4. n \in 0 .. tickID /\ n \in {h.newest, m.tick} /\ h.newest <= n /\ m.tick <= n
  BY <1>2, <1>3
<1>5. d \in 0 .. tickID /\ (m.kind = "delta" => d = m.tick) /\ (m.kind # "delta" => d = h.lastDelta)
  BY <1>2, <1>3
<1>6. b \in BOOLEAN /\ (b => h.clean /\ (m.kind = "full" => m.tick >= h.newest))
  OBVIOUS
<1> HIDE DEF n, d, b
<1>7. k \in SentRecords
  BY <1>2, <1>3, <1>4, <1>5, <1>6 DEF SentRecords
<1>8. k.ticks \subseteq 0 .. k.newest
  BY <1>2, <1>3, <1>4
<1>. QED
  BY <1>1, <1>4, <1>5, <1>6, <1>7, <1>8

\* A message is added to a queue.
LEMMA EnqueueQueue ==
    ASSUME tickID \in Nat, NEW q \in Seq(Messages), NEW s \in Stores, NEW h \in SentRecords,
           h.ticks \subseteq 0 .. h.newest, NEW H \in SUBSET Nat, NEW m \in Messages,
           QueueInv(q, s, h.newest, H), Record(h, m).clean,
           m.kind = "delta" => \A u \in H : u < m.tick => u <= h.newest
    PROVE  QueueInv(Append(q, m), s, Record(h, m).newest, H)
<1> DEFINE a == Append(q, m)
           k == Record(h, m).newest
           n == Len(q)
<1>1. /\ n \in Nat /\ Len(a) = n + 1 /\ a[n + 1] = m
      /\ \A i \in 1 .. n : a[i] = q[i] /\ q[i] \in Messages
  BY LenProperties, AppendProperties, ElementOfSeq
<1>2. /\ \A i \in 1 .. n : q[i].tick \in Nat
      /\ m.tick \in Nat /\ s.tick \in Nat /\ h.newest \in Nat
  BY <1>1, MessageFacts, StoreFacts, SentFacts
<1>3. /\ k \in {h.newest, m.tick} /\ h.newest <= k /\ m.tick <= k
      /\ m.kind = "full" => m.tick >= h.newest
  BY RecordFacts
<1>4. /\ s.tick <= h.newest
      /\ \A i \in 1 .. n : q[i].tick <= h.newest
      /\ Based(q, s, n + 1) => Reached(q, s, n + 1, h.newest)
      /\ \A i \in 1 .. n : q[i].kind = "full" =>
            s.tick <= q[i].tick /\ \A j \in 1 .. i - 1 : q[j].tick <= q[i].tick
      /\ \A i \in 1 .. n : q[i].kind = "delta" /\ Based(q, s, i) =>
            \A u \in H : u < q[i].tick => Reached(q, s, i, u)
  BY DEF QueueInv
<1> HIDE DEF a, k, n
<1>5. \A i \in 1 .. n + 1 : Based(a, s, i) <=> Based(q, s, i)
  BY <1>1 DEF Based
<1>6. \A i \in 1 .. n + 1 : \A u : Reached(a, s, i, u) <=> Reached(q, s, i, u)
  BY <1>1 DEF Reached
<1>7. s.tick <= k /\ \A i \in 1 .. n + 1 : a[i].tick <= k
  <2>1. k \in Nat
    BY <1>2, <1>3
  <2>2. \A i \in 1 .. n : a[i].tick <= k
    BY <1>1, <1>2, <1>3, <1>4, <2>1
  <2>. QED
    BY <1>1, <1>2, <1>3, <1>4, <2>1, <2>2
<1>8. ASSUME Based(a, s, (n + 1) + 1)
      PROVE  Reached(a, s, (n + 1) + 1, k)
  <2>1. n + 1 \in 1 .. ((n + 1) + 1) - 1
    BY <1>1
  <2>2. CASE k <= m.tick
    BY <1>1, <2>1, <2>2 DEF Reached
  <2>3. CASE ~(k <= m.tick)
    <3>1. k = h.newest /\ m.kind # "full"
      BY <1>2, <1>3, <2>3
    <3>2. Based(a, s, n + 1)
      BY <1>1, <1>8, <3>1 DEF Based
    <3>3. Reached(a, s, n + 1, k)
      BY <1>1, <1>4, <1>5, <1>6, <3>1, <3>2
    <3>. QED
      BY <1>1, <3>3 DEF Reached
  <2>. QED
    BY <2>2, <2>3
<1>9. ASSUME NEW i \in 1 .. n + 1, a[i].kind = "full"
      PROVE  s.tick <= a[i].tick /\ \A j \in 1 .. i - 1 : a[j].tick <= a[i].tick
  <2>1. CASE i = n + 1
    <3>1. h.newest <= a[i].tick
      BY <1>1, <1>2, <1>3, <1>9, <2>1
    <3>2. \A j \in 1 .. i - 1 : j \in 1 .. n
      BY <1>1, <2>1
    <3>. QED
      BY <1>1, <1>2, <1>4, <2>1, <3>1, <3>2, SMTT(30)
  <2>2. CASE i # n + 1
    <3>1. i \in 1 .. n /\ \A j \in 1 .. i - 1 : j \in 1 .. n
      BY <1>1, <2>2
    <3>. QED
      BY <1>1, <1>4, <1>9, <3>1
  <2>. QED
    BY <2>1, <2>2
<1>10. ASSUME NEW i \in 1 .. n + 1, a[i].kind = "delta", Based(a, s, i), NEW u \in H, u < a[i].tick
       PROVE  Reached(a, s, i, u)
  <2>1. CASE i = n + 1
    <3>1. u <= h.newest
      BY <1>1, <1>10, <2>1
    <3>2. Reached(q, s, n + 1, h.newest)
      BY <1>4, <1>5, <1>10, <2>1
    <3>3. Reached(q, s, n + 1, u)
      <4>1. CASE h.newest <= s.tick
        <5>1. u <= s.tick
          BY <1>2, <3>1, <4>1
        <5>. QED
          BY <5>1 DEF Reached
      <4>2. CASE \E j \in 1 .. (n + 1) - 1 : h.newest <= q[j].tick
        <5>1. PICK j \in 1 .. (n + 1) - 1 : h.newest <= q[j].tick
          BY <4>2
        <5>2. q[j].tick \in Nat /\ u \in Nat
          BY <1>1, <1>2
        <5>3. u <= q[j].tick
          <6> DEFINE x == q[j].tick
          <6>1. x \in Nat /\ h.newest <= x
            BY <5>1, <5>2
          <6> HIDE DEF x
          <6>2. u <= x
            BY <1>2, <3>1, <5>2, <6>1
          <6>. QED
            BY <6>2 DEF x
        <5>. QED
          BY <5>3 DEF Reached
      <4>. QED
        BY <3>2, <4>1, <4>2 DEF Reached
    <3>. QED
      BY <1>6, <2>1, <3>3
  <2>2. CASE i # n + 1
    <3>1. i \in 1 .. n
      BY <1>1, <2>2
    <3>2. q[i].kind = "delta" /\ u < q[i].tick /\ Based(q, s, i)
      BY <1>1, <1>5, <1>10, <3>1
    <3>3. Reached(q, s, i, u)
      BY <1>4, <3>1, <3>2
    <3>. QED
      BY <1>6, <3>3
  <2>. QED
    BY <2>1, <2>2
<1>. QED
  BY <1>1, <1>7, <1>8, <1>9, <1>10 DEF QueueInv, a, k

-----------------------------------------------------------------------------
(* The connections through a step *)

\* The types that grow with the clock.
LEMMA SameTypes ==
    ASSUME tickID' = tickID
    PROVE  /\ Messages' = Messages /\ Stores' = Stores /\ SentRecords' = SentRecords
           /\ Fulls' = Fulls
BY DEF Messages, Fulls, Deltas, Stores, SentRecords

LEMMA MoreTypes ==
    ASSUME tickID \in Nat, tickID' = tickID + 1
    PROVE  /\ Messages \subseteq Messages' /\ Stores \subseteq Stores'
           /\ SentRecords \subseteq SentRecords' /\ Fulls \subseteq Fulls'
<1>1. 0 .. tickID \subseteq 0 .. tickID' /\ 1 .. tickID \subseteq 1 .. tickID'
  OBVIOUS
<1>2. Fulls \subseteq Fulls' /\ Deltas \subseteq Deltas'
  BY <1>1 DEF Fulls, Deltas
<1>. QED
  BY <1>1, <1>2 DEF Messages, Stores, SentRecords

LEMMA ConnFacts ==
    ASSUME StreamTypeOK, NEW c \in Conns
    PROVE  /\ tickID \in Nat /\ lastSnapshotTick[c] \in 0 .. tickID
           /\ send[c] \in Seq(Messages) /\ sent[c] \in SentRecords /\ store[c] \in Stores
BY DEF StreamTypeOK, NetTypeOK, SentRecords

\* The history gains nothing but the start of the match and the tick that is new.
HistoryMoves ==
    \A u \in snapshotHistory' : u \in Nat /\ (u \in snapshotHistory \/ u = 0 \/ u > tickID)

SameConn(c) ==
    /\ c \in bound' <=> c \in bound
    /\ lastSnapshotTick'[c] = lastSnapshotTick[c]
    /\ send'[c] = send[c] /\ sent'[c] = sent[c] /\ store'[c] = store[c]

LEMMA NoneLeftOutStays ==
    ASSUME StreamTypeOK, HistoryMoves, NEW c \in Conns, NEW t \in 0 .. tickID, NoneLeftOut(c, t),
           sent[c].ticks \subseteq sent'[c].ticks
    PROVE  NoneLeftOut(c, t)'
<1>1. tickID \in Nat
  BY DEF StreamTypeOK
<1>. QED
  BY <1>1 DEF NoneLeftOut, HistoryMoves

LEMMA ExactStays ==
    ASSUME StreamTypeOK, HistoryMoves, NEW s \in Stores, Exact(s, snapshotHistory)
    PROVE  Exact(s, snapshotHistory')
<1>1. tickID \in Nat /\ s.tick \in 0 .. tickID
  BY StoreFacts DEF StreamTypeOK
<1>. QED
  BY <1>1 DEF Exact, HistoryMoves

LEMMA QueueStays ==
    ASSUME StreamTypeOK, HistoryMoves, NEW q \in Seq(Messages), NEW s \in Stores, NEW newest,
           QueueInv(q, s, newest, snapshotHistory)
    PROVE  QueueInv(q, s, newest, snapshotHistory')
<1>1. tickID \in Nat /\ s.tick \in 0 .. tickID
  BY StoreFacts DEF StreamTypeOK
<1>2. \A i \in 1 .. Len(q) : q[i].tick \in 0 .. tickID
  BY <1>1, ElementOfSeq, MessageFacts
<1>3. ASSUME NEW i \in 1 .. Len(q), q[i].kind = "delta", Based(q, s, i),
             NEW u \in snapshotHistory', u < q[i].tick
      PROVE  Reached(q, s, i, u)
  <2>1. CASE u \in snapshotHistory
    BY <1>3, <2>1 DEF QueueInv
  <2>2. CASE u = 0
    BY <1>1, <2>2 DEF Reached
  <2>3. ~(u > tickID) \/ u = 0 \/ u \in snapshotHistory
    <3> DEFINE x == q[i].tick
    <3>1. x \in 0 .. tickID /\ u < x
      BY <1>2, <1>3
    <3> HIDE DEF x
    <3>2. u \in snapshotHistory \/ u = 0 \/ u > tickID
      BY DEF HistoryMoves
    <3>3. CASE u > tickID
      <4>1. u \in Nat
        BY DEF HistoryMoves
      <4>. QED
        BY <1>1, <3>1, <3>3, <4>1
    <3>. QED
      BY <3>2, <3>3
  <2>. QED
    BY <2>1, <2>2, <2>3 DEF HistoryMoves
<1>. QED
  BY <1>3 DEF QueueInv

LEMMA ConnStays ==
    ASSUME StreamTypeOK, HistoryMoves, NEW c \in Conns, ConnInv(c), SameConn(c)
    PROVE  ConnInv(c)'
<1>1. /\ tickID \in Nat /\ lastSnapshotTick[c] \in 0 .. tickID
      /\ send[c] \in Seq(Messages) /\ store[c] \in Stores
  BY ConnFacts
<1>2. c \in bound' => NoneLeftOut(c, lastSnapshotTick[c])'
  <2>1. c \in bound => NoneLeftOut(c, lastSnapshotTick[c])
    BY DEF ConnInv
  <2>2. c \in bound => \A u \in 1 .. lastSnapshotTick[c] :
            u \in sent'[c].ticks \/ u \notin snapshotHistory'
    BY <1>1, <2>1 DEF NoneLeftOut, HistoryMoves, SameConn
  <2>. QED
    BY <2>2 DEF NoneLeftOut, SameConn
<1>3. sent[c].clean => /\ QueueInv(send[c], store[c], sent[c].newest, snapshotHistory')
                       /\ Exact(store[c], snapshotHistory')
  BY <1>1, ExactStays, QueueStays DEF ConnInv
<1>. QED
  BY <1>2, <1>3 DEF ConnInv, SameConn

NetInv == NetTypeOK /\ \A c \in Conns : ConnInv(c)

\* What a step does to a connection that is still open: it stays bound, and its
\* history grows.
NetGrows ==
    /\ open' \subseteq open
    /\ \A c \in open' : /\ c \in bound => c \in bound'
                        /\ sent[c].ticks \subseteq sent'[c].ticks

\* No delta is sent, and no cursor of a bound connection falls.
NoDelta ==
    \A c \in open' : /\ sent'[c].lastDelta = sent[c].lastDelta
                     /\ c \in bound => lastSnapshotTick[c] <= lastSnapshotTick'[c]

LEMMA NetSame ==
    ASSUME StreamInv, UNCHANGED <<open, bound, lastSnapshotTick, send, sent, store>>,
           HistoryMoves, tickID' \in {tickID, tickID + 1}
    PROVE  NetInv' /\ NetGrows /\ NoDelta
<1>1. StreamTypeOK /\ NetTypeOK /\ tickID \in Nat
  BY DEF StreamInv, StreamTypeOK
<1>2. /\ Messages \subseteq Messages' /\ Stores \subseteq Stores'
      /\ SentRecords \subseteq SentRecords' /\ 0 .. tickID \subseteq 0 .. tickID'
  BY <1>1, SameTypes, MoreTypes
<1>3. \A q \in Seq(Messages) : q \in Seq(Messages')
  BY <1>2
<1>4. NetTypeOK'
  BY <1>1, <1>2, <1>3 DEF NetTypeOK, SentRecords
<1>5. \A c \in Conns : ConnInv(c)'
  BY <1>1, ConnStays DEF StreamInv, SameConn
<1>6. \A c \in Conns : lastSnapshotTick[c] <= lastSnapshotTick[c]
  BY <1>1, ConnFacts
<1>. QED
  BY <1>1, <1>4, <1>5, <1>6 DEF NetInv, NetGrows, NoDelta, NetTypeOK

\* A step on one connection.
LEMMA OneConn ==
    ASSUME StreamInv, UNCHANGED match, NetTypeOK', NEW d \in Conns, ConnInv(d)',
           \A c \in Conns \ {d} : SameConn(c)
    PROVE  NetInv'
<1>1. StreamTypeOK
  BY DEF StreamInv
<1>2. HistoryMoves
  BY <1>1 DEF HistoryMoves, StreamTypeOK, match
<1>3. \A c \in Conns \ {d} : ConnInv(c)'
  BY <1>1, <1>2, ConnStays DEF StreamInv
<1>. QED
  BY <1>3 DEF NetInv

LEMMA NetGone ==
    ASSUME StreamInv, UNCHANGED match, NEW d \in Conns, Unregister(d)
    PROVE  NetInv' /\ NetGrows /\ NoDelta /\ d \notin open' /\ bound' \subseteq bound
<1>1. StreamTypeOK /\ NetTypeOK /\ tickID \in Nat /\ tickID' = tickID
  BY DEF StreamInv, StreamTypeOK, match
<1>2. Messages' = Messages /\ Stores' = Stores /\ SentRecords' = SentRecords
  BY <1>1, SameTypes
<1>3. <<>> \in Seq(Messages) /\ NothingSent \in SentRecords /\ EmptyStore \in Stores
  BY <1>1 DEF NothingSent, SentRecords, EmptyStore, Stores
<1>4. /\ lastSnapshotTick' \in [Conns -> 0 .. tickID] /\ send' \in [Conns -> Seq(Messages)]
      /\ sent' \in [Conns -> SentRecords] /\ store' \in [Conns -> Stores]
      /\ open' = open \ {d} /\ bound' = bound \ {d}
      /\ send'[d] = <<>> /\ sent'[d] = NothingSent /\ store'[d] = EmptyStore
      /\ \A c \in Conns \ {d} : SameConn(c)
  BY <1>1, <1>3 DEF NetTypeOK, Unregister, SameConn, SentRecords
<1>5. NetTypeOK'
  BY <1>1, <1>2, <1>4 DEF NetTypeOK, SentRecords
<1>6. ConnInv(d)'
  <2>1. QueueInv(<<>>, EmptyStore, 0, snapshotHistory') /\ Exact(EmptyStore, snapshotHistory')
    BY DEF QueueInv, Based, Reached, Exact, EmptyStore
  <2>2. NothingSent.ticks = {} /\ NothingSent.newest = 0 /\ NothingSent.lastDelta = 0
    BY DEF NothingSent
  <2>. QED
    BY <1>4, <2>1, <2>2 DEF ConnInv
<1>7. NetInv'
  BY <1>5, <1>6, <1>4, OneConn
<1>8. \A c \in Conns : lastSnapshotTick[c] <= lastSnapshotTick[c]
  BY <1>1, ConnFacts
<1>. QED
  BY <1>1, <1>4, <1>7, <1>8 DEF NetGrows, NoDelta, NetTypeOK, SameConn

\* A message is queued on d, or d is gone.
LEMMA NetEnqueue ==
    ASSUME StreamInv, UNCHANGED match, NEW d \in Conns, NEW m \in Messages, Enqueue(d, m),
           m.kind = "delta" /\ d \in open =>
               d \in bound /\ \A u \in snapshotHistory : u < m.tick => u <= sent[d].newest
    PROVE  /\ NetInv' /\ NetGrows /\ bound' \subseteq bound
           /\ m.kind # "delta" => NoDelta
           /\ Sends(d) => /\ m.holds \subseteq sent'[d].ticks
                          /\ UNCHANGED <<open, bound, lastSnapshotTick>>
                          /\ m.kind = "delta" => sent'[d].lastDelta = m.tick
                          /\ \A c \in Conns \ {d} : sent'[c] = sent[c]
           /\ ~Sends(d) => d \notin open' /\ NoDelta
<1>1. StreamTypeOK /\ NetTypeOK /\ tickID \in Nat /\ tickID' = tickID
  BY DEF StreamInv, StreamTypeOK, match
<1>2. CASE ~Sends(d)
  BY <1>2, NetGone DEF Enqueue
<1>3. CASE Sends(d)
  <2>1. /\ send' = [send EXCEPT ![d] = Append(@, m)]
        /\ sent' = [sent EXCEPT ![d] = Record(@, m)]
        /\ UNCHANGED <<open, bound, lastSnapshotTick, store>> /\ d \in open
    BY <1>3 DEF Enqueue, Sends
  <2>2. Messages' = Messages /\ Stores' = Stores /\ SentRecords' = SentRecords
    BY <1>1, SameTypes
  <2>3. /\ send[d] \in Seq(Messages) /\ sent[d] \in SentRecords /\ store[d] \in Stores
        /\ lastSnapshotTick[d] \in 0 .. tickID
    BY <1>1, ConnFacts
  <2>4. ConnInv(d) /\ sent[d].ticks \subseteq 0 .. sent[d].newest
    BY DEF StreamInv, ConnInv
  <2> DEFINE k == Record(sent[d], m)
             q == Append(send[d], m)
  <2>5. /\ k \in SentRecords
        /\ sent[d].ticks \subseteq k.ticks /\ m.holds \subseteq k.ticks
        /\ k.ticks \subseteq 0 .. k.newest
        /\ m.kind = "delta" => k.lastDelta = m.tick
        /\ m.kind # "delta" => k.lastDelta = sent[d].lastDelta
        /\ k.clean => sent[d].clean
    BY <1>1, <2>3, <2>4, RecordFacts
  <2>6. q \in Seq(Messages)
    BY <2>3, AppendProperties
  <2>7. k.clean => QueueInv(q, store[d], k.newest, snapshotHistory)
    <3>1. snapshotHistory \in SUBSET Nat
      BY <1>1 DEF StreamTypeOK
    <3>2. sent[d].clean => QueueInv(send[d], store[d], sent[d].newest, snapshotHistory)
      BY <2>4 DEF ConnInv
    <3>. QED
      BY <1>1, <2>1, <2>3, <2>4, <2>5, <3>1, <3>2, EnqueueQueue
  <2> HIDE DEF k, q
  <2>8. /\ send' \in [Conns -> Seq(Messages)] /\ sent' \in [Conns -> SentRecords]
        /\ send'[d] = q /\ sent'[d] = k
        /\ \A c \in Conns \ {d} : send'[c] = send[c] /\ sent'[c] = sent[c]
    <3>1. send' = [send EXCEPT ![d] = q] /\ sent' = [sent EXCEPT ![d] = k]
      BY <2>1 DEF q, k
    <3>2. send \in [Conns -> Seq(Messages)] /\ sent \in [Conns -> SentRecords]
      BY <1>1 DEF NetTypeOK, SentRecords
    <3>. QED
      BY <2>5, <2>6, <3>1, <3>2
  <2>9. NetTypeOK'
    BY <1>1, <2>1, <2>2, <2>8 DEF NetTypeOK, SentRecords
  <2>10. ConnInv(d)'
    <3>1. d \notin bound => k.lastDelta = 0
      BY <2>1, <2>4, <2>5 DEF ConnInv
    <3>2. d \in bound => \A u \in 1 .. lastSnapshotTick[d] : u \in k.ticks \/ u \notin snapshotHistory
      BY <2>4, <2>5 DEF ConnInv, NoneLeftOut
    <3>3. k.clean => Exact(store[d], snapshotHistory)
      BY <2>4, <2>5 DEF ConnInv
    <3>4. snapshotHistory' = snapshotHistory
      BY DEF match
    <3>. QED
      BY <2>1, <2>5, <2>7, <2>8, <3>1, <3>2, <3>3, <3>4 DEF ConnInv, NoneLeftOut
  <2>11. NetInv'
    BY <2>1, <2>8, <2>9, <2>10, OneConn DEF SameConn
  <2>12. NetGrows
    BY <1>1, <2>1, <2>5, <2>8 DEF NetGrows, NetTypeOK
  <2>13. m.kind # "delta" => NoDelta
    <3>1. \A c \in Conns : lastSnapshotTick[c] <= lastSnapshotTick[c]
      BY <1>1, ConnFacts
    <3>. QED
      BY <1>1, <2>1, <2>5, <2>8, <3>1 DEF NoDelta, NetTypeOK
  <2>. QED
    BY <1>3, <2>1, <2>5, <2>8, <2>11, <2>12, <2>13
<1>. QED
  BY <1>2, <1>3

\* A cursor follows what has been carried.
LEMMA NetCursor ==
    ASSUME StreamInv, UNCHANGED match, NEW d \in Conns, NEW t \in 0 .. tickID,
           updateSnapshotCursor(d, t), UNCHANGED <<open, bound, send, sent, store>>,
           d \in bound => NoneLeftOut(d, t)
    PROVE  /\ NetInv' /\ NetGrows /\ NoDelta
           /\ d \in open => t <= lastSnapshotTick'[d]
<1>1. StreamTypeOK /\ NetTypeOK /\ tickID \in Nat /\ tickID' = tickID
  BY DEF StreamInv, StreamTypeOK, match
<1>2. Messages' = Messages /\ Stores' = Stores /\ SentRecords' = SentRecords
  BY <1>1, SameTypes
<1>3. \A c \in Conns : lastSnapshotTick[c] \in 0 .. tickID
  BY <1>1, ConnFacts
<1>4. ConnInv(d)
  BY DEF StreamInv
<1> DEFINE n == IF d \in open /\ t > lastSnapshotTick[d] THEN t ELSE lastSnapshotTick[d]
<1>5. /\ n \in 0 .. tickID /\ n \in {t, lastSnapshotTick[d]}
      /\ lastSnapshotTick[d] <= n /\ (d \in open => t <= n)
  BY <1>1, <1>3
<1>6. lastSnapshotTick' = [lastSnapshotTick EXCEPT ![d] = n]
  BY DEF updateSnapshotCursor
<1> HIDE DEF n
<1>7. /\ lastSnapshotTick' \in [Conns -> 0 .. tickID] /\ lastSnapshotTick'[d] = n
      /\ \A c \in Conns \ {d} : lastSnapshotTick'[c] = lastSnapshotTick[c]
  BY <1>1, <1>5, <1>6 DEF NetTypeOK
<1>8. NetTypeOK'
  BY <1>1, <1>2, <1>7 DEF NetTypeOK, SentRecords
<1>9. ConnInv(d)'
  <2>1. d \in bound => NoneLeftOut(d, n)
    BY <1>4, <1>5 DEF ConnInv
  <2>2. snapshotHistory' = snapshotHistory
    BY DEF match
  <2>. QED
    BY <1>4, <1>7, <2>1, <2>2 DEF ConnInv, NoneLeftOut
<1>10. NetInv'
  BY <1>7, <1>8, <1>9, OneConn DEF SameConn
<1>11. \A c \in Conns : lastSnapshotTick[c] <= lastSnapshotTick'[c]
  BY <1>3, <1>5, <1>7
<1>. QED
  BY <1>1, <1>5, <1>7, <1>10, <1>11 DEF NetGrows, NoDelta, NetTypeOK

\* A connection is bound, and its cursor begins at 0.
LEMMA NetBind ==
    ASSUME StreamInv, NEW d \in Conns, bindConnection(d)
    PROVE  NetInv' /\ NetGrows /\ NoDelta
<1>1. /\ StreamTypeOK /\ NetTypeOK /\ tickID \in Nat /\ tickID' = tickID
      /\ UNCHANGED <<match, open, send, sent, store>>
  BY DEF StreamInv, StreamTypeOK, match, bindConnection
<1>2. Messages' = Messages /\ Stores' = Stores /\ SentRecords' = SentRecords
  BY <1>1, SameTypes
<1>3. d \notin bound
  <2>1. d \in Handlers
    BY DEF Handlers
  <2>. QED
    BY <2>1 DEF StreamInv, HandlerInv, bindConnection, At
<1>4. \A c \in Conns : lastSnapshotTick[c] \in 0 .. tickID
  BY <1>1, ConnFacts
<1>5. /\ lastSnapshotTick' \in [Conns -> 0 .. tickID]
      /\ lastSnapshotTick'[d] = IF d \in open THEN 0 ELSE lastSnapshotTick[d]
      /\ \A c \in Conns \ {d} : lastSnapshotTick'[c] = lastSnapshotTick[c]
      /\ \A c \in Conns \ {d} : c \in bound' <=> c \in bound
      /\ d \in bound' => d \in open
      /\ bound' \subseteq open /\ bound \subseteq bound'
  BY <1>1, <1>3, <1>4 DEF bindConnection, NetTypeOK
<1>6. NetTypeOK'
  BY <1>1, <1>2, <1>5 DEF NetTypeOK, SentRecords
<1>7. ConnInv(d)'
  <2>1. ConnInv(d)
    BY DEF StreamInv
  <2>2. snapshotHistory' = snapshotHistory
    BY <1>1 DEF match
  <2>3. d \in bound' => lastSnapshotTick'[d] = 0
    BY <1>5
  <2>. QED
    BY <1>1, <1>3, <2>1, <2>2, <2>3 DEF ConnInv, NoneLeftOut
<1>8. NetInv'
  BY <1>1, <1>5, <1>6, <1>7, OneConn DEF SameConn
<1>9. \A c \in Conns : c \in bound => lastSnapshotTick[c] <= lastSnapshotTick'[c]
  BY <1>3, <1>4, <1>5
<1>. QED
  BY <1>1, <1>5, <1>8, <1>9 DEF NetGrows, NoDelta, NetTypeOK

\* The client takes the next message.
LEMMA NetDeliver ==
    ASSUME StreamInv, NEW d \in Conns, Deliver(d)
    PROVE  NetInv' /\ NetGrows /\ NoDelta
<1>1. /\ StreamTypeOK /\ NetTypeOK /\ tickID \in Nat /\ tickID' = tickID
      /\ UNCHANGED <<match, open, bound, lastSnapshotTick, sent>> /\ send[d] # <<>>
  BY DEF StreamInv, StreamTypeOK, match, Deliver
<1>2. Messages' = Messages /\ Stores' = Stores /\ SentRecords' = SentRecords
  BY <1>1, SameTypes
<1>3. /\ send[d] \in Seq(Messages) /\ sent[d] \in SentRecords /\ store[d] \in Stores
      /\ ConnInv(d) /\ snapshotHistory \in SUBSET Nat
  BY <1>1, ConnFacts DEF StreamInv, StreamTypeOK
<1> DEFINE v == ApplySnapshot(store[d], Head(send[d]))
           q == Tail(send[d])
<1>4. q \in Seq(Messages) /\ Head(send[d]) \in Messages
  BY <1>1, <1>3, QueueFacts
<1>5. v \in Stores
  BY <1>1, <1>3, <1>4, ApplyFacts
<1>6. sent[d].clean => QueueInv(q, v, sent[d].newest, snapshotHistory) /\ Exact(v, snapshotHistory)
  <2>1. sent[d].newest \in Nat
    BY <1>1, <1>3, SentFacts
  <2>. QED
    BY <1>1, <1>3, <2>1, DeliverQueue DEF ConnInv
<1>7. send' = [send EXCEPT ![d] = q] /\ store' = [store EXCEPT ![d] = v]
  BY DEF Deliver
<1> HIDE DEF v, q
<1>8. /\ send' \in [Conns -> Seq(Messages)] /\ store' \in [Conns -> Stores]
      /\ send'[d] = q /\ store'[d] = v
      /\ \A c \in Conns \ {d} : send'[c] = send[c] /\ store'[c] = store[c]
  BY <1>1, <1>4, <1>5, <1>7 DEF NetTypeOK
<1>9. NetTypeOK'
  BY <1>1, <1>2, <1>8 DEF NetTypeOK, SentRecords
<1>10. ConnInv(d)'
  <2>1. snapshotHistory' = snapshotHistory
    BY <1>1 DEF match
  <2>. QED
    BY <1>1, <1>3, <1>6, <1>8, <2>1 DEF ConnInv, NoneLeftOut
<1>11. NetInv'
  BY <1>1, <1>8, <1>9, <1>10, OneConn DEF SameConn
<1>12. \A c \in Conns : lastSnapshotTick[c] <= lastSnapshotTick[c]
  BY <1>1, ConnFacts
<1>. QED
  BY <1>1, <1>11, <1>12 DEF NetGrows, NoDelta, NetTypeOK

-----------------------------------------------------------------------------
(* The dispatch loop through a step *)

Dispatches ==
    [at : {"idle", "next", "sending"}, targets : SUBSET (Conns \X (0 .. tickID)),
     conn : Conns \cup {0}, cursor : 0 .. tickID, latest : 0 .. tickID,
     ticks : SUBSET (0 .. tickID)]

DispatchOK == dispatch \in Dispatches /\ DispatchInv

LEMMA DispatchFacts ==
    ASSUME StreamInv
    PROVE  /\ StreamTypeOK /\ NetTypeOK /\ tickID \in Nat /\ snapshotHistory \subseteq 0 .. tickID
           /\ dispatch \in Dispatches /\ DispatchInv
           /\ dispatch.targets \subseteq Conns \X (0 .. tickID)
           /\ dispatch.cursor \in 0 .. tickID /\ dispatch.latest \in 0 .. tickID
           /\ dispatch.ticks \subseteq 0 .. tickID
           /\ \A target \in dispatch.targets : target[1] \in Conns /\ target[2] \in 0 .. tickID
           /\ \A c \in Conns : /\ sent[c].lastDelta \in 0 .. tickID
                               /\ lastSnapshotTick[c] \in 0 .. tickID
<1>1. StreamTypeOK /\ NetTypeOK /\ tickID \in Nat /\ snapshotHistory \subseteq 0 .. tickID
      /\ dispatch \in Dispatches /\ DispatchInv
  BY DEF StreamInv, StreamTypeOK, Dispatches
<1>2. /\ dispatch.targets \subseteq Conns \X (0 .. tickID)
      /\ dispatch.cursor \in 0 .. tickID /\ dispatch.latest \in 0 .. tickID
      /\ dispatch.ticks \subseteq 0 .. tickID
  BY <1>1 DEF Dispatches
<1>3. \A c \in Conns : sent[c].lastDelta \in 0 .. tickID /\ lastSnapshotTick[c] \in 0 .. tickID
  BY <1>1, ConnFacts, SentFacts
<1>. QED
  BY <1>1, <1>2, <1>3

\* The last delta of a connection is within its cursor when nothing is being sent to it.
LEMMA CursorKept ==
    ASSUME StreamInv, NetInv', NoDelta, tickID' \in {tickID, tickID + 1},
           NEW c \in Conns, sent[c].lastDelta <= lastSnapshotTick[c]
    PROVE  sent'[c].lastDelta <= lastSnapshotTick'[c]
<1>1. /\ tickID \in Nat /\ sent[c].lastDelta \in 0 .. tickID
      /\ lastSnapshotTick[c] \in 0 .. tickID
  BY DispatchFacts
<1>2. lastSnapshotTick'[c] \in 0 .. tickID'
  BY DEF NetInv, NetTypeOK
<1>3. CASE c \notin bound'
  <2>1. sent'[c].lastDelta = 0
    BY <1>3 DEF NetInv, ConnInv
  <2>. QED
    BY <1>1, <1>2, <2>1
<1>4. CASE c \in bound'
  <2>1. c \in open' /\ sent'[c].lastDelta = sent[c].lastDelta
    BY <1>4 DEF NetInv, NetTypeOK, NoDelta
  <2>2. CASE c \in bound
    <3>1. lastSnapshotTick[c] <= lastSnapshotTick'[c]
      BY <2>1, <2>2 DEF NoDelta
    <3>. QED
      BY <1>1, <1>2, <2>1, <3>1
  <2>3. CASE c \notin bound
    <3>1. sent[c].lastDelta = 0
      BY <2>3 DEF StreamInv, ConnInv
    <3>. QED
      BY <1>1, <1>2, <2>1, <3>1
  <2>. QED
    BY <2>2, <2>3
<1>. QED
  BY <1>3, <1>4

LEMMA TargetKept ==
    ASSUME StreamInv, NetInv', NetGrows, NoDelta, tickID' \in {tickID, tickID + 1},
           NEW target \in dispatch.targets, target[1] \in open'
    PROVE  /\ target[1] \in bound'
           /\ sent'[target[1]].lastDelta <= target[2]
           /\ target[2] <= lastSnapshotTick'[target[1]]
<1> DEFINE c == target[1]
<1>1. /\ tickID \in Nat /\ c \in Conns /\ target[2] \in 0 .. tickID
      /\ sent[c].lastDelta \in 0 .. tickID /\ lastSnapshotTick[c] \in 0 .. tickID
  BY DispatchFacts
<1>2. c \in open /\ TargetInv(target)
  BY DispatchFacts DEF NetGrows, DispatchInv
<1>3. c \in bound /\ sent[c].lastDelta <= target[2] /\ target[2] <= lastSnapshotTick[c]
  BY <1>2 DEF TargetInv
<1>4. /\ c \in bound' /\ sent'[c].lastDelta = sent[c].lastDelta
      /\ lastSnapshotTick[c] <= lastSnapshotTick'[c]
  BY <1>3 DEF NetGrows, NoDelta
<1>5. lastSnapshotTick'[c] \in 0 .. tickID'
  BY <1>1 DEF NetInv, NetTypeOK
<1> HIDE DEF c
<1>6. target[2] <= lastSnapshotTick'[c]
  BY <1>1, <1>3, <1>4, <1>5
<1>. QED
  BY <1>3, <1>4, <1>6 DEF c

\* A step that leaves the loop where it is.
LEMMA DispatchKept ==
    ASSUME StreamInv, NetInv', NetGrows, NoDelta, HistoryMoves, dispatch' = dispatch,
           tickID' \in {tickID, tickID + 1}
    PROVE  DispatchOK'
<1>1. /\ StreamTypeOK /\ tickID \in Nat /\ dispatch \in Dispatches /\ DispatchInv
      /\ dispatch.cursor \in 0 .. tickID /\ dispatch.latest \in 0 .. tickID
      /\ dispatch.ticks \subseteq 0 .. tickID
      /\ \A c \in Conns : /\ sent[c].lastDelta \in 0 .. tickID
                          /\ lastSnapshotTick[c] \in 0 .. tickID
  BY DispatchFacts
<1>2. dispatch \in Dispatches'
  <2>1. 0 .. tickID \subseteq 0 .. tickID'
    BY <1>1
  <2>. QED
    BY <1>1, <2>1 DEF Dispatches
<1>3. \A target \in dispatch.targets : TargetInv(target)'
  BY <1>1, TargetKept DEF DispatchInv, TargetInv, SendingTo
<1>4. ASSUME dispatch.at = "sending"
      PROVE  SendingInv'
  <2>1. SendingInv
    BY <1>1, <1>4 DEF DispatchInv
  <2> DEFINE c == dispatch.conn
  <2>2. c \in Conns
    BY <2>1 DEF SendingInv
  <2>3. \A t \in dispatch.ticks :
            /\ t > dispatch.latest
            /\ \A u \in snapshotHistory' : dispatch.latest < u /\ u < t => u \in dispatch.ticks
    <3>1. \A t \in dispatch.ticks :
              /\ t > dispatch.latest
              /\ \A u \in snapshotHistory : dispatch.latest < u /\ u < t => u \in dispatch.ticks
      BY <2>1 DEF SendingInv
    <3>2. \A t \in dispatch.ticks : \A u \in snapshotHistory' :
              dispatch.latest < u /\ u < t => u \in snapshotHistory
      BY <1>1 DEF HistoryMoves
    <3>. QED
      BY <3>1, <3>2
  <2>4. ASSUME c \in open'
        PROVE  /\ c \in bound' /\ sent'[c].lastDelta <= dispatch.latest
               /\ dispatch.cursor <= lastSnapshotTick'[c]
               /\ NoneLeftOut(c, dispatch.latest)'
    <3>1. c \in open /\ c \in bound /\ sent[c].lastDelta <= dispatch.latest
          /\ dispatch.cursor <= lastSnapshotTick[c] /\ NoneLeftOut(c, dispatch.latest)
      BY <2>1, <2>4 DEF NetGrows, SendingInv
    <3>2. /\ c \in bound' /\ sent'[c].lastDelta = sent[c].lastDelta
          /\ lastSnapshotTick[c] <= lastSnapshotTick'[c] /\ sent[c].ticks \subseteq sent'[c].ticks
      BY <2>4, <3>1 DEF NetGrows, NoDelta
    <3>3. lastSnapshotTick'[c] \in 0 .. tickID'
      BY <2>2 DEF NetInv, NetTypeOK
    <3>4. \A u \in 1 .. dispatch.latest : u \in sent'[c].ticks \/ u \notin snapshotHistory'
      BY <1>1, <3>1, <3>2 DEF NoneLeftOut, HistoryMoves
    <3>5. dispatch.cursor <= lastSnapshotTick'[c]
      BY <1>1, <2>2, <3>1, <3>2, <3>3
    <3>. QED
      BY <3>1, <3>2, <3>4, <3>5 DEF NoneLeftOut
  <2>. QED
    BY <2>1, <2>3, <2>4 DEF SendingInv, NoneLeftOut
<1>5. \A c \in Conns : SendingTo(c)' \/ sent'[c].lastDelta <= lastSnapshotTick'[c]
  <2>1. \A c \in Conns : SendingTo(c)' \/ sent[c].lastDelta <= lastSnapshotTick[c]
    BY <1>1 DEF DispatchInv, SendingTo
  <2>. QED
    BY <2>1, CursorKept
<1>. QED
  BY <1>2, <1>3, <1>4, <1>5 DEF DispatchOK, DispatchInv

LEMMA NextRecord ==
    ASSUME tickID \in Nat, NEW T \in SUBSET (Conns \X (0 .. tickID))
    PROVE  LET r == [NoDispatch EXCEPT !.at = "next", !.targets = T] IN
           r \in Dispatches /\ r.at = "next" /\ r.targets = T
<1> DEFINE r == [at |-> "next", targets |-> T, conn |-> 0, cursor |-> 0, latest |-> 0,
                 ticks |-> {}]
           idle == [at |-> "idle", targets |-> {}, conn |-> 0, cursor |-> 0, latest |-> 0,
                    ticks |-> {}]
<1>1. [NoDispatch EXCEPT !.at = "next", !.targets = T] = r
  <2>1. [idle EXCEPT !.at = "next"] =
            [at |-> "next", targets |-> {}, conn |-> 0, cursor |-> 0, latest |-> 0, ticks |-> {}]
    OBVIOUS
  <2>2. [[at |-> "next", targets |-> {}, conn |-> 0, cursor |-> 0, latest |-> 0, ticks |-> {}]
            EXCEPT !.targets = T] = r
    OBVIOUS
  <2>3. NoDispatch = idle
    BY DEF NoDispatch
  <2>. QED
    BY <2>1, <2>2, <2>3
<1>2. r \in Dispatches
  BY DEF Dispatches
<1>. QED
  BY <1>1, <1>2

\* A new set of targets: bound connections with their cursors.
LEMMA BeginStep ==
    ASSUME StreamInv, DispatchBegin
    PROVE  DispatchOK'
<1>1. /\ NetTypeOK /\ tickID \in Nat /\ DispatchInv /\ dispatch.at = "idle"
      /\ \A c \in Conns : lastSnapshotTick[c] \in 0 .. tickID
      /\ UNCHANGED <<tickID, snapshotHistory, open, bound, lastSnapshotTick, sent>>
  BY DispatchFacts DEF DispatchBegin, match
<1> DEFINE T == {<<c, lastSnapshotTick[c]>> : c \in bound}
<1>2. dispatch' = [NoDispatch EXCEPT !.at = "next", !.targets = T]
  BY DEF DispatchBegin
<1>3. T \subseteq Conns \X (0 .. tickID)
  BY <1>1 DEF NetTypeOK
<1>4. \A target \in T : target[1] \in bound /\ target[2] = lastSnapshotTick[target[1]]
                        /\ target = <<target[1], target[2]>>
  OBVIOUS
<1> HIDE DEF T
<1>5. dispatch'.at = "next" /\ dispatch'.targets = T /\ dispatch' \in Dispatches'
  <2>1. Dispatches' = Dispatches
    BY <1>1 DEF Dispatches
  <2>. QED
    BY <1>1, <1>2, <1>3, <2>1, NextRecord
<1>6. \A c \in Conns : sent[c].lastDelta <= lastSnapshotTick[c]
  BY <1>1 DEF DispatchInv, SendingTo
<1>7. ASSUME NEW target \in T
      PROVE  TargetInv(target)'
  <2>1. /\ target[1] \in bound /\ target[1] \in Conns
        /\ target[2] = lastSnapshotTick[target[1]]
    BY <1>1, <1>4 DEF NetTypeOK
  <2>2. target[2] <= lastSnapshotTick[target[1]] /\ sent[target[1]].lastDelta <= target[2]
    BY <1>1, <1>6, <2>1
  <2>3. \A other \in T : other[1] = target[1] => other = target
    BY <1>4
  <2>. QED
    BY <1>1, <1>5, <2>1, <2>2, <2>3 DEF TargetInv, SendingTo
<1>. QED
  BY <1>1, <1>5, <1>6, <1>7 DEF DispatchOK, DispatchInv

\* The loop goes on with fewer targets, and nothing is being sent.
LEMMA NextOK ==
    ASSUME StreamInv, NetInv', NetGrows, NoDelta, tickID' = tickID,
           NEW T \in SUBSET dispatch.targets, dispatch' = DispatchNext(T),
           \A c \in Conns : sent'[c].lastDelta <= lastSnapshotTick'[c]
    PROVE  DispatchOK'
<1>1. tickID \in Nat /\ dispatch.targets \subseteq Conns \X (0 .. tickID) /\ DispatchInv
  BY DispatchFacts
<1>2. /\ dispatch' \in Dispatches' /\ dispatch'.at # "sending" /\ dispatch'.targets \subseteq T
  <2>1. CASE T = {}
    <3>1. dispatch' = NoDispatch
      BY <2>1 DEF DispatchNext
    <3>. QED
      BY <1>1, <3>1 DEF NoDispatch, Dispatches
  <2>2. CASE T # {}
    <3>1. dispatch' = [NoDispatch EXCEPT !.at = "next", !.targets = T]
      BY <2>2 DEF DispatchNext
    <3>2. T \subseteq Conns \X (0 .. tickID)
      BY <1>1
    <3>3. Dispatches' = Dispatches
      BY DEF Dispatches
    <3>. QED
      BY <1>1, <3>1, <3>2, <3>3, NextRecord
  <2>. QED
    BY <2>1, <2>2
<1>3. \A target \in dispatch'.targets : TargetInv(target)'
  BY <1>1, <1>2, TargetKept DEF DispatchInv, TargetInv, SendingTo
<1>. QED
  BY <1>2, <1>3 DEF DispatchOK, DispatchInv

LEMMA FetchStep ==
    ASSUME StreamInv, DispatchFetch
    PROVE  DispatchOK'
<1>1. /\ NetTypeOK /\ tickID \in Nat /\ DispatchInv /\ dispatch.at = "next"
      /\ dispatch.targets \subseteq Conns \X (0 .. tickID) /\ snapshotHistory \subseteq 0 .. tickID
      /\ \A c \in Conns : lastSnapshotTick[c] \in 0 .. tickID /\ sent[c].lastDelta \in 0 .. tickID
      /\ UNCHANGED <<tickID, snapshotHistory, open, bound, lastSnapshotTick, send, sent, store>>
  BY DispatchFacts DEF DispatchFetch, match
<1>2. NetInv' /\ NetGrows /\ NoDelta
  BY <1>1, NetSame DEF HistoryMoves
<1>3. \A c \in Conns : sent[c].lastDelta <= lastSnapshotTick[c]
  BY <1>1 DEF DispatchInv, SendingTo
<1>4. PICK target \in dispatch.targets :
          LET ticks == {t \in snapshotHistory : t > target[2]}
              rest  == dispatch.targets \ {target}
          IN dispatch' = IF ticks = {} THEN DispatchNext(rest)
                         ELSE [at |-> "sending", targets |-> rest, conn |-> target[1],
                               cursor |-> target[2], latest |-> target[2], ticks |-> ticks]
  BY DEF DispatchFetch
<1> DEFINE ticks == {t \in snapshotHistory : t > target[2]}
           rest == dispatch.targets \ {target}
<1>5. CASE ticks = {}
  BY <1>1, <1>2, <1>3, <1>4, <1>5, NextOK
<1>6. CASE ticks # {}
  <2>1. /\ dispatch'.at = "sending" /\ dispatch'.targets = rest /\ dispatch'.conn = target[1]
        /\ dispatch'.cursor = target[2] /\ dispatch'.latest = target[2] /\ dispatch'.ticks = ticks
    BY <1>4, <1>6
  <2>2. target[1] \in Conns /\ target[2] \in 0 .. tickID /\ TargetInv(target)
    BY <1>1 DEF DispatchInv
  <2>3. /\ ticks \subseteq 0 .. tickID
        /\ \A t \in ticks : t > target[2] /\ \A u \in snapshotHistory : u > target[2] => u \in ticks
    BY <1>1
  <2>4. dispatch' \in Dispatches'
    <3>1. dispatch' = [at |-> "sending", targets |-> rest, conn |-> target[1],
                       cursor |-> target[2], latest |-> target[2], ticks |-> ticks]
      BY <1>4, <1>6
    <3> HIDE DEF ticks
    <3>. QED
      BY <1>1, <2>2, <2>3, <3>1 DEF Dispatches
  <2> HIDE DEF ticks
  <2>5. SendingInv'
    <3>1. target[1] \in open =>
              /\ target[1] \in bound /\ sent[target[1]].lastDelta <= target[2]
              /\ target[2] <= lastSnapshotTick[target[1]]
      BY <2>2 DEF TargetInv
    <3>2. target[1] \in bound => NoneLeftOut(target[1], lastSnapshotTick[target[1]])
      BY <2>2 DEF StreamInv, ConnInv
    <3>3. target[1] \in open => \A u \in 1 .. target[2] :
              u \in sent[target[1]].ticks \/ u \notin snapshotHistory
      <4>1. target[1] \in open => \A u \in 1 .. target[2] : u \in 1 .. lastSnapshotTick[target[1]]
        BY <1>1, <2>2, <3>1
      <4>. QED
        BY <3>1, <3>2, <4>1 DEF NoneLeftOut
    <3>4. \A u \in snapshotHistory : target[2] < u => u \in ticks
      BY DEF ticks
    <3>5. \A t \in ticks : t > target[2]
      BY DEF ticks
    <3>6. target[2] <= target[2]
      BY <2>2
    <3>. QED
      BY <1>1, <2>1, <2>2, <3>1, <3>3, <3>4, <3>5, <3>6 DEF SendingInv, NoneLeftOut
  <2>6. ASSUME NEW other \in rest
        PROVE  TargetInv(other)'
    <3>1. TargetInv(other) /\ other \in dispatch.targets
      BY <1>1 DEF DispatchInv
    <3>2. other[1] # target[1]
      BY <2>2 DEF TargetInv
    <3>. QED
      BY <1>1, <2>1, <3>1, <3>2 DEF TargetInv, SendingTo
  <2>. QED
    BY <1>1, <1>3, <2>1, <2>4, <2>5, <2>6 DEF DispatchOK, DispatchInv
<1>. QED
  BY <1>5, <1>6

\* The connection that is being sent to.
LEMMA SendingFacts ==
    ASSUME StreamInv, dispatch.at = "sending"
    PROVE  /\ SendingInv /\ dispatch.conn \in Conns
           /\ dispatch.conn \in bound => NoneLeftOut(dispatch.conn, dispatch.latest)
BY DispatchFacts DEF DispatchInv, SendingInv, NetTypeOK

LEMMA NoteStep ==
    ASSUME StreamInv, DispatchNote
    PROVE  NetInv' /\ NetGrows /\ NoDelta /\ DispatchOK'
<1>1. /\ NetTypeOK /\ tickID \in Nat /\ DispatchInv /\ dispatch.at = "sending"
      /\ dispatch.cursor \in 0 .. tickID /\ dispatch.latest \in 0 .. tickID
      /\ snapshotHistory \subseteq 0 .. tickID
      /\ \A c \in Conns : lastSnapshotTick[c] \in 0 .. tickID /\ sent[c].lastDelta \in 0 .. tickID
      /\ UNCHANGED <<match, open, bound, send, sent, store>>
  BY DispatchFacts DEF DispatchNote
<1>2. UNCHANGED <<tickID, snapshotHistory>>
  BY <1>1 DEF match
<1> DEFINE c == dispatch.conn
<1>3. SendingInv /\ c \in Conns /\ (c \in bound => NoneLeftOut(c, dispatch.latest))
  BY <1>1, SendingFacts
<1>4. NetInv' /\ NetGrows /\ NoDelta
  <2>1. CASE dispatch.latest > dispatch.cursor
    BY <1>1, <1>3, <2>1, NetCursor DEF DispatchNote
  <2>2. CASE ~(dispatch.latest > dispatch.cursor)
    BY <1>1, <1>2, <2>2, NetSame DEF DispatchNote, HistoryMoves
  <2>. QED
    BY <2>1, <2>2
<1>5. sent'[c].lastDelta <= lastSnapshotTick'[c]
  <2>1. lastSnapshotTick'[c] \in 0 .. tickID
    BY <1>2, <1>3, <1>4 DEF NetInv, NetTypeOK
  <2>2. CASE c \notin open
    <3>1. c \notin bound'
      BY <1>1, <2>2 DEF NetTypeOK
    <3>2. sent'[c].lastDelta = 0
      BY <1>3, <1>4, <3>1 DEF NetInv, ConnInv
    <3>. QED
      BY <1>1, <2>1, <3>2
  <2>3. CASE c \in open
    <3>1. sent[c].lastDelta <= dispatch.latest /\ dispatch.cursor <= lastSnapshotTick[c]
      BY <1>3, <2>3 DEF SendingInv
    <3>2. CASE dispatch.latest > dispatch.cursor
      <4>1. dispatch.latest <= lastSnapshotTick'[c]
        BY <1>1, <1>3, <2>3, <3>2, NetCursor DEF DispatchNote
      <4>. QED
        BY <1>1, <1>3, <2>1, <3>1, <4>1
    <3>3. CASE ~(dispatch.latest > dispatch.cursor)
      <4>1. lastSnapshotTick' = lastSnapshotTick
        BY <3>3 DEF DispatchNote
      <4>. QED
        BY <1>1, <1>3, <3>1, <3>3, <4>1
    <3>. QED
      BY <3>2, <3>3
  <2>. QED
    BY <2>2, <2>3
<1>6. \A d \in Conns \ {c} : sent'[d].lastDelta <= lastSnapshotTick'[d]
  <2>1. \A d \in Conns \ {c} : sent[d].lastDelta <= lastSnapshotTick[d]
    BY <1>1 DEF DispatchInv, SendingTo
  <2>. QED
    BY <1>2, <1>4, <2>1, CursorKept
<1>7. dispatch' = DispatchNext(dispatch.targets)
  BY DEF DispatchNote
<1>8. \A d \in Conns : sent'[d].lastDelta <= lastSnapshotTick'[d]
  BY <1>5, <1>6
<1>. QED
  BY <1>2, <1>4, <1>7, <1>8, NextOK

LEMMA SendStep ==
    ASSUME StreamInv, DispatchSend
    PROVE  NetInv' /\ NetGrows /\ DispatchOK' /\ bound' \subseteq bound
<1>1. /\ NetTypeOK /\ tickID \in Nat /\ DispatchInv /\ dispatch.at = "sending"
      /\ dispatch \in Dispatches /\ dispatch.targets \subseteq Conns \X (0 .. tickID)
      /\ dispatch.cursor \in 0 .. tickID /\ dispatch.latest \in 0 .. tickID
      /\ dispatch.ticks \subseteq 0 .. tickID /\ snapshotHistory \subseteq 0 .. tickID
      /\ \A d \in Conns : lastSnapshotTick[d] \in 0 .. tickID /\ sent[d].lastDelta \in 0 .. tickID
      /\ UNCHANGED match /\ dispatch.ticks # {}
  BY DispatchFacts DEF DispatchSend
<1>2. UNCHANGED <<tickID, snapshotHistory>> /\ Dispatches' = Dispatches
  BY <1>1 DEF match, Dispatches
<1> DEFINE c == dispatch.conn
           t == CHOOSE x \in dispatch.ticks : \A y \in dispatch.ticks : x <= y
<1>3. SendingInv /\ c \in Conns /\ (c \in open => c \in bound /\ NoneLeftOut(c, dispatch.latest))
  BY <1>1, SendingFacts DEF SendingInv
<1>4. t \in dispatch.ticks /\ \A y \in dispatch.ticks : t <= y
  <2>1. dispatch.ticks \in SUBSET Nat
    BY <1>1
  <2>2. \E x \in dispatch.ticks : \A y \in dispatch.ticks : x <= y
    BY <1>1, <2>1, LeastExists
  <2>. QED
    BY <2>2
<1>5. /\ Enqueue(c, Delta(t))
      /\ dispatch' = IF Sends(c) THEN [dispatch EXCEPT !.ticks = @ \ {t}, !.latest = t]
                     ELSE [dispatch EXCEPT !.ticks = {}]
  BY DEF DispatchSend
<1> HIDE DEF t
<1>6. /\ t > dispatch.latest /\ t \in 1 .. tickID
      /\ \A u \in snapshotHistory : dispatch.latest < u => ~(u < t)
  <2>1. /\ t > dispatch.latest
        /\ \A u \in snapshotHistory : dispatch.latest < u /\ u < t => u \in dispatch.ticks
    BY <1>3, <1>4 DEF SendingInv
  <2>. QED
    BY <1>1, <1>4, <2>1
<1>7. /\ Delta(t) \in Messages /\ Delta(t).kind = "delta" /\ Delta(t).tick = t
      /\ Delta(t).holds = {t}
  BY <1>1, <1>6, DeltaFacts
<1>8. c \in open => \A u \in snapshotHistory : u < t => u <= sent[c].newest
  <2>1. sent[c].newest \in 0 .. tickID /\ sent[c].ticks \subseteq 0 .. sent[c].newest
    BY <1>1, <1>3, ConnFacts, SentFacts DEF StreamInv, ConnInv
  <2>2. ASSUME c \in open, NEW u \in snapshotHistory, u < t
        PROVE  u <= sent[c].newest
    <3>1. u \in 0 .. dispatch.latest
      BY <1>1, <1>6, <2>2
    <3>2. CASE u = 0
      BY <2>1, <3>2
    <3>3. CASE u # 0
      <4>1. u \in 1 .. dispatch.latest
        BY <1>1, <3>1, <3>3
      <4>2. u \in sent[c].ticks
        BY <1>3, <2>2, <4>1 DEF NoneLeftOut
      <4>. QED
        BY <2>1, <4>2
    <3>. QED
      BY <3>2, <3>3
  <2>. QED
    BY <2>2
<1>9. /\ NetInv' /\ NetGrows /\ bound' \subseteq bound
      /\ Sends(c) => /\ t \in sent'[c].ticks /\ UNCHANGED <<open, bound, lastSnapshotTick>>
                     /\ sent'[c].lastDelta = t
                     /\ \A d \in Conns \ {c} : sent'[d] = sent[d]
      /\ ~Sends(c) => c \notin open' /\ NoDelta
  <2> DEFINE m == Delta(t)
  <2>1. m.kind = "delta" /\ c \in open =>
            c \in bound /\ \A u \in snapshotHistory : u < m.tick => u <= sent[c].newest
    BY <1>3, <1>7, <1>8
  <2>2. m \in Messages /\ Enqueue(c, m) /\ m.kind = "delta" /\ m.tick = t /\ m.holds = {t}
    BY <1>5, <1>7
  <2> HIDE DEF m, c
  <2>. QED
    BY <1>1, <1>3, <2>1, <2>2, NetEnqueue
<1>10. CASE Sends(c)
  <2> DEFINE r == dispatch.ticks \ {t}
  <2>1. dispatch' = [dispatch EXCEPT !.ticks = r, !.latest = t]
    BY <1>5, <1>10
  <2>2. r \subseteq 0 .. tickID /\ t \in 0 .. tickID
    BY <1>1, <1>4
  <2>3. \A y \in r : y > t
    BY <1>1, <1>4
  <2>4. \A u \in dispatch.ticks : u # t => u \in r
    OBVIOUS
  <2> HIDE DEF r
  <2>5. /\ dispatch' \in Dispatches /\ dispatch'.at = "sending" /\ dispatch'.conn = c
        /\ dispatch'.targets = dispatch.targets /\ dispatch'.cursor = dispatch.cursor
        /\ dispatch'.latest = t /\ dispatch'.ticks = r
    BY <1>1, <2>1, <2>2 DEF Dispatches
  <2>6. SendingInv'
    <3>1. dispatch.cursor <= t
      <4>1. dispatch.cursor <= dispatch.latest
        BY <1>3 DEF SendingInv
      <4>. QED
        BY <1>1, <1>6, <2>2, <4>1
    <3>2. \A y \in r : \A u \in snapshotHistory : t < u /\ u < y => u \in r
      <4>1. ASSUME NEW y \in r, NEW u \in snapshotHistory, t < u, u < y
            PROVE  u \in r
        <5>1. y \in dispatch.ticks
          BY DEF r
        <5>2. dispatch.latest < u
          BY <1>1, <1>6, <4>1
        <5>3. u \in dispatch.ticks
          BY <1>3, <4>1, <5>1, <5>2 DEF SendingInv
        <5>. QED
          BY <1>1, <2>4, <4>1, <5>3
      <4>. QED
        BY <4>1
    <3>3. c \in open => /\ c \in bound /\ t <= t /\ dispatch.cursor <= lastSnapshotTick[c]
      BY <1>3, <2>2 DEF SendingInv
    <3>4. c \in open => \A u \in 1 .. t : u \in sent'[c].ticks \/ u \notin snapshotHistory
      <4>1. ASSUME c \in open, NEW u \in 1 .. t, u \in snapshotHistory
            PROVE  u \in sent'[c].ticks
        <5>1. CASE u = t
          BY <1>9, <1>10, <5>1
        <5>2. CASE u # t
          <6>1. u \in 1 .. dispatch.latest
            BY <1>1, <1>6, <4>1, <5>2
          <6>2. u \in sent[c].ticks
            BY <1>3, <4>1, <6>1 DEF NoneLeftOut
          <6>. QED
            BY <1>9, <1>10, <4>1, <6>2 DEF NetGrows
        <5>. QED
          BY <5>1, <5>2
      <4>. QED
        BY <4>1
    <3>. QED
      BY <1>2, <1>3, <1>9, <1>10, <2>3, <2>5, <3>1, <3>2, <3>3, <3>4 DEF SendingInv, NoneLeftOut
  <2>7. \A target \in dispatch.targets : TargetInv(target)'
    <3>1. \A target \in dispatch.targets : TargetInv(target) /\ target[1] \in Conns \ {c}
      BY <1>1 DEF DispatchInv, TargetInv, SendingTo
    <3>. QED
      BY <1>1, <1>9, <1>10, <2>5, <3>1 DEF TargetInv, SendingTo
  <2>8. \A d \in Conns : SendingTo(d)' \/ sent'[d].lastDelta <= lastSnapshotTick'[d]
    BY <1>1, <1>9, <1>10, <2>5 DEF DispatchInv, SendingTo
  <2>. QED
    BY <1>2, <1>9, <2>5, <2>6, <2>7, <2>8 DEF DispatchOK, DispatchInv
<1>11. CASE ~Sends(c)
  <2>1. dispatch' = [dispatch EXCEPT !.ticks = {}]
    BY <1>5, <1>11
  <2>2. /\ dispatch' \in Dispatches /\ dispatch'.at = "sending" /\ dispatch'.conn = c
        /\ dispatch'.targets = dispatch.targets /\ dispatch'.cursor = dispatch.cursor
        /\ dispatch'.latest = dispatch.latest /\ dispatch'.ticks = {}
    BY <1>1, <2>1 DEF Dispatches
  <2>3. SendingInv'
    BY <1>3, <1>9, <1>11, <2>2 DEF SendingInv
  <2>4. \A target \in dispatch.targets : TargetInv(target)'
    BY <1>1, <1>2, <1>9, <1>11, <2>2, TargetKept DEF DispatchInv, TargetInv, SendingTo
  <2>5. \A d \in Conns : SendingTo(d)' \/ sent'[d].lastDelta <= lastSnapshotTick'[d]
    <3>1. \A d \in Conns : SendingTo(d)' \/ sent[d].lastDelta <= lastSnapshotTick[d]
      BY <1>1, <2>2 DEF DispatchInv, SendingTo
    <3>. QED
      BY <1>2, <1>9, <1>11, <3>1, CursorKept
  <2>. QED
    BY <1>2, <1>9, <2>2, <2>3, <2>4, <2>5 DEF DispatchOK, DispatchInv
<1>. QED
  BY <1>9, <1>10, <1>11

-----------------------------------------------------------------------------
(* The handlers through a step *)

HandlerRecords ==
    [at : Labels, full : Fulls \cup {EmptyStore}, targets : SUBSET Conns, spectator : BOOLEAN]

HandlersOK ==
    handler \in [Handlers -> HandlerRecords] /\ \A c \in Handlers : HandlerInv(c, handler[c])

StepOK == NetInv' /\ DispatchOK' /\ HandlersOK'

\* handler[c] becomes r.
Becomes(c, r) == handler' = [handler EXCEPT ![c] = r]

LEMMA HandlerFacts ==
    ASSUME StreamInv, NEW c \in Handlers
    PROVE  /\ StreamTypeOK /\ NetTypeOK /\ tickID \in Nat
           /\ handler \in [Handlers -> HandlerRecords] /\ handler[c] \in HandlerRecords
           /\ handler[c].at \in Labels /\ handler[c].full \in Fulls \cup {EmptyStore}
           /\ handler[c].targets \subseteq Conns /\ handler[c].spectator \in BOOLEAN
           /\ HandlerInv(c, handler[c])
<1>1. StreamTypeOK /\ NetTypeOK /\ tickID \in Nat /\ HandlerInv(c, handler[c])
      /\ handler \in [Handlers -> HandlerRecords]
  BY DEF StreamInv, StreamTypeOK, HandlerRecords
<1>2. handler[c] \in HandlerRecords
  BY <1>1
<1>. QED
  BY <1>1, <1>2 DEF HandlerRecords

LEMMA HandlerStays ==
    ASSUME NEW c, NEW h, HandlerInv(c, h), NetGrows, c \in bound' => c \in bound
    PROVE  HandlerInv(c, h)'
BY DEF HandlerInv, Carried, NetGrows

LEMMA HandlersSame ==
    ASSUME StreamInv, UNCHANGED handler, NetGrows, bound' \subseteq bound,
           tickID' \in {tickID, tickID + 1}
    PROVE  HandlersOK'
<1>1. handler \in [Handlers -> HandlerRecords] /\ tickID \in Nat
  BY DEF StreamInv, StreamTypeOK, HandlerRecords
<1>2. Fulls \subseteq Fulls'
  BY <1>1, SameTypes, MoreTypes
<1>3. handler' \in [Handlers -> HandlerRecords']
  <2>1. HandlerRecords \subseteq HandlerRecords'
    BY <1>2 DEF HandlerRecords
  <2>. QED
    BY <1>1, <2>1
<1>4. \A c \in Handlers : HandlerInv(c, handler[c])'
  <2>1. ASSUME NEW c \in Handlers, NEW h, h = handler[c]
        PROVE  HandlerInv(c, handler[c])'
    <3>1. HandlerInv(c, h)
      BY <2>1 DEF StreamInv
    <3>2. HandlerInv(c, h)'
      BY <3>1, HandlerStays
    <3>. QED
      BY <2>1, <3>2 DEF HandlerInv, Carried
  <2>. QED
    BY <2>1
<1>. QED
  BY <1>3, <1>4 DEF HandlersOK

LEMMA OneHandler ==
    ASSUME StreamInv, NEW c \in Handlers, NEW r \in HandlerRecords, Becomes(c, r),
           HandlerInv(c, r)', NetGrows, tickID' = tickID,
           \A d \in Handlers \ {c} : d \in bound' => d \in bound
    PROVE  HandlersOK'
<1>1. handler \in [Handlers -> HandlerRecords]
  BY DEF StreamInv, StreamTypeOK, HandlerRecords
<1>2. HandlerRecords' = HandlerRecords
  BY SameTypes DEF HandlerRecords
<1>3. /\ handler' \in [Handlers -> HandlerRecords] /\ handler'[c] = r
      /\ \A d \in Handlers \ {c} : handler'[d] = handler[d]
  BY <1>1 DEF Becomes
<1>4. ASSUME NEW d \in Handlers, NEW h, h = handler[d], d # c
      PROVE  HandlerInv(d, handler[d])'
  <2>1. HandlerInv(d, h)
    BY <1>4 DEF StreamInv
  <2>2. HandlerInv(d, h)'
    BY <1>4, <2>1, HandlerStays
  <2>. QED
    BY <1>3, <1>4, <2>2 DEF HandlerInv, Carried
<1>5. HandlerInv(c, handler[c])'
  BY <1>3 DEF HandlerInv, Carried
<1>6. \A d \in Handlers : HandlerInv(d, handler[d])'
  BY <1>4, <1>5
<1>. QED
  BY <1>2, <1>3, <1>6 DEF HandlersOK

LEMMA HandlerNames ==
    /\ OtherConn \notin Conns /\ OtherConn \in Handlers /\ Conns \subseteq Handlers
    /\ \A c \in Handlers : c # OtherConn => c \in Conns
BY StreamAssumption DEF Handlers, Conns, OtherConn

LEMMA SameHistory ==
    ASSUME StreamInv, UNCHANGED snapshotHistory
    PROVE  HistoryMoves
BY DEF StreamInv, StreamTypeOK, HistoryMoves

\* A handler goes on and touches no connection.
LEMMA QuietHandler ==
    ASSUME StreamInv, NEW c \in Handlers, NEW r \in HandlerRecords, Becomes(c, r),
           UNCHANGED <<tickID, open, bound, lastSnapshotTick, send, sent, dispatch, store>>,
           HistoryMoves, HandlerInv(c, r)
    PROVE  StepOK
<1>1. NetInv' /\ NetGrows /\ NoDelta
  BY NetSame
<1>2. DispatchOK'
  BY <1>1, DispatchKept
<1>3. HandlerInv(c, r)'
  BY <1>1, HandlerStays
<1>4. HandlersOK'
  BY <1>1, <1>3, OneHandler
<1>. QED
  BY <1>1, <1>2, <1>4 DEF StepOK

\* A handler sends what is no delta.
LEMMA SendHandler ==
    ASSUME StreamInv, NEW c \in Handlers, NEW r \in HandlerRecords, Becomes(c, r),
           NEW d \in Conns, NEW m \in Messages, Enqueue(d, m), m.kind # "delta",
           UNCHANGED <<match, dispatch>>, HandlerInv(c, r)'
    PROVE  StepOK
<1>1. NetInv' /\ NetGrows /\ NoDelta /\ bound' \subseteq bound
  BY NetEnqueue
<1>2. tickID' = tickID /\ HistoryMoves
  BY SameHistory DEF match
<1>3. DispatchOK'
  BY <1>1, <1>2, DispatchKept
<1>4. HandlersOK'
  BY <1>1, <1>2, OneHandler
<1>. QED
  BY <1>1, <1>3, <1>4 DEF StepOK

\* A handler notes what it has sent.
LEMMA CursorHandler ==
    ASSUME StreamInv, NEW c \in Handlers, NEW r \in HandlerRecords, Becomes(c, r),
           NEW d \in Conns, NEW t \in 0 .. tickID, updateSnapshotCursor(d, t),
           UNCHANGED <<match, open, bound, send, sent, dispatch, store>>,
           d \in bound => NoneLeftOut(d, t), HandlerInv(c, r)
    PROVE  StepOK
<1>1. NetInv' /\ NetGrows /\ NoDelta
  BY NetCursor
<1>2. tickID' = tickID /\ HistoryMoves
  BY SameHistory DEF match
<1>3. DispatchOK'
  BY <1>1, <1>2, DispatchKept
<1>4. HandlerInv(c, r)'
  BY <1>1, HandlerStays
<1>5. HandlersOK'
  BY <1>1, <1>2, <1>4, OneHandler
<1>. QED
  BY <1>1, <1>3, <1>5 DEF StepOK

LEMMA GotoFacts ==
    ASSUME StreamInv, NEW c \in Handlers, NEW label \in Labels, Goto(c, label)
    PROVE  \E r \in HandlerRecords :
              /\ Becomes(c, r) /\ r.at = label /\ r.full = handler[c].full
              /\ r.targets = handler[c].targets /\ r.spectator = handler[c].spectator
<1> DEFINE r == [handler[c] EXCEPT !.at = label]
<1>1. handler[c] \in HandlerRecords /\ handler \in [Handlers -> HandlerRecords]
  BY HandlerFacts
<1>2. /\ r \in HandlerRecords /\ r.at = label /\ r.full = handler[c].full
      /\ r.targets = handler[c].targets /\ r.spectator = handler[c].spectator
  BY <1>1 DEF HandlerRecords
<1>3. Becomes(c, r)
  BY <1>1 DEF Goto, Becomes
<1> HIDE DEF r
<1>. QED
  BY <1>2, <1>3

LEMMA FullInFulls ==
    ASSUME StreamInv
    PROVE  FullSnapshot \in Fulls
<1>1. tickID \in Nat /\ (status = "lobby" => tickID = 0)
  BY DEF StreamInv, StreamTypeOK
<1>2. CASE status = "lobby"
  BY <1>1, <1>2 DEF FullSnapshot, Fulls
<1>3. CASE status # "lobby"
  BY <1>1, <1>3 DEF FullSnapshot, Fulls
<1>. QED
  BY <1>2, <1>3

LEMMA CaptureFacts ==
    ASSUME StreamInv, NEW c \in Handlers, NEW label \in Labels,
           handler' = [handler EXCEPT ![c].full = FullSnapshot, ![c].at = label]
    PROVE  \E r \in HandlerRecords :
              /\ Becomes(c, r) /\ r.at = label
              /\ r.targets = handler[c].targets /\ r.spectator = handler[c].spectator
<1> DEFINE r == [handler[c] EXCEPT !.full = FullSnapshot, !.at = label]
<1>1. handler[c] \in HandlerRecords /\ handler \in [Handlers -> HandlerRecords]
  BY HandlerFacts
<1>2. /\ r \in HandlerRecords /\ r.at = label
      /\ r.targets = handler[c].targets /\ r.spectator = handler[c].spectator
  BY <1>1, FullInFulls DEF HandlerRecords
<1>3. Becomes(c, r)
  BY <1>1 DEF Becomes
<1> HIDE DEF r
<1>. QED
  BY <1>2, <1>3

LEMMA DoneFacts ==
    /\ Done \in HandlerRecords /\ Done.at = "done" /\ Done.spectator = FALSE
    /\ \A c : HandlerInv(c, Done)
<1> DEFINE r == [at |-> "done", full |-> EmptyStore, targets |-> {}, spectator |-> FALSE]
<1>1. Done = r
  <2> DEFINE idle == [at |-> "idle", full |-> EmptyStore, targets |-> {}, spectator |-> FALSE]
  <2>1. [idle EXCEPT !.at = "done"] = r
    <3>1. \A x : [[at |-> "idle", full |-> EmptyStore, targets |-> {}, spectator |-> x]
                     EXCEPT !.at = "done"]
                 = [at |-> "done", full |-> EmptyStore, targets |-> {}, spectator |-> x]
      OBVIOUS
    <3>. QED
      BY <3>1, Zenon
  <2>2. Idle = idle
    BY DEF Idle
  <2>. QED
    BY <2>1, <2>2 DEF Done
<1>2. r \in HandlerRecords
  BY DEF HandlerRecords, Labels
<1>3. \A c : HandlerInv(c, r)
  BY DEF HandlerInv
<1>. QED
  BY <1>1, <1>2, <1>3

LEMMA BroadcastFacts ==
    ASSUME NEW h \in HandlerRecords, NEW T \in SUBSET Conns, NEW c, c = OtherConn => ~h.spectator
    PROVE  Broadcasting(h, T) \in HandlerRecords /\ HandlerInv(c, Broadcasting(h, T))
<1>1. CASE T = {}
  BY <1>1, DoneFacts DEF Broadcasting
<1>2. CASE T # {}
  <2> DEFINE r == [h EXCEPT !.targets = T, !.at = "starting"]
  <2>1. Broadcasting(h, T) = r
    BY <1>2 DEF Broadcasting
  <2>2. r \in HandlerRecords /\ r.at = "starting" /\ r.targets = T /\ r.spectator = h.spectator
    BY DEF HandlerRecords, Labels
  <2> HIDE DEF r
  <2>3. HandlerInv(c, r)
    BY <1>2, <2>2 DEF HandlerInv
  <2>. QED
    BY <2>1, <2>2, <2>3
<1>. QED
  BY <1>1, <1>2

-----------------------------------------------------------------------------
(* One lemma for each step of a handler *)

LEMMA JoinStep ==
    ASSUME StreamInv, NEW c \in Handlers, JoinOrResume(c)
    PROVE  StepOK
<1>1. /\ UNCHANGED <<tickID, snapshotHistory, open, bound, lastSnapshotTick, send, sent, dispatch,
                     store>>
      /\ handler[c].at = "idle" /\ Goto(c, "joined") /\ "joined" \in Labels
  BY DEF JoinOrResume, At, Labels
<1>2. PICK r \in HandlerRecords : Becomes(c, r) /\ r.at = "joined"
  BY <1>1, GotoFacts
<1>3. HandlerInv(c, r)
  BY <1>1, <1>2, HandlerFacts DEF HandlerInv
<1>. QED
  BY <1>1, <1>2, <1>3, SameHistory, QuietHandler

LEMMA SpectateStep ==
    ASSUME StreamInv, NEW c \in Handlers, JoinAsSpectator(c)
    PROVE  StepOK
<1> DEFINE r == [at |-> "spectating", full |-> EmptyStore, targets |-> {}, spectator |-> TRUE]
<1>1. [Idle EXCEPT !.at = "spectating", !.spectator = TRUE] = r
  <2> DEFINE idle == [at |-> "idle", full |-> EmptyStore, targets |-> {}, spectator |-> FALSE]
             at == [at |-> "spectating", full |-> EmptyStore, targets |-> {}, spectator |-> FALSE]
  <2>1. [idle EXCEPT !.at = "spectating"] = at
    <3>1. \A x : [[at |-> "idle", full |-> EmptyStore, targets |-> {}, spectator |-> x]
                     EXCEPT !.at = "spectating"]
                 = [at |-> "spectating", full |-> EmptyStore, targets |-> {}, spectator |-> x]
      OBVIOUS
    <3>. QED
      BY <3>1, Zenon
  <2>2. [at EXCEPT !.spectator = TRUE] = r
    <3>1. \A x, y : [[at |-> "spectating", full |-> EmptyStore, targets |-> {}, spectator |-> x]
                        EXCEPT !.spectator = y]
                    = [at |-> "spectating", full |-> EmptyStore, targets |-> {}, spectator |-> y]
      OBVIOUS
    <3>. QED
      BY <3>1, Zenon
  <2>3. Idle = idle
    BY DEF Idle
  <2>. QED
    BY <2>1, <2>2, <2>3
<1>2. /\ UNCHANGED <<match, open, bound, lastSnapshotTick, send, sent, dispatch, store>>
      /\ handler[c].at = "idle" /\ Becomes(c, r)
  BY <1>1 DEF JoinAsSpectator, At, Becomes
<1>3. r \in HandlerRecords /\ r.at = "spectating"
  BY DEF HandlerRecords, Labels
<1> HIDE DEF r
<1>4. HandlerInv(c, r)
  BY <1>2, <1>3, HandlerFacts DEF HandlerInv
<1>5. UNCHANGED <<tickID, snapshotHistory>>
  BY <1>2 DEF match
<1>. QED
  BY <1>2, <1>3, <1>4, <1>5, SameHistory, QuietHandler

\* The three snapshots a handler takes.
LEMMA CaptureStep ==
    ASSUME StreamInv, NEW c \in Handlers,
           CaptureSpectator(c) \/ CaptureFull(c) \/ CaptureStart(c)
    PROVE  StepOK
<1>1. /\ UNCHANGED <<match, open, bound, lastSnapshotTick, send, sent, dispatch, store>>
      /\ UNCHANGED <<tickID, snapshotHistory>>
  BY DEF CaptureSpectator, CaptureFull, CaptureStart, match
<1>2. HandlerInv(c, handler[c])
  BY HandlerFacts
<1>3. PICK label \in {"joined", "captured", "listing"} :
          /\ handler' = [handler EXCEPT ![c].full = FullSnapshot, ![c].at = label]
          /\ label = "joined" => handler[c].at = "spectating"
          /\ label = "captured" => handler[c].at = "accepted"
          /\ label = "listing" => handler[c].at = "started"
  BY DEF CaptureSpectator, CaptureFull, CaptureStart, At
<1>4. PICK r \in HandlerRecords :
          Becomes(c, r) /\ r.at = label /\ r.spectator = handler[c].spectator
  <2>1. label \in Labels
    BY DEF Labels
  <2>. QED
    BY <1>3, <2>1, CaptureFacts
<1>5. HandlerInv(c, r)
  BY <1>2, <1>3, <1>4 DEF HandlerInv
<1>. QED
  BY <1>1, <1>4, <1>5, SameHistory, QuietHandler

LEMMA BindStep ==
    ASSUME StreamInv, NEW c \in Handlers, bindConnection(c)
    PROVE  StepOK
<1>1. /\ UNCHANGED <<match, open, dispatch>> /\ UNCHANGED <<tickID, snapshotHistory>>
      /\ handler[c].at = "joined" /\ Goto(c, "bound") /\ "bound" \in Labels
      /\ bound' \subseteq bound \cup {c}
  BY DEF bindConnection, At, Labels, match
<1>2. c \in Conns /\ c # OtherConn
  BY <1>1, HandlerFacts, HandlerNames DEF HandlerInv
<1>3. NetInv' /\ NetGrows /\ NoDelta
  BY <1>2, NetBind
<1>4. DispatchOK'
  BY <1>1, <1>3, SameHistory, DispatchKept
<1>5. PICK r \in HandlerRecords : Becomes(c, r) /\ r.at = "bound"
  BY <1>1, GotoFacts
<1>6. HandlerInv(c, r)'
  BY <1>2, <1>5 DEF HandlerInv
<1>7. HandlersOK'
  BY <1>1, <1>3, <1>5, <1>6, OneHandler
<1>. QED
  BY <1>3, <1>4, <1>7 DEF StepOK

LEMMA AcceptedStep ==
    ASSUME StreamInv, NEW c \in Handlers, SendAccepted(c)
    PROVE  StepOK
<1> DEFINE label == IF handler[c].spectator THEN "captured" ELSE "accepted"
<1>1. /\ UNCHANGED <<match, dispatch>> /\ handler[c].at = "bound" /\ Enqueue(c, Accepted)
      /\ Goto(c, label) /\ label \in Labels /\ label \in {"captured", "accepted"}
  BY DEF SendAccepted, At, Labels
<1>2. c \in Conns /\ c # OtherConn
  BY <1>1, HandlerFacts, HandlerNames DEF HandlerInv
<1>3. Accepted \in Messages /\ Accepted.kind # "delta"
  BY DEF Messages, Accepted
<1> HIDE DEF label
<1>4. PICK r \in HandlerRecords : Becomes(c, r) /\ r.at = label
  BY <1>1, GotoFacts
<1>5. HandlerInv(c, r)'
  BY <1>1, <1>2, <1>4 DEF HandlerInv
<1>. QED
  BY <1>1, <1>2, <1>3, <1>4, <1>5, SendHandler

\* A handler's snapshot is a message, and no delta.
LEMMA FullMessage ==
    ASSUME StreamInv, NEW c \in Handlers
    PROVE  /\ handler[c].full \in Messages /\ handler[c].full.kind # "delta"
           /\ handler[c].full.tick \in 0 .. tickID
           /\ \A t \in 1 .. handler[c].full.tick : t \in handler[c].full.holds
<1>1. tickID \in Nat /\ handler[c].full \in Fulls \cup {EmptyStore}
  BY HandlerFacts
<1>. QED
  BY <1>1, FullFacts

LEMMA FullStep ==
    ASSUME StreamInv, NEW c \in Handlers, SendFull(c)
    PROVE  StepOK
<1> DEFINE label == IF Sends(c) THEN "sent" ELSE "noted"
           m == handler[c].full
<1>1. /\ UNCHANGED <<match, dispatch>> /\ handler[c].at = "captured" /\ Enqueue(c, m)
      /\ Goto(c, label) /\ label \in Labels /\ label \in {"sent", "noted"}
      /\ label = "sent" => Sends(c)
  BY DEF SendFull, At, Labels
<1>2. c \in Conns /\ c # OtherConn
  BY <1>1, HandlerFacts, HandlerNames DEF HandlerInv
<1>3. m \in Messages /\ m.kind # "delta"
  BY FullMessage
<1> HIDE DEF label
<1>4. PICK r \in HandlerRecords : Becomes(c, r) /\ r.at = label /\ r.full = m
  BY <1>1, GotoFacts
<1> HIDE DEF m
<1>5. Sends(c) => m.holds \subseteq sent'[c].ticks
  BY <1>1, <1>2, <1>3, NetEnqueue
<1>6. HandlerInv(c, r)'
  BY <1>1, <1>2, <1>4, <1>5 DEF HandlerInv, Carried
<1>. QED
  BY <1>1, <1>2, <1>3, <1>4, <1>6, SendHandler

\* What has been carried leaves out no tick up to its own.
LEMMA CarriedComplete ==
    ASSUME StreamInv, NEW c \in Handlers, NEW d \in Conns, Carried(handler[c].full, d)
    PROVE  d \in bound => NoneLeftOut(d, handler[c].full.tick)
<1>1. bound \subseteq open
  BY DEF StreamInv, StreamTypeOK, NetTypeOK
<1>. QED
  BY <1>1, FullMessage DEF Carried, NoneLeftOut

LEMMA NotedStep ==
    ASSUME StreamInv, NEW c \in Handlers, NoteFull(c)
    PROVE  StepOK
<1>1. /\ UNCHANGED <<match, open, bound, send, sent, dispatch, store>> /\ handler[c].at = "sent"
      /\ updateSnapshotCursor(c, handler[c].full.tick)
      /\ Goto(c, "noted") /\ "noted" \in Labels
  BY DEF NoteFull, At, Labels
<1>2. c \in Conns /\ c # OtherConn /\ Carried(handler[c].full, c)
  BY <1>1, HandlerFacts, HandlerNames DEF HandlerInv
<1>3. c \in bound => NoneLeftOut(c, handler[c].full.tick)
  BY <1>2, CarriedComplete
<1>4. handler[c].full.tick \in 0 .. tickID
  BY FullMessage
<1>5. PICK r \in HandlerRecords : Becomes(c, r) /\ r.at = "noted"
  BY <1>1, GotoFacts
<1>6. HandlerInv(c, r)
  BY <1>2, <1>5 DEF HandlerInv
<1>. QED
  BY <1>1, <1>2, <1>3, <1>4, <1>5, <1>6, CursorHandler

\* A handler is done, and touches no connection.
LEMMA DoneHandler ==
    ASSUME StreamInv, NEW c \in Handlers, handler' = [handler EXCEPT ![c] = Done],
           UNCHANGED <<tickID, open, bound, lastSnapshotTick, send, sent, dispatch, store>>,
           HistoryMoves
    PROVE  StepOK
<1>1. PICK r : r = Done
  OBVIOUS
<1>2. r \in HandlerRecords /\ HandlerInv(c, r)
  BY <1>1, DoneFacts
<1>3. Becomes(c, r)
  BY <1>1 DEF Becomes
<1>. QED
  BY <1>2, <1>3, QuietHandler

LEMMA SpectatorStartStep ==
    ASSUME StreamInv, NEW c \in Handlers, SendSpectatorStart(c)
    PROVE  StepOK
<1> DEFINE m == handler[c].full
<1>1. /\ UNCHANGED <<match, dispatch>> /\ handler[c].at = "noted" /\ handler[c].spectator
      /\ Enqueue(c, m) /\ handler' = [handler EXCEPT ![c] = Done]
  BY DEF SendSpectatorStart, At
<1>2. c \in Conns
  BY <1>1, HandlerFacts, HandlerNames DEF HandlerInv
<1>3. m \in Messages /\ m.kind # "delta"
  BY FullMessage
<1> HIDE DEF m
<1>4. PICK r : r = Done
  OBVIOUS
<1>5. r \in HandlerRecords /\ Becomes(c, r) /\ r.at = "done" /\ ~r.spectator
  BY <1>1, <1>4, DoneFacts DEF Becomes
<1>6. HandlerInv(c, r)'
  BY <1>5 DEF HandlerInv
<1>. QED
  BY <1>1, <1>2, <1>3, <1>5, <1>6, SendHandler

LEMMA AutoStartStep ==
    ASSUME StreamInv, NEW c \in Handlers, AutoStart(c)
    PROVE  StepOK
<1>1. /\ UNCHANGED <<tickID, open, bound, lastSnapshotTick, send, sent, dispatch, store>>
      /\ handler[c].at = "noted" /\ ~handler[c].spectator /\ tickID \in Nat
  BY HandlerFacts DEF AutoStart, At
<1>2. CASE status = "lobby" /\ Cardinality(joined) >= MinPlayers
  <2>1. snapshotHistory' = {0} /\ Goto(c, "started") /\ "started" \in Labels
    BY <1>2 DEF AutoStart, Labels
  <2>2. HistoryMoves
    BY <2>1 DEF HistoryMoves
  <2>3. PICK r \in HandlerRecords :
            Becomes(c, r) /\ r.at = "started" /\ r.spectator = handler[c].spectator
    BY <2>1, GotoFacts
  <2>4. HandlerInv(c, r)
    BY <1>1, <2>3 DEF HandlerInv
  <2>. QED
    BY <1>1, <2>2, <2>3, <2>4, QuietHandler
<1>3. CASE ~(status = "lobby" /\ Cardinality(joined) >= MinPlayers)
  <2>1. UNCHANGED snapshotHistory /\ handler' = [handler EXCEPT ![c] = Done]
    BY <1>3 DEF AutoStart
  <2>. QED
    BY <1>1, <2>1, SameHistory, DoneHandler
<1>. QED
  BY <1>2, <1>3

LEMMA BroadcastBecomes ==
    ASSUME StreamInv, NEW c \in Handlers, NEW T \in SUBSET Conns,
           handler' = [handler EXCEPT ![c] = Broadcasting(@, T)]
    PROVE  \E r \in HandlerRecords :
              Becomes(c, r) /\ HandlerInv(c, r) /\ (r.at = "done" \/ r.at = "starting")
              /\ (c = OtherConn => ~r.spectator) /\ (r.at = "starting" => r.targets # {})
<1> DEFINE r == Broadcasting(handler[c], T)
<1>1. /\ handler[c] \in HandlerRecords /\ handler \in [Handlers -> HandlerRecords]
      /\ c = OtherConn => ~handler[c].spectator
  BY HandlerFacts DEF HandlerInv
<1>2. r \in HandlerRecords /\ HandlerInv(c, r)
  BY <1>1, BroadcastFacts
<1>3. Becomes(c, r)
  BY <1>1 DEF Becomes
<1>4. r.at = "done" \/ r.at = "starting"
  <2>1. [handler[c] EXCEPT !.targets = T, !.at = "starting"].at = "starting"
    BY <1>1 DEF HandlerRecords
  <2>. QED
    BY <2>1, DoneFacts DEF Broadcasting
<1> HIDE DEF r
<1>5. (c = OtherConn => ~r.spectator) /\ (r.at = "starting" => r.targets # {})
  BY <1>2 DEF HandlerInv
<1>. QED
  BY <1>2, <1>3, <1>4, <1>5

LEMMA ListStep ==
    ASSUME StreamInv, NEW c \in Handlers, ListTargets(c)
    PROVE  StepOK
<1>1. /\ UNCHANGED <<match, open, bound, lastSnapshotTick, send, sent, dispatch, store>>
      /\ UNCHANGED <<tickID, snapshotHistory>>
      /\ handler' = [handler EXCEPT ![c] = Broadcasting(@, bound)]
  BY DEF ListTargets, match
<1>2. bound \in SUBSET Conns
  BY DEF StreamInv, StreamTypeOK, NetTypeOK
<1>3. PICK r \in HandlerRecords : Becomes(c, r) /\ HandlerInv(c, r)
  BY <1>1, <1>2, BroadcastBecomes
<1>. QED
  BY <1>1, <1>3, SameHistory, QuietHandler

\* The connection whose turn it is.
LEMMA TurnFacts ==
    ASSUME StreamInv, NEW c \in Handlers, handler[c].at \in {"starting", "start_sent"}
    PROVE  /\ NextTarget(handler[c].targets) \in Conns
           /\ handler[c].targets \ {NextTarget(handler[c].targets)} \in SUBSET Conns
           /\ c = OtherConn => ~handler[c].spectator
<1>1. handler[c].targets \subseteq Conns /\ handler[c].targets # {}
      /\ (c = OtherConn => ~handler[c].spectator)
  BY HandlerFacts DEF HandlerInv
<1>2. NextTarget(handler[c].targets) \in handler[c].targets
  BY <1>1, NextTargetIn
<1>. QED
  BY <1>1, <1>2

LEMMA StartStep ==
    ASSUME StreamInv, NEW c \in Handlers, SendStart(c)
    PROVE  StepOK
<1> DEFINE m == handler[c].full
           T == handler[c].targets
           d == NextTarget(T)
           rest == T \ {d}
<1>1. /\ UNCHANGED <<match, dispatch>> /\ handler[c].at = "starting" /\ Enqueue(d, m)
      /\ handler' = IF Sends(d) THEN [handler EXCEPT ![c].at = "start_sent"]
                    ELSE [handler EXCEPT ![c] = Broadcasting(@, rest)]
  BY DEF SendStart, At
<1>2. d \in Conns /\ rest \in SUBSET Conns /\ T # {} /\ (c = OtherConn => ~handler[c].spectator)
  <2>1. T # {}
    BY <1>1, HandlerFacts DEF HandlerInv
  <2>. QED
    BY <1>1, <2>1, TurnFacts
<1>3. m \in Messages /\ m.kind # "delta"
  BY FullMessage
<1>4. CASE Sends(d)
  <2>1. Goto(c, "start_sent") /\ "start_sent" \in Labels
    BY <1>1, <1>4 DEF Goto, Labels
  <2>2. PICK r \in HandlerRecords :
            /\ Becomes(c, r) /\ r.at = "start_sent" /\ r.full = handler[c].full
            /\ r.targets = handler[c].targets /\ r.spectator = handler[c].spectator
    BY <2>1, GotoFacts
  <2>3. m.holds \subseteq sent'[d].ticks
    BY <1>1, <1>2, <1>3, <1>4, NetEnqueue
  <2>4. HandlerInv(c, r)'
    <3>1. r.full.holds \subseteq sent'[NextTarget(r.targets)].ticks
      BY <2>2, <2>3
    <3>2. Carried(r.full, NextTarget(r.targets))'
      BY <3>1 DEF Carried
    <3>. QED
      BY <1>2, <2>2, <3>2 DEF HandlerInv
  <2>. QED
    BY <1>1, <1>2, <1>3, <2>2, <2>4, SendHandler
<1>5. CASE ~Sends(d)
  <2>1. handler' = [handler EXCEPT ![c] = Broadcasting(@, rest)]
    BY <1>1, <1>5
  <2> HIDE DEF rest
  <2>2. PICK r \in HandlerRecords :
            Becomes(c, r) /\ (r.at = "done" \/ r.at = "starting")
            /\ (c = OtherConn => ~r.spectator) /\ (r.at = "starting" => r.targets # {})
    BY <1>2, <2>1, BroadcastBecomes
  <2>3. HandlerInv(c, r)'
    BY <2>2 DEF HandlerInv
  <2>. QED
    BY <1>1, <1>2, <1>3, <2>2, <2>3, SendHandler
<1>. QED
  BY <1>4, <1>5

LEMMA NoteStartStep ==
    ASSUME StreamInv, NEW c \in Handlers, NoteStart(c)
    PROVE  StepOK
<1> DEFINE T == handler[c].targets
           d == NextTarget(T)
           rest == T \ {d}
           t == handler[c].full.tick
<1>1. /\ UNCHANGED <<match, open, bound, send, sent, dispatch, store>>
      /\ handler[c].at = "start_sent" /\ updateSnapshotCursor(d, t)
      /\ handler' = [handler EXCEPT ![c] = Broadcasting(@, rest)]
  BY DEF NoteStart, At
<1>2. d \in Conns /\ rest \in SUBSET Conns /\ Carried(handler[c].full, d)
  BY <1>1, TurnFacts, HandlerFacts DEF HandlerInv
<1>3. d \in bound => NoneLeftOut(d, t)
  BY <1>2, CarriedComplete
<1>4. t \in 0 .. tickID
  BY FullMessage
<1> HIDE DEF rest
<1>5. PICK r \in HandlerRecords : Becomes(c, r) /\ HandlerInv(c, r)
  BY <1>1, <1>2, BroadcastBecomes
<1>. QED
  BY <1>1, <1>2, <1>3, <1>4, <1>5, CursorHandler

LEMMA HandleStep ==
    ASSUME StreamInv, NEW c \in Handlers, Handle(c)
    PROVE  StepOK
BY JoinStep, SpectateStep, CaptureStep, BindStep, AcceptedStep, FullStep, NotedStep,
   SpectatorStartStep, AutoStartStep, ListStep, StartStep, NoteStartStep DEF Handle

-----------------------------------------------------------------------------
(* The invariant *)

\* The clock stands still in the lobby, and the history is of ticks there have been.
ClockOK ==
    /\ status \in {"lobby", "running", "game_over"}
    /\ tickID \in Nat /\ (status = "lobby" => tickID = 0)
    /\ snapshotHistory \subseteq 0 .. tickID

LEMMA InvParts == StreamInv <=> ClockOK /\ NetInv /\ DispatchOK /\ HandlersOK
BY DEF StreamInv, StreamTypeOK, ClockOK, NetInv, DispatchOK, Dispatches, HandlersOK, HandlerRecords

LEMMA InvPartsNext == ClockOK' /\ StepOK => StreamInv'
BY DEF StreamInv, StreamTypeOK, ClockOK, NetInv, DispatchOK, Dispatches, HandlersOK, HandlerRecords,
       StepOK

LEMMA TickClock ==
    ASSUME StreamInv, Tick
    PROVE  ClockOK' /\ HistoryMoves
<1>1. /\ ClockOK /\ tickID \in Nat /\ snapshotHistory \subseteq 0 .. tickID
      /\ tickID' = tickID + 1 /\ status' \in {"running", "game_over"}
  BY InvParts DEF Tick, ClockOK
<1>2. snapshotHistory' \subseteq snapshotHistory \cup {tickID + 1}
  BY DEF Tick, storeSnapshot
<1>3. snapshotHistory' \subseteq 0 .. tickID'
  BY <1>1, <1>2
<1>4. ClockOK'
  <2>1. tickID' \in Nat /\ status' \in {"lobby", "running", "game_over"} /\ status' # "lobby"
    BY <1>1
  <2>. QED
    BY <1>3, <2>1 DEF ClockOK
<1>5. \A u \in snapshotHistory' : u \in Nat /\ (u \in snapshotHistory \/ u > tickID)
  BY <1>1, <1>2
<1>. QED
  BY <1>4, <1>5 DEF HistoryMoves

LEMMA TickStep ==
    ASSUME StreamInv, Tick
    PROVE  StepOK
<1>1. /\ UNCHANGED <<open, bound, lastSnapshotTick, send, sent, handler, dispatch, store>>
      /\ tickID' = tickID + 1
  BY DEF Tick
<1>2. HistoryMoves
  BY TickClock
<1>3. NetInv' /\ NetGrows /\ NoDelta
  BY <1>1, <1>2, NetSame
<1>4. DispatchOK'
  BY <1>1, <1>2, <1>3, DispatchKept
<1>5. HandlersOK'
  BY <1>1, <1>3, HandlersSame
<1>. QED
  BY <1>3, <1>4, <1>5 DEF StepOK

\* The network and the dispatch loop leave the handlers alone.
LEMMA OtherStep ==
    ASSUME StreamInv, Dispatch \/ \E c \in Conns : Deliver(c) \/ Disconnect(c)
    PROVE  StepOK
<1>1. UNCHANGED <<match, handler>> /\ UNCHANGED <<tickID, snapshotHistory>>
  BY DEF Dispatch, DispatchBegin, DispatchFetch, DispatchSend, DispatchNote, Deliver, Disconnect,
         match
<1>2. HistoryMoves
  BY <1>1, SameHistory
<1>3. CASE DispatchBegin \/ DispatchFetch
  <2>1. UNCHANGED <<open, bound, lastSnapshotTick, send, sent, store>>
    BY <1>3 DEF DispatchBegin, DispatchFetch
  <2>2. NetInv' /\ NetGrows
    BY <1>1, <1>2, <2>1, NetSame
  <2>3. DispatchOK'
    BY <1>3, BeginStep, FetchStep
  <2>4. HandlersOK'
    BY <1>1, <2>1, <2>2, HandlersSame
  <2>. QED
    BY <2>2, <2>3, <2>4 DEF StepOK
<1>4. CASE DispatchSend
  <2>1. NetInv' /\ NetGrows /\ DispatchOK' /\ bound' \subseteq bound
    BY <1>4, SendStep
  <2>2. HandlersOK'
    BY <1>1, <2>1, HandlersSame
  <2>. QED
    BY <2>1, <2>2 DEF StepOK
<1>5. CASE DispatchNote
  <2>1. NetInv' /\ NetGrows /\ DispatchOK' /\ bound' \subseteq bound
    BY <1>5, NoteStep DEF DispatchNote
  <2>2. HandlersOK'
    BY <1>1, <2>1, HandlersSame
  <2>. QED
    BY <2>1, <2>2 DEF StepOK
<1>6. ASSUME NEW c \in Conns, Deliver(c) \/ Disconnect(c)
      PROVE  StepOK
  <2>1. NetInv' /\ NetGrows /\ NoDelta /\ bound' \subseteq bound /\ dispatch' = dispatch
    BY <1>1, <1>6, NetDeliver, NetGone DEF Deliver, Disconnect
  <2>2. DispatchOK'
    BY <1>1, <1>2, <2>1, DispatchKept
  <2>3. HandlersOK'
    BY <1>1, <2>1, HandlersSame
  <2>. QED
    BY <2>1, <2>2, <2>3 DEF StepOK
<1>. QED
  BY <1>3, <1>4, <1>5, <1>6 DEF Dispatch

LEMMA HandleClock ==
    ASSUME StreamInv, NEW c \in Handlers, Handle(c)
    PROVE  ClockOK'
<1>1. ClockOK
  BY InvParts
<1>2. CASE AutoStart(c)
  <2>1. tickID' = tickID /\ (UNCHANGED <<status, snapshotHistory>>
                             \/ (status' = "running" /\ snapshotHistory' = {0}))
    BY <1>2 DEF AutoStart
  <2>2. CASE UNCHANGED <<status, snapshotHistory>>
    BY <1>1, <2>1, <2>2 DEF ClockOK
  <2>3. CASE status' = "running" /\ snapshotHistory' = {0}
    <3>1. tickID' \in Nat /\ {0} \subseteq 0 .. tickID'
      BY <1>1, <2>1 DEF ClockOK
    <3>. QED
      BY <2>3, <3>1 DEF ClockOK
  <2>. QED
    BY <2>1, <2>2, <2>3
<1>3. CASE ~AutoStart(c)
  <2>1. UNCHANGED <<status, tickID, snapshotHistory>>
    BY <1>3 DEF Handle, JoinOrResume, JoinAsSpectator, CaptureSpectator, bindConnection,
                SendAccepted, CaptureFull, SendFull, NoteFull, SendSpectatorStart, CaptureStart,
                ListTargets, SendStart, NoteStart, match
  <2>. QED
    BY <1>1, <2>1 DEF ClockOK
<1>. QED
  BY <1>2, <1>3

LEMMA InitOK == Init => StreamInv
<1> SUFFICES ASSUME Init PROVE StreamInv
  OBVIOUS
<1>1. /\ status = "lobby" /\ tickID = 0 /\ snapshotHistory = {} /\ open = Conns /\ bound = {}
      /\ lastSnapshotTick = [c \in Conns |-> 0] /\ send = [c \in Conns |-> <<>>]
      /\ sent = [c \in Conns |-> NothingSent] /\ store = [c \in Conns |-> EmptyStore]
      /\ dispatch = NoDispatch
      /\ handler = [c \in Handlers |-> [Idle EXCEPT !.at = IF c = OtherConn THEN "noted" ELSE "idle"]]
  BY DEF Init
<1>2. ClockOK
  BY <1>1 DEF ClockOK
<1>3. NetInv
  <2>1. <<>> \in Seq(Messages) /\ NothingSent \in SentRecords /\ EmptyStore \in Stores
    BY <1>1 DEF NothingSent, SentRecords, EmptyStore, Stores
  <2>2. NetTypeOK
    BY <1>1, <2>1 DEF NetTypeOK, SentRecords
  <2>3. QueueInv(<<>>, EmptyStore, 0, {}) /\ Exact(EmptyStore, {})
    BY DEF QueueInv, Based, Reached, Exact, EmptyStore
  <2>4. NothingSent.ticks = {} /\ NothingSent.newest = 0 /\ NothingSent.lastDelta = 0
    BY DEF NothingSent
  <2>5. \A c \in Conns : ConnInv(c)
    BY <1>1, <2>3, <2>4 DEF ConnInv
  <2>. QED
    BY <2>2, <2>5 DEF NetInv
<1>4. DispatchOK
  <2>1. dispatch \in Dispatches
    BY <1>1 DEF NoDispatch, Dispatches
  <2>2. \A c \in Conns : sent[c].lastDelta <= lastSnapshotTick[c]
    BY <1>1 DEF NothingSent
  <2>3. dispatch.targets = {} /\ dispatch.at = "idle"
    BY <1>1 DEF NoDispatch
  <2>. QED
    BY <2>1, <2>2, <2>3 DEF DispatchOK, DispatchInv
<1>5. HandlersOK
  <2> DEFINE r(l) == [at |-> l, full |-> EmptyStore, targets |-> {}, spectator |-> FALSE]
             l(c) == IF c = OtherConn THEN "noted" ELSE "idle"
  <2>1. \A k : [Idle EXCEPT !.at = k] = r(k)
    <3>1. \A x, k : [[at |-> "idle", full |-> EmptyStore, targets |-> {}, spectator |-> x]
                        EXCEPT !.at = k]
                    = [at |-> k, full |-> EmptyStore, targets |-> {}, spectator |-> x]
      OBVIOUS
    <3>2. Idle = r("idle")
      BY DEF Idle
    <3>. QED
      BY <3>1, <3>2, Zenon
  <2>2. \A k \in Labels : r(k) \in HandlerRecords /\ r(k).at = k /\ ~r(k).spectator
    BY DEF HandlerRecords
  <2>3. \A c \in Handlers : handler[c] = r(l(c))
    BY <1>1, <2>1, Zenon
  <2>4. \A c : l(c) \in Labels
    BY DEF Labels
  <2> HIDE DEF r
  <2>5. handler \in [Handlers -> HandlerRecords]
    <3>1. handler = [c \in Handlers |-> r(l(c))]
      BY <1>1, <2>1
    <3>. QED
      BY <2>2, <2>4, <3>1
  <2>6. \A c \in Handlers : HandlerInv(c, handler[c])
    <3>1. \A c \in Handlers : handler[c].at = l(c) /\ ~handler[c].spectator
      BY <2>2, <2>3, <2>4
    <3>. QED
      BY <1>1, <3>1 DEF HandlerInv
  <2>. QED
    BY <2>5, <2>6 DEF HandlersOK
<1>. QED
  BY <1>2, <1>3, <1>4, <1>5, InvParts

LEMMA NextKeeps ==
    ASSUME StreamInv, [Next]_vars
    PROVE  StreamInv'
<1>1. CASE Tick
  BY <1>1, TickClock, TickStep, InvPartsNext
<1>2. ASSUME NEW c \in Handlers, Handle(c)
      PROVE  StreamInv'
  BY <1>2, HandleClock, HandleStep, InvPartsNext
<1>3. CASE Dispatch \/ \E c \in Conns : Deliver(c) \/ Disconnect(c)
  <2>1. UNCHANGED <<status, tickID, snapshotHistory>>
    BY <1>3 DEF Dispatch, DispatchBegin, DispatchFetch, DispatchSend, DispatchNote, Deliver,
                Disconnect, match
  <2>2. ClockOK'
    BY <2>1, InvParts DEF ClockOK
  <2>. QED
    BY <1>3, <2>2, OtherStep, InvPartsNext
<1>4. CASE UNCHANGED vars
  <2>1. /\ UNCHANGED <<status, tickID, snapshotHistory>>
        /\ UNCHANGED <<open, bound, lastSnapshotTick, send, sent, handler, dispatch, store>>
    BY <1>4 DEF vars, match
  <2>2. ClockOK' /\ HistoryMoves
    BY <2>1, InvParts, SameHistory DEF ClockOK
  <2>3. NetInv' /\ NetGrows /\ NoDelta
    BY <2>1, <2>2, NetSame
  <2>4. DispatchOK'
    BY <2>1, <2>2, <2>3, DispatchKept
  <2>5. HandlersOK'
    BY <2>1, <2>3, HandlersSame
  <2>. QED
    BY <2>2, <2>3, <2>4, <2>5, InvPartsNext DEF StepOK
<1>. QED
  BY <1>1, <1>2, <1>3, <1>4 DEF Next

\* The invariant of the stream: where each handler and the dispatch loop are, what they
\* hold, and what that says of the cursors, the queues and the clients' stores.
THEOREM StreamInvariant == Spec => []StreamInv
<1>1. Init => StreamInv
  BY InitOK
<1>2. StreamInv /\ [Next]_vars => StreamInv'
  BY NextKeeps
<1>. QED
  BY <1>1, <1>2, PTL DEF Spec

\* conn.lastSnapshotTick never passes a snapshot that was not sent (updateSnapshotCursor,
\* moved by the join handlers and the dispatch loop).
THEOREM CursorExact == Spec => []CursorSkipsNothing
<1>1. StreamInv => CursorSkipsNothing
  BY DEF StreamInv, StreamTypeOK, NetTypeOK, ConnInv, NoneLeftOut, CursorSkipsNothing
<1>. QED
  BY <1>1, StreamInvariant, PTL

\* SnapshotStore.ApplySnapshot leaves a client whose stream was clean with every change
\* up to its tick that the history has kept, and with no other.
THEOREM CleanExact == Spec => []CleanClientIsExact
<1>1. StreamInv => CleanClientIsExact
  BY DEF StreamInv, ConnInv, Exact, CleanClientIsExact
<1>. QED
  BY <1>1, StreamInvariant, PTL

-----------------------------------------------------------------------------
(* The order of the deltas *)

\* No step queues a delta on c that is not later than the last one.
Ordered(c) ==
    Len(send'[c]) > Len(send[c]) =>
        LET message == send'[c][Len(send'[c])]
        IN message.kind = "delta" => message.tick > sent[c].lastDelta

LEMMA Shorter ==
    ASSUME StreamInv, NEW c \in Conns, send'[c] \in {send[c], <<>>, Tail(send[c])},
           send'[c] = Tail(send[c]) => send[c] # <<>>
    PROVE  Ordered(c)
<1>1. send[c] \in Seq(Messages) /\ Len(send[c]) \in Nat
  BY ConnFacts, LenProperties DEF StreamInv
<1>2. Len(send'[c]) <= Len(send[c])
  <2>1. CASE send'[c] = send[c]
    BY <1>1, <2>1
  <2>2. CASE send'[c] = <<>>
    <3>1. Len(<<>>) = 0
      OBVIOUS
    <3>. QED
      BY <1>1, <2>2, <3>1
  <2>3. CASE send'[c] = Tail(send[c])
    BY <1>1, <2>3, QueueFacts
  <2>. QED
    BY <2>1, <2>2, <2>3
<1>3. Len(send'[c]) \in Nat
  <2>1. <<>> \in Seq(Messages) /\ (send[c] # <<>> => Tail(send[c]) \in Seq(Messages))
    BY <1>1, QueueFacts
  <2>2. send'[c] \in Seq(Messages)
    BY <1>1, <2>1
  <2>. QED
    BY <2>2, LenProperties
<1>. QED
  BY <1>1, <1>2, <1>3 DEF Ordered

LEMMA EnqueueOrdered ==
    ASSUME StreamInv, NEW d \in Conns, NEW m \in Messages, Enqueue(d, m),
           m.kind = "delta" /\ d \in open => m.tick > sent[d].lastDelta
    PROVE  \A c \in Conns : Ordered(c)
<1>1. send \in [Conns -> Seq(Messages)]
  BY DEF StreamInv, StreamTypeOK, NetTypeOK
<1>2. CASE ~Sends(d)
  <2>1. send' = [send EXCEPT ![d] = <<>>]
    BY <1>2 DEF Enqueue, Unregister
  <2>2. \A c \in Conns : send'[c] \in {send[c], <<>>}
    BY <1>1, <2>1
  <2>3. ASSUME NEW c \in Conns
        PROVE  Ordered(c)
    <3>1. CASE send[c] = <<>>
      <4>1. send'[c] = send[c]
        BY <2>2, <3>1
      <4>2. Len(send[c]) \in Nat
        BY <1>1, LenProperties
      <4>. QED
        BY <4>1, <4>2 DEF Ordered
    <3>2. CASE send[c] # <<>>
      BY <2>2, <3>2, Shorter
    <3>. QED
      BY <3>1, <3>2
  <2>. QED
    BY <2>3
<1>3. CASE Sends(d)
  <2> DEFINE q == Append(send[d], m)
  <2>1. send' = [send EXCEPT ![d] = q] /\ d \in open
    BY <1>3 DEF Enqueue, Sends
  <2>2. send[d] \in Seq(Messages)
    BY <1>1
  <2>3. q[Len(q)] = m
    BY <2>2, AppendProperties
  <2> HIDE DEF q
  <2>4. send'[d] = q /\ \A c \in Conns \ {d} : send'[c] = send[c]
    BY <1>1, <2>1
  <2>5. Ordered(d)
    BY <2>1, <2>3, <2>4 DEF Ordered
  <2>6. ASSUME NEW c \in Conns \ {d}
        PROVE  Ordered(c)
    <3>1. Len(send[c]) \in Nat
      BY <1>1, LenProperties
    <3>. QED
      BY <2>4, <3>1 DEF Ordered
  <2>. QED
    BY <2>5, <2>6
<1>. QED
  BY <1>2, <1>3

LEMMA QuietOrdered ==
    ASSUME StreamInv, UNCHANGED send
    PROVE  \A c \in Conns : Ordered(c)
<1>1. \A c \in Conns : Len(send[c]) \in Nat
  BY ConnFacts, LenProperties DEF StreamInv
<1>. QED
  BY <1>1 DEF Ordered

\* The delta that is sent is the earliest of those fetched, which are later than the
\* latest that was sent.
LEMMA DispatchOrdered ==
    ASSUME StreamInv, DispatchSend
    PROVE  \A c \in Conns : Ordered(c)
<1>1. /\ dispatch.at = "sending" /\ dispatch.ticks # {} /\ dispatch.ticks \subseteq 0 .. tickID
      /\ dispatch.latest \in 0 .. tickID /\ tickID \in Nat
      /\ \A d \in Conns : sent[d].lastDelta \in 0 .. tickID
  BY DispatchFacts DEF DispatchSend
<1> DEFINE d == dispatch.conn
           t == CHOOSE x \in dispatch.ticks : \A y \in dispatch.ticks : x <= y
<1>2. SendingInv /\ d \in Conns
  BY <1>1, SendingFacts
<1>3. t \in dispatch.ticks
  <2>1. dispatch.ticks \in SUBSET Nat
    BY <1>1
  <2>2. \E x \in dispatch.ticks : \A y \in dispatch.ticks : x <= y
    BY <1>1, <2>1, LeastExists
  <2>. QED
    BY <2>2
<1>4. Enqueue(d, Delta(t))
  BY DEF DispatchSend
<1> HIDE DEF t
<1>5. t > dispatch.latest /\ t \in 1 .. tickID
  <2>1. t > dispatch.latest
    BY <1>2, <1>3 DEF SendingInv
  <2>. QED
    BY <1>1, <1>3, <2>1
<1>6. Delta(t) \in Messages /\ Delta(t).tick = t
  BY <1>1, <1>5, DeltaFacts
<1>7. d \in open => sent[d].lastDelta <= dispatch.latest
  BY <1>2 DEF SendingInv
<1>8. d \in open => t > sent[d].lastDelta
  BY <1>1, <1>2, <1>5, <1>7
<1>. QED
  BY <1>2, <1>4, <1>6, <1>8, EnqueueOrdered

LEMMA HandleOrdered ==
    ASSUME StreamInv, NEW c \in Handlers, Handle(c)
    PROVE  \A d \in Conns : Ordered(d)
<1>1. CASE SendAccepted(c)
  <2>1. Enqueue(c, Accepted) /\ c \in Conns
    BY <1>1, HandlerFacts, HandlerNames DEF SendAccepted, At, HandlerInv
  <2>2. Accepted \in Messages /\ Accepted.kind # "delta"
    BY DEF Messages, Accepted
  <2>. QED
    BY <2>1, <2>2, EnqueueOrdered
<1>2. CASE SendFull(c) \/ SendSpectatorStart(c)
  <2>1. Enqueue(c, handler[c].full) /\ c \in Conns
    BY <1>2, HandlerFacts, HandlerNames DEF SendFull, SendSpectatorStart, At, HandlerInv
  <2>2. handler[c].full \in Messages /\ handler[c].full.kind # "delta"
    BY FullMessage
  <2>. QED
    BY <2>1, <2>2, EnqueueOrdered
<1>3. CASE SendStart(c)
  <2> DEFINE d == NextTarget(handler[c].targets)
  <2>1. Enqueue(d, handler[c].full) /\ handler[c].at = "starting"
    BY <1>3 DEF SendStart, At
  <2>2. handler[c].full \in Messages /\ handler[c].full.kind # "delta"
    BY FullMessage
  <2>3. d \in Conns
    BY <2>1, TurnFacts
  <2> HIDE DEF d
  <2>. QED
    BY <2>1, <2>2, <2>3, EnqueueOrdered
<1>4. CASE ~(SendAccepted(c) \/ SendFull(c) \/ SendSpectatorStart(c) \/ SendStart(c))
  <2>1. UNCHANGED send
    BY <1>4 DEF Handle, JoinOrResume, JoinAsSpectator, CaptureSpectator, bindConnection,
                CaptureFull, NoteFull, AutoStart, CaptureStart, ListTargets, NoteStart
  <2>. QED
    BY <2>1, QuietOrdered
<1>. QED
  BY <1>1, <1>2, <1>3, <1>4

LEMMA NextOrdered ==
    ASSUME StreamInv, [Next]_vars
    PROVE  \A c \in Conns : Ordered(c)
<1>1. CASE Tick \/ DispatchBegin \/ DispatchFetch \/ DispatchNote \/ UNCHANGED vars
  <2>1. UNCHANGED send
    BY <1>1 DEF Tick, DispatchBegin, DispatchFetch, DispatchNote, vars
  <2>. QED
    BY <2>1, QuietOrdered
<1>2. ASSUME NEW d \in Conns, Deliver(d) \/ Disconnect(d)
      PROVE  \A c \in Conns : Ordered(c)
  <2>1. send \in [Conns -> Seq(Messages)]
    BY DEF StreamInv, StreamTypeOK, NetTypeOK
  <2>2. ASSUME NEW c \in Conns, send'[c] # send[c]
        PROVE  Ordered(c)
    <3>1. send'[c] \in {<<>>, Tail(send[c])} /\ send[c] # <<>>
      BY <1>2, <2>1, <2>2 DEF Deliver, Disconnect, Unregister
    <3>. QED
      BY <3>1, Shorter
  <2>3. ASSUME NEW c \in Conns, send'[c] = send[c]
        PROVE  Ordered(c)
    <3>1. Len(send[c]) \in Nat
      BY <2>1, LenProperties
    <3>. QED
      BY <2>3, <3>1 DEF Ordered
  <2>. QED
    BY <2>2, <2>3
<1>. QED
  BY <1>1, <1>2, DispatchOrdered, HandleOrdered DEF Next, Dispatch

\* dispatchPendingSnapshots puts the deltas of a connection on it in tick order, and
\* none twice, however the join handlers move its cursor.
THEOREM DeltasOrdered == Spec => DeltasInOrder
<1>1. StreamInv /\ [Next]_vars =>
          [\A c \in Conns : Len(send'[c]) > Len(send[c]) =>
              LET message == send'[c][Len(send'[c])]
              IN message.kind = "delta" => message.tick > sent[c].lastDelta]_vars
  BY NextOrdered DEF Ordered
<1>. QED
  BY <1>1, StreamInvariant, PTL DEF Spec, DeltasInOrder

=============================================================================
