--------------------------- MODULE DeliveryProofs ---------------------------
(***************************************************************************)
(* Proofs about Delivery, for any sets of pods and segments and any values *)
(* of the bounds.                                                          *)
(***************************************************************************)
EXTENDS Delivery, FiniteSetTheorems, SequenceTheorems, TLAPS

-----------------------------------------------------------------------------
(* Sequences without repetition, as sets.                                  *)

Distinct(q) == \A i, j \in DOMAIN q : q[i] = q[j] => i = j

\* Counting the elements of K up to i enumerates K.
LEMMA Enumerate ==
  ASSUME NEW n \in Nat, NEW K \in SUBSET (1 .. n)
  PROVE  /\ IsFiniteSet(K) /\ Cardinality(K) \in Nat
         /\ \A j \in 1 .. Cardinality(K) :
              \E i \in K : Cardinality({k \in K : k <= i}) = j
         /\ \A i \in K : Cardinality({k \in K : k <= i}) \in 1 .. Cardinality(K)
<1> DEFINE upto(i) == {k \in K : k <= i}
           f == [i \in K |-> Cardinality(upto(i))]
<1>1. IsFiniteSet(K) /\ Cardinality(K) \in Nat
  <2>1. IsFiniteSet(1 .. n)
    BY FS_Interval
  <2>2. IsFiniteSet(K)
    BY <2>1, FS_Subset
  <2> QED BY <2>2, FS_CardinalityType
<1>2. \A i \in K : /\ IsFiniteSet(upto(i)) /\ Cardinality(upto(i)) \in Nat
                   /\ Cardinality(upto(i)) <= Cardinality(K)
                   /\ Cardinality(upto(i)) # 0
  <2> TAKE i \in K
  <2>1. upto(i) \in SUBSET K /\ upto(i) # {}
    OBVIOUS
  <2> QED BY <1>1, <2>1, FS_Subset, FS_CardinalityType, FS_EmptySet
<1>3. \A i \in K : Cardinality(upto(i)) \in 1 .. Cardinality(K)
  BY <1>1, <1>2
<1>4. ASSUME NEW i \in K, NEW j \in K, i < j
      PROVE  Cardinality(upto(i)) # Cardinality(upto(j))
  <2>1. i \in Int /\ j \in Int /\ K \subseteq Int
    OBVIOUS
  <2>2. \A k \in K : k <= i => k <= j
    BY <2>1, <1>4
  <2>3. j <= j /\ ~ (j <= i)
    BY <2>1, <1>4
  <2>4. upto(i) \in SUBSET upto(j) /\ j \in upto(j) /\ j \notin upto(i)
    BY <2>2, <2>3
  <2> QED BY <2>4, <1>2, FS_Subset
<1>5. f \in Injection(K, 1 .. Cardinality(K))
  <2>1. f \in [K -> 1 .. Cardinality(K)]
    BY <1>3
  <2>2. \A i, j \in K : f[i] = f[j] => i = j
    BY <1>4
  <2> QED BY <2>1, <2>2 DEF Injection, IsInjective
<1>6. IsFiniteSet(1 .. Cardinality(K)) /\ Cardinality(1 .. Cardinality(K)) = Cardinality(K)
  <2>1. Cardinality(K) \in Int /\ (1 > Cardinality(K) => Cardinality(K) = 0)
    BY <1>1
  <2> QED BY <2>1, FS_Interval
<1>7. f \in Surjection(K, 1 .. Cardinality(K))
  BY <1>5, <1>6, FS_Injection
<1> QED BY <1>1, <1>3, <1>7 DEF Surjection

\* removeSegment keeps the order of a queue without repetition and takes out
\* exactly what it was asked to.
LEMMA WithoutProperties ==
  ASSUME NEW A, NEW q \in Seq(A), NEW S
  PROVE  /\ Without(q, S) \in Seq(A)
         /\ Elems(Without(q, S)) = Elems(q) \ S
         /\ Distinct(q) => Distinct(Without(q, S))
<1> DEFINE K == {i \in DOMAIN q : q[i] \notin S}
           c(i) == Cardinality({k \in K : k <= i})
           nth(j) == CHOOSE i \in K : c(i) = j
           w == [j \in 1 .. Cardinality(K) |-> q[nth(j)]]
<1>1. DOMAIN q = 1 .. Len(q) /\ Len(q) \in Nat /\ K \in SUBSET (1 .. Len(q))
  OBVIOUS
<1>2. /\ Cardinality(K) \in Nat
      /\ \A j \in 1 .. Cardinality(K) : \E i \in K : c(i) = j
      /\ \A i \in K : c(i) \in 1 .. Cardinality(K)
  BY <1>1, Enumerate
<1> HIDE DEF c
<1>3. \A j \in 1 .. Cardinality(K) : nth(j) \in K /\ c(nth(j)) = j
  BY <1>2
<1>4. Without(q, S) = w
  BY DEF Without, c
<1>5. w \in Seq(A)
  <2>1. \A j \in 1 .. Cardinality(K) : q[nth(j)] \in A
    BY <1>3
  <2> QED BY <2>1, <1>2, IsASeq
<1>6. DOMAIN w = 1 .. Cardinality(K)
  OBVIOUS
<1>7. Elems(w) = Elems(q) \ S
  <2>1. \A i \in K : \E j \in 1 .. Cardinality(K) : nth(j) = i \/ c(nth(j)) = c(i)
    BY <1>2, <1>3
  <2>2. ASSUME NEW i \in K, NEW k \in K, c(i) = c(k) PROVE i = k
    <3>1. {m \in K : m <= i} = {m \in K : m <= k} \/ i = k
      <4>1. IsFiniteSet(K)
        BY <1>1, Enumerate
      <4>2. CASE i <= k
        <5>1. {m \in K : m <= i} \in SUBSET {m \in K : m <= k} /\ IsFiniteSet({m \in K : m <= k})
          BY <4>1, <4>2, <1>1, FS_Subset
        <5> QED BY <5>1, <2>2, FS_Subset DEF c
      <4>3. CASE k <= i
        <5>1. {m \in K : m <= k} \in SUBSET {m \in K : m <= i} /\ IsFiniteSet({m \in K : m <= i})
          BY <4>1, <4>3, <1>1, FS_Subset
        <5> QED BY <5>1, <2>2, FS_Subset DEF c
      <4> QED BY <4>2, <4>3, <1>1
    <3>2. i \in Int /\ k \in Int
      BY <1>1
    <3>3. i \in {m \in K : m <= i} /\ k \in {m \in K : m <= k}
      BY <3>2
    <3>4. CASE {m \in K : m <= i} = {m \in K : m <= k}
      <4>1. i <= k /\ k <= i
        BY <3>3, <3>4
      <4> QED BY <4>1, <3>2
    <3> QED BY <3>1, <3>4
  <2>3. \A i \in K : \E j \in DOMAIN w : w[j] = q[i]
    BY <2>1, <2>2, <1>3, <1>6
  <2>4. \A j \in DOMAIN w : w[j] \in Elems(q) \ S
    BY <1>3, <1>6 DEF Elems
  <2>5. \A x \in Elems(q) \ S : \E i \in K : x = q[i]
    BY DEF Elems
  <2>6. Elems(w) = {w[j] : j \in DOMAIN w}
    BY DEF Elems
  <2> HIDE DEF w, K
  <2> QED BY <2>3, <2>4, <2>5, <2>6
<1>8. Distinct(q) => Distinct(w)
  BY <1>3, <1>6 DEF Distinct
<1> QED BY <1>4, <1>5, <1>7, <1>8

\* Concatenation.
LEMMA ConcatElems ==
  ASSUME NEW A, NEW q \in Seq(A), NEW r \in Seq(A)
  PROVE  /\ q \o r \in Seq(A)
         /\ Elems(q \o r) = Elems(q) \cup Elems(r)
         /\ Distinct(q) /\ Distinct(r) /\ Elems(q) \cap Elems(r) = {} => Distinct(q \o r)
<1> DEFINE c == q \o r
<1>1. /\ c \in Seq(A) /\ Len(c) = Len(q) + Len(r)
      /\ DOMAIN c = 1 .. Len(q) + Len(r)
      /\ DOMAIN q = 1 .. Len(q) /\ DOMAIN r = 1 .. Len(r)
      /\ Len(q) \in Nat /\ Len(r) \in Nat
  OBVIOUS
<1>2. \A i \in DOMAIN c : c[i] = IF i <= Len(q) THEN q[i] ELSE r[i - Len(q)]
  OBVIOUS
<1>3. \A i \in DOMAIN q : i \in DOMAIN c /\ c[i] = q[i]
  BY <1>1, <1>2
<1>4. \A i \in DOMAIN r : i + Len(q) \in DOMAIN c /\ c[i + Len(q)] = r[i]
  BY <1>1, <1>2
<1>5. \A i \in DOMAIN c : \/ i \in DOMAIN q /\ c[i] = q[i]
                          \/ i - Len(q) \in DOMAIN r /\ c[i] = r[i - Len(q)]
  BY <1>1, <1>2
<1> HIDE DEF c
<1>6. Elems(c) = Elems(q) \cup Elems(r)
  <2>1. Elems(c) \subseteq Elems(q) \cup Elems(r)
    BY <1>5 DEF Elems
  <2>2. Elems(q) \subseteq Elems(c) /\ Elems(r) \subseteq Elems(c)
    BY <1>3, <1>4 DEF Elems
  <2> QED BY <2>1, <2>2
<1>7. ASSUME Distinct(q), Distinct(r), Elems(q) \cap Elems(r) = {} PROVE Distinct(c)
  <2> SUFFICES ASSUME NEW i \in DOMAIN c, NEW j \in DOMAIN c, c[i] = c[j] PROVE i = j
    BY DEF Distinct
  <2>1. i \in Int /\ j \in Int
    BY <1>1
  <2>2. CASE i \in DOMAIN q /\ c[i] = q[i] /\ j \in DOMAIN q /\ c[j] = q[j]
    BY <2>2, <1>7 DEF Distinct
  <2>3. CASE i - Len(q) \in DOMAIN r /\ c[i] = r[i - Len(q)] /\ j - Len(q) \in DOMAIN r /\ c[j] = r[j - Len(q)]
    <3>1. i - Len(q) = j - Len(q)
      BY <2>3, <1>7 DEF Distinct
    <3> QED BY <3>1, <2>1, <1>1
  <2>4. ASSUME NEW a \in DOMAIN q, NEW b \in DOMAIN r, q[a] = r[b] PROVE FALSE
    BY <2>4, <1>7 DEF Elems
  <2> QED BY <1>5, <2>2, <2>3, <2>4
<1> QED BY <1>1, <1>6, <1>7 DEF c

\* Ranging over a map visits each key once.
LEMMA OrdersProperties ==
  ASSUME NEW S, IsFiniteSet(S), NEW f \in Orders(S)
  PROVE  f \in Seq(S) /\ Elems(f) = S /\ Distinct(f)
<1> DEFINE n == Cardinality(S)
<1>1. n \in Nat /\ f \in [1 .. n -> S] /\ \A i, j \in 1 .. n : f[i] = f[j] => i = j
  BY FS_CardinalityType DEF Orders
<1> HIDE DEF n
<1>2. IsFiniteSet(1 .. n) /\ Cardinality(1 .. n) = n
  <2>1. n \in Int /\ (1 > n => n = 0)
    BY <1>1
  <2> QED BY <2>1, FS_Interval
<1>3. f \in Injection(1 .. n, S)
  BY <1>1 DEF Injection, IsInjective
<1>4. f \in Surjection(1 .. n, S)
  BY <1>2, <1>3, FS_Injection DEF n
<1>5. Elems(f) = S
  BY <1>1, <1>4 DEF Elems, Surjection
<1>6. f \in Seq(S)
  BY <1>1
<1> QED BY <1>1, <1>5, <1>6 DEF Distinct

\* The part of a sequence of segments that belongs to one partition.
LEMMA OnPartProperties ==
  ASSUME NEW q \in Seq(Segments), NEW p
  PROVE  /\ OnPart(q, p) \in Seq(Segments)
         /\ Elems(OnPart(q, p)) = {s \in Elems(q) : PartOf[s] = p}
         /\ Distinct(q) => Distinct(OnPart(q, p))
<1>1. Elems(q) \subseteq Segments
  BY DEF Elems
<1> QED BY <1>1, WithoutProperties DEF OnPart

-----------------------------------------------------------------------------
(* Families of queues.                                                     *)

WellFormed(Q) ==
  /\ Q \in [Parts -> Seq(Segments)]
  /\ \A p \in Parts : Distinct(Q[p]) /\ \A s \in Elems(Q[p]) : PartOf[s] = p

Union(Q) == UNION {Elems(Q[p]) : p \in Parts}

\* What a row of queues holds after a change of each of them, from what each holds.
LEMMA UnionParts ==
  ASSUME NEW Q, WellFormed(Q), NEW s
  PROVE  /\ s \in Union(Q) => s \in Segments /\ s \in Elems(Q[PartOf[s]])
         /\ \A p \in Parts : s \in Elems(Q[p]) => s \in Union(Q) /\ PartOf[s] = p /\ s \in Segments
  BY DEF WellFormed, Union, Elems

\* Taking segments out of every queue.
LEMMA RemoveAll ==
  ASSUME NEW Q, WellFormed(Q), NEW S
  PROVE  /\ WellFormed([p \in Parts |-> Without(Q[p], S)])
         /\ Union([p \in Parts |-> Without(Q[p], S)]) = Union(Q) \ S
<1>1. \A p \in Parts : /\ Without(Q[p], S) \in Seq(Segments)
                       /\ Elems(Without(Q[p], S)) = Elems(Q[p]) \ S
                       /\ Distinct(Without(Q[p], S))
  BY WithoutProperties DEF WellFormed
<1> QED BY <1>1 DEF WellFormed, Union

\* Putting segments in front of their queues, or behind them.
LEMMA PutAll ==
  ASSUME NEW Q, WellFormed(Q), NEW q \in Seq(Segments), Distinct(q),
         Elems(q) \cap Union(Q) = {}
  PROVE  /\ WellFormed([p \in Parts |-> OnPart(q, p) \o Q[p]])
         /\ Union([p \in Parts |-> OnPart(q, p) \o Q[p]]) = Elems(q) \cup Union(Q)
         /\ WellFormed([p \in Parts |-> Q[p] \o OnPart(q, p)])
         /\ Union([p \in Parts |-> Q[p] \o OnPart(q, p)]) = Elems(q) \cup Union(Q)
<1>1. \A p \in Parts : /\ OnPart(q, p) \in Seq(Segments) /\ Q[p] \in Seq(Segments)
                       /\ Elems(OnPart(q, p)) = {s \in Elems(q) : PartOf[s] = p}
                       /\ Distinct(OnPart(q, p)) /\ Distinct(Q[p])
                       /\ Elems(OnPart(q, p)) \cap Elems(Q[p]) = {}
  BY OnPartProperties DEF WellFormed, Union
<1>2. \A p \in Parts : /\ OnPart(q, p) \o Q[p] \in Seq(Segments)
                       /\ Elems(OnPart(q, p) \o Q[p]) = Elems(OnPart(q, p)) \cup Elems(Q[p])
                       /\ Distinct(OnPart(q, p) \o Q[p])
  BY <1>1, ConcatElems
<1>3. \A p \in Parts : /\ Q[p] \o OnPart(q, p) \in Seq(Segments)
                       /\ Elems(Q[p] \o OnPart(q, p)) = Elems(OnPart(q, p)) \cup Elems(Q[p])
                       /\ Distinct(Q[p] \o OnPart(q, p))
  BY <1>1, ConcatElems
<1>4. \A s \in Elems(q) : PartOf[s] \in Parts
  BY SegmentsAssumption DEF Elems
<1> DEFINE F == [p \in Parts |-> OnPart(q, p) \o Q[p]]
           B == [p \in Parts |-> Q[p] \o OnPart(q, p)]
<1>5. WellFormed(F) /\ WellFormed(B)
  BY <1>1, <1>2, <1>3 DEF WellFormed
<1>6. \A p \in Parts : /\ Elems(F[p]) = {s \in Elems(q) : PartOf[s] = p} \cup Elems(Q[p])
                       /\ Elems(B[p]) = {s \in Elems(q) : PartOf[s] = p} \cup Elems(Q[p])
  BY <1>1, <1>2, <1>3
<1> HIDE DEF F, B
<1>7. Union(F) = Elems(q) \cup Union(Q) /\ Union(B) = Elems(q) \cup Union(Q)
  BY <1>4, <1>6 DEF Union
<1> QED BY <1>5, <1>7 DEF F, B

-----------------------------------------------------------------------------
(* The inductive invariant.                                                *)

\* A segment is released by an acknowledgement or by loss, never by both, and only
\* a released one is forgotten.
Settlement ==
  /\ forgotten \subseteq released
  /\ \A s \in released : acked[s] # {} \/ s \in lost
  /\ \A s \in Segments : acked[s] # {} => s \in released /\ s \notin lost

IInv ==
  /\ TypeOK /\ Conserved /\ Fenced
  /\ Affinity /\ PinnedOwned
  /\ Settlement /\ LossIsReal /\ DrainedIsFinal

\* The invariant's view of the queues is the one the properties use.
LEMMA WellFormedQueues == TypeOK => (QueuesWellFormed <=> WellFormed(queues)) /\ Queued = Union(queues)
  BY DEF TypeOK, QueuesWellFormed, WellFormed, Distinct, Queued, Union

\* Every claim of a leaving process is gone, what it held is back in a queue unless
\* its bytes went too, and nothing else moved.
Dropped(gone, replaced, order) ==
  LET procs == Leaving(gone, replaced)
      Q == QueuesAfter(order, gone)
      F == InflightAfter(procs, gone)
      D == DeliveredAfter(procs, gone)
      L == LostWith(gone)
  IN  /\ WellFormed(Q)
      /\ F \subseteq Segments /\ Union(Q) \cap F = {}
      /\ Union(Q) \cup F = announced \ (released \cup L)
      /\ D \in [Segments -> SUBSET Processes]
      /\ \A s \in Segments :
           /\ s \in F <=> D[s] # {}
           /\ D[s] \subseteq delivered[s]
           /\ \A r \in D[s] : r[1] \notin gone \cup replaced
      /\ L \subseteq announced /\ L \cap released = {} /\ L \cap lost = {}
      /\ \A s \in L : acked[s] = {} /\ s \notin Durable /\ ProducerOf[s] \in gone
      /\ F \subseteq inflight

\* What expiry and takeover do to the queues, the deliveries and the ownership,
\* before anything else happens.
LEMMA Dropping ==
  ASSUME IInv, NEW gone \in SUBSET Pods, NEW replaced \in SUBSET Pods,
         NEW order \in Orders(ReturnedBy(Leaving(gone, replaced), gone))
  PROVE  Dropped(gone, replaced, order)
<1> DEFINE procs == Leaving(gone, replaced)
           R == ReturnedBy(procs, gone)
           Q == QueuesAfter(order, gone)
           F == InflightAfter(procs, gone)
           D == DeliveredAfter(procs, gone)
           L == LostWith(gone)
<1> USE DEF IInv
<1>1. WellFormed(queues) /\ Queued = Union(queues)
  BY WellFormedQueues DEF Conserved
<1>2. /\ Queued \cap inflight = {} /\ Queued \cup inflight = announced \ released
      /\ lost \subseteq released /\ released \subseteq announced /\ announced \subseteq Segments
      /\ delivered \in [Segments -> SUBSET Processes] /\ inflight \subseteq Segments
  BY DEF Conserved, TypeOK
<1>3. R \subseteq inflight /\ R \cap L = {} /\ L \subseteq announced /\ L \cap released = {} /\ L \cap lost = {}
  BY DEF ReturnedBy, LostWith
<1>4. IsFiniteSet(R) /\ R \subseteq Segments
  BY <1>2, <1>3, SegmentsAssumption, FS_Subset
<1>5. order \in Seq(R) /\ Elems(order) = R /\ Distinct(order)
  BY <1>4, OrdersProperties
<1>6. order \in Seq(Segments)
  BY <1>4, <1>5, SeqMonotonic
<1> DEFINE K == [p \in Parts |-> Without(queues[p], L)]
<1>7. WellFormed(K) /\ Union(K) = Queued \ L
  BY <1>1, RemoveAll
<1>8. Q = [p \in Parts |-> OnPart(order, p) \o K[p]]
  BY DEF QueuesAfter
<1>9. R \cap Union(K) = {}
  BY <1>2, <1>3, <1>7
<1> HIDE DEF K
<1>10. WellFormed(Q) /\ Union(Q) = R \cup (Queued \ L)
  <2>1. Elems(order) \cap Union(K) = {}
    BY <1>5, <1>9
  <2>2. /\ WellFormed([p \in Parts |-> OnPart(order, p) \o K[p]])
        /\ Union([p \in Parts |-> OnPart(order, p) \o K[p]]) = Elems(order) \cup Union(K)
    BY <1>5, <1>6, <1>7, <2>1, PutAll
  <2> HIDE DEF Q
  <2> QED BY <2>2, <1>5, <1>7, <1>8
<1>11. F = inflight \ (L \cup R)
  BY <1>2 DEF InflightAfter, ReturnedBy
<1>12. /\ F \subseteq Segments /\ Union(Q) \cap F = {} /\ F \subseteq inflight
       /\ Union(Q) \cup F = announced \ (released \cup L)
  BY <1>2, <1>3, <1>10, <1>11
<1>13. D \in [Segments -> SUBSET Processes] /\ \A s \in Segments : D[s] \subseteq delivered[s]
  BY <1>2 DEF DeliveredAfter
<1>14. ASSUME NEW s \in Segments
       PROVE  /\ s \in F <=> D[s] # {}
              /\ \A r \in D[s] : r[1] \notin gone \cup replaced
  <2>1. /\ s \in inflight <=> delivered[s] # {}
        /\ \A r \in delivered[s] : r \in Processes /\ r[1] \in Pods /\ incarnation[r[1]] = r[2]
        /\ \A r, u \in delivered[s] : r = u
    BY <1>2 DEF Fenced, Processes
  <2>2. D[s] = IF s \in L THEN {} ELSE delivered[s] \ procs
    BY DEF DeliveredAfter
  <2>3. s \in F <=> s \in inflight /\ s \notin L /\ delivered[s] \cap procs = {}
    BY DEF InflightAfter
  <2>4. \A r \in delivered[s] : r \in procs <=> r[1] \in gone \cup replaced
    BY <2>1 DEF Leaving
  <2> QED BY <2>1, <2>2, <2>3, <2>4
<1>15. \A s \in L : acked[s] = {} /\ s \notin Durable /\ ProducerOf[s] \in gone
  <2> TAKE s \in L
  <2>1. s \in Segments /\ s \notin released /\ s \notin Durable /\ ProducerOf[s] \in gone
    BY <1>2 DEF LostWith
  <2> QED BY <2>1 DEF Settlement
<1> QED BY <1>3, <1>10, <1>12, <1>13, <1>14, <1>15 DEF Dropped

\* The same, as a step: expiry and takeover keep the invariant, provided the pods
\* that stay keep their process.
LEMMA DropStep ==
  ASSUME IInv, NEW gone \in SUBSET Pods, NEW replaced \in SUBSET Pods, NEW order,
         Drop(gone, replaced, order),
         \A y \in Pods \ (gone \cup replaced) : Registered(y) => incarnation'[y] = incarnation[y],
         UNCHANGED <<sealed, announced, acked, drained>>,
         forgotten' \subseteq released'
  PROVE  /\ queues' \in [Parts -> Seq(Segments)] /\ inflight' \subseteq Segments
         /\ delivered' \in [Segments -> SUBSET Processes]
         /\ owner' \in [Parts -> Consumers \cup {None}] /\ pinned' \subseteq Parts
         /\ lost' \subseteq released' /\ released' \subseteq announced'
         /\ Conserved' /\ Fenced' /\ Affinity' /\ PinnedOwned'
         /\ Settlement' /\ LossIsReal' /\ DrainedIsFinal'
<1> DEFINE procs == Leaving(gone, replaced)
           L == LostWith(gone)
<1> USE DEF IInv
<1>1. /\ order \in Orders(ReturnedBy(procs, gone))
      /\ queues' = QueuesAfter(order, gone)
      /\ inflight' = InflightAfter(procs, gone)
      /\ delivered' = DeliveredAfter(procs, gone)
      /\ owner' = OwnerAfter(gone \cup replaced)
      /\ pinned' = PinnedAfter(gone \cup replaced)
      /\ lost' = lost \cup L /\ released' = released \cup L
  BY DEF Drop
<1>2. /\ WellFormed(queues')
      /\ inflight' \subseteq Segments /\ Union(queues') \cap inflight' = {}
      /\ Union(queues') \cup inflight' = announced \ released'
      /\ delivered' \in [Segments -> SUBSET Processes]
      /\ \A s \in Segments :
           /\ s \in inflight' <=> delivered'[s] # {}
           /\ delivered'[s] \subseteq delivered[s]
           /\ \A r \in delivered'[s] : r[1] \notin gone \cup replaced
      /\ L \subseteq announced /\ L \cap released = {} /\ L \cap lost = {}
      /\ \A s \in L : acked[s] = {} /\ s \notin Durable /\ ProducerOf[s] \in gone
      /\ inflight' \subseteq inflight
  <2>1. Dropped(gone, replaced, order)
    BY <1>1, Dropping
  <2> QED BY <1>1, <2>1 DEF Dropped
<1> HIDE DEF L, procs
<1>3. TypeOK /\ announced' = announced /\ acked' = acked /\ sealed' = sealed /\ drained' = drained
  OBVIOUS
<1>4. queues' \in [Parts -> Seq(Segments)]
  BY <1>2 DEF WellFormed
<1>5. owner' \in [Parts -> Consumers \cup {None}] /\ pinned' \subseteq Parts
  BY <1>1, <1>3 DEF TypeOK, OwnerAfter, PinnedAfter
<1>6. lost' \subseteq released' /\ released' \subseteq announced'
  BY <1>1, <1>2, <1>3 DEF TypeOK
<1>7. Queued' = Union(queues')
  BY DEF Queued, Union
<1>8. QueuesWellFormed'
  BY <1>2 DEF QueuesWellFormed, WellFormed, Distinct
<1>9. Conserved'
  BY <1>2, <1>3, <1>7, <1>8 DEF Conserved
<1>10. ASSUME NEW s \in Segments, NEW r \in delivered'[s]
       PROVE  /\ r \in delivered[s] /\ r[1] \in Consumers /\ r[1] \in Pods \ (gone \cup replaced)
              /\ incarnation[r[1]] = r[2] /\ r[2] # 0
              /\ incarnation'[r[1]] = r[2]
  <2>1. r \in delivered[s] /\ r[1] \in Consumers /\ r[1] \notin gone \cup replaced /\ incarnation[r[1]] = r[2]
    BY <1>2 DEF Fenced
  <2>2. r \in Processes
    BY <2>1, <1>3 DEF TypeOK
  <2>3. r[1] \in Pods /\ r[2] # 0
    BY <2>2, BoundsAssumption DEF Processes, Incarnations
  <2> QED BY <2>1, <2>3 DEF Registered
<1>11. Fenced'
  <2>1. \A s \in Segments : \A r, t \in delivered'[s] : r = t
    BY <1>2 DEF Fenced
  <2> QED BY <1>2, <1>10, <2>1 DEF Fenced
<1>12. Affinity'
  <2> SUFFICES ASSUME Hash, NEW s \in inflight', NEW r \in delivered'[s]
               PROVE  owner'[PartOf[s]] = r[1] /\ PartOf[s] \in pinned'
    BY DEF Affinity
  <2>1. s \in Segments /\ s \in inflight /\ PartOf[s] \in Parts
    BY <1>2, SegmentsAssumption
  <2>2. r \in delivered[s] /\ r[1] \notin gone \cup replaced
    BY <1>10, <2>1
  <2>3. owner[PartOf[s]] = r[1] /\ PartOf[s] \in pinned
    BY <2>1, <2>2 DEF Affinity
  <2> QED BY <2>1, <2>2, <2>3, <1>1 DEF OwnerAfter, PinnedAfter
<1>13. PinnedOwned'
  <2> SUFFICES ASSUME NEW p \in pinned' PROVE owner'[p] \in Consumers /\ incarnation'[owner'[p]] # 0
    BY DEF PinnedOwned, LiveConsumers, Registered
  <2>1. p \in pinned /\ owner[p] \notin gone \cup replaced /\ p \in Parts
    BY <1>1, <1>5 DEF PinnedAfter
  <2>2. owner'[p] = owner[p]
    BY <1>1, <2>1 DEF OwnerAfter
  <2>3. owner[p] \in Consumers /\ Registered(owner[p])
    BY <2>1 DEF PinnedOwned, LiveConsumers
  <2> QED BY <2>1, <2>2, <2>3 DEF Registered, Pods
<1>14. Settlement'
  BY <1>1, <1>2, <1>3 DEF Settlement, TypeOK
<1>15. LossIsReal'
  <2> SUFFICES ASSUME NEW s \in lost' PROVE acked[s] = {} /\ s \notin Durable /\ ProducerOf[s] \in Producers
    BY <1>3 DEF LossIsReal, HeldByPod
  <2>1. CASE s \in lost
    BY <2>1 DEF LossIsReal, HeldByPod
  <2>2. CASE s \in L
    <3>1. s \in Segments
      BY <1>2, <1>3, <2>2 DEF TypeOK
    <3> QED BY <1>2, <2>2, <3>1, SegmentsAssumption DEF Pods
  <2> QED BY <1>1, <2>1, <2>2
<1>16. DrainedIsFinal'
  <2> SUFFICES ASSUME drained PROVE /\ sealed
                                    /\ Union(queues') \cup inflight' = {}
                                    /\ \A s \in announced : acked[s] # {} \/ s \in lost'
    BY <1>3, <1>7 DEF DrainedIsFinal
  <2>1. sealed /\ Queued \cup inflight = {} /\ \A s \in announced : acked[s] # {} \/ s \in lost
    BY DEF DrainedIsFinal
  <2>2. announced \ released = {}
    BY <2>1 DEF Conserved
  <2> QED BY <2>1, <2>2, <1>1, <1>2
<1> QED BY <1>2, <1>4, <1>5, <1>6, <1>9, <1>11, <1>12, <1>13, <1>14, <1>15, <1>16

-----------------------------------------------------------------------------
(* Each action keeps the invariant.                                        *)

\* Init has the invariant.
LEMMA InitInv == Init => IInv
<1> SUFFICES ASSUME Init PROVE IInv
  OBVIOUS
<1> USE DEF Init
<1>1. TypeOK
  <2>1. started \in [Pods -> Nat] /\ incarnation \in [Pods -> 0 .. MaxIncarnation] /\ faults \in Nat
    BY BoundsAssumption
  <2>2. fresh \in [Pods -> BOOLEAN] /\ sealed \in BOOLEAN /\ drained \in BOOLEAN
    BY Zenon
  <2>3. queues \in [Parts -> Seq(Segments)] /\ owner \in [Parts -> Consumers \cup {None}]
    OBVIOUS
  <2> QED BY <2>1, <2>2, <2>3 DEF TypeOK
<1>2. Queued = {} /\ QueuesWellFormed
  BY DEF Queued, QueuesWellFormed, Elems
<1>3. Conserved
  BY <1>2 DEF Conserved
<1>4. Fenced /\ Affinity /\ PinnedOwned
  BY DEF Fenced, Affinity, PinnedOwned
<1>5. Settlement /\ LossIsReal /\ DrainedIsFinal
  BY DEF Settlement, LossIsReal, DrainedIsFinal
<1> QED BY <1>1, <1>3, <1>4, <1>5 DEF IInv

\* Steps that touch neither the queues, the deliveries nor the registrations.
LEMMA Framed ==
  ASSUME IInv, UNCHANGED <<incarnation, ownVars, announced, forgotten, queues, inflight,
                           delivered, acked, lost, released, drained>>,
         sealed => sealed', TypeOK'
  PROVE  IInv'
<1> USE DEF IInv, ownVars
<1>1. Queued' = Queued /\ QueuesWellFormed'
  BY DEF Conserved, QueuesWellFormed, Queued
<1>2. Conserved'
  BY <1>1 DEF Conserved
<1>3. Fenced' /\ Affinity' /\ PinnedOwned'
  BY DEF Fenced, Affinity, PinnedOwned, LiveConsumers, Registered
<1>4. Settlement' /\ LossIsReal' /\ DrainedIsFinal'
  BY <1>1 DEF Settlement, LossIsReal, DrainedIsFinal
<1> QED BY <1>2, <1>3, <1>4

\* The steps that touch neither the queues nor the deliveries keep the invariant.
LEMMA QuietSteps ==
  ASSUME IInv,
         \/ \E x \in Pods : Restart(x)
         \/ \E x \in Pods : Lapse(x)
         \/ \E x \in Consumers, i \in Incarnations, s \in Segments : RetryDue(x, i, s)
         \/ Seal
         \/ UNCHANGED vars
  PROVE  IInv'
<1> USE DEF IInv, vars, podVars, ownVars, segVars, chanVars, envVars
<1>1. ASSUME NEW x \in Pods, Restart(x) PROVE IInv'
  <2>1. TypeOK'
    BY <1>1 DEF Restart, Fault, TypeOK
  <2> QED BY <1>1, <2>1, Framed DEF Restart
<1>2. ASSUME NEW x \in Pods, Lapse(x) PROVE IInv'
  <2>1. TypeOK'
    BY <1>2 DEF Lapse, Fault, TypeOK
  <2> QED BY <1>2, <2>1, Framed DEF Lapse
<1>3. ASSUME NEW x \in Consumers, NEW i \in Incarnations, NEW s \in Segments, RetryDue(x, i, s) PROVE IInv'
  <2>1. TypeOK'
    BY <1>3 DEF RetryDue, TypeOK
  <2> QED BY <1>3, <2>1, Framed DEF RetryDue
<1>4. ASSUME Seal PROVE IInv'
  <2>1. TypeOK'
    BY <1>4 DEF Seal, TypeOK
  <2> QED BY <1>4, <2>1, Framed DEF Seal
<1>5. ASSUME UNCHANGED vars PROVE IInv'
  <2>1. TypeOK'
    BY <1>5 DEF TypeOK
  <2> QED BY <1>5, <2>1, Framed
<1> QED BY <1>1, <1>2, <1>3, <1>4, <1>5

\* A registration, with the expiries and the takeover it brings, keeps the invariant.
LEMMA RegisterInv ==
  ASSUME IInv, NEW x \in Pods, NEW i \in Incarnations, Register(x, i)
  PROVE  IInv'
<1> DEFINE gone == Silent({x})
           replaced == {y \in {x} : Registered(x) /\ incarnation[x] # i}
<1> USE DEF IInv
<1>1. gone \in SUBSET Pods /\ replaced \in SUBSET Pods
  BY DEF Silent
<1>2. PICK order : Drop(gone, replaced, order)
  BY DEF Register
<1>3. incarnation' = [y \in Pods |-> IF y = x THEN i ELSE IF y \in gone THEN 0 ELSE incarnation[y]]
  BY DEF Register
<1>4. \A y \in Pods \ (gone \cup replaced) : Registered(y) => incarnation'[y] = incarnation[y]
  BY <1>3
<1>5. UNCHANGED <<started, sealed, announced, forgotten, acked, retryAfter, handed, drained, faults>>
  BY DEF Register, envVars
<1>6. forgotten' \subseteq released'
  BY <1>2, <1>5 DEF Settlement, Drop
<1>7. retired' \subseteq Processes
  BY BoundsAssumption DEF Register, TypeOK, Processes, Incarnations, Registered
<1>8. fresh' \in [Pods -> BOOLEAN] /\ incarnation' \in [Pods -> 0 .. MaxIncarnation]
  BY <1>3, BoundsAssumption DEF Register, TypeOK, Incarnations
<1> HIDE DEF gone, replaced
<1>9. /\ queues' \in [Parts -> Seq(Segments)] /\ inflight' \subseteq Segments
      /\ delivered' \in [Segments -> SUBSET Processes]
      /\ owner' \in [Parts -> Consumers \cup {None}] /\ pinned' \subseteq Parts
      /\ lost' \subseteq released' /\ released' \subseteq announced'
      /\ Conserved' /\ Fenced' /\ Affinity' /\ PinnedOwned'
      /\ Settlement' /\ LossIsReal' /\ DrainedIsFinal'
  BY <1>1, <1>2, <1>4, <1>5, <1>6, DropStep
<1>10. TypeOK'
  BY <1>5, <1>7, <1>8, <1>9 DEF TypeOK
<1> QED BY <1>9, <1>10

\* RegisterRefused, Metrics and Released: expiry alone, and the caller's released
\* segments forgotten.
LEMMA ExpiryInv ==
  ASSUME IInv, NEW gone \in SUBSET Pods, NEW order, Drop(gone, {}, order),
         incarnation' = [y \in Pods |-> IF y \in gone THEN 0 ELSE incarnation[y]],
         UNCHANGED <<started, fresh, retired, sealed, announced, acked, retryAfter, envVars>>,
         forgotten' \subseteq released'
  PROVE  IInv'
<1> USE DEF IInv
<1>1. \A y \in Pods \ (gone \cup {}) : Registered(y) => incarnation'[y] = incarnation[y]
  OBVIOUS
<1>2. UNCHANGED <<started, fresh, retired, sealed, announced, acked, retryAfter, handed, drained, faults>>
  BY DEF envVars
<1>3. /\ queues' \in [Parts -> Seq(Segments)] /\ inflight' \subseteq Segments
      /\ delivered' \in [Segments -> SUBSET Processes]
      /\ owner' \in [Parts -> Consumers \cup {None}] /\ pinned' \subseteq Parts
      /\ lost' \subseteq released' /\ released' \subseteq announced'
      /\ Conserved' /\ Fenced' /\ Affinity' /\ PinnedOwned'
      /\ Settlement' /\ LossIsReal' /\ DrainedIsFinal'
  <2>1. {} \in SUBSET Pods
    OBVIOUS
  <2> QED BY <1>1, <1>2, <2>1, DropStep
<1>4. incarnation' \in [Pods -> 0 .. MaxIncarnation]
  BY BoundsAssumption DEF TypeOK
<1>5. TypeOK'
  BY <1>2, <1>3, <1>4 DEF TypeOK
<1> QED BY <1>3, <1>5

\* The handlers that expire silent pods, and do little else, keep the invariant.
LEMMA ExpirySteps ==
  ASSUME IInv,
         \/ \E x \in Pods, i \in Incarnations : RegisterRefused(x, i)
         \/ Metrics
         \/ \E x \in Producers, i \in Incarnations : Released(x, i)
  PROVE  IInv'
<1> USE DEF IInv
<1>1. ASSUME NEW x \in Pods, NEW i \in Incarnations, RegisterRefused(x, i) PROVE IInv'
  <2>1. Silent({x}) \in SUBSET Pods
    BY DEF Silent
  <2>2. PICK order : Drop(Silent({x}), {}, order)
    BY <1>1 DEF RegisterRefused
  <2>3. forgotten' \subseteq released'
    BY <1>1, <2>2 DEF RegisterRefused, Settlement, Drop
  <2> QED BY <1>1, <2>1, <2>2, <2>3, ExpiryInv DEF RegisterRefused
<1>2. ASSUME Metrics PROVE IInv'
  <2>1. Silent({}) \in SUBSET Pods
    BY DEF Silent
  <2>2. PICK order : Drop(Silent({}), {}, order)
    BY <1>2 DEF Metrics
  <2>3. forgotten' \subseteq released'
    BY <1>2, <2>2 DEF Metrics, Settlement, Drop
  <2> QED BY <1>2, <2>1, <2>2, <2>3, ExpiryInv DEF Metrics
<1>3. ASSUME NEW x \in Producers, NEW i \in Incarnations, Released(x, i) PROVE IInv'
  <2>1. Silent({}) \in SUBSET Pods
    BY DEF Silent
  <2>2. PICK order : Drop(Silent({}), {}, order)
    BY <1>3 DEF Released
  <2>3. forgotten' \subseteq released'
    BY <1>3, <2>2 DEF Released, Settlement, Drop
  <2> QED BY <1>3, <2>1, <2>2, <2>3, ExpiryInv DEF Released
<1> QED BY <1>1, <1>2, <1>3

\* index and enqueue: the new segments of the batch join the end of their queues.
LEMMA IndexInv ==
  ASSUME IInv, NEW batch \in Seq(Segments), Distinct(batch),
         Elems(batch) \ announced # {} => ~sealed,
         Index(batch),
         UNCHANGED <<podVars, ownVars, sealed, forgotten, inflight, segVars, envVars>>
  PROVE  IInv'
<1> DEFINE new == Without(batch, announced)
           Q == [p \in Parts |-> queues[p] \o OnPart(new, p)]
<1> USE DEF IInv
<1>1. new \in Seq(Segments) /\ Elems(new) = Elems(batch) \ announced /\ Distinct(new)
  BY WithoutProperties
<1>2. announced' = announced \cup Elems(new) /\ queues' = Q
  BY DEF Index
<1>3. Elems(new) \subseteq Segments
  BY <1>1 DEF Elems
<1> HIDE DEF new
<1>4. WellFormed(queues) /\ Queued = Union(queues)
  BY WellFormedQueues DEF Conserved
<1>5. /\ Queued \cap inflight = {} /\ Queued \cup inflight = announced \ released
      /\ released \subseteq announced
  BY DEF Conserved, TypeOK
<1>6. Elems(new) \cap Union(queues) = {}
  BY <1>1, <1>4, <1>5
<1>7. WellFormed(Q) /\ Union(Q) = Elems(new) \cup Union(queues)
  BY <1>1, <1>4, <1>6, PutAll
<1> HIDE DEF Q
<1>8. UNCHANGED <<started, incarnation, fresh, retired, owner, pinned, sealed, forgotten, inflight,
                  delivered, acked, retryAfter, lost, released, handed, drained, faults>>
  BY DEF podVars, ownVars, segVars, envVars
<1>9. Queued' = Elems(new) \cup Queued
  BY <1>2, <1>4, <1>7 DEF Queued, Union
<1>10. QueuesWellFormed'
  BY <1>2, <1>7 DEF QueuesWellFormed, WellFormed, Distinct
<1>11. TypeOK'
  BY <1>2, <1>3, <1>7, <1>8 DEF TypeOK, WellFormed
<1>12. Conserved'
  <2>1. Elems(new) \cap inflight = {} /\ Elems(new) \cap released = {}
    BY <1>1, <1>5
  <2> QED BY <1>2, <1>5, <1>8, <1>9, <1>10, <2>1 DEF Conserved
<1>13. Fenced' /\ Affinity' /\ PinnedOwned' /\ Settlement' /\ LossIsReal'
  BY <1>8 DEF Fenced, Affinity, PinnedOwned, LiveConsumers, Registered, Settlement, LossIsReal
<1>14. DrainedIsFinal'
  <2>1. drained => Elems(new) = {}
    BY <1>1 DEF DrainedIsFinal
  <2> QED BY <2>1, <1>2, <1>8, <1>9 DEF DrainedIsFinal
<1> QED BY <1>11, <1>12, <1>13, <1>14

\* A batch holds a segment at most once, and only segments of its set.
LEMMA BatchProperties ==
  ASSUME NEW S \in SUBSET Segments, NEW batch \in Batches(S)
  PROVE  batch \in Seq(Segments) /\ Distinct(batch)
<1>1. PICK B \in SUBSET S : batch \in Orders(B)
  BY DEF Batches
<1>2. IsFiniteSet(B) /\ B \subseteq Segments
  BY SegmentsAssumption, FS_Subset
<1>3. batch \in Seq(B) /\ Distinct(batch)
  BY <1>1, <1>2, OrdersProperties
<1> QED BY <1>2, <1>3, SeqMonotonic

\* Announce and Produce keep the invariant.
LEMMA ProducingSteps ==
  ASSUME IInv,
         \/ \E x \in Producers, i \in Incarnations : \E batch \in Batches(SegmentsHeldBy(x)) : Announce(x, i, batch)
         \/ \E batch \in Batches(SegmentsOfCoordinator) : Produce(batch)
  PROVE  IInv'
<1>1. ASSUME NEW x \in Producers, NEW i \in Incarnations,
             NEW batch \in Batches(SegmentsHeldBy(x)), Announce(x, i, batch)
      PROVE  IInv'
  <2>1. SegmentsHeldBy(x) \in SUBSET Segments
    BY DEF SegmentsHeldBy
  <2>2. batch \in Seq(Segments) /\ Distinct(batch)
    BY <2>1, BatchProperties
  <2> QED BY <1>1, <2>2, IndexInv DEF Announce
<1>2. ASSUME NEW batch \in Batches(SegmentsOfCoordinator), Produce(batch) PROVE IInv'
  <2>1. SegmentsOfCoordinator \in SUBSET Segments
    BY DEF SegmentsOfCoordinator
  <2>2. batch \in Seq(Segments) /\ Distinct(batch)
    BY <2>1, BatchProperties
  <2> QED BY <1>2, <2>2, IndexInv DEF Produce
<1> QED BY <1>1, <1>2

\* An acknowledgement settles its segment.
LEMMA AckInv ==
  ASSUME IInv, NEW x \in Consumers, NEW i \in Incarnations, NEW s \in Segments, Ack(x, i, s)
  PROVE  IInv'
<1> USE DEF IInv
<1>1. /\ s \notin lost /\ <<x, i>> \in delivered[s] /\ <<x, i>> \in Processes
      /\ delivered' = [delivered EXCEPT ![s] = @ \ {<<x, i>>}]
      /\ acked' = [acked EXCEPT ![s] = @ \cup {x}]
      /\ released' = released \cup {s}
      /\ retryAfter' = [retryAfter EXCEPT ![s] = @ \ {<<x, i>>}]
      /\ forgotten' \subseteq forgotten \cup {s}
      /\ inflight' = IF delivered'[s] = {} THEN inflight \ {s} ELSE inflight
  BY DEF Ack, Processes, Pods
<1>2. UNCHANGED <<started, incarnation, fresh, retired, owner, pinned, sealed, announced, queues, lost,
                  handed, drained, faults>>
  BY DEF Ack, podVars, ownVars, envVars
<1>3. delivered[s] = {<<x, i>>} /\ s \in inflight
  BY <1>1 DEF Fenced
<1>4. /\ delivered \in [Segments -> SUBSET Processes]
      /\ Queued \cap inflight = {} /\ Queued \cup inflight = announced \ released
      /\ acked \in [Segments -> SUBSET Consumers] /\ lost \subseteq released
  BY DEF TypeOK, Conserved
<1>5. delivered'[s] = {} /\ \A t \in Segments \ {s} : delivered'[t] = delivered[t]
  BY <1>1, <1>3, <1>4
<1>6. inflight' = inflight \ {s}
  BY <1>1, <1>5
<1>7. s \in announced /\ s \notin released
  BY <1>3, <1>4
<1>8. TypeOK'
  BY <1>1, <1>2, <1>6, <1>7 DEF TypeOK
<1>9. Queued' = Queued /\ QueuesWellFormed'
  BY <1>2 DEF Queued, QueuesWellFormed, Conserved
<1>10. Conserved'
  BY <1>1, <1>2, <1>4, <1>6, <1>9, <1>3 DEF Conserved
<1>11. Fenced'
  BY <1>2, <1>5, <1>6 DEF Fenced
<1>12. Affinity' /\ PinnedOwned'
  <2>1. \A t \in inflight' : t \in Segments \ {s} /\ t \in inflight
    BY <1>6 DEF TypeOK
  <2> QED BY <1>2, <1>5, <2>1 DEF Affinity, PinnedOwned, LiveConsumers, Registered
<1>13. acked'[s] # {} /\ \A t \in Segments \ {s} : acked'[t] = acked[t]
  BY <1>1, <1>4
<1>14. Settlement'
  <2>1. forgotten' \subseteq released'
    BY <1>1 DEF Settlement
  <2>2. \A t \in released' : acked'[t] # {} \/ t \in lost'
    BY <1>1, <1>2, <1>13 DEF Settlement, TypeOK
  <2>3. \A t \in Segments : acked'[t] # {} => t \in released' /\ t \notin lost'
    BY <1>1, <1>2, <1>13 DEF Settlement
  <2> QED BY <2>1, <2>2, <2>3 DEF Settlement
<1>15. LossIsReal'
  <2>1. \A t \in lost : t \in Segments \ {s}
    BY <1>1 DEF TypeOK
  <2> QED BY <1>2, <1>13, <2>1 DEF LossIsReal
<1>16. DrainedIsFinal'
  BY <1>2, <1>3 DEF DrainedIsFinal
<1> QED BY <1>8, <1>10, <1>11, <1>12, <1>14, <1>15, <1>16

\* A returned delivery goes back to its queue.
LEMMA NackInv ==
  ASSUME IInv, NEW x \in Consumers, NEW i \in Incarnations, NEW s \in Segments,
         NEW delay \in BOOLEAN, Nack(x, i, s, delay)
  PROVE  IInv'
<1> DEFINE p == PartOf[s]
<1> USE DEF IInv
<1>1. /\ <<x, i>> \in delivered[s] /\ <<x, i>> \in Processes
      /\ delivered' = [delivered EXCEPT ![s] = @ \ {<<x, i>>}]
      /\ retryAfter' = IF delay THEN [retryAfter EXCEPT ![s] = @ \cup {<<x, i>>}] ELSE retryAfter
      /\ inflight' = IF delivered'[s] = {} THEN inflight \ {s} ELSE inflight
      /\ queues' = IF s \notin lost \cup released \cup Elems(queues[p])
                     THEN [queues EXCEPT ![p] = <<s>> \o @] ELSE queues
      /\ faults' = faults + 1
  BY DEF Nack, Processes, Pods, Fault
<1>2. UNCHANGED <<started, incarnation, fresh, retired, owner, pinned, sealed, announced, forgotten, acked,
                  lost, released, handed, drained>>
  BY DEF Nack, podVars, ownVars
<1>3. delivered[s] = {<<x, i>>} /\ s \in inflight
  BY <1>1 DEF Fenced
<1>4. /\ delivered \in [Segments -> SUBSET Processes]
      /\ Queued \cap inflight = {} /\ Queued \cup inflight = announced \ released
      /\ lost \subseteq released /\ WellFormed(queues) /\ Queued = Union(queues)
  BY WellFormedQueues DEF TypeOK, Conserved
<1>5. delivered'[s] = {} /\ \A t \in Segments \ {s} : delivered'[t] = delivered[t]
  BY <1>1, <1>3, <1>4
<1>6. inflight' = inflight \ {s}
  BY <1>1, <1>5
<1>7. s \notin released /\ s \notin lost /\ s \notin Union(queues) /\ p \in Parts
  BY <1>3, <1>4, SegmentsAssumption
<1>8. s \notin Elems(queues[p])
  BY <1>7 DEF Union
<1>9. queues' = [queues EXCEPT ![p] = <<s>> \o @]
  BY <1>1, <1>7, <1>8
<1>10. /\ <<s>> \o queues[p] \in Seq(Segments)
       /\ Elems(<<s>> \o queues[p]) = {s} \cup Elems(queues[p])
       /\ Distinct(<<s>> \o queues[p])
  <2>1. <<s>> \in Seq(Segments) /\ Elems(<<s>>) = {s} /\ Distinct(<<s>>)
    BY DEF Elems, Distinct
  <2>2. queues[p] \in Seq(Segments) /\ Distinct(queues[p])
    BY <1>4, <1>7 DEF WellFormed
  <2>3. ASSUME NEW h \in Seq(Segments), Elems(h) = {s}, Distinct(h)
        PROVE  /\ h \o queues[p] \in Seq(Segments)
               /\ Elems(h \o queues[p]) = {s} \cup Elems(queues[p])
               /\ Distinct(h \o queues[p])
    <3>1. Elems(h) \cap Elems(queues[p]) = {}
      BY <2>3, <1>8
    <3> HIDE DEF p
    <3> QED BY <2>2, <2>3, <3>1, ConcatElems
  <2> QED BY <2>1, <2>3
<1>11. /\ queues' \in [Parts -> Seq(Segments)]
       /\ queues'[p] = <<s>> \o queues[p]
       /\ \A r \in Parts \ {p} : queues'[r] = queues[r]
  BY <1>4, <1>7, <1>9, <1>10 DEF WellFormed
<1>12. WellFormed(queues')
  <2> SUFFICES ASSUME NEW r \in Parts
               PROVE  Distinct(queues'[r]) /\ \A t \in Elems(queues'[r]) : PartOf[t] = r
    BY <1>11 DEF WellFormed
  <2>1. CASE r = p
    <3>1. \A t \in Elems(queues[p]) : PartOf[t] = p
      BY <1>4, <1>7 DEF WellFormed
    <3> QED BY <1>10, <1>11, <2>1, <3>1
  <2>2. CASE r # p
    BY <1>4, <1>11, <2>2 DEF WellFormed
  <2> QED BY <2>1, <2>2
<1>13. Union(queues') = {s} \cup Union(queues)
  <2>1. \A r \in Parts : Elems(queues'[r]) = IF r = p THEN {s} \cup Elems(queues[r]) ELSE Elems(queues[r])
    BY <1>10, <1>11
  <2> HIDE DEF p
  <2> QED BY <1>7, <2>1 DEF Union
<1>14. TypeOK'
  <2>1. retryAfter' \in [Segments -> SUBSET Processes]
    BY <1>1 DEF TypeOK
  <2>2. delivered' \in [Segments -> SUBSET Processes] /\ inflight' \subseteq Segments /\ faults' \in Nat
    BY <1>1, <1>6 DEF TypeOK
  <2> QED BY <2>1, <2>2, <1>2, <1>11 DEF TypeOK
<1>15. Queued' = {s} \cup Queued /\ QueuesWellFormed'
  BY <1>4, <1>12, <1>13 DEF Queued, Union, QueuesWellFormed, WellFormed, Distinct
<1>16. Conserved'
  BY <1>2, <1>3, <1>4, <1>6, <1>15 DEF Conserved
<1>17. Fenced'
  BY <1>2, <1>5, <1>6 DEF Fenced
<1>18. Affinity' /\ PinnedOwned'
  <2>1. \A t \in inflight' : t \in Segments \ {s} /\ t \in inflight
    BY <1>6 DEF TypeOK
  <2> QED BY <1>2, <1>5, <2>1 DEF Affinity, PinnedOwned, LiveConsumers, Registered
<1>19. Settlement' /\ LossIsReal'
  BY <1>2 DEF Settlement, LossIsReal
<1>20. DrainedIsFinal'
  BY <1>2, <1>3 DEF DrainedIsFinal
<1> QED BY <1>14, <1>16, <1>17, <1>18, <1>19, <1>20

\* What a consume hands over comes from queues of the caller's partitions.
LEMMA TakenProperties ==
  ASSUME NEW Q, WellFormed(Q), NEW mine \in SUBSET Parts, NEW r, NEW t \in Taken(Q, mine, r)
  PROVE  /\ t[1] \in mine /\ At(Q, t) \in Union(Q)
         /\ At(Q, t) \in Segments /\ PartOf[At(Q, t)] = t[1]
<1>1. t \in UNION {{p} \X DOMAIN Q[p] : p \in mine}
  BY DEF Taken, Ready
<1>2. PICK p \in mine : t \in {p} \X DOMAIN Q[p]
  BY <1>1
<1>3. t[1] = p /\ t[2] \in DOMAIN Q[p] /\ At(Q, t) = Q[p][t[2]]
  BY <1>2 DEF At
<1>4. At(Q, t) \in Elems(Q[p])
  BY <1>3 DEF Elems
<1> QED BY <1>3, <1>4, UnionParts

\* A consume, with its expiries, its assignment and its deliveries, keeps the invariant.
LEMMA ConsumeInv ==
  ASSUME IInv, NEW x \in Consumers, NEW i \in Incarnations, NEW arrives \in BOOLEAN,
         Consume(x, i, arrives)
  PROVE  IInv'
<1> DEFINE gone == Silent({x})
           procs == Leaving(gone, {})
           live == LiveConsumers \ gone
           pin == PinnedAfter(gone)
           own == OwnerAfter(gone)
           L == LostWith(gone)
           F == InflightAfter(procs, gone)
           D == DeliveredAfter(procs, gone)
<1> USE DEF IInv
<1>1. /\ gone \in SUBSET Pods /\ {} \in SUBSET Pods /\ x \notin gone /\ x \in Pods
      /\ incarnation[x] = i /\ i # 0 /\ <<x, i>> \in Processes
  BY BoundsAssumption DEF Silent, Pods, Consume, Active, Processes, Incarnations
<1> DEFINE Q(order) == QueuesAfter(order, gone)
           taken(order, o) == IF Gated THEN {} ELSE Taken(Q(order), {p \in Parts : o[p] = x}, <<x, i>>)
           work(order, o) == {At(Q(order), t) : t \in taken(order, o)}
<1>2. PICK order \in Orders(ReturnedBy(procs, gone)), o \in Assignments(own, pin, live) :
        /\ queues' = [p \in Parts |-> Without(Q(order)[p], work(order, o))]
        /\ inflight' = F \cup work(order, o)
        /\ delivered' = [s \in Segments |-> D[s] \cup (IF s \in work(order, o) THEN {<<x, i>>} ELSE {})]
        /\ handed' = [s \in Segments |-> handed[s] \cup
                                (IF arrives /\ s \in work(order, o) THEN {<<x, i>>} ELSE {})]
        /\ owner' = IF Hash /\ ~Gated THEN o ELSE own
        /\ pinned' = IF Hash /\ ~Gated THEN pin \cup {t[1] : t \in taken(order, o)} ELSE pin
        /\ lost' = lost \cup L
        /\ released' = released \cup L
        /\ incarnation' = [y \in Pods |-> IF y \in gone THEN 0 ELSE incarnation[y]]
  BY DEF Consume
<1> DEFINE A == Q(order)
           T == taken(order, o)
           W == work(order, o)
<1>3. /\ UNCHANGED <<started, retired, sealed, announced, forgotten, acked, retryAfter>>
      /\ fresh' = [fresh EXCEPT ![x] = TRUE]
      /\ drained' = (drained \/ (arrives /\ sealed /\ inflight' = {} /\ \A p \in Parts : queues'[p] = << >>))
      /\ faults' \in {faults, faults + 1}
  <2>1. UNCHANGED <<started, retired, sealed, announced, forgotten, acked, retryAfter>>
    BY Zenon DEF Consume
  <2>2. fresh' = [fresh EXCEPT ![x] = TRUE]
    BY Zenon DEF Consume
  <2>3. drained' = (drained \/ (arrives /\ sealed /\ inflight' = {} /\ \A p \in Parts : queues'[p] = << >>))
    BY Zenon DEF Consume, Quiet
  <2>4. IF arrives THEN UNCHANGED faults ELSE LostAnswers /\ Fault
    BY Zenon DEF Consume
  <2>5. faults' \in {faults, faults + 1}
    BY <2>4 DEF Fault
  <2> QED BY <2>1, <2>2, <2>3, <2>5, Zenon
<1>4. /\ WellFormed(A)
      /\ F \subseteq Segments /\ Union(A) \cap F = {}
      /\ Union(A) \cup F = announced \ (released \cup L)
      /\ D \in [Segments -> SUBSET Processes]
      /\ \A s \in Segments :
           /\ s \in F <=> D[s] # {}
           /\ D[s] \subseteq delivered[s]
           /\ \A r \in D[s] : r[1] \notin gone
      /\ L \subseteq announced /\ L \cap released = {} /\ L \cap lost = {}
      /\ \A s \in L : acked[s] = {} /\ s \notin Durable /\ ProducerOf[s] \in gone
      /\ F \subseteq inflight
  <2>1. gone \in SUBSET Pods /\ {} \in SUBSET Pods
    BY <1>1
  <2>2. order \in Orders(ReturnedBy(Leaving(gone, {}), gone))
    BY <1>2
  <2> HIDE DEF gone, IInv
  <2>3. Dropped(gone, {}, order)
    BY <2>1, <2>2, Dropping
  <2> QED BY <2>3 DEF Dropped
<1>5. pin \in SUBSET Parts
  BY DEF PinnedAfter, TypeOK
<1>6. /\ o \in [Parts -> live]
      /\ Hash => \A p \in pin : own[p] \in live => o[p] = own[p]
  <2>1. o \in Assignments(own, pin, live)
    BY <1>2
  <2> HIDE DEF own, pin, live
  <2>2. o \in [Parts -> live]
    BY <2>1 DEF Assignments, Balance, RoundRobin
  <2>3. ASSUME Hash, NEW p \in pin, own[p] \in live PROVE o[p] = own[p]
    BY <1>5, <2>1, <2>3 DEF Assignments, Balance
  <2> QED BY <2>2, <2>3
<1>7. \A t \in T : /\ ~Gated
                   /\ t[1] \in Parts /\ o[t[1]] = x /\ At(A, t) \in Union(A)
                   /\ At(A, t) \in Segments /\ PartOf[At(A, t)] = t[1]
  <2> TAKE t \in T
  <2>1. ~Gated /\ t \in Taken(A, {p \in Parts : o[p] = x}, <<x, i>>)
    OBVIOUS
  <2> HIDE DEF A
  <2> QED BY <2>1, <1>4, TakenProperties
<1>8. W = {At(A, t) : t \in T}
  OBVIOUS
<1>9. /\ queues' = [p \in Parts |-> Without(A[p], W)]
      /\ inflight' = F \cup W
      /\ delivered' = [s \in Segments |-> D[s] \cup (IF s \in W THEN {<<x, i>>} ELSE {})]
      /\ handed' = [s \in Segments |-> handed[s] \cup (IF arrives /\ s \in W THEN {<<x, i>>} ELSE {})]
      /\ owner' = IF Hash /\ ~Gated THEN o ELSE own
      /\ pinned' = IF Hash /\ ~Gated THEN pin \cup {t[1] : t \in T} ELSE pin
      /\ lost' = lost \cup L
      /\ released' = released \cup L
      /\ incarnation' = [y \in Pods |-> IF y \in gone THEN 0 ELSE incarnation[y]]
  BY <1>2
<1>10. own = [p \in Parts |-> IF owner[p] \in gone THEN None ELSE owner[p]] /\ pin = {p \in pinned : owner[p] \notin gone}
  BY DEF OwnerAfter, PinnedAfter
<1>11. live = {y \in Consumers : incarnation[y] # 0} \ gone
  BY DEF LiveConsumers, Registered
<1> HIDE DEF A, T, W, F, D, L, own, pin, live, procs, gone
<1>12. /\ W \subseteq Union(A) /\ W \subseteq Segments
       /\ \A s \in W : ~Gated /\ o[PartOf[s]] = x /\ PartOf[s] \in {t[1] : t \in T}
  BY <1>7, <1>8
<1>13. WellFormed(queues') /\ Union(queues') = Union(A) \ W
  BY <1>4, <1>9, RemoveAll
<1>14. /\ TypeOK
       /\ announced' = announced /\ acked' = acked /\ sealed' = sealed /\ forgotten' = forgotten
       /\ inflight' \subseteq Segments /\ queues' \in [Parts -> Seq(Segments)]
  BY <1>3, <1>4, <1>9, <1>12, <1>13 DEF WellFormed
<1>15. delivered' \in [Segments -> SUBSET Processes] /\ handed' \in [Segments -> SUBSET Processes]
  <2>1. handed \in [Segments -> SUBSET Processes]
    BY DEF TypeOK
  <2> QED BY <1>1, <1>4, <1>9, <2>1
<1>16. owner' \in [Parts -> Consumers \cup {None}] /\ pinned' \subseteq Parts
  <2>1. own \in [Parts -> Consumers \cup {None}] /\ pin \subseteq Parts
    BY <1>10 DEF TypeOK
  <2>2. o \in [Parts -> Consumers \cup {None}]
    BY <1>6, <1>11
  <2>3. {t[1] : t \in T} \subseteq Parts
    BY <1>7
  <2> QED BY <1>9, <2>1, <2>2, <2>3
<1>17. lost' \subseteq released' /\ released' \subseteq announced'
  BY <1>4, <1>9, <1>14 DEF TypeOK
<1>18. /\ incarnation' \in [Pods -> 0 .. MaxIncarnation] /\ incarnation'[x] = i
       /\ \A y \in Pods \ gone : incarnation'[y] = incarnation[y]
  BY <1>1, <1>9, BoundsAssumption DEF TypeOK
<1>19. TypeOK'
  <2>1. drained \in BOOLEAN /\ fresh \in [Pods -> BOOLEAN]
    BY DEF TypeOK
  <2>2. drained' \in BOOLEAN
    BY <1>3, <2>1, Zenon
  <2>3. fresh' \in [Pods -> BOOLEAN]
    <3>1. fresh' = [fresh EXCEPT ![x] = TRUE]
      BY <1>3, Zenon
    <3> QED BY <2>1, <3>1
  <2>4. faults' \in Nat
    <3>1. faults' \in {faults, faults + 1}
      BY <1>3, Zenon
    <3> QED BY <3>1 DEF TypeOK
  <2>5. started' = started /\ retired' = retired /\ retryAfter' = retryAfter
    BY <1>3, Zenon
  <2> QED BY <2>5, <1>14, <1>15, <1>16, <1>17, <1>18, <2>2, <2>3, <2>4 DEF TypeOK
<1>20. Queued' = Union(queues') /\ QueuesWellFormed'
  BY <1>13 DEF Queued, Union, QueuesWellFormed, WellFormed, Distinct
<1>21. Conserved'
  BY <1>4, <1>9, <1>12, <1>13, <1>14, <1>20 DEF Conserved
<1>22. ASSUME NEW s \in Segments
       PROVE  /\ s \in W => delivered'[s] = {<<x, i>>}
              /\ s \notin W => delivered'[s] = D[s]
  BY <1>4, <1>9, <1>12
<1>23. ASSUME NEW s \in Segments, NEW r \in D[s]
       PROVE  /\ r \in delivered[s] /\ r[1] \in Consumers /\ r[1] \in Pods \ gone
              /\ incarnation[r[1]] = r[2] /\ r[2] # 0
  <2>1. r \in delivered[s] /\ r[1] \notin gone /\ r \in Processes
    BY <1>4
  <2>2. r[1] \in Consumers /\ incarnation[r[1]] = r[2]
    BY <2>1 DEF Fenced
  <2> QED BY <2>1, <2>2, BoundsAssumption DEF Processes, Incarnations
<1>24. Fenced'
  <2> SUFFICES ASSUME NEW s \in Segments
               PROVE  /\ s \in inflight' <=> delivered'[s] # {}
                      /\ \A r \in delivered'[s] : r[1] \in Consumers /\ incarnation'[r[1]] = r[2]
                      /\ \A r, t \in delivered'[s] : r = t
    BY DEF Fenced
  <2>1. CASE s \in W
    <3>1. s \in inflight' /\ delivered'[s] = {<<x, i>>}
      BY <1>9, <1>22, <2>1
    <3>2. incarnation'[x] = i
      BY <1>18
    <3> QED BY <3>1, <3>2
  <2>2. CASE s \notin W
    <3>1. \A r, t \in D[s] : r = t
      BY <1>4 DEF Fenced
    <3> QED BY <1>4, <1>9, <1>18, <1>22, <1>23, <2>2, <3>1
  <2> QED BY <2>1, <2>2
<1>25. ASSUME NEW p \in pin PROVE /\ p \in Parts /\ p \in pinned' /\ owner'[p] = owner[p]
                                  /\ owner[p] \in Consumers /\ owner[p] \notin gone /\ incarnation[owner[p]] # 0
  <2>1. p \in pinned /\ owner[p] \notin gone /\ p \in Parts
    BY <1>5, <1>10
  <2>2. owner[p] \in Consumers /\ incarnation[owner[p]] # 0
    BY <2>1 DEF PinnedOwned, LiveConsumers, Registered
  <2>3. own[p] = owner[p] /\ owner[p] \in live
    BY <1>10, <1>11, <2>1, <2>2
  <2> QED BY <2>1, <2>2, <2>3, <1>6, <1>9
<1>26. Affinity'
  <2> SUFFICES ASSUME Hash, NEW s \in inflight', NEW r \in delivered'[s]
               PROVE  owner'[PartOf[s]] = r[1] /\ PartOf[s] \in pinned'
    BY DEF Affinity
  <2>1. s \in Segments
    BY <1>14
  <2>2. CASE s \in W
    <3>1. r = <<x, i>>
      BY <1>22, <2>1, <2>2
    <3> QED BY <1>9, <1>12, <2>2, <3>1
  <2>3. CASE s \notin W
    <3>1. r \in D[s] /\ s \in inflight
      BY <1>4, <1>9, <1>22, <2>1, <2>3
    <3>2. r \in delivered[s] /\ r[1] \notin gone
      BY <1>23, <2>1, <3>1
    <3>3. owner[PartOf[s]] = r[1] /\ PartOf[s] \in pinned
      BY <3>1, <3>2 DEF Affinity
    <3>4. PartOf[s] \in pin
      BY <1>10, <3>2, <3>3
    <3> QED BY <1>25, <3>3, <3>4
  <2> QED BY <2>2, <2>3
<1>27. PinnedOwned'
  <2> SUFFICES ASSUME NEW p \in pinned' PROVE owner'[p] \in Consumers /\ incarnation'[owner'[p]] # 0
    BY DEF PinnedOwned, LiveConsumers, Registered
  <2>1. CASE p \in pin
    BY <1>18, <1>25, <2>1 DEF Pods
  <2>2. CASE p \notin pin
    <3>1. Hash /\ ~Gated /\ p \in {t[1] : t \in T}
      BY <1>9, <2>2
    <3>2. owner'[p] = x
      BY <1>7, <1>9, <3>1
    <3> QED BY <1>1, <1>18, <3>2
  <2> QED BY <2>1, <2>2
<1>28. Settlement'
  BY <1>4, <1>9, <1>14 DEF Settlement, TypeOK
<1>29. LossIsReal'
  <2> SUFFICES ASSUME NEW s \in lost' PROVE acked[s] = {} /\ s \notin Durable /\ ProducerOf[s] \in Producers
    BY <1>14 DEF LossIsReal, HeldByPod
  <2>1. CASE s \in lost
    BY <2>1 DEF LossIsReal, HeldByPod
  <2>2. CASE s \in L
    <3>1. s \in Segments
      BY <1>4, <2>2 DEF TypeOK
    <3> QED BY <1>1, <1>4, <2>2, <3>1, SegmentsAssumption DEF Pods
  <2> QED BY <1>9, <2>1, <2>2
<1>30. DrainedIsFinal'
  <2> SUFFICES ASSUME drained' PROVE /\ sealed
                                     /\ Union(queues') \cup inflight' = {}
                                     /\ \A s \in announced : acked[s] # {} \/ s \in lost'
    BY <1>14, <1>20 DEF DrainedIsFinal
  <2>1. CASE drained
    <3>1. sealed /\ Queued \cup inflight = {} /\ \A s \in announced : acked[s] # {} \/ s \in lost
      BY <2>1 DEF DrainedIsFinal
    <3>2. announced \ released = {}
      BY <3>1 DEF Conserved
    <3>3. Union(A) \cup F = {}
      BY <1>4, <3>2
    <3>4. Union(queues') \cup inflight' = {}
      BY <1>9, <1>12, <1>13, <3>3
    <3> QED BY <1>9, <3>1, <3>4
  <2>2. CASE sealed /\ inflight' = {} /\ \A p \in Parts : queues'[p] = << >>
    <3>1. Union(queues') = {}
      BY <2>2 DEF Union, Elems
    <3>2. announced' \ released' = {}
      BY <1>20, <1>21, <2>2, <3>1 DEF Conserved
    <3> QED BY <1>14, <1>28, <2>2, <3>1, <3>2 DEF Settlement
  <2> QED BY <1>3, <2>1, <2>2
<1> QED BY <1>19, <1>21, <1>24, <1>26, <1>27, <1>28, <1>29, <1>30

-----------------------------------------------------------------------------
(* The theorems.                                                           *)

\* Every handler, in every order, preserves the inductive invariant.
LEMMA NextInv == IInv /\ [Next]_vars => IInv'
<1> SUFFICES ASSUME IInv, [Next]_vars PROVE IInv'
  OBVIOUS
<1>1. CASE \/ \E x \in Pods : Restart(x)
           \/ \E x \in Pods : Lapse(x)
           \/ \E x \in Consumers, i \in Incarnations, s \in Segments : RetryDue(x, i, s)
           \/ Seal
           \/ UNCHANGED vars
  BY <1>1, QuietSteps
<1>2. CASE \E x \in Pods, i \in Incarnations : Register(x, i)
  BY <1>2, RegisterInv
<1>3. CASE \/ \E x \in Pods, i \in Incarnations : RegisterRefused(x, i)
           \/ Metrics
           \/ \E x \in Producers, i \in Incarnations : Released(x, i)
  BY <1>3, ExpirySteps
<1>4. CASE \/ \E x \in Producers, i \in Incarnations :
                \E batch \in Batches(SegmentsHeldBy(x)) : Announce(x, i, batch)
           \/ \E batch \in Batches(SegmentsOfCoordinator) : Produce(batch)
  BY <1>4, ProducingSteps
<1>5. CASE \E x \in Consumers, i \in Incarnations, arrives \in BOOLEAN : Consume(x, i, arrives)
  BY <1>5, ConsumeInv
<1>6. CASE \E x \in Consumers, i \in Incarnations, s \in Segments : Ack(x, i, s)
  BY <1>6, AckInv
<1>7. CASE \E x \in Consumers, i \in Incarnations, s \in Segments, delay \in BOOLEAN : Nack(x, i, s, delay)
  BY <1>7, NackInv
<1> QED BY <1>1, <1>2, <1>3, <1>4, <1>5, <1>6, <1>7 DEF Next

\* The inductive invariant holds in every reachable state.
THEOREM Invariant == Spec => []IInv
<1>1. Init => IInv
  BY InitInv
<1>2. IInv /\ [Next]_vars => IInv'
  BY NextInv
<1> QED BY <1>1, <1>2, PTL DEF Spec

\* The coordinator's maps keep their types (TypeOK).
THEOREM TypeCorrect == Spec => []TypeOK
<1>1. IInv => TypeOK
  BY DEF IInv
<1> QED BY <1>1, Invariant, PTL

\* Nothing falls between the chairs: an announced segment is queued once, in
\* flight, or released, however registrations, expiries, deliveries,
\* acknowledgements and returns interleave (Conserved).
THEOREM Conservation == Spec => []Conserved
<1>1. IInv => Conserved
  BY DEF IInv
<1> QED BY <1>1, Invariant, PTL

\* A segment in flight is with one process, the one its pod has registered now
\* (Fenced): expireConsumer and Register leave no claim behind.
THEOREM Fencing == Spec => []Fenced
<1>1. IInv => Fenced
  BY DEF IInv
<1> QED BY <1>1, Invariant, PTL

\* What a Hash channel has in flight is with the pinned owner of its partition
\* (Affinity), and a pinned partition has a registered owner (PinnedOwned).
THEOREM KeyAffinity == Spec => [](Affinity /\ PinnedOwned)
<1>1. IInv => Affinity /\ PinnedOwned
  BY DEF IInv
<1> QED BY <1>1, Invariant, PTL

\* Bytes reported deletable are never needed again (DeletedUnneeded).
THEOREM DeletionSafe == Spec => []DeletedUnneeded
<1>1. IInv => DeletedUnneeded
  BY DEF IInv, Conserved, Settlement, DeletedUnneeded
<1> QED BY <1>1, Invariant, PTL

\* Loss is reported only for an unacknowledged, non-durable segment of a pod
\* (LossIsReal).
THEOREM LossSound == Spec => []LossIsReal
<1>1. IInv => LossIsReal
  BY DEF IInv
<1> QED BY <1>1, Invariant, PTL

\* An answer Drained is final: all that was announced is acknowledged or lost, and
\* nothing follows (DrainedIsFinal).
THEOREM DrainedSound == Spec => []DrainedIsFinal
<1>1. IInv => DrainedIsFinal
  BY DEF IInv
<1> QED BY <1>1, Invariant, PTL

-----------------------------------------------------------------------------
(* Action properties.                                                      *)

\* What a step may do to a pinned partition.
PinKept ==
  \A p \in pinned :
    incarnation'[owner[p]] = incarnation[owner[p]] => p \in pinned' /\ owner'[p] = owner[p]

\* Expiry and takeover keep the pins of the processes that stay.
LEMMA DropKeepsPins ==
  ASSUME IInv, NEW gone \in SUBSET Pods, NEW replaced \in SUBSET Pods, NEW order,
         Drop(gone, replaced, order),
         \A y \in gone \cup replaced : Registered(y) => incarnation'[y] # incarnation[y]
  PROVE  PinKept
<1> SUFFICES ASSUME NEW p \in pinned, incarnation'[owner[p]] = incarnation[owner[p]]
             PROVE  p \in pinned' /\ owner'[p] = owner[p]
  BY DEF PinKept
<1>1. p \in Parts /\ Registered(owner[p])
  BY DEF IInv, TypeOK, PinnedOwned, LiveConsumers
<1>2. owner[p] \notin gone \cup replaced
  BY <1>1
<1>3. pinned' = PinnedAfter(gone \cup replaced) /\ owner' = OwnerAfter(gone \cup replaced)
  BY DEF Drop
<1> QED BY <1>1, <1>2, <1>3 DEF PinnedAfter, OwnerAfter

\* Every step keeps the pins of the processes that stay.
LEMMA StepKeepsPins ==
  ASSUME IInv, Next
  PROVE  PinKept
<1>1. CASE UNCHANGED ownVars
  BY <1>1 DEF PinKept, ownVars
<1>2. ASSUME NEW x \in Pods, NEW i \in Incarnations, Register(x, i) PROVE PinKept
  <2> DEFINE gone == Silent({x})
             replaced == {y \in {x} : Registered(x) /\ incarnation[x] # i}
  <2>1. gone \in SUBSET Pods /\ replaced \in SUBSET Pods /\ x \notin gone
    BY DEF Silent
  <2>2. PICK order : Drop(gone, replaced, order)
    BY <1>2 DEF Register
  <2>3. incarnation' = [y \in Pods |-> IF y = x THEN i ELSE IF y \in gone THEN 0 ELSE incarnation[y]]
    BY <1>2 DEF Register
  <2>4. \A y \in gone \cup replaced : Registered(y) => incarnation'[y] # incarnation[y]
    BY <2>1, <2>3 DEF Registered
  <2> HIDE DEF gone, replaced
  <2> QED BY <2>1, <2>2, <2>4, DropKeepsPins
<1>3. ASSUME NEW gone \in SUBSET Pods, NEW order, Drop(gone, {}, order),
             incarnation' = [y \in Pods |-> IF y \in gone THEN 0 ELSE incarnation[y]]
      PROVE  PinKept
  <2>1. \A y \in gone \cup {} : Registered(y) => incarnation'[y] # incarnation[y]
    BY <1>3 DEF Registered
  <2>2. {} \in SUBSET Pods
    OBVIOUS
  <2> QED BY <1>3, <2>1, <2>2, DropKeepsPins
<1>4. ASSUME NEW x \in Pods, NEW i \in Incarnations, RegisterRefused(x, i) PROVE PinKept
  <2>1. Silent({x}) \in SUBSET Pods
    BY DEF Silent
  <2> QED BY <1>3, <1>4, <2>1 DEF RegisterRefused
<1>5. CASE Metrics \/ \E x \in Producers, i \in Incarnations : Released(x, i)
  <2>1. Silent({}) \in SUBSET Pods
    BY DEF Silent
  <2> QED BY <1>3, <1>5, <2>1 DEF Metrics, Released
<1>6. ASSUME NEW x \in Consumers, NEW i \in Incarnations, NEW arrives \in BOOLEAN, Consume(x, i, arrives)
      PROVE  PinKept
  <2> DEFINE gone == Silent({x})
             live == LiveConsumers \ gone
             pin == PinnedAfter(gone)
             own == OwnerAfter(gone)
  <2>1. PICK o \in Assignments(own, pin, live) :
          /\ owner' = IF Hash /\ ~Gated THEN o ELSE own
          /\ pinned' = pin \/ \E S : pinned' = pin \cup S
          /\ incarnation' = [y \in Pods |-> IF y \in gone THEN 0 ELSE incarnation[y]]
    BY <1>6 DEF Consume
  <2> SUFFICES ASSUME NEW p \in pinned, incarnation'[owner[p]] = incarnation[owner[p]]
               PROVE  p \in pinned' /\ owner'[p] = owner[p]
    BY DEF PinKept
  <2>2. p \in Parts /\ owner[p] \in Consumers /\ owner[p] \in Pods /\ incarnation[owner[p]] # 0
    BY DEF IInv, TypeOK, PinnedOwned, LiveConsumers, Registered, Pods
  <2>3. owner[p] \notin gone
    BY <2>1, <2>2
  <2>4. p \in pin /\ own[p] = owner[p] /\ own[p] \in live
    BY <2>2, <2>3 DEF PinnedAfter, OwnerAfter, LiveConsumers, Registered
  <2> HIDE DEF gone, live, pin, own
  <2>5. Hash => o[p] = own[p]
    BY <2>1, <2>2, <2>4 DEF Assignments, Balance
  <2> QED BY <2>1, <2>4, <2>5
<1>7. CASE \/ \E x \in Pods : Restart(x)
           \/ \E x \in Pods : Lapse(x)
           \/ \E x \in Producers, i \in Incarnations : \E batch \in Batches(SegmentsHeldBy(x)) : Announce(x, i, batch)
           \/ \E batch \in Batches(SegmentsOfCoordinator) : Produce(batch)
           \/ Seal
           \/ \E x \in Consumers, i \in Incarnations, s \in Segments : Ack(x, i, s)
           \/ \E x \in Consumers, i \in Incarnations, s \in Segments, delay \in BOOLEAN : Nack(x, i, s, delay)
           \/ \E x \in Consumers, i \in Incarnations, s \in Segments : RetryDue(x, i, s)
  BY <1>1, <1>7 DEF Restart, Lapse, Announce, Produce, Seal, Ack, Nack, RetryDue
<1> QED BY <1>2, <1>4, <1>5, <1>6, <1>7 DEF Next

\* A pinned partition moves only when its owner's process goes (PinnedStays).
THEOREM PinsHold == Spec => PinnedStays
<1>1. IInv /\ [Next]_vars => [PinKept]_vars
  BY StepKeepsPins
<1>2. Spec => [][PinKept]_vars
  BY <1>1, Invariant, PTL DEF Spec
<1>3. PinKept <=> \A p \in pinned :
         incarnation'[owner[p]] = incarnation[owner[p]] => p \in pinned' /\ owner'[p] = owner[p]
  BY DEF PinKept
<1> QED BY <1>2, <1>3, PTL DEF PinnedStays

\* What a step may do to what is settled.
SettledKept ==
  /\ released \subseteq released'
  /\ Queued' \cap released = {}
  /\ sealed => sealed' /\ announced' = announced

\* Indexing a batch without news announces nothing.
LEMMA NoNews ==
  ASSUME NEW batch \in Seq(Segments), Index(batch), Elems(batch) \ announced = {}
  PROVE  announced' = announced
<1>1. Elems(Without(batch, announced)) = Elems(batch) \ announced
  BY WithoutProperties
<1> QED BY <1>1 DEF Index

\* Released segments stay released and a sealed channel takes nothing in.
LEMMA StepKeepsSettled ==
  ASSUME IInv, Next
  PROVE  SettledKept
<1>1. IInv'
  BY NextInv
<1>2. SUFFICES /\ released \subseteq released'
               /\ sealed => sealed' /\ announced' = announced
  <2>1. Queued' \cap released' = {}
    BY <1>1 DEF IInv, Conserved
  <2> QED BY <2>1, <1>2 DEF SettledKept
<1>3. ASSUME NEW x \in Producers, NEW i \in Incarnations,
             NEW batch \in Batches(SegmentsHeldBy(x)), Announce(x, i, batch)
      PROVE  released' = released /\ (sealed => sealed' /\ announced' = announced)
  <2>1. SegmentsHeldBy(x) \in SUBSET Segments
    BY DEF SegmentsHeldBy
  <2>2. batch \in Seq(Segments)
    BY <2>1, BatchProperties
  <2>3. Index(batch) /\ released' = released /\ sealed' = sealed
    BY <1>3 DEF Announce, segVars
  <2>4. sealed => Elems(batch) \ announced = {}
    BY <1>3 DEF Announce
  <2> QED BY <2>2, <2>3, <2>4, NoNews
<1>4. CASE \/ \E x \in Pods, i \in Incarnations : Register(x, i) \/ RegisterRefused(x, i)
           \/ Metrics
           \/ \E x \in Producers, i \in Incarnations : Released(x, i)
  <2>1. \E gone, replaced, order : Drop(gone, replaced, order)
    BY <1>4 DEF Register, RegisterRefused, Metrics, Released
  <2>2. sealed' = sealed /\ announced' = announced
    BY <1>4 DEF Register, RegisterRefused, Metrics, Released
  <2>3. released \subseteq released'
    BY <2>1 DEF Drop
  <2> QED BY <2>2, <2>3
<1>5. CASE \E x \in Consumers, i \in Incarnations, arrives \in BOOLEAN : Consume(x, i, arrives)
  BY <1>5 DEF Consume
<1>6. CASE \/ \E x \in Pods : Restart(x)
           \/ \E x \in Pods : Lapse(x)
           \/ \E x \in Consumers, i \in Incarnations, s \in Segments : Ack(x, i, s)
           \/ \E x \in Consumers, i \in Incarnations, s \in Segments, delay \in BOOLEAN : Nack(x, i, s, delay)
           \/ \E x \in Consumers, i \in Incarnations, s \in Segments : RetryDue(x, i, s)
  <2>1. sealed' = sealed /\ announced' = announced
    BY <1>6 DEF Restart, Lapse, Ack, Nack, RetryDue, chanVars
  <2>2. released \subseteq released'
    BY <1>6 DEF Restart, Lapse, Ack, Nack, RetryDue, segVars
  <2> QED BY <2>1, <2>2
<1>7. CASE Seal \/ \E batch \in Batches(SegmentsOfCoordinator) : Produce(batch)
  BY <1>7 DEF Produce, Seal, segVars
<1> QED BY <1>3, <1>4, <1>5, <1>6, <1>7 DEF Next

\* What is released stays released and out of the queues, and a sealed channel
\* takes nothing in (SettledStays).
THEOREM SettledHolds == Spec => SettledStays
<1>1. IInv /\ [Next]_vars => [SettledKept]_vars
  BY StepKeepsSettled
<1>2. Spec => [][SettledKept]_vars
  BY <1>1, Invariant, PTL DEF Spec
<1>3. SettledKept <=> /\ released \subseteq released'
                      /\ Queued' \cap released = {}
                      /\ sealed => sealed' /\ announced' = announced
  BY DEF SettledKept
<1> QED BY <1>2, <1>3, PTL DEF SettledStays

=============================================================================
