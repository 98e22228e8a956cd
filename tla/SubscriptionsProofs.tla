------------------------- MODULE SubscriptionsProofs -------------------------
(***************************************************************************)
(* Proofs about Subscriptions, for any partitions, readers, identifiers and *)
(* bounds, and for subscriptions of an operation as well as external ones.  *)
(***************************************************************************)
EXTENDS Subscriptions, FiniteSetTheorems, SequenceTheorems, TLAPS

-----------------------------------------------------------------------------
(* The inductive invariant.                                                *)

Deliveries == [offset : Nat, id : AppendIDs, owner : Readers]
Received   == Partitions \X Nat \X AppendIDs

\* The parts of TypeOK: pods and counters, the channel, the subscription and its readers.
PodTypes ==
  /\ bound \in BOOLEAN /\ sealed \in BOOLEAN /\ subscribed \in BOOLEAN
  /\ session \in [Readers -> {"none", "current", "old"}] /\ fresh \in [Readers -> BOOLEAN]
  /\ replays \in 0 .. MaxReplays /\ faults \in 0 .. MaxFaults

ChannelTypes ==
  /\ history \in [Partitions -> Seq(AppendIDs)] /\ base \in [Partitions -> Nat]
  /\ \A p \in Partitions : End(p) <= MaxAppends
  /\ answered \subseteq AppendIDs \X Partitions \X Nat

ReaderTypes ==
  /\ position \in [Partitions -> Nat]
  /\ inflight \in [Partitions -> Deliveries \cup {Free}]
  /\ hand \in [Readers -> SUBSET Received]
  /\ read \in [Partitions -> SUBSET Nat] /\ skipped \in [Partitions -> SUBSET Nat]

\* The cursor of a partition: it has not passed the end, everything before it was read or
\* jumped over, and a delivery is of the entry it stands at.
CursorOf(p) ==
  /\ position[p] <= End(p)
  /\ 0 .. position[p] - 1 \subseteq read[p] \cup skipped[p]
  /\ inflight[p] # Free => subscribed /\ inflight[p].offset = position[p] /\ position[p] < End(p)

\* An answer names an offset that has been given out.
AnswersGiven == \A a \in answered : a[3] < End(a[2])

IInv ==
  /\ PodTypes /\ ChannelTypes /\ ReaderTypes
  /\ \A p \in Partitions : CursorOf(p)
  /\ OffsetsAreStable /\ AnswersGiven

-----------------------------------------------------------------------------
(* Operators.                                                              *)

\* No delivery is mistaken for Free.
LEMMA FreeIsNone == \A d \in Deliveries : d # Free
<1>1. ASSUME NEW d \in Deliveries, d = Free PROVE FALSE
  <2>1. d.offset \in Nat
    BY DEF Deliveries
  <2>2. d.offset = -1
    BY <1>1 DEF Free
  <2> QED BY <2>1, <2>2
<1> QED BY <1>1

\* The places of retained entries.
LEMMA PlacesAre ==
  /\ \A p \in Partitions : \A o \in Retained(p) : <<p, o>> \in Places
  /\ \A qo \in Places : qo[1] \in Partitions /\ qo[2] \in Retained(qo[1]) /\ qo = <<qo[1], qo[2]>>
  BY DEF Places

\* Returned leaves each partition's delivery or takes it away.
LEMMA ReturnedIs ==
  ASSUME inflight \in [Partitions -> Deliveries \cup {Free}], NEW gone
  PROVE  /\ Returned(gone) \in [Partitions -> Deliveries \cup {Free}]
         /\ \A p \in Partitions : Returned(gone)[p] \in {inflight[p], Free}
  BY DEF Returned

\* Only finitely many entries have been appended.
LEMMA AppendedFinite ==
  ASSUME history \in [Partitions -> Seq(AppendIDs)], base \in [Partitions -> Nat]
  PROVE  IsFiniteSet(Appended)
<1> DEFINE F(q) == {<<q, o>> : o \in 0 .. End(q) - 1}
<1>0. \A q \in Partitions : End(q) \in Nat
  BY LenProperties DEF End
<1>1. ASSUME NEW q \in Partitions PROVE IsFiniteSet(F(q))
  <2>1. IsFiniteSet(0 .. End(q) - 1)
    BY <1>0, FS_Interval
  <2> DEFINE g == [o \in 0 .. End(q) - 1 |-> <<q, o>>]
  <2>2. g \in Surjection(0 .. End(q) - 1, F(q))
    BY DEF Surjection
  <2>3. IsFiniteSet(F(q))
    BY <2>1, <2>2, FS_Surjection
  <2> QED BY <2>3
<1> QED
  <2>1. IsFiniteSet({F(q) : q \in Partitions})
    <3>1. IsFiniteSet(Partitions)
      BY SubscriptionsAssumption
    <3> DEFINE h == [q \in Partitions |-> F(q)]
    <3>2. h \in Surjection(Partitions, {F(q) : q \in Partitions})
      BY DEF Surjection
    <3> QED BY <3>1, <3>2, FS_Surjection
  <2>2. IsFiniteSet(UNION {F(q) : q \in Partitions})
    BY <1>1, <2>1, FS_UNION
  <2> QED BY <2>2 DEF Appended

\* Each partition contributes its entries to the bound on appends.
LEMMA EndBelowAppended ==
  ASSUME history \in [Partitions -> Seq(AppendIDs)], base \in [Partitions -> Nat],
         NEW p \in Partitions
  PROVE  End(p) <= Cardinality(Appended)
<1> DEFINE F(q) == {<<q, o>> : o \in 0 .. End(q) - 1}
           f == [o \in 0 .. End(p) - 1 |-> <<p, o>>]
<1>0. \A q \in Partitions : End(q) \in Nat
  BY LenProperties DEF End
<1>2. IsFiniteSet(Appended)
  BY AppendedFinite
<1>3. IsFiniteSet(F(p)) /\ Cardinality(F(p)) = End(p)
  <2>1. IsFiniteSet(0 .. End(p) - 1) /\ Cardinality(0 .. End(p) - 1) = End(p)
    <3>1. End(p) \in Nat /\ 0 \in Int /\ End(p) - 1 \in Int
      BY <1>0
    <3>2. Cardinality(0 .. End(p) - 1) = IF 0 > End(p) - 1 THEN 0 ELSE (End(p) - 1) - 0 + 1
      BY <3>1, FS_Interval
    <3> QED BY <3>1, <3>2, FS_Interval
  <2>2. f \in Injection(0 .. End(p) - 1, F(p))
    BY DEF Injection, IsInjective
  <2>3. f \in Surjection(0 .. End(p) - 1, F(p))
    BY DEF Surjection
  <2>4. ExistsBijection(0 .. End(p) - 1, F(p))
    BY <2>2, <2>3 DEF ExistsBijection, Bijection
  <2> QED BY <2>1, <2>4, FS_Bijection
<1>4. F(p) \subseteq Appended
  BY DEF Appended
<1>5. Cardinality(F(p)) <= Cardinality(Appended)
  BY <1>2, <1>4, FS_Subset
<1> QED BY <1>3, <1>5

-----------------------------------------------------------------------------
(* The invariant and its parts.                                            *)

\* Offsets are natural numbers.
LEMMA EndIsNat == ASSUME ChannelTypes, NEW p \in Partitions PROVE End(p) \in Nat /\ base[p] <= End(p)
  BY LenProperties DEF ChannelTypes, End

\* What the runs check follows from the invariant.
LEMMA InvImplies == IInv => TypeOK /\ NothingPassedOver
<1> SUFFICES ASSUME IInv PROVE TypeOK /\ NothingPassedOver
  OBVIOUS
<1> USE DEF IInv
<1>1. \A p \in Partitions : End(p) \in Nat /\ base[p] <= End(p)
  BY EndIsNat
<1>2. base \in [Partitions -> 0 .. MaxAppends]
  BY <1>1, SubscriptionsAssumption DEF ChannelTypes
<1>3. \A p \in Partitions : /\ End(p) <= MaxAppends /\ position[p] \in 0 .. End(p)
                            /\ inflight[p] = Free \/ inflight[p].owner \in Readers
  BY <1>1 DEF ChannelTypes, ReaderTypes, CursorOf, Deliveries
<1>4. \A x \in Readers : \A w \in hand[x] : w[1] \in Partitions /\ w[2] \in Nat /\ w[3] \in AppendIDs
  BY DEF ReaderTypes, Received
<1>5. {read[p] : p \in Partitions} \cup {skipped[p] : p \in Partitions} \subseteq SUBSET Nat
  BY DEF ReaderTypes
<1>6. TypeOK
  BY <1>2, <1>3, <1>4, <1>5 DEF TypeOK, PodTypes, ChannelTypes
<1>7. NothingPassedOver
  BY DEF NothingPassedOver, CursorOf
<1> QED BY <1>6, <1>7

\* The initial states have the invariant.
LEMMA InitInv == Init => IInv
<1> SUFFICES ASSUME Init PROVE IInv
  OBVIOUS
<1> USE SubscriptionsAssumption DEF Init
<1>1. \A p \in Partitions : history[p] = << >> /\ base[p] = 0 /\ End(p) = 0 /\ Retained(p) = {}
  BY DEF End, Retained
<1>2. PodTypes
  <2>1. replays \in 0 .. MaxReplays /\ faults \in 0 .. MaxFaults
    OBVIOUS
  <2>2. bound \in BOOLEAN /\ sealed \in BOOLEAN /\ subscribed \in BOOLEAN
    BY Zenon
  <2> QED BY <2>1, <2>2 DEF PodTypes
<1>3. ChannelTypes
  BY <1>1 DEF ChannelTypes
<1>4. ReaderTypes
  BY DEF ReaderTypes
<1>5. \A p \in Partitions : CursorOf(p)
  BY <1>1 DEF CursorOf
<1>6. OffsetsAreStable /\ AnswersGiven
  BY <1>1 DEF OffsetsAreStable, AnswersGiven
<1> QED BY <1>2, <1>3, <1>4, <1>5, <1>6 DEF IInv

\* Calls about the subscription leave the history as it is.
LEMMA HistoryKept ==
  ASSUME IInv, UNCHANGED <<history, base, answered>>
  PROVE  /\ ChannelTypes' /\ OffsetsAreStable' /\ AnswersGiven'
         /\ \A p \in Partitions : End(p)' = End(p)
<1>1. \A p \in Partitions : End(p)' = End(p) /\ Retained(p)' = Retained(p)
  BY DEF End, Retained
<1>2. ChannelTypes'
  BY <1>1 DEF IInv, ChannelTypes
<1>3. OffsetsAreStable'
  BY DEF IInv, OffsetsAreStable, Retained, End, Entry
<1>4. AnswersGiven'
  BY DEF IInv, AnswersGiven, End
<1> QED BY <1>1, <1>2, <1>3, <1>4

\* Calls that only return deliveries keep the cursors.
LEMMA CursorsKept ==
  ASSUME IInv, UNCHANGED <<history, base, answered, position, read, skipped, subscribed>>,
         inflight' \in [Partitions -> Deliveries \cup {Free}],
         \A p \in Partitions : inflight'[p] \in {inflight[p], Free}
  PROVE  \A p \in Partitions : CursorOf(p)'
  BY HistoryKept DEF IInv, CursorOf

-----------------------------------------------------------------------------
(* Steps.                                                                  *)

\* AppendSession keeps the invariant: the entry is new, at the end of its partition.
LEMMA AppendStep ==
  ASSUME IInv, NEW id \in AppendIDs, NEW p \in Partitions, AppendSession(id, p)
  PROVE  IInv'
<1> DEFINE prior == {qo \in Places : Entry(qo[1], qo[2]) = id}
<1> USE DEF IInv
<1>0. \A q \in Partitions : End(q) \in Nat /\ base[q] \in Nat /\ base[q] <= End(q)
  BY EndIsNat DEF ChannelTypes
<1>1. PodTypes'
  BY DEF AppendSession, PodTypes, podVars, subVars
<1>2. ReaderTypes'
  BY DEF AppendSession, ReaderTypes, podVars, subVars
<1>3. CASE prior # {}
  <2>1. /\ answered' = answered \cup {<<id, p, qo[2]>> : qo \in prior}
        /\ UNCHANGED <<history, base>>
        /\ \A qo \in prior : qo[1] = p
    BY <1>3 DEF AppendSession
  <2>2. \A q \in Partitions : End(q)' = End(q) /\ Retained(q)' = Retained(q)
    BY <2>1 DEF End, Retained
  <2>3. \A a \in answered' : a \in answered \/ (a[1] = id /\ a[2] = p /\ a[3] \in Retained(p) /\ Entry(p, a[3]) = id
                                               /\ a \in AppendIDs \X Partitions \X Nat)
    <3>1. \A qo \in prior : qo[2] \in Retained(p) /\ Entry(p, qo[2]) = id /\ qo[2] \in Nat
      BY <2>1, <1>0, PlacesAre DEF Retained
    <3> QED BY <2>1, <3>1
  <2>4. \A q \in Partitions, o \in Nat : Entry(q, o)' = Entry(q, o)
    BY <2>1 DEF Entry
  <2>5. ChannelTypes'
    BY <2>1, <2>2, <2>3 DEF ChannelTypes
  <2>6. \A q \in Partitions : CursorOf(q)'
    BY <2>2 DEF AppendSession, CursorOf, subVars
  <2>7. AnswersGiven'
    <3>1. \A o \in Retained(p) : o < End(p)
      BY <1>0 DEF Retained
    <3> QED BY <2>2, <2>3, <3>1 DEF AnswersGiven, ChannelTypes
  <2>8. OffsetsAreStable'
    <3> DEFINE Place(a) == a[3] \in Retained(a[2]) => Entry(a[2], a[3]) = a[1]
    <3>1. \A a \in answered' : a \in AppendIDs \X Partitions \X Nat
      BY <2>5 DEF ChannelTypes
    <3>2. \A a \in answered' : a[3] \in Retained(a[2])' => Entry(a[2], a[3])' = a[1]
      BY <2>2, <2>3, <2>4, <3>1 DEF OffsetsAreStable
    <3>3. \A a, b \in answered' : a[2] = b[2] /\ a[3] = b[3] => a[1] = b[1]
      <4>1. ASSUME NEW a \in answered', NEW b \in answered', a[2] = b[2], a[3] = b[3]
            PROVE  a[1] = b[1]
        <5>1. CASE a \in answered /\ b \in answered
          BY <4>1, <5>1 DEF OffsetsAreStable
        <5>2. CASE a \in answered /\ b \notin answered
          <6>1. b[1] = id /\ b[2] = p /\ b[3] \in Retained(p) /\ Entry(p, b[3]) = id
            BY <2>3, <5>2
          <6>2. a[3] \in Retained(a[2]) => Entry(a[2], a[3]) = a[1]
            BY <5>2 DEF OffsetsAreStable
          <6> QED BY <4>1, <6>1, <6>2
        <5>3. CASE a \notin answered /\ b \in answered
          <6>1. a[1] = id /\ a[2] = p /\ a[3] \in Retained(p) /\ Entry(p, a[3]) = id
            BY <2>3, <5>3
          <6>2. b[3] \in Retained(b[2]) => Entry(b[2], b[3]) = b[1]
            BY <5>3 DEF OffsetsAreStable
          <6> QED BY <4>1, <6>1, <6>2
        <5>4. CASE a \notin answered /\ b \notin answered
          BY <2>3, <5>4
        <5> QED BY <5>1, <5>2, <5>3, <5>4
      <4> QED BY <4>1
    <3>4. \A q, r \in Partitions : \A i \in Retained(q)', j \in Retained(r)' :
            Entry(q, i)' = Entry(r, j)' => q = r /\ i = j
      BY <2>1, <2>2 DEF OffsetsAreStable, Entry
    <3> QED BY <3>2, <3>3, <3>4 DEF OffsetsAreStable
  <2> QED BY <1>1, <1>2, <2>5, <2>6, <2>7, <2>8
<1>4. CASE prior = {}
  <2>1. /\ answered' = answered \cup {<<id, p, End(p)>>}
        /\ history' = [history EXCEPT ![p] = Append(@, id)]
        /\ UNCHANGED base
        /\ Cardinality(Appended) < MaxAppends
    BY <1>4 DEF AppendSession, OffsetOf, End
  <2>2. /\ history'[p] \in Seq(AppendIDs) /\ Len(history'[p]) = Len(history[p]) + 1
        /\ \A i \in 1 .. Len(history[p]) : history'[p][i] = history[p][i]
        /\ history'[p][Len(history[p]) + 1] = id
        /\ \A q \in Partitions \ {p} : history'[q] = history[q]
        /\ Len(history[p]) \in Nat
    BY <2>1, LenProperties, AppendProperties DEF ChannelTypes
  <2>3. /\ End(p)' = End(p) + 1 /\ \A q \in Partitions \ {p} : End(q)' = End(q)
        /\ Retained(p)' = Retained(p) \cup {End(p)}
        /\ \A q \in Partitions \ {p} : Retained(q)' = Retained(q)
    <3>1. End(p)' = End(p) + 1 /\ \A q \in Partitions \ {p} : End(q)' = End(q)
      <4>1. End(p)' = base[p] + (Len(history[p]) + 1)
        BY <2>1, <2>2 DEF End
      <4>2. base[p] + (Len(history[p]) + 1) = (base[p] + Len(history[p])) + 1
        BY <2>2, <1>0
      <4>3. \A q \in Partitions \ {p} : End(q)' = End(q)
        BY <2>1, <2>2 DEF End
      <4> QED BY <4>1, <4>2, <4>3 DEF End
    <3>2. \A q \in Partitions \ {p} : Retained(q)' = Retained(q)
      BY <2>1, <3>1 DEF Retained
    <3>3. Retained(p)' = base[p] .. End(p)
      BY <2>1, <3>1, <1>0 DEF Retained
    <3>4. base[p] .. End(p) = (base[p] .. End(p) - 1) \cup {End(p)}
      BY <1>0
    <3> QED BY <3>1, <3>2, <3>3, <3>4 DEF Retained
  <2>4. /\ \A o : o = End(p) => Entry(p, o)' = id
        /\ \A q \in Partitions : \A o \in Retained(q) : Entry(q, o)' = Entry(q, o)
    <3>1. ASSUME NEW o, o = End(p) PROVE Entry(p, o)' = id
      <4>1. o - base[p] + 1 = Len(history[p]) + 1
        BY <1>0, <2>2, <3>1 DEF End
      <4> QED BY <2>1, <2>2, <4>1 DEF Entry
    <3>2. ASSUME NEW q \in Partitions, NEW o \in Retained(q) PROVE Entry(q, o)' = Entry(q, o)
      <4>1. CASE q = p
        <5>1. o - base[p] + 1 \in 1 .. Len(history[p])
          BY <1>0, <2>2, <4>1 DEF Retained, End
        <5> QED BY <2>1, <2>2, <4>1, <5>1 DEF Entry
      <4>2. CASE q # p
        BY <2>1, <2>2, <4>2 DEF Entry
      <4> QED BY <4>1, <4>2
    <3> QED BY <3>1, <3>2
  <2>5. ChannelTypes'
    <3>1. history' \in [Partitions -> Seq(AppendIDs)]
      BY <2>1, <2>2 DEF ChannelTypes
    <3>2. \A q \in Partitions : End(q)' <= MaxAppends
      <4>1. End(p) < MaxAppends
        <5>1. End(p) <= Cardinality(Appended)
          BY EndBelowAppended DEF ChannelTypes
        <5>2. Cardinality(Appended) \in Nat
          BY AppendedFinite, FS_CardinalityType DEF ChannelTypes
        <5> QED BY <1>0, <2>1, <5>1, <5>2, SubscriptionsAssumption
      <4> QED BY <1>0, <2>3, <4>1, SubscriptionsAssumption DEF ChannelTypes
    <3>3. answered' \subseteq AppendIDs \X Partitions \X Nat
      BY <1>0, <2>1 DEF ChannelTypes
    <3> QED BY <2>1, <3>1, <3>2, <3>3 DEF ChannelTypes
  <2>6. \A q \in Partitions : CursorOf(q)'
    <3>1. UNCHANGED <<subscribed, position, inflight, read, skipped>>
      BY DEF AppendSession, subVars
    <3>2. \A q \in Partitions : position[q] \in Nat /\ End(q)' \in Nat /\ End(q) <= End(q)'
      BY <1>0, <2>3 DEF ReaderTypes
    <3> QED BY <1>0, <3>1, <3>2 DEF CursorOf
  <2>7. AnswersGiven'
    BY <1>0, <2>1, <2>3 DEF AnswersGiven, ChannelTypes
  <2>8. OffsetsAreStable'
    <3>1. \A a \in answered : /\ a[2] \in Partitions /\ a[3] \in Nat
                              /\ a[2] = p => a[3] # End(p)
      BY <1>0 DEF AnswersGiven, ChannelTypes
    <3>2. ASSUME NEW a \in answered' PROVE a[3] \in Retained(a[2])' => Entry(a[2], a[3])' = a[1]
      <4>1. CASE a \in answered
        <5>1. a[3] \in Retained(a[2])' => a[3] \in Retained(a[2])
          BY <2>3, <3>1, <4>1
        <5> QED BY <2>4, <3>1, <4>1, <5>1 DEF OffsetsAreStable
      <4>2. CASE a = <<id, p, End(p)>>
        BY <2>4, <4>2
      <4> QED BY <2>1, <4>1, <4>2
    <3>3. \A a, b \in answered' : a[2] = b[2] /\ a[3] = b[3] => a[1] = b[1]
      BY <2>1, <3>1 DEF OffsetsAreStable
    <3>4. \A q \in Partitions : \A i \in Retained(q) : Entry(q, i) # id
      BY <1>4, PlacesAre
    <3>5. ASSUME NEW q \in Partitions, NEW r \in Partitions, NEW i \in Retained(q)', NEW j \in Retained(r)',
                 Entry(q, i)' = Entry(r, j)'
          PROVE  q = r /\ i = j
      <4>1. i \in Retained(q) \/ (q = p /\ i = End(p))
        BY <2>3
      <4>2. j \in Retained(r) \/ (r = p /\ j = End(p))
        BY <2>3
      <4>3. i \in Retained(q) => Entry(q, i)' = Entry(q, i) /\ Entry(q, i)' # id
        BY <2>4, <3>4
      <4>4. j \in Retained(r) => Entry(r, j)' = Entry(r, j) /\ Entry(r, j)' # id
        BY <2>4, <3>4
      <4>5. (q = p /\ i = End(p) => Entry(q, i)' = id) /\ (r = p /\ j = End(p) => Entry(r, j)' = id)
        BY <2>4
      <4>6. CASE i \in Retained(q) /\ j \in Retained(r)
        <5>1. Entry(q, i) = Entry(r, j)
          BY <3>5, <4>3, <4>4, <4>6
        <5>2. \A a, b \in Partitions : \A k \in Retained(a), l \in Retained(b) :
                Entry(a, k) = Entry(b, l) => a = b /\ k = l
          BY DEF OffsetsAreStable
        <5> QED BY <4>6, <5>1, <5>2
      <4> QED BY <3>5, <4>1, <4>2, <4>3, <4>4, <4>5, <4>6
    <3> QED BY <3>2, <3>3, <3>5 DEF OffsetsAreStable
  <2> QED BY <1>1, <1>2, <2>5, <2>6, <2>7, <2>8
<1> QED BY <1>3, <1>4

\* DeleteRetainedBefore keeps the invariant: entries keep their offsets.
LEMMA DeleteStep ==
  ASSUME IInv, NEW p \in Partitions, NEW offset, DeleteRetainedBefore(p, offset)
  PROVE  IInv'
<1> USE DEF IInv
<1>0. \A q \in Partitions : End(q) \in Nat /\ base[q] \in Nat /\ base[q] <= End(q)
  BY EndIsNat DEF ChannelTypes
<1>1. /\ offset \in Nat /\ base[p] < offset /\ offset <= End(p)
      /\ history' = [history EXCEPT ![p] = SubSeq(@, offset - base[p] + 1, Len(@))]
      /\ base' = [base EXCEPT ![p] = offset]
      /\ UNCHANGED <<sealed, answered, subscribed, position, inflight, read, skipped>>
  BY <1>0 DEF DeleteRetainedBefore, subVars, ghosts
<1>2. Len(history[p]) \in Nat /\ End(p) = base[p] + Len(history[p])
      /\ \A i \in 1 .. Len(history[p]) : history[p][i] \in AppendIDs
  BY LenProperties DEF ChannelTypes, End
<1>3. /\ history'[p] \in Seq(AppendIDs)
      /\ Len(history'[p]) = End(p) - offset
      /\ \A i \in 1 .. End(p) - offset : history'[p][i] = history[p][offset - base[p] + i]
  <2> DEFINE m == offset - base[p] + 1  n == Len(history[p])
  <2>1. m \in Int /\ n \in Int /\ \A i \in m .. n : history[p][i] \in AppendIDs
    BY <1>0, <1>1, <1>2
  <2>2. history'[p] = SubSeq(history[p], m, n)
    BY <1>1 DEF ChannelTypes
  <2> HIDE DEF m, n
  <2>3. /\ SubSeq(history[p], m, n) \in Seq(AppendIDs)
        /\ Len(SubSeq(history[p], m, n)) = IF m <= n THEN n - m + 1 ELSE 0
        /\ \A i \in 1 .. n - m + 1 : SubSeq(history[p], m, n)[i] = history[p][m + i - 1]
    BY <2>1, SubSeqProperties
  <2>4. n - m + 1 = End(p) - offset /\ (m > n => End(p) - offset = 0)
    BY <1>0, <1>1, <1>2 DEF m, n
  <2>5. \A i \in 1 .. End(p) - offset : m + i - 1 = offset - base[p] + i
    BY <1>0, <1>1 DEF m
  <2>6. Len(history'[p]) = End(p) - offset
    BY <2>1, <2>2, <2>3, <2>4
  <2> QED BY <2>2, <2>3, <2>4, <2>5, <2>6
<1>4. \A q \in Partitions \ {p} : history'[q] = history[q] /\ base'[q] = base[q]
  BY <1>1 DEF ChannelTypes
<1>5. base'[p] = offset
  BY <1>1 DEF ChannelTypes
<1>6. \A q \in Partitions : End(q)' = End(q)
  <2>1. End(p)' = offset + (End(p) - offset)
    BY <1>3, <1>5 DEF End
  <2>2. End(p)' = End(p)
    BY <2>1, <1>0, <1>1
  <2>3. \A q \in Partitions \ {p} : End(q)' = End(q)
    BY <1>4 DEF End
  <2> QED BY <2>2, <2>3
<1>7. \A q \in Partitions : \A o \in Retained(q)' : o \in Retained(q) /\ Entry(q, o)' = Entry(q, o)
  <2>1. ASSUME NEW o \in Retained(p)' PROVE o \in Retained(p) /\ Entry(p, o)' = Entry(p, o)
    <3>1. o \in offset .. End(p) - 1
      BY <1>5, <1>6 DEF Retained
    <3>2. o \in Retained(p)
      BY <1>0, <1>1, <3>1 DEF Retained
    <3>3. o - offset + 1 \in 1 .. End(p) - offset /\ offset - base[p] + (o - offset + 1) = o - base[p] + 1
      BY <1>0, <1>1, <3>1
    <3>4. Entry(p, o)' = history'[p][o - offset + 1]
      BY <1>5 DEF Entry
    <3> QED BY <1>3, <3>2, <3>3, <3>4 DEF Entry
  <2>2. ASSUME NEW q \in Partitions \ {p}, NEW o \in Retained(q)' PROVE o \in Retained(q) /\ Entry(q, o)' = Entry(q, o)
    BY <1>4, <1>6 DEF Retained, Entry
  <2> QED BY <2>1, <2>2
<1>8. PodTypes'
  BY DEF DeleteRetainedBefore, PodTypes, podVars, subVars
<1>9. ReaderTypes'
  BY DEF DeleteRetainedBefore, ReaderTypes, podVars, subVars, ghosts
<1>10. ChannelTypes'
  <2>1. history' \in [Partitions -> Seq(AppendIDs)]
    BY <1>1, <1>3 DEF ChannelTypes
  <2>2. base' \in [Partitions -> Nat]
    BY <1>1 DEF ChannelTypes
  <2> QED BY <1>1, <1>6, <2>1, <2>2 DEF ChannelTypes
<1>11. \A q \in Partitions : CursorOf(q)'
  BY <1>1, <1>6 DEF CursorOf
<1>12. AnswersGiven'
  BY <1>1, <1>6 DEF AnswersGiven, ChannelTypes
<1>13. OffsetsAreStable'
  <2>1. \A a \in answered : a[2] \in Partitions
    BY DEF ChannelTypes
  <2>2. \A a \in answered' : a[3] \in Retained(a[2])' => Entry(a[2], a[3])' = a[1]
    BY <1>1, <1>7, <2>1 DEF OffsetsAreStable
  <2>3. \A a, b \in answered' : a[2] = b[2] /\ a[3] = b[3] => a[1] = b[1]
    BY <1>1 DEF OffsetsAreStable
  <2>4. ASSUME NEW q \in Partitions, NEW r \in Partitions, NEW i \in Retained(q)', NEW j \in Retained(r)',
               Entry(q, i)' = Entry(r, j)'
        PROVE  q = r /\ i = j
    <3>1. i \in Retained(q) /\ j \in Retained(r) /\ Entry(q, i) = Entry(r, j)
      BY <1>7, <2>4
    <3> QED BY <3>1 DEF OffsetsAreStable
  <2> QED BY <2>2, <2>3, <2>4 DEF OffsetsAreStable
<1> QED BY <1>8, <1>9, <1>10, <1>11, <1>12, <1>13

\* Register and ExpireAll keep the invariant: deliveries are returned, cursors stay.
LEMMA ReturnStep ==
  ASSUME IInv, NEW gone, inflight' = Returned(gone),
         session' \in [Readers -> {"none", "current", "old"}], fresh' \in [Readers -> BOOLEAN],
         UNCHANGED <<bound, chanVars, subscribed, position, hand, ghosts, replays, faults>>
  PROVE  IInv'
<1> USE DEF IInv
<1>1. /\ inflight' \in [Partitions -> Deliveries \cup {Free}]
      /\ \A p \in Partitions : inflight'[p] \in {inflight[p], Free}
  BY ReturnedIs DEF ReaderTypes
<1>2. UNCHANGED <<bound, history, base, sealed, answered, position, read, skipped, subscribed, hand, replays, faults>>
  BY DEF chanVars, ghosts
<1>3. PodTypes'
  BY <1>2 DEF PodTypes
<1>4. ReaderTypes'
  BY <1>1, <1>2 DEF ReaderTypes
<1>5. ChannelTypes' /\ OffsetsAreStable' /\ AnswersGiven'
  BY <1>2, HistoryKept
<1>6. \A p \in Partitions : CursorOf(p)'
  BY <1>1, <1>2, CursorsKept
<1> QED BY <1>3, <1>4, <1>5, <1>6

\* ConsumeSubscription keeps the invariant: what it hands out is the entry at the position.
LEMMA ConsumeStep ==
  ASSUME IInv, NEW x \in Readers, NEW lost \in BOOLEAN, Consume(x, lost)
  PROVE  IInv'
<1> USE DEF IInv
<1> DEFINE given == {p \in Reached(x) : inflight[p] = Free /\ position[p] < End(p)}
           work  == {<<p, position[p], Entry(p, position[p])>> : p \in given}
                    \cup {<<p, inflight[p].offset, inflight[p].id>> : p \in Again(x)}
<1>0. \A q \in Partitions : End(q) \in Nat /\ base[q] \in Nat /\ base[q] <= End(q) /\ position[q] \in Nat
  BY EndIsNat DEF ChannelTypes, ReaderTypes
<1>1. /\ subscribed
      /\ inflight' = [p \in Partitions |->
           IF p \in given THEN [offset |-> position[p], id |-> Entry(p, position[p]), owner |-> x]
           ELSE inflight[p]]
      /\ hand' = IF lost \/ Behind(x) # {} THEN hand ELSE [hand EXCEPT ![x] = @ \cup work]
      /\ UNCHANGED <<bound, chanVars, subscribed, position, podVars, ghosts, replays>>
  BY DEF Consume
<1>2. Assigned(x) \subseteq Partitions /\ Reached(x) \subseteq Assigned(x) \ Behind(x)
  <2>1. Assigned(x) \subseteq Partitions
    BY DEF Assigned
  <2>2. ASSUME NEW p \in Reached(x) PROVE p \in Assigned(x) /\ p \notin Behind(x)
    <3>1. p \in Assigned(x) /\ \A q \in Behind(x) : p < q
      BY DEF Reached
    <3>2. p \in Nat
      BY <2>1, <3>1, SubscriptionsAssumption
    <3> QED BY <3>1, <3>2
  <2> QED BY <2>1, <2>2
<1>3. ASSUME NEW p \in given PROVE p \in Partitions /\ Entry(p, position[p]) \in AppendIDs
  <2>1. p \in Partitions /\ position[p] >= base[p] /\ position[p] < End(p)
    BY <1>0, <1>1, <1>2, <1>3 DEF Behind
  <2>2. position[p] - base[p] + 1 \in 1 .. Len(history[p])
    <3>1. Len(history[p]) \in Nat /\ End(p) = base[p] + Len(history[p])
      BY <2>1, LenProperties DEF ChannelTypes, End
    <3> QED BY <1>0, <2>1, <3>1
  <2>3. \A i \in 1 .. Len(history[p]) : history[p][i] \in AppendIDs
    BY <2>1, LenProperties DEF ChannelTypes
  <2> QED BY <2>1, <2>2, <2>3 DEF Entry
<1>4. UNCHANGED <<bound, history, base, sealed, answered, position, read, skipped, subscribed, session, fresh, replays>>
  BY <1>1 DEF chanVars, ghosts, podVars
<1>5. ChannelTypes' /\ OffsetsAreStable' /\ AnswersGiven' /\ \A p \in Partitions : End(p)' = End(p)
  BY <1>4, HistoryKept
<1>6. PodTypes'
  <2>1. faults' \in 0 .. MaxFaults
    <3>1. faults' = faults \/ (faults < MaxFaults /\ faults' = faults + 1)
      BY DEF Consume, Fault
    <3> QED BY <3>1, SubscriptionsAssumption DEF PodTypes
  <2> QED BY <1>4, <2>1 DEF PodTypes
<1>7. inflight' \in [Partitions -> Deliveries \cup {Free}]
  BY <1>0, <1>1, <1>3 DEF ReaderTypes, Deliveries
<1>8. hand' \in [Readers -> SUBSET Received]
  <2>1. \A p \in given : <<p, position[p], Entry(p, position[p])>> \in Received
    BY <1>0, <1>3 DEF Received
  <2>2. \A p \in Again(x) : <<p, inflight[p].offset, inflight[p].id>> \in Received
    <3>1. \A p \in Again(x) : p \in Partitions /\ inflight[p] \in Deliveries
      BY <1>2 DEF Again, ReaderTypes
    <3> QED BY <3>1 DEF Received, Deliveries
  <2>3. work \subseteq Received
    BY <2>1, <2>2
  <2> HIDE DEF work
  <2> QED BY <1>1, <2>3 DEF ReaderTypes
<1>9. ReaderTypes'
  BY <1>4, <1>7, <1>8 DEF ReaderTypes
<1>10. ASSUME NEW p \in Partitions PROVE CursorOf(p)'
  <2>1. CASE p \in given
    <3>1. inflight'[p].offset = position[p] /\ position[p] < End(p)
      BY <1>1, <2>1
    <3> QED BY <1>1, <1>4, <1>5, <3>1 DEF CursorOf
  <2>2. CASE p \notin given
    <3>1. inflight'[p] = inflight[p]
      BY <1>1, <2>2
    <3> QED BY <1>4, <1>5, <3>1 DEF CursorOf
  <2> QED BY <2>1, <2>2
<1> QED BY <1>5, <1>6, <1>9, <1>10

\* AckSubscription keeps the invariant: only the delivery at the position moves it, by one.
LEMMA AckStep ==
  ASSUME IInv, NEW x \in Readers, AckSubscription(x)
  PROVE  IInv'
<1> USE DEF IInv
<1>1. PICK w \in hand[x] :
        /\ IF Acknowledged(x, w)
           THEN /\ inflight' = [inflight EXCEPT ![w[1]] = Free]
                /\ position' = [position EXCEPT ![w[1]] = NextPosition(w)]
                /\ read' = [read EXCEPT ![w[1]] = @ \cup {w[2]}]
           ELSE UNCHANGED <<position, inflight, read>>
        /\ hand' = [hand EXCEPT ![x] = @ \ {w}]
  BY DEF AckSubscription
<1>2. UNCHANGED <<bound, history, base, sealed, answered, skipped, subscribed, session, fresh, replays, faults>>
  BY DEF AckSubscription, chanVars, podVars
<1>3. w[1] \in Partitions /\ w[2] \in Nat
  BY DEF ReaderTypes, Received
<1>4. ChannelTypes' /\ OffsetsAreStable' /\ AnswersGiven' /\ \A p \in Partitions : End(p)' = End(p)
  BY <1>2, HistoryKept
<1>5. PodTypes'
  BY <1>2 DEF PodTypes
<1>6. \A p \in Partitions : End(p) \in Nat /\ position[p] \in Nat
  BY EndIsNat DEF ReaderTypes
<1>7. CASE ~Acknowledged(x, w)
  <2>1. UNCHANGED <<position, inflight, read>>
    BY <1>1, <1>7
  <2>2. ReaderTypes'
    BY <1>1, <1>2, <2>1 DEF ReaderTypes
  <2>3. \A p \in Partitions : CursorOf(p)'
    BY <1>2, <1>4, <2>1 DEF CursorOf
  <2> QED BY <1>4, <1>5, <2>2, <2>3
<1>8. CASE Acknowledged(x, w)
  <2>1. /\ inflight' = [inflight EXCEPT ![w[1]] = Free]
        /\ position' = [position EXCEPT ![w[1]] = w[2] + 1]
        /\ read' = [read EXCEPT ![w[1]] = @ \cup {w[2]}]
    BY <1>1, <1>8 DEF NextPosition
  <2>2. inflight[w[1]] # Free /\ inflight[w[1]].offset = w[2]
    <3>1. inflight[w[1]] = [offset |-> w[2], id |-> w[3], owner |-> x]
      BY <1>8 DEF Acknowledged, Owned
    <3>2. inflight[w[1]].offset = w[2]
      BY <3>1
    <3>3. inflight[w[1]] # Free
      BY <1>3, <3>2 DEF Free
    <3> QED BY <3>2, <3>3
  <2>3. w[2] = position[w[1]] /\ position[w[1]] < End(w[1])
    BY <1>3, <2>2 DEF CursorOf
  <2>4. ReaderTypes'
    <3>1. inflight' \in [Partitions -> Deliveries \cup {Free}]
      BY <2>1 DEF ReaderTypes
    <3>2. position' \in [Partitions -> Nat] /\ read' \in [Partitions -> SUBSET Nat]
      BY <1>3, <2>1 DEF ReaderTypes
    <3>3. hand' \in [Readers -> SUBSET Received]
      BY <1>1 DEF ReaderTypes
    <3> QED BY <1>2, <3>1, <3>2, <3>3 DEF ReaderTypes
  <2>5. CursorOf(w[1])'
    <3>1. /\ position'[w[1]] = position[w[1]] + 1 /\ inflight'[w[1]] = Free
          /\ read'[w[1]] = read[w[1]] \cup {position[w[1]]}
      BY <1>3, <2>1, <2>3 DEF ReaderTypes
    <3>2. 0 .. (position[w[1]] + 1) - 1 \subseteq (0 .. position[w[1]] - 1) \cup {position[w[1]]}
      BY <1>3, <1>6
    <3>3. 0 .. position'[w[1]] - 1 \subseteq read'[w[1]] \cup skipped'[w[1]]
      BY <1>2, <1>3, <3>1, <3>2 DEF CursorOf
    <3>4. position'[w[1]] <= End(w[1])
      BY <1>3, <1>6, <2>3, <3>1
    <3> QED BY <1>3, <1>4, <3>1, <3>3, <3>4 DEF CursorOf
  <2>6. ASSUME NEW p \in Partitions \ {w[1]} PROVE CursorOf(p)'
    <3>1. position'[p] = position[p] /\ inflight'[p] = inflight[p] /\ read'[p] = read[p]
      BY <2>1 DEF ReaderTypes
    <3> QED BY <1>2, <1>4, <3>1 DEF CursorOf
  <2> QED BY <1>4, <1>5, <2>4, <2>5, <2>6
<1> QED BY <1>7, <1>8

\* ReplaySubscription keeps the invariant: nothing is in flight, and what the move leaves
\* out is recorded as skipped.
LEMMA ReplayStep ==
  ASSUME IInv, NEW p \in Partitions, NEW offset, ReplaySubscription(p, offset)
  PROVE  IInv'
<1> USE DEF IInv
<1>1. /\ subscribed /\ Idle /\ offset \in base[p] .. End(p)
      /\ position' = [position EXCEPT ![p] = offset]
      /\ skipped' = [skipped EXCEPT ![p] = @ \cup position[p] .. offset - 1]
      /\ UNCHANGED <<bound, history, base, sealed, subscribed, inflight, session, fresh, hand, answered, read, faults>>
  BY DEF ReplaySubscription, chanVars, podVars
<1>2. ChannelTypes' /\ OffsetsAreStable' /\ AnswersGiven' /\ \A q \in Partitions : End(q)' = End(q)
  BY <1>1, HistoryKept
<1>3. \A q \in Partitions : End(q) \in Nat /\ base[q] \in Nat /\ position[q] \in Nat
  BY EndIsNat DEF ChannelTypes, ReaderTypes
<1>4. PodTypes'
  <2>1. replays' \in 0 .. MaxReplays
    <3>1. replays' = replays \/ (replays < MaxReplays /\ replays' = replays + 1)
      BY DEF ReplaySubscription
    <3> QED BY <3>1, SubscriptionsAssumption DEF PodTypes
  <2> QED BY <1>1, <2>1 DEF PodTypes
<1>5. offset \in Nat /\ offset <= End(p)
  BY <1>1, <1>3
<1>6. ReaderTypes'
  <2>1. position[p] .. offset - 1 \subseteq Nat
    BY <1>3, <1>5
  <2>2. skipped' \in [Partitions -> SUBSET Nat]
    BY <1>1, <2>1 DEF ReaderTypes
  <2> QED BY <1>1, <1>5, <2>2 DEF ReaderTypes
<1>7. CursorOf(p)'
  <2>1. /\ position'[p] = offset /\ skipped'[p] = skipped[p] \cup position[p] .. offset - 1
        /\ inflight'[p] = Free
    BY <1>1 DEF ReaderTypes, Idle
  <2>2. 0 .. offset - 1 \subseteq (0 .. position[p] - 1) \cup position[p] .. offset - 1
    BY <1>3, <1>5
  <2>3. 0 .. position'[p] - 1 \subseteq read'[p] \cup skipped'[p]
    BY <1>1, <2>1, <2>2 DEF CursorOf
  <2> QED BY <1>2, <1>5, <2>1, <2>3 DEF CursorOf
<1>8. ASSUME NEW q \in Partitions \ {p} PROVE CursorOf(q)'
  <2>1. position'[q] = position[q] /\ skipped'[q] = skipped[q]
    BY <1>1 DEF ReaderTypes
  <2> QED BY <1>1, <1>2, <2>1 DEF CursorOf
<1> QED BY <1>2, <1>4, <1>6, <1>7, <1>8

\* SetSubscription keeps the invariant: the cursors start behind what was deleted.
LEMMA SubscribeStep == ASSUME IInv, SetSubscription PROVE IInv'
<1> USE DEF IInv
<1>1. /\ ~subscribed /\ subscribed' = TRUE /\ position' = base
      /\ skipped' = [p \in Partitions |-> 0 .. base[p] - 1]
      /\ UNCHANGED <<bound, history, base, sealed, inflight, session, fresh, hand, answered, read, replays, faults>>
  BY DEF SetSubscription, chanVars, podVars
<1>2. ChannelTypes' /\ OffsetsAreStable' /\ AnswersGiven' /\ \A q \in Partitions : End(q)' = End(q)
  BY <1>1, HistoryKept
<1>3. \A q \in Partitions : End(q) \in Nat /\ base[q] \in Nat /\ base[q] <= End(q)
  BY EndIsNat DEF ChannelTypes
<1>4. PodTypes'
  BY <1>1 DEF PodTypes
<1>5. ReaderTypes'
  <2>1. position' \in [Partitions -> Nat]
    BY <1>1 DEF ChannelTypes
  <2>2. \A p \in Partitions : 0 .. base[p] - 1 \subseteq Nat
    BY <1>3
  <2>3. skipped' \in [Partitions -> SUBSET Nat]
    BY <1>1, <2>2
  <2> QED BY <1>1, <2>1, <2>3 DEF ReaderTypes
<1>6. ASSUME NEW p \in Partitions PROVE CursorOf(p)'
  <2>1. inflight'[p] = Free
    BY <1>1 DEF CursorOf
  <2>2. position'[p] = base[p] /\ skipped'[p] = 0 .. base[p] - 1
    BY <1>1
  <2> QED BY <1>2, <1>3, <2>1, <2>2 DEF CursorOf
<1> QED BY <1>2, <1>4, <1>5, <1>6

\* Seal, Lapse and Replaced keep the invariant: they touch neither history nor cursors.
LEMMA OtherStep ==
  ASSUME IInv,
         \/ Seal
         \/ \E x \in Readers : Lapse(x) \/ Replaced(x)
         \/ UNCHANGED vars
  PROVE  IInv'
<1> USE DEF IInv
<1>1. UNCHANGED <<history, base, answered, position, inflight, read, skipped, subscribed>>
  BY DEF Seal, Lapse, Replaced, vars, chanVars, subVars, ghosts
<1>2. ChannelTypes' /\ OffsetsAreStable' /\ AnswersGiven'
  BY <1>1, HistoryKept
<1>3. \A p \in Partitions : CursorOf(p)'
  BY <1>1, CursorsKept DEF ReaderTypes
<1>4. hand' \in [Readers -> SUBSET Received]
  BY DEF Seal, Lapse, Replaced, vars, ReaderTypes
<1>5. ReaderTypes'
  BY <1>1, <1>4 DEF ReaderTypes
<1>6. PodTypes'
  <2>1. CASE Seal
    BY <2>1 DEF Seal, PodTypes, podVars, subVars
  <2>2. ASSUME NEW x \in Readers, Lapse(x) PROVE PodTypes'
    <3>1. faults' \in 0 .. MaxFaults
      BY <2>2, SubscriptionsAssumption DEF Lapse, Fault, PodTypes
    <3> QED BY <2>2, <3>1 DEF Lapse, PodTypes, podVars, subVars, chanVars
  <2>3. ASSUME NEW x \in Readers, Replaced(x) PROVE PodTypes'
    <3>1. faults' \in 0 .. MaxFaults
      BY <2>3, SubscriptionsAssumption DEF Replaced, Fault, PodTypes
    <3> QED BY <2>3, <3>1 DEF Replaced, PodTypes, podVars, subVars, chanVars
  <2>4. CASE UNCHANGED vars
    BY <2>4 DEF vars, PodTypes, podVars, subVars, chanVars
  <2> QED BY <2>1, <2>2, <2>3, <2>4
<1> QED BY <1>2, <1>3, <1>5, <1>6

\* Every step keeps the invariant.
LEMMA NextInv == ASSUME IInv, [Next]_vars PROVE IInv'
<1>1. CASE Seal \/ (\E x \in Readers : Lapse(x) \/ Replaced(x)) \/ UNCHANGED vars
  BY <1>1, OtherStep
<1>2. CASE ExpireAll
  <2> DEFINE gone == {y \in Readers : session[y] # "none" /\ ~fresh[y]}
  <2>1. /\ inflight' = Returned(gone)
        /\ session' = [y \in Readers |-> IF y \in gone THEN "none" ELSE session[y]]
        /\ UNCHANGED <<bound, chanVars, subscribed, position, fresh, hand, ghosts, replays, faults>>
    BY <1>2 DEF ExpireAll
  <2>2. session' \in [Readers -> {"none", "current", "old"}] /\ fresh' \in [Readers -> BOOLEAN]
    BY <2>1 DEF IInv, PodTypes
  <2> HIDE DEF gone
  <2> QED BY <2>1, <2>2, ReturnStep
<1>3. ASSUME NEW x \in Readers, Register(x) PROVE IInv'
  <2> DEFINE gone  == {y \in Readers \ {x} : session[y] # "none" /\ ~fresh[y]}
             taken == IF session[x] = "old" THEN {x} ELSE {}
  <2>1. /\ inflight' = Returned(gone \cup taken)
        /\ session' = [y \in Readers |-> IF y = x THEN "current" ELSE IF y \in gone THEN "none" ELSE session[y]]
        /\ fresh' = [fresh EXCEPT ![x] = TRUE]
        /\ UNCHANGED <<bound, chanVars, subscribed, position, hand, ghosts, replays, faults>>
    BY <1>3 DEF Register
  <2>2. session' \in [Readers -> {"none", "current", "old"}] /\ fresh' \in [Readers -> BOOLEAN]
    BY <2>1 DEF IInv, PodTypes
  <2> HIDE DEF gone, taken
  <2> QED BY <2>1, <2>2, ReturnStep
<1>4. CASE SetSubscription
  BY <1>4, SubscribeStep
<1>5. CASE \E id \in AppendIDs, p \in Partitions : AppendSession(id, p)
  BY <1>5, AppendStep
<1>6. CASE \E p \in Partitions, o \in 0 .. MaxAppends : DeleteRetainedBefore(p, o) \/ ReplaySubscription(p, o)
  BY <1>6, DeleteStep, ReplayStep
<1>7. CASE \E x \in Readers : AckSubscription(x) \/ \E lost \in BOOLEAN : Consume(x, lost)
  BY <1>7, AckStep, ConsumeStep
<1> QED BY <1>1, <1>2, <1>3, <1>4, <1>5, <1>6, <1>7 DEF Next

LEMMA Invariance == Spec => []IInv
  BY InitInv, NextInv, PTL DEF Spec

-----------------------------------------------------------------------------
(* Theorems.                                                               *)

\* The coordinator's maps and the readers' deliveries keep their types, and no cursor
\* passes the end of its partition.
THEOREM TypeCorrect == Spec => []TypeOK
  BY Invariance, InvImplies, PTL

\* An offset a producer was answered with keeps its meaning, through retries, retention and
\* new appends under an identifier whose receipt was deleted (AppendSession, index,
\* DeleteRetainedBefore).
THEOREM StableOffsets == Spec => []OffsetsAreStable
<1>1. IInv => OffsetsAreStable
  BY DEF IInv
<1> QED BY <1>1, Invariance, PTL

\* No acknowledgement, however late, moves a position past an entry that was not read or
\* jumped over by a replay (AckSubscription, ReplaySubscription).
THEOREM NoEntryPassedOver == Spec => []NothingPassedOver
  BY Invariance, InvImplies, PTL
=============================================================================
