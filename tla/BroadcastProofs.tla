--------------------------- MODULE BroadcastProofs ---------------------------
(***************************************************************************)
(* Proofs about Broadcast, for any pods, segments, replica counts and       *)
(* bounds.                                                                  *)
(***************************************************************************)
EXTENDS Broadcast, FiniteSetTheorems, WellFoundedInduction, SequenceTheorems, TLAPS

-----------------------------------------------------------------------------
(* The inductive invariant.                                                *)

Reg == {x \in Consumers : Registered(x)}

\* TypeOK in three parts: the cluster and the operation, the slots, the channel.
PodTypes ==
  /\ running \subseteq Consumers /\ up \subseteq running /\ told \cup idle \subseteq up
  /\ process \in [Consumers -> 0 .. MaxProcess] /\ incarnation \in [Consumers -> 0 .. MaxProcess]
  /\ hand \in [Consumers -> SUBSET Segments]
  /\ fresh \in [Consumers -> BOOLEAN]
  /\ done \subseteq Consumers
  /\ replicas \in {0, Replicas} /\ completed \in BOOLEAN
  /\ holder \in {"live", "silent", "gone"}
  /\ faults \in 0 .. MaxFaults

SlotTypes ==
  /\ slot \in [Consumers -> Nat \cup {None}]
  /\ freeSlots \subseteq 0 .. nextSlot - 1 /\ nextSlot \in Nat
  /\ acked \in [Segments -> SUBSET (0 .. nextSlot - 1)]

ChannelTypes ==
  /\ log \in Seq(Segments) /\ sealed \in BOOLEAN
  /\ cursor \in [Consumers -> {None} \cup 0 .. Len(log)]
  /\ delivered \in [Segments -> SUBSET Consumers]
  /\ lost \subseteq released /\ released \subseteq Elems(log)

\* A pod whose process runs has one, no pod runs before the count is published,
\* and an operation is complete only after its input has ended.
PodInv ==
  /\ \A x \in up : process[x] # 0
  /\ replicas = 0 => running = {} /\ Reg = {}
  /\ completed => sealed

\* Each slot is free or has one registered pod.
SlotInv ==
  /\ \A x \in Reg : slot[x] \in 0 .. nextSlot - 1 /\ slot[x] \notin freeSlots
  /\ \A x, y \in Reg : slot[x] = slot[y] => x = y
  /\ \A n \in 0 .. nextSlot - 1 : n \in freeSlots \/ \E x \in Reg : slot[x] = n

IInv == PodTypes /\ SlotTypes /\ ChannelTypes /\ PodInv /\ SlotInv

\* As long as replacements wait, there are no more pods and slots than replicas.
CohortInv ==
  /\ Cardinality(running \cup Reg) <= Replicas
  /\ nextSlot <= Replicas

-----------------------------------------------------------------------------
(* Operators.                                                              *)

\* A set of numbers that is not empty has a least element.
LEMMA LeastExists ==
  ASSUME NEW S \in SUBSET Nat, S # {} PROVE \E m \in S : \A k \in S : m <= k
<1>1. \E x \in S : \A y \in S : ~(<<y, x>> \in OpToRel(<, Nat))
  BY NatLessThanWellFounded, WFMin
<1>2. PICK x \in S : \A y \in S : ~(<<y, x>> \in OpToRel(<, Nat))
  BY <1>1
<1>3. \A y \in S : ~(y < x)
  BY <1>2 DEF OpToRel
<1> QED BY <1>3

\* Lowest is that element.
LEMMA LowestIs == ASSUME NEW S \in SUBSET Nat, S # {} PROVE Lowest(S) \in S
  BY LeastExists DEF Lowest

\* A bounded set of numbers that is not empty has a greatest element.
LEMMA GreatestExists ==
  ASSUME NEW n \in Nat, NEW S \in SUBSET (1 .. n), S # {} PROVE \E m \in S : \A k \in S : k <= m
<1> DEFINE T == {i \in 0 .. n : n - i \in S}
<1>1. PICK s \in S : TRUE
  OBVIOUS
<1>2. n - s \in 0 .. n /\ n - (n - s) = s
  BY <1>1
<1>3. T \in SUBSET Nat /\ T # {}
  <2>1. n - s \in T
    BY <1>1, <1>2
  <2>2. \A i \in T : i \in Nat
    OBVIOUS
  <2> HIDE DEF T
  <2> QED BY <2>1, <2>2
<1>4. PICK t \in T : \A u \in T : t <= u
  BY <1>3, LeastExists
<1>5. \A k \in S : n - k \in T
  OBVIOUS
<1>6. \A k \in S : t <= n - k
  BY <1>4, <1>5
<1>7. n - t \in S /\ t \in 0 .. n
  BY <1>4
<1>8. \A k \in S : k <= n - t
  BY <1>6, <1>7
<1> QED BY <1>7, <1>8

\* The log as a set.
LEMMA ElemsAre ==
  ASSUME NEW q \in Seq(Segments)
  PROVE  /\ Elems(q) \subseteq Segments
         /\ Len(q) \in Nat
         /\ \A s \in Segments : /\ Append(q, s) \in Seq(Segments)
                                /\ Len(Append(q, s)) = Len(q) + 1
                                /\ Elems(q) \subseteq Elems(Append(q, s))
<1>1. Len(q) \in Nat /\ DOMAIN q = 1 .. Len(q) /\ \A i \in 1 .. Len(q) : q[i] \in Segments
  OBVIOUS
<1>2. Elems(q) \subseteq Segments
  BY <1>1 DEF Elems
<1>3. ASSUME NEW s \in Segments
      PROVE  /\ Append(q, s) \in Seq(Segments) /\ Len(Append(q, s)) = Len(q) + 1
             /\ Elems(q) \subseteq Elems(Append(q, s))
  <2>1. /\ Append(q, s) \in Seq(Segments)
        /\ Len(Append(q, s)) = Len(q) + 1
        /\ \A i \in 1 .. Len(q) : Append(q, s)[i] = q[i]
    BY AppendProperties
  <2>2. DOMAIN Append(q, s) = 1 .. Len(q) + 1
    BY <2>1
  <2>3. \A i \in 1 .. Len(q) : i \in 1 .. Len(q) + 1
    BY <1>1
  <2> QED BY <1>1, <2>1, <2>2, <2>3 DEF Elems
<1> QED BY <1>1, <1>2, <1>3

\* What is lost, and what a sweep releases, has been announced; nothing returns.
LEMMA SweptIs ==
  ASSUME ChannelTypes, NEW A, NEW live
  PROVE  /\ lost \subseteq LostAfter /\ LostAfter \subseteq Elems(log)
         /\ LostAfter \subseteq Swept(A, LostAfter, live) /\ lost \subseteq Swept(A, lost, live)
         /\ Swept(A, LostAfter, live) \subseteq Elems(log) /\ Swept(A, lost, live) \subseteq Elems(log)
         /\ LostAfter \subseteq released \cup LostAfter /\ released \cup LostAfter \subseteq Elems(log)
  BY DEF ChannelTypes, LostAfter, Swept

\* Withdrawing deliveries and forgetting cursors keeps their types.
LEMMA WithdrawnTypes ==
  ASSUME ChannelTypes, NEW P
  PROVE  /\ Withdrawn(P) \in [Segments -> SUBSET Consumers]
         /\ Rewound(P) \in [Consumers -> {None} \cup 0 .. Len(log)]
  BY DEF ChannelTypes, Withdrawn, Rewound

\* Where a consume leaves the cursor of its pod: in the log.
LEMMA CursorStays ==
  ASSUME ChannelTypes, NEW x \in Consumers, NEW open \in SUBSET (1 .. Len(log)),
         NEW taken, taken = {i \in open : Cardinality({j \in open : j <= i}) <= MaxSegments}
  PROVE  (IF Cardinality(open) <= MaxSegments THEN Len(log)
          ELSE CHOOSE i \in taken : \A j \in taken : j <= i) \in 0 .. Len(log)
<1>1. Len(log) \in Nat /\ MaxSegments \in Nat \ {0}
  BY BroadcastAssumption DEF ChannelTypes
<1>2. CASE Cardinality(open) <= MaxSegments
  BY <1>1, <1>2
<1>3. CASE ~(Cardinality(open) <= MaxSegments)
  <2>1. open # {}
    BY <1>1, <1>3, FS_EmptySet
  <2>2. open \in SUBSET Nat
    BY <1>1
  <2>3. PICK m \in open : \A k \in open : m <= k
    BY <2>1, <2>2, LeastExists
  <2>4. \A j \in open : j <= m <=> j = m
    BY <2>2, <2>3
  <2>5. {j \in open : j <= m} = {m}
    BY <2>4, Zenon
  <2>6. Cardinality({j \in open : j <= m}) = 1
    BY <2>5, FS_Singleton
  <2>7. Cardinality({j \in open : j <= m}) <= MaxSegments
    BY <1>1, <2>6
  <2>8. m \in taken
    BY <2>7, Zenon
  <2>9. taken \in SUBSET (1 .. Len(log)) /\ taken # {}
    BY <2>8
  <2>10. \E i \in taken : \A j \in taken : j <= i
    BY <1>1, <2>9, GreatestExists
  <2>11. (CHOOSE i \in taken : \A j \in taken : j <= i) \in 1 .. Len(log)
    BY <2>9, <2>10
  <2> QED BY <1>1, <1>3, <2>11
<1> QED BY <1>2, <1>3

-----------------------------------------------------------------------------
(* One lemma per action: the invariant is preserved.                       *)

\* The parts of the invariant that only read what a step has left alone.
LEMMA SlotsKept ==
  ASSUME SlotInv, UNCHANGED <<incarnation, slot, freeSlots, nextSlot>>
  PROVE  SlotInv' /\ Reg' = Reg
  BY DEF SlotInv, Reg, Registered

LEMMA SetOperationsStep == IInv /\ SetOperations => IInv'
<1> SUFFICES ASSUME IInv, SetOperations PROVE IInv'
  OBVIOUS
<1> USE DEF SetOperations, IInv, clusterVars, chanVars
<1>1. SlotInv' /\ Reg' = Reg
  BY SlotsKept
<1>2. PodTypes'
  BY DEF PodTypes
<1>3. SlotTypes'
  BY DEF SlotTypes
<1>4. ChannelTypes'
  BY DEF ChannelTypes
<1>5. replicas' # 0
  BY BroadcastAssumption
<1>6. PodInv'
  BY <1>5 DEF PodInv
<1> QED BY <1>1, <1>2, <1>3, <1>4, <1>6

LEMMA SealStep == IInv /\ Seal => IInv'
<1> SUFFICES ASSUME IInv, Seal PROVE IInv'
  OBVIOUS
<1> USE DEF Seal, IInv, clusterVars, opVars
<1>1. SlotInv' /\ Reg' = Reg
  BY SlotsKept
<1>2. PodTypes' /\ SlotTypes' /\ ChannelTypes'
  BY DEF PodTypes, SlotTypes, ChannelTypes
<1>3. PodInv'
  BY <1>1 DEF PodInv
<1> QED BY <1>1, <1>2, <1>3

LEMMA HolderLapsesStep == IInv /\ HolderLapses => IInv'
<1> SUFFICES ASSUME IInv, HolderLapses PROVE IInv'
  OBVIOUS
<1> USE DEF HolderLapses, IInv, clusterVars, opVars
<1>1. SlotInv' /\ Reg' = Reg
  BY SlotsKept
<1>2. PodTypes'
  BY BroadcastAssumption DEF PodTypes, Fault
<1>3. SlotTypes' /\ ChannelTypes'
  BY DEF SlotTypes, ChannelTypes
<1>4. PodInv'
  BY <1>1 DEF PodInv
<1> QED BY <1>1, <1>2, <1>3, <1>4

LEMMA AnnounceStep == ASSUME NEW s \in Segments PROVE IInv /\ Announce(s) => IInv'
<1> SUFFICES ASSUME IInv, Announce(s) PROVE IInv'
  OBVIOUS
<1> USE DEF Announce, IInv, clusterVars, opVars
<1>1. SlotInv' /\ Reg' = Reg
  BY SlotsKept
<1>2. PodTypes' /\ SlotTypes'
  BY DEF PodTypes, SlotTypes
<1>3. PodInv'
  BY <1>1 DEF PodInv
<1>4. /\ log' \in Seq(Segments) /\ Len(log) \in Nat
      /\ Len(log') = Len(log) + 1 /\ Elems(log) \subseteq Elems(log')
  BY ElemsAre DEF ChannelTypes
<1>5. 0 .. Len(log) \subseteq 0 .. Len(log')
  BY <1>4
<1>6. ChannelTypes'
  BY <1>4, <1>5 DEF ChannelTypes
<1> QED BY <1>1, <1>2, <1>3, <1>6

LEMMA StartStep == ASSUME NEW x \in Consumers PROVE IInv /\ Start(x) => IInv'
<1> SUFFICES ASSUME IInv, Start(x) PROVE IInv'
  OBVIOUS
<1> USE DEF Start, IInv, chanVars, opVars
<1>1. SlotInv' /\ Reg' = Reg
  BY SlotsKept
<1>2. MaxProcess \in Nat \ {0}
  BY BroadcastAssumption
<1>3. PodTypes'
  BY <1>2 DEF PodTypes
<1>4. SlotTypes' /\ ChannelTypes'
  BY DEF SlotTypes, ChannelTypes
<1>5. PodInv'
  BY <1>1 DEF PodInv, PodTypes
<1> QED BY <1>1, <1>3, <1>4, <1>5

LEMMA RestartStep == ASSUME NEW x \in Consumers PROVE IInv /\ Restart(x) => IInv'
<1> SUFFICES ASSUME IInv, Restart(x) PROVE IInv'
  OBVIOUS
<1> USE DEF Restart, IInv, chanVars, opVars
<1>1. SlotInv' /\ Reg' = Reg
  BY SlotsKept
<1>2. MaxProcess \in Nat /\ MaxFaults \in Nat
  BY BroadcastAssumption
<1>3. PodTypes'
  BY <1>2 DEF PodTypes, Fault
<1>4. SlotTypes' /\ ChannelTypes'
  BY DEF SlotTypes, ChannelTypes
<1>5. PodInv'
  BY <1>1, <1>2 DEF PodInv, PodTypes
<1> QED BY <1>1, <1>3, <1>4, <1>5

LEMMA EvictStep == ASSUME NEW x \in Consumers PROVE IInv /\ Evict(x) => IInv'
<1> SUFFICES ASSUME IInv, Evict(x) PROVE IInv'
  OBVIOUS
<1> USE DEF Evict, IInv, chanVars, opVars
<1>1. SlotInv' /\ Reg' = Reg
  BY SlotsKept
<1>2. MaxFaults \in Nat
  BY BroadcastAssumption
<1>3. PodTypes'
  BY <1>2 DEF PodTypes, Fault
<1>4. SlotTypes' /\ ChannelTypes'
  BY DEF SlotTypes, ChannelTypes
<1>5. PodInv'
  BY <1>1 DEF PodInv
<1> QED BY <1>1, <1>3, <1>4, <1>5

LEMMA LapseStep == ASSUME NEW x \in Consumers PROVE IInv /\ Lapse(x) => IInv'
<1> SUFFICES ASSUME IInv, Lapse(x) PROVE IInv'
  OBVIOUS
<1> USE DEF Lapse, IInv, clusterVars, chanVars
<1>1. SlotInv' /\ Reg' = Reg
  BY SlotsKept
<1>2. MaxFaults \in Nat
  BY BroadcastAssumption
<1>3. PodTypes'
  BY <1>2 DEF PodTypes, Fault
<1>4. SlotTypes' /\ ChannelTypes'
  BY DEF SlotTypes, ChannelTypes
<1>5. PodInv'
  BY <1>1 DEF PodInv
<1> QED BY <1>1, <1>3, <1>4, <1>5

LEMMA RefusedStep == ASSUME NEW x \in Consumers PROVE IInv /\ Refused(x) => IInv'
<1> SUFFICES ASSUME IInv, Refused(x) PROVE IInv'
  OBVIOUS
<1> USE DEF Refused, IInv, opVars, chanVars
<1>1. SlotInv' /\ Reg' = Reg
  BY SlotsKept
<1>2. PodTypes'
  BY DEF PodTypes
<1>3. SlotTypes' /\ ChannelTypes'
  BY DEF SlotTypes, ChannelTypes
<1>4. PodInv'
  BY <1>1 DEF PodInv
<1> QED BY <1>1, <1>2, <1>3, <1>4

LEMMA SourceDoneStep == ASSUME NEW x \in Consumers PROVE IInv /\ SourceDone(x) => IInv'
<1> SUFFICES ASSUME IInv, SourceDone(x) PROVE IInv'
  OBVIOUS
<1> USE DEF SourceDone, IInv, clusterVars, chanVars
<1>1. SlotInv' /\ Reg' = Reg
  BY SlotsKept
<1>2. PodTypes'
  BY DEF PodTypes
<1>3. SlotTypes' /\ ChannelTypes'
  BY DEF SlotTypes, ChannelTypes
<1>4. PodInv'
  BY <1>1 DEF PodInv
<1> QED BY <1>1, <1>2, <1>3, <1>4

\* A process that the coordinator listens to belongs to a registered pod.
LEMMA ActiveRegistered ==
  ASSUME PodInv, NEW x \in Consumers, Active(x) PROVE x \in Reg
  BY DEF PodInv, Active, Reg, Registered

LEMMA AckStep ==
  ASSUME NEW x \in Consumers, NEW s \in Segments PROVE IInv /\ Ack(x, s) => IInv'
<1> SUFFICES ASSUME IInv, Ack(x, s) PROVE IInv'
  OBVIOUS
<1> USE DEF Ack, IInv, opVars
<1>1. SlotInv' /\ Reg' = Reg
  BY SlotsKept
<1>2. PodTypes'
  BY DEF PodTypes
<1>3. slot[x] \in 0 .. nextSlot - 1
  BY ActiveRegistered DEF SlotInv
<1>4. SlotTypes'
  BY <1>3 DEF SlotTypes, Acknowledger
<1>5. lost \subseteq released' /\ released' \subseteq Elems(log)
  BY SweptIs
<1>6. delivered' \in [Segments -> SUBSET Consumers]
  BY DEF ChannelTypes
<1>7. ChannelTypes'
  BY <1>5, <1>6 DEF ChannelTypes
<1>8. PodInv'
  BY <1>1 DEF PodInv
<1> QED BY <1>1, <1>2, <1>4, <1>7, <1>8

LEMMA NackStep ==
  ASSUME NEW x \in Consumers, NEW s \in Segments PROVE IInv /\ Nack(x, s) => IInv'
<1> SUFFICES ASSUME IInv, Nack(x, s) PROVE IInv'
  OBVIOUS
<1> USE DEF Nack, IInv, opVars
<1>1. SlotInv' /\ Reg' = Reg
  BY SlotsKept
<1>2. MaxFaults \in Nat
  BY BroadcastAssumption
<1>3. PodTypes'
  BY <1>2 DEF PodTypes, Fault
<1>4. SlotTypes'
  BY DEF SlotTypes
<1>5. lost \subseteq released' /\ released' \subseteq Elems(log)
  BY SweptIs
<1>6. Len(log) \in Nat
  BY DEF ChannelTypes
<1>7. delivered' \in [Segments -> SUBSET Consumers] /\ cursor' \in [Consumers -> {None} \cup 0 .. Len(log)]
  BY <1>6 DEF ChannelTypes
<1>8. ChannelTypes'
  BY <1>5, <1>7 DEF ChannelTypes
<1>9. PodInv'
  BY <1>1 DEF PodInv
<1> QED BY <1>1, <1>3, <1>4, <1>8, <1>9

\* Expiring pods frees their slots and nobody else's.
LEMMA ExpireSlots ==
  ASSUME PodTypes, SlotTypes, SlotInv, NEW gone \in SUBSET Reg, Expire(gone), UNCHANGED <<slot, nextSlot>>
  PROVE  /\ Reg' = Reg \ gone /\ SlotInv'
         /\ freeSlots' \subseteq 0 .. nextSlot - 1
         /\ incarnation' \in [Consumers -> 0 .. MaxProcess]
         /\ holder' \in {"live", "silent", "gone"}
<1> USE DEF Expire
<1>1. Reg' = Reg \ gone
  BY DEF Reg, Registered, PodTypes
<1>2. freeSlots' \subseteq 0 .. nextSlot - 1
  <2>1. freeSlots \subseteq 0 .. nextSlot - 1
    BY DEF SlotTypes
  <2>2. \A y \in gone : slot[y] \in 0 .. nextSlot - 1
    BY DEF SlotInv
  <2> QED BY <2>1, <2>2, Zenon
<1>3. incarnation' \in [Consumers -> 0 .. MaxProcess] /\ holder' \in {"live", "silent", "gone"}
  BY BroadcastAssumption DEF PodTypes
<1>4. \A x \in Reg' : slot[x] \in 0 .. nextSlot - 1 /\ slot[x] \notin freeSlots'
  BY <1>1 DEF SlotInv
<1>5. \A x, y \in Reg' : slot[x] = slot[y] => x = y
  BY <1>1 DEF SlotInv
<1>6. ASSUME NEW n \in 0 .. nextSlot - 1 PROVE n \in freeSlots' \/ \E x \in Reg' : slot[x] = n
  BY <1>1 DEF SlotInv
<1>7. SlotInv'
  BY <1>4, <1>5, <1>6 DEF SlotInv
<1> QED BY <1>1, <1>2, <1>3, <1>7

LEMMA MetricsStep == IInv /\ Metrics => IInv'
<1> SUFFICES ASSUME IInv, Metrics PROVE IInv'
  OBVIOUS
<1> USE DEF IInv, clusterVars
<1> DEFINE gone == Silent({})
           rel  == Swept(acked, LostAfter, Remaining(gone))
<1>1. /\ Expire(gone) /\ released' = rel /\ cursor' = Rewound(gone) /\ delivered' = Withdrawn(gone)
      /\ done' = done \ gone
      /\ completed' \in BOOLEAN /\ (completed' => completed \/ sealed)
      /\ UNCHANGED <<clusterVars, fresh, slot, nextSlot, replicas, log, sealed, acked, faults>>
  BY DEF Metrics, Complete
<1>2. gone \in SUBSET Reg
  BY DEF Silent, Reg
<1>3. lost' = LostAfter
  BY <1>1 DEF Expire
<1> HIDE DEF gone
<1>4. /\ Reg' = Reg \ gone /\ SlotInv'
      /\ freeSlots' \subseteq 0 .. nextSlot - 1
      /\ incarnation' \in [Consumers -> 0 .. MaxProcess]
      /\ holder' \in {"live", "silent", "gone"}
  BY <1>1, <1>2, ExpireSlots
<1>5. PodTypes'
  BY <1>1, <1>4 DEF PodTypes
<1>6. SlotTypes'
  BY <1>1, <1>4 DEF SlotTypes
<1>7. lost' \subseteq rel /\ rel \subseteq Elems(log)
  BY <1>3, SweptIs
<1>8. /\ delivered' \in [Segments -> SUBSET Consumers]
      /\ cursor' \in [Consumers -> {None} \cup 0 .. Len(log)]
  BY <1>1, WithdrawnTypes
<1>9. ChannelTypes'
  BY <1>1, <1>7, <1>8 DEF ChannelTypes
<1>10. PodInv'
  BY <1>1, <1>4 DEF PodInv
<1> QED BY <1>4, <1>5, <1>6, <1>9, <1>10

LEMMA ConsumeStep == ASSUME NEW x \in Consumers PROVE IInv /\ Consume(x) => IInv'
<1> SUFFICES ASSUME IInv, Consume(x) PROVE IInv'
  OBVIOUS
<1> USE DEF IInv
<1> DEFINE gone  == Silent({x})
           from  == IF cursor[x] = None THEN 0 ELSE cursor[x]
           rel   == Swept(acked, LostAfter, Remaining(gone))
           open  == Offered(x, from, rel)
           taken == {i \in open : Cardinality({j \in open : j <= i}) <= MaxSegments}
           work  == {log[i] : i \in taken}
           to    == IF Cardinality(open) <= MaxSegments THEN Len(log)
                    ELSE CHOOSE i \in taken : \A j \in taken : j <= i
<1>1. /\ Active(x) /\ Expire(gone) /\ released' = rel
      /\ cursor' = [Rewound(gone) EXCEPT ![x] = to]
      /\ delivered' = [s \in Segments |-> Withdrawn(gone)[s] \cup (IF s \in work THEN {x} ELSE {})]
      /\ hand' = [hand EXCEPT ![x] = @ \cup work]
      /\ done' = done \ gone
      /\ told' \subseteq told \cup {x} /\ idle' = idle
      /\ fresh' = [fresh EXCEPT ![x] = TRUE]
      /\ UNCHANGED <<running, process, up, slot, nextSlot, replicas, completed, log, sealed, acked, faults>>
  BY DEF Consume
<1>2. gone \in SUBSET Reg
  BY DEF Silent, Reg
<1>3. lost' = LostAfter
  BY <1>1 DEF Expire
<1>4. Len(log) \in Nat /\ \A i \in 1 .. Len(log) : log[i] \in Segments
  BY DEF ChannelTypes
<1>5. open \in SUBSET (1 .. Len(log))
  <2>1. from \in 0 .. Len(log)
    BY <1>4 DEF ChannelTypes, None
  <2>2. open \subseteq from + 1 .. Len(log)
    BY DEF Offered
  <2> HIDE DEF from, open
  <2> QED BY <1>4, <2>1, <2>2
<1> HIDE DEF open, gone
<1>6. to \in 0 .. Len(log)
  <2>1. taken = {i \in open : Cardinality({j \in open : j <= i}) <= MaxSegments}
    OBVIOUS
  <2> HIDE DEF taken
  <2> QED BY <1>5, <2>1, CursorStays
<1>7. work \subseteq Segments
  BY <1>4, <1>5
<1> HIDE DEF work, to
<1>8. /\ Reg' = Reg \ gone /\ SlotInv'
      /\ freeSlots' \subseteq 0 .. nextSlot - 1
      /\ incarnation' \in [Consumers -> 0 .. MaxProcess]
      /\ holder' \in {"live", "silent", "gone"}
  BY <1>1, <1>2, ExpireSlots
<1>9. PodTypes'
  <2>1. x \in up
    BY <1>1 DEF Active
  <2> QED BY <1>1, <1>7, <1>8, <2>1 DEF PodTypes
<1>10. SlotTypes'
  BY <1>1, <1>8 DEF SlotTypes
<1>11. lost' \subseteq rel /\ rel \subseteq Elems(log)
  BY <1>3, SweptIs
<1>12. Withdrawn(gone) \in [Segments -> SUBSET Consumers] /\ Rewound(gone) \in [Consumers -> {None} \cup 0 .. Len(log)]
  BY WithdrawnTypes
<1>13. /\ delivered' \in [Segments -> SUBSET Consumers]
       /\ cursor' \in [Consumers -> {None} \cup 0 .. Len(log)]
  BY <1>1, <1>6, <1>12
<1>14. ChannelTypes'
  BY <1>1, <1>11, <1>13 DEF ChannelTypes
<1>15. PodInv'
  BY <1>1, <1>8 DEF PodInv
<1> QED BY <1>8, <1>9, <1>10, <1>14, <1>15

\* The free slots after the pods of a set have expired.
FreeAfter(gone) == freeSlots \cup {slot[y] : y \in gone}

\* The slot a registering pod gets: its own, the lowest free one, or the next.
LEMMA SlotAllotted ==
  ASSUME IInv, NEW x \in Consumers, NEW gone \in SUBSET Reg, x \notin gone
  PROVE  LET free == FreeAfter(gone)
             mine == SlotFor(x, free)
         IN  /\ free \subseteq 0 .. nextSlot - 1
             /\ mine \in 0 .. nextSlot
             /\ x \in Reg => mine = slot[x] /\ mine \notin free
             /\ x \notin Reg => mine \in free \/ (free = {} /\ mine = nextSlot)
<1> DEFINE free == FreeAfter(gone)
           mine == SlotFor(x, free)
<1> USE DEF IInv
<1>1. nextSlot \in Nat /\ freeSlots \subseteq 0 .. nextSlot - 1
  BY DEF SlotTypes
<1>2. free \subseteq 0 .. nextSlot - 1
  <2>1. \A y \in gone : slot[y] \in 0 .. nextSlot - 1
    BY DEF SlotInv
  <2> QED BY <1>1, <2>1, Zenon DEF FreeAfter
<1>3. CASE x \in Reg
  <2>1. mine = slot[x]
    BY <1>3 DEF SlotFor, Reg
  <2>2. mine \notin free
    BY <1>3, <2>1 DEF SlotInv, FreeAfter
  <2> QED BY <1>1, <1>2, <1>3, <2>1, <2>2 DEF SlotInv
<1>4. CASE x \notin Reg /\ free # {}
  <2>1. mine = Lowest(free)
    BY <1>4 DEF SlotFor, Reg
  <2>2. free \in SUBSET Nat
    BY <1>1, <1>2
  <2>3. mine \in free
    BY <1>4, <2>1, <2>2, LowestIs
  <2> QED BY <1>1, <1>2, <1>4, <2>3
<1>5. CASE x \notin Reg /\ free = {}
  <2>1. mine = nextSlot
    BY <1>5 DEF SlotFor, Reg
  <2> QED BY <1>1, <1>2, <1>5, <2>1
<1> QED BY <1>3, <1>4, <1>5

LEMMA RegisterStep == ASSUME NEW x \in Consumers PROVE IInv /\ Register(x) => IInv'
<1> SUFFICES ASSUME IInv, Register(x) PROVE IInv'
  OBVIOUS
<1> USE DEF IInv
<1> DEFINE gone  == Silent({x})
           taken == IF Registered(x) /\ incarnation[x] # process[x] THEN {x} ELSE {}
           free  == FreeAfter(gone)
           mine  == SlotFor(x, free)
<1>1. /\ x \in up
      /\ incarnation' = [y \in Consumers |->
                           IF y = x THEN process[x] ELSE IF y \in gone THEN 0 ELSE incarnation[y]]
      /\ slot' = [slot EXCEPT ![x] = mine]
      /\ freeSlots' = free \ {mine}
      /\ nextSlot' = IF mine = nextSlot THEN nextSlot + 1 ELSE nextSlot
      /\ cursor' = Rewound(gone \cup taken)
      /\ delivered' = Withdrawn(gone \cup taken)
      /\ done' = (done \ gone) \ taken
      /\ completed' \in BOOLEAN /\ (completed' => completed)
      /\ lost' = LostAfter
      /\ released' = released \cup LostAfter
      /\ holder' = IF holder = "silent" THEN "gone" ELSE holder
      /\ fresh' = [fresh EXCEPT ![x] = TRUE]
      /\ UNCHANGED <<running, process, up, hand, told, idle, replicas, log, sealed, acked, faults>>
  BY DEF Register, clusterVars, FreeAfter
<1>2. gone \in SUBSET Reg /\ x \notin gone
  BY DEF Silent, Reg
<1> HIDE DEF gone, taken
<1>3. /\ free \subseteq 0 .. nextSlot - 1
      /\ mine \in 0 .. nextSlot
      /\ x \in Reg => mine = slot[x] /\ mine \notin free
      /\ x \notin Reg => mine \in free \/ (free = {} /\ mine = nextSlot)
  BY <1>2, SlotAllotted
<1>4. /\ freeSlots \subseteq free
      /\ \A y \in gone : slot[y] \in free
      /\ \A n \in free : n \in freeSlots \/ \E y \in gone : slot[y] = n
  BY DEF FreeAfter
<1> HIDE DEF free, mine
<1>5. nextSlot \in Nat /\ slot \in [Consumers -> Nat \cup {None}]
  BY DEF SlotTypes
<1>6. Reg' = (Reg \ gone) \cup {x}
  <2>1. process[x] # 0
    BY <1>1 DEF PodInv
  <2> QED BY <1>1, <2>1 DEF Reg, Registered, PodTypes
<1>7. PodTypes'
  <2>1. incarnation' \in [Consumers -> 0 .. MaxProcess]
    BY <1>1, BroadcastAssumption DEF PodTypes
  <2> QED BY <1>1, <2>1 DEF PodTypes
<1>8. nextSlot' \in Nat /\ 0 .. nextSlot - 1 \subseteq 0 .. nextSlot' - 1 /\ mine \in 0 .. nextSlot' - 1
  BY <1>1, <1>3, <1>5
<1>9. SlotTypes'
  <2>1. mine \in Nat
    BY <1>3, <1>5
  <2>2. freeSlots' \subseteq 0 .. nextSlot' - 1
    BY <1>1, <1>3, <1>8
  <2>3. acked' \in [Segments -> SUBSET (0 .. nextSlot' - 1)]
    BY <1>1, <1>8 DEF SlotTypes
  <2>4. slot' \in [Consumers -> Nat \cup {None}]
    BY <1>1, <1>5, <2>1
  <2> QED BY <1>8, <2>2, <2>3, <2>4 DEF SlotTypes
<1>10. ChannelTypes'
  <2>1. lost' \subseteq released' /\ released' \subseteq Elems(log)
    BY <1>1, SweptIs
  <2>2. /\ delivered' \in [Segments -> SUBSET Consumers]
        /\ cursor' \in [Consumers -> {None} \cup 0 .. Len(log)]
    BY <1>1, WithdrawnTypes
  <2> QED BY <1>1, <2>1, <2>2 DEF ChannelTypes
<1>11. PodInv'
  BY <1>1, <1>6 DEF PodInv, PodTypes
<1>12. \A y \in Reg \ gone : y # x => /\ slot'[y] = slot[y] /\ slot[y] \in 0 .. nextSlot - 1
                                     /\ slot[y] \notin free /\ slot[y] # mine
  <2> SUFFICES ASSUME NEW y \in Reg \ gone, y # x
               PROVE  /\ slot'[y] = slot[y] /\ slot[y] \in 0 .. nextSlot - 1
                      /\ slot[y] \notin free /\ slot[y] # mine
    OBVIOUS
  <2>1. slot'[y] = slot[y]
    BY <1>1, <1>5 DEF Reg
  <2>2. slot[y] \in 0 .. nextSlot - 1 /\ slot[y] \notin freeSlots
    BY DEF SlotInv
  <2>3. \A z \in gone : slot[z] # slot[y]
    BY <1>2 DEF SlotInv
  <2>4. slot[y] \notin free
    BY <1>4, <2>2, <2>3
  <2>5. slot[y] # mine
    <3>1. CASE x \in Reg
      BY <1>3, <3>1 DEF SlotInv
    <3>2. CASE x \notin Reg
      BY <1>3, <1>5, <2>2, <2>4, <3>2
    <3> QED BY <3>1, <3>2
  <2> QED BY <2>1, <2>2, <2>4, <2>5
<1>13. slot'[x] = mine
  BY <1>1, <1>5
<1>14. SlotInv'
  <2>1. \A y \in Reg' : slot'[y] \in 0 .. nextSlot' - 1 /\ slot'[y] \notin freeSlots'
    BY <1>1, <1>6, <1>8, <1>12, <1>13
  <2>2. \A y, z \in Reg' : slot'[y] = slot'[z] => y = z
    <3>1. \A y, z \in Reg \ gone : slot[y] = slot[z] => y = z
      BY DEF SlotInv
    <3> QED BY <1>6, <1>12, <1>13, <3>1
  <2>3. ASSUME NEW n \in 0 .. nextSlot' - 1 PROVE n \in freeSlots' \/ \E y \in Reg' : slot'[y] = n
    <3>1. CASE n = mine
      BY <1>6, <1>13, <3>1
    <3>2. CASE n # mine
      <4>1. n \in 0 .. nextSlot - 1
        BY <1>1, <1>5, <3>2
      <4>2. CASE n \in free
        BY <1>1, <3>2, <4>2
      <4>3. CASE n \notin free
        <5>1. PICK y \in Reg : slot[y] = n
          BY <1>4, <4>1, <4>3 DEF SlotInv
        <5>2. y \notin gone
          BY <1>4, <4>3, <5>1
        <5>3. y # x
          BY <1>3, <3>2, <5>1
        <5> QED BY <1>6, <1>12, <5>1, <5>2, <5>3
      <4> QED BY <4>2, <4>3
    <3> QED BY <3>1, <3>2
  <2> QED BY <2>1, <2>2, <2>3 DEF SlotInv
<1> QED BY <1>7, <1>9, <1>10, <1>11, <1>14

-----------------------------------------------------------------------------
(* The slots.                                                              *)

LEMMA Initially == Init => IInv /\ CohortInv /\ EverySlotReads /\ CompleteMeansRead
<1> SUFFICES ASSUME Init PROVE IInv /\ CohortInv /\ EverySlotReads /\ CompleteMeansRead
  OBVIOUS
<1> USE DEF Init
<1>1. Reg = {} /\ running \cup Reg = {}
  BY DEF Reg, Registered
<1>2. /\ MaxProcess \in Nat /\ MaxFaults \in Nat /\ Replicas \in Nat
      /\ Cardinality({}) = 0
  BY BroadcastAssumption, FS_EmptySet
<1>3. PodTypes /\ PodInv
  <2>1. PodInv
    BY <1>1, Zenon DEF PodInv
  <2>2. PodTypes
    <3>1. 0 \in 0 .. MaxProcess /\ 0 \in 0 .. MaxFaults
      BY <1>2
    <3> QED BY <3>1, Zenon DEF PodTypes
  <2> QED BY <2>1, <2>2
<1>4. SlotTypes /\ SlotInv
  BY <1>1 DEF SlotTypes, SlotInv
<1>5. ChannelTypes
  <2>1. log \in Seq(Segments) /\ Len(log) = 0
    OBVIOUS
  <2> QED BY <2>1 DEF ChannelTypes, Elems
<1>6. CohortInv
  BY <1>1, <1>2 DEF CohortInv
<1> QED BY <1>3, <1>4, <1>5, <1>6 DEF IInv, EverySlotReads, CompleteMeansRead

LEMMA NextKeepsInv == IInv /\ [Next]_vars => IInv'
<1> SUFFICES ASSUME IInv, [Next]_vars PROVE IInv'
  OBVIOUS
<1>1. CASE UNCHANGED vars
  BY <1>1 DEF vars, clusterVars, opVars, chanVars, IInv, PodTypes, SlotTypes, ChannelTypes, PodInv, SlotInv,
     Reg, Registered
<1>2. CASE Next
  BY <1>2, SetOperationsStep, SealStep, HolderLapsesStep, MetricsStep, AnnounceStep, StartStep, RestartStep,
     EvictStep, LapseStep, RegisterStep, ConsumeStep, RefusedStep, SourceDoneStep, AckStep, NackStep, Zenon
     DEF Next
<1> QED BY <1>1, <1>2

\* Broadcast.TypeOK holds in every reachable state: slots stay below nextSlot, a cursor
\* stays in the log, and only what was announced is lost or released.
THEOREM TypeCorrect == Spec => []TypeOK
<1>1. IInv => TypeOK
  BY DEF IInv, TypeOK, PodTypes, SlotTypes, ChannelTypes
<1> QED BY Initially, NextKeepsInv, <1>1, PTL DEF Spec

\* Each cohort slot is free or is held by exactly one registered pod (touch allots the
\* slots, expirePod gives them back).
THEOREM SlotsAreExclusive == Spec => []SlotInv
<1>1. IInv => SlotInv
  BY DEF IInv
<1> QED BY Initially, NextKeepsInv, <1>1, PTL DEF Spec

\* What each action can do to the pods that run or are registered: only a start
\* adds one, and only an unregistered pod that runs can take a new slot.
LEMMA CohortSteps ==
  ASSUME IInv, Next
  PROVE  \/ running' \cup Reg' \subseteq running \cup Reg /\ nextSlot' = nextSlot
         \/ \E x \in Consumers : /\ Start(x)
                                 /\ running' = running \cup {x} /\ Reg' = Reg /\ nextSlot' = nextSlot
         \/ \E x \in Consumers :
              /\ x \in running \ Reg /\ running' \cup Reg' \subseteq running \cup Reg
              /\ nextSlot' = nextSlot + 1
              /\ \A n \in 0 .. nextSlot - 1 : \E y \in Reg : slot[y] = n
<1> DEFINE Fewer == running' \cup Reg' \subseteq running \cup Reg /\ nextSlot' = nextSlot
<1>1. ASSUME UNCHANGED <<incarnation, nextSlot>>, running' \subseteq running PROVE Fewer
  BY <1>1 DEF Reg, Registered
<1>2. CASE SetOperations
  BY <1>1, <1>2 DEF SetOperations, clusterVars
<1>3. CASE Seal
  BY <1>1, <1>3 DEF Seal, clusterVars, opVars
<1>4. CASE HolderLapses
  BY <1>1, <1>4 DEF HolderLapses, clusterVars, opVars
<1>5. ASSUME NEW gone, Expire(gone), UNCHANGED <<running, nextSlot>> PROVE Fewer
  BY <1>5 DEF Expire, Reg, Registered
<1>6. CASE Metrics
  BY <1>5, <1>6 DEF Metrics, clusterVars
<1>7. ASSUME NEW s \in Segments, Announce(s) PROVE Fewer
  BY <1>1, <1>7 DEF Announce, clusterVars, opVars
<1>8. ASSUME NEW x \in Consumers, Start(x)
      PROVE  Start(x) /\ running' = running \cup {x} /\ Reg' = Reg /\ nextSlot' = nextSlot
  BY <1>8 DEF Start, opVars, Reg, Registered
<1>9. ASSUME NEW x \in Consumers, Restart(x) \/ Evict(x) PROVE Fewer
  BY <1>1, <1>9 DEF Restart, Evict, opVars
<1>10. ASSUME NEW x \in Consumers, Lapse(x) \/ Refused(x) \/ SourceDone(x) PROVE Fewer
  BY <1>1, <1>10 DEF Lapse, Refused, SourceDone, opVars, clusterVars
<1>11. ASSUME NEW x \in Consumers, NEW s \in Segments, Ack(x, s) \/ Nack(x, s) PROVE Fewer
  BY <1>1, <1>11 DEF Ack, Nack, opVars
<1>12. ASSUME NEW x \in Consumers, Consume(x) PROVE Fewer
  BY <1>5, <1>12 DEF Consume
<1>13. ASSUME NEW x \in Consumers, Register(x)
       PROVE  \/ Fewer
              \/ /\ x \in running \ Reg /\ running' \cup Reg' \subseteq running \cup Reg
                 /\ nextSlot' = nextSlot + 1
                 /\ \A n \in 0 .. nextSlot - 1 : \E y \in Reg : slot[y] = n
  <2> DEFINE gone == Silent({x})
             free == FreeAfter(gone)
             mine == SlotFor(x, free)
  <2>1. /\ x \in up /\ running' = running
        /\ incarnation' = [y \in Consumers |->
                             IF y = x THEN process[x] ELSE IF y \in gone THEN 0 ELSE incarnation[y]]
        /\ nextSlot' = IF mine = nextSlot THEN nextSlot + 1 ELSE nextSlot
    BY <1>13 DEF Register, clusterVars, FreeAfter
  <2>2. gone \in SUBSET Reg /\ x \notin gone
    BY DEF Silent, Reg
  <2> HIDE DEF gone
  <2>3. /\ free \subseteq 0 .. nextSlot - 1
        /\ x \in Reg => mine = slot[x]
        /\ x \notin Reg => mine \in free \/ (free = {} /\ mine = nextSlot)
    BY <2>2, SlotAllotted
  <2>4. x \in running
    BY <2>1 DEF IInv, PodTypes
  <2>5. running' \cup Reg' \subseteq running \cup Reg
    BY <2>1, <2>4 DEF Reg, Registered
  <2>6. nextSlot \in Nat
    BY DEF IInv, SlotTypes
  <2>7. CASE mine = nextSlot
    <3>1. x \notin Reg
      BY <2>3, <2>6, <2>7 DEF IInv, SlotInv
    <3>2. free = {}
      BY <2>3, <2>6, <2>7, <3>1
    <3>3. freeSlots = {}
      BY <3>2 DEF FreeAfter
    <3> QED BY <2>1, <2>4, <2>5, <2>7, <3>1, <3>3 DEF IInv, SlotInv
  <2>8. CASE mine # nextSlot
    BY <2>1, <2>5, <2>8
  <2> QED BY <2>7, <2>8
<1> QED BY <1>2, <1>3, <1>4, <1>6, <1>7, <1>8, <1>9, <1>10, <1>11, <1>12, <1>13, Zenon DEF Next

\* Replacements that wait for the replaced pod to expire keep the cohort to its
\* size: a new slot is only needed while each slot so far is held, by as many pods.
LEMMA CohortKept ==
  ASSUME IInv, CohortInv, [Next]_vars, Overlap = FALSE PROVE CohortInv'
<1> USE DEF CohortInv
<1>1. Replicas \in Nat /\ IsFiniteSet(Consumers)
  BY BroadcastAssumption
<1>2. running \cup Reg \in SUBSET Consumers
  BY DEF IInv, PodTypes, Reg
<1>3. IsFiniteSet(running \cup Reg) /\ IsFiniteSet(Reg) /\ Reg \subseteq running \cup Reg
  BY <1>1, <1>2, FS_Subset
<1>4. Cardinality(running \cup Reg) \in Nat /\ Cardinality(Reg) \in Nat /\ nextSlot \in Nat
  BY <1>3, FS_CardinalityType DEF IInv, SlotTypes
<1>5. ASSUME running' \cup Reg' \subseteq running \cup Reg
      PROVE  Cardinality(running' \cup Reg') <= Replicas
  <2>1. /\ Cardinality(running' \cup Reg') <= Cardinality(running \cup Reg)
        /\ Cardinality(running' \cup Reg') \in Nat
    BY <1>3, <1>5, FS_Subset, FS_CardinalityType
  <2> QED BY <1>1, <1>4, <2>1
<1>6. CASE UNCHANGED vars
  <2>1. running' = running /\ Reg' = Reg /\ nextSlot' = nextSlot
    BY <1>6 DEF vars, clusterVars, opVars, Reg, Registered
  <2> QED BY <2>1
<1>7. CASE running' \cup Reg' \subseteq running \cup Reg /\ nextSlot' = nextSlot
  BY <1>5, <1>7
<1>8. ASSUME NEW x \in Consumers, Start(x), running' = running \cup {x}, Reg' = Reg, nextSlot' = nextSlot
      PROVE  CohortInv'
  <2>1. Cardinality(running \cup Reg) < Replicas
    BY <1>8 DEF Start, Reg
  <2>2. running' \cup Reg' = (running \cup Reg) \cup {x}
    BY <1>8
  <2>3. Cardinality((running \cup Reg) \cup {x})
          \in {Cardinality(running \cup Reg), Cardinality(running \cup Reg) + 1}
    BY <1>3, FS_AddElement
  <2>4. Cardinality(running' \cup Reg') <= Replicas
    BY <1>1, <1>4, <2>1, <2>2, <2>3
  <2> QED BY <1>8, <2>4
<1>9. ASSUME NEW x \in Consumers, x \in running \ Reg, running' \cup Reg' \subseteq running \cup Reg,
             nextSlot' = nextSlot + 1, \A n \in 0 .. nextSlot - 1 : \E y \in Reg : slot[y] = n
      PROVE  CohortInv'
  <2> DEFINE f == [y \in Reg |-> slot[y]]
  <2>1. f \in Surjection(Reg, 0 .. nextSlot - 1)
    BY <1>9 DEF Surjection, IInv, SlotInv
  <2>2. Cardinality(0 .. nextSlot - 1) <= Cardinality(Reg)
    <3> HIDE DEF f
    <3> QED BY <1>3, <2>1, FS_Surjection
  <2>3. Cardinality(0 .. nextSlot - 1) = nextSlot
    BY <1>4, FS_Interval
  <2>4. Cardinality(Reg \cup {x}) = Cardinality(Reg) + 1
    BY <1>3, <1>9, FS_AddElement
  <2>5. Cardinality(Reg \cup {x}) <= Cardinality(running \cup Reg)
    <3>1. Reg \cup {x} \subseteq running \cup Reg
      BY <1>9
    <3> QED BY <1>3, <3>1, FS_Subset
  <2>6. nextSlot' <= Replicas
    BY <1>1, <1>4, <1>9, <2>2, <2>3, <2>4, <2>5
  <2> QED BY <1>5, <1>9, <2>6
<1> QED BY <1>6, <1>7, <1>8, <1>9, CohortSteps

-----------------------------------------------------------------------------
(* Release and completion.                                                 *)

\* As many acknowledging slots as there are replicas are all the slots there are.
LEMMA FullCohort ==
  ASSUME IInv, NEW acks \in SUBSET (0 .. Replicas - 1), NEW gone, EveryReplica(acks, Remaining(gone))
  PROVE  0 .. Replicas - 1 \subseteq acks
<1> DEFINE live == Remaining(gone)
<1>1. Replicas \in Nat \ {0} /\ IsFiniteSet(Consumers)
  BY BroadcastAssumption
<1>2. live \subseteq Reg /\ live \subseteq Consumers
  BY DEF Remaining, Reg
<1>3. IsFiniteSet(live) /\ Cardinality(live) \in Nat
  BY <1>1, <1>2, FS_Subset, FS_CardinalityType
<1>4. /\ Larger(replicas, Cardinality(live)) # 0
      /\ Cardinality(acks) >= Larger(replicas, Cardinality(live))
  BY DEF EveryReplica
<1>5. replicas = Replicas
  <2>1. replicas \in {0, Replicas}
    BY DEF IInv, PodTypes
  <2>2. ASSUME replicas = 0 PROVE FALSE
    <3>1. live = {}
      BY <1>2, <2>2 DEF IInv, PodInv
    <3>2. Cardinality(live) = 0
      BY <3>1, FS_EmptySet
    <3> QED BY <1>4, <2>2, <3>2 DEF Larger
  <2> QED BY <2>1, <2>2
<1>6. IsFiniteSet(0 .. Replicas - 1) /\ Cardinality(0 .. Replicas - 1) = Replicas
  BY <1>1, FS_Interval
<1>7. /\ IsFiniteSet(acks) /\ Cardinality(acks) \in Nat /\ Cardinality(acks) <= Replicas
      /\ Cardinality(acks) = Replicas => acks = 0 .. Replicas - 1
  BY <1>6, FS_Subset, FS_CardinalityType
<1> HIDE DEF live
<1>8. Cardinality(acks) >= Replicas
  BY <1>1, <1>3, <1>4, <1>5, <1>7 DEF Larger
<1> QED BY <1>1, <1>7, <1>8

\* What a step does to what has been read: acknowledgements and losses stay, and
\* what it releases was lost, or has as many acknowledgements as replicas.
LEMMA ReleaseSteps ==
  ASSUME IInv, Next
  PROVE  /\ lost \subseteq lost'
         /\ \A s \in Segments : acked[s] \subseteq acked'[s]
         /\ \A s \in released' \ lost' : \/ s \in released
                                         \/ \E gone : EveryReplica(acked'[s], Remaining(gone))
<1> DEFINE Claim == /\ lost \subseteq lost'
                    /\ \A s \in Segments : acked[s] \subseteq acked'[s]
                    /\ \A s \in released' \ lost' : \/ s \in released
                                                    \/ \E gone : EveryReplica(acked'[s], Remaining(gone))
<1>1. ASSUME UNCHANGED <<acked, lost, released>> PROVE Claim
  BY <1>1
<1>2. lost \subseteq LostAfter
  BY SweptIs DEF IInv
<1>3. ASSUME NEW gone, UNCHANGED acked, lost' = LostAfter, released' = Swept(acked, LostAfter, Remaining(gone))
      PROVE  Claim
  BY <1>2, <1>3 DEF Swept
<1>4. CASE SetOperations \/ Seal \/ HolderLapses \/ \E s \in Segments : Announce(s)
  BY <1>1, <1>4 DEF SetOperations, Seal, HolderLapses, Announce, chanVars
<1>5. CASE Metrics
  BY <1>3, <1>5 DEF Metrics, Expire
<1>6. ASSUME NEW x \in Consumers, Start(x) \/ Restart(x) \/ Evict(x) \/ Lapse(x) \/ Refused(x) \/ SourceDone(x)
      PROVE  Claim
  BY <1>1, <1>6 DEF Start, Restart, Evict, Lapse, Refused, SourceDone, chanVars
<1>7. ASSUME NEW x \in Consumers, Consume(x) PROVE Claim
  BY <1>3, <1>7 DEF Consume, Expire
<1>8. ASSUME NEW x \in Consumers, Register(x) PROVE Claim
  BY <1>2, <1>8 DEF Register
<1>9. ASSUME NEW x \in Consumers, NEW s \in Segments, Ack(x, s) PROVE Claim
  <2>1. \A r \in Segments : acked[r] \subseteq acked'[r]
    BY <1>9 DEF Ack, IInv, SlotTypes
  <2>2. lost' = lost /\ released' = Swept(acked', lost, Remaining({}))
    BY <1>9 DEF Ack
  <2> QED BY <2>1, <2>2 DEF Swept
<1>10. ASSUME NEW x \in Consumers, NEW s \in Segments, Nack(x, s) PROVE Claim
  <2>1. acked' = acked /\ lost' = lost /\ released' = Swept(acked, lost, Remaining({}))
    BY <1>10 DEF Nack
  <2> QED BY <2>1 DEF Swept
<1> QED BY <1>4, <1>5, <1>6, <1>7, <1>8, <1>9, <1>10, Zenon DEF Next

\* Nothing is announced to an operation that is complete, and it becomes complete
\* only when what has not been released is acknowledged by every replica.
LEMMA CompleteSteps ==
  ASSUME IInv, Next, completed'
  PROVE  /\ log' = log
         /\ \/ completed
            \/ \A s \in Elems(log) \ released' : \E gone : EveryReplica(acked'[s], Remaining(gone))
<1>1. CASE SetOperations \/ Seal \/ HolderLapses
  BY <1>1 DEF SetOperations, Seal, HolderLapses, chanVars, opVars
<1>2. ASSUME NEW s \in Segments, Announce(s) PROVE FALSE
  BY <1>2 DEF Announce, opVars, IInv, PodInv
<1>3. CASE Metrics
  <2> DEFINE gone == Silent({})
             rel  == Swept(acked, LostAfter, Remaining(gone))
  <2>1. log' = log /\ acked' = acked /\ released' = rel /\ (Complete(gone, rel) \/ completed)
    BY <1>3 DEF Metrics
  <2> HIDE DEF gone
  <2> QED BY <2>1 DEF Complete
<1>4. ASSUME NEW x \in Consumers, Start(x) \/ Restart(x) \/ Evict(x) \/ Lapse(x) \/ Refused(x) \/ SourceDone(x)
      PROVE  log' = log /\ completed
  BY <1>4 DEF Start, Restart, Evict, Lapse, Refused, SourceDone, chanVars, opVars
<1>5. ASSUME NEW x \in Consumers, Register(x) \/ Consume(x) PROVE log' = log /\ completed
  BY <1>5 DEF Register, Consume
<1>6. ASSUME NEW x \in Consumers, NEW s \in Segments, Ack(x, s) \/ Nack(x, s) PROVE log' = log /\ completed
  BY <1>6 DEF Ack, Nack, opVars
<1> QED BY <1>1, <1>2, <1>3, <1>4, <1>5, <1>6, Zenon DEF Next

LEMMA ReadKept ==
  ASSUME IInv, EverySlotReads, CompleteMeansRead, [Next]_vars, IInv', CohortInv'
  PROVE  EverySlotReads' /\ CompleteMeansRead'
<1>1. CASE UNCHANGED vars
  BY <1>1 DEF vars, chanVars, opVars, EverySlotReads, CompleteMeansRead
<1>2. CASE Next
  <2> DEFINE All == 0 .. Replicas - 1
  <2>1. /\ lost \subseteq lost'
        /\ \A s \in Segments : acked[s] \subseteq acked'[s]
        /\ \A s \in released' \ lost' : \/ s \in released
                                        \/ \E gone : EveryReplica(acked'[s], Remaining(gone))
    BY <1>2, ReleaseSteps
  <2>2. Elems(log) \subseteq Segments /\ Elems(log') \subseteq Segments /\ released' \subseteq Elems(log')
    BY ElemsAre DEF IInv, ChannelTypes
  <2>3. ASSUME NEW s \in Segments, NEW gone, EveryReplica(acked'[s], Remaining(gone)) PROVE All \subseteq acked'[s]
    <3>1. Replicas \in Nat /\ nextSlot' \in Nat /\ nextSlot' <= Replicas
      BY BroadcastAssumption DEF IInv, SlotTypes, CohortInv
    <3>2. acked'[s] \in SUBSET (0 .. nextSlot' - 1)
      BY DEF IInv, SlotTypes
    <3>3. acked'[s] \in SUBSET (0 .. Replicas - 1)
      BY <3>1, <3>2
    <3> QED BY <2>3, <3>3, FullCohort
  <2>4. EverySlotReads'
    <3> SUFFICES ASSUME NEW s \in released' \ lost' PROVE All \subseteq acked'[s]
      BY DEF EverySlotReads
    <3>1. s \in Segments
      BY <2>2
    <3>2. CASE s \in released
      BY <2>1, <3>1, <3>2 DEF EverySlotReads
    <3>3. CASE \E gone : EveryReplica(acked'[s], Remaining(gone))
      BY <2>3, <3>1, <3>3
    <3> QED BY <2>1, <3>2, <3>3
  <2>5. CompleteMeansRead'
    <3> SUFFICES ASSUME completed', NEW s \in Elems(log') \ lost' PROVE All \subseteq acked'[s]
      BY DEF CompleteMeansRead
    <3>1. /\ log' = log
          /\ \/ completed
             \/ \A r \in Elems(log) \ released' : \E gone : EveryReplica(acked'[r], Remaining(gone))
      BY <1>2, CompleteSteps
    <3>2. s \in Segments /\ s \in Elems(log)
      BY <2>2, <3>1
    <3>3. CASE completed
      BY <2>1, <3>2, <3>3 DEF CompleteMeansRead
    <3>4. CASE s \in released'
      BY <2>4, <3>4 DEF EverySlotReads
    <3>5. CASE ~completed /\ s \notin released'
      BY <2>3, <3>1, <3>2, <3>5
    <3> QED BY <3>3, <3>4, <3>5
  <2> QED BY <2>4, <2>5
<1> QED BY <1>1, <1>2

LEMMA CohortAlways ==
  ASSUME Overlap = FALSE PROVE Spec => [](EverySlotReads /\ CompleteMeansRead /\ CohortInv)
<1> DEFINE Inv == IInv /\ CohortInv /\ EverySlotReads /\ CompleteMeansRead
<1>1. Init => Inv
  BY Initially
<1>2. Inv /\ [Next]_vars => Inv'
  BY NextKeepsInv, CohortKept, ReadKept
<1>3. Inv => EverySlotReads /\ CompleteMeansRead /\ CohortInv
  OBVIOUS
<1> HIDE DEF Inv
<1> QED BY <1>1, <1>2, <1>3, PTL DEF Spec

\* Where a replacement starts only after the pod it replaces has expired, a segment is
\* released, and its bytes deleted, only after every slot of the cohort has acknowledged it
\* (Broadcast.EverySlotReads: consumedByEveryReplica counts, touch allots the slots).
THEOREM ReleasedWasRead ==
  ASSUME Overlap = FALSE PROVE Spec => []EverySlotReads
  BY CohortAlways, PTL

\* Under the same condition an operation reported complete has, in every slot, read every
\* segment that was not lost (Broadcast.CompleteMeansRead: operationMetrics).
THEOREM CompleteWasRead ==
  ASSUME Overlap = FALSE PROVE Spec => []CompleteMeansRead
  BY CohortAlways, PTL

\* Under the same condition there are never more slots than replicas: a replacement
\* inherits a slot, it never makes one (touch, coordinator.go: freeCohortSlots).
THEOREM SlotsAreReplicas ==
  ASSUME Overlap = FALSE PROVE Spec => [](nextSlot <= Replicas)
<1>1. CohortInv => nextSlot <= Replicas
  BY DEF CohortInv
<1> QED BY CohortAlways, <1>1, PTL
=============================================================================
