------------------------------ MODULE Delivery ------------------------------
(***************************************************************************)
(* The coordinator's side of one partitioned channel (Hash or RoundRobin): *)
(* who is registered, which segments are queued, in flight, acknowledged,  *)
(* lost or released, and which consumer pod reads which partition          *)
(* (src/pkg/coordinator/coordinator.go).                                   *)
(*                                                                         *)
(* Every handler runs under the coordinator's single mutex, so one action  *)
(* is one handler.  Workers are seen only through the calls they make: a   *)
(* call of a process that has already been superseded may still arrive,    *)
(* and the answer to a consume may be lost.  Time is abstracted to one bit *)
(* per pod (has it been heard from within PodTTL?) and one bit per         *)
(* returned delivery (is its retry delay still running?).                  *)
(*                                                                         *)
(* On a channel that is neither Broadcast nor Feedback, settle() changes   *)
(* nothing, so it does not appear here.  Epochs, Broadcast logs and        *)
(* subscriptions are the subject of other modules.                         *)
(***************************************************************************)
EXTENDS Integers, Sequences, FiniteSets

CONSTANTS
  Producers,       \* pods of the producing operation
  Consumers,       \* pods of the consuming operation, numbered in name order
  Segments,        \* every segment that may ever be produced on the channel
  N,               \* the channel's partition count
  PartOf,          \* the partition of each segment
  ProducerOf,      \* the pod holding it; anything else: the coordinator
  Durable,         \* segments announced as durable
  MaxIncarnation,  \* bound: processes a pod runs one after the other
  MaxSegments,     \* the "max" of a consume request
  MaxFaults,       \* bound: lapses, restarts, lost answers, returned deliveries
  Hash,            \* Hash partitioning (else RoundRobin)
  Materialized,    \* Materialized delivery (else Pipelined)
  Retained,        \* Retained durability (else Ephemeral)
  DelayedHeartbeat,\* may a registration of a superseded process still arrive?
  LostAnswers      \* may the answer to a consume be lost?

Pods == Producers \cup Consumers
Parts == 0 .. N - 1
Incarnations == 1 .. MaxIncarnation
Processes == Pods \X Incarnations
None == -1

ASSUME PodsAssumption ==
  /\ Consumers \subseteq Nat
  /\ Producers \cap Consumers = {}

ASSUME SegmentsAssumption ==
  /\ IsFiniteSet(Segments)
  /\ PartOf \in [Segments -> Parts]
  /\ \A s \in Segments : ProducerOf[s] \notin Consumers
  /\ Durable \subseteq Segments

ASSUME BoundsAssumption ==
  /\ N \in Nat /\ MaxIncarnation \in Nat /\ MaxSegments \in Nat /\ MaxFaults \in Nat
  /\ {Hash, Materialized, Retained, DelayedHeartbeat, LostAnswers} \subseteq BOOLEAN

VARIABLES
  \* the pods: operation.pods and operation.retired
  started,      \* (kubelet) processes of the pod started so far
  incarnation,  \* the registered process of a pod, 0 when the pod is unknown
  fresh,        \* lastSeen is within PodTTL
  retired,      \* replaced processes
  \* partition ownership: operation.owner and operation.pinned
  owner, pinned,
  \* the channel
  sealed,
  announced,    \* keys of channel.appendIDs
  forgotten,    \* announced segments no longer in channel.all: bytes may be gone
  queues,       \* channel.queues
  inflight,     \* keys of channel.inflight
  \* the segments
  delivered, acked, retryAfter, lost, released,
  \* the network and the workers
  handed,       \* processes that have received a reference to the segment
  drained,      \* some consumer has been answered Drained
  faults

podVars  == <<started, incarnation, fresh, retired>>
ownVars  == <<owner, pinned>>
segVars  == <<delivered, acked, retryAfter, lost, released>>
chanVars == <<sealed, announced, forgotten, queues, inflight>>
envVars  == <<handed, drained, faults>>
vars     == <<podVars, ownVars, chanVars, segVars, envVars>>

-----------------------------------------------------------------------------
(* Sequences as the Go code uses them.                                     *)

Elems(q) == {q[i] : i \in DOMAIN q}

\* removeSegment: the entries of q that are not in S, in their order.
Without(q, S) ==
  LET kept   == {i \in DOMAIN q : q[i] \notin S}
      nth(j) == CHOOSE i \in kept : Cardinality({k \in kept : k <= i}) = j
  IN  [j \in 1 .. Cardinality(kept) |-> q[nth(j)]]

\* The orders in which Go may range over a map whose keys are S.
Orders(S) ==
  {f \in [1 .. Cardinality(S) -> S] : \A i, j \in DOMAIN f : f[i] = f[j] => i = j}

OnPart(q, p) == Without(q, {s \in Segments : PartOf[s] # p})

-----------------------------------------------------------------------------
(* Liveness of pods.                                                       *)

HeldByPod(s) == ProducerOf[s] \in Producers

Registered(x) == incarnation[x] # 0

\* requireIncarnation
Active(x, i) == Registered(x) /\ incarnation[x] = i

\* The pods expireAllExcept drops when called on behalf of the pods in "skip".
Silent(skip) == {x \in Pods \ skip : Registered(x) /\ ~fresh[x]}

\* Mutant of Leaving: a takeover leaves the old process its deliveries.
LeavingExpiredOnly(gone, replaced) == {r \in Processes : r[1] \in gone}

\* The processes whose deliveries go back when the pods in "gone" expire and
\* the pods in "replaced" are taken over by another process.
Leaving(gone, replaced) ==
  {r \in Processes : r[1] \in gone \/ (r[1] \in replaced /\ r[2] = incarnation[r[1]])}

\* Mutant of LostWith: a holder's expiry also loses what has been released.
LostThoughReleased(gone) ==
  {s \in (announced \ forgotten) \ (Durable \cup lost) : ProducerOf[s] \in gone}

\* expireHolder, markLost
LostWith(gone) ==
  {s \in (announced \ forgotten) \ (Durable \cup released \cup lost) : ProducerOf[s] \in gone}

\* Mutant of ReturnedBy: only an expiry puts deliveries back, a takeover does not.
ReturnedOnExpiry(procs, gone) ==
  {s \in inflight \ (lost \cup LostWith(gone)) : \E r \in delivered[s] \cap procs : r[1] \in gone}

\* returnConsumerDeliveries: what is neither acknowledged nor lost goes back.
ReturnedBy(procs, gone) ==
  {s \in inflight \ (lost \cup LostWith(gone)) : delivered[s] \cap procs # {}}

DeliveredAfter(procs, gone) ==
  [s \in Segments |-> IF s \in LostWith(gone) THEN {} ELSE delivered[s] \ procs]

InflightAfter(procs, gone) ==
  {s \in inflight \ LostWith(gone) : delivered[s] \cap procs = {}}

\* Returned deliveries are put in front of their queue one after the other,
\* in the order the in-flight map happens to be ranged over.
QueuesAfter(order, gone) ==
  [p \in Parts |-> OnPart(order, p) \o Without(queues[p], LostWith(gone))]

OwnerAfter(pods) == [p \in Parts |-> IF owner[p] \in pods THEN None ELSE owner[p]]

PinnedAfter(pods) == {p \in pinned : owner[p] \notin pods}

\* expireAllExcept for the pods in "gone", together with the takeover of the
\* pods in "replaced": everything but the table of pods and the queues that a
\* consume goes on to change.
Drop(gone, replaced, order) ==
  LET procs == Leaving(gone, replaced)
  IN  /\ order \in Orders(ReturnedBy(procs, gone))
      /\ queues'    = QueuesAfter(order, gone)
      /\ inflight'  = InflightAfter(procs, gone)
      /\ delivered' = DeliveredAfter(procs, gone)
      /\ owner'     = OwnerAfter(gone \cup replaced)
      /\ pinned'    = PinnedAfter(gone \cup replaced)
      /\ lost'      = lost \cup LostWith(gone)
      /\ released'  = released \cup LostWith(gone)

-----------------------------------------------------------------------------
(* Partition assignment.                                                   *)

LiveConsumers == {x \in Consumers : Registered(x)}

\* The load balanceHash has given pod x when it comes to partition p.
Load(o, pin, p, x) == Cardinality({r \in Parts : o[r] = x /\ (r \in pin \/ r < p)})

\* Mutants of Balance: pins are ignored; provisional owners are kept; a tie goes to
\* whichever pod comes first in a map.
BalanceAfresh(own, pin, live) ==
  {o \in [Parts -> live] :
     \A p \in Parts, y \in live :
       \/ Load(o, {}, p, o[p]) < Load(o, {}, p, y)
       \/ Load(o, {}, p, o[p]) = Load(o, {}, p, y) /\ o[p] <= y}
BalanceSticky(own, pin, live) ==
  LET kept == {p \in Parts : own[p] \in live}
  IN  {o \in [Parts -> live] :
         \A p \in Parts :
           IF p \in kept
             THEN o[p] = own[p]
             ELSE \A y \in live : \/ Load(o, kept, p, o[p]) < Load(o, kept, p, y)
                                  \/ Load(o, kept, p, o[p]) = Load(o, kept, p, y) /\ o[p] <= y}
BalanceAnyTie(own, pin, live) ==
  LET kept == {p \in pin : own[p] \in live}
  IN  {o \in [Parts -> live] :
         \A p \in Parts :
           IF p \in kept
             THEN o[p] = own[p]
             ELSE \A y \in live : Load(o, kept, p, o[p]) <= Load(o, kept, p, y)}

\* balanceHash: pinned partitions of live owners stay; every other partition,
\* in order, goes to the least loaded pod, the first in name order on a tie.
Balance(own, pin, live) ==
  LET kept == {p \in pin : own[p] \in live}
  IN  {o \in [Parts -> live] :
         \A p \in Parts :
           IF p \in kept
             THEN o[p] = own[p]
             ELSE \A y \in live : \/ Load(o, kept, p, o[p]) < Load(o, kept, p, y)
                                  \/ Load(o, kept, p, o[p]) = Load(o, kept, p, y) /\ o[p] <= y}

\* Mutant of RoundRobin: one pod too many is counted.
RoundRobinOffByOne(live) ==
  {o \in [Parts -> live] :
     \A p \in Parts : Cardinality({y \in live : y < o[p]}) = p % (Cardinality(live) + 1)}

\* channel.assigned for a RoundRobin channel: p % len(ids) is the index of the pod.
RoundRobin(live) ==
  {o \in [Parts -> live] :
     \A p \in Parts : Cardinality({y \in live : y < o[p]}) = p % Cardinality(live)}

\* The map from partition to reading pod that "assigned" computes.
Assignments(own, pin, live) ==
  IF Hash THEN Balance(own, pin, live) ELSE RoundRobin(live)

-----------------------------------------------------------------------------
Init ==
  /\ started = [x \in Pods |-> 1]
  /\ incarnation = [x \in Pods |-> 0]
  /\ fresh = [x \in Pods |-> FALSE]
  /\ retired = {}
  /\ owner = [p \in Parts |-> None]
  /\ pinned = {}
  /\ sealed = FALSE
  /\ announced = {} /\ forgotten = {} /\ inflight = {}
  /\ queues = [p \in Parts |-> << >>]
  /\ delivered = [s \in Segments |-> {}]
  /\ acked = [s \in Segments |-> {}]
  /\ retryAfter = [s \in Segments |-> {}]
  /\ lost = {} /\ released = {}
  /\ handed = [s \in Segments |-> {}]
  /\ drained = FALSE
  /\ faults = 0

Fault == faults < MaxFaults /\ faults' = faults + 1

\* The kubelet restarts the container of pod x: a new process, a new incarnation.
Restart(x) ==
  /\ started[x] < MaxIncarnation
  /\ Fault
  /\ started' = [started EXCEPT ![x] = @ + 1]
  /\ UNCHANGED <<incarnation, fresh, retired, ownVars, chanVars, segVars, handed, drained>>

\* PodTTL passes without a registration or a consume of pod x.
Lapse(x) ==
  /\ Registered(x) /\ fresh[x]
  /\ Fault
  /\ fresh' = [fresh EXCEPT ![x] = FALSE]
  /\ UNCHANGED <<started, incarnation, retired, ownVars, chanVars, segVars, handed, drained>>

\* The retry delay of a returned delivery runs out.
RetryDue(x, i, s) ==
  /\ <<x, i>> \in retryAfter[s]
  /\ retryAfter' = [retryAfter EXCEPT ![s] = @ \ {<<x, i>>}]
  /\ UNCHANGED <<podVars, ownVars, chanVars, delivered, acked, lost, released, envVars>>

\* The process may still have this registration under way.
MaySend(x, i) == i = started[x] \/ (DelayedHeartbeat /\ i < started[x])

\* Register: the first registration, the heartbeat, or the takeover of the pod
\* by another process.  The other silent pods expire first.
Register(x, i) ==
  /\ MaySend(x, i)
  /\ <<x, i>> \notin retired
  /\ LET gone     == Silent({x})
         replaced == {y \in {x} : Registered(x) /\ incarnation[x] # i}
     IN  /\ \E order \in Orders(ReturnedBy(Leaving(gone, replaced), gone)) :
              Drop(gone, replaced, order)
         /\ retired' = retired \cup {<<y, incarnation[y]>> : y \in replaced}
         /\ incarnation' = [y \in Pods |-> IF y = x THEN i
                                           ELSE IF y \in gone THEN 0 ELSE incarnation[y]]
  /\ fresh' = [fresh EXCEPT ![x] = TRUE]
  /\ UNCHANGED <<started, sealed, announced, forgotten, acked, retryAfter, envVars>>

\* Register answers 409 to a replaced process, after expiring the silent pods.
RegisterRefused(x, i) ==
  /\ MaySend(x, i)
  /\ <<x, i>> \in retired
  /\ LET gone == Silent({x})
     IN  /\ \E order \in Orders(ReturnedBy(Leaving(gone, {}), gone)) : Drop(gone, {}, order)
         /\ incarnation' = [y \in Pods |-> IF y \in gone THEN 0 ELSE incarnation[y]]
  /\ UNCHANGED <<started, fresh, retired, sealed, announced, forgotten, acked, retryAfter, envVars>>

\* Metrics, polled by the controller: expireAll.
Metrics ==
  /\ LET gone == Silent({})
     IN  /\ gone # {}
         /\ \E order \in Orders(ReturnedBy(Leaving(gone, {}), gone)) : Drop(gone, {}, order)
         /\ incarnation' = [y \in Pods |-> IF y \in gone THEN 0 ELSE incarnation[y]]
  /\ UNCHANGED <<started, fresh, retired, sealed, announced, forgotten, acked, retryAfter, envVars>>

-----------------------------------------------------------------------------
\* Mutants of Index: a repeated announcement is indexed again; append ids are not
\* recorded.
IndexRepeats(batch) ==
  /\ announced' = announced \cup Elems(batch)
  /\ queues' = [p \in Parts |-> queues[p] \o OnPart(batch, p)]
IndexForgetful(batch) ==
  /\ announced' = announced
  /\ queues' = [p \in Parts |-> queues[p] \o OnPart(Without(batch, announced), p)]

\* index, enqueue: the new segments of the batch, each to the end of its queue
Index(batch) ==
  LET new == Without(batch, announced)
  IN  /\ announced' = announced \cup Elems(new)
      /\ queues' = [p \in Parts |-> queues[p] \o OnPart(new, p)]

\* AnnounceSession: a batch of references, some of which may repeat an earlier
\* announcement whose answer was lost.  A sealed channel refuses new segments.
Announce(x, i, batch) ==
  /\ Active(x, i)
  /\ Elems(batch) \ announced # {} => ~sealed
  /\ Index(batch)
  /\ UNCHANGED <<podVars, ownVars, sealed, forgotten, inflight, segVars, envVars>>

\* Mutant of Produce: a sealed channel accepts new records.
ProduceThoughSealed(batch) ==
  /\ Elems(batch) \cap announced = {}
  /\ Index(batch)
  /\ UNCHANGED <<podVars, ownVars, sealed, forgotten, inflight, segVars, envVars>>

\* Produce: records of an external producer become segments held by the
\* coordinator, each under a new id.
Produce(batch) ==
  /\ ~sealed
  /\ Elems(batch) \cap announced = {}
  /\ Index(batch)
  /\ UNCHANGED <<podVars, ownVars, sealed, forgotten, inflight, segVars, envVars>>

\* Seal
Seal ==
  /\ ~sealed
  /\ sealed' = TRUE
  /\ UNCHANGED <<podVars, ownVars, announced, forgotten, queues, inflight, segVars, envVars>>

-----------------------------------------------------------------------------
\* gated
Gated == Materialized /\ ~sealed

\* quiet
Quiet(flight, q) == flight = {} /\ \A p \in Parts : q[p] = << >>

\* The entry at t = <<partition, position>> of the queues.
At(q, t) == q[t[1]][t[2]]

\* What process r may be handed from the partitions it reads: the front of each
\* queue, up to the first entry still waiting out a retry delay for r.
Ready(q, mine, r) ==
  {t \in UNION {{p} \X DOMAIN q[p] : p \in mine} :
     \A j \in 1 .. t[2] : r \notin retryAfter[q[t[1]][j]]}

\* The first "max" of those, lower partitions first.
Taken(q, mine, r) ==
  LET upTo(t) == {u \in Ready(q, mine, r) : u[1] < t[1] \/ (u[1] = t[1] /\ u[2] <= t[2])}
  IN  {t \in Ready(q, mine, r) : Cardinality(upTo(t)) <= MaxSegments}

\* ConsumeSession: refresh the caller, expire the silent pods, assign the
\* partitions, hand over the front of the caller's queues and pin the partitions
\* it was given work of.  "arrives": the answer reaches the process.
Consume(x, i, arrives) ==
  /\ x \in Consumers /\ Active(x, i)
  /\ LET gone  == Silent({x})
         procs == Leaving(gone, {})
         live  == LiveConsumers \ gone
         pin   == PinnedAfter(gone)
     IN  \E order \in Orders(ReturnedBy(procs, gone)),
            o \in Assignments(OwnerAfter(gone), pin, live) :
           LET q     == QueuesAfter(order, gone)
               taken == IF Gated THEN {} ELSE Taken(q, {p \in Parts : o[p] = x}, <<x, i>>)
               work  == {At(q, t) : t \in taken}
           IN  /\ queues'    = [p \in Parts |-> Without(q[p], work)]
               /\ inflight'  = InflightAfter(procs, gone) \cup work
               /\ delivered' = [s \in Segments |-> DeliveredAfter(procs, gone)[s] \cup
                                                     (IF s \in work THEN {<<x, i>>} ELSE {})]
               /\ handed'    = [s \in Segments |-> handed[s] \cup
                                                     (IF arrives /\ s \in work THEN {<<x, i>>} ELSE {})]
               /\ owner'     = IF Hash /\ ~Gated THEN o ELSE OwnerAfter(gone)
               /\ pinned'    = IF Hash /\ ~Gated THEN pin \cup {t[1] : t \in taken} ELSE pin
               /\ lost'      = lost \cup LostWith(gone)
               /\ released'  = released \cup LostWith(gone)
               /\ incarnation' = [y \in Pods |-> IF y \in gone THEN 0 ELSE incarnation[y]]
  /\ fresh' = [fresh EXCEPT ![x] = TRUE]
  /\ drained' = (drained \/ (arrives /\ sealed /\ Quiet(inflight', queues')))
  /\ IF arrives THEN UNCHANGED faults ELSE LostAnswers /\ Fault
  /\ UNCHANGED <<started, retired, sealed, announced, forgotten, acked, retryAfter>>

\* AckSession: only a delivery the calling process still holds counts, and one
\* acknowledgement releases the segment; the coordinator drops its own copy.
Ack(x, i, s) ==
  /\ Active(x, i)
  /\ <<x, i>> \in handed[s]
  /\ s \notin lost /\ <<x, i>> \in delivered[s]
  /\ delivered'  = [delivered EXCEPT ![s] = @ \ {<<x, i>>}]
  /\ retryAfter' = [retryAfter EXCEPT ![s] = @ \ {<<x, i>>}]
  /\ acked'      = [acked EXCEPT ![s] = @ \cup {x}]
  /\ inflight'   = IF delivered'[s] = {} THEN inflight \ {s} ELSE inflight
  /\ released'   = released \cup {s}
  /\ forgotten'  = IF HeldByPod(s) \/ Retained THEN forgotten ELSE forgotten \cup {s}
  /\ UNCHANGED <<podVars, ownVars, sealed, announced, queues, lost, envVars>>

\* NackSession: the process gives the delivery back, to the front of its queue,
\* possibly asking not to be handed it again for a while.
Nack(x, i, s, delay) ==
  /\ Active(x, i)
  /\ <<x, i>> \in handed[s]
  /\ <<x, i>> \in delivered[s]
  /\ Fault
  /\ delivered'  = [delivered EXCEPT ![s] = @ \ {<<x, i>>}]
  /\ retryAfter' = IF delay THEN [retryAfter EXCEPT ![s] = @ \cup {<<x, i>>}] ELSE retryAfter
  /\ inflight'   = IF delivered'[s] = {} THEN inflight \ {s} ELSE inflight
  /\ queues'     = IF s \notin lost \cup released \cup Elems(queues[PartOf[s]])
                     THEN [queues EXCEPT ![PartOf[s]] = <<s>> \o @]
                     ELSE queues
  /\ UNCHANGED <<podVars, ownVars, sealed, announced, forgotten, acked, lost, released, handed, drained>>

\* Mutant of Released: everything the caller holds is reported deletable.
ReleasedUnasked(x, i) ==
  /\ Active(x, i)
  /\ LET gone == Silent({})
     IN  /\ \E order \in Orders(ReturnedBy(Leaving(gone, {}), gone)) : Drop(gone, {}, order)
         /\ incarnation' = [y \in Pods |-> IF y \in gone THEN 0 ELSE incarnation[y]]
  /\ forgotten' = forgotten \cup {s \in announced : ProducerOf[s] = x /\ ~Retained}
  /\ UNCHANGED <<started, fresh, retired, sealed, announced, acked, retryAfter, envVars>>

\* ReleasedSession: expire the silent pods, then report the caller's released
\* segments for deletion and forget them.
Released(x, i) ==
  /\ Active(x, i)
  /\ LET gone == Silent({})
     IN  /\ \E order \in Orders(ReturnedBy(Leaving(gone, {}), gone)) : Drop(gone, {}, order)
         /\ incarnation' = [y \in Pods |-> IF y \in gone THEN 0 ELSE incarnation[y]]
  /\ forgotten' = forgotten \cup {s \in announced : ProducerOf[s] = x /\ s \in released' /\ ~Retained}
  /\ UNCHANGED <<started, fresh, retired, sealed, announced, acked, retryAfter, envVars>>

-----------------------------------------------------------------------------
SegmentsHeldBy(x) == {s \in Segments : ProducerOf[s] = x}
SegmentsOfCoordinator == {s \in Segments : ~HeldByPod(s)}
Batches(S) == UNION {Orders(B) : B \in SUBSET S}

Next ==
  \/ \E x \in Pods : Restart(x)
  \/ \E x \in Pods : Lapse(x)
  \/ \E x \in Pods, i \in Incarnations : Register(x, i)
  \/ \E x \in Pods, i \in Incarnations : RegisterRefused(x, i)
  \/ Metrics
  \/ \E x \in Producers, i \in Incarnations : \E batch \in Batches(SegmentsHeldBy(x)) : Announce(x, i, batch)
  \/ \E batch \in Batches(SegmentsOfCoordinator) : Produce(batch)
  \/ Seal
  \/ \E x \in Consumers, i \in Incarnations, arrives \in BOOLEAN : Consume(x, i, arrives)
  \/ \E x \in Consumers, i \in Incarnations, s \in Segments : Ack(x, i, s)
  \/ \E x \in Consumers, i \in Incarnations, s \in Segments, delay \in BOOLEAN : Nack(x, i, s, delay)
  \/ \E x \in Consumers, i \in Incarnations, s \in Segments : RetryDue(x, i, s)
  \/ \E x \in Producers, i \in Incarnations : Released(x, i)

Spec == Init /\ [][Next]_vars

-----------------------------------------------------------------------------
(* Properties.                                                             *)

\* The types of the coordinator's maps and of the history variables.
TypeOK ==
  /\ started \in [Pods -> Nat]
  /\ incarnation \in [Pods -> 0 .. MaxIncarnation]
  /\ fresh \in [Pods -> BOOLEAN]
  /\ retired \subseteq Processes
  /\ owner \in [Parts -> Consumers \cup {None}]
  /\ pinned \subseteq Parts
  /\ sealed \in BOOLEAN /\ drained \in BOOLEAN
  /\ announced \subseteq Segments /\ forgotten \subseteq announced
  /\ queues \in [Parts -> Seq(Segments)]
  /\ inflight \subseteq Segments
  /\ delivered \in [Segments -> SUBSET Processes]
  /\ acked \in [Segments -> SUBSET Consumers]
  /\ retryAfter \in [Segments -> SUBSET Processes]
  /\ lost \subseteq released /\ released \subseteq announced
  /\ handed \in [Segments -> SUBSET Processes]
  /\ faults \in Nat

Queued == UNION {Elems(queues[p]) : p \in Parts}

\* No queue holds a segment twice, or a segment of another partition.
QueuesWellFormed ==
  \A p \in Parts :
    /\ \A j, k \in DOMAIN queues[p] : queues[p][j] = queues[p][k] => j = k
    /\ \A s \in Elems(queues[p]) : PartOf[s] = p

\* Nothing falls between the chairs: whatever the order of registrations,
\* expiries, acknowledgements and returns, a segment that has been announced and
\* not released is either waiting, once, in the queue of its partition or in
\* flight, and a released one is in neither place and with nobody.
Conserved ==
  /\ QueuesWellFormed
  /\ Queued \cap inflight = {}
  /\ Queued \cup inflight = announced \ released

\* A segment is in flight exactly when some process holds it, and then it is one
\* process, the one its pod has registered now: an expired or replaced process
\* keeps no claim on a delivery (expireConsumer, Register).
Fenced ==
  \A s \in Segments :
    /\ s \in inflight <=> delivered[s] # {}
    /\ \A r \in delivered[s] : r[1] \in Consumers /\ incarnation[r[1]] = r[2]
    /\ \A r, t \in delivered[s] : r = t

\* Key affinity: whatever a Hash channel has in flight from a partition is with
\* that partition's owner, and the ownership is pinned, so the records of one key
\* are never with two processes at once (balanceHash, assigned).
Affinity ==
  Hash => \A s \in inflight : \A r \in delivered[s] :
            /\ owner[PartOf[s]] = r[1]
            /\ PartOf[s] \in pinned

\* A pinned partition has a registered owner.
PinnedOwned == \A p \in pinned : owner[p] \in LiveConsumers

\* Reported deletable means unneeded: a segment whose holder has been told to
\* delete it, or whose copy the coordinator has dropped, is never handed out again
\* (ReleasedSession, release).
DeletedUnneeded == forgotten \cap (Queued \cup inflight) = {}

\* Loss is reported only for what really was lost: not for a segment a consumer
\* acknowledged, not for a durable one, not for one the coordinator holds.  The
\* controller fails the whole workload on any loss (expireHolder, markLost).
LossIsReal == \A s \in lost : acked[s] = {} /\ s \notin Durable /\ HeldByPod(s)

\* Once a consumer has been told that the channel is drained, it runs its drain
\* step and reports done: from then on nothing is waiting, nothing in flight, and
\* every segment was acknowledged by a consumer or counted as lost (ConsumeSession).
DrainedIsFinal ==
  drained => /\ sealed
             /\ Queued \cup inflight = {}
             /\ \A s \in announced : acked[s] # {} \/ s \in lost

\* Whatever the registrations, a partition has exactly one reader: the assignment
\* a consume would compute exists, is unique, and is unchanged by computing it
\* again, so ownership does not flap (balanceHash, assigned).
OneReaderPerPartition ==
  LET live == LiveConsumers
  IN  live # {} =>
        \E o \in Assignments(owner, pinned, live) :
          /\ o \in [Parts -> live]
          /\ Assignments(owner, pinned, live) = {o}
          /\ Assignments(o, pinned, live) = {o}

\* A pod that joins still gets a share: no two live pods differ by more than one
\* in the partitions they read, unless the busier one is kept busy by partitions
\* that are pinned to it (balanceHash).
SharesAreEven ==
  \A o \in Assignments(owner, pinned, LiveConsumers) :
    \A x, y \in LiveConsumers :
      LET reads(z) == {p \in Parts : o[p] = z}
          kept(z)  == {p \in reads(z) : Hash /\ p \in pinned}
      IN  \/ Cardinality(reads(x)) <= Cardinality(reads(y)) + 1
          \/ reads(x) = kept(x)

\* A pinned partition moves only when its owner's process is gone: the partition's
\* in-memory state lives in that process (balanceHash, returnConsumerDeliveries).
PinnedStays ==
  [][\A p \in pinned :
       incarnation'[owner[p]] = incarnation[owner[p]] => p \in pinned' /\ owner'[p] = owner[p]]_vars

\* What is settled stays settled: a segment once released is never announced into
\* a queue again, however often its announcement is repeated, and no segment is
\* added to a sealed channel (AnnounceSession, index).
SettledStays ==
  [][/\ released \subseteq released'
     /\ Queued' \cap released = {}
     /\ sealed => sealed' /\ announced' = announced]_vars

-----------------------------------------------------------------------------
(* Progress.  The fairness is that of the worker's loops (sdk.Run and       *)
(* sdk.heartbeat): the pod's current process keeps registering and keeps    *)
(* polling, acknowledges what it has been handed, and delays run out.       *)

Fairness ==
  /\ \A x \in Consumers, i \in Incarnations :
       /\ WF_vars(i = started[x] /\ Register(x, i))
       /\ WF_vars(i = started[x] /\ Consume(x, i, TRUE))
       /\ \A s \in Segments :
            /\ WF_vars(i = started[x] /\ Ack(x, i, s))
            /\ WF_vars(RetryDue(x, i, s))
  /\ WF_vars(Seal)

FairSpec == Spec /\ Fairness

\* At-least-once delivery: every segment announced is eventually acknowledged, or
\* lost with its holder.
EventuallySettled == \A s \in Segments : s \in announced ~> s \in released

=============================================================================
