----------------------------- MODULE Broadcast -----------------------------
(***************************************************************************)
(* One Broadcast channel and the replicas of its consuming operation       *)
(* (src/pkg/coordinator/coordinator.go): a log instead of queues, a cursor *)
(* per pod, acknowledgements counted per cohort slot, and the release of a *)
(* segment once as many slots have acknowledged it as there are replicas.  *)
(*                                                                         *)
(* Slots are handed out lowest first and inherited: the pod that takes the *)
(* slot of a replica that is gone takes over what that replica has read.   *)
(* One action is one handler, the expiries and the sweep it makes          *)
(* included; the sources of trouble are pods that fall silent, restart, or *)
(* are replaced by pods of another name.                                   *)
(***************************************************************************)
EXTENDS Integers, Sequences, FiniteSets

CONSTANTS
  Consumers,      \* pods that may ever run for the consuming operation
  Original,       \* those the Deployment starts first
  Segments,       \* numbered in the order of their announcement
  Replicas,       \* the replica count the controller publishes
  MaxSegments,    \* the "max" of a consume request
  MaxProcess,     \* bound: processes a pod runs one after the other
  MaxFaults,      \* bound: lapses, restarts, returned deliveries, replaced pods
  HolderMayFail,  \* may the pod holding the segments fall silent?
  Overlap         \* may a replacement start before the replaced pod has expired?

ASSUME BroadcastAssumption ==
  /\ IsFiniteSet(Consumers) /\ Original \subseteq Consumers
  /\ Cardinality(Original) = Replicas /\ Segments \subseteq Nat
  /\ {Replicas, MaxSegments, MaxProcess, MaxFaults} \subseteq Nat \ {0}
  /\ {HolderMayFail, Overlap} \subseteq BOOLEAN

VARIABLES
  \* the cluster
  running,      \* pods the Deployment runs
  process,      \* processes of the pod started so far
  up,           \* pods whose current process has not exited
  hand,         \* what the process of a pod has been handed and not finished
  told,         \* pods whose process has been answered Drained and has not reported done
  idle,         \* pods whose process has reported done: it sends heartbeats and reads no more
  \* operation: pods, freeCohortSlots, nextCohortSlot, replicas, completed
  incarnation,  \* the registered process, 0 when the pod is unknown
  fresh, slot, done,
  freeSlots, nextSlot, replicas, completed,
  \* channel: log, cursor, sealed; segment: delivered, acked, lost, released
  log, cursor, sealed, delivered, acked, lost, released,
  holder,       \* the pod holding the segments: "live", "silent" or "gone"
  \* history
  faults

clusterVars == <<running, process, up, hand, told, idle>>
opVars      == <<incarnation, fresh, slot, done, freeSlots, nextSlot, replicas, completed>>
chanVars    == <<log, cursor, sealed, delivered, acked, lost, released, holder>>
vars        == <<clusterVars, opVars, chanVars, faults>>

None == -1
Elems(q) == {q[i] : i \in DOMAIN q}
Lowest(S) == CHOOSE m \in S : \A k \in S : m <= k
Larger(m, n) == IF m < n THEN n ELSE m

-----------------------------------------------------------------------------
Registered(x) == incarnation[x] # 0

\* requireIncarnation, for the process the pod is running
Active(x) == x \in up /\ incarnation[x] = process[x]

Silent(skip) == {x \in Consumers \ skip : Registered(x) /\ ~fresh[x]}
Remaining(gone) == {x \in Consumers : Registered(x)} \ gone

\* expireHolder: what has not been released is lost with its holder, and is no longer
\* in flight anywhere (Withdrawn).
LostAfter == IF holder = "silent" THEN lost \cup (Elems(log) \ released) ELSE lost

\* Mutant of EveryReplica: only the registered pods are counted.
RegisteredReplicas(acks, live) == live # {} /\ Cardinality(acks) >= Cardinality(live)

\* consumedByEveryReplica
EveryReplica(acks, live) ==
  LET want == Larger(replicas, Cardinality(live))
  IN  want # 0 /\ Cardinality(acks) >= want

\* releaseBroadcast, called by settle
Swept(ackedNow, lostNow, live) ==
  released \cup lostNow \cup {s \in Elems(log) \ lostNow : EveryReplica(ackedNow[s], live)}

\* expireAllExcept, as far as no handler goes on to change it
Expire(gone) ==
  /\ incarnation' = [x \in Consumers |-> IF x \in gone THEN 0 ELSE incarnation[x]]
  /\ freeSlots' = freeSlots \cup {slot[x] : x \in gone}
  /\ lost' = LostAfter
  /\ holder' = IF holder = "silent" THEN "gone" ELSE holder

\* The deliveries an expiry leaves: returnConsumerDeliveries takes away those of the
\* pods, and has no queue to put a segment back into; markLost takes away every
\* delivery of a lost segment.
Withdrawn(pods) == [s \in Segments |-> IF s \in LostAfter THEN {} ELSE delivered[s] \ pods]

\* Their cursor is forgotten: a pod reads the log from its start when it comes back.
Rewound(pods) == [x \in Consumers |-> IF x \in pods THEN None ELSE cursor[x]]

\* quiet: every known cursor has passed everything, and nothing is in flight.
Quiet(cur, dlv, rel) ==
  LET unread(from) == {i \in from + 1 .. Len(log) : log[i] \notin rel}
      known == {x \in Consumers : cur[x] # None}
  IN  /\ IF known = {} THEN unread(0) = {} ELSE \A x \in known : unread(cur[x]) = {}
      /\ \A s \in Segments : dlv[s] = {}

-----------------------------------------------------------------------------
Init ==
  /\ running = {} /\ up = {} /\ told = {} /\ idle = {}
  /\ process = [x \in Consumers |-> 0]
  /\ hand = [x \in Consumers |-> {}]
  /\ incarnation = [x \in Consumers |-> 0]
  /\ fresh = [x \in Consumers |-> FALSE]
  /\ slot = [x \in Consumers |-> None]
  /\ done = {} /\ freeSlots = {} /\ nextSlot = 0
  /\ replicas = 0 /\ completed = FALSE
  /\ log = << >> /\ sealed = FALSE
  /\ cursor = [x \in Consumers |-> None]
  /\ delivered = [s \in Segments |-> {}]
  /\ acked = [s \in Segments |-> {}]
  /\ lost = {} /\ released = {}
  /\ holder = "live"
  /\ faults = 0

Fault == faults < MaxFaults /\ faults' = faults + 1

\* SetOperations: the controller publishes the replica count before it creates
\* the Deployment.
SetOperations ==
  /\ replicas = 0
  /\ replicas' = Replicas
  /\ UNCHANGED <<clusterVars, incarnation, fresh, slot, done, freeSlots, nextSlot, completed,
                 chanVars, faults>>

\* The Deployment starts a pod: the original ones, or a replacement.
Start(x) ==
  /\ replicas # 0
  /\ process[x] = 0
  /\ Cardinality(running \cup (IF Overlap THEN {} ELSE {y \in Consumers : Registered(y)})) < Replicas
  /\ x \in Original \/ \A y \in Original : process[y] # 0 \/ y \in running
  /\ x \notin Original => \E y \in Original : process[y] # 0 /\ y \notin running
  /\ running' = running \cup {x}
  /\ up' = up \cup {x}
  /\ process' = [process EXCEPT ![x] = 1]
  /\ UNCHANGED <<hand, told, idle, opVars, chanVars, faults>>

\* The process exits and the kubelet starts the next one in the same pod.
Restart(x) ==
  /\ x \in running /\ process[x] < MaxProcess
  /\ IF x \in up THEN Fault ELSE UNCHANGED faults
  /\ process' = [process EXCEPT ![x] = @ + 1]
  /\ up' = up \cup {x}
  /\ hand' = [hand EXCEPT ![x] = {}]
  /\ told' = told \ {x} /\ idle' = idle \ {x}
  /\ UNCHANGED <<running, opVars, chanVars>>

\* The pod is evicted; the Deployment will start another in its place.
Evict(x) ==
  /\ x \in running
  /\ Fault
  /\ running' = running \ {x}
  /\ up' = up \ {x}
  /\ hand' = [hand EXCEPT ![x] = {}]
  /\ told' = told \ {x} /\ idle' = idle \ {x}
  /\ UNCHANGED <<process, opVars, chanVars>>

\* PodTTL passes in silence; a pod that no longer runs is always silent in the end.
Lapse(x) ==
  /\ Registered(x) /\ fresh[x]
  /\ IF x \in running THEN Fault ELSE UNCHANGED faults
  /\ fresh' = [fresh EXCEPT ![x] = FALSE]
  /\ UNCHANGED <<clusterVars, incarnation, slot, done, freeSlots, nextSlot, replicas, completed, chanVars>>

\* The pod holding the segments falls silent.
HolderLapses ==
  /\ HolderMayFail /\ holder = "live"
  /\ Fault
  /\ holder' = "silent"
  /\ UNCHANGED <<clusterVars, opVars, log, cursor, sealed, delivered, acked, lost, released>>

-----------------------------------------------------------------------------
\* touch: an unknown pod takes the lowest free slot, or a new one.
SlotFor(x, free) ==
  IF Registered(x) THEN slot[x] ELSE IF free # {} THEN Lowest(free) ELSE nextSlot

\* Register: the first registration, a heartbeat, or the takeover of the pod by
\* its next process, which gives back what the old one had under way.
Register(x) ==
  /\ x \in up
  /\ LET gone  == Silent({x})
         taken == IF Registered(x) /\ incarnation[x] # process[x] THEN {x} ELSE {}
         free  == freeSlots \cup {slot[y] : y \in gone}
         mine  == SlotFor(x, free)
     IN  /\ incarnation' = [y \in Consumers |->
                              IF y = x THEN process[x] ELSE IF y \in gone THEN 0 ELSE incarnation[y]]
         /\ slot' = [slot EXCEPT ![x] = mine]
         /\ freeSlots' = free \ {mine}
         /\ nextSlot' = IF mine = nextSlot THEN nextSlot + 1 ELSE nextSlot
         /\ cursor' = Rewound(gone \cup taken)
         /\ delivered' = Withdrawn(gone \cup taken)
         /\ done' = (done \ gone) \ taken
         /\ completed' = (completed /\ taken = {})
  /\ lost' = LostAfter
  /\ released' = released \cup LostAfter
  /\ holder' = IF holder = "silent" THEN "gone" ELSE holder
  /\ fresh' = [fresh EXCEPT ![x] = TRUE]
  /\ UNCHANGED <<clusterVars, replicas, log, sealed, acked, faults>>

\* AnnounceSession, for a holder that is still registered
Announce(s) ==
  /\ holder # "gone" /\ ~sealed
  /\ s \notin Elems(log) /\ \A r \in Segments \ Elems(log) : s <= r
  /\ log' = Append(log, s)
  /\ UNCHANGED <<clusterVars, opVars, cursor, sealed, delivered, acked, lost, released, holder, faults>>

Seal ==
  /\ ~sealed
  /\ sealed' = TRUE
  /\ UNCHANGED <<clusterVars, opVars, log, cursor, delivered, acked, lost, released, holder, faults>>

-----------------------------------------------------------------------------
\* Mutant of Offered: what another process has been handed is passed over.
OfferedOnce(x, cur, rel) ==
  {i \in cur + 1 .. Len(log) : log[i] \notin rel /\ slot[x] \notin acked[log[i]] /\ delivered[log[i]] = {}}

\* The entries of the log a consume of pod x would hand over.
Offered(x, cur, rel) ==
  {i \in cur + 1 .. Len(log) : log[i] \notin rel /\ slot[x] \notin acked[log[i]]}

\* ConsumeSession: expire the silent pods, sweep, then hand over the log from the
\* pod's cursor on, without what is lost, released or acknowledged by its slot.  The
\* worker polls when it has finished what it was handed, until it is told Drained.
Consume(x) ==
  /\ Active(x) /\ hand[x] = {} /\ x \notin told \cup idle
  /\ LET gone  == Silent({x})
         from  == IF cursor[x] = None THEN 0 ELSE cursor[x]
         rel   == Swept(acked, LostAfter, Remaining(gone))
         open  == Offered(x, from, rel)
         taken == {i \in open : Cardinality({j \in open : j <= i}) <= MaxSegments}
         work  == {log[i] : i \in taken}
         to    == IF Cardinality(open) <= MaxSegments THEN Len(log)
                  ELSE CHOOSE i \in taken : \A j \in taken : j <= i
     IN  /\ Expire(gone)
         /\ released' = rel
         /\ cursor' = [Rewound(gone) EXCEPT ![x] = to]
         /\ delivered' = [s \in Segments |-> Withdrawn(gone)[s] \cup (IF s \in work THEN {x} ELSE {})]
         /\ hand' = [hand EXCEPT ![x] = @ \cup work]
         /\ done' = done \ gone
         /\ told' = IF sealed /\ Quiet(cursor', delivered', rel) THEN told \cup {x} ELSE told
  /\ fresh' = [fresh EXCEPT ![x] = TRUE]
  /\ UNCHANGED <<running, process, up, idle, slot, nextSlot, replicas, completed, log, sealed, acked, faults>>

\* Mutant of Acknowledger: acknowledgements are counted per pod.
AcknowledgerPod(x) == 100 + x

\* cohortKey: the acknowledgement counts for the slot, not for the pod.
Acknowledger(x) == slot[x]

\* AckSession, after the callback has processed the segment: counted if the
\* delivery is still the caller's, then swept.
Ack(x, s) ==
  /\ Active(x) /\ s \in hand[x]
  /\ LET owned == x \in delivered[s] /\ s \notin lost
     IN  /\ acked' = IF owned THEN [acked EXCEPT ![s] = @ \cup {Acknowledger(x)}] ELSE acked
         /\ delivered' = IF owned THEN [delivered EXCEPT ![s] = @ \ {x}] ELSE delivered
  /\ released' = Swept(acked', lost, Remaining({}))
  /\ hand' = [hand EXCEPT ![x] = @ \ {s}]
  /\ UNCHANGED <<running, process, up, told, idle, opVars, log, cursor, sealed, lost, holder, faults>>

\* NackSession after a failed fetch, and the worker exits: the pod's cursor goes
\* back to the start of the log.
Nack(x, s) ==
  /\ Active(x) /\ s \in hand[x]
  /\ Fault
  /\ LET owned == x \in delivered[s]
     IN  /\ delivered' = IF owned THEN [delivered EXCEPT ![s] = @ \ {x}] ELSE delivered
         /\ cursor' = IF owned THEN [cursor EXCEPT ![x] = 0] ELSE cursor
  /\ released' = Swept(acked, lost, Remaining({}))
  /\ up' = up \ {x}
  /\ hand' = [hand EXCEPT ![x] = {}]
  /\ told' = told \ {x} /\ idle' = idle \ {x}
  /\ UNCHANGED <<running, process, opVars, log, sealed, acked, lost, holder>>

\* The answer 409 to an acknowledgement or a done report of a pod that has
\* expired ends the worker.
Refused(x) ==
  /\ x \in up /\ ~Registered(x)
  /\ hand[x] # {} \/ x \in told
  /\ up' = up \ {x}
  /\ hand' = [hand EXCEPT ![x] = {}]
  /\ told' = told \ {x} /\ idle' = idle \ {x}
  /\ UNCHANGED <<running, process, opVars, chanVars, faults>>

\* The worker was answered Drained and reports done (SourceDone); from then on it idles.
SourceDone(x) ==
  /\ Active(x) /\ x \in told
  /\ done' = done \cup {x}
  /\ told' = told \ {x} /\ idle' = idle \cup {x}
  /\ UNCHANGED <<running, process, up, hand, incarnation, fresh, slot, freeSlots, nextSlot, replicas, completed,
                 chanVars, faults>>

\* Mutant of Complete: enough that the channel is drained for the pods there are.
CompleteWhenQuiet(gone, rel) ==
  /\ sealed /\ Quiet(Rewound(gone), Withdrawn(gone), rel)
  /\ Remaining(gone) # {} \/ completed
  /\ Remaining(gone) \subseteq done

\* operationMetrics for the consuming operation
Complete(gone, rel) ==
  /\ sealed /\ Quiet(Rewound(gone), Withdrawn(gone), rel)
  /\ \A s \in Elems(log) \ rel : EveryReplica(acked[s], Remaining(gone))
  /\ completed \/ (Remaining(gone) # {} /\ Cardinality(Remaining(gone)) >= replicas)
  /\ Remaining(gone) \subseteq done

\* Metrics, polled by the controller: expire, sweep, and decide completion.
Metrics ==
  /\ LET gone == Silent({})
         rel  == Swept(acked, LostAfter, Remaining(gone))
         runnable == \E x \in Consumers \cup {None} :
                       LET from == IF x = None THEN 0 ELSE Rewound(gone)[x]
                       IN  /\ IF x = None THEN \A y \in Consumers : Rewound(gone)[y] = None ELSE from # None
                           /\ \E i \in from + 1 .. Len(log) : log[i] \notin rel
     IN  /\ Expire(gone)
         /\ released' = rel
         /\ cursor' = Rewound(gone)
         /\ delivered' = Withdrawn(gone)
         /\ done' = done \ gone
         /\ completed' = (Complete(gone, rel) \/ (completed /\ ~runnable))
  /\ UNCHANGED <<clusterVars, fresh, slot, nextSlot, replicas, log, sealed, acked, faults>>

Next ==
  \/ SetOperations \/ Seal \/ HolderLapses \/ Metrics
  \/ \E s \in Segments : Announce(s)
  \/ \E x \in Consumers :
       \/ Start(x) \/ Restart(x) \/ Evict(x) \/ Lapse(x)
       \/ Register(x) \/ Consume(x) \/ Refused(x) \/ SourceDone(x)
       \/ \E s \in Segments : Ack(x, s) \/ Nack(x, s)

Spec == Init /\ [][Next]_vars

\* The next step of a worker's loop
Worker(x) == Consume(x) \/ Refused(x) \/ SourceDone(x) \/ \E s \in Segments : Ack(x, s)

\* What the Deployment, the kubelet, the workers' loops and the controller's poll
\* do as long as they run.
Fairness ==
  /\ WF_vars(SetOperations) /\ WF_vars(Metrics)
  /\ WF_vars(\E x \in Consumers : Start(x))
  /\ WF_vars(\E x \in Consumers \ up : Restart(x))
  /\ WF_vars(\E x \in Consumers \ running : Lapse(x))
  /\ \A x \in Consumers :
       WF_vars(Register(x)) /\ WF_vars(Worker(x))

FairSpec == Spec /\ Fairness
-----------------------------------------------------------------------------
TypeOK ==
  /\ running \subseteq Consumers /\ up \subseteq running /\ told \cup idle \subseteq up
  /\ process \in [Consumers -> 0 .. MaxProcess] /\ incarnation \in [Consumers -> 0 .. MaxProcess]
  /\ hand \in [Consumers -> SUBSET Segments]
  /\ fresh \in [Consumers -> BOOLEAN] /\ slot \in [Consumers -> Nat \cup {None}]
  /\ done \subseteq Consumers /\ freeSlots \subseteq 0 .. nextSlot - 1 /\ nextSlot \in Nat
  /\ replicas \in {0, Replicas} /\ completed \in BOOLEAN
  /\ log \in Seq(Segments) /\ sealed \in BOOLEAN
  /\ cursor \in [Consumers -> {None} \cup 0 .. Len(log)]
  /\ delivered \in [Segments -> SUBSET Consumers]
  /\ acked \in [Segments -> SUBSET (0 .. nextSlot - 1)]
  /\ lost \subseteq released /\ released \subseteq Elems(log)
  /\ holder \in {"live", "silent", "gone"}
  /\ faults \in 0 .. MaxFaults

\* A segment is released, and its bytes deleted, only after every slot of the
\* cohort has acknowledged it, whichever replicas came, went, were silent or
\* have not started yet (consumedByEveryReplica counts, touch allots the slots).
EverySlotReads ==
  \A s \in released \ lost : 0 .. Replicas - 1 \subseteq acked[s]

\* When the operation is reported complete, every slot of the cohort has read
\* every segment that was not lost, be it lost on the log or in flight
\* (operationMetrics, broadcastFullyConsumed, markLost).
CompleteMeansRead ==
  completed => \A s \in Elems(log) \ lost : 0 .. Replicas - 1 \subseteq acked[s]

\* A process that idles and is registered in a slot that has not acknowledged s: it
\* lapsed, another pod took its slot and what was read in it, and its heartbeat got it
\* a new one.  It is counted as a replica and never reads again.
Overslept(s) == \E x \in idle : Registered(x) /\ slot[x] \notin acked[s]

\* Every announced segment is released in the end, lost or read by every replica: no
\* lapse, restart, return or replacement leaves one waiting for an acknowledgement that
\* nobody will send, but for a replica that has gone idle in another slot (touch,
\* consumedByEveryReplica, Run, idle).
EventuallyReleased ==
  \A s \in Segments : s \in Elems(log) ~> s \in released \/ []Overslept(s)

\* "consumedByEveryReplica reports whether every replica of the consuming operation
\* has acknowledged the segment" (coordinator.go:1457): whenever a segment is released,
\* each replica registered then has acknowledged it, itself or in the slot it took over.
EveryReplicaHasIt ==
  [][\A s \in (released' \ released) \ lost', x \in Consumers :
       incarnation'[x] # 0 => slot'[x] \in acked'[s]]_vars
=============================================================================
