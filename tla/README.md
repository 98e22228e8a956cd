# Verification of stark8s

stark8s runs record-processing graphs on Kubernetes. This directory holds TLA+
models of its coordination logic, the TLC configurations that check them on small
instances, and TLAPS proofs of the properties that matter most, for every value of
the constants. Paths below are relative to the repository.

## 1. The system

| Part | State | Operations |
|---|---|---|
| **Coordinator, delivery** (`pkg/coordinator/coordinator.go`) | per operation: pods, their process incarnation, `lastSeen`, retired incarnations, partition owners and pins; per channel: seal, queues per partition, in-flight map, append ids; per segment: delivered-to, acked-by, retry delays, lost, released | Register (also the heartbeat), expiry, Announce, Produce, Seal, Consume, Ack, Nack, Released, Metrics |
| **Coordinator, Broadcast** | log, a cursor per pod, acknowledgements per cohort slot, published replica count | Consume, Ack, `releaseBroadcast`, SetOperations |
| **Coordinator, epochs and loops** | current epoch, production-closed epochs, held segments, done reports | EpochDone, `advanceEpoch`, `settle` |
| **Coordinator, subscriptions** (`subscriptions.go`) | retained history, base offsets, named positions, one in-flight delivery per partition | Append, SetSubscription, Consume, Ack, Replay, DeleteRetainedBefore |
| **Durable coordinator** (`persistence.go`, `NewDurable`) | checkpoint version, tombstones, the `failed` latch | claim + restore, commit after every handler |
| **Storage** (`pkg/storage`) | objects with versions | PutImmutable, Get, CompareAndSwap, Delete; Claim and Commit on top |
| **Worker** (`pkg/sdk`) | buffers, segment files, blobs, an optional checkpoint | consume, fetch, callback, flush, ack; heartbeat; release of segments; checkpoint commit |
| **Runtime bridge** (`pkg/runtime`) | sessions, one invocation at a time | connect, ready, next, complete |
| **Controller** (`pkg/controller`) | the Workload's phase, a report of the coordinator | reconcile: render objects, push topology and replica counts, poll metrics, seal, scale, run collective attempts |

How they interact. Workers and the controller call the coordinator over HTTP. Every
coordinator handler runs under one mutex, so two handlers never interleave; what
interleaves are *calls*: late, repeated, lost, or made by a process that has been
superseded. Workers fetch segment bytes from each other, and delete them when the
coordinator says so. A durable coordinator commits its whole state with a conditional
write before it answers; several coordinator processes may be around at once
(a rollout, a partition), and are kept apart only by the checkpoint's version. The
controller reads a report and acts on it in several calls, while everything moves on.

What is hard here, and makes each part correct:

* *Delivery*: an announced segment is never forgotten and never in two places; only the
  registered process of a pod has a claim on work; the records of one key are with one
  process; what is deleted, lost or declared drained really is unneeded, lost, drained;
  everything is settled in the end.
* *Durability*: what has been answered survives; a fenced process changes nothing; bytes
  are there as long as the metadata needs them.
* *Broadcast*: counting acknowledgements of replicas that come, go and reuse slots.
* *Epochs, loops*: a barrier of reports, and the end of a cycle in which records travel.
* *Subscriptions*: positions under late acknowledgements, retention and replay.
* *Workers*: the order of callback, commit, publish and acknowledge around a crash, and an
  application in another container that dies on its own.
* *Whole workloads*: seals, scale-downs and phases concluded from stale reports.

`PROJECT.json` lists the hazards one by one, at the line where they bite, with the
properties that cover them.

## 2. Modules

| Module | What it is | Instances in |
|---|---|---|
| `Delivery` | one Hash or RoundRobin channel, its holders and its consumers, as the coordinator sees them | `MCDelivery` |
| `DeliveryProofs` | inductive invariant and theorems of `Delivery` | |
| `AssignmentProofs` | `balanceHash` and `channel.assigned`: theorems about the assignment of partitions | |
| `Durable` | coordinator processes around one checkpoint object | `MCDurable` |
| `DurableProofs` | inductive invariant and theorems of `Durable` | |
| `Broadcast` | one Broadcast channel and the Deployment that reads it | `MCBroadcast` |
| `BroadcastProofs` | inductive invariant and theorems of `Broadcast` | |
| `Loops` | a graph with a Synchronous or an Asynchronous cycle, workers included | `MCLoops` |
| `LoopsProofs` | inductive invariant and theorems of `Loops` | |
| `Subscriptions` | a Retained channel and a named subscription to it | `MCSubscriptions` |
| `SubscriptionsProofs` | inductive invariant and theorems of `Subscriptions` | |
| `ExactlyOnce` | what `docs/checkpoints.md` promises, with no processes in it | |
| `StatefulWorker` | worker, checkpoint, bridge and application; implements `ExactlyOnce` | `MCStatefulWorker` |
| `StatefulWorkerProofs` | inductive invariant, theorems and the refinement of `StatefulWorker` | |
| `Pipeline` | controller, source, channel, sink: a workload from start to phase | `MCPipeline` |
| `PipelineProofs` | inductive invariants and theorems of `Pipeline` | |

`StatefulWorker` and `Pipeline` compose parts: the first the sdk, its checkpoint, the
runtime bridge and the coordinator's part in them, the second the controller, two
operations and the coordinator. In both the coordinator is reduced to what it promises
according to `Delivery`.

Conventions. One action is one handler, call or step, with everything it changes: the
expiries a coordinator handler makes first and the `settle` it makes last are part of it.
Time is one bit: a pod is fresh or silent, a delay is running or over. Segments are values
with a partition and a holder; records, bytes and counters are left out. Calls that change
nothing (a 4xx before any expiry, an acknowledgement of something the caller does not
hold) are stutters and have no action. Faults (crashes, lapses, lost answers, failed
calls) are counted and bounded by `MaxFaults`. Definitions marked *Mutant of ...* are the
definition they follow changed the way a plausible bug would; no specification uses them,
and each makes the run of the property it belongs to fail.

### Delivery

`Register`, `RegisterRefused` (409 to a retired process, after the expiries the handler has
already done), `Announce`, `Produce`, `Seal`, `Consume`, `Ack`, `Nack`, `Released` and
`Metrics` are the handlers; `Drop` is what `expireAllExcept`, `returnConsumerDeliveries`,
`expireHolder` and `markLost` do to the channel. The environment is `Restart` (the kubelet
starts another process in the pod), `Lapse` (PodTTL passes in silence) and `RetryDue`.

| Variable | Code |
|---|---|
| `incarnation`, `fresh`, `retired` | `operation.pods`, `pod.lastSeen` within `PodTTL`, `operation.retired` |
| `owner`, `pinned` | `operation.owner`, `operation.pinned` |
| `sealed`, `announced`, `queues`, `inflight` | `channel.sealed`, keys of `appendIDs`, `queues`, keys of `inflight` |
| `forgotten` | announced but no longer in `channel.all`: the holder has been told to delete it, or the coordinator's copy is gone |
| `delivered`, `acked`, `retryAfter`, `lost`, `released` | the fields of `segment` |
| `started`, `handed`, `drained`, `faults` | the environment: processes started, references received, an answer Drained seen, faults so far |

A returned batch of deliveries goes back in any order, as Go ranges over a map. A channel is
checked on its own; two Hash channels of one operation with the same partition count share
`owner` and `pinned`, and that sharing is not modelled.

### Durable

The handler of a process holds its mutex through its commit, so `pc` says where the one
handler is: `off`, `claim`, `clean` (deleting tombstones), `up`, `store` (Produce writing
bytes), `commit` (about to read the checkpoint), `put` (conditional write sent), `failed`
(latched), `dead`. A conditional write is *sent* by `ClaimGet` or `CommitGet`, takes effect
in `StorePut`, and its answer is read in `Claimed`, `CommitOk`, `ClaimLost` or
`CommitFenced`; `CommitError` and `Crash` leave a write under way where it is, so it may take
effect much later. A checkpoint's version is a hash of its contents, so comparing versions
is comparing contents. `ReadEnters` and `ReadAnswered` are a request that only reads: the
check of `failed` and the handler take the mutex separately.

The coordinator's state is the identifier counter and a set of facts; `snapshot` and `restore`
are taken to be inverse. The handlers shown are those whose answers promise something
(announce, ack, consume, produce) or permit a deletion (released); the others commit in the
same way. `promised`, `reported` and `owner` are history.

### Broadcast

The channel's `log`, a `cursor` per pod (forgotten when the pod expires), and `acked` per
*slot* (`cohortSlot`): `Register` allots the lowest free slot, and the pod that takes over a
slot takes over what was read in it. `Swept` is `releaseBroadcast`, run by `settle` in every
handler that calls it; `Complete` is `operationMetrics`. `Withdrawn` is what an expiry leaves of
the deliveries: `returnConsumerDeliveries` takes away those of the expired pods, `markLost` all
those of a lost segment, so that an operation can complete after one was lost in flight. A
worker that has been answered Drained (`told`) reports done and goes `idle`: it sends
heartbeats, which may register it again, and never polls again until its process is replaced.
`Start`, `Evict` and `Restart` are
the Deployment; `Overlap` says whether it may start a replacement before the coordinator
has noticed that the replaced pod is gone.

### Loops

The graph (`topo`) is chosen in the initial state; `FiniteEpochChannels` and `Cycle` are
`markFiniteEpochChannels` and `cycleMembers`. `place` maps each live segment
`<<partition, epoch, copy, again>>` of a channel to `queued`, `held` or the pod it is under way to;
`again` marks what a source announces that was started again after it had reported that it is
done (`finished`, a history variable).
`RecordEpochDone`, `BarrierMet` and `PassBarrier` are `recordOperationEpochDone` and
`advanceEpoch`; `LoopDone` and `Settled` are `settle`. A worker is `Run`: a pass polls one
inbound channel after the other (`Consume`, `OnRecord`, `Publish`, `Ack`), collecting
`allQuiet` and `allDrained` (`Noted`); at the end of a pass that lets it conclude something
(`Concludes`) `EndPass` does so, and any other pass is followed by the next at once; then
`ReportEpoch`, or `ReportDone`, or the process gives up (`GiveUp`, `Refused`). Every pod may
crash, lapse and be started again, sources included: a source runs `Source` from the start
again, its output is announced if the epoch of the channel still stands, and otherwise dropped
(`DropOutput`, 409) or refused (`Refused`, 400). Segments are
kept in the object store, so an expiry loses none: losses are `Delivery`'s.

### Subscriptions

`history` and `base` by partition, `position` and `inflight` of the subscription. It belongs
to an operation (`bound`), whose pods lapse, expire and are replaced, or to external readers,
who are known by name. `Consume` has a parameter `lost`: the answer does not arrive. A consume
takes the assigned partitions in order (`Reached`); where one of them is behind what retention has
left (`Behind`) it is answered 410, and what it has recorded for the partitions before stays in
flight to a reader that was never handed it.
`answered`, `read` and `skipped` are history.

### StatefulWorker and ExactlyOnce

Worker processes are numbered as they start; a process record holds its program counter,
the deliveries in hand, the checkpoint as it knows it (`local`), segments written and not
announced, its `runtime.Server` (`srv`), and the applications connected to it. The steps are
those of `Run` and `checkpoint.go`: `wait` (for an application), `claim`, `republish`, `loop`,
callbacks, `commit`, `publish`, `ack`, `report`, `idle`. An application's memory counts each
input, and is lost with it. A replaced process keeps running until a call is refused.

Refinement: `total` is the memory in the committed checkpoint, `visible` the number of
announced outputs per input, `answer` the state that the final output in the checkpoint was
computed from, `answers` the number of announced final outputs. A commit is `Take` or
`Decide`, an announcement is `Show`, and everything else, crashes included, is a stutter. An
operation without checkpoints maps to the initial state for ever: nothing of the kind is
promised of it. The initial state chooses either.

### Pipeline

The source emits `1 .. N`, each with a blob, and is a Deployment (segments and blobs on its
pod) or a collective (a Job with attempts, durable output); the channel is Pipelined or
Materialized; the sink reads it and writes to an external channel, `Summary` in `OnDrain`.
`ReadReport`, `ReconcileOperation`, `ReconcileCollective` and `Conclude` are one pass of
`Reconcile`; between them everything else may happen, and `ReconcileFails` ends a pass
anywhere. `completed` is the coordinator's latch, reset by `Register`. `DeletedBlobs` and
`ReleaseSegments` are the release path of the sdk and `blob.go`.

## 3. Runs

| Run | Instance | Shows |
|---|---|---|
| `delivery_hash` | Hash, 2 partitions, 2 consumers, 1 producer, `a` (held by the pod) and `c` (held by the coordinator) in one queue, 2 processes per pod, 2 faults, superseded registrations and lost answers | the invariants and action properties of `Delivery` |
| `delivery_roundrobin` | RoundRobin, Materialized, `a` and a durable `b`, 2 faults, fairness | the other assignment, the gate, durable segments; every announced segment is settled |
| `delivery_lost_answer` | one lost answer | **violated**: section 6 |
| `durable` | 2 processes of one host, a batch of two groups, a worker segment, reads, 4 generations, 3 identifiers, 2 errors | promises, fencing, one history, bytes, reads |
| `broadcast` | 2 replicas and a replacement, 2 segments, a holder that may fail, fairness | every slot reads before a release; completion; every segment is released |
| `broadcast_replaced` | as above with `Overlap` | **violated**: section 6 |
| `loops` | three graphs: a Synchronous loop with two pods, and an Asynchronous loop over two operations, once with two segments and one pod each, once with two pods at its entry, each behind a source; 1 fault, of any pod, sources included; fairness | epochs, barrier, termination |
| `loops_drained_early` | a Synchronous loop and a consumer of its output | **violated**: section 6 |
| `subscriptions` | 2 partitions, 2 identifiers, 2 readers, 1 replay, 1 fault, bound or external, fairness | offsets, positions, progress |
| `stateful_worker` | 1 input, with and without checkpoints, 2 faults: up to 5 processes, 3 pods, 3 sessions, fairness | `ExactlyOnce` is implemented; nothing acknowledged is lost; it completes |
| `pipeline` | 2 records, every kind of source and channel, 1 fault: up to 3 pods, fairness | what Succeeded means, lifetimes of segments and blobs, every workload ends |
| `pipeline_dropped_output` | the source lapses before it publishes | **violated**: section 6 |

Bounds. Two consumers are enough for every disagreement about a partition, two processes
per pod for every takeover, two segments for a queue to have a front and a rest, two
partitions for a share to be uneven. The interesting schedules of `Delivery` need two faults:
an expiry followed by a return, a lapse followed by a late heartbeat, a restart during an
expiry. For `Durable` the longest interesting story is claim, commit, claim, clean-up commit:
four generations; an error for the late write and one for the crash. A Broadcast channel
needs one replacement for a slot to be taken over; a barrier needs two pods to be waited at
and two epochs to be passed; a subscription two partitions for one to hold up the other. A
worker of one input already has two commits (the input's and the final one), and two faults
put a crash of the worker and one of the application, or two replacements, between any two
of its steps. In `Pipeline` two records let the sink be half-way, and one fault costs up to
two more pods. In `Loops` a topology's `bound` counts announcements on a channel: when a channel has
had as many, callbacks emit nothing more to it, also those that are repeated after a crash, so two
let a source or a worker announce once more after it was started again. `Loops` is the largest
instance, 145,941 distinct states, about two and a half minutes with two workers. The theorems of
section 5 have no such bounds.

Deadlock is checked for `Delivery`, `Broadcast` and `Loops`, where heartbeats go on for ever.
It is not for the others, which stop: every coordinator dead or latched, everything read,
every process idle, a workload finished.

### Fairness

Weak fairness of what a loop in the code repeats as long as its process lives, and of
nothing else: faults, superseded processes, late or repeated calls are never required.

* `Delivery`: the pod's current process registers (`heartbeat`, every five seconds), polls
  and acknowledges; delays run out; the channel is sealed in the end. A callback that fails
  for ever would violate the assumption on `Ack`: the code returns the delivery for ever.
* `Broadcast`: one condition for each worker's loop (`Worker`: poll, acknowledge, report done,
  end when refused), which is over when the worker idles, and one for its heartbeat; the
  Deployment starts pods, a pod that is gone is silent, and the controller publishes replica
  counts and polls metrics.
* `Loops`: one condition for each pod's worker and container (at any time its loop has one next
  step, or the container is started again), one for its heartbeat, and one for the controller's
  poll and seals.
* `Subscriptions`: readers poll and acknowledge, pods register, and an operator replays a
  subscription whose position retention has passed (it is answered 410 until then).
* `StatefulWorker`: worker and application steps, an application reconnects after the last
  one has ended, a container that ended is started again, silent processes expire.
* `Pipeline`: the same, the cluster takes down what is not wanted, and passes of the
  controller go on. Failed passes are finitely many.

## 4. Properties

`Delivery`: `Conserved` (in one place, once), `Fenced` (with the registered process only),
`Affinity` and `PinnedStays` (the records of a key stay with one process),
`OneReaderPerPartition` and `SharesAreEven` (the assignment is a function of the
membership and fair up to pins), `DeletedUnneeded`, `LossIsReal`, `DrainedIsFinal`,
`SettledStays` (no repeated announcement revives a segment), `EventuallySettled`.

`Durable`: `AnsweredDurable` (no promise is taken back), `FencedStays`, `HistoryGrows` (one
line of history), `BytesBehindMetadata` (needed bytes exist and are the published ones),
`HealthyReadsDurable` (until its checkpoint fails a coordinator shows nothing a successor
would not restore).

`Broadcast`: `EverySlotReads`, `CompleteMeansRead`, `EventuallyReleased`. The first two
speak of slots, which is what the code counts, and hold as long as replacements do not
overlap the pods they replace.

`Loops`: `EpochEndIsLast` (OnEpochEnd comes after the epoch's input, but for what a source
announces that is started again after its report), `OneEpochAtATime` (the
barrier keeps epochs apart over all inputs of an operation), `SealedLoopIsFinished` (an
Asynchronous loop is empty when it is sealed, and only one thing wakes it again: a pod whose
delivery was returned announces what it made of it), `LoopEnds`.

`Subscriptions`: `OffsetsAreStable`, `NothingPassedOver`, `EventuallyRead`.

`StatefulWorker`: `Implements` (the refinement), `AckedIsKept`, `EventuallyComplete`.

`Pipeline`: `SucceededMeansProcessed`, `ReadableWhileNeeded`, `NoSelfInflictedLoss`,
`EventuallyFinished`.

What the liveness properties except, because the code does stop there:

* `ReportForgotten` (`LoopEnds`, `EventuallyComplete`, `EventuallyFinished`): a pod that
  expires while it idles is registered again by its heartbeat, but its report of being done,
  or of the end of an epoch, is forgotten and never repeated (`idle`, sdk.go:1453).
* `Overslept` (`EventuallyReleased`): a pod that idles lapses, another takes its slot and what
  was read in it, and its heartbeat registers it in a new slot. It counts as a replica, its slot
  has acknowledged nothing, and it never reads again (sdk.go:1453).
* `Wedged` (`EventuallyRead`): a delivery is in flight that its reader never received, because
  the answer to a consume was lost, or because it was 410: a consume that is refused at one partition
  keeps what it recorded for the partitions before it (subscriptions.go:144-170). Nothing repeats
  the delivery to a pod of an operation, nor to an external reader once retention has passed a
  position, when consume answers 410 and replay 409.
* `RestartedTooLate` (`EventuallyFinished`): a sink restarted after its output was sealed
  emits in `OnDrain`, is refused and ends, again and again.
* `RestartedTooLate` of `Loops` (`LoopEnds`): a source that was started again after the epoch of
  its output had passed is answered 400 (coordinator.go:861) until it exits, every time.
* `WokenLoop` (`LoopEnds`): a sealed Asynchronous loop into which a pod announced what it had made
  of a delivery that was returned; what its operations answer on the sealed feedback channel is
  refused, they exit, and are given the same again.

`EpochEndIsLast` excepts the segments that are `Again`: `announce` looks at the seal and the
epoch of a channel and not at `productionClosed`, so a source that crashes between its report and
the seal puts new input into an epoch that workers have ended.

## 5. Proofs

Every theorem below is for all values of the constants: no bound on pods, processes,
segments, records or faults. Each proof module has the same layout: types and the inductive
invariant as named parts, facts about the operators of the model, one lemma per action, the
theorems.

### Delivery

`TypeCorrect`, `Conservation`, `Fencing`, `KeyAffinity`, `DeletionSafe`, `LossSound`,
`DrainedSound` (invariants), `PinsHold` and `SettledHolds` (action properties). Assumptions:
consumers are numbered (name order) and are not producers; the segments are finitely many,
each with a partition and a holder that is not a consumer. The argument: `Conserved` is not
inductive alone, since what an expiry puts back depends on who holds what, so `IInv` joins the
types, the well-formedness of the queues, the equation "queued plus in flight is announced
minus released", `Fenced`, affinity with ownership (`PinnedOwned`), and the settlement facts
(what is forgotten is released; what is released is acknowledged or lost). Facts about
`Without`, `OnPart` and `Orders` on sequences are lemmas of their own, then a lemma about
`Drop` (what an expiry and a takeover do to all of this at once) serves `Register`,
`RegisterRefused`, `Metrics`, `Released` and `Consume`.

### Partition assignment

`AssignmentIsUnique` (`OneReaderPerPartition`) and `SharesStayEven` (`SharesAreEven`), in
`AssignmentProofs`, from the invariant above and one fact more: finitely many consumers are
registered at any time (`FewLive`; a step registers at most one). `Balance` and `RoundRobin`
say what a result of the Go loops satisfies, so that there is exactly one has to be shown.

* `balanceHash` gives the partitions out one after another. One exists: what has been given
  out up to a partition can be extended by one more, since among finitely many pods there is
  one with the least load and the smallest name (`BalanceStep`, `BestExists`). It is unique:
  at the first partition in which two results differ the loads were the same, hence the
  choice. Asked again with its own result it gives the same (`BalanceAgain`), because the
  owners of pinned partitions are registered, which is `PinnedOwned` of the invariant.
  Even: at the last partition given to a pod that was not pinned to it, no other pod had less,
  and loads only grow (`BalanceEven`).
* `channel.assigned` takes the pod at position `p % n` of the sorted names. The position of a
  name is the number of smaller ones; distinct names have distinct positions, and every
  position is taken (`RankOnce`, `RankTaken`). Shares are even since a pod's partitions, but
  for one, map one to one into another's (`RoundRobinEven`).

Induction over the partitions is by least elements of sets of naturals (`LeastExists`,
`Stepwise`), which `WFMin` of the library gives.

### Durable

`TypeCorrect`, `Durability` (`AnsweredDurable`), `SingleWriter` (`OneOwner`), `OneHistory`
(`HistoryGrows`), `Fencing` (`FencedStays`), `NothingMissing` (`BytesBehindMetadata`) and
`ReadsAreDurable` (`HealthyReadsDurable`). Only `0 \notin Procs` and the shapes of the
constants are assumed; in particular host names need not differ. The invariant says of every
process that the checkpoint it last wrote is in the *past* of the object (an earlier
generation with fewer facts, or the object itself, in which case it is the one owner), that a
conditional write under way would extend what it expects to replace, and that the memory of a
handler extends the checkpoint it started from. A write that takes effect then extends the
object, and a promise is only made about a write that took effect.

The bytes need a second invariant (`BInv`), because a checkpoint may be written long after
the bytes it refers to, by a process that has been fenced since. It says of *every* state that
is or may still become the checkpoint (the object, each process's memory, and both sides of
each conditional write under way) that what it needs is stored, and that it marks for deletion
only what it has released itself; and that an identifier belongs to one group of records
although it is given out again after a crash.

### Loops

`TypeCorrect`, `EpochsAreSeparate` (`OneEpochAtATime`), `LoopsFinish`
(`SealedLoopIsFinished`) and `EpochEndsFollow` (`EpochEndIsLast`), for every set of graphs,
any number of pods, and any crashes, restarts and lapses of workers and sources; the last two for the graphs described below.
`LoopsAssumption` and `GraphAssumption` say only that a topology is one: the ends of a channel
are operations, an operation lists the channels that come in and the pods that run it, and no
pod is called `queued` or `held`. What the coordinator derives from a topology is not assumed: `Described` computes
it, and lemmas about `Reach` give what the proofs need, that the inputs of one operation are
all finite or none is (`FiniteTogether`), and that an input of a cycle is on it or comes from
outside.

`IInv` says where each live segment may be *and of which epoch it is*: what is queued or
under way belongs to the channel's epoch, what is held to a later one, and the inputs of one
operation stand at the same epoch (`ChannelInv`). Of a worker it says that it is never ahead
of its inputs (`PassOf`) and what it can have in memory in which phase (`MemoryOf`). The
barrier moves all inputs of an operation at once, and only when none has anything queued or
under way, so what is then let in is of the new epoch: this is `OneEpochAtATime`.

`LoopsFinish` assumes `SingleLoops` of the topologies: an Asynchronous feedback channel
closes a cycle and is the only feedback channel of its component. `settle` passes over the
other feedback channels of a cycle, and does not count what is held inside it, so that it could
seal a cycle with something in it otherwise (section 6); the instances are checked to meet the
hypothesis (`LoopsAreSingle`). The argument: whatever seals the loop's channel has found all of
the cycle empty, since in such a component nothing is ever held. From then on the inputs of the
loop are sealed, so that only its own members can put anything into it (`LoopInputsSealed`); a
member that announces has something in its hands, which is under way to it, and so in the loop,
unless it was returned; and what a pod has for `OnDrain` does not go into a loop.

`EpochEndsFollow` assumes `EpochsFollow` of the topologies: an operation that follows the
epochs takes its input from sources and, polled last, from at most one channel of another kind,
which is its own Synchronous feedback channel or comes from an operation with a single replica.
Without it the property is false (two of the weaknesses in section 6); the instances are
checked to meet it (`EpochsAreFollowed`). A worker asks one channel after the other, so the
question is why an answer is still right when the pass ends. The invariant (`FollowInv`) adds
to `IInv`:

* A source closes its epoch with a report, and the model remembers in `finished` that there was
  one, when it has itself forgotten it in a crash. What a source announces after its report is
  `Again` (`SourcePod`), and a channel is closed only when all its sources have reported. So a
  source channel that is closed and has nothing waiting or under way but what is `Again`
  (`QuietBut`) stays so (`SourceChannel`, `Exhausted`).
* What a pod has in hand is in flight to it as long as its process is registered and has its
  report of the epoch still to make (`HandOf`). So the input of its operation is not quiet, the
  barrier cannot move on under it, and a pass that has still work to do cannot be overtaken by an
  epoch, also when a source queues new input after the end of the old one.
* What a worker puts into its own feedback channel is of the next epoch, and is held.
* An operation with a single replica moves on with each of its reports, so an epoch of its
  output is closed only when the operation itself is past it, and it adds nothing to a closed
  epoch afterwards (`AloneOf`, `ClosedOf`).
* A report the coordinator has on record is one of the registered process (`ReportsOf`).
  When the barrier moves the inputs of an operation to the next epoch, a pod in the middle of a
  pass has therefore ended the old epoch, or started again and knows nothing yet (`MovedOn`); what a
  pass has found over (`FoundOf`) and what a worker has in its hands (`BusyOf`) are of the epoch
  the inputs stand at.

So what a worker has ended is over (`EndedOf`), and stays over while it may still be asked.

### Subscriptions

`TypeCorrect`, `StableOffsets` (`OffsetsAreStable`) and `NoEntryPassedOver`
(`NothingPassedOver`), for subscriptions of an operation and external ones. The invariant
(`CursorOf`) ties a delivery to the position: while one is out, it is of the entry the cursor
stands at, and the cursor has not passed the end. An acknowledgement that is accepted can
then only be of the next entry. For offsets, every answer names an offset already given out.

### Broadcast

`TypeCorrect` and `SlotsAreExclusive` hold in any case. `ReleasedWasRead` (`EverySlotReads`),
`CompleteWasRead` (`CompleteMeansRead`) and `SlotsAreReplicas` assume `Overlap = FALSE`: a
replacement starts only when the coordinator has noticed that the pod it replaces is gone.
Without that they are false, as the run `broadcast_replaced` shows. The code counts
acknowledgements by slot against the published replica count, so the argument is a count:
slots in use are distinct and each free slot was one (`SlotInv`), the pods running or
registered are never more than the replicas (`CohortInv`), hence a new slot is made only
while there are fewer slots than replicas, and as many acknowledgements as replicas are those
of all slots. No step takes an acknowledgement back, nor the loss of a segment; `markLost` empties
the deliveries of a lost segment, so an operation completes also after one was lost in flight, and
has then read the others in every slot.

### StatefulWorker implements ExactlyOnce

`TypeCorrect`, `AckedStays` (`AckedIsKept`) and `KeepsPromise` (`Implements`, the refinement;
its abstract specification has no fairness). Assumed: the inputs are finitely many and are
neither of the two markers the model uses for a callback, `Drain` and `Nothing`. The invariant
says what every process, superseded ones included, knows of the checkpoint: a manifest that
was committed before and is well formed (each input counted once, with one output; complete
with one answer), and *the* manifest as long as the process is its writer (`LocalInv`); and
that the memory of the application behind it is that of its manifest, plus the callback in
hand (`MemInv`), which is where a second application without the state would break it. A commit
by the writer then adds one input that is not in the manifest, and is a `Take`; an
announcement is of outputs in the manifest, and is a `Show` or a stutter.

### Pipeline

Four invariants, each on top of the ones before.

* `TInv`, types: `TypeCorrect`. A segment is in one place, counted with cardinalities.
* `VInv`, volumes: `KeptWhileNeeded` (`ReadableWhileNeeded`). A process deletes the blobs bound
  to the released segments of its *own run*. This is safe because segments of one run have
  different records, and nothing of a run has been seen until the run has announced all it
  wrote (`WritesOf`, `HoldsOf`); run numbers are never repeated.
* `ZInv`, no faults: `NothingLostByItself` (`NoSelfInflictedLoss`). A report that the source
  is complete and holds nothing stays true until it is acted upon: a complete source announces
  nothing more, and what has been read is not unread. So a pod is taken down, and expires,
  only when everything is read (`Calm`).
* `DInv`, results: `SucceededIsProcessed` (`SucceededMeansProcessed`), under the assumption
  `LapsesAt \subseteq {"report", "idle"}`: the coordinator does not forget a source before the
  source has announced its output. Without it the property is false, as the run
  `pipeline_dropped_output` shows. The argument follows the records: a run holds every record
  until it has announced it (`Cuts`); whoever reports done, seals or completes comes after
  that (`SourceInv`); the sink's output is in the external channel before its input is
  released (`SinkInv`); so a sink that is done with a sealed and quiet channel has
  everything, unless something was lost, and then the report says so first and the workload
  fails (`VerdictInv`).

### Only model-checked

The liveness properties, which are outside the prover, as are fairness and `ENABLED`. Every
invariant and action property of a passing run is stated by a theorem; `EpochEndIsLast`,
`SealedLoopIsFinished` and some properties of `Broadcast` and `Pipeline` under the hypotheses
named with them.

## 6. Findings

* `delivery_lost_answer`: `ConsumeSession` records a delivery before its answer is on the
  wire. If the answer is lost and the process lives, nothing returns the segment: each
  further poll refreshes the pod. README.md promises at-least-once delivery.
* `broadcast_replaced`: acknowledgements are counted per slot and kept when the slot's pod
  expires. A replacement that registers before that gets a slot of its own, and a
  segment is then released that it was never offered, against the comment on
  `consumedByEveryReplica`.
* `loops_drained_early`: `Drained` is answered when a channel is sealed and quiet, which does
  not count what is held for a later epoch. A consumer of a Synchronous loop's output runs
  `OnDrain` and never receives the held records.
* `pipeline_dropped_output`: every 409 is taken for a sealed channel. A source whose pod
  expired before its flush drops its output, is registered again by its heartbeat and reports
  done: the workload Succeeds without those records.

Weaknesses met while modelling that have no run of their own, and what the models do about them:

* A process enters `operation.retired` only when it is replaced while registered. If the pod
  expired first, a delayed heartbeat of the old process takes the pod back
  (coordinator.go:518). `delivery_hash` allows it; `Fenced` and `Conserved` hold regardless.
* A read that passed the failure check while a commit was under way is answered from
  uncommitted memory after it failed (server.go:226): `HealthyReadsDurable` speaks of
  coordinators whose checkpoint has not failed.
* A worker that polls its feedback channel before its other inputs can combine answers of
  two epochs in a pass and run `OnEpochEnd` early (sdk.go:1316); its report is then refused.
  Channels are polled in the order they are declared, and the instance declares the feedback
  channel last, as `examples/pagerank` does.
* Of two replicas in front of a Synchronous loop, one reports the epoch, polls again, and finds
  its input sealed and quiet: it runs `OnDrain` in the epoch it has just reported (sdk.go:1349).
  The other's report then closes that epoch, the loop ends it, and the output of `OnDrain` is
  read afterwards, or refused when the epoch has moved on. So `EpochEndIsLast` does not hold of
  the reader; TLC finds this on such a graph without any fault. In the instances the operations
  in front of a loop are sources.
* An Asynchronous loop that has been sealed can wake up. A pod that expires while it works on a
  record has that record returned, and another replica may finish it, upon which the loop is
  quiet and is sealed. The first pod's heartbeat registers the same process again
  (coordinator.go:515), its announcement inside the loop is accepted, the reader's answer to the
  sealed feedback channel is refused, and that process exits. The comment on `settle`
  (coordinator.go:1631) says that records still being processed are in flight inside the cycle.
  `SealedLoopIsFinished` excepts this case, `Disowned`, and no other; `loops` reaches it with
  two replicas of the agent.
  What the refused operation was given is returned and delivered again for ever: `LoopEnds`
  excepts it (`WokenLoop`).
* A source that crashes after `SourceDone` and before its channel is sealed runs `Source` again,
  with new segment identifiers. `AnnounceSession` (coordinator.go:860) accepts them while the epoch
  stands, also when its production is closed and workers have run `OnEpochEnd`, which sdk.go:88 says
  "runs after required input for the current finite epoch closes and drains". When the barrier has
  passed they are answered 400 thirty times, the process exits and is started again for ever, and
  the loop never ends. `EpochEndIsLast` and `LoopEnds` except these two cases and no others.
* A replica of a Broadcast reader that idles, lapses and is registered again may find its slot
  taken by another pod. It gets a new one, for which nothing has been acknowledged, and as it polls
  no more, nothing is released from then on (`Overslept`).
* `ConsumeSubscription` (subscriptions.go:144) records deliveries for the first partitions of a
  reader and then answers 410 at a later one; it neither takes them back nor commits them. Replay
  answers 409 because something is in flight, and consume 410: nobody can move the subscription,
  without any answer having been lost. `NothingPassedOver` holds regardless; `EventuallyRead`
  excepts it (`Wedged`).
* Before the first checkpoint (checkpoint.go:65) an application is not restored: one that survived
  its worker keeps what it counted in a callback that will be repeated. In `StatefulWorker` an
  application that connects to a new worker starts with an empty memory, so `Implements` does not
  speak of this.
* With two Asynchronous feedback channels in one cycle, `settle` asks neither about the other
  (coordinator.go:1650); the instances have one per cycle.
* Overflow counts are announced without an identifier, so a repeated announcement counts them
  again (coordinator.go:875); counts are not modelled.
* In `Pipeline` a crashed source container is started again before its pod can expire
  (`ExpireSource`); a Deployment's back-off may be longer than `PodTTL`. The expiry of a running
  source, and of an evicted one, is there.

## 7. Not modelled

* Workload validation: a pure predicate on the specification.
* `pkg/etl`: helpers the system's own parts do not call.
* In the worker: `Tick`, `Combine`, the limits of the aggregate buffers, and the restore of a
  checkpoint taken between `OnEpochEnd` and the report of the epoch (`EpochCallbackComplete`).
  The per-channel `EpochDoneSession` repeats the operation's report for one channel.
* In the controller: rendering of Deployments, Jobs, policies, volumes and autoscalers
  (construction of objects without decisions over time), and `CompletionNever`.
* HTTP routing and encodings, request signing, metrics text, file layout, generated code, the
  example programs, the Python client and the web editor. The encoding of the checkpoint is
  assumed to be faithful.

## 8. Plan

The models are complete for the parts above, and their safety properties are proved. What is
left is a wider hypothesis for `EpochEndsFollow`: an operation that is fed by several replicated
ones, for which the reports of all the replicas have to be related to what each has announced.
