------------------------------ MODULE Pipeline ------------------------------
(***************************************************************************)
(* A workload from end to end: the controller                               *)
(* (src/pkg/controller/reconciler.go, collective.go), a source operation    *)
(* that keeps its segments and blobs on its pod (src/pkg/sdk), the          *)
(* coordinator's bookkeeping for one Ephemeral channel, and a sink          *)
(* operation that reads it and writes to an external channel.               *)
(*                                                                         *)
(* The controller works from a report it read earlier while everything      *)
(* moves on: it seals, takes pods down and declares the workload finished.  *)
(* Containers crash, pods are evicted with their volume, the sink's         *)
(* heartbeats lapse, passes of the controller fail half-way.  The source    *)
(* may be a collective, run by a Job with a bounded number of attempts,     *)
(* whose output is durable.                                                 *)
(***************************************************************************)
EXTENDS Integers, FiniteSets, FiniteSetsExt

CONSTANTS
  N,              \* the source's callback emits records 1 .. N, each with a blob
  MaxFaults,      \* bound: crashes, evictions, lapses, failed calls
  LapsesAt        \* where in its run the source's heartbeats may lapse

ASSUME PipelineAssumption ==
  N \in Nat \ {0} /\ MaxFaults \in Nat
  /\ LapsesAt \subseteq {"emit", "publish", "report", "idle"}

Records == 1 .. N
Ops  == {"source", "sink"}
\* A crash the controller notices late costs a run of the source and a pod more.
Pods == 1 .. 2 * MaxFaults + 1
Summary == 0  \* what the sink emits in OnDrain

VARIABLES
  materialized,  \* Delivery of the channel
  maxAttempts,   \* Collective.MaxAttempts of the source, 0 when it is a Deployment
  src,           \* source pods: process, registration, volume
  snk,           \* the sink's pod
  ckpt,          \* output committed by a collective's checkpoint
  \* coordinator: segments of the channel, the external channel, completion
  queued, inflight, released, lost, sealed, ext, extSealed, completed,
  \* controller and cluster
  at, view, spec, status, phase, job,
  faults

workVars  == <<src, snk, ckpt>>
coordVars == <<queued, inflight, released, lost, sealed, ext, extSealed, completed>>
ctlVars   == <<at, view, spec, status, phase, job>>
vars == <<materialized, maxAttempts, workVars, coordVars, ctlVars, faults>>

Collective == maxAttempts > 0
Fault == faults < MaxFaults /\ faults' = faults + 1

\* A source pod: process, registration with the coordinator ("stale" when its process has
\* ended), callback's progress, output buffer, segments not announced, files on its volume
NewPod ==
  [pc |-> "off", run |-> 0, reg |-> "none", done |-> FALSE, todo |-> {}, buffer |-> {},
   unannounced |-> {}, segs |-> {}, blobs |-> {}]

NewSink == [pc |-> "off", reg |-> "none", done |-> FALSE, todo |-> {}, hand |-> {}, out |-> {}]

\* What the controller knows before its first report.
NoReport == [lost |-> FALSE, sealed |-> FALSE, extSealed |-> FALSE, complete |-> {}, holds |-> FALSE]

\* What a pass has found of the operations when it starts.
NoStatus == [o \in Ops |-> "Waiting"]

Init ==
  /\ materialized \in BOOLEAN /\ maxAttempts \in {0, 2}
  /\ src = [p \in Pods |-> NewPod] /\ snk = NewSink /\ ckpt = {}
  /\ queued = {} /\ inflight = {} /\ released = {} /\ lost = {}
  /\ sealed = FALSE /\ ext = {} /\ extSealed = FALSE /\ completed = {}
  /\ at = "idle" /\ view = NoReport /\ spec = [o \in Ops |-> 0]
  /\ status = NoStatus /\ phase = "Pending"
  /\ job = [attempt |-> 0, state |-> "none"] /\ faults = 0

-----------------------------------------------------------------------------
\* Coordinator

Known(p) == src[p].reg = "current"
SinkKnown == snk.reg = "current"

\* quiet
Quiet == queued = {} /\ inflight = {}

\* operationMetrics for a source and for the sink, before the latch
CompleteNow(o) ==
  IF o = "source"
  THEN /\ \E p \in Pods : src[p].reg # "none"
       /\ \A p \in Pods : src[p].reg # "none" => src[p].done
  ELSE sealed /\ Quiet /\ snk.reg # "none" /\ snk.done

Unread == queued \cup inflight

\* operationMetrics: pods of the source hold what nobody has finished with.
HoldsUnconsumed == ~Collective /\ Unread # {}

\* expireHolder and markLost
Loses(p) == IF Collective THEN {} ELSE {s \in Unread : s.pod = p}

\* expireAll, for a source pod whose process has ended, or that lapses
ExpireSource(p) ==
  /\ src[p].reg # "none"
  /\ \/ src[p].reg = "stale" /\ src[p].pc = "gone" /\ UNCHANGED faults
     \/ src[p].reg = "current" /\ src[p].pc \in LapsesAt /\ Fault
  /\ src' = [src EXCEPT ![p].reg = "none", ![p].done = FALSE]
  /\ lost' = lost \cup Loses(p)
  /\ queued' = queued \ Loses(p) /\ inflight' = inflight \ Loses(p)
  /\ UNCHANGED <<materialized, maxAttempts, snk, ckpt, released, sealed, ext, extSealed, completed, ctlVars>>

\* expireAll and returnConsumerDeliveries, for the sink
ExpireSink ==
  /\ \/ snk.reg = "stale" /\ UNCHANGED faults
     \/ snk.reg = "current" /\ Fault
  /\ snk' = [snk EXCEPT !.reg = "none", !.done = FALSE]
  /\ queued' = queued \cup inflight /\ inflight' = {}
  /\ UNCHANGED <<materialized, maxAttempts, src, ckpt, released, lost, sealed, ext, extSealed, completed, ctlVars>>

-----------------------------------------------------------------------------
\* Source pods

sourceUnchanged == UNCHANGED <<materialized, maxAttempts, snk, sealed, ext, extSealed, ctlVars>>

\* Runs of the source so far: segment identifiers carry the time and are never repeated.
Runs == Max({src[p].run : p \in Pods})
Used(p) == src[p].pc # "off"
Alive(p) == src[p].pc \notin {"off", "down", "gone"}

\* A container starts in its pod, or a new pod is started for the Deployment or the Job.
Starts(p) ==
  /\ Runs < Cardinality(Pods)
  /\ \/ src[p].pc = "down"
     \/ /\ src[p].pc = "off" /\ \A q \in Pods : q < p => Used(q)
        /\ \A q \in Pods : src[q].pc \in {"off", "gone"}
        /\ IF Collective THEN job.state = "active" ELSE spec["source"] = 1

\* Register, which takes the pod over from a process that ended, and forgets its report.
\* A collective that has committed its checkpoint only announces and reports again.
RegisterSource(p) ==
  /\ Starts(p)
  /\ src' = [src EXCEPT ![p].run = Runs + 1, ![p].reg = "current", ![p].done = FALSE,
                        ![p].pc = IF ckpt = {} THEN "emit" ELSE "republish",
                        ![p].todo = IF ckpt = {} THEN Records ELSE {}, ![p].unannounced = ckpt]
  /\ completed' = IF src[p].reg = "stale" THEN completed \ {"source"} ELSE completed
  /\ sourceUnchanged /\ UNCHANGED <<ckpt, queued, inflight, released, lost, faults>>

\* segmentStore.write
Segment(p, recs) == [pod |-> p, run |-> src[p].run, recs |-> recs]

\* EmitBlob writes a blob beside the record; a durable segment cannot refer to one.
BlobsWith(p, r) == IF Collective THEN {} ELSE src[p].blobs \cup {<<src[p].run, r>>}

\* emit and buffer: a buffer that has reached its limit becomes a segment.
Emit(p) ==
  LET r    == Min(src[p].todo)
      full == src[p].buffer \cup {r} IN
  /\ src[p].pc = "emit" /\ src[p].todo # {}
  /\ \/ src' = [src EXCEPT ![p].todo = @ \ {r}, ![p].blobs = BlobsWith(p, r), ![p].buffer = full]
     \/ src' = [src EXCEPT ![p].todo = @ \ {r}, ![p].blobs = BlobsWith(p, r), ![p].buffer = {},
                           ![p].segs = @ \cup {Segment(p, full)},
                           ![p].unannounced = @ \cup {Segment(p, full)}]
  /\ sourceUnchanged /\ UNCHANGED <<ckpt, queued, inflight, released, lost, completed, faults>>

\* materialize, once the callback has returned
Materialize(p) ==
  LET rest == IF src[p].buffer = {} THEN {} ELSE {Segment(p, src[p].buffer)} IN
  /\ src[p].pc = "emit" /\ src[p].todo = {}
  /\ src' = [src EXCEPT ![p].pc = IF Collective THEN "commit" ELSE "publish", ![p].buffer = {},
                        ![p].segs = @ \cup rest, ![p].unannounced = @ \cup rest]
  /\ sourceUnchanged /\ UNCHANGED <<ckpt, queued, inflight, released, lost, completed, faults>>

\* commitCheckpoint of a collective's rank zero
CommitSource(p) ==
  /\ src[p].pc = "commit"
  /\ ckpt' = src[p].unannounced
  /\ src' = [src EXCEPT ![p].pc = "publish"]
  /\ sourceUnchanged /\ UNCHANGED <<queued, inflight, released, lost, completed, faults>>

Seen == queued \cup inflight \cup released \cup lost

\* Mutant of New: only a segment that is still to be read is known.
NewUnsettled(p) == src[p].unannounced \ Unread

\* AnnounceSession: an identifier it has seen is not indexed again.
New(p) == src[p].unannounced \ Seen

\* AnnounceSession answers 409 to a pod it does not know and, for new segments, when the
\* channel is sealed.
Accepted(p) == Known(p) /\ (~sealed \/ New(p) = {})

\* A process that ends leaves its pod, or, in a Job, takes it along.
Ended(p) ==
  [src EXCEPT ![p].pc = IF Collective THEN "gone" ELSE "down",
              ![p].reg = IF @ = "current" THEN "stale" ELSE @,
              ![p].todo = {}, ![p].unannounced = {}, ![p].buffer = {}]

\* Flush, and Run after it: any 409 is taken for a sealed channel, and what was not
\* announced is dropped.  Only while a checkpoint is restored does it end the process.
PublishSource(p) ==
  /\ src[p].pc \in {"publish", "republish"}
  /\ queued' = IF Accepted(p) THEN queued \cup New(p) ELSE queued
  /\ src' = IF src[p].pc = "republish" /\ ~Accepted(p) THEN Ended(p)
            ELSE [src EXCEPT ![p].pc = "report", ![p].unannounced = {}]
  /\ sourceUnchanged /\ UNCHANGED <<ckpt, inflight, released, lost, completed, faults>>

\* reportDone; a rank of a collective then exits, any other process idles.
ReportSource(p) ==
  /\ src[p].pc = "report"
  /\ src' = IF ~Known(p) THEN Ended(p)
            ELSE [src EXCEPT ![p].done = TRUE, ![p].pc = IF Collective THEN "exited" ELSE "idle"]
  /\ sourceUnchanged /\ UNCHANGED <<ckpt, queued, inflight, released, lost, completed, faults>>

\* heartbeat: register
HeartbeatSource(p) ==
  /\ src[p].pc \in {"emit", "commit", "publish", "report", "idle"} /\ src[p].reg = "none"
  /\ src' = [src EXCEPT ![p].reg = "current"]
  /\ sourceUnchanged /\ UNCHANGED <<ckpt, queued, inflight, released, lost, completed, faults>>

\* Mutant of DeletedBlobs: the blobs of a released record go, whichever run wrote them.
DeletedBlobsOfRecords(p, gone) == {b \in src[p].blobs : \E s \in gone : b[2] \in s.recs}

\* remove and releaseBlobs: a process knows the blobs bound to the segments it wrote itself.
DeletedBlobs(p, gone) ==
  {b \in src[p].blobs : b[1] = src[p].run /\ \E s \in gone : s.run = b[1] /\ b[2] \in s.recs}

\* heartbeat: ReleasedSession and releaseSegments
ReleaseSegments(p) ==
  LET gone == {s \in released \cup lost : s.pod = p /\ s \in src[p].segs} IN
  /\ src[p].pc \in {"emit", "publish", "report", "idle"} /\ Known(p) /\ ~Collective
  /\ gone # {}
  /\ src' = [src EXCEPT ![p].segs = @ \ gone, ![p].blobs = @ \ DeletedBlobs(p, gone)]
  /\ sourceUnchanged /\ UNCHANGED <<ckpt, queued, inflight, released, lost, completed, faults>>

CrashSource(p) ==
  /\ Alive(p) /\ src[p].pc # "exited" /\ Fault
  /\ src' = Ended(p)
  /\ sourceUnchanged /\ UNCHANGED <<ckpt, queued, inflight, released, lost, completed>>

\* The pod goes, with its volume: evicted, or no longer wanted.
Removed(p) ==
  [Ended(p) EXCEPT ![p].pc = "gone", ![p].segs = {}, ![p].blobs = {}]

EvictSource(p) ==
  /\ Used(p) /\ src[p].pc \notin {"gone", "exited"} /\ ~Collective /\ Fault
  /\ src' = Removed(p)
  /\ sourceUnchanged /\ UNCHANGED <<ckpt, queued, inflight, released, lost, completed>>

ScaleDownSource(p) ==
  /\ Used(p) /\ src[p].pc # "gone" /\ ~Collective /\ spec["source"] = 0
  /\ src' = Removed(p)
  /\ sourceUnchanged /\ UNCHANGED <<ckpt, queued, inflight, released, lost, completed, faults>>

\* The Job controller: a group whose rank failed has failed, one that exited is complete.
JobEnds(p) ==
  /\ Collective /\ job.state = "active" /\ src[p].run = job.attempt
  /\ \/ src[p].pc = "gone" /\ job' = [job EXCEPT !.state = "failed"] /\ UNCHANGED src
     \/ src[p].pc = "exited" /\ job' = [job EXCEPT !.state = "complete"] /\ src' = Removed(p)
  /\ UNCHANGED <<materialized, maxAttempts, snk, ckpt, coordVars, at, view, spec, status, phase, faults>>

-----------------------------------------------------------------------------
\* The sink's pod

sinkUnchanged == UNCHANGED <<materialized, maxAttempts, src, ckpt, lost, sealed, extSealed, ctlVars>>

\* The process has ended; deliveries stay with it until it is taken over or expires.
SinkEnded == [NewSink EXCEPT !.reg = IF snk.reg = "current" THEN "stale" ELSE snk.reg, !.done = snk.done]

\* The container starts and registers; what its predecessor had in hand goes back.
RegisterSink ==
  /\ snk.pc = "off" /\ spec["sink"] = 1
  /\ snk' = [snk EXCEPT !.pc = "loop", !.reg = "current", !.done = FALSE]
  /\ queued' = queued \cup inflight /\ inflight' = {}
  /\ completed' = IF snk.reg = "stale" THEN completed \ {"sink"} ELSE completed
  /\ sinkUnchanged /\ UNCHANGED <<released, ext, faults>>

HeartbeatSink ==
  /\ snk.pc # "off" /\ snk.reg = "none"
  /\ snk' = [snk EXCEPT !.reg = "current"]
  /\ sinkUnchanged /\ UNCHANGED <<queued, inflight, released, ext, completed, faults>>

\* ConsumeSession; a Materialized channel hands nothing out before it is sealed.
Consume ==
  /\ snk.pc = "loop" /\ snk.todo = {} /\ SinkKnown
  /\ \/ /\ queued # {} /\ (materialized => sealed)
        /\ snk' = [snk EXCEPT !.todo = queued]
        /\ inflight' = inflight \cup queued /\ queued' = {}
     \/ /\ sealed /\ Quiet
        /\ snk' = [snk EXCEPT !.pc = "flush", !.out = {Summary}]
        /\ UNCHANGED <<queued, inflight>>
  /\ sinkUnchanged /\ UNCHANGED <<released, ext, completed, faults>>

\* The pod that holds the segment has its file, and those of its blobs.
OnVolume(s) == s \in src[s.pod].segs /\ \A r \in s.recs : <<s.run, r>> \in src[s.pod].blobs

\* fetch and openBlob reach the segment and its blobs.
Readable(s) == Collective \/ (Alive(s.pod) /\ OnVolume(s))

\* fetchRetry, OpenBlob and OnRecord
Process(s) ==
  /\ snk.pc = "loop" /\ s \in snk.todo /\ Readable(s)
  /\ snk' = [snk EXCEPT !.pc = "flush", !.todo = @ \ {s}, !.hand = {s}, !.out = s.recs]
  /\ sinkUnchanged /\ UNCHANGED <<queued, inflight, released, ext, completed, faults>>

\* fetchRetry gives up: the delivery is returned and Run ends.
FetchFails(s) ==
  /\ snk.pc = "loop" /\ s \in snk.todo /\ ~Readable(s)
  /\ snk' = SinkEnded
  /\ LET back == IF SinkKnown THEN {s} \cap inflight ELSE {} IN
       queued' = queued \cup back /\ inflight' = inflight \ back
  /\ sinkUnchanged /\ UNCHANGED <<released, ext, completed, faults>>

\* Flush to the external channel (Produce); a 409 ends the consumer.
FlushSink ==
  /\ snk.pc = "flush"
  /\ IF extSealed
     THEN snk' = SinkEnded /\ UNCHANGED ext
     ELSE /\ ext' = ext \cup snk.out
          /\ snk' = [snk EXCEPT !.out = {}, !.pc = IF snk.hand = {} THEN "report" ELSE "ack"]
  /\ sinkUnchanged /\ UNCHANGED <<queued, inflight, released, completed, faults>>

\* AckSession and release
Ack ==
  /\ snk.pc = "ack"
  /\ IF SinkKnown
     THEN /\ released' = released \cup (snk.hand \cap inflight)
          /\ inflight' = inflight \ snk.hand
          /\ snk' = [snk EXCEPT !.pc = "loop", !.hand = {}]
     ELSE snk' = SinkEnded /\ UNCHANGED <<released, inflight>>
  /\ sinkUnchanged /\ UNCHANGED <<queued, ext, completed, faults>>

ReportSink ==
  /\ snk.pc = "report"
  /\ snk' = IF SinkKnown THEN [snk EXCEPT !.pc = "idle", !.done = TRUE] ELSE SinkEnded
  /\ sinkUnchanged /\ UNCHANGED <<queued, inflight, released, ext, completed, faults>>

CrashSink ==
  /\ snk.pc # "off" /\ Fault
  /\ snk' = SinkEnded
  /\ sinkUnchanged /\ UNCHANGED <<queued, inflight, released, ext, completed>>

ScaleDownSink ==
  /\ snk.pc # "off" /\ spec["sink"] = 0
  /\ snk' = SinkEnded
  /\ sinkUnchanged /\ UNCHANGED <<queued, inflight, released, ext, completed, faults>>

-----------------------------------------------------------------------------
\* Controller

Terminal == {"Succeeded", "Failed"}
ctlUnchanged == UNCHANGED <<materialized, maxAttempts, workVars, queued, inflight, released, lost, ext>>

\* operationMetrics' latch: runnable input reopens an operation.
Runnable == queued # {} /\ (materialized => sealed)

Latched ==
  {o \in Ops : CompleteNow(o) \/ (o \in completed /\ ~(o = "sink" /\ Runnable))}

\* Reconcile up to the report: lost records end the workload.
ReadReport ==
  /\ at = "idle" /\ phase \notin Terminal
  /\ completed' = Latched
  /\ view' = [lost |-> lost # {}, sealed |-> sealed, extSealed |-> extSealed,
              complete |-> Latched, holds |-> HoldsUnconsumed]
  /\ IF lost # {}
     THEN phase' = "Failed" /\ UNCHANGED at
     ELSE at' = "source" /\ UNCHANGED phase
  /\ ctlUnchanged /\ UNCHANGED <<sealed, extSealed, spec, status, job, faults>>

\* Pods the Deployment still has.
Replicas(o) ==
  IF o = "sink" THEN IF snk.pc = "off" THEN 0 ELSE 1
  ELSE Cardinality({p \in Pods : src[p].pc \notin {"off", "gone"}})

\* Mutant of Want: a completed operation is taken down at once.
WantNothing(o) == IF o \in view.complete THEN 0 ELSE 1

\* reconcileOperation: completed operations keep their pods while these hold output.
Want(o) ==
  IF o \notin view.complete THEN 1
  ELSE IF o = "source" /\ view.holds THEN 1 ELSE 0

\* The consumer of a Materialized channel waits for the seal.
Gated(o) == o = "sink" /\ materialized /\ ~view.sealed

NextAt(o) == IF o = "source" THEN "sink" ELSE "status"

\* Mutant of Seals: the sink's input is sealed with the first report of its source.
SealsEarly(o) == o \in view.complete \/ o = "source"

\* Mutant of Seals: a channel is sealed once the pods before it are gone.
SealsWhenDown(o) == o \in view.complete /\ Replicas(o) = 0

\* reconcileOperation: whose outbound channels are sealed
Seals(o) == o \in view.complete

\* reconcileOperation of a Deployment; one that makes no progress has failed.
ReconcileOperation(o) ==
  /\ at = o /\ ~(o = "source" /\ Collective)
  /\ at' = NextAt(o)
  /\ IF Gated(o)
     THEN status' = [status EXCEPT ![o] = "Waiting"] /\ UNCHANGED <<spec, sealed, extSealed, faults>>
     ELSE /\ sealed' = (sealed \/ (o = "source" /\ Seals(o)))
          /\ extSealed' = (extSealed \/ (o = "sink" /\ Seals(o)))
          /\ spec' = [spec EXCEPT ![o] = Want(o)]
          /\ \/ /\ status' = [status EXCEPT ![o] =
                     IF o \in view.complete /\ Want(o) = 0 /\ Replicas(o) = 0 THEN "Succeeded" ELSE "Running"]
                /\ UNCHANGED faults
             \/ status' = [status EXCEPT ![o] = "Failed"] /\ Replicas(o) > 0 /\ Fault
  /\ ctlUnchanged /\ UNCHANGED <<completed, view, phase, job>>

\* reconcileCollective
ReconcileCollective ==
  /\ at = "source" /\ Collective
  /\ at' = NextAt("source")
  /\ \/ /\ job.state \in {"none", "failed"} /\ job.attempt < maxAttempts
        /\ job' = [attempt |-> job.attempt + 1, state |-> "active"]
        /\ status' = [status EXCEPT !["source"] = "Running"] /\ UNCHANGED sealed
     \/ /\ job.state = "failed" /\ job.attempt = maxAttempts
        /\ status' = [status EXCEPT !["source"] = "Failed"] /\ UNCHANGED <<job, sealed>>
     \/ /\ job.state = "active"
        /\ status' = [status EXCEPT !["source"] = "Running"] /\ UNCHANGED <<job, sealed>>
     \/ /\ job.state = "complete"
        /\ sealed' = TRUE
        /\ status' = [status EXCEPT !["source"] = "Succeeded"] /\ UNCHANGED job
  /\ ctlUnchanged /\ UNCHANGED <<extSealed, completed, view, spec, phase, faults>>

\* Reconcile from there to the status, which it writes with a report read once more
Conclude ==
  /\ at = "status"
  /\ completed' = Latched
  /\ at' = "idle" /\ view' = NoReport /\ status' = NoStatus
  /\ phase' = IF \E o \in Ops : status[o] = "Failed" THEN "Failed"
              ELSE IF \A o \in Ops : status[o] = "Succeeded" THEN "Succeeded" ELSE "Running"
  /\ ctlUnchanged /\ UNCHANGED <<sealed, extSealed, spec, job, faults>>

\* A call fails, or the controller is restarted: the pass starts again.
ReconcileFails ==
  /\ at # "idle" /\ Fault
  /\ at' = "idle" /\ view' = NoReport /\ status' = NoStatus
  /\ ctlUnchanged /\ UNCHANGED <<sealed, extSealed, completed, spec, phase, job>>

-----------------------------------------------------------------------------
SourceStep(p) ==
  \/ RegisterSource(p) \/ Emit(p) \/ Materialize(p)
  \/ CommitSource(p) \/ PublishSource(p) \/ ReportSource(p)

SinkStep ==
  \/ RegisterSink \/ Consume \/ FlushSink \/ Ack \/ ReportSink
  \/ \E s \in snk.todo : Process(s) \/ FetchFails(s)

ControllerStep == ReadReport \/ (\E o \in Ops : ReconcileOperation(o)) \/ ReconcileCollective \/ Conclude

\* Once the workload has ended nobody looks at it any more.
Next ==
  /\ phase \notin Terminal
  /\ \/ \E p \in Pods :
          \/ SourceStep(p) \/ HeartbeatSource(p) \/ ReleaseSegments(p)
          \/ CrashSource(p) \/ EvictSource(p) \/ ScaleDownSource(p) \/ JobEnds(p) \/ ExpireSource(p)
     \/ SinkStep \/ HeartbeatSink \/ ExpireSink \/ CrashSink \/ ScaleDownSink
     \/ ControllerStep \/ ReconcileFails

Spec == Init /\ [][Next]_vars

(***************************************************************************)
(* Fairness.  Processes run on and are started again, heartbeats of live    *)
(* processes come through, pods that are gone expire, the cluster takes     *)
(* down what is not wanted, and the controller reconciles again and again.  *)
(***************************************************************************)
Going == phase \notin Terminal

Fairness ==
  /\ \A p \in Pods :
       /\ WF_vars(Going /\ SourceStep(p))
       /\ WF_vars(Going /\ ScaleDownSource(p)) /\ WF_vars(Going /\ JobEnds(p))
       /\ WF_vars(Going /\ HeartbeatSource(p))
       /\ WF_vars(Going /\ src[p].pc = "gone" /\ ExpireSource(p))
  /\ WF_vars(Going /\ SinkStep) /\ WF_vars(Going /\ HeartbeatSink) /\ WF_vars(Going /\ ScaleDownSink)
  /\ WF_vars(Going /\ snk.reg = "stale" /\ ExpireSink)
  /\ WF_vars(Going /\ ControllerStep)

FairSpec == Spec /\ Fairness

-----------------------------------------------------------------------------
\* Properties

\* Every variable has its type, and a segment is in one place only: queued, handed out,
\* released or lost.
TypeOK ==
  /\ Cardinality(Seen) = Cardinality(queued) + Cardinality(inflight) + Cardinality(released) + Cardinality(lost)
  /\ snk.todo \cup snk.hand \subseteq Seen
  /\ ext \subseteq Records \cup {Summary} /\ completed \subseteq Ops
  /\ at \in Ops \cup {"idle", "status"} /\ phase \in Terminal \cup {"Pending", "Running"}
  /\ spec \in [Ops -> {0, 1}] /\ job.attempt \in 0 .. 2 /\ faults \in 0 .. MaxFaults

\* A workload the controller declares Succeeded has its result: every record the source
\* emitted has been through the sink, and the sink's final output is there.  The phase is
\* decided from a report that was stale when it was used, while processes restart.
SucceededMeansProcessed == phase = "Succeeded" => Records \cup {Summary} \subseteq ext

\* The lifetime rule of blob.go: while its pod is there, a segment somebody has still to
\* read is on it, with all its blobs, whatever its earlier and later runs release.
ReadableWhileNeeded ==
  \A s \in Unread : ~Collective /\ src[s.pod].pc # "gone" => OnVolume(s)

\* The controller takes no pod away that holds what a consumer needs (HoldsUnconsumed,
\* desiredReplicas): with no fault, no record is ever lost.
NoSelfInflictedLoss == lost # {} => faults > 0

\* An idle process of which the coordinator has forgotten the report
ReportForgotten ==
  \/ snk.pc = "idle" /\ ~(snk.reg = "current" /\ snk.done)
  \/ \E p \in Pods : src[p].pc = "idle" /\ ~(src[p].reg = "current" /\ src[p].done)

\* A sink restarted after its output channel was sealed
RestartedTooLate == extSealed /\ "sink" \notin completed

\* Every workload ends, Succeeded or Failed: seals, scale-downs and completion follow from
\* each other through stale reports, restarts and failed passes.  Excepted are an idle
\* process of which the coordinator has forgotten the report, and a sink restarted after
\* its output channel was sealed, which emits into it in OnDrain, is refused and ends
\* (ReportForgotten and RestartedTooLate).
EventuallyFinished == <>(phase \in Terminal) \/ <>[](ReportForgotten \/ RestartedTooLate)
=============================================================================
