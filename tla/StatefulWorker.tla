-------------------------- MODULE StatefulWorker --------------------------
(***************************************************************************)
(* An operation of one replica whose callbacks run in an application        *)
(* container: the worker process (src/pkg/sdk), its checkpoints             *)
(* (src/pkg/sdk/checkpoint.go), the bridge to the application               *)
(* (src/pkg/runtime) and the application itself.                            *)
(*                                                                         *)
(* Worker processes are numbered in the order they start: a container       *)
(* restarts in its pod, or the pod is replaced while the old process still  *)
(* runs.  Applications die, are replaced while they work on a callback, and *)
(* answer late.  The application's memory is what it has counted of each    *)
(* input; it is lost with the application.                                  *)
(*                                                                         *)
(* The object store is one conditional write (module Durable has its        *)
(* failures), and which pod is handed a segment is arbitrary (module        *)
(* Delivery has the assignment).  A request whose answer is lost ends the   *)
(* worker like a crash right after it.                                      *)
(***************************************************************************)
EXTENDS Integers, FiniteSets

CONSTANTS
  Inputs,    \* segments of the sealed input channel
  MaxFaults  \* bound: crashes, lapses, replacements

\* What a worker has in hand besides an input
Drain == "drain"
Nothing == "nothing"

ASSUME StatefulWorkerAssumption ==
  IsFiniteSet(Inputs) /\ MaxFaults \in Nat /\ {Drain, Nothing} \cap Inputs = {}

\* A replaced pod ends two processes when the old one claims the checkpoint late;
\* every other fault ends at most one.
Procs    == 1 .. 2 * MaxFaults + 1
Pods     == 1 .. MaxFaults + 1
Sessions == 1 .. MaxFaults + 1

VARIABLES
  checkpointed,  \* Worker.CheckpointStore # nil
  proc,          \* worker processes, each with its runtime.Server and its application
  \* coordinator: process registered for each pod (0: none), done reports, inputs
  \* (0 queued, -1 acknowledged, or the pod they are delivered to), announced outputs,
  \* completion latch
  session, done, work, announced, completed,
  manifest,      \* object store: the operation's checkpoint
  faults

vars == <<checkpointed, proc, session, done, work, announced, completed, manifest, faults>>

Zero  == [i \in Inputs |-> 0]
Fault == faults < MaxFaults /\ faults' = faults + 1

\* A segment of the operation's output: the process that wrote it, the input it was
\* computed from, or Drain and the state it sums up.
Segment(n, of, sum) == [by |-> n, of |-> of, sum |-> sum]

\* checkpointManifest and the envelope's writer
NoCheckpoint == [writer |-> 0, has |-> FALSE, mem |-> Zero, inputs |-> {}, outputs |-> {}, complete |-> FALSE]

\* An application that is not there; its memory goes with it.
NoApp == [up |-> FALSE, mem |-> Zero, inv |-> <<>>]

\* runtime.Server of a process that starts
NewServer == [session |-> 0, ready |-> FALSE, current |-> <<>>, fatal |-> FALSE]

\* A worker process: program counter, pod, delivered segments not begun, the segment or
\* callback in hand, the checkpoint as it knows it, segments written and not announced,
\* the snapshot to be committed, its server, and the application by session
NewProc ==
  [pc |-> "off", pod |-> 1, todo |-> {}, hand |-> Nothing, local |-> NoCheckpoint,
   unannounced |-> {}, snap |-> Zero, srv |-> NewServer, app |-> [s \in Sessions |-> NoApp]]

Init ==
  /\ checkpointed \in BOOLEAN
  /\ proc = [n \in Procs |-> NewProc]
  /\ session = [p \in Pods |-> 0] /\ done = [p \in Pods |-> FALSE]
  /\ work = [i \in Inputs |-> 0] /\ announced = {} /\ completed = FALSE
  /\ manifest = NoCheckpoint /\ faults = 0

-----------------------------------------------------------------------------
\* Processes and pods

Running(n) == proc[n].pc \notin {"off", "dead"}
Latest == Cardinality({n \in Procs : proc[n].pc # "off"})
Ended  == Latest > 0 => proc[Latest].pc = "dead"

\* The process is gone, and with it the application's connection.
Gone(n) == proc' = [proc EXCEPT ![n] = [NewProc EXCEPT !.pc = "dead", !.pod = proc[n].pod]]

\* requireIncarnation
Known(n) == session[proc[n].pod] = n

\* Mutant of Returned: what a pod held stays with it.
ReturnedNever(p) == work

\* returnConsumerDeliveries
Returned(p) == [i \in Inputs |-> IF work[i] = p THEN 0 ELSE work[i]]

\* A container starts: in the pod of the process that ended, or in a new pod beside it.
Start ==
  /\ Latest < Cardinality(Procs)
  /\ \/ Ended /\ UNCHANGED faults
     \/ ~Ended /\ Fault
  /\ proc' = [proc EXCEPT ![Latest + 1].pc = "wait",
                          ![Latest + 1].pod =
                             IF Latest = 0 THEN 1 ELSE proc[Latest].pod + IF Ended THEN 0 ELSE 1]
  /\ UNCHANGED <<checkpointed, session, done, work, announced, completed, manifest>>

Crash(n) ==
  /\ Running(n) /\ Fault
  /\ Gone(n)
  /\ UNCHANGED <<checkpointed, session, done, work, announced, completed, manifest>>

\* main: a failure of the protocol cancels the worker's context, which ends Run.
Fail(n) ==
  /\ Running(n) /\ proc[n].srv.fatal
  /\ Gone(n)
  /\ UNCHANGED <<checkpointed, session, done, work, announced, completed, manifest, faults>>

\* heartbeat starts once the checkpoint is restored, and not at all in a process that
\* finds its operation complete.
HasHeartbeat(n) ==
  /\ proc[n].pc \notin {"off", "dead", "wait", "claim", "restore", "republish"}
  /\ ~(proc[n].local.complete /\ proc[n].hand = Nothing)

\* A process that sends nothing more: it has ended, or idles without a heartbeat.
Silent(n) == proc[n].pc = "dead" \/ (proc[n].pc = "idle" /\ ~HasHeartbeat(n))

\* expireAll: a pod that has been silent for too long is forgotten.
Expire(p) ==
  /\ session[p] # 0
  /\ \/ Silent(session[p]) /\ UNCHANGED faults
     \/ ~Silent(session[p]) /\ Fault
  /\ session' = [session EXCEPT ![p] = 0]
  /\ done' = [done EXCEPT ![p] = FALSE]
  /\ work' = Returned(p)
  /\ UNCHANGED <<checkpointed, proc, announced, completed, manifest>>

Heartbeat(n) ==
  /\ Running(n) /\ HasHeartbeat(n) /\ session[proc[n].pod] = 0
  /\ session' = [session EXCEPT ![proc[n].pod] = n]
  /\ UNCHANGED <<checkpointed, proc, done, work, announced, completed, manifest, faults>>

-----------------------------------------------------------------------------
\* The bridge: one application session, at most one invocation

bridgeUnchanged == UNCHANGED <<checkpointed, session, done, work, announced, completed, manifest>>

\* Mutant of Refuses: a replacement application carries on in the surviving worker.
RefusesNone(n) == FALSE

\* connect: a checkpointed worker does not outlive its application.
Refuses(n) == checkpointed /\ proc[n].srv.session # 0

\* connect, by an application that starts when there is none, or beside the one there is
Connect(n) ==
  /\ Running(n) /\ ~proc[n].srv.fatal
  /\ \/ (\A t \in Sessions : ~proc[n].app[t].up) /\ UNCHANGED faults
     \/ (\E t \in Sessions : proc[n].app[t].up) /\ Fault
  /\ LET s == proc[n].srv.session + 1 IN
       /\ s \in Sessions
       /\ proc' = IF Refuses(n)
                  THEN [proc EXCEPT ![n].srv.fatal = TRUE, ![n].srv.current = <<>>]
                  ELSE [proc EXCEPT ![n].srv.session = s, ![n].srv.ready = FALSE, ![n].app[s].up = TRUE]
  /\ bridgeUnchanged

\* setReady, by the application of the current session
SetReady(n) ==
  /\ Running(n) /\ proc[n].srv.session # 0 /\ ~proc[n].srv.ready
  /\ proc[n].app[proc[n].srv.session].up
  /\ proc' = [proc EXCEPT ![n].srv.ready = TRUE]
  /\ bridgeUnchanged /\ UNCHANGED faults

Callbacks == {"restore", "record", "snapshot", "drain"}

\* Invoke: WaitReady, then the callback the worker waits for becomes the current invocation.
Invoke(n) ==
  /\ proc[n].pc \in Callbacks /\ proc[n].srv.current = <<>>
  /\ proc[n].srv.ready /\ ~proc[n].srv.fatal
  /\ proc' = [proc EXCEPT ![n].srv.current = <<proc[n].pc, proc[n].hand>>]
  /\ bridgeUnchanged /\ UNCHANGED faults

\* What a callback leaves in the application's memory.
MemAfter(n, inv, mem) ==
  CASE inv[1] = "restore" -> proc[n].local.mem
    [] inv[1] = "record"  -> [mem EXCEPT ![inv[2]] = @ + 1]
    [] OTHER -> mem

\* Mutant of Offered: an invocation is handed out by the session that was there first.
OfferedOnce(n, s) == proc[n].srv.session = s /\ proc[n].srv.ready /\ s = 1

\* next: the current invocation goes to the session that is ready, a replacement included.
Offered(n, s) == proc[n].srv.session = s /\ proc[n].srv.ready

\* next, and the handler of the application (Client.Run)
Take(n, s) ==
  /\ proc[n].app[s].up /\ proc[n].app[s].inv = <<>>
  /\ proc[n].srv.current # <<>> /\ ~proc[n].srv.fatal /\ Offered(n, s)
  /\ proc' = [proc EXCEPT ![n].app[s].inv = proc[n].srv.current,
                          ![n].app[s].mem = MemAfter(n, proc[n].srv.current, @)]
  /\ bridgeUnchanged /\ UNCHANGED faults

\* next refuses a session that has been replaced, and everyone after a failure.
Turned(n, s) ==
  /\ proc[n].app[s].up /\ proc[n].app[s].inv = <<>>
  /\ proc[n].srv.fatal \/ proc[n].srv.session # s
  /\ proc' = [proc EXCEPT ![n].app[s] = NoApp]
  /\ bridgeUnchanged /\ UNCHANGED faults

\* Mutant of AfterCallback: the input is acknowledged first and its checkpoint follows.
AfterCallbackEager(n) ==
  CASE proc[n].pc = "restore" -> "republish"
    [] proc[n].pc = "record" -> "ack"
    [] proc[n].pc = "drain" -> IF checkpointed THEN "snapshot" ELSE "publish"
    [] OTHER -> "commit"

\* What follows a callback in Run, startCheckpoint and commitCheckpoint.
AfterCallback(n) ==
  CASE proc[n].pc = "restore" -> "republish"
    [] proc[n].pc \in {"record", "drain"} -> IF checkpointed THEN "snapshot" ELSE "publish"
    [] OTHER -> "commit"

\* What the worker has to announce when a callback has answered.
Produced(n, mem) ==
  CASE proc[n].pc = "restore" -> proc[n].local.outputs
    [] proc[n].pc = "record" -> {Segment(n, proc[n].hand, Zero)}
    [] proc[n].pc = "drain" -> {Segment(n, Drain, mem)}
    [] OTHER -> {}

\* complete and callThroughServer: the reply of the current session to the current
\* invocation is taken, and the worker goes on with it; any other is refused, which ends
\* the application that sent it.
Reply(n, s) ==
  LET a == proc[n].app[s] IN
  /\ a.up /\ a.inv # <<>>
  /\ proc' = IF s = proc[n].srv.session /\ a.inv = proc[n].srv.current
             THEN [proc EXCEPT ![n].srv.current = <<>>, ![n].app[s].inv = <<>>,
                               ![n].pc = AfterCallback(n),
                               ![n].unannounced = @ \cup Produced(n, a.mem),
                               ![n].snap = IF proc[n].pc = "snapshot" THEN a.mem ELSE @]
             ELSE [proc EXCEPT ![n].app[s] = NoApp]
  /\ bridgeUnchanged /\ UNCHANGED faults

AppCrash(n, s) ==
  /\ proc[n].app[s].up /\ Fault
  /\ proc' = [proc EXCEPT ![n].app[s] = NoApp]
  /\ bridgeUnchanged

-----------------------------------------------------------------------------
\* The worker's loop

\* main waits for the application before Run registers the pod.  A process that takes the
\* pod over returns what its predecessor held.
Register(n) ==
  LET p == proc[n].pod IN
  /\ proc[n].pc = "wait" /\ proc[n].srv.ready /\ ~proc[n].srv.fatal
  /\ session' = [session EXCEPT ![p] = n]
  /\ work' = Returned(p)
  /\ done' = [done EXCEPT ![p] = FALSE]
  /\ completed' = (completed /\ session[p] = 0)
  /\ proc' = [proc EXCEPT ![n].pc = IF checkpointed THEN "claim" ELSE "loop"]
  /\ UNCHANGED <<checkpointed, announced, manifest, faults>>

\* Claim, and startCheckpoint up to Restore: the process becomes the only writer.
StartCheckpoint(n) ==
  /\ proc[n].pc = "claim"
  /\ manifest' = [manifest EXCEPT !.writer = n]
  /\ proc' = [proc EXCEPT ![n].local = manifest', ![n].pc = IF manifest.has THEN "restore" ELSE "loop"]
  /\ UNCHANGED <<checkpointed, session, done, work, announced, completed, faults>>

\* Consume, when everything delivered has been worked on.
Consume(n) ==
  LET queued == {i \in Inputs : work[i] = 0} IN
  /\ proc[n].pc = "loop" /\ proc[n].todo = {} /\ Known(n)
  /\ \/ /\ queued # {}
        /\ proc' = [proc EXCEPT ![n].todo = queued]
        /\ work' = [i \in Inputs |-> IF i \in queued THEN proc[n].pod ELSE work[i]]
     \/ /\ \A i \in Inputs : work[i] = -1
        /\ proc' = [proc EXCEPT ![n].pc = "drain", ![n].hand = Drain]
        /\ UNCHANGED work
  /\ UNCHANGED <<checkpointed, session, done, announced, completed, manifest, faults>>

\* covers: the segment is in the state this process restored or committed.
Covers(n, i) == checkpointed /\ i \in proc[n].local.inputs

\* The next delivered segment: fetched and handed to OnRecord, or only acknowledged.
Begin(n, i) ==
  /\ proc[n].pc = "loop" /\ i \in proc[n].todo
  /\ proc' = [proc EXCEPT ![n].todo = @ \ {i}, ![n].hand = i,
                          ![n].pc = IF Covers(n, i) THEN "ack" ELSE "record"]
  /\ UNCHANGED <<checkpointed, session, done, work, announced, completed, manifest, faults>>

\* fetchRetry gives up: the delivery goes back and Run returns.
FetchFails(n, i) ==
  /\ proc[n].pc = "loop" /\ i \in proc[n].todo /\ ~Covers(n, i) /\ Fault
  /\ Gone(n)
  /\ work' = [work EXCEPT ![i] = IF Known(n) /\ @ = proc[n].pod THEN 0 ELSE @]
  /\ UNCHANGED <<checkpointed, session, done, announced, completed, manifest>>

\* The manifest that follows the process's own.
NextManifest(n) ==
  [writer   |-> n,
   has      |-> TRUE,
   mem      |-> proc[n].snap,
   inputs   |-> proc[n].local.inputs \cup ({proc[n].hand} \cap Inputs),
   outputs  |-> proc[n].local.outputs \cup proc[n].unannounced,
   complete |-> proc[n].hand = Drain]

\* commitCheckpoint from PutImmutable to the conditional write; a fenced writer ends.
Commit(n) ==
  /\ proc[n].pc = "commit"
  /\ IF manifest.writer = n
     THEN /\ manifest' = NextManifest(n)
          /\ proc' = [proc EXCEPT ![n].local = manifest', ![n].snap = Zero, ![n].pc = "publish"]
     ELSE Gone(n) /\ UNCHANGED manifest
  /\ UNCHANGED <<checkpointed, session, done, work, announced, completed, faults>>

\* Where the worker goes when its output is announced.
AfterPublish(n) ==
  CASE proc[n].pc = "republish" -> IF proc[n].local.complete THEN "report" ELSE "loop"
    [] proc[n].hand = Drain -> "report"
    [] OTHER -> "ack"

\* publish, also of what the restored manifest lists: known segments are announced again
\* without effect.  Every refusal ends the worker.
Publish(n) ==
  /\ proc[n].pc \in {"publish", "republish"}
  /\ IF Known(n)
     THEN /\ announced' = announced \cup proc[n].unannounced
          /\ proc' = [proc EXCEPT ![n].unannounced = {}, ![n].pc = AfterPublish(n)]
     ELSE Gone(n) /\ UNCHANGED announced
  /\ UNCHANGED <<checkpointed, session, done, work, completed, manifest, faults>>

\* AckSession: a delivery that has been returned meanwhile is passed over.
Ack(n) ==
  /\ proc[n].pc = "ack"
  /\ IF Known(n)
     THEN /\ work' = [work EXCEPT ![proc[n].hand] = IF @ = proc[n].pod THEN -1 ELSE @]
          /\ proc' = [proc EXCEPT ![n].hand = Nothing, ![n].pc = "loop"]
     ELSE Gone(n) /\ UNCHANGED work
  /\ UNCHANGED <<checkpointed, session, done, announced, completed, manifest, faults>>

\* reportDone, then idle
ReportDone(n) ==
  /\ proc[n].pc = "report"
  /\ IF Known(n)
     THEN done' = [done EXCEPT ![proc[n].pod] = TRUE] /\ proc' = [proc EXCEPT ![n].pc = "idle"]
     ELSE Gone(n) /\ UNCHANGED done
  /\ UNCHANGED <<checkpointed, session, work, announced, completed, manifest, faults>>

\* Metrics, with operationMetrics' latch
Metrics ==
  /\ ~completed
  /\ \A i \in Inputs : work[i] = -1
  /\ \E p \in Pods : session[p] # 0
  /\ \A p \in Pods : session[p] # 0 => done[p]
  /\ completed' = TRUE
  /\ UNCHANGED <<checkpointed, proc, session, done, work, announced, manifest, faults>>

WorkerStep(n) ==
  \/ Register(n) \/ StartCheckpoint(n) \/ Invoke(n) \/ Consume(n)
  \/ (\E i \in Inputs : Begin(n, i))
  \/ Commit(n) \/ Publish(n) \/ Ack(n) \/ ReportDone(n)

AppStep(n) == SetReady(n) \/ \E s \in Sessions : Take(n, s) \/ Turned(n, s) \/ Reply(n, s)

Next ==
  \/ Start \/ Metrics
  \/ \E p \in Pods : Expire(p)
  \/ \E n \in Procs :
       \/ WorkerStep(n) \/ AppStep(n) \/ Connect(n) \/ Heartbeat(n) \/ Fail(n)
       \/ Crash(n)
       \/ \E s \in Sessions : AppCrash(n, s)
       \/ \E i \in Inputs : FetchFails(n, i)

Spec == Init /\ [][Next]_vars

(***************************************************************************)
(* Fairness.  Processes run on; a container that ended is started again; an *)
(* application that ended connects again; a live process's heartbeat comes  *)
(* through; a process that is silent is found to be; the controller polls.  *)
(* Nothing is assumed of the faults: an application beside a live one, and  *)
(* a pod beside a live one, need not appear.                                *)
(***************************************************************************)
Reconnect(n) == (\A s \in Sessions : ~proc[n].app[s].up) /\ Connect(n)
StartAgain == Ended /\ Start
ExpireSilent(p) == session[p] # 0 /\ Silent(session[p]) /\ Expire(p)

Fairness ==
  /\ WF_vars(StartAgain) /\ WF_vars(Metrics)
  /\ \A p \in Pods : WF_vars(ExpireSilent(p))
  /\ \A n \in Procs :
       /\ WF_vars(WorkerStep(n)) /\ WF_vars(AppStep(n)) /\ WF_vars(Reconnect(n))
       /\ WF_vars(Heartbeat(n)) /\ WF_vars(Fail(n))

FairSpec == Spec /\ Fairness

-----------------------------------------------------------------------------
\* Properties

\* Every variable has its type: in particular no process is registered for a pod that is
\* not its own, and deliveries are to registered pods only (Returned).
TypeOK ==
  /\ checkpointed \in BOOLEAN /\ completed \in BOOLEAN
  /\ \A n \in Procs :
       /\ proc[n].pc \in Callbacks \cup {"off", "dead", "wait", "claim", "republish", "loop",
                                          "commit", "publish", "ack", "report", "idle"}
       /\ proc[n].pod \in Pods /\ proc[n].todo \subseteq Inputs
       /\ proc[n].hand \in Inputs \cup {Nothing, Drain}
       /\ proc[n].srv.session \in {0} \cup Sessions
  /\ session \in [Pods -> {0} \cup Procs]
  /\ \A p \in Pods : session[p] # 0 => proc[session[p]].pod = p
  /\ done \in [Pods -> BOOLEAN]
  /\ work \in [Inputs -> {-1, 0} \cup {p \in Pods : session[p] # 0}]
  /\ manifest.writer \in {0} \cup Procs /\ faults \in 0 .. MaxFaults

\* The refinement mapping; without checkpoints it stands still.
OutputsOf(x) == {o \in announced : o.of = x}
Answer == {o.sum : o \in {d \in manifest.outputs : d.of = Drain}}

Promise == INSTANCE ExactlyOnce WITH
  total   <- IF checkpointed THEN manifest.mem ELSE Zero,
  visible <- IF checkpointed THEN [i \in Inputs |-> Cardinality(OutputsOf(i))] ELSE Zero,
  answer  <- IF checkpointed THEN Answer ELSE {},
  answers <- IF checkpointed THEN Cardinality(OutputsOf(Drain)) ELSE 0

(***************************************************************************)
(* A checkpointed operation implements ExactlyOnce, whatever dies between   *)
(* the application's callback, the commit, the announcement and the         *)
(* acknowledgement: the committed state counts every input it covers once,  *)
(* each input has one visible output and only after the commit, and one     *)
(* final answer of the complete state (startCheckpoint, commitCheckpoint,   *)
(* covers, Claim, connect).  Nothing of the kind is promised without        *)
(* checkpoints.                                                            *)
(***************************************************************************)
Implements == Promise!Spec

\* An input the coordinator will not deliver again has left its output with the
\* coordinator, and in a checkpointed operation its effect in the committed state: a crash
\* after AckSession loses nothing.
AckedIsKept ==
  \A i \in Inputs : work[i] = -1 =>
    /\ OutputsOf(i) # {}
    /\ checkpointed => i \in manifest.inputs

\* A process idles of which the coordinator has forgotten the report
ReportForgotten == \E n \in Procs : proc[n].pc = "idle" /\ ~(Known(n) /\ done[proc[n].pod])

\* Through lost applications, replaced pods and fenced writers, the operation completes:
\* an application that takes over gets the unfinished callback (next), and a replacement
\* of the worker resumes where the committed checkpoint stands.  Excepted is a process
\* that idles after its report has been forgotten
\* (ReportForgotten): SourceDone is not repeated.
EventuallyComplete == <>completed \/ <>[]ReportForgotten
=============================================================================
