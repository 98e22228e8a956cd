------------------------------- MODULE Loops -------------------------------
(***************************************************************************)
(* Graphs with a cycle: the supersteps of a Synchronous loop, run by the    *)
(* barrier of recordOperationEpochDone, and the termination of an           *)
(* Asynchronous loop, decided by settle (src/pkg/coordinator/coordinator.go),*)
(* together with the polling loop of the workers (Run, src/pkg/sdk/sdk.go)  *)
(* that reports the ends of epochs.                                         *)
(*                                                                         *)
(* A pass of the polling loop asks for one inbound channel after the other  *)
(* and concludes from all the answers: the coordinator moves on between     *)
(* them.  The graph is chosen in the initial state.  Segments are kept in   *)
(* the object store, so that an expiry loses none (Delivery models losses); *)
(* one that is acknowledged or released is forgotten.                       *)
(***************************************************************************)
EXTENDS Integers, Sequences, FiniteSets

CONSTANTS
  Topologies,  \* set of [pods: op -> Seq(pod), inbound: op -> Seq(channel), channels: name ->
               \*         [from, to: op, mode: {"plain", "sync", "async"}, max: MaxEpochs],
               \*         bound: announcements on a channel, after which callbacks emit nothing to it,
               \*         finite, cycle, op: filled in by Described]
  Partitions,  \* partitions of every channel, 0 .. n - 1
  MaxFaults    \* bound: lapses and crashes

ASSUME LoopsAssumption ==
  /\ IsFiniteSet(Partitions) /\ Partitions \subseteq Nat
  /\ MaxFaults \in Nat
  /\ \A t \in Topologies : \A o \in DOMAIN t.inbound, c \in DOMAIN t.channels :
       (\E i \in DOMAIN t.inbound[o] : t.inbound[o][i] = c) <=> t.channels[c].to = o

ASSUME GraphAssumption ==
  \A t \in Topologies :
    /\ DOMAIN t = {"pods", "inbound", "channels", "bound", "finite", "cycle", "op"}
    /\ DOMAIN t.pods = DOMAIN t.inbound /\ t.bound \in Nat
    /\ \A o \in DOMAIN t.pods : t.pods[o] \in Seq({t.pods[o][i] : i \in DOMAIN t.pods[o]})
    /\ \A o \in DOMAIN t.pods : \A i \in DOMAIN t.pods[o] : t.pods[o][i] \notin {"queued", "held"}
    /\ \A o \in DOMAIN t.inbound : t.inbound[o] \in Seq(DOMAIN t.channels)
    /\ \A c \in DOMAIN t.channels :
         /\ {t.channels[c].from, t.channels[c].to} \subseteq DOMAIN t.inbound
         /\ t.channels[c].mode \in {"plain", "sync", "async"} /\ t.channels[c].max \in Nat

VARIABLES
  topo,        \* the graph the workload declares
  \* channel: epoch, productionClosed, sealed; queues, held and inflight as the
  \* place of each live segment <<partition, epoch, copy, again>>
  epoch, closed, sealed, place, emits,
  \* operation.pods and operation.epochDone
  session,     \* "none", "current" or "old": the registered process of the pod
  fresh, done, epochDone,
  finished,    \* history: sources of which a process has reported that it is done
  \* worker
  up,          \* pods whose process runs
  phase,       \* "source", "poll", "ending", "draining" or "idle"
  at,          \* the next inbound channel of the pass
  allQuiet, allDrained,
  hand,        \* segments of the answer still to be processed, as <<channel, segment>>
  current,     \* the one being processed, as a set
  out,         \* buffered and unannounced output, as <<channel, segment>>
  wepoch, lastDone,
  faults

chanVars == <<epoch, closed, sealed, place>>
podVars  == <<session, fresh, done, epochDone, finished>>
passVars == <<at, allQuiet, allDrained>>
workVars == <<hand, current, out>>
vars     == <<topo, chanVars, emits, podVars, up, phase, passVars, workVars, wepoch, lastDone, faults>>

-----------------------------------------------------------------------------
(* The graph *)

\* The operations of graph t reached from S along the edges.
Reach(t, S, edges) ==
  LET ops == DOMAIN t.inbound
      closedSets == {T \in SUBSET ops : S \subseteq T /\ \A e \in edges : e[1] \in T => e[2] \in T}
  IN  {o \in ops : \A T \in closedSets : o \in T}

Edge(t, c) == <<t.channels[c].from, t.channels[c].to>>
Both(t)  == UNION {{Edge(t, c), <<Edge(t, c)[2], Edge(t, c)[1]>>} : c \in DOMAIN t.channels}
Ahead(t) == {Edge(t, c) : c \in {c \in DOMAIN t.channels : t.channels[c].mode = "plain"}}

\* Channels c and d are of one connected component of graph t.
Connected(t, c, d) == t.channels[d].from \in Reach(t, {t.channels[c].from}, Both(t))

\* markFiniteEpochChannels: every channel of a connected component that holds a
\* Synchronous feedback channel.
FiniteEpochChannels(t) ==
  {c \in DOMAIN t.channels : \E d \in DOMAIN t.channels : t.channels[d].mode = "sync" /\ Connected(t, c, d)}

\* cycleMembers: the operations on the cycle closed by feedback channel c
Cycle(t, c) ==
  LET behind == {<<e[2], e[1]>> : e \in Ahead(t)}
      from   == t.channels[c].from
      to     == t.channels[c].to
  IN  {from, to} \cup (Reach(t, {to}, Ahead(t)) \cap Reach(t, {from}, behind))

\* An Asynchronous feedback channel closes a cycle, and is the only feedback channel of its
\* connected component.  settle looks at no other feedback channel of the cycle, so that two
\* of them could seal each other; and beside a Synchronous one it would not see what is held.
SingleLoops ==
  \A t \in Topologies : \A c \in DOMAIN t.channels :
    t.channels[c].mode = "async" =>
      /\ t.channels[c].from \in Reach(t, {t.channels[c].to}, Ahead(t))
      /\ \A d \in DOMAIN t.channels \ {c} : t.channels[d].mode # "plain" => ~Connected(t, c, d)

\* In graph t an operation that follows the epochs takes its input from sources, and
\* polls last, if it has one, an input of another kind: its own Synchronous feedback
\* channel, or one channel from an operation with a single replica.
EpochsFollow(t) ==
  \A o \in DOMAIN t.inbound : \A i \in DOMAIN t.inbound[o] :
    LET c    == t.inbound[o][i]
        from == t.channels[c].from
    IN  c \in FiniteEpochChannels(t) =>
          \/ t.channels[c].mode = "plain" /\ t.inbound[from] = << >>
          \/ /\ i = Len(t.inbound[o])
             /\ \/ t.channels[c].mode = "sync" /\ from = o
                \/ Len(t.pods[from]) = 1 /\ t.inbound[from] # << >>

\* A graph with the facts that follow from it.
Described(t) ==
  [t EXCEPT !.finite = FiniteEpochChannels(t),
            !.cycle = [c \in DOMAIN t.channels |-> Cycle(t, c)],
            !.op = [x \in UNION {{t.pods[o][i] : i \in DOMAIN t.pods[o]} : o \in DOMAIN t.pods} |->
                      CHOOSE o \in DOMAIN t.pods : \E i \in DOMAIN t.pods[o] : t.pods[o][i] = x]]

Workloads == {Described(t) : t \in Topologies}

Channels == DOMAIN topo.channels
Ops      == DOMAIN topo.inbound
Pods     == DOMAIN topo.op
OpOf(x)  == topo.op[x]
From(c)  == topo.channels[c].from
To(c)    == topo.channels[c].to
Mode(c)  == topo.channels[c].mode
Feedback(c)     == Mode(c) # "plain"
Synchronous(c)  == Mode(c) = "sync"
FiniteEpochs(c) == c \in topo.finite
CycleMembers(c) == topo.cycle[c]
Into(o)   == {c \in Channels : To(c) = o}
OutOf(o)  == {c \in Channels : From(c) = o}
Finite(o) == \E c \in Into(o) : FiniteEpochs(c)
PodsOf(o) == {x \in Pods : OpOf(x) = o}

-----------------------------------------------------------------------------
(* Segments and pods *)

Part(s) == s[1]
EpochOf(s) == s[2]

\* What a source announces that was started again after it had reported that it is done
Again(s) == s[4]

Live(c) == DOMAIN place[c]
Registered(x) == session[x] # "none"
Active(x) == x \in up /\ session[x] = "current"
Silent(skip) == {y \in Pods \ skip : Registered(y) /\ ~fresh[y]}

\* Mutant of Quiet: what is in flight is not counted.
QuietQueues(pl, c) == \A s \in DOMAIN pl[c] : pl[c][s] # "queued"

\* quiet: nothing queued, nothing in flight; what is held does not count.
Quiet(pl, c) == \A s \in DOMAIN pl[c] : pl[c][s] = "held"
HeldNone(pl, c) == \A s \in DOMAIN pl[c] : pl[c][s] # "held"

\* assigned, for RoundRobin partitions: spread over the registered pods in order
Assigned(o, x, gone) ==
  LET live == SelectSeq(topo.pods[o], LAMBDA y : Registered(y) /\ y \notin gone)
  IN  {p \in Partitions : live[(p % Len(live)) + 1] = x}

\* Mutant of Returned: the deliveries of a lost pod stay in flight.
ReturnedNever(gone) == place

\* returnConsumerDeliveries, for every pod of gone
Returned(gone) ==
  [c \in Channels |-> [s \in Live(c) |-> IF place[c][s] \in gone THEN "queued" ELSE place[c][s]]]

\* Mutant of Forgotten: the reports of an expired pod are kept.
ForgottenNever(gone) == epochDone

Forgotten(gone) == [y \in Pods |-> IF y \in gone THEN -2 ELSE epochDone[y]]

Expire(gone) ==
  /\ session' = [y \in Pods |-> IF y \in gone THEN "none" ELSE session[y]]
  /\ done' = done \ gone
  /\ epochDone' = Forgotten(gone)

\* Mutant of LoopDone: a loop is finished when its feedback channel is quiet and
\* its inputs are sealed, whatever its other channels hold.
LoopDoneUnread(c, pl, sl) ==
  /\ \A d \in Channels \ {c} :
       To(d) \in CycleMembers(c) /\ From(d) \notin CycleMembers(c) => d \in sl
  /\ Quiet(pl, c)

\* The decision settle takes for Asynchronous feedback channel c.
LoopDone(c, pl, sl) ==
  LET members == CycleMembers(c)
  IN  /\ \A d \in Channels \ {c} :
           To(d) \in members =>
             IF From(d) \in members THEN Feedback(d) \/ Quiet(pl, d)
             ELSE d \in sl /\ Quiet(pl, d) /\ HeldNone(pl, d)
      /\ Quiet(pl, c)

Settled(pl, sl) == {c \in Channels \ sl : Mode(c) = "async" /\ LoopDone(c, pl, sl)}

\* seal, for every channel of cs, on the places pl
SealAll(cs, pl) ==
  /\ sealed' = sealed \cup cs
  /\ closed' = [c \in Channels |-> IF c \in cs THEN closed[c] \cup {epoch[c]} ELSE closed[c]]
  /\ place' = [c \in Channels |->
                 IF c \in cs /\ Synchronous(c)
                 THEN [s \in {s \in DOMAIN pl[c] : pl[c][s] # "held"} |-> pl[c][s]] ELSE pl[c]]

\* settle at the end of a handler that has brought the places to pl
Settle(pl) == SealAll(Settled(pl, sealed), pl)

-----------------------------------------------------------------------------
\* Run: a source runs its callback, any other worker polls.
Start(x) == IF Into(OpOf(x)) = {} THEN "source" ELSE "poll"

Init ==
  /\ topo \in Workloads
  /\ epoch = [c \in Channels |-> 0]
  /\ closed = [c \in Channels |-> IF Synchronous(c) THEN {0} ELSE {}]
  /\ sealed = {} /\ place = [c \in Channels |-> << >>]
  /\ emits = [c \in Channels |-> 0]
  /\ session = [x \in Pods |-> "none"] /\ fresh = [x \in Pods |-> TRUE]
  /\ done = {} /\ epochDone = [x \in Pods |-> -2] /\ finished = {}
  /\ up = Pods
  /\ phase = [x \in Pods |-> Start(x)]
  /\ at = [x \in Pods |-> 1] /\ allQuiet = Pods /\ allDrained = Pods
  /\ hand = [x \in Pods |-> {}] /\ current = [x \in Pods |-> {}] /\ out = [x \in Pods |-> {}]
  /\ wepoch = [x \in Pods |-> 0] /\ lastDone = [x \in Pods |-> -1]
  /\ faults = 0

Fault == faults < MaxFaults /\ faults' = faults + 1

\* The process exits, and with it everything it had in memory.
Exit(x) ==
  /\ up' = up \ {x}
  /\ hand' = [hand EXCEPT ![x] = {}]
  /\ current' = [current EXCEPT ![x] = {}]
  /\ out' = [out EXCEPT ![x] = {}]
  /\ phase' = [phase EXCEPT ![x] = Start(x)]
  /\ at' = [at EXCEPT ![x] = 1]
  /\ allQuiet' = allQuiet \cup {x} /\ allDrained' = allDrained \cup {x}
  /\ wepoch' = [wepoch EXCEPT ![x] = 0]
  /\ lastDone' = [lastDone EXCEPT ![x] = -1]

Crash(x) ==
  /\ x \in up
  /\ Fault /\ Exit(x)
  /\ UNCHANGED <<topo, chanVars, emits, podVars>>

\* The kubelet starts the container again.
Restart(x) ==
  /\ x \in Pods \ up
  /\ up' = up \cup {x}
  /\ session' = [session EXCEPT ![x] = IF @ = "current" THEN "old" ELSE @]
  /\ UNCHANGED <<topo, chanVars, emits, fresh, done, epochDone, finished, phase, passVars, workVars, wepoch, lastDone, faults>>

\* PodTTL passes without a call of the pod.
Lapse(x) ==
  /\ Registered(x) /\ fresh[x]
  /\ Fault
  /\ fresh' = [fresh EXCEPT ![x] = FALSE]
  /\ UNCHANGED <<topo, chanVars, emits, session, done, epochDone, finished, up, phase, passVars, workVars, wepoch, lastDone>>

\* Register: a first registration, a takeover by the pod's next process, or a
\* heartbeat.
Register(x) ==
  /\ x \in up
  /\ LET gone  == Silent({x})
         taken == IF session[x] = "old" THEN {x} ELSE {}
     IN  /\ session' = [y \in Pods |-> IF y = x THEN "current" ELSE IF y \in gone THEN "none" ELSE session[y]]
         /\ place' = Returned(gone \cup taken)
         /\ done' = done \ (gone \cup taken)
         /\ epochDone' = [Forgotten(gone) EXCEPT ![x] = IF session[x] = "current" THEN @ ELSE -1]
  /\ fresh' = [fresh EXCEPT ![x] = TRUE]
  /\ UNCHANGED <<topo, epoch, closed, sealed, emits, finished, up, phase, passVars, workVars, wepoch, lastDone, faults>>

-----------------------------------------------------------------------------
(* Epochs *)

\* recordOperationEpochDone answers 425 unless the input of epoch e is over.
InputEnded(o, e, pl) ==
  \A c \in Into(o) : FiniteEpochs(c) => epoch[c] = e /\ e \in closed[c] /\ Quiet(pl, c)

\* The barrier: as many pods as there are replicas, and as there are pods in live,
\* have finished epoch e and been heard of within PodTTL.
BarrierMet(o, e, doneAt, live) ==
  LET reported == {x \in live : fresh'[x] /\ doneAt[x] >= e}
  IN  Cardinality(reported) >= Len(topo.pods[o]) /\ Cardinality(reported) >= Cardinality(live)

\* The end of epoch e of operation o: its output of the epoch is closed, a
\* Synchronous loop that has reached its bound is sealed, and every inbound
\* channel advances, letting in what was held for the next epoch.
PassBarrier(o, e, pl) ==
  LET finite(c) == FiniteEpochs(c)
      outEpoch(c) == IF Synchronous(c) THEN e + 1 ELSE e
      over == {c \in OutOf(o) : finite(c) /\ Synchronous(c) /\ outEpoch(c) >= topo.channels[c].max}
      ended == {c \in OutOf(o) : finite(c)} \ over
      moving == {c \in Into(o) : finite(c) /\ epoch[c] = e}
      nowSealed == sealed \cup over
  IN  /\ sealed' = nowSealed
      /\ epoch' = [c \in Channels |-> IF c \in moving THEN e + 1 ELSE epoch[c]]
      /\ closed' = [c \in Channels |->
                      closed[c] \cup (IF c \in over THEN {epoch[c]} ELSE {})
                                \cup (IF c \in ended THEN {outEpoch(c)} ELSE {})
                                \cup (IF c \in moving \cap nowSealed THEN {e + 1} ELSE {})]
      /\ place' = [c \in Channels |->
                     LET kept == IF c \in over THEN {s \in DOMAIN pl[c] : pl[c][s] # "held"} ELSE DOMAIN pl[c]
                     IN  [s \in kept |-> IF c \in moving /\ pl[c][s] = "held" /\ EpochOf(s) = e + 1
                                         THEN "queued" ELSE pl[c][s]]]

\* recordOperationEpochDone for an accepted report of pod x: recorded, and the
\* barrier passed when it was the last one.
RecordEpochDone(x, e, pl, doneAt, live) ==
  LET o == OpOf(x)
      now == [doneAt EXCEPT ![x] = IF e > @ THEN e ELSE @]
  IN  /\ epochDone' = now
      /\ IF e > doneAt[x] /\ BarrierMet(o, e, now, live)
         THEN PassBarrier(o, e, pl)
         ELSE place' = pl /\ UNCHANGED <<epoch, closed, sealed>>

-----------------------------------------------------------------------------
(* Workers *)

\* Output is one epoch on when its channel closes a cycle.
EpochOn(c, e) == IF Feedback(c) THEN e + 1 ELSE e

\* An Asynchronous loop drops what has reached its bound.
Carries(c, e) == emits[c] < topo.bound /\ (Mode(c) = "async" => EpochOn(c, e) < topo.channels[c].max)

\* The name of a new segment of partition p and epoch e, which pod x produces: the
\* first copy that no live or unannounced segment has
NewSegment(x, c, p, e) ==
  LET again == x \in finished
      used  == {s[3] : s \in Live(c) \cup {w[2] : w \in {w \in UNION {out[y] : y \in Pods} : w[1] = c}}}
  IN  <<p, e, CHOOSE k \in 1 .. Cardinality(used) + 1 : k \notin used /\ 1 .. k - 1 \subseteq used, again>>

\* What a callback at epoch e may emit: at most one segment per outbound channel.
Emitted(x, outbound, e) ==
  LET choices == {<<c, p>> : c \in {c \in outbound : Carries(c, e)}, p \in Partitions}
  IN  {{<<cp[1], NewSegment(x, cp[1], cp[2], EpochOn(cp[1], e))>> : cp \in S} :
         S \in {S \in SUBSET choices : \A a, b \in S : a[1] = b[1] => a = b}}

Emit(x, outbound, e) == \E ws \in Emitted(x, outbound, e) : out' = [out EXCEPT ![x] = ws]

\* OnDrain is where final results are emitted: nothing for a cycle that has ended.
DrainOutputs(o) ==
  {c \in OutOf(o) : \A d \in Channels : Feedback(d) /\ o \in CycleMembers(d) => To(c) \notin CycleMembers(d)}

\* The Source callback of a source operation, at epoch 0
Source(x) ==
  /\ Active(x) /\ phase[x] = "source"
  /\ phase' = [phase EXCEPT ![x] = "draining"]
  /\ Emit(x, OutOf(OpOf(x)), 0)
  /\ UNCHANGED <<topo, chanVars, emits, podVars, up, passVars, hand, current, wepoch, lastDone, faults>>

\* Mutant of Indexed: output for the next epoch is queued at once.
IndexedAtOnce(c, ss) == [s \in ss \cup Live(c) |-> IF s \in ss THEN "queued" ELSE place[c][s]]

\* index, which passes over what the channel holds: queued, held for a later epoch, or
\* dropped beyond the loop's bound
Indexed(c, ss) ==
  LET kept == {s \in ss \ Live(c) : Feedback(c) => EpochOf(s) < topo.channels[c].max}
      now(s) == IF FiniteEpochs(c) /\ EpochOf(s) > epoch[c] THEN "held" ELSE "queued"
  IN  [s \in kept \cup Live(c) |-> IF s \in kept THEN now(s) ELSE place[c][s]]

Outgoing(x, c) == {w[2] : w \in {w \in out[x] : w[1] = c}}

\* publish: the announcement of what the worker has for one channel
Publish(x, c) ==
  /\ Active(x) /\ Outgoing(x, c) # {}
  /\ c \notin sealed
  /\ FiniteEpochs(c) => \A s \in Outgoing(x, c) : EpochOf(s) >= epoch[c]
  /\ Settle([place EXCEPT ![c] = Indexed(c, Outgoing(x, c))])
  /\ out' = [out EXCEPT ![x] = {w \in @ : w[1] # c}]
  /\ emits' = [emits EXCEPT ![c] = @ + 1]
  /\ UNCHANGED <<topo, epoch, podVars, up, phase, passVars, hand, current, wepoch, lastDone, faults>>

\* errSealed: a source whose announcement is answered 409, because its channel is
\* sealed or its registration has expired, drops its output as that of an earlier
\* process, and goes on to its report.
DropOutput(x) ==
  /\ x \in up /\ phase[x] = "draining" /\ Into(OpOf(x)) = {} /\ out[x] # {}
  /\ ~Registered(x) \/ \E c \in sealed : Outgoing(x, c) # {}
  /\ out' = [out EXCEPT ![x] = {}]
  /\ UNCHANGED <<topo, chanVars, emits, podVars, up, phase, passVars, hand, current, wepoch, lastDone, faults>>

\* A call the coordinator refuses: an announcement of a consumer that has expired or
\* to a sealed channel, any announcement behind the channel's epoch, an acknowledgement
\* or a report of an expired process.  The worker returns the error and exits.
Refused(x) ==
  /\ x \in up
  /\ \/ /\ ~Registered(x)
        /\ out[x] # {} \/ current[x] # {} \/ phase[x] \in {"ending", "draining"}
        /\ Into(OpOf(x)) = {} => out[x] = {}
     \/ Into(OpOf(x)) # {} /\ \E c \in sealed : Outgoing(x, c) # {}
     \/ /\ Registered(x)
        /\ \E c \in Channels \ sealed : FiniteEpochs(c) /\ \E s \in Outgoing(x, c) : EpochOf(s) < epoch[c]
  /\ Exit(x)
  /\ UNCHANGED <<topo, chanVars, emits, podVars, faults>>

AtEnd(x) == at[x] > Len(topo.inbound[OpOf(x)])

\* The worker drains when all channels were drained, or ends the epoch that is newer
\* than the last one it ended.
Concludes(o, drained, quiet, newer) == drained \/ (Finite(o) /\ quiet /\ newer)

\* What the pass of pod x makes of an answer.  An answer with work is of a channel that
\* is not quiet: a pass that progressed concludes nothing.  It is followed by the next.
Noted(x, drained, quiet) ==
  LET o == OpOf(x)
      allNow == x \in allDrained /\ drained
      quietNow == x \in allQuiet /\ quiet
  IN  IF at[x] < Len(topo.inbound[o]) \/ Concludes(o, allNow, quietNow, lastDone[x] < wepoch'[x])
      THEN /\ at' = [at EXCEPT ![x] = @ + 1]
           /\ allDrained' = IF allNow THEN allDrained ELSE allDrained \ {x}
           /\ allQuiet' = IF quietNow THEN allQuiet ELSE allQuiet \ {x}
      ELSE /\ at' = [at EXCEPT ![x] = 1]
           /\ allDrained' = allDrained \cup {x} /\ allQuiet' = allQuiet \cup {x}

\* Consume of the next inbound channel: expire, settle, hand over what is queued
\* on the pod's partitions, and note what the answer says.
Consume(x) ==
  /\ Active(x) /\ phase[x] = "poll" /\ ~AtEnd(x)
  /\ hand[x] = {} /\ current[x] = {} /\ out[x] = {}
  /\ LET o    == OpOf(x)
         c    == topo.inbound[o][at[x]]
         gone == Silent({x})
         pl   == Returned(gone)
         work == {s \in Live(c) : pl[c][s] = "queued" /\ Part(s) \in Assigned(o, x, gone)}
         given == [pl EXCEPT ![c] = [s \in Live(c) |-> IF s \in work THEN x ELSE pl[c][s]]]
         nowSealed == sealed \cup Settled(pl, sealed)
         quiet == Quiet(given, c)
     IN  /\ Expire(gone)
         /\ SealAll(Settled(pl, sealed), given)
         /\ hand' = [hand EXCEPT ![x] = {<<c, s>> : s \in work}]
         /\ wepoch' = IF FiniteEpochs(c) THEN [wepoch EXCEPT ![x] = epoch[c]] ELSE wepoch
         /\ Noted(x, c \in nowSealed /\ quiet, FiniteEpochs(c) /\ epoch[c] \in closed'[c] /\ quiet)
  /\ fresh' = [fresh EXCEPT ![x] = TRUE]
  /\ UNCHANGED <<topo, epoch, emits, finished, up, phase, current, out, lastDone, faults>>

\* The pod has expired: the poll fails, and the pass will conclude nothing.
ConsumeFails(x) ==
  /\ x \in up /\ ~Registered(x) /\ phase[x] = "poll" /\ ~AtEnd(x)
  /\ hand[x] = {} /\ current[x] = {} /\ out[x] = {}
  /\ UNCHANGED <<topo, chanVars, emits, podVars, up, phase, workVars, wepoch, lastDone, faults>>
  /\ Noted(x, FALSE, FALSE)

\* The OnRecord callback for one segment
OnRecord(x) ==
  /\ x \in up /\ current[x] = {} /\ out[x] = {}
  /\ \E w \in hand[x] :
       LET e == IF FiniteEpochs(w[1]) THEN wepoch[x] ELSE EpochOf(w[2])
       IN  /\ current' = [current EXCEPT ![x] = {w}]
           /\ hand' = [hand EXCEPT ![x] = @ \ {w}]
           /\ wepoch' = [wepoch EXCEPT ![x] = e]
           /\ Emit(x, OutOf(OpOf(x)), e)
  /\ UNCHANGED <<topo, chanVars, emits, podVars, up, phase, passVars, lastDone, faults>>

\* The segment is acknowledged once its output has been announced; the
\* acknowledgement of a delivery that was returned in the meantime is ignored.
Ack(x) ==
  /\ Active(x) /\ out[x] = {}
  /\ \E w \in current[x] :
       LET c == w[1]
           owned == w[2] \in Live(c) /\ place[c][w[2]] = x
       IN  Settle(IF owned THEN [place EXCEPT ![c] = [s \in Live(c) \ {w[2]} |-> place[c][s]]] ELSE place)
  /\ current' = [current EXCEPT ![x] = {}]
  /\ UNCHANGED <<topo, epoch, emits, podVars, up, phase, passVars, hand, out, wepoch, lastDone, faults>>

\* The end of a pass that found nothing to do: drain (OnDrain) when all channels
\* were drained, else end the epoch (OnEpochEnd).
EndPass(x) ==
  /\ x \in up /\ phase[x] = "poll"
  /\ hand[x] = {} /\ current[x] = {} /\ out[x] = {}
  /\ AtEnd(x) /\ Concludes(OpOf(x), x \in allDrained, x \in allQuiet, lastDone[x] < wepoch[x])
  /\ at' = [at EXCEPT ![x] = 1]
  /\ allQuiet' = allQuiet \cup {x} /\ allDrained' = allDrained \cup {x}
  /\ IF x \in allDrained
     THEN phase' = [phase EXCEPT ![x] = "draining"] /\ Emit(x, DrainOutputs(OpOf(x)), wepoch[x])
     ELSE phase' = [phase EXCEPT ![x] = "ending"] /\ Emit(x, OutOf(OpOf(x)), wepoch[x])
  /\ UNCHANGED <<topo, chanVars, emits, podVars, up, hand, current, wepoch, lastDone, faults>>

\* OperationEpochDoneSession, accepted: the pass goes on.
ReportEpoch(x) ==
  /\ Active(x) /\ phase[x] = "ending" /\ out[x] = {}
  /\ LET gone == Silent({x})
         pl   == Returned(gone)
         live == {y \in PodsOf(OpOf(x)) : Registered(y)} \ gone
     IN  /\ wepoch[x] <= epochDone[x] \/ InputEnded(OpOf(x), wepoch[x], pl)
         /\ session' = [y \in Pods |-> IF y \in gone THEN "none" ELSE session[y]]
         /\ done' = done \ gone
         /\ fresh' = [fresh EXCEPT ![x] = TRUE]
         /\ RecordEpochDone(x, wepoch[x], pl, Forgotten(gone), live)
  /\ lastDone' = [lastDone EXCEPT ![x] = wepoch[x]]
  /\ phase' = [phase EXCEPT ![x] = "poll"]
  /\ UNCHANGED <<topo, emits, finished, up, passVars, workVars, wepoch, faults>>

\* The report is answered 425 thirty times over, and the worker gives up.
GiveUp(x) ==
  /\ Active(x) /\ phase[x] = "ending" /\ out[x] = {}
  /\ wepoch[x] > epochDone[x] /\ ~InputEnded(OpOf(x), wepoch[x], Returned(Silent({x})))
  /\ Exit(x)
  /\ UNCHANGED <<topo, chanVars, emits, podVars, faults>>

\* SourceDone, of a source that has run or a consumer that has drained; for a
\* source it is also the report of epoch 0.  It expires nobody, and is no sign of
\* life of the pod itself.
ReportDone(x) ==
  /\ Active(x) /\ phase[x] = "draining" /\ out[x] = {}
  /\ UNCHANGED <<topo, emits, session, fresh, up, passVars, workVars, wepoch, lastDone, faults>>
  /\ done' = done \cup {x}
  /\ phase' = [phase EXCEPT ![x] = "idle"]
  /\ IF Into(OpOf(x)) = {}
     THEN /\ finished' = finished \cup {x}
          /\ RecordEpochDone(x, 0, place, epochDone, {y \in PodsOf(OpOf(x)) : Registered(y)})
     ELSE UNCHANGED <<chanVars, epochDone, finished>>

-----------------------------------------------------------------------------
(* Controller *)

\* operationMetrics: every inbound channel drained, every replica there and done
Complete(o) ==
  /\ \A c \in Into(o) : c \in sealed /\ Quiet(place, c) /\ HeldNone(place, c)
  /\ \A x \in PodsOf(o) : Registered(x) /\ x \in done

\* The controller seals the output of an operation that is complete.
Seal(c) ==
  /\ c \notin sealed /\ ~Feedback(c) /\ Complete(From(c))
  /\ LET one == sealed \cup {c}
     IN  SealAll({c} \cup Settled(place, one), place)
  /\ UNCHANGED <<topo, epoch, emits, podVars, up, phase, passVars, workVars, wepoch, lastDone, faults>>

\* Metrics: expire the silent pods and settle.
Metrics ==
  /\ LET gone == Silent({}) IN Expire(gone) /\ Settle(Returned(gone))
  /\ UNCHANGED <<topo, epoch, emits, fresh, finished, up, phase, passVars, workVars, wepoch, lastDone, faults>>

WorkerStep(x) ==
  \/ Source(x) \/ Consume(x) \/ ConsumeFails(x) \/ OnRecord(x) \/ Ack(x) \/ EndPass(x)
  \/ ReportEpoch(x) \/ GiveUp(x) \/ ReportDone(x) \/ DropOutput(x) \/ Refused(x)
  \/ \E c \in Channels : Publish(x, c)

Next ==
  \/ \E x \in Pods : WorkerStep(x) \/ Register(x) \/ Crash(x) \/ Restart(x) \/ Lapse(x)
  \/ \E c \in Channels : Seal(c)
  \/ Metrics

Spec == Init /\ [][Next]_vars

AllPods ==
  UNION {UNION {{t.pods[o][i] : i \in DOMAIN t.pods[o]} : o \in DOMAIN t.pods} :
           t \in Topologies}

\* Workers run, heartbeats are sent, containers are started again, the
\* controller polls.
Fairness ==
  /\ \A x \in AllPods :
       /\ WF_vars(x \in Pods /\ (WorkerStep(x) \/ Restart(x)))
       /\ WF_vars(x \in Pods /\ Register(x))
  /\ WF_vars(Metrics \/ \E c \in Channels : Seal(c))

FairSpec == Spec /\ Fairness
-----------------------------------------------------------------------------
TypeOK ==
  /\ topo \in Workloads
  /\ DOMAIN epoch = Channels /\ \A c \in Channels : epoch[c] \in Nat /\ closed[c] \subseteq Nat
  /\ sealed \subseteq Channels
  /\ \A c \in Channels : \A s \in Live(c) :
       /\ Part(s) \in Partitions /\ EpochOf(s) \in Nat
       /\ place[c][s] \in {"queued", "held"} \cup PodsOf(To(c))
  /\ emits \in [Channels -> Nat]
  /\ session \in [Pods -> {"none", "current", "old"}] /\ fresh \in [Pods -> BOOLEAN]
  /\ done \subseteq {x \in Pods : Registered(x)}
  /\ finished \subseteq {x \in Pods : Into(OpOf(x)) = {}}
  /\ \A x \in Pods : epochDone[x] = -2 <=> ~Registered(x)
  /\ up \subseteq Pods /\ phase \in [Pods -> {"source", "poll", "ending", "draining", "idle"}]
  /\ {allQuiet, allDrained} \subseteq SUBSET Pods
  /\ \A x \in Pods : at[x] \in 1 .. Len(topo.inbound[OpOf(x)]) + 1 /\ lastDone[x] <= wepoch[x]
  /\ faults \in 0 .. MaxFaults

\* The epoch worker x has run OnEpochEnd for last.
LastEnded(x) == IF phase[x] = "ending" THEN wepoch[x] ELSE lastDone[x]

\* "OnEpochEnd runs after required input for the current finite epoch closes and
\* drains" (sdk.go:88): once a worker has ended an epoch, no input of that epoch or
\* an earlier one is waiting for its operation or under way to one of its pods, other
\* than what a source announces that is started again after its report: announce
\* refuses what is behind the epoch of the channel (coordinator.go:861), and does not
\* look at productionClosed.
EpochEndIsLast ==
  \A x \in up : \A c \in Into(OpOf(x)) :
    FiniteEpochs(c) =>
      \A s \in Live(c) : place[c][s] = "held" \/ EpochOf(s) > LastEnded(x) \/ Again(s)

\* "epoch e+1 is delivered only after every consumer has finished epoch e"
\* (graph.go:93): what waits for an operation or is under way to its pods belongs
\* to one epoch, whichever channels it came by, and no replica is a whole epoch
\* ahead of it.
OneEpochAtATime ==
  \A c, d \in Channels : To(c) = To(d) /\ FiniteEpochs(c) =>
    /\ epoch[c] = epoch[d]
    /\ \A s \in Live(c) : place[c][s] # "held" => EpochOf(s) = epoch[d]
    /\ \A x \in PodsOf(To(c)) : LastEnded(x) <= epoch[d]

\* Nothing waits, is held or is under way on any channel into the operations of
\* the loop that feedback channel c closes.
LoopEmpty(c) == \A d \in Channels : To(d) \in CycleMembers(c) => Live(d) = {}

\* The delivery pod x is working on has been returned, after an expiry, and is no
\* longer x's: another replica may have done the work in the meantime.
Disowned(x) == \E w \in current[x] : w[2] \notin Live(w[1]) \/ place[w[1]][w[2]] # x

\* "Records still being processed are in flight on some channel inside the cycle,
\* so a quiet cycle with sealed inputs is finished" (settle, coordinator.go:1631):
\* an Asynchronous loop is empty when it is sealed, and stays so.  The exception is
\* a pod that has expired and registered again while it was processing a record:
\* the record is in flight no more, or to another replica, and what the pod then
\* announces wakes a loop that is sealed.
SealedLoopIsFinished ==
  [][\A c \in sealed' :
       Mode(c) = "async" /\ (c \in sealed => LoopEmpty(c)) =>
         \/ LoopEmpty(c)'
         \/ \E x \in Pods : OpOf(x) \in CycleMembers(c) /\ Disowned(x) /\ out'[x] # out[x]]_vars

\* "OnDrain runs when every inbound channel is sealed and drained" (sdk.go:92): a
\* worker that has drained leaves no input of its operation behind, neither queued,
\* under way, nor held for an epoch that was still to come.
DrainIsLast ==
  \A x \in up : phase[x] \in {"draining", "idle"} => \A c \in Into(OpOf(x)) : Live(c) = {}

\* A pod that expired after it had reported that it is done, or the end of the
\* epoch under way: the coordinator has forgotten the report, and the worker does
\* not repeat it.
ReportForgotten ==
  \E x \in up :
    \/ phase[x] = "idle" /\ x \notin done
    \/ \E c \in Into(OpOf(x)) :
         /\ FiniteEpochs(c) /\ phase[x] = "poll"
         /\ lastDone[x] >= epoch[c] /\ epochDone[x] < epoch[c]

\* A source that was started again after the epoch of its output had ended: what it
\* announces is behind the channel, every time it is started.
RestartedTooLate ==
  \E x \in Pods \ done : \E c \in OutOf(OpOf(x)) \ sealed :
    Into(OpOf(x)) = {} /\ FiniteEpochs(c) /\ epoch[c] > 0

\* A sealed Asynchronous loop that a disowned pod has woken: what its operations
\* answer on the feedback channel is refused, and delivered to them again.
WokenLoop == \E c \in sealed : Mode(c) = "async" /\ ~LoopEmpty(c)

\* Every loop ends: all channels are sealed and empty and every worker is done,
\* whatever crashes and lapses there were, unless the barrier waits for a report
\* that was forgotten with an expired pod, a source came back too late, or a sealed
\* loop was woken.
LoopEnds ==
  <>[](\/ ReportForgotten \/ RestartedTooLate \/ WokenLoop
       \/ /\ sealed = Channels /\ \A c \in Channels : Live(c) = {}
          /\ \A x \in Pods : phase[x] = "idle" /\ x \in done)
=============================================================================
