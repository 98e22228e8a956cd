------------------------ MODULE StatefulWorkerProofs ------------------------
(***************************************************************************)
(* Proofs about StatefulWorker, for any inputs and any number of faults:    *)
(* types, that an acknowledged input is kept, and that a checkpointed       *)
(* operation implements ExactlyOnce.                                        *)
(***************************************************************************)
EXTENDS StatefulWorker, FiniteSetTheorems, WellFoundedInduction, TLAPS

-----------------------------------------------------------------------------
(* Types.                                                                  *)

Hands     == Inputs \cup {Nothing, Drain}
Mems      == [Inputs -> Nat]
Outs      == [by : Procs, of : Inputs \cup {Drain}, sum : Mems]
Manifests == [writer : {0} \cup Procs, has : BOOLEAN, mem : Mems, inputs : SUBSET Inputs,
              outputs : SUBSET Outs, complete : BOOLEAN]
Calls     == Callbacks \X Hands
Apps      == [up : BOOLEAN, mem : Mems, inv : {<<>>} \cup Calls]
Servers   == [session : {0} \cup Sessions, ready : BOOLEAN, current : {<<>>} \cup Calls, fatal : BOOLEAN]
PCs       == Callbacks \cup {"off", "dead", "wait", "claim", "republish", "loop",
                             "commit", "publish", "ack", "report", "idle"}
Processes == [pc : PCs, pod : Pods, todo : SUBSET Inputs, hand : Hands, local : Manifests,
              unannounced : SUBSET Outs, snap : Mems, srv : Servers, app : [Sessions -> Apps]]

Types ==
  /\ checkpointed \in BOOLEAN /\ completed \in BOOLEAN
  /\ proc \in [Procs -> Processes]
  /\ session \in [Pods -> {0} \cup Procs] /\ done \in [Pods -> BOOLEAN]
  /\ work \in [Inputs -> {-1, 0} \cup {p \in Pods : session[p] # 0}]
  /\ announced \in SUBSET Outs
  /\ manifest \in Manifests /\ faults \in 0 .. MaxFaults

-----------------------------------------------------------------------------
(* The inductive invariant.                                                *)

\* Processes start in their order, a pod is only as new as a fault, and a registered
\* process is that of its pod.
PodsInv ==
  /\ \A n \in Procs : proc[n].pc # "off" => \A m \in 1 .. n : proc[m].pc # "off"
  /\ \A n \in Procs : proc[n].pc = "off" => proc[n] = NewProc
  /\ \A n \in Procs : proc[n].pod <= faults + 1
  /\ \A p \in Pods : session[p] # 0 => proc[session[p]].pc # "off" /\ proc[session[p]].pod = p

\* What a worker has in hand at each point of its loop, and what it has not announced.
HandInv(n) ==
  /\ proc[n].pc \in {"claim", "restore", "republish", "snapshot", "commit"} => checkpointed
  /\ proc[n].pc \in {"off", "dead", "wait", "claim", "restore", "republish", "loop"} => proc[n].hand = Nothing
  /\ proc[n].pc \in {"record", "ack"} => proc[n].hand \in Inputs
  /\ proc[n].pc = "drain" => proc[n].hand = Drain
  /\ proc[n].pc \in {"snapshot", "commit", "publish"} => proc[n].hand \in Inputs \cup {Drain}
  /\ proc[n].pc \in {"report", "idle"} => proc[n].hand \in {Nothing, Drain}
  /\ proc[n].pc \notin {"republish", "snapshot", "commit", "publish"} => proc[n].unannounced = {}
  /\ proc[n].pc \in {"snapshot", "commit", "publish"} /\ proc[n].hand \in Inputs =>
       Segment(n, proc[n].hand, Zero) \in proc[n].unannounced

\* The invocation under way is that of the callback the worker waits for, no application
\* outlives its worker, and a worker registers only after an application has connected.
CallInv(n) ==
  /\ proc[n].srv.current # <<>> => /\ proc[n].pc \in Callbacks
                                   /\ proc[n].srv.current = <<proc[n].pc, proc[n].hand>>
  /\ proc[n].pc \in {"off", "dead"} => \A s \in Sessions : ~proc[n].app[s].up
  /\ proc[n].srv.session = 0 => proc[n].pc \in {"off", "dead", "wait"} /\ ~proc[n].srv.ready

\* What is acknowledged, or about to be.
KeptInv(i) == OutputsOf(i) # {} /\ (checkpointed => i \in manifest.inputs)

AckInv(n) == proc[n].pc = "ack" => KeptInv(proc[n].hand)

\* A manifest counts each of its inputs once and lists one output of each; it is
\* complete with the one answer it lists.
Count(inputs) == [i \in Inputs |-> IF i \in inputs THEN 1 ELSE 0]

GoodManifest(m) ==
  /\ m.mem = Count(m.inputs)
  /\ \A i \in m.inputs : \E o \in m.outputs : o.of = i
  /\ \A o \in m.outputs : o.of = Drain \/ o.of \in m.inputs
  /\ \A o \in m.outputs : o.of = Drain => m.complete /\ o.sum = m.mem
  /\ \A o1, o2 \in m.outputs : o1.of = o2.of => o1 = o2
  /\ m.complete => m.inputs = Inputs /\ \E o \in m.outputs : o.of = Drain
  /\ ~m.has => m.inputs = {} /\ m.outputs = {} /\ ~m.complete

\* The state a callback should leave.
After(n) == IF proc[n].hand \in Inputs THEN [proc[n].local.mem EXCEPT ![proc[n].hand] = 1] ELSE proc[n].local.mem

\* What a process knows of the checkpoint is a manifest that was committed before; it is
\* the current one as long as the process is the writer.
LocalInv(n) ==
  LET l == proc[n].local IN
  /\ GoodManifest(l)
  /\ l.inputs \subseteq manifest.inputs /\ l.outputs \subseteq manifest.outputs
  /\ manifest.writer = n => proc[n].pc \notin {"off", "wait", "claim"} /\ (proc[n].pc # "dead" => l = manifest)
  /\ proc[n].pc \notin {"off", "dead", "wait", "claim", "restore"} => l.outputs \subseteq announced \cup proc[n].unannounced
  /\ proc[n].pc \in {"record", "snapshot", "commit"} => proc[n].hand \notin l.inputs
  /\ proc[n].hand = Drain => manifest.inputs = Inputs
  /\ proc[n].pc = "publish" => proc[n].unannounced \subseteq l.outputs /\ (proc[n].hand \in Inputs => proc[n].hand \in l.inputs)
  /\ proc[n].pc = "republish" => proc[n].unannounced \subseteq l.outputs
  /\ l.complete => \/ proc[n].pc \in {"restore", "republish", "report", "idle"}
                   \/ proc[n].pc = "publish" /\ proc[n].hand = Drain
  /\ proc[n].pc \in {"snapshot", "commit"} =>
       proc[n].unannounced = {Segment(n, proc[n].hand, IF proc[n].hand = Drain THEN l.mem ELSE Zero)}
  /\ proc[n].pc = "commit" => proc[n].snap = After(n)

\* The memory of the one application a checkpointed worker has.
MemInv(n) ==
  LET a == proc[n].app IN
  /\ \A s \in Sessions : a[s].up => s = 1 /\ proc[n].srv.session = 1
  /\ \A s \in Sessions : ~a[s].up => a[s] = NoApp
  /\ \A s \in Sessions : a[s].inv # <<>> => proc[n].pc \in Callbacks /\ a[s].inv = <<proc[n].pc, proc[n].hand>>
  /\ \A s \in Sessions : a[s].up =>
       /\ proc[n].pc \in {"wait", "claim"} => a[s].mem = Zero
       /\ proc[n].pc = "restore" /\ a[s].inv # <<>> => a[s].mem = proc[n].local.mem
       /\ proc[n].pc = "record" => a[s].mem = IF a[s].inv = <<>> THEN proc[n].local.mem ELSE After(n)
       /\ proc[n].pc \in {"snapshot", "commit"} => a[s].mem = After(n)
       /\ proc[n].pc \notin {"wait", "claim", "restore", "record", "snapshot", "commit"} => a[s].mem = proc[n].local.mem

ProcInv(n) ==
  /\ HandInv(n) /\ CallInv(n) /\ AckInv(n)
  /\ checkpointed => LocalInv(n) /\ MemInv(n)

ManifestInv == checkpointed => GoodManifest(manifest) /\ announced \subseteq manifest.outputs

IInv ==
  /\ Types /\ PodsInv /\ AckedIsKept /\ ManifestInv
  /\ \A n \in Procs : ProcInv(n)

-----------------------------------------------------------------------------
(* Facts about the definitions.                                            *)

LEMMA Numbers ==
  /\ MaxFaults \in Nat /\ Procs = 1 .. 2 * MaxFaults + 1
  /\ 1 \in Procs /\ 1 \in Pods /\ 1 \in Sessions /\ 0 \notin Procs /\ 0 \notin Pods /\ -1 \notin Pods
  /\ Drain \notin Inputs /\ Nothing \notin Inputs /\ Drain # Nothing
  BY StatefulWorkerAssumption DEF Procs, Pods, Sessions, Drain, Nothing

LEMMA NewTypes ==
  /\ Zero \in Mems /\ NoCheckpoint \in Manifests /\ NoApp \in Apps /\ NewServer \in Servers
  /\ NewProc \in Processes
<1>1. Zero \in Mems
  BY DEF Zero, Mems
<1>2. NoCheckpoint \in Manifests
  BY <1>1 DEF NoCheckpoint, Manifests
<1>3. NoApp \in Apps
  BY <1>1 DEF NoApp, Apps
<1>4. NewServer \in Servers
  BY DEF NewServer, Servers
<1>5. NewProc \in Processes
  BY <1>1, <1>2, <1>3, <1>4, Numbers DEF NewProc, Processes, PCs, Hands
<1> QED BY <1>1, <1>2, <1>3, <1>4, <1>5

LEMMA NoCheckpointGood == GoodManifest(NoCheckpoint)
<1>1. Count({}) = Zero
  BY DEF Count, Zero
<1> QED BY <1>1, Zenon DEF GoodManifest, NoCheckpoint

\* A process that has not started, or has ended, keeps nothing.
LEMMA FreshInv ==
  ASSUME NEW n \in Procs, Types,
         proc[n].pc \in {"off", "dead", "wait"}, proc[n].hand = Nothing, proc[n].unannounced = {},
         proc[n].srv = NewServer, proc[n].local = NoCheckpoint,
         proc[n].app = [s \in Sessions |-> NoApp], checkpointed /\ proc[n].pc # "dead" => manifest.writer # n
  PROVE  ProcInv(n)
<1>1. HandInv(n)
  BY Numbers DEF HandInv
<1>2. CallInv(n) /\ AckInv(n)
  BY DEF CallInv, AckInv, NewServer, NoApp
<1>3. ASSUME checkpointed PROVE LocalInv(n)
  <2>1. GoodManifest(proc[n].local)
    BY NoCheckpointGood
  <2>2. proc[n].local.inputs = {} /\ proc[n].local.outputs = {} /\ ~proc[n].local.complete
    BY DEF NoCheckpoint
  <2> QED BY <1>3, <2>1, <2>2, Numbers DEF LocalInv
<1>4. MemInv(n)
  <2>1. \A s \in Sessions : proc[n].app[s] = NoApp
    OBVIOUS
  <2>2. NoApp.up = FALSE /\ NoApp.inv = <<>>
    BY DEF NoApp
  <2> QED BY <2>1, <2>2 DEF MemInv
<1> QED BY <1>1, <1>2, <1>3, <1>4 DEF ProcInv

\* The same after a step.
LEMMA FreshAfter ==
  ASSUME NEW n \in Procs, Types',
         proc'[n].pc \in {"off", "dead", "wait"}, proc'[n].hand = Nothing, proc'[n].unannounced = {},
         proc'[n].srv = NewServer, proc'[n].local = NoCheckpoint,
         proc'[n].app = [s \in Sessions |-> NoApp],
         checkpointed' /\ proc'[n].pc # "dead" => manifest'.writer # n
  PROVE  ProcInv(n)'
<1>1. HandInv(n)'
  BY Numbers DEF HandInv
<1>2. CallInv(n)' /\ AckInv(n)'
  BY DEF CallInv, AckInv, NewServer, NoApp
<1>3. ASSUME checkpointed' PROVE LocalInv(n)'
  <2>1. GoodManifest(proc'[n].local)
    BY NoCheckpointGood
  <2>2. proc'[n].local.inputs = {} /\ proc'[n].local.outputs = {} /\ ~proc'[n].local.complete
    BY DEF NoCheckpoint
  <2> QED BY <1>3, <2>1, <2>2, Numbers DEF LocalInv
<1>4. MemInv(n)'
  <2>1. \A s \in Sessions : proc'[n].app[s] = NoApp
    OBVIOUS
  <2>2. NoApp.up = FALSE /\ NoApp.inv = <<>>
    BY DEF NoApp
  <2> QED BY <2>1, <2>2 DEF MemInv
<1> QED BY <1>1, <1>2, <1>3, <1>4 DEF ProcInv

LEMMA Initially == Init => IInv
<1> SUFFICES ASSUME Init PROVE IInv
  OBVIOUS
<1> USE DEF Init
<1>1. Types
  <2>1. faults \in 0 .. MaxFaults
    BY Numbers
  <2>2. /\ session \in [Pods -> {0} \cup Procs] /\ work \in [Inputs -> {-1, 0} \cup {p \in Pods : session[p] # 0}]
        /\ announced \in SUBSET Outs
    OBVIOUS
  <2>3. proc \in [Procs -> Processes] /\ manifest \in Manifests
    BY NewTypes
  <2>4. checkpointed \in BOOLEAN /\ completed \in BOOLEAN /\ done \in [Pods -> BOOLEAN]
    BY Zenon
  <2> QED BY <2>1, <2>2, <2>3, <2>4 DEF Types
<1>2. PodsInv
  BY Numbers DEF PodsInv, NewProc
<1>3. AckedIsKept
  BY DEF AckedIsKept
<1>4. ManifestInv
  BY NoCheckpointGood DEF ManifestInv
<1>5. ASSUME NEW n \in Procs PROVE ProcInv(n)
  <2>1. proc[n] = NewProc
    OBVIOUS
  <2>2. manifest.writer # n
    BY Numbers DEF NoCheckpoint
  <2> QED BY <1>1, <2>1, <2>2, FreshInv DEF NewProc
<1> QED BY <1>1, <1>2, <1>3, <1>4, <1>5 DEF IInv

-----------------------------------------------------------------------------
(* What a step leaves alone.                                               *)

\* Nothing that was committed or announced goes away.
Grows ==
  /\ checkpointed' = checkpointed /\ announced \subseteq announced'
  /\ manifest.inputs \subseteq manifest'.inputs /\ manifest.outputs \subseteq manifest'.outputs
  /\ manifest' \in Manifests

LEMMA KeptGrows ==
  ASSUME Grows, NEW i, KeptInv(i) PROVE KeptInv(i)'
  BY DEF Grows, KeptInv, OutputsOf

\* A process that takes no step keeps its invariant.
LEMMA OthersKept ==
  ASSUME Types, NEW m \in Procs, ProcInv(m), Grows, proc'[m] = proc[m], manifest'.writer = m => manifest' = manifest
  PROVE  ProcInv(m)'
<1>1. HandInv(m)' /\ CallInv(m)'
  BY DEF ProcInv, HandInv, CallInv, Grows
<1>2. AckInv(m)'
  BY KeptGrows DEF ProcInv, AckInv
<1>3. ASSUME checkpointed PROVE LocalInv(m)'
  <2>1. LocalInv(m)
    BY <1>3 DEF ProcInv
  <2>2. manifest'.inputs \subseteq Inputs
    BY DEF Grows, Manifests
  <2>3. After(m)' = After(m)
    BY DEF After
  <2> QED BY <2>1, <2>2, <2>3 DEF LocalInv, Grows
<1>4. ASSUME checkpointed PROVE MemInv(m)'
  <2>1. MemInv(m)
    BY <1>4 DEF ProcInv
  <2>2. After(m)' = After(m)
    BY DEF After
  <2> QED BY <2>1, <2>2 DEF MemInv
<1> QED BY <1>1, <1>2, <1>3, <1>4 DEF ProcInv, Grows

\* Only process n takes a step, in its pod.
Only(n) ==
  /\ \A m \in Procs : m # n => proc'[m] = proc[m]
  /\ proc'[n].pod = proc[n].pod /\ proc[n].pc # "off" /\ proc'[n].pc # "off"
  /\ faults <= faults'
  /\ \A p \in Pods : session'[p] # 0 => session'[p] = session[p] \/ (session'[p] = n /\ proc[n].pod = p)

LEMMA PodsKept ==
  ASSUME Types, Types', PodsInv, NEW n \in Procs, Only(n) PROVE PodsInv'
<1>1. \A m \in Procs : (proc'[m].pc = "off") <=> (proc[m].pc = "off")
  BY DEF Only
<1>2. \A m \in Procs : \A k \in 1 .. m : k \in Procs
  BY Numbers
<1>3. \A m \in Procs : proc'[m].pc # "off" => \A k \in 1 .. m : proc'[k].pc # "off"
  BY <1>1, <1>2 DEF PodsInv
<1>4. \A m \in Procs : proc'[m].pod = proc[m].pod
  BY DEF Only
<1>5. \A m \in Procs : proc'[m].pod <= faults' + 1
  <2>1. \A m \in Procs : proc[m].pod \in Int /\ proc[m].pod <= faults + 1
    BY Numbers DEF Types, Processes, PodsInv, Pods
  <2>2. faults \in Int /\ faults' \in Int /\ faults <= faults'
    BY Numbers DEF Types, Only
  <2> QED BY <1>4, <2>1, <2>2
<1>6. ASSUME NEW p \in Pods, session'[p] # 0 PROVE proc'[session'[p]].pc # "off" /\ proc'[session'[p]].pod = p
  <2>1. session'[p] \in Procs
    BY <1>6 DEF Types
  <2>2. CASE session'[p] = session[p]
    BY <1>1, <1>4, <1>6, <2>1, <2>2 DEF PodsInv
  <2>3. CASE session'[p] = n /\ proc[n].pod = p
    BY <1>4, <2>3 DEF Only
  <2> QED BY <1>6, <2>2, <2>3 DEF Only
<1>7. \A m \in Procs : proc'[m].pc = "off" => proc'[m] = NewProc
  BY DEF PodsInv, Only
<1> QED BY <1>3, <1>5, <1>6, <1>7 DEF PodsInv

LEMMA AckedKept ==
  ASSUME AckedIsKept, Grows, \A i \in Inputs : work'[i] = -1 => work[i] = -1 PROVE AckedIsKept'
  BY DEF AckedIsKept, Grows, OutputsOf

\* The invariant after a step of one process.
LEMMA StepOfOne ==
  ASSUME IInv, NEW n \in Procs, Types', Only(n), Grows, ProcInv(n)', AckedIsKept', ManifestInv',
         manifest'.writer # n => manifest' = manifest
  PROVE  IInv'
<1>1. PodsInv'
  BY PodsKept DEF IInv
<1>2. ASSUME NEW m \in Procs PROVE ProcInv(m)'
  <2>1. CASE m = n
    BY <2>1
  <2>2. CASE m # n
    BY <2>2, OthersKept DEF IInv, Only
  <2> QED BY <2>1, <2>2
<1> QED BY <1>1, <1>2 DEF IInv

\* The end of a process changes nothing but what it had itself.
LEMMA GoneStep ==
  ASSUME IInv, NEW n \in Procs, Running(n), Gone(n), UNCHANGED <<checkpointed, session, done, announced, completed, manifest>>,
         faults' \in 0 .. MaxFaults, faults <= faults',
         work' \in [Inputs -> {-1, 0} \cup {p \in Pods : session[p] # 0}],
         \A i \in Inputs : work'[i] = -1 => work[i] = -1
  PROVE  IInv'
<1> DEFINE r == [NewProc EXCEPT !.pc = "dead", !.pod = proc[n].pod]
<1>1. Types
  BY DEF IInv
<1>2. proc' = [proc EXCEPT ![n] = r]
  BY DEF Gone
<1>3. r \in Processes
  <2>1. proc[n].pod \in Pods
    BY <1>1 DEF Types, Processes
  <2> QED BY <2>1, NewTypes DEF Processes, PCs
<1>4. /\ r.pc = "dead" /\ r.pod = proc[n].pod /\ r.hand = Nothing /\ r.unannounced = {} /\ r.srv = NewServer
      /\ r.local = NoCheckpoint /\ r.app = [s \in Sessions |-> NoApp]
  BY DEF NewProc
<1> HIDE DEF r
<1>5. proc'[n] = r /\ \A m \in Procs : m # n => proc'[m] = proc[m]
  BY <1>1, <1>2 DEF Types
<1>6. Types'
  BY <1>1, <1>2, <1>3 DEF Types
<1>7. Only(n)
  BY <1>4, <1>5 DEF Only, Running
<1>8. Grows
  BY <1>1 DEF Grows, Types
<1>9. ProcInv(n)'
  BY <1>4, <1>5, <1>6, FreshAfter
<1>10. AckedIsKept' /\ ManifestInv'
  BY <1>8, AckedKept DEF IInv, ManifestInv
<1> QED BY <1>6, <1>7, <1>8, <1>9, <1>10, StepOfOne

-----------------------------------------------------------------------------
(* Processes and pods.                                                     *)

\* A set of numbers that is not empty has a least element.
LEMMA LeastExists ==
  ASSUME NEW S \in SUBSET Nat, S # {} PROVE \E m \in S : \A k \in S : m <= k
<1>1. PICK x \in S : \A y \in S : ~(<<y, x>> \in OpToRel(<, Nat))
  BY NatLessThanWellFounded, WFMin
<1>2. \A y \in S : ~(y < x)
  BY <1>1 DEF OpToRel
<1> QED BY <1>2

\* The processes that have started are those up to Latest.
LEMMA LatestIs ==
  ASSUME Types, PodsInv
  PROVE  /\ Latest \in 0 .. 2 * MaxFaults + 1 /\ Cardinality(Procs) = 2 * MaxFaults + 1
         /\ \A n \in Procs : proc[n].pc # "off" <=> n <= Latest
<1> DEFINE S == {n \in Procs : proc[n].pc # "off"}
<1>1. MaxFaults \in Nat /\ Procs = 1 .. 2 * MaxFaults + 1
  BY Numbers
<1>2. Cardinality(Procs) = 2 * MaxFaults + 1
  BY <1>1, FS_Interval
<1>3. CASE S = Procs
  <2>1. Latest = Cardinality(Procs)
    BY <1>3 DEF Latest
  <2> QED BY <1>1, <1>2, <1>3, <2>1
<1>4. CASE S # Procs
  <2>1. Procs \ S \in SUBSET Nat /\ Procs \ S # {}
    BY <1>1, <1>4
  <2>2. PICK m \in Procs \ S : \A k \in Procs \ S : m <= k
    BY <2>1, LeastExists
  <2>3. m \in 1 .. 2 * MaxFaults + 1
    BY <1>1, <2>2
  <2>4. \A k \in Procs : k \in S <=> k < m
    <3>1. ASSUME NEW k \in Procs, k \in S PROVE k < m
      <4>1. \A j \in 1 .. k : proc[j].pc # "off"
        BY <3>1 DEF PodsInv
      <4>2. m \notin 1 .. k
        BY <2>2, <4>1
      <4> QED BY <1>1, <2>3, <4>2
    <3>2. ASSUME NEW k \in Procs, k \notin S PROVE ~(k < m)
      BY <1>1, <2>2, <2>3, <3>2
    <3> QED BY <3>1, <3>2
  <2>5. S = 1 .. m - 1
    <3>1. \A k : k \in 1 .. m - 1 <=> k \in Procs /\ k < m
      BY <1>1, <2>3
    <3> QED BY <2>4, <3>1
  <2>6. Cardinality(1 .. m - 1) = m - 1
    <3>1. 1 \in Int /\ m - 1 \in Int
      BY <2>3
    <3>2. Cardinality(1 .. m - 1) = IF 1 > m - 1 THEN 0 ELSE m - 1 - 1 + 1
      BY <3>1, FS_Interval
    <3> QED BY <2>3, <3>2
  <2>7. Latest = m - 1
    BY <2>5, <2>6 DEF Latest
  <2> QED BY <1>1, <1>2, <2>3, <2>4, <2>7
<1> QED BY <1>3, <1>4

LEMMA StartStep == IInv /\ Start => IInv'
<1> SUFFICES ASSUME IInv, Start PROVE IInv'
  OBVIOUS
<1> DEFINE k == Latest + 1
           pod == IF Latest = 0 THEN 1 ELSE proc[Latest].pod + IF Ended THEN 0 ELSE 1
           r == [NewProc EXCEPT !.pc = "wait", !.pod = pod]
<1>1. Types /\ PodsInv /\ MaxFaults \in Nat /\ Procs = 1 .. 2 * MaxFaults + 1
  BY Numbers DEF IInv
<1>2. /\ Latest \in 0 .. 2 * MaxFaults + 1 /\ Latest < 2 * MaxFaults + 1
      /\ \A n \in Procs : proc[n].pc # "off" <=> n <= Latest
  BY <1>1, LatestIs DEF Start
<1>3. k \in Procs /\ proc[k] = NewProc
  <2>1. k \in Procs /\ ~(k <= Latest)
    BY <1>1, <1>2
  <2> QED BY <1>1, <1>2, <2>1 DEF PodsInv
<1>4. pod \in Pods /\ pod <= faults' + 1 /\ faults <= faults' /\ faults' \in 0 .. MaxFaults
  <2>1. faults \in 0 .. MaxFaults
    BY <1>1 DEF Types
  <2>2. CASE Latest = 0
    BY <1>1, <2>1, <2>2 DEF Start, Fault, Pods
  <2>3. CASE Latest # 0
    <3>1. Latest \in Procs
      BY <1>1, <1>2, <2>3
    <3>2. proc[Latest].pod \in Pods /\ proc[Latest].pod <= faults + 1
      BY <1>1, <3>1 DEF Types, Processes, PodsInv
    <3> QED BY <1>1, <2>1, <2>3, <3>2 DEF Start, Fault, Pods
  <2> QED BY <2>2, <2>3
<1> HIDE DEF pod
<1>5. /\ proc' = [proc EXCEPT ![k].pc = "wait", ![k].pod = pod]
      /\ UNCHANGED <<checkpointed, session, done, work, announced, completed, manifest>>
  BY DEF Start, pod
<1>6. proc' = [proc EXCEPT ![k] = r]
  BY <1>3, <1>5
<1>7. r \in Processes
  BY <1>4, NewTypes DEF Processes, PCs
<1>8. /\ r.pc = "wait" /\ r.pod = pod /\ r.hand = Nothing /\ r.unannounced = {} /\ r.srv = NewServer
      /\ r.local = NoCheckpoint /\ r.app = [s \in Sessions |-> NoApp]
  BY DEF NewProc
<1> HIDE DEF r
<1>9. proc'[k] = r /\ \A m \in Procs : m # k => proc'[m] = proc[m]
  BY <1>1, <1>3, <1>6 DEF Types
<1>10. Types'
  <2>1. proc' \in [Procs -> Processes]
    BY <1>1, <1>6, <1>7 DEF Types
  <2> QED BY <1>1, <1>4, <1>5, <2>1 DEF Types
<1>11. Grows
  BY <1>1, <1>5 DEF Grows, Types
<1>12. AckedIsKept' /\ ManifestInv'
  BY <1>5, <1>11, AckedKept DEF IInv, ManifestInv
<1>13. ASSUME NEW m \in Procs PROVE ProcInv(m)'
  <2>1. CASE m = k
    <3>1. checkpointed' => manifest'.writer # k
      BY <1>3, <1>5 DEF IInv, ProcInv, LocalInv, NewProc
    <3> QED BY <1>3, <1>8, <1>9, <1>10, <2>1, <3>1, FreshAfter
  <2>2. CASE m # k
    BY <1>1, <1>5, <1>9, <1>11, <2>2, OthersKept DEF IInv
  <2> QED BY <2>1, <2>2
<1> HIDE DEF k
<1>14. PodsInv'
  <2>1. ASSUME NEW m \in Procs, proc'[m].pc # "off" PROVE \A j \in 1 .. m : proc'[j].pc # "off"
    <3>1. m <= k
      BY <1>1, <1>2, <1>9, <2>1 DEF k
    <3>2. \A j \in 1 .. m : j \in Procs /\ (j = k \/ j <= Latest)
      BY <1>1, <1>2, <3>1 DEF k
    <3> QED BY <1>2, <1>8, <1>9, <3>2
  <2>2. \A m \in Procs : proc'[m].pc = "off" => proc'[m] = NewProc
    BY <1>1, <1>8, <1>9 DEF PodsInv
  <2>3. ASSUME NEW m \in Procs PROVE proc'[m].pod <= faults' + 1
    <3>1. proc[m].pod \in Int /\ proc[m].pod <= faults + 1 /\ faults \in Int
      BY <1>1 DEF Types, Processes, Pods, PodsInv
    <3> QED BY <1>4, <1>8, <1>9, <3>1
  <2>4. ASSUME NEW p \in Pods, session'[p] # 0
        PROVE  proc'[session'[p]].pc # "off" /\ proc'[session'[p]].pod = p
    <3>1. session[p] \in Procs /\ proc[session[p]].pc # "off" /\ proc[session[p]].pod = p
      BY <1>1, <1>5, <2>4 DEF Types, PodsInv
    <3>2. session[p] # k
      BY <1>3, <3>1 DEF NewProc
    <3> QED BY <1>5, <1>9, <3>1, <3>2
  <2> QED BY <2>1, <2>2, <2>3, <2>4 DEF PodsInv
<1> QED BY <1>10, <1>12, <1>13, <1>14 DEF IInv

LEMMA CrashStep == ASSUME NEW n \in Procs PROVE IInv /\ (Crash(n) \/ Fail(n)) => IInv'
<1> SUFFICES ASSUME IInv, Crash(n) \/ Fail(n) PROVE IInv'
  OBVIOUS
<1>1. Types /\ MaxFaults \in Nat
  BY Numbers DEF IInv
<1>2. faults' \in 0 .. MaxFaults /\ faults <= faults'
  BY <1>1 DEF Crash, Fail, Fault, Types
<1>3. /\ Running(n) /\ Gone(n) /\ UNCHANGED <<checkpointed, session, done, announced, completed, manifest>>
      /\ work' = work
  BY DEF Crash, Fail
<1>4. work' \in [Inputs -> {-1, 0} \cup {p \in Pods : session[p] # 0}] /\ \A i \in Inputs : work'[i] = -1 => work[i] = -1
  BY <1>1, <1>3 DEF Types
<1> QED BY <1>2, <1>3, <1>4, GoneStep

LEMMA FetchFailsStep == ASSUME NEW n \in Procs, NEW i \in Inputs PROVE IInv /\ FetchFails(n, i) => IInv'
<1> SUFFICES ASSUME IInv, FetchFails(n, i) PROVE IInv'
  OBVIOUS
<1>1. Types /\ MaxFaults \in Nat
  BY Numbers DEF IInv
<1>2. faults' \in 0 .. MaxFaults /\ faults <= faults'
  BY <1>1 DEF FetchFails, Fault, Types
<1>3. /\ Running(n) /\ Gone(n) /\ UNCHANGED <<checkpointed, session, done, announced, completed, manifest>>
      /\ work' = [work EXCEPT ![i] = IF Known(n) /\ @ = proc[n].pod THEN 0 ELSE @]
  BY DEF FetchFails, Running
<1>4. work' \in [Inputs -> {-1, 0} \cup {p \in Pods : session[p] # 0}] /\ \A j \in Inputs : work'[j] = -1 => work[j] = -1
  BY <1>1, <1>3 DEF Types
<1> QED BY <1>2, <1>3, <1>4, GoneStep

\* Returning what a pod held leaves only deliveries to other pods.
LEMMA ReturnedIs ==
  ASSUME Types, NEW p \in Pods
  PROVE  /\ Returned(p) \in [Inputs -> {-1, 0} \cup {q \in Pods \ {p} : session[q] # 0}]
         /\ \A i \in Inputs : Returned(p)[i] = -1 => work[i] = -1
  BY DEF Types, Returned

\* A step of the coordinator alone.
LEMMA CoordinatorStep ==
  ASSUME IInv, Types', UNCHANGED <<checkpointed, proc, announced, manifest>>, faults <= faults',
         \A p \in Pods : session'[p] # 0 => session'[p] = session[p]
                           \/ \E n \in Procs : session'[p] = n /\ proc[n].pod = p /\ proc[n].pc # "off",
         \A i \in Inputs : work'[i] = -1 => work[i] = -1
  PROVE  IInv'
<1>1. Types /\ PodsInv
  BY DEF IInv
<1>2. Grows
  BY <1>1 DEF Grows, Types
<1>3. AckedIsKept' /\ ManifestInv'
  BY <1>2, AckedKept DEF IInv, ManifestInv
<1>4. \A m \in Procs : ProcInv(m)'
  BY <1>1, <1>2, OthersKept DEF IInv
<1>5. PodsInv'
  <2>1. \A m \in Procs : proc[m].pod <= faults' + 1
    <3>1. \A m \in Procs : proc[m].pod \in Int /\ proc[m].pod <= faults + 1
      BY <1>1, Numbers DEF Types, Processes, Pods, PodsInv
    <3>2. faults \in Int /\ faults' \in Int
      BY <1>1, Numbers DEF Types
    <3> QED BY <3>1, <3>2
  <2>2. \A p \in Pods : session'[p] # 0 => proc[session'[p]].pc # "off" /\ proc[session'[p]].pod = p
    BY <1>1 DEF PodsInv
  <2> QED BY <1>1, <2>1, <2>2 DEF PodsInv
<1> QED BY <1>3, <1>4, <1>5 DEF IInv

LEMMA ExpireStep == ASSUME NEW p \in Pods PROVE IInv /\ Expire(p) => IInv'
<1> SUFFICES ASSUME IInv, Expire(p) PROVE IInv'
  OBVIOUS
<1>1. Types /\ MaxFaults \in Nat
  BY Numbers DEF IInv
<1>2. faults' \in 0 .. MaxFaults /\ faults <= faults'
  BY <1>1 DEF Expire, Fault, Types
<1>3. /\ session' = [session EXCEPT ![p] = 0] /\ done' = [done EXCEPT ![p] = FALSE] /\ work' = Returned(p)
      /\ UNCHANGED <<checkpointed, proc, announced, completed, manifest>>
  BY DEF Expire
<1>4. session' \in [Pods -> {0} \cup Procs] /\ \A q \in Pods : session'[q] = IF q = p THEN 0 ELSE session[q]
  BY <1>1, <1>3 DEF Types
<1>5. work' \in [Inputs -> {-1, 0} \cup {q \in Pods : session'[q] # 0}] /\ \A i \in Inputs : work'[i] = -1 => work[i] = -1
  <2>1. {q \in Pods \ {p} : session[q] # 0} = {q \in Pods : session'[q] # 0}
    BY <1>4
  <2> QED BY <1>1, <1>3, <2>1, ReturnedIs
<1>6. done' \in [Pods -> BOOLEAN]
  BY <1>1, <1>3 DEF Types
<1>7. Types'
  BY <1>1, <1>2, <1>3, <1>4, <1>5, <1>6 DEF Types
<1> QED BY <1>2, <1>3, <1>4, <1>5, <1>7, CoordinatorStep

LEMMA HeartbeatStep == ASSUME NEW n \in Procs PROVE IInv /\ Heartbeat(n) => IInv'
<1> SUFFICES ASSUME IInv, Heartbeat(n) PROVE IInv'
  OBVIOUS
<1>1. Types
  BY DEF IInv
<1>2. /\ proc[n].pc # "off" /\ session[proc[n].pod] = 0 /\ session' = [session EXCEPT ![proc[n].pod] = n]
      /\ UNCHANGED <<checkpointed, proc, done, work, announced, completed, manifest, faults>>
  BY DEF Heartbeat, Running
<1>3. proc[n].pod \in Pods /\ n # 0
  BY <1>1, Numbers DEF Types, Processes
<1>4. session' \in [Pods -> {0} \cup Procs] /\ \A q \in Pods : session'[q] = IF q = proc[n].pod THEN n ELSE session[q]
  BY <1>1, <1>2, <1>3 DEF Types
<1>5. work' \in [Inputs -> {-1, 0} \cup {q \in Pods : session'[q] # 0}]
  BY <1>1, <1>2, <1>3, <1>4 DEF Types
<1>6. Types'
  BY <1>1, <1>2, <1>4, <1>5 DEF Types
<1>7. faults <= faults'
  BY <1>1, <1>2 DEF Types
<1> QED BY <1>2, <1>4, <1>6, <1>7, CoordinatorStep

LEMMA MetricsStep == IInv /\ Metrics => IInv'
<1> SUFFICES ASSUME IInv, Metrics PROVE IInv'
  OBVIOUS
<1>1. Types
  BY DEF IInv
<1>2. completed' \in BOOLEAN /\ UNCHANGED <<checkpointed, proc, session, done, work, announced, manifest, faults>>
  BY DEF Metrics
<1>3. Types' /\ faults <= faults'
  BY <1>1, <1>2 DEF Types
<1> QED BY <1>2, <1>3, CoordinatorStep

-----------------------------------------------------------------------------
(* The bridge and the application.                                         *)

\* A step of the bridge changes the server and the applications of one process.
LEMMA BridgeStep ==
  ASSUME IInv, NEW n \in Procs, Running(n), NEW r \in Processes, proc' = [proc EXCEPT ![n] = r],
         r.pc = proc[n].pc, r.pod = proc[n].pod, r.hand = proc[n].hand, r.local = proc[n].local,
         r.unannounced = proc[n].unannounced, r.snap = proc[n].snap,
         bridgeUnchanged, faults' \in 0 .. MaxFaults, faults <= faults',
         CallInv(n)', checkpointed => MemInv(n)'
  PROVE  IInv'
<1>1. Types /\ ProcInv(n)
  BY DEF IInv
<1> USE DEF bridgeUnchanged
<1>2. proc' \in [Procs -> Processes] /\ proc'[n] = r /\ \A m \in Procs : m # n => proc'[m] = proc[m]
  BY <1>1 DEF Types
<1>3. Types'
  BY <1>1, <1>2 DEF Types
<1>4. Grows
  BY <1>1 DEF Grows, Types
<1>5. Only(n)
  BY <1>2 DEF Only, Running
<1>6. HandInv(n)' /\ AckInv(n)'
  BY <1>1, <1>2 DEF ProcInv, HandInv, AckInv, KeptInv, OutputsOf
<1>7. ASSUME checkpointed PROVE LocalInv(n)'
  <2>1. After(n)' = After(n)
    BY <1>2 DEF After
  <2> QED BY <1>1, <1>2, <1>7, <2>1 DEF ProcInv, LocalInv
<1>8. ProcInv(n)'
  BY <1>6, <1>7 DEF ProcInv
<1>9. AckedIsKept' /\ ManifestInv'
  BY <1>4, AckedKept DEF IInv, ManifestInv
<1> QED BY <1>3, <1>4, <1>5, <1>8, <1>9, StepOfOne

LEMMA ConnectStep == ASSUME NEW n \in Procs PROVE IInv /\ Connect(n) => IInv'
<1> SUFFICES ASSUME IInv, Connect(n) PROVE IInv'
  OBVIOUS
<1> DEFINE p == proc[n]
           s == p.srv.session + 1
           old == [p EXCEPT !.srv = [p.srv EXCEPT !.fatal = TRUE, !.current = <<>>]]
           new == [p EXCEPT !.srv = [p.srv EXCEPT !.session = s, !.ready = FALSE],
                            !.app = [p.app EXCEPT ![s] = [p.app[s] EXCEPT !.up = TRUE]]]
<1>1. Types /\ MaxFaults \in Nat /\ ProcInv(n) /\ p \in Processes
  BY Numbers DEF IInv, Types
<1>2. faults' \in 0 .. MaxFaults /\ faults <= faults'
  BY <1>1 DEF Connect, Fault, Types
<1>3. Running(n) /\ bridgeUnchanged /\ s \in Sessions
  BY DEF Connect
<1>4. p.srv \in Servers /\ p.app \in [Sessions -> Apps] /\ p.app[s] \in Apps
  BY <1>1, <1>3 DEF Processes
<1>5. CASE Refuses(n)
  <2>1. proc' = [proc EXCEPT ![n] = old]
    BY <1>1, <1>5 DEF Connect, Types
  <2>2. old \in Processes
    BY <1>1, <1>4 DEF Processes, Servers
  <2>3. /\ old.pc = p.pc /\ old.pod = p.pod /\ old.hand = p.hand /\ old.local = p.local
        /\ old.unannounced = p.unannounced /\ old.snap = p.snap /\ old.app = p.app
        /\ old.srv.current = <<>> /\ old.srv.session = p.srv.session /\ old.srv.ready = p.srv.ready
    BY <1>1, <1>4 DEF Processes, Servers
  <2> HIDE DEF old
  <2>4. proc'[n] = old
    BY <1>1, <2>1 DEF Types
  <2>5. CallInv(n)'
    BY <1>1, <2>3, <2>4 DEF CallInv, ProcInv
  <2>6. ASSUME checkpointed PROVE MemInv(n)'
    <3>1. After(n)' = After(n)
      BY <2>3, <2>4 DEF After
    <3> QED BY <1>1, <2>3, <2>4, <2>6, <3>1 DEF MemInv, ProcInv
  <2> QED BY <1>2, <1>3, <2>1, <2>2, <2>3, <2>5, <2>6, BridgeStep
<1>6. CASE ~Refuses(n)
  <2>1. proc' = [proc EXCEPT ![n] = new]
    BY <1>1, <1>3, <1>6 DEF Connect, Types
  <2>2. [p.app[s] EXCEPT !.up = TRUE] \in Apps /\ [p.srv EXCEPT !.session = s, !.ready = FALSE] \in Servers
    BY <1>3, <1>4 DEF Apps, Servers
  <2>3. new \in Processes
    BY <1>1, <1>4, <2>2 DEF Processes
  <2>4. /\ new.pc = p.pc /\ new.pod = p.pod /\ new.hand = p.hand /\ new.local = p.local
        /\ new.unannounced = p.unannounced /\ new.snap = p.snap
        /\ new.srv.current = p.srv.current /\ new.srv.session = s
        /\ new.app[s].up /\ new.app[s].mem = p.app[s].mem /\ new.app[s].inv = p.app[s].inv
        /\ \A u \in Sessions : u # s => new.app[u] = p.app[u]
    BY <1>1, <1>3, <1>4 DEF Processes, Servers, Apps
  <2> HIDE DEF new
  <2>5. proc'[n] = new
    BY <1>1, <2>1 DEF Types
  <2>6. CallInv(n)'
    <3>1. s # 0
      BY <1>3, Numbers DEF Sessions
    <3> QED BY <1>1, <1>3, <2>4, <2>5, <3>1 DEF CallInv, ProcInv, Running
  <2>7. ASSUME checkpointed PROVE MemInv(n)'
    <3>1. p.srv.session = 0 /\ s = 1
      <4>1. p.srv.session = 0
        BY <1>6, <2>7, Zenon DEF Refuses
      <4> QED BY <4>1
    <3>2. \A u \in Sessions : p.app[u] = NoApp
      BY <1>1, <2>7, <3>1 DEF ProcInv, MemInv
    <3>3. new.app[s].mem = Zero /\ new.app[s].inv = <<>>
      BY <1>3, <2>4, <3>2 DEF NoApp
    <3>4. \A u \in Sessions : u # 1 => ~new.app[u].up /\ new.app[u] = NoApp /\ new.app[u].inv = <<>>
      <4>1. NoApp.up = FALSE /\ NoApp.inv = <<>>
        BY DEF NoApp
      <4>2. \A u \in Sessions : u # 1 => new.app[u] = NoApp
        BY <2>4, <3>1, <3>2
      <4> QED BY <4>1, <4>2, Zenon
    <3>5. p.pc = "wait"
      BY <1>1, <1>3, <3>1 DEF ProcInv, CallInv, Running
    <3> QED BY <1>3, <2>4, <2>5, <3>1, <3>3, <3>4, <3>5 DEF MemInv
  <2> QED BY <1>2, <1>3, <2>1, <2>3, <2>4, <2>6, <2>7, BridgeStep
<1> QED BY <1>5, <1>6

LEMMA SetReadyStep == ASSUME NEW n \in Procs PROVE IInv /\ SetReady(n) => IInv'
<1> SUFFICES ASSUME IInv, SetReady(n) PROVE IInv'
  OBVIOUS
<1> DEFINE p == proc[n]
           r == [p EXCEPT !.srv = [p.srv EXCEPT !.ready = TRUE]]
<1>1. Types /\ ProcInv(n) /\ p \in Processes /\ p.srv \in Servers /\ faults \in 0 .. MaxFaults /\ MaxFaults \in Nat
  BY Numbers DEF IInv, Types, Processes
<1>2. Running(n) /\ bridgeUnchanged /\ p.srv.session # 0
  BY DEF SetReady
<1>3. faults' \in 0 .. MaxFaults /\ faults <= faults'
  BY <1>1 DEF SetReady
<1>4. proc' = [proc EXCEPT ![n] = r]
  BY <1>1 DEF SetReady, Types
<1>5. r \in Processes
  BY <1>1 DEF Processes, Servers
<1>6. /\ r.pc = p.pc /\ r.pod = p.pod /\ r.hand = p.hand /\ r.local = p.local
      /\ r.unannounced = p.unannounced /\ r.snap = p.snap /\ r.app = p.app
      /\ r.srv.current = p.srv.current /\ r.srv.session = p.srv.session
  BY <1>1 DEF Processes, Servers
<1> HIDE DEF r
<1>7. proc'[n] = r
  BY <1>1, <1>4 DEF Types
<1>8. CallInv(n)'
  BY <1>1, <1>2, <1>6, <1>7 DEF CallInv, ProcInv
<1>9. ASSUME checkpointed PROVE MemInv(n)'
  <2>1. After(n)' = After(n)
    BY <1>6, <1>7 DEF After
  <2> QED BY <1>1, <1>6, <1>7, <1>9, <2>1 DEF MemInv, ProcInv
<1> QED BY <1>2, <1>3, <1>4, <1>5, <1>6, <1>8, <1>9, BridgeStep

LEMMA InvokeStep == ASSUME NEW n \in Procs PROVE IInv /\ Invoke(n) => IInv'
<1> SUFFICES ASSUME IInv, Invoke(n) PROVE IInv'
  OBVIOUS
<1> DEFINE p == proc[n]
           r == [p EXCEPT !.srv = [p.srv EXCEPT !.current = <<p.pc, p.hand>>]]
<1>1. Types /\ ProcInv(n) /\ p \in Processes /\ p.srv \in Servers /\ faults \in 0 .. MaxFaults /\ MaxFaults \in Nat
  BY Numbers DEF IInv, Types, Processes
<1>2. Running(n) /\ bridgeUnchanged /\ p.pc \in Callbacks
  BY DEF Invoke, Running, Callbacks
<1>3. faults' \in 0 .. MaxFaults /\ faults <= faults'
  BY <1>1 DEF Invoke
<1>4. proc' = [proc EXCEPT ![n] = r]
  BY <1>1 DEF Invoke, Types
<1>5. r \in Processes
  <2>1. <<p.pc, p.hand>> \in Calls
    BY <1>1, <1>2 DEF Calls, Processes
  <2> QED BY <1>1, <2>1 DEF Processes, Servers
<1>6. /\ r.pc = p.pc /\ r.pod = p.pod /\ r.hand = p.hand /\ r.local = p.local
      /\ r.unannounced = p.unannounced /\ r.snap = p.snap /\ r.app = p.app
      /\ r.srv.current = <<p.pc, p.hand>> /\ r.srv.session = p.srv.session /\ r.srv.ready = p.srv.ready
  BY <1>1 DEF Processes, Servers
<1> HIDE DEF r
<1>7. proc'[n] = r
  BY <1>1, <1>4 DEF Types
<1>8. CallInv(n)'
  BY <1>1, <1>2, <1>6, <1>7 DEF CallInv, ProcInv
<1>9. ASSUME checkpointed PROVE MemInv(n)'
  <2>1. After(n)' = After(n)
    BY <1>6, <1>7 DEF After
  <2> QED BY <1>1, <1>6, <1>7, <1>9, <2>1 DEF MemInv, ProcInv
<1> QED BY <1>2, <1>3, <1>4, <1>5, <1>6, <1>8, <1>9, BridgeStep

\* An application ends.
LEMMA AppGoneStep ==
  ASSUME IInv, NEW n \in Procs, NEW s \in Sessions, proc[n].app[s].up, proc' = [proc EXCEPT ![n].app[s] = NoApp],
         bridgeUnchanged, faults' \in 0 .. MaxFaults, faults <= faults'
  PROVE  IInv'
<1> DEFINE p == proc[n]
           r == [p EXCEPT !.app = [p.app EXCEPT ![s] = NoApp]]
<1>1. Types /\ ProcInv(n) /\ p \in Processes /\ p.app \in [Sessions -> Apps]
  BY DEF IInv, Types, Processes
<1>2. Running(n)
  BY <1>1 DEF ProcInv, CallInv, Running
<1>3. proc' = [proc EXCEPT ![n] = r]
  BY <1>1 DEF Types
<1>4. r \in Processes
  BY <1>1, NewTypes DEF Processes
<1>5. /\ r.pc = p.pc /\ r.pod = p.pod /\ r.hand = p.hand /\ r.local = p.local
      /\ r.unannounced = p.unannounced /\ r.snap = p.snap /\ r.srv = p.srv
      /\ \A u \in Sessions : r.app[u] = IF u = s THEN NoApp ELSE p.app[u]
  BY <1>1 DEF Processes
<1> HIDE DEF r
<1>6. proc'[n] = r
  BY <1>1, <1>3 DEF Types
<1>7. NoApp.up = FALSE /\ NoApp.inv = <<>>
  BY DEF NoApp
<1>8. CallInv(n)'
  BY <1>1, <1>2, <1>5, <1>6 DEF CallInv, ProcInv, Running
<1>9. ASSUME checkpointed PROVE MemInv(n)'
  <2>1. After(n)' = After(n)
    BY <1>5, <1>6 DEF After
  <2> QED BY <1>1, <1>5, <1>6, <1>7, <1>9, <2>1 DEF MemInv, ProcInv
<1> QED BY <1>2, <1>3, <1>4, <1>5, <1>8, <1>9, BridgeStep

LEMMA TurnedStep ==
  ASSUME NEW n \in Procs, NEW s \in Sessions PROVE IInv /\ (Turned(n, s) \/ AppCrash(n, s)) => IInv'
<1> SUFFICES ASSUME IInv, Turned(n, s) \/ AppCrash(n, s) PROVE IInv'
  OBVIOUS
<1>1. faults \in 0 .. MaxFaults /\ MaxFaults \in Nat
  BY Numbers DEF IInv, Types
<1>2. faults' \in 0 .. MaxFaults /\ faults <= faults'
  BY <1>1 DEF Turned, AppCrash, Fault
<1> QED BY <1>2, AppGoneStep DEF Turned, AppCrash

\* Counting an input for the first time.
LEMMA CountOnce ==
  ASSUME NEW m \in Manifests, GoodManifest(m), NEW i \in Inputs, i \notin m.inputs
  PROVE  /\ [m.mem EXCEPT ![i] = @ + 1] = [m.mem EXCEPT ![i] = 1]
         /\ [m.mem EXCEPT ![i] = 1] = Count(m.inputs \cup {i})
<1>1. m.mem = Count(m.inputs)
  BY DEF GoodManifest
<1> QED BY <1>1 DEF Count

LEMMA TakeStep == ASSUME NEW n \in Procs, NEW s \in Sessions PROVE IInv /\ Take(n, s) => IInv'
<1> SUFFICES ASSUME IInv, Take(n, s) PROVE IInv'
  OBVIOUS
<1> DEFINE p == proc[n]
           mem == MemAfter(n, p.srv.current, p.app[s].mem)
           a == [p.app[s] EXCEPT !.inv = p.srv.current, !.mem = mem]
           r == [p EXCEPT !.app = [p.app EXCEPT ![s] = a]]
<1>1. /\ Types /\ ProcInv(n) /\ p \in Processes /\ p.app \in [Sessions -> Apps] /\ p.app[s] \in Apps /\ p.srv \in Servers
      /\ faults \in 0 .. MaxFaults /\ MaxFaults \in Nat
  BY Numbers DEF IInv, Types, Processes
<1>2. bridgeUnchanged /\ p.app[s].up /\ p.app[s].inv = <<>> /\ p.srv.current # <<>> /\ p.srv.session = s
  BY DEF Take, Offered
<1>3. Running(n)
  BY <1>1, <1>2 DEF ProcInv, CallInv, Running
<1>4. faults' \in 0 .. MaxFaults /\ faults <= faults'
  BY <1>1 DEF Take
<1>5. p.pc \in Callbacks /\ p.srv.current = <<p.pc, p.hand>>
  BY <1>1, <1>2 DEF ProcInv, CallInv
<1>6. /\ p.pc = "restore" => mem = p.local.mem
      /\ p.pc = "record" => mem = [p.app[s].mem EXCEPT ![p.hand] = @ + 1]
      /\ p.pc \in {"snapshot", "drain"} => mem = p.app[s].mem
  BY <1>5 DEF MemAfter
<1>7. mem \in Mems
  <2>1. p.app[s].mem \in Mems /\ p.local.mem \in Mems
    BY <1>1 DEF Processes, Apps, Manifests
  <2>2. p.pc = "record" => p.hand \in Inputs
    BY <1>1 DEF ProcInv, HandInv
  <2>3. ASSUME p.pc = "record" PROVE [p.app[s].mem EXCEPT ![p.hand] = @ + 1] \in Mems
    BY <2>1, <2>2, <2>3 DEF Mems
  <2> HIDE DEF mem
  <2> QED BY <1>5, <1>6, <2>1, <2>3 DEF Callbacks
<1> HIDE DEF mem
<1>8. proc' = [proc EXCEPT ![n] = r]
  BY <1>1 DEF Take, Types, mem
<1>9. a \in Apps
  BY <1>1, <1>7 DEF Apps, Servers
<1>10. a.up = p.app[s].up /\ a.inv = p.srv.current /\ a.mem = mem
  BY <1>1 DEF Apps
<1> HIDE DEF a
<1>11. r \in Processes
  BY <1>1, <1>9 DEF Processes
<1>12. /\ r.pc = p.pc /\ r.pod = p.pod /\ r.hand = p.hand /\ r.local = p.local
       /\ r.unannounced = p.unannounced /\ r.snap = p.snap /\ r.srv = p.srv
       /\ \A u \in Sessions : r.app[u] = IF u = s THEN a ELSE p.app[u]
  BY <1>1 DEF Processes
<1> HIDE DEF r
<1>13. proc'[n] = r
  BY <1>1, <1>8 DEF Types
<1>14. CallInv(n)'
  BY <1>1, <1>3, <1>12, <1>13 DEF CallInv, ProcInv, Running
<1>15. ASSUME checkpointed PROVE MemInv(n)'
  <2>1. MemInv(n) /\ LocalInv(n) /\ HandInv(n)
    BY <1>1, <1>15 DEF ProcInv
  <2>2. After(n)' = After(n)
    BY <1>12, <1>13 DEF After
  <2>3. ASSUME p.pc = "record" PROVE mem = After(n)
    <3>1. p.hand \in Inputs /\ p.hand \notin p.local.inputs /\ GoodManifest(p.local) /\ p.local \in Manifests
      BY <1>1, <2>1, <2>3 DEF HandInv, LocalInv, Processes
    <3>2. p.app[s].mem = p.local.mem
      BY <1>2, <2>1, <2>3 DEF MemInv
    <3> QED BY <1>6, <2>3, <3>1, <3>2, CountOnce DEF After
  <2>4. ASSUME p.pc = "snapshot" PROVE mem = After(n)
    BY <1>2, <1>6, <2>1, <2>4 DEF MemInv
  <2>5. ASSUME p.pc = "drain" PROVE mem = p.local.mem
    BY <1>2, <1>6, <2>1, <2>5 DEF MemInv
  <2>6. p.srv.current # <<>> /\ a.inv = <<p.pc, p.hand>>
    BY <1>2, <1>5, <1>10
  <2>7. s = 1 /\ p.srv.session = 1 /\ \A u \in Sessions : u # s => ~p.app[u].up
    BY <1>2, <2>1 DEF MemInv
  <2>8. \A u \in Sessions : u # s => p.app[u] = NoApp
    BY <2>1, <2>7 DEF MemInv
  <2>9. NoApp.up = FALSE /\ NoApp.inv = <<>>
    BY DEF NoApp
  <2>10. /\ a.up /\ a.inv # <<>>
         /\ \A u \in Sessions :
              (r.app[u] = a /\ u = s) \/ (r.app[u] = NoApp /\ ~r.app[u].up /\ r.app[u].inv = <<>>)
    <3>1. a.up /\ a.inv # <<>>
      BY <1>2, <1>10, Zenon
    <3>2. r.app[s] = a /\ \A u \in Sessions : u # s => r.app[u] = NoApp
      BY <1>12, <2>8
    <3>3. ASSUME NEW u \in Sessions
          PROVE  (r.app[u] = a /\ u = s) \/ (r.app[u] = NoApp /\ ~r.app[u].up /\ r.app[u].inv = <<>>)
      <4>1. CASE u = s
        BY <3>2, <4>1
      <4>2. CASE u # s
        <5>1. r.app[u] = NoApp
          BY <3>2, <4>2
        <5> QED BY <2>9, <5>1, Zenon
      <4> QED BY <4>1, <4>2
    <3> QED BY <3>1, <3>3
  <2>11. p.pc \in {"restore", "record", "snapshot", "drain"}
    BY <1>5 DEF Callbacks
  <2>12. /\ p.pc = "restore" => a.mem = p.local.mem
         /\ p.pc = "record" => a.mem = After(n)
         /\ p.pc = "snapshot" => a.mem = After(n)
         /\ p.pc = "drain" => a.mem = p.local.mem
    BY <1>6, <1>10, <2>3, <2>4, <2>5
  <2> QED BY <1>5, <1>12, <1>13, <2>2, <2>6, <2>7, <2>10, <2>11, <2>12 DEF MemInv
<1> QED BY <1>3, <1>4, <1>2, <1>8, <1>11, <1>12, <1>14, <1>15, BridgeStep

\* The worker goes on with the answer of its application.
LEMMA AnswerStep ==
  ASSUME IInv, NEW n \in Procs, NEW s \in Sessions, Reply(n, s),
         s = proc[n].srv.session, proc[n].app[s].inv = proc[n].srv.current
  PROVE  IInv'
<1> DEFINE p == proc[n]
           a == p.app[s]
           made == Produced(n, a.mem)
           b == [a EXCEPT !.inv = <<>>]
           r == [p EXCEPT !.srv = [p.srv EXCEPT !.current = <<>>], !.app = [p.app EXCEPT ![s] = b],
                          !.pc = AfterCallback(n), !.unannounced = p.unannounced \cup made,
                          !.snap = IF p.pc = "snapshot" THEN a.mem ELSE p.snap]
<1>1. /\ Types /\ ProcInv(n) /\ p \in Processes /\ p.app \in [Sessions -> Apps] /\ a \in Apps /\ p.srv \in Servers
      /\ p.local \in Manifests
      /\ faults \in 0 .. MaxFaults /\ MaxFaults \in Nat
  BY Numbers DEF IInv, Types, Processes
<1>2. a.up /\ a.inv # <<>> /\ bridgeUnchanged /\ faults' = faults
  BY DEF Reply
<1>3. p.pc \in Callbacks /\ a.inv = <<p.pc, p.hand>> /\ HandInv(n)
  BY <1>1, <1>2 DEF ProcInv, CallInv
<1>4. proc' = [proc EXCEPT ![n] = r]
  <2>1. proc' = [proc EXCEPT ![n].srv.current = <<>>, ![n].app[s].inv = <<>>,
                             ![n].pc = AfterCallback(n),
                             ![n].unannounced = @ \cup Produced(n, proc[n].app[s].mem),
                             ![n].snap = IF proc[n].pc = "snapshot" THEN proc[n].app[s].mem ELSE @]
    BY Zenon DEF Reply
  <2>2. proc \in [Procs -> Processes]
    BY <1>1 DEF Types
  <2>3. proc' = [proc EXCEPT ![n] = [p EXCEPT !.srv.current = <<>>, !.app[s].inv = <<>>,
                                              !.pc = AfterCallback(n), !.unannounced = @ \cup made,
                                              !.snap = IF p.pc = "snapshot" THEN a.mem ELSE @]]
    BY <2>1, <2>2, ZenonT(40)
  <2>4. r = [p EXCEPT !.srv.current = <<>>, !.app[s].inv = <<>>,
                      !.pc = AfterCallback(n), !.unannounced = @ \cup made,
                      !.snap = IF p.pc = "snapshot" THEN a.mem ELSE @]
    BY <1>1
  <2> QED BY <2>3, <2>4, ZenonT(40)
<1>5. /\ p.pc = "restore" => AfterCallback(n) = "republish" /\ made = p.local.outputs
      /\ p.pc = "record" => /\ AfterCallback(n) = IF checkpointed THEN "snapshot" ELSE "publish"
                            /\ made = {Segment(n, p.hand, Zero)}
      /\ p.pc = "drain" => /\ AfterCallback(n) = IF checkpointed THEN "snapshot" ELSE "publish"
                           /\ made = {Segment(n, Drain, a.mem)}
      /\ p.pc = "snapshot" => AfterCallback(n) = "commit" /\ made = {}
  BY DEF AfterCallback, Produced
<1>6. made \subseteq Outs
  <2>1. p.local.outputs \subseteq Outs /\ a.mem \in Mems
    BY <1>1 DEF Manifests, Apps
  <2>2. Segment(n, Drain, a.mem) \in Outs /\ (p.hand \in Inputs => Segment(n, p.hand, Zero) \in Outs)
    BY <2>1, NewTypes DEF Segment, Outs
  <2>3. p.pc = "record" => p.hand \in Inputs
    BY <1>3 DEF HandInv
  <2> HIDE DEF made
  <2> QED BY <1>3, <1>5, <2>1, <2>2, <2>3 DEF Callbacks
<1> HIDE DEF made
<1>7. AfterCallback(n) \in {"republish", "snapshot", "publish", "commit"}
  BY <1>3, <1>5 DEF Callbacks
<1>8. r \in Processes
  <2>1. b \in Apps /\ [p.srv EXCEPT !.current = <<>>] \in Servers /\ a.mem \in Mems
    BY <1>1 DEF Apps, Servers
  <2> HIDE DEF b
  <2>2. AfterCallback(n) \in PCs
    BY <1>7 DEF PCs, Callbacks
  <2> QED BY <1>1, <1>6, <2>1, <2>2 DEF Processes
<1>9. b.up /\ b.inv = <<>> /\ b.mem = a.mem
  BY <1>1, <1>2 DEF Apps
<1> HIDE DEF b
<1>10. /\ r.pc = AfterCallback(n) /\ r.pod = p.pod /\ r.hand = p.hand /\ r.local = p.local
       /\ r.unannounced = p.unannounced \cup made /\ r.snap = IF p.pc = "snapshot" THEN a.mem ELSE p.snap
       /\ r.srv.current = <<>> /\ r.srv.session = p.srv.session /\ r.srv.ready = p.srv.ready
       /\ \A u \in Sessions : r.app[u] = IF u = s THEN b ELSE p.app[u]
  BY <1>1 DEF Processes, Servers
<1> HIDE DEF r
<1>11. proc'[n] = r /\ \A m \in Procs : m # n => proc'[m] = proc[m]
  BY <1>1, <1>4 DEF Types
<1>12. Types'
  <2>1. proc' \in [Procs -> Processes]
    BY <1>1, <1>4, <1>8 DEF Types
  <2> QED BY <1>1, <1>2, <2>1 DEF Types, bridgeUnchanged
<1>13. Grows
  BY <1>1, <1>2 DEF Grows, Types, bridgeUnchanged
<1>14. Only(n)
  <2>1. faults <= faults'
    BY <1>1, <1>2
  <2>2. p.pc # "off" /\ r.pc # "off" /\ r.pod = p.pod
    BY <1>3, <1>7, <1>10 DEF Callbacks
  <2> QED BY <1>2, <1>11, <2>1, <2>2 DEF Only, bridgeUnchanged
<1>15. HandInv(n)' /\ AckInv(n)'
  <2>1. p.pc \in {"restore", "record", "drain"} => p.unannounced = {}
    BY <1>3 DEF HandInv
  <2>2. HandInv(n)'
    <3>1. CASE checkpointed
      BY <1>2, <1>3, <1>5, <1>10, <1>11, <2>1, <3>1, Numbers DEF HandInv, Callbacks, bridgeUnchanged
    <3>2. CASE ~checkpointed
      BY <1>2, <1>3, <1>5, <1>10, <1>11, <2>1, <3>2, Numbers DEF HandInv, Callbacks, bridgeUnchanged
    <3> QED BY <3>1, <3>2
  <2> QED BY <1>7, <1>10, <1>11, <2>2 DEF AckInv
<1>16. CallInv(n)'
  BY <1>1, <1>2, <1>3, <1>7, <1>10, <1>11 DEF CallInv, ProcInv, Callbacks
<1>17. ASSUME checkpointed PROVE LocalInv(n)' /\ MemInv(n)'
  <2>1. LocalInv(n) /\ MemInv(n)
    BY <1>1, <1>17 DEF ProcInv
  <2>2. After(n)' = After(n)
    BY <1>10, <1>11 DEF After
  <2>3. p.pc = "restore" => a.mem = p.local.mem
    BY <1>2, <2>1 DEF MemInv
  <2>4. p.pc \in {"record", "snapshot"} => a.mem = After(n)
    BY <1>2, <2>1 DEF MemInv
  <2>5. p.pc = "drain" => a.mem = p.local.mem /\ a.mem = After(n)
    BY <1>2, <1>3, <2>1, Numbers DEF MemInv, HandInv, After
  <2>6. /\ p.pc = "restore" => r.pc = "republish" /\ r.unannounced = p.local.outputs
        /\ p.pc = "record" => r.pc = "snapshot" /\ r.unannounced = {Segment(n, p.hand, Zero)} /\ p.hand # Drain
        /\ p.pc = "drain" => r.pc = "snapshot" /\ r.unannounced = {Segment(n, p.hand, p.local.mem)} /\ p.hand = Drain
        /\ p.pc = "snapshot" => r.pc = "commit" /\ r.unannounced = p.unannounced /\ r.snap = a.mem
    <3>1. p.pc \in {"restore", "record", "drain"} => p.unannounced = {}
      BY <1>3 DEF HandInv
    <3>2. (p.pc = "record" => p.hand # Drain) /\ (p.pc = "drain" => p.hand = Drain)
      BY <1>3, Numbers DEF HandInv
    <3> QED BY <1>5, <1>10, <1>17, <2>5, <3>1, <3>2
  <2>7. p.pc \in {"restore", "record", "snapshot", "drain"}
    BY <1>3 DEF Callbacks
  <2>8. UNCHANGED <<manifest, announced>>
    BY <1>2 DEF bridgeUnchanged
  <2>9. LocalInv(n)'
    <3>1. p.pc = "drain" => p.hand \notin p.local.inputs
      BY <1>1, <2>6, Numbers DEF Manifests
    <3>2. CASE p.pc = "restore"
      BY <1>10, <1>11, <2>1, <2>6, <2>8, <3>2 DEF LocalInv
    <3>3. CASE p.pc \in {"record", "drain"}
      <4>1. p.unannounced = {}
        BY <1>3, <3>3 DEF HandInv
      <4>2. r.pc = "snapshot" /\ r.unannounced = {Segment(n, p.hand, IF p.hand = Drain THEN p.local.mem ELSE Zero)}
        BY <2>6, <3>3
      <4>3. p.hand \notin p.local.inputs /\ ~p.local.complete /\ p.local.outputs \subseteq announced
        BY <2>1, <3>1, <3>3, <4>1 DEF LocalInv
      <4> QED BY <1>10, <1>11, <2>1, <2>8, <3>3, <4>2, <4>3 DEF LocalInv
    <3>4. CASE p.pc = "snapshot"
      BY <1>10, <1>11, <2>1, <2>2, <2>4, <2>6, <2>8, <3>4 DEF LocalInv
    <3> QED BY <2>7, <3>2, <3>3, <3>4
  <2>10. MemInv(n)'
    <3>1. s = 1 /\ p.srv.session = 1
      BY <1>2, <2>1 DEF MemInv
    <3>2. NoApp.up = FALSE /\ NoApp.inv = <<>>
      BY DEF NoApp
    <3>3. \A u \in Sessions : u # s => r.app[u] = NoApp
      <4>1. \A u \in Sessions : u # s => ~p.app[u].up
        BY <2>1, <3>1 DEF MemInv
      <4> QED BY <1>10, <2>1, <4>1 DEF MemInv
    <3>4. \A u \in Sessions : u # s => ~r.app[u].up /\ r.app[u].inv = <<>>
      BY <3>2, <3>3, Zenon
    <3>5. r.app[s] = b
      BY <1>10
    <3>6. (r.pc = "republish" /\ a.mem = p.local.mem) \/ (r.pc \in {"snapshot", "commit"} /\ a.mem = After(n))
      BY <2>3, <2>4, <2>5, <2>6, <2>7
    <3> QED BY <1>9, <1>10, <1>11, <2>2, <3>1, <3>3, <3>4, <3>5, <3>6 DEF MemInv
  <2> QED BY <2>9, <2>10
<1>18. ProcInv(n)'
  BY <1>2, <1>15, <1>16, <1>17 DEF ProcInv, bridgeUnchanged
<1>19. AckedIsKept' /\ ManifestInv'
  BY <1>2, <1>13, AckedKept DEF IInv, ManifestInv, bridgeUnchanged
<1> QED BY <1>2, <1>12, <1>13, <1>14, <1>18, <1>19, StepOfOne DEF bridgeUnchanged

LEMMA ReplyStep == ASSUME NEW n \in Procs, NEW s \in Sessions PROVE IInv /\ Reply(n, s) => IInv'
<1> SUFFICES ASSUME IInv, Reply(n, s) PROVE IInv'
  OBVIOUS
<1>1. faults' \in 0 .. MaxFaults /\ faults <= faults'
  BY Numbers DEF Reply, IInv, Types
<1>2. CASE s = proc[n].srv.session /\ proc[n].app[s].inv = proc[n].srv.current
  BY <1>2, AnswerStep
<1>3. CASE ~(s = proc[n].srv.session /\ proc[n].app[s].inv = proc[n].srv.current)
  BY <1>1, <1>3, AppGoneStep DEF Reply
<1> QED BY <1>2, <1>3

-----------------------------------------------------------------------------
(* The worker's loop.                                                      *)

\* A step of the loop, between callbacks: no application is at work.
LEMMA LoopStep ==
  ASSUME IInv, NEW n \in Procs, NEW r \in Processes, proc' = [proc EXCEPT ![n] = r],
         r.pod = proc[n].pod, r.srv = proc[n].srv, r.app = proc[n].app,
         proc[n].pc \notin Callbacks \cup {"off", "dead"}, proc[n].pc = "wait" => proc[n].srv.ready,
         r.pc \notin {"off", "dead", "wait"}, faults' = faults,
         \A p \in Pods : session'[p] # 0 => session'[p] = session[p] \/ (session'[p] = n /\ proc[n].pod = p),
         Types', Grows, AckedIsKept', ManifestInv', manifest'.writer # n => manifest' = manifest,
         HandInv(n)', AckInv(n)', checkpointed => LocalInv(n)' /\ MemInv(n)'
  PROVE  IInv'
<1>1. Types /\ ProcInv(n)
  BY DEF IInv
<1>2. proc'[n] = r /\ \A m \in Procs : m # n => proc'[m] = proc[m]
  BY <1>1 DEF Types
<1>3. Only(n)
  <2>1. faults <= faults'
    BY <1>1 DEF Types
  <2> QED BY <1>2, <2>1 DEF Only
<1>4. CallInv(n)'
  BY <1>1, <1>2 DEF ProcInv, CallInv
<1>5. ProcInv(n)'
  BY <1>4 DEF ProcInv, Grows
<1> QED BY <1>3, <1>5, StepOfOne

\* The memory of the application is what the checkpoint has, and stays so.
LEMMA MemKept ==
  ASSUME NEW n \in Procs, MemInv(n), proc[n].pc \in {"republish", "loop", "publish", "ack", "report"},
         proc'[n].pc \in {"loop", "record", "drain", "ack", "report", "idle"},
         proc'[n].srv = proc[n].srv, proc'[n].app = proc[n].app, proc'[n].local = proc[n].local
  PROVE  MemInv(n)'
<1>1. \A s \in Sessions : proc[n].app[s].inv = <<>> /\ (proc[n].app[s].up => proc[n].app[s].mem = proc[n].local.mem)
  BY DEF MemInv, Callbacks
<1> QED BY <1>1 DEF MemInv

LEMMA RegisterStep == ASSUME NEW n \in Procs PROVE IInv /\ Register(n) => IInv'
<1> SUFFICES ASSUME IInv, Register(n) PROVE IInv'
  OBVIOUS
<1> DEFINE p == proc[n]
           r == [p EXCEPT !.pc = IF checkpointed THEN "claim" ELSE "loop"]
<1>1. Types /\ ProcInv(n) /\ p \in Processes /\ p.pod \in Pods /\ n # 0
  BY Numbers DEF IInv, Types, Processes
<1>2. /\ p.pc = "wait" /\ p.srv.ready /\ session' = [session EXCEPT ![p.pod] = n] /\ work' = Returned(p.pod)
      /\ done' = [done EXCEPT ![p.pod] = FALSE] /\ completed' \in BOOLEAN
      /\ UNCHANGED <<checkpointed, announced, manifest, faults>>
  BY DEF Register
<1>3. proc' = [proc EXCEPT ![n] = r]
  BY DEF Register
<1>4. r \in Processes
  BY <1>1 DEF Processes, PCs
<1>5. /\ r.pc = IF checkpointed THEN "claim" ELSE "loop"
      /\ r.pod = p.pod /\ r.hand = p.hand /\ r.local = p.local
      /\ r.unannounced = p.unannounced /\ r.snap = p.snap /\ r.srv = p.srv /\ r.app = p.app
  BY <1>1 DEF Processes
<1> HIDE DEF r
<1>6. proc'[n] = r
  BY <1>1, <1>3 DEF Types
<1>7. session' \in [Pods -> {0} \cup Procs] /\ \A q \in Pods : session'[q] = IF q = p.pod THEN n ELSE session[q]
  BY <1>1, <1>2 DEF Types
<1>8. work' \in [Inputs -> {-1, 0} \cup {q \in Pods : session'[q] # 0}] /\ \A i \in Inputs : work'[i] = -1 => work[i] = -1
  <2>1. {q \in Pods \ {p.pod} : session[q] # 0} \subseteq {q \in Pods : session'[q] # 0}
    BY <1>7
  <2> QED BY <1>1, <1>2, <2>1, ReturnedIs
<1>9. Types'
  <2>1. proc' \in [Procs -> Processes] /\ done' \in [Pods -> BOOLEAN]
    BY <1>1, <1>2, <1>3, <1>4 DEF Types
  <2> QED BY <1>1, <1>2, <1>7, <1>8, <2>1 DEF Types
<1>10. Grows
  BY <1>1, <1>2 DEF Grows, Types
<1>11. AckedIsKept' /\ ManifestInv'
  BY <1>2, <1>8, <1>10, AckedKept DEF IInv, ManifestInv
<1>12. r.pc \in {"claim", "loop"} /\ (r.pc = "claim" => checkpointed) /\ (checkpointed => r.pc = "claim")
  BY <1>5
<1>13. HandInv(n)' /\ AckInv(n)'
  BY <1>1, <1>2, <1>5, <1>6, <1>12, Numbers DEF ProcInv, HandInv, AckInv
<1>14. ASSUME checkpointed PROVE LocalInv(n)' /\ MemInv(n)'
  <2>1. LocalInv(n) /\ MemInv(n) /\ r.pc = "claim"
    BY <1>1, <1>12, <1>14 DEF ProcInv
  <2>2. LocalInv(n)'
    BY <1>2, <1>5, <1>6, <2>1 DEF LocalInv
  <2>3. MemInv(n)'
    BY <1>2, <1>5, <1>6, <2>1 DEF MemInv, Callbacks
  <2> QED BY <2>2, <2>3
<1>15. p.pc \notin Callbacks \cup {"off", "dead"} /\ r.pc \notin {"off", "dead", "wait"}
  BY <1>2, <1>12 DEF Callbacks
<1> QED BY <1>2, <1>3, <1>4, <1>5, <1>7, <1>9, <1>10, <1>11, <1>13, <1>14, <1>15, LoopStep

LEMMA StartCheckpointStep == ASSUME NEW n \in Procs PROVE IInv /\ StartCheckpoint(n) => IInv'
<1> SUFFICES ASSUME IInv, StartCheckpoint(n) PROVE IInv'
  OBVIOUS
<1> DEFINE p == proc[n]
           r == [p EXCEPT !.local = manifest', !.pc = IF manifest.has THEN "restore" ELSE "loop"]
<1>1. Types /\ ProcInv(n) /\ p \in Processes /\ manifest \in Manifests
  BY DEF IInv, Types
<1>2. /\ p.pc = "claim" /\ manifest' = [manifest EXCEPT !.writer = n]
      /\ UNCHANGED <<checkpointed, session, done, work, announced, completed, faults>>
      /\ proc' = [proc EXCEPT ![n] = r]
  BY <1>1 DEF StartCheckpoint, Types
<1>3. /\ manifest' \in Manifests /\ manifest'.writer = n /\ manifest'.has = manifest.has /\ manifest'.mem = manifest.mem
      /\ manifest'.inputs = manifest.inputs /\ manifest'.outputs = manifest.outputs
      /\ manifest'.complete = manifest.complete
  BY <1>1, <1>2 DEF Manifests
<1>4. r \in Processes
  BY <1>1, <1>3 DEF Processes, PCs, Callbacks
<1>5. /\ r.pc = IF manifest.has THEN "restore" ELSE "loop"
      /\ r.pod = p.pod /\ r.hand = p.hand /\ r.local = manifest'
      /\ r.unannounced = p.unannounced /\ r.srv = p.srv /\ r.app = p.app
  BY <1>1 DEF Processes
<1> HIDE DEF r
<1>6. proc'[n] = r
  BY <1>1, <1>2 DEF Types
<1>7. checkpointed /\ p.hand = Nothing /\ p.unannounced = {}
  BY <1>1, <1>2 DEF ProcInv, HandInv
<1>8. GoodManifest(manifest)
  BY <1>7 DEF IInv, ManifestInv
<1>9. GoodManifest(manifest')
  BY <1>3, <1>8 DEF GoodManifest
<1>10. Types'
  <2>1. proc' \in [Procs -> Processes]
    BY <1>1, <1>2, <1>4 DEF Types
  <2> QED BY <1>1, <1>2, <1>3, <2>1 DEF Types
<1>11. Grows
  BY <1>2, <1>3 DEF Grows
<1>12. AckedIsKept' /\ ManifestInv'
  BY <1>2, <1>3, <1>9, <1>11, AckedKept DEF IInv, ManifestInv
<1>13. /\ r.pc \in {"restore", "loop"} /\ (r.pc = "loop" => ~manifest.has)
       /\ r.pc = "loop" => manifest.inputs = {} /\ manifest.outputs = {} /\ ~manifest.complete /\ manifest.mem = Zero
  <2>1. ~manifest.has => manifest.inputs = {} /\ manifest.outputs = {} /\ ~manifest.complete /\ manifest.mem = Count({})
    BY <1>8 DEF GoodManifest
  <2>2. Count({}) = Zero
    BY DEF Count, Zero
  <2> QED BY <1>5, <2>1, <2>2
<1>14. HandInv(n)' /\ AckInv(n)'
  BY <1>2, <1>5, <1>6, <1>7, <1>13, Numbers DEF HandInv, AckInv
<1>15. LocalInv(n)' /\ MemInv(n)'
  <2>1. LocalInv(n) /\ MemInv(n)
    BY <1>1, <1>7 DEF ProcInv
  <2>2. LocalInv(n)'
    BY <1>2, <1>3, <1>5, <1>6, <1>7, <1>9, <1>13, Numbers DEF LocalInv
  <2>3. \A s \in Sessions : p.app[s].inv = <<>> /\ (p.app[s].up => p.app[s].mem = Zero)
    BY <1>2, <2>1 DEF MemInv, Callbacks
  <2>4. MemInv(n)'
    BY <1>3, <1>5, <1>6, <1>13, <2>1, <2>3 DEF MemInv
  <2> QED BY <2>2, <2>4
<1>16. p.pc \notin Callbacks \cup {"off", "dead"} /\ r.pc \notin {"off", "dead", "wait"} /\ p.pc # "wait"
  BY <1>2, <1>13 DEF Callbacks
<1>17. \A q \in Pods : session'[q] = session[q]
  BY <1>2
<1> QED BY <1>2, <1>3, <1>4, <1>5, <1>10, <1>11, <1>12, <1>14, <1>15, <1>16, <1>17, LoopStep

LEMMA ConsumeStep == ASSUME NEW n \in Procs PROVE IInv /\ Consume(n) => IInv'
<1> SUFFICES ASSUME IInv, Consume(n) PROVE IInv'
  OBVIOUS
<1> DEFINE p == proc[n]
           queued == {i \in Inputs : work[i] = 0}
           r1 == [p EXCEPT !.todo = queued]
           r2 == [p EXCEPT !.pc = "drain", !.hand = Drain]
<1>1. Types /\ ProcInv(n) /\ p \in Processes /\ p.pod \in Pods /\ n # 0
  BY Numbers DEF IInv, Types, Processes
<1>2. /\ p.pc = "loop" /\ session[p.pod] = n
      /\ UNCHANGED <<checkpointed, session, done, announced, completed, manifest, faults>>
  BY DEF Consume, Known
<1>3. Grows
  BY <1>1, <1>2 DEF Grows, Types
<1>4. p.pc \notin Callbacks \cup {"off", "dead", "wait"}
  BY <1>2 DEF Callbacks
<1>5. \A q \in Pods : session'[q] = session[q]
  BY <1>2
<1>6. ManifestInv'
  BY <1>2 DEF IInv, ManifestInv
<1>7. p.hand = Nothing /\ p.unannounced = {}
  BY <1>1, <1>2 DEF ProcInv, HandInv
<1>8. CASE /\ proc' = [proc EXCEPT ![n].todo = queued]
           /\ work' = [i \in Inputs |-> IF i \in queued THEN p.pod ELSE work[i]]
  <2>1. proc' = [proc EXCEPT ![n] = r1]
    BY <1>8
  <2>2. r1 \in Processes
    BY <1>1 DEF Processes
  <2>3. /\ r1.pc = p.pc /\ r1.pod = p.pod /\ r1.hand = p.hand /\ r1.local = p.local
        /\ r1.unannounced = p.unannounced /\ r1.srv = p.srv /\ r1.app = p.app
    BY <1>1 DEF Processes
  <2> HIDE DEF r1
  <2>4. proc'[n] = r1
    BY <1>1, <2>1 DEF Types
  <2>5. /\ work' \in [Inputs -> {-1, 0} \cup {q \in Pods : session[q] # 0}]
        /\ \A i \in Inputs : work'[i] = -1 => work[i] = -1
    <3>1. p.pod # -1
      BY <1>1, Numbers
    <3> QED BY <1>1, <1>2, <1>8, <3>1 DEF Types
  <2>6. Types'
    <3>1. proc' \in [Procs -> Processes]
      BY <1>1, <2>1, <2>2 DEF Types
    <3> QED BY <1>1, <1>2, <2>5, <3>1 DEF Types
  <2>7. AckedIsKept'
    BY <1>3, <2>5, AckedKept DEF IInv
  <2>8. HandInv(n)' /\ AckInv(n)'
    BY <1>1, <1>2, <2>3, <2>4 DEF ProcInv, HandInv, AckInv
  <2>9. ASSUME checkpointed PROVE LocalInv(n)' /\ MemInv(n)'
    <3>1. LocalInv(n) /\ MemInv(n)
      BY <1>1, <2>9 DEF ProcInv
    <3> QED BY <1>2, <2>3, <2>4, <3>1, MemKept DEF LocalInv
  <2> QED BY <1>2, <1>3, <1>4, <1>5, <1>6, <2>1, <2>2, <2>3, <2>6, <2>7, <2>8, <2>9, LoopStep
<1>9. CASE /\ \A i \in Inputs : work[i] = -1
           /\ proc' = [proc EXCEPT ![n].pc = "drain", ![n].hand = Drain]
           /\ UNCHANGED work
  <2>1. proc' = [proc EXCEPT ![n] = r2]
    BY <1>9
  <2>2. r2 \in Processes
    BY <1>1 DEF Processes, PCs, Callbacks, Hands
  <2>3. /\ r2.pc = "drain" /\ r2.pod = p.pod /\ r2.hand = Drain /\ r2.local = p.local
        /\ r2.unannounced = p.unannounced /\ r2.srv = p.srv /\ r2.app = p.app
    BY <1>1 DEF Processes
  <2> HIDE DEF r2
  <2>4. proc'[n] = r2
    BY <1>1, <2>1 DEF Types
  <2>5. Types'
    <3>1. proc' \in [Procs -> Processes]
      BY <1>1, <2>1, <2>2 DEF Types
    <3> QED BY <1>1, <1>2, <1>9, <3>1 DEF Types
  <2>6. AckedIsKept'
    BY <1>3, <1>9, AckedKept DEF IInv
  <2>7. HandInv(n)' /\ AckInv(n)'
    BY <1>7, <2>3, <2>4, Numbers DEF HandInv, AckInv
  <2>8. ASSUME checkpointed PROVE LocalInv(n)' /\ MemInv(n)'
    <3>1. LocalInv(n) /\ MemInv(n)
      BY <1>1, <2>8 DEF ProcInv
    <3>2. manifest.inputs = Inputs
      <4>1. Inputs \subseteq manifest.inputs
        BY <1>9, <2>8 DEF IInv, AckedIsKept
      <4> QED BY <1>1, <4>1 DEF Types, Manifests
    <3>3. LocalInv(n)'
      BY <1>2, <2>3, <2>4, <3>1, <3>2 DEF LocalInv
    <3> QED BY <1>2, <2>3, <2>4, <3>1, <3>3, MemKept
  <2> QED BY <1>2, <1>3, <1>4, <1>5, <1>6, <2>1, <2>2, <2>3, <2>5, <2>6, <2>7, <2>8, LoopStep DEF Callbacks
<1> QED BY <1>8, <1>9 DEF Consume

LEMMA BeginStep == ASSUME NEW n \in Procs, NEW i \in Inputs PROVE IInv /\ Begin(n, i) => IInv'
<1> SUFFICES ASSUME IInv, Begin(n, i) PROVE IInv'
  OBVIOUS
<1> DEFINE p == proc[n]
           r == [p EXCEPT !.todo = p.todo \ {i}, !.hand = i, !.pc = IF Covers(n, i) THEN "ack" ELSE "record"]
<1>1. Types /\ ProcInv(n) /\ p \in Processes
  BY DEF IInv, Types
<1>2. /\ p.pc = "loop"
      /\ UNCHANGED <<checkpointed, session, done, work, announced, completed, manifest, faults>>
      /\ proc' = [proc EXCEPT ![n] = r]
  BY DEF Begin
<1>3. r \in Processes
  BY <1>1 DEF Processes, PCs, Callbacks, Hands
<1>4. /\ r.pc = IF Covers(n, i) THEN "ack" ELSE "record"
      /\ r.pod = p.pod /\ r.hand = i /\ r.local = p.local
      /\ r.unannounced = p.unannounced /\ r.srv = p.srv /\ r.app = p.app
  BY <1>1 DEF Processes
<1> HIDE DEF r
<1>5. proc'[n] = r
  BY <1>1, <1>2 DEF Types
<1>6. Types'
  <2>1. proc' \in [Procs -> Processes]
    BY <1>1, <1>2, <1>3 DEF Types
  <2> QED BY <1>1, <1>2, <2>1 DEF Types
<1>7. Grows
  BY <1>1, <1>2 DEF Grows, Types
<1>8. AckedIsKept' /\ ManifestInv'
  BY <1>2, <1>7, AckedKept DEF IInv, ManifestInv
<1>9. p.unannounced = {} /\ r.pc \in {"ack", "record"}
  BY <1>1, <1>2, <1>4 DEF ProcInv, HandInv
<1>10. HandInv(n)'
  BY <1>4, <1>5, <1>9, Numbers DEF HandInv
<1>11. AckInv(n)'
  <2> SUFFICES ASSUME r.pc = "ack" PROVE KeptInv(i)'
    BY <1>4, <1>5 DEF AckInv
  <2>1. checkpointed /\ i \in p.local.inputs
    BY <1>4 DEF Covers
  <2>2. LocalInv(n)
    BY <1>1, <2>1 DEF ProcInv
  <2>3. PICK o \in p.local.outputs : o.of = i
    BY <2>1, <2>2 DEF LocalInv, GoodManifest
  <2>4. o \in announced /\ i \in manifest.inputs
    BY <1>2, <1>9, <2>1, <2>2, <2>3 DEF LocalInv
  <2> QED BY <1>2, <2>3, <2>4 DEF KeptInv, OutputsOf
<1>12. ASSUME checkpointed PROVE LocalInv(n)' /\ MemInv(n)'
  <2>1. LocalInv(n) /\ MemInv(n)
    BY <1>1, <1>12 DEF ProcInv
  <2>2. r.pc = "record" => i \notin p.local.inputs
    BY <1>4, <1>12 DEF Covers
  <2>3. LocalInv(n)'
    BY <1>2, <1>4, <1>5, <1>9, <2>1, <2>2, Numbers DEF LocalInv
  <2> QED BY <1>2, <1>4, <1>5, <1>9, <2>1, <2>3, MemKept
<1>13. p.pc \notin Callbacks \cup {"off", "dead"} /\ r.pc \notin {"off", "dead", "wait"} /\ p.pc # "wait"
  BY <1>2, <1>9 DEF Callbacks
<1>14. \A q \in Pods : session'[q] = session[q]
  BY <1>2
<1> QED BY <1>2, <1>3, <1>4, <1>6, <1>7, <1>8, <1>10, <1>11, <1>12, <1>13, <1>14, LoopStep

\* The manifest the writer commits follows the one it knows.
LEMMA NextGood ==
  ASSUME IInv, NEW n \in Procs, proc[n].pc = "commit", manifest.writer = n
  PROVE  LET m == NextManifest(n) IN
         /\ checkpointed /\ m \in Manifests /\ GoodManifest(m)
         /\ m.writer = n /\ m.mem = proc[n].snap /\ m.mem = After(n) /\ m.has /\ m.complete = (proc[n].hand = Drain)
         /\ m.inputs = manifest.inputs \cup ({proc[n].hand} \cap Inputs)
         /\ m.outputs = manifest.outputs \cup proc[n].unannounced
         /\ proc[n].local = manifest /\ ~manifest.complete /\ LocalInv(n)
<1> DEFINE p == proc[n]
           m == NextManifest(n)
           d == Segment(n, p.hand, IF p.hand = Drain THEN p.local.mem ELSE Zero)
<1>1. Types /\ ProcInv(n) /\ p \in Processes /\ manifest \in Manifests
  BY DEF IInv, Types
<1>2. checkpointed /\ p.hand \in Inputs \cup {Drain}
  BY <1>1 DEF ProcInv, HandInv
<1>3. LocalInv(n) /\ GoodManifest(manifest)
  BY <1>1, <1>2 DEF ProcInv, IInv, ManifestInv
<1>4. p.local = manifest /\ ~manifest.complete /\ p.hand \notin manifest.inputs /\ p.snap = After(n)
  BY <1>3 DEF LocalInv
<1>5. p.unannounced = {d}
  BY <1>3 DEF LocalInv
<1>6. p.hand = Drain => manifest.inputs = Inputs
  BY <1>3 DEF LocalInv
<1>7. d.of = p.hand /\ (p.hand = Drain => d.sum = manifest.mem)
  BY <1>4 DEF Segment
<1> HIDE DEF d
<1>8. /\ m.writer = n /\ m.mem = p.snap /\ m.has = TRUE /\ m.complete = (p.hand = Drain)
      /\ m.inputs = manifest.inputs \cup ({p.hand} \cap Inputs)
      /\ m.outputs = manifest.outputs \cup {d}
  BY <1>4, <1>5 DEF NextManifest
<1>9. m \in Manifests
  <2>1. p.snap \in Mems /\ p.unannounced \subseteq Outs
    BY <1>1 DEF Processes
  <2> QED BY <1>1, <1>4, <2>1 DEF NextManifest, Manifests
<1> HIDE DEF m
<1>10. m.mem = Count(m.inputs)
  <2>1. CASE p.hand \in Inputs
    <3>1. m.mem = [manifest.mem EXCEPT ![p.hand] = 1] /\ m.inputs = manifest.inputs \cup {p.hand}
      BY <1>4, <1>8, <2>1 DEF After
    <3> QED BY <1>1, <1>3, <1>4, <2>1, <3>1, CountOnce
  <2>2. CASE p.hand \notin Inputs
    <3>1. m.mem = manifest.mem /\ m.inputs = manifest.inputs
      BY <1>4, <1>8, <2>2 DEF After
    <3> QED BY <1>3, <3>1 DEF GoodManifest
  <2> QED BY <2>1, <2>2
<1>11. \A o \in manifest.outputs : o.of \in manifest.inputs
  BY <1>3, <1>4 DEF GoodManifest
<1>12. \A o \in manifest.outputs : o.of # d.of /\ o.of # Drain
  BY <1>1, <1>4, <1>7, <1>11, Numbers DEF Manifests
<1>13. \A i \in m.inputs : \E o \in m.outputs : o.of = i
  BY <1>3, <1>7, <1>8 DEF GoodManifest
<1>14. \A o \in m.outputs : o.of = Drain \/ o.of \in m.inputs
  BY <1>2, <1>7, <1>8, <1>11
<1>15. \A o \in m.outputs : o.of = Drain => m.complete /\ o.sum = m.mem
  <2> SUFFICES ASSUME NEW o \in m.outputs, o.of = Drain PROVE m.complete /\ o.sum = m.mem
    OBVIOUS
  <2>1. o = d /\ p.hand = Drain
    BY <1>7, <1>8, <1>12
  <2>2. m.mem = manifest.mem
    BY <1>4, <1>8, <2>1, Numbers DEF After
  <2> QED BY <1>7, <1>8, <2>1, <2>2
<1>16. \A o1, o2 \in m.outputs : o1.of = o2.of => o1 = o2
  <2>1. \A o1, o2 \in manifest.outputs : o1.of = o2.of => o1 = o2
    BY <1>3 DEF GoodManifest
  <2> QED BY <1>8, <1>12, <2>1
<1>17. m.complete => m.inputs = Inputs /\ \E o \in m.outputs : o.of = Drain
  <2> SUFFICES ASSUME p.hand = Drain PROVE m.inputs = Inputs /\ \E o \in m.outputs : o.of = Drain
    BY <1>8
  <2> QED BY <1>6, <1>7, <1>8
<1>18. GoodManifest(m)
  BY <1>8, <1>10, <1>13, <1>14, <1>15, <1>16, <1>17 DEF GoodManifest
<1> QED BY <1>2, <1>3, <1>4, <1>5, <1>8, <1>9, <1>18 DEF m

LEMMA CommitStep == ASSUME NEW n \in Procs PROVE IInv /\ Commit(n) => IInv'
<1> SUFFICES ASSUME IInv, Commit(n) PROVE IInv'
  OBVIOUS
<1> DEFINE p == proc[n]
           r == [p EXCEPT !.local = manifest', !.snap = Zero, !.pc = "publish"]
<1>1. Types /\ ProcInv(n) /\ p \in Processes /\ faults \in 0 .. MaxFaults /\ MaxFaults \in Nat
  BY Numbers DEF IInv, Types
<1>2. p.pc = "commit" /\ UNCHANGED <<checkpointed, session, done, work, announced, completed, faults>>
  BY DEF Commit
<1>3. CASE manifest.writer # n
  <2>1. Gone(n) /\ UNCHANGED manifest
    BY <1>3 DEF Commit
  <2>2. faults' \in 0 .. MaxFaults /\ faults <= faults'
    BY <1>1, <1>2
  <2>3. work' \in [Inputs -> {-1, 0} \cup {q \in Pods : session[q] # 0}]
    BY <1>1, <1>2 DEF Types
  <2> QED BY <1>2, <2>1, <2>2, <2>3, GoneStep DEF Running
<1>4. CASE manifest.writer = n
  <2>1. manifest' = NextManifest(n) /\ proc' = [proc EXCEPT ![n] = r]
    BY <1>1, <1>4 DEF Commit, Types
  <2>2. /\ checkpointed /\ manifest' \in Manifests /\ GoodManifest(manifest')
        /\ manifest'.writer = n /\ manifest'.mem = After(n) /\ manifest'.complete = (p.hand = Drain)
        /\ manifest'.inputs = manifest.inputs \cup ({p.hand} \cap Inputs)
        /\ manifest'.outputs = manifest.outputs \cup p.unannounced
        /\ p.local = manifest /\ LocalInv(n)
    BY <1>2, <1>4, <2>1, NextGood
  <2>3. r \in Processes
    BY <1>1, <2>2, NewTypes DEF Processes, PCs
  <2>4. /\ r.pc = "publish" /\ r.pod = p.pod /\ r.hand = p.hand /\ r.local = manifest'
        /\ r.unannounced = p.unannounced /\ r.srv = p.srv /\ r.app = p.app
    BY <1>1 DEF Processes
  <2> HIDE DEF r
  <2>5. proc'[n] = r
    BY <1>1, <2>1 DEF Types
  <2>6. Types'
    <3>1. proc' \in [Procs -> Processes]
      BY <1>1, <2>1, <2>3 DEF Types
    <3> QED BY <1>1, <1>2, <2>2, <3>1 DEF Types
  <2>7. Grows
    BY <1>2, <2>2 DEF Grows
  <2>8. AckedIsKept'
    BY <1>2, <2>7, AckedKept DEF IInv
  <2>9. ManifestInv'
    BY <1>2, <2>2 DEF IInv, ManifestInv
  <2>10. HandInv(n) /\ MemInv(n)
    BY <1>1, <2>2 DEF ProcInv
  <2>11. HandInv(n)' /\ AckInv(n)'
    BY <1>2, <2>4, <2>5, <2>10, Numbers DEF HandInv, AckInv
  <2>12. LocalInv(n)'
    <3>1. p.hand \in Inputs \cup {Drain} /\ manifest.outputs \subseteq announced \cup p.unannounced
      BY <1>2, <2>2, <2>10 DEF HandInv, LocalInv
    <3>2. p.hand = Drain => manifest'.inputs = Inputs
      BY <2>2, <2>6 DEF LocalInv, Manifests
    <3>3. r.local = manifest' /\ r.local.inputs \subseteq manifest'.inputs /\ r.local.outputs \subseteq manifest'.outputs
      BY <2>4
    <3>4. r.local.outputs \subseteq announced' \cup r.unannounced /\ r.unannounced \subseteq r.local.outputs
      BY <1>2, <2>2, <2>4, <3>1
    <3>5. r.hand \in Inputs => r.hand \in r.local.inputs
      BY <2>2, <2>4
    <3>6. r.local.complete => r.hand = Drain
      BY <2>2, <2>4, Zenon
    <3>7. GoodManifest(r.local)
      BY <2>2, <2>4, Zenon
    <3>8. r.hand = Drain => manifest'.inputs = Inputs
      BY <2>4, <3>2
    <3> HIDE DEF p
    <3> QED BY <2>4, <2>5, <3>3, <3>4, <3>5, <3>6, <3>7, <3>8 DEF LocalInv
  <2>13. MemInv(n)'
    <3>1. \A s \in Sessions : p.app[s].inv = <<>> /\ (p.app[s].up => p.app[s].mem = manifest'.mem)
      BY <1>2, <2>2, <2>10 DEF MemInv, Callbacks
    <3> QED BY <2>4, <2>5, <2>10, <3>1 DEF MemInv
  <2>14. p.pc \notin Callbacks \cup {"off", "dead"} /\ r.pc \notin {"off", "dead", "wait"} /\ p.pc # "wait"
    BY <1>2, <2>4 DEF Callbacks
  <2>15. \A q \in Pods : session'[q] = session[q]
    BY <1>2
  <2> QED BY <1>2, <2>1, <2>2, <2>3, <2>4, <2>6, <2>7, <2>8, <2>9, <2>11, <2>12, <2>13, <2>14, <2>15, LoopStep
<1> QED BY <1>3, <1>4

LEMMA PublishStep == ASSUME NEW n \in Procs PROVE IInv /\ Publish(n) => IInv'
<1> SUFFICES ASSUME IInv, Publish(n) PROVE IInv'
  OBVIOUS
<1> DEFINE p == proc[n]
           r == [p EXCEPT !.unannounced = {}, !.pc = AfterPublish(n)]
<1>1. Types /\ ProcInv(n) /\ p \in Processes /\ faults \in 0 .. MaxFaults /\ MaxFaults \in Nat
  BY Numbers DEF IInv, Types
<1>2. p.pc \in {"publish", "republish"} /\ UNCHANGED <<checkpointed, session, done, work, completed, manifest, faults>>
  BY DEF Publish
<1>3. CASE ~Known(n)
  <2>1. Gone(n) /\ UNCHANGED announced
    BY <1>3 DEF Publish
  <2>2. faults' \in 0 .. MaxFaults /\ faults <= faults'
    BY <1>1, <1>2
  <2>3. work' \in [Inputs -> {-1, 0} \cup {q \in Pods : session[q] # 0}]
    BY <1>1, <1>2 DEF Types
  <2> QED BY <1>2, <2>1, <2>2, <2>3, GoneStep DEF Running
<1>4. CASE Known(n)
  <2>1. announced' = announced \cup p.unannounced /\ proc' = [proc EXCEPT ![n] = r]
    BY <1>1, <1>4 DEF Publish, Types
  <2>2. AfterPublish(n) \in {"loop", "report", "ack"} /\ p.unannounced \in SUBSET Outs
    BY <1>1 DEF AfterPublish, Processes
  <2>3. r \in Processes
    BY <1>1, <2>2 DEF Processes, PCs
  <2>4. /\ r.pc = AfterPublish(n) /\ r.pod = p.pod /\ r.hand = p.hand /\ r.local = p.local
        /\ r.unannounced = {} /\ r.srv = p.srv /\ r.app = p.app
    BY <1>1 DEF Processes
  <2> HIDE DEF r
  <2>5. proc'[n] = r
    BY <1>1, <2>1 DEF Types
  <2>6. Types'
    <3>1. proc' \in [Procs -> Processes] /\ announced' \in SUBSET Outs
      BY <1>1, <2>1, <2>2, <2>3 DEF Types
    <3> QED BY <1>1, <1>2, <3>1 DEF Types
  <2>7. Grows
    BY <1>1, <1>2, <2>1 DEF Grows, Types
  <2>8. AckedIsKept'
    BY <1>2, <2>7, AckedKept DEF IInv
  <2>9. ManifestInv'
    <3> SUFFICES ASSUME checkpointed PROVE announced' \subseteq manifest.outputs /\ GoodManifest(manifest)
      BY <1>2 DEF ManifestInv
    <3>1. LocalInv(n) /\ ManifestInv
      BY <1>1 DEF ProcInv, IInv
    <3> QED BY <1>2, <2>1, <3>1 DEF LocalInv, ManifestInv
  <2>10. HandInv(n)
    BY <1>1 DEF ProcInv
  <2>11. p.pc = "republish" => p.hand = Nothing
    BY <2>10 DEF HandInv
  <2>12. p.pc = "publish" => p.hand \in Inputs \cup {Drain}
    BY <2>10 DEF HandInv
  <2>13. r.pc \in {"loop", "ack", "report"}
    BY <2>2, <2>4
  <2>14. r.pc = "loop" => p.hand = Nothing
    BY <2>4, <2>11 DEF AfterPublish
  <2>15. r.pc = "ack" => p.pc = "publish" /\ p.hand \in Inputs
    BY <1>2, <2>4, <2>12 DEF AfterPublish
  <2>16. r.pc = "report" => p.hand \in {Nothing, Drain}
    BY <1>2, <2>4, <2>11, <2>12 DEF AfterPublish
  <2>17. HandInv(n)'
    BY <2>4, <2>5, <2>13, <2>14, <2>15, <2>16 DEF HandInv
  <2>18. AckInv(n)'
    <3> SUFFICES ASSUME r.pc = "ack" PROVE KeptInv(p.hand)'
      BY <2>4, <2>5 DEF AckInv
    <3>1. Segment(n, p.hand, Zero) \in announced'
      BY <2>1, <2>10, <2>15 DEF HandInv
    <3>2. Segment(n, p.hand, Zero).of = p.hand
      BY DEF Segment
    <3>3. checkpointed => p.hand \in manifest.inputs
      BY <1>1, <2>15 DEF ProcInv, LocalInv
    <3>4. proc'[n].hand = p.hand
      BY <2>4, <2>5
    <3> QED BY <1>2, <3>1, <3>2, <3>3, <3>4 DEF KeptInv, OutputsOf
  <2>19. ASSUME checkpointed PROVE LocalInv(n)' /\ MemInv(n)'
    <3>1. LocalInv(n) /\ MemInv(n)
      BY <1>1, <2>19 DEF ProcInv
    <3>2. p.local.complete => r.pc = "report"
      BY <1>2, <2>4, <3>1 DEF LocalInv, AfterPublish
    <3>3. p.local.outputs \subseteq announced'
      BY <1>2, <2>1, <3>1 DEF LocalInv
    <3>4. /\ GoodManifest(p.local) /\ p.local.inputs \subseteq manifest.inputs /\ p.local.outputs \subseteq manifest.outputs
          /\ manifest.writer = n => p.local = manifest
          /\ p.hand = Drain => manifest.inputs = Inputs
      BY <1>2, <3>1 DEF LocalInv
    <3>5. LocalInv(n)'
      BY <1>2, <2>4, <2>5, <2>13, <3>2, <3>3, <3>4 DEF LocalInv
    <3> QED BY <1>2, <2>4, <2>5, <2>13, <3>1, <3>5, MemKept
  <2>20. p.pc \notin Callbacks \cup {"off", "dead"} /\ r.pc \notin {"off", "dead", "wait"} /\ p.pc # "wait"
    BY <1>2, <2>13 DEF Callbacks
  <2>21. \A q \in Pods : session'[q] = session[q]
    BY <1>2
  <2> QED BY <1>2, <2>1, <2>3, <2>4, <2>6, <2>7, <2>8, <2>9, <2>17, <2>18, <2>19, <2>20, <2>21, LoopStep
<1> QED BY <1>3, <1>4

LEMMA AckStep == ASSUME NEW n \in Procs PROVE IInv /\ Ack(n) => IInv'
<1> SUFFICES ASSUME IInv, Ack(n) PROVE IInv'
  OBVIOUS
<1> DEFINE p == proc[n]
           r == [p EXCEPT !.hand = Nothing, !.pc = "loop"]
<1>1. Types /\ ProcInv(n) /\ p \in Processes /\ faults \in 0 .. MaxFaults /\ MaxFaults \in Nat
  BY Numbers DEF IInv, Types
<1>2. p.pc = "ack" /\ UNCHANGED <<checkpointed, session, done, announced, completed, manifest, faults>>
  BY DEF Ack
<1>3. CASE ~Known(n)
  <2>1. Gone(n) /\ UNCHANGED work
    BY <1>3 DEF Ack
  <2>2. faults' \in 0 .. MaxFaults /\ faults <= faults'
    BY <1>1, <1>2
  <2>3. work' \in [Inputs -> {-1, 0} \cup {q \in Pods : session[q] # 0}]
    BY <1>1, <2>1 DEF Types
  <2> QED BY <1>2, <2>1, <2>2, <2>3, GoneStep DEF Running
<1>4. CASE Known(n)
  <2>1. /\ work' = [work EXCEPT ![p.hand] = IF @ = p.pod THEN -1 ELSE @]
        /\ proc' = [proc EXCEPT ![n] = r]
    BY <1>1, <1>4 DEF Ack, Types
  <2>2. p.hand \in Inputs /\ p.unannounced = {} /\ KeptInv(p.hand)
    BY <1>1, <1>2 DEF ProcInv, HandInv, AckInv
  <2>3. r \in Processes
    BY <1>1 DEF Processes, PCs, Hands
  <2>4. /\ r.pc = "loop" /\ r.pod = p.pod /\ r.hand = Nothing /\ r.local = p.local
        /\ r.unannounced = p.unannounced /\ r.srv = p.srv /\ r.app = p.app
    BY <1>1 DEF Processes
  <2> HIDE DEF r
  <2>5. proc'[n] = r
    BY <1>1, <2>1 DEF Types
  <2>6. Types'
    <3>1. proc' \in [Procs -> Processes]
      BY <1>1, <2>1, <2>3 DEF Types
    <3>2. work' \in [Inputs -> {-1, 0} \cup {q \in Pods : session[q] # 0}]
      BY <1>1, <2>1 DEF Types
    <3> QED BY <1>1, <1>2, <3>1, <3>2 DEF Types
  <2>7. Grows
    BY <1>1, <1>2 DEF Grows, Types
  <2>8. AckedIsKept'
    <3> SUFFICES ASSUME NEW i \in Inputs, work'[i] = -1 PROVE KeptInv(i)
      BY <1>2 DEF AckedIsKept, KeptInv, OutputsOf
    <3>1. CASE i = p.hand
      BY <2>2, <3>1
    <3>2. CASE i # p.hand
      <4>1. work[i] = -1
        BY <1>1, <2>1, <3>2 DEF Types
      <4> QED BY <4>1 DEF IInv, AckedIsKept, KeptInv
    <3> QED BY <3>1, <3>2
  <2>9. ManifestInv'
    BY <1>2 DEF IInv, ManifestInv
  <2>10. HandInv(n)' /\ AckInv(n)'
    BY <2>2, <2>4, <2>5 DEF HandInv, AckInv
  <2>11. ASSUME checkpointed PROVE LocalInv(n)' /\ MemInv(n)'
    <3>1. LocalInv(n) /\ MemInv(n)
      BY <1>1, <2>11 DEF ProcInv
    <3>2. LocalInv(n)'
      BY <1>2, <2>2, <2>4, <2>5, <3>1, Numbers DEF LocalInv
    <3> QED BY <1>2, <2>4, <2>5, <3>1, <3>2, MemKept
  <2>12. p.pc \notin Callbacks \cup {"off", "dead"} /\ r.pc \notin {"off", "dead", "wait"} /\ p.pc # "wait"
    BY <1>2, <2>4 DEF Callbacks
  <2>13. \A q \in Pods : session'[q] = session[q]
    BY <1>2
  <2> QED BY <1>2, <2>1, <2>3, <2>4, <2>6, <2>7, <2>8, <2>9, <2>10, <2>11, <2>12, <2>13, LoopStep
<1> QED BY <1>3, <1>4

LEMMA ReportDoneStep == ASSUME NEW n \in Procs PROVE IInv /\ ReportDone(n) => IInv'
<1> SUFFICES ASSUME IInv, ReportDone(n) PROVE IInv'
  OBVIOUS
<1> DEFINE p == proc[n]
           r == [p EXCEPT !.pc = "idle"]
<1>1. Types /\ ProcInv(n) /\ p \in Processes /\ faults \in 0 .. MaxFaults /\ MaxFaults \in Nat
  BY Numbers DEF IInv, Types
<1>2. p.pc = "report" /\ UNCHANGED <<checkpointed, session, work, announced, completed, manifest, faults>>
  BY DEF ReportDone
<1>3. CASE ~Known(n)
  <2>1. Gone(n) /\ UNCHANGED done
    BY <1>3 DEF ReportDone
  <2>2. faults' \in 0 .. MaxFaults /\ faults <= faults'
    BY <1>1, <1>2
  <2>3. work' \in [Inputs -> {-1, 0} \cup {q \in Pods : session[q] # 0}]
    BY <1>1, <1>2 DEF Types
  <2> QED BY <1>2, <2>1, <2>2, <2>3, GoneStep DEF Running
<1>4. CASE Known(n)
  <2>1. done' = [done EXCEPT ![p.pod] = TRUE] /\ proc' = [proc EXCEPT ![n] = r]
    BY <1>1, <1>4 DEF ReportDone, Types
  <2>2. p.hand \in {Nothing, Drain} /\ p.unannounced = {}
    BY <1>1, <1>2 DEF ProcInv, HandInv
  <2>3. r \in Processes
    BY <1>1 DEF Processes, PCs
  <2>4. /\ r.pc = "idle" /\ r.pod = p.pod /\ r.hand = p.hand /\ r.local = p.local
        /\ r.unannounced = p.unannounced /\ r.srv = p.srv /\ r.app = p.app
    BY <1>1 DEF Processes
  <2> HIDE DEF r
  <2>5. proc'[n] = r
    BY <1>1, <2>1 DEF Types
  <2>6. Types'
    <3>1. proc' \in [Procs -> Processes]
      BY <1>1, <2>1, <2>3 DEF Types
    <3>2. done' \in [Pods -> BOOLEAN]
      BY <1>1, <2>1 DEF Types
    <3> QED BY <1>1, <1>2, <3>1, <3>2 DEF Types
  <2>7. Grows
    BY <1>1, <1>2 DEF Grows, Types
  <2>8. AckedIsKept'
    BY <1>2, <2>7, AckedKept DEF IInv
  <2>9. ManifestInv'
    BY <1>2 DEF IInv, ManifestInv
  <2>10. HandInv(n)' /\ AckInv(n)'
    BY <2>2, <2>4, <2>5 DEF HandInv, AckInv
  <2>11. ASSUME checkpointed PROVE LocalInv(n)' /\ MemInv(n)'
    <3>1. LocalInv(n) /\ MemInv(n)
      BY <1>1, <2>11 DEF ProcInv
    <3>2. LocalInv(n)'
      BY <1>2, <2>2, <2>4, <2>5, <3>1, Numbers DEF LocalInv
    <3> QED BY <1>2, <2>4, <2>5, <3>1, <3>2, MemKept
  <2>12. p.pc \notin Callbacks \cup {"off", "dead"} /\ r.pc \notin {"off", "dead", "wait"} /\ p.pc # "wait"
    BY <1>2, <2>4 DEF Callbacks
  <2>13. \A q \in Pods : session'[q] = session[q]
    BY <1>2
  <2> QED BY <1>2, <2>1, <2>3, <2>4, <2>6, <2>7, <2>8, <2>9, <2>10, <2>11, <2>12, <2>13, LoopStep
<1> QED BY <1>3, <1>4

-----------------------------------------------------------------------------
(* The theorems.                                                           *)

LEMMA StutterStep == IInv /\ UNCHANGED vars => IInv'
<1> SUFFICES ASSUME IInv, UNCHANGED vars PROVE IInv'
  OBVIOUS
<1> USE DEF vars
<1>1. Types' /\ PodsInv' /\ AckedIsKept' /\ ManifestInv'
  <2>1. Types'
    BY DEF IInv, Types
  <2>2. PodsInv'
    BY DEF IInv, PodsInv
  <2>3. AckedIsKept' /\ ManifestInv'
    BY DEF IInv, AckedIsKept, OutputsOf, ManifestInv
  <2> QED BY <2>1, <2>2, <2>3
<1>2. ASSUME NEW n \in Procs PROVE ProcInv(n)'
  <2>1. Grows
    BY DEF IInv, Types, Grows
  <2> QED BY <2>1, OthersKept DEF IInv
<1> QED BY <1>1, <1>2 DEF IInv

\* Every step keeps the invariant.
LEMMA NextKeepsInv == IInv /\ [Next]_vars => IInv'
<1> SUFFICES ASSUME IInv, Next PROVE IInv'
  BY StutterStep
<1>1. CASE Start \/ Metrics \/ \E p \in Pods : Expire(p)
  BY <1>1, StartStep, MetricsStep, ExpireStep
<1>2. ASSUME NEW n \in Procs, WorkerStep(n) PROVE IInv'
  BY <1>2, RegisterStep, StartCheckpointStep, InvokeStep, ConsumeStep, BeginStep, CommitStep, PublishStep,
     AckStep, ReportDoneStep DEF WorkerStep
<1>3. ASSUME NEW n \in Procs, AppStep(n) PROVE IInv'
  BY <1>3, SetReadyStep, TakeStep, TurnedStep, ReplyStep DEF AppStep
<1>4. ASSUME NEW n \in Procs, Connect(n) \/ Heartbeat(n) \/ Fail(n) \/ Crash(n) PROVE IInv'
  BY <1>4, ConnectStep, HeartbeatStep, CrashStep
<1>5. ASSUME NEW n \in Procs, (\E s \in Sessions : AppCrash(n, s)) \/ (\E i \in Inputs : FetchFails(n, i)) PROVE IInv'
  BY <1>5, TurnedStep, FetchFailsStep
<1> QED BY <1>1, <1>2, <1>3, <1>4, <1>5 DEF Next

LEMMA Invariant == Spec => []IInv
  BY Initially, NextKeepsInv, PTL DEF Spec

\* TypeOK holds of every behaviour, for any inputs and any number of faults: a registered
\* process is that of its pod, and deliveries are to registered pods only.
THEOREM TypeCorrect == Spec => []TypeOK
<1>1. IInv => TypeOK
  <2> SUFFICES ASSUME IInv PROVE TypeOK
    OBVIOUS
  <2>1. Types /\ PodsInv
    BY DEF IInv
  <2>2. ASSUME NEW n \in Procs
        PROVE  /\ proc[n].pc \in PCs /\ proc[n].pod \in Pods /\ proc[n].todo \subseteq Inputs
               /\ proc[n].hand \in Hands /\ proc[n].srv.session \in {0} \cup Sessions
    <3>1. proc[n] \in Processes
      BY <2>1 DEF Types
    <3> QED BY <3>1 DEF Processes, Servers
  <2>3. \A p \in Pods : session[p] # 0 => proc[session[p]].pod = p
    BY <2>1 DEF PodsInv
  <2>4. manifest.writer \in {0} \cup Procs
    BY <2>1 DEF Types, Manifests
  <2> QED BY <2>1, <2>2, <2>3, <2>4 DEF TypeOK, Types, PCs, Hands
<1> QED BY <1>1, Invariant, PTL

\* Whatever crashes, lapses or is replaced, an input that is acknowledged (AckSession) has
\* its output announced and, in a checkpointed operation, its effect committed.
THEOREM AckedStays == Spec => []AckedIsKept
<1>1. IInv => AckedIsKept
  BY DEF IInv
<1> QED BY <1>1, Invariant, PTL

-----------------------------------------------------------------------------
(* The refinement: a commit takes an input or decides the answer, an        *)
(* announcement shows, and everything else is a step the promise does not   *)
(* see.                                                                    *)

LEMMA AtMostOne ==
  ASSUME NEW S, \A a, b \in S : a = b
  PROVE  Cardinality(S) = IF S = {} THEN 0 ELSE 1
<1>1. CASE S = {}
  BY <1>1, FS_EmptySet
<1>2. CASE S # {}
  <2>1. PICK x \in S : TRUE
    BY <1>2
  <2>2. S = {x}
    BY <2>1
  <2> QED BY <1>2, <2>2, FS_Singleton
<1> QED BY <1>1, <1>2

\* What the manifest lists and the coordinator knows.
LEMMA Listed ==
  ASSUME checkpointed, ManifestInv
  PROVE  /\ \A x : Cardinality(OutputsOf(x)) = IF OutputsOf(x) = {} THEN 0 ELSE 1
         /\ \A i \in Inputs : manifest.mem[i] = IF i \in manifest.inputs THEN 1 ELSE 0
         /\ \A i \in Inputs : OutputsOf(i) # {} => i \in manifest.inputs
         /\ OutputsOf(Drain) # {} => Answer # {}
         /\ ~manifest.complete => Answer = {}
         /\ manifest.complete => Answer = {manifest.mem}
<1>1. GoodManifest(manifest) /\ announced \subseteq manifest.outputs
  BY DEF ManifestInv
<1>2. ASSUME NEW x PROVE Cardinality(OutputsOf(x)) = IF OutputsOf(x) = {} THEN 0 ELSE 1
  <2>1. \A a, b \in OutputsOf(x) : a = b
    BY <1>1 DEF OutputsOf, GoodManifest
  <2> HIDE DEF OutputsOf
  <2> QED BY <2>1, AtMostOne
<1>3. \A i \in Inputs : manifest.mem[i] = IF i \in manifest.inputs THEN 1 ELSE 0
  BY <1>1 DEF GoodManifest, Count
<1>4. \A i \in Inputs : OutputsOf(i) # {} => i \in manifest.inputs
  BY <1>1, Numbers DEF GoodManifest, OutputsOf
<1>5. OutputsOf(Drain) # {} => Answer # {}
  BY <1>1 DEF OutputsOf, Answer
<1>6. ~manifest.complete => Answer = {}
  BY <1>1 DEF GoodManifest, Answer
<1>7. manifest.complete => Answer = {manifest.mem}
  BY <1>1 DEF GoodManifest, Answer
<1> QED BY <1>2, <1>3, <1>4, <1>5, <1>6, <1>7

LEMMA Unseen ==
  ASSUME checkpointed' = checkpointed,
         checkpointed => announced' = announced /\ manifest'.mem = manifest.mem /\ manifest'.outputs = manifest.outputs
  PROVE  UNCHANGED Promise!vars
<1>1. CASE checkpointed
  <2>1. (\A x : OutputsOf(x)' = OutputsOf(x)) /\ Answer' = Answer
    BY <1>1 DEF OutputsOf, Answer
  <2> QED BY <1>1, <2>1 DEF Promise!vars
<1>2. CASE ~checkpointed
  BY <1>2 DEF Promise!vars
<1> QED BY <1>1, <1>2

\* The writer's commit takes the input in hand into the state, or decides the answer.
LEMMA CommitPromised ==
  ASSUME IInv, IInv', NEW n \in Procs, Commit(n) PROVE [Promise!Next]_(Promise!vars)
<1>1. proc[n].pc = "commit" /\ UNCHANGED <<checkpointed, announced>>
  BY DEF Commit
<1>2. CASE manifest.writer # n
  BY <1>1, <1>2, Unseen DEF Commit
<1>3. CASE manifest.writer = n
  <2> DEFINE h == proc[n].hand
  <2>1. manifest' = NextManifest(n)
    BY <1>3 DEF Commit
  <2>2. /\ checkpointed /\ GoodManifest(manifest')
        /\ manifest'.mem = After(n) /\ manifest'.complete = (h = Drain)
        /\ manifest'.inputs = manifest.inputs \cup ({h} \cap Inputs)
        /\ proc[n].local = manifest /\ ~manifest.complete /\ LocalInv(n)
    BY <1>1, <1>3, <2>1, NextGood
  <2>3. ManifestInv /\ ManifestInv' /\ checkpointed' /\ Types
    BY <1>1, <2>2 DEF IInv
  <2>4. Answer = {} /\ \A i \in Inputs : manifest.mem[i] = IF i \in manifest.inputs THEN 1 ELSE 0
    BY <2>2, <2>3, Listed
  <2>5. /\ ~manifest'.complete => Answer' = {}
        /\ manifest'.complete => Answer' = {manifest'.mem}
    <3>1. GoodManifest(manifest')
      BY <2>2
    <3> QED BY <3>1 DEF GoodManifest, Answer
  <2>6. \A x : OutputsOf(x)' = OutputsOf(x)
    BY <1>1 DEF OutputsOf
  <2>7. CASE h \in Inputs
    <3>1. h \notin manifest.inputs /\ ~manifest'.complete
      BY <1>1, <2>2, <2>7, Numbers DEF LocalInv
    <3>2. manifest'.mem = [manifest.mem EXCEPT ![h] = 1] /\ manifest.mem[h] = 0 /\ Answer' = {}
      BY <2>2, <2>4, <2>5, <2>7, <3>1 DEF After
    <3>3. Promise!Take(h)
      BY <2>2, <2>3, <2>4, <2>6, <2>7, <3>2 DEF Promise!Take
    <3> QED BY <2>7, <3>3 DEF Promise!Next
  <2>8. CASE h = Drain
    <3>1. manifest.inputs = Inputs /\ manifest'.complete
      BY <2>2, <2>8, Zenon DEF LocalInv
    <3>2. manifest'.mem = manifest.mem /\ Answer' = {manifest.mem}
      BY <2>2, <2>5, <2>8, <3>1, Numbers DEF After
    <3>3. manifest.mem = Promise!Once
      <4>1. manifest.mem \in [Inputs -> Nat]
        BY <2>3 DEF Types, Manifests, Mems
      <4> QED BY <2>4, <3>1, <4>1 DEF Promise!Once
    <3>4. Promise!Decide
      BY <2>2, <2>3, <2>4, <2>6, <3>2, <3>3 DEF Promise!Decide
    <3> QED BY <3>4 DEF Promise!Next
  <2>9. h \in Inputs \cup {Drain}
    BY <1>1 DEF IInv, ProcInv, HandInv
  <2> QED BY <2>7, <2>8, <2>9
<1> QED BY <1>2, <1>3

\* An announcement shows outputs of what is committed.
LEMMA PublishPromised ==
  ASSUME IInv, IInv', NEW n \in Procs, Publish(n) PROVE [Promise!Next]_(Promise!vars)
<1>1. UNCHANGED <<checkpointed, manifest>>
  BY DEF Publish
<1>2. CASE ~checkpointed
  BY <1>1, <1>2, Unseen
<1>3. CASE checkpointed
  <2>1. ManifestInv /\ ManifestInv' /\ checkpointed' /\ announced \subseteq announced'
    BY <1>1, <1>3 DEF IInv, Publish
  <2>2. /\ \A x : Cardinality(OutputsOf(x)) = IF OutputsOf(x) = {} THEN 0 ELSE 1
        /\ \A i \in Inputs : manifest.mem[i] = IF i \in manifest.inputs THEN 1 ELSE 0
    BY <1>3, <2>1, Listed
  <2>3. GoodManifest(manifest) /\ announced' \subseteq manifest.outputs
    BY <1>1, <1>3, <2>1 DEF ManifestInv
  <2> DEFINE After1(x) == {o \in announced' : o.of = x}
  <2>4. \A x : OutputsOf(x)' = After1(x) /\ OutputsOf(x) \subseteq After1(x)
    BY <2>1 DEF OutputsOf
  <2>5. ASSUME NEW x PROVE Cardinality(After1(x)) = IF After1(x) = {} THEN 0 ELSE 1
    <3>1. \A a, b \in After1(x) : a = b
      BY <2>3 DEF GoodManifest
    <3> HIDE DEF After1
    <3> QED BY <3>1, AtMostOne
  <2>6. \A i \in Inputs : After1(i) # {} => i \in manifest.inputs
    BY <2>3, Numbers DEF GoodManifest
  <2>7. After1(Drain) # {} => Answer # {}
    BY <2>3 DEF Answer
  <2>8. Answer' = Answer
    BY <1>1 DEF Answer
  <2> HIDE DEF After1
  <2> DEFINE v == [i \in Inputs |-> Cardinality(OutputsOf(i))]
             w == [i \in Inputs |-> Cardinality(After1(i))]
  <2>9. w \in [Inputs -> {0, 1}] /\ \A i \in Inputs : v[i] <= w[i] /\ w[i] <= manifest.mem[i]
    <3>1. \A i \in Inputs : w[i] = Cardinality(After1(i)) /\ v[i] = Cardinality(OutputsOf(i))
      OBVIOUS
    <3>2. \A i \in Inputs : w[i] \in {0, 1} /\ v[i] <= w[i] /\ w[i] <= manifest.mem[i]
      BY <2>2, <2>4, <2>5, <2>6, <3>1
    <3> QED BY <3>2
  <2>10. Cardinality(After1(Drain)) \in {Cardinality(OutputsOf(Drain)), 1}
    BY <2>2, <2>4, <2>5
  <2>11. Cardinality(After1(Drain)) = 1 => Answer # {}
    BY <2>5, <2>7
  <2>12. v' = w
    BY <2>4
  <2> HIDE DEF v, w
  <2>13. Promise!Show
    BY <1>1, <1>3, <2>1, <2>4, <2>8, <2>9, <2>10, <2>11, <2>12 DEF Promise!Show, v
  <2> QED BY <2>13 DEF Promise!Next
<1> QED BY <1>2, <1>3

\* Every step of the workers is one of the promise or leaves it where it is.
LEMMA NextPromised == IInv /\ IInv' /\ [Next]_vars => [Promise!Next]_(Promise!vars)
<1> SUFFICES ASSUME IInv, IInv', [Next]_vars PROVE [Promise!Next]_(Promise!vars)
  OBVIOUS
<1>1. CASE \E n \in Procs : Commit(n) \/ Publish(n)
  BY <1>1, CommitPromised, PublishPromised
<1>2. CASE \E n \in Procs : StartCheckpoint(n)
  <2>1. manifest'.mem = manifest.mem /\ manifest'.outputs = manifest.outputs
    BY <1>2 DEF StartCheckpoint, IInv, Types, Manifests
  <2> QED BY <1>2, <2>1, Unseen DEF StartCheckpoint
<1>3. CASE ~(\E n \in Procs : StartCheckpoint(n) \/ Commit(n) \/ Publish(n))
  <2>1. UNCHANGED <<checkpointed, announced, manifest>>
    <3>1. CASE UNCHANGED vars
      BY <3>1 DEF vars
    <3>2. CASE Start \/ Metrics \/ \E p \in Pods : Expire(p)
      BY <3>2 DEF Start, Metrics, Expire
    <3>3. ASSUME NEW n \in Procs, WorkerStep(n) PROVE UNCHANGED <<checkpointed, announced, manifest>>
      BY <1>3, <3>3, Zenon DEF WorkerStep, Register, Invoke, bridgeUnchanged, Consume, Begin, Ack, ReportDone
    <3>4. ASSUME NEW n \in Procs, AppStep(n) PROVE UNCHANGED <<checkpointed, announced, manifest>>
      BY <3>4, Zenon DEF AppStep, SetReady, Take, Turned, Reply, bridgeUnchanged
    <3>5. ASSUME NEW n \in Procs, Connect(n) \/ Heartbeat(n) \/ Fail(n) \/ Crash(n)
          PROVE UNCHANGED <<checkpointed, announced, manifest>>
      BY <3>5 DEF Connect, Heartbeat, Fail, Crash, bridgeUnchanged
    <3>6. ASSUME NEW n \in Procs, (\E s \in Sessions : AppCrash(n, s)) \/ (\E i \in Inputs : FetchFails(n, i))
          PROVE UNCHANGED <<checkpointed, announced, manifest>>
      BY <3>6 DEF AppCrash, FetchFails, bridgeUnchanged
    <3> QED BY <3>1, <3>2, <3>3, <3>4, <3>5, <3>6 DEF Next
  <2> QED BY <2>1, Unseen
<1> QED BY <1>1, <1>2, <1>3

LEMMA InitPromised == Init => Promise!Init
<1> SUFFICES ASSUME Init PROVE Promise!Init
  OBVIOUS
<1>1. manifest.mem = Zero /\ manifest.outputs = {} /\ announced = {}
  BY DEF Init, NoCheckpoint
<1>2. (\A x : OutputsOf(x) = {}) /\ Answer = {} /\ Zero = Promise!Never
  BY <1>1 DEF OutputsOf, Answer, Zero, Promise!Never
<1>3. Cardinality({}) = 0
  BY FS_EmptySet
<1>4. [i \in Inputs |-> Cardinality(OutputsOf(i))] = Zero
  BY <1>2, <1>3 DEF Zero
<1> QED BY <1>1, <1>2, <1>3, <1>4 DEF Promise!Init

\* The workers, their applications and the checkpoint together keep the promise of
\* ExactlyOnce (docs/checkpoints.md): for any inputs and any number of crashes, lapses and
\* replacements, a checkpointed operation takes each input into its state once, shows one
\* output of it and only when it is committed, and gives one answer, of the complete state
\* (startCheckpoint, commitCheckpoint, Claim, covers, connect, publish).
THEOREM KeepsPromise == Spec => Implements
  BY Invariant, InitPromised, NextPromised, PTL DEF Spec, Implements, Promise!Spec
=============================================================================
