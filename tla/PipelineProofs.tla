--------------------------- MODULE PipelineProofs ---------------------------
(***************************************************************************)
(* Proofs about Pipeline, for any number of records and of faults: types    *)
(* and the place of a segment, the lifetime of segments and blobs, that a   *)
(* fault-free workload loses nothing, and what Succeeded means.             *)
(***************************************************************************)
EXTENDS Pipeline, FiniteSetTheorems, WellFoundedInduction, TLAPS

-----------------------------------------------------------------------------
(* Types.                                                                  *)

Segs    == [pod : Pods, run : 0 .. 2 * MaxFaults + 1, recs : SUBSET Records]
Regs    == {"none", "current", "stale"}
SrcPods == [pc : {"off", "emit", "republish", "commit", "publish", "report", "idle", "exited", "down", "gone"},
            run : 0 .. 2 * MaxFaults + 1, reg : Regs, done : BOOLEAN, todo : SUBSET Records,
            buffer : SUBSET Records, unannounced : SUBSET Segs, segs : SUBSET Segs, blobs : SUBSET (Nat \X Records)]
Outs    == Records \cup {Summary}
SnkPods == [pc : {"off", "loop", "flush", "ack", "report", "idle"}, reg : Regs, done : BOOLEAN,
            todo : SUBSET Segs, hand : SUBSET Segs, out : SUBSET Outs]
Views   == [lost : BOOLEAN, sealed : BOOLEAN, extSealed : BOOLEAN, complete : SUBSET Ops, holds : BOOLEAN]
Jobs    == [attempt : 0 .. 2, state : {"none", "active", "failed", "complete"}]

Types ==
  /\ materialized \in BOOLEAN /\ maxAttempts \in {0, 2}
  /\ src \in [Pods -> SrcPods] /\ snk \in SnkPods
  /\ ckpt \in SUBSET Segs /\ queued \in SUBSET Segs /\ inflight \in SUBSET Segs
  /\ released \in SUBSET Segs /\ lost \in SUBSET Segs
  /\ sealed \in BOOLEAN /\ extSealed \in BOOLEAN /\ ext \in SUBSET Outs /\ completed \in SUBSET Ops
  /\ at \in Ops \cup {"idle", "status"} /\ view \in Views
  /\ spec \in [Ops -> {0, 1}] /\ status \in [Ops -> {"Waiting", "Running", "Succeeded", "Failed"}]
  /\ phase \in Terminal \cup {"Pending", "Running"} /\ job \in Jobs /\ faults \in 0 .. MaxFaults

-----------------------------------------------------------------------------
(* The inductive invariant, in four parts.                                 *)

\* A segment is in one place.
OnePlace ==
  /\ queued \cap inflight = {} /\ queued \cap released = {} /\ queued \cap lost = {}
  /\ inflight \cap released = {} /\ inflight \cap lost = {} /\ released \cap lost = {}

TInv == Types /\ OnePlace /\ snk.todo \cup snk.hand \subseteq Seen

\* The blobs of segment s are among the files of pod d.
BlobsOn(d, s) == \A r \in s.recs : <<s.run, r>> \in d.blobs

\* What pod p of a Deployment, with the record d, has written and not announced: each record
\* once, with its blob.
WritesOf(p, d) ==
  /\ \A s \in d.unannounced :
       /\ s.pod = p /\ s.run = d.run /\ s \in d.segs /\ BlobsOn(d, s)
       /\ s.recs \cap d.buffer = {} /\ s.recs \cap d.todo = {}
  /\ \A s, t \in d.unannounced : s # t => s.recs \cap t.recs = {}
  /\ \A r \in d.buffer : r \notin d.todo /\ <<d.run, r>> \in d.blobs
  /\ d.pc \notin {"emit", "publish"} => d.unannounced = {}
  /\ d.pc # "emit" => d.buffer = {}
  /\ d.pc \notin {"commit", "republish", "exited"}

\* Of the segments seen, its own are of an earlier run, or of a run that has announced all;
\* what has still to be read (unread) is there.
HoldsOf(p, d, seen, unread) ==
  /\ \A s \in seen : s.pod = p => s.run <= d.run /\ (d.pc \in {"emit", "publish"} => s.run # d.run)
  /\ \A s \in unread : s.pod = p /\ d.pc # "gone" => s \in d.segs /\ BlobsOn(d, s)

\* Segments of one run have different records.
Disjoint(seen) == \A s, t \in seen : s.pod = t.pod /\ s.run = t.run /\ s # t => s.recs \cap t.recs = {}

VInv ==
  ~Collective =>
    /\ Disjoint(Seen) /\ ckpt = {}
    /\ \A p \in Pods : WritesOf(p, src[p]) /\ HoldsOf(p, src[p], Seen, Unread)

\* Without a fault: a pod of the source is taken down only when the source is complete and
\* everything it holds has been read, and it stays so.
Healthy(d) ==
  /\ d.pc \in {"off", "emit", "publish", "report", "idle", "gone"}
  /\ d.pc \notin {"off", "gone"} => d.reg = "current"
  /\ d.pc = "off" => d.reg = "none"
  /\ d.reg # "none" /\ d.done => d.pc \in {"idle", "gone"}

Started == \E p \in Pods : src[p].pc # "off"
Finished == "source" \in completed /\ Unread = {}
TakenDown == Started /\ spec["source"] = 0

Calm ==
  /\ lost = {} /\ \A p \in Pods : Healthy(src[p])
  /\ "source" \in completed => Started /\ \A p \in Pods : src[p].pc \in {"off", "idle", "gone"}
  /\ "source" \in view.complete => "source" \in completed /\ (~view.holds => Unread = {})
  /\ \A p \in Pods : src[p].pc = "gone" => spec["source"] = 0
  /\ TakenDown => Finished
  /\ TakenDown /\ at = "source" => "source" \in view.complete /\ ~view.holds

ZInv == (Collective => lost = {}) /\ (faults = 0 /\ ~Collective => Calm)

\* The segments of S, with the records of B, have every record.
Covers(S, B) == \A x \in Records : x \in B \/ \E s \in S : x \in s.recs
Covered == Covers(Seen, {})

\* A run of the source holds every record, to emit, in its buffer or in a segment, until it
\* has announced them; it is known to the coordinator all the while.
Cuts(d) ==
  /\ d.pc \in {"emit", "commit", "publish", "republish"} =>
       d.reg = "current" /\ Covers(d.unannounced, d.buffer \cup d.todo)
  /\ d.pc # "emit" => d.buffer = {} /\ d.todo = {}

Announced(d) == d.pc \in {"report", "idle", "exited"} \/ d.done

SourceInv ==
  /\ \A p \in Pods : Cuts(src[p]) /\ (Announced(src[p]) => Covered)
  /\ ckpt = {} \/ Covers(ckpt, {})
  /\ "source" \in completed \/ "source" \in view.complete \/ sealed \/ job.state = "complete" => Covered

\* The sink's output is in the external channel before its input is released.
Processed == Outs \subseteq ext

SinkInv ==
  /\ \A s \in released : s.recs \subseteq ext
  /\ snk.pc \in {"off", "loop", "report", "idle"} => snk.hand = {}
  /\ snk.pc = "flush" => (snk.hand = {} => snk.out = {Summary}) /\ \A s \in snk.hand : s.recs \subseteq snk.out
  /\ snk.pc = "ack" => \A s \in snk.hand : s.recs \subseteq ext
  /\ snk.pc \in {"report", "idle"} \/ snk.done => Summary \in ext

\* The controller knows of the sink's completion only what is so, or the workload has failed.
VerdictInv ==
  /\ "sink" \in completed => lost # {} \/ Processed
  /\ "sink" \in view.complete \/ status["sink"] = "Succeeded" => phase = "Failed" \/ Processed
  /\ phase = "Succeeded" => Processed

DInv == SourceInv /\ SinkInv /\ VerdictInv

-----------------------------------------------------------------------------
(* Facts about the constants and the operators.                            *)

LEMMA Numbers ==
  /\ N \in Nat /\ MaxFaults \in Nat /\ Pods = 1 .. 2 * MaxFaults + 1
  /\ 1 \in Pods /\ Cardinality(Pods) = 2 * MaxFaults + 1 /\ Pods \subseteq Nat
  /\ Records \subseteq Nat \ {0} /\ Summary \notin Records
<1>1. N \in Nat /\ MaxFaults \in Nat
  BY PipelineAssumption
<1>2. Cardinality(1 .. 2 * MaxFaults + 1) = IF 1 > 2 * MaxFaults + 1 THEN 0 ELSE (2 * MaxFaults + 1) - 1 + 1
  BY <1>1, FS_Interval
<1> QED BY <1>1, <1>2 DEF Pods, Records, Summary

LEMMA LeastExists ==
  ASSUME NEW S \in SUBSET Nat, S # {} PROVE \E m \in S : \A k \in S : m <= k
<1>1. PICK x \in S : \A y \in S : ~(<<y, x>> \in OpToRel(<, Nat))
  BY NatLessThanWellFounded, WFMin
<1>2. \A y \in S : ~(y < x)
  BY <1>1 DEF OpToRel
<1> QED BY <1>2

LEMMA MinIs == ASSUME NEW S \in SUBSET Nat, S # {} PROVE Min(S) \in S
<1>1. \E m \in S : \A k \in S : m <= k
  BY LeastExists
<1> QED BY <1>1, Zenon DEF Min

LEMMA MaxIs ==
  ASSUME NEW b \in Nat, NEW S \in SUBSET (0 .. b), S # {}
  PROVE  Max(S) \in S /\ \A k \in S : k <= Max(S)
<1> DEFINE T == {b - k : k \in S}
<1>1. T \in SUBSET Nat /\ T # {}
  OBVIOUS
<1>2. PICK t \in T : \A u \in T : t <= u
  BY <1>1, LeastExists
<1>3. PICK m \in S : t = b - m
  BY <1>2
<1>4. ASSUME NEW k \in S PROVE m >= k
  <2>1. t <= b - k
    BY <1>2
  <2> QED BY <1>3, <2>1
<1>5. \E x \in S : \A y \in S : x >= y
  BY <1>4
<1>6. Max(S) \in S /\ \A y \in S : Max(S) >= y
  BY <1>5 DEF Max
<1>7. \A y \in S : y \in Int
  OBVIOUS
<1> QED BY <1>6, <1>7

\* No run has the number of a later one.
LEMMA RunsIs ==
  ASSUME Types
  PROVE  Runs \in 0 .. 2 * MaxFaults + 1 /\ \A p \in Pods : src[p].run <= Runs
<1> DEFINE S == {src[p].run : p \in Pods}
<1>1. S \in SUBSET (0 .. 2 * MaxFaults + 1) /\ S # {} /\ 2 * MaxFaults + 1 \in Nat
  <2>1. \A p \in Pods : src[p].run \in 0 .. 2 * MaxFaults + 1
    BY DEF Types, SrcPods
  <2> QED BY <2>1, Numbers
<1>2. Max(S) \in S /\ \A k \in S : k <= Max(S)
  <2> HIDE DEF S
  <2> QED BY <1>1, MaxIs
<1> QED BY <1>1, <1>2 DEF Runs

LEMMA SegsFinite == IsFiniteSet(Segs)
<1> DEFINE P == Pods \X (0 .. 2 * MaxFaults + 1)
           Q == P \X SUBSET Records
           f == [t \in Q |-> [pod |-> t[1][1], run |-> t[1][2], recs |-> t[2]]]
<1>1. IsFiniteSet(Pods) /\ IsFiniteSet(0 .. 2 * MaxFaults + 1) /\ IsFiniteSet(Records)
  BY Numbers, FS_Interval DEF Pods, Records
<1>2. IsFiniteSet(P) /\ IsFiniteSet(SUBSET Records)
  BY <1>1, FS_Product, FS_SUBSET
<1>3. IsFiniteSet(Q)
  <2> HIDE DEF P
  <2> QED BY <1>2, FS_Product
<1>4. f \in Surjection(Q, Segs)
  <2>1. f \in [Q -> Segs]
    BY DEF Segs
  <2>2. ASSUME NEW s \in Segs PROVE \E t \in Q : f[t] = s
    <3>1. s.pod \in Pods /\ s.run \in 0 .. 2 * MaxFaults + 1 /\ s.recs \in SUBSET Records
          /\ s = [pod |-> s.pod, run |-> s.run, recs |-> s.recs]
      BY DEF Segs
    <3>2. <<<<s.pod, s.run>>, s.recs>> \in Q
      BY <3>1
    <3>3. f[<<<<s.pod, s.run>>, s.recs>>] = s
      BY <3>1, <3>2
    <3> QED BY <3>2, <3>3
  <2> QED BY <2>1, <2>2 DEF Surjection
<1> HIDE DEF Q, f
<1> QED BY <1>3, <1>4, FS_Surjection

LEMMA NewTypes == NewPod \in SrcPods /\ NewSink \in SnkPods /\ NoReport \in Views
  /\ NoStatus \in [Ops -> {"Waiting", "Running", "Succeeded", "Failed"}]
<1>1. 0 \in 0 .. 2 * MaxFaults + 1
  BY Numbers
<1>2. NewPod \in SrcPods
  BY <1>1 DEF NewPod, SrcPods, Regs
<1> QED BY <1>2 DEF NewSink, SnkPods, Regs, NoReport, Views, NoStatus

LEMMA InitT == Init => TInv
<1> SUFFICES ASSUME Init PROVE TInv
  OBVIOUS
<1>1. Types
  <2>1. faults \in 0 .. MaxFaults /\ job \in Jobs
    BY Numbers DEF Init, Jobs
  <2>2. /\ src \in [Pods -> SrcPods] /\ snk \in SnkPods /\ view \in Views
        /\ status \in [Ops -> {"Waiting", "Running", "Succeeded", "Failed"}]
    BY NewTypes DEF Init
  <2>3. at \in Ops \cup {"idle", "status"} /\ phase \in Terminal \cup {"Pending", "Running"} /\ spec \in [Ops -> {0, 1}]
    BY DEF Init
  <2>4. materialized \in BOOLEAN /\ sealed \in BOOLEAN /\ extSealed \in BOOLEAN /\ maxAttempts \in {0, 2}
    BY DEF Init
  <2> QED BY <2>1, <2>2, <2>3, <2>4 DEF Types, Init
<1>2. snk.todo = {} /\ snk.hand = {}
  BY DEF Init, NewSink
<1> QED BY <1>1, <1>2 DEF Init, TInv, OnePlace

-----------------------------------------------------------------------------
(* What the steps of a source pod do to its record.                        *)

\* Pod p becomes r, the others stay.
Becomes(p, r) == r \in SrcPods /\ src' = [src EXCEPT ![p] = r]

LEMMA BecomesIs ==
  ASSUME Types, NEW p \in Pods, NEW r, Becomes(p, r)
  PROVE  src'[p] = r /\ (\A q \in Pods : q # p => src'[q] = src[q]) /\ src' \in [Pods -> SrcPods]
  BY DEF Types, Becomes

LEMMA EndedIs ==
  ASSUME Types, NEW p \in Pods
  PROVE  \E r \in SrcPods :
           /\ Ended(p) = [src EXCEPT ![p] = r]
           /\ r.pc = IF Collective THEN "gone" ELSE "down"
           /\ r.reg = IF src[p].reg = "current" THEN "stale" ELSE src[p].reg
           /\ r.todo = {} /\ r.unannounced = {} /\ r.buffer = {}
           /\ r.run = src[p].run /\ r.done = src[p].done /\ r.segs = src[p].segs /\ r.blobs = src[p].blobs
<1> DEFINE d == src[p]
           r == [d EXCEPT !.pc = IF Collective THEN "gone" ELSE "down",
                          !.reg = IF d.reg = "current" THEN "stale" ELSE d.reg,
                          !.todo = {}, !.unannounced = {}, !.buffer = {}]
<1>1. d \in SrcPods
  BY DEF Types
<1>2. r \in SrcPods
  BY <1>1 DEF SrcPods, Regs
<1>3. Ended(p) = [src EXCEPT ![p] = r]
  BY DEF Ended, Types
<1>4. /\ r.pc = IF Collective THEN "gone" ELSE "down"
      /\ r.reg = IF d.reg = "current" THEN "stale" ELSE d.reg
      /\ r.todo = {} /\ r.unannounced = {} /\ r.buffer = {}
      /\ r.run = d.run /\ r.done = d.done /\ r.segs = d.segs /\ r.blobs = d.blobs
  BY <1>1 DEF SrcPods
<1> HIDE DEF r
<1> QED BY <1>2, <1>3, <1>4

LEMMA RemovedIs ==
  ASSUME Types, NEW p \in Pods
  PROVE  \E r \in SrcPods :
           /\ Removed(p) = [src EXCEPT ![p] = r]
           /\ r.pc = "gone" /\ r.segs = {} /\ r.blobs = {}
           /\ r.reg = IF src[p].reg = "current" THEN "stale" ELSE src[p].reg
           /\ r.todo = {} /\ r.unannounced = {} /\ r.buffer = {}
           /\ r.run = src[p].run /\ r.done = src[p].done
<1>1. PICK e \in SrcPods :
           /\ Ended(p) = [src EXCEPT ![p] = e]
           /\ e.reg = IF src[p].reg = "current" THEN "stale" ELSE src[p].reg
           /\ e.todo = {} /\ e.unannounced = {} /\ e.buffer = {}
           /\ e.run = src[p].run /\ e.done = src[p].done
  BY EndedIs
<1> DEFINE r == [e EXCEPT !.pc = "gone", !.segs = {}, !.blobs = {}]
<1>2. r \in SrcPods
  BY DEF SrcPods
<1>3. Removed(p) = [src EXCEPT ![p] = r]
  BY <1>1 DEF Removed, Types
<1>4. /\ r.pc = "gone" /\ r.segs = {} /\ r.blobs = {} /\ r.reg = e.reg /\ r.todo = e.todo
      /\ r.unannounced = e.unannounced /\ r.buffer = e.buffer /\ r.run = e.run /\ r.done = e.done
  BY DEF SrcPods
<1> HIDE DEF r
<1> QED BY <1>1, <1>2, <1>3, <1>4

LEMMA RegisterIs ==
  ASSUME Types, NEW p \in Pods, RegisterSource(p)
  PROVE  \E r : /\ Becomes(p, r)
                /\ r.run = Runs + 1 /\ r.reg = "current" /\ r.done = FALSE
                /\ r.pc = IF ckpt = {} THEN "emit" ELSE "republish"
                /\ r.todo = IF ckpt = {} THEN Records ELSE {}
                /\ r.unannounced = ckpt
                /\ r.buffer = src[p].buffer /\ r.segs = src[p].segs /\ r.blobs = src[p].blobs
<1> DEFINE d == src[p]
           r == [d EXCEPT !.run = Runs + 1, !.reg = "current", !.done = FALSE,
                          !.pc = IF ckpt = {} THEN "emit" ELSE "republish",
                          !.todo = IF ckpt = {} THEN Records ELSE {}, !.unannounced = ckpt]
<1>1. d \in SrcPods /\ ckpt \in SUBSET Segs
  BY DEF Types
<1>2. Runs + 1 \in 0 .. 2 * MaxFaults + 1
  <2>1. Runs < 2 * MaxFaults + 1
    BY Numbers DEF RegisterSource, Starts
  <2> QED BY <2>1, RunsIs, Numbers
<1>3. r \in SrcPods
  BY <1>1, <1>2 DEF SrcPods, Regs
<1>4. src' = [src EXCEPT ![p] = r]
  BY DEF RegisterSource, Types
<1>5. /\ r.run = Runs + 1 /\ r.reg = "current" /\ r.done = FALSE
      /\ r.pc = IF ckpt = {} THEN "emit" ELSE "republish"
      /\ r.todo = IF ckpt = {} THEN Records ELSE {}
      /\ r.unannounced = ckpt
      /\ r.buffer = d.buffer /\ r.segs = d.segs /\ r.blobs = d.blobs
  BY <1>1 DEF SrcPods
<1> HIDE DEF r
<1> QED BY <1>3, <1>4, <1>5 DEF Becomes

LEMMA EmitIs ==
  ASSUME Types, NEW p \in Pods, Emit(p)
  PROVE  LET d == src[p]
             x == Min(d.todo)
             full == d.buffer \cup {x} IN
         /\ x \in d.todo /\ full \in SUBSET Records /\ Segment(p, full) \in Segs
         /\ \E r : /\ Becomes(p, r)
                   /\ r.pc = d.pc /\ r.run = d.run /\ r.reg = d.reg /\ r.done = d.done /\ r.todo = d.todo \ {x}
                   /\ r.blobs = BlobsWith(p, x)
                   /\ \/ r.buffer = full /\ r.segs = d.segs /\ r.unannounced = d.unannounced
                      \/ /\ r.buffer = {} /\ r.segs = d.segs \cup {Segment(p, full)}
                         /\ r.unannounced = d.unannounced \cup {Segment(p, full)}
<1> DEFINE d == src[p]
           x == Min(d.todo)
           full == d.buffer \cup {x}
           g == Segment(p, full)
           b == BlobsWith(p, x)
           r1 == [d EXCEPT !.todo = d.todo \ {x}, !.blobs = b, !.buffer = full]
           r2 == [d EXCEPT !.todo = d.todo \ {x}, !.blobs = b, !.buffer = {},
                           !.segs = d.segs \cup {g}, !.unannounced = d.unannounced \cup {g}]
<1>1. d \in SrcPods
  BY DEF Types
<1>2. x \in d.todo
  <2>1. d.todo \in SUBSET Nat /\ d.todo # {}
    BY <1>1, Numbers DEF SrcPods, Emit
  <2> QED BY <2>1, MinIs
<1> HIDE DEF x
<1>3. full \in SUBSET Records /\ d.run \in 0 .. 2 * MaxFaults + 1
  BY <1>1, <1>2 DEF SrcPods
<1>4. g \in Segs
  <2> HIDE DEF full
  <2> QED BY <1>3 DEF Segment, Segs
<1>5. b \in SUBSET (Nat \X Records)
  <2>1. d.run \in Nat /\ x \in Records /\ d.blobs \in SUBSET (Nat \X Records)
    BY <1>1, <1>2, <1>3, Numbers DEF SrcPods
  <2> QED BY <2>1 DEF BlobsWith
<1>6. src' = [src EXCEPT ![p] = r1] \/ src' = [src EXCEPT ![p] = r2]
  <2> USE DEF x
  <2> QED BY DEF Emit, Types
<1> HIDE DEF full, g, b
<1>7. r1 \in SrcPods /\ r2 \in SrcPods
  BY <1>1, <1>3, <1>4, <1>5 DEF SrcPods
<1>8. /\ r1.pc = d.pc /\ r1.run = d.run /\ r1.reg = d.reg /\ r1.done = d.done /\ r1.todo = d.todo \ {x}
      /\ r1.blobs = b /\ r1.buffer = full /\ r1.segs = d.segs /\ r1.unannounced = d.unannounced
  BY <1>1 DEF SrcPods
<1>9. /\ r2.pc = d.pc /\ r2.run = d.run /\ r2.reg = d.reg /\ r2.done = d.done /\ r2.todo = d.todo \ {x}
      /\ r2.blobs = b /\ r2.buffer = {} /\ r2.segs = d.segs \cup {g} /\ r2.unannounced = d.unannounced \cup {g}
  BY <1>1 DEF SrcPods
<1> HIDE DEF r1, r2
<1>10. CASE src' = [src EXCEPT ![p] = r1]
  <2>1. Becomes(p, r1)
    BY <1>7, <1>10 DEF Becomes
  <2> QED BY <1>2, <1>3, <1>4, <1>8, <2>1 DEF x, full, g, b
<1>11. CASE src' = [src EXCEPT ![p] = r2]
  <2>1. Becomes(p, r2)
    BY <1>7, <1>11 DEF Becomes
  <2> QED BY <1>2, <1>3, <1>4, <1>9, <2>1 DEF x, full, g, b
<1> QED BY <1>6, <1>10, <1>11

\* The last segment of a run.
Rest(p) == IF src[p].buffer = {} THEN {} ELSE {Segment(p, src[p].buffer)}

LEMMA MaterializeIs ==
  ASSUME Types, NEW p \in Pods, Materialize(p)
  PROVE  LET d == src[p] IN
         \E r : /\ Becomes(p, r)
                /\ r.pc = (IF Collective THEN "commit" ELSE "publish") /\ r.buffer = {}
                /\ r.segs = d.segs \cup Rest(p) /\ r.unannounced = d.unannounced \cup Rest(p)
                /\ r.run = d.run /\ r.reg = d.reg /\ r.done = d.done /\ r.todo = d.todo /\ r.blobs = d.blobs
<1> DEFINE d == src[p]
           r == [d EXCEPT !.pc = IF Collective THEN "commit" ELSE "publish", !.buffer = {},
                          !.segs = d.segs \cup Rest(p), !.unannounced = d.unannounced \cup Rest(p)]
<1>1. d \in SrcPods
  BY DEF Types
<1>2. Rest(p) \in SUBSET Segs
  BY <1>1 DEF Rest, Segment, Segs, SrcPods
<1>3. src' = [src EXCEPT ![p] = r]
  BY DEF Materialize, Rest, Types
<1>4. r \in SrcPods
  BY <1>1, <1>2 DEF SrcPods
<1>5. /\ r.pc = (IF Collective THEN "commit" ELSE "publish") /\ r.buffer = {}
      /\ r.segs = d.segs \cup Rest(p) /\ r.unannounced = d.unannounced \cup Rest(p)
      /\ r.run = d.run /\ r.reg = d.reg /\ r.done = d.done /\ r.todo = d.todo /\ r.blobs = d.blobs
  BY <1>1 DEF SrcPods
<1> HIDE DEF r
<1> QED BY <1>3, <1>4, <1>5 DEF Becomes

LEMMA CommitIs ==
  ASSUME Types, NEW p \in Pods, CommitSource(p)
  PROVE  LET d == src[p] IN
         \E r : /\ Becomes(p, r) /\ r.pc = "publish" /\ r.buffer = d.buffer /\ r.segs = d.segs
                /\ r.unannounced = d.unannounced /\ r.run = d.run /\ r.reg = d.reg /\ r.done = d.done
                /\ r.todo = d.todo /\ r.blobs = d.blobs
<1> DEFINE d == src[p]
           r == [d EXCEPT !.pc = "publish"]
<1>1. d \in SrcPods
  BY DEF Types
<1>2. r \in SrcPods
  BY <1>1 DEF SrcPods
<1>3. src' = [src EXCEPT ![p] = r]
  BY DEF CommitSource, Types
<1>4. /\ r.pc = "publish" /\ r.buffer = d.buffer /\ r.segs = d.segs
      /\ r.unannounced = d.unannounced /\ r.run = d.run /\ r.reg = d.reg /\ r.done = d.done
      /\ r.todo = d.todo /\ r.blobs = d.blobs
  BY <1>1 DEF SrcPods
<1> HIDE DEF r
<1> QED BY <1>2, <1>3, <1>4 DEF Becomes

LEMMA PublishIs ==
  ASSUME Types, NEW p \in Pods, PublishSource(p), ~(src[p].pc = "republish" /\ ~Accepted(p))
  PROVE  LET d == src[p] IN
         \E r : /\ Becomes(p, r) /\ r.pc = "report" /\ r.buffer = d.buffer /\ r.segs = d.segs
                /\ r.unannounced = {} /\ r.run = d.run /\ r.reg = d.reg /\ r.done = d.done
                /\ r.todo = d.todo /\ r.blobs = d.blobs
<1> DEFINE d == src[p]
           r == [d EXCEPT !.pc = "report", !.unannounced = {}]
<1>1. d \in SrcPods
  BY DEF Types
<1>2. r \in SrcPods
  BY <1>1 DEF SrcPods
<1>3. src' = [src EXCEPT ![p] = r]
  BY DEF PublishSource, Types
<1>4. /\ r.pc = "report" /\ r.buffer = d.buffer /\ r.segs = d.segs
      /\ r.unannounced = {} /\ r.run = d.run /\ r.reg = d.reg /\ r.done = d.done
      /\ r.todo = d.todo /\ r.blobs = d.blobs
  BY <1>1 DEF SrcPods
<1> HIDE DEF r
<1> QED BY <1>2, <1>3, <1>4 DEF Becomes

LEMMA ReportIs ==
  ASSUME Types, NEW p \in Pods, ReportSource(p), Known(p)
  PROVE  LET d == src[p] IN
         \E r : /\ Becomes(p, r) /\ r.pc = (IF Collective THEN "exited" ELSE "idle") /\ r.done = TRUE
                /\ r.buffer = d.buffer /\ r.segs = d.segs
                /\ r.unannounced = d.unannounced /\ r.run = d.run /\ r.reg = d.reg
                /\ r.todo = d.todo /\ r.blobs = d.blobs
<1> DEFINE d == src[p]
           r == [d EXCEPT !.done = TRUE, !.pc = IF Collective THEN "exited" ELSE "idle"]
<1>1. d \in SrcPods
  BY DEF Types
<1>2. r \in SrcPods
  BY <1>1 DEF SrcPods
<1>3. src' = [src EXCEPT ![p] = r]
  BY DEF ReportSource, Types
<1>4. /\ r.pc = (IF Collective THEN "exited" ELSE "idle") /\ r.done = TRUE
      /\ r.buffer = d.buffer /\ r.segs = d.segs
      /\ r.unannounced = d.unannounced /\ r.run = d.run /\ r.reg = d.reg
      /\ r.todo = d.todo /\ r.blobs = d.blobs
  BY <1>1 DEF SrcPods
<1> HIDE DEF r
<1> QED BY <1>2, <1>3, <1>4 DEF Becomes

\* A heartbeat, or the lack of one.
LEMMA SignalIs ==
  ASSUME Types, NEW p \in Pods, HeartbeatSource(p) \/ ExpireSource(p)
  PROVE  LET d == src[p] IN
         \E r : /\ Becomes(p, r)
                /\ \/ HeartbeatSource(p) /\ r.reg = "current" /\ r.done = d.done
                   \/ ExpireSource(p) /\ r.reg = "none" /\ r.done = FALSE
                /\ r.pc = d.pc /\ r.buffer = d.buffer /\ r.segs = d.segs
                /\ r.unannounced = d.unannounced /\ r.run = d.run
                /\ r.todo = d.todo /\ r.blobs = d.blobs
<1> DEFINE d == src[p]
           r1 == [d EXCEPT !.reg = "current"]
           r2 == [d EXCEPT !.reg = "none", !.done = FALSE]
<1>1. d \in SrcPods
  BY DEF Types
<1>2. r1 \in SrcPods /\ r2 \in SrcPods
  BY <1>1 DEF SrcPods, Regs
<1>3. HeartbeatSource(p) => src' = [src EXCEPT ![p] = r1]
  BY DEF HeartbeatSource, Types
<1>4. ExpireSource(p) => src' = [src EXCEPT ![p] = r2]
  BY DEF ExpireSource, Types
<1>5. /\ r1.reg = "current" /\ r1.done = d.done /\ r1.pc = d.pc /\ r1.buffer = d.buffer /\ r1.segs = d.segs
      /\ r1.unannounced = d.unannounced /\ r1.run = d.run
      /\ r1.todo = d.todo /\ r1.blobs = d.blobs
  BY <1>1 DEF SrcPods
<1>6. /\ r2.reg = "none" /\ r2.done = FALSE /\ r2.pc = d.pc /\ r2.buffer = d.buffer /\ r2.segs = d.segs
      /\ r2.unannounced = d.unannounced /\ r2.run = d.run
      /\ r2.todo = d.todo /\ r2.blobs = d.blobs
  BY <1>1 DEF SrcPods
<1> HIDE DEF r1, r2
<1>7. CASE HeartbeatSource(p)
  <2>1. Becomes(p, r1)
    BY <1>2, <1>3, <1>7 DEF Becomes
  <2> QED BY <1>5, <1>7, <2>1
<1>8. CASE ExpireSource(p)
  <2>1. Becomes(p, r2)
    BY <1>2, <1>4, <1>8 DEF Becomes
  <2> QED BY <1>6, <1>8, <2>1
<1> QED BY <1>7, <1>8

\* What a heartbeat lets go.
Let(p) == {s \in released \cup lost : s.pod = p /\ s \in src[p].segs}

LEMMA ReleaseIs ==
  ASSUME Types, NEW p \in Pods, ReleaseSegments(p)
  PROVE  LET d == src[p] IN
         \E r : /\ Becomes(p, r)
                /\ r.segs = d.segs \ Let(p) /\ r.blobs = d.blobs \ DeletedBlobs(p, Let(p))
                /\ r.pc = d.pc /\ r.buffer = d.buffer /\ r.reg = d.reg /\ r.done = d.done
                /\ r.unannounced = d.unannounced /\ r.run = d.run /\ r.todo = d.todo
<1> DEFINE d == src[p]
           r == [d EXCEPT !.segs = d.segs \ Let(p), !.blobs = d.blobs \ DeletedBlobs(p, Let(p))]
<1>1. d \in SrcPods
  BY DEF Types
<1>2. r \in SrcPods
  BY <1>1 DEF SrcPods
<1>3. src' = [src EXCEPT ![p] = r]
  BY DEF ReleaseSegments, Let, Types
<1>4. /\ r.segs = d.segs \ Let(p) /\ r.blobs = d.blobs \ DeletedBlobs(p, Let(p))
      /\ r.pc = d.pc /\ r.buffer = d.buffer /\ r.reg = d.reg /\ r.done = d.done
      /\ r.unannounced = d.unannounced /\ r.run = d.run /\ r.todo = d.todo
  BY <1>1 DEF SrcPods
<1> HIDE DEF r
<1> QED BY <1>2, <1>3, <1>4 DEF Becomes

-----------------------------------------------------------------------------
(* Types, and the place of a segment.                                      *)

FaultsOk == Fault \/ UNCHANGED faults

LEMMA FaultsStep == ASSUME Types, FaultsOk PROVE faults' \in 0 .. MaxFaults
  BY Numbers DEF Types, FaultsOk, Fault

\* The steps of a source pod that leave the coordinator's segments alone.
OwnStep(p) ==
  \/ RegisterSource(p) \/ Emit(p) \/ Materialize(p) \/ CommitSource(p) \/ ReportSource(p)
  \/ HeartbeatSource(p) \/ ReleaseSegments(p) \/ CrashSource(p) \/ EvictSource(p) \/ ScaleDownSource(p)

LEMMA OwnStepIs ==
  ASSUME Types, NEW p \in Pods, OwnStep(p)
  PROVE  /\ sourceUnchanged /\ UNCHANGED <<queued, inflight, released, lost>> /\ FaultsOk
         /\ ckpt' \in SUBSET Segs /\ completed' \in SUBSET Ops /\ completed' \subseteq completed
         /\ src' \in [Pods -> SrcPods]
<1> USE DEF OwnStep
<1>1. ckpt' \in SUBSET Segs
  <2>1. src[p].unannounced \in SUBSET Segs /\ ckpt \in SUBSET Segs
    BY DEF Types, SrcPods
  <2>2. ckpt' = ckpt \/ ckpt' = src[p].unannounced
    BY DEF RegisterSource, Emit, Materialize, CommitSource, ReportSource, HeartbeatSource, ReleaseSegments,
           CrashSource, EvictSource, ScaleDownSource
  <2> QED BY <2>1, <2>2
<1>2. completed' \in SUBSET Ops /\ completed' \subseteq completed
  <2>1. completed' = completed \/ completed' = completed \ {"source"}
    BY DEF RegisterSource, Emit, Materialize, CommitSource, ReportSource, HeartbeatSource, ReleaseSegments,
           CrashSource, EvictSource, ScaleDownSource
  <2> QED BY <2>1 DEF Types
<1>3. sourceUnchanged /\ UNCHANGED <<queued, inflight, released, lost>> /\ FaultsOk
  BY Zenon DEF RegisterSource, Emit, Materialize, CommitSource, ReportSource, HeartbeatSource, ReleaseSegments,
         CrashSource, EvictSource, ScaleDownSource, FaultsOk
<1>4. src' \in [Pods -> SrcPods]
  <2>1. Ended(p) \in [Pods -> SrcPods] /\ Removed(p) \in [Pods -> SrcPods]
    <3>1. PICK e \in SrcPods : Ended(p) = [src EXCEPT ![p] = e]
      BY EndedIs
    <3>2. PICK r \in SrcPods : Removed(p) = [src EXCEPT ![p] = r]
      BY RemovedIs
    <3> QED BY <3>1, <3>2 DEF Types
  <2>2. CASE CrashSource(p) \/ EvictSource(p) \/ ScaleDownSource(p) \/ (ReportSource(p) /\ ~Known(p))
    BY <2>1, <2>2 DEF CrashSource, EvictSource, ScaleDownSource, ReportSource
  <2>3. ASSUME NEW r, Becomes(p, r) PROVE src' \in [Pods -> SrcPods]
    BY <2>3, BecomesIs
  <2>4. CASE RegisterSource(p)
    BY <2>3, <2>4, RegisterIs
  <2>5. CASE Emit(p)
    BY <2>3, <2>5, EmitIs
  <2>6. CASE Materialize(p)
    BY <2>3, <2>6, MaterializeIs
  <2>7. CASE CommitSource(p)
    BY <2>3, <2>7, CommitIs
  <2>8. CASE ReportSource(p) /\ Known(p)
    BY <2>3, <2>8, ReportIs
  <2>9. CASE HeartbeatSource(p)
    BY <2>3, <2>9, SignalIs
  <2>10. CASE ReleaseSegments(p)
    BY <2>3, <2>10, ReleaseIs
  <2> QED BY <2>2, <2>4, <2>5, <2>6, <2>7, <2>8, <2>9, <2>10
<1> QED BY <1>1, <1>2, <1>3, <1>4

LEMMA PublishEffect ==
  ASSUME Types, NEW p \in Pods, PublishSource(p)
  PROVE  /\ sourceUnchanged /\ UNCHANGED <<ckpt, inflight, released, lost, completed, faults>>
         /\ queued' = (IF Accepted(p) THEN queued \cup New(p) ELSE queued) /\ New(p) \subseteq Segs
         /\ src' \in [Pods -> SrcPods]
<1>1. sourceUnchanged /\ UNCHANGED <<ckpt, inflight, released, lost, completed, faults>>
      /\ queued' = (IF Accepted(p) THEN queued \cup New(p) ELSE queued)
  BY Zenon DEF PublishSource
<1>2. New(p) \subseteq Segs
  BY DEF New, Types, SrcPods
<1>3. src' \in [Pods -> SrcPods]
  <2>1. CASE src[p].pc = "republish" /\ ~Accepted(p)
    <3>1. PICK e \in SrcPods : Ended(p) = [src EXCEPT ![p] = e]
      BY EndedIs
    <3> QED BY <2>1, <3>1 DEF Types, PublishSource
  <2>2. CASE ~(src[p].pc = "republish" /\ ~Accepted(p))
    BY <2>2, PublishIs, BecomesIs
  <2> QED BY <2>1, <2>2
<1> QED BY <1>1, <1>2, <1>3

LEMMA ExpireEffect ==
  ASSUME Types, NEW p \in Pods, ExpireSource(p)
  PROVE  /\ UNCHANGED <<materialized, maxAttempts, snk, ckpt, released, sealed, ext, extSealed, completed, ctlVars>>
         /\ lost' = lost \cup Loses(p) /\ queued' = queued \ Loses(p) /\ inflight' = inflight \ Loses(p)
         /\ Loses(p) \subseteq Unread /\ FaultsOk
         /\ src' \in [Pods -> SrcPods]
<1>1. UNCHANGED <<materialized, maxAttempts, snk, ckpt, released, sealed, ext, extSealed, completed, ctlVars>>
      /\ lost' = lost \cup Loses(p) /\ queued' = queued \ Loses(p) /\ inflight' = inflight \ Loses(p)
      /\ FaultsOk
  BY Zenon DEF ExpireSource, FaultsOk
<1>2. Loses(p) \subseteq Unread
  BY DEF Loses
<1>3. src' \in [Pods -> SrcPods]
  BY SignalIs, BecomesIs
<1> QED BY <1>1, <1>2, <1>3

LEMMA JobEffect ==
  ASSUME Types, NEW p \in Pods, JobEnds(p)
  PROVE  /\ UNCHANGED <<materialized, maxAttempts, snk, ckpt, coordVars, at, view, spec, status, phase, faults>>
         /\ job' \in Jobs /\ src' \in [Pods -> SrcPods]
<1>1. UNCHANGED <<materialized, maxAttempts, snk, ckpt, coordVars, at, view, spec, status, phase, faults>>
  BY Zenon DEF JobEnds
<1>2. job' \in Jobs
  BY DEF JobEnds, Types, Jobs
<1>3. src' \in [Pods -> SrcPods]
  <2>1. PICK r \in SrcPods : Removed(p) = [src EXCEPT ![p] = r]
    BY RemovedIs
  <2> QED BY <2>1 DEF Types, JobEnds
<1> QED BY <1>1, <1>2, <1>3

SinkMove ==
  \/ RegisterSink \/ HeartbeatSink \/ ExpireSink \/ Consume \/ FlushSink \/ Ack \/ ReportSink
  \/ CrashSink \/ ScaleDownSink \/ \E s \in snk.todo : Process(s) \/ FetchFails(s)

\* What the sink does to the channel: all that was handed out goes back, all that is queued
\* is handed out, a delivery is returned, or one is released.
Shuffle ==
  \/ queued' = queued \cup inflight /\ inflight' = {} /\ released' = released
  \/ queued' = {} /\ inflight' = inflight \cup queued /\ released' = released
  \/ \E back \in SUBSET inflight : queued' = queued \cup back /\ inflight' = inflight \ back /\ released' = released
  \/ \E h \in SUBSET snk.hand : queued' = queued /\ inflight' = inflight \ h /\ released' = released \cup (h \cap inflight)

LEMMA SinkMoveIs ==
  ASSUME TInv, SinkMove
  PROVE  sinkUnchanged /\ FaultsOk /\ Shuffle /\ completed' \subseteq completed
         /\ ("source" \in completed => "source" \in completed')
         /\ (ext' = ext \/ (snk.pc = "flush" /\ ext' = ext \cup snk.out))
<1>1. CASE RegisterSink
  <2>1. sinkUnchanged /\ UNCHANGED <<released, ext, faults>> /\ queued' = queued \cup inflight /\ inflight' = {}
    BY <1>1, Zenon DEF RegisterSink
  <2>2. completed' \subseteq completed /\ ("source" \in completed => "source" \in completed')
    BY <1>1 DEF RegisterSink
  <2> QED BY <2>1, <2>2, Zenon DEF Shuffle, FaultsOk
<1>2. CASE HeartbeatSink \/ ReportSink \/ CrashSink \/ ScaleDownSink \/ \E s \in snk.todo : Process(s)
  <2>1. sinkUnchanged /\ UNCHANGED <<queued, inflight, released, ext, completed>> /\ FaultsOk
    BY <1>2, Zenon DEF HeartbeatSink, ReportSink, CrashSink, ScaleDownSink, Process, FaultsOk
  <2>2. {} \in SUBSET inflight
    OBVIOUS
  <2>3. Shuffle
    BY <2>1, <2>2 DEF Shuffle
  <2> QED BY <2>1, <2>3
<1>3. CASE ExpireSink
  <2>1. sinkUnchanged /\ UNCHANGED <<released, ext, completed>> /\ FaultsOk /\ queued' = queued \cup inflight /\ inflight' = {}
    BY <1>3, Zenon DEF ExpireSink, FaultsOk, sinkUnchanged
  <2> QED BY <2>1, Zenon DEF Shuffle
<1>4. CASE Consume
  <2>1. sinkUnchanged /\ UNCHANGED <<released, ext, completed, faults>>
    BY <1>4, Zenon DEF Consume
  <2>2. \/ queued' = {} /\ inflight' = inflight \cup queued
        \/ queued' = queued /\ inflight' = inflight
    BY <1>4, Zenon DEF Consume
  <2>3. Shuffle
    BY <2>1, <2>2 DEF Shuffle
  <2> QED BY <2>1, <2>3 DEF FaultsOk
<1>5. CASE FlushSink
  <2>1. sinkUnchanged /\ UNCHANGED <<queued, inflight, released, completed, faults>>
    BY <1>5, Zenon DEF FlushSink
  <2>2. ext' = ext \/ (snk.pc = "flush" /\ ext' = ext \cup snk.out)
    BY <1>5, Zenon DEF FlushSink
  <2>3. Shuffle
    BY <2>1 DEF Shuffle
  <2> QED BY <2>1, <2>2, <2>3 DEF FaultsOk
<1>6. CASE Ack
  <2>1. sinkUnchanged /\ UNCHANGED <<queued, ext, completed, faults>>
    BY <1>6, Zenon DEF Ack
  <2>2. \/ released' = released \cup (snk.hand \cap inflight) /\ inflight' = inflight \ snk.hand
        \/ released' = released /\ inflight' = inflight
    BY <1>6, Zenon DEF Ack
  <2>3. Shuffle
    BY <2>1, <2>2 DEF Shuffle
  <2> QED BY <2>1, <2>3 DEF FaultsOk
<1>7. ASSUME NEW s \in snk.todo, FetchFails(s)
      PROVE  sinkUnchanged /\ FaultsOk /\ Shuffle /\ completed' = completed /\ ext' = ext
  <2>1. sinkUnchanged /\ UNCHANGED <<released, ext, completed, faults>>
    BY <1>7, Zenon DEF FetchFails
  <2>2. PICK back \in SUBSET inflight : queued' = queued \cup back /\ inflight' = inflight \ back
    BY <1>7 DEF FetchFails
  <2>3. Shuffle
    BY <2>1, <2>2 DEF Shuffle
  <2> QED BY <2>1, <2>3 DEF FaultsOk
<1> QED BY <1>1, <1>2, <1>3, <1>4, <1>5, <1>6, <1>7, Zenon DEF SinkMove

LEMMA ShuffleIs ==
  ASSUME TInv, Shuffle, lost' = lost
  PROVE  /\ queued' \in SUBSET Segs /\ inflight' \in SUBSET Segs /\ released' \in SUBSET Segs
         /\ Seen' = Seen /\ Unread' \subseteq Unread /\ released \subseteq released' /\ OnePlace'
         /\ released' \subseteq released \cup snk.hand
<1>1. /\ queued \in SUBSET Segs /\ inflight \in SUBSET Segs /\ released \in SUBSET Segs
      /\ OnePlace
  BY DEF TInv, Types
<1>2. CASE queued' = queued \cup inflight /\ inflight' = {} /\ released' = released
  BY <1>1, <1>2 DEF Seen, Unread, OnePlace
<1>3. CASE queued' = {} /\ inflight' = inflight \cup queued /\ released' = released
  BY <1>1, <1>3 DEF Seen, Unread, OnePlace
<1>4. ASSUME NEW back \in SUBSET inflight, queued' = queued \cup back, inflight' = inflight \ back, released' = released
      PROVE  /\ queued' \in SUBSET Segs /\ inflight' \in SUBSET Segs /\ released' \in SUBSET Segs
             /\ Seen' = Seen /\ Unread' \subseteq Unread /\ released \subseteq released' /\ OnePlace'
             /\ released' \subseteq released \cup snk.hand
  BY <1>1, <1>4 DEF Seen, Unread, OnePlace
<1>5. ASSUME NEW h \in SUBSET snk.hand, queued' = queued, inflight' = inflight \ h, released' = released \cup (h \cap inflight)
      PROVE  /\ queued' \in SUBSET Segs /\ inflight' \in SUBSET Segs /\ released' \in SUBSET Segs
             /\ Seen' = Seen /\ Unread' \subseteq Unread /\ released \subseteq released' /\ OnePlace'
             /\ released' \subseteq released \cup snk.hand
  BY <1>1, <1>5 DEF Seen, Unread, OnePlace
<1> QED BY <1>2, <1>3, <1>4, <1>5, Zenon DEF Shuffle

\* What the sink's process becomes when it ends.
LEMMA SinkEndedIs ==
  ASSUME Types
  PROVE  /\ SinkEnded \in SnkPods /\ SinkEnded.todo = {} /\ SinkEnded.hand = {} /\ SinkEnded.out = {}
         /\ SinkEnded.pc = "off" /\ SinkEnded.done = snk.done
<1>1. snk.reg \in Regs /\ snk.done \in BOOLEAN
  BY DEF Types, SnkPods
<1> QED BY <1>1, NewTypes DEF SinkEnded, SnkPods, NewSink, Regs

\* Which pod the sink has after a step, with what in hand.
LEMMA SinkPod ==
  ASSUME TInv, SinkMove
  PROVE  snk' \in SnkPods /\ snk'.todo \cup snk'.hand \subseteq Seen
<1>1. /\ snk \in SnkPods /\ snk.todo \cup snk.hand \subseteq Seen /\ queued \subseteq Segs
      /\ snk.todo \subseteq Segs /\ snk.hand \subseteq Segs
  BY DEF TInv, Types, SnkPods
<1>2. CASE snk' = SinkEnded
  BY <1>2, SinkEndedIs DEF TInv
<1>3. ASSUME NEW s \in snk.todo, Process(s) PROVE snk' \in SnkPods /\ snk'.todo \cup snk'.hand \subseteq Seen
  <2>1. s \in Segs /\ s \in Seen /\ s.recs \in SUBSET Outs
    BY <1>1 DEF Segs, Outs
  <2>2. snk' = [snk EXCEPT !.pc = "flush", !.todo = snk.todo \ {s}, !.hand = {s}, !.out = s.recs]
    BY <1>3 DEF Process
  <2> QED BY <1>1, <2>1, <2>2 DEF SnkPods
<1>4. CASE Consume
  <2>1. {Summary} \subseteq Outs /\ queued \subseteq Seen
    BY DEF Outs, Seen
  <2>2. \/ snk' = [snk EXCEPT !.todo = queued]
        \/ snk' = [snk EXCEPT !.pc = "flush", !.out = {Summary}]
    BY <1>4 DEF Consume
  <2>3. CASE snk' = [snk EXCEPT !.todo = queued]
    BY <1>1, <2>1, <2>3 DEF SnkPods
  <2>4. CASE snk' = [snk EXCEPT !.pc = "flush", !.out = {Summary}]
    BY <1>1, <2>1, <2>4 DEF SnkPods
  <2> QED BY <2>2, <2>3, <2>4
<1>5. CASE FlushSink /\ snk' # SinkEnded
  <2>1. snk' = [snk EXCEPT !.out = {}, !.pc = IF snk.hand = {} THEN "report" ELSE "ack"]
    BY <1>5 DEF FlushSink
  <2> QED BY <1>1, <2>1 DEF SnkPods
<1>6. CASE (RegisterSink \/ HeartbeatSink \/ ExpireSink \/ Ack \/ ReportSink) /\ snk' # SinkEnded
  <2>1. \/ snk' = [snk EXCEPT !.pc = "loop", !.reg = "current", !.done = FALSE]
        \/ snk' = [snk EXCEPT !.reg = "current"]
        \/ snk' = [snk EXCEPT !.reg = "none", !.done = FALSE]
        \/ snk' = [snk EXCEPT !.pc = "loop", !.hand = {}]
        \/ snk' = [snk EXCEPT !.pc = "idle", !.done = TRUE]
    BY <1>6, Zenon DEF RegisterSink, HeartbeatSink, ExpireSink, Ack, ReportSink
  <2> QED BY <1>1, <2>1 DEF SnkPods, Regs
<1>7. ASSUME NEW s \in snk.todo, FetchFails(s) PROVE snk' = SinkEnded
  BY <1>7 DEF FetchFails
<1>8. CrashSink \/ ScaleDownSink => snk' = SinkEnded
  BY DEF CrashSink, ScaleDownSink
<1> QED BY <1>2, <1>3, <1>4, <1>5, <1>6, <1>7, <1>8, Zenon DEF SinkMove

LEMMA SinkT == ASSUME TInv, SinkMove PROVE TInv'
<1>1. /\ sinkUnchanged /\ FaultsOk /\ Shuffle /\ completed' \subseteq completed
      /\ (ext' = ext \/ (snk.pc = "flush" /\ ext' = ext \cup snk.out))
  BY SinkMoveIs
<1>2. /\ queued' \in SUBSET Segs /\ inflight' \in SUBSET Segs /\ released' \in SUBSET Segs
      /\ Seen' = Seen /\ OnePlace'
  BY <1>1, ShuffleIs DEF sinkUnchanged
<1>3. snk' \in SnkPods /\ snk'.todo \cup snk'.hand \subseteq Seen
  BY SinkPod
<1>4. faults' \in 0 .. MaxFaults
  BY <1>1, FaultsStep DEF TInv
<1>5. ext' \in SUBSET Outs /\ completed' \in SUBSET Ops
  BY <1>1 DEF TInv, Types, SnkPods
<1>6. Types'
  BY <1>1, <1>2, <1>3, <1>4, <1>5 DEF TInv, Types, sinkUnchanged, ctlVars
<1> QED BY <1>2, <1>3, <1>6 DEF TInv

CtlMove == ReadReport \/ (\E o \in Ops : ReconcileOperation(o)) \/ ReconcileCollective \/ Conclude \/ ReconcileFails

LEMMA CtlMoveIs == ASSUME CtlMove PROVE ctlUnchanged /\ FaultsOk
  BY Zenon DEF CtlMove, ReadReport, ReconcileOperation, ReconcileCollective, Conclude, ReconcileFails, FaultsOk

LEMMA CtlT == ASSUME TInv, CtlMove PROVE TInv'
<1> DEFINE Statuses == {"Waiting", "Running", "Succeeded", "Failed"}
<1>1. ctlUnchanged /\ faults' \in 0 .. MaxFaults
  BY CtlMoveIs, FaultsStep DEF TInv
<1>2. /\ at \in Ops \cup {"idle", "status"} /\ view \in Views /\ completed \in SUBSET Ops
      /\ spec \in [Ops -> {0, 1}] /\ status \in [Ops -> Statuses] /\ phase \in Terminal \cup {"Pending", "Running"}
      /\ job \in Jobs /\ sealed \in BOOLEAN /\ extSealed \in BOOLEAN /\ maxAttempts \in {0, 2}
  BY DEF TInv, Types
<1>3. Latched \in SUBSET Ops /\ "source" \in Ops /\ "sink" \in Ops /\ "Failed" \in Terminal
  BY DEF Latched, Ops, Terminal
<1>4. /\ at' \in Ops \cup {"idle", "status"} /\ view' \in Views /\ completed' \in SUBSET Ops
      /\ spec' \in [Ops -> {0, 1}] /\ status' \in [Ops -> Statuses] /\ phase' \in Terminal \cup {"Pending", "Running"}
      /\ job' \in Jobs /\ sealed' \in BOOLEAN /\ extSealed' \in BOOLEAN
  <2>1. CASE ReadReport
    <3>1. view' \in Views
      <4>1. view' = [lost |-> lost # {}, sealed |-> sealed, extSealed |-> extSealed,
                     complete |-> Latched, holds |-> HoldsUnconsumed]
        BY <2>1 DEF ReadReport
      <4>2. HoldsUnconsumed \in BOOLEAN
        BY DEF HoldsUnconsumed
      <4> QED BY <1>2, <1>3, <4>1, <4>2 DEF Views
    <3> QED BY <1>2, <1>3, <2>1, <3>1 DEF ReadReport
  <2>2. ASSUME NEW o \in Ops, ReconcileOperation(o)
        PROVE /\ at' \in Ops \cup {"idle", "status"} /\ view' \in Views /\ completed' \in SUBSET Ops
              /\ spec' \in [Ops -> {0, 1}] /\ status' \in [Ops -> Statuses] /\ phase' \in Terminal \cup {"Pending", "Running"}
              /\ job' \in Jobs /\ sealed' \in BOOLEAN /\ extSealed' \in BOOLEAN
    <3>1. UNCHANGED <<completed, view, phase, job>> /\ at' = NextAt(o)
      BY <2>2 DEF ReconcileOperation
    <3>2. spec' \in [Ops -> {0, 1}]
      BY <1>2, <2>2 DEF ReconcileOperation, Want
    <3>3. status' \in [Ops -> Statuses]
      BY <1>2, <2>2 DEF ReconcileOperation
    <3>4. sealed' \in BOOLEAN /\ extSealed' \in BOOLEAN
      BY <1>2, <2>2, Zenon DEF ReconcileOperation
    <3>5. at' \in Ops \cup {"idle", "status"}
      BY <1>3, <3>1 DEF NextAt
    <3> QED BY <1>2, <3>1, <3>2, <3>3, <3>4, <3>5
  <2>3. CASE ReconcileCollective
    <3>1. UNCHANGED <<extSealed, completed, view, spec, phase>> /\ at' = NextAt("source")
      BY <2>3 DEF ReconcileCollective
    <3>2. job' \in Jobs
      BY <1>2, <2>3 DEF ReconcileCollective, Jobs
    <3>3. status' \in [Ops -> Statuses]
      BY <1>2, <2>3 DEF ReconcileCollective
    <3>4. sealed' \in BOOLEAN
      BY <1>2, <2>3, Zenon DEF ReconcileCollective
    <3>5. at' \in Ops \cup {"idle", "status"}
      BY <1>3, <3>1 DEF NextAt
    <3> QED BY <1>2, <3>1, <3>2, <3>3, <3>4, <3>5
  <2>4. CASE Conclude
    BY <1>2, <1>3, <2>4, NewTypes DEF Conclude, Terminal
  <2>5. CASE ReconcileFails
    BY <1>2, <1>3, <2>5, NewTypes DEF ReconcileFails
  <2> QED BY <2>1, <2>2, <2>3, <2>4, <2>5 DEF CtlMove
<1>5. Types'
  BY <1>1, <1>4 DEF TInv, Types, ctlUnchanged, workVars
<1> QED BY <1>1, <1>5 DEF TInv, OnePlace, Seen, ctlUnchanged, workVars

SrcMove(p) == OwnStep(p) \/ PublishSource(p) \/ ExpireSource(p) \/ JobEnds(p)

LEMMA SrcT == ASSUME TInv, NEW p \in Pods, SrcMove(p) PROVE TInv'
<1>1. Types
  BY DEF TInv
<1>2. CASE OwnStep(p)
  <2>1. /\ sourceUnchanged /\ UNCHANGED <<queued, inflight, released, lost>> /\ FaultsOk
        /\ ckpt' \in SUBSET Segs /\ completed' \in SUBSET Ops /\ src' \in [Pods -> SrcPods]
    BY <1>1, <1>2, OwnStepIs
  <2>2. faults' \in 0 .. MaxFaults
    BY <1>1, <2>1, FaultsStep
  <2>3. Types'
    BY <1>1, <2>1, <2>2 DEF Types, sourceUnchanged, ctlVars
  <2> QED BY <2>1, <2>3 DEF TInv, OnePlace, Seen, sourceUnchanged
<1>3. CASE PublishSource(p)
  <2>1. /\ sourceUnchanged /\ UNCHANGED <<ckpt, inflight, released, lost, completed, faults>>
        /\ queued' = (IF Accepted(p) THEN queued \cup New(p) ELSE queued) /\ New(p) \subseteq Segs
        /\ src' \in [Pods -> SrcPods]
    BY <1>1, <1>3, PublishEffect
  <2>2. Types'
    BY <1>1, <2>1 DEF Types, sourceUnchanged, ctlVars
  <2>3. OnePlace'
    BY <2>1 DEF TInv, OnePlace, New, Seen
  <2>4. Seen \subseteq Seen'
    BY <2>1 DEF Seen
  <2> QED BY <2>1, <2>2, <2>3, <2>4 DEF TInv, sourceUnchanged
<1>4. CASE ExpireSource(p)
  <2>1. /\ UNCHANGED <<materialized, maxAttempts, snk, ckpt, released, sealed, ext, extSealed, completed, ctlVars>>
        /\ lost' = lost \cup Loses(p) /\ queued' = queued \ Loses(p) /\ inflight' = inflight \ Loses(p)
        /\ Loses(p) \subseteq Unread /\ FaultsOk
        /\ src' \in [Pods -> SrcPods]
    BY <1>1, <1>4, ExpireEffect
  <2>2. faults' \in 0 .. MaxFaults
    BY <1>1, <2>1, FaultsStep
  <2>3. lost' \in SUBSET Segs /\ queued' \in SUBSET Segs /\ inflight' \in SUBSET Segs
    BY <1>1, <2>1 DEF Types, Unread
  <2>4. Types'
    BY <1>1, <2>1, <2>2, <2>3 DEF Types, ctlVars
  <2>5. OnePlace' /\ Seen \subseteq Seen'
    <3> HIDE DEF Loses
    <3> QED BY <2>1 DEF TInv, OnePlace, Seen, Unread
  <2> QED BY <2>1, <2>4, <2>5 DEF TInv
<1>5. CASE JobEnds(p)
  <2>1. /\ UNCHANGED <<materialized, maxAttempts, snk, ckpt, coordVars, at, view, spec, status, phase, faults>>
        /\ job' \in Jobs /\ src' \in [Pods -> SrcPods]
    BY <1>1, <1>5, JobEffect
  <2>2. Types'
    BY <1>1, <2>1 DEF Types, coordVars
  <2> QED BY <2>1, <2>2 DEF TInv, OnePlace, Seen, coordVars
<1> QED BY <1>2, <1>3, <1>4, <1>5 DEF SrcMove

LEMMA StepIs == Next => (\E p \in Pods : SrcMove(p)) \/ SinkMove \/ CtlMove
  BY Zenon DEF Next, SrcMove, OwnStep, SinkMove, CtlMove, SourceStep, SinkStep, ControllerStep

LEMMA StepT == TInv /\ [Next]_vars => TInv'
<1> SUFFICES ASSUME TInv, [Next]_vars PROVE TInv'
  OBVIOUS
<1>1. CASE UNCHANGED vars
  <2>1. Types' /\ OnePlace'
    BY <1>1 DEF vars, workVars, coordVars, ctlVars, TInv, Types, OnePlace
  <2> QED BY <1>1, <2>1 DEF vars, workVars, coordVars, TInv, Seen
<1>2. CASE Next
  BY <1>2, StepIs, SrcT, SinkT, CtlT
<1> QED BY <1>1, <1>2

LEMMA DisjointUnion ==
  ASSUME NEW S, NEW T, IsFiniteSet(S), IsFiniteSet(T), S \cap T = {}
  PROVE  IsFiniteSet(S \cup T) /\ Cardinality(S \cup T) = Cardinality(S) + Cardinality(T)
<1>1. Cardinality(S) \in Nat /\ Cardinality(T) \in Nat /\ Cardinality(S \cap T) = 0
  BY FS_CardinalityType, FS_EmptySet
<1>2. /\ IsFiniteSet(S \cup T)
      /\ Cardinality(S \cup T) = Cardinality(S) + Cardinality(T) - Cardinality(S \cap T)
  BY FS_Union, Zenon
<1> QED BY <1>1, <1>2

LEMMA OneCount == TInv => Cardinality(Seen) =
    Cardinality(queued) + Cardinality(inflight) + Cardinality(released) + Cardinality(lost)
<1> SUFFICES ASSUME TInv PROVE Cardinality(Seen) =
               Cardinality(queued) + Cardinality(inflight) + Cardinality(released) + Cardinality(lost)
  OBVIOUS
<1> DEFINE A == queued \cup inflight
           B == A \cup released
<1>1. /\ queued \in SUBSET Segs /\ inflight \in SUBSET Segs /\ released \in SUBSET Segs /\ lost \in SUBSET Segs
      /\ OnePlace
  BY DEF TInv, Types
<1>2. IsFiniteSet(queued) /\ IsFiniteSet(inflight) /\ IsFiniteSet(released) /\ IsFiniteSet(lost)
  BY <1>1, SegsFinite, FS_Subset
<1>3. /\ Cardinality(queued) \in Nat /\ Cardinality(inflight) \in Nat /\ Cardinality(released) \in Nat
      /\ Cardinality(lost) \in Nat
  BY <1>2, FS_CardinalityType
<1>4. IsFiniteSet(A) /\ Cardinality(A) = Cardinality(queued) + Cardinality(inflight)
  <2>1. queued \cap inflight = {}
    BY <1>1 DEF OnePlace
  <2> QED BY <1>2, <2>1, DisjointUnion, Zenon
<1>5. IsFiniteSet(B) /\ Cardinality(B) = Cardinality(A) + Cardinality(released)
  <2>1. A \cap released = {}
    BY <1>1 DEF OnePlace
  <2> HIDE DEF A
  <2> QED BY <1>2, <1>4, <2>1, DisjointUnion, Zenon
<1>6. Seen = B \cup lost /\ B \cap lost = {}
  BY <1>1 DEF OnePlace, Seen
<1>7. Cardinality(Seen) = Cardinality(B) + Cardinality(lost)
  <2> HIDE DEF B
  <2> QED BY <1>2, <1>5, <1>6, DisjointUnion
<1> HIDE DEF A, B
<1> QED BY <1>3, <1>4, <1>5, <1>7

\* Every variable has its type, and a segment is queued, handed out, released or lost, in one
\* of them only, however registrations, seals, expiries and passes of the controller interleave.
THEOREM TypeCorrect == Spec => []TypeOK
<1>1. TInv => TypeOK
  BY OneCount DEF TInv, Types, TypeOK, Outs, Jobs
<1> QED BY InitT, StepT, <1>1, PTL DEF Spec

-----------------------------------------------------------------------------
(* The lifetime of segments and blobs.                                     *)

LEMMA InitV == Init => VInv
<1> SUFFICES ASSUME Init PROVE VInv
  OBVIOUS
<1>1. Seen = {} /\ Unread = {} /\ ckpt = {}
  BY DEF Init, Seen, Unread
<1>2. ASSUME NEW p \in Pods PROVE src[p] = NewPod
  BY DEF Init
<1>3. ASSUME NEW p \in Pods PROVE WritesOf(p, NewPod) /\ HoldsOf(p, NewPod, {}, {})
  BY DEF WritesOf, HoldsOf, NewPod
<1>4. \A p \in Pods : WritesOf(p, src[p]) /\ HoldsOf(p, src[p], Seen, Unread)
  BY <1>1, <1>2, <1>3
<1> QED BY <1>1, <1>4 DEF VInv, Disjoint

\* A step of pod p that announces nothing keeps the invariant when p keeps its part.
LEMMA PodKeepsV ==
  ASSUME TInv, VInv, NEW p \in Pods, NEW r, Becomes(p, r), UNCHANGED <<maxAttempts, ckpt>>,
         Seen' = Seen, Unread' \subseteq Unread,
         ~Collective => WritesOf(p, r) /\ HoldsOf(p, r, Seen, Unread)
  PROVE  VInv'
<1> SUFFICES ASSUME ~Collective
             PROVE  /\ Disjoint(Seen)' /\ ckpt' = {}
                    /\ \A q \in Pods : WritesOf(q, src'[q]) /\ HoldsOf(q, src'[q], Seen', Unread')
  BY DEF VInv, Collective
<1>1. src'[p] = r /\ \A q \in Pods : q # p => src'[q] = src[q]
  BY BecomesIs DEF TInv
<1>2. ASSUME NEW q \in Pods PROVE WritesOf(q, src'[q]) /\ HoldsOf(q, src'[q], Seen, Unread)
  BY <1>1 DEF VInv
<1>3. ASSUME NEW q \in Pods PROVE HoldsOf(q, src'[q], Seen', Unread')
  BY <1>2 DEF HoldsOf
<1> QED BY <1>2, <1>3 DEF VInv, Disjoint

\* An emitted record goes to the buffer, or with it to a segment; its blob is written first.
EmitsTo(p, d, r, x, g) ==
  /\ x \in d.todo /\ d.pc = "emit" /\ g = [pod |-> p, run |-> d.run, recs |-> d.buffer \cup {x}]
  /\ r.pc = d.pc /\ r.run = d.run /\ r.todo = d.todo \ {x} /\ r.blobs = d.blobs \cup {<<d.run, x>>}
  /\ \/ r.buffer = d.buffer \cup {x} /\ r.segs = d.segs /\ r.unannounced = d.unannounced
     \/ r.buffer = {} /\ r.segs = d.segs \cup {g} /\ r.unannounced = d.unannounced \cup {g}

LEMMA EmitWrites ==
  ASSUME NEW p, NEW d \in SrcPods, NEW r \in SrcPods, NEW x, NEW g, WritesOf(p, d), EmitsTo(p, d, r, x, g)
  PROVE  WritesOf(p, r) /\ d.segs \subseteq r.segs /\ d.blobs \subseteq r.blobs
<1> USE DEF EmitsTo
<1>1. d.segs \subseteq r.segs /\ d.blobs \subseteq r.blobs
  OBVIOUS
<1>2. g.pod = p /\ g.run = d.run /\ g.recs = d.buffer \cup {x}
  OBVIOUS
<1>3. \A s \in d.unannounced :
        /\ s.pod = p /\ s.run = r.run /\ s \in r.segs /\ BlobsOn(r, s) /\ s.recs \cap r.todo = {}
        /\ s.recs \cap (d.buffer \cup {x}) = {}
  BY <1>1 DEF WritesOf, BlobsOn
<1>4. \A y \in d.buffer \cup {x} : y \notin r.todo /\ <<r.run, y>> \in r.blobs
  BY <1>1 DEF WritesOf
<1>5. CASE r.buffer = d.buffer \cup {x} /\ r.segs = d.segs /\ r.unannounced = d.unannounced
  <2>1. \A s, t \in r.unannounced : s # t => s.recs \cap t.recs = {}
    BY <1>5 DEF WritesOf
  <2> QED BY <1>1, <1>3, <1>4, <1>5, <2>1 DEF WritesOf
<1>6. CASE r.buffer = {} /\ r.segs = d.segs \cup {g} /\ r.unannounced = d.unannounced \cup {g}
  <2>1. BlobsOn(r, g) /\ g.recs \cap r.todo = {}
    BY <1>2, <1>4 DEF BlobsOn
  <2>2. ASSUME NEW s \in r.unannounced, NEW t \in r.unannounced, s # t PROVE s.recs \cap t.recs = {}
    <3>1. CASE s \in d.unannounced /\ t \in d.unannounced
      BY <2>2, <3>1 DEF WritesOf
    <3>2. CASE s = g
      BY <1>2, <1>3, <1>6, <2>2, <3>2
    <3>3. CASE t = g
      BY <1>2, <1>3, <1>6, <2>2, <3>3
    <3> QED BY <1>6, <3>1, <3>2, <3>3
  <2>3. \A s \in r.unannounced :
          s.pod = p /\ s.run = r.run /\ s \in r.segs /\ BlobsOn(r, s) /\ s.recs \cap r.todo = {}
    BY <1>2, <1>3, <1>6, <2>1
  <2> HIDE DEF BlobsOn
  <2> QED BY <1>1, <1>6, <2>2, <2>3 DEF WritesOf
<1> QED BY <1>5, <1>6

LEMMA MaterializeWrites ==
  ASSUME NEW p \in Pods, NEW d \in SrcPods, NEW r \in SrcPods, NEW rest,
         WritesOf(p, d), d.pc = "emit", d.todo = {},
         rest = IF d.buffer = {} THEN {} ELSE {[pod |-> p, run |-> d.run, recs |-> d.buffer]},
         r.pc = "publish", r.run = d.run, r.todo = d.todo, r.blobs = d.blobs, r.buffer = {},
         r.segs = d.segs \cup rest, r.unannounced = d.unannounced \cup rest
  PROVE  WritesOf(p, r)
<1> DEFINE g == [pod |-> p, run |-> d.run, recs |-> d.buffer]
<1>1. g.pod = p /\ g.run = d.run /\ g.recs = d.buffer /\ rest \subseteq {g}
  OBVIOUS
<1>2. \A s \in d.unannounced :
        /\ s.pod = p /\ s.run = r.run /\ s \in r.segs /\ BlobsOn(r, s) /\ s.recs \cap d.buffer = {}
  BY DEF WritesOf, BlobsOn
<1>3. BlobsOn(r, g)
  BY <1>1 DEF WritesOf, BlobsOn
<1> HIDE DEF g
<1>4. ASSUME NEW s \in r.unannounced, NEW t \in r.unannounced, s # t PROVE s.recs \cap t.recs = {}
  <2>1. CASE s \in d.unannounced /\ t \in d.unannounced
    BY <1>4, <2>1 DEF WritesOf
  <2>2. CASE s = g
    BY <1>1, <1>2, <1>4, <2>2
  <2>3. CASE t = g
    BY <1>1, <1>2, <1>4, <2>3
  <2> QED BY <1>1, <2>1, <2>2, <2>3
<1>5. \A s \in r.unannounced : s.pod = p /\ s.run = r.run /\ s \in r.segs /\ BlobsOn(r, s)
  BY <1>1, <1>2, <1>3
<1> HIDE DEF BlobsOn
<1> QED BY <1>4, <1>5 DEF WritesOf

\* What a process lets go is of no use to anybody: a blob it deletes belongs to a record of a
\* released segment of its own run, and no other segment of that run has the record.
LEMMA ReleaseHolds ==
  ASSUME TInv, NEW p \in Pods, NEW r \in SrcPods, ~Collective,
         Disjoint(Seen), WritesOf(p, src[p]), HoldsOf(p, src[p], Seen, Unread),
         r.segs = src[p].segs \ Let(p), r.blobs = src[p].blobs \ DeletedBlobs(p, Let(p)),
         r.pc = src[p].pc, r.buffer = src[p].buffer, r.unannounced = src[p].unannounced,
         r.run = src[p].run, r.todo = src[p].todo
  PROVE  WritesOf(p, r) /\ HoldsOf(p, r, Seen, Unread)
<1> DEFINE d == src[p]
<1>1. Let(p) \subseteq released \cup lost /\ Let(p) \subseteq Seen /\ \A s \in Let(p) : s.pod = p
  BY DEF Let, Seen
<1>2. \A b \in DeletedBlobs(p, Let(p)) : b[1] = d.run /\ \E s \in Let(p) : s.run = d.run /\ b[2] \in s.recs
  BY DEF DeletedBlobs
<1>3. d.pc \in {"emit", "publish"} => DeletedBlobs(p, Let(p)) = {} /\ \A s \in Let(p) : s.run # d.run
  BY <1>1, <1>2 DEF HoldsOf
<1>4. WritesOf(p, r)
  <2>1. CASE d.pc \in {"emit", "publish"}
    <3>1. r.blobs = d.blobs
      BY <1>3, <2>1
    <3>2. \A s \in d.unannounced : s \in r.segs /\ BlobsOn(r, s)
      BY <1>3, <2>1, <3>1 DEF WritesOf, BlobsOn
    <3> HIDE DEF BlobsOn
    <3> QED BY <3>1, <3>2 DEF WritesOf
  <2>2. CASE d.pc \notin {"emit", "publish"}
    BY <2>2 DEF WritesOf
  <2> QED BY <2>1, <2>2
<1>5. HoldsOf(p, r, Seen, Unread)
  <2>1. ASSUME NEW s \in Unread, s.pod = p, d.pc # "gone" PROVE s \in r.segs /\ BlobsOn(r, s)
    <3>1. s \in d.segs /\ BlobsOn(d, s) /\ s \in Seen
      BY <2>1 DEF HoldsOf, Unread, Seen
    <3>2. s \notin Let(p)
      BY <1>1, <2>1 DEF TInv, OnePlace, Unread
    <3>3. ASSUME NEW y \in s.recs PROVE <<s.run, y>> \notin DeletedBlobs(p, Let(p))
      <4>1. SUFFICES ASSUME <<s.run, y>> \in DeletedBlobs(p, Let(p)) PROVE FALSE
        OBVIOUS
      <4>2. PICK t \in Let(p) : t.run = d.run /\ y \in t.recs /\ s.run = d.run
        BY <1>2, <4>1
      <4>3. t \in Seen /\ t.pod = p /\ t # s
        BY <1>1, <3>2
      <4> QED BY <2>1, <3>1, <3>3, <4>2, <4>3 DEF Disjoint
    <3> QED BY <3>1, <3>2, <3>3 DEF BlobsOn
  <2>2. \A s \in Seen : s.pod = p => s.run <= r.run /\ (r.pc \in {"emit", "publish"} => s.run # r.run)
    BY DEF HoldsOf
  <2> HIDE DEF BlobsOn
  <2> QED BY <2>1, <2>2 DEF HoldsOf
<1> QED BY <1>4, <1>5

LEMMA OwnV == ASSUME TInv, VInv, NEW p \in Pods, OwnStep(p) PROVE VInv'
<1> DEFINE d == src[p]
<1>1. /\ Types /\ d \in SrcPods /\ ckpt \in SUBSET Segs
      /\ ~Collective => Disjoint(Seen) /\ ckpt = {} /\ WritesOf(p, d) /\ HoldsOf(p, d, Seen, Unread)
  BY DEF TInv, Types, VInv
<1>2. maxAttempts' = maxAttempts /\ Seen' = Seen /\ Unread' = Unread
  BY <1>1, OwnStepIs DEF sourceUnchanged, Seen, Unread
<1>3. CASE Collective
  BY <1>2, <1>3 DEF VInv, Collective
<1>4. CASE ~Collective
  <2>1. Disjoint(Seen) /\ ckpt = {} /\ WritesOf(p, d) /\ HoldsOf(p, d, Seen, Unread)
    BY <1>1, <1>4
  <2>2. ckpt' = ckpt
    <3>1. d.pc # "commit"
      BY <2>1 DEF WritesOf
    <3> QED BY <3>1, Zenon DEF OwnStep, RegisterSource, Emit, Materialize, CommitSource, ReportSource, HeartbeatSource,
              ReleaseSegments, CrashSource, EvictSource, ScaleDownSource
  <2>3. ASSUME NEW r, Becomes(p, r), WritesOf(p, r), HoldsOf(p, r, Seen, Unread) PROVE VInv'
    BY <1>2, <2>2, <2>3, PodKeepsV
  <2>4. CASE RegisterSource(p)
    <3>1. PICK r : /\ Becomes(p, r) /\ r.run = Runs + 1 /\ r.pc = "emit" /\ r.unannounced = {}
                   /\ r.buffer = d.buffer /\ r.segs = d.segs /\ r.blobs = d.blobs
      BY <1>1, <2>1, <2>4, RegisterIs
    <3>2. d.pc \in {"off", "down"}
      BY <2>4, Zenon DEF RegisterSource, Starts
    <3>3. WritesOf(p, r)
      BY <2>1, <3>1, <3>2 DEF WritesOf
    <3>4. HoldsOf(p, r, Seen, Unread)
      <4>1. d.run <= Runs /\ Runs \in Nat /\ d.run \in Nat
        BY <1>1, RunsIs, Numbers DEF SrcPods
      <4>2. \A s \in Seen : s.run \in Nat
        BY Numbers DEF TInv, Types, Segs, Seen
      <4>3. \A s \in Seen : s.pod = p => s.run <= r.run /\ s.run # r.run
        BY <2>1, <3>1, <4>1, <4>2 DEF HoldsOf
      <4>4. \A s \in Unread : s.pod = p => s \in r.segs /\ BlobsOn(r, s)
        BY <2>1, <3>1, <3>2 DEF HoldsOf, BlobsOn
      <4> QED BY <4>3, <4>4 DEF HoldsOf
    <3> QED BY <2>3, <3>1, <3>3, <3>4
  <2>5. CASE Emit(p)
    <3> DEFINE x == Min(d.todo)
               g == Segment(p, d.buffer \cup {x})
    <3>1. x \in d.todo
      BY <1>1, <2>5, EmitIs
    <3>2. PICK r : /\ Becomes(p, r)
                   /\ r.pc = d.pc /\ r.run = d.run /\ r.todo = d.todo \ {x}
                   /\ r.blobs = BlobsWith(p, x)
                   /\ \/ r.buffer = d.buffer \cup {x} /\ r.segs = d.segs /\ r.unannounced = d.unannounced
                      \/ r.buffer = {} /\ r.segs = d.segs \cup {g} /\ r.unannounced = d.unannounced \cup {g}
      BY <1>1, <2>5, EmitIs
    <3> HIDE DEF x
    <3>3. r.blobs = d.blobs \cup {<<d.run, x>>} /\ d.pc = "emit"
      BY <1>4, <2>5, <3>2 DEF BlobsWith, Emit
    <3>4. g = [pod |-> p, run |-> d.run, recs |-> d.buffer \cup {x}] /\ r \in SrcPods
      BY <3>2 DEF Segment, Becomes
    <3> HIDE DEF g
    <3>5. WritesOf(p, r) /\ d.segs \subseteq r.segs /\ d.blobs \subseteq r.blobs
      <4>1. d \in SrcPods /\ WritesOf(p, d)
        BY <1>1, <2>1
      <4>2. EmitsTo(p, d, r, x, g)
        BY <3>1, <3>2, <3>3, <3>4 DEF EmitsTo
      <4> QED BY <3>4, <4>1, <4>2, EmitWrites
    <3>6. HoldsOf(p, r, Seen, Unread)
      BY <2>1, <3>2, <3>5 DEF HoldsOf, BlobsOn
    <3> QED BY <2>3, <3>2, <3>5, <3>6
  <2>6. CASE Materialize(p)
    <3>1. PICK r : /\ Becomes(p, r) /\ r.pc = "publish" /\ r.buffer = {}
                   /\ r.segs = d.segs \cup Rest(p) /\ r.unannounced = d.unannounced \cup Rest(p)
                   /\ r.run = d.run /\ r.todo = d.todo /\ r.blobs = d.blobs
      BY <1>1, <1>4, <2>6, MaterializeIs
    <3>2. Rest(p) = (IF d.buffer = {} THEN {} ELSE {[pod |-> p, run |-> d.run, recs |-> d.buffer]})
          /\ d.pc = "emit" /\ d.todo = {} /\ r \in SrcPods
      BY <2>6, <3>1 DEF Rest, Segment, Materialize, Becomes
    <3>3. WritesOf(p, r)
      BY <1>1, <2>1, <3>1, <3>2, MaterializeWrites
    <3>4. HoldsOf(p, r, Seen, Unread)
      BY <2>1, <3>1, <3>2 DEF HoldsOf, BlobsOn
    <3> QED BY <2>3, <3>1, <3>3, <3>4
  <2>7. CASE CommitSource(p)
    BY <2>1, <2>7 DEF CommitSource, WritesOf
  <2>8. CASE ReportSource(p) /\ Known(p)
    <3>1. PICK r : /\ Becomes(p, r) /\ r.pc = "idle"
                   /\ r.buffer = d.buffer /\ r.segs = d.segs
                   /\ r.unannounced = d.unannounced /\ r.run = d.run
                   /\ r.todo = d.todo /\ r.blobs = d.blobs
      BY <1>1, <1>4, <2>8, ReportIs
    <3>2. d.pc = "report"
      BY <2>8 DEF ReportSource
    <3>3. WritesOf(p, r)
      BY <2>1, <3>1, <3>2 DEF WritesOf, BlobsOn
    <3>4. HoldsOf(p, r, Seen, Unread)
      BY <2>1, <3>1, <3>2 DEF HoldsOf, BlobsOn
    <3> QED BY <2>3, <3>1, <3>3, <3>4
  <2>9. CASE HeartbeatSource(p)
    <3>1. PICK r : /\ Becomes(p, r)
                   /\ r.pc = d.pc /\ r.buffer = d.buffer /\ r.segs = d.segs
                   /\ r.unannounced = d.unannounced /\ r.run = d.run
                   /\ r.todo = d.todo /\ r.blobs = d.blobs
      BY <1>1, <2>9, SignalIs
    <3>2. WritesOf(p, r)
      BY <2>1, <3>1 DEF WritesOf, BlobsOn
    <3>3. HoldsOf(p, r, Seen, Unread)
      BY <2>1, <3>1 DEF HoldsOf, BlobsOn
    <3> QED BY <2>3, <3>1, <3>2, <3>3
  <2>10. CASE ReleaseSegments(p)
    <3>1. PICK r : /\ Becomes(p, r)
                   /\ r.segs = d.segs \ Let(p) /\ r.blobs = d.blobs \ DeletedBlobs(p, Let(p))
                   /\ r.pc = d.pc /\ r.buffer = d.buffer
                   /\ r.unannounced = d.unannounced /\ r.run = d.run /\ r.todo = d.todo
      BY <1>1, <2>10, ReleaseIs
    <3>2. r \in SrcPods
      BY <3>1 DEF Becomes
    <3>3. WritesOf(p, r) /\ HoldsOf(p, r, Seen, Unread)
      BY <1>4, <2>1, <3>1, <3>2, ReleaseHolds
    <3> QED BY <2>3, <3>1, <3>3
  <2>11. CASE CrashSource(p) \/ (ReportSource(p) /\ ~Known(p))
    <3>1. PICK r \in SrcPods :
             /\ Ended(p) = [src EXCEPT ![p] = r] /\ r.pc = "down"
             /\ r.todo = {} /\ r.unannounced = {} /\ r.buffer = {}
             /\ r.run = d.run /\ r.segs = d.segs /\ r.blobs = d.blobs
      BY <1>1, <1>4, EndedIs
    <3>2. Becomes(p, r) /\ d.pc # "gone"
      BY <2>11, <3>1 DEF Becomes, CrashSource, ReportSource, Alive
    <3>3. WritesOf(p, r)
      BY <3>1 DEF WritesOf
    <3>4. HoldsOf(p, r, Seen, Unread)
      BY <2>1, <3>1, <3>2 DEF HoldsOf, BlobsOn
    <3> QED BY <2>3, <3>2, <3>3, <3>4
  <2>12. CASE EvictSource(p) \/ ScaleDownSource(p)
    <3>1. PICK r \in SrcPods :
             /\ Removed(p) = [src EXCEPT ![p] = r] /\ r.pc = "gone"
             /\ r.todo = {} /\ r.unannounced = {} /\ r.buffer = {} /\ r.run = d.run
      BY <1>1, RemovedIs
    <3>2. Becomes(p, r)
      BY <2>12, <3>1 DEF Becomes, EvictSource, ScaleDownSource
    <3>3. WritesOf(p, r)
      BY <3>1 DEF WritesOf
    <3>4. HoldsOf(p, r, Seen, Unread)
      BY <2>1, <3>1 DEF HoldsOf
    <3> QED BY <2>3, <3>2, <3>3, <3>4
  <2> QED BY <2>4, <2>5, <2>6, <2>7, <2>8, <2>9, <2>10, <2>11, <2>12, Zenon DEF OwnStep
<1> QED BY <1>3, <1>4

LEMMA PublishV == ASSUME TInv, VInv, NEW p \in Pods, PublishSource(p) PROVE VInv'
<1> DEFINE d == src[p]
<1>1. Types
  BY DEF TInv
<1>2. /\ UNCHANGED <<maxAttempts, ckpt, inflight, released, lost>>
      /\ queued' = (IF Accepted(p) THEN queued \cup New(p) ELSE queued)
  BY <1>1, PublishEffect DEF sourceUnchanged
<1>3. Seen \subseteq Seen' /\ Unread \subseteq Unread' /\ Seen' \subseteq Seen \cup New(p) /\ Unread' \subseteq Unread \cup New(p)
  BY <1>2 DEF Seen, Unread
<1> SUFFICES ASSUME ~Collective
             PROVE  /\ Disjoint(Seen') /\ ckpt' = {}
                    /\ \A q \in Pods : WritesOf(q, src'[q]) /\ HoldsOf(q, src'[q], Seen', Unread')
  BY <1>2 DEF VInv, Collective
<1>4. /\ Disjoint(Seen) /\ ckpt = {} /\ WritesOf(p, d) /\ HoldsOf(p, d, Seen, Unread)
      /\ \A q \in Pods : WritesOf(q, src[q]) /\ HoldsOf(q, src[q], Seen, Unread)
  BY DEF VInv
<1>5. d.pc = "publish"
  BY <1>4 DEF PublishSource, WritesOf
<1>6. PICK r : /\ Becomes(p, r) /\ r.pc = "report" /\ r.buffer = d.buffer /\ r.segs = d.segs
               /\ r.unannounced = {} /\ r.run = d.run /\ r.todo = d.todo /\ r.blobs = d.blobs
  BY <1>1, <1>5, PublishIs
<1>7. src'[p] = r /\ \A q \in Pods : q # p => src'[q] = src[q]
  BY <1>1, <1>6, BecomesIs
<1>8. \A s \in New(p) : s \in d.unannounced /\ s.pod = p /\ s.run = d.run /\ s \in d.segs /\ BlobsOn(d, s)
  BY <1>4 DEF New, WritesOf
<1>9. Disjoint(Seen')
  <2>1. ASSUME NEW s \in Seen', NEW t \in Seen', s.pod = t.pod, s.run = t.run, s # t PROVE s.recs \cap t.recs = {}
    <3>1. CASE s \in Seen /\ t \in Seen
      BY <1>4, <2>1, <3>1 DEF Disjoint
    <3>2. CASE s \in New(p) /\ t \in New(p)
      BY <1>4, <1>8, <2>1, <3>2 DEF WritesOf
    <3>3. CASE (s \in New(p) /\ t \in Seen) \/ (s \in Seen /\ t \in New(p))
      BY <1>4, <1>5, <1>8, <2>1, <3>3 DEF HoldsOf
    <3> QED BY <1>3, <3>1, <3>2, <3>3
  <2> QED BY <2>1 DEF Disjoint
<1>10. WritesOf(p, r)
  BY <1>4, <1>5, <1>6 DEF WritesOf
<1>11. HoldsOf(p, r, Seen', Unread')
  <2>1. d.run \in Nat
    BY <1>1, Numbers DEF Types, SrcPods
  <2>2. \A s \in Seen' : s.pod = p => s.run <= r.run
    BY <1>3, <1>4, <1>6, <1>8, <2>1 DEF HoldsOf
  <2>3. \A s \in Unread' : s.pod = p => s \in r.segs /\ BlobsOn(r, s)
    BY <1>3, <1>4, <1>5, <1>6, <1>8 DEF HoldsOf, BlobsOn
  <2> QED BY <1>6, <2>2, <2>3 DEF HoldsOf
<1>12. ASSUME NEW q \in Pods, q # p PROVE WritesOf(q, src'[q]) /\ HoldsOf(q, src'[q], Seen', Unread')
  <2>1. \A s \in New(p) : s.pod # q
    BY <1>8, <1>12
  <2>2. src'[q] = src[q] /\ WritesOf(q, src[q])
    BY <1>4, <1>7, <1>12
  <2>3. HoldsOf(q, src[q], Seen', Unread')
    BY <1>3, <1>4, <2>1 DEF HoldsOf
  <2> QED BY <2>2, <2>3
<1> QED BY <1>2, <1>4, <1>7, <1>9, <1>10, <1>11, <1>12

LEMMA ExpireV == ASSUME TInv, VInv, NEW p \in Pods, ExpireSource(p) PROVE VInv'
<1> DEFINE d == src[p]
<1>1. Types
  BY DEF TInv
<1>2. /\ UNCHANGED <<maxAttempts, ckpt, released>>
      /\ lost' = lost \cup Loses(p) /\ queued' = queued \ Loses(p) /\ inflight' = inflight \ Loses(p)
      /\ Loses(p) \subseteq Unread
  BY <1>1, ExpireEffect
<1>3. Seen' = Seen /\ Unread' \subseteq Unread
  <2> HIDE DEF Loses
  <2> QED BY <1>2 DEF Seen, Unread
<1>4. PICK r : /\ Becomes(p, r)
               /\ r.pc = d.pc /\ r.buffer = d.buffer /\ r.segs = d.segs
               /\ r.unannounced = d.unannounced /\ r.run = d.run
               /\ r.todo = d.todo /\ r.blobs = d.blobs
  BY <1>1, SignalIs
<1>5. ~Collective => WritesOf(p, d) /\ HoldsOf(p, d, Seen, Unread)
  BY DEF VInv
<1>6. ~Collective => WritesOf(p, r) /\ HoldsOf(p, r, Seen, Unread)
  BY <1>4, <1>5 DEF WritesOf, HoldsOf, BlobsOn
<1> QED BY <1>2, <1>3, <1>4, <1>6, PodKeepsV

\* Whoever leaves the pods alone, and announces nothing, keeps the invariant.
LEMMA OthersV ==
  ASSUME VInv, UNCHANGED <<maxAttempts, ckpt, src>>, Seen' = Seen, Unread' \subseteq Unread PROVE VInv'
<1>1. ASSUME NEW p \in Pods, ~Collective PROVE WritesOf(p, src'[p]) /\ HoldsOf(p, src'[p], Seen', Unread')
  BY <1>1 DEF VInv, HoldsOf
<1> QED BY <1>1 DEF VInv, Collective, Disjoint

LEMMA StepV == TInv /\ VInv /\ [Next]_vars => VInv'
<1> SUFFICES ASSUME TInv, VInv, [Next]_vars PROVE VInv'
  OBVIOUS
<1>1. CASE UNCHANGED vars
  BY <1>1, OthersV DEF vars, workVars, coordVars, Seen, Unread
<1>2. CASE SinkMove
  BY <1>2, SinkMoveIs, ShuffleIs, OthersV DEF sinkUnchanged
<1>3. CASE CtlMove
  BY <1>3, CtlMoveIs, OthersV DEF ctlUnchanged, workVars, Seen, Unread
<1>4. ASSUME NEW p \in Pods, SrcMove(p) PROVE VInv'
  <2>1. CASE JobEnds(p)
    BY <2>1, JobEffect DEF VInv, JobEnds, Collective, TInv
  <2> QED BY <1>4, <2>1, OwnV, PublishV, ExpireV DEF SrcMove
<1> QED BY <1>1, <1>2, <1>3, <1>4, StepIs

\* The lifetime rule of blob.go: while its pod is there, a segment somebody has still to read is
\* on it, with all its blobs.  A process deletes a blob with a released segment of its own run;
\* that no other segment of the run has the record, and that what it has not announced yet is
\* of a run of which nothing has been seen, is what the invariant says.
THEOREM KeptWhileNeeded == Spec => []ReadableWhileNeeded
<1>1. TInv /\ VInv => ReadableWhileNeeded
  <2> SUFFICES ASSUME TInv, VInv, NEW s \in Unread, ~Collective, src[s.pod].pc # "gone" PROVE OnVolume(s)
    BY DEF ReadableWhileNeeded
  <2>1. s.pod \in Pods
    BY DEF TInv, Types, Unread, Segs
  <2> QED BY <2>1 DEF VInv, HoldsOf, BlobsOn, OnVolume
<1> QED BY InitT, StepT, InitV, StepV, <1>1, PTL DEF Spec

-----------------------------------------------------------------------------
(* A workload without faults loses nothing.                                *)

LEMMA InitZ == Init => ZInv
<1> SUFFICES ASSUME Init PROVE ZInv
  OBVIOUS
<1>1. \A p \in Pods : src[p].pc = "off" /\ Healthy(src[p])
  BY DEF Init, NewPod, Healthy
<1>2. ~Started /\ view.complete = {} /\ completed = {} /\ lost = {}
  BY <1>1 DEF Init, Started, NoReport
<1> QED BY <1>1, <1>2 DEF ZInv, Calm, TakenDown

\* A pod that is at work: the source is not complete, and nothing has been taken down.
LEMMA WorkingZ ==
  ASSUME Calm, NEW p \in Pods, src[p].pc \in {"emit", "publish", "report"}
  PROVE  /\ "source" \notin completed /\ "source" \notin view.complete /\ Started /\ spec["source"] # 0
         /\ src[p].reg = "current" /\ src[p].done # TRUE
<1>1. Started /\ "source" \notin completed
  BY DEF Calm, Started
<1>2. ~TakenDown /\ "source" \notin view.complete
  BY <1>1 DEF Calm, Finished
<1>3. src[p].reg = "current" /\ src[p].done # TRUE
  BY DEF Calm, Healthy
<1> QED BY <1>1, <1>2, <1>3 DEF TakenDown

\* A step of a pod at work.
LEMMA AtWorkZ ==
  ASSUME TInv, ZInv, NEW p \in Pods, NEW r, Becomes(p, r), src[p].pc \in {"emit", "publish", "report"},
         faults' = 0 /\ ~Collective => Healthy(r) /\ r.pc \notin {"off", "gone"},
         UNCHANGED <<maxAttempts, lost, completed, view, spec, at, faults>>
  PROVE  ZInv'
<1> SUFFICES ASSUME faults = 0, ~Collective PROVE Calm'
  BY DEF ZInv, Collective
<1>1. Calm
  BY DEF ZInv
<1>2. "source" \notin completed /\ "source" \notin view.complete /\ Started /\ spec["source"] # 0
  BY <1>1, WorkingZ
<1>3. src'[p] = r /\ \A q \in Pods : q # p => src'[q] = src[q]
  BY BecomesIs DEF TInv
<1>4. Healthy(r) /\ r.pc \notin {"off", "gone"}
  OBVIOUS
<1>5. \A q \in Pods : Healthy(src'[q]) /\ src'[q].pc # "gone"
  BY <1>1, <1>2, <1>3, <1>4 DEF Calm
<1> QED BY <1>1, <1>2, <1>5 DEF Calm, TakenDown

\* Pods that stay where they are.
LEMMA StaysZ ==
  ASSUME ZInv, \A q \in Pods : src'[q].pc = src[q].pc,
         faults = 0 /\ ~Collective => \A q \in Pods : Healthy(src'[q]),
         UNCHANGED <<maxAttempts, lost, view, spec, at>>, Unread' \subseteq Unread,
         faults' = 0 => faults = 0,
         completed' \subseteq completed, "source" \in completed => "source" \in completed'
  PROVE  ZInv'
<1> SUFFICES ASSUME faults = 0, ~Collective PROVE Calm'
  BY DEF ZInv, Collective
<1>1. Calm
  BY DEF ZInv
<1>2. Started' <=> Started
  BY DEF Started
<1>3. (TakenDown' <=> TakenDown) /\ (Finished => Finished')
  BY <1>2 DEF TakenDown, Finished
<1> QED BY <1>1, <1>2, <1>3 DEF Calm

LEMMA FaultsPositive == ASSUME Types, Fault PROVE faults' # 0
  BY Numbers DEF Types, Fault

LEMMA OwnZ == ASSUME TInv, VInv, ZInv, NEW p \in Pods, OwnStep(p) PROVE ZInv'
<1> DEFINE d == src[p]
<1>1. /\ Types /\ sourceUnchanged /\ UNCHANGED <<queued, inflight, released, lost>> /\ FaultsOk
      /\ completed' \subseteq completed
  BY OwnStepIs DEF TInv
<1>2. UNCHANGED <<maxAttempts, view, spec, at, lost>> /\ Unread' = Unread
  BY <1>1 DEF sourceUnchanged, ctlVars, Unread
<1>3. CASE Collective \/ Fault
  BY <1>1, <1>2, <1>3, FaultsPositive DEF ZInv, Collective
<1>4. CASE ~Collective /\ UNCHANGED faults /\ faults # 0
  BY <1>2, <1>4 DEF ZInv, Collective
<1>5. CASE ~Collective /\ UNCHANGED faults /\ faults = 0 /\ ~Fault
  <2>1. Calm /\ Healthy(d) /\ ckpt = {}
    BY <1>5 DEF ZInv, Calm, VInv
  <2>2. CASE RegisterSource(p)
    <3>1. PICK r : Becomes(p, r) /\ r.reg = "current" /\ r.done = FALSE /\ r.pc = "emit"
      BY <1>1, <2>1, <2>2, RegisterIs
    <3>2. src'[p] = r /\ \A q \in Pods : q # p => src'[q] = src[q]
      BY <1>1, <3>1, BecomesIs
    <3>3. d.pc = "off" /\ spec["source"] = 1 /\ \A q \in Pods : src[q].pc \in {"off", "gone"}
      <4>1. d.pc # "down"
        BY <2>1 DEF Healthy
      <4> QED BY <1>5, <2>2, <4>1, Zenon DEF RegisterSource, Starts
    <3>4. \A q \in Pods : src[q].pc = "off"
      BY <2>1, <3>3 DEF Calm
    <3>5. "source" \notin completed /\ "source" \notin view.complete
      BY <2>1, <3>4 DEF Calm, Started
    <3>6. completed' = completed
      BY <2>1, <2>2, <3>3 DEF RegisterSource, Healthy
    <3>7. Healthy(r)
      BY <3>1 DEF Healthy
    <3>8. \A q \in Pods : Healthy(src'[q]) /\ src'[q].pc # "gone"
      BY <2>1, <3>1, <3>2, <3>4, <3>7 DEF Calm
    <3>9. Calm'
      BY <1>2, <2>1, <3>3, <3>5, <3>6, <3>8 DEF Calm, TakenDown
    <3> QED BY <1>2, <1>5, <3>9 DEF ZInv, Collective
  <2>3. CASE Emit(p)
    <3>1. PICK r : Becomes(p, r) /\ r.pc = d.pc /\ r.reg = d.reg /\ r.done = d.done
      BY <1>1, <2>3, EmitIs
    <3>2. d.pc = "emit" /\ completed' = completed
      BY <2>3 DEF Emit
    <3>3. Healthy(r)
      BY <2>1, <3>1 DEF Healthy
    <3> QED BY <1>2, <1>5, <3>1, <3>2, <3>3, AtWorkZ
  <2>4. CASE Materialize(p)
    <3>1. PICK r : Becomes(p, r) /\ r.pc = "publish" /\ r.reg = d.reg /\ r.done = d.done
      BY <1>1, <1>5, <2>4, MaterializeIs
    <3>2. d.pc = "emit" /\ completed' = completed
      BY <2>4 DEF Materialize
    <3>3. Healthy(r)
      BY <2>1, <3>1, <3>2 DEF Healthy
    <3> QED BY <1>2, <1>5, <3>1, <3>2, <3>3, AtWorkZ
  <2>5. CASE CommitSource(p)
    BY <2>1, <2>5 DEF CommitSource, Healthy
  <2>6. CASE ReportSource(p)
    <3>1. d.pc = "report" /\ completed' = completed
      BY <2>6 DEF ReportSource
    <3>2. Known(p)
      BY <2>1, <3>1 DEF Healthy, Known
    <3>3. PICK r : Becomes(p, r) /\ r.pc = "idle" /\ r.reg = d.reg
      BY <1>1, <1>5, <2>6, <3>2, ReportIs
    <3>4. Healthy(r)
      BY <2>1, <3>1, <3>3 DEF Healthy
    <3> QED BY <1>2, <1>5, <3>1, <3>3, <3>4, AtWorkZ
  <2>7. CASE HeartbeatSource(p)
    BY <2>1, <2>7 DEF HeartbeatSource, Healthy
  <2>8. CASE ReleaseSegments(p)
    <3>1. PICK r : Becomes(p, r) /\ r.pc = d.pc /\ r.reg = d.reg /\ r.done = d.done
      BY <1>1, <2>8, ReleaseIs
    <3>2. src'[p] = r /\ \A q \in Pods : q # p => src'[q] = src[q]
      BY <1>1, <3>1, BecomesIs
    <3>3. Healthy(r) /\ completed' = completed
      BY <2>1, <2>8, <3>1 DEF Healthy, ReleaseSegments
    <3>4. \A q \in Pods : Healthy(src'[q]) /\ src'[q].pc = src[q].pc
      BY <2>1, <3>1, <3>2, <3>3 DEF Calm
    <3> QED BY <1>2, <1>5, <3>3, <3>4, StaysZ
  <2>9. CASE CrashSource(p) \/ EvictSource(p)
    BY <1>5, <2>9 DEF CrashSource, EvictSource
  <2>10. CASE ScaleDownSource(p)
    <3>1. PICK r \in SrcPods :
             /\ Removed(p) = [src EXCEPT ![p] = r] /\ r.pc = "gone"
      BY <1>1, RemovedIs
    <3>2. Becomes(p, r) /\ completed' = completed /\ spec["source"] = 0 /\ d.pc # "off"
      BY <2>10, <3>1 DEF Becomes, ScaleDownSource, Used
    <3>3. src'[p] = r /\ \A q \in Pods : q # p => src'[q] = src[q]
      BY <1>1, <3>2, BecomesIs
    <3>4. TakenDown /\ Finished /\ Started
      BY <2>1, <3>2 DEF TakenDown, Started, Calm
    <3>5. Healthy(r)
      BY <3>1 DEF Healthy
    <3>6. \A q \in Pods : Healthy(src'[q])
      BY <2>1, <3>3, <3>5 DEF Calm
    <3>7. Started' /\ \A q \in Pods : src'[q].pc \in {"off", "idle", "gone"}
      BY <2>1, <3>1, <3>3, <3>4 DEF Calm, Started, Finished
    <3>8. Finished'
      BY <1>2, <3>2, <3>4 DEF Finished
    <3>9. Calm'
      BY <1>2, <2>1, <3>2, <3>4, <3>6, <3>7, <3>8 DEF Calm, TakenDown
    <3> QED BY <1>2, <1>5, <3>9 DEF ZInv, Collective
  <2> QED BY <2>2, <2>3, <2>4, <2>5, <2>6, <2>7, <2>8, <2>9, <2>10, Zenon DEF OwnStep
<1> QED BY <1>1, <1>3, <1>4, <1>5 DEF FaultsOk

LEMMA PublishZ == ASSUME TInv, VInv, ZInv, NEW p \in Pods, PublishSource(p) PROVE ZInv'
<1> DEFINE d == src[p]
<1>1. Types /\ UNCHANGED <<maxAttempts, view, spec, at, lost, completed, faults>>
  BY PublishEffect DEF TInv, sourceUnchanged, ctlVars
<1>2. CASE ~(faults = 0 /\ ~Collective)
  BY <1>1, <1>2 DEF ZInv, Collective
<1>3. CASE faults = 0 /\ ~Collective
  <2>1. Calm /\ Healthy(d)
    BY <1>3 DEF ZInv, Calm
  <2>2. d.pc = "publish"
    BY <2>1 DEF PublishSource, Healthy
  <2>3. PICK r : Becomes(p, r) /\ r.pc = "report" /\ r.reg = d.reg /\ r.done = d.done
    BY <1>1, <2>2, PublishIs
  <2>4. Healthy(r)
    BY <2>1, <2>2, <2>3 DEF Healthy
  <2> QED BY <1>1, <2>2, <2>3, <2>4, AtWorkZ
<1> QED BY <1>2, <1>3

\* A pod expires, without a fault, only once everything has been read.
LEMMA ExpireZ == ASSUME TInv, ZInv, NEW p \in Pods, ExpireSource(p) PROVE ZInv'
<1> DEFINE d == src[p]
<1>1. /\ Types /\ UNCHANGED <<maxAttempts, view, spec, at, completed>>
      /\ lost' = lost \cup Loses(p) /\ queued' = queued \ Loses(p) /\ inflight' = inflight \ Loses(p)
      /\ Loses(p) \subseteq Unread /\ FaultsOk
  BY ExpireEffect DEF TInv, ctlVars
<1>2. Collective => lost' = lost
  BY <1>1 DEF Loses
<1>3. CASE Collective \/ Fault \/ faults # 0
  BY <1>1, <1>2, <1>3, FaultsPositive DEF ZInv, Collective, FaultsOk
<1>4. CASE ~Collective /\ ~Fault /\ faults = 0
  <2>1. Calm /\ faults' = faults
    BY <1>1, <1>4 DEF ZInv, FaultsOk
  <2>2. d.pc = "gone"
    BY <1>4 DEF ExpireSource
  <2>3. Unread = {}
    BY <2>1, <2>2 DEF Calm, TakenDown, Started, Finished
  <2>4. lost' = lost /\ Unread' = Unread
    <3> HIDE DEF Loses
    <3> QED BY <1>1, <2>3 DEF Unread
  <2>5. PICK r : Becomes(p, r) /\ r.pc = d.pc
    BY <1>1, SignalIs
  <2>6. src'[p] = r /\ \A q \in Pods : q # p => src'[q] = src[q]
    BY <1>1, <2>5, BecomesIs
  <2>7. Healthy(r)
    BY <2>2, <2>5 DEF Healthy
  <2>8. \A q \in Pods : Healthy(src'[q]) /\ src'[q].pc = src[q].pc
    BY <2>1, <2>5, <2>6, <2>7 DEF Calm
  <2> QED BY <1>1, <1>4, <2>1, <2>4, <2>8, StaysZ
<1> QED BY <1>3, <1>4

LEMMA SinkZ == ASSUME TInv, ZInv, SinkMove PROVE ZInv'
<1>1. /\ sinkUnchanged /\ FaultsOk /\ Shuffle /\ completed' \subseteq completed
      /\ ("source" \in completed => "source" \in completed')
  BY SinkMoveIs
<1>2. UNCHANGED <<src, maxAttempts, lost, view, spec, at>>
  BY <1>1 DEF sinkUnchanged, ctlVars
<1>3. Unread' \subseteq Unread
  BY <1>1, <1>2, ShuffleIs
<1>4. faults' = 0 => faults = 0
  BY <1>1, FaultsPositive DEF FaultsOk, TInv
<1>5. faults = 0 /\ ~Collective => \A q \in Pods : Healthy(src'[q])
  BY <1>2 DEF ZInv, Calm
<1> QED BY <1>1, <1>2, <1>3, <1>4, <1>5, StaysZ

\* The report that the source is complete: it has been started, and every pod of it is idle.
LEMMA LatchedZ ==
  ASSUME TInv, Calm
  PROVE  /\ "source" \in Latched => Started /\ \A p \in Pods : src[p].pc \in {"off", "idle", "gone"}
         /\ "source" \in completed => "source" \in Latched
<1>1. "source" \in Latched <=> CompleteNow("source") \/ "source" \in completed
  BY DEF Latched, Ops
<1>2. CompleteNow("source") => Started /\ \A p \in Pods : src[p].pc \in {"off", "idle", "gone"}
  <2> SUFFICES ASSUME CompleteNow("source") PROVE Started /\ \A p \in Pods : src[p].pc \in {"off", "idle", "gone"}
    OBVIOUS
  <2>1. (\E p \in Pods : src[p].reg # "none") /\ \A p \in Pods : src[p].reg # "none" => src[p].done
    BY Zenon DEF CompleteNow
  <2>2. Started
    BY <2>1 DEF Calm, Healthy, Started
  <2>3. ASSUME NEW p \in Pods PROVE src[p].pc \in {"off", "idle", "gone"}
    <3>1. Healthy(src[p])
      BY DEF Calm
    <3>2. CASE src[p].reg = "none"
      BY <3>1, <3>2 DEF Healthy
    <3>3. CASE src[p].reg # "none"
      BY <2>1, <3>1, <3>3, Zenon DEF Healthy
    <3> QED BY <3>2, <3>3
  <2> QED BY <2>2, <2>3
<1> QED BY <1>1, <1>2 DEF Calm

LEMMA CtlZ == ASSUME TInv, ZInv, CtlMove PROVE ZInv'
<1>1. /\ Types /\ FaultsOk /\ UNCHANGED <<src, maxAttempts, lost>> /\ Unread' = Unread
  BY CtlMoveIs DEF TInv, ctlUnchanged, workVars, Unread
<1>2. CASE Collective \/ Fault \/ faults # 0
  BY <1>1, <1>2, FaultsPositive DEF ZInv, Collective, FaultsOk
<1>3. CASE ~Collective /\ ~Fault /\ faults = 0
  <2>1. Calm
    BY <1>3 DEF ZInv
  <2>2. (\A p \in Pods : Healthy(src'[p])) /\ lost' = {} /\ (Started' <=> Started)
    BY <1>1, <2>1 DEF Calm, Started
  <2>3. SUFFICES Calm'
    BY <1>1, <1>3 DEF ZInv, Collective
  <2>4. CASE ReadReport
    <3>1. /\ completed' = Latched /\ view'.complete = Latched /\ view'.holds = HoldsUnconsumed /\ spec' = spec
      BY <2>4 DEF ReadReport
    <3>2. ~HoldsUnconsumed => Unread = {}
      BY <1>3 DEF HoldsUnconsumed
    <3>3. TakenDown' => TakenDown /\ Finished /\ "source" \in Latched /\ ~HoldsUnconsumed
      BY <2>1, <2>2, <3>1, LatchedZ DEF Calm, TakenDown, Finished, HoldsUnconsumed
    <3> QED BY <1>1, <2>1, <2>2, <3>1, <3>2, <3>3, LatchedZ DEF Calm, Finished
  <2>5. CASE ReconcileOperation("source")
    <3>1. UNCHANGED <<completed, view>> /\ at' = "sink"
      BY <2>5 DEF ReconcileOperation, NextAt
    <3>2. spec' = [spec EXCEPT !["source"] = Want("source")] /\ at = "source"
      BY <2>5 DEF ReconcileOperation, Gated
    <3>3. spec'["source"] = Want("source")
      BY <1>1, <3>2 DEF Types, Ops
    <3>4. Want("source") = 0 <=> "source" \in view.complete /\ ~view.holds
      BY <1>1 DEF Want, Types, Views
    <3>5. \A p \in Pods : src[p].pc = "gone" => spec'["source"] = 0
      BY <2>1, <3>2, <3>3, <3>4 DEF Calm, TakenDown, Started
    <3>6. TakenDown' => Finished'
      BY <1>1, <2>1, <3>1, <3>3, <3>4 DEF Calm, TakenDown, Finished
    <3> QED BY <1>1, <2>1, <2>2, <3>1, <3>5, <3>6 DEF Calm
  <2>6. CASE ReconcileOperation("sink")
    <3>1. UNCHANGED <<completed, view>> /\ at' = "status"
      BY <2>6 DEF ReconcileOperation, NextAt
    <3>2. spec' = spec \/ spec' = [spec EXCEPT !["sink"] = Want("sink")]
      BY <2>6, Zenon DEF ReconcileOperation
    <3>3. spec'["source"] = spec["source"]
      BY <1>1, <3>2 DEF Types, Ops
    <3>4. (TakenDown' => TakenDown) /\ (Finished => Finished')
      BY <1>1, <2>2, <3>1, <3>3 DEF TakenDown, Finished
    <3> QED BY <1>1, <2>1, <2>2, <3>1, <3>3, <3>4 DEF Calm
  <2>7. CASE ReconcileCollective
    BY <1>3, <2>7 DEF ReconcileCollective
  <2>8. CASE Conclude
    <3>1. completed' = Latched /\ view'.complete = {} /\ spec' = spec /\ at' = "idle"
      BY <2>8 DEF Conclude, NoReport
    <3>2. TakenDown' => TakenDown /\ Finished /\ "source" \in Latched
      BY <2>1, <2>2, <3>1, LatchedZ DEF Calm, TakenDown, Finished
    <3> QED BY <1>1, <2>1, <2>2, <3>1, <3>2, LatchedZ DEF Calm, Finished
  <2>9. CASE ReconcileFails
    BY <1>3, <2>9 DEF ReconcileFails
  <2> QED BY <2>4, <2>5, <2>6, <2>7, <2>8, <2>9 DEF CtlMove, Ops
<1> QED BY <1>2, <1>3

LEMMA StepZ == TInv /\ VInv /\ ZInv /\ [Next]_vars => ZInv'
<1> SUFFICES ASSUME TInv, VInv, ZInv, [Next]_vars PROVE ZInv'
  OBVIOUS
<1>1. CASE UNCHANGED vars
  <2>1. UNCHANGED <<src, maxAttempts, lost, view, spec, at, faults, completed>> /\ Unread' = Unread
    BY <1>1 DEF vars, workVars, coordVars, ctlVars, Unread
  <2>2. faults = 0 /\ ~Collective => \A q \in Pods : Healthy(src'[q])
    BY <2>1 DEF ZInv, Calm
  <2> QED BY <2>1, <2>2, StaysZ
<1>2. ASSUME NEW p \in Pods, SrcMove(p) PROVE ZInv'
  <2>1. CASE JobEnds(p)
    <3>1. Collective /\ UNCHANGED <<maxAttempts, lost>>
      BY <2>1 DEF JobEnds, coordVars
    <3> QED BY <3>1 DEF ZInv, Collective
  <2> QED BY <1>2, <2>1, OwnZ, PublishZ, ExpireZ DEF SrcMove
<1> QED BY <1>1, <1>2, SinkZ, CtlZ, StepIs

\* The controller takes no pod away that holds what a consumer needs: while no process has
\* crashed, lapsed or been evicted and no pass has failed, no record is lost, although it scales
\* the source down from a report that was read while segments were still being announced and
\* handed out.  A report that the source is complete and holds nothing stays true.
THEOREM NothingLostByItself == Spec => []NoSelfInflictedLoss
<1>1. TInv /\ ZInv => NoSelfInflictedLoss
  BY Numbers DEF TInv, Types, ZInv, Calm, NoSelfInflictedLoss
<1> QED BY InitT, StepT, InitV, StepV, InitZ, StepZ, <1>1, PTL DEF Spec

-----------------------------------------------------------------------------
(* What Succeeded means.                                                   *)

LEMMA CoversMore ==
  ASSUME NEW S, NEW T, NEW B, NEW C, S \subseteq T, B \subseteq C, Covers(S, B) PROVE Covers(T, C)
  BY DEF Covers

LEMMA InitD == Init => DInv
<1> SUFFICES ASSUME Init PROVE DInv
  OBVIOUS
<1>1. ASSUME NEW p \in Pods PROVE Cuts(src[p]) /\ ~Announced(src[p])
  BY DEF Init, NewPod, Cuts, Announced
<1>2. SourceInv
  BY <1>1 DEF SourceInv, Init, NoReport
<1>3. SinkInv
  BY DEF SinkInv, Init, NewSink
<1>4. VerdictInv
  BY DEF VerdictInv, Init, NoReport, NoStatus, Ops
<1> QED BY <1>2, <1>3, <1>4 DEF DInv

\* A step of pod p that keeps its own part.
LEMMA PodKeepsD ==
  ASSUME TInv, DInv, NEW p \in Pods, NEW r, Becomes(p, r), Cuts(r), Announced(r) => Covered',
         Seen \subseteq Seen', lost \subseteq lost', completed' \subseteq completed,
         ckpt' = ckpt \/ Covers(ckpt', {}), job'.state = "complete" => Covered',
         UNCHANGED <<view, sealed, released, ext, snk, status, phase>>
  PROVE  DInv'
<1>1. src'[p] = r /\ \A q \in Pods : q # p => src'[q] = src[q]
  BY BecomesIs DEF TInv
<1>2. Covered => Covered'
  BY CoversMore DEF Covered
<1>3. ASSUME NEW q \in Pods PROVE Cuts(src'[q]) /\ (Announced(src'[q]) => Covered')
  <2>1. CASE q = p
    BY <1>1, <2>1
  <2>2. CASE q # p
    <3>1. src'[q] = src[q] /\ Cuts(src[q]) /\ (Announced(src[q]) => Covered)
      BY <1>1, <2>2 DEF DInv, SourceInv
    <3> QED BY <1>2, <3>1
  <2> QED BY <2>1, <2>2
<1>4. SourceInv'
  BY <1>2, <1>3 DEF DInv, SourceInv
<1>5. SinkInv'
  BY DEF DInv, SinkInv
<1>6. VerdictInv'
  BY DEF DInv, VerdictInv, Processed
<1> QED BY <1>4, <1>5, <1>6 DEF DInv

LEMMA OwnD == ASSUME TInv, DInv, NEW p \in Pods, OwnStep(p) PROVE DInv'
<1> DEFINE d == src[p]
<1>1. /\ Types /\ sourceUnchanged /\ UNCHANGED <<queued, inflight, released, lost>>
      /\ completed' \subseteq completed
  BY OwnStepIs DEF TInv
<1>2. /\ UNCHANGED <<view, sealed, released, ext, snk, status, phase, job, lost>> /\ Seen' = Seen /\ (Covered' <=> Covered)
  BY <1>1 DEF sourceUnchanged, ctlVars, Seen, Covered
<1>3. /\ Cuts(d) /\ (Announced(d) => Covered) /\ (ckpt = {} \/ Covers(ckpt, {}))
      /\ (job.state = "complete" => Covered)
  BY DEF DInv, SourceInv
<1>4. ASSUME NEW r, Becomes(p, r), Cuts(r), Announced(r) => Covered, ckpt' = ckpt \/ Covers(ckpt', {})
      PROVE  DInv'
  BY <1>1, <1>2, <1>3, <1>4, PodKeepsD
<1>5. CASE RegisterSource(p)
  <2>1. PICK r : /\ Becomes(p, r) /\ r.reg = "current" /\ r.done = FALSE
                 /\ r.pc = IF ckpt = {} THEN "emit" ELSE "republish"
                 /\ r.todo = IF ckpt = {} THEN Records ELSE {}
                 /\ r.unannounced = ckpt /\ r.buffer = d.buffer
    BY <1>1, <1>5, RegisterIs
  <2>2. d.pc # "emit" /\ ckpt' = ckpt
    <3>1. d.pc \in {"off", "down"} /\ ckpt' = ckpt
      BY <1>5, Zenon DEF RegisterSource, Starts
    <3> QED BY <3>1
  <2>3. r.buffer = {}
    BY <1>3, <2>1, <2>2 DEF Cuts
  <2>4. Cuts(r)
    <3>1. CASE ckpt = {}
      BY <2>1, <3>1 DEF Cuts, Covers
    <3>2. CASE ckpt # {}
      <4>1. Covers(r.unannounced, r.buffer \cup r.todo)
        BY <1>3, <2>1, <3>2 DEF Covers
      <4> QED BY <2>1, <2>3, <3>2, <4>1 DEF Cuts
    <3> QED BY <3>1, <3>2
  <2>5. ~Announced(r)
    BY <2>1 DEF Announced
  <2> QED BY <1>4, <2>1, <2>2, <2>4, <2>5
<1>6. CASE Emit(p)
  <2> DEFINE x == Min(d.todo)
             full == d.buffer \cup {x}
             g == Segment(p, full)
  <2>1. x \in d.todo
    BY <1>1, <1>6, EmitIs
  <2>2. PICK r : /\ Becomes(p, r)
                 /\ r.pc = d.pc /\ r.reg = d.reg /\ r.done = d.done /\ r.todo = d.todo \ {x}
                 /\ \/ r.buffer = full /\ r.unannounced = d.unannounced
                    \/ r.buffer = {} /\ r.unannounced = d.unannounced \cup {g}
    BY <1>1, <1>6, EmitIs
  <2> HIDE DEF x
  <2>3. d.pc = "emit" /\ ckpt' = ckpt /\ g.recs = full
    BY <1>6 DEF Emit, Segment
  <2> HIDE DEF g
  <2>4. Covers(r.unannounced, r.buffer \cup r.todo)
    <3>1. Covers(d.unannounced, d.buffer \cup d.todo)
      BY <1>3, <2>3 DEF Cuts
    <3>2. CASE r.buffer = full /\ r.unannounced = d.unannounced
      BY <2>1, <2>2, <3>1, <3>2 DEF Covers
    <3>3. CASE r.buffer = {} /\ r.unannounced = d.unannounced \cup {g}
      BY <2>1, <2>2, <2>3, <3>1, <3>3 DEF Covers
    <3> QED BY <2>2, <3>2, <3>3
  <2>5. Cuts(r) /\ (Announced(r) => Covered)
    BY <1>3, <2>2, <2>3, <2>4 DEF Cuts, Announced
  <2> QED BY <1>4, <2>2, <2>3, <2>5
<1>7. CASE Materialize(p)
  <2>1. PICK r : /\ Becomes(p, r)
                 /\ r.pc \in {"commit", "publish"} /\ r.buffer = {}
                 /\ r.unannounced = d.unannounced \cup Rest(p)
                 /\ r.reg = d.reg /\ r.done = d.done /\ r.todo = d.todo
    BY <1>1, <1>7, MaterializeIs
  <2>2. d.pc = "emit" /\ d.todo = {} /\ ckpt' = ckpt
    BY <1>7 DEF Materialize
  <2>3. \A y \in d.buffer : \E s \in Rest(p) : y \in s.recs
    BY DEF Rest, Segment
  <2>4. Covers(r.unannounced, r.buffer \cup r.todo)
    BY <1>3, <2>1, <2>2, <2>3 DEF Cuts, Covers
  <2>5. Cuts(r) /\ (Announced(r) => Covered)
    BY <1>3, <2>1, <2>2, <2>4 DEF Cuts, Announced
  <2> QED BY <1>4, <2>1, <2>2, <2>5
<1>8. CASE CommitSource(p)
  <2>1. PICK r : /\ Becomes(p, r) /\ r.pc = "publish" /\ r.buffer = d.buffer
                 /\ r.unannounced = d.unannounced /\ r.reg = d.reg /\ r.done = d.done /\ r.todo = d.todo
    BY <1>1, <1>8, CommitIs
  <2>2. d.pc = "commit" /\ ckpt' = d.unannounced
    BY <1>8 DEF CommitSource
  <2>3. Covers(d.unannounced, {})
    BY <1>3, <2>2 DEF Cuts, Covers
  <2>4. Cuts(r) /\ (Announced(r) => Covered)
    BY <1>3, <2>1, <2>2 DEF Cuts, Announced
  <2> QED BY <1>4, <2>1, <2>2, <2>3, <2>4
<1>9. CASE ReportSource(p) /\ Known(p)
  <2>1. PICK r : /\ Becomes(p, r) /\ r.pc \in {"exited", "idle"} /\ r.buffer = d.buffer /\ r.todo = d.todo
    BY <1>1, <1>9, ReportIs
  <2>2. d.pc = "report" /\ ckpt' = ckpt
    BY <1>9 DEF ReportSource
  <2>3. Cuts(r) /\ Covered
    BY <1>3, <2>1, <2>2 DEF Cuts, Announced
  <2> QED BY <1>4, <2>1, <2>2, <2>3
<1>10. CASE HeartbeatSource(p)
  <2>1. PICK r : /\ Becomes(p, r)
                 /\ r.reg = "current" /\ r.done = d.done
                 /\ r.pc = d.pc /\ r.buffer = d.buffer /\ r.unannounced = d.unannounced /\ r.todo = d.todo
    <3>1. ~ExpireSource(p)
      BY <1>10 DEF HeartbeatSource, ExpireSource
    <3> QED BY <1>1, <1>10, <3>1, SignalIs
  <2>2. ckpt' = ckpt
    BY <1>10 DEF HeartbeatSource
  <2>3. Cuts(r) /\ (Announced(r) => Covered)
    BY <1>3, <2>1 DEF Cuts, Announced
  <2> QED BY <1>4, <2>1, <2>2, <2>3
<1>11. CASE ReleaseSegments(p)
  <2>1. PICK r : /\ Becomes(p, r)
                 /\ r.pc = d.pc /\ r.buffer = d.buffer /\ r.reg = d.reg /\ r.done = d.done
                 /\ r.unannounced = d.unannounced /\ r.todo = d.todo
    BY <1>1, <1>11, ReleaseIs
  <2>2. ckpt' = ckpt
    BY <1>11 DEF ReleaseSegments
  <2>3. Cuts(r) /\ (Announced(r) => Covered)
    BY <1>3, <2>1 DEF Cuts, Announced
  <2> QED BY <1>4, <2>1, <2>2, <2>3
<1>12. CASE CrashSource(p) \/ EvictSource(p) \/ ScaleDownSource(p) \/ (ReportSource(p) /\ ~Known(p))
  <2>1. PICK e \in SrcPods :
           /\ Ended(p) = [src EXCEPT ![p] = e]
           /\ e.pc \in {"gone", "down"} /\ e.todo = {} /\ e.buffer = {} /\ e.done = d.done
    BY <1>1, EndedIs
  <2>2. PICK r \in SrcPods :
           /\ Removed(p) = [src EXCEPT ![p] = r]
           /\ r.pc = "gone" /\ r.todo = {} /\ r.buffer = {} /\ r.done = d.done
    BY <1>1, RemovedIs
  <2>3. Becomes(p, e) \/ Becomes(p, r)
    BY <1>12, <2>1, <2>2 DEF Becomes, CrashSource, EvictSource, ScaleDownSource, ReportSource
  <2>4. ckpt' = ckpt
    BY <1>12 DEF CrashSource, EvictSource, ScaleDownSource, ReportSource
  <2>5. Cuts(e) /\ (Announced(e) => Covered)
    BY <1>3, <2>1 DEF Cuts, Announced
  <2>6. Cuts(r) /\ (Announced(r) => Covered)
    BY <1>3, <2>2 DEF Cuts, Announced
  <2> QED BY <1>4, <2>3, <2>4, <2>5, <2>6
<1> QED BY <1>5, <1>6, <1>7, <1>8, <1>9, <1>10, <1>11, <1>12, Zenon DEF OwnStep

\* A refused announcement is one to a channel that is sealed, after everything was announced.
LEMMA PublishD == ASSUME TInv, DInv, NEW p \in Pods, PublishSource(p) PROVE DInv'
<1> DEFINE d == src[p]
<1>1. /\ Types /\ sourceUnchanged /\ UNCHANGED <<ckpt, inflight, released, lost, completed>>
      /\ queued' = IF Accepted(p) THEN queued \cup New(p) ELSE queued
  BY PublishEffect DEF TInv
<1>2. UNCHANGED <<view, sealed, released, ext, snk, status, phase, job, lost, completed, ckpt>> /\ Seen \subseteq Seen'
  BY <1>1 DEF sourceUnchanged, ctlVars, Seen
<1>3. Cuts(d) /\ (Announced(d) => Covered) /\ (sealed => Covered) /\ (job.state = "complete" => Covered)
  BY DEF DInv, SourceInv
<1>4. Covered => Covered'
  BY <1>2, CoversMore DEF Covered
<1>5. d.pc \in {"publish", "republish"}
  BY DEF PublishSource
<1>6. Known(p) /\ Covers(d.unannounced, {})
  BY <1>3, <1>5 DEF Cuts, Known, Covers
<1>7. CASE d.pc = "republish" /\ ~Accepted(p)
  <2>1. PICK e \in SrcPods :
           /\ Ended(p) = [src EXCEPT ![p] = e]
           /\ e.pc \in {"gone", "down"} /\ e.todo = {} /\ e.buffer = {} /\ e.done = d.done
    BY <1>1, EndedIs
  <2>2. Becomes(p, e)
    BY <1>7, <2>1 DEF Becomes, PublishSource
  <2>3. Cuts(e) /\ (Announced(e) => Covered')
    BY <1>3, <1>4, <2>1 DEF Cuts, Announced
  <2> QED BY <1>2, <1>3, <1>4, <2>2, <2>3, PodKeepsD
<1>8. CASE ~(d.pc = "republish" /\ ~Accepted(p))
  <2>1. PICK r : /\ Becomes(p, r) /\ r.pc = "report" /\ r.buffer = d.buffer /\ r.todo = d.todo
    BY <1>1, <1>8, PublishIs
  <2>2. Covered'
    <3>1. CASE Accepted(p)
      <4>1. d.unannounced \subseteq Seen'
        BY <1>1, <3>1 DEF New, Seen
      <4> QED BY <1>6, <4>1, CoversMore DEF Covered
    <3>2. CASE ~Accepted(p)
      BY <1>3, <1>4, <1>6, <3>2 DEF Accepted
    <3> QED BY <3>1, <3>2
  <2>3. Cuts(r)
    BY <1>3, <1>5, <2>1 DEF Cuts
  <2> QED BY <1>2, <2>1, <2>2, <2>3, PodKeepsD
<1> QED BY <1>7, <1>8

\* A pod that still has to announce is not forgotten: this is where the assumption is needed.
LEMMA ExpireD ==
  ASSUME LapsesAt \subseteq {"report", "idle"}, TInv, DInv, NEW p \in Pods, ExpireSource(p) PROVE DInv'
<1> DEFINE d == src[p]
<1>1. /\ Types
      /\ UNCHANGED <<snk, ckpt, released, sealed, ext, completed, ctlVars>>
      /\ lost' = lost \cup Loses(p) /\ queued' = queued \ Loses(p) /\ inflight' = inflight \ Loses(p)
      /\ Loses(p) \subseteq Unread
  BY ExpireEffect DEF TInv
<1>2. /\ UNCHANGED <<view, sealed, released, ext, snk, status, phase, job, completed, ckpt>>
      /\ Seen \subseteq Seen' /\ lost \subseteq lost'
  <2> HIDE DEF Loses
  <2> QED BY <1>1 DEF Seen, Unread, ctlVars
<1>3. Cuts(d) /\ (job.state = "complete" => Covered) /\ (Announced(d) => Covered)
  BY DEF DInv, SourceInv
<1>4. Covered => Covered'
  BY <1>2, CoversMore DEF Covered
<1>5. d.pc \in {"gone", "report", "idle"}
  BY DEF ExpireSource
<1>6. PICK r : /\ Becomes(p, r) /\ r.done = FALSE
               /\ r.pc = d.pc /\ r.buffer = d.buffer /\ r.todo = d.todo
  <2>1. ~HeartbeatSource(p)
    BY DEF HeartbeatSource, ExpireSource
  <2> QED BY <1>1, <2>1, SignalIs
<1>7. Cuts(r) /\ (Announced(r) => Covered')
  BY <1>3, <1>4, <1>5, <1>6 DEF Cuts, Announced
<1> QED BY <1>2, <1>3, <1>4, <1>6, <1>7, PodKeepsD

LEMMA JobD == ASSUME TInv, DInv, NEW p \in Pods, JobEnds(p) PROVE DInv'
<1> DEFINE d == src[p]
<1>1. Types /\ UNCHANGED <<snk, ckpt, coordVars, view, status, phase>>
  BY JobEffect DEF TInv
<1>2. UNCHANGED <<view, sealed, released, ext, snk, status, phase, completed, ckpt, lost>> /\ Seen' = Seen
  BY <1>1 DEF coordVars, Seen
<1>3. Cuts(d) /\ (Announced(d) => Covered) /\ (Covered' <=> Covered)
  BY <1>2 DEF DInv, SourceInv, Covered
<1>4. CASE d.pc = "gone" /\ job' = [job EXCEPT !.state = "failed"] /\ UNCHANGED src
  <2>1. Becomes(p, d) /\ job'.state = "failed"
    BY <1>1, <1>4 DEF Becomes, Types, Jobs
  <2> QED BY <1>2, <1>3, <2>1, PodKeepsD
<1>5. CASE d.pc = "exited" /\ src' = Removed(p)
  <2>1. Covered
    BY <1>3, <1>5 DEF Announced
  <2>2. PICK r \in SrcPods : Removed(p) = [src EXCEPT ![p] = r] /\ r.pc = "gone" /\ r.todo = {} /\ r.buffer = {}
    BY <1>1, RemovedIs
  <2>3. Becomes(p, r) /\ Cuts(r)
    BY <1>5, <2>2 DEF Becomes, Cuts
  <2> QED BY <1>2, <1>3, <2>1, <2>3, PodKeepsD
<1> QED BY <1>4, <1>5, Zenon DEF JobEnds

\* The sink's part, step by step.
LEMMA SinkKeeps == ASSUME TInv, SinkInv, SinkMove PROVE SinkInv'
<1>1. /\ Shuffle /\ sinkUnchanged
      /\ (ext' = ext \/ (snk.pc = "flush" /\ ext' = ext \cup snk.out))
  BY SinkMoveIs
<1>2. snk \in SnkPods /\ Types /\ ext \subseteq ext'
  BY <1>1 DEF TInv, Types
<1>3. CASE snk' = SinkEnded /\ released' = released
  <2>1. SinkEnded.hand = {} /\ SinkEnded.pc = "off" /\ SinkEnded.done = snk.done
    BY <1>2, SinkEndedIs
  <2> QED BY <1>2, <1>3, <2>1 DEF SinkInv
<1>4. CASE RegisterSink \/ HeartbeatSink \/ ExpireSink
  <2>1. released' = released /\ ext' = ext
    BY <1>4, Zenon DEF RegisterSink, HeartbeatSink, ExpireSink
  <2>2. \/ snk.pc = "off" /\ snk' = [snk EXCEPT !.pc = "loop", !.reg = "current", !.done = FALSE]
        \/ snk' = [snk EXCEPT !.reg = "current"]
        \/ snk' = [snk EXCEPT !.reg = "none", !.done = FALSE]
    BY <1>4, Zenon DEF RegisterSink, HeartbeatSink, ExpireSink
  <2>3. /\ snk'.hand = snk.hand /\ snk'.out = snk.out
        /\ (snk'.pc = snk.pc \/ (snk.pc = "off" /\ snk'.pc = "loop"))
        /\ (snk'.done => snk.done)
    BY <1>2, <2>2 DEF SnkPods
  <2> QED BY <2>1, <2>3 DEF SinkInv
<1>5. CASE Consume
  <2>1. released' = released /\ ext' = ext /\ snk.pc = "loop"
    BY <1>5, Zenon DEF Consume
  <2>2. snk' = [snk EXCEPT !.todo = queued] \/ snk' = [snk EXCEPT !.pc = "flush", !.out = {Summary}]
    BY <1>5, Zenon DEF Consume
  <2>3. /\ snk'.hand = snk.hand /\ snk'.done = snk.done
        /\ (snk'.pc = "loop" \/ (snk'.pc = "flush" /\ snk'.out = {Summary}))
    BY <1>2, <2>1, <2>2 DEF SnkPods
  <2> QED BY <2>1, <2>3 DEF SinkInv
<1>6. ASSUME NEW s \in snk.todo, Process(s) PROVE SinkInv'
  <2>1. released' = released /\ ext' = ext
    BY <1>6, Zenon DEF Process
  <2>2. snk' = [snk EXCEPT !.pc = "flush", !.todo = snk.todo \ {s}, !.hand = {s}, !.out = s.recs]
    BY <1>6 DEF Process
  <2>3. snk'.pc = "flush" /\ snk'.hand = {s} /\ snk'.out = s.recs /\ snk'.done = snk.done
    BY <1>2, <2>2 DEF SnkPods
  <2> QED BY <2>1, <2>3 DEF SinkInv
<1>7. CASE FlushSink /\ snk' # SinkEnded
  <2>1. released' = released /\ snk.pc = "flush" /\ ext' = ext \cup snk.out
        /\ snk' = [snk EXCEPT !.out = {}, !.pc = IF snk.hand = {} THEN "report" ELSE "ack"]
    BY <1>7, Zenon DEF FlushSink
  <2>2. snk'.pc = (IF snk.hand = {} THEN "report" ELSE "ack") /\ snk'.hand = snk.hand /\ snk'.done = snk.done
    BY <1>2, <2>1 DEF SnkPods
  <2>3. CASE snk.hand = {}
    BY <1>2, <2>1, <2>2, <2>3 DEF SinkInv
  <2>4. CASE snk.hand # {}
    BY <1>2, <2>1, <2>2, <2>4 DEF SinkInv
  <2> QED BY <2>3, <2>4
<1>8. CASE Ack /\ snk' # SinkEnded
  <2>1. ext' = ext /\ snk.pc = "ack" /\ snk' = [snk EXCEPT !.pc = "loop", !.hand = {}]
    BY <1>8, Zenon DEF Ack
  <2>2. snk'.pc = "loop" /\ snk'.hand = {} /\ snk'.done = snk.done
    BY <1>2, <2>1 DEF SnkPods
  <2>3. released' \subseteq released \cup snk.hand
    BY <1>1, ShuffleIs DEF sinkUnchanged
  <2> QED BY <2>1, <2>2, <2>3 DEF SinkInv
<1>9. CASE ReportSink /\ snk' # SinkEnded
  <2>1. ext' = ext /\ snk.pc = "report" /\ snk' = [snk EXCEPT !.pc = "idle", !.done = TRUE] /\ released' = released
    BY <1>9, Zenon DEF ReportSink
  <2>2. snk'.pc = "idle" /\ snk'.hand = snk.hand
    BY <1>2, <2>1 DEF SnkPods
  <2> QED BY <2>1, <2>2 DEF SinkInv
<1>10. ASSUME NEW s \in snk.todo, FetchFails(s) PROVE snk' = SinkEnded /\ released' = released
  BY <1>10, Zenon DEF FetchFails
<1>11. CrashSink \/ ScaleDownSink => snk' = SinkEnded /\ released' = released
  BY Zenon DEF CrashSink, ScaleDownSink
<1>12. (FlushSink \/ ReportSink) /\ snk' = SinkEnded => released' = released
  BY Zenon DEF FlushSink, ReportSink
<1>13. CASE Ack /\ snk' = SinkEnded
  <2>1. snk.pc = "ack" /\ released' \subseteq released \cup snk.hand /\ ext' = ext
    BY <1>1, <1>13, ShuffleIs, Zenon DEF Ack, sinkUnchanged
  <2>2. SinkEnded.hand = {} /\ SinkEnded.pc = "off" /\ SinkEnded.done = snk.done
    BY <1>2, SinkEndedIs
  <2> QED BY <1>13, <2>1, <2>2 DEF SinkInv
<1> QED BY <1>3, <1>4, <1>5, <1>6, <1>7, <1>8, <1>9, <1>10, <1>11, <1>12, <1>13, Zenon DEF SinkMove

LEMMA SinkD == ASSUME TInv, DInv, SinkMove PROVE DInv'
<1>1. /\ Shuffle /\ sinkUnchanged /\ completed' \subseteq completed
      /\ (ext' = ext \/ (snk.pc = "flush" /\ ext' = ext \cup snk.out))
  BY SinkMoveIs
<1>2. UNCHANGED <<src, ckpt, lost, sealed, view, status, phase, job>> /\ Seen' = Seen /\ ext \subseteq ext'
  BY <1>1, ShuffleIs DEF sinkUnchanged, ctlVars
<1>3. SourceInv'
  BY <1>1, <1>2 DEF DInv, SourceInv, Covered
<1>4. SinkInv'
  BY SinkKeeps DEF DInv
<1>5. VerdictInv'
  BY <1>1, <1>2 DEF DInv, VerdictInv, Processed
<1> QED BY <1>3, <1>4, <1>5 DEF DInv

\* What a report says of the operations.
LEMMA LatchedD ==
  ASSUME TInv, DInv
  PROVE  /\ "source" \in Latched => Covered
         /\ "sink" \in Latched => lost # {} \/ Processed
<1>1. "source" \in Latched => CompleteNow("source") \/ "source" \in completed
  BY DEF Latched
<1>2. CompleteNow("source") => Covered
  <2>1. CompleteNow("source") => \E p \in Pods : src[p].done
    BY Zenon DEF CompleteNow
  <2> QED BY <2>1 DEF DInv, SourceInv, Announced
<1>3. "sink" \in Latched => CompleteNow("sink") \/ "sink" \in completed
  BY DEF Latched
<1>4. CompleteNow("sink") => lost # {} \/ Processed
  <2> SUFFICES ASSUME CompleteNow("sink"), lost = {} PROVE Processed
    OBVIOUS
  <2>1. sealed /\ Quiet /\ snk.done
    BY DEF CompleteNow
  <2>2. Covers(released, {}) /\ Summary \in ext
    BY <2>1 DEF DInv, SourceInv, SinkInv, Covered, Seen, Quiet
  <2>3. \A x \in Records : x \in ext
    BY <2>2 DEF Covers, DInv, SinkInv
  <2> QED BY <2>2, <2>3 DEF Processed, Outs
<1> QED BY <1>1, <1>2, <1>3, <1>4 DEF DInv, SourceInv, VerdictInv

LEMMA CtlD == ASSUME TInv, DInv, CtlMove, phase \notin Terminal PROVE DInv'
<1>1. /\ Types /\ UNCHANGED <<src, snk, ckpt, released, lost, ext>> /\ Seen' = Seen
  BY CtlMoveIs DEF TInv, ctlUnchanged, workVars, Seen
<1>2. (Covered' <=> Covered) /\ (Processed' <=> Processed) /\ SinkInv'
  BY <1>1 DEF DInv, Covered, Processed, SinkInv
<1>3. /\ phase # "Failed" /\ phase # "Succeeded"
      /\ status \in [Ops -> {"Waiting", "Running", "Succeeded", "Failed"}] /\ job \in Jobs
  BY <1>1 DEF Terminal, Types
<1>4. SUFFICES SourceInv' /\ VerdictInv'
  BY <1>2 DEF DInv
<1>5. SourceInv /\ VerdictInv
  BY DEF DInv
<1>6. SUFFICES /\ "source" \in completed' \/ "source" \in view'.complete \/ sealed' \/ job'.state = "complete" => Covered
               /\ VerdictInv'
  BY <1>1, <1>2, <1>5 DEF SourceInv
<1>7. CASE ReadReport
  <2>1. /\ completed' = Latched /\ view'.complete = Latched /\ UNCHANGED <<sealed, status, job>>
        /\ (lost # {} => phase' = "Failed") /\ (lost = {} => phase' = phase)
    BY <1>7 DEF ReadReport
  <2> QED BY <1>1, <1>2, <1>3, <1>5, <2>1, LatchedD DEF SourceInv, VerdictInv
<1>8. ASSUME NEW o \in Ops, ReconcileOperation(o)
      PROVE  /\ "source" \in completed' \/ "source" \in view'.complete \/ sealed' \/ job'.state = "complete" => Covered
             /\ VerdictInv'
  <2>1. UNCHANGED <<completed, view, phase, job>>
    BY <1>8 DEF ReconcileOperation
  <2>2. sealed' => sealed \/ "source" \in view.complete
    BY <1>8, Zenon DEF ReconcileOperation, Seals
  <2>3. PICK v : status' = [status EXCEPT ![o] = v] /\ (v = "Succeeded" => o \in view.complete)
    BY <1>8 DEF ReconcileOperation
  <2>4. status'["sink"] = "Succeeded" => status["sink"] = "Succeeded" \/ "sink" \in view.complete
    BY <1>3, <2>3 DEF Ops
  <2> QED BY <1>1, <1>2, <1>5, <2>1, <2>2, <2>4 DEF SourceInv, VerdictInv
<1>9. CASE ReconcileCollective
  <2>1. UNCHANGED <<completed, view, phase>>
    BY <1>9 DEF ReconcileCollective
  <2>2. (sealed' => sealed \/ job.state = "complete") /\ (job'.state = "complete" => job.state = "complete")
    <3>1. sealed' => sealed \/ job.state = "complete"
      BY <1>9, Zenon DEF ReconcileCollective
    <3>2. job' = job \/ job' = [attempt |-> job.attempt + 1, state |-> "active"]
      BY <1>9, Zenon DEF ReconcileCollective
    <3>3. job'.state = "complete" => job.state = "complete"
      BY <3>2
    <3> QED BY <3>1, <3>3
  <2>3. PICK v : status' = [status EXCEPT !["source"] = v]
    BY <1>9 DEF ReconcileCollective
  <2>4. status'["sink"] = status["sink"]
    BY <1>3, <2>3 DEF Ops
  <2> QED BY <1>1, <1>2, <1>5, <2>1, <2>2, <2>4 DEF SourceInv, VerdictInv
<1>10. CASE Conclude
  <2>1. /\ completed' = Latched /\ view'.complete = {} /\ UNCHANGED <<sealed, job>>
        /\ status'["sink"] = "Waiting"
    BY <1>10 DEF Conclude, NoReport, NoStatus, Ops
  <2>2. phase' = "Succeeded" => status["sink"] = "Succeeded"
    BY <1>10 DEF Conclude, Ops
  <2> QED BY <1>1, <1>2, <1>3, <1>5, <2>1, <2>2, LatchedD DEF SourceInv, VerdictInv
<1>11. CASE ReconcileFails
  <2>1. /\ UNCHANGED <<completed, sealed, job, phase>> /\ view'.complete = {} /\ status'["sink"] = "Waiting"
    BY <1>11 DEF ReconcileFails, NoReport, NoStatus, Ops
  <2> QED BY <1>1, <1>2, <1>5, <2>1 DEF SourceInv, VerdictInv
<1> QED BY <1>7, <1>8, <1>9, <1>10, <1>11 DEF CtlMove

LEMMA StepD == LapsesAt \subseteq {"report", "idle"} => (TInv /\ DInv /\ [Next]_vars => DInv')
<1> SUFFICES ASSUME LapsesAt \subseteq {"report", "idle"}, TInv, DInv, [Next]_vars PROVE DInv'
  OBVIOUS
<1>1. CASE UNCHANGED vars
  <2>1. UNCHANGED <<src, snk, ckpt, released, lost, ext, sealed, completed, view, status, phase, job>> /\ Seen' = Seen
    BY <1>1 DEF vars, workVars, coordVars, ctlVars, Seen
  <2>2. SourceInv'
    BY <2>1 DEF DInv, SourceInv, Covered
  <2>3. SinkInv' /\ VerdictInv'
    BY <2>1 DEF DInv, SinkInv, VerdictInv, Processed
  <2> QED BY <2>2, <2>3 DEF DInv
<1>2. ASSUME NEW p \in Pods, SrcMove(p) PROVE DInv'
  BY <1>2, OwnD, PublishD, ExpireD, JobD DEF SrcMove
<1>3. CASE Next /\ CtlMove
  BY <1>3, CtlD DEF Next
<1> QED BY <1>1, <1>2, <1>3, SinkD, StepIs

\* A workload the controller declares Succeeded has its result: every record has been through
\* the sink and the sink's final output is in the external channel.  The phase is decided from
\* a report that was stale when it was used, while processes crash, restart and expire and pods
\* are evicted.  The source's heartbeats come through until it has announced its output; when
\* they lapse before that, the code drops the output and reports done all the same.
THEOREM SucceededIsProcessed == ASSUME LapsesAt \subseteq {"report", "idle"} PROVE Spec => []SucceededMeansProcessed
<1>1. DInv => SucceededMeansProcessed
  BY DEF DInv, VerdictInv, Processed, Outs, SucceededMeansProcessed
<1>2. TInv /\ DInv /\ [Next]_vars => DInv'
  BY StepD
<1> QED BY InitT, StepT, InitD, <1>1, <1>2, PTL DEF Spec
=============================================================================
