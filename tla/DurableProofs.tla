---------------------------- MODULE DurableProofs ----------------------------
(***************************************************************************)
(* Proofs about Durable, for any set of coordinator processes, whatever    *)
(* writer identities they use, and any values of the bounds.               *)
(***************************************************************************)
EXTENDS Durable, SequenceTheorems, TLAPS

-----------------------------------------------------------------------------
(* The inductive invariant.                                                *)

\* State n builds on state m.
Extends(m, n) == m.facts \subseteq n.facts /\ m.next <= n.next

\* File f is o, or an earlier file that o builds on.
PastOf(f, o) ==
  /\ f.gen <= o.gen
  /\ f.gen = o.gen => f = o
  /\ Extends(f.state, o.state)

Past(f) == PastOf(f, object)

\* The process has claimed the checkpoint and has not failed since.
Live(p) == pc[p] \in {"clean", "up", "store", "commit", "put"}

\* What a process knows of the checkpoint is the past, and only the process whose
\* write was the last to succeed knows the present.
VersionOf(p) ==
  /\ Past(ver[p])
  /\ Live(p) => Extends(ver[p].state, mem[p])
  /\ Live(p) /\ ver[p] = object => owner = p

\* A conditional write replaces a past checkpoint by its successor.
PutOf(p) ==
  /\ put[p].status = "sent" =>
       /\ put[p].kind # "none"
       /\ Past(put[p].old)
       /\ put[p].new.gen = put[p].old.gen + 1
       /\ Extends(put[p].old.state, put[p].new.state)
       /\ put[p].kind = "commit" /\ put[p].old = object => owner = p
  /\ put[p].status = "ok" => Past(put[p].new) /\ (put[p].new = object => owner = p)
  /\ pc[p] = "put" => put[p].status # "none" /\ put[p].new.state = mem[p]
  /\ pc[p] = "claim" => put[p].status # "none" /\ put[p].new.state = put[p].old.state
  /\ pc[p] \in {"off", "clean", "up", "store", "commit"} => put[p].status = "none"

\* The facts a handler will answer with are in memory.
JobOf(p) ==
  /\ pc[p] \in {"store", "commit", "put"} => job[p].facts \subseteq mem[p].facts
  /\ pc[p] = "store" => job[p].groups # << >>

IInv ==
  /\ TypeOK /\ AnsweredDurable /\ Past(NoFile)
  /\ \A p \in Procs : VersionOf(p) /\ PutOf(p) /\ JobOf(p)

-----------------------------------------------------------------------------
(* Types.                                                                  *)

\* The initial values have their types.
LEMMA InitialTypes == /\ Empty \in States /\ NoFile \in Files
                      /\ NoPut \in Puts /\ NoJob \in Jobs
<1>1. Empty \in States
  BY DEF Empty, States
<1>2. NoFile \in Files
  BY <1>1 DEF NoFile, Files, Writers
<1>3. NoPut \in Puts
  BY <1>2 DEF NoPut, Puts
<1>4. NoJob \in Jobs
  BY <1>1 DEF NoJob, Jobs
<1> QED BY <1>1, <1>2, <1>3, <1>4

\* The facts of the handlers are facts.
LEMMA FactTypes ==
  /\ \A n \in Nat, g \in Groups : Published(n, g) \in Facts
  /\ \A w \in WorkerSegments : {Announced(w), Dropped(w), Forgotten(w)} \subseteq Facts
  BY DEF Published, Announced, Dropped, Forgotten, Facts

\* Init has the invariant.
LEMMA InitInv == Init => IInv
<1> SUFFICES ASSUME Init PROVE IInv
  OBVIOUS
<1>1. TypeOK
  BY InitialTypes, DurableAssumption DEF Init, TypeOK
<1>2. AnsweredDurable
  BY DEF Init, AnsweredDurable
<1>3. ASSUME NEW p \in Procs PROVE VersionOf(p) /\ PutOf(p) /\ JobOf(p)
  <2>1. object = NoFile /\ ver[p] = NoFile /\ put[p] = NoPut /\ pc[p] = "off"
    BY DEF Init
  <2>2. NoFile.gen = 0 /\ Extends(NoFile.state, NoFile.state)
    BY DEF NoFile, Empty, Extends
  <2>3. NoPut.status = "none"
    BY DEF NoPut
  <2>4. VersionOf(p)
    BY <2>1, <2>2 DEF VersionOf, Past, PastOf, Live
  <2>5. PutOf(p)
    BY <2>1, <2>3 DEF PutOf
  <2>6. JobOf(p)
    BY <2>1 DEF JobOf
  <2> QED BY <2>4, <2>5, <2>6
<1>4. Past(NoFile)
  <2>1. object = NoFile
    BY DEF Init
  <2>2. NoFile.gen = 0 /\ Extends(NoFile.state, NoFile.state)
    BY DEF NoFile, Empty, Extends
  <2> QED BY <2>1, <2>2 DEF Past, PastOf
<1> QED BY <1>1, <1>2, <1>3, <1>4 DEF IInv

\* Every step keeps the types.
LEMMA TypeStep == ASSUME TypeOK, \A p \in Procs : JobOf(p), [Next]_vars PROVE TypeOK'
<1> USE DEF TypeOK
<1>1. ASSUME NEW p \in Procs, StorePut(p) PROVE TypeOK'
  <2>1. put' \in [Procs -> Puts]
    BY <1>1 DEF StorePut, Puts
  <2>2. object' \in Files /\ owner' \in Procs \cup {NoProc}
    BY <1>1 DEF StorePut, Puts
  <2> QED BY <1>1, <2>1, <2>2 DEF StorePut
<1>2. ASSUME NEW p \in Procs, ClaimGet(p) PROVE TypeOK'
  <2>1. [gen |-> object.gen + 1, writer |-> WriterOf[p], state |-> object.state, tombs |-> object.tombs] \in Files
    <3>1. WriterOf[p] \in Writers
      BY DEF Writers
    <3>2. object.gen + 1 \in Nat /\ object.state \in States /\ object.tombs \in SUBSET WorkerSegments
      BY DEF Files
    <3> QED BY <3>1, <3>2 DEF Files
  <2>2. put' \in [Procs -> Puts]
    BY <1>2, <2>1 DEF ClaimGet, Puts
  <2> QED BY <1>2, <2>2 DEF ClaimGet, storeVars, envVars
<1>3. ASSUME NEW p \in Procs, Claimed(p) PROVE TypeOK'
  <2>1. put[p].new \in Files /\ put[p].old.state \in States
    BY DEF Puts, Files
  <2>2. ver' \in [Procs -> Files] /\ mem' \in [Procs -> States]
    BY <1>3, <2>1 DEF Claimed
  <2>3. put' \in [Procs -> Puts]
    BY <1>3, InitialTypes DEF Claimed
  <2> QED BY <1>3, <2>2, <2>3 DEF Claimed, storeVars, envVars
<1>4. ASSUME NEW p \in Procs, ClaimLost(p) PROVE TypeOK'
  <2>1. put' \in [Procs -> Puts]
    BY <1>4, InitialTypes DEF ClaimLost
  <2> QED BY <1>4, <2>1 DEF ClaimLost, storeVars, envVars
<1>5. ASSUME NEW p \in Procs, Cleaned(p) PROVE TypeOK'
  <2>1. [NoJob EXCEPT !.op = "start", !.undo = mem[p]] \in Jobs
    BY InitialTypes DEF Jobs
  <2>2. job' \in [Procs -> Jobs]
    BY <1>5, <2>1 DEF Cleaned
  <2> QED BY <1>5, <2>2 DEF Cleaned, storeVars, envVars
<1>6. ASSUME NEW p \in Procs, NEW op, NEW F \in SUBSET Facts, NEW undo \in States,
             op \in {"announce", "ack", "released", "consume"},
             Change(p, op, F, undo), keys' \in [Procs -> SUBSET WorkerSegments]
      PROVE  TypeOK'
  <2>1. [mem[p] EXCEPT !.facts = @ \cup F] \in States
    BY DEF States
  <2>2. mem' \in [Procs -> States]
    BY <1>6, <2>1 DEF Change
  <2>3. [op |-> op, groups |-> << >>, facts |-> F, undo |-> undo] \in Jobs
    BY <1>6 DEF Jobs
  <2>4. job' \in [Procs -> Jobs]
    BY <1>6, <2>3 DEF Change
  <2> QED BY <1>6, <2>2, <2>4 DEF Change, storeVars, envVars
<1>7. ASSUME NEW p \in Procs, NEW w \in WorkerSegments, Announce(p, w) PROVE TypeOK'
  <2>1. {Announced(w)} \in SUBSET Facts
    BY FactTypes
  <2>2. [mem[p] EXCEPT !.facts = @ \cup {Announced(w)}] \in States
    BY <2>1 DEF States
  <2> QED BY <1>6, <1>7, <2>1, <2>2 DEF Announce
<1>8. ASSUME NEW p \in Procs, NEW w \in WorkerSegments, Ack(p, w) PROVE TypeOK'
  <2>1. {Dropped(w)} \in SUBSET Facts
    BY FactTypes
  <2>2. [mem[p] EXCEPT !.facts = @ \cup {Dropped(w)}] \in States
    BY <2>1 DEF States
  <2> QED BY <1>6, <1>8, <2>1, <2>2 DEF Ack
<1>9. ASSUME NEW p \in Procs, Released(p) PROVE TypeOK'
  <2> DEFINE out == {w \in WorkerSegments : Dropped(w) \in mem[p].facts /\ Forgotten(w) \notin mem[p].facts}
  <2>1. {Forgotten(w) : w \in out} \in SUBSET Facts
    BY FactTypes
  <2>2. keys' \in [Procs -> SUBSET WorkerSegments]
    BY <1>9 DEF Released
  <2>3. Change(p, "released", {Forgotten(w) : w \in out}, mem[p])
    BY <1>9 DEF Released
  <2>4. mem[p] \in States
    OBVIOUS
  <2> HIDE DEF out
  <2> QED BY <1>6, <2>1, <2>2, <2>3, <2>4
<1>10. ASSUME NEW p \in Procs, Consume(p) PROVE TypeOK'
  BY <1>6, <1>10 DEF Consume
<1>11. ASSUME NEW p \in Procs, NEW b \in Batches, Produce(p, b) PROVE TypeOK'
  <2>1. [mem[p] EXCEPT !.next = @ + 1] \in States
    BY DEF States
  <2>2. mem' \in [Procs -> States]
    BY <1>11, <2>1 DEF Produce
  <2>3. [op |-> "produce", groups |-> GroupsOf[b], facts |-> {}, undo |-> Empty] \in Jobs
    BY InitialTypes, DurableAssumption DEF Jobs
  <2>4. job' \in [Procs -> Jobs]
    BY <1>11, <2>3 DEF Produce
  <2> QED BY <1>11, <2>2, <2>4 DEF Produce, storeVars, envVars
<1>12. ASSUME NEW p \in Procs, ProduceStore(p) PROVE TypeOK'
  <2> DEFINE n    == mem[p].next
             g    == Head(job[p].groups)
             rest == Tail(job[p].groups)
             m    == [next |-> IF rest = << >> THEN n ELSE n + 1, facts |-> mem[p].facts \cup {Published(n, g)}]
  <2>1. n \in Nat /\ mem[p].facts \in SUBSET Facts
    BY DEF States
  <2>2. job[p].groups \in Seq(Groups) /\ job[p].groups # << >>
    BY <1>12 DEF ProduceStore, Jobs, JobOf
  <2>3. g \in Groups /\ rest \in Seq(Groups)
    BY <2>2
  <2>4. Published(n, g) \in Facts
    BY <2>1, <2>3, FactTypes
  <2>5. m \in States
    BY <2>1, <2>4 DEF States
  <2>6. [op |-> "produce", groups |-> rest, facts |-> job[p].facts \cup {Published(n, g)}, undo |-> m] \in Jobs
    BY <2>3, <2>4, <2>5 DEF Jobs
  <2>7. /\ mem' = [mem EXCEPT ![p] = m]
        /\ job' = [job EXCEPT ![p] =
                     [op |-> "produce", groups |-> rest, facts |-> job[p].facts \cup {Published(n, g)}, undo |-> m]]
        /\ blobs' = blobs \cup {<<n, g>>}
    BY <1>12 DEF ProduceStore
  <2>8. blobs' \subseteq Nat \X Groups
    BY <2>1, <2>3, <2>7
  <2> HIDE DEF m, n, g, rest
  <2>9. mem' \in [Procs -> States] /\ job' \in [Procs -> Jobs]
    BY <2>5, <2>6, <2>7
  <2> QED BY <1>12, <2>8, <2>9 DEF ProduceStore, envVars
<1>13. ASSUME NEW p \in Procs, ProduceFails(p) PROVE TypeOK'
  <2>1. mem[p].next \in Nat
    BY DEF States
  <2>2. Head(job[p].groups) \in Groups
    BY <1>13 DEF ProduceFails, Jobs, JobOf
  <2>3. blobs' \subseteq Nat \X Groups /\ errors' \in Nat
    BY <1>13, <2>1, <2>2 DEF ProduceFails, Error
  <2>4. job' \in [Procs -> Jobs]
    BY <1>13, InitialTypes DEF ProduceFails
  <2> QED BY <1>13, <2>3, <2>4 DEF ProduceFails, envVars
<1>14. ASSUME NEW p \in Procs, CommitGet(p) PROVE TypeOK'
  <2>1. Tombstones(mem[p], keys[p]) \in SUBSET WorkerSegments
    BY DEF Tombstones
  <2>2. [gen |-> object.gen + 1, writer |-> object.writer,
         state |-> mem[p], tombs |-> Tombstones(mem[p], keys[p])] \in Files
    <3>1. object.gen + 1 \in Nat /\ object.writer \in Writers /\ mem[p] \in States
      BY DEF Files
    <3> QED BY <2>1, <3>1 DEF Files
  <2>3. put' \in [Procs -> Puts]
    BY <1>14, <2>2 DEF CommitGet, Puts
  <2> QED BY <1>14, <2>3 DEF CommitGet, storeVars, envVars
<1>15. ASSUME NEW p \in Procs, CommitOk(p) PROVE TypeOK'
  <2>1. ver' \in [Procs -> Files]
    BY <1>15 DEF CommitOk, Puts
  <2>2. put' \in [Procs -> Puts] /\ job' \in [Procs -> Jobs]
    BY <1>15, InitialTypes DEF CommitOk
  <2>3. reported' \subseteq WorkerSegments
    BY <1>15 DEF CommitOk, Answer
  <2> QED BY <1>15, <2>1, <2>2, <2>3 DEF CommitOk, storeVars
<1>16. ASSUME NEW p \in Procs, Abandon(p) PROVE put' \in [Procs -> Puts]
  BY <1>16, InitialTypes DEF Abandon
<1>17. ASSUME NEW p \in Procs, Latch(p), errors' \in Nat PROVE TypeOK'
  <2>1. mem' \in [Procs -> States]
    BY <1>17 DEF Latch, Jobs
  <2>2. job' \in [Procs -> Jobs] /\ keys' \in [Procs -> SUBSET WorkerSegments]
    BY <1>17, InitialTypes DEF Latch
  <2>3. put' \in [Procs -> Puts]
    BY <1>16, <1>17 DEF Latch
  <2> QED BY <1>17, <2>1, <2>2, <2>3 DEF Latch, storeVars, envVars
<1>18. ASSUME NEW p \in Procs, CommitFenced(p) \/ CommitError(p) PROVE TypeOK'
  BY <1>17, <1>18 DEF CommitFenced, CommitError, Error
<1>19. ASSUME NEW p \in Procs, Crash(p) PROVE TypeOK'
  <2>1. ver' \in [Procs -> Files] /\ mem' \in [Procs -> States] /\ job' \in [Procs -> Jobs]
    BY <1>19, InitialTypes DEF Crash
  <2>2. put' \in [Procs -> Puts]
    BY <1>16, <1>19 DEF Crash
  <2>3. keys' \in [Procs -> SUBSET WorkerSegments] /\ passed' \in [Procs -> BOOLEAN] /\ errors' \in Nat
    BY <1>19 DEF Crash, Error
  <2> QED BY <1>19, <2>1, <2>2, <2>3 DEF Crash, storeVars
<1>20. ASSUME NEW p \in Procs, ReadEnters(p) \/ ReadAnswered(p) PROVE TypeOK'
  BY <1>20 DEF ReadEnters, ReadAnswered, storeVars, procVars
<1>21. ASSUME NEW w \in WorkerSegments, WorkerDeletes(w) \/ \E p \in Procs : DeleteTombstone(p, w)
       PROVE  TypeOK'
  BY <1>21 DEF WorkerDeletes, DeleteTombstone, procVars, envVars
<1>22. CASE UNCHANGED vars
  BY <1>22 DEF vars, storeVars, procVars, envVars
<1> QED BY <1>1, <1>2, <1>3, <1>4, <1>5, <1>7, <1>8, <1>9, <1>10, <1>11, <1>12, <1>13, <1>14,
           <1>15, <1>18, <1>19, <1>20, <1>21, <1>22 DEF Next

-----------------------------------------------------------------------------
(* Steps of one process that leave the checkpoint alone.                   *)

\* Extension of states is a preorder.
LEMMA ExtendsOrder ==
  ASSUME NEW l \in States, NEW m \in States, NEW n \in States
  PROVE  Extends(m, m) /\ (Extends(l, m) /\ Extends(m, n) => Extends(l, n))
  BY DEF Extends, States

\* Only the part of the invariant about the moving process needs another look.
LEMMA LocalStep ==
  ASSUME IInv, TypeOK', UNCHANGED <<object, owner>>, NEW p \in Procs,
         \A q \in Procs \ {p} : /\ pc'[q] = pc[q] /\ ver'[q] = ver[q] /\ mem'[q] = mem[q]
                                /\ job'[q] = job[q] /\ put'[q] = put[q],
         VersionOf(p)', PutOf(p)', JobOf(p)',
         promised' \subseteq object.state.facts
  PROVE  IInv'
<1>1. AnsweredDurable'
  BY DEF AnsweredDurable
<1>2. ASSUME NEW q \in Procs \ {p} PROVE VersionOf(q)' /\ PutOf(q)' /\ JobOf(q)'
  <2>1. VersionOf(q) /\ PutOf(q) /\ JobOf(q)
    BY DEF IInv
  <2>2. VersionOf(q)'
    BY <2>1 DEF VersionOf, Live, Past, PastOf, Extends
  <2>3. PutOf(q)'
    BY <2>1 DEF PutOf, Past, PastOf, Extends
  <2>4. JobOf(q)'
    BY <2>1 DEF JobOf
  <2> QED BY <2>2, <2>3, <2>4
<1>3. Past(NoFile)'
  BY DEF IInv, Past, PastOf, Extends
<1> QED BY <1>1, <1>2, <1>3 DEF IInv

\* ClaimGet: the write it sends builds on the checkpoint it has just read.
LEMMA ClaimGetInv == ASSUME IInv, TypeOK', NEW p \in Procs, ClaimGet(p) PROVE IInv'
<1>1. /\ pc[p] = "off" /\ pc'[p] = "claim" /\ ver'[p] = ver[p] /\ mem'[p] = mem[p] /\ job'[p] = job[p]
      /\ put'[p] = [kind |-> "claim", status |-> "sent", old |-> object,
                    new |-> [gen |-> object.gen + 1, writer |-> WriterOf[p],
                             state |-> object.state, tombs |-> object.tombs]]
      /\ UNCHANGED <<object, owner, promised>>
  BY DEF ClaimGet, IInv, TypeOK, storeVars, envVars
<1>2. /\ put'[p].kind = "claim" /\ put'[p].status = "sent" /\ put'[p].old = object
      /\ put'[p].new.gen = object.gen + 1 /\ put'[p].new.state = object.state
  BY <1>1
<1>3. object.state \in States /\ object.gen \in Nat
  BY DEF IInv, TypeOK, Files
<1>4. Past(object)' /\ Extends(object.state, object.state)'
  BY <1>1, <1>3, ExtendsOrder DEF Past, PastOf, Extends
<1>5. VersionOf(p)'
  BY <1>1 DEF IInv, VersionOf, Past, PastOf, Extends, Live
<1>6. PutOf(p)'
  BY <1>1, <1>2, <1>4 DEF PutOf, Past, PastOf, Extends
<1>7. JobOf(p)'
  BY <1>1 DEF JobOf
<1>8. promised' \subseteq object.state.facts
  BY <1>1 DEF IInv, AnsweredDurable
<1>9. \A q \in Procs \ {p} : /\ pc'[q] = pc[q] /\ ver'[q] = ver[q] /\ mem'[q] = mem[q]
                             /\ job'[q] = job[q] /\ put'[q] = put[q]
  BY DEF ClaimGet, IInv, TypeOK
<1> QED BY <1>1, <1>5, <1>6, <1>7, <1>8, <1>9, LocalStep

\* Claimed: the process goes on from the state its claim has kept.
LEMMA ClaimedInv == ASSUME IInv, TypeOK', NEW p \in Procs, Claimed(p) PROVE IInv'
<1>1. /\ pc[p] = "claim" /\ put[p].status = "ok"
      /\ pc'[p] \in {"up", "clean"} /\ ver'[p] = put[p].new /\ mem'[p] = put[p].old.state
      /\ put'[p] = NoPut /\ UNCHANGED <<object, owner, promised>>
  BY DEF Claimed, IInv, TypeOK, storeVars, envVars
<1>2. /\ Past(put[p].new) /\ (put[p].new = object => owner = p) /\ put[p].new.state = put[p].old.state
  BY <1>1 DEF IInv, PutOf
<1>3. put[p].new \in Files /\ put[p].new.state \in States
  BY DEF IInv, TypeOK, Puts, Files
<1>4. Extends(put[p].new.state, put[p].new.state)
  BY <1>3, ExtendsOrder
<1>5. VersionOf(p)'
  BY <1>1, <1>2, <1>4 DEF VersionOf, Past, PastOf, Extends, Live
<1>6. PutOf(p)' /\ JobOf(p)'
  BY <1>1 DEF PutOf, JobOf, NoPut
<1>7. promised' \subseteq object.state.facts
  BY <1>1 DEF IInv, AnsweredDurable
<1>8. \A q \in Procs \ {p} : /\ pc'[q] = pc[q] /\ ver'[q] = ver[q] /\ mem'[q] = mem[q]
                             /\ job'[q] = job[q] /\ put'[q] = put[q]
  BY DEF Claimed, IInv, TypeOK
<1> QED BY <1>1, <1>5, <1>6, <1>7, <1>8, LocalStep

\* CommitGet: the write of the owner builds on the checkpoint it owns.
LEMMA CommitGetInv == ASSUME IInv, TypeOK', NEW p \in Procs, CommitGet(p) PROVE IInv'
<1>1. /\ pc[p] = "commit" /\ ver[p] = object /\ pc'[p] = "put"
      /\ ver'[p] = ver[p] /\ mem'[p] = mem[p] /\ job'[p] = job[p]
      /\ put'[p] = [kind |-> "commit", status |-> "sent", old |-> ver[p],
                    new |-> [gen |-> object.gen + 1, writer |-> object.writer,
                             state |-> mem[p], tombs |-> Tombstones(mem[p], keys[p])]]
      /\ UNCHANGED <<object, owner, promised>>
  BY DEF CommitGet, Owns, IInv, TypeOK, storeVars, envVars
<1>2. /\ put'[p].status = "sent" /\ put'[p].old = object
      /\ put'[p].new.gen = object.gen + 1 /\ put'[p].new.state = mem[p]
  BY <1>1
<1>3. VersionOf(p) /\ JobOf(p) /\ Live(p)
  BY <1>1 DEF IInv, Live
<1>4. owner = p /\ Extends(object.state, mem[p]) /\ Past(object)
  BY <1>1, <1>3 DEF VersionOf
<1>5. VersionOf(p)'
  BY <1>1, <1>3 DEF VersionOf, Past, PastOf, Extends, Live
<1>6. PutOf(p)'
  BY <1>1, <1>2, <1>4 DEF PutOf, Past, PastOf, Extends
<1>7. JobOf(p)'
  BY <1>1, <1>3 DEF JobOf
<1>8. promised' \subseteq object.state.facts
  BY <1>1 DEF IInv, AnsweredDurable
<1>9. \A q \in Procs \ {p} : /\ pc'[q] = pc[q] /\ ver'[q] = ver[q] /\ mem'[q] = mem[q]
                             /\ job'[q] = job[q] /\ put'[q] = put[q]
  BY DEF CommitGet, IInv, TypeOK
<1> QED BY <1>1, <1>5, <1>6, <1>7, <1>8, <1>9, LocalStep

\* CommitOk: what is promised is in the file whose write succeeded.
LEMMA CommitOkInv == ASSUME IInv, TypeOK', NEW p \in Procs, CommitOk(p) PROVE IInv'
<1>1. /\ pc[p] = "put" /\ put[p].status = "ok"
      /\ pc'[p] = "up" /\ ver'[p] = put[p].new /\ mem'[p] = mem[p]
      /\ put'[p] = NoPut /\ UNCHANGED <<object, owner>>
      /\ promised' \subseteq promised \cup job[p].facts \cup mem[p].facts
  BY DEF CommitOk, Answer, IInv, TypeOK, storeVars
<1>2. /\ Past(put[p].new) /\ (put[p].new = object => owner = p) /\ put[p].new.state = mem[p]
      /\ job[p].facts \subseteq mem[p].facts
  BY <1>1 DEF IInv, PutOf, JobOf
<1>3. mem[p] \in States
  BY DEF IInv, TypeOK
<1>4. Extends(mem[p], mem[p])
  BY <1>3, ExtendsOrder
<1>5. VersionOf(p)'
  BY <1>1, <1>2, <1>4 DEF VersionOf, Past, PastOf, Extends, Live
<1>6. PutOf(p)' /\ JobOf(p)'
  BY <1>1 DEF PutOf, JobOf, NoPut
<1>7. promised' \subseteq object.state.facts
  BY <1>1, <1>2 DEF IInv, AnsweredDurable, Past, PastOf, Extends
<1>8. \A q \in Procs \ {p} : /\ pc'[q] = pc[q] /\ ver'[q] = ver[q] /\ mem'[q] = mem[q]
                             /\ job'[q] = job[q] /\ put'[q] = put[q]
  BY DEF CommitOk, IInv, TypeOK
<1> QED BY <1>1, <1>5, <1>6, <1>7, <1>8, LocalStep

\* A handler that adds to memory.
LEMMA HandlerInv ==
  ASSUME IInv, TypeOK', NEW p \in Procs, pc[p] \in {"clean", "up", "store"},
         pc'[p] \in {"store", "commit"},
         UNCHANGED <<object, owner, promised, ver, put>>,
         Extends(mem[p], mem'[p]), job'[p].facts \subseteq mem'[p].facts,
         pc'[p] = "store" => job'[p].groups # << >>,
         \A q \in Procs \ {p} : pc'[q] = pc[q] /\ mem'[q] = mem[q] /\ job'[q] = job[q]
  PROVE  IInv'
<1>1. VersionOf(p) /\ PutOf(p) /\ Live(p)
  BY DEF IInv, Live
<1>2. ver[p].state \in States /\ mem[p] \in States /\ mem'[p] \in States
  BY DEF IInv, TypeOK, Files
<1>3. Extends(ver[p].state, mem'[p])
  BY <1>1, <1>2, ExtendsOrder DEF VersionOf
<1>4. VersionOf(p)'
  BY <1>1, <1>3 DEF VersionOf, Past, PastOf, Extends, Live
<1>5. PutOf(p)'
  BY <1>1 DEF PutOf
<1>6. JobOf(p)'
  BY DEF JobOf
<1>7. promised' \subseteq object.state.facts
  BY DEF IInv, AnsweredDurable
<1> QED BY <1>4, <1>5, <1>6, <1>7, LocalStep

\* The handlers that change memory and go on to commit.
LEMMA HandlerSteps ==
  ASSUME IInv, TypeOK', NEW p \in Procs,
         \/ \E w \in WorkerSegments : Announce(p, w) \/ Ack(p, w)
         \/ Released(p) \/ Consume(p) \/ Cleaned(p)
         \/ \E b \in Batches : Produce(p, b)
         \/ ProduceStore(p)
  PROVE  IInv'
<1>1. ASSUME NEW op, NEW F, NEW undo, Change(p, op, F, undo) PROVE IInv'
  <2>1. /\ pc[p] = "up" /\ pc'[p] = "commit" /\ UNCHANGED <<object, owner, promised, ver, put>>
        /\ mem'[p] = [mem[p] EXCEPT !.facts = @ \cup F] /\ job'[p].facts = F
        /\ \A q \in Procs \ {p} : pc'[q] = pc[q] /\ mem'[q] = mem[q] /\ job'[q] = job[q]
    BY <1>1 DEF Change, Idle, IInv, TypeOK, storeVars, envVars
  <2>2. mem'[p].facts = mem[p].facts \cup F /\ mem'[p].next = mem[p].next /\ mem[p].next \in Nat
    BY <2>1 DEF IInv, TypeOK, States
  <2>3. Extends(mem[p], mem'[p])
    BY <2>2 DEF Extends
  <2> QED BY <2>1, <2>2, <2>3, HandlerInv
<1>2. CASE Cleaned(p)
  <2>1. /\ pc[p] = "clean" /\ pc'[p] = "commit" /\ UNCHANGED <<object, owner, promised, ver, put, mem>>
        /\ job'[p].facts = {}
        /\ \A q \in Procs \ {p} : pc'[q] = pc[q] /\ job'[q] = job[q]
    BY <1>2, InitialTypes DEF Cleaned, IInv, TypeOK, storeVars, envVars, NoJob
  <2>2. Extends(mem[p], mem'[p])
    BY <2>1, ExtendsOrder DEF IInv, TypeOK
  <2> QED BY <2>1, <2>2, HandlerInv
<1>3. ASSUME NEW b \in Batches, Produce(p, b) PROVE IInv'
  <2>1. /\ pc[p] = "up" /\ pc'[p] = "store" /\ UNCHANGED <<object, owner, promised, ver, put>>
        /\ mem'[p] = [mem[p] EXCEPT !.next = @ + 1]
        /\ job'[p].facts = {} /\ job'[p].groups = GroupsOf[b]
        /\ \A q \in Procs \ {p} : pc'[q] = pc[q] /\ mem'[q] = mem[q] /\ job'[q] = job[q]
    BY <1>3 DEF Produce, Idle, IInv, TypeOK, storeVars, envVars
  <2>2. mem'[p].facts = mem[p].facts /\ mem'[p].next = mem[p].next + 1 /\ mem[p].next \in Nat
    BY <2>1 DEF IInv, TypeOK, States
  <2>3. Extends(mem[p], mem'[p]) /\ GroupsOf[b] # << >>
    BY <2>2, DurableAssumption DEF Extends
  <2> QED BY <2>1, <2>2, <2>3, HandlerInv
<1>4. CASE ProduceStore(p)
  <2> DEFINE n    == mem[p].next
             g    == Head(job[p].groups)
             rest == Tail(job[p].groups)
             m    == [next |-> IF rest = << >> THEN n ELSE n + 1, facts |-> mem[p].facts \cup {Published(n, g)}]
  <2>1. /\ pc[p] = "store" /\ pc'[p] = (IF rest = << >> THEN "commit" ELSE "store")
        /\ UNCHANGED <<object, owner, promised, ver, put>>
        /\ mem'[p] = m
        /\ job'[p].facts = job[p].facts \cup {Published(n, g)} /\ job'[p].groups = rest
        /\ \A q \in Procs \ {p} : pc'[q] = pc[q] /\ mem'[q] = mem[q] /\ job'[q] = job[q]
    BY <1>4 DEF ProduceStore, IInv, TypeOK, envVars
  <2>2. n \in Nat /\ job[p].facts \subseteq mem[p].facts
    BY <2>1 DEF IInv, TypeOK, States, JobOf
  <2>3. m.facts = mem[p].facts \cup {Published(n, g)} /\ m.next >= n
    BY <2>2
  <2>4. Extends(mem[p], mem'[p])
    BY <2>1, <2>2, <2>3 DEF Extends
  <2>5. job'[p].facts \subseteq mem'[p].facts /\ (pc'[p] = "store" => job'[p].groups # << >>)
    BY <2>1, <2>2, <2>3
  <2> QED BY <2>1, <2>4, <2>5, HandlerInv
<1> QED BY <1>1, <1>2, <1>3, <1>4 DEF Announce, Ack, Released, Consume

\* Giving up: the process loses its claim to serve, or returns from a Produce.
LEMMA LeavingSteps ==
  ASSUME IInv, TypeOK', NEW p \in Procs,
         ClaimLost(p) \/ ProduceFails(p) \/ CommitFenced(p) \/ CommitError(p) \/ Crash(p)
  PROVE  IInv'
<1>1. /\ UNCHANGED <<object, owner, promised>>
      /\ \A q \in Procs \ {p} : /\ pc'[q] = pc[q] /\ ver'[q] = ver[q] /\ mem'[q] = mem[q]
                                /\ job'[q] = job[q] /\ put'[q] = put[q]
  BY DEF ClaimLost, ProduceFails, CommitFenced, CommitError, Crash, Latch, Abandon,
         IInv, TypeOK, storeVars, envVars
<1>2. promised' \subseteq object.state.facts
  BY <1>1 DEF IInv, AnsweredDurable
<1>3. VersionOf(p) /\ PutOf(p) /\ Past(ver[p])
  BY DEF IInv, VersionOf
<1>4. CASE ProduceFails(p)
  <2>1. pc[p] = "store" /\ pc'[p] = "up" /\ ver' = ver /\ mem' = mem /\ put' = put
    BY <1>4 DEF ProduceFails, IInv, TypeOK
  <2>2. VersionOf(p)'
    BY <1>1, <1>3, <2>1 DEF VersionOf, Past, PastOf, Extends, Live
  <2>3. PutOf(p)' /\ JobOf(p)'
    BY <1>1, <1>3, <2>1 DEF PutOf, JobOf
  <2> QED BY <1>1, <1>2, <2>2, <2>3, LocalStep
<1>5. CASE ~ProduceFails(p)
  <2>1. pc'[p] \in {"dead", "failed"} /\ (put'[p] = NoPut \/ put'[p] = put[p])
    BY <1>5 DEF ClaimLost, CommitFenced, CommitError, Crash, Latch, Abandon, IInv, TypeOK
  <2>2. ver'[p] = ver[p] \/ ver'[p] = NoFile
    BY <1>5 DEF ClaimLost, CommitFenced, CommitError, Crash, Latch, IInv, TypeOK
  <2>3. Past(NoFile)
    BY DEF IInv
  <2>4. VersionOf(p)'
    BY <1>1, <1>3, <2>1, <2>2, <2>3 DEF VersionOf, Past, PastOf, Extends, Live
  <2>5. PutOf(p)'
    BY <1>1, <1>3, <2>1 DEF PutOf, Past, PastOf, Extends, NoPut
  <2>6. JobOf(p)'
    BY <2>1 DEF JobOf
  <2> QED BY <1>1, <1>2, <2>4, <2>5, <2>6, LocalStep
<1> QED BY <1>4, <1>5

-----------------------------------------------------------------------------
(* The store.                                                              *)

\* What a conditional write that takes effect does to the checkpoint.
LEMMA PutTakesEffect ==
  ASSUME IInv, NEW p \in Procs, StorePut(p), object = put[p].old
  PROVE  /\ object' = put[p].new /\ object'.gen = object.gen + 1
         /\ Extends(object.state, object'.state)
         /\ put[p].kind = "commit" => owner = p
<1>1. put[p].status = "sent" /\ object' = put[p].new
  BY DEF StorePut
<1> QED BY <1>1 DEF IInv, PutOf

\* StorePut: what was past stays past, and a new present is known to its writer only.
LEMMA StorePutInv == ASSUME IInv, TypeOK', NEW p \in Procs, StorePut(p) PROVE IInv'
<1>1. /\ put[p].status = "sent" /\ UNCHANGED <<pc, ver, mem, job, promised>>
      /\ \A q \in Procs \ {p} : put'[q] = put[q]
      /\ put'[p].new = put[p].new /\ put'[p].old = put[p].old /\ put'[p].kind = put[p].kind
  BY DEF StorePut, IInv, TypeOK, Puts
<1>2. CASE object # put[p].old
  <2>1. UNCHANGED <<object, owner>> /\ put'[p].status = "conflict"
    BY <1>2 DEF StorePut, IInv, TypeOK, Puts
  <2>2. VersionOf(p)' /\ JobOf(p)'
    BY <1>1, <2>1 DEF IInv, VersionOf, JobOf, Past, PastOf, Extends, Live
  <2>3. PutOf(p)'
    BY <1>1, <2>1 DEF IInv, PutOf
  <2>4. promised' \subseteq object.state.facts
    BY <1>1 DEF IInv, AnsweredDurable
  <2> QED BY <1>1, <2>1, <2>2, <2>3, <2>4, LocalStep
<1>3. CASE object = put[p].old
  <2>1. /\ object' = put[p].new /\ object'.gen = object.gen + 1 /\ Extends(object.state, object'.state)
        /\ owner' = p /\ put'[p].status = "ok"
    BY <1>3, PutTakesEffect DEF StorePut, IInv, TypeOK, Puts
  <2>2. /\ object.gen \in Nat /\ object.state \in States /\ object'.state \in States
        /\ \A f \in Files : f.gen \in Nat /\ f.state \in States
    BY DEF IInv, TypeOK, Files
  <2>3. ASSUME NEW f \in Files, PastOf(f, object)
        PROVE  PastOf(f, object') /\ f # object'
    <3>1. f.gen <= object.gen /\ Extends(f.state, object.state)
      BY <2>3 DEF PastOf
    <3>2. f.gen < object'.gen
      BY <2>1, <2>2, <3>1
    <3>3. Extends(f.state, object'.state)
      BY <2>1, <2>2, <3>1, ExtendsOrder
    <3>4. f.gen <= object'.gen /\ f.gen # object'.gen
      BY <2>1, <2>2, <3>2
    <3> QED BY <3>3, <3>4 DEF PastOf
  <2>4. \A q \in Procs : ver[q] \in Files /\ put[q].old \in Files /\ put[q].new \in Files
    BY DEF IInv, TypeOK, Puts
  <2>5. ASSUME NEW q \in Procs PROVE VersionOf(q)' /\ JobOf(q)'
    <3>1. VersionOf(q) /\ JobOf(q)
      BY DEF IInv
    <3>2. PastOf(ver[q], object') /\ ver[q] # object'
      BY <2>3, <2>4, <3>1 DEF VersionOf, Past
    <3>3. VersionOf(q)'
      BY <1>1, <3>1, <3>2 DEF VersionOf, Past, Live
    <3> QED BY <1>1, <3>1, <3>3 DEF JobOf
  <2>6. ASSUME NEW q \in Procs, q # p PROVE PutOf(q)'
    <3>1. PutOf(q) /\ put'[q] = put[q]
      BY <1>1, <2>6 DEF IInv
    <3>2. put[q].status = "sent" => PastOf(put[q].old, object') /\ put[q].old # object'
      BY <2>3, <2>4, <3>1 DEF PutOf, Past
    <3>3. put[q].status = "ok" => PastOf(put[q].new, object') /\ put[q].new # object'
      BY <2>3, <2>4, <3>1 DEF PutOf, Past
    <3> QED BY <1>1, <3>1, <3>2, <3>3 DEF PutOf, Past
  <2>7. PutOf(p)'
    <3>1. PastOf(object', object')
      BY <2>1, <2>2, ExtendsOrder DEF PastOf
    <3>2. PutOf(p)
      BY DEF IInv
    <3> QED BY <1>1, <2>1, <3>1, <3>2 DEF PutOf, Past
  <2>8. Past(NoFile)'
    BY <2>3, InitialTypes DEF IInv, Past
  <2>9. AnsweredDurable'
    BY <1>1, <2>1 DEF IInv, AnsweredDurable, Extends
  <2> QED BY <2>5, <2>6, <2>7, <2>8, <2>9 DEF IInv
<1> QED BY <1>2, <1>3

\* Every step keeps the invariant.
LEMMA NextInv == IInv /\ [Next]_vars => IInv'
<1> SUFFICES ASSUME IInv, [Next]_vars PROVE IInv'
  OBVIOUS
<1>1. TypeOK'
  BY TypeStep DEF IInv
<1>2. CASE \E p \in Procs : StorePut(p)
  BY <1>1, <1>2, StorePutInv
<1>3. CASE \E p \in Procs : ClaimGet(p) \/ Claimed(p) \/ CommitGet(p) \/ CommitOk(p)
  BY <1>1, <1>3, ClaimGetInv, ClaimedInv, CommitGetInv, CommitOkInv
<1>4. CASE \E p \in Procs : \/ \E w \in WorkerSegments : Announce(p, w) \/ Ack(p, w)
                            \/ Released(p) \/ Consume(p) \/ Cleaned(p)
                            \/ \E b \in Batches : Produce(p, b)
                            \/ ProduceStore(p)
  BY <1>1, <1>4, HandlerSteps
<1>5. CASE \E p \in Procs : ClaimLost(p) \/ ProduceFails(p) \/ CommitFenced(p) \/ CommitError(p) \/ Crash(p)
  BY <1>1, <1>5, LeavingSteps
<1>6. CASE UNCHANGED <<object, owner, promised, pc, ver, mem, job, put>>
  <2>1. AnsweredDurable' /\ Past(NoFile)'
    BY <1>6 DEF IInv, AnsweredDurable, Past, PastOf, Extends
  <2>2. ASSUME NEW p \in Procs PROVE VersionOf(p)' /\ PutOf(p)' /\ JobOf(p)'
    BY <1>6 DEF IInv, VersionOf, PutOf, JobOf, Past, PastOf, Extends, Live
  <2> QED BY <1>1, <2>1, <2>2 DEF IInv
<1>7. CASE \/ \E p \in Procs, w \in WorkerSegments : DeleteTombstone(p, w)
           \/ \E p \in Procs : ReadEnters(p) \/ ReadAnswered(p)
           \/ \E w \in WorkerSegments : WorkerDeletes(w)
           \/ UNCHANGED vars
  <2>1. UNCHANGED <<object, owner, promised, pc, ver, mem, job, put>>
    BY <1>7 DEF DeleteTombstone, ReadEnters, ReadAnswered, WorkerDeletes, vars, storeVars, procVars, envVars
  <2> QED BY <1>6, <2>1
<1> QED BY <1>2, <1>3, <1>4, <1>5, <1>7 DEF Next

-----------------------------------------------------------------------------
(* The theorems.                                                           *)

\* The inductive invariant holds in every reachable state.
THEOREM Invariant == Spec => []IInv
  BY InitInv, NextInv, PTL DEF Spec

\* Everything keeps its type (TypeOK).
THEOREM TypeCorrect == Spec => []TypeOK
<1>1. IInv => TypeOK
  BY DEF IInv
<1> QED BY <1>1, Invariant, PTL

\* No successful answer is ever taken back, whatever fails, crashes or is fenced
\* (AnsweredDurable).
THEOREM Durability == Spec => []AnsweredDurable
<1>1. IInv => AnsweredDurable
  BY DEF IInv
<1> QED BY <1>1, Invariant, PTL

\* At most one serving process can still change the checkpoint (OneOwner).
THEOREM SingleWriter == Spec => []OneOwner
<1>1. IInv => OneOwner
  BY DEF IInv, OneOwner, Serving, VersionOf, Live
<1> QED BY <1>1, Invariant, PTL

\* What a step may do to the checkpoint.
Grown == object' # object => /\ object'.gen = object.gen + 1
                             /\ object.state.facts \subseteq object'.state.facts
                             /\ object.state.next <= object'.state.next

\* Who may take the checkpoint over.
TakenByClaim == \A p \in Procs : owner' = p /\ owner # p => put[p].kind = "claim"

\* Only a conditional write changes the checkpoint or its owner.
LEMMA OnlyPuts ==
  ASSUME Next, ~ \E p \in Procs : StorePut(p)
  PROVE  UNCHANGED <<object, owner>>
  BY DEF Next, ClaimGet, Claimed, ClaimLost, Cleaned, DeleteTombstone, Announce, Ack, Released, Consume,
         Change, Produce, ProduceStore, ProduceFails, CommitGet, CommitOk, CommitFenced, CommitError, Latch,
         Crash, ReadEnters, ReadAnswered, WorkerDeletes, storeVars, procVars, envVars

\* A conditional write extends the checkpoint, and usurps it only as a claim.
LEMMA StepGrows == ASSUME IInv, Next PROVE Grown /\ TakenByClaim
<1>1. CASE UNCHANGED <<object, owner>>
  BY <1>1 DEF Grown, TakenByClaim
<1>2. ASSUME NEW p \in Procs, StorePut(p) PROVE Grown /\ TakenByClaim
  <2>1. CASE object # put[p].old
    BY <1>1, <1>2, <2>1 DEF StorePut
  <2>2. CASE object = put[p].old
    <3>1. /\ object'.gen = object.gen + 1 /\ Extends(object.state, object'.state)
          /\ put[p].kind = "commit" => owner = p
      BY <1>2, <2>2, PutTakesEffect
    <3>2. owner' = p /\ put[p].kind # "none"
      BY <1>2, <2>2 DEF StorePut, IInv, PutOf
    <3>3. put[p].kind \in {"claim", "commit"}
      BY <3>2 DEF IInv, TypeOK, Puts
    <3> QED BY <3>1, <3>2, <3>3 DEF Grown, TakenByClaim, Extends
  <2> QED BY <2>1, <2>2
<1> QED BY <1>1, <1>2, OnlyPuts

\* The checkpoint has one line of history and loses no fact (HistoryGrows).
THEOREM OneHistory == Spec => HistoryGrows
<1>1. IInv /\ [Next]_vars => [Grown]_vars
  BY StepGrows
<1>2. Spec => [][Grown]_vars
  BY <1>1, Invariant, PTL DEF Spec
<1>3. Grown <=> (object' # object => /\ object'.gen = object.gen + 1
                                     /\ object.state.facts \subseteq object'.state.facts
                                     /\ object.state.next <= object'.state.next)
  BY DEF Grown
<1> QED BY <1>2, <1>3, PTL DEF HistoryGrows

\* A fenced process stays fenced: the checkpoint is taken over by claims only
\* (FencedStays).
THEOREM Fencing == Spec => FencedStays
<1>1. IInv /\ [Next]_vars => [TakenByClaim]_vars
  BY StepGrows
<1>2. Spec => [][TakenByClaim]_vars
  BY <1>1, Invariant, PTL DEF Spec
<1>3. TakenByClaim <=> \A p \in Procs : owner' = p /\ owner # p => put[p].kind = "claim"
  BY DEF TakenByClaim
<1> QED BY <1>2, <1>3, PTL DEF FencedStays
-----------------------------------------------------------------------------
(* The bytes behind the metadata, and what readers are shown.              *)

\* The published records of a state are stored, and it forgets only what it has released.
StateOk(m, stored) ==
  /\ \A n \in Nat, g \in Groups : Published(n, g) \in m.facts => <<n, g>> \in stored
  /\ \A w \in WorkerSegments : Forgotten(w) \in m.facts => Dropped(w) \in m.facts

\* A checkpoint marks for deletion only what its state has released.
FileOk(f, stored) ==
  /\ StateOk(f.state, stored)
  /\ \A w \in f.tombs : Dropped(w) \in f.state.facts

\* What a reader is shown, records of a failed Produce apart.
Shown(m) == {f \in m.facts : f[1] # "published"}

BytesOf(p) ==
  /\ FileOk(ver[p], blobs) /\ FileOk(put[p].old, blobs) /\ FileOk(put[p].new, blobs)
  /\ Live(p) => StateOk(mem[p], blobs) /\ \A w \in keys[p] : Dropped(w) \in mem[p].facts
  /\ pc[p] \in {"off", "claim"} => keys[p] = {}
  /\ pc[p] \in {"clean", "up", "store"} => Shown(mem[p]) \subseteq ver[p].state.facts

\* An identifier has one group of records, and what is deleted, or may be, is released in
\* the checkpoint.
StoreOk ==
  /\ \A n \in Nat, g, h \in Groups : <<n, g>> \in blobs /\ <<n, h>> \in blobs => g = h
  /\ FileOk(object, blobs)
  /\ \A w \in WorkerSegments : w \notin held \/ w \in reported => Dropped(w) \in object.state.facts

BInv == StoreOk /\ \A p \in Procs : BytesOf(p)

LEMMA Distinct ==
  /\ \A n, g, w : Published(n, g) \notin {Announced(w), Dropped(w), Forgotten(w)}
  /\ \A v, w : Forgotten(v) \notin {Announced(w), Dropped(w)} /\ (Forgotten(v) = Forgotten(w) => v = w)
  /\ \A n, g, m, h : Published(n, g) = Published(m, h) => n = m /\ g = h
  /\ \A n, g : Published(n, g)[1] = "published"
  BY DEF Published, Announced, Dropped, Forgotten

LEMMA OkGrows ==
  ASSUME NEW stored, NEW more, stored \subseteq more
  PROVE  /\ \A m : StateOk(m, stored) => StateOk(m, more)
         /\ \A f : FileOk(f, stored) => FileOk(f, more)
  BY DEF StateOk, FileOk

LEMMA EmptyOk == FileOk(NoFile, blobs) /\ FileOk(NoFile, blobs')
  BY DEF FileOk, StateOk, NoFile, Empty

LEMMA InitBytes == Init => BInv
<1> SUFFICES ASSUME Init PROVE BInv
  OBVIOUS
<1>1. StoreOk
  BY EmptyOk DEF Init, StoreOk
<1>2. ASSUME NEW p \in Procs PROVE BytesOf(p)
  <2>1. ver[p] = NoFile /\ put[p] = NoPut /\ keys[p] = {} /\ pc[p] = "off"
    BY DEF Init
  <2>2. NoPut.old = NoFile /\ NoPut.new = NoFile
    BY DEF NoPut
  <2> QED BY <2>1, <2>2, EmptyOk DEF BytesOf, Live
<1> QED BY <1>1, <1>2 DEF BInv

\* A step of process p concerns no other process.
LEMMA BytesOfOne ==
  ASSUME BInv, NEW p \in Procs, blobs \subseteq blobs', StoreOk', BytesOf(p)',
         \A q \in Procs \ {p} : /\ ver'[q] = ver[q] /\ put'[q] = put[q] /\ mem'[q] = mem[q]
                                /\ keys'[q] = keys[q] /\ pc'[q] = pc[q]
  PROVE  BInv'
<1>1. ASSUME NEW q \in Procs, q # p PROVE BytesOf(q)'
  <2>1. BytesOf(q)
    BY DEF BInv
  <2>2. /\ FileOk(ver[q], blobs') /\ FileOk(put[q].old, blobs') /\ FileOk(put[q].new, blobs')
        /\ Live(q) => StateOk(mem[q], blobs')
    BY <2>1, OkGrows DEF BytesOf
  <2> QED BY <1>1, <2>1, <2>2 DEF BytesOf, Live
<1> QED BY <1>1 DEF BInv

LEMMA StoreSame ==
  ASSUME BInv, UNCHANGED <<object, blobs, held, reported>> PROVE StoreOk' /\ blobs \subseteq blobs'
  BY DEF BInv, StoreOk

\* What has been in a checkpoint that is past is in the checkpoint.
LEMMA PastFacts ==
  ASSUME IInv, NEW f, Past(f) PROVE f.state.facts \subseteq object.state.facts
  BY DEF Past, PastOf, Extends

LEMMA StorePutBytes == ASSUME IInv, BInv, NEW p \in Procs, StorePut(p) PROVE BInv'
<1>1. /\ object' = object \/ object' = put[p].new
      /\ UNCHANGED <<blobs, held, pc, ver, mem, keys, reported>>
  BY DEF StorePut
<1>2. object.state.facts \subseteq object'.state.facts
  <2>1. Next
    BY DEF Next
  <2> QED BY <2>1, StepGrows DEF Grown
<1>3. BytesOf(p) /\ StoreOk
  BY DEF BInv
<1>4. StoreOk'
  <2>1. FileOk(object', blobs')
    BY <1>1, <1>3 DEF StoreOk, BytesOf
  <2> QED BY <1>1, <1>2, <1>3, <2>1 DEF StoreOk
<1>5. put[p] \in Puts /\ put \in [Procs -> Puts]
  BY DEF IInv, TypeOK
<1>6. put'[p].old = put[p].old /\ put'[p].new = put[p].new
  BY <1>5 DEF StorePut, Puts
<1>7. \A q \in Procs \ {p} : put'[q] = put[q]
  BY <1>5 DEF StorePut
<1>8. BytesOf(p)'
  BY <1>1, <1>3, <1>6 DEF BytesOf, Live
<1> QED BY <1>1, <1>4, <1>7, <1>8, BytesOfOne

LEMMA ClaimBytes == ASSUME IInv, BInv, NEW p \in Procs, ClaimGet(p) \/ Claimed(p) \/ ClaimLost(p) PROVE BInv'
<1>1. BytesOf(p) /\ FileOk(object, blobs) /\ PutOf(p)
  BY DEF BInv, StoreOk, IInv
<1>2. /\ UNCHANGED <<object, blobs, held, reported, keys>>
      /\ \A q \in Procs \ {p} : /\ ver'[q] = ver[q] /\ put'[q] = put[q] /\ mem'[q] = mem[q]
                                /\ keys'[q] = keys[q] /\ pc'[q] = pc[q]
  BY DEF ClaimGet, Claimed, ClaimLost, storeVars, envVars, IInv, TypeOK
<1>3. NoPut.old = NoFile /\ NoPut.new = NoFile
  BY DEF NoPut
<1>4. ASSUME ClaimGet(p) PROVE BytesOf(p)'
  <2>1. /\ pc[p] = "off" /\ pc'[p] = "claim" /\ ver'[p] = ver[p]
        /\ put'[p].old = object /\ put'[p].new.state = object.state /\ put'[p].new.tombs = object.tombs
    BY <1>4 DEF ClaimGet, IInv, TypeOK
  <2>2. FileOk(put'[p].new, blobs)
    BY <1>1, <2>1 DEF FileOk
  <2> QED BY <1>1, <1>2, <2>1, <2>2 DEF BytesOf, Live
<1>5. ASSUME Claimed(p) PROVE BytesOf(p)'
  <2>1. /\ pc[p] = "claim" /\ pc'[p] \in {"up", "clean"} /\ ver'[p] = put[p].new
        /\ put'[p] = NoPut /\ mem'[p] = put[p].old.state
    BY <1>5 DEF Claimed, IInv, TypeOK
  <2>2. put[p].new.state = mem'[p] /\ StateOk(mem'[p], blobs) /\ keys[p] = {}
    BY <1>1, <2>1 DEF PutOf, BytesOf, FileOk
  <2>3. Shown(mem'[p]) \subseteq ver'[p].state.facts
    BY <2>1, <2>2 DEF Shown
  <2> QED BY <1>1, <1>2, <1>3, <2>1, <2>2, <2>3, EmptyOk DEF BytesOf
<1>6. ASSUME ClaimLost(p) PROVE BytesOf(p)'
  <2>1. pc'[p] = "dead" /\ put'[p] = NoPut /\ ver'[p] = ver[p]
    BY <1>6 DEF ClaimLost, IInv, TypeOK
  <2> QED BY <1>1, <1>2, <1>3, <2>1, EmptyOk DEF BytesOf, Live
<1>7. BytesOf(p)'
  BY <1>4, <1>5, <1>6
<1> QED BY <1>2, <1>7, StoreSame, BytesOfOne

LEMMA DeleteBytes ==
  ASSUME IInv, BInv, NEW w \in WorkerSegments, (\E p \in Procs : DeleteTombstone(p, w)) \/ WorkerDeletes(w) PROVE BInv'
<1>1. Dropped(w) \in object.state.facts
  <2>1. CASE WorkerDeletes(w)
    BY <2>1 DEF WorkerDeletes, BInv, StoreOk
  <2>2. ASSUME NEW p \in Procs, DeleteTombstone(p, w) PROVE Dropped(w) \in object.state.facts
    <3>1. Past(ver[p]) /\ Dropped(w) \in ver[p].state.facts
      BY <2>2 DEF DeleteTombstone, IInv, VersionOf, BInv, BytesOf, FileOk
    <3> QED BY <3>1, PastFacts
  <2> QED BY <2>1, <2>2
<1>2. held' = held \ {w} /\ UNCHANGED <<object, blobs, reported, pc, ver, mem, keys, put>>
  BY DEF DeleteTombstone, WorkerDeletes, procVars, envVars
<1>3. StoreOk'
  BY <1>1, <1>2 DEF BInv, StoreOk
<1>4. ASSUME NEW q \in Procs PROVE BytesOf(q)'
  BY <1>2 DEF BInv, BytesOf, Live
<1> QED BY <1>3, <1>4 DEF BInv

\* A handler changes memory and is about to commit.
LEMMA ChangeBytes ==
  ASSUME IInv, BInv, NEW p \in Procs, NEW op, NEW F, NEW undo, Change(p, op, F, undo),
         \A q \in Procs \ {p} : keys'[q] = keys[q],
         StateOk([mem[p] EXCEPT !.facts = @ \cup F], blobs),
         \A w \in keys'[p] : Dropped(w) \in mem[p].facts
  PROVE  BInv'
<1>1. /\ UNCHANGED <<object, blobs, held, reported>>
      /\ \A q \in Procs \ {p} : /\ ver'[q] = ver[q] /\ put'[q] = put[q] /\ mem'[q] = mem[q]
                                /\ keys'[q] = keys[q] /\ pc'[q] = pc[q]
  BY DEF Change, storeVars, envVars, IInv, TypeOK
<1>2. mem[p] \in States
  BY DEF IInv, TypeOK
<1>3. /\ pc'[p] = "commit" /\ ver'[p] = ver[p] /\ put'[p] = put[p]
      /\ mem'[p] = [mem[p] EXCEPT !.facts = @ \cup F]
  BY DEF Change, IInv, TypeOK
<1>4. mem[p].facts \subseteq mem'[p].facts
  BY <1>2, <1>3 DEF States
<1>5. BytesOf(p)'
  BY <1>1, <1>3, <1>4 DEF BInv, BytesOf
<1> QED BY <1>1, <1>5, StoreSame, BytesOfOne

LEMMA HandlerBytes ==
  ASSUME IInv, BInv, NEW p \in Procs,
         (\E w \in WorkerSegments : Announce(p, w) \/ Ack(p, w)) \/ Released(p) \/ Consume(p)
  PROVE  BInv'
<1> DEFINE m == mem[p].facts
           out == {w \in WorkerSegments : Dropped(w) \in m /\ Forgotten(w) \notin m}
<1>1. Idle(p)
  BY DEF Announce, Ack, Released, Consume, Change
<1>2. mem[p] \in States /\ keys \in [Procs -> SUBSET WorkerSegments]
  BY DEF IInv, TypeOK
<1>3. StateOk(mem[p], blobs) /\ \A w \in keys[p] : Dropped(w) \in m
  BY <1>1 DEF BInv, BytesOf, Idle, Live
<1>4. ASSUME NEW F, \A n \in Nat, g \in Groups : Published(n, g) \notin F,
             \A w \in WorkerSegments : Forgotten(w) \in F => Dropped(w) \in m
      PROVE  StateOk([mem[p] EXCEPT !.facts = @ \cup F], blobs)
  <2>1. [mem[p] EXCEPT !.facts = @ \cup F].facts = m \cup F
    BY <1>2 DEF States
  <2> QED BY <1>3, <1>4, <2>1 DEF StateOk
<1>5. ASSUME NEW w \in WorkerSegments, Announce(p, w) \/ Ack(p, w) PROVE BInv'
  <2>1. PICK F \in {{Announced(w)}, {Dropped(w)}} : \E op, undo : Change(p, op, F, undo) /\ UNCHANGED keys
    BY <1>5 DEF Announce, Ack
  <2>2. StateOk([mem[p] EXCEPT !.facts = @ \cup F], blobs)
    BY <1>4, <2>1, Distinct
  <2> QED BY <1>3, <2>1, <2>2, ChangeBytes
<1>6. CASE Consume(p)
  <2>1. StateOk([mem[p] EXCEPT !.facts = @ \cup {}], blobs)
    BY <1>4
  <2> QED BY <1>3, <1>6, <2>1, ChangeBytes DEF Consume
<1>7. CASE Released(p)
  <2>1. /\ Change(p, "released", {Forgotten(w) : w \in out}, mem[p])
        /\ keys' = [keys EXCEPT ![p] = keys[p] \cup out]
    BY <1>7 DEF Released
  <2>2. StateOk([mem[p] EXCEPT !.facts = @ \cup {Forgotten(w) : w \in out}], blobs)
    <3>1. \A n \in Nat, g \in Groups : Published(n, g) \notin {Forgotten(w) : w \in out}
      BY Distinct
    <3>2. \A w \in WorkerSegments : Forgotten(w) \in {Forgotten(v) : v \in out} => Dropped(w) \in m
      BY Distinct
    <3> HIDE DEF out
    <3> QED BY <1>4, <3>1, <3>2
  <2>3. \A w \in keys'[p] : Dropped(w) \in m
    BY <1>2, <1>3, <2>1
  <2>4. \A q \in Procs \ {p} : keys'[q] = keys[q]
    BY <1>2, <2>1
  <2> HIDE DEF out
  <2> QED BY <2>1, <2>2, <2>3, <2>4, ChangeBytes
<1> QED BY <1>5, <1>6, <1>7

LEMMA ProduceBytes ==
  ASSUME IInv, BInv, NEW p \in Procs, (\E b \in Batches : Produce(p, b)) \/ ProduceStore(p) \/ ProduceFails(p) PROVE BInv'
<1> DEFINE n == mem[p].next
           g == Head(job[p].groups)
<1>1. /\ UNCHANGED <<object, held, reported, ver, keys, put>>
      /\ \A q \in Procs \ {p} : mem'[q] = mem[q] /\ pc'[q] = pc[q]
  BY DEF Produce, ProduceStore, ProduceFails, storeVars, envVars, IInv, TypeOK
<1>2. mem[p] \in States /\ mem \in [Procs -> States] /\ pc[p] \in {"up", "store"}
  BY DEF IInv, TypeOK, Produce, ProduceStore, ProduceFails, Idle
<1>3. BytesOf(p) /\ StoreOk /\ n \in Nat
  BY <1>2 DEF BInv, States
<1>4. /\ StateOk(mem[p], blobs) /\ \A w \in keys[p] : Dropped(w) \in mem[p].facts
      /\ Shown(mem[p]) \subseteq ver[p].state.facts
  BY <1>2, <1>3 DEF BytesOf, Live
<1>5. pc[p] = "store" => g \in Groups
  <2>1. job[p].groups \in Seq(Groups) /\ (pc[p] = "store" => job[p].groups # << >>)
    BY DEF IInv, TypeOK, Jobs, JobOf
  <2> QED BY <2>1
\* The bytes of an identifier are written once.
<1>6. ASSUME pc[p] = "store", \A h \in Groups : <<n, h>> \in blobs => h = g, blobs' \in {blobs, blobs \cup {<<n, g>>}}
      PROVE  StoreOk'
  <2>1. \A k \in Nat, a, b \in Groups : <<k, a>> \in blobs' /\ <<k, b>> \in blobs' => a = b
    BY <1>3, <1>6 DEF StoreOk
  <2>2. FileOk(object', blobs')
    BY <1>1, <1>3, <1>6, OkGrows DEF StoreOk
  <2> QED BY <1>1, <1>3, <2>1, <2>2 DEF StoreOk
<1>7. ASSUME NEW b \in Batches, Produce(p, b) PROVE BInv'
  <2>1. blobs' = blobs /\ pc'[p] = "store" /\ mem'[p] = [mem[p] EXCEPT !.next = @ + 1]
    BY <1>2, <1>7 DEF Produce, storeVars, IInv, TypeOK
  <2>2. mem'[p].facts = mem[p].facts
    BY <1>2, <2>1 DEF States
  <2>3. BytesOf(p)'
    BY <1>1, <1>2, <1>3, <1>4, <2>1, <2>2 DEF BytesOf, StateOk, Shown
  <2> QED BY <1>1, <2>1, <2>3, StoreSame, BytesOfOne
<1>8. CASE ProduceStore(p)
  <2>1. /\ pc[p] = "store" /\ pc'[p] \in {"commit", "store"} /\ blobs' = blobs \cup {<<n, g>>}
        /\ \A h \in Groups : <<n, h>> \in blobs => h = g
        /\ mem'[p].facts = mem[p].facts \cup {Published(n, g)}
    BY <1>2, <1>8 DEF ProduceStore, IInv, TypeOK
  <2>2. StateOk(mem'[p], blobs')
    <3>1. ASSUME NEW k \in Nat, NEW h \in Groups, Published(k, h) \in mem'[p].facts PROVE <<k, h>> \in blobs'
      <4>1. Published(k, h) \in mem[p].facts \/ (k = n /\ h = g)
        BY <2>1, <3>1, Distinct
      <4> QED BY <1>4, <2>1, <4>1 DEF StateOk
    <3>2. ASSUME NEW w \in WorkerSegments, Forgotten(w) \in mem'[p].facts PROVE Dropped(w) \in mem'[p].facts
      <4>1. Forgotten(w) \in mem[p].facts
        BY <2>1, <3>2, Distinct
      <4> QED BY <1>4, <2>1, <4>1 DEF StateOk
    <3> QED BY <3>1, <3>2 DEF StateOk
  <2>3. Shown(mem'[p]) = Shown(mem[p])
    BY <2>1, Distinct DEF Shown
  <2>4. FileOk(ver[p], blobs') /\ FileOk(put[p].old, blobs') /\ FileOk(put[p].new, blobs')
    BY <1>3, <2>1, OkGrows DEF BytesOf
  <2>5. BytesOf(p)'
    BY <1>1, <1>4, <2>1, <2>2, <2>3, <2>4 DEF BytesOf
  <2> QED BY <1>1, <1>6, <2>1, <2>5, BytesOfOne
<1>9. CASE ProduceFails(p)
  <2>1. pc[p] = "store" /\ pc'[p] = "up" /\ mem'[p] = mem[p] /\ blobs \subseteq blobs'
    BY <1>9 DEF ProduceFails, IInv, TypeOK
  <2>2. StoreOk'
    <3>1. CASE blobs' = blobs
      BY <1>1, <3>1, StoreSame
    <3>2. CASE blobs' # blobs
      <4>1. (\A h \in Groups : <<n, h>> \in blobs => h = g) /\ blobs' \in {blobs, blobs \cup {<<n, g>>}}
        BY <1>9, <3>2 DEF ProduceFails
      <4> QED BY <1>6, <2>1, <4>1
    <3> QED BY <3>1, <3>2
  <2>3. BytesOf(p)'
    <3>1. FileOk(ver[p], blobs') /\ FileOk(put[p].old, blobs') /\ FileOk(put[p].new, blobs') /\ StateOk(mem[p], blobs')
      BY <1>3, <1>4, <2>1, OkGrows DEF BytesOf
    <3> QED BY <1>1, <1>4, <2>1, <3>1 DEF BytesOf
  <2> QED BY <1>1, <2>1, <2>2, <2>3, BytesOfOne
<1> QED BY <1>7, <1>8, <1>9

LEMMA CommitBytes ==
  ASSUME IInv, BInv, NEW p \in Procs, Cleaned(p) \/ CommitGet(p) \/ CommitOk(p) PROVE BInv'
<1>1. /\ UNCHANGED <<object, blobs, held, mem, keys>>
      /\ \A q \in Procs \ {p} : ver'[q] = ver[q] /\ put'[q] = put[q] /\ pc'[q] = pc[q]
  BY DEF Cleaned, CommitGet, CommitOk, storeVars, IInv, TypeOK
<1>2. BytesOf(p) /\ StoreOk /\ PutOf(p) /\ JobOf(p) /\ Live(p)
  BY DEF BInv, IInv, Cleaned, CommitGet, CommitOk, Live
<1>3. StateOk(mem[p], blobs) /\ \A w \in keys[p] : Dropped(w) \in mem[p].facts
  BY <1>2 DEF BytesOf
<1>4. CASE Cleaned(p)
  <2>1. pc'[p] = "commit" /\ UNCHANGED <<ver, put, reported>>
    BY <1>4 DEF Cleaned, envVars, IInv, TypeOK
  <2>2. BytesOf(p)'
    BY <1>1, <1>2, <1>3, <2>1 DEF BytesOf
  <2> QED BY <1>1, <2>1, <2>2, StoreSame, BytesOfOne
<1>5. CASE CommitGet(p)
  <2>1. /\ pc'[p] = "put" /\ UNCHANGED <<ver, reported>> /\ put'[p].old = ver[p]
        /\ put'[p].new.state = mem[p] /\ put'[p].new.tombs = Tombstones(mem[p], keys[p])
    BY <1>5 DEF CommitGet, envVars, IInv, TypeOK
  <2>2. FileOk(put'[p].new, blobs)
    BY <1>3, <2>1 DEF FileOk, Tombstones
  <2>3. BytesOf(p)'
    BY <1>1, <1>2, <1>3, <2>1, <2>2 DEF BytesOf
  <2> QED BY <1>1, <2>1, <2>3, StoreSame, BytesOfOne
<1>6. CASE CommitOk(p)
  <2>1. /\ pc[p] = "put" /\ put[p].status = "ok" /\ pc'[p] = "up" /\ ver'[p] = put[p].new /\ put'[p] = NoPut
    BY <1>6 DEF CommitOk, IInv, TypeOK
  <2>2. put[p].new.state = mem[p] /\ Past(put[p].new)
    BY <1>2, <2>1 DEF PutOf
  <2>3. mem[p].facts \subseteq object.state.facts /\ job[p].facts \subseteq mem[p].facts
    BY <1>2, <2>1, <2>2, PastFacts DEF JobOf
  <2>4. \A w \in reported' : w \in reported \/ (w \in WorkerSegments /\ Forgotten(w) \in job[p].facts)
    BY <1>6 DEF CommitOk, Answer
  <2>5. \A w \in reported' \cap WorkerSegments : Dropped(w) \in object.state.facts
    BY <1>2, <1>3, <2>3, <2>4 DEF StoreOk, StateOk
  <2>6. StoreOk'
    BY <1>1, <1>2, <2>5 DEF StoreOk
  <2>7. NoPut.old = NoFile /\ NoPut.new = NoFile
    BY DEF NoPut
  <2>8. Shown(mem[p]) \subseteq put[p].new.state.facts
    BY <2>2 DEF Shown
  <2>9. BytesOf(p)'
    BY <1>1, <1>2, <1>3, <2>1, <2>7, <2>8, EmptyOk DEF BytesOf
  <2> QED BY <1>1, <2>6, <2>9, BytesOfOne
<1> QED BY <1>4, <1>5, <1>6

LEMMA LeavingBytes ==
  ASSUME IInv, BInv, NEW p \in Procs, CommitFenced(p) \/ CommitError(p) \/ Crash(p) PROVE BInv'
<1>1. /\ UNCHANGED <<object, blobs, held, reported>> /\ pc'[p] \in {"dead", "failed"}
      /\ ver'[p] \in {ver[p], NoFile} /\ put'[p] \in {put[p], NoPut}
  BY DEF CommitFenced, CommitError, Crash, Latch, Abandon, storeVars, envVars, IInv, TypeOK
<1>2. \A q \in Procs \ {p} : /\ ver'[q] = ver[q] /\ put'[q] = put[q] /\ mem'[q] = mem[q]
                             /\ keys'[q] = keys[q] /\ pc'[q] = pc[q]
  BY DEF CommitFenced, CommitError, Crash, Latch, Abandon, IInv, TypeOK
<1>3. NoPut.old = NoFile /\ NoPut.new = NoFile
  BY DEF NoPut
<1>4. BytesOf(p)'
  BY <1>1, <1>3, EmptyOk DEF BInv, BytesOf, Live
<1> QED BY <1>1, <1>2, <1>4, StoreSame, BytesOfOne

LEMMA NextBytes == IInv /\ BInv /\ [Next]_vars => BInv'
<1> SUFFICES ASSUME IInv, BInv, [Next]_vars PROVE BInv'
  OBVIOUS
<1>1. ASSUME UNCHANGED <<storeVars, procVars, reported>> PROVE BInv'
  <2>1. StoreOk'
    BY <1>1, StoreSame DEF storeVars
  <2>2. ASSUME NEW q \in Procs PROVE BytesOf(q)'
    BY <1>1 DEF BInv, BytesOf, Live, storeVars, procVars
  <2> QED BY <2>1, <2>2 DEF BInv
<1>2. CASE UNCHANGED vars
  BY <1>1, <1>2 DEF vars, envVars
<1>3. ASSUME NEW p \in Procs, ReadEnters(p) \/ ReadAnswered(p) PROVE BInv'
  BY <1>1, <1>3 DEF ReadEnters, ReadAnswered
<1> QED BY <1>2, <1>3, StorePutBytes, ClaimBytes, DeleteBytes, HandlerBytes, ProduceBytes, CommitBytes, LeavingBytes DEF Next

LEMMA Stored == Spec => []BInv
  BY InitBytes, Invariant, NextBytes, PTL DEF Spec

\* For any processes, batches and segments, what the checkpoint refers to and needs is in
\* the store: identifiers that are taken again after a crash never get other bytes, and
\* neither workers nor starting coordinators delete what is not released in the checkpoint
\* (BytesBehindMetadata; Produce, NewDurable, ReleasedSession).
THEOREM NothingMissing == Spec => []BytesBehindMetadata
<1>1. IInv /\ BInv => BytesBehindMetadata
  <2> SUFFICES ASSUME IInv, BInv PROVE BytesBehindMetadata
    OBVIOUS
  <2>1. object.state.next \in Nat
    BY DEF IInv, TypeOK, Files, States
  <2>2. \A n \in 1 .. object.state.next : n \in Nat
    BY <2>1
  <2> QED BY <2>2 DEF BytesBehindMetadata, BInv, StoreOk, FileOk, StateOk
<1> QED BY <1>1, Invariant, Stored, PTL

\* What a read is answered with by a coordinator whose checkpoint has not failed.
ReadsDurable ==
  \A p \in Procs : passed[p] /\ ~passed'[p] /\ pc[p] = "up" =>
    {f \in mem[p].facts : f[1] # "published"} \subseteq object.state.facts

\* A coordinator that has not failed shows a reader only what its successors restore,
\* whoever has claimed the checkpoint meanwhile (HealthyReadsDurable; commitLocked, Metrics,
\* Segment).
THEOREM ReadsAreDurable == Spec => HealthyReadsDurable
<1>1. IInv /\ BInv => ReadsDurable
  <2> SUFFICES ASSUME IInv, BInv, NEW p \in Procs, pc[p] = "up" PROVE Shown(mem[p]) \subseteq object.state.facts
    BY DEF ReadsDurable, Shown
  <2>1. Shown(mem[p]) \subseteq ver[p].state.facts /\ Past(ver[p])
    BY DEF BInv, BytesOf, IInv, VersionOf
  <2> QED BY <2>1, PastFacts
<1>2. Spec => [][ReadsDurable]_vars
  BY <1>1, Invariant, Stored, PTL DEF Spec
<1>3. ReadsDurable <=> \A p \in Procs : passed[p] /\ ~passed'[p] /\ pc[p] = "up" =>
                         {f \in mem[p].facts : f[1] # "published"} \subseteq object.state.facts
  BY DEF ReadsDurable
<1> QED BY <1>2, <1>3, PTL DEF HealthyReadsDurable
=============================================================================
