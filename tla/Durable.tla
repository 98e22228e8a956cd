------------------------------- MODULE Durable -------------------------------
(***************************************************************************)
(* The durable coordinator: several coordinator processes, one after the   *)
(* other or at the same time, around one checkpoint object in a store that *)
(* offers reads, immutable writes, deletes and compare-and-swap            *)
(* (src/pkg/storage/checkpoint.go, src/pkg/coordinator/persistence.go and  *)
(* NewDurable, Produce, AnnounceSession, AckSession, ReleasedSession and   *)
(* ConsumeSession of src/pkg/coordinator/coordinator.go).                  *)
(*                                                                         *)
(* A handler holds the process's mutex from its first change of memory to  *)
(* the end of its commit, so a process runs one handler at a time; what    *)
(* interleaves are the processes, the single requests to the store, and    *)
(* the requests that only read.  A request to the store may fail before or *)
(* after it takes effect, and a conditional write may take effect long     *)
(* after its sender gave up.                                               *)
(*                                                                         *)
(* The state of the coordinator is abstracted to the identifier counter    *)
(* and a set of facts: records published by an external producer, segments *)
(* announced by workers, released, and reported for deletion.              *)
(***************************************************************************)
EXTENDS Integers, Sequences, FiniteSets

CONSTANTS
  Procs,          \* coordinator processes; a restart is another process
  WriterOf,       \* the writer identity of each (its host name)
  Batches,        \* the batches external producers send
  GroupsOf,       \* the sequence of groups (by partition and epoch) of a batch
  WorkerSegments, \* segments announced by workers, bytes written beforehand
  MaxGeneration,  \* bound: no handler starts beyond this checkpoint generation
  MaxId,          \* bound: no Produce starts beyond this segment identifier
  MaxErrors,      \* bound: failed requests to the store, crashes
  Readers         \* are there requests that only read?

Groups == UNION {{GroupsOf[b][j] : j \in DOMAIN GroupsOf[b]} : b \in Batches}

ASSUME DurableAssumption ==
  /\ 0 \notin Procs
  /\ GroupsOf \in [Batches -> Seq(Groups) \ {<< >>}]
  /\ MaxGeneration \in Nat /\ MaxId \in Nat /\ MaxErrors \in Nat
  /\ Readers \in BOOLEAN

VARIABLES
  object,   \* the checkpoint; generation 0 while there is none
  blobs,    \* the segments external producers' records are stored as
  held,     \* worker segments whose bytes are in the store
  pc,       \* where each process is
  ver,      \* Writer.version and Writer.value: the checkpoint it last wrote
  mem,      \* the coordinator state in memory
  keys,     \* tombstoneKeys
  job,      \* the handler in progress
  put,      \* the process's conditional write
  passed,   \* a read request is past the check of "failed"
  promised, \* facts some client has been told of by a successful answer
  reported, \* segments the worker has been told to delete
  owner,    \* (history) the process whose conditional write was the last to succeed
  errors

procVars  == <<pc, ver, mem, keys, job, put>>
storeVars == <<object, blobs, held>>
envVars   == <<passed, promised, reported, owner>>
vars      == <<storeVars, procVars, envVars, errors>>

-----------------------------------------------------------------------------
Published(n, g) == <<"published", n, g>>
Announced(w) == <<"announced", w>>
Dropped(w)   == <<"released", w>>
Forgotten(w) == <<"forgotten", w>>

Empty  == [next |-> 0, facts |-> {}]
NoFile == [gen |-> 0, writer |-> "", state |-> Empty, tombs |-> {}]
NoPut  == [kind |-> "none", status |-> "none", old |-> NoFile, new |-> NoFile]
NoProc == 0
NoJob  == [op |-> "none", groups |-> << >>, facts |-> {}, undo |-> Empty]

\* The tombstones of state m: released segments that are still indexed, and
\* those reported since the process started.
Tombstones(m, k) ==
  {w \in WorkerSegments : Dropped(w) \in m.facts /\ Forgotten(w) \notin m.facts} \cup k

Init ==
  /\ object = NoFile /\ blobs = {} /\ held = WorkerSegments
  /\ pc = [p \in Procs |-> "off"]
  /\ ver = [p \in Procs |-> NoFile]
  /\ mem = [p \in Procs |-> Empty]
  /\ keys = [p \in Procs |-> {}]
  /\ job = [p \in Procs |-> NoJob]
  /\ put = [p \in Procs |-> NoPut]
  /\ passed = [p \in Procs |-> FALSE]
  /\ promised = {} /\ reported = {}
  /\ owner = NoProc
  /\ errors = 0

Error == errors < MaxErrors /\ errors' = errors + 1

-----------------------------------------------------------------------------
(* The store.                                                              *)

\* Mutant of StorePut: a plain write instead of a compare-and-swap.
StorePutBlindly(p) ==
  /\ put[p].status = "sent"
  /\ object' = put[p].new /\ owner' = p
  /\ put' = [put EXCEPT ![p].status = "ok"]
  /\ UNCHANGED <<blobs, held, pc, ver, mem, keys, job, passed, promised, reported, errors>>

\* CompareAndSwap: the write takes effect when the object still has the expected
\* version.  A version is a hash of the contents, so equal versions are equal
\* contents; no object has the empty version.
StorePut(p) ==
  /\ put[p].status = "sent"
  /\ IF object = put[p].old
       THEN /\ object' = put[p].new /\ owner' = p
            /\ put' = [put EXCEPT ![p].status = "ok"]
       ELSE /\ UNCHANGED <<object, owner>>
            /\ put' = [put EXCEPT ![p].status = "conflict"]
  /\ UNCHANGED <<blobs, held, pc, ver, mem, keys, job, passed, promised, reported, errors>>

-----------------------------------------------------------------------------
(* Start.                                                                  *)

\* Claim: read the checkpoint and ask to replace it by one of this writer.
ClaimGet(p) ==
  /\ pc[p] = "off"
  /\ pc' = [pc EXCEPT ![p] = "claim"]
  /\ put' = [put EXCEPT ![p] =
               [kind |-> "claim", status |-> "sent", old |-> object,
                new |-> [gen |-> object.gen + 1, writer |-> WriterOf[p],
                         state |-> object.state, tombs |-> object.tombs]]]
  /\ UNCHANGED <<storeVars, ver, mem, keys, job, envVars, errors>>

\* Mutant of Claimed: the state found is not restored.
ClaimedAfresh(p) ==
  /\ pc[p] = "claim" /\ put[p].status = "ok"
  /\ ver' = [ver EXCEPT ![p] = put[p].new]
  /\ pc' = [pc EXCEPT ![p] = IF put[p].old.tombs = {} THEN "up" ELSE "clean"]
  /\ put' = [put EXCEPT ![p] = NoPut]
  /\ UNCHANGED <<storeVars, mem, keys, job, envVars, errors>>

\* Claim returns and NewDurable restores the state it found.  It then deletes
\* the segments of the tombstones before it serves anything.
Claimed(p) ==
  /\ pc[p] = "claim" /\ put[p].status = "ok"
  /\ ver' = [ver EXCEPT ![p] = put[p].new]
  /\ mem' = [mem EXCEPT ![p] = put[p].old.state]
  /\ pc' = [pc EXCEPT ![p] = IF put[p].old.tombs = {} THEN "up" ELSE "clean"]
  /\ put' = [put EXCEPT ![p] = NoPut]
  /\ UNCHANGED <<storeVars, keys, job, envVars, errors>>

ClaimLost(p) ==
  /\ pc[p] = "claim" /\ put[p].status = "conflict"
  /\ pc' = [pc EXCEPT ![p] = "dead"]
  /\ put' = [put EXCEPT ![p] = NoPut]
  /\ UNCHANGED <<storeVars, ver, mem, keys, job, envVars, errors>>

DeleteTombstone(p, w) ==
  /\ pc[p] = "clean"
  /\ w \in ver[p].tombs \cap held
  /\ held' = held \ {w}
  /\ UNCHANGED <<object, blobs, procVars, envVars, errors>>

\* All deleted: commit a checkpoint without them.
Cleaned(p) ==
  /\ pc[p] = "clean"
  /\ ver[p].tombs \cap held = {}
  /\ pc' = [pc EXCEPT ![p] = "commit"]
  /\ job' = [job EXCEPT ![p] = [NoJob EXCEPT !.op = "start", !.undo = mem[p]]]
  /\ UNCHANGED <<storeVars, ver, mem, keys, put, envVars, errors>>

-----------------------------------------------------------------------------
(* Handlers.  Each changes memory and then commits.                        *)

Idle(p) == pc[p] = "up" /\ ver[p].gen < MaxGeneration

\* A handler that puts the facts F in memory and answers once they are durable.
Change(p, op, F, undo) ==
  /\ Idle(p)
  /\ mem' = [mem EXCEPT ![p].facts = @ \cup F]
  /\ job' = [job EXCEPT ![p] = [op |-> op, groups |-> << >>, facts |-> F, undo |-> undo]]
  /\ pc' = [pc EXCEPT ![p] = "commit"]
  /\ UNCHANGED <<storeVars, ver, put, envVars, errors>>

\* AnnounceSession
Announce(p, w) ==
  /\ Change(p, "announce", {Announced(w)}, [mem[p] EXCEPT !.facts = @ \cup {Announced(w)}])
  /\ UNCHANGED keys

\* AckSession
Ack(p, w) ==
  /\ Announced(w) \in mem[p].facts
  /\ Change(p, "ack", {Dropped(w)}, [mem[p] EXCEPT !.facts = @ \cup {Dropped(w)}])
  /\ UNCHANGED keys

\* ReleasedSession: forgets the released segments; undone if the commit fails.
Released(p) ==
  LET out == {w \in WorkerSegments : Dropped(w) \in mem[p].facts /\ Forgotten(w) \notin mem[p].facts}
  IN  /\ Change(p, "released", {Forgotten(w) : w \in out}, mem[p])
      /\ keys' = [keys EXCEPT ![p] = @ \cup out]

\* ConsumeSession: hands out what is in memory, once that is durable; memory goes
\* back to where it was if the commit fails.
Consume(p) == Change(p, "consume", {}, mem[p]) /\ UNCHANGED keys

\* Produce: take an identifier for the first group of the batch.
Produce(p, b) ==
  /\ Idle(p) /\ mem[p].next < MaxId
  /\ mem' = [mem EXCEPT ![p].next = @ + 1]
  /\ job' = [job EXCEPT ![p] = [op |-> "produce", groups |-> GroupsOf[b], facts |-> {}, undo |-> Empty]]
  /\ pc' = [pc EXCEPT ![p] = "store"]
  /\ UNCHANGED <<storeVars, ver, keys, put, envVars, errors>>

\* Mutant of ProduceStore: the bytes of an identifier are overwritten.
ProduceOverwrites(p) ==
  LET n    == mem[p].next
      g    == Head(job[p].groups)
      rest == Tail(job[p].groups)
      m    == [next |-> IF rest = << >> THEN n ELSE n + 1, facts |-> mem[p].facts \cup {Published(n, g)}]
  IN  /\ pc[p] = "store"
      /\ blobs' = {b \in blobs : b[1] # n} \cup {<<n, g>>}
      /\ mem' = [mem EXCEPT ![p] = m]
      /\ job' = [job EXCEPT ![p] =
                    [op |-> "produce", groups |-> rest, facts |-> job[p].facts \cup {Published(n, g)}, undo |-> m]]
      /\ pc' = [pc EXCEPT ![p] = IF rest = << >> THEN "commit" ELSE "store"]
      /\ UNCHANGED <<object, held, ver, keys, put, envVars, errors>>

\* PutImmutable succeeded, or found the same bytes: index the segment, go on to
\* the next group or commit.
ProduceStore(p) ==
  LET n    == mem[p].next
      g    == Head(job[p].groups)
      rest == Tail(job[p].groups)
      m    == [next |-> IF rest = << >> THEN n ELSE n + 1, facts |-> mem[p].facts \cup {Published(n, g)}]
  IN  /\ pc[p] = "store"
      /\ \A h \in Groups : <<n, h>> \in blobs => h = g
      /\ blobs' = blobs \cup {<<n, g>>}
      /\ mem' = [mem EXCEPT ![p] = m]
      /\ job' = [job EXCEPT ![p] = 
                    [op |-> "produce", groups |-> rest, facts |-> job[p].facts \cup {Published(n, g)}, undo |-> m]]
      /\ pc' = [pc EXCEPT ![p] = IF rest = << >> THEN "commit" ELSE "store"]
      /\ UNCHANGED <<object, held, ver, keys, put, envVars, errors>>

\* The identifier is taken by other bytes (a predecessor's, never published), or
\* the store fails, before or after the write: Produce returns, without a commit
\* and without taking back the groups it has indexed.
ProduceFails(p) ==
  LET n == mem[p].next
      g == Head(job[p].groups)
  IN  /\ pc[p] = "store"
      /\ \/ /\ \E h \in Groups \ {g} : <<n, h>> \in blobs
            /\ UNCHANGED <<blobs, errors>>
         \/ /\ \A h \in Groups : <<n, h>> \in blobs => h = g
            /\ Error
            /\ blobs' \in {blobs, blobs \cup {<<n, g>>}}
      /\ pc' = [pc EXCEPT ![p] = "up"]
      /\ job' = [job EXCEPT ![p] = NoJob]
      /\ UNCHANGED <<object, held, ver, mem, keys, put, envVars>>

-----------------------------------------------------------------------------
(* Commit.                                                                 *)

\* Commit reads the checkpoint: is it still this writer's?
Owns(p) ==
  /\ object.writer = WriterOf[p]
  /\ object.gen = ver[p].gen
  /\ object = ver[p]

CommitGet(p) ==
  /\ pc[p] = "commit" /\ Owns(p)
  /\ put' = [put EXCEPT ![p] =
               [kind |-> "commit", status |-> "sent", old |-> ver[p],
                new |-> [gen |-> object.gen + 1, writer |-> object.writer,
                         state |-> mem[p], tombs |-> Tombstones(mem[p], keys[p])]]]
  /\ pc' = [pc EXCEPT ![p] = "put"]
  /\ UNCHANGED <<storeVars, ver, mem, keys, job, envVars, errors>>

\* What a handler answers with once its commit has succeeded.
Answer(p) ==
  /\ promised' = promised \cup job[p].facts \cup (IF job[p].op = "consume" THEN mem[p].facts ELSE {})
  /\ reported' = reported \cup (IF job[p].op = "released"
                                  THEN {w \in WorkerSegments : Forgotten(w) \in job[p].facts} ELSE {})

\* Mutant of CommitOk: the answer does not wait for the store's.
CommitOkEarly(p) ==
  /\ pc[p] = "put"
  /\ ver' = [ver EXCEPT ![p] = put[p].new]
  /\ pc' = [pc EXCEPT ![p] = "up"]
  /\ put' = [put EXCEPT ![p] = NoPut]
  /\ job' = [job EXCEPT ![p] = NoJob]
  /\ Answer(p)
  /\ UNCHANGED <<storeVars, mem, keys, passed, owner, errors>>

CommitOk(p) ==
  /\ pc[p] = "put" /\ put[p].status = "ok"
  /\ ver' = [ver EXCEPT ![p] = put[p].new]
  /\ pc' = [pc EXCEPT ![p] = "up"]
  /\ put' = [put EXCEPT ![p] = NoPut]
  /\ job' = [job EXCEPT ![p] = NoJob]
  /\ Answer(p)
  /\ UNCHANGED <<storeVars, mem, keys, passed, owner, errors>>

\* The process no longer waits for its write; one still under way stays so.
Abandon(p) == put' = [put EXCEPT ![p] = IF @.status = "sent" THEN @ ELSE NoPut]

\* Mutant of Latch: the failure is returned to the caller and forgotten.
LatchNothing(p) ==
  /\ pc' = [pc EXCEPT ![p] = IF job[p].op = "start" THEN "dead" ELSE "up"]
  /\ job' = [job EXCEPT ![p] = NoJob]
  /\ Abandon(p)
  /\ UNCHANGED <<storeVars, ver, mem, keys, envVars>>

\* commitLocked latches any failure: the handler undoes what it undoes, and the
\* process answers nothing more; one that has not started to serve exits.
Latch(p) ==
  /\ pc' = [pc EXCEPT ![p] = IF job[p].op = "start" THEN "dead" ELSE "failed"]
  /\ mem' = [mem EXCEPT ![p] = job[p].undo]
  /\ keys' = [keys EXCEPT ![p] = @ \ {w \in WorkerSegments : Forgotten(w) \in job[p].facts}]
  /\ job' = [job EXCEPT ![p] = NoJob]
  /\ Abandon(p)
  /\ UNCHANGED <<storeVars, ver, envVars>>

\* ErrFenced, from the read or from the conditional write.
CommitFenced(p) ==
  /\ \/ pc[p] = "commit" /\ ~Owns(p)
     \/ pc[p] = "put" /\ put[p].status = "conflict"
  /\ Latch(p) /\ UNCHANGED errors

\* A request to the store fails or times out, whatever becomes of the write.
CommitError(p) == pc[p] \in {"commit", "put"} /\ Error /\ Latch(p)

\* A process dies, or gives up before it has started to serve; its memory is gone.
Crash(p) ==
  /\ pc[p] \notin {"off", "dead"}
  /\ Error
  /\ pc' = [pc EXCEPT ![p] = "dead"]
  /\ passed' = [passed EXCEPT ![p] = FALSE]
  /\ ver' = [ver EXCEPT ![p] = NoFile] /\ mem' = [mem EXCEPT ![p] = Empty]
  /\ keys' = [keys EXCEPT ![p] = {}] /\ job' = [job EXCEPT ![p] = NoJob]
  /\ Abandon(p)
  /\ UNCHANGED <<storeVars, promised, reported, owner>>

-----------------------------------------------------------------------------
(* Workers and readers.                                                    *)

\* The worker deletes what it has been told to delete.
WorkerDeletes(w) ==
  /\ w \in reported \cap held
  /\ held' = held \ {w}
  /\ UNCHANGED <<object, blobs, procVars, envVars, errors>>

\* A read passes the check at the door (HandlerForGraph, SegmentHandler) ...
ReadEnters(p) ==
  /\ Readers /\ ~passed[p]
  /\ \/ pc[p] \in {"up", "store"}
     \/ pc[p] \in {"commit", "put"} /\ job[p].op # "start"
  /\ passed' = [passed EXCEPT ![p] = TRUE]
  /\ UNCHANGED <<storeVars, procVars, promised, reported, owner, errors>>

\* ... and is answered from memory when it gets the mutex (Metrics, Segment).
ReadAnswered(p) ==
  /\ passed[p] /\ pc[p] \in {"up", "failed"}
  /\ passed' = [passed EXCEPT ![p] = FALSE]
  /\ UNCHANGED <<storeVars, procVars, promised, reported, owner, errors>>

-----------------------------------------------------------------------------
Next ==
  \/ \E p \in Procs : StorePut(p)
  \/ \E p \in Procs : ClaimGet(p) \/ Claimed(p) \/ ClaimLost(p) \/ Cleaned(p)
  \/ \E p \in Procs, w \in WorkerSegments : DeleteTombstone(p, w) \/ Announce(p, w) \/ Ack(p, w)
  \/ \E p \in Procs : Released(p) \/ Consume(p)
  \/ \E p \in Procs, b \in Batches : Produce(p, b)
  \/ \E p \in Procs : ProduceStore(p) \/ ProduceFails(p)
  \/ \E p \in Procs : CommitGet(p) \/ CommitOk(p) \/ CommitFenced(p) \/ CommitError(p)
  \/ \E p \in Procs : Crash(p) \/ ReadEnters(p) \/ ReadAnswered(p)
  \/ \E w \in WorkerSegments : WorkerDeletes(w)

Spec == Init /\ [][Next]_vars

-----------------------------------------------------------------------------
(* Properties.                                                             *)

Facts == ({"published"} \X Nat \X Groups) \cup ({"announced", "released", "forgotten"} \X WorkerSegments)
States == [next : Nat, facts : SUBSET Facts]
Writers == {WriterOf[p] : p \in Procs} \cup {""}
Files == [gen : Nat, writer : Writers, state : States,
          tombs : SUBSET WorkerSegments]
Puts == [kind : {"none", "claim", "commit"}, status : {"none", "sent", "ok", "conflict"},
         old : Files, new : Files]
Jobs == [op : {"none", "start", "announce", "ack", "released", "consume", "produce"},
         groups : Seq(Groups), facts : SUBSET Facts, undo : States]

\* The types of the store's objects and of the processes' variables.
TypeOK ==
  /\ object \in Files
  /\ blobs \subseteq Nat \X Groups /\ held \subseteq WorkerSegments
  /\ pc \in [Procs -> {"off", "claim", "clean", "up", "store", "commit", "put", "failed", "dead"}]
  /\ ver \in [Procs -> Files]
  /\ mem \in [Procs -> States]
  /\ keys \in [Procs -> SUBSET WorkerSegments]
  /\ job \in [Procs -> Jobs]
  /\ put \in [Procs -> Puts]
  /\ passed \in [Procs -> BOOLEAN]
  /\ reported \subseteq WorkerSegments
  /\ owner \in Procs \cup {NoProc}
  /\ errors \in Nat

Serving(p) == pc[p] \in {"up", "store", "commit", "put"}

\* Nothing a client has been told is ever taken back: what a successful answer
\* of any process, fenced since or not, has promised is in the checkpoint, so every
\* later process restores it (commitLocked, Commit, NewDurable).
AnsweredDurable == promised \subseteq object.state.facts

\* Of two processes that both believe they serve the workload at most one can
\* still change the checkpoint (Claim, Commit).
OneOwner ==
  \A p, q \in Procs : Serving(p) /\ Serving(q) /\ ver[p] = object /\ ver[q] = object => p = q

\* The bytes behind the metadata: a segment the checkpoint refers to and still
\* needs is in the store, with the records that were published under its
\* identifier, although identifiers are taken again after a crash and segments are
\* deleted by workers and by starting coordinators (Produce, NewDurable,
\* ReleasedSession).
BytesBehindMetadata ==
  /\ \A n \in 1 .. object.state.next, g \in Groups :
       Published(n, g) \in object.state.facts => \A h \in Groups : <<n, h>> \in blobs <=> h = g
  /\ \A w \in WorkerSegments :
       Announced(w) \in object.state.facts /\ Dropped(w) \notin object.state.facts => w \in held

\* The checkpoint has one line of history: every write that takes effect builds
\* on the one before, and none rolls a fact back, however late it arrives.
HistoryGrows ==
  [][object' # object => /\ object'.gen = object.gen + 1
                         /\ object.state.facts \subseteq object'.state.facts
                         /\ object.state.next <= object'.state.next]_vars

\* "A previous Writer subsequently receives ErrFenced": a process becomes the
\* owner of the checkpoint by its claim only; after another's claim has taken
\* effect none of its commits does (Claim).
FencedStays ==
  [][\A p \in Procs : owner' = p /\ owner # p => put[p].kind = "claim"]_vars

\* Until its checkpoint fails, a coordinator shows a reader nothing that a
\* successor would not restore, whoever has claimed the checkpoint since: what a
\* read finds in memory between two handlers is in the checkpoint.  The exception
\* is a Produce that failed after its first group, which leaves that group indexed
\* and uncommitted (commitLocked, Produce).
HealthyReadsDurable ==
  [][\A p \in Procs :
       passed[p] /\ ~passed'[p] /\ pc[p] = "up" =>
         {f \in mem[p].facts : f[1] # "published"} \subseteq object.state.facts]_vars

=============================================================================
