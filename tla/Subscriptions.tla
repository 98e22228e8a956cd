--------------------------- MODULE Subscriptions ---------------------------
(***************************************************************************)
(* A Retained channel and one named subscription to it                      *)
(* (src/pkg/coordinator/subscriptions.go): idempotent appends, a durable    *)
(* position per partition, at most one delivery in flight per partition,    *)
(* replay and retention.                                                    *)
(*                                                                         *)
(* The subscription belongs to an operation, whose pods share the           *)
(* partitions and may be silent, expire, or be replaced, or to external     *)
(* readers, who are known by name and are handed an unfinished delivery     *)
(* again.  Answers get lost, are refusals of which half was carried out     *)
(* (410 at a later partition), and acknowledgements come late.  The operator *)
(* deletes history and replays without regard to what readers are doing.    *)
(***************************************************************************)
EXTENDS Integers, Sequences, FiniteSets

CONSTANTS
  Partitions,  \* 0 .. n - 1
  AppendIDs,   \* identifiers producers choose
  Readers,     \* pods of the operation, or external readers: 0 .. m - 1
  MaxAppends,  \* bound: entries ever appended
  MaxReplays,  \* bound: replays
  MaxFaults    \* bound: lost answers, lapses and replaced processes

ASSUME SubscriptionsAssumption ==
  /\ Partitions \subseteq Nat /\ Readers \subseteq Nat
  /\ IsFiniteSet(Partitions) /\ IsFiniteSet(Readers) /\ IsFiniteSet(AppendIDs)
  /\ {MaxAppends, MaxReplays, MaxFaults} \subseteq Nat

VARIABLES
  bound,      \* is the subscription bound to an operation?
  \* channel: history and historyBase by partition, sealed
  history, base, sealed,
  \* subscription: does it exist, positions, inflight
  subscribed, position, inflight,
  \* operation.pods: "none", "current", or "old" when the process has been replaced
  session, fresh,
  \* readers: deliveries received and not acknowledged, as <<partition, offset, id>>
  hand,
  \* history of the run
  answered,   \* <<id, partition, offset>> an append was answered with
  read,       \* by partition, offsets whose acknowledgement was accepted
  skipped,    \* by partition, offsets jumped over by a replay or gone before the subscription
  replays, faults

chanVars == <<history, base, sealed>>
subVars  == <<subscribed, position, inflight>>
podVars  == <<session, fresh>>
ghosts   == <<answered, read, skipped>>
vars     == <<bound, chanVars, subVars, podVars, hand, ghosts, replays, faults>>

Free == [offset |-> -1]  \* no delivery in flight
End(p) == base[p] + Len(history[p])
Entry(p, offset) == history[p][offset - base[p] + 1]
Appended == UNION {{<<p, o>> : o \in 0 .. End(p) - 1} : p \in Partitions}
Retained(p) == base[p] .. End(p) - 1
Places == UNION {{<<p, o>> : o \in Retained(p)} : p \in Partitions}
Fault == faults < MaxFaults /\ faults' = faults + 1

\* requireIncarnation, for subscriptions bound to an operation
Known(x) == bound => session[x] = "current"

\* The owner of a delivery is the process: one that was replaced owns nothing.
Owned(x, p, offset, id) ==
  inflight[p] = [offset |-> offset, id |-> id, owner |-> x]

\* assigned: RoundRobin over the registered pods; an external reader is offered all
Assigned(x) ==
  LET live == {y \in Readers : session[y] # "none"}
      rank == Cardinality({y \in live : y < x})
  IN  IF bound THEN {p \in Partitions : p % Cardinality(live) = rank} ELSE Partitions

\* returnConsumerDeliveries, for the subscription
Returned(gone) ==
  [p \in Partitions |-> IF inflight[p] # Free /\ inflight[p].owner \in gone THEN Free ELSE inflight[p]]

-----------------------------------------------------------------------------
Init ==
  /\ bound \in BOOLEAN
  /\ history = [p \in Partitions |-> << >>] /\ base = [p \in Partitions |-> 0] /\ sealed = FALSE
  /\ subscribed = FALSE /\ position = [p \in Partitions |-> 0] /\ inflight = [p \in Partitions |-> Free]
  /\ session = [x \in Readers |-> "none"] /\ fresh = [x \in Readers |-> TRUE]
  /\ hand = [x \in Readers |-> {}]
  /\ answered = {} /\ replays = 0 /\ faults = 0
  /\ read = [p \in Partitions |-> {}] /\ skipped = [p \in Partitions |-> {}]

\* Mutant of OffsetOf: offsets are counted from the start of what is retained.
OffsetOfRetained(p) == Len(history[p])

\* index: the absolute offset of the next entry
OffsetOf(p) == base[p] + Len(history[p])

\* AppendSession: a retry of a retained append is answered with its offset; a
\* first append is refused once the channel is sealed.
AppendSession(id, p) ==
  LET prior == {qo \in Places : Entry(qo[1], qo[2]) = id}
  IN  /\ \A qo \in prior : qo[1] = p
      /\ IF prior # {}
         THEN /\ answered' = answered \cup {<<id, p, qo[2]>> : qo \in prior}
              /\ UNCHANGED history
         ELSE /\ ~sealed /\ Cardinality(Appended) < MaxAppends
              /\ history' = [history EXCEPT ![p] = Append(@, id)]
              /\ answered' = answered \cup {<<id, p, OffsetOf(p)>>}
      /\ UNCHANGED <<bound, base, sealed, subVars, podVars, hand, read, skipped, replays, faults>>

Seal ==
  /\ ~sealed /\ sealed' = TRUE
  /\ UNCHANGED <<bound, history, base, subVars, podVars, hand, ghosts, replays, faults>>

\* DeleteRetainedBefore: nothing the subscription knows is touched.
DeleteRetainedBefore(p, offset) ==
  /\ offset \in base[p] + 1 .. End(p)
  /\ history' = [history EXCEPT ![p] = SubSeq(@, offset - base[p] + 1, Len(@))]
  /\ base' = [base EXCEPT ![p] = offset]
  /\ UNCHANGED <<bound, sealed, subVars, podVars, hand, ghosts, replays, faults>>

-----------------------------------------------------------------------------
\* SetSubscription: a new cursor starts at the oldest entry that is retained.
SetSubscription ==
  /\ ~subscribed
  /\ subscribed' = TRUE
  /\ position' = base
  /\ skipped' = [p \in Partitions |-> 0 .. base[p] - 1]
  /\ UNCHANGED <<bound, chanVars, inflight, podVars, hand, answered, read, replays, faults>>

\* Register, of a pod of the operation: heartbeat, first registration or takeover,
\* after the expiry of the silent.
Register(x) ==
  /\ bound
  /\ LET gone  == {y \in Readers \ {x} : session[y] # "none" /\ ~fresh[y]}
         taken == IF session[x] = "old" THEN {x} ELSE {}
     IN  /\ inflight' = Returned(gone \cup taken)
         /\ session' = [y \in Readers |-> IF y = x THEN "current" ELSE IF y \in gone THEN "none" ELSE session[y]]
  /\ fresh' = [fresh EXCEPT ![x] = TRUE]
  /\ UNCHANGED <<bound, chanVars, subscribed, position, hand, ghosts, replays, faults>>

\* expireAll in the call of any other client of the coordinator
ExpireAll ==
  /\ LET gone == {y \in Readers : session[y] # "none" /\ ~fresh[y]}
     IN  /\ gone # {}
         /\ inflight' = Returned(gone)
         /\ session' = [y \in Readers |-> IF y \in gone THEN "none" ELSE session[y]]
  /\ UNCHANGED <<bound, chanVars, subscribed, position, fresh, hand, ghosts, replays, faults>>

Lapse(x) ==
  /\ session[x] # "none" /\ fresh[x] /\ Fault
  /\ fresh' = [fresh EXCEPT ![x] = FALSE]
  /\ UNCHANGED <<bound, chanVars, subVars, session, hand, ghosts, replays>>

\* The process of the pod is replaced.
Replaced(x) ==
  /\ session[x] = "current" /\ Fault
  /\ session' = [session EXCEPT ![x] = "old"]
  /\ hand' = [hand EXCEPT ![x] = {}]
  /\ UNCHANGED <<bound, chanVars, subVars, fresh, ghosts, replays>>

\* Partitions a consume is refused for with 410
Behind(x) == {p \in Assigned(x) : position[p] < base[p]}

\* The assigned partitions a consume reaches: they are taken in order, up to the first
\* one it is refused for.
Reached(x) == {p \in Assigned(x) : \A q \in Behind(x) : p < q}

\* Mutant of Again: what is in flight is not handed out.
AgainNever(x) == {}

\* The deliveries an external reader is handed again.
Again(x) ==
  {p \in Assigned(x) : /\ ~bound /\ inflight[p] # Free
                       /\ inflight[p].owner = x /\ inflight[p].offset \in Retained(p)}

\* ConsumeSubscription: the entry at the position of every assigned partition that
\* has nothing in flight; an external reader is handed its own delivery again.  The
\* answer may be lost.  Where it is a refusal, the deliveries recorded for the
\* partitions before the one retention has passed stay recorded, and nobody has them.
Consume(x, lost) ==
  /\ subscribed /\ Known(x)
  /\ lost => Fault
  /\ ~lost => UNCHANGED faults
  /\ LET given == {p \in Reached(x) : inflight[p] = Free /\ position[p] < End(p)}
         work  == {<<p, position[p], Entry(p, position[p])>> : p \in given}
                  \cup {<<p, inflight[p].offset, inflight[p].id>> : p \in Again(x)}
     IN  /\ inflight' = [p \in Partitions |->
                           IF p \in given THEN [offset |-> position[p], id |-> Entry(p, position[p]), owner |-> x]
                           ELSE inflight[p]]
         /\ hand' = IF lost \/ Behind(x) # {} THEN hand ELSE [hand EXCEPT ![x] = @ \cup work]
  /\ UNCHANGED <<bound, chanVars, subscribed, position, podVars, ghosts, replays>>

\* AckSubscription applies to the very delivery the caller owns.
Acknowledged(x, w) == Owned(x, w[1], w[2], w[3])

\* Mutant of NextPosition: one too far.
NextPositionOff(w) == w[2] + 2

NextPosition(w) == w[2] + 1

\* The acknowledgement of a delivery received once, however late
AckSubscription(x) ==
  /\ Known(x)
  /\ \E w \in hand[x] :
       LET p == w[1] IN
       /\ IF Acknowledged(x, w)
          THEN /\ inflight' = [inflight EXCEPT ![p] = Free]
               /\ position' = [position EXCEPT ![p] = NextPosition(w)]
               /\ read' = [read EXCEPT ![p] = @ \cup {w[2]}]
          ELSE UNCHANGED <<position, inflight, read>>
       /\ hand' = [hand EXCEPT ![x] = @ \ {w}]
  /\ UNCHANGED <<bound, chanVars, subscribed, podVars, answered, skipped, replays, faults>>

\* Mutant of Idle: a subscription may be moved under a delivery.
IdleAnyway == TRUE

Idle == \A p \in Partitions : inflight[p] = Free

\* ReplaySubscription: an idle subscription is moved to a retained position.
ReplaySubscription(p, offset) ==
  /\ subscribed /\ Idle /\ offset \in base[p] .. End(p) /\ offset # position[p]
  /\ replays < MaxReplays \/ position[p] < base[p]
  /\ replays' = IF position[p] < base[p] THEN replays ELSE replays + 1
  /\ position' = [position EXCEPT ![p] = offset]
  /\ skipped' = [skipped EXCEPT ![p] = @ \cup position[p] .. offset - 1]
  /\ UNCHANGED <<bound, chanVars, subscribed, inflight, podVars, hand, answered, read, faults>>

Next ==
  \/ Seal \/ ExpireAll \/ SetSubscription
  \/ \E id \in AppendIDs, p \in Partitions : AppendSession(id, p)
  \/ \E p \in Partitions, o \in 0 .. MaxAppends : DeleteRetainedBefore(p, o) \/ ReplaySubscription(p, o)
  \/ \E x \in Readers :
       \/ Register(x) \/ Lapse(x) \/ Replaced(x) \/ AckSubscription(x)
       \/ \E lost \in BOOLEAN : Consume(x, lost)

Spec == Init /\ [][Next]_vars

\* Readers read and acknowledge, pods send heartbeats, other clients call, and an
\* operator replays a subscription that retention has passed.
Fairness ==
  /\ WF_vars(ExpireAll) /\ WF_vars(SetSubscription)
  /\ \A x \in Readers : WF_vars(Register(x)) /\ WF_vars(AckSubscription(x)) /\ WF_vars(Consume(x, FALSE))
  /\ \A p \in Partitions : WF_vars(position[p] < base[p] /\ ReplaySubscription(p, base[p]))

FairSpec == Spec /\ Fairness
-----------------------------------------------------------------------------
TypeOK ==
  /\ {bound, sealed, subscribed} \subseteq BOOLEAN
  /\ history \in [Partitions -> Seq(AppendIDs)]
  /\ base \in [Partitions -> 0 .. MaxAppends]
  /\ \A p \in Partitions : /\ End(p) <= MaxAppends /\ position[p] \in 0 .. End(p)
                           /\ inflight[p] = Free \/ inflight[p].owner \in Readers
  /\ session \in [Readers -> {"none", "current", "old"}] /\ fresh \in [Readers -> BOOLEAN]
  /\ \A x \in Readers : \A w \in hand[x] : w[1] \in Partitions /\ w[2] \in Nat /\ w[3] \in AppendIDs
  /\ {read[p] : p \in Partitions} \cup {skipped[p] : p \in Partitions} \subseteq SUBSET Nat
  /\ replays \in 0 .. MaxReplays /\ faults \in 0 .. MaxFaults

\* The offset a producer was answered with stays the offset of its append for as
\* long as it is retained and is never given to another, through retries, retention
\* and new appends under an identifier whose receipt was deleted; and what is retained is there once
\* (AppendSession, index, DeleteRetainedBefore).
OffsetsAreStable ==
  /\ \A a \in answered : a[3] \in Retained(a[2]) => Entry(a[2], a[3]) = a[1]
  /\ \A a, b \in answered : a[2] = b[2] /\ a[3] = b[3] => a[1] = b[1]
  /\ \A p, q \in Partitions : \A i \in Retained(p), j \in Retained(q) :
       Entry(p, i) = Entry(q, j) => p = q /\ i = j

\* No entry is passed over: every retained offset before the position of its
\* partition was acknowledged by the process it had been delivered to, or jumped
\* over by a replay, whatever late acknowledgements, lost answers, expiries and
\* deletions came in between (AckSubscription, ReplaySubscription).
NothingPassedOver ==
  \A p \in Partitions :
    /\ 0 .. position[p] - 1 \subseteq read[p] \cup skipped[p]
    /\ inflight[p] # Free => inflight[p].offset = position[p]

\* A delivery in flight that its reader has not received: the answer was lost, or was
\* the refusal of a later partition.
Unreceived(p) ==
  /\ inflight[p] # Free
  /\ <<p, inflight[p].offset, inflight[p].id>> \notin hand[inflight[p].owner]

\* A subscription that no reader and no operator can move on: the delivery is not
\* repeated to a pod of an operation, nor to an external reader once retention has
\* passed a position, when consume is answered 410 and replay 409.
Wedged ==
  /\ \E p \in Partitions : Unreceived(p)
  /\ bound \/ \E q \in Partitions : position[q] < base[q]

\* Every entry is read in the end, or deleted, or jumped over, unless the
\* subscription is stuck on a delivery that its reader never received, which takes no
\* lost answer: a consume that is refused at one partition keeps what it recorded for
\* the partitions before it (ConsumeSubscription, AckSubscription).
EventuallyRead ==
  \A p \in Partitions, o \in 0 .. MaxAppends - 1 :
    o < End(p) ~> o \in read[p] \cup skipped[p] \/ o < base[p] \/ []Wedged
=============================================================================
