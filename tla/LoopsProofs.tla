---------------------------- MODULE LoopsProofs ----------------------------
(***************************************************************************)
(* Proofs about Loops, for every set of graphs, any partitions and any      *)
(* number of crashes and lapses.                                            *)
(***************************************************************************)
EXTENDS Loops, FiniteSetTheorems, TLAPS

-----------------------------------------------------------------------------
(* The inductive invariant.                                                *)

\* What the graph provides, as far as the actions look at it.
GraphFacts ==
  /\ \A c \in Channels :
       /\ From(c) \in Ops /\ To(c) \in Ops
       /\ Mode(c) \in {"plain", "sync", "async"} /\ topo.channels[c].max \in Nat
  /\ topo.finite \subseteq Channels /\ topo.bound \in Nat
  /\ \A x \in Pods : OpOf(x) \in Ops /\ x \notin {"queued", "held"}
  /\ \A o \in Ops :
       /\ Len(topo.inbound[o]) \in Nat
       /\ \A i \in 1 .. Len(topo.inbound[o]) : topo.inbound[o][i] \in Into(o)
       /\ Into(o) # {} => Len(topo.inbound[o]) >= 1
  /\ \A c, d \in Channels : To(c) = To(d) /\ FiniteEpochs(c) => FiniteEpochs(d)

IsSegment(s) == Part(s) \in Partitions /\ EpochOf(s) \in Nat

\* Where the segments of channel c may be, and of which epochs they are, when the
\* places are pl and the epoch is e.
PlacesOf(c, pl, e) ==
  \A s \in DOMAIN pl[c] :
    /\ IsSegment(s)
    /\ pl[c][s] \in {"queued", "held"} \cup PodsOf(To(c))
    /\ ~FiniteEpochs(c) => pl[c][s] # "held"
    /\ FiniteEpochs(c) => IF pl[c][s] = "held" THEN EpochOf(s) > e ELSE EpochOf(s) = e

PlacesOK(pl) == pl = [c \in Channels |-> pl[c]] /\ \A c \in Channels : PlacesOf(c, pl, epoch[c])

ChannelInv ==
  /\ topo \in Workloads
  /\ epoch \in [Channels -> Nat] /\ closed \in [Channels -> SUBSET Nat] /\ sealed \subseteq Channels
  /\ PlacesOK(place)
  /\ \A c, d \in Channels : To(c) = To(d) /\ FiniteEpochs(c) => epoch[c] = epoch[d]

Sources == {x \in Pods : Into(OpOf(x)) = {}}

PodInv ==
  /\ session \in [Pods -> {"none", "current", "old"}] /\ fresh \in [Pods -> BOOLEAN]
  /\ done \subseteq {x \in Pods : Registered(x)}
  /\ epochDone \in [Pods -> Int]
  /\ \A x \in Pods : epochDone[x] = -2 <=> ~Registered(x)
  /\ finished \subseteq Sources
  /\ emits \in [Channels -> Nat] /\ faults \in 0 .. MaxFaults

\* What the process of pod x has in memory, and what it concludes from.
PassOf(x) ==
  /\ at[x] \in 1 .. Len(topo.inbound[OpOf(x)]) + 1
  /\ phase[x] \in {"poll", "ending"} => Into(OpOf(x)) # {}
  /\ phase[x] = "source" => Into(OpOf(x)) = {}
  /\ wepoch[x] \in Nat /\ lastDone[x] \in Int /\ lastDone[x] <= wepoch[x]
  /\ ~Finite(OpOf(x)) => lastDone[x] = -1
  /\ \A c \in Into(OpOf(x)) : FiniteEpochs(c) => wepoch[x] <= epoch[c]

MemoryOf(x) ==
  /\ \A w \in hand[x] \cup current[x] : w[1] \in Into(OpOf(x)) /\ IsSegment(w[2])
  /\ \A w \in out[x] : w[1] \in OutOf(OpOf(x)) /\ IsSegment(w[2])
  /\ phase[x] = "ending" => Finite(OpOf(x))
  /\ hand[x] # {} \/ current[x] # {} => phase[x] = "poll"
  /\ out[x] # {} =>
       \/ current[x] # {}
       \/ phase[x] = "ending"
       \/ /\ phase[x] = "draining"
          /\ Into(OpOf(x)) # {} => \A w \in out[x] : w[1] \in DrainOutputs(OpOf(x))

WorkerInv ==
  /\ up \subseteq Pods /\ phase \in [Pods -> {"source", "poll", "ending", "draining", "idle"}]
  /\ allQuiet \subseteq Pods /\ allDrained \subseteq Pods
  /\ at = [x \in Pods |-> at[x]]
  /\ hand = [x \in Pods |-> hand[x]] /\ current = [x \in Pods |-> current[x]]
  /\ out = [x \in Pods |-> out[x]]
  /\ wepoch = [x \in Pods |-> wepoch[x]] /\ lastDone = [x \in Pods |-> lastDone[x]]
  /\ \A x \in Pods : PassOf(x) /\ MemoryOf(x)

IInv == ChannelInv /\ PodInv /\ WorkerInv

-----------------------------------------------------------------------------
(* The graph.                                                              *)

\* What Described leaves alone.
LEMMA DescribedIs ==
  ASSUME NEW t \in Topologies
  PROVE  LET d == Described(t)
         IN  /\ d.inbound = t.inbound /\ d.channels = t.channels /\ d.pods = t.pods /\ d.bound = t.bound
             /\ d.finite = FiniteEpochChannels(t)
             /\ d.cycle = [c \in DOMAIN t.channels |-> Cycle(t, c)]
             /\ \A x \in DOMAIN d.op : d.op[x] \in DOMAIN t.pods /\ x \notin {"queued", "held"}
<1>1. DOMAIN t = {"pods", "inbound", "channels", "bound", "finite", "cycle", "op"}
  BY GraphAssumption
<1> DEFINE pods == UNION {{t.pods[o][i] : i \in DOMAIN t.pods[o]} : o \in DOMAIN t.pods}
           owner(x) == CHOOSE o \in DOMAIN t.pods : \E i \in DOMAIN t.pods[o] : t.pods[o][i] = x
           d == Described(t)
<1>2. /\ d.inbound = t.inbound /\ d.channels = t.channels /\ d.pods = t.pods /\ d.bound = t.bound
      /\ d.finite = FiniteEpochChannels(t)
      /\ d.cycle = [c \in DOMAIN t.channels |-> Cycle(t, c)]
      /\ d.op = [x \in pods |-> owner(x)]
  BY <1>1, SMT DEF Described
<1>3. ASSUME NEW x \in pods PROVE owner(x) \in DOMAIN t.pods /\ x \notin {"queued", "held"}
  <2>1. \E o \in DOMAIN t.pods : \E i \in DOMAIN t.pods[o] : t.pods[o][i] = x
    OBVIOUS
  <2>2. owner(x) \in DOMAIN t.pods
    BY <2>1
  <2> HIDE DEF owner
  <2> QED BY <2>1, <2>2, GraphAssumption
<1> HIDE DEF pods, owner, d
<1>4. \A x \in DOMAIN d.op : d.op[x] \in DOMAIN t.pods /\ x \notin {"queued", "held"}
  BY <1>2, <1>3
<1> QED BY <1>2, <1>4 DEF d

\* The channels into one operation are of one connected component.
LEMMA FiniteTogether ==
  ASSUME NEW t, NEW c \in DOMAIN t.channels, NEW d \in DOMAIN t.channels,
         t.channels[c].to = t.channels[d].to, c \in FiniteEpochChannels(t)
  PROVE  d \in FiniteEpochChannels(t)
<1>1. PICK f \in DOMAIN t.channels : /\ t.channels[f].mode = "sync"
                                     /\ t.channels[f].from \in Reach(t, {t.channels[c].from}, Both(t))
  BY DEF FiniteEpochChannels, Connected
<1>2. /\ <<t.channels[d].from, t.channels[d].to>> \in Both(t)
      /\ <<t.channels[c].to, t.channels[c].from>> \in Both(t)
  BY DEF Edge, Both
<1>3. t.channels[f].from \in Reach(t, {t.channels[d].from}, Both(t))
  <2>1. ASSUME NEW T \in SUBSET DOMAIN t.inbound, {t.channels[d].from} \subseteq T,
               \A e \in Both(t) : e[1] \in T => e[2] \in T
        PROVE  t.channels[f].from \in T
    <3>1. t.channels[d].to \in T
      BY <1>2, <2>1
    <3>2. t.channels[c].from \in T
      BY <1>2, <2>1, <3>1
    <3> QED BY <1>1, <2>1, <3>2 DEF Reach
  <2> QED BY <1>1, <2>1 DEF Reach
<1> QED BY <1>1, <1>3 DEF FiniteEpochChannels, Connected

LEMMA GraphIs == ASSUME topo \in Workloads PROVE GraphFacts
<1>1. PICK t \in Topologies : topo = Described(t)
  BY DEF Workloads
<1>2. /\ topo.inbound = t.inbound /\ topo.channels = t.channels /\ topo.pods = t.pods /\ topo.bound = t.bound
      /\ topo.finite = FiniteEpochChannels(t)
      /\ \A x \in DOMAIN topo.op : topo.op[x] \in DOMAIN t.pods /\ x \notin {"queued", "held"}
  BY <1>1, DescribedIs
<1>3. /\ DOMAIN t.pods = DOMAIN t.inbound /\ t.bound \in Nat
      /\ \A o \in DOMAIN t.inbound : t.inbound[o] \in Seq(DOMAIN t.channels)
      /\ \A c \in DOMAIN t.channels :
           /\ t.channels[c].from \in DOMAIN t.inbound /\ t.channels[c].to \in DOMAIN t.inbound
           /\ t.channels[c].mode \in {"plain", "sync", "async"} /\ t.channels[c].max \in Nat
  BY GraphAssumption
<1>4. \A c \in Channels :
        /\ From(c) \in Ops /\ To(c) \in Ops
        /\ Mode(c) \in {"plain", "sync", "async"} /\ topo.channels[c].max \in Nat
  BY <1>2, <1>3 DEF Channels, From, To, Ops, Mode
<1>5. topo.finite \subseteq Channels /\ topo.bound \in Nat
  BY <1>2, <1>3 DEF Channels, FiniteEpochChannels
<1>6. \A x \in Pods : OpOf(x) \in Ops /\ x \notin {"queued", "held"}
  BY <1>2, <1>3 DEF Pods, OpOf, Ops
<1>7. ASSUME NEW o \in Ops
      PROVE  /\ Len(topo.inbound[o]) \in Nat
             /\ \A i \in 1 .. Len(topo.inbound[o]) : topo.inbound[o][i] \in Into(o)
             /\ Into(o) # {} => Len(topo.inbound[o]) >= 1
  <2>1. o \in DOMAIN t.inbound /\ t.inbound[o] \in Seq(DOMAIN t.channels)
    BY <1>2, <1>3 DEF Ops
  <2>2. \A c \in DOMAIN t.channels : (\E i \in DOMAIN t.inbound[o] : t.inbound[o][i] = c) <=> t.channels[c].to = o
    BY <2>1, LoopsAssumption
  <2>3. Len(t.inbound[o]) \in Nat /\ DOMAIN t.inbound[o] = 1 .. Len(t.inbound[o])
    BY <2>1
  <2>4. \A i \in 1 .. Len(t.inbound[o]) : t.inbound[o][i] \in DOMAIN t.channels
    BY <2>1
  <2>5. ASSUME NEW c \in Into(o) PROVE Len(topo.inbound[o]) >= 1
    <3>1. c \in DOMAIN t.channels /\ t.channels[c].to = o
      BY <1>2 DEF Into, Channels, To
    <3>2. PICK i \in DOMAIN t.inbound[o] : t.inbound[o][i] = c
      BY <2>2, <3>1
    <3> QED BY <1>2, <2>3, <3>2
  <2> QED BY <1>2, <2>2, <2>3, <2>4, <2>5 DEF Into, Channels, To
<1>8. \A c, d \in Channels : To(c) = To(d) /\ FiniteEpochs(c) => FiniteEpochs(d)
  BY <1>2, FiniteTogether DEF Channels, To, FiniteEpochs
<1> QED BY <1>4, <1>5, <1>6, <1>7, <1>8 DEF GraphFacts

-----------------------------------------------------------------------------
(* Channels.                                                               *)

LEMMA SettledIn == \A pl, sl : Settled(pl, sl) \subseteq Channels
  BY DEF Settled

\* What is returned is queued again, on the channel it came from.
LEMMA ReturnedOK == ASSUME ChannelInv, NEW gone \in SUBSET Pods PROVE PlacesOK(Returned(gone))
<1>1. Returned(gone) = [c \in Channels |-> Returned(gone)[c]]
  BY DEF Returned
<1>2. \A x \in Pods : x # "held"
  BY GraphIs DEF ChannelInv, GraphFacts
<1>3. ASSUME NEW c \in Channels PROVE PlacesOf(c, Returned(gone), epoch[c])
  <2>1. /\ DOMAIN Returned(gone)[c] = Live(c)
        /\ \A s \in Live(c) : Returned(gone)[c][s] = IF place[c][s] \in gone THEN "queued" ELSE place[c][s]
    BY DEF Returned
  <2>2. PlacesOf(c, place, epoch[c])
    BY DEF ChannelInv, PlacesOK
  <2> QED BY <1>2, <2>1, <2>2 DEF PlacesOf, Live
<1> QED BY <1>1, <1>3 DEF PlacesOK

\* The graph does not change, and with it none of the facts read off it.
LEMMA SameGraph ==
  ASSUME topo' = topo
  PROVE  /\ Channels' = Channels /\ Pods' = Pods /\ Ops' = Ops
         /\ \A c : /\ From(c)' = From(c) /\ To(c)' = To(c) /\ Mode(c)' = Mode(c)
                   /\ FiniteEpochs(c)' = FiniteEpochs(c) /\ CycleMembers(c)' = CycleMembers(c)
         /\ \A o : /\ Into(o)' = Into(o) /\ OutOf(o)' = OutOf(o) /\ Finite(o)' = Finite(o)
                   /\ PodsOf(o)' = PodsOf(o) /\ DrainOutputs(o)' = DrainOutputs(o)
         /\ \A x : OpOf(x)' = OpOf(x)
BY DEF Channels, Pods, Ops, From, To, Mode, FiniteEpochs, CycleMembers, Into, OutOf, Finite, PodsOf,
       DrainOutputs, OpOf, Feedback

\* A smaller set of segments, at the places they had.
LEMMA SealAllOK ==
  ASSUME ChannelInv, NEW cs \in SUBSET Channels, NEW pl, PlacesOK(pl), SealAll(cs, pl), UNCHANGED <<topo, epoch>>
  PROVE  ChannelInv'
<1>1. /\ topo' \in Workloads /\ epoch' \in [Channels' -> Nat]
      /\ \A c, d \in Channels' : To(c)' = To(d)' /\ FiniteEpochs(c)' => epoch'[c] = epoch'[d]
  BY DEF ChannelInv, Channels, To, FiniteEpochs
<1>2. sealed' \subseteq Channels'
  BY DEF ChannelInv, SealAll, Channels
<1>3. closed' \in [Channels -> SUBSET Nat]
  BY DEF ChannelInv, SealAll
<1>4. place' = [c \in Channels |-> place'[c]]
  BY DEF SealAll
<1>5. ASSUME NEW c \in Channels PROVE PlacesOf(c, place', epoch[c])
  <2>1. /\ DOMAIN place'[c] \subseteq DOMAIN pl[c]
        /\ \A s \in DOMAIN place'[c] : place'[c][s] = pl[c][s]
    BY DEF SealAll
  <2>2. PlacesOf(c, pl, epoch[c])
    BY DEF PlacesOK
  <2> QED BY <2>1, <2>2 DEF PlacesOf
<1>6. PlacesOK(place)'
  BY <1>4, <1>5 DEF PlacesOK, PlacesOf, Channels, PodsOf, Pods, OpOf, To, FiniteEpochs
<1> QED BY <1>1, <1>2, <1>3, <1>6 DEF ChannelInv, Channels

\* Nothing on the channels changes.
LEMMA ChannelsSame == ASSUME ChannelInv, UNCHANGED <<topo, chanVars>> PROVE ChannelInv'
  BY DEF chanVars, ChannelInv, PlacesOK, PlacesOf, Channels, PodsOf, Pods, OpOf, To, FiniteEpochs

\* One channel's places change.
LEMMA ExceptOK ==
  ASSUME ChannelInv, NEW pl, PlacesOK(pl), NEW c \in Channels, NEW f,
         NEW new, new = [pl EXCEPT ![c] = f], PlacesOf(c, new, epoch[c])
  PROVE  PlacesOK(new)
<1>1. new = [d \in Channels |-> new[d]] /\ \A d \in Channels : d # c => new[d] = pl[d]
  BY DEF PlacesOK
<1>2. ASSUME NEW d \in Channels, d # c PROVE PlacesOf(d, new, epoch[d])
  BY <1>1, <1>2 DEF PlacesOK, PlacesOf
<1> QED BY <1>1, <1>2 DEF PlacesOK

\* What is announced is queued, or held when it is of a later epoch.
LEMMA IndexedOK ==
  ASSUME ChannelInv, NEW c \in Channels, NEW ss, \A s \in ss : IsSegment(s),
         FiniteEpochs(c) => \A s \in ss : EpochOf(s) >= epoch[c]
  PROVE  PlacesOK([place EXCEPT ![c] = Indexed(c, ss)])
<1> DEFINE new == [place EXCEPT ![c] = Indexed(c, ss)]
           kept == {s \in ss \ Live(c) : Feedback(c) => EpochOf(s) < topo.channels[c].max}
           at0(s) == IF FiniteEpochs(c) /\ EpochOf(s) > epoch[c] THEN "held" ELSE "queued"
<1>1. new[c] = Indexed(c, ss)
  BY DEF ChannelInv, PlacesOK
<1>2. Indexed(c, ss) = [s \in kept \cup Live(c) |-> IF s \in kept THEN at0(s) ELSE place[c][s]]
  BY DEF Indexed
<1>3. PlacesOf(c, place, epoch[c]) /\ epoch[c] \in Nat
  BY DEF ChannelInv, PlacesOK
<1>4. PlacesOf(c, new, epoch[c])
  <2>1. ASSUME NEW s \in kept
        PROVE  /\ IsSegment(s) /\ at0(s) \in {"queued", "held"}
               /\ ~FiniteEpochs(c) => at0(s) # "held"
               /\ FiniteEpochs(c) => IF at0(s) = "held" THEN EpochOf(s) > epoch[c] ELSE EpochOf(s) = epoch[c]
    BY <1>3 DEF IsSegment
  <2> HIDE DEF kept, at0, new
  <2> QED BY <1>1, <1>2, <1>3, <2>1 DEF PlacesOf, Live
<1> QED BY <1>4, ExceptOK DEF ChannelInv

\* What is handed over is on its way to a pod of the channel's consumer.
LEMMA GivenOK ==
  ASSUME ChannelInv, NEW pl, PlacesOK(pl), NEW c \in Channels, NEW x \in PodsOf(To(c)), NEW work,
         \A s \in work : pl[c][s] = "queued", DOMAIN pl[c] = Live(c)
  PROVE  PlacesOK([pl EXCEPT ![c] = [s \in Live(c) |-> IF s \in work THEN x ELSE pl[c][s]]])
<1> DEFINE f == [s \in Live(c) |-> IF s \in work THEN x ELSE pl[c][s]]
           new == [pl EXCEPT ![c] = f]
<1>1. new[c] = f
  BY DEF PlacesOK
<1>2. PlacesOf(c, pl, epoch[c])
  BY DEF PlacesOK
<1>3. x # "held"
  BY GraphIs DEF ChannelInv, GraphFacts, PodsOf
<1>4. PlacesOf(c, new, epoch[c])
  BY <1>1, <1>2, <1>3 DEF PlacesOf
<1> QED BY <1>4, ExceptOK DEF ChannelInv

\* What is acknowledged is forgotten.
LEMMA RemovedOK ==
  ASSUME ChannelInv, NEW c \in Channels, NEW s0
  PROVE  PlacesOK([place EXCEPT ![c] = [s \in Live(c) \ {s0} |-> place[c][s]]])
<1> DEFINE f == [s \in Live(c) \ {s0} |-> place[c][s]]
           new == [place EXCEPT ![c] = f]
<1>1. new[c] = f
  BY DEF ChannelInv, PlacesOK
<1>2. PlacesOf(c, place, epoch[c])
  BY DEF ChannelInv, PlacesOK
<1>3. PlacesOf(c, new, epoch[c])
  BY <1>1, <1>2 DEF PlacesOf, Live
<1> QED BY <1>3, ExceptOK DEF ChannelInv

\* The barrier lets in what was held for the next epoch.
LEMMA BarrierOK ==
  ASSUME ChannelInv, NEW o \in Ops, NEW e \in Nat, NEW pl, PlacesOK(pl),
         InputEnded(o, e, pl), PassBarrier(o, e, pl), topo' = topo
  PROVE  ChannelInv' /\ \A c \in Channels : epoch'[c] >= epoch[c]
<1> DEFINE over == {c \in OutOf(o) : FiniteEpochs(c) /\ Synchronous(c)
                                     /\ (IF Synchronous(c) THEN e + 1 ELSE e) >= topo.channels[c].max}
           moving == {c \in Into(o) : FiniteEpochs(c) /\ epoch[c] = e}
           kept(c) == IF c \in over THEN {s \in DOMAIN pl[c] : pl[c][s] # "held"} ELSE DOMAIN pl[c]
<1>1. /\ sealed' = sealed \cup over
      /\ epoch' = [c \in Channels |-> IF c \in moving THEN e + 1 ELSE epoch[c]]
      /\ place' = [c \in Channels |-> [s \in kept(c) |->
                     IF c \in moving /\ pl[c][s] = "held" /\ EpochOf(s) = e + 1 THEN "queued" ELSE pl[c][s]]]
  BY DEF PassBarrier
<1>2. closed' \in [Channels -> SUBSET Nat]
  BY DEF PassBarrier, ChannelInv
<1>3. over \subseteq Channels /\ moving \subseteq Channels
  BY DEF OutOf, Into
<1>4. \A c \in moving : To(c) = o /\ FiniteEpochs(c) /\ epoch[c] = e /\ Quiet(pl, c)
  BY DEF InputEnded, Into
<1>5. \A c \in Channels : To(c) = o /\ FiniteEpochs(c) => c \in moving
  BY DEF InputEnded, Into
<1>6. \A c \in Channels : epoch[c] \in Nat
  BY DEF ChannelInv
<1>7. \A c, d \in Channels : To(c) = To(d) /\ FiniteEpochs(c) => FiniteEpochs(d)
  BY GraphIs DEF ChannelInv, GraphFacts
<1> HIDE DEF over, moving
<1>8. \A c \in Channels : epoch'[c] \in Nat /\ epoch'[c] >= epoch[c]
  BY <1>1, <1>4, <1>6
<1>9. \A c, d \in Channels : To(c) = To(d) /\ FiniteEpochs(c) => epoch'[c] = epoch'[d]
  <2> SUFFICES ASSUME NEW c \in Channels, NEW d \in Channels, To(c) = To(d), FiniteEpochs(c)
               PROVE  epoch'[c] = epoch'[d]
    OBVIOUS
  <2>1. epoch[c] = epoch[d] /\ FiniteEpochs(d)
    BY <1>7 DEF ChannelInv
  <2>2. c \in moving <=> d \in moving
    BY <1>4, <1>5, <2>1
  <2> QED BY <1>1, <2>1, <2>2
<1>10. ASSUME NEW c \in Channels PROVE PlacesOf(c, place', epoch'[c])
  <2>1. PlacesOf(c, pl, epoch[c])
    BY DEF PlacesOK
  <2>2. /\ DOMAIN place'[c] \subseteq DOMAIN pl[c]
        /\ \A s \in DOMAIN place'[c] :
             place'[c][s] = IF c \in moving /\ pl[c][s] = "held" /\ EpochOf(s) = e + 1 THEN "queued" ELSE pl[c][s]
    BY <1>1
  <2>3. CASE c \notin moving
    <3>1. epoch'[c] = epoch[c]
      BY <1>1, <2>3
    <3> QED BY <2>1, <2>2, <2>3, <3>1 DEF PlacesOf
  <2>4. CASE c \in moving
    <3>1. epoch'[c] = e + 1 /\ epoch[c] = e /\ FiniteEpochs(c)
      BY <1>1, <1>4, <2>4
    <3>2. \A s \in DOMAIN pl[c] : pl[c][s] = "held"
      BY <1>4, <2>4 DEF Quiet
    <3>3. \A s \in DOMAIN pl[c] : IsSegment(s) /\ EpochOf(s) \in Nat /\ EpochOf(s) > e
      BY <2>1, <3>1, <3>2 DEF PlacesOf, IsSegment
    <3>4. ASSUME NEW s \in DOMAIN place'[c]
          PROVE  /\ IsSegment(s) /\ place'[c][s] \in {"queued", "held"}
                 /\ IF place'[c][s] = "held" THEN EpochOf(s) > e + 1 ELSE EpochOf(s) = e + 1
      <4>1. place'[c][s] = IF EpochOf(s) = e + 1 THEN "queued" ELSE "held"
        BY <2>2, <2>4, <3>2
      <4> QED BY <2>2, <3>3, <4>1
    <3> QED BY <3>1, <3>4 DEF PlacesOf
  <2> QED BY <2>3, <2>4
<1>11. place' = [c \in Channels |-> place'[c]]
  BY <1>1
<1>12. PlacesOK(place)'
  BY <1>10, <1>11 DEF PlacesOK, PlacesOf, Channels, PodsOf, Pods, OpOf, To, FiniteEpochs
<1>13. epoch' \in [Channels -> Nat]
  BY <1>1, <1>8
<1>14. sealed' \subseteq Channels
  BY <1>1, <1>3 DEF ChannelInv
<1> QED BY <1>2, <1>8, <1>9, <1>12, <1>13, <1>14 DEF ChannelInv, Channels, To, FiniteEpochs

-----------------------------------------------------------------------------
(* Pods.                                                                   *)

LEMMA SilentIn == \A skip : Silent(skip) \subseteq Pods /\ \A x \in skip : x \notin Silent(skip)
  BY DEF Silent

\* What the pods' part of the invariant says in the next state, with the graph as it is.
LEMMA PodInvNext ==
  ASSUME topo' = topo,
         session' \in [Pods -> {"none", "current", "old"}], fresh' \in [Pods -> BOOLEAN],
         done' \subseteq Pods, \A x \in done' : session'[x] # "none",
         epochDone' \in [Pods -> Int], \A x \in Pods : epochDone'[x] = -2 <=> session'[x] = "none",
         finished' \subseteq Sources, emits' \in [Channels -> Nat], faults' \in 0 .. MaxFaults
  PROVE  PodInv'
<1>1. Pods' = Pods /\ Channels' = Channels /\ Sources' = Sources
  BY SameGraph DEF Sources
<1> QED BY <1>1 DEF PodInv, Registered

\* An expiry forgets the session and the reports of a pod together.
LEMMA ExpireOK ==
  ASSUME PodInv, NEW gone \in SUBSET Pods, Expire(gone), UNCHANGED <<topo, emits, finished, faults>>,
         fresh' \in [Pods -> BOOLEAN]
  PROVE  PodInv'
<1>1. session' = [y \in Pods |-> IF y \in gone THEN "none" ELSE session[y]]
  BY DEF Expire
<1>2. epochDone' = [y \in Pods |-> IF y \in gone THEN -2 ELSE epochDone[y]]
  BY DEF Expire, Forgotten
<1>3. done' = done \ gone
  BY DEF Expire
<1>4. /\ session \in [Pods -> {"none", "current", "old"}] /\ done \subseteq Pods
      /\ \A x \in done : session[x] # "none"
      /\ epochDone \in [Pods -> Int] /\ \A x \in Pods : epochDone[x] = -2 <=> session[x] = "none"
      /\ finished' \subseteq Sources /\ emits' \in [Channels -> Nat] /\ faults' \in 0 .. MaxFaults
  BY DEF PodInv, Registered
<1>5. session' \in [Pods -> {"none", "current", "old"}]
  BY <1>1, <1>4
<1>6. epochDone' \in [Pods -> Int] /\ \A x \in Pods : epochDone'[x] = -2 <=> session'[x] = "none"
  BY <1>1, <1>2, <1>4
<1>7. done' \subseteq Pods /\ \A x \in done' : session'[x] # "none"
  BY <1>1, <1>3, <1>4
<1> QED BY <1>4, <1>5, <1>6, <1>7, PodInvNext

\* Nothing about the pods changes, but perhaps how recent their calls are.
LEMMA PodsSame ==
  ASSUME PodInv, UNCHANGED <<topo, emits, session, done, epochDone, finished>>,
         fresh' \in [Pods -> BOOLEAN], faults' \in 0 .. MaxFaults
  PROVE  PodInv'
  BY SameGraph DEF PodInv, Registered, Sources

-----------------------------------------------------------------------------
(* Output.                                                                 *)

\* What a callback emits are segments for its outbound channels.
LEMMA EmittedIs ==
  ASSUME NEW x, NEW outbound, NEW e \in Nat, NEW ws \in Emitted(x, outbound, e)
  PROVE  \A w \in ws : w[1] \in outbound /\ IsSegment(w[2]) /\ Again(w[2]) = (x \in finished)
<1> DEFINE choices == {<<c, p>> : c \in {c \in outbound : Carries(c, e)}, p \in Partitions}
           emit(cp) == <<cp[1], NewSegment(x, cp[1], cp[2], EpochOn(cp[1], e))>>
<1>1. PICK S \in SUBSET choices : ws = {emit(cp) : cp \in S}
  BY DEF Emitted
<1>2. \A cp \in choices : cp[1] \in outbound /\ cp[2] \in Partitions
  OBVIOUS
<1>3. \A c : EpochOn(c, e) \in Nat
  BY DEF EpochOn
<1>4. \A cp : /\ emit(cp)[1] = cp[1] /\ emit(cp)[2][1] = cp[2] /\ emit(cp)[2][2] = EpochOn(cp[1], e)
             /\ emit(cp)[2][4] = (x \in finished)
  BY DEF NewSegment
<1> HIDE DEF choices, emit
<1> QED BY <1>1, <1>2, <1>3, <1>4 DEF IsSegment, Part, EpochOf, Again

LEMMA EmitOK ==
  ASSUME NEW x \in Pods, NEW outbound, NEW e \in Nat,
         out = [y \in Pods |-> out[y]], Emit(x, outbound, e)
  PROVE  /\ out' = [out EXCEPT ![x] = out'[x]]
         /\ \A w \in out'[x] : w[1] \in outbound /\ IsSegment(w[2]) /\ Again(w[2]) = (x \in finished)
<1>1. PICK ws \in Emitted(x, outbound, e) : out' = [out EXCEPT ![x] = ws]
  BY DEF Emit
<1>2. \A w \in ws : w[1] \in outbound /\ IsSegment(w[2]) /\ Again(w[2]) = (x \in finished)
  BY EmittedIs
<1> QED BY <1>1, <1>2

-----------------------------------------------------------------------------
(* Workers.                                                                *)

EpochsGrow == \A c \in Channels : epoch'[c] >= epoch[c]

\* A pod whose process does nothing keeps its part of the invariant, whatever epochs begin.
LEMMA OthersKeep ==
  ASSUME ChannelInv, ChannelInv', WorkerInv, topo' = topo, EpochsGrow, NEW y \in Pods,
         at'[y] = at[y], phase'[y] = phase[y], hand'[y] = hand[y], current'[y] = current[y],
         out'[y] = out[y], wepoch'[y] = wepoch[y], lastDone'[y] = lastDone[y]
  PROVE  PassOf(y)' /\ MemoryOf(y)'
<1>1. PassOf(y) /\ MemoryOf(y)
  BY DEF WorkerInv
<1>2. \A c \in Into(OpOf(y)) : /\ epoch'[c] >= epoch[c] /\ epoch[c] \in Nat /\ epoch'[c] \in Nat
  BY SameGraph DEF EpochsGrow, ChannelInv, Into
<1>3. /\ wepoch[y] \in Nat
      /\ \A c \in Into(OpOf(y)) : FiniteEpochs(c) => wepoch[y] <= epoch'[c]
  BY <1>1, <1>2 DEF PassOf
<1>4. PassOf(y)'
  BY <1>1, <1>3, SameGraph DEF PassOf
<1>5. MemoryOf(y)'
  BY <1>1, SameGraph DEF MemoryOf, IsSegment
<1> QED BY <1>4, <1>5

\* The memory of pod x in the next state, with the graph as it is.
LEMMA MemoryNext ==
  ASSUME topo' = topo, NEW x,
         \A w \in hand'[x] \cup current'[x] : w[1] \in Into(OpOf(x)) /\ IsSegment(w[2]),
         \A w \in out'[x] : w[1] \in OutOf(OpOf(x)) /\ IsSegment(w[2]),
         phase'[x] = "ending" => Finite(OpOf(x)),
         hand'[x] # {} \/ current'[x] # {} => phase'[x] = "poll",
         out'[x] # {} =>
           \/ current'[x] # {}
           \/ phase'[x] = "ending"
           \/ /\ phase'[x] = "draining"
              /\ Into(OpOf(x)) # {} => \A w \in out'[x] : w[1] \in DrainOutputs(OpOf(x))
  PROVE  MemoryOf(x)'
<1>1. /\ Into(OpOf(x))' = Into(OpOf(x)) /\ OutOf(OpOf(x))' = OutOf(OpOf(x))
      /\ Finite(OpOf(x))' = Finite(OpOf(x)) /\ DrainOutputs(OpOf(x))' = DrainOutputs(OpOf(x))
  BY DEF Into, OutOf, Finite, DrainOutputs, OpOf, To, From, Feedback, Mode, FiniteEpochs, CycleMembers, Channels
<1>2. \A s : IsSegment(s)' = IsSegment(s)
  BY DEF IsSegment, Part, EpochOf
<1> QED BY <1>1, <1>2 DEF MemoryOf

\* No process does anything.
LEMMA WorkersSame ==
  ASSUME ChannelInv, ChannelInv', WorkerInv, EpochsGrow,
         UNCHANGED <<topo, phase, passVars, workVars, wepoch, lastDone>>, up' \subseteq Pods
  PROVE  WorkerInv'
<1>1. \A y \in Pods : PassOf(y)' /\ MemoryOf(y)'
  BY OthersKeep DEF passVars, workVars
<1> QED BY <1>1, SameGraph DEF WorkerInv, passVars, workVars

\* The process of pod x takes a step.
LEMMA WorkerNext ==
  ASSUME ChannelInv, ChannelInv', WorkerInv, topo' = topo, EpochsGrow, NEW x \in Pods,
         at' = [at EXCEPT ![x] = at'[x]], phase' = [phase EXCEPT ![x] = phase'[x]],
         hand' = [hand EXCEPT ![x] = hand'[x]], current' = [current EXCEPT ![x] = current'[x]],
         out' = [out EXCEPT ![x] = out'[x]], wepoch' = [wepoch EXCEPT ![x] = wepoch'[x]],
         lastDone' = [lastDone EXCEPT ![x] = lastDone'[x]],
         phase'[x] \in {"source", "poll", "ending", "draining", "idle"},
         up' \subseteq Pods, allQuiet' \subseteq Pods, allDrained' \subseteq Pods,
         PassOf(x)', MemoryOf(x)'
  PROVE  WorkerInv'
<1>1. ASSUME NEW y \in Pods, y # x PROVE PassOf(y)' /\ MemoryOf(y)'
  <2>1. /\ at'[y] = at[y] /\ phase'[y] = phase[y] /\ hand'[y] = hand[y] /\ current'[y] = current[y]
        /\ out'[y] = out[y] /\ wepoch'[y] = wepoch[y] /\ lastDone'[y] = lastDone[y]
    BY <1>1 DEF WorkerInv
  <2> QED BY <2>1, OthersKeep
<1>2. \A y \in Pods : PassOf(y)' /\ MemoryOf(y)'
  BY <1>1
<1>3. Pods' = Pods
  BY SameGraph
<1>4. phase' \in [Pods -> {"source", "poll", "ending", "draining", "idle"}]
  BY DEF WorkerInv
<1>5. /\ at' = [y \in Pods |-> at'[y]] /\ hand' = [y \in Pods |-> hand'[y]]
      /\ current' = [y \in Pods |-> current'[y]] /\ out' = [y \in Pods |-> out'[y]]
      /\ wepoch' = [y \in Pods |-> wepoch'[y]] /\ lastDone' = [y \in Pods |-> lastDone'[y]]
  BY DEF WorkerInv
<1> QED BY <1>2, <1>3, <1>4, <1>5 DEF WorkerInv

\* A process that exits loses what it had in memory, and starts over.
LEMMA ExitOK ==
  ASSUME IInv, NEW x \in Pods, Exit(x), UNCHANGED <<topo, chanVars>>
  PROVE  ChannelInv' /\ WorkerInv'
<1>1. ChannelInv'
  BY ChannelsSame DEF IInv
<1>2. EpochsGrow
  BY DEF IInv, ChannelInv, EpochsGrow, chanVars
<1>3. /\ at' = [at EXCEPT ![x] = at'[x]] /\ phase' = [phase EXCEPT ![x] = phase'[x]]
      /\ hand' = [hand EXCEPT ![x] = hand'[x]] /\ current' = [current EXCEPT ![x] = current'[x]]
      /\ out' = [out EXCEPT ![x] = out'[x]] /\ wepoch' = [wepoch EXCEPT ![x] = wepoch'[x]]
      /\ lastDone' = [lastDone EXCEPT ![x] = lastDone'[x]]
      /\ at'[x] = 1 /\ phase'[x] = Start(x) /\ hand'[x] = {} /\ current'[x] = {} /\ out'[x] = {}
      /\ wepoch'[x] = 0 /\ lastDone'[x] = -1
  BY DEF Exit, IInv, WorkerInv
<1>4. /\ up' \subseteq Pods /\ allQuiet' \subseteq Pods /\ allDrained' \subseteq Pods
  BY DEF Exit, IInv, WorkerInv
<1>5. /\ OpOf(x) \in Ops /\ Len(topo.inbound[OpOf(x)]) \in Nat
      /\ \A c \in Into(OpOf(x)) : epoch'[c] \in Nat
  BY GraphIs DEF IInv, ChannelInv, GraphFacts, chanVars, Into
<1>6. /\ Start(x) \in {"source", "poll"} /\ (Start(x) = "poll" => Into(OpOf(x)) # {})
      /\ Start(x) = "source" => Into(OpOf(x)) = {}
  BY DEF Start
<1>7. PassOf(x)'
  BY <1>3, <1>5, <1>6, SameGraph DEF PassOf
<1>8. MemoryOf(x)'
  BY <1>3, <1>6, SameGraph DEF MemoryOf
<1> QED BY <1>1, <1>2, <1>3, <1>4, <1>6, <1>7, <1>8, WorkerNext DEF IInv

-----------------------------------------------------------------------------
(* The actions.                                                            *)

LEMMA EpochsStay == ASSUME ChannelInv, epoch' = epoch PROVE EpochsGrow
  BY DEF ChannelInv, EpochsGrow

LEMMA FaultIs == ASSUME IInv, Fault PROVE faults' \in 0 .. MaxFaults
  BY LoopsAssumption DEF IInv, PodInv, Fault

LEMMA CrashKeeps == ASSUME IInv, NEW x \in Pods, Crash(x) PROVE IInv'
<1>1. ChannelInv' /\ WorkerInv'
  BY ExitOK DEF Crash
<1>2. PodInv'
  BY FaultIs, PodsSame DEF Crash, IInv, podVars, PodInv
<1> QED BY <1>1, <1>2 DEF IInv

LEMMA ExitKeeps ==
  ASSUME IInv, NEW x \in Pods, Exit(x), UNCHANGED <<topo, chanVars, emits, podVars, faults>>
  PROVE  IInv'
<1>1. ChannelInv' /\ WorkerInv'
  BY ExitOK
<1>2. PodInv'
  BY PodsSame DEF IInv, podVars, PodInv
<1> QED BY <1>1, <1>2 DEF IInv

LEMMA RestartKeeps == ASSUME IInv, NEW x \in Pods, Restart(x) PROVE IInv'
<1>1. ChannelInv' /\ EpochsGrow
  BY ChannelsSame, EpochsStay DEF Restart, IInv, chanVars
<1>2. WorkerInv'
  <2>1. up' \subseteq Pods
    BY DEF Restart, IInv, WorkerInv
  <2> QED BY <1>1, <2>1, WorkersSame DEF Restart, IInv
<1>3. PodInv'
  <2>1. session' = [session EXCEPT ![x] = IF @ = "current" THEN "old" ELSE @]
    BY DEF Restart
  <2>2. /\ session' \in [Pods -> {"none", "current", "old"}]
        /\ \A y \in Pods : session'[y] = "none" <=> session[y] = "none"
    BY <2>1 DEF IInv, PodInv
  <2> QED BY <2>2, PodInvNext DEF Restart, IInv, PodInv, Registered
<1> QED BY <1>1, <1>2, <1>3 DEF IInv

LEMMA LapseKeeps == ASSUME IInv, NEW x \in Pods, Lapse(x) PROVE IInv'
<1>1. ChannelInv' /\ EpochsGrow
  BY ChannelsSame, EpochsStay DEF Lapse, IInv, chanVars
<1>2. WorkerInv'
  BY <1>1, WorkersSame DEF Lapse, IInv, WorkerInv
<1>3. PodInv'
  BY FaultIs, PodsSame DEF Lapse, IInv, PodInv
<1> QED BY <1>1, <1>2, <1>3 DEF IInv

\* The channels after deliveries have been returned and nothing else.
LEMMA ReturnedNext ==
  ASSUME ChannelInv, NEW gone \in SUBSET Pods, place' = Returned(gone), UNCHANGED <<topo, epoch, closed, sealed>>
  PROVE  ChannelInv'
<1>1. PlacesOK(Returned(gone))
  BY ReturnedOK
<1>2. PlacesOK(place)'
  BY <1>1, SameGraph DEF PlacesOK, PlacesOf, IsSegment
<1> QED BY <1>2, SameGraph DEF ChannelInv

LEMMA RegisterKeeps == ASSUME IInv, NEW x \in Pods, Register(x) PROVE IInv'
<1> DEFINE gone == Silent({x})
           taken == IF session[x] = "old" THEN {x} ELSE {}
<1>1. /\ session' = [y \in Pods |-> IF y = x THEN "current" ELSE IF y \in gone THEN "none" ELSE session[y]]
      /\ place' = Returned(gone \cup taken)
      /\ done' = done \ (gone \cup taken)
      /\ epochDone' = [Forgotten(gone) EXCEPT ![x] = IF session[x] = "current" THEN @ ELSE -1]
      /\ fresh' = [fresh EXCEPT ![x] = TRUE]
      /\ UNCHANGED <<topo, epoch, closed, sealed, emits, finished, up, phase, passVars, workVars, wepoch, lastDone, faults>>
  BY DEF Register
<1>2. gone \subseteq Pods /\ x \notin gone /\ taken \subseteq Pods
  BY SilentIn
<1> HIDE DEF gone, taken
<1>3. ChannelInv' /\ EpochsGrow
  BY <1>1, <1>2, ReturnedNext, EpochsStay DEF IInv
<1>4. WorkerInv'
  BY <1>1, <1>3, WorkersSame DEF IInv, WorkerInv
<1>5. PodInv'
  <2>1. /\ session \in [Pods -> {"none", "current", "old"}] /\ done \subseteq Pods
        /\ \A y \in done : session[y] # "none"
        /\ epochDone \in [Pods -> Int] /\ \A y \in Pods : epochDone[y] = -2 <=> session[y] = "none"
    BY DEF IInv, PodInv, Registered
  <2>2. epochDone' = [y \in Pods |-> IF y = x THEN IF session[x] = "current" THEN epochDone[x] ELSE -1
                                     ELSE IF y \in gone THEN -2 ELSE epochDone[y]]
    BY <1>1, <1>2 DEF Forgotten
  <2>3. epochDone' \in [Pods -> Int] /\ \A y \in Pods : epochDone'[y] = -2 <=> session'[y] = "none"
    <3>1. ASSUME NEW y \in Pods PROVE epochDone'[y] \in Int /\ (epochDone'[y] = -2 <=> session'[y] = "none")
      <4>1. /\ epochDone'[y] = IF y = x THEN IF session[x] = "current" THEN epochDone[x] ELSE -1
                               ELSE IF y \in gone THEN -2 ELSE epochDone[y]
            /\ session'[y] = IF y = x THEN "current" ELSE IF y \in gone THEN "none" ELSE session[y]
        BY <1>1, <2>2
      <4> QED BY <2>1, <4>1
    <3> QED BY <2>2, <3>1
  <2>4. session' \in [Pods -> {"none", "current", "old"}]
    BY <1>1, <2>1
  <2>5. done' \subseteq Pods /\ \A y \in done' : session'[y] # "none"
    BY <1>1, <1>2, <2>1
  <2>6. fresh' \in [Pods -> BOOLEAN] /\ emits' \in [Channels -> Nat] /\ faults' \in 0 .. MaxFaults
    BY <1>1 DEF IInv, PodInv
  <2>7. finished' \subseteq Sources
    BY <1>1 DEF IInv, PodInv
  <2> QED BY <1>1, <2>3, <2>4, <2>5, <2>6, <2>7, PodInvNext
<1> QED BY <1>3, <1>4, <1>5 DEF IInv

\* A handler that settles at its end, having brought the places to pl.
LEMMA SealKeeps == ASSUME IInv, NEW c \in Channels, Seal(c) PROVE IInv'
<1>1. /\ SealAll({c} \cup Settled(place, sealed \cup {c}), place)
      /\ UNCHANGED <<topo, epoch, emits, podVars, up, phase, passVars, workVars, wepoch, lastDone, faults>>
  BY DEF Seal
<1>2. ChannelInv' /\ EpochsGrow
  BY <1>1, SettledIn, SealAllOK, EpochsStay DEF IInv, ChannelInv
<1>3. WorkerInv'
  BY <1>1, <1>2, WorkersSame DEF IInv, WorkerInv
<1>4. PodInv'
  BY <1>1, PodsSame DEF IInv, PodInv, podVars
<1> QED BY <1>2, <1>3, <1>4 DEF IInv

LEMMA MetricsKeeps == ASSUME IInv, Metrics PROVE IInv'
<1> DEFINE gone == Silent({})
<1>1. /\ Expire(gone) /\ SealAll(Settled(Returned(gone), sealed), Returned(gone))
      /\ UNCHANGED <<topo, epoch, emits, fresh, finished, up, phase, passVars, workVars, wepoch, lastDone, faults>>
  BY DEF Metrics, Settle
<1>2. gone \in SUBSET Pods
  BY SilentIn
<1> HIDE DEF gone
<1>3. ChannelInv' /\ EpochsGrow
  BY <1>1, <1>2, SettledIn, ReturnedOK, SealAllOK, EpochsStay DEF IInv
<1>4. WorkerInv'
  BY <1>1, <1>3, WorkersSame DEF IInv, WorkerInv
<1>5. PodInv'
  BY <1>1, <1>2, ExpireOK DEF IInv, PodInv
<1> QED BY <1>3, <1>4, <1>5 DEF IInv

LEMMA RefusedKeeps == ASSUME IInv, NEW x \in Pods, Refused(x) PROVE IInv'
  BY ExitKeeps DEF Refused

LEMMA GiveUpKeeps == ASSUME IInv, NEW x \in Pods, GiveUp(x) PROVE IInv'
  BY ExitKeeps DEF GiveUp

\* What is known of the process of pod x, and of the graph around it.
LEMMA AboutPod ==
  ASSUME IInv, NEW x \in Pods
  PROVE  /\ PassOf(x) /\ MemoryOf(x) /\ GraphFacts
         /\ OpOf(x) \in Ops /\ Len(topo.inbound[OpOf(x)]) \in Nat
         /\ OutOf(OpOf(x)) \subseteq Channels /\ Into(OpOf(x)) \subseteq Channels
         /\ DrainOutputs(OpOf(x)) \subseteq OutOf(OpOf(x))
         /\ \A c \in Channels : epoch[c] \in Nat
         /\ out = [y \in Pods |-> out[y]]
<1>1. GraphFacts
  BY GraphIs DEF IInv, ChannelInv
<1> QED BY <1>1 DEF IInv, WorkerInv, ChannelInv, PodInv, OutOf, Into, DrainOutputs, GraphFacts

LEMMA SourceKeeps == ASSUME IInv, NEW x \in Pods, Source(x) PROVE IInv'
<1>1. /\ x \in up /\ phase[x] = "source" /\ phase' = [phase EXCEPT ![x] = "draining"]
      /\ Emit(x, OutOf(OpOf(x)), 0)
      /\ UNCHANGED <<topo, chanVars, emits, podVars, up, passVars, hand, current, wepoch, lastDone, faults>>
  BY DEF Source, Active
<1>2. ChannelInv' /\ EpochsGrow
  BY <1>1, ChannelsSame, EpochsStay DEF IInv, chanVars
<1>3. /\ out' = [out EXCEPT ![x] = out'[x]]
      /\ \A w \in out'[x] : w[1] \in OutOf(OpOf(x)) /\ IsSegment(w[2])
  BY <1>1, AboutPod, EmitOK DEF IInv
<1>4. PodInv'
  BY <1>1, PodsSame DEF IInv, PodInv, podVars
<1>5. /\ at' = [at EXCEPT ![x] = at'[x]] /\ phase' = [phase EXCEPT ![x] = phase'[x]]
      /\ hand' = [hand EXCEPT ![x] = hand'[x]] /\ current' = [current EXCEPT ![x] = current'[x]]
      /\ wepoch' = [wepoch EXCEPT ![x] = wepoch'[x]] /\ lastDone' = [lastDone EXCEPT ![x] = lastDone'[x]]
      /\ phase'[x] = "draining"
  BY <1>1 DEF IInv, WorkerInv, passVars
<1>6. up' \subseteq Pods /\ allQuiet' \subseteq Pods /\ allDrained' \subseteq Pods
  BY <1>1 DEF IInv, WorkerInv, passVars
<1>7. PassOf(x)'
  BY <1>1, <1>5, AboutPod, SameGraph DEF PassOf, passVars, chanVars
<1>8. MemoryOf(x)'
  <2>1. Into(OpOf(x))' = {} /\ OutOf(OpOf(x))' = OutOf(OpOf(x))
    BY <1>1, AboutPod, SameGraph DEF PassOf
  <2>2. hand'[x] = {} /\ current'[x] = {}
    BY <1>1, AboutPod DEF MemoryOf
  <2> QED BY <1>3, <1>5, <2>1, <2>2 DEF MemoryOf, IsSegment
<1>9. WorkerInv'
  BY <1>1, <1>2, <1>3, <1>5, <1>6, <1>7, <1>8, WorkerNext DEF IInv
<1> QED BY <1>2, <1>4, <1>9 DEF IInv

\* The next channel of a pass is one of the operation's.
LEMMA NextPollIn ==
  ASSUME IInv, NEW x \in Pods, ~AtEnd(x)
  PROVE  /\ at[x] \in 1 .. Len(topo.inbound[OpOf(x)]) /\ Len(topo.inbound[OpOf(x)]) \in Nat
         /\ topo.inbound[OpOf(x)][at[x]] \in Into(OpOf(x))
<1>1. PassOf(x) /\ GraphFacts /\ OpOf(x) \in Ops /\ Len(topo.inbound[OpOf(x)]) \in Nat
  BY AboutPod
<1>2. at[x] \in 1 .. Len(topo.inbound[OpOf(x)])
  BY <1>1 DEF AtEnd, PassOf
<1> QED BY <1>1, <1>2 DEF GraphFacts

\* A pass goes on, or is followed by the next one; at its end there is something to conclude.
LEMMA NotedIs ==
  ASSUME IInv, NEW x \in Pods, ~AtEnd(x), NEW d \in BOOLEAN, NEW q \in BOOLEAN, Noted(x, d, q)
  PROVE  /\ at' = [at EXCEPT ![x] = at'[x]]
         /\ allDrained' \subseteq Pods /\ allQuiet' \subseteq Pods
         /\ \/ at'[x] = 1
            \/ /\ at'[x] = at[x] + 1
               /\ x \in allDrained' <=> x \in allDrained /\ d
               /\ x \in allQuiet' <=> x \in allQuiet /\ q
<1>1. at[x] \in 1 .. Len(topo.inbound[OpOf(x)]) /\ at = [y \in Pods |-> at[y]]
  BY NextPollIn DEF IInv, WorkerInv
<1>2. allDrained \subseteq Pods /\ allQuiet \subseteq Pods
  BY DEF IInv, WorkerInv
<1>3. CASE /\ at' = [at EXCEPT ![x] = 1]
           /\ allDrained' = allDrained \cup {x} /\ allQuiet' = allQuiet \cup {x}
  BY <1>1, <1>2, <1>3
<1>4. CASE /\ at' = [at EXCEPT ![x] = @ + 1]
           /\ allDrained' = IF x \in allDrained /\ d THEN allDrained ELSE allDrained \ {x}
           /\ allQuiet' = IF x \in allQuiet /\ q THEN allQuiet ELSE allQuiet \ {x}
  BY <1>1, <1>2, <1>4
<1> QED BY <1>3, <1>4 DEF Noted

LEMMA ConsumeFailsKeeps == ASSUME IInv, NEW x \in Pods, ConsumeFails(x) PROVE IInv'
<1>1. /\ phase[x] = "poll" /\ ~AtEnd(x) /\ Noted(x, FALSE, FALSE)
      /\ UNCHANGED <<topo, chanVars, emits, podVars, up, phase, workVars, wepoch, lastDone, faults>>
  BY DEF ConsumeFails
<1>2. ChannelInv' /\ EpochsGrow
  BY <1>1, ChannelsSame, EpochsStay DEF IInv, chanVars
<1>3. PodInv'
  BY <1>1, PodsSame DEF IInv, PodInv, podVars
<1>4. /\ at' = [at EXCEPT ![x] = at'[x]] /\ at'[x] \in {1, at[x] + 1}
      /\ allDrained' \subseteq Pods /\ allQuiet' \subseteq Pods
  BY <1>1, NotedIs
<1>5. /\ phase' = [phase EXCEPT ![x] = phase'[x]]
      /\ hand' = [hand EXCEPT ![x] = hand'[x]] /\ current' = [current EXCEPT ![x] = current'[x]]
      /\ out' = [out EXCEPT ![x] = out'[x]]
      /\ wepoch' = [wepoch EXCEPT ![x] = wepoch'[x]] /\ lastDone' = [lastDone EXCEPT ![x] = lastDone'[x]]
      /\ phase'[x] = "poll" /\ up' \subseteq Pods
  BY <1>1 DEF IInv, WorkerInv, workVars
<1>6. at[x] \in 1 .. Len(topo.inbound[OpOf(x)]) /\ Len(topo.inbound[OpOf(x)]) \in Nat
  BY <1>1, NextPollIn
<1>7. PassOf(x)'
  <2>1. at'[x] \in 1 .. Len(topo.inbound[OpOf(x)]) + 1
    BY <1>4, <1>6
  <2> QED BY <1>1, <1>5, <2>1, AboutPod, SameGraph DEF PassOf, chanVars
<1>8. MemoryOf(x)'
  BY <1>1, <1>5, AboutPod, SameGraph DEF MemoryOf, IsSegment, workVars
<1>9. WorkerInv'
  BY <1>1, <1>2, <1>4, <1>5, <1>7, <1>8, WorkerNext DEF IInv
<1> QED BY <1>2, <1>3, <1>9 DEF IInv

LEMMA OnRecordKeeps == ASSUME IInv, NEW x \in Pods, OnRecord(x) PROVE IInv'
<1>1. PICK w \in hand[x] :
        LET e == IF FiniteEpochs(w[1]) THEN wepoch[x] ELSE EpochOf(w[2])
        IN  /\ current' = [current EXCEPT ![x] = {w}]
            /\ hand' = [hand EXCEPT ![x] = @ \ {w}]
            /\ wepoch' = [wepoch EXCEPT ![x] = e]
            /\ Emit(x, OutOf(OpOf(x)), e)
  BY DEF OnRecord
<1>2. UNCHANGED <<topo, chanVars, emits, podVars, up, phase, passVars, lastDone, faults>>
  BY DEF OnRecord
<1> DEFINE e == IF FiniteEpochs(w[1]) THEN wepoch[x] ELSE EpochOf(w[2])
<1>3. w[1] \in Into(OpOf(x)) /\ IsSegment(w[2]) /\ phase[x] = "poll"
  BY AboutPod DEF MemoryOf
<1>4. e \in Nat /\ (Finite(OpOf(x)) => e = wepoch[x])
  <2>1. Finite(OpOf(x)) => FiniteEpochs(w[1])
    BY <1>3, AboutPod DEF Finite, Into, GraphFacts
  <2> QED BY <1>3, <2>1, AboutPod DEF IsSegment, PassOf
<1>5. /\ Emit(x, OutOf(OpOf(x)), e) /\ current' = [current EXCEPT ![x] = {w}]
      /\ hand' = [hand EXCEPT ![x] = @ \ {w}] /\ wepoch' = [wepoch EXCEPT ![x] = e]
  BY <1>1
<1> HIDE DEF e
<1>6. ChannelInv' /\ EpochsGrow
  BY <1>2, ChannelsSame, EpochsStay DEF IInv, chanVars
<1>7. /\ out' = [out EXCEPT ![x] = out'[x]]
      /\ \A v \in out'[x] : v[1] \in OutOf(OpOf(x)) /\ IsSegment(v[2])
  BY <1>4, <1>5, AboutPod, EmitOK DEF IInv
<1>8. PodInv'
  BY <1>2, PodsSame DEF IInv, PodInv, podVars
<1>9. /\ at' = [at EXCEPT ![x] = at'[x]] /\ phase' = [phase EXCEPT ![x] = phase'[x]]
      /\ hand' = [hand EXCEPT ![x] = hand'[x]] /\ current' = [current EXCEPT ![x] = current'[x]]
      /\ wepoch' = [wepoch EXCEPT ![x] = wepoch'[x]] /\ lastDone' = [lastDone EXCEPT ![x] = lastDone'[x]]
      /\ phase'[x] = "poll" /\ hand'[x] = hand[x] \ {w} /\ current'[x] = {w} /\ wepoch'[x] = e
  BY <1>2, <1>3, <1>5 DEF IInv, WorkerInv, passVars
<1>10. up' \subseteq Pods /\ allQuiet' \subseteq Pods /\ allDrained' \subseteq Pods
  BY <1>2 DEF IInv, WorkerInv, passVars
<1>11. PassOf(x)'
  <2>1. PassOf(x)
    BY AboutPod
  <2>2. lastDone[x] <= e
    BY <1>4, <2>1 DEF PassOf
  <2>3. \A c \in Into(OpOf(x)) : FiniteEpochs(c) => e <= epoch[c]
    BY <1>4, <2>1 DEF PassOf, Finite
  <2> QED BY <1>2, <1>4, <1>9, <2>1, <2>2, <2>3, SameGraph DEF PassOf, passVars, chanVars
<1>12. MemoryOf(x)'
  <2>1. MemoryOf(x)
    BY AboutPod
  <2> QED BY <1>2, <1>3, <1>7, <1>9, <2>1, MemoryNext DEF MemoryOf
<1>13. WorkerInv'
  BY <1>2, <1>6, <1>7, <1>9, <1>10, <1>11, <1>12, WorkerNext DEF IInv
<1> QED BY <1>6, <1>8, <1>13 DEF IInv

LEMMA AckKeeps == ASSUME IInv, NEW x \in Pods, Ack(x) PROVE IInv'
<1>1. PICK w \in current[x] :
        LET c == w[1]
            owned == w[2] \in Live(c) /\ place[c][w[2]] = x
        IN  Settle(IF owned THEN [place EXCEPT ![c] = [s \in Live(c) \ {w[2]} |-> place[c][s]]] ELSE place)
  BY DEF Ack
<1>2. /\ out[x] = {} /\ current' = [current EXCEPT ![x] = {}]
      /\ UNCHANGED <<topo, epoch, emits, podVars, up, phase, passVars, hand, out, wepoch, lastDone, faults>>
  BY DEF Ack
<1>3. PICK pl : PlacesOK(pl) /\ Settle(pl)
  <2>1. w[1] \in Channels
    BY AboutPod DEF MemoryOf, Into
  <2>2. PlacesOK(place) /\ PlacesOK([place EXCEPT ![w[1]] = [s \in Live(w[1]) \ {w[2]} |-> place[w[1]][s]]])
    BY <2>1, RemovedOK DEF IInv, ChannelInv
  <2> QED BY <1>1, <2>2
<1>4. ChannelInv' /\ EpochsGrow
  BY <1>2, <1>3, SealAllOK, SettledIn, EpochsStay DEF IInv, Settle
<1>5. PodInv'
  BY <1>2, PodsSame DEF IInv, PodInv, podVars
<1>6. /\ at' = [at EXCEPT ![x] = at'[x]] /\ phase' = [phase EXCEPT ![x] = phase'[x]]
      /\ hand' = [hand EXCEPT ![x] = hand'[x]] /\ current' = [current EXCEPT ![x] = current'[x]]
      /\ out' = [out EXCEPT ![x] = out'[x]]
      /\ wepoch' = [wepoch EXCEPT ![x] = wepoch'[x]] /\ lastDone' = [lastDone EXCEPT ![x] = lastDone'[x]]
      /\ current'[x] = {} /\ out'[x] = {} /\ phase'[x] = phase[x] /\ hand'[x] = hand[x]
      /\ phase[x] \in {"source", "poll", "ending", "draining", "idle"}
  BY <1>2 DEF IInv, WorkerInv, passVars
<1>7. up' \subseteq Pods /\ allQuiet' \subseteq Pods /\ allDrained' \subseteq Pods
  BY <1>2 DEF IInv, WorkerInv, passVars
<1>8. PassOf(x)'
  BY <1>2, AboutPod, SameGraph DEF PassOf, passVars
<1>9. MemoryOf(x)'
  <2>1. MemoryOf(x)
    BY AboutPod
  <2> QED BY <1>2, <1>6, <2>1, MemoryNext DEF MemoryOf
<1>10. WorkerInv'
  BY <1>2, <1>4, <1>6, <1>7, <1>8, <1>9, WorkerNext DEF IInv
<1> QED BY <1>4, <1>5, <1>10 DEF IInv

LEMMA EndPassKeeps == ASSUME IInv, NEW x \in Pods, EndPass(x) PROVE IInv'
<1>1. /\ phase[x] = "poll" /\ hand[x] = {} /\ current[x] = {}
      /\ Concludes(OpOf(x), x \in allDrained, x \in allQuiet, lastDone[x] < wepoch[x])
      /\ at' = [at EXCEPT ![x] = 1]
      /\ allQuiet' = allQuiet \cup {x} /\ allDrained' = allDrained \cup {x}
      /\ UNCHANGED <<topo, chanVars, emits, podVars, up, hand, current, wepoch, lastDone, faults>>
  BY DEF EndPass
<1>2. PassOf(x) /\ MemoryOf(x)
  BY AboutPod
<1>3. ChannelInv' /\ EpochsGrow
  BY <1>1, ChannelsSame, EpochsStay DEF IInv, chanVars
<1>4. PICK p \in {"draining", "ending"}, cs \in SUBSET OutOf(OpOf(x)) :
        /\ phase' = [phase EXCEPT ![x] = p] /\ Emit(x, cs, wepoch[x])
        /\ p = "draining" => cs = DrainOutputs(OpOf(x))
        /\ p = "ending" => Finite(OpOf(x))
  <2>1. CASE x \in allDrained
    BY <2>1, AboutPod DEF EndPass
  <2>2. CASE x \notin allDrained
    BY <1>1, <2>2 DEF EndPass, Concludes
  <2> QED BY <2>1, <2>2
<1>5. /\ out' = [out EXCEPT ![x] = out'[x]]
      /\ \A v \in out'[x] : v[1] \in cs /\ IsSegment(v[2])
  <2>1. cs \in SUBSET Channels /\ wepoch[x] \in Nat
    BY <1>2, AboutPod DEF PassOf
  <2> QED BY <1>4, <2>1, AboutPod, EmitOK DEF IInv
<1>6. PodInv'
  BY <1>1, PodsSame DEF IInv, PodInv, podVars
<1>7. /\ at' = [at EXCEPT ![x] = at'[x]] /\ phase' = [phase EXCEPT ![x] = phase'[x]]
      /\ hand' = [hand EXCEPT ![x] = hand'[x]] /\ current' = [current EXCEPT ![x] = current'[x]]
      /\ wepoch' = [wepoch EXCEPT ![x] = wepoch'[x]] /\ lastDone' = [lastDone EXCEPT ![x] = lastDone'[x]]
      /\ phase'[x] = p /\ at'[x] = 1 /\ hand'[x] = {} /\ current'[x] = {}
  BY <1>1, <1>4 DEF IInv, WorkerInv
<1>8. up' \subseteq Pods /\ allQuiet' \subseteq Pods /\ allDrained' \subseteq Pods
  BY <1>1 DEF IInv, WorkerInv
<1>9. PassOf(x)'
  <2>1. Into(OpOf(x)) # {}
    BY <1>1, <1>2 DEF PassOf
  <2> QED BY <1>1, <1>2, <1>7, <2>1, AboutPod, SameGraph DEF PassOf, chanVars
<1>10. MemoryOf(x)'
  <2>1. \A v \in out'[x] : v[1] \in OutOf(OpOf(x)) /\ IsSegment(v[2])
    BY <1>5
  <2>2. p = "draining" => \A v \in out'[x] : v[1] \in DrainOutputs(OpOf(x))
    BY <1>4, <1>5
  <2> QED BY <1>1, <1>4, <1>7, <2>1, <2>2, MemoryNext
<1>11. WorkerInv'
  BY <1>1, <1>3, <1>5, <1>7, <1>8, <1>9, <1>10, WorkerNext DEF IInv
<1> QED BY <1>3, <1>6, <1>11 DEF IInv

LEMMA DropOutputKeeps == ASSUME IInv, NEW x \in Pods, DropOutput(x) PROVE IInv'
<1>1. /\ phase[x] = "draining" /\ out' = [out EXCEPT ![x] = {}]
      /\ UNCHANGED <<topo, chanVars, emits, podVars, up, phase, passVars, hand, current, wepoch, lastDone, faults>>
  BY DEF DropOutput
<1>2. ChannelInv' /\ EpochsGrow
  BY <1>1, ChannelsSame, EpochsStay DEF IInv, chanVars
<1>3. PodInv'
  BY <1>1, PodsSame DEF IInv, PodInv, podVars
<1>4. /\ at' = [at EXCEPT ![x] = at'[x]] /\ phase' = [phase EXCEPT ![x] = phase'[x]]
      /\ hand' = [hand EXCEPT ![x] = hand'[x]] /\ current' = [current EXCEPT ![x] = current'[x]]
      /\ out' = [out EXCEPT ![x] = out'[x]]
      /\ wepoch' = [wepoch EXCEPT ![x] = wepoch'[x]] /\ lastDone' = [lastDone EXCEPT ![x] = lastDone'[x]]
      /\ out'[x] = {} /\ phase'[x] = "draining"
  BY <1>1 DEF IInv, WorkerInv, passVars
<1>5. up' \subseteq Pods /\ allQuiet' \subseteq Pods /\ allDrained' \subseteq Pods
  BY <1>1 DEF IInv, WorkerInv, passVars
<1>6. PassOf(x)'
  BY <1>1, AboutPod, SameGraph DEF PassOf, passVars, chanVars
<1>7. MemoryOf(x)'
  BY <1>1, <1>4, AboutPod, MemoryNext DEF MemoryOf
<1>8. WorkerInv'
  BY <1>1, <1>2, <1>4, <1>5, <1>6, <1>7, WorkerNext DEF IInv
<1> QED BY <1>2, <1>3, <1>8 DEF IInv

LEMMA PublishKeeps == ASSUME IInv, NEW x \in Pods, NEW c \in Channels, Publish(x, c) PROVE IInv'
<1>1. /\ FiniteEpochs(c) => \A s \in Outgoing(x, c) : EpochOf(s) >= epoch[c]
      /\ Settle([place EXCEPT ![c] = Indexed(c, Outgoing(x, c))])
      /\ out' = [out EXCEPT ![x] = {w \in @ : w[1] # c}] /\ emits' = [emits EXCEPT ![c] = @ + 1]
      /\ UNCHANGED <<topo, epoch, podVars, up, phase, passVars, hand, current, wepoch, lastDone, faults>>
  BY DEF Publish
<1>2. MemoryOf(x) /\ PassOf(x)
  BY AboutPod
<1>3. \A s \in Outgoing(x, c) : IsSegment(s)
  BY <1>2 DEF MemoryOf, Outgoing
<1>4. ChannelInv' /\ EpochsGrow
  BY <1>1, <1>3, IndexedOK, SettledIn, SealAllOK, EpochsStay DEF Settle, IInv
<1>5. PodInv'
  <2>1. emits' \in [Channels -> Nat]
    BY <1>1 DEF IInv, PodInv
  <2> QED BY <1>1, <2>1, PodInvNext DEF IInv, PodInv, podVars, Registered
<1>6. /\ at' = [at EXCEPT ![x] = at'[x]] /\ phase' = [phase EXCEPT ![x] = phase'[x]]
      /\ hand' = [hand EXCEPT ![x] = hand'[x]] /\ current' = [current EXCEPT ![x] = current'[x]]
      /\ out' = [out EXCEPT ![x] = out'[x]]
      /\ wepoch' = [wepoch EXCEPT ![x] = wepoch'[x]] /\ lastDone' = [lastDone EXCEPT ![x] = lastDone'[x]]
      /\ out'[x] \subseteq out[x] /\ phase'[x] = phase[x]
      /\ current'[x] = current[x] /\ hand'[x] = hand[x]
      /\ phase[x] \in {"source", "poll", "ending", "draining", "idle"}
  BY <1>1 DEF IInv, WorkerInv, passVars
<1>7. up' \subseteq Pods /\ allQuiet' \subseteq Pods /\ allDrained' \subseteq Pods
  BY <1>1 DEF IInv, WorkerInv, passVars
<1>8. PassOf(x)'
  BY <1>1, <1>2, SameGraph DEF PassOf, passVars
<1>9. MemoryOf(x)'
  BY <1>1, <1>2, <1>6, MemoryNext DEF MemoryOf
<1>10. WorkerInv'
  BY <1>1, <1>4, <1>6, <1>7, <1>8, <1>9, WorkerNext DEF IInv
<1> QED BY <1>4, <1>5, <1>10 DEF IInv

\* What Consume does, with its local names.
LEMMA ConsumeIs ==
  ASSUME NEW x, Consume(x)
  PROVE  LET c     == topo.inbound[OpOf(x)][at[x]]
             gone  == Silent({x})
             pl    == Returned(gone)
             work  == {s \in Live(c) : pl[c][s] = "queued" /\ Part(s) \in Assigned(OpOf(x), x, gone)}
             given == [pl EXCEPT ![c] = [s \in Live(c) |-> IF s \in work THEN x ELSE pl[c][s]]]
         IN  /\ phase[x] = "poll" /\ ~AtEnd(x) /\ hand[x] = {} /\ current[x] = {} /\ out[x] = {}
             /\ Expire(gone) /\ SealAll(Settled(pl, sealed), given)
             /\ hand' = [hand EXCEPT ![x] = {<<c, s>> : s \in work}]
             /\ wepoch' = IF FiniteEpochs(c) THEN [wepoch EXCEPT ![x] = epoch[c]] ELSE wepoch
             /\ Noted(x, c \in sealed \cup Settled(pl, sealed) /\ Quiet(given, c),
                      FiniteEpochs(c) /\ epoch[c] \in closed'[c] /\ Quiet(given, c))
             /\ fresh' = [fresh EXCEPT ![x] = TRUE]
             /\ UNCHANGED <<topo, epoch, emits, finished, up, phase, current, out, lastDone, faults>>
  BY DEF Consume

LEMMA ConsumeKeeps == ASSUME IInv, NEW x \in Pods, Consume(x) PROVE IInv'
<1> DEFINE c     == topo.inbound[OpOf(x)][at[x]]
           gone  == Silent({x})
           pl    == Returned(gone)
           work  == {s \in Live(c) : pl[c][s] = "queued" /\ Part(s) \in Assigned(OpOf(x), x, gone)}
           given == [pl EXCEPT ![c] = [s \in Live(c) |-> IF s \in work THEN x ELSE pl[c][s]]]
<1>1. /\ phase[x] = "poll" /\ ~AtEnd(x) /\ hand[x] = {} /\ current[x] = {} /\ out[x] = {}
      /\ Expire(gone) /\ SealAll(Settled(pl, sealed), given)
      /\ hand' = [hand EXCEPT ![x] = {<<c, s>> : s \in work}]
      /\ wepoch' = IF FiniteEpochs(c) THEN [wepoch EXCEPT ![x] = epoch[c]] ELSE wepoch
      /\ Noted(x, c \in sealed \cup Settled(pl, sealed) /\ Quiet(given, c),
               FiniteEpochs(c) /\ epoch[c] \in closed'[c] /\ Quiet(given, c))
      /\ fresh' = [fresh EXCEPT ![x] = TRUE]
      /\ UNCHANGED <<topo, epoch, emits, finished, up, phase, current, out, lastDone, faults>>
  BY ConsumeIs
<1>2. PassOf(x) /\ MemoryOf(x)
  BY AboutPod
<1>3. /\ at[x] \in 1 .. Len(topo.inbound[OpOf(x)]) /\ Len(topo.inbound[OpOf(x)]) \in Nat
      /\ at' = [at EXCEPT ![x] = at'[x]] /\ at'[x] \in {1, at[x] + 1}
      /\ allDrained' \subseteq Pods /\ allQuiet' \subseteq Pods
  <2>1. Quiet(given, c) \in BOOLEAN
    BY DEF Quiet
  <2> HIDE DEF c, gone, pl, work, given
  <2> QED BY <1>1, <2>1, NextPollIn, NotedIs
<1>4. c \in Into(OpOf(x)) /\ c \in Channels /\ To(c) = OpOf(x)
  BY <1>1, NextPollIn DEF Into
<1>5. gone \in SUBSET Pods
  BY SilentIn
<1>6. PlacesOK(pl)
  BY <1>5, ReturnedOK DEF IInv
<1>7. \A s \in work : s \in Live(c) /\ pl[c][s] = "queued"
  OBVIOUS
<1>8. DOMAIN pl[c] = Live(c)
  BY <1>4 DEF Returned
<1> HIDE DEF c, gone, pl, work
<1>9. PlacesOK(given)
  <2>1. x \in PodsOf(To(c))
    BY <1>4 DEF PodsOf
  <2> QED BY <1>4, <1>6, <1>7, <1>8, <2>1, GivenOK DEF IInv
<1> HIDE DEF given
<1>10. ChannelInv' /\ EpochsGrow
  BY <1>1, <1>9, SettledIn, SealAllOK, EpochsStay DEF IInv
<1>11. PodInv'
  BY <1>1, <1>5, ExpireOK DEF IInv, PodInv
<1>12. \A s \in Live(c) : IsSegment(s)
  BY <1>4 DEF IInv, ChannelInv, PlacesOK, PlacesOf, Live
<1>13. PICK e \in Nat : /\ wepoch' = [wepoch EXCEPT ![x] = e] /\ lastDone[x] <= e
                        /\ \A d \in Into(OpOf(x)) : FiniteEpochs(d) => e <= epoch[d]
  <2>1. CASE FiniteEpochs(c)
    <3>1. \A d \in Into(OpOf(x)) : epoch[d] = epoch[c] /\ epoch[c] \in Nat
      BY <1>4, <2>1 DEF IInv, ChannelInv, Into
    <3>2. lastDone[x] <= epoch[c]
      BY <1>2, <1>4, <2>1, AboutPod DEF PassOf
    <3>3. wepoch' = [wepoch EXCEPT ![x] = epoch[c]] /\ epoch[c] \in Nat
      BY <1>1, <1>4, <2>1, <3>1
    <3>4. \A d \in Into(OpOf(x)) : FiniteEpochs(d) => epoch[c] <= epoch[d]
      BY <3>1, <3>3
    <3> QED BY <3>2, <3>3, <3>4
  <2>2. CASE ~FiniteEpochs(c)
    <3>1. wepoch' = [wepoch EXCEPT ![x] = wepoch[x]]
      BY <1>1, <2>2 DEF IInv, WorkerInv
    <3> QED BY <1>2, <3>1 DEF PassOf
  <2> QED BY <2>1, <2>2
<1>14. /\ phase' = [phase EXCEPT ![x] = phase'[x]]
       /\ hand' = [hand EXCEPT ![x] = hand'[x]] /\ current' = [current EXCEPT ![x] = current'[x]]
       /\ out' = [out EXCEPT ![x] = out'[x]]
       /\ wepoch' = [wepoch EXCEPT ![x] = wepoch'[x]] /\ lastDone' = [lastDone EXCEPT ![x] = lastDone'[x]]
       /\ phase'[x] = "poll" /\ current'[x] = {} /\ out'[x] = {} /\ hand'[x] = {<<c, s>> : s \in work}
       /\ wepoch'[x] = e /\ lastDone'[x] = lastDone[x]
  BY <1>1, <1>13 DEF IInv, WorkerInv
<1>15. up' \subseteq Pods
  BY <1>1 DEF IInv, WorkerInv
<1>16. PassOf(x)'
  <2>1. at'[x] \in 1 .. Len(topo.inbound[OpOf(x)]) + 1
    BY <1>3
  <2> QED BY <1>1, <1>2, <1>13, <1>14, <2>1, AboutPod, SameGraph DEF PassOf
<1>17. MemoryOf(x)'
  <2>1. \A w \in hand'[x] \cup current'[x] : w[1] \in Into(OpOf(x)) /\ IsSegment(w[2])
    BY <1>4, <1>7, <1>12, <1>14
  <2> QED BY <1>1, <1>14, <2>1, MemoryNext
<1>18. WorkerInv'
  BY <1>1, <1>3, <1>10, <1>14, <1>15, <1>16, <1>17, WorkerNext DEF IInv
<1> QED BY <1>10, <1>11, <1>18 DEF IInv

\* A report is recorded; the end of the epoch it completes keeps the channels in order.
LEMMA RecordOK ==
  ASSUME IInv, NEW x \in Pods, NEW e \in Nat, NEW pl, PlacesOK(pl), NEW doneAt, NEW live,
         e > doneAt[x] => InputEnded(OpOf(x), e, pl),
         RecordEpochDone(x, e, pl, doneAt, live), topo' = topo
  PROVE  ChannelInv' /\ EpochsGrow
<1>1. CASE e > doneAt[x] /\ BarrierMet(OpOf(x), e, [doneAt EXCEPT ![x] = IF e > @ THEN e ELSE @], live)
  <2>1. PassBarrier(OpOf(x), e, pl)
    BY <1>1 DEF RecordEpochDone
  <2> QED BY <1>1, <2>1, BarrierOK, AboutPod DEF IInv, EpochsGrow
<1>2. CASE ~(e > doneAt[x] /\ BarrierMet(OpOf(x), e, [doneAt EXCEPT ![x] = IF e > @ THEN e ELSE @], live))
  <2>1. place' = pl /\ UNCHANGED <<epoch, closed, sealed>>
    BY <1>2 DEF RecordEpochDone
  <2>2. PlacesOK(place)'
    BY <2>1, SameGraph DEF PlacesOK, PlacesOf, IsSegment
  <2> QED BY <2>1, <2>2, EpochsStay, SameGraph DEF IInv, ChannelInv
<1> QED BY <1>1, <1>2

LEMMA ReportEpochKeeps == ASSUME IInv, NEW x \in Pods, ReportEpoch(x) PROVE IInv'
<1> DEFINE gone == Silent({x})
           live == {y \in PodsOf(OpOf(x)) : Registered(y)} \ gone
<1>1. /\ session[x] = "current" /\ phase[x] = "ending" /\ out[x] = {}
      /\ wepoch[x] <= epochDone[x] \/ InputEnded(OpOf(x), wepoch[x], Returned(gone))
      /\ session' = [y \in Pods |-> IF y \in gone THEN "none" ELSE session[y]]
      /\ done' = done \ gone
      /\ fresh' = [fresh EXCEPT ![x] = TRUE]
      /\ RecordEpochDone(x, wepoch[x], Returned(gone), Forgotten(gone), live)
      /\ lastDone' = [lastDone EXCEPT ![x] = wepoch[x]]
      /\ phase' = [phase EXCEPT ![x] = "poll"]
      /\ UNCHANGED <<topo, emits, finished, up, passVars, workVars, wepoch, faults>>
  BY DEF ReportEpoch, Active
<1>2. gone \in SUBSET Pods /\ x \notin gone
  BY SilentIn
<1> HIDE DEF gone, live
<1>3. PassOf(x) /\ MemoryOf(x)
  BY AboutPod
<1>4. wepoch[x] \in Nat
  BY <1>3 DEF PassOf
<1>5. /\ epochDone \in [Pods -> Int] /\ epochDone[x] # -2
      /\ \A y \in Pods : epochDone[y] = -2 <=> session[y] = "none"
      /\ session \in [Pods -> {"none", "current", "old"}] /\ done \subseteq Pods
      /\ \A y \in done : session[y] # "none"
  BY <1>1 DEF IInv, PodInv, Registered
<1>6. Forgotten(gone)[x] = epochDone[x]
  BY <1>2 DEF Forgotten
<1>7. ChannelInv' /\ EpochsGrow
  <2>1. wepoch[x] > Forgotten(gone)[x] => InputEnded(OpOf(x), wepoch[x], Returned(gone))
    BY <1>1, <1>4, <1>5, <1>6
  <2>2. PlacesOK(Returned(gone))
    BY <1>2, ReturnedOK DEF IInv
  <2> QED BY <1>1, <1>4, <2>1, <2>2, RecordOK
<1>8. PodInv'
  <2>1. epochDone' = [y \in Pods |-> IF y = x THEN (IF wepoch[x] > epochDone[x] THEN wepoch[x] ELSE epochDone[x])
                                     ELSE IF y \in gone THEN -2 ELSE epochDone[y]]
    BY <1>1, <1>2 DEF RecordEpochDone, Forgotten
  <2>2. ASSUME NEW y \in Pods PROVE epochDone'[y] \in Int /\ (epochDone'[y] = -2 <=> session'[y] = "none")
    <3>1. CASE y = x
      BY <1>1, <1>2, <1>4, <1>5, <2>1, <3>1
    <3>2. CASE y # x
      BY <1>1, <1>5, <2>1, <3>2
    <3> QED BY <3>1, <3>2
  <2>3. epochDone' \in [Pods -> Int] /\ \A y \in Pods : epochDone'[y] = -2 <=> session'[y] = "none"
    BY <2>1, <2>2
  <2>4. session' \in [Pods -> {"none", "current", "old"}]
    BY <1>1, <1>5
  <2>5. done' \subseteq Pods /\ \A y \in done' : session'[y] # "none"
    BY <1>1, <1>2, <1>5
  <2>6. fresh' \in [Pods -> BOOLEAN] /\ emits' \in [Channels -> Nat] /\ faults' \in 0 .. MaxFaults
    BY <1>1 DEF IInv, PodInv
  <2>7. finished' \subseteq Sources
    BY <1>1 DEF IInv, PodInv
  <2> QED BY <1>1, <2>3, <2>4, <2>5, <2>6, <2>7, PodInvNext
<1>9. /\ at' = [at EXCEPT ![x] = at'[x]] /\ phase' = [phase EXCEPT ![x] = phase'[x]]
      /\ hand' = [hand EXCEPT ![x] = hand'[x]] /\ current' = [current EXCEPT ![x] = current'[x]]
      /\ out' = [out EXCEPT ![x] = out'[x]]
      /\ wepoch' = [wepoch EXCEPT ![x] = wepoch'[x]] /\ lastDone' = [lastDone EXCEPT ![x] = lastDone'[x]]
      /\ phase'[x] = "poll" /\ lastDone'[x] = wepoch[x] /\ wepoch'[x] = wepoch[x] /\ at'[x] = at[x]
      /\ out'[x] = {} /\ hand'[x] = {} /\ current'[x] = {}
  BY <1>1, <1>3 DEF IInv, WorkerInv, passVars, workVars, MemoryOf
<1>10. up' \subseteq Pods /\ allQuiet' \subseteq Pods /\ allDrained' \subseteq Pods
  BY <1>1 DEF IInv, WorkerInv, passVars
<1>11. PassOf(x)'
  <2>1. Finite(OpOf(x)) /\ Into(OpOf(x)) # {}
    BY <1>1, <1>3 DEF PassOf, MemoryOf
  <2>2. \A c \in Into(OpOf(x)) : FiniteEpochs(c) => wepoch[x] <= epoch'[c]
    <3>1. \A c \in Into(OpOf(x)) : c \in Channels /\ epoch[c] \in Nat /\ epoch'[c] \in Nat
      BY <1>1, <1>7, SameGraph DEF IInv, ChannelInv, Into
    <3> QED BY <1>3, <1>4, <1>7, <3>1 DEF PassOf, EpochsGrow
  <2>3. at[x] \in 1 .. Len(topo.inbound[OpOf(x)]) + 1
    BY <1>3 DEF PassOf
  <2> QED BY <1>1, <1>4, <1>9, <2>1, <2>2, <2>3, SameGraph DEF PassOf
<1>12. MemoryOf(x)'
  BY <1>1, <1>9, MemoryNext
<1>13. WorkerInv'
  BY <1>1, <1>7, <1>9, <1>10, <1>11, <1>12, WorkerNext DEF IInv
<1> QED BY <1>7, <1>8, <1>13 DEF IInv

LEMMA ReportDoneKeeps == ASSUME IInv, NEW x \in Pods, ReportDone(x) PROVE IInv'
<1>1. /\ session[x] = "current" /\ phase[x] = "draining" /\ out[x] = {}
      /\ done' = done \cup {x} /\ phase' = [phase EXCEPT ![x] = "idle"]
      /\ UNCHANGED <<topo, emits, session, fresh, up, passVars, workVars, wepoch, lastDone, faults>>
  BY DEF ReportDone, Active
<1>2. PassOf(x) /\ MemoryOf(x)
  BY AboutPod
<1>3. /\ epochDone \in [Pods -> Int] /\ \A y \in Pods : epochDone[y] = -2 <=> session[y] = "none"
      /\ done \subseteq Pods /\ \A y \in done : session[y] # "none"
  BY DEF IInv, PodInv, Registered
<1>4. /\ ChannelInv' /\ EpochsGrow
      /\ epochDone' = [epochDone EXCEPT ![x] = epochDone'[x]]
      /\ epochDone'[x] \in Int /\ epochDone'[x] # -2
  <2>1. CASE Into(OpOf(x)) = {}
    <3>1. RecordEpochDone(x, 0, place, epochDone, {y \in PodsOf(OpOf(x)) : Registered(y)})
      BY <2>1 DEF ReportDone
    <3>2. InputEnded(OpOf(x), 0, place)
      BY <2>1 DEF InputEnded
    <3>3. PlacesOK(place)
      BY DEF IInv, ChannelInv
    <3>4. ChannelInv' /\ EpochsGrow
      BY <1>1, <3>1, <3>2, <3>3, RecordOK
    <3>5. epochDone' = [epochDone EXCEPT ![x] = IF 0 > @ THEN 0 ELSE @]
      BY <3>1 DEF RecordEpochDone
    <3> QED BY <1>1, <1>3, <3>4, <3>5
  <2>2. CASE Into(OpOf(x)) # {}
    <3>1. UNCHANGED <<chanVars, epochDone>>
      BY <2>2 DEF ReportDone
    <3>2. ChannelInv' /\ EpochsGrow
      BY <1>1, <3>1, ChannelsSame, EpochsStay DEF IInv, chanVars
    <3> QED BY <1>1, <1>3, <3>1, <3>2
  <2> QED BY <2>1, <2>2
<1>5. PodInv'
  <2>1. epochDone' \in [Pods -> Int] /\ \A y \in Pods : epochDone'[y] = -2 <=> session'[y] = "none"
    BY <1>1, <1>3, <1>4
  <2>2. done' \subseteq Pods /\ \A y \in done' : session'[y] # "none"
    BY <1>1, <1>3
  <2>3. /\ session' \in [Pods -> {"none", "current", "old"}] /\ fresh' \in [Pods -> BOOLEAN]
        /\ emits' \in [Channels -> Nat] /\ faults' \in 0 .. MaxFaults
    BY <1>1 DEF IInv, PodInv
  <2>4. finished' \subseteq Sources
    BY DEF ReportDone, Sources, IInv, PodInv
  <2> QED BY <1>1, <2>1, <2>2, <2>3, <2>4, PodInvNext
<1>6. /\ at' = [at EXCEPT ![x] = at'[x]] /\ phase' = [phase EXCEPT ![x] = phase'[x]]
      /\ hand' = [hand EXCEPT ![x] = hand'[x]] /\ current' = [current EXCEPT ![x] = current'[x]]
      /\ out' = [out EXCEPT ![x] = out'[x]]
      /\ wepoch' = [wepoch EXCEPT ![x] = wepoch'[x]] /\ lastDone' = [lastDone EXCEPT ![x] = lastDone'[x]]
      /\ phase'[x] = "idle" /\ lastDone'[x] = lastDone[x] /\ wepoch'[x] = wepoch[x] /\ at'[x] = at[x]
      /\ out'[x] = {} /\ hand'[x] = {} /\ current'[x] = {}
  BY <1>1, <1>2 DEF IInv, WorkerInv, passVars, workVars, MemoryOf
<1>7. up' \subseteq Pods /\ allQuiet' \subseteq Pods /\ allDrained' \subseteq Pods
  BY <1>1 DEF IInv, WorkerInv, passVars
<1>8. PassOf(x)'
  <2>1. \A c \in Into(OpOf(x)) : FiniteEpochs(c) => wepoch[x] <= epoch'[c]
    <3>1. \A c \in Into(OpOf(x)) : c \in Channels /\ epoch[c] \in Nat /\ epoch'[c] \in Nat
      BY <1>1, <1>4, SameGraph DEF IInv, ChannelInv, Into
    <3> QED BY <1>2, <1>4, <3>1 DEF PassOf, EpochsGrow
  <2> QED BY <1>1, <1>2, <1>6, <2>1, SameGraph DEF PassOf
<1>9. MemoryOf(x)'
  BY <1>1, <1>6, MemoryNext
<1>10. WorkerInv'
  BY <1>1, <1>4, <1>6, <1>7, <1>8, <1>9, WorkerNext DEF IInv
<1> QED BY <1>4, <1>5, <1>10 DEF IInv

LEMMA InitHolds == ASSUME Init PROVE IInv
<1>1. topo \in Workloads /\ GraphFacts
  BY GraphIs DEF Init
<1>2. ChannelInv
  <2>1. \A c \in Channels : DOMAIN place[c] = {}
    BY DEF Init
  <2>2. place = [c \in Channels |-> place[c]] /\ \A c \in Channels : PlacesOf(c, place, epoch[c])
    BY <2>1 DEF Init, PlacesOf
  <2>3. epoch \in [Channels -> Nat] /\ closed \in [Channels -> SUBSET Nat] /\ sealed \subseteq Channels
    BY DEF Init
  <2>4. \A c, d \in Channels : epoch[c] = epoch[d]
    BY DEF Init
  <2> QED BY <1>1, <2>2, <2>3, <2>4 DEF ChannelInv, PlacesOK
<1>3. PodInv
  <2>1. emits \in [Channels -> Nat] /\ finished \subseteq Sources
    BY DEF Init
  <2> QED BY <2>1, LoopsAssumption DEF Init, PodInv, Registered
<1>4. \A x \in Pods : Start(x) \in {"source", "poll"} /\ (Start(x) = "source" <=> Into(OpOf(x)) = {})
  BY DEF Start
<1>5. ASSUME NEW x \in Pods PROVE PassOf(x) /\ MemoryOf(x)
  <2>1. /\ at[x] = 1 /\ phase[x] = Start(x) /\ hand[x] = {} /\ current[x] = {} /\ out[x] = {}
        /\ wepoch[x] = 0 /\ lastDone[x] = -1 /\ \A c \in Into(OpOf(x)) : epoch[c] = 0
    BY DEF Init, Into
  <2>2. Len(topo.inbound[OpOf(x)]) \in Nat
    BY <1>1 DEF GraphFacts
  <2>3. PassOf(x)
    BY <1>4, <2>1, <2>2 DEF PassOf
  <2>4. MemoryOf(x)
    BY <1>4, <2>1 DEF MemoryOf
  <2> QED BY <2>3, <2>4
<1>6. WorkerInv
  BY <1>4, <1>5 DEF Init, WorkerInv
<1> QED BY <1>2, <1>3, <1>6 DEF IInv

LEMMA StutterKeeps == ASSUME IInv, UNCHANGED vars PROVE IInv'
<1>1. ChannelInv' /\ EpochsGrow
  BY ChannelsSame, EpochsStay DEF vars, IInv, chanVars
<1>2. WorkerInv'
  BY <1>1, WorkersSame DEF vars, IInv, WorkerInv
<1>3. PodInv'
  BY PodsSame DEF vars, IInv, PodInv, podVars
<1> QED BY <1>1, <1>2, <1>3 DEF IInv

LEMMA WorkerStepKeeps == ASSUME IInv, NEW x \in Pods, WorkerStep(x) PROVE IInv'
  BY SourceKeeps, ConsumeKeeps, ConsumeFailsKeeps, OnRecordKeeps, AckKeeps, EndPassKeeps, ReportEpochKeeps,
     GiveUpKeeps, ReportDoneKeeps, DropOutputKeeps, RefusedKeeps, PublishKeeps DEF WorkerStep

LEMMA NextKeeps == ASSUME IInv, [Next]_vars PROVE IInv'
  BY WorkerStepKeeps, RegisterKeeps, CrashKeeps, RestartKeeps, LapseKeeps, SealKeeps, MetricsKeeps, StutterKeeps
     DEF Next

THEOREM Inductive == Spec => []IInv
<1>1. Init => IInv
  BY InitHolds
<1>2. IInv /\ [Next]_vars => IInv'
  BY NextKeeps
<1> QED BY <1>1, <1>2, PTL DEF Spec

LEMMA IInvTypes == ASSUME IInv PROVE TypeOK
<1>1. \A c \in Channels : epoch[c] \in Nat /\ closed[c] \subseteq Nat
  BY DEF IInv, ChannelInv
<1>2. ASSUME NEW c \in Channels, NEW s \in Live(c)
      PROVE  /\ Part(s) \in Partitions /\ EpochOf(s) \in Nat
             /\ place[c][s] \in {"queued", "held"} \cup PodsOf(To(c))
  BY DEF IInv, ChannelInv, PlacesOK, PlacesOf, Live, IsSegment
<1>3. \A x \in Pods : at[x] \in 1 .. Len(topo.inbound[OpOf(x)]) + 1 /\ lastDone[x] <= wepoch[x]
  BY DEF IInv, WorkerInv, PassOf
<1>4. DOMAIN epoch = Channels /\ topo \in Workloads /\ sealed \subseteq Channels
  BY DEF IInv, ChannelInv
<1>5. /\ up \subseteq Pods /\ phase \in [Pods -> {"source", "poll", "ending", "draining", "idle"}]
      /\ {allQuiet, allDrained} \subseteq SUBSET Pods
  BY DEF IInv, WorkerInv
<1>6. finished \subseteq {x \in Pods : Into(OpOf(x)) = {}}
  BY DEF IInv, PodInv, Sources
<1> QED BY <1>1, <1>2, <1>3, <1>4, <1>5, <1>6 DEF IInv, PodInv, TypeOK

\* The coordinator's epochs, segments and sessions and the workers' passes stay within
\* what the types say, in every graph; in particular a session and the report of a pod
\* are forgotten together.
THEOREM TypeCorrect == Spec => []TypeOK
<1>1. IInv => TypeOK
  BY IInvTypes
<1> QED BY <1>1, Inductive, PTL

LEMMA IInvEpochs == ASSUME IInv PROVE OneEpochAtATime
<1> SUFFICES ASSUME NEW c \in Channels, NEW d \in Channels, To(c) = To(d), FiniteEpochs(c)
             PROVE  /\ epoch[c] = epoch[d]
                    /\ \A s \in Live(c) : place[c][s] # "held" => EpochOf(s) = epoch[d]
                    /\ \A x \in PodsOf(To(c)) : LastEnded(x) <= epoch[d]
  BY DEF OneEpochAtATime
<1>1. epoch[c] = epoch[d] /\ epoch[c] \in Nat
  BY DEF IInv, ChannelInv
<1>2. \A s \in Live(c) : place[c][s] # "held" => EpochOf(s) = epoch[c]
  BY DEF IInv, ChannelInv, PlacesOK, PlacesOf, Live
<1>3. ASSUME NEW x \in PodsOf(To(c)) PROVE LastEnded(x) <= epoch[c]
  <2>1. x \in Pods /\ c \in Into(OpOf(x))
    BY DEF PodsOf, Into
  <2>2. PassOf(x)
    BY <2>1 DEF IInv, WorkerInv
  <2> QED BY <1>1, <2>1, <2>2 DEF PassOf, LastEnded
<1> QED BY <1>1, <1>2, <1>3

\* "epoch e+1 is delivered only after every consumer has finished epoch e" (graph.go:93),
\* in any graph: the barrier of recordOperationEpochDone keeps the channels of an operation
\* in one epoch, and its replicas never a whole epoch ahead.
THEOREM EpochsAreSeparate == Spec => []OneEpochAtATime
<1>1. IInv => OneEpochAtATime
  BY IInvEpochs
<1> QED BY <1>1, Inductive, PTL

-----------------------------------------------------------------------------
(* Asynchronous loops.                                                     *)

\* What enters a cycle is connected with its feedback channel.
LEMMA CycleConnected ==
  ASSUME NEW t, NEW c \in DOMAIN t.channels, NEW d \in DOMAIN t.channels, t.channels[d].to \in Cycle(t, c),
         NEW T \in SUBSET DOMAIN t.inbound, t.channels[c].from \in T,
         \A e \in Both(t) : e[1] \in T => e[2] \in T
  PROVE  t.channels[d].from \in T
<1>1. /\ <<t.channels[c].from, t.channels[c].to>> \in Both(t)
      /\ <<t.channels[d].to, t.channels[d].from>> \in Both(t)
  BY DEF Edge, Both
<1>2. t.channels[c].to \in T
  BY <1>1
<1>3. \A e \in Ahead(t) : e \in Both(t)
  BY DEF Ahead, Both
<1>4. Reach(t, {t.channels[c].to}, Ahead(t)) \subseteq T
  BY <1>2, <1>3 DEF Reach
<1>5. t.channels[d].to \in T
  BY <1>2, <1>4 DEF Cycle
<1> QED BY <1>1, <1>5

\* An operation of a cycle has an inbound channel.
LEMMA CycleFed ==
  ASSUME NEW t, NEW c \in DOMAIN t.channels, \A d \in DOMAIN t.channels : t.channels[d].to \in DOMAIN t.inbound,
         t.channels[c].from \in Reach(t, {t.channels[c].to}, Ahead(t)), NEW o \in Cycle(t, c)
  PROVE  \E d \in DOMAIN t.channels : t.channels[d].to = o
<1>1. CASE o = t.channels[c].to
  BY <1>1
<1>2. CASE o # t.channels[c].to
  <2> DEFINE T == DOMAIN t.inbound \ {o}
  <2>1. o \in Reach(t, {t.channels[c].to}, Ahead(t))
    BY <1>2 DEF Cycle
  <2>2. o \notin T /\ {t.channels[c].to} \subseteq T /\ T \in SUBSET DOMAIN t.inbound
    BY <1>2
  <2>3. PICK e \in Ahead(t) : e[1] \in T /\ e[2] \notin T
    BY <2>1, <2>2 DEF Reach
  <2>4. PICK d \in DOMAIN t.channels : e = <<t.channels[d].from, t.channels[d].to>>
    BY <2>3 DEF Ahead, Edge
  <2> QED BY <2>3, <2>4
<1> QED BY <1>1, <1>2

\* What an Asynchronous loop is, as far as the actions look at it: the other channels into
\* it are plain and carry no finite epochs, so that nothing is held on them.
LoopFacts ==
  \A c \in Channels : Mode(c) = "async" =>
    /\ From(c) \in CycleMembers(c) /\ To(c) \in CycleMembers(c)
    /\ \A d \in Channels : To(d) \in CycleMembers(c) => ~FiniteEpochs(d) /\ (d # c => ~Feedback(d))
    /\ \A o \in CycleMembers(c) : Into(o) # {}

LEMMA LoopsAre == ASSUME SingleLoops, topo \in Workloads PROVE LoopFacts
<1>1. PICK t \in Topologies : topo = Described(t)
  BY DEF Workloads
<1>2. /\ topo.inbound = t.inbound /\ topo.channels = t.channels
      /\ topo.finite = FiniteEpochChannels(t)
      /\ topo.cycle = [c \in DOMAIN t.channels |-> Cycle(t, c)]
  BY <1>1, DescribedIs
<1>3. \A c \in DOMAIN t.channels : t.channels[c].from \in DOMAIN t.inbound /\ t.channels[c].to \in DOMAIN t.inbound
  BY GraphAssumption
<1> SUFFICES ASSUME NEW c \in DOMAIN t.channels, t.channels[c].mode = "async"
             PROVE  /\ t.channels[c].from \in Cycle(t, c) /\ t.channels[c].to \in Cycle(t, c)
                    /\ \A d \in DOMAIN t.channels : t.channels[d].to \in Cycle(t, c) =>
                         /\ d \notin FiniteEpochChannels(t)
                         /\ d # c => t.channels[d].mode = "plain"
                    /\ \A o \in Cycle(t, c) : \E d \in DOMAIN t.channels : t.channels[d].to = o
  BY <1>2 DEF LoopFacts, Channels, Mode, From, To, CycleMembers, FiniteEpochs, Feedback, Into
<1>4. /\ t.channels[c].from \in Reach(t, {t.channels[c].to}, Ahead(t))
      /\ \A d \in DOMAIN t.channels \ {c} : t.channels[d].mode # "plain" => ~Connected(t, c, d)
  BY DEF SingleLoops
<1>5. t.channels[c].from \in Cycle(t, c) /\ t.channels[c].to \in Cycle(t, c)
  BY DEF Cycle
<1>6. ASSUME NEW d \in DOMAIN t.channels, t.channels[d].to \in Cycle(t, c)
      PROVE  d \notin FiniteEpochChannels(t) /\ (d # c => t.channels[d].mode = "plain")
  <2>1. ASSUME NEW T \in SUBSET DOMAIN t.inbound, {t.channels[c].from} \subseteq T,
               \A e \in Both(t) : e[1] \in T => e[2] \in T
        PROVE  t.channels[d].from \in T
    BY <1>6, <2>1, CycleConnected
  <2>2. Connected(t, c, d)
    BY <1>3, <2>1 DEF Connected, Reach
  <2>3. ASSUME NEW f \in DOMAIN t.channels, Connected(t, d, f) PROVE Connected(t, c, f)
    <3>1. ASSUME NEW T \in SUBSET DOMAIN t.inbound, {t.channels[c].from} \subseteq T,
                 \A e \in Both(t) : e[1] \in T => e[2] \in T
          PROVE  t.channels[f].from \in T
      <4>1. t.channels[d].from \in T
        BY <2>1, <3>1
      <4> QED BY <2>3, <3>1, <4>1 DEF Connected, Reach
    <3> QED BY <1>3, <3>1 DEF Connected, Reach
  <2>4. d \notin FiniteEpochChannels(t)
    BY <1>4, <2>3 DEF FiniteEpochChannels
  <2> QED BY <1>4, <2>2, <2>4
<1>7. \A o \in Cycle(t, c) : \E d \in DOMAIN t.channels : t.channels[d].to = o
  BY <1>3, <1>4, CycleFed
<1> QED BY <1>5, <1>6, <1>7

\* The inputs of a loop that is sealed are sealed.
LoopInputsSealed ==
  \A c \in sealed : Mode(c) = "async" =>
    \A d \in Channels \ {c} : To(d) \in CycleMembers(c) /\ From(d) \notin CycleMembers(c) => d \in sealed

\* A step in terms of the places pl that settle looks at: what it seals is finished there,
\* and nothing is at a place in the next state that was not at one of them.
SettlesAt(pl) ==
  /\ PlacesOK(pl) /\ sealed \subseteq sealed' /\ topo' = topo
  /\ \A c \in sealed' \ sealed : Mode(c) = "async" => LoopDone(c, pl, sealed')
  /\ \A d \in Channels : DOMAIN place'[d] \subseteq DOMAIN pl[d]

\* A step that brings no segment to a channel.
Quietly == \E pl : SettlesAt(pl) /\ \A d \in Channels : DOMAIN pl[d] \subseteq Live(d)

LEMMA SealAllSettles ==
  ASSUME NEW pl, PlacesOK(pl), NEW given, \A d \in Channels : DOMAIN given[d] = DOMAIN pl[d],
         NEW cs, NEW sl, cs = Settled(pl, sl) \/ \E c \in Channels : Mode(c) # "async" /\ cs = {c} \cup Settled(pl, sl),
         sl \subseteq sealed \cup cs, SealAll(cs, given), topo' = topo
  PROVE  SettlesAt(pl)
<1>1. sealed' = sealed \cup cs
  BY DEF SealAll
<1>2. ASSUME NEW c \in sealed' \ sealed, Mode(c) = "async" PROVE LoopDone(c, pl, sealed')
  <2>1. c \in Settled(pl, sl)
    BY <1>1, <1>2
  <2>2. LoopDone(c, pl, sl)
    BY <2>1 DEF Settled
  <2>3. sl \subseteq sealed'
    BY <1>1
  <2> QED BY <2>2, <2>3 DEF LoopDone
<1>3. \A d \in Channels : DOMAIN place'[d] \subseteq DOMAIN pl[d]
  BY DEF SealAll
<1> QED BY <1>1, <1>2, <1>3 DEF SettlesAt

\* A loop is empty when it is sealed.
LEMMA EmptyWhenSealed ==
  ASSUME LoopFacts, NEW pl, SettlesAt(pl), NEW c \in Channels, c \in sealed' \ sealed, Mode(c) = "async"
  PROVE  \A d \in Channels : To(d) \in CycleMembers(c) => DOMAIN place'[d] = {}
<1> SUFFICES ASSUME NEW d \in Channels, To(d) \in CycleMembers(c) PROVE DOMAIN place'[d] = {}
  OBVIOUS
<1>1. LoopDone(c, pl, sealed')
  BY DEF SettlesAt
<1>2. ~FiniteEpochs(d) /\ (d # c => ~Feedback(d))
  BY DEF LoopFacts
<1>3. Quiet(pl, d)
  BY <1>1, <1>2 DEF LoopDone
<1>4. \A s \in DOMAIN pl[d] : pl[d][s] # "held"
  BY <1>2 DEF SettlesAt, PlacesOK, PlacesOf
<1>5. DOMAIN pl[d] = {}
  BY <1>3, <1>4 DEF Quiet
<1> QED BY <1>5 DEF SettlesAt

LEMMA InputsStay ==
  ASSUME ChannelInv, LoopInputsSealed, NEW pl, SettlesAt(pl) PROVE LoopInputsSealed'
<1> SUFFICES ASSUME NEW c \in sealed', Mode(c) = "async", NEW d \in Channels \ {c},
                    To(d) \in CycleMembers(c), From(d) \notin CycleMembers(c)
             PROVE  d \in sealed'
  BY SameGraph DEF SettlesAt, LoopInputsSealed
<1>1. CASE c \in sealed
  BY <1>1 DEF LoopInputsSealed, SettlesAt
<1>2. CASE c \notin sealed
  <2>1. LoopDone(c, pl, sealed')
    BY <1>2 DEF SettlesAt
  <2> QED BY <2>1 DEF LoopDone
<1> QED BY <1>1, <1>2

\* A step that seals no channel, and at most takes segments away.
LEMMA SameSettles ==
  ASSUME IInv, NEW pl, PlacesOK(pl), \A d \in Channels : DOMAIN pl[d] \subseteq Live(d),
         sealed \subseteq sealed', \A c \in sealed' \ sealed : Mode(c) # "async",
         \A d \in Channels : DOMAIN place'[d] \subseteq DOMAIN pl[d], topo' = topo
  PROVE  Quietly
  BY DEF Quietly, SettlesAt

LEMMA UnchangedQuiet == ASSUME IInv, UNCHANGED <<topo, chanVars>> PROVE Quietly
<1>1. PlacesOK(place)
  BY DEF IInv, ChannelInv
<1> QED BY <1>1, SameSettles DEF chanVars, Live

LEMMA ReturnedDomain == \A gone : \A d \in Channels : DOMAIN Returned(gone)[d] = Live(d)
  BY DEF Returned

LEMMA RecordQuiet ==
  ASSUME IInv, NEW pl, PlacesOK(pl), \A d \in Channels : DOMAIN pl[d] \subseteq Live(d),
         NEW x, NEW e, NEW doneAt, NEW live, RecordEpochDone(x, e, pl, doneAt, live), topo' = topo
  PROVE  Quietly
<1>1. CASE PassBarrier(OpOf(x), e, pl)
  <2> DEFINE over == {c \in OutOf(OpOf(x)) : FiniteEpochs(c) /\ Synchronous(c)
                                     /\ (IF Synchronous(c) THEN e + 1 ELSE e) >= topo.channels[c].max}
  <2>1. sealed' = sealed \cup over
    BY <1>1 DEF PassBarrier
  <2>2. \A d \in Channels : DOMAIN place'[d] \subseteq DOMAIN pl[d]
    BY <1>1 DEF PassBarrier
  <2>3. \A c \in over : Mode(c) # "async"
    BY DEF Synchronous
  <2> QED BY <2>1, <2>2, <2>3, SameSettles
<1>2. CASE place' = pl /\ UNCHANGED <<epoch, closed, sealed>>
  BY <1>2, SameSettles
<1> QED BY <1>1, <1>2 DEF RecordEpochDone

LEMMA RegisterQuiet == ASSUME IInv, NEW x \in Pods, Register(x) PROVE Quietly
<1>1. PICK gone \in SUBSET Pods : place' = Returned(gone)
  <2>1. Silent({x}) \cup (IF session[x] = "old" THEN {x} ELSE {}) \in SUBSET Pods
    BY SilentIn
  <2> QED BY <2>1 DEF Register
<1>2. PlacesOK(Returned(gone))
  BY ReturnedOK DEF IInv
<1>3. sealed' = sealed /\ topo' = topo
  BY DEF Register
<1> QED BY <1>1, <1>2, <1>3, ReturnedDomain, SameSettles

LEMMA SealQuiet == ASSUME IInv, NEW c \in Channels, Seal(c) PROVE Quietly
<1>1. Mode(c) # "async" /\ SealAll({c} \cup Settled(place, sealed \cup {c}), place) /\ topo' = topo
  BY DEF Seal, Feedback
<1>2. PlacesOK(place)
  BY DEF IInv, ChannelInv
<1>3. SettlesAt(place)
  BY <1>1, <1>2, SealAllSettles
<1> QED BY <1>3 DEF Quietly, Live

LEMMA MetricsQuiet == ASSUME IInv, Metrics PROVE Quietly
<1> DEFINE pl == Returned(Silent({}))
<1>1. SealAll(Settled(pl, sealed), pl) /\ topo' = topo
  BY DEF Metrics, Settle
<1>2. PlacesOK(pl)
  BY SilentIn, ReturnedOK DEF IInv
<1>3. \A d \in Channels : DOMAIN pl[d] = Live(d)
  BY ReturnedDomain
<1> HIDE DEF pl
<1>4. SettlesAt(pl)
  BY <1>1, <1>2, SealAllSettles
<1> QED BY <1>3, <1>4 DEF Quietly

LEMMA AckQuiet == ASSUME IInv, NEW x \in Pods, Ack(x) PROVE Quietly
<1>1. PICK w \in current[x] :
        LET c == w[1]
            owned == w[2] \in Live(c) /\ place[c][w[2]] = x
        IN  Settle(IF owned THEN [place EXCEPT ![c] = [s \in Live(c) \ {w[2]} |-> place[c][s]]] ELSE place)
  BY DEF Ack
<1>2. w[1] \in Channels
  BY AboutPod DEF MemoryOf, Into
<1> DEFINE removed == [place EXCEPT ![w[1]] = [s \in Live(w[1]) \ {w[2]} |-> place[w[1]][s]]]
<1>3. PlacesOK(place) /\ PlacesOK(removed)
  BY <1>2, RemovedOK DEF IInv, ChannelInv
<1>4. \A d \in Channels : DOMAIN removed[d] \subseteq Live(d)
  <2>1. removed = [d \in Channels |-> IF d = w[1] THEN [s \in Live(w[1]) \ {w[2]} |-> place[w[1]][s]] ELSE place[d]]
    BY <1>3 DEF PlacesOK
  <2> QED BY <2>1 DEF Live
<1>5. PICK pl : PlacesOK(pl) /\ Settle(pl) /\ \A d \in Channels : DOMAIN pl[d] \subseteq Live(d)
  <2> HIDE DEF removed
  <2>1. Settle(removed) \/ Settle(place)
    BY <1>1 DEF removed
  <2> QED BY <1>3, <1>4, <2>1 DEF Live
<1>6. topo' = topo
  BY DEF Ack
<1>7. SettlesAt(pl)
  BY <1>5, <1>6, SealAllSettles DEF Settle
<1> QED BY <1>5, <1>7 DEF Quietly

LEMMA ConsumeQuiet == ASSUME IInv, NEW x \in Pods, Consume(x) PROVE Quietly
<1> DEFINE c     == topo.inbound[OpOf(x)][at[x]]
           gone  == Silent({x})
           pl    == Returned(gone)
           work  == {s \in Live(c) : pl[c][s] = "queued" /\ Part(s) \in Assigned(OpOf(x), x, gone)}
           given == [pl EXCEPT ![c] = [s \in Live(c) |-> IF s \in work THEN x ELSE pl[c][s]]]
<1>1. SealAll(Settled(pl, sealed), given) /\ topo' = topo
  BY ConsumeIs
<1>2. PlacesOK(pl)
  BY SilentIn, ReturnedOK DEF IInv
<1>3. \A d \in Channels : DOMAIN pl[d] = Live(d)
  BY ReturnedDomain
<1> HIDE DEF c, pl, work
<1>4. \A d \in Channels : DOMAIN given[d] = DOMAIN pl[d]
  <2>1. given = [d \in Channels |-> IF d = c THEN [s \in Live(c) |-> IF s \in work THEN x ELSE pl[c][s]] ELSE pl[d]]
    BY <1>2 DEF PlacesOK
  <2> QED BY <1>3, <2>1
<1> HIDE DEF given
<1>5. SettlesAt(pl)
  BY <1>1, <1>2, <1>4, SealAllSettles
<1> QED BY <1>3, <1>5 DEF Quietly

LEMMA ReportEpochQuiet == ASSUME IInv, NEW x \in Pods, ReportEpoch(x) PROVE Quietly
<1> DEFINE gone == Silent({x})
           live == {y \in PodsOf(OpOf(x)) : Registered(y)} \ gone
<1>1. RecordEpochDone(x, wepoch[x], Returned(gone), Forgotten(gone), live) /\ topo' = topo
  BY DEF ReportEpoch
<1>2. PlacesOK(Returned(gone))
  BY SilentIn, ReturnedOK DEF IInv
<1> HIDE DEF gone, live
<1> QED BY <1>1, <1>2, ReturnedDomain, RecordQuiet

LEMMA ReportDoneQuiet == ASSUME IInv, NEW x \in Pods, ReportDone(x) PROVE Quietly
<1>1. topo' = topo /\ PlacesOK(place)
  BY DEF ReportDone, IInv, ChannelInv
<1>2. CASE Into(OpOf(x)) = {}
  <2>1. RecordEpochDone(x, 0, place, epochDone, {y \in PodsOf(OpOf(x)) : Registered(y)})
    BY <1>2 DEF ReportDone
  <2> QED BY <1>1, <2>1, RecordQuiet DEF Live
<1>3. CASE Into(OpOf(x)) # {}
  BY <1>1, <1>3, UnchangedQuiet DEF ReportDone
<1> QED BY <1>2, <1>3

\* Only an announcement brings segments to a channel.
LEMMA QuietSteps ==
  ASSUME IInv, [Next]_vars
  PROVE  Quietly \/ \E x \in Pods : \E c \in Channels : Publish(x, c)
<1>1. ASSUME NEW x \in Pods, WorkerStep(x) PROVE Quietly \/ \E c \in Channels : Publish(x, c)
  <2>1. CASE Source(x) \/ ConsumeFails(x) \/ OnRecord(x) \/ EndPass(x) \/ GiveUp(x) \/ Refused(x)
             \/ DropOutput(x)
    BY <2>1, UnchangedQuiet DEF Source, ConsumeFails, OnRecord, EndPass, GiveUp, Refused, DropOutput
  <2>2. CASE Consume(x) \/ Ack(x) \/ ReportEpoch(x) \/ ReportDone(x)
    BY <2>2, ConsumeQuiet, AckQuiet, ReportEpochQuiet, ReportDoneQuiet
  <2> QED BY <1>1, <2>1, <2>2 DEF WorkerStep
<1>2. ASSUME NEW x \in Pods, Crash(x) \/ Restart(x) \/ Lapse(x) PROVE Quietly
  BY <1>2, UnchangedQuiet DEF Crash, Restart, Lapse
<1>3. CASE UNCHANGED vars
  BY <1>3, UnchangedQuiet DEF vars, chanVars
<1> QED BY <1>1, <1>2, <1>3, RegisterQuiet, SealQuiet, MetricsQuiet DEF Next

\* An announcement brings segments to the one channel it is for.
LEMMA PublishSettles ==
  ASSUME IInv, NEW x \in Pods, NEW e \in Channels, Publish(x, e)
  PROVE  \E pl : SettlesAt(pl) /\ \A d \in Channels : d # e => DOMAIN pl[d] \subseteq Live(d)
<1> DEFINE pl == [place EXCEPT ![e] = Indexed(e, Outgoing(x, e))]
<1>1. /\ FiniteEpochs(e) => \A s \in Outgoing(x, e) : EpochOf(s) >= epoch[e]
      /\ SealAll(Settled(pl, sealed), pl) /\ topo' = topo
  BY DEF Publish, Settle
<1>2. \A s \in Outgoing(x, e) : IsSegment(s)
  BY AboutPod DEF MemoryOf, Outgoing
<1>3. PlacesOK(pl)
  BY <1>1, <1>2, IndexedOK DEF IInv
<1>4. \A d \in Channels : d # e => pl[d] = place[d]
  BY DEF IInv, ChannelInv, PlacesOK
<1> HIDE DEF pl
<1>5. SettlesAt(pl)
  BY <1>1, <1>3, SealAllSettles
<1> QED BY <1>4, <1>5 DEF Live

\* What a pod announces into a loop that is sealed and empty is output of a record that was
\* taken from it.
LEMMA WokenByDisowned ==
  ASSUME IInv, LoopFacts, LoopInputsSealed, NEW x \in Pods, NEW e \in Channels, Publish(x, e),
         NEW c \in sealed, Mode(c) = "async", LoopEmpty(c), To(e) \in CycleMembers(c)
  PROVE  OpOf(x) \in CycleMembers(c) /\ Disowned(x) /\ out'[x] # out[x]
<1>1. PICK w \in out[x] : w[1] = e
  BY DEF Publish, Outgoing
<1>2. e \notin sealed /\ out' = [out EXCEPT ![x] = {v \in @ : v[1] # e}]
  BY DEF Publish
<1>3. out'[x] # out[x]
  BY <1>1, <1>2 DEF IInv, WorkerInv
<1>4. MemoryOf(x) /\ c \in Channels
  BY AboutPod DEF IInv, ChannelInv
<1>5. From(e) = OpOf(x)
  BY <1>1, <1>4 DEF MemoryOf, OutOf
<1>6. OpOf(x) \in CycleMembers(c)
  BY <1>2, <1>5 DEF LoopInputsSealed
<1>7. current[x] # {}
  <2>1. ~Finite(OpOf(x)) /\ Into(OpOf(x)) # {}
    BY <1>4, <1>6 DEF LoopFacts, Finite, Into
  <2>2. e \notin DrainOutputs(OpOf(x))
    <3>1. Feedback(c)
      BY DEF Feedback
    <3> QED BY <1>4, <1>6, <3>1 DEF DrainOutputs
  <2> QED BY <1>1, <1>4, <2>1, <2>2 DEF MemoryOf
<1>8. PICK v \in current[x] : v[1] \in Into(OpOf(x))
  BY <1>4, <1>7 DEF MemoryOf
<1>9. Live(v[1]) = {}
  BY <1>6, <1>8 DEF LoopEmpty, Into
<1> QED BY <1>3, <1>6, <1>8, <1>9 DEF Disowned

\* What the property says of one step.
LoopStep ==
  \A c \in sealed' :
    Mode(c) = "async" /\ (c \in sealed => LoopEmpty(c)) =>
      \/ LoopEmpty(c)'
      \/ \E x \in Pods : OpOf(x) \in CycleMembers(c) /\ Disowned(x) /\ out'[x] # out[x]

LEMMA LoopStepHolds == ASSUME IInv, IInv', LoopFacts, LoopInputsSealed, [Next]_vars PROVE LoopStep
<1> SUFFICES ASSUME NEW c \in sealed', Mode(c) = "async", c \in sealed => LoopEmpty(c)
             PROVE  \/ LoopEmpty(c)'
                    \/ \E x \in Pods : OpOf(x) \in CycleMembers(c) /\ Disowned(x) /\ out'[x] # out[x]
  BY DEF LoopStep
<1>1. PICK pl : /\ SettlesAt(pl)
                /\ \/ \A d \in Channels : DOMAIN pl[d] \subseteq Live(d)
                   \/ \E x \in Pods, e \in Channels :
                        Publish(x, e) /\ \A d \in Channels : d # e => DOMAIN pl[d] \subseteq Live(d)
  BY QuietSteps, PublishSettles DEF Quietly
<1>2. topo' = topo
  BY <1>1 DEF SettlesAt
<1>3. c \in Channels
  BY <1>2, SameGraph DEF IInv, ChannelInv
<1>4. LoopEmpty(c)' <=> \A d \in Channels : To(d) \in CycleMembers(c) => DOMAIN place'[d] = {}
  BY <1>2, SameGraph DEF LoopEmpty, Live
<1>5. CASE c \notin sealed
  BY <1>1, <1>3, <1>4, <1>5, EmptyWhenSealed
<1>6. CASE c \in sealed
  <2>1. \A d \in Channels : To(d) \in CycleMembers(c) => Live(d) = {}
    BY <1>6 DEF LoopEmpty
  <2>2. \A d \in Channels : DOMAIN place'[d] \subseteq DOMAIN pl[d]
    BY <1>1 DEF SettlesAt
  <2>3. CASE \A d \in Channels : DOMAIN pl[d] \subseteq Live(d)
    BY <1>4, <2>1, <2>2, <2>3
  <2>4. ASSUME NEW x \in Pods, NEW e \in Channels, Publish(x, e),
               \A d \in Channels : d # e => DOMAIN pl[d] \subseteq Live(d)
        PROVE  \/ LoopEmpty(c)'
               \/ \E y \in Pods : OpOf(y) \in CycleMembers(c) /\ Disowned(y) /\ out'[y] # out[y]
    <3>1. CASE To(e) \in CycleMembers(c)
      BY <1>6, <2>4, <3>1, WokenByDisowned
    <3>2. CASE To(e) \notin CycleMembers(c)
      BY <1>4, <2>1, <2>2, <2>4, <3>2
    <3> QED BY <3>1, <3>2
  <2> QED BY <1>1, <2>3, <2>4
<1> QED BY <1>5, <1>6

LEMMA SettledSomewhere == ASSUME IInv, [Next]_vars PROVE \E pl : SettlesAt(pl)
  BY QuietSteps, PublishSettles DEF Quietly

\* "A quiet cycle with sealed inputs is finished" (settle, coordinator.go:1631), for every
\* set of graphs whose Asynchronous loops are single: a loop is empty when it is sealed and
\* stays empty, unless a pod announces the output of a record that was taken from it.
THEOREM LoopsFinish == ASSUME SingleLoops PROVE Spec => SealedLoopIsFinished
<1>1. Init => LoopInputsSealed
  BY DEF Init, LoopInputsSealed
<1>2. IInv /\ LoopInputsSealed /\ [Next]_vars => LoopInputsSealed'
  BY SettledSomewhere, InputsStay DEF IInv
<1>3. IInv => LoopFacts
  BY LoopsAre DEF IInv, ChannelInv
<1>4. IInv /\ IInv' /\ LoopFacts /\ LoopInputsSealed /\ [Next]_vars => LoopStep
  BY LoopStepHolds
<1>5. Spec => [][LoopStep]_vars
  BY <1>1, <1>2, <1>3, <1>4, Inductive, PTL DEF Spec
<1>6. [LoopStep]_vars => [\A c \in sealed' :
         Mode(c) = "async" /\ (c \in sealed => LoopEmpty(c)) =>
           \/ LoopEmpty(c)'
           \/ \E x \in Pods : OpOf(x) \in CycleMembers(c) /\ Disowned(x) /\ out'[x] # out[x]]_vars
  BY DEF LoopStep
<1> QED BY <1>5, <1>6, PTL DEF SealedLoopIsFinished

-----------------------------------------------------------------------------
(* The end of an epoch is the end of its input (EpochEndIsLast), in graphs  *)
(* that EpochsFollow admits.                                                *)

\* Channel c comes from a source operation, whose pods emit at epoch 0 only.
FromSource(c) == Mode(c) = "plain" /\ Into(From(c)) = {}

\* Operation o follows the epochs in a single replica.
Alone(o) == Finite(o) /\ Len(topo.pods[o]) = 1

\* An input that brings epochs on: an operation's own loop, or from a single replica
Paced(c) == (Synchronous(c) /\ From(c) = To(c)) \/ Alone(From(c))

\* The input of operation o that is polled last
LastOf(o) == topo.inbound[o][Len(topo.inbound[o])]

\* What EpochsFollow provides, as far as the actions look at it.
FollowFacts ==
  /\ \A o \in Ops : Finite(o) =>
       /\ \A i \in 1 .. Len(topo.inbound[o]) :
            FromSource(topo.inbound[o][i]) \/ (i = Len(topo.inbound[o]) /\ Paced(topo.inbound[o][i]))
       /\ \A c \in Into(o) : \E i \in 1 .. Len(topo.inbound[o]) : topo.inbound[o][i] = c
  /\ \A c \in Channels : /\ FiniteEpochs(c) => \A d \in Into(From(c)) : FiniteEpochs(d)
                         /\ {From(c), To(c)} \subseteq CycleMembers(c)
  /\ \A o \in Ops : /\ IsFiniteSet(PodsOf(o)) /\ Len(topo.pods[o]) \in Nat
                    /\ Cardinality(PodsOf(o)) <= Len(topo.pods[o])

\* The input of an operation that an operation follows is finite too.
LEMMA FiniteBehind ==
  ASSUME NEW t, NEW c \in DOMAIN t.channels, NEW d \in DOMAIN t.channels,
         t.channels[d].to = t.channels[c].from, c \in FiniteEpochChannels(t)
  PROVE  d \in FiniteEpochChannels(t)
<1>1. PICK f \in DOMAIN t.channels : /\ t.channels[f].mode = "sync"
                                     /\ t.channels[f].from \in Reach(t, {t.channels[c].from}, Both(t))
  BY DEF FiniteEpochChannels, Connected
<1>2. <<t.channels[d].from, t.channels[d].to>> \in Both(t)
  BY DEF Edge, Both
<1>3. t.channels[f].from \in Reach(t, {t.channels[d].from}, Both(t))
  <2>1. ASSUME NEW T \in SUBSET DOMAIN t.inbound, {t.channels[d].from} \subseteq T,
               \A e \in Both(t) : e[1] \in T => e[2] \in T
        PROVE  t.channels[f].from \in T
    <3>1. t.channels[c].from \in T
      BY <1>2, <2>1
    <3> QED BY <1>1, <2>1, <3>1 DEF Reach
  <2> QED BY <1>1, <2>1 DEF Reach
<1> QED BY <1>1, <1>3 DEF FiniteEpochChannels, Connected

\* The members of a sequence are no more than its length.
LEMMA MembersOf ==
  ASSUME NEW S, NEW q \in Seq(S), NEW P, \A x \in P : \E i \in DOMAIN q : q[i] = x
  PROVE  IsFiniteSet(P) /\ Cardinality(P) <= Len(q)
<1>1. Len(q) \in Nat /\ DOMAIN q = 1 .. Len(q)
  OBVIOUS
<1>2. IsFiniteSet(1 .. Len(q)) /\ Cardinality(1 .. Len(q)) = Len(q)
  BY <1>1, FS_Interval
<1> DEFINE f == [x \in P |-> CHOOSE i \in DOMAIN q : q[i] = x]
<1>3. ASSUME NEW x \in P PROVE f[x] \in 1 .. Len(q) /\ q[f[x]] = x
  BY <1>1
<1>4. f \in [P -> 1 .. Len(q)]
  BY <1>3
<1>5. f \in Injection(P, 1 .. Len(q))
  <2> HIDE DEF f
  <2> QED BY <1>3, <1>4 DEF Injection, IsInjective
<1> QED BY <1>2, <1>5, FS_Injection

\* The pods of an operation are those its sequence of pods names.
LEMMA PodsAre ==
  ASSUME NEW t \in Topologies, NEW x \in DOMAIN Described(t).op
  PROVE  \E i \in DOMAIN t.pods[Described(t).op[x]] : t.pods[Described(t).op[x]][i] = x
<1>1. DOMAIN t = {"pods", "inbound", "channels", "bound", "finite", "cycle", "op"}
  BY GraphAssumption
<1> DEFINE pods == UNION {{t.pods[o][i] : i \in DOMAIN t.pods[o]} : o \in DOMAIN t.pods}
           owner(y) == CHOOSE o \in DOMAIN t.pods : \E i \in DOMAIN t.pods[o] : t.pods[o][i] = y
<1>2. Described(t).op = [y \in pods |-> owner(y)]
  BY <1>1, SMT DEF Described
<1>3. ASSUME NEW y \in pods PROVE \E i \in DOMAIN t.pods[owner(y)] : t.pods[owner(y)][i] = y
  <2>1. \E o \in DOMAIN t.pods : \E i \in DOMAIN t.pods[o] : t.pods[o][i] = y
    OBVIOUS
  <2> QED BY <2>1
<1> HIDE DEF pods, owner
<1> QED BY <1>2, <1>3

LEMMA FollowIs ==
  ASSUME \A t \in Topologies : EpochsFollow(t), topo \in Workloads
  PROVE  FollowFacts
<1>1. PICK t \in Topologies : topo = Described(t)
  BY DEF Workloads
<1>2. /\ topo.inbound = t.inbound /\ topo.channels = t.channels /\ topo.pods = t.pods
      /\ topo.finite = FiniteEpochChannels(t)
      /\ topo.cycle = [c \in DOMAIN t.channels |-> Cycle(t, c)]
  BY <1>1, DescribedIs
<1>3. /\ DOMAIN t.pods = DOMAIN t.inbound
      /\ \A o \in DOMAIN t.inbound : t.inbound[o] \in Seq(DOMAIN t.channels)
      /\ \A o \in DOMAIN t.pods : t.pods[o] \in Seq({t.pods[o][i] : i \in DOMAIN t.pods[o]})
      /\ \A c \in DOMAIN t.channels : t.channels[c].from \in DOMAIN t.inbound /\ t.channels[c].to \in DOMAIN t.inbound
  BY GraphAssumption
<1>4. \A o \in DOMAIN t.inbound, c \in DOMAIN t.channels :
        (\E i \in DOMAIN t.inbound[o] : t.inbound[o][i] = c) <=> t.channels[c].to = o
  BY LoopsAssumption
<1>5. ASSUME NEW c \in Channels
      PROVE  /\ FiniteEpochs(c) => \A d \in Into(From(c)) : FiniteEpochs(d)
             /\ {From(c), To(c)} \subseteq CycleMembers(c)
  <2>1. FiniteEpochs(c) => \A d \in Into(From(c)) : FiniteEpochs(d)
    BY <1>2, FiniteBehind DEF Channels, Into, From, To, FiniteEpochs
  <2>2. CycleMembers(c) = Cycle(t, c)
    BY <1>2 DEF CycleMembers, Channels
  <2>3. {t.channels[c].from, t.channels[c].to} \subseteq Cycle(t, c)
    BY DEF Cycle
  <2> QED BY <1>2, <2>1, <2>2, <2>3 DEF From, To
<1>6. ASSUME NEW o \in Ops
      PROVE  /\ IsFiniteSet(PodsOf(o)) /\ Len(topo.pods[o]) \in Nat
             /\ Cardinality(PodsOf(o)) <= Len(topo.pods[o])
  <2>1. t.pods[o] \in Seq({t.pods[o][i] : i \in DOMAIN t.pods[o]})
    BY <1>2, <1>3 DEF Ops
  <2>2. \A x \in PodsOf(o) : \E i \in DOMAIN t.pods[o] : t.pods[o][i] = x
    BY <1>1, PodsAre DEF PodsOf, Pods, OpOf
  <2>3. Len(t.pods[o]) \in Nat
    BY <2>1
  <2> QED BY <1>2, <2>1, <2>2, <2>3, MembersOf
<1>7. ASSUME NEW o \in Ops, Finite(o), NEW i \in 1 .. Len(topo.inbound[o])
      PROVE  FromSource(topo.inbound[o][i]) \/ (i = Len(topo.inbound[o]) /\ Paced(topo.inbound[o][i]))
  <2> DEFINE c == topo.inbound[o][i]
  <2>1. GraphFacts
    BY GraphIs
  <2>2. c \in Into(o) /\ c \in Channels /\ To(c) = o
    BY <1>7, <2>1 DEF GraphFacts, Into
  <2>3. FiniteEpochs(c)
    BY <1>7, <2>1, <2>2 DEF Finite, GraphFacts, Into
  <2>4. o \in DOMAIN t.inbound /\ i \in DOMAIN t.inbound[o] /\ c = t.inbound[o][i]
    BY <1>2, <1>3 DEF Ops
  <2>5. c \in FiniteEpochChannels(t)
    BY <1>2, <2>3 DEF FiniteEpochs
  <2> HIDE DEF c
  <2>6. \/ t.channels[c].mode = "plain" /\ t.inbound[t.channels[c].from] = << >>
        \/ /\ i = Len(t.inbound[o])
           /\ \/ t.channels[c].mode = "sync" /\ t.channels[c].from = o
              \/ Len(t.pods[t.channels[c].from]) = 1 /\ t.inbound[t.channels[c].from] # << >>
    BY <2>4, <2>5 DEF EpochsFollow
  <2>7. ASSUME t.inbound[t.channels[c].from] = << >> PROVE Into(From(c)) = {}
    <3>1. From(c) \in DOMAIN t.inbound /\ t.inbound[From(c)] = << >>
      BY <1>2, <1>3, <2>2, <2>7 DEF From, Channels
    <3>2. \A d \in Channels : To(d) # From(c)
      BY <1>2, <1>4, <3>1 DEF Channels, To
    <3> QED BY <3>2 DEF Into
  <2>8. ASSUME Len(t.pods[t.channels[c].from]) = 1, t.inbound[t.channels[c].from] # << >>
        PROVE  Alone(From(c))
    <3>1. From(c) \in DOMAIN t.inbound /\ t.inbound[From(c)] # << >> /\ Len(topo.pods[From(c)]) = 1
      BY <1>2, <1>3, <2>2, <2>8 DEF From, Channels
    <3>2. t.inbound[From(c)] \in Seq(DOMAIN t.channels)
      BY <1>3, <3>1
    <3>3. 1 \in DOMAIN t.inbound[From(c)] /\ t.inbound[From(c)][1] \in DOMAIN t.channels
      BY <3>1, <3>2
    <3>4. t.inbound[From(c)][1] \in Into(From(c))
      BY <1>2, <1>4, <3>1, <3>3 DEF Into, Channels, To
    <3> QED BY <1>5, <2>2, <2>3, <3>1, <3>4 DEF Alone, Finite
  <2> QED BY <1>2, <2>2, <2>6, <2>7, <2>8 DEF FromSource, Paced, Synchronous, Mode, From, c
<1>8. ASSUME NEW o \in Ops, NEW c \in Into(o)
      PROVE  \E i \in 1 .. Len(topo.inbound[o]) : topo.inbound[o][i] = c
  <2>1. c \in DOMAIN t.channels /\ t.channels[c].to = o /\ o \in DOMAIN t.inbound
    BY <1>2 DEF Into, Channels, To, Ops
  <2>2. PICK i \in DOMAIN t.inbound[o] : t.inbound[o][i] = c
    BY <1>4, <2>1
  <2>3. DOMAIN t.inbound[o] = 1 .. Len(t.inbound[o])
    BY <1>3, <2>1
  <2> QED BY <1>2, <2>2, <2>3
<1> QED BY <1>5, <1>6, <1>7, <1>8 DEF FollowFacts

\* The barrier is met only when every pod of the operation is among those that live and
\* has reported.
LEMMA AllReported ==
  ASSUME FollowFacts, NEW o \in Ops, NEW e, NEW doneAt, NEW live \in SUBSET PodsOf(o),
         BarrierMet(o, e, doneAt, live)
  PROVE  \A y \in PodsOf(o) : y \in live /\ doneAt[y] >= e
<1> DEFINE reported == {x \in live : fresh'[x] /\ doneAt[x] >= e}
<1>1. reported \subseteq PodsOf(o) /\ IsFiniteSet(PodsOf(o))
  BY DEF FollowFacts
<1>2. Cardinality(PodsOf(o)) <= Len(topo.pods[o]) /\ Len(topo.pods[o]) \in Nat
  BY DEF FollowFacts
<1>3. Cardinality(reported) >= Len(topo.pods[o])
  BY DEF BarrierMet
<1> HIDE DEF reported
<1>4. /\ IsFiniteSet(reported) /\ Cardinality(reported) \in Nat /\ Cardinality(PodsOf(o)) \in Nat
      /\ Cardinality(reported) <= Cardinality(PodsOf(o))
      /\ Cardinality(reported) = Cardinality(PodsOf(o)) => reported = PodsOf(o)
  BY <1>1, FS_Subset, FS_CardinalityType
<1>5. reported = PodsOf(o)
  BY <1>2, <1>3, <1>4
<1> QED BY <1>5 DEF reported

-----------------------------------------------------------------------------
(* What a step may do to the channels.                                     *)

\* On channel c, pl has nothing that was not there, and nothing that was held is let in.
Kept(c, pl) == \A s \in DOMAIN pl[c] : s \in Live(c) /\ (place[c][s] = "held" => pl[c][s] = "held")

\* Pod x reports the epoch of channel c, and is the last of its operation to do so: nothing
\* of that epoch waits or is under way.
ReportedBy(x, c) ==
  /\ ReportEpoch(x) /\ OpOf(x) = To(c) /\ wepoch[x] = epoch[c]
  /\ \A y \in PodsOf(To(c)) \ {x} : Registered(y) /\ epochDone[y] >= epoch[c]
  /\ \A d \in Into(To(c)) : FiniteEpochs(d) => Quiet(place, d)

\* A channel gets one epoch on when the last pod of its operation reports.
EpochStep ==
  \A c \in Channels : epoch'[c] # epoch[c] =>
    epoch'[c] = epoch[c] + 1 /\ \E x \in Pods : ReportedBy(x, c)

\* What comes to a channel is announced, and during an epoch nothing else is let in.
PlaceStep ==
  \A c \in Channels :
    /\ \A s \in Live(c)' : s \in Live(c) \/ \E x \in Pods : Publish(x, c) /\ s \in Outgoing(x, c)
    /\ epoch'[c] = epoch[c] => Kept(c, place') \/ \E x \in Pods : Publish(x, c)

\* An epoch is closed with the channel, or when the operation it comes from moves on.
ClosedStep ==
  \A c \in Channels :
    /\ closed[c] \subseteq closed'[c]
    /\ \/ closed'[c] = closed[c]
       \/ c \in sealed'
       \/ Into(From(c)) = {} /\ \A y \in PodsOf(From(c)) : epochDone'[y] >= 0
       \/ \E e \in Nat :
            /\ closed'[c] = closed[c] \cup {IF Synchronous(c) THEN e + 1 ELSE e}
            /\ \A d \in Into(From(c)) : FiniteEpochs(d) => epoch'[d] = e + 1
            /\ Into(From(c)) # {}

\* A plain channel is sealed when the operation it comes from is complete.
SealStep ==
  /\ sealed \subseteq sealed'
  /\ \A c \in sealed' \ sealed : Mode(c) = "plain" => Complete(From(c))

ChannelStep == EpochStep /\ PlaceStep /\ ClosedStep /\ SealStep

\* Nothing is done to the channels.
LEMMA IdleStep == ASSUME UNCHANGED chanVars PROVE ChannelStep
<1>1. EpochStep
  BY DEF EpochStep, chanVars
<1>2. PlaceStep
  BY DEF PlaceStep, chanVars, Kept, Live
<1>3. ClosedStep
  BY DEF ClosedStep, chanVars
<1>4. SealStep
  BY DEF SealStep, chanVars
<1> QED BY <1>1, <1>2, <1>3, <1>4 DEF ChannelStep

\* A handler that brings the places to pl, on its own or announcing, and seals.
LEMMA SealAllStep ==
  ASSUME IInv, NEW cs, NEW pl, SealAll(cs, pl), epoch' = epoch,
         \A c \in cs : Mode(c) = "plain" => Complete(From(c)),
         \A c \in Channels :
           \/ Kept(c, pl)
           \/ \E x \in Pods : /\ Publish(x, c)
                              /\ \A s \in DOMAIN pl[c] : s \in Live(c) \/ s \in Outgoing(x, c)
  PROVE  ChannelStep
<1>1. /\ sealed' = sealed \cup cs
      /\ \A c \in Channels : closed'[c] = IF c \in cs THEN closed[c] \cup {epoch[c]} ELSE closed[c]
      /\ \A c \in Channels : /\ DOMAIN place'[c] \subseteq DOMAIN pl[c]
                             /\ \A s \in DOMAIN place'[c] : place'[c][s] = pl[c][s]
  BY DEF SealAll
<1>2. EpochStep
  BY DEF EpochStep
<1>3. PlaceStep
  BY <1>1 DEF PlaceStep, Kept, Live
<1>4. ClosedStep
  BY <1>1 DEF ClosedStep
<1>5. SealStep
  BY <1>1 DEF SealStep
<1> QED BY <1>2, <1>3, <1>4, <1>5 DEF ChannelStep

\* What settle seals is no plain channel.
LEMMA SettleStep ==
  ASSUME IInv, NEW pl, Settle(pl), epoch' = epoch,
         \A c \in Channels :
           \/ Kept(c, pl)
           \/ \E x \in Pods : /\ Publish(x, c)
                              /\ \A s \in DOMAIN pl[c] : s \in Live(c) \/ s \in Outgoing(x, c)
  PROVE  ChannelStep
<1>1. \A c \in Settled(pl, sealed) : Mode(c) = "plain" => Complete(From(c))
  BY DEF Settled
<1> QED BY <1>1, SealAllStep DEF Settle

LEMMA ReturnedKept ==
  ASSUME IInv, NEW gone \in SUBSET Pods, NEW c \in Channels PROVE Kept(c, Returned(gone))
<1>1. "held" \notin Pods
  BY GraphIs DEF IInv, ChannelInv, GraphFacts
<1> QED BY <1>1 DEF Kept, Returned, Live

LEMMA RecordStep ==
  ASSUME IInv, FollowFacts, NEW x \in Pods, NEW e \in Nat, NEW pl, \A c \in Channels : Kept(c, pl),
         NEW doneAt, doneAt = [y \in Pods |-> doneAt[y]], NEW live \in SUBSET PodsOf(OpOf(x)),
         e > doneAt[x] => InputEnded(OpOf(x), e, pl),
         RecordEpochDone(x, e, pl, doneAt, live)
  PROVE  LET met == \A y \in PodsOf(OpOf(x)) : y \in live /\ epochDone'[y] >= e
         IN  /\ \A c \in Channels : epoch'[c] # epoch[c] =>
                  /\ epoch'[c] = epoch[c] + 1 /\ To(c) = OpOf(x) /\ epoch[c] = e /\ met
                  /\ InputEnded(OpOf(x), e, pl)
             /\ \A c \in Channels : /\ \A s \in DOMAIN place'[c] : s \in Live(c)
                                    /\ epoch'[c] = epoch[c] => Kept(c, place')
                                    /\ closed[c] \subseteq closed'[c]
             /\ \A c \in Channels :
                  \/ closed'[c] = closed[c]
                  \/ c \in sealed'
                  \/ /\ closed'[c] = closed[c] \cup {IF Synchronous(c) THEN e + 1 ELSE e}
                     /\ From(c) = OpOf(x) /\ met
                     /\ \A d \in Into(OpOf(x)) : FiniteEpochs(d) => epoch'[d] = e + 1
             /\ sealed \subseteq sealed' /\ \A c \in sealed' \ sealed : Mode(c) # "plain"
<1> DEFINE o == OpOf(x)
           now == [doneAt EXCEPT ![x] = IF e > @ THEN e ELSE @]
           met == \A y \in PodsOf(o) : y \in live /\ epochDone'[y] >= e
<1>1. epochDone' = now
  BY DEF RecordEpochDone
<1>2. CASE ~(e > doneAt[x] /\ BarrierMet(o, e, now, live))
  <2>1. place' = pl /\ UNCHANGED <<epoch, closed, sealed>>
    BY <1>2 DEF RecordEpochDone
  <2> QED BY <2>1 DEF Kept
<1>3. CASE e > doneAt[x] /\ BarrierMet(o, e, now, live)
  <2>1. PassBarrier(o, e, pl) /\ InputEnded(o, e, pl)
    BY <1>3 DEF RecordEpochDone
  <2>2. met
    <3>1. o \in Ops
      BY AboutPod
    <3> HIDE DEF o, now
    <3> QED BY <1>1, <1>3, <3>1, AllReported DEF o
  <2> HIDE DEF now, met
  <2> DEFINE outEpoch(c) == IF Synchronous(c) THEN e + 1 ELSE e
             over == {c \in OutOf(o) : FiniteEpochs(c) /\ Synchronous(c) /\ outEpoch(c) >= topo.channels[c].max}
             ended == {c \in OutOf(o) : FiniteEpochs(c)} \ over
             moving == {c \in Into(o) : FiniteEpochs(c) /\ epoch[c] = e}
  <2>3. /\ sealed' = sealed \cup over
        /\ \A c \in Channels : epoch'[c] = IF c \in moving THEN e + 1 ELSE epoch[c]
        /\ \A c \in Channels :
             closed'[c] = closed[c] \cup (IF c \in over THEN {epoch[c]} ELSE {})
                                    \cup (IF c \in ended THEN {outEpoch(c)} ELSE {})
                                    \cup (IF c \in moving \cap sealed' THEN {e + 1} ELSE {})
    BY <2>1 DEF PassBarrier
  <2>4. \A c \in Channels :
          /\ DOMAIN place'[c] \subseteq DOMAIN pl[c]
          /\ c \notin moving => \A s \in DOMAIN place'[c] : place'[c][s] = pl[c][s]
    BY <2>1 DEF PassBarrier
  <2>5. \A c \in moving : To(c) = o /\ epoch[c] = e
    BY DEF Into
  <2>6. \A d \in Into(o) : FiniteEpochs(d) => d \in moving /\ d \in Channels
    BY <2>1 DEF InputEnded, Into
  <2>7. \A c \in ended : From(c) = o
    BY DEF OutOf
  <2>8. \A c \in over : Mode(c) # "plain"
    BY DEF Synchronous
  <2> HIDE DEF over, ended, moving, o
  <2>9. \A c \in Channels : epoch'[c] # epoch[c] =>
          epoch'[c] = epoch[c] + 1 /\ To(c) = o /\ epoch[c] = e /\ met /\ InputEnded(o, e, pl)
    BY <2>1, <2>2, <2>3, <2>5
  <2>10. ASSUME NEW c \in Channels
         PROVE  /\ \A s \in DOMAIN place'[c] : s \in Live(c)
                /\ epoch'[c] = epoch[c] => Kept(c, place')
                /\ closed[c] \subseteq closed'[c]
    <3>1. epoch'[c] = epoch[c] => c \notin moving
      BY <2>3, <2>5
    <3> QED BY <2>3, <2>4, <3>1 DEF Kept
  <2>11. ASSUME NEW c \in Channels
         PROVE  \/ closed'[c] = closed[c]
                \/ c \in sealed'
                \/ /\ closed'[c] = closed[c] \cup {outEpoch(c)}
                   /\ From(c) = o /\ met
                   /\ \A d \in Into(o) : FiniteEpochs(d) => epoch'[d] = e + 1
    <3>1. CASE c \in sealed'
      BY <3>1
    <3>2. CASE c \notin sealed' /\ c \in ended
      BY <2>2, <2>3, <2>6, <2>7, <3>2
    <3>3. CASE c \notin sealed' /\ c \notin ended
      BY <2>3, <3>3
    <3> QED BY <3>1, <3>2, <3>3
  <2>12. sealed \subseteq sealed' /\ \A c \in sealed' \ sealed : Mode(c) # "plain"
    BY <2>3, <2>8
  <2> QED BY <2>9, <2>10, <2>11, <2>12 DEF o, met
<1> QED BY <1>2, <1>3

LEMMA RegisterSteps == ASSUME IInv, NEW x \in Pods, Register(x) PROVE ChannelStep
<1> DEFINE gone == Silent({x}) \cup (IF session[x] = "old" THEN {x} ELSE {})
<1>1. place' = Returned(gone) /\ UNCHANGED <<epoch, closed, sealed>>
  BY DEF Register
<1>2. gone \in SUBSET Pods
  BY SilentIn
<1> HIDE DEF gone
<1>3. \A c \in Channels : Kept(c, place')
  BY <1>1, <1>2, ReturnedKept
<1>4. EpochStep /\ ClosedStep /\ SealStep
  BY <1>1 DEF EpochStep, ClosedStep, SealStep
<1>5. PlaceStep
  BY <1>3 DEF PlaceStep, Kept, Live
<1> QED BY <1>4, <1>5 DEF ChannelStep

LEMMA ConsumeSteps == ASSUME IInv, NEW x \in Pods, Consume(x) PROVE ChannelStep
<1> DEFINE c     == topo.inbound[OpOf(x)][at[x]]
           gone  == Silent({x})
           pl    == Returned(gone)
           work  == {s \in Live(c) : pl[c][s] = "queued" /\ Part(s) \in Assigned(OpOf(x), x, gone)}
           given == [pl EXCEPT ![c] = [s \in Live(c) |-> IF s \in work THEN x ELSE pl[c][s]]]
<1>1. ~AtEnd(x) /\ SealAll(Settled(pl, sealed), given) /\ epoch' = epoch
  BY ConsumeIs
<1>2. c \in Channels
  BY <1>1, NextPollIn DEF Into
<1>3. gone \in SUBSET Pods
  BY SilentIn
<1>4. \A s \in work : pl[c][s] = "queued"
  OBVIOUS
<1>5. \A d \in Channels : Kept(d, pl)
  BY <1>3, ReturnedKept
<1>6. pl = [d \in Channels |-> pl[d]] /\ DOMAIN pl[c] = Live(c)
  BY <1>2 DEF Returned
<1>7. \A d \in Settled(pl, sealed) : Mode(d) = "plain" => Complete(From(d))
  BY DEF Settled
<1> HIDE DEF c, gone, pl, work
<1>8. \A d \in Channels : Kept(d, given)
  <2>1. given[c] = [s \in Live(c) |-> IF s \in work THEN x ELSE pl[c][s]]
    BY <1>2, <1>6
  <2>2. \A s \in Live(c) : place[c][s] = "held" => pl[c][s] = "held" /\ s \notin work
    BY <1>2, <1>4, <1>5, <1>6 DEF Kept
  <2>3. Kept(c, given)
    BY <2>1, <2>2 DEF Kept
  <2>4. \A d \in Channels : d # c => given[d] = pl[d]
    BY <1>6
  <2> HIDE DEF given
  <2> QED BY <1>5, <2>3, <2>4 DEF Kept
<1> HIDE DEF given
<1> QED BY <1>1, <1>7, <1>8, SealAllStep

LEMMA AckSteps == ASSUME IInv, NEW x \in Pods, Ack(x) PROVE ChannelStep
<1>1. PICK w \in current[x] :
        LET c == w[1]
            owned == w[2] \in Live(c) /\ place[c][w[2]] = x
        IN  Settle(IF owned THEN [place EXCEPT ![c] = [s \in Live(c) \ {w[2]} |-> place[c][s]]] ELSE place)
  BY DEF Ack
<1>2. w[1] \in Channels /\ place = [c \in Channels |-> place[c]]
  BY AboutPod DEF MemoryOf, Into, IInv, ChannelInv, PlacesOK
<1> DEFINE less == [place EXCEPT ![w[1]] = [s \in Live(w[1]) \ {w[2]} |-> place[w[1]][s]]]
<1>3. PICK pl \in {less, place} : Settle(pl)
  BY <1>1
<1>4. \A c \in Channels : Kept(c, less) /\ Kept(c, place)
  BY <1>2 DEF Kept, Live
<1> HIDE DEF less
<1>5. epoch' = epoch
  BY DEF Ack
<1> QED BY <1>3, <1>4, <1>5, SettleStep

LEMMA PublishSteps == ASSUME IInv, NEW x \in Pods, NEW c \in Channels, Publish(x, c) PROVE ChannelStep
<1> DEFINE pl == [place EXCEPT ![c] = Indexed(c, Outgoing(x, c))]
<1>1. Settle(pl) /\ epoch' = epoch
  BY DEF Publish
<1>2. place = [d \in Channels |-> place[d]]
  BY DEF IInv, ChannelInv, PlacesOK
<1>3. DOMAIN Indexed(c, Outgoing(x, c)) \subseteq Outgoing(x, c) \cup Live(c)
  BY DEF Indexed
<1>4. pl[c] = Indexed(c, Outgoing(x, c)) /\ \A d \in Channels : d # c => pl[d] = place[d]
  BY <1>2
<1> HIDE DEF pl
<1>5. \A d \in Channels : d # c => Kept(d, pl)
  BY <1>4 DEF Kept, Live
<1> QED BY <1>1, <1>3, <1>4, <1>5, SettleStep

LEMMA SealSteps == ASSUME IInv, NEW c \in Channels, Seal(c) PROVE ChannelStep
<1> DEFINE cs == {c} \cup Settled(place, sealed \cup {c})
<1>1. SealAll(cs, place) /\ epoch' = epoch /\ Complete(From(c))
  BY DEF Seal
<1>2. \A d \in cs : Mode(d) = "plain" => Complete(From(d))
  BY <1>1 DEF Settled
<1>3. \A d \in Channels : Kept(d, place)
  BY DEF Kept, Live
<1> HIDE DEF cs
<1> QED BY <1>1, <1>2, <1>3, SealAllStep

LEMMA MetricsSteps == ASSUME IInv, Metrics PROVE ChannelStep
<1>1. Settle(Returned(Silent({}))) /\ epoch' = epoch
  BY DEF Metrics
<1>2. \A d \in Channels : Kept(d, Returned(Silent({})))
  BY SilentIn, ReturnedKept
<1> QED BY <1>1, <1>2, SettleStep

LEMMA ReportEpochSteps == ASSUME IInv, FollowFacts, NEW x \in Pods, ReportEpoch(x) PROVE ChannelStep
<1> DEFINE gone == Silent({x})
           live == {y \in PodsOf(OpOf(x)) : Registered(y)} \ gone
           e == wepoch[x]
           met == \A y \in PodsOf(OpOf(x)) : y \in live /\ epochDone'[y] >= e
<1>1. /\ phase[x] = "ending"
      /\ e <= epochDone[x] \/ InputEnded(OpOf(x), e, Returned(gone))
      /\ RecordEpochDone(x, e, Returned(gone), Forgotten(gone), live)
  BY DEF ReportEpoch
<1>2. gone \in SUBSET Pods /\ x \notin gone
  BY SilentIn
<1>3. live \in SUBSET PodsOf(OpOf(x)) /\ \A y \in live : Registered(y) /\ y \notin gone
  OBVIOUS
<1> HIDE DEF gone, live
<1>4. e \in Nat /\ epochDone \in [Pods -> Int]
  BY AboutPod DEF PassOf, IInv, PodInv
<1>5. Forgotten(gone) = [y \in Pods |-> Forgotten(gone)[y]] /\ Forgotten(gone)[x] = epochDone[x]
  BY <1>2 DEF Forgotten
<1>6. e > Forgotten(gone)[x] => InputEnded(OpOf(x), e, Returned(gone))
  BY <1>1, <1>4, <1>5
<1>7. \A c \in Channels : Kept(c, Returned(gone))
  BY <1>2, ReturnedKept
<1> HIDE DEF e, met
<1>8. /\ \A c \in Channels : epoch'[c] # epoch[c] =>
           /\ epoch'[c] = epoch[c] + 1 /\ To(c) = OpOf(x) /\ epoch[c] = e /\ met
           /\ InputEnded(OpOf(x), e, Returned(gone))
      /\ \A c \in Channels : /\ \A s \in DOMAIN place'[c] : s \in Live(c)
                             /\ epoch'[c] = epoch[c] => Kept(c, place')
                             /\ closed[c] \subseteq closed'[c]
      /\ \A c \in Channels :
           \/ closed'[c] = closed[c]
           \/ c \in sealed'
           \/ /\ closed'[c] = closed[c] \cup {IF Synchronous(c) THEN e + 1 ELSE e}
              /\ From(c) = OpOf(x) /\ met
              /\ \A d \in Into(OpOf(x)) : FiniteEpochs(d) => epoch'[d] = e + 1
      /\ sealed \subseteq sealed' /\ \A c \in sealed' \ sealed : Mode(c) # "plain"
  BY <1>1, <1>3, <1>4, <1>5, <1>6, <1>7, RecordStep DEF met
<1>9. met => \A y \in PodsOf(OpOf(x)) \ {x} : Registered(y) /\ epochDone[y] >= e
  <2> SUFFICES ASSUME met, NEW y \in PodsOf(OpOf(x)), y # x PROVE Registered(y) /\ epochDone[y] >= e
    OBVIOUS
  <2>1. Registered(y) /\ y \notin gone /\ epochDone'[y] >= e
    BY <1>3 DEF met
  <2>2. epochDone'[y] = Forgotten(gone)[y]
    BY <1>1, <1>5 DEF RecordEpochDone, PodsOf
  <2> QED BY <2>1, <2>2 DEF Forgotten, PodsOf
<1>10. InputEnded(OpOf(x), e, Returned(gone)) => \A d \in Into(OpOf(x)) : FiniteEpochs(d) => Quiet(place, d)
  <2>1. ASSUME NEW d \in Channels, Quiet(Returned(gone), d) PROVE Quiet(place, d)
    <3>1. DOMAIN Returned(gone)[d] = DOMAIN place[d]
      BY DEF Returned, Live
    <3>2. \A s \in DOMAIN place[d] : Returned(gone)[d][s] = IF place[d][s] \in gone THEN "queued" ELSE place[d][s]
      BY DEF Returned, Live
    <3> QED BY <2>1, <3>1, <3>2 DEF Quiet
  <2> QED BY <2>1 DEF InputEnded, Into
<1>15. EpochStep
  BY <1>8, <1>9, <1>10 DEF EpochStep, ReportedBy, e
<1>11. PlaceStep
  BY <1>8 DEF PlaceStep, Live
<1>12. Into(OpOf(x)) # {}
  BY <1>1, AboutPod DEF PassOf
<1>13. ClosedStep
  BY <1>4, <1>8, <1>12 DEF ClosedStep
<1>14. SealStep
  BY <1>8 DEF SealStep
<1> QED BY <1>11, <1>13, <1>14, <1>15 DEF ChannelStep

LEMMA ReportDoneSteps == ASSUME IInv, FollowFacts, NEW x \in Pods, ReportDone(x) PROVE ChannelStep
<1>1. CASE Into(OpOf(x)) # {}
  <2>1. UNCHANGED chanVars
    BY <1>1 DEF ReportDone
  <2> QED BY <2>1, IdleStep
<1>2. CASE Into(OpOf(x)) = {}
  <2> DEFINE live == {y \in PodsOf(OpOf(x)) : Registered(y)}
             met == \A y \in PodsOf(OpOf(x)) : y \in live /\ epochDone'[y] >= 0
  <2>1. RecordEpochDone(x, 0, place, epochDone, live)
    BY <1>2 DEF ReportDone
  <2>2. InputEnded(OpOf(x), 0, place)
    BY <1>2 DEF InputEnded
  <2>3. \A c \in Channels : Kept(c, place)
    BY DEF Kept, Live
  <2>4. epochDone = [y \in Pods |-> epochDone[y]] /\ live \in SUBSET PodsOf(OpOf(x))
    BY DEF IInv, PodInv
  <2> HIDE DEF live, met
  <2>5. /\ \A c \in Channels : epoch'[c] # epoch[c] =>
             epoch'[c] = epoch[c] + 1 /\ To(c) = OpOf(x) /\ epoch[c] = 0 /\ met
        /\ \A c \in Channels : /\ \A s \in DOMAIN place'[c] : s \in Live(c)
                               /\ epoch'[c] = epoch[c] => Kept(c, place')
                               /\ closed[c] \subseteq closed'[c]
        /\ \A c \in Channels :
             \/ closed'[c] = closed[c]
             \/ c \in sealed'
             \/ /\ closed'[c] = closed[c] \cup {IF Synchronous(c) THEN 0 + 1 ELSE 0}
                /\ From(c) = OpOf(x) /\ met
                /\ \A d \in Into(OpOf(x)) : FiniteEpochs(d) => epoch'[d] = 0 + 1
        /\ sealed \subseteq sealed' /\ \A c \in sealed' \ sealed : Mode(c) # "plain"
    BY <2>1, <2>2, <2>3, <2>4, RecordStep DEF met
  <2>6. \A c \in Channels : To(c) # OpOf(x)
    BY <1>2 DEF Into
  <2>7. EpochStep
    BY <2>5, <2>6 DEF EpochStep
  <2>8. PlaceStep
    BY <2>5 DEF PlaceStep, Live
  <2>9. ClosedStep
    BY <1>2, <2>5 DEF ClosedStep, met
  <2>10. SealStep
    BY <2>5 DEF SealStep
  <2> QED BY <2>7, <2>8, <2>9, <2>10 DEF ChannelStep
<1> QED BY <1>1, <1>2

LEMMA ChannelSteps == ASSUME IInv, FollowFacts, [Next]_vars PROVE ChannelStep
<1>1. ASSUME NEW x \in Pods, WorkerStep(x) PROVE ChannelStep
  <2>1. CASE Source(x) \/ ConsumeFails(x) \/ OnRecord(x) \/ EndPass(x) \/ GiveUp(x) \/ Refused(x) \/ DropOutput(x)
    BY <2>1, IdleStep DEF Source, ConsumeFails, OnRecord, EndPass, GiveUp, Refused, DropOutput
  <2> QED BY <1>1, <2>1, ConsumeSteps, AckSteps, ReportEpochSteps, ReportDoneSteps, PublishSteps DEF WorkerStep
<1>2. ASSUME NEW x \in Pods, Crash(x) \/ Restart(x) \/ Lapse(x) PROVE ChannelStep
  BY <1>2, IdleStep DEF Crash, Restart, Lapse
<1>3. CASE UNCHANGED vars
  BY <1>3, IdleStep DEF vars
<1> QED BY <1>1, <1>2, <1>3, RegisterSteps, SealSteps, MetricsSteps DEF Next

-----------------------------------------------------------------------------
(* What a step of another may do to a pod.                                 *)

\* The process of pod y does nothing.
Rests(y) ==
  /\ at'[y] = at[y] /\ phase'[y] = phase[y] /\ wepoch'[y] = wepoch[y] /\ lastDone'[y] = lastDone[y]
  /\ hand'[y] = hand[y] /\ current'[y] = current[y] /\ out'[y] = out[y]
  /\ (y \in up' <=> y \in up) /\ (y \in allQuiet' <=> y \in allQuiet) /\ (y \in allDrained' <=> y \in allDrained)

\* The session of pod y stays as it is, or expires.
SessionRests(y) ==
  /\ \/ session'[y] = session[y] /\ epochDone'[y] = epochDone[y]
     \/ session'[y] = "none" /\ epochDone'[y] = -2
  /\ (y \in done' => y \in done) /\ (y \in finished' <=> y \in finished)

LEMMA ExpiryRests ==
  ASSUME NEW y \in Pods, NEW gone, session'[y] = IF y \in gone THEN "none" ELSE session[y],
         epochDone'[y] = Forgotten(gone)[y], y \in done' => y \in done, finished' = finished
  PROVE  SessionRests(y)
BY DEF SessionRests, Forgotten

LEMMA OthersRest ==
  ASSUME IInv, NEW x \in Pods, NEW y \in Pods, y # x,
         WorkerStep(x) \/ Register(x) \/ Crash(x) \/ Restart(x) \/ Lapse(x)
  PROVE  Rests(y) /\ SessionRests(y)
<1>1. /\ at = [z \in Pods |-> at[z]] /\ phase = [z \in Pods |-> phase[z]]
      /\ wepoch = [z \in Pods |-> wepoch[z]] /\ lastDone = [z \in Pods |-> lastDone[z]]
      /\ hand = [z \in Pods |-> hand[z]] /\ current = [z \in Pods |-> current[z]] /\ out = [z \in Pods |-> out[z]]
  BY DEF IInv, WorkerInv
<1>2. session = [z \in Pods |-> session[z]] /\ epochDone = [z \in Pods |-> epochDone[z]]
  BY DEF IInv, PodInv
<1>3. ASSUME NEW d, NEW q, Noted(x, d, q)
      PROVE  at'[y] = at[y] /\ (y \in allQuiet' <=> y \in allQuiet) /\ (y \in allDrained' <=> y \in allDrained)
  BY <1>1, <1>3 DEF Noted
<1>4. CASE Source(x)
  <2>1. /\ phase' = [phase EXCEPT ![x] = "draining"] /\ Emit(x, OutOf(OpOf(x)), 0)
        /\ UNCHANGED <<podVars, up, passVars, hand, current, wepoch, lastDone>>
    BY <1>4 DEF Source
  <2>2. out'[y] = out[y]
    BY <1>1, <2>1 DEF Emit
  <2>3. Rests(y)
    BY <1>1, <2>1, <2>2 DEF Rests, passVars
  <2> QED BY <2>1, <2>3 DEF SessionRests, podVars
<1>5. CASE Consume(x)
  <2>1. \E d, q : Noted(x, d, q)
    BY <1>5, ConsumeIs
  <2>2. /\ \E w : hand' = [hand EXCEPT ![x] = w]
        /\ \E e : wepoch' \in {wepoch, [wepoch EXCEPT ![x] = e]}
        /\ Expire(Silent({x})) /\ UNCHANGED <<finished, up, phase, current, out, lastDone>>
    BY <1>5, ConsumeIs
  <2>3. Rests(y)
    BY <1>1, <1>3, <2>1, <2>2 DEF Rests
  <2>4. session'[y] = (IF y \in Silent({x}) THEN "none" ELSE session[y]) /\ epochDone'[y] = Forgotten(Silent({x}))[y]
    BY <2>2 DEF Expire
  <2>5. y \in done' => y \in done
    BY <2>2 DEF Expire
  <2> QED BY <2>2, <2>3, <2>4, <2>5, ExpiryRests
<1>6. CASE ConsumeFails(x)
  <2>1. Noted(x, FALSE, FALSE) /\ UNCHANGED <<podVars, up, phase, workVars, wepoch, lastDone>>
    BY <1>6 DEF ConsumeFails
  <2> QED BY <1>3, <2>1 DEF Rests, SessionRests, workVars, podVars
<1>7. CASE OnRecord(x)
  <2>1. PICK w \in hand[x] :
          LET e == IF FiniteEpochs(w[1]) THEN wepoch[x] ELSE EpochOf(w[2])
          IN  /\ current' = [current EXCEPT ![x] = {w}]
              /\ hand' = [hand EXCEPT ![x] = @ \ {w}]
              /\ wepoch' = [wepoch EXCEPT ![x] = e]
              /\ Emit(x, OutOf(OpOf(x)), e)
    BY <1>7 DEF OnRecord
  <2>2. UNCHANGED <<podVars, up, phase, passVars, lastDone>>
    BY <1>7 DEF OnRecord
  <2>3. out'[y] = out[y]
    BY <1>1, <2>1 DEF Emit
  <2>4. Rests(y)
    BY <1>1, <2>1, <2>2, <2>3 DEF Rests, passVars
  <2> QED BY <2>2, <2>4 DEF SessionRests, podVars
<1>8. CASE Ack(x)
  <2>1. /\ current' = [current EXCEPT ![x] = {}]
        /\ UNCHANGED <<podVars, up, phase, passVars, hand, out, wepoch, lastDone>>
    BY <1>8 DEF Ack
  <2> QED BY <1>1, <2>1 DEF Rests, SessionRests, passVars, podVars
<1>9. CASE EndPass(x)
  <2>1. /\ at' = [at EXCEPT ![x] = 1] /\ allQuiet' = allQuiet \cup {x} /\ allDrained' = allDrained \cup {x}
        /\ UNCHANGED <<podVars, up, hand, current, wepoch, lastDone>>
    BY <1>9 DEF EndPass
  <2>2. \E p, cs : phase' = [phase EXCEPT ![x] = p] /\ Emit(x, cs, wepoch[x])
    BY <1>9 DEF EndPass
  <2>3. out'[y] = out[y] /\ phase'[y] = phase[y]
    BY <1>1, <2>2 DEF Emit
  <2>4. Rests(y)
    BY <1>1, <2>1, <2>3 DEF Rests
  <2> QED BY <2>1, <2>4 DEF SessionRests, podVars
<1>10. CASE ReportEpoch(x)
  <2>1. /\ session' = [z \in Pods |-> IF z \in Silent({x}) THEN "none" ELSE session[z]]
        /\ done' = done \ Silent({x})
        /\ lastDone' = [lastDone EXCEPT ![x] = wepoch[x]] /\ phase' = [phase EXCEPT ![x] = "poll"]
        /\ UNCHANGED <<finished, up, passVars, workVars, wepoch>>
    BY <1>10 DEF ReportEpoch
  <2>2. \E e : epochDone' = [Forgotten(Silent({x})) EXCEPT ![x] = e]
    BY <1>10 DEF ReportEpoch, RecordEpochDone
  <2>3. epochDone'[y] = Forgotten(Silent({x}))[y]
    BY <2>2 DEF Forgotten
  <2>4. Rests(y)
    BY <1>1, <2>1 DEF Rests, passVars, workVars
  <2> QED BY <2>1, <2>3, <2>4, ExpiryRests
<1>11. CASE GiveUp(x) \/ Refused(x) \/ Crash(x)
  <2>1. Exit(x) /\ UNCHANGED podVars
    BY <1>11 DEF GiveUp, Refused, Crash
  <2>2. Rests(y)
    BY <1>1, <2>1 DEF Exit, Rests
  <2> QED BY <2>1, <2>2 DEF SessionRests, podVars
<1>12. CASE ReportDone(x)
  <2>1. /\ done' = done \cup {x} /\ phase' = [phase EXCEPT ![x] = "idle"]
        /\ finished' \in {finished, finished \cup {x}}
        /\ UNCHANGED <<session, up, passVars, workVars, wepoch, lastDone>>
    BY <1>12 DEF ReportDone
  <2>2. epochDone'[y] = epochDone[y]
    <3>1. epochDone' = epochDone \/ \E e : epochDone' = [epochDone EXCEPT ![x] = e]
      BY <1>12 DEF ReportDone, RecordEpochDone
    <3> QED BY <1>2, <3>1
  <2>3. Rests(y)
    BY <1>1, <2>1 DEF Rests, passVars, workVars
  <2> QED BY <2>1, <2>2, <2>3 DEF SessionRests
<1>13. ASSUME NEW c \in Channels, Publish(x, c) PROVE Rests(y) /\ SessionRests(y)
  <2>1. /\ out' = [out EXCEPT ![x] = {w \in @ : w[1] # c}]
        /\ UNCHANGED <<podVars, up, phase, passVars, hand, current, wepoch, lastDone>>
    BY <1>13 DEF Publish
  <2> QED BY <1>1, <2>1 DEF Rests, SessionRests, passVars, podVars
<1>14. CASE Register(x)
  <2>1. /\ session' = [z \in Pods |-> IF z = x THEN "current" ELSE IF z \in Silent({x}) THEN "none" ELSE session[z]]
        /\ \E e : epochDone' = [Forgotten(Silent({x})) EXCEPT ![x] = e]
        /\ done' \subseteq done
        /\ UNCHANGED <<finished, up, phase, passVars, workVars, wepoch, lastDone>>
    BY <1>14 DEF Register
  <2>2. epochDone'[y] = Forgotten(Silent({x}))[y]
    BY <2>1 DEF Forgotten
  <2>3. Rests(y)
    BY <2>1 DEF Rests, passVars, workVars
  <2> QED BY <2>1, <2>2, <2>3, ExpiryRests
<1>15. CASE Restart(x)
  <2>1. /\ up' = up \cup {x} /\ session' = [session EXCEPT ![x] = IF @ = "current" THEN "old" ELSE @]
        /\ UNCHANGED <<done, epochDone, finished, phase, passVars, workVars, wepoch, lastDone>>
    BY <1>15 DEF Restart
  <2> QED BY <1>2, <2>1 DEF Rests, SessionRests, passVars, workVars
<1>16. CASE Lapse(x)
  BY <1>16 DEF Lapse, Rests, SessionRests, passVars, workVars
<1>17. CASE DropOutput(x)
  <2>1. out' = [out EXCEPT ![x] = {}] /\ UNCHANGED <<podVars, up, phase, passVars, hand, current, wepoch, lastDone>>
    BY <1>17 DEF DropOutput
  <2> QED BY <1>1, <2>1 DEF Rests, SessionRests, passVars, podVars
<1> QED BY <1>4, <1>5, <1>6, <1>7, <1>8, <1>9, <1>10, <1>11, <1>12, <1>13, <1>14, <1>15, <1>16, <1>17 DEF WorkerStep

\* A step of the system, as pod y sees it
LEMMA PodStep ==
  ASSUME IInv, [Next]_vars, NEW y \in Pods
  PROVE  \/ WorkerStep(y) \/ Crash(y) \/ Restart(y) \/ Register(y)
         \/ Rests(y) /\ SessionRests(y)
<1>1. CASE UNCHANGED vars
  BY <1>1 DEF vars, podVars, passVars, workVars, Rests, SessionRests
<1>2. ASSUME NEW c \in Channels, Seal(c) PROVE Rests(y) /\ SessionRests(y)
  BY <1>2 DEF Seal, podVars, passVars, workVars, Rests, SessionRests
<1>3. CASE Metrics
  <2>1. Expire(Silent({})) /\ UNCHANGED <<finished, up, phase, passVars, workVars, wepoch, lastDone>>
    BY <1>3 DEF Metrics
  <2>2. Rests(y)
    BY <2>1 DEF passVars, workVars, Rests
  <2>3. session'[y] = (IF y \in Silent({}) THEN "none" ELSE session[y]) /\ epochDone'[y] = Forgotten(Silent({}))[y]
    BY <2>1 DEF Expire
  <2>4. y \in done' => y \in done
    BY <2>1 DEF Expire
  <2> QED BY <2>1, <2>2, <2>3, <2>4, ExpiryRests
<1>4. CASE Lapse(y)
  BY <1>4 DEF Lapse, Rests, SessionRests, passVars, workVars
<1> QED BY <1>1, <1>2, <1>3, <1>4, OthersRest DEF Next

-----------------------------------------------------------------------------
(* The inductive invariant of the ends of epochs.                          *)

\* Nothing waits on channel c or is under way, but what sources announce again
QuietBut(pl, c) == \A s \in DOMAIN pl[c] : pl[c][s] = "held" \/ Again(s)

\* The current epoch of channel c is closed, and nothing of it is left.
Over(c) == epoch[c] \in closed[c] /\ QuietBut(place, c)

\* Channel c from a source carries nothing new any more.
Exhausted(c) == closed[c] # {} /\ QuietBut(place, c)

\* A report of a source is remembered by what the source has unannounced.
SourcePod(x) ==
  Into(OpOf(x)) = {} =>
    /\ wepoch[x] = 0
    /\ x \in done \/ epochDone[x] >= 0 => x \in finished
    /\ x \in finished => \A w \in out[x] : Again(w[2])

SourceChannel(c) ==
  FromSource(c) =>
    /\ \A s \in Live(c) : EpochOf(s) = 0
    /\ c \in sealed \/ closed[c] # {} => PodsOf(From(c)) \subseteq finished

\* The process of pod x has done nothing yet.
Blank(x) ==
  /\ hand[x] = {} /\ current[x] = {} /\ out[x] = {}
  /\ phase[x] = Start(x) /\ at[x] = 1 /\ lastDone[x] = -1

Busy(x) == hand[x] # {} \/ current[x] # {} \/ phase[x] = "ending"

\* A report the coordinator knows of is a report of the registered process.
ReportsOf(x) ==
  /\ x \notin up \/ session[x] = "old" => Blank(x)
  /\ lastDone[x] >= -1 /\ (phase[x] = "ending" => at[x] = 1)
  /\ x \in up /\ session[x] = "current" /\ Into(OpOf(x)) # {} => epochDone[x] <= lastDone[x]
  /\ \A w \in out[x] : EpochOf(w[2]) = EpochOn(w[1], wepoch[x])

\* What a worker has in hand is of the current epoch; what it ends, it has not ended before.
BusyOf(x) ==
  Busy(x) => \A c \in Into(OpOf(x)) :
    FiniteEpochs(c) => wepoch[x] = epoch[c] /\ (phase[x] = "ending" => lastDone[x] < wepoch[x])

\* What a pod has in hand is in flight to it, unless it has expired since.
HandOf(x) ==
  /\ hand[x] \cap current[x] = {} /\ \A w \in hand[x] \cup current[x] : w = <<w[1], w[2]>>
  /\ Finite(OpOf(x)) /\ session[x] = "current" /\ epochDone[x] >= wepoch[x] =>
       \A w \in hand[x] \cup current[x] : w[2] \in Live(w[1]) /\ place[w[1]][w[2]] = x

\* What a pass has found over stays over until its end.
FoundOf(x) ==
  x \in allQuiet /\ phase[x] = "poll" /\ Finite(OpOf(x)) =>
    /\ \A i \in 1 .. at[x] - 1 : FromSource(topo.inbound[OpOf(x)][i]) => Exhausted(topo.inbound[OpOf(x)][i])
    /\ AtEnd(x) => \/ lastDone[x] >= wepoch[x]
                   \/ wepoch[x] = epoch[LastOf(OpOf(x))] /\ Over(LastOf(OpOf(x)))

\* What a worker has ended is over.
EndedOf(x) ==
  \A c \in Into(OpOf(x)) : FiniteEpochs(c) =>
    /\ LastEnded(x) >= 0 /\ FromSource(c) => Exhausted(c)
    /\ LastEnded(x) >= epoch[c] /\ c = LastOf(OpOf(x)) => Over(c)

\* A pod that is alone moves its operation on with each of its reports.
AloneOf(x) ==
  Alone(OpOf(x)) => \A c \in Into(OpOf(x)) :
    /\ lastDone[x] < epoch[c]
    /\ \/ hand[x] # {} \/ current[x] # {} \/ phase[x] \in {"ending", "draining"}
       \/ x \in allQuiet \cup allDrained /\ at[x] > 1
       => wepoch[x] = epoch[c]

\* An epoch of its output is closed when it has moved on.
ClosedOf(c) ==
  FiniteEpochs(c) /\ Alone(From(c)) /\ c \notin sealed =>
    \A k \in closed[c], d \in Into(From(c)) : k < EpochOn(c, epoch[d])

FollowOf(x) == ReportsOf(x) /\ HandOf(x) /\ BusyOf(x) /\ FoundOf(x) /\ EndedOf(x) /\ AloneOf(x)

FollowInv ==
  /\ \A x \in Pods : SourcePod(x) /\ FollowOf(x)
  /\ \A c \in Channels : SourceChannel(c) /\ ClosedOf(c)

LEMMA TopoStays == ASSUME [Next]_vars PROVE topo' = topo
<1>1. ASSUME NEW x \in Pods, WorkerStep(x) PROVE topo' = topo
  <2>1. \A c \in Channels : Publish(x, c) => topo' = topo
    BY DEF Publish
  <2>2. Consume(x) => topo' = topo
    BY ConsumeIs
  <2>3. OnRecord(x) \/ EndPass(x) \/ ReportEpoch(x) \/ ReportDone(x) => topo' = topo
    BY DEF OnRecord, EndPass, ReportEpoch, ReportDone
  <2>4. Source(x) \/ ConsumeFails(x) \/ Ack(x) \/ GiveUp(x) \/ DropOutput(x) \/ Refused(x) => topo' = topo
    BY DEF Source, ConsumeFails, Ack, GiveUp, DropOutput, Refused
  <2> QED BY <1>1, <2>1, <2>2, <2>3, <2>4 DEF WorkerStep
<1>2. ASSUME NEW x \in Pods, Register(x) \/ Crash(x) \/ Restart(x) \/ Lapse(x) PROVE topo' = topo
  BY <1>2 DEF Register, Crash, Restart, Lapse
<1>3. ASSUME NEW c \in Channels, Seal(c) PROVE topo' = topo
  BY <1>3 DEF Seal
<1>4. Metrics => topo' = topo
  BY DEF Metrics
<1> QED BY <1>1, <1>2, <1>3, <1>4 DEF Next, vars

LEMMA SameFollow ==
  ASSUME topo' = topo
  PROVE  /\ \A c : FromSource(c)' = FromSource(c) /\ Paced(c)' = Paced(c)
         /\ \A o : Alone(o)' = Alone(o) /\ LastOf(o)' = LastOf(o)
         /\ \A x : Start(x)' = Start(x)
         /\ \A c, e : EpochOn(c, e)' = EpochOn(c, e)
<1>1. \A o : Alone(o)' = Alone(o) /\ LastOf(o)' = LastOf(o)
  BY DEF Alone, LastOf, Finite, Into, To, Channels, FiniteEpochs
<1>2. \A c : FromSource(c)' = FromSource(c)
  BY DEF FromSource, Mode, Into, From, To, Channels
<1>3. \A c : Alone(From(c))' = Alone(From(c)) /\ From(c)' = From(c) /\ To(c)' = To(c) /\ Mode(c)' = Mode(c)
  BY DEF Alone, Finite, Into, From, To, Channels, FiniteEpochs, Mode
<1>4. \A c : Paced(c)' = Paced(c)
  BY <1>3 DEF Paced, Synchronous
<1>5. \A x : Start(x)' = Start(x)
  BY DEF Start, Into, OpOf, To, Channels
<1>6. \A c, e : EpochOn(c, e)' = EpochOn(c, e)
  BY DEF EpochOn, Feedback, Mode
<1> QED BY <1>1, <1>2, <1>4, <1>5, <1>6

\* What an operation that follows the epochs takes in.
LEMMA InputsAre ==
  ASSUME IInv, FollowFacts, NEW o \in Ops, NEW c \in Into(o), FiniteEpochs(c)
  PROVE  /\ Finite(o) /\ c \in Channels /\ To(c) = o
         /\ FromSource(c) \/ (c = LastOf(o) /\ Paced(c))
         /\ \A d \in Into(o) : d \in Channels /\ FiniteEpochs(d) /\ epoch[d] = epoch[c]
         /\ Len(topo.inbound[o]) \in Nat /\ Len(topo.inbound[o]) >= 1 /\ LastOf(o) \in Into(o)
<1>1. GraphFacts
  BY GraphIs DEF IInv, ChannelInv
<1>2. Finite(o) /\ c \in Channels /\ To(c) = o
  BY DEF Finite, Into
<1>3. \A d \in Into(o) : d \in Channels /\ FiniteEpochs(d) /\ epoch[d] = epoch[c]
  BY <1>1, <1>2 DEF GraphFacts, Into, IInv, ChannelInv
<1>4. Len(topo.inbound[o]) \in Nat /\ Len(topo.inbound[o]) >= 1 /\ LastOf(o) \in Into(o)
  <2>1. Len(topo.inbound[o]) \in Nat /\ Len(topo.inbound[o]) >= 1
    BY <1>1 DEF GraphFacts
  <2>2. Len(topo.inbound[o]) \in 1 .. Len(topo.inbound[o])
    BY <2>1
  <2> QED BY <1>1, <2>1, <2>2 DEF GraphFacts, LastOf
<1>5. FromSource(c) \/ (c = LastOf(o) /\ Paced(c))
  <2>1. PICK i \in 1 .. Len(topo.inbound[o]) : topo.inbound[o][i] = c
    BY <1>2 DEF FollowFacts
  <2>2. FromSource(topo.inbound[o][i]) \/ (i = Len(topo.inbound[o]) /\ Paced(topo.inbound[o][i]))
    BY <1>2 DEF FollowFacts
  <2> QED BY <2>1, <2>2 DEF LastOf
<1> QED BY <1>2, <1>3, <1>4, <1>5

-----------------------------------------------------------------------------
(* Sources.                                                                *)

\* Once a source pod has reported, what it announces is announced again.
LEMMA SourceSteps ==
  ASSUME IInv, IInv', [Next]_vars, NEW x \in Pods, SourcePod(x), Into(OpOf(x)) = {}
  PROVE  /\ wepoch'[x] = 0
         /\ x \in finished => x \in finished'
         /\ x \in done' \/ epochDone'[x] >= 0 => x \in finished'
         /\ x \in finished' => \A w \in out'[x] : Again(w[2])
<1>1. PassOf(x) /\ MemoryOf(x) /\ OutOf(OpOf(x)) \subseteq Channels
  BY AboutPod
<1>2. /\ wepoch[x] = 0 /\ (x \in done \/ epochDone[x] >= 0 => x \in finished)
      /\ x \in finished => \A w \in out[x] : Again(w[2])
  BY DEF SourcePod
<1>3. /\ phase[x] \notin {"poll", "ending"} /\ hand[x] = {} /\ current[x] = {}
  BY <1>1 DEF PassOf, MemoryOf
<1>4. /\ session = [z \in Pods |-> session[z]] /\ wepoch = [z \in Pods |-> wepoch[z]]
      /\ out = [z \in Pods |-> out[z]] /\ epochDone = [z \in Pods |-> epochDone[z]]
  BY DEF IInv, PodInv, WorkerInv
<1>5. /\ ~Consume(x) /\ ~ConsumeFails(x) /\ ~EndPass(x) /\ ~ReportEpoch(x)
      /\ ~GiveUp(x) /\ ~OnRecord(x) /\ ~Ack(x)
  BY <1>3, ConsumeIs DEF ConsumeFails, EndPass, ReportEpoch, GiveUp, OnRecord, Ack
<1>6. CASE Source(x)
  <2>1. Emit(x, OutOf(OpOf(x)), 0) /\ UNCHANGED <<podVars, wepoch>>
    BY <1>6 DEF Source
  <2>2. \A w \in out'[x] : Again(w[2]) = (x \in finished)
    BY <1>4, <2>1, EmitOK
  <2> QED BY <1>2, <2>1, <2>2 DEF podVars
<1>7. CASE ReportDone(x)
  <2>1. x \in finished' /\ out'[x] = {} /\ wepoch' = wepoch
    BY <1>7 DEF ReportDone, workVars
  <2> QED BY <1>2, <2>1
<1>8. CASE Refused(x) \/ Crash(x)
  <2>1. Exit(x) /\ UNCHANGED podVars
    BY <1>8 DEF Refused, Crash
  <2>2. out'[x] = {} /\ wepoch'[x] = 0
    BY <1>4, <2>1 DEF Exit
  <2> QED BY <1>2, <2>1, <2>2 DEF podVars
<1>9. ASSUME NEW c \in Channels, Publish(x, c)
      PROVE  out'[x] \subseteq out[x] /\ UNCHANGED <<done, epochDone, finished, wepoch>>
  BY <1>4, <1>9 DEF Publish, podVars
<1>10. CASE DropOutput(x)
  BY <1>2, <1>4, <1>10 DEF DropOutput, podVars
<1>11. CASE Restart(x)
  BY <1>2, <1>11 DEF Restart, workVars
<1>12. CASE Register(x)
  <2>1. /\ done' \subseteq done /\ UNCHANGED <<finished, out, wepoch>>
        /\ epochDone' = [Forgotten(Silent({x})) EXCEPT ![x] = IF session[x] = "current" THEN @ ELSE -1]
    BY <1>12 DEF Register, workVars
  <2>2. x \notin Silent({x})
    BY SilentIn
  <2>3. epochDone'[x] = IF session[x] = "current" THEN epochDone[x] ELSE -1
    BY <2>1, <2>2 DEF Forgotten
  <2> QED BY <1>2, <2>1, <2>3
<1>13. CASE Rests(x) /\ SessionRests(x)
  <2>1. /\ wepoch'[x] = wepoch[x] /\ out'[x] = out[x] /\ (x \in finished' <=> x \in finished)
        /\ x \in done' => x \in done
        /\ epochDone'[x] \in {epochDone[x], -2}
    BY <1>13 DEF Rests, SessionRests
  <2> QED BY <1>2, <2>1
<1> QED BY <1>2, <1>5, <1>6, <1>7, <1>8, <1>9, <1>10, <1>11, <1>12, <1>13, PodStep DEF WorkerStep

LEMMA SourcePodKeeps ==
  ASSUME IInv, IInv', [Next]_vars, NEW x \in Pods, SourcePod(x) PROVE SourcePod(x)'
<1>1. Into(OpOf(x))' = Into(OpOf(x))
  BY TopoStays, SameGraph
<1>2. CASE Into(OpOf(x)) # {}
  BY <1>1, <1>2 DEF SourcePod
<1>3. CASE Into(OpOf(x)) = {}
  BY <1>3, SourceSteps DEF SourcePod, Again
<1> QED BY <1>2, <1>3

\* What pod x announces on channel c comes from its operation, and of the epoch it is at.
LEMMA PublishIs ==
  ASSUME IInv, NEW x \in Pods, ReportsOf(x), NEW c \in Channels, Publish(x, c)
  PROVE  /\ OpOf(x) = From(c) /\ x \in PodsOf(From(c)) /\ out[x] # {} /\ c \notin sealed
         /\ \A s \in Outgoing(x, c) : EpochOf(s) = EpochOn(c, wepoch[x])
<1>1. Outgoing(x, c) # {} /\ c \notin sealed
  BY DEF Publish
<1>2. \A w \in out[x] : w[1] \in OutOf(OpOf(x)) /\ EpochOf(w[2]) = EpochOn(w[1], wepoch[x])
  BY AboutPod DEF MemoryOf, ReportsOf
<1> QED BY <1>1, <1>2 DEF Outgoing, OutOf, PodsOf

LEMMA SourceChannelKeeps ==
  ASSUME IInv, IInv', FollowFacts, FollowInv, [Next]_vars, NEW c \in Channels PROVE SourceChannel(c)'
<1>1. topo' = topo
  BY TopoStays
<1>2. FromSource(c)' = FromSource(c) /\ From(c)' = From(c) /\ PodsOf(From(c))' = PodsOf(From(c))
  BY <1>1, SameFollow, SameGraph
<1> SUFFICES ASSUME FromSource(c)
             PROVE  /\ \A s \in Live(c)' : EpochOf(s) = 0
                    /\ c \in sealed' \/ closed'[c] # {} => PodsOf(From(c)) \subseteq finished'
  BY <1>2 DEF SourceChannel, EpochOf
<1>3. /\ \A s \in Live(c) : EpochOf(s) = 0
      /\ c \in sealed \/ closed[c] # {} => PodsOf(From(c)) \subseteq finished
  BY DEF FollowInv, SourceChannel
<1>4. Mode(c) = "plain" /\ Into(From(c)) = {} /\ \A e : EpochOn(c, e) = e
  BY DEF FromSource, EpochOn, Feedback
<1>5. ChannelStep
  BY ChannelSteps
<1>6. ASSUME NEW x \in PodsOf(From(c))
      PROVE  /\ x \in Pods /\ wepoch[x] = 0
             /\ x \in finished => x \in finished'
             /\ x \in done => x \in finished
             /\ epochDone'[x] >= 0 => x \in finished'
  <2>1. x \in Pods /\ Into(OpOf(x)) = {}
    BY <1>4 DEF PodsOf
  <2>2. SourcePod(x)
    BY <2>1 DEF FollowInv
  <2> QED BY <2>1, <2>2, SourceSteps DEF SourcePod
<1>7. ASSUME NEW s \in Live(c)' PROVE EpochOf(s) = 0
  <2>1. CASE s \in Live(c)
    BY <1>3, <2>1
  <2>2. ASSUME NEW x \in Pods, Publish(x, c), s \in Outgoing(x, c) PROVE EpochOf(s) = 0
    <3>1. x \in PodsOf(From(c)) /\ EpochOf(s) = EpochOn(c, wepoch[x])
      BY <2>2, PublishIs DEF FollowInv, FollowOf
    <3> QED BY <1>4, <1>6, <3>1
  <2> QED BY <1>5, <1>7, <2>1, <2>2 DEF ChannelStep, PlaceStep
<1>8. ASSUME c \in sealed' PROVE PodsOf(From(c)) \subseteq finished'
  <2>1. c \in sealed \/ Complete(From(c))
    BY <1>4, <1>5, <1>8 DEF ChannelStep, SealStep
  <2> QED BY <1>3, <1>6, <2>1 DEF Complete
<1>9. ASSUME closed'[c] # {} PROVE PodsOf(From(c)) \subseteq finished'
  <2>1. \/ closed'[c] = closed[c]
        \/ c \in sealed'
        \/ \A y \in PodsOf(From(c)) : epochDone'[y] >= 0
    BY <1>4, <1>5 DEF ChannelStep, ClosedStep
  <2> QED BY <1>3, <1>6, <1>8, <1>9, <2>1
<1> QED BY <1>7, <1>8, <1>9

-----------------------------------------------------------------------------
(* What is over stays over.                                                *)

\* What comes to a channel with an announcement
LEMMA PublishBrings ==
  ASSUME IInv, NEW c \in Channels, NEW x \in Pods, Publish(x, c), QuietBut(place, c),
         \A s \in Outgoing(x, c) : Again(s) \/ (FiniteEpochs(c) /\ EpochOf(s) > epoch[c])
  PROVE  QuietBut(place', c)
<1> DEFINE ss == Outgoing(x, c)
           kept == {s \in ss \ Live(c) : Feedback(c) => EpochOf(s) < topo.channels[c].max}
           pl == [place EXCEPT ![c] = Indexed(c, ss)]
<1>1. SealAll(Settled(pl, sealed), pl)
  BY DEF Publish, Settle
<1>2. pl[c] = Indexed(c, ss)
  BY DEF IInv, ChannelInv, PlacesOK
<1>3. /\ DOMAIN Indexed(c, ss) = kept \cup Live(c)
      /\ \A s \in kept : Again(s) \/ Indexed(c, ss)[s] = "held"
      /\ \A s \in Live(c) : Indexed(c, ss)[s] = place[c][s]
  BY DEF Indexed
<1> HIDE DEF pl, kept, ss
<1>4. /\ DOMAIN place'[c] \subseteq DOMAIN pl[c]
      /\ \A s \in DOMAIN place'[c] : place'[c][s] = pl[c][s]
  BY <1>1 DEF SealAll
<1> QED BY <1>2, <1>3, <1>4 DEF QuietBut, Live

\* On a channel whose source pods have reported, all that is announced is announced again.
LEMMA SourceAgain ==
  ASSUME IInv, FollowInv, NEW c \in Channels, FromSource(c), closed[c] # {}, NEW x \in Pods, Publish(x, c)
  PROVE  \A s \in Outgoing(x, c) : Again(s)
<1>1. x \in PodsOf(From(c)) /\ x \in finished
  BY PublishIs DEF FollowInv, FollowOf, SourceChannel
<1>2. SourcePod(x) /\ Into(OpOf(x)) = {}
  BY <1>1 DEF FollowInv, FromSource, PodsOf
<1> QED BY <1>1, <1>2 DEF SourcePod, Outgoing

\* When the epoch of a channel that brings epochs on is closed, what is announced on it
\* is of a later one.
LEMMA PublishedLate ==
  ASSUME IInv, FollowFacts, FollowInv, NEW c \in Channels, FiniteEpochs(c), Paced(c),
         epoch[c] \in closed[c], NEW x \in Pods, Publish(x, c)
  PROVE  EpochOn(c, wepoch[x]) > epoch[c]
<1>1. x \in PodsOf(From(c)) /\ OpOf(x) = From(c) /\ out[x] # {} /\ c \notin sealed
  BY PublishIs DEF FollowInv, FollowOf
<1>2. PassOf(x) /\ MemoryOf(x) /\ GraphFacts /\ epoch[c] \in Nat
  BY AboutPod
<1>3. BusyOf(x) /\ AloneOf(x) /\ ClosedOf(c)
  BY DEF FollowInv, FollowOf
<1>4. CASE Synchronous(c) /\ From(c) = To(c)
  <2>1. c \in Into(OpOf(x)) /\ Feedback(c)
    BY <1>1, <1>4 DEF Into, Synchronous, Feedback
  <2>2. c \notin DrainOutputs(OpOf(x))
    BY <1>1, <1>4, <2>1 DEF DrainOutputs, FollowFacts
  <2>3. \E w \in out[x] : w[1] = c
    BY DEF Publish, Outgoing
  <2>4. current[x] # {} \/ phase[x] = "ending"
    BY <1>1, <1>2, <2>1, <2>2, <2>3 DEF MemoryOf
  <2>5. wepoch[x] = epoch[c]
    BY <1>3, <2>1, <2>4 DEF BusyOf, Busy
  <2> QED BY <1>2, <2>1, <2>5 DEF EpochOn
<1>5. CASE Alone(From(c))
  <2>1. PICK d \in Into(From(c)) : FiniteEpochs(d)
    BY <1>5 DEF Alone, Finite
  <2>2. current[x] # {} \/ phase[x] \in {"ending", "draining"}
    BY <1>1, <1>2 DEF MemoryOf
  <2>3. wepoch[x] = epoch[d]
    BY <1>1, <1>3, <1>5, <2>1, <2>2 DEF AloneOf
  <2>4. epoch[c] < EpochOn(c, epoch[d])
    BY <1>1, <1>3, <1>5, <2>1 DEF ClosedOf
  <2>5. EpochOn(c, epoch[d]) \in Nat
    BY <1>2, <2>3 DEF PassOf, EpochOn
  <2> QED BY <1>2, <2>3, <2>4, <2>5
<1> QED BY <1>4, <1>5 DEF Paced

LEMMA QuietStays ==
  ASSUME IInv, ChannelStep, NEW c \in Channels, QuietBut(place, c), epoch'[c] = epoch[c],
         \A x \in Pods : Publish(x, c) => QuietBut(place', c)
  PROVE  QuietBut(place', c)
<1>1. Kept(c, place') \/ \E x \in Pods : Publish(x, c)
  BY DEF ChannelStep, PlaceStep
<1> QED BY <1>1 DEF Kept, QuietBut, Live

\* What Over and Exhausted say of channel c after the step
OverNext(c)      == epoch'[c] \in closed'[c] /\ QuietBut(place', c)
ExhaustedNext(c) == closed'[c] # {} /\ QuietBut(place', c)

LEMMA OverIsNext ==
  /\ \A c : Over(c)' <=> epoch'[c] \in closed'[c] /\ QuietBut(place', c)
  /\ \A c : Exhausted(c)' <=> closed'[c] # {} /\ QuietBut(place', c)
BY DEF Over, Exhausted, QuietBut, Again

\* Inputs that are over or exhausted stay so, the graph stays as it is, and epochs
\* begin one by one.
StayStep ==
  /\ topo' = topo /\ EpochStep
  /\ \A c \in Channels : FiniteEpochs(c) /\ FromSource(c) /\ Exhausted(c) => ExhaustedNext(c)
  /\ \A c \in Channels :
       FiniteEpochs(c) /\ (FromSource(c) \/ Paced(c)) /\ Over(c) /\ epoch'[c] = epoch[c] => OverNext(c)

LEMMA StaySteps ==
  ASSUME IInv, IInv', FollowFacts, FollowInv, [Next]_vars PROVE StayStep
<1>1. ChannelStep /\ topo' = topo
  BY ChannelSteps, TopoStays
<1>2. \A c \in Channels : closed[c] \subseteq closed'[c]
  BY <1>1 DEF ChannelStep, ClosedStep
<1>3. ASSUME NEW c \in Channels, FiniteEpochs(c), FromSource(c), closed[c] # {}, QuietBut(place, c)
      PROVE  QuietBut(place', c)
  <2>1. CASE epoch'[c] = epoch[c]
    <3>1. \A x \in Pods : Publish(x, c) => QuietBut(place', c)
      BY <1>3, SourceAgain, PublishBrings
    <3> QED BY <1>1, <1>3, <2>1, <3>1, QuietStays
  <2>2. CASE epoch'[c] # epoch[c]
    <3>1. epoch'[c] = epoch[c] + 1 /\ epoch[c] \in Nat
      BY <1>1, <2>2 DEF ChannelStep, EpochStep, IInv, ChannelInv
    <3>2. \A s \in Live(c)' : EpochOf(s) = 0
      <4>1. SourceChannel(c)' /\ FromSource(c)'
        BY <1>1, <1>3, SourceChannelKeeps, SameFollow
      <4> QED BY <4>1 DEF SourceChannel, EpochOf
    <3>3. \A s \in DOMAIN place'[c] : IF place'[c][s] = "held" THEN TRUE ELSE EpochOf(s) = epoch'[c]
      <4>1. PlacesOf(c, place, epoch[c])'
        BY <1>1, SameGraph DEF IInv, ChannelInv, PlacesOK
      <4>2. FiniteEpochs(c)'
        BY <1>1, <1>3, SameGraph
      <4> QED BY <4>1, <4>2 DEF PlacesOf, EpochOf
    <3> QED BY <3>1, <3>2, <3>3 DEF QuietBut, Live
  <2> QED BY <2>1, <2>2
<1>4. ASSUME NEW c \in Channels, FiniteEpochs(c), Paced(c), Over(c), epoch'[c] = epoch[c]
      PROVE  QuietBut(place', c)
  <2>1. QuietBut(place, c) /\ epoch[c] \in closed[c]
    BY <1>4 DEF Over
  <2>2. ASSUME NEW x \in Pods, Publish(x, c) PROVE QuietBut(place', c)
    <3>1. EpochOn(c, wepoch[x]) > epoch[c]
      BY <1>4, <2>1, <2>2, PublishedLate
    <3>2. \A s \in Outgoing(x, c) : EpochOf(s) > epoch[c]
      BY <2>2, <3>1, PublishIs DEF FollowInv, FollowOf
    <3> QED BY <1>4, <2>1, <2>2, <3>2, PublishBrings
  <2> QED BY <1>1, <1>4, <2>1, <2>2, QuietStays
<1>5. \A c \in Channels : FiniteEpochs(c) /\ FromSource(c) /\ Exhausted(c) => ExhaustedNext(c)
  BY <1>2, <1>3 DEF Exhausted, ExhaustedNext
<1>6. ASSUME NEW c \in Channels, FiniteEpochs(c), FromSource(c) \/ Paced(c), Over(c), epoch'[c] = epoch[c]
      PROVE  OverNext(c)
  <2>1. QuietBut(place', c)
    BY <1>3, <1>4, <1>6 DEF Over
  <2> QED BY <1>2, <1>6, <2>1 DEF Over, OverNext
<1> QED BY <1>1, <1>5, <1>6 DEF StayStep, ChannelStep

\* When its operation moves on to the next epoch, a pod that rests has ended the one
\* before, or has only been started.
LEMMA MovedOn ==
  ASSUME IInv, StayStep, NEW x \in Pods, ReportsOf(x), phase'[x] = phase[x],
         NEW c \in Into(OpOf(x)), epoch'[c] # epoch[c]
  PROVE  Blank(x) \/ lastDone[x] >= epoch[c]
<1>1. c \in Channels /\ To(c) = OpOf(x)
  BY DEF Into
<1>2. PICK z \in Pods : ReportedBy(z, c)
  BY <1>1 DEF StayStep, EpochStep
<1>3. z # x
  BY <1>2 DEF ReportedBy, ReportEpoch, IInv, WorkerInv
<1>4. Registered(x) /\ epochDone[x] >= epoch[c]
  BY <1>1, <1>2, <1>3 DEF ReportedBy, PodsOf
<1>5. session[x] \in {"none", "current", "old"} /\ epochDone[x] \in Int /\ lastDone[x] \in Int /\ epoch[c] \in Nat
  BY <1>1, AboutPod DEF IInv, PodInv, PassOf
<1>6. CASE x \notin up \/ session[x] = "old"
  BY <1>6 DEF ReportsOf
<1>7. CASE x \in up /\ session[x] = "current"
  <2>1. epochDone[x] <= lastDone[x]
    BY <1>7 DEF ReportsOf
  <2> QED BY <1>4, <1>5, <2>1
<1> QED BY <1>4, <1>5, <1>6, <1>7 DEF Registered

\* It does not move on while a pod that rests is busy.
LEMMA MovedOnIdle ==
  ASSUME IInv, StayStep, NEW x \in Pods, ReportsOf(x), HandOf(x), BusyOf(x), phase'[x] = phase[x],
         NEW c \in Into(OpOf(x)), FiniteEpochs(c), epoch'[c] # epoch[c]
  PROVE  ~Busy(x)
<1> SUFFICES ASSUME Busy(x) PROVE FALSE
  OBVIOUS
<1>1. c \in Channels /\ To(c) = OpOf(x) /\ GraphFacts /\ PassOf(x) /\ MemoryOf(x) /\ epoch[c] \in Nat
  BY AboutPod DEF Into
<1>2. PICK z \in Pods : ReportedBy(z, c)
  BY <1>1 DEF StayStep, EpochStep
<1>3. z # x
  BY <1>2 DEF ReportedBy, ReportEpoch, IInv, WorkerInv
<1>4. Registered(x) /\ epochDone[x] >= epoch[c]
  BY <1>1, <1>2, <1>3 DEF ReportedBy, PodsOf
<1>5. session[x] \in {"none", "current", "old"} /\ epochDone[x] \in Int /\ lastDone[x] \in Int
  BY <1>1 DEF IInv, PodInv, PassOf
<1>6. x \in up /\ session[x] = "current"
  BY <1>4, <1>5 DEF ReportsOf, Blank, Busy, Start, Registered
<1>7. wepoch[x] = epoch[c] /\ (phase[x] = "ending" => lastDone[x] < wepoch[x])
  BY DEF BusyOf
<1>8. CASE phase[x] = "ending"
  <2>1. epochDone[x] <= lastDone[x]
    BY <1>6 DEF ReportsOf
  <2> QED BY <1>1, <1>4, <1>5, <1>7, <1>8, <2>1
<1>9. ASSUME NEW w \in hand[x] \cup current[x] PROVE FALSE
  <2>1. w[1] \in Into(OpOf(x)) /\ w[1] \in Channels /\ Finite(OpOf(x)) /\ FiniteEpochs(w[1])
    BY <1>1 DEF MemoryOf, Finite, Into, GraphFacts
  <2>2. w[2] \in Live(w[1]) /\ place[w[1]][w[2]] = x
    BY <1>4, <1>6, <1>7, <2>1 DEF HandOf
  <2>3. Quiet(place, w[1])
    BY <1>1, <1>2, <2>1 DEF ReportedBy
  <2> QED BY <1>1, <2>2, <2>3 DEF Quiet, Live, GraphFacts
<1> QED BY <1>8, <1>9 DEF Busy

-----------------------------------------------------------------------------
(* Pods that rest.                                                         *)

\* The pass of pod x stands where it stood.
PassStays(x) ==
  /\ at'[x] = at[x] /\ phase'[x] = phase[x] /\ wepoch'[x] = wepoch[x] /\ lastDone'[x] = lastDone[x]
  /\ hand'[x] = hand[x] /\ (current'[x] # {} => current[x] # {})
  /\ (x \in allQuiet' => x \in allQuiet) /\ (x \in allDrained' => x \in allDrained)

\* What is known of the inputs of pod x before and after a step.
LEMMA AboutInputs ==
  ASSUME IInv, IInv', FollowFacts, StayStep, NEW x \in Pods
  PROVE  /\ Into(OpOf(x))' = Into(OpOf(x)) /\ LastOf(OpOf(x))' = LastOf(OpOf(x))
         /\ Finite(OpOf(x))' = Finite(OpOf(x)) /\ Alone(OpOf(x))' = Alone(OpOf(x)) /\ OpOf(x)' = OpOf(x)
         /\ Start(x)' = Start(x)
         /\ \A c : /\ FiniteEpochs(c)' = FiniteEpochs(c) /\ FromSource(c)' = FromSource(c)
                   /\ Paced(c)' = Paced(c)
         /\ \A c \in Channels : epoch[c] \in Nat /\ epoch'[c] \in Nat /\ epoch'[c] >= epoch[c]
         /\ \A c \in Into(OpOf(x)) : FiniteEpochs(c) =>
              /\ c \in Channels /\ Finite(OpOf(x)) /\ (FromSource(c) \/ (c = LastOf(OpOf(x)) /\ Paced(c)))
              /\ \A d \in Into(OpOf(x)) : /\ d \in Channels /\ FiniteEpochs(d)
                                          /\ epoch[d] = epoch[c] /\ epoch'[d] = epoch'[c]
              /\ LastOf(OpOf(x)) \in Into(OpOf(x))
              /\ Len(topo.inbound[OpOf(x)]) \in Nat /\ Len(topo.inbound[OpOf(x)]) >= 1
<1>1. topo' = topo
  BY DEF StayStep
<1>2. \A c \in Channels : epoch[c] \in Nat /\ epoch'[c] \in Nat
  BY <1>1, SameGraph DEF IInv, ChannelInv
<1>3. \A c \in Channels : epoch'[c] >= epoch[c]
  BY <1>2 DEF StayStep, EpochStep
<1>4. \A c, d \in Channels : To(c) = To(d) /\ FiniteEpochs(c) => epoch'[c] = epoch'[d]
  BY <1>1, SameGraph DEF IInv, ChannelInv
<1>5. ASSUME NEW c \in Into(OpOf(x)), FiniteEpochs(c)
      PROVE  /\ c \in Channels /\ Finite(OpOf(x)) /\ (FromSource(c) \/ (c = LastOf(OpOf(x)) /\ Paced(c)))
             /\ \A d \in Into(OpOf(x)) : d \in Channels /\ FiniteEpochs(d) /\ epoch[d] = epoch[c] /\ epoch'[d] = epoch'[c]
             /\ LastOf(OpOf(x)) \in Into(OpOf(x))
             /\ Len(topo.inbound[OpOf(x)]) \in Nat /\ Len(topo.inbound[OpOf(x)]) >= 1
  <2>1. OpOf(x) \in Ops
    BY AboutPod
  <2>2. /\ c \in Channels /\ Finite(OpOf(x)) /\ (FromSource(c) \/ (c = LastOf(OpOf(x)) /\ Paced(c)))
        /\ \A d \in Into(OpOf(x)) : d \in Channels /\ FiniteEpochs(d) /\ epoch[d] = epoch[c]
        /\ LastOf(OpOf(x)) \in Into(OpOf(x))
        /\ Len(topo.inbound[OpOf(x)]) \in Nat /\ Len(topo.inbound[OpOf(x)]) >= 1
    BY <1>5, <2>1, InputsAre
  <2> QED BY <1>4, <1>5, <2>2 DEF Into
<1> QED BY <1>1, <1>2, <1>3, <1>5, SameGraph, SameFollow

LEMMA BusyStays ==
  ASSUME IInv, IInv', FollowFacts, StayStep, NEW x \in Pods, ReportsOf(x), HandOf(x), BusyOf(x), PassStays(x)
  PROVE  BusyOf(x)'
<1>1. Busy(x)' => Busy(x)
  BY DEF Busy, PassStays
<1>2. ASSUME Busy(x), NEW c \in Into(OpOf(x)), FiniteEpochs(c)
      PROVE  wepoch'[x] = epoch'[c] /\ (phase'[x] = "ending" => lastDone'[x] < wepoch'[x])
  <2>1. wepoch[x] = epoch[c] /\ (phase[x] = "ending" => lastDone[x] < wepoch[x])
    BY <1>2 DEF BusyOf
  <2>2. epoch'[c] = epoch[c]
    BY <1>2, MovedOnIdle DEF PassStays
  <2> QED BY <2>1, <2>2 DEF PassStays
<1> QED BY <1>1, <1>2, AboutInputs DEF BusyOf

LEMMA EndedStays ==
  ASSUME IInv, IInv', FollowFacts, StayStep, NEW x \in Pods, EndedOf(x),
         LastEnded(x)' <= LastEnded(x), LastEnded(x)' \in Int
  PROVE  EndedOf(x)'
<1>1. PassOf(x)
  BY AboutPod
<1> SUFFICES ASSUME NEW c \in Into(OpOf(x)), FiniteEpochs(c)
             PROVE  /\ LastEnded(x)' >= 0 /\ FromSource(c) => ExhaustedNext(c)
                    /\ LastEnded(x)' >= epoch'[c] /\ c = LastOf(OpOf(x)) => OverNext(c)
  BY AboutInputs, OverIsNext DEF EndedOf, ExhaustedNext, OverNext
<1>2. /\ LastEnded(x) >= 0 /\ FromSource(c) => Exhausted(c)
      /\ LastEnded(x) >= epoch[c] /\ c = LastOf(OpOf(x)) => Over(c)
  BY DEF EndedOf
<1>3. LastEnded(x) \in Int /\ LastEnded(x) <= epoch[c]
  BY <1>1, AboutInputs DEF PassOf, LastEnded
<1>4. c \in Channels /\ epoch[c] \in Nat /\ epoch'[c] \in Nat /\ epoch'[c] >= epoch[c]
  BY AboutInputs
<1>5. LastEnded(x)' >= 0 /\ FromSource(c) => ExhaustedNext(c)
  BY <1>2, <1>3, <1>4 DEF StayStep
<1>6. ASSUME LastEnded(x)' >= epoch'[c], c = LastOf(OpOf(x)) PROVE OverNext(c)
  <2>1. epoch'[c] = epoch[c] /\ LastEnded(x) >= epoch[c]
    BY <1>3, <1>4, <1>6
  <2>2. FromSource(c) \/ Paced(c)
    BY AboutInputs
  <2> QED BY <1>2, <1>4, <1>6, <2>1, <2>2 DEF StayStep
<1> QED BY <1>5, <1>6

LEMMA FoundStays ==
  ASSUME IInv, IInv', FollowFacts, StayStep, NEW x \in Pods, ReportsOf(x), FoundOf(x), PassStays(x)
  PROVE  FoundOf(x)'
<1> DEFINE o == OpOf(x)
<1>1. topo' = topo /\ AtEnd(x)' = AtEnd(x)
  BY AboutInputs DEF StayStep, AtEnd, PassStays
<1> SUFFICES ASSUME x \in allQuiet, phase[x] = "poll", Finite(o)
             PROVE  /\ \A i \in 1 .. at[x] - 1 : FromSource(topo.inbound[o][i]) => ExhaustedNext(topo.inbound[o][i])
                    /\ AtEnd(x) => \/ lastDone[x] >= wepoch[x]
                                   \/ wepoch[x] = epoch'[LastOf(o)] /\ OverNext(LastOf(o))
  <2>1. /\ Finite(o)' = Finite(o) /\ \A c : FromSource(c)' = FromSource(c)
        /\ LastOf(o)' = LastOf(o) /\ o' = o
    BY AboutInputs
  <2> HIDE DEF o
  <2> QED BY <1>1, <2>1, OverIsNext DEF FoundOf, PassStays, o, ExhaustedNext, OverNext
<1>2. PICK c0 \in Into(o) : FiniteEpochs(c0)
  BY DEF Finite
<1>3. /\ LastOf(o) \in Into(o) /\ LastOf(o) \in Channels /\ FiniteEpochs(LastOf(o))
      /\ FromSource(LastOf(o)) \/ Paced(LastOf(o))
      /\ Len(topo.inbound[o]) \in Nat /\ Len(topo.inbound[o]) >= 1
      /\ \A d \in Into(o) : d \in Channels /\ FiniteEpochs(d)
  BY <1>2, AboutInputs
<1>4. PassOf(x) /\ GraphFacts /\ o \in Ops
  BY AboutPod
<1>5. ASSUME NEW i \in 1 .. at[x] - 1, FromSource(topo.inbound[o][i]) PROVE ExhaustedNext(topo.inbound[o][i])
  <2>1. Exhausted(topo.inbound[o][i])
    BY <1>5 DEF FoundOf
  <2>2. i \in 1 .. Len(topo.inbound[o])
    BY <1>3, <1>4 DEF PassOf
  <2>3. topo.inbound[o][i] \in Into(o)
    BY <1>4, <2>2 DEF GraphFacts
  <2> QED BY <1>3, <1>5, <2>1, <2>3 DEF StayStep
<1>6. ASSUME AtEnd(x), ~(lastDone[x] >= wepoch[x]) PROVE wepoch[x] = epoch'[LastOf(o)] /\ OverNext(LastOf(o))
  <2>1. wepoch[x] = epoch[LastOf(o)] /\ Over(LastOf(o))
    BY <1>6 DEF FoundOf
  <2>2. ~Blank(x)
    BY <1>3, <1>6 DEF Blank, AtEnd
  <2>3. epoch'[LastOf(o)] = epoch[LastOf(o)]
    BY <1>3, <1>6, <2>1, <2>2, MovedOn DEF PassStays
  <2> QED BY <1>3, <2>1, <2>3 DEF StayStep
<1> QED BY <1>5, <1>6

\* The pods of an operation that is alone are one pod.
LEMMA OneElement ==
  ASSUME NEW S, IsFiniteSet(S), Cardinality(S) <= 1, NEW a \in S, NEW b \in S
  PROVE  a = b
<1> SUFFICES ASSUME a # b PROVE FALSE
  OBVIOUS
<1>1. IsFiniteSet({a}) /\ Cardinality({a}) = 1
  BY FS_Singleton
<1>2. b \notin {a}
  OBVIOUS
<1>3. Cardinality({a} \cup {b}) = Cardinality({a}) + 1
  BY <1>1, <1>2, FS_AddElement
<1>4. {a} \cup {b} \subseteq S
  OBVIOUS
<1>5. Cardinality({a} \cup {b}) <= Cardinality(S) /\ Cardinality(S) \in Nat
  BY <1>4, FS_Subset, FS_CardinalityType
<1> QED BY <1>1, <1>3, <1>5

\* The epoch of a pod that is alone is its own to report.
LEMMA AloneEpochs ==
  ASSUME IInv, FollowFacts, StayStep, NEW x \in Pods, Alone(OpOf(x)), ~ReportEpoch(x),
         NEW c \in Into(OpOf(x))
  PROVE  epoch'[c] = epoch[c]
<1> SUFFICES ASSUME epoch'[c] # epoch[c] PROVE FALSE
  OBVIOUS
<1>1. c \in Channels /\ To(c) = OpOf(x) /\ OpOf(x) \in Ops
  BY AboutPod DEF Into
<1>2. PICK z \in Pods : ReportedBy(z, c)
  BY <1>1 DEF StayStep, EpochStep
<1>3. x \in PodsOf(OpOf(x)) /\ z \in PodsOf(OpOf(x)) /\ z # x
  BY <1>1, <1>2 DEF ReportedBy, PodsOf
<1>4. IsFiniteSet(PodsOf(OpOf(x))) /\ Cardinality(PodsOf(OpOf(x))) <= 1
  BY <1>1 DEF FollowFacts, Alone
<1> QED BY <1>3, <1>4, OneElement

LEMMA AloneStays ==
  ASSUME IInv, IInv', FollowFacts, StayStep, NEW x \in Pods, AloneOf(x), PassStays(x)
  PROVE  AloneOf(x)'
<1>1. ~ReportEpoch(x)
  BY DEF PassStays, ReportEpoch, IInv, WorkerInv
<1> SUFFICES ASSUME Alone(OpOf(x)), NEW c \in Into(OpOf(x))
             PROVE  /\ lastDone'[x] < epoch'[c]
                    /\ \/ hand'[x] # {} \/ current'[x] # {} \/ phase'[x] \in {"ending", "draining"}
                       \/ x \in allQuiet' \cup allDrained' /\ at'[x] > 1
                       => wepoch'[x] = epoch'[c]
  BY AboutInputs DEF AloneOf
<1>2. epoch'[c] = epoch[c]
  BY <1>1, AloneEpochs
<1> QED BY <1>2 DEF AloneOf, PassStays

LEMMA PassKeeps ==
  ASSUME IInv, IInv', FollowFacts, StayStep, NEW x \in Pods, FollowOf(x), PassStays(x)
  PROVE  BusyOf(x)' /\ FoundOf(x)' /\ EndedOf(x)' /\ AloneOf(x)'
<1>1. LastEnded(x)' = LastEnded(x) /\ LastEnded(x) \in Int
  BY AboutPod DEF LastEnded, PassStays, PassOf
<1> QED BY <1>1, BusyStays, FoundStays, EndedStays, AloneStays DEF FollowOf

\* A pod whose process starts, or has not done anything since it was started.
LEMMA BlankKeeps ==
  ASSUME IInv, IInv', FollowFacts, StayStep, NEW x \in Pods, Blank(x)'
  PROVE  BusyOf(x)' /\ FoundOf(x)' /\ EndedOf(x)' /\ AloneOf(x)'
<1>1. hand'[x] = {} /\ current'[x] = {} /\ phase'[x] \in {"poll", "source"} /\ at'[x] = 1 /\ lastDone'[x] = -1
  BY DEF Blank, Start
<1>2. BusyOf(x)'
  BY <1>1 DEF BusyOf, Busy
<1>3. FoundOf(x)'
  <2>1. topo' = topo /\ OpOf(x)' = OpOf(x)
    BY AboutInputs DEF StayStep
  <2>2. Finite(OpOf(x))' => Len(topo.inbound[OpOf(x)]) \in Nat /\ Len(topo.inbound[OpOf(x)]) >= 1
    BY AboutInputs DEF Finite
  <2>3. Finite(OpOf(x))' => ~AtEnd(x)'
    BY <1>1, <2>1, <2>2 DEF AtEnd
  <2> QED BY <1>1, <2>3 DEF FoundOf
<1>4. EndedOf(x)'
  <2>1. LastEnded(x)' = -1
    BY <1>1 DEF LastEnded
  <2>2. \A c \in Into(OpOf(x)) : FiniteEpochs(c) => epoch'[c] \in Nat
    BY AboutInputs
  <2> QED BY <2>1, <2>2, AboutInputs DEF EndedOf
<1>5. AloneOf(x)'
  <2>1. Alone(OpOf(x)) => \A c \in Into(OpOf(x)) : epoch'[c] \in Nat
    BY AboutInputs DEF Into
  <2> QED BY <1>1, <2>1, AboutInputs DEF AloneOf
<1> QED BY <1>2, <1>3, <1>4, <1>5

-----------------------------------------------------------------------------
(* Reports and output.                                                     *)

\* What a callback emits at epoch e is of that epoch, or one on in a loop.
LEMMA EmitEpochs ==
  ASSUME IInv, NEW x \in Pods, NEW outbound, NEW e, Emit(x, outbound, e)
  PROVE  \A w \in out'[x] : EpochOf(w[2]) = EpochOn(w[1], e)
<1> DEFINE choices == {<<c, p>> : c \in {c \in outbound : Carries(c, e)}, p \in Partitions}
           emit(cp) == <<cp[1], NewSegment(x, cp[1], cp[2], EpochOn(cp[1], e))>>
<1>1. PICK ws \in Emitted(x, outbound, e) : out' = [out EXCEPT ![x] = ws]
  BY DEF Emit
<1>2. out'[x] = ws
  BY <1>1 DEF IInv, WorkerInv
<1>3. PICK S \in SUBSET choices : ws = {emit(cp) : cp \in S}
  BY DEF Emitted
<1>4. \A cp : emit(cp)[1] = cp[1] /\ emit(cp)[2][2] = EpochOn(cp[1], e)
  BY DEF NewSegment
<1> HIDE DEF choices, emit
<1> QED BY <1>2, <1>3, <1>4 DEF EpochOf

LEMMA ReportsNext ==
  ASSUME topo' = topo, NEW x,
         x \notin up' \/ session'[x] = "old" => Blank(x)',
         lastDone'[x] >= -1, phase'[x] = "ending" => at'[x] = 1,
         x \in up' /\ session'[x] = "current" /\ Into(OpOf(x)) # {} => epochDone'[x] <= lastDone'[x],
         \A w \in out'[x] : EpochOf(w[2]) = EpochOn(w[1], wepoch'[x])
  PROVE  ReportsOf(x)'
<1>1. Into(OpOf(x))' = Into(OpOf(x))
  BY SameGraph
<1>2. \A w \in out'[x] : EpochOf(w[2])' = EpochOn(w[1], wepoch[x])'
  BY DEF EpochOf, EpochOn, Feedback, Mode
<1> QED BY <1>1, <1>2 DEF ReportsOf

LEMMA ReportsKeeps ==
  ASSUME IInv, FollowInv, [Next]_vars, NEW x \in Pods PROVE ReportsOf(x)'
<1>1. topo' = topo
  BY TopoStays
<1>2. PassOf(x) /\ MemoryOf(x) /\ GraphFacts /\ OpOf(x) \in Ops
  BY AboutPod
<1>3. ReportsOf(x) /\ SourcePod(x)
  BY DEF FollowInv, FollowOf
<1>4. /\ at = [z \in Pods |-> at[z]] /\ phase = [z \in Pods |-> phase[z]]
      /\ wepoch = [z \in Pods |-> wepoch[z]] /\ lastDone = [z \in Pods |-> lastDone[z]]
      /\ hand = [z \in Pods |-> hand[z]] /\ current = [z \in Pods |-> current[z]] /\ out = [z \in Pods |-> out[z]]
      /\ session = [z \in Pods |-> session[z]] /\ epochDone = [z \in Pods |-> epochDone[z]]
  BY DEF IInv, WorkerInv, PodInv
<1>5. /\ lastDone[x] >= -1 /\ lastDone[x] \in Int /\ wepoch[x] \in Nat /\ epochDone[x] \in Int
      /\ lastDone[x] <= wepoch[x] /\ (phase[x] = "ending" => at[x] = 1)
      /\ session[x] \in {"none", "current", "old"} /\ at[x] \in Nat
  BY <1>2, <1>3 DEF PassOf, ReportsOf, IInv, PodInv
<1>6. ~Blank(x) => x \in up /\ session[x] # "old"
  BY <1>3 DEF ReportsOf
<1>7. \A w \in out[x] : EpochOf(w[2]) = EpochOn(w[1], wepoch[x])
  BY <1>3 DEF ReportsOf
<1>8. x \in up /\ session[x] = "current" /\ Into(OpOf(x)) # {} => epochDone[x] <= lastDone[x]
  BY <1>3 DEF ReportsOf
<1>9. x \notin Silent({x})
  BY SilentIn
<1>10. ASSUME Exit(x), UNCHANGED podVars PROVE ReportsOf(x)'
  <2>1. /\ x \notin up' /\ hand'[x] = {} /\ current'[x] = {} /\ out'[x] = {} /\ phase'[x] = Start(x)
        /\ at'[x] = 1 /\ lastDone'[x] = -1
    BY <1>4, <1>10 DEF Exit
  <2>2. Blank(x)'
    BY <1>1, <2>1, SameFollow DEF Blank
  <2>3. phase'[x] # "ending"
    BY <2>1 DEF Start
  <2> QED BY <1>1, <2>1, <2>2, <2>3, ReportsNext
<1>11. CASE Source(x)
  <2>1. /\ Active(x) /\ phase[x] = "source" /\ phase' = [phase EXCEPT ![x] = "draining"]
        /\ Emit(x, OutOf(OpOf(x)), 0)
        /\ UNCHANGED <<session, epochDone, up, wepoch, lastDone>>
    BY <1>11 DEF Source, podVars
  <2>2. Into(OpOf(x)) = {}
    BY <1>2, <2>1 DEF PassOf
  <2>3. wepoch[x] = 0
    BY <1>3, <2>2 DEF SourcePod
  <2>4. phase'[x] = "draining"
    BY <1>4, <2>1
  <2> QED BY <1>1, <1>5, <2>1, <2>2, <2>3, <2>4, EmitEpochs, ReportsNext DEF Active
<1>12. CASE Consume(x)
  <2>1. /\ Active(x) /\ phase[x] = "poll" /\ out[x] = {} /\ Expire(Silent({x}))
        /\ UNCHANGED <<up, phase, out, lastDone>>
    BY <1>12, ConsumeIs DEF Consume
  <2>2. session'[x] = session[x] /\ epochDone'[x] = epochDone[x]
    BY <1>9, <2>1 DEF Expire, Forgotten
  <2> QED BY <1>1, <1>5, <1>8, <2>1, <2>2, ReportsNext DEF Active
<1>13. CASE ConsumeFails(x)
  <2>1. /\ x \in up /\ ~Registered(x) /\ phase[x] = "poll" /\ out[x] = {}
        /\ UNCHANGED <<session, epochDone, up, phase, out, lastDone>>
    BY <1>13 DEF ConsumeFails, podVars, workVars
  <2> QED BY <1>1, <1>5, <2>1, ReportsNext DEF Registered
<1>14. CASE OnRecord(x)
  <2>1. PICK w \in hand[x] :
          LET e == IF FiniteEpochs(w[1]) THEN wepoch[x] ELSE EpochOf(w[2])
          IN  wepoch' = [wepoch EXCEPT ![x] = e] /\ Emit(x, OutOf(OpOf(x)), e)
    BY <1>14 DEF OnRecord
  <2>2. UNCHANGED <<session, epochDone, up, phase, at, lastDone>>
    BY <1>14 DEF OnRecord, podVars, passVars
  <2>3. Emit(x, OutOf(OpOf(x)), wepoch'[x])
    BY <1>4, <2>1
  <2>4. x \in up /\ session[x] # "old"
    BY <1>6, <2>1 DEF Blank
  <2> QED BY <1>1, <1>5, <1>8, <2>2, <2>3, <2>4, EmitEpochs, ReportsNext
<1>15. CASE Ack(x)
  <2>1. Active(x) /\ out[x] = {} /\ UNCHANGED <<session, epochDone, up, phase, at, out, lastDone>>
    BY <1>15 DEF Ack, podVars, passVars
  <2> QED BY <1>1, <1>5, <1>8, <2>1, ReportsNext DEF Active
<1>16. CASE EndPass(x)
  <2>1. /\ phase[x] = "poll" /\ AtEnd(x) /\ at' = [at EXCEPT ![x] = 1]
        /\ UNCHANGED <<session, epochDone, up, wepoch, lastDone>>
        /\ \E cs : Emit(x, cs, wepoch[x])
    BY <1>16 DEF EndPass, podVars
  <2>2. Len(topo.inbound[OpOf(x)]) >= 1 /\ Len(topo.inbound[OpOf(x)]) \in Nat
    BY <1>2, <2>1 DEF PassOf, GraphFacts
  <2>3. ~Blank(x)
    BY <2>1, <2>2 DEF AtEnd, Blank
  <2>4. at'[x] = 1
    BY <1>4, <2>1
  <2> QED BY <1>1, <1>5, <1>6, <1>8, <2>1, <2>3, <2>4, EmitEpochs, ReportsNext
<1>17. CASE ReportEpoch(x)
  <2>1. /\ Active(x) /\ out[x] = {} /\ phase' = [phase EXCEPT ![x] = "poll"]
        /\ session' = [y \in Pods |-> IF y \in Silent({x}) THEN "none" ELSE session[y]]
        /\ lastDone' = [lastDone EXCEPT ![x] = wepoch[x]] /\ UNCHANGED <<up, out, wepoch>>
    BY <1>17 DEF ReportEpoch, workVars
  <2>2. epochDone' = [Forgotten(Silent({x})) EXCEPT ![x] = IF wepoch[x] > @ THEN wepoch[x] ELSE @]
    BY <1>17 DEF ReportEpoch, RecordEpochDone
  <2>3. epochDone'[x] = IF wepoch[x] > epochDone[x] THEN wepoch[x] ELSE epochDone[x]
    BY <1>9, <2>2 DEF Forgotten
  <2>4. session'[x] = "current" /\ x \in up' /\ lastDone'[x] = wepoch[x] /\ phase'[x] = "poll"
    BY <1>4, <1>9, <2>1 DEF Active
  <2>5. Into(OpOf(x)) # {} => epochDone[x] <= wepoch[x]
    BY <1>5, <1>8, <2>1 DEF Active
  <2>6. Into(OpOf(x)) # {} => epochDone'[x] <= lastDone'[x]
    BY <1>5, <2>3, <2>4, <2>5
  <2>7. out'[x] = {}
    BY <2>1
  <2> QED BY <1>1, <1>5, <2>4, <2>6, <2>7, ReportsNext
<1>18. CASE GiveUp(x) \/ Refused(x) \/ Crash(x)
  BY <1>10, <1>18 DEF GiveUp, Refused, Crash
<1>19. CASE ReportDone(x)
  <2>1. /\ Active(x) /\ out[x] = {} /\ phase' = [phase EXCEPT ![x] = "idle"]
        /\ UNCHANGED <<session, up, out, lastDone>>
        /\ Into(OpOf(x)) # {} => epochDone' = epochDone
    BY <1>19 DEF ReportDone, workVars
  <2>2. phase'[x] = "idle"
    BY <1>4, <2>1
  <2> QED BY <1>1, <1>5, <1>8, <2>1, <2>2, ReportsNext DEF Active
<1>20. ASSUME NEW c \in Channels, Publish(x, c) PROVE ReportsOf(x)'
  <2>1. /\ Active(x) /\ out' = [out EXCEPT ![x] = {w \in @ : w[1] # c}]
        /\ UNCHANGED <<session, epochDone, up, phase, at, wepoch, lastDone>>
    BY <1>20 DEF Publish, podVars, passVars
  <2>2. out'[x] \subseteq out[x]
    BY <1>4, <2>1
  <2> QED BY <1>1, <1>5, <1>7, <1>8, <2>1, <2>2, ReportsNext DEF Active
<1>21. CASE Restart(x)
  <2>1. /\ x \notin up /\ session' = [session EXCEPT ![x] = IF @ = "current" THEN "old" ELSE @]
        /\ UNCHANGED <<epochDone, phase, at, hand, current, out, wepoch, lastDone>>
    BY <1>21 DEF Restart, passVars, workVars
  <2>2. Blank(x) /\ Start(x)' = Start(x)
    BY <1>1, <1>6, <2>1, SameFollow
  <2>3. Blank(x)'
    BY <2>1, <2>2 DEF Blank
  <2>4. session'[x] # "current" /\ out'[x] = {}
    BY <1>4, <1>5, <2>1, <2>2 DEF Blank
  <2> QED BY <1>1, <1>5, <2>1, <2>3, <2>4, ReportsNext
<1>22. CASE Register(x)
  <2>1. /\ x \in up
        /\ session' = [y \in Pods |-> IF y = x THEN "current" ELSE IF y \in Silent({x}) THEN "none" ELSE session[y]]
        /\ epochDone' = [Forgotten(Silent({x})) EXCEPT ![x] = IF session[x] = "current" THEN @ ELSE -1]
        /\ UNCHANGED <<up, phase, at, out, wepoch, lastDone>>
    BY <1>22 DEF Register, passVars, workVars
  <2>2. epochDone'[x] = IF session[x] = "current" THEN epochDone[x] ELSE -1
    BY <1>9, <2>1 DEF Forgotten
  <2>3. session'[x] = "current"
    BY <2>1
  <2>4. Into(OpOf(x)) # {} => epochDone'[x] <= lastDone'[x]
    BY <1>5, <1>8, <2>1, <2>2
  <2> QED BY <1>1, <1>5, <1>7, <2>1, <2>3, <2>4, ReportsNext
<1>23. CASE Rests(x) /\ SessionRests(x)
  <2>1. /\ at'[x] = at[x] /\ phase'[x] = phase[x] /\ wepoch'[x] = wepoch[x] /\ lastDone'[x] = lastDone[x]
        /\ hand'[x] = hand[x] /\ current'[x] = current[x] /\ out'[x] = out[x] /\ (x \in up' <=> x \in up)
    BY <1>23 DEF Rests
  <2>2. \/ session'[x] = session[x] /\ epochDone'[x] = epochDone[x]
        \/ session'[x] = "none"
    BY <1>23 DEF SessionRests
  <2>3. Blank(x) => Blank(x)'
    BY <1>1, <2>1, SameFollow DEF Blank
  <2> QED BY <1>1, <1>3, <1>5, <1>6, <1>7, <1>8, <2>1, <2>2, <2>3, ReportsNext
<1>24. CASE DropOutput(x)
  <2>1. /\ x \in up /\ phase[x] = "draining" /\ out' = [out EXCEPT ![x] = {}]
        /\ UNCHANGED <<session, epochDone, up, phase, at, wepoch, lastDone>>
    BY <1>24 DEF DropOutput, podVars, passVars
  <2>2. ~Blank(x)
    BY <2>1 DEF Blank, Start
  <2>3. out'[x] = {}
    BY <1>4, <2>1
  <2> QED BY <1>1, <1>5, <1>6, <1>8, <2>1, <2>2, <2>3, ReportsNext
<1> QED BY <1>24, <1>11, <1>12, <1>13, <1>14, <1>15, <1>16, <1>17, <1>18, <1>19, <1>20, <1>21, <1>22, <1>23, PodStep
        DEF WorkerStep

-----------------------------------------------------------------------------
(* What pods have in hand.                                                 *)

\* Segment s of channel c is under way to pod x.
UnderWay(x, c, s, pl) == s \in DOMAIN pl[c] /\ pl[c][s] = x

LEMMA SealCarries ==
  ASSUME IInv, NEW x \in Pods, NEW cs, NEW pl, SealAll(cs, pl),
         NEW c \in Channels, NEW s, UnderWay(x, c, s, pl)
  PROVE  UnderWay(x, c, s, place')
<1>1. x # "held"
  BY AboutPod DEF GraphFacts
<1> QED BY <1>1 DEF SealAll, UnderWay

LEMMA ReturnCarries ==
  ASSUME NEW x, NEW gone, x \notin gone, NEW c \in Channels, NEW s, UnderWay(x, c, s, place)
  PROVE  UnderWay(x, c, s, Returned(gone))
BY DEF Returned, UnderWay, Live

LEMMA RecordCarries ==
  ASSUME IInv, NEW x \in Pods, NEW z, NEW e, NEW pl, NEW doneAt, NEW live, RecordEpochDone(z, e, pl, doneAt, live),
         NEW c \in Channels, NEW s, UnderWay(x, c, s, pl)
  PROVE  UnderWay(x, c, s, place')
<1>1. x # "held"
  BY AboutPod DEF GraphFacts
<1>2. CASE place' = pl
  BY <1>2
<1>3. CASE PassBarrier(OpOf(z), e, pl)
  BY <1>1, <1>3 DEF PassBarrier, UnderWay
<1> QED BY <1>2, <1>3 DEF RecordEpochDone

LEMMA ConsumeCarries ==
  ASSUME IInv, NEW x \in Pods, NEW z \in Pods, Consume(z), x \notin Silent({z}),
         NEW c \in Channels, NEW s, UnderWay(x, c, s, place)
  PROVE  UnderWay(x, c, s, place')
<1> DEFINE b     == topo.inbound[OpOf(z)][at[z]]
           gone  == Silent({z})
           pl    == Returned(gone)
           work  == {t \in Live(b) : pl[b][t] = "queued" /\ Part(t) \in Assigned(OpOf(z), z, gone)}
           given == [pl EXCEPT ![b] = [t \in Live(b) |-> IF t \in work THEN z ELSE pl[b][t]]]
<1>1. SealAll(Settled(pl, sealed), given)
  BY ConsumeIs
<1>2. UnderWay(x, c, s, pl)
  BY ReturnCarries
<1>3. x # "queued"
  BY AboutPod DEF GraphFacts
<1>4. pl = [d \in Channels |-> pl[d]] /\ DOMAIN pl[c] = Live(c) /\ \A t \in work : pl[b][t] = "queued"
  BY DEF Returned
<1> HIDE DEF b, gone, pl, work
<1>5. UnderWay(x, c, s, given)
  BY <1>2, <1>3, <1>4 DEF UnderWay
<1> HIDE DEF given
<1> QED BY <1>1, <1>5, SealCarries

LEMMA AckCarries ==
  ASSUME IInv, NEW x \in Pods, NEW z \in Pods, Ack(z), NEW c \in Channels, NEW s, UnderWay(x, c, s, place),
         z = x => \A w \in current[x] : ~(w[1] = c /\ w[2] = s)
  PROVE  UnderWay(x, c, s, place')
<1>1. PICK w \in current[z] :
        LET d == w[1]
            owned == w[2] \in Live(d) /\ place[d][w[2]] = z
        IN  Settle(IF owned THEN [place EXCEPT ![d] = [t \in Live(d) \ {w[2]} |-> place[d][t]]] ELSE place)
  BY DEF Ack
<1>2. place = [d \in Channels |-> place[d]]
  BY DEF IInv, ChannelInv, PlacesOK
<1> DEFINE less == [place EXCEPT ![w[1]] = [t \in Live(w[1]) \ {w[2]} |-> place[w[1]][t]]]
<1>3. Settle(place) \/ (place[w[1]][w[2]] = z /\ Settle(less))
  BY <1>1
<1>4. place[w[1]][w[2]] = z => UnderWay(x, c, s, less)
  BY <1>2 DEF UnderWay, Live
<1> HIDE DEF less
<1> QED BY <1>3, <1>4, SealCarries DEF Settle

LEMMA PublishCarries ==
  ASSUME IInv, NEW x \in Pods, NEW z \in Pods, NEW d \in Channels, Publish(z, d),
         NEW c \in Channels, NEW s, UnderWay(x, c, s, place)
  PROVE  UnderWay(x, c, s, place')
<1> DEFINE pl == [place EXCEPT ![d] = Indexed(d, Outgoing(z, d))]
           kept == {t \in Outgoing(z, d) \ Live(d) : Feedback(d) => EpochOf(t) < topo.channels[d].max}
<1>1. SealAll(Settled(pl, sealed), pl)
  BY DEF Publish, Settle
<1>2. place = [b \in Channels |-> place[b]]
  BY DEF IInv, ChannelInv, PlacesOK
<1>3. /\ DOMAIN Indexed(d, Outgoing(z, d)) = kept \cup Live(d) /\ kept \cap Live(d) = {}
      /\ \A t \in Live(d) : t \notin kept => Indexed(d, Outgoing(z, d))[t] = place[d][t]
  BY DEF Indexed
<1> HIDE DEF kept
<1>4. UnderWay(x, c, s, pl)
  BY <1>2, <1>3 DEF UnderWay, Live
<1> HIDE DEF pl
<1> QED BY <1>1, <1>4, SealCarries

\* What is under way to a registered process stays so until that acknowledges it.
LEMMA UnderWayStays ==
  ASSUME IInv, [Next]_vars, NEW x \in Pods, session[x] = "current", session'[x] = "current",
         NEW c \in Channels, NEW s, UnderWay(x, c, s, place),
         Ack(x) => \A w \in current[x] : ~(w[1] = c /\ w[2] = s)
  PROVE  UnderWay(x, c, s, place')
<1>1. ASSUME UNCHANGED place PROVE UnderWay(x, c, s, place')
  BY <1>1
<1>2. ASSUME NEW z \in Pods, WorkerStep(z) PROVE UnderWay(x, c, s, place')
  <2>1. CASE Source(z) \/ ConsumeFails(z) \/ OnRecord(z) \/ EndPass(z) \/ GiveUp(z) \/ Refused(z) \/ DropOutput(z)
    BY <1>1, <2>1 DEF Source, ConsumeFails, OnRecord, EndPass, GiveUp, Refused, DropOutput, chanVars
  <2>2. CASE Consume(z)
    <3>1. Expire(Silent({z}))
      BY <2>2, ConsumeIs
    <3>2. x \notin Silent({z})
      BY <3>1 DEF Expire
    <3> QED BY <2>2, <3>2, ConsumeCarries
  <2>3. CASE Ack(z)
    BY <2>3, AckCarries
  <2>4. CASE ReportEpoch(z)
    <3>1. /\ session' = [y \in Pods |-> IF y \in Silent({z}) THEN "none" ELSE session[y]]
          /\ \E live : RecordEpochDone(z, wepoch[z], Returned(Silent({z})), Forgotten(Silent({z})), live)
      BY <2>4 DEF ReportEpoch
    <3>2. x \notin Silent({z})
      BY <3>1
    <3> QED BY <3>1, <3>2, ReturnCarries, RecordCarries
  <2>5. CASE ReportDone(z)
    <3>1. UNCHANGED place \/ \E live : RecordEpochDone(z, 0, place, epochDone, live)
      BY <2>5 DEF ReportDone, chanVars
    <3> QED BY <1>1, <3>1, RecordCarries
  <2> QED BY <1>2, <2>1, <2>2, <2>3, <2>4, <2>5, PublishCarries DEF WorkerStep
<1>3. ASSUME NEW z \in Pods, Register(z) PROVE UnderWay(x, c, s, place')
  <2> DEFINE gone == Silent({z}) \cup (IF session[z] = "old" THEN {z} ELSE {})
  <2>1. /\ session' = [y \in Pods |-> IF y = z THEN "current" ELSE IF y \in Silent({z}) THEN "none" ELSE session[y]]
        /\ place' = Returned(gone)
    BY <1>3 DEF Register
  <2>2. x \notin gone
    BY <2>1, SilentIn
  <2> HIDE DEF gone
  <2> QED BY <2>1, <2>2, ReturnCarries
<1>4. ASSUME NEW d \in Channels, Seal(d) PROVE UnderWay(x, c, s, place')
  <2>1. SealAll({d} \cup Settled(place, sealed \cup {d}), place)
    BY <1>4 DEF Seal
  <2> QED BY <2>1, SealCarries
<1>5. CASE Metrics
  <2>1. Expire(Silent({})) /\ Settle(Returned(Silent({})))
    BY <1>5 DEF Metrics
  <2>2. x \notin Silent({})
    BY <2>1 DEF Expire
  <2> QED BY <2>1, <2>2, ReturnCarries, SealCarries DEF Settle
<1>6. ASSUME NEW z \in Pods, Crash(z) \/ Restart(z) \/ Lapse(z) PROVE UnderWay(x, c, s, place')
  BY <1>1, <1>6 DEF Crash, Restart, Lapse, chanVars
<1>7. CASE UNCHANGED vars
  BY <1>1, <1>7 DEF vars, chanVars
<1> QED BY <1>2, <1>3, <1>4, <1>5, <1>6, <1>7 DEF Next

\* Pod x keeps what it has in hand, and its registration and report, or it has no report.
LEMMA HandStays ==
  ASSUME IInv, IInv', [Next]_vars, NEW x \in Pods, HandOf(x), hand'[x] = hand[x],
         current'[x] = current[x] \/ (Ack(x) /\ current'[x] = {}),
         wepoch'[x] = wepoch[x],
         \/ session'[x] = session[x] /\ epochDone'[x] = epochDone[x]
         \/ session'[x] # "current" \/ ~(epochDone'[x] >= wepoch[x])
  PROVE  HandOf(x)'
<1>1. topo' = topo /\ Finite(OpOf(x))' = Finite(OpOf(x))
  BY TopoStays, SameGraph
<1>2. hand'[x] \cap current'[x] = {} /\ \A w \in hand'[x] \cup current'[x] : w = <<w[1], w[2]>> /\ w \in hand[x] \cup current[x]
  BY DEF HandOf
<1>3. ASSUME Finite(OpOf(x)), session'[x] = "current", epochDone'[x] >= wepoch'[x], NEW w \in hand'[x] \cup current'[x]
      PROVE  w[2] \in DOMAIN place'[w[1]] /\ place'[w[1]][w[2]] = x
  <2>1. w[2] \in Live(w[1]) /\ place[w[1]][w[2]] = x /\ session[x] = "current"
    BY <1>2, <1>3 DEF HandOf
  <2>2. w[1] \in Channels
    BY <1>2, AboutPod DEF MemoryOf
  <2>3. ASSUME Ack(x), NEW v \in current[x] PROVE ~(v[1] = w[1] /\ v[2] = w[2])
    <3>1. current'[x] = {}
      BY <2>3 DEF Ack, IInv, WorkerInv
    <3>2. w \in hand[x] /\ v # w
      BY <1>3, <2>3, <3>1 DEF HandOf
    <3>3. w = <<w[1], w[2]>> /\ v = <<v[1], v[2]>>
      BY <2>3, <3>2 DEF HandOf
    <3> QED BY <3>2, <3>3
  <2>4. UnderWay(x, w[1], w[2], place)
    BY <2>1 DEF UnderWay, Live
  <2>5. UnderWay(x, w[1], w[2], place')
    BY <1>3, <2>1, <2>2, <2>3, <2>4, UnderWayStays
  <2> QED BY <2>5 DEF UnderWay
<1> QED BY <1>1, <1>2, <1>3 DEF HandOf, Live

\* What a poll hands over is under way to the pod.
LEMMA ConsumeHands ==
  ASSUME IInv, NEW x \in Pods, Consume(x)
  PROVE  /\ current'[x] = {}
         /\ \A w \in hand'[x] : /\ w = <<w[1], w[2]>>
                                /\ w[2] \in DOMAIN place'[w[1]] /\ place'[w[1]][w[2]] = x
<1> DEFINE c     == topo.inbound[OpOf(x)][at[x]]
           gone  == Silent({x})
           pl    == Returned(gone)
           work  == {s \in Live(c) : pl[c][s] = "queued" /\ Part(s) \in Assigned(OpOf(x), x, gone)}
           given == [pl EXCEPT ![c] = [s \in Live(c) |-> IF s \in work THEN x ELSE pl[c][s]]]
<1>1. /\ phase[x] = "poll" /\ ~AtEnd(x) /\ hand[x] = {} /\ current[x] = {} /\ out[x] = {}
      /\ Expire(gone) /\ SealAll(Settled(pl, sealed), given)
      /\ hand' = [hand EXCEPT ![x] = {<<c, s>> : s \in work}]
      /\ wepoch' = IF FiniteEpochs(c) THEN [wepoch EXCEPT ![x] = epoch[c]] ELSE wepoch
      /\ Noted(x, c \in sealed \cup Settled(pl, sealed) /\ Quiet(given, c),
               FiniteEpochs(c) /\ epoch[c] \in closed'[c] /\ Quiet(given, c))
      /\ fresh' = [fresh EXCEPT ![x] = TRUE]
      /\ UNCHANGED <<topo, epoch, emits, finished, up, phase, current, out, lastDone, faults>>
  BY ConsumeIs
<1>2. c \in Channels
  BY <1>1, NextPollIn DEF Into
<1>3. work \subseteq Live(c) /\ pl = [d \in Channels |-> pl[d]]
  BY DEF Returned
<1> HIDE DEF c, gone, pl, work
<1>4. hand'[x] = {<<c, s>> : s \in work} /\ current'[x] = {}
  BY <1>1 DEF IInv, WorkerInv
<1>5. ASSUME NEW s \in work PROVE UnderWay(x, c, s, place')
  <2>1. UnderWay(x, c, s, given)
    BY <1>2, <1>3, <1>5 DEF UnderWay
  <2> HIDE DEF given
  <2> QED BY <1>1, <1>2, <2>1, SealCarries
<1> QED BY <1>4, <1>5 DEF UnderWay

LEMMA HandKeeps ==
  ASSUME IInv, IInv', FollowInv, [Next]_vars, NEW x \in Pods PROVE HandOf(x)'
<1>1. HandOf(x) /\ ReportsOf(x) /\ PassOf(x) /\ MemoryOf(x) /\ GraphFacts
  BY AboutPod DEF FollowInv, FollowOf
<1>2. ASSUME hand'[x] = {}, current'[x] = {} PROVE HandOf(x)'
  BY <1>2 DEF HandOf
<1>3. CASE Source(x) \/ ConsumeFails(x) \/ EndPass(x) \/ ReportEpoch(x) \/ ReportDone(x) \/ DropOutput(x)
  <2>1. hand[x] = {} /\ current[x] = {}
    BY <1>1, <1>3 DEF Source, ConsumeFails, EndPass, ReportEpoch, ReportDone, DropOutput, MemoryOf
  <2>2. UNCHANGED <<hand, current>>
    BY <1>3 DEF Source, ConsumeFails, EndPass, ReportEpoch, ReportDone, DropOutput, workVars
  <2> QED BY <1>2, <2>1, <2>2
<1>4. CASE GiveUp(x) \/ Refused(x) \/ Crash(x)
  <2>1. hand'[x] = {} /\ current'[x] = {}
    BY <1>4 DEF GiveUp, Refused, Crash, Exit, IInv, WorkerInv
  <2> QED BY <1>2, <2>1
<1>5. CASE Restart(x)
  <2>1. Blank(x) /\ UNCHANGED <<hand, current>>
    BY <1>1, <1>5 DEF Restart, workVars, ReportsOf
  <2> QED BY <1>2, <2>1 DEF Blank
<1>6. CASE Consume(x)
  BY <1>6, ConsumeHands DEF HandOf, Live
<1>7. CASE OnRecord(x)
  <2>1. PICK w \in hand[x] :
          LET e == IF FiniteEpochs(w[1]) THEN wepoch[x] ELSE EpochOf(w[2])
          IN  /\ current' = [current EXCEPT ![x] = {w}]
              /\ hand' = [hand EXCEPT ![x] = @ \ {w}]
              /\ wepoch' = [wepoch EXCEPT ![x] = e]
    BY <1>7 DEF OnRecord
  <2>2. UNCHANGED <<topo, place, session, epochDone>>
    BY <1>7 DEF OnRecord, chanVars, podVars
  <2>3. Finite(OpOf(x)) => wepoch'[x] = wepoch[x]
    <3>1. w[1] \in Into(OpOf(x))
      BY <1>1 DEF MemoryOf
    <3>2. Finite(OpOf(x)) => FiniteEpochs(w[1])
      BY <1>1, <3>1 DEF Finite, Into, GraphFacts
    <3> QED BY <2>1, <3>2 DEF IInv, WorkerInv
  <2>4. hand'[x] = hand[x] \ {w} /\ current'[x] = {w}
    BY <2>1 DEF IInv, WorkerInv
  <2>5. Finite(OpOf(x))' = Finite(OpOf(x))
    BY <2>2, SameGraph
  <2> QED BY <1>1, <2>2, <2>3, <2>4, <2>5 DEF HandOf, Live
<1>8. CASE Ack(x)
  <2>1. current'[x] = {} /\ UNCHANGED <<hand, wepoch, session, epochDone>>
    BY <1>8 DEF Ack, podVars, IInv, WorkerInv
  <2> QED BY <1>1, <1>8, <2>1, HandStays
<1>9. ASSUME NEW c \in Channels, Publish(x, c) PROVE HandOf(x)'
  <2>1. UNCHANGED <<hand, current, wepoch, session, epochDone>>
    BY <1>9 DEF Publish, podVars
  <2> QED BY <1>1, <2>1, HandStays
<1>10. CASE Register(x)
  <2>1. /\ epochDone' = [Forgotten(Silent({x})) EXCEPT ![x] = IF session[x] = "current" THEN @ ELSE -1]
        /\ session' = [y \in Pods |-> IF y = x THEN "current" ELSE IF y \in Silent({x}) THEN "none" ELSE session[y]]
        /\ UNCHANGED <<hand, current, wepoch>>
    BY <1>10 DEF Register, workVars
  <2>2. epochDone'[x] = IF session[x] = "current" THEN epochDone[x] ELSE -1
    BY <2>1, SilentIn DEF Forgotten
  <2>3. session'[x] = "current"
    BY <2>1
  <2>4. session[x] # "current" => ~(epochDone'[x] >= wepoch[x])
    BY <1>1, <2>2 DEF PassOf
  <2>5. hand'[x] = hand[x] /\ current'[x] = current[x] /\ wepoch'[x] = wepoch[x]
    BY <2>1
  <2> QED BY <1>1, <2>2, <2>3, <2>4, <2>5, HandStays
<1>11. CASE Rests(x) /\ SessionRests(x)
  <2>1. /\ hand'[x] = hand[x] /\ current'[x] = current[x] /\ wepoch'[x] = wepoch[x]
        /\ \/ session'[x] = session[x] /\ epochDone'[x] = epochDone[x]
           \/ session'[x] = "none"
    BY <1>11 DEF Rests, SessionRests
  <2> QED BY <1>1, <2>1, HandStays
<1> QED BY <1>3, <1>4, <1>5, <1>6, <1>7, <1>8, <1>9, <1>10, <1>11, PodStep DEF WorkerStep

-----------------------------------------------------------------------------
(* Pods that act.                                                          *)

\* The rest of what the invariant says of pod x, after the step.
MovesOf(x) == BusyOf(x) /\ FoundOf(x) /\ EndedOf(x) /\ AloneOf(x)

LEMMA ConsumeMoves ==
  ASSUME IInv, IInv', FollowFacts, StayStep, NEW x \in Pods, FollowOf(x), Consume(x)
  PROVE  MovesOf(x)'
<1> DEFINE o    == OpOf(x)
           c    == topo.inbound[o][at[x]]
           gone == Silent({x})
           pl   == Returned(gone)
           work == {s \in Live(c) : pl[c][s] = "queued" /\ Part(s) \in Assigned(o, x, gone)}
           given == [pl EXCEPT ![c] = [s \in Live(c) |-> IF s \in work THEN x ELSE pl[c][s]]]
           quiet == FiniteEpochs(c) /\ epoch[c] \in closed'[c] /\ Quiet(given, c)
           drained == c \in sealed \cup Settled(pl, sealed) /\ Quiet(given, c)
<1>1. /\ phase[x] = "poll" /\ ~AtEnd(x) /\ current[x] = {}
      /\ SealAll(Settled(pl, sealed), given)
      /\ wepoch' = IF FiniteEpochs(c) THEN [wepoch EXCEPT ![x] = epoch[c]] ELSE wepoch
      /\ Noted(x, drained, quiet)
      /\ UNCHANGED <<epoch, phase, current, lastDone>>
  BY ConsumeIs
<1>2. quiet \in BOOLEAN /\ drained \in BOOLEAN
  BY DEF Quiet
<1>3. at[x] \in 1 .. Len(topo.inbound[o]) /\ c \in Into(o) /\ c \in Channels
  BY <1>1, NextPollIn DEF Into
<1>4. topo' = topo /\ Len(topo.inbound[o]) \in Nat /\ GraphFacts
  BY AboutPod DEF StayStep
<1>5. Quiet(given, c) => QuietBut(place', c)
  <2>1. /\ DOMAIN place'[c] \subseteq DOMAIN given[c]
        /\ \A s \in DOMAIN place'[c] : place'[c][s] = given[c][s]
    BY <1>1, <1>3 DEF SealAll
  <2> QED BY <2>1 DEF Quiet, QuietBut
<1>6. FiniteEpochs(c) => wepoch'[x] = epoch[c]
  BY <1>1 DEF IInv, WorkerInv
<1>7. PassOf(x) /\ FoundOf(x) /\ EndedOf(x) /\ AloneOf(x) /\ epoch[c] \in Nat /\ o \in Ops
  BY <1>3, AboutPod DEF FollowOf
<1> HIDE DEF given, work, pl, gone, drained
<1>8. quiet => FiniteEpochs(c) /\ epoch[c] \in closed'[c] /\ QuietBut(place', c)
  BY <1>5
<1> HIDE DEF quiet
<1>9. \/ at'[x] = 1
      \/ at'[x] = at[x] + 1 /\ (x \in allQuiet' => x \in allQuiet /\ quiet)
  BY <1>1, <1>2, NotedIs
<1> HIDE DEF c, o
<1>13. BusyOf(x)'
  <2>1. ASSUME NEW d \in Into(o), FiniteEpochs(d) PROVE wepoch'[x] = epoch'[d]
    <3>1. FiniteEpochs(c) /\ epoch[d] = epoch[c]
      BY <1>3, <2>1, AboutInputs DEF o
    <3> QED BY <1>1, <1>6, <3>1
  <2> QED BY <1>1, <2>1, AboutInputs DEF BusyOf, o
<1>14. FoundOf(x)'
  <2>1. AtEnd(x)' <=> at'[x] > Len(topo.inbound[o])
    BY <1>4 DEF AtEnd, OpOf, o
  <2>2. /\ Finite(o)' = Finite(o) /\ \A d : FromSource(d)' = FromSource(d)
        /\ LastOf(o)' = LastOf(o) /\ o' = o
    BY AboutInputs DEF o
  <2>3. CASE at'[x] = 1
    <3>1. ~AtEnd(x)'
      BY <1>3, <1>4, <2>1, <2>3
    <3>2. 1 .. at'[x] - 1 = {}
      BY <2>3
    <3> QED BY <3>1, <3>2 DEF FoundOf
  <2>4. CASE at'[x] = at[x] + 1 /\ (x \in allQuiet' => x \in allQuiet /\ quiet)
    <3> SUFFICES ASSUME x \in allQuiet', Finite(o)
                 PROVE  /\ \A i \in 1 .. at[x] : FromSource(topo.inbound[o][i]) => ExhaustedNext(topo.inbound[o][i])
                        /\ at[x] + 1 > Len(topo.inbound[o]) =>
                             wepoch'[x] = epoch'[LastOf(o)] /\ OverNext(LastOf(o))
      <4>1. at'[x] - 1 = at[x]
        BY <1>3, <1>4, <2>4
      <4> QED BY <1>4, <2>1, <2>2, <2>4, <4>1, OverIsNext DEF FoundOf, o, ExhaustedNext, OverNext
    <3>1. FiniteEpochs(c) /\ epoch[c] \in closed'[c] /\ QuietBut(place', c) /\ x \in allQuiet
      BY <1>8, <2>4
    <3>2. ASSUME NEW i \in 1 .. at[x], FromSource(topo.inbound[o][i]) PROVE ExhaustedNext(topo.inbound[o][i])
      <4>1. CASE i = at[x]
        BY <3>1, <4>1 DEF ExhaustedNext, c
      <4>2. CASE i # at[x]
        <5>1. i \in 1 .. at[x] - 1 /\ i \in 1 .. Len(topo.inbound[o])
          BY <1>3, <1>4, <4>2
        <5>2. Exhausted(topo.inbound[o][i])
          BY <1>1, <1>7, <3>1, <3>2, <5>1 DEF FoundOf, o
        <5>3. topo.inbound[o][i] \in Into(o)
          BY <1>4, <1>7, <5>1 DEF GraphFacts
        <5>4. FiniteEpochs(topo.inbound[o][i]) /\ topo.inbound[o][i] \in Channels
          BY <1>3, <3>1, <5>3, AboutInputs DEF o
        <5> QED BY <3>2, <5>2, <5>4 DEF StayStep
      <4> QED BY <4>1, <4>2
    <3>3. ASSUME at[x] + 1 > Len(topo.inbound[o]) PROVE wepoch'[x] = epoch'[LastOf(o)] /\ OverNext(LastOf(o))
      <4>1. c = LastOf(o)
        BY <1>3, <1>4, <3>3 DEF LastOf, c
      <4> QED BY <1>1, <1>6, <3>1, <4>1 DEF OverNext
    <3> QED BY <3>2, <3>3
  <2> QED BY <1>9, <2>3, <2>4
<1>15. EndedOf(x)'
  <2>1. LastEnded(x)' = LastEnded(x) /\ LastEnded(x) \in Int
    BY <1>1, <1>7 DEF LastEnded, PassOf
  <2> QED BY <1>7, <2>1, EndedStays
<1>16. AloneOf(x)'
  <2>1. ASSUME Alone(o), NEW d \in Into(o) PROVE lastDone'[x] < epoch'[d] /\ wepoch'[x] = epoch'[d]
    <3>1. lastDone[x] < epoch[d]
      BY <1>7, <2>1 DEF AloneOf, o
    <3>2. FiniteEpochs(c) /\ epoch[d] = epoch[c]
      BY <1>3, <2>1, AboutInputs DEF o, Alone, Finite
    <3> QED BY <1>1, <1>6, <3>1, <3>2
  <2> QED BY <2>1, AboutInputs DEF AloneOf, o
<1> QED BY <1>13, <1>14, <1>15, <1>16 DEF MovesOf

LEMMA ConsumeFailsMoves ==
  ASSUME IInv, IInv', FollowFacts, StayStep, NEW x \in Pods, FollowOf(x), ConsumeFails(x)
  PROVE  MovesOf(x)'
<1>1. /\ phase[x] = "poll" /\ hand[x] = {} /\ current[x] = {} /\ ~AtEnd(x) /\ Noted(x, FALSE, FALSE)
      /\ UNCHANGED <<epoch, phase, hand, current, lastDone>>
  BY DEF ConsumeFails, chanVars, workVars
<1>5. at'[x] = 1 \/ (x \notin allQuiet' /\ x \notin allDrained')
  BY <1>1, NotedIs
<1>2. BusyOf(x)' /\ FoundOf(x)'
  <2>1. topo' = topo /\ OpOf(x)' = OpOf(x)
    BY AboutInputs DEF StayStep
  <2>2. Finite(OpOf(x))' => Len(topo.inbound[OpOf(x)]) \in Nat /\ Len(topo.inbound[OpOf(x)]) >= 1
    BY AboutInputs DEF Finite
  <2>3. at'[x] = 1 /\ Finite(OpOf(x))' => ~AtEnd(x)' /\ 1 .. at'[x] - 1 = {}
    BY <2>1, <2>2 DEF AtEnd
  <2> QED BY <1>1, <1>5, <2>3 DEF BusyOf, Busy, FoundOf
<1>3. EndedOf(x)'
  <2>1. LastEnded(x)' = LastEnded(x) /\ LastEnded(x) \in Int
    BY <1>1, AboutPod DEF LastEnded, PassOf
  <2> QED BY <2>1, EndedStays DEF FollowOf
<1>4. AloneOf(x)'
  <2>1. AloneOf(x)
    BY DEF FollowOf
  <2>2. Alone(OpOf(x)) => \A c \in Into(OpOf(x)) : lastDone'[x] < epoch'[c]
    BY <1>1, <2>1 DEF AloneOf
  <2> QED BY <1>1, <1>5, <2>2, AboutInputs DEF AloneOf
<1> QED BY <1>2, <1>3, <1>4 DEF MovesOf

LEMMA OnRecordMoves ==
  ASSUME IInv, IInv', FollowFacts, StayStep, NEW x \in Pods, FollowOf(x), OnRecord(x)
  PROVE  MovesOf(x)'
<1>1. PICK w \in hand[x] :
        LET e == IF FiniteEpochs(w[1]) THEN wepoch[x] ELSE EpochOf(w[2])
        IN  wepoch' = [wepoch EXCEPT ![x] = e]
  BY DEF OnRecord
<1>2. /\ UNCHANGED <<chanVars, phase, at, allQuiet, allDrained, lastDone>>
  BY DEF OnRecord, passVars
<1>3. /\ ReportsOf(x) /\ BusyOf(x) /\ FoundOf(x) /\ EndedOf(x) /\ AloneOf(x)
      /\ PassOf(x) /\ MemoryOf(x) /\ GraphFacts
  BY AboutPod DEF FollowOf
<1>4. phase[x] = "poll" /\ w[1] \in Into(OpOf(x))
  BY <1>3 DEF MemoryOf
<1>5. Finite(OpOf(x)) => wepoch'[x] = wepoch[x]
  <2>1. Finite(OpOf(x)) => FiniteEpochs(w[1])
    BY <1>3, <1>4 DEF Finite, Into, GraphFacts
  <2> QED BY <1>1, <2>1 DEF IInv, WorkerInv
<1>6. BusyOf(x)'
  <2>1. ASSUME NEW c \in Into(OpOf(x)), FiniteEpochs(c)
        PROVE  wepoch'[x] = epoch'[c]
    <3>1. wepoch[x] = epoch[c]
      BY <1>3, <2>1 DEF BusyOf, Busy
    <3> QED BY <1>2, <1>5, <2>1, <3>1 DEF Finite, chanVars
  <2> QED BY <1>2, <1>4, <2>1, AboutInputs DEF BusyOf
<1>7. EndedOf(x)'
  <2>1. LastEnded(x)' = LastEnded(x) /\ LastEnded(x) \in Int
    BY <1>2, <1>3, <1>4 DEF LastEnded, PassOf
  <2> QED BY <1>3, <2>1, EndedStays
<1>8. FoundOf(x)'
  <2>1. topo' = topo /\ AtEnd(x)' = AtEnd(x)
    BY <1>2 DEF StayStep, AtEnd, OpOf
  <2>2. /\ Finite(OpOf(x))' = Finite(OpOf(x)) /\ \A d : FromSource(d)' = FromSource(d)
        /\ LastOf(OpOf(x))' = LastOf(OpOf(x)) /\ OpOf(x)' = OpOf(x)
    BY AboutInputs
  <2> QED BY <1>2, <1>3, <1>5, <2>1, <2>2, OverIsNext DEF FoundOf, Exhausted, Over, QuietBut, chanVars
<1>9. AloneOf(x)'
  <2>1. ASSUME Alone(OpOf(x)), NEW c \in Into(OpOf(x)) PROVE lastDone'[x] < epoch'[c] /\ wepoch'[x] = epoch'[c]
    <3>1. lastDone[x] < epoch[c] /\ wepoch[x] = epoch[c]
      BY <1>3, <2>1 DEF AloneOf
    <3> QED BY <1>2, <1>5, <2>1, <3>1 DEF Alone, chanVars
  <2> QED BY <2>1, AboutInputs DEF AloneOf
<1> QED BY <1>6, <1>7, <1>8, <1>9 DEF MovesOf

LEMMA EndPassMoves ==
  ASSUME IInv, IInv', FollowFacts, StayStep, NEW x \in Pods, FollowOf(x), EndPass(x)
  PROVE  MovesOf(x)'
<1> DEFINE o == OpOf(x)
<1>1. /\ phase[x] = "poll" /\ hand[x] = {} /\ current[x] = {} /\ AtEnd(x)
      /\ Concludes(o, x \in allDrained, x \in allQuiet, lastDone[x] < wepoch[x])
      /\ UNCHANGED <<chanVars, hand, current, wepoch, lastDone>>
  BY DEF EndPass
<1>2. /\ ReportsOf(x) /\ BusyOf(x) /\ FoundOf(x) /\ EndedOf(x) /\ AloneOf(x)
      /\ PassOf(x) /\ MemoryOf(x) /\ GraphFacts /\ o \in Ops
  BY AboutPod DEF FollowOf
<1>3. \/ phase'[x] = "draining"
      \/ phase'[x] = "ending" /\ x \notin allDrained
  BY DEF EndPass, IInv, WorkerInv
<1>4. ASSUME phase'[x] = "ending"
      PROVE  /\ Finite(o) /\ x \in allQuiet /\ lastDone[x] < wepoch[x]
             /\ wepoch[x] = epoch[LastOf(o)] /\ Over(LastOf(o))
             /\ \A i \in 1 .. at[x] - 1 : FromSource(topo.inbound[o][i]) => Exhausted(topo.inbound[o][i])
  <2>1. Finite(o) /\ x \in allQuiet /\ lastDone[x] < wepoch[x]
    BY <1>1, <1>3, <1>4 DEF Concludes
  <2>2. ~(lastDone[x] >= wepoch[x])
    BY <1>2, <2>1 DEF PassOf
  <2> QED BY <1>1, <1>2, <2>1, <2>2 DEF FoundOf
<1>5. BusyOf(x)'
  <2>1. ASSUME phase'[x] = "ending", NEW c \in Into(o), FiniteEpochs(c)
        PROVE  wepoch'[x] = epoch'[c] /\ lastDone'[x] < wepoch'[x]
    <3>1. epoch[LastOf(o)] = epoch[c]
      BY <2>1, AboutInputs
    <3> QED BY <1>1, <1>4, <2>1, <3>1 DEF chanVars
  <2>2. Busy(x)' => phase'[x] = "ending"
    BY <1>1 DEF Busy
  <2> QED BY <2>1, <2>2, AboutInputs DEF BusyOf
<1>6. FoundOf(x)'
  BY <1>3 DEF FoundOf
<1>7. EndedOf(x)'
  <2>1. CASE phase'[x] = "draining"
    <3>1. LastEnded(x)' = LastEnded(x) /\ LastEnded(x) \in Int
      BY <1>1, <1>2, <2>1 DEF LastEnded, PassOf
    <3> QED BY <1>2, <3>1, EndedStays
  <2>2. CASE phase'[x] = "ending"
    <3>1. ASSUME NEW c \in Into(o), FiniteEpochs(c), FromSource(c) PROVE Exhausted(c)
      <4>1. PICK i \in 1 .. Len(topo.inbound[o]) : topo.inbound[o][i] = c
        BY <1>2, <1>4, <2>2 DEF FollowFacts
      <4>2. i \in 1 .. at[x] - 1
        BY <1>1, <1>2, <4>1 DEF AtEnd, PassOf, GraphFacts
      <4> QED BY <1>4, <2>2, <3>1, <4>1, <4>2
    <3>2. ASSUME NEW c \in Into(o), FiniteEpochs(c)
          PROVE  /\ LastEnded(x)' >= 0 /\ FromSource(c) => closed'[c] # {} /\ QuietBut(place', c)
                 /\ LastEnded(x)' >= epoch'[c] /\ c = LastOf(o) => epoch'[c] \in closed'[c] /\ QuietBut(place', c)
      BY <1>1, <1>4, <2>2, <3>1, <3>2 DEF chanVars, Exhausted, Over
    <3> QED BY <3>2, AboutInputs, OverIsNext DEF EndedOf
  <2> QED BY <1>3, <2>1, <2>2
<1>8. AloneOf(x)'
  <2>1. ASSUME Alone(o), NEW c \in Into(o) PROVE lastDone'[x] < epoch'[c] /\ wepoch'[x] = epoch'[c]
    <3>1. Len(topo.inbound[o]) \in Nat /\ Len(topo.inbound[o]) >= 1 /\ at[x] \in Nat
      BY <1>2, <2>1 DEF GraphFacts, PassOf
    <3>2. at[x] > 1 /\ x \in allQuiet \cup allDrained
      BY <1>1, <3>1 DEF AtEnd, Concludes
    <3>3. lastDone[x] < epoch[c] /\ wepoch[x] = epoch[c]
      BY <1>2, <2>1, <3>2 DEF AloneOf
    <3> QED BY <1>1, <3>3 DEF chanVars
  <2> QED BY <2>1, AboutInputs DEF AloneOf
<1> QED BY <1>5, <1>6, <1>7, <1>8 DEF MovesOf

\* The report of a pod that is alone moves its operation on.
LEMMA AloneReports ==
  ASSUME IInv, FollowFacts, NEW x \in Pods, FollowOf(x), ReportEpoch(x), Alone(OpOf(x)),
         NEW c \in Into(OpOf(x)), FiniteEpochs(c)
  PROVE  epoch'[c] = wepoch[x] + 1
<1> DEFINE o    == OpOf(x)
           gone == Silent({x})
           e    == wepoch[x]
           live == {y \in PodsOf(o) : Registered(y)} \ gone
           now  == [Forgotten(gone) EXCEPT ![x] = IF e > @ THEN e ELSE @]
           reported == {y \in live : fresh'[y] /\ now[y] >= e}
<1>1. /\ Active(x) /\ phase[x] = "ending" /\ fresh'[x]
      /\ e <= epochDone[x] \/ InputEnded(o, e, Returned(gone))
      /\ RecordEpochDone(x, e, Returned(gone), Forgotten(gone), live)
  BY DEF ReportEpoch, IInv, PodInv
<1>2. /\ ReportsOf(x) /\ BusyOf(x) /\ PassOf(x) /\ c \in Channels
      /\ epochDone \in [Pods -> Int] /\ o \in Ops /\ \A d \in Channels : epoch[d] \in Nat
  BY AboutPod DEF FollowOf, Into, IInv, PodInv
<1>3. e = epoch[c] /\ lastDone[x] < e
  BY <1>1, <1>2 DEF BusyOf, Busy
<1>4. epochDone[x] < e /\ e \in Nat
  BY <1>1, <1>2, <1>3 DEF ReportsOf, Active, PassOf
<1>5. x \notin gone
  BY SilentIn
<1>6. Forgotten(gone)[x] = epochDone[x] /\ now[x] = e
  <2>1. Forgotten(gone)[x] = epochDone[x] /\ Forgotten(gone) = [y \in Pods |-> Forgotten(gone)[y]]
    BY <1>5 DEF Forgotten
  <2> HIDE DEF gone
  <2> QED BY <1>4, <2>1
<1>7. reported = {x} /\ live = {x}
  <2>1. x \in live
    BY <1>1, <1>5 DEF Active, Registered, PodsOf
  <2>2. \A y \in PodsOf(o) : y = x
    <3>1. IsFiniteSet(PodsOf(o)) /\ Cardinality(PodsOf(o)) <= 1
      BY <1>2 DEF FollowFacts, Alone
    <3>2. x \in PodsOf(o)
      BY DEF PodsOf
    <3> QED BY <3>1, <3>2, OneElement
  <2>3. \A y \in live : y = x
    BY <2>2
  <2> HIDE DEF live, now
  <2> QED BY <1>1, <1>4, <1>6, <2>1, <2>3
<1>8. BarrierMet(o, e, now, live)
  <2>1. Cardinality(reported) = 1 /\ Cardinality(live) = 1 /\ Len(topo.pods[o]) = 1
    BY <1>7, FS_Singleton DEF Alone
  <2> HIDE DEF live, now
  <2> QED BY <2>1 DEF BarrierMet
<1>9. e > Forgotten(gone)[x] /\ InputEnded(o, e, Returned(gone))
  BY <1>1, <1>2, <1>4, <1>6
<1>10. PassBarrier(o, e, Returned(gone))
  BY <1>1, <1>8, <1>9 DEF RecordEpochDone
<1> QED BY <1>2, <1>3, <1>10 DEF PassBarrier, Into

LEMMA ReportEpochMoves ==
  ASSUME IInv, IInv', FollowFacts, StayStep, NEW x \in Pods, FollowOf(x), ReportEpoch(x)
  PROVE  MovesOf(x)'
<1>1. /\ phase[x] = "ending" /\ lastDone' = [lastDone EXCEPT ![x] = wepoch[x]]
      /\ phase' = [phase EXCEPT ![x] = "poll"] /\ UNCHANGED <<at, hand, current, wepoch>>
  BY DEF ReportEpoch, passVars, workVars
<1>2. ReportsOf(x) /\ EndedOf(x) /\ PassOf(x) /\ MemoryOf(x)
  BY AboutPod DEF FollowOf
<1>3. /\ hand'[x] = {} /\ current'[x] = {} /\ at'[x] = 1 /\ phase'[x] = "poll" /\ lastDone'[x] = wepoch[x]
  BY <1>1, <1>2 DEF MemoryOf, ReportsOf, IInv, WorkerInv
<1>4. BusyOf(x)'
  BY <1>3 DEF BusyOf, Busy
<1>5. FoundOf(x)'
  <2>1. topo' = topo /\ OpOf(x)' = OpOf(x)
    BY AboutInputs DEF StayStep
  <2>2. Finite(OpOf(x))' => Len(topo.inbound[OpOf(x)]) \in Nat /\ Len(topo.inbound[OpOf(x)]) >= 1
    BY AboutInputs DEF Finite
  <2>3. Finite(OpOf(x))' => ~AtEnd(x)'
    BY <1>3, <2>1, <2>2 DEF AtEnd
  <2> QED BY <1>3, <2>3 DEF FoundOf
<1>6. EndedOf(x)'
  <2>1. LastEnded(x)' = LastEnded(x) /\ LastEnded(x) \in Int
    BY <1>1, <1>2, <1>3 DEF LastEnded, PassOf
  <2> QED BY <1>2, <2>1, EndedStays
<1>7. AloneOf(x)'
  <2>1. ASSUME Alone(OpOf(x)), NEW c \in Into(OpOf(x)) PROVE lastDone'[x] < epoch'[c]
    <3>1. FiniteEpochs(c)
      BY <2>1, AboutInputs DEF Alone, Finite
    <3>2. epoch'[c] = wepoch[x] + 1
      BY <2>1, <3>1, AloneReports
    <3> QED BY <1>2, <1>3, <3>2 DEF PassOf
  <2> QED BY <1>3, <2>1, AboutInputs DEF AloneOf
<1> QED BY <1>4, <1>5, <1>6, <1>7 DEF MovesOf

LEMMA ReportDoneMoves ==
  ASSUME IInv, IInv', FollowFacts, StayStep, NEW x \in Pods, FollowOf(x), ReportDone(x)
  PROVE  MovesOf(x)'
<1>1. /\ phase[x] = "draining" /\ phase' = [phase EXCEPT ![x] = "idle"]
      /\ UNCHANGED <<passVars, hand, current, wepoch, lastDone>>
  BY DEF ReportDone, workVars
<1>2. EndedOf(x) /\ AloneOf(x) /\ PassOf(x) /\ MemoryOf(x)
  BY AboutPod DEF FollowOf
<1>3. phase'[x] = "idle" /\ hand'[x] = {} /\ current'[x] = {}
  BY <1>1, <1>2 DEF MemoryOf, IInv, WorkerInv
<1>4. BusyOf(x)' /\ FoundOf(x)'
  BY <1>3 DEF BusyOf, Busy, FoundOf
<1>5. EndedOf(x)'
  <2>1. LastEnded(x)' = LastEnded(x) /\ LastEnded(x) \in Int
    BY <1>1, <1>2, <1>3 DEF LastEnded, PassOf
  <2> QED BY <1>2, <2>1, EndedStays
<1>6. AloneOf(x)'
  <2>1. ~ReportEpoch(x)
    BY <1>1 DEF ReportEpoch
  <2>2. ASSUME Alone(OpOf(x)), NEW c \in Into(OpOf(x)) PROVE lastDone'[x] < epoch'[c] /\ wepoch'[x] = epoch'[c]
    <3>1. epoch'[c] = epoch[c]
      BY <2>1, <2>2, AloneEpochs
    <3> QED BY <1>1, <1>2, <2>2, <3>1 DEF AloneOf
  <2> QED BY <2>2, AboutInputs DEF AloneOf
<1> QED BY <1>4, <1>5, <1>6 DEF MovesOf

LEMMA SourceMoves ==
  ASSUME IInv, IInv', FollowFacts, StayStep, NEW x \in Pods, Source(x) PROVE MovesOf(x)'
<1>1. Into(OpOf(x))' = {}
  BY AboutPod, AboutInputs DEF PassOf, Source
<1>2. phase'[x] = "draining"
  BY DEF Source, IInv, WorkerInv
<1> QED BY <1>1, <1>2 DEF MovesOf, BusyOf, FoundOf, EndedOf, AloneOf

LEMMA MovesKeep ==
  ASSUME IInv, IInv', FollowFacts, FollowInv, [Next]_vars, NEW x \in Pods PROVE MovesOf(x)'
<1>1. StayStep /\ FollowOf(x)
  BY StaySteps DEF FollowInv
<1>2. ReportsOf(x) /\ ReportsOf(x)'
  BY <1>1, ReportsKeeps DEF FollowOf
<1>3. ASSUME PassStays(x) PROVE MovesOf(x)'
  BY <1>1, <1>3, PassKeeps DEF MovesOf
<1>4. CASE GiveUp(x) \/ Refused(x) \/ Crash(x)
  <2>1. x \notin up'
    BY <1>4 DEF GiveUp, Refused, Crash, Exit
  <2> QED BY <1>1, <1>2, <2>1, BlankKeeps DEF ReportsOf, MovesOf
<1>5. CASE Rests(x)
  BY <1>3, <1>5 DEF Rests, PassStays
<1>6. CASE Restart(x) \/ Register(x)
  BY <1>3, <1>6 DEF Restart, Register, passVars, workVars, PassStays
<1>7. CASE Ack(x)
  <2>1. current'[x] = {} /\ UNCHANGED <<at, phase, wepoch, lastDone, hand, allQuiet, allDrained>>
    BY <1>7 DEF Ack, passVars, IInv, WorkerInv
  <2> QED BY <1>3, <2>1 DEF PassStays
<1>8. ASSUME NEW c \in Channels, Publish(x, c) PROVE MovesOf(x)'
  BY <1>3, <1>8 DEF Publish, passVars, PassStays
<1>9. CASE DropOutput(x)
  BY <1>3, <1>9 DEF DropOutput, passVars, PassStays
<1> QED BY <1>1, <1>4, <1>5, <1>6, <1>7, <1>8, <1>9, PodStep, SourceMoves, ConsumeMoves, ConsumeFailsMoves, OnRecordMoves,
           EndPassMoves, ReportEpochMoves, ReportDoneMoves DEF WorkerStep

\* Epochs of the output of a single replica are closed as it moves on.
LEMMA ClosedKeeps ==
  ASSUME IInv, IInv', FollowFacts, FollowInv, [Next]_vars, NEW c \in Channels PROVE ClosedOf(c)'
<1>1. ChannelStep /\ topo' = topo
  BY ChannelSteps, TopoStays
<1>2. /\ FiniteEpochs(c)' = FiniteEpochs(c) /\ Into(From(c))' = Into(From(c))
      /\ Alone(From(c))' = Alone(From(c)) /\ \A e : EpochOn(c, e)' = EpochOn(c, e)
  <2>1. From(c)' = From(c) /\ \A o : Into(o)' = Into(o) /\ Alone(o)' = Alone(o)
    BY <1>1, SameGraph, SameFollow
  <2> QED BY <1>1, <2>1, SameGraph, SameFollow
<1> SUFFICES ASSUME FiniteEpochs(c), Alone(From(c)), c \notin sealed',
                    NEW k \in closed'[c], NEW d \in Into(From(c))
             PROVE  k < EpochOn(c, epoch'[d])
  BY <1>1, <1>2 DEF ClosedOf, EpochOn, Feedback, Mode
<1>3. d \in Channels /\ FiniteEpochs(d) /\ epoch[d] \in Nat /\ epoch'[d] \in Nat
  <2>1. d \in Channels /\ FiniteEpochs(d)
    BY DEF FollowFacts, Into
  <2> QED BY <1>1, <2>1, SameGraph DEF IInv, ChannelInv
<1>4. epoch'[d] >= epoch[d]
  BY <1>1, <1>3 DEF ChannelStep, EpochStep
<1>5. closed[c] \subseteq Nat
  BY DEF IInv, ChannelInv
<1>6. CASE k \in closed[c]
  <2>1. c \notin sealed
    BY <1>1 DEF ChannelStep, SealStep
  <2>2. k < EpochOn(c, epoch[d])
    BY <1>6, <2>1 DEF FollowInv, ClosedOf
  <2> QED BY <1>3, <1>4, <1>5, <1>6, <2>2 DEF EpochOn
<1>7. CASE k \notin closed[c]
  <2>1. PICK e \in Nat : /\ k = IF Synchronous(c) THEN e + 1 ELSE e
                         /\ epoch'[d] = e + 1
    BY <1>1, <1>3, <1>7 DEF ChannelStep, ClosedStep
  <2> QED BY <2>1 DEF EpochOn, Feedback, Synchronous
<1> QED BY <1>6, <1>7

LEMMA FollowKeeps ==
  ASSUME IInv, FollowFacts, FollowInv, [Next]_vars PROVE FollowInv'
<1>1. topo' = topo /\ IInv'
  BY TopoStays, NextKeeps
<1>2. Pods' = Pods /\ Channels' = Channels
  BY <1>1, SameGraph
<1>3. \A x \in Pods : SourcePod(x)' /\ ReportsOf(x)' /\ HandOf(x)' /\ MovesOf(x)'
  BY <1>1, SourcePodKeeps, ReportsKeeps, HandKeeps, MovesKeep DEF FollowInv
<1>4. \A c \in Channels : SourceChannel(c)' /\ ClosedOf(c)'
  BY <1>1, SourceChannelKeeps, ClosedKeeps
<1> QED BY <1>2, <1>3, <1>4 DEF FollowInv, FollowOf, MovesOf

LEMMA FollowInit == ASSUME Init, IInv PROVE FollowInv
<1>1. ASSUME NEW x \in Pods PROVE SourcePod(x) /\ FollowOf(x)
  <2>1. /\ x \in up /\ session[x] = "none" /\ x \notin done /\ x \notin finished /\ epochDone[x] = -2
        /\ phase[x] = Start(x) /\ at[x] = 1 /\ hand[x] = {} /\ current[x] = {} /\ out[x] = {}
        /\ wepoch[x] = 0 /\ lastDone[x] = -1
    BY <1>1 DEF Init
  <2>2. \A c \in Channels : epoch[c] = 0
    BY DEF Init
  <2>3. \A c \in Into(OpOf(x)) : epoch[c] = 0
    BY <2>2 DEF Into
  <2>4. phase[x] \in {"source", "poll"}
    BY <2>1 DEF Start
  <2>5. SourcePod(x) /\ BusyOf(x) /\ HandOf(x)
    BY <2>1, <2>4 DEF SourcePod, BusyOf, Busy, HandOf
  <2>6. ReportsOf(x)
    BY <2>1, <2>4 DEF ReportsOf
  <2>7. FoundOf(x)
    <3>1. Into(OpOf(x)) # {} => Len(topo.inbound[OpOf(x)]) \in Nat /\ Len(topo.inbound[OpOf(x)]) >= 1
      BY AboutPod DEF GraphFacts
    <3>2. Finite(OpOf(x)) => ~AtEnd(x)
      BY <2>1, <3>1 DEF AtEnd, Finite
    <3> QED BY <2>1, <3>2 DEF FoundOf
  <2>8. EndedOf(x)
    <3>1. LastEnded(x) = -1
      BY <2>1, <2>4 DEF LastEnded
    <3> QED BY <2>3, <3>1 DEF EndedOf
  <2>9. AloneOf(x)
    BY <2>1, <2>3, <2>4 DEF AloneOf
  <2> QED BY <2>5, <2>6, <2>7, <2>8, <2>9 DEF FollowOf
<1>2. ASSUME NEW c \in Channels PROVE SourceChannel(c) /\ ClosedOf(c)
  <2>1. closed[c] = (IF Synchronous(c) THEN {0} ELSE {}) /\ sealed = {} /\ Live(c) = {}
    BY DEF Init, Live
  <2>2. SourceChannel(c)
    BY <2>1 DEF SourceChannel, FromSource, Synchronous
  <2>3. ClosedOf(c)
    <3>1. ASSUME NEW k \in closed[c], NEW d \in Into(From(c)) PROVE k < EpochOn(c, epoch[d])
      <4>1. k = 0 /\ Feedback(c) /\ epoch[d] = 0
        BY <2>1 DEF Init, Into, Synchronous, Feedback
      <4> QED BY <4>1 DEF EpochOn
    <3> QED BY <3>1 DEF ClosedOf
  <2> QED BY <2>2, <2>3
<1> QED BY <1>1, <1>2 DEF FollowInv

LEMMA EndsAreLast == ASSUME IInv, FollowFacts, FollowInv PROVE EpochEndIsLast
<1> SUFFICES ASSUME NEW x \in up, NEW c \in Into(OpOf(x)), FiniteEpochs(c), NEW s \in Live(c),
                    place[c][s] # "held", ~(EpochOf(s) > LastEnded(x)), ~Again(s)
             PROVE  FALSE
  BY DEF EpochEndIsLast
<1>1. x \in Pods
  BY DEF IInv, WorkerInv
<1>2. OpOf(x) \in Ops /\ PassOf(x) /\ \A d \in Channels : epoch[d] \in Nat
  BY <1>1, AboutPod
<1>3. c \in Channels /\ (FromSource(c) \/ c = LastOf(OpOf(x)))
  BY <1>2, InputsAre
<1>4. EpochOf(s) = epoch[c]
  BY <1>3 DEF IInv, ChannelInv, PlacesOK, PlacesOf, Live
<1>5. LastEnded(x) >= epoch[c] /\ LastEnded(x) >= 0
  BY <1>2, <1>3, <1>4 DEF LastEnded, PassOf
<1>6. EndedOf(x)
  BY <1>1 DEF FollowInv, FollowOf
<1>7. QuietBut(place, c)
  BY <1>3, <1>5, <1>6 DEF EndedOf, Exhausted, Over
<1> QED BY <1>7 DEF QuietBut, Live

\* "OnEpochEnd runs after required input for the current finite epoch closes and drains"
\* (sdk.go:88), in every graph in which an operation that follows the epochs takes its input
\* from sources and, polled last, at most one channel of another kind: its own Synchronous
\* feedback channel, or one from an operation with a single replica, and other than for
\* what a source announces that is started again after its report.  The pass of Run asks
\* one channel after the other and may be overtaken; it concludes rightly all the same,
\* since what a source sends before its report is sent once, and nothing is added to an
\* epoch of the last channel once that is closed.
THEOREM EpochEndsFollow == ASSUME \A t \in Topologies : EpochsFollow(t) PROVE Spec => []EpochEndIsLast
<1>1. Init => IInv /\ FollowInv
  BY InitHolds, FollowInit
<1>2. IInv => FollowFacts
  BY FollowIs DEF IInv, ChannelInv
<1>3. IInv /\ FollowInv /\ [Next]_vars => (IInv /\ FollowInv)'
  BY <1>2, NextKeeps, FollowKeeps
<1>4. IInv /\ FollowInv => EpochEndIsLast
  BY <1>2, EndsAreLast
<1> QED BY <1>1, <1>3, <1>4, PTL DEF Spec
=============================================================================
