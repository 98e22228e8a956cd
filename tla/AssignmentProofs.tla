------------------------- MODULE AssignmentProofs --------------------------
(***************************************************************************)
(* Proofs about the assignment of partitions to pods in Delivery:           *)
(* balanceHash for a Hash channel, the index of channel.assigned for a      *)
(* RoundRobin one.  Both are given by what they satisfy, so that there is   *)
(* exactly one of each has to be proved, by induction over the partitions.  *)
(***************************************************************************)
EXTENDS DeliveryProofs

-----------------------------------------------------------------------------
(* Induction, on sets of naturals.                                         *)

\* A set of naturals that is not empty has a least element.
LEMMA LeastExists ==
  ASSUME NEW S \in SUBSET Nat, S # {} PROVE \E m \in S : \A k \in S : m <= k
<1>1. PICK x \in S : \A y \in S : ~(<<y, x>> \in OpToRel(<, Nat))
  BY NatLessThanWellFounded, WFMin
<1>2. \A y \in S : ~(y < x)
  BY <1>1 DEF OpToRel
<1> QED BY <1>2

\* What holds of 0 and, if of n, of n + 1, as far as b.
LEMMA Stepwise ==
  ASSUME NEW b \in Nat, NEW S, 0 \in S, \A n \in 0 .. b - 1 : n \in S => n + 1 \in S
  PROVE  b \in S
<1> SUFFICES ASSUME b \notin S PROVE FALSE
  OBVIOUS
<1> DEFINE T == {n \in 0 .. b : n \notin S}
<1>1. T \in SUBSET Nat /\ b \in T
  OBVIOUS
<1>2. PICK m \in T : \A k \in T : m <= k
  BY <1>1, LeastExists
<1>3. m \in Nat /\ m # 0 /\ m <= b
  BY <1>2
<1>4. m - 1 \in 0 .. b - 1 /\ m - 1 \notin T
  BY <1>2, <1>3
<1>5. m - 1 \in S
  BY <1>4
<1>6. m - 1 + 1 = m
  BY <1>3
<1> QED BY <1>2, <1>4, <1>5, <1>6

\* A finite set of naturals that is not empty has a greatest element.
LEMMA GreatestExists ==
  ASSUME NEW S \in SUBSET Nat, IsFiniteSet(S), S # {} PROVE \E m \in S : \A k \in S : k <= m
<1> DEFINE above(x) == {k \in S : k > x}
           T == {Cardinality(above(x)) : x \in S}
<1>1. \A x \in S : IsFiniteSet(above(x)) /\ Cardinality(above(x)) \in Nat
  BY FS_Subset, FS_CardinalityType
<1>2. T \in SUBSET Nat /\ T # {}
  BY <1>1
<1>3. PICK t \in T : \A u \in T : t <= u
  BY <1>2, LeastExists
<1>4. PICK m \in S : t = Cardinality(above(m))
  BY <1>3
<1>5. ASSUME NEW k \in S, k > m PROVE FALSE
  <2>1. above(k) \in SUBSET above(m) /\ k \in above(m) /\ k \notin above(k)
    <3>1. \A j \in S : j \in Nat
      OBVIOUS
    <3>2. \A j \in S : j > k => j > m
      BY <1>5, <3>1
    <3>3. k > m /\ ~(k > k)
      BY <1>5, <3>1
    <3> QED BY <1>5, <3>2, <3>3
  <2>2. Cardinality(above(k)) # Cardinality(above(m)) /\ Cardinality(above(k)) <= Cardinality(above(m))
    BY <1>1, <2>1, FS_Subset
  <2>3. Cardinality(above(m)) <= Cardinality(above(k))
    BY <1>3, <1>4
  <2> QED BY <1>1, <2>2, <2>3
<1> QED BY <1>5

-----------------------------------------------------------------------------
(* balanceHash                                                             *)

\* Partition p gets the least loaded pod, the first in name order on a tie.
Picked(o, kept, live, p) ==
  \A y \in live : \/ Load(o, kept, p, o[p]) < Load(o, kept, p, y)
                  \/ Load(o, kept, p, o[p]) = Load(o, kept, p, y) /\ o[p] <= y

\* o is what balanceHash has computed when it comes to partition n.
BalancedTo(o, own, kept, live, n) ==
  \A p \in Parts : IF p \in kept THEN o[p] = own[p] ELSE p < n => Picked(o, kept, live, p)

LEMMA PartsFinite == /\ IsFiniteSet(Parts) /\ Parts \subseteq Nat /\ N \in Nat
                     /\ \A S \in SUBSET Parts : IsFiniteSet(S) /\ Cardinality(S) \in Nat
<1>1. N \in Nat
  BY BoundsAssumption
<1>2. IsFiniteSet(Parts) /\ Parts \subseteq Nat
  BY <1>1, FS_Interval DEF Parts
<1> QED BY <1>1, <1>2, FS_Subset, FS_CardinalityType

LEMMA LoadIsNat == \A o, kept, p, x : Load(o, kept, p, x) \in Nat
<1> SUFFICES ASSUME NEW o, NEW kept, NEW p, NEW x PROVE Load(o, kept, p, x) \in Nat
  OBVIOUS
<1>1. {r \in Parts : o[r] = x /\ (r \in kept \/ r < p)} \in SUBSET Parts
  OBVIOUS
<1> QED BY <1>1, PartsFinite DEF Load

\* The load at partition p depends on the kept partitions and those before p.
LEMMA LoadSame ==
  ASSUME NEW o, NEW u, NEW kept, NEW p,
         \A r \in Parts : r \in kept \/ r < p => o[r] = u[r]
  PROVE  \A x : Load(o, kept, p, x) = Load(u, kept, p, x)
<1> SUFFICES ASSUME NEW x PROVE Load(o, kept, p, x) = Load(u, kept, p, x)
  OBVIOUS
<1>1. {r \in Parts : o[r] = x /\ (r \in kept \/ r < p)} = {r \in Parts : u[r] = x /\ (r \in kept \/ r < p)}
  OBVIOUS
<1> QED BY <1>1 DEF Load

\* There is a least loaded pod, and a first one among the least loaded.
LEMMA BestExists ==
  ASSUME NEW o, NEW kept, NEW p, NEW live \in SUBSET Nat, live # {}
  PROVE  \E x \in live : \A y \in live :
           \/ Load(o, kept, p, x) < Load(o, kept, p, y)
           \/ Load(o, kept, p, x) = Load(o, kept, p, y) /\ x <= y
<1> DEFINE load(x) == Load(o, kept, p, x)
           T == {load(x) : x \in live}
<1>1. \A x \in live : load(x) \in Nat
  BY LoadIsNat
<1> HIDE DEF load
<1>2. T \in SUBSET Nat /\ T # {}
  BY <1>1
<1>3. PICK t \in T : \A u \in T : t <= u
  BY <1>2, LeastExists
<1> DEFINE U == {x \in live : load(x) = t}
<1>4. U \in SUBSET Nat /\ U # {}
  BY <1>3
<1>5. PICK x \in U : \A y \in U : x <= y
  BY <1>4, LeastExists
<1>6. \A y \in live : load(x) < load(y) \/ (load(x) = load(y) /\ x <= y)
  <2> TAKE y \in live
  <2>1. load(x) \in Nat /\ load(y) \in Nat /\ load(x) <= load(y)
    BY <1>1, <1>3, <1>5
  <2>2. load(x) = load(y) => x <= y
    BY <1>5
  <2> QED BY <2>1, <2>2
<1> QED BY <1>5, <1>6 DEF load

\* One more partition.
LEMMA BalanceStep ==
  ASSUME NEW own, NEW kept, NEW live \in SUBSET Nat, live # {},
         NEW n \in Nat, n < N, NEW o \in [Parts -> live], BalancedTo(o, own, kept, live, n)
  PROVE  \E u \in [Parts -> live] : BalancedTo(u, own, kept, live, n + 1)
<1>1. n \in Parts
  BY PartsFinite DEF Parts
<1>2. CASE n \in kept
  <2>1. ASSUME NEW p \in Parts PROVE p < n + 1 => p < n \/ p \in kept
    BY <1>2, PartsFinite
  <2> QED BY <1>2, <2>1 DEF BalancedTo
<1>3. CASE n \notin kept
  <2>1. PICK x \in live : \A y \in live :
           \/ Load(o, kept, n, x) < Load(o, kept, n, y)
           \/ Load(o, kept, n, x) = Load(o, kept, n, y) /\ x <= y
    BY BestExists
  <2> DEFINE u == [o EXCEPT ![n] = x]
  <2>2. u \in [Parts -> live] /\ u[n] = x /\ \A r \in Parts : r # n => u[r] = o[r]
    BY <1>1
  <2> HIDE DEF u
  <2>3. ASSUME NEW p \in Parts, p <= n PROVE \A z : Load(o, kept, p, z) = Load(u, kept, p, z)
    <3>1. \A r \in Parts : r \in kept \/ r < p => o[r] = u[r]
      BY <1>3, <2>2, <2>3, PartsFinite
    <3> QED BY <3>1, LoadSame
  <2>4. ASSUME NEW p \in Parts \ kept, p < n + 1 PROVE Picked(u, kept, live, p)
    <3>1. p <= n
      BY <2>4, PartsFinite
    <3>2. CASE p = n
      BY <2>1, <2>2, <2>3, <3>1, <3>2 DEF Picked
    <3>3. CASE p # n
      <4>1. Picked(o, kept, live, p)
        BY <3>1, <3>3, PartsFinite DEF BalancedTo
      <4> QED BY <2>2, <2>3, <3>1, <3>3, <4>1 DEF Picked
    <3> QED BY <3>2, <3>3
  <2>5. \A p \in kept \cap Parts : u[p] = own[p]
    BY <1>3, <2>2 DEF BalancedTo
  <2>6. BalancedTo(u, own, kept, live, n + 1)
    BY <2>4, <2>5 DEF BalancedTo
  <2> QED BY <2>2, <2>6
<1> QED BY <1>2, <1>3

Kept(own, pin, live) == {p \in pin : own[p] \in live}

LEMMA BalanceIs ==
  ASSUME NEW own, NEW pin, NEW live, NEW o
  PROVE  o \in Balance(own, pin, live) <=>
           o \in [Parts -> live] /\ BalancedTo(o, own, Kept(own, pin, live), live, N)
<1>1. \A p \in Parts : p < N
  BY PartsFinite DEF Parts
<1> QED BY <1>1 DEF Balance, BalancedTo, Picked, Kept

\* The loop of balanceHash over the partitions comes to an end with an assignment.
LEMMA BalanceExists ==
  ASSUME NEW own, NEW pin, NEW live \in SUBSET Nat, live # {}
  PROVE  Balance(own, pin, live) # {}
<1> DEFINE kept == Kept(own, pin, live)
           S == {n \in 0 .. N : \E o \in [Parts -> live] : BalancedTo(o, own, kept, live, n)}
<1>1. N \in Nat
  BY PartsFinite
<1>2. 0 \in S
  <2>1. PICK x \in live : TRUE
    OBVIOUS
  <2> DEFINE o == [p \in Parts |-> IF p \in kept THEN own[p] ELSE x]
  <2>2. o \in [Parts -> live]
    BY DEF Kept
  <2>3. \A p \in Parts : ~(p < 0)
    BY PartsFinite
  <2>4. BalancedTo(o, own, kept, live, 0)
    BY <2>3 DEF BalancedTo
  <2> HIDE DEF o, kept
  <2> QED BY <1>1, <2>2, <2>4
<1> HIDE DEF kept
<1>3. ASSUME NEW n \in 0 .. N - 1, n \in S PROVE n + 1 \in S
  <2>1. n \in Nat /\ n < N /\ n + 1 \in 0 .. N
    BY <1>1
  <2>2. PICK o \in [Parts -> live] : BalancedTo(o, own, kept, live, n)
    BY <1>3
  <2>3. \E u \in [Parts -> live] : BalancedTo(u, own, kept, live, n + 1)
    BY <2>1, <2>2, BalanceStep
  <2> QED BY <2>1, <2>3
<1>4. N \in S
  <2> HIDE DEF S
  <2> QED BY <1>1, <1>2, <1>3, Stepwise
<1>5. PICK o \in [Parts -> live] : BalancedTo(o, own, kept, live, N)
  BY <1>4
<1> QED BY <1>5, BalanceIs DEF kept

\* There is only one: at the first partition where two of them differ the loads are
\* the same, and so is the pod picked.
LEMMA BalanceUnique ==
  ASSUME NEW own, NEW pin, NEW live \in SUBSET Nat,
         NEW o \in Balance(own, pin, live), NEW u \in Balance(own, pin, live)
  PROVE  o = u
<1> DEFINE kept == Kept(own, pin, live)
           T == {p \in Parts : o[p] # u[p]}
<1>1. /\ o \in [Parts -> live] /\ BalancedTo(o, own, kept, live, N)
      /\ u \in [Parts -> live] /\ BalancedTo(u, own, kept, live, N)
  BY BalanceIs
<1> HIDE DEF kept
<1>2. SUFFICES ASSUME T # {} PROVE FALSE
  BY <1>1
<1>3. T \in SUBSET Nat
  BY PartsFinite
<1>4. PICK p \in T : \A r \in T : p <= r
  BY <1>2, <1>3, LeastExists
<1>5. p \in Parts /\ p \in Nat /\ p < N
  BY PartsFinite DEF Parts
<1>6. p \notin kept
  BY <1>1, <1>4 DEF BalancedTo
<1>7. Picked(o, kept, live, p) /\ Picked(u, kept, live, p)
  BY <1>1, <1>5, <1>6 DEF BalancedTo
<1>8. \A x : Load(o, kept, p, x) = Load(u, kept, p, x)
  <2>1. ASSUME NEW r \in Parts, r \in kept \/ r < p PROVE o[r] = u[r]
    <3>1. CASE r \in kept
      BY <1>1, <3>1 DEF BalancedTo
    <3>2. CASE r < p
      <4>1. r \in Nat /\ ~(p <= r)
        BY <1>5, <3>2, PartsFinite
      <4> QED BY <1>4, <4>1
    <3> QED BY <2>1, <3>1, <3>2
  <2> QED BY <2>1, LoadSame
<1> DEFINE load(x) == Load(o, kept, p, x)
<1>9. /\ load(o[p]) < load(u[p]) \/ (load(o[p]) = load(u[p]) /\ o[p] <= u[p])
      /\ load(u[p]) < load(o[p]) \/ (load(u[p]) = load(o[p]) /\ u[p] <= o[p])
  BY <1>1, <1>5, <1>7, <1>8 DEF Picked
<1>10. load(o[p]) \in Nat /\ load(u[p]) \in Nat
  BY LoadIsNat
<1>11. o[p] \in Nat /\ u[p] \in Nat
  BY <1>1, <1>5
<1> HIDE DEF load
<1> QED BY <1>4, <1>9, <1>10, <1>11
\* It is the same when it is computed again: what is kept are the pinned partitions of
\* live pods, and these stay where they are.
LEMMA BalanceAgain ==
  ASSUME NEW own, NEW pin, NEW live, NEW o \in Balance(own, pin, live),
         \A p \in pin : p \in Parts /\ own[p] \in live
  PROVE  Balance(o, pin, live) = Balance(own, pin, live)
<1>1. o \in [Parts -> live] /\ BalancedTo(o, own, Kept(own, pin, live), live, N)
  BY BalanceIs
<1>2. Kept(own, pin, live) = pin /\ Kept(o, pin, live) = pin
  BY <1>1 DEF Kept
<1>3. \A p \in pin : o[p] = own[p]
  BY <1>1, <1>2 DEF BalancedTo
<1>4. \A u : BalancedTo(u, o, pin, live, N) <=> BalancedTo(u, own, pin, live, N)
  BY <1>3 DEF BalancedTo
<1>5. \A u : u \in Balance(o, pin, live) <=> u \in Balance(own, pin, live)
  BY <1>2, <1>4, BalanceIs
<1>6. Balance(o, pin, live) \subseteq Balance(own, pin, live) /\ Balance(own, pin, live) \subseteq Balance(o, pin, live)
  BY <1>5
<1> QED BY <1>6

\* Of two pods the busier one has at most one partition more, unless all that it has
\* is kept: when it was given the last of the others it was the less loaded one.
LEMMA BalanceEven ==
  ASSUME NEW own, NEW pin, NEW live \in SUBSET Nat, NEW o \in Balance(own, pin, live),
         NEW x \in live, NEW y \in live
  PROVE  \/ Cardinality({p \in Parts : o[p] = x}) <= Cardinality({p \in Parts : o[p] = y}) + 1
         \/ {p \in Parts : o[p] = x} \subseteq Kept(own, pin, live)
<1> DEFINE kept == Kept(own, pin, live)
           X == {p \in Parts : o[p] = x}
           Y == {p \in Parts : o[p] = y}
<1>1. o \in [Parts -> live] /\ BalancedTo(o, own, kept, live, N)
  BY BalanceIs
<1> HIDE DEF kept
<1>2. SUFFICES ASSUME ~(X \subseteq kept) PROVE Cardinality(X) <= Cardinality(Y) + 1
  BY DEF kept
<1> DEFINE F == X \ kept
<1>3. F \in SUBSET Parts /\ F \in SUBSET Nat /\ F # {} /\ IsFiniteSet(F)
  BY <1>2, PartsFinite
<1>4. PICK p \in F : \A r \in F : r <= p
  BY <1>3, GreatestExists
<1>5. p \in Parts /\ p \in Nat /\ p < N /\ o[p] = x /\ p \notin kept
  BY <1>4, PartsFinite DEF Parts
<1>6. Picked(o, kept, live, p)
  BY <1>1, <1>5 DEF BalancedTo
<1>7. Load(o, kept, p, x) <= Load(o, kept, p, y)
  BY <1>5, <1>6, LoadIsNat DEF Picked
<1>8. {r \in Parts : o[r] = x /\ (r \in kept \/ r < p)} = X \ {p}
  <2>1. ASSUME NEW r \in X, r # p PROVE r \in kept \/ r < p
    <3>1. r \in Nat /\ (r \in kept \/ r <= p)
      BY <1>4, PartsFinite
    <3> QED BY <1>5, <2>1, <3>1
  <2>2. ~(p < p)
    BY <1>5
  <2> QED BY <1>5, <2>1, <2>2
<1>9. Load(o, kept, p, x) = Cardinality(X) - 1
  <2>1. IsFiniteSet(X) /\ p \in X
    BY <1>5, PartsFinite
  <2>2. Cardinality(X \ {p}) = Cardinality(X) - 1
    BY <2>1, FS_RemoveElement
  <2>3. Load(o, kept, p, x) = Cardinality(X \ {p})
    BY <1>8 DEF Load
  <2> QED BY <2>2, <2>3
<1>10. Load(o, kept, p, y) <= Cardinality(Y)
  <2>1. {r \in Parts : o[r] = y /\ (r \in kept \/ r < p)} \in SUBSET Y
    OBVIOUS
  <2>2. IsFiniteSet(Y)
    BY PartsFinite
  <2> QED BY <2>1, <2>2, FS_Subset DEF Load
<1>11. Cardinality(X) \in Nat /\ Cardinality(Y) \in Nat /\ Load(o, kept, p, y) \in Nat
  BY PartsFinite, LoadIsNat
<1> QED BY <1>7, <1>9, <1>10, <1>11

-----------------------------------------------------------------------------
(* channel.assigned for RoundRobin                                         *)

\* The index of pod y in the pods of S, in name order.
Rank(S, y) == Cardinality({z \in S : z < y})

LEMMA RankIs ==
  ASSUME NEW S \in SUBSET Nat, IsFiniteSet(S)
  PROVE  /\ \A y \in S : Rank(S, y) \in 0 .. Cardinality(S) - 1
         /\ \A y, z \in S : y < z => Rank(S, y) < Rank(S, z)
<1> DEFINE below(y) == {z \in S : z < y}
<1>1. \A y \in S : IsFiniteSet(below(y)) /\ Cardinality(below(y)) \in Nat
  BY FS_Subset, FS_CardinalityType
<1>2. Cardinality(S) \in Nat
  BY FS_CardinalityType
<1>3. ASSUME NEW y \in S PROVE Cardinality(below(y)) < Cardinality(S)
  <2>1. below(y) \in SUBSET S /\ y \notin below(y)
    <3>1. y \in Nat /\ ~(y < y)
      OBVIOUS
    <3> QED BY <3>1
  <2>2. Cardinality(below(y)) <= Cardinality(S) /\ Cardinality(below(y)) # Cardinality(S)
    BY <2>1, FS_Subset
  <2> QED BY <1>1, <1>2, <2>2
<1>4. ASSUME NEW y \in S, NEW z \in S, y < z PROVE Cardinality(below(y)) < Cardinality(below(z))
  <2>1. \A w \in S : w < y => w < z
    <3>1. \A w \in S : w \in Nat
      OBVIOUS
    <3> QED BY <1>4, <3>1
  <2>2. ~(y < y)
    <3>1. y \in Nat
      OBVIOUS
    <3> QED BY <3>1
  <2>3. below(y) \in SUBSET below(z) /\ y \in below(z) /\ y \notin below(y)
    BY <1>4, <2>1, <2>2
  <2>4. Cardinality(below(y)) <= Cardinality(below(z)) /\ Cardinality(below(y)) # Cardinality(below(z))
    BY <1>1, <2>3, FS_Subset
  <2> QED BY <1>1, <2>4
<1> HIDE DEF below
<1>5. \A y \in S : Rank(S, y) = Cardinality(below(y))
  BY DEF Rank, below
<1>6. \A y \in S : Rank(S, y) \in 0 .. Cardinality(S) - 1
  BY <1>1, <1>2, <1>3, <1>5
<1> QED BY <1>4, <1>5, <1>6

LEMMA RankOnce ==
  ASSUME NEW S \in SUBSET Nat, IsFiniteSet(S), NEW y \in S, NEW z \in S, Rank(S, y) = Rank(S, z)
  PROVE  y = z
<1>1. Rank(S, y) \in 0 .. Cardinality(S) - 1 /\ (y < z => Rank(S, y) < Rank(S, z)) /\ (z < y => Rank(S, z) < Rank(S, y))
  BY RankIs
<1>2. Rank(S, y) \in Int /\ Cardinality(S) \in Nat
  BY <1>1, FS_CardinalityType
<1>3. ~(y < z) /\ ~(z < y)
  BY <1>1, <1>2
<1>4. y \in Nat /\ z \in Nat
  OBVIOUS
<1> QED BY <1>3, <1>4

\* Every index has its pod.
LEMMA RankTaken ==
  ASSUME NEW S \in SUBSET Nat, IsFiniteSet(S), NEW i \in 0 .. Cardinality(S) - 1
  PROVE  \E y \in S : Rank(S, y) = i
<1> DEFINE n == Cardinality(S)
           f == [y \in S |-> Rank(S, y)]
<1>1. n \in Nat
  BY FS_CardinalityType
<1>2. \A y \in S : Rank(S, y) \in 0 .. n - 1
  BY RankIs
<1>3. \A y, z \in S : Rank(S, y) = Rank(S, z) => y = z
  BY RankOnce
<1>4. f \in Injection(S, 0 .. n - 1)
  BY <1>2, <1>3 DEF Injection, IsInjective
<1>5. IsFiniteSet(0 .. n - 1) /\ Cardinality(0 .. n - 1) = n
  <2>1. 0 \in Int /\ n - 1 \in Int /\ (0 > n - 1 => n = 0)
    BY <1>1
  <2>2. /\ IsFiniteSet(0 .. n - 1)
        /\ Cardinality(0 .. n - 1) = IF 0 > n - 1 THEN 0 ELSE n - 1 - 0 + 1
    BY <2>1, FS_Interval
  <2> QED BY <1>1, <2>1, <2>2
<1>6. f \in Surjection(S, 0 .. n - 1)
  BY <1>4, <1>5, FS_Injection
<1> QED BY <1>6 DEF Surjection

LEMMA RoundRobinIs ==
  ASSUME NEW live, NEW o
  PROVE  o \in RoundRobin(live) <=>
           o \in [Parts -> live] /\ \A p \in Parts : Rank(live, o[p]) = p % Cardinality(live)
  BY DEF RoundRobin, Rank

LEMMA RoundRobinOne ==
  ASSUME NEW live \in SUBSET Nat, IsFiniteSet(live), live # {}
  PROVE  \E o : RoundRobin(live) = {o}
<1> DEFINE n == Cardinality(live)
<1>1. n \in Nat /\ n > 0
  BY FS_CardinalityType, FS_EmptySet
<1>2. \A p \in Parts : p % n \in 0 .. n - 1
  BY <1>1, PartsFinite
<1>3. \A p \in Parts : \E y \in live : Rank(live, y) = p % n
  BY <1>2, RankTaken
<1> DEFINE o == [p \in Parts |-> CHOOSE y \in live : Rank(live, y) = p % n]
<1>4. o \in [Parts -> live] /\ \A p \in Parts : Rank(live, o[p]) = p % n
  BY <1>3
<1> HIDE DEF o
<1>5. o \in RoundRobin(live)
  BY <1>4, RoundRobinIs
<1>6. \A y, z \in live : Rank(live, y) = Rank(live, z) => y = z
  BY RankOnce
<1>7. ASSUME NEW u \in RoundRobin(live) PROVE u = o
  <2>1. u \in [Parts -> live] /\ \A p \in Parts : Rank(live, u[p]) = p % n
    BY RoundRobinIs
  <2>2. ASSUME NEW p \in Parts PROVE u[p] = o[p]
    <3>1. u[p] \in live /\ o[p] \in live /\ Rank(live, u[p]) = Rank(live, o[p])
      BY <1>4, <2>1
    <3> QED BY <1>6, <3>1
  <2> QED BY <1>4, <2>1, <2>2
<1>8. RoundRobin(live) = {o}
  BY <1>5, <1>7
<1> QED BY <1>8
\* Division with remainder.
LEMMA DivideOnce ==
  ASSUME NEW n \in Nat, n > 0, NEW p \in Nat
  PROVE  p % n \in 0 .. n - 1 /\ p \div n \in Nat /\ p = n * (p \div n) + (p % n)
  OBVIOUS

LEMMA RemainderOnce ==
  ASSUME NEW n \in Nat, n > 0, NEW p \in Nat, NEW k \in Nat, NEW r \in 0 .. n - 1, p = n * k + r
  PROVE  p % n = r
<1>1. p % n \in 0 .. n - 1 /\ p \div n \in Nat /\ p = n * (p \div n) + (p % n)
  BY DivideOnce
<1> DEFINE j == p \div n
           q == p % n
<1>2. j \in Nat /\ q \in 0 .. n - 1 /\ p = n * j + q
  BY <1>1
<1> HIDE DEF j, q
<1>3. n * (j - k) = r - q
  BY <1>2
<1>4. CASE j - k >= 1
  <2>1. n * (j - k) >= n
    BY <1>2, <1>4
  <2> QED BY <1>2, <1>3, <2>1
<1>5. CASE j - k <= -1
  <2>1. n * (j - k) <= -n
    BY <1>2, <1>5
  <2> QED BY <1>2, <1>3, <2>1
<1>6. CASE j = k
  BY <1>2, <1>6 DEF q
<1> QED BY <1>2, <1>4, <1>5, <1>6
\* The partitions of two pods differ by at most one: beside the first, each of those of
\* x is less than a round behind one of those of y.
LEMMA RoundRobinEven ==
  ASSUME NEW live \in SUBSET Nat, IsFiniteSet(live), NEW o \in RoundRobin(live), NEW x \in live, NEW y \in live
  PROVE  Cardinality({p \in Parts : o[p] = x}) <= Cardinality({p \in Parts : o[p] = y}) + 1
<1> DEFINE n == Cardinality(live)
           a == Rank(live, x)
           b == Rank(live, y)
           X == {p \in Parts : o[p] = x}
           Y == {p \in Parts : o[p] = y}
<1>1. n \in Nat /\ n > 0
  BY FS_CardinalityType, FS_EmptySet
<1>2. o \in [Parts -> live] /\ \A p \in Parts : Rank(live, o[p]) = p % n
  BY RoundRobinIs
<1>3. a \in 0 .. n - 1 /\ b \in 0 .. n - 1
  BY RankIs
<1>4. \A p \in X : p % n = a
  BY <1>2
<1>5. \A p \in Parts : p % n = b => p \in Y
  <2>1. \A u, v \in live : Rank(live, u) = Rank(live, v) => u = v
    BY RankOnce
  <2> QED BY <1>2, <2>1
<1>6. IsFiniteSet(X) /\ IsFiniteSet(Y) /\ Cardinality(X) \in Nat /\ Cardinality(Y) \in Nat /\ X \subseteq Parts
  BY PartsFinite
<1> HIDE DEF a, b, n, X, Y
<1> DEFINE g(p) == IF a < b THEN p - n + (b - a) ELSE p - (a - b)
           Z == X \ {a}
           f == [p \in Z |-> g(p)]
<1>7. ASSUME NEW p \in Z PROVE g(p) \in Y
  <2>1. p \in Parts /\ p \in Nat /\ p < N /\ N \in Nat /\ p # a
    BY <1>6, PartsFinite DEF Parts
  <2> DEFINE j == p \div n
  <2>2. j \in Nat /\ p = n * j + a
    BY <1>1, <1>4, <2>1, DivideOnce
  <2> HIDE DEF j
  <2>3. j >= 1
    <3>1. j = 0 => p = a
      BY <1>1, <1>3, <2>2
    <3> QED BY <2>1, <2>2, <3>1
  <2>4. \E k \in Nat : g(p) = n * k + b
    <3>1. CASE a < b
      <4>1. g(p) = n * j - n + b
        BY <1>1, <1>3, <2>2, <3>1
      <4>2. n * j - n = n * (j - 1)
        BY <1>1, <2>2
      <4>3. j - 1 \in Nat
        BY <2>2, <2>3
      <4>4. g(p) = (n * j - n) + b
        BY <4>1
      <4> HIDE DEF g
      <4>5. g(p) = n * (j - 1) + b
        BY <4>2, <4>4
      <4> QED BY <4>3, <4>5
    <3>2. CASE ~(a < b)
      <4>1. g(p) = n * j + b
        BY <1>1, <1>3, <2>2, <3>2
      <4> HIDE DEF g
      <4> QED BY <2>2, <4>1
    <3> QED BY <3>1, <3>2
  <2>5. g(p) \in Int /\ g(p) <= p
    BY <1>1, <1>3, <2>1
  <2> HIDE DEF g
  <2>6. PICK k \in Nat : g(p) = n * k + b
    BY <2>4
  <2>7. n * k \in Nat
    BY <1>1
  <2>8. g(p) \in Nat
    BY <1>3, <2>6, <2>7
  <2>9. g(p) % n = b
    BY <1>1, <1>3, <2>6, <2>8, RemainderOnce
  <2>10. g(p) \in Parts
    BY <2>1, <2>5, <2>8 DEF Parts
  <2> QED BY <1>5, <2>9, <2>10
<1>8. ASSUME NEW p \in Z, NEW q \in Z, g(p) = g(q) PROVE p = q
  <2>1. p \in Nat /\ q \in Nat
    BY <1>6, PartsFinite
  <2> QED BY <1>1, <1>3, <1>8, <2>1
<1> HIDE DEF g
<1>9. f \in Injection(Z, Y)
  BY <1>7, <1>8 DEF Injection, IsInjective
<1> HIDE DEF f
<1>10. Cardinality(Z) <= Cardinality(Y)
  BY <1>6, <1>9, FS_Injection
<1>11. Cardinality(Z) = IF a \in X THEN Cardinality(X) - 1 ELSE Cardinality(X)
  BY <1>6, FS_RemoveElement
<1> QED BY <1>6, <1>10, <1>11 DEF X, Y

-----------------------------------------------------------------------------
(* The theorems.                                                           *)

\* At any time finitely many consumers are registered.
FewLive == IsFiniteSet(LiveConsumers)

LEMMA FewLiveNext == ASSUME IInv, FewLive, [Next]_vars PROVE FewLive'
<1>1. \E x : LiveConsumers' \subseteq LiveConsumers \cup {x}
  <2>1. CASE UNCHANGED incarnation
    BY <2>1 DEF LiveConsumers, Registered
  <2>2. CASE \E gone \in SUBSET Pods : incarnation' = [y \in Pods |-> IF y \in gone THEN 0 ELSE incarnation[y]]
    BY <2>2 DEF LiveConsumers, Registered, Pods
  <2>3. ASSUME NEW x \in Pods, NEW i \in Incarnations, Register(x, i)
        PROVE  LiveConsumers' \subseteq LiveConsumers \cup {x}
    BY <2>3 DEF Register, LiveConsumers, Registered, Pods
  <2>4. \A skip : Silent(skip) \subseteq Pods
    BY DEF Silent
  <2>5. CASE UNCHANGED vars
    BY <2>1, <2>5 DEF vars, podVars
  <2>6. CASE \E x \in Pods : Restart(x) \/ Lapse(x)
    BY <2>1, <2>6 DEF Restart, Lapse
  <2>7. CASE \E x \in Pods, i \in Incarnations : RegisterRefused(x, i)
    BY <2>2, <2>4, <2>7 DEF RegisterRefused
  <2>8. CASE Metrics
    BY <2>2, <2>4, <2>8 DEF Metrics
  <2>9. CASE \E x \in Consumers, i \in Incarnations, arrives \in BOOLEAN : Consume(x, i, arrives)
    <3>1. PICK x \in Consumers, i \in Incarnations, arrives \in BOOLEAN : Consume(x, i, arrives)
      BY <2>9
    <3>2. incarnation' = [y \in Pods |-> IF y \in Silent({x}) THEN 0 ELSE incarnation[y]]
      BY <3>1, SMTT(30) DEF Consume
    <3> QED BY <2>2, <2>4, <3>2
  <2>10. CASE \E x \in Producers, i \in Incarnations : Released(x, i)
    BY <2>1, <2>2, <2>4, <2>10 DEF Released
  <2>11. CASE \/ \E x \in Producers, i \in Incarnations : \E batch \in Batches(SegmentsHeldBy(x)) : Announce(x, i, batch)
              \/ \E batch \in Batches(SegmentsOfCoordinator) : Produce(batch)
              \/ Seal
              \/ \E x \in Consumers, i \in Incarnations, s \in Segments : Ack(x, i, s)
              \/ \E x \in Consumers, i \in Incarnations, s \in Segments, delay \in BOOLEAN : Nack(x, i, s, delay)
              \/ \E x \in Consumers, i \in Incarnations, s \in Segments : RetryDue(x, i, s)
    BY <2>1, <2>11 DEF Announce, Produce, Seal, Ack, Nack, RetryDue, podVars
  <2> QED BY <2>3, <2>5, <2>6, <2>7, <2>8, <2>9, <2>10, <2>11 DEF Next
<1>2. PICK x : LiveConsumers' \subseteq LiveConsumers \cup {x}
  BY <1>1
<1>3. IsFiniteSet(LiveConsumers \cup {x})
  BY FS_AddElement DEF FewLive
<1> QED BY <1>2, <1>3, FS_Subset DEF FewLive

LEMMA AlwaysFew == Spec => [](IInv /\ FewLive)
<1>1. Init => FewLive
  <2>1. Init => LiveConsumers = {}
    BY DEF Init, LiveConsumers, Registered, Pods
  <2> QED BY <2>1, FS_EmptySet DEF FewLive
<1>2. IInv /\ FewLive /\ [Next]_vars => FewLive'
  BY FewLiveNext
<1> QED BY <1>1, <1>2, InitInv, NextInv, PTL DEF Spec

LEMMA LiveAre == LiveConsumers \in SUBSET Nat
  BY PodsAssumption DEF LiveConsumers

\* Whatever the registrations and the pins, balanceHash and channel.assigned give every
\* partition exactly one reader, the same one when they are asked again
\* (OneReaderPerPartition).
THEOREM AssignmentIsUnique == Spec => []OneReaderPerPartition
<1>1. ASSUME IInv, FewLive PROVE OneReaderPerPartition
  <2> DEFINE live == LiveConsumers
  <2> SUFFICES ASSUME live # {}
               PROVE  \E o \in Assignments(owner, pinned, live) :
                        /\ o \in [Parts -> live]
                        /\ Assignments(owner, pinned, live) = {o}
                        /\ Assignments(o, pinned, live) = {o}
    BY DEF OneReaderPerPartition
  <2>1. live \in SUBSET Nat /\ IsFiniteSet(live)
    BY <1>1, LiveAre DEF FewLive
  <2>2. \A p \in pinned : p \in Parts /\ owner[p] \in live
    BY <1>1 DEF IInv, TypeOK, PinnedOwned
  <2> HIDE DEF live
  <2>3. CASE Hash
    <3>1. PICK o : o \in Balance(owner, pinned, live)
      BY <2>1, BalanceExists
    <3>2. Balance(owner, pinned, live) = {o}
      BY <2>1, <3>1, BalanceUnique
    <3>3. Balance(o, pinned, live) = {o}
      BY <2>2, <3>1, <3>2, BalanceAgain
    <3>4. o \in [Parts -> live]
      BY <3>1, BalanceIs
    <3> QED BY <2>3, <3>1, <3>2, <3>3, <3>4 DEF Assignments
  <2>4. CASE ~Hash
    <3>1. PICK o : RoundRobin(live) = {o}
      BY <2>1, RoundRobinOne
    <3>2. o \in [Parts -> live]
      BY <3>1, RoundRobinIs
    <3> QED BY <2>4, <3>1, <3>2 DEF Assignments
  <2> QED BY <2>3, <2>4
<1> QED BY <1>1, AlwaysFew, PTL

\* A pod that joins gets its share: of two registered pods one reads at most one
\* partition more than the other, or nothing but what is pinned to it
\* (SharesAreEven).
THEOREM SharesStayEven == Spec => []SharesAreEven
<1>1. ASSUME IInv, FewLive PROVE SharesAreEven
  <2> DEFINE live == LiveConsumers
  <2>1. live \in SUBSET Nat /\ IsFiniteSet(live)
    BY <1>1, LiveAre DEF FewLive
  <2> SUFFICES ASSUME NEW o \in Assignments(owner, pinned, live), NEW x \in live, NEW y \in live
               PROVE  \/ Cardinality({p \in Parts : o[p] = x}) <= Cardinality({p \in Parts : o[p] = y}) + 1
                      \/ {p \in Parts : o[p] = x} = {p \in {p \in Parts : o[p] = x} : Hash /\ p \in pinned}
    BY DEF SharesAreEven
  <2> HIDE DEF live
  <2>2. CASE Hash
    <3>1. o \in Balance(owner, pinned, live)
      BY <2>2 DEF Assignments
    <3>2. Kept(owner, pinned, live) \subseteq pinned
      BY DEF Kept
    <3>3. \/ Cardinality({p \in Parts : o[p] = x}) <= Cardinality({p \in Parts : o[p] = y}) + 1
          \/ {p \in Parts : o[p] = x} \subseteq Kept(owner, pinned, live)
      BY <2>1, <3>1, BalanceEven
    <3> QED BY <2>2, <3>2, <3>3
  <2>3. CASE ~Hash
    <3>1. o \in RoundRobin(live)
      BY <2>3 DEF Assignments
    <3> QED BY <2>1, <3>1, RoundRobinEven
  <2> QED BY <2>2, <2>3
<1> QED BY <1>1, AlwaysFew, PTL

=============================================================================
