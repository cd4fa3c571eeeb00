----------------------------- MODULE PlannedProofs -----------------------------
(***************************************************************************)
(* What holds of generated plans and of the accepted residual plan, for    *)
(* every manifest, review, environment and order of commands.              *)
(*                                                                         *)
(* Plans: identifiers order the tasks; what does not reach itself has      *)
(* waves; the recursion of the critical path follows them.  A plan that is *)
(* there was generated from a manifest or a review (PlansInv).             *)
(*                                                                         *)
(* Acceptance: it rests on the plan that is being decided, which comes     *)
(* from a review that asked for it (ResidualInv); the rest is what         *)
(* GateResult and ArtifactsPass compare.                                   *)
(***************************************************************************)
EXTENDS PlannedHandoff, DependencyOrder

-----------------------------------------------------------------------------
(* Identifiers and parallel sets.                                          *)

\* Tasks have identifiers that are compared.
Named(S) == S \subseteq Nat \X Nat /\ IsFiniteSet(S)

IdOrder(S) == {p \in S \X S : IdBefore(p[1], p[2])}

LEMMA IdentifiersOrder ==
  ASSUME NEW S, Named(S)
  PROVE  Orders(IdOrder(S), S)
<1>1. \A t \in S : t[1] \in Nat /\ t[2] \in Nat /\ t = <<t[1], t[2]>>
  BY DEF Named
<1>2. \A t, u \in S : <<t, u>> \in IdOrder(S) <=> t[1] < u[1] \/ (t[1] = u[1] /\ t[2] < u[2])
  BY DEF IdOrder, IdBefore, CapabilityOf, ComponentOf
<1>3. \A t, u \in S : t # u => t[1] # u[1] \/ t[2] # u[2]
  BY <1>1
<1>4. QED
  BY <1>1, <1>2, <1>3 DEF Orders

\* Sorting by identifier lists each task once (sorted, in _implementation_waves).
LEMMA Listed ==
  ASSUME NEW S, Named(S)
  PROVE  /\ InIdOrder(S) \in [1..Cardinality(S) -> S]
         /\ \A t \in S : \E i \in 1..Cardinality(S) : InIdOrder(S)[i] = t
         /\ \A i, j \in 1..Cardinality(S) : InIdOrder(S)[i] = InIdOrder(S)[j] => i = j
<1>0. PICK R : R = IdOrder(S)
  OBVIOUS
<1>1. /\ \A t \in S : Cardinality(Earlier(R, S, t)) \in 0..(Cardinality(S) - 1)
      /\ \A t, u \in S : Cardinality(Earlier(R, S, t)) = Cardinality(Earlier(R, S, u)) => t = u
      /\ \A i \in 1..Cardinality(S) : \E t \in S : Cardinality(Earlier(R, S, t)) = i - 1
  <2>1. IsFiniteSet(S) /\ Orders(R, S)
    BY <1>0, IdentifiersOrder DEF Named
  <2>2. QED
    BY <2>1, Ranked
<1>2. PICK n \in Nat : n = Cardinality(S)
  BY FS_CardinalityType DEF Named
<1>3. ASSUME NEW t \in S PROVE {u \in S : IdBefore(u, t)} = Earlier(R, S, t)
  BY <1>0 DEF IdOrder, Earlier
<1>4. ASSUME NEW i \in 1..n
      PROVE  InIdOrder(S)[i] \in S /\ Cardinality(Earlier(R, S, InIdOrder(S)[i])) = i - 1
  <2>1. InIdOrder(S)[i] = CHOOSE t \in S : Cardinality({u \in S : IdBefore(u, t)}) = i - 1
    BY <1>2 DEF InIdOrder
  <2>2. \E t \in S : Cardinality({u \in S : IdBefore(u, t)}) = i - 1
    <3>1. PICK t \in S : Cardinality(Earlier(R, S, t)) = i - 1
      BY <1>1, <1>2
    <3>2. QED
      BY <1>3, <3>1
  <2>3. /\ InIdOrder(S)[i] \in S
        /\ Cardinality({u \in S : IdBefore(u, InIdOrder(S)[i])}) = i - 1
    BY <2>1, <2>2
  <2>4. QED
    BY <1>3, <2>3
<1>5. InIdOrder(S) \in [1..n -> S]
  <2>1. InIdOrder(S) = [i \in 1..n |-> InIdOrder(S)[i]]
    BY <1>2 DEF InIdOrder
  <2>2. QED
    BY <1>4, <2>1
<1>6. ASSUME NEW t \in S PROVE \E i \in 1..n : InIdOrder(S)[i] = t
  <2>1. PICK i \in 1..n : Cardinality(Earlier(R, S, t)) = i - 1
    <3>1. Cardinality(Earlier(R, S, t)) \in 0..(n - 1)
      BY <1>1, <1>2
    <3>2. PICK m \in 0..(n - 1) : m = Cardinality(Earlier(R, S, t))
      BY <3>1
    <3>3. m + 1 \in 1..n /\ (m + 1) - 1 = m
      OBVIOUS
    <3>4. QED
      BY <3>2, <3>3
  <2>2. InIdOrder(S)[i] = t
    BY <1>1, <1>4, <2>1
  <2>3. QED
    BY <2>2
<1>7. ASSUME NEW i \in 1..n, NEW j \in 1..n, InIdOrder(S)[i] = InIdOrder(S)[j] PROVE i = j
  BY <1>4, <1>7
<1>8. QED
  BY <1>2, <1>5, <1>6, <1>7

LEMMA ListedLength ==
  ASSUME NEW S, NEW n \in Nat, NEW f \in [1..n -> S]
  PROVE  f \in Seq(S) /\ Len(f) = n
  OBVIOUS

-----------------------------------------------------------------------------
(* Parallel sets. *)

Disjoint(S) == \A t, u \in S : t # u => Scope(t) \cap Scope(u) = {}

TakenNext(before, t) ==
    IF \E u \in before : Scope(t) \cap Scope(u) # {} THEN before ELSE before \cup {t}

Taken(order) ==
    CHOOSE taken : taken =
        [k \in 0..Len(order) |-> IF k = 0 THEN {} ELSE TakenNext(taken[k - 1], order[k])]

LEMMA ParallelMeans ==
  ASSUME NEW wave
  PROVE  ParallelSet(wave) = Taken(InIdOrder(wave))[Len(InIdOrder(wave))]
  BY DEF ParallelSet, Taken, TakenNext

\* What runs side by side is of the wave, and no two tasks of it write the same
\* path (_parallelizable_sets).
LEMMA ParallelDisjoint ==
  ASSUME NEW wave, Named(wave)
  PROVE  ParallelSet(wave) \subseteq wave /\ Disjoint(ParallelSet(wave))
<1>1. PICK order : order = InIdOrder(wave)
  OBVIOUS
<1>2. PICK n \in Nat : n = Len(order) /\ order \in [1..n -> wave]
  <2>1. PICK m \in Nat : m = Cardinality(wave)
    BY FS_CardinalityType DEF Named
  <2>2. order \in [1..m -> wave]
    BY <1>1, <2>1, Listed
  <2>3. Len(order) = m
    BY <2>2, ListedLength
  <2>4. QED
    BY <2>2, <2>3
<1> DEFINE X == SUBSET wave
           step == [k \in 1..n |-> [before \in X |-> TakenNext(before, order[k])]]
<1>3. step \in [1..n -> [X -> X]] /\ {} \in X
  <2>1. ASSUME NEW k \in 1..n, NEW before \in X PROVE TakenNext(before, order[k]) \in X
    <3>1. order[k] \in wave
      BY <1>2
    <3>2. QED
      BY <3>1 DEF TakenNext
  <2>2. QED
    BY <2>1
<1>4. PICK h : Follows(h, n, X, {}, step)
  <2> HIDE DEF X, step
  <2>1. QED
    BY <1>3, Recursion
<1>5. /\ h \in [0..n -> X] /\ h[0] = {}
      /\ \A k \in 1..n : h[k] = TakenNext(h[k - 1], order[k])
  <2>1. h \in [0..n -> X] /\ h[0] = {} /\ \A k \in 1..n : h[k] = step[k][h[k - 1]]
    BY <1>4 DEF Follows
  <2>2. ASSUME NEW k \in 1..n PROVE h[k] = TakenNext(h[k - 1], order[k])
    <3>1. h[k - 1] \in X
      BY <2>1
    <3>2. step[k][h[k - 1]] = TakenNext(h[k - 1], order[k])
      BY <3>1
    <3>3. QED
      BY <2>1, <3>2
  <2>3. QED
    BY <2>1, <2>2
<1> DEFINE Is(taken) == taken =
              [k \in 0..Len(order) |-> IF k = 0 THEN {} ELSE TakenNext(taken[k - 1], order[k])]
<1>6. Is(Taken(order))
  <2>1. Is(h)
    BY <1>2, <1>5
  <2>2. Taken(order) = CHOOSE taken : Is(taken)
    BY DEF Taken
  <2> HIDE DEF Is
  <2>3. QED
    BY <2>1, <2>2
<1>7. PICK taken : taken = Taken(order)
  OBVIOUS
<1>8. /\ taken[0] = {}
      /\ \A k \in 1..n : taken[k] = TakenNext(taken[k - 1], order[k])
  <2>1. taken = [k \in 0..n |-> IF k = 0 THEN {} ELSE TakenNext(taken[k - 1], order[k])]
    BY <1>2, <1>6, <1>7
  <2>2. \A k \in 0..n : taken[k] = IF k = 0 THEN {} ELSE TakenNext(taken[k - 1], order[k])
    BY <2>1
  <2>3. QED
    BY <2>2
<1> DEFINE Good(k) == taken[k] \subseteq wave /\ Disjoint(taken[k])
           P == {k \in Nat : k <= n => Good(k)}
<1>9. 0 \in P
  BY <1>8 DEF Disjoint
<1>10. ASSUME NEW k \in P PROVE k + 1 \in P
  <2> SUFFICES ASSUME k + 1 <= n PROVE Good(k + 1)
    OBVIOUS
  <2>1. k + 1 \in 1..n /\ (k + 1) - 1 = k /\ Good(k)
    OBVIOUS
  <2>2. taken[k + 1] = TakenNext(taken[k], order[k + 1]) /\ order[k + 1] \in wave
    BY <1>2, <1>8, <2>1
  <2>3. QED
    BY <2>1, <2>2 DEF TakenNext, Disjoint
<1>11. Good(n)
  <2> HIDE DEF P
  <2>1. P = Nat
    BY <1>9, <1>10, Induction DEF P
  <2>2. QED
    BY <2>1 DEF P
<1>12. QED
  BY <1>1, <1>2, <1>7, <1>11, ParallelMeans

-----------------------------------------------------------------------------
(* Reach, cycles and waves.                                                *)

LEMMA GraphOf ==
  ASSUME NEW T, NEW edges, edges \subseteq T \X T
  PROVE  /\ Graph(T, edges) \in [T -> SUBSET T]
         /\ DOMAIN Graph(T, edges) = T
         /\ \A t \in T : Graph(T, edges)[t] = DependsOn(edges, t)
         /\ \A t, d \in T : d \in Graph(T, edges)[t] <=> <<t, d>> \in edges
<1>1. ASSUME NEW t \in T PROVE DependsOn(edges, t) \subseteq T
  BY DEF DependsOn
<1>2. ASSUME NEW t \in T, NEW d \in T PROVE d \in DependsOn(edges, t) <=> <<t, d>> \in edges
  <2>1. ASSUME d \in DependsOn(edges, t) PROVE <<t, d>> \in edges
    <3>1. PICK e \in edges : e[1] = t /\ e[2] = d
      BY <2>1 DEF DependsOn
    <3>2. e = <<e[1], e[2]>>
      OBVIOUS
    <3>3. QED
      BY <3>1, <3>2
  <2>2. ASSUME <<t, d>> \in edges PROVE d \in DependsOn(edges, t)
    BY <2>2 DEF DependsOn
  <2>3. QED
    BY <2>1, <2>2
<1>3. QED
  BY <1>1, <1>2 DEF Graph

Grown(g) ==
    CHOOSE grow : grow =
        [k \in 0..Cardinality(DOMAIN g) |->
            IF k = 0 THEN g
            ELSE [n \in DOMAIN g |->
                    g[n] \cup UNION {grow[k - 1][d] : d \in g[n] \cap DOMAIN g}]]

LEMMA ReachMeans ==
  ASSUME NEW g
  PROVE  Reach(g) = Grown(g)[Cardinality(DOMAIN g)]
  BY DEF Reach, Grown

LEMMA ReachReaches ==
  ASSUME NEW T, IsFiniteSet(T), NEW g \in [T -> SUBSET T]
  PROVE  \E M \in Nat : \E reach :
            M = Cardinality(T) /\ Reaches(reach, M, T, g) /\ reach[M] = Reach(g)
<1>1. PICK M \in Nat : M = Cardinality(T)
  BY FS_CardinalityType
<1> DEFINE X == [T -> SUBSET T]
           Next1(f) == [t \in T |-> g[t] \cup UNION {f[d] : d \in g[t] \cap T}]
           step == [f \in X |-> Next1(f)]
<1>2. step \in [X -> X]
  <2>1. ASSUME NEW f \in X PROVE Next1(f) \in X
    OBVIOUS
  <2>2. QED
    BY <2>1
<1>3. PICK h : Iterates(h, M, X, g, step)
  <2>1. g \in X
    OBVIOUS
  <2> HIDE DEF X, step
  <2>2. QED
    BY <1>2, <2>1, Iteration
<1>4. h \in [0..M -> X] /\ h[0] = g /\ \A k \in 1..M : h[k] = step[h[k - 1]]
  BY <1>3 DEF Iterates
<1>5. ASSUME NEW k \in 1..M PROVE h[k] = Next1(h[k - 1])
  <2>1. h[k - 1] \in X
    BY <1>4
  <2>2. QED
    BY <1>4, <2>1
<1> DEFINE Is(a) == a = [k \in 0..M |-> IF k = 0 THEN g ELSE Next1(a[k - 1])]
<1>6. Is(h)
  <2> HIDE DEF Next1
  <2>1. h = [k \in 0..M |-> h[k]]
    BY <1>4
  <2>2. \A k \in 0..M : h[k] = IF k = 0 THEN g ELSE Next1(h[k - 1])
    BY <1>4, <1>5
  <2>3. QED
    BY <2>1, <2>2
<1>7. DOMAIN g = T
  OBVIOUS
<1>8. Is(Grown(g))
  <2>1. Grown(g) = CHOOSE a : Is(a)
    BY <1>1, <1>7 DEF Grown
  <2> HIDE DEF Is
  <2>2. QED
    BY <1>6, <2>1
<1>9. PICK reach : reach = Grown(g)
  OBVIOUS
<1>10. \A k \in 0..M : reach[k] = IF k = 0 THEN g ELSE Next1(reach[k - 1])
  <2> HIDE DEF Next1
  <2>1. reach = [k \in 0..M |-> IF k = 0 THEN g ELSE Next1(reach[k - 1])]
    BY <1>8, <1>9
  <2>2. QED
    BY <2>1
<1>11. Reaches(reach, M, T, g)
  <2>1. reach[0] = g
    <3>1. 0 \in 0..M
      OBVIOUS
    <3> HIDE DEF Next1
    <3>2. QED
      BY <1>10, <3>1
  <2>2. ASSUME NEW k \in 1..M, NEW t \in T
        PROVE  reach[k][t] = g[t] \cup UNION {reach[k - 1][d] : d \in g[t] \cap T}
    <3>1. reach[k] = Next1(reach[k - 1])
      BY <1>10
    <3>2. QED
      BY <3>1
  <2>3. QED
    BY <2>1, <2>2 DEF Reaches
<1>12. QED
  BY <1>1, <1>7, <1>9, <1>11, ReachMeans

\* A plan whose tasks do not reach themselves has an order (_task_cycle).
LEMMA NoCycle ==
  ASSUME NEW T, IsFiniteSet(T), NEW g \in [T -> SUBSET T], ~Cyclic(g)
  PROVE  Acyclic(T, g)
<1>1. PICK M \in Nat : \E reach :
        M = Cardinality(T) /\ Reaches(reach, M, T, g) /\ reach[M] = Reach(g)
  BY ReachReaches
<1>2. PICK reach : M = Cardinality(T) /\ Reaches(reach, M, T, g) /\ reach[M] = Reach(g)
  BY <1>1
<1>3. \A t \in T : t \notin reach[M][t]
  BY <1>2 DEF Cyclic
<1>4. Cardinality(T) <= M + 1
  BY <1>2
<1>5. QED
  BY <1>2, <1>3, <1>4, CycleFound

-----------------------------------------------------------------------------
(* Waves. *)

PlacedMost(T, edges) ==
    CHOOSE placed : placed =
        [k \in 0..Cardinality(T) |->
            IF k = 0 THEN {}
            ELSE placed[k - 1] \cup {t \in T : DependsOn(edges, t) \subseteq placed[k - 1]}]

LEMMA PlacedMeans ==
  ASSUME NEW T, NEW edges
  PROVE  PlacedBy(T, edges) = PlacedMost(T, edges)
  BY DEF PlacedBy, PlacedMost

LEMMA PlacedPlaces ==
  ASSUME NEW T, IsFiniteSet(T), NEW edges, edges \subseteq T \X T, NEW N \in Nat,
         N = Cardinality(T)
  PROVE  /\ DOMAIN PlacedBy(T, edges) = 0..N
         /\ Places(PlacedBy(T, edges), N, T, Graph(T, edges))
<1> DEFINE X == SUBSET T
           Next1(before) == before \cup {t \in T : DependsOn(edges, t) \subseteq before}
           step == [before \in X |-> Next1(before)]
<1>1. step \in [X -> X] /\ {} \in X
  OBVIOUS
<1>2. PICK h : Iterates(h, N, X, {}, step)
  <2> HIDE DEF X, step
  <2>1. QED
    BY <1>1, Iteration
<1>3. h \in [0..N -> X] /\ h[0] = {} /\ \A k \in 1..N : h[k] = step[h[k - 1]]
  BY <1>2 DEF Iterates
<1>4. ASSUME NEW k \in 1..N PROVE h[k] = Next1(h[k - 1])
  <2>1. h[k - 1] \in X
    BY <1>3
  <2>2. QED
    BY <1>3, <2>1
<1> DEFINE Is(a) == a = [k \in 0..N |-> IF k = 0 THEN {} ELSE Next1(a[k - 1])]
<1>5. Is(h)
  <2> HIDE DEF Next1
  <2>1. h = [k \in 0..N |-> h[k]]
    BY <1>3
  <2>2. \A k \in 0..N : h[k] = IF k = 0 THEN {} ELSE Next1(h[k - 1])
    BY <1>3, <1>4
  <2>3. QED
    BY <2>1, <2>2
<1>6. Is(PlacedBy(T, edges))
  <2>1. PlacedMost(T, edges) = CHOOSE a : Is(a)
    BY DEF PlacedMost
  <2> HIDE DEF Is
  <2>2. QED
    BY <1>5, <2>1, PlacedMeans
<1>7. PICK placed : placed = PlacedBy(T, edges)
  OBVIOUS
<1>8. placed = [k \in 0..N |-> IF k = 0 THEN {} ELSE Next1(placed[k - 1])]
  <2> HIDE DEF Next1
  <2>1. QED
    BY <1>6, <1>7
<1>9. DOMAIN placed = 0..N /\ placed[0] = {}
  <2> HIDE DEF Next1
  <2>1. 0 \in 0..N
    OBVIOUS
  <2>2. QED
    BY <1>8, <2>1
<1>10. ASSUME NEW k \in 1..N
       PROVE  placed[k] = placed[k - 1] \cup {t \in T : Graph(T, edges)[t] \subseteq placed[k - 1]}
  <2>1. placed[k] = Next1(placed[k - 1])
    <3> HIDE DEF Next1
    <3>1. k \in 0..N /\ k # 0
      OBVIOUS
    <3>2. QED
      BY <1>8, <3>1
  <2>2. QED
    BY <2>1, GraphOf
<1>11. QED
  BY <1>7, <1>9, <1>10 DEF Places

\* The number of the wave each task is in: it comes after those of what it
\* depends on, right after the latest one, and no wave is empty.
Layers(w, depth, T, deps) ==
    /\ w \in [T -> 1..depth]
    /\ \A t \in T : \A d \in deps[t] : d \in T /\ w[d] < w[t]
    /\ \A t \in T : w[t] # 1 => \E d \in deps[t] : w[d] = w[t] - 1
    /\ \A k \in 1..depth : \E t \in T : w[t] = k

LEMMA WavesLayered ==
  ASSUME NEW T, IsFiniteSet(T), NEW edges, edges \subseteq T \X T,
         ~Cyclic(Graph(T, edges))
  PROVE  \E depth \in Nat : \E w :
            /\ DOMAIN Waves(T, edges) = 1..depth
            /\ Len(Waves(T, edges)) = depth
            /\ Layers(w, depth, T, Graph(T, edges))
            /\ \A k \in 1..depth : Waves(T, edges)[k] = {t \in T : w[t] = k}
<1>1. PICK N \in Nat : N = Cardinality(T)
  BY FS_CardinalityType
<1>2. PICK g : g = Graph(T, edges)
  OBVIOUS
<1>3. PICK placed : placed = PlacedBy(T, edges)
  OBVIOUS
<1>4. g \in [T -> SUBSET T] /\ Acyclic(T, g)
  BY <1>2, GraphOf, NoCycle
<1>5. DOMAIN placed = 0..N /\ Places(placed, N, T, g)
  BY <1>1, <1>2, <1>3, PlacedPlaces
<1>6. /\ placed[N] = T
      /\ \A k \in 0..N : placed[k] \subseteq T
      /\ \A k \in 1..N : placed[k - 1] = T \/ \E t \in placed[k] : t \notin placed[k - 1]
  BY <1>1, <1>4, <1>5, PlacedAll
<1> DEFINE full == {k \in 0..N : placed[k] = T}
<1>7. PICK depth \in full : \A k \in full : depth <= k
  <2>1. full \in SUBSET Nat /\ N \in full
    BY <1>6
  <2> HIDE DEF full
  <2>2. QED
    BY <2>1, SmallestNumber
<1>8. depth \in 0..N /\ placed[depth] = T
  OBVIOUS
<1>9. ASSUME NEW k \in 0..N PROVE placed[k] # T <=> k < depth
  <2>1. k < depth => placed[k] # T
    BY <1>7
  <2>2. ASSUME depth <= k PROVE placed[k] = T
    <3>1. placed[depth] \subseteq placed[k]
      BY <1>5, <1>8, <2>2, PlacedGrows
    <3>2. QED
      BY <1>6, <1>8, <3>1
  <2>3. QED
    BY <1>8, <2>1, <2>2
<1>10. Cardinality({k \in DOMAIN placed : placed[k] # T}) = depth
  <2>1. {k \in DOMAIN placed : placed[k] # T} = 0..(depth - 1)
    BY <1>5, <1>8, <1>9
  <2>2. Cardinality(0..(depth - 1)) = depth
    BY <1>8, FS_Interval
  <2>3. QED
    BY <2>1, <2>2
<1>11. Waves(T, edges) = [k \in 1..depth |-> placed[k] \ placed[k - 1]]
  BY <1>3, <1>10 DEF Waves
<1> DEFINE w == [t \in T |-> CHOOSE k \in 1..N : \A j \in 0..N : t \in placed[j] <=> k <= j]
<1>12. ASSUME NEW t \in T
       PROVE  w[t] \in 1..depth /\ \A j \in 0..N : t \in placed[j] <=> w[t] <= j
  <2>1. \E k \in 1..N : \A j \in 0..N : t \in placed[j] <=> k <= j
    BY <1>5, <1>6, OneWave
  <2>2. w[t] \in 1..N /\ \A j \in 0..N : t \in placed[j] <=> w[t] <= j
    BY <2>1
  <2>3. w[t] <= depth
    BY <1>8, <2>2
  <2>4. QED
    BY <1>8, <2>2, <2>3
<1> HIDE DEF w
<1>13. w \in [T -> 1..depth]
  <2>1. w = [t \in T |-> w[t]]
    BY DEF w
  <2>2. QED
    BY <1>12, <2>1
<1>14. ASSUME NEW k \in 1..depth PROVE Waves(T, edges)[k] = {t \in T : w[t] = k}
  <2>1. k \in 0..N /\ k - 1 \in 0..N
    BY <1>8
  <2>2. \A t \in T : t \in placed[k] /\ t \notin placed[k - 1] <=> w[t] = k
    BY <1>12, <2>1
  <2>3. placed[k] \subseteq T
    BY <1>6, <2>1
  <2>4. QED
    BY <1>11, <2>2, <2>3
<1>15. ASSUME NEW k \in 1..N
       PROVE  placed[k] = placed[k - 1] \cup {t \in T : g[t] \subseteq placed[k - 1]}
  BY <1>5 DEF Places
<1>16. ASSUME NEW t \in T, NEW d \in g[t] PROVE d \in T /\ w[d] < w[t]
  <2>1. d \in T
    BY <1>4
  <2>2. w[t] \in 1..N /\ w[t] - 1 \in 0..N /\ w[t] \in 0..N
    BY <1>8, <1>12
  <2>3. t \in placed[w[t]] /\ t \notin placed[w[t] - 1]
    BY <1>12, <2>2
  <2>4. d \in placed[w[t] - 1]
    BY <1>15, <2>2, <2>3
  <2>5. w[d] <= w[t] - 1
    BY <1>12, <2>1, <2>2, <2>4
  <2>6. QED
    BY <1>12, <2>1, <2>2, <2>5
<1>17. ASSUME NEW t \in T, w[t] # 1 PROVE \E d \in g[t] : w[d] = w[t] - 1
  <2>1. w[t] \in 1..N /\ w[t] - 1 \in 1..N /\ w[t] - 1 \in 0..N /\ (w[t] - 1) - 1 \in 0..N
    BY <1>8, <1>12, <1>17
  <2>2. t \notin placed[w[t] - 1]
    BY <1>12, <2>1
  <2>3. PICK d \in g[t] : d \notin placed[(w[t] - 1) - 1]
    BY <1>15, <2>1, <2>2
  <2>4. d \in T /\ w[d] < w[t]
    BY <1>16
  <2>5. ~(w[d] <= (w[t] - 1) - 1)
    BY <1>12, <2>1, <2>3, <2>4
  <2>6. QED
    BY <1>12, <2>1, <2>4, <2>5
<1>18. ASSUME NEW k \in 1..depth PROVE \E t \in T : w[t] = k
  <2>1. k - 1 \in 0..N /\ k \in 1..N /\ k \in 0..N
    BY <1>8
  <2>2. placed[k - 1] # T
    BY <1>8, <1>9, <2>1
  <2>3. PICK t \in placed[k] : t \notin placed[k - 1]
    BY <1>6, <2>1, <2>2
  <2>4. t \in T
    BY <1>6, <2>1
  <2>5. w[t] = k
    BY <1>12, <2>1, <2>3, <2>4
  <2>6. QED
    BY <2>4, <2>5
<1>19. Layers(w, depth, T, g)
  BY <1>13, <1>16, <1>17, <1>18 DEF Layers
<1>20. DOMAIN Waves(T, edges) = 1..depth /\ Len(Waves(T, edges)) = depth
  <2>1. depth \in Nat /\ Waves(T, edges) \in [1..depth -> SUBSET T]
    BY <1>8, <1>11, <1>14
  <2>2. QED
    BY <2>1, ListedLength
<1>21. QED
  BY <1>2, <1>8, <1>14, <1>19, <1>20

\* What falls along its dependencies does not come back to itself.
LEMMA RankedNotCyclic ==
  ASSUME NEW T, IsFiniteSet(T), NEW g \in [T -> SUBSET T], NEW w \in [T -> Nat],
         \A t \in T : \A d \in g[t] : w[d] < w[t]
  PROVE  ~Cyclic(g)
<1>1. PICK M \in Nat : \E reach :
        M = Cardinality(T) /\ Reaches(reach, M, T, g) /\ reach[M] = Reach(g)
  BY ReachReaches
<1>2. PICK reach : Reaches(reach, M, T, g) /\ reach[M] = Reach(g)
  BY <1>1
<1> DEFINE Lower(k) == \A t \in T : \A d \in reach[k][t] : d \in T /\ w[d] < w[t]
           P == {k \in Nat : k <= M => Lower(k)}
<1>3. 0 \in P
  BY <1>2 DEF Reaches
<1>4. ASSUME NEW k \in P PROVE k + 1 \in P
  <2> SUFFICES ASSUME k + 1 <= M PROVE Lower(k + 1)
    OBVIOUS
  <2>1. k \in Nat /\ k + 1 \in 1..M /\ (k + 1) - 1 = k /\ Lower(k)
    OBVIOUS
  <2>2. ASSUME NEW t \in T, NEW d \in reach[k + 1][t] PROVE d \in T /\ w[d] < w[t]
    <3>1. reach[k + 1][t] = g[t] \cup UNION {reach[k][e] : e \in g[t] \cap T}
      BY <1>2, <2>1 DEF Reaches
    <3>2. CASE d \in g[t]
      BY <3>2
    <3>3. CASE d \notin g[t]
      <4>1. PICK e \in g[t] \cap T : d \in reach[k][e]
        BY <3>1, <3>3
      <4>2. d \in T /\ w[d] < w[e] /\ w[e] < w[t]
        BY <2>1, <4>1
      <4>3. w[d] \in Nat /\ w[e] \in Nat /\ w[t] \in Nat
        BY <4>1, <4>2
      <4>4. QED
        BY <4>2, <4>3
    <3>4. QED
      BY <3>2, <3>3
  <2>3. QED
    BY <2>2
<1>5. Lower(M)
  <2> HIDE DEF Lower
  <2>1. P = Nat
    BY <1>3, <1>4, Induction
  <2>2. QED
    BY <2>1
<1>6. ASSUME NEW t \in T PROVE t \notin Reach(g)[t]
  BY <1>2, <1>5
<1>7. DOMAIN g = T
  OBVIOUS
<1>8. QED
  BY <1>6, <1>7 DEF Cyclic

-----------------------------------------------------------------------------
(* The critical path.                                                      *)

Longest(paths) == CHOOSE p \in paths : \A q \in paths : Len(q) <= Len(p)

LongestBelow(edges, f, t) == Longest({f[d] : d \in DependsOn(edges, t)})

PathStep(T, edges, f, t) ==
    IF DependsOn(edges, t) = {} THEN <<t>>
    ELSE Append(LongestBelow(edges, f, t), t)

PathsTo(T, edges) == CHOOSE f : f = [t \in T |-> PathStep(T, edges, f, t)]

LEMMA CriticalMeans ==
  ASSUME NEW T, NEW edges
  PROVE  CriticalPath(T, edges) =
            IF T = {} THEN <<>> ELSE Longest({PathsTo(T, edges)[t] : t \in T})
  BY DEF CriticalPath, Longest, LongestBelow, PathStep, PathsTo

LEMMA LongestOf ==
  ASSUME NEW paths, NEW p \in paths, \A q \in paths : Len(q) <= Len(p)
  PROVE  /\ Longest(paths) \in paths
         /\ \A q \in paths : Len(q) <= Len(Longest(paths))
  BY DEF Longest

\* A chain of dependencies that ends with a task.
Chain(p, t, T, edges) ==
    /\ p \in Seq(T) /\ Len(p) > 0 /\ p[Len(p)] = t
    /\ \A k \in 1..(Len(p) - 1) : <<p[k + 1], p[k]>> \in edges

LEMMA ChainGrows ==
  ASSUME NEW T, NEW edges, NEW p, NEW d, Chain(p, d, T, edges), NEW t \in T, <<t, d>> \in edges
  PROVE  Chain(Append(p, t), t, T, edges) /\ Len(Append(p, t)) = Len(p) + 1
<1>1. PICK n \in Nat : n = Len(p) /\ n > 0
  BY DEF Chain
<1>2. p \in Seq(T) /\ p[n] = d
  BY <1>1 DEF Chain
<1>3. PICK q : q = Append(p, t)
  OBVIOUS
<1>4. q \in Seq(T) /\ Len(q) = n + 1 /\ q[n + 1] = t /\ \A k \in 1..n : q[k] = p[k]
  BY <1>1, <1>2, <1>3
<1>5. ASSUME NEW k \in 1..n PROVE <<q[k + 1], q[k]>> \in edges
  <2>1. CASE k = n
    BY <1>2, <1>4, <2>1
  <2>2. CASE k # n
    <3>1. k \in 1..(n - 1) /\ k + 1 \in 1..n
      BY <2>2
    <3>2. <<p[k + 1], p[k]>> \in edges
      BY <1>1, <3>1 DEF Chain
    <3>3. QED
      BY <1>4, <3>1, <3>2
  <2>3. QED
    BY <2>1, <2>2
<1>6. QED
  BY <1>1, <1>3, <1>4, <1>5 DEF Chain

\* What satisfies the recursion, where it stays among the chains of tasks.
PathsHold(T, edges, f) ==
    \A t \in T :
        f[t] # PathStep(T, edges, f, t) =>
            DependsOn(edges, t) # {} /\ LongestBelow(edges, f, t) \notin Seq(T)

\* Each task has a chain as long as the number of its wave.
ChainsFor(T, edges, w, f) ==
    \A t \in T :
        /\ Chain(f[t], t, T, edges)
        /\ Len(f[t]) = w[t]
        /\ (DependsOn(edges, t) # {} => LongestBelow(edges, f, t) \in Seq(T))

\* Whatever satisfies the recursion gives each task a chain as long as the
\* number of its wave.
LEMMA PathsAreChains ==
  ASSUME NEW T, NEW edges, edges \subseteq T \X T, NEW depth \in Nat,
         NEW w, Layers(w, depth, T, Graph(T, edges)), NEW f, PathsHold(T, edges, f)
  PROVE  ChainsFor(T, edges, w, f)
<1>0. ASSUME NEW t \in T, \/ DependsOn(edges, t) = {}
                           \/ LongestBelow(edges, f, t) \in Seq(T)
      PROVE  f[t] = PathStep(T, edges, f, t)
  BY <1>0 DEF PathsHold
<1> DEFINE Done(t) == /\ Chain(f[t], t, T, edges) /\ Len(f[t]) = w[t]
                      /\ DependsOn(edges, t) # {} =>
                            Longest({f[d] : d \in DependsOn(edges, t)}) \in Seq(T)
           Good(k) == \A t \in T : w[t] <= k => Done(t)
           P == {k \in Nat : Good(k)}
<1>1. /\ w \in [T -> 1..depth]
      /\ \A t \in T : \A d \in DependsOn(edges, t) : d \in T /\ w[d] < w[t]
      /\ \A t \in T : w[t] # 1 => \E d \in DependsOn(edges, t) : w[d] = w[t] - 1
      /\ \A t \in T : \A d \in DependsOn(edges, t) : <<t, d>> \in edges
  BY GraphOf DEF Layers
<1>2. 0 \in P
  BY <1>1
<1>3. ASSUME NEW k \in P PROVE k + 1 \in P
  <2>k. k \in Nat /\ k + 1 \in Nat /\ \A u \in T : w[u] <= k => Done(u)
    <3> HIDE DEF Done
    <3>1. QED
      OBVIOUS
  <2> SUFFICES ASSUME NEW t \in T, w[t] <= k + 1 PROVE Done(t)
    <3> HIDE DEF Done
    <3>1. QED
      BY <2>k
  <2>1. CASE DependsOn(edges, t) = {}
    <3>1. f[t] = <<t>> /\ w[t] = 1
      BY <1>0, <1>1, <2>1 DEF PathStep
    <3>2. QED
      BY <2>1, <3>1 DEF Chain
  <2>2. CASE DependsOn(edges, t) # {}
    <3> DEFINE paths == {f[d] : d \in DependsOn(edges, t)}
    <3>1. ASSUME NEW d \in DependsOn(edges, t)
          PROVE  /\ d \in T /\ <<t, d>> \in edges /\ w[d] \in 1..depth /\ w[d] <= w[t] - 1
                 /\ Chain(f[d], d, T, edges) /\ Len(f[d]) = w[d]
      <4>1. d \in T /\ w[d] < w[t] /\ w[d] \in 1..depth /\ w[t] \in 1..depth /\ <<t, d>> \in edges
        BY <1>1
      <4>2. w[d] <= k
        BY <4>1, <2>k
      <4>3. Done(d)
        <5> HIDE DEF Done
        <5>1. QED
          BY <4>1, <4>2, <2>k
      <4>4. QED
        BY <4>1, <4>3
    <3>2. w[t] # 1 /\ w[t] \in 1..depth
      BY <1>1, <2>2, <3>1
    <3>3. PICK first \in DependsOn(edges, t) : w[first] = w[t] - 1
      BY <1>1, <3>2
    <3>4. \A q \in paths : Len(q) <= Len(f[first])
      BY <3>1, <3>3
    <3>5. PICK last \in DependsOn(edges, t) :
            Longest(paths) = f[last] /\ Len(f[first]) <= Len(f[last])
      <4>1. f[first] \in paths
        OBVIOUS
      <4>2. Longest(paths) \in paths /\ \A q \in paths : Len(q) <= Len(Longest(paths))
        <5> HIDE DEF paths
        <5>1. QED
          BY <3>4, <4>1, LongestOf
      <4>3. QED
        BY <4>1, <4>2
    <3>6. Len(f[last]) = w[t] - 1 /\ Chain(f[last], last, T, edges) /\ <<t, last>> \in edges
      <4>1. /\ w[last] \in 1..depth /\ w[last] <= w[t] - 1 /\ Len(f[last]) = w[last]
            /\ Len(f[first]) = w[t] - 1 /\ Chain(f[last], last, T, edges) /\ <<t, last>> \in edges
        BY <3>1, <3>3
      <4>2. Len(f[last]) = w[t] - 1
        BY <3>2, <3>5, <4>1
      <4>3. QED
        BY <4>1, <4>2
    <3>7. Longest(paths) \in Seq(T)
      BY <3>5, <3>6 DEF Chain
    <3>8. f[t] = Append(f[last], t)
      <4>1. LongestBelow(edges, f, t) \in Seq(T)
        BY <3>7 DEF LongestBelow
      <4>2. f[t] = PathStep(T, edges, f, t)
        BY <1>0, <4>1
      <4>3. QED
        BY <2>2, <3>5, <4>2 DEF PathStep, LongestBelow
    <3>9. Chain(f[t], t, T, edges) /\ Len(f[t]) = w[t]
      BY <3>2, <3>6, <3>8, ChainGrows
    <3>10. QED
      BY <3>7, <3>9
  <2>3. QED
    BY <2>1, <2>2
<1>4. Good(depth)
  <2> HIDE DEF Good
  <2>1. P = Nat
    BY <1>2, <1>3, Induction
  <2>2. QED
    BY <2>1
<1>5. \A t \in T : Done(t)
  <2>1. \A t \in T : w[t] <= depth
    BY <1>1
  <2> HIDE DEF Done
  <2>2. QED
    BY <1>4, <2>1
<1>6. QED
  BY <1>5 DEF ChainsFor, LongestBelow

\* The step of the recursion, where it stays among the chains of tasks.
PathWithin(T, edges, f, t) ==
    IF DependsOn(edges, t) = {} \/ LongestBelow(edges, f, t) \notin Seq(T) THEN <<t>>
    ELSE Append(LongestBelow(edges, f, t), t)

LEMMA PathsFound ==
  ASSUME NEW T, NEW edges, edges \subseteq T \X T, NEW depth \in Nat,
         NEW w, Layers(w, depth, T, Graph(T, edges))
  PROVE  PathsTo(T, edges) = [t \in T |-> PathStep(T, edges, PathsTo(T, edges), t)]
<1>0. PICK deps : deps = Graph(T, edges)
  OBVIOUS
<1>1. /\ w \in [T -> 1..depth]
      /\ \A t \in T : deps[t] = DependsOn(edges, t) 
      /\ \A t \in T : \A d \in deps[t] : d \in T /\ w[d] < w[t]
  BY <1>0, GraphOf DEF Layers
<1>2. Falls(w, depth, T, deps)
  <2>1. w \in [T -> 0..depth]
    BY <1>1
  <2>2. QED
    BY <1>1, <2>1 DEF Falls
<1> DEFINE V == Seq(T)
           step == [f \in [T -> V] |-> [t \in T |-> PathWithin(T, edges, f, t)]]
<1>3. Local(step, T, deps, V)
  <2>1. ASSUME NEW f \in [T -> V], NEW t \in T PROVE PathWithin(T, edges, f, t) \in V
    <3>1. PICK p : p = LongestBelow(edges, f, t)
      OBVIOUS
    <3>2. p \in Seq(T) => Append(p, t) \in Seq(T)
      OBVIOUS
    <3>3. <<t>> \in Seq(T)
      OBVIOUS
    <3>4. QED
      BY <3>1, <3>2, <3>3 DEF PathWithin
  <2>2. ASSUME NEW f \in [T -> V], NEW g \in [T -> V], NEW t \in T,
               \A d \in deps[t] : f[d] = g[d]
        PROVE  PathWithin(T, edges, f, t) = PathWithin(T, edges, g, t)
    <3>1. LongestBelow(edges, f, t) = LongestBelow(edges, g, t)
      <4>1. {f[d] : d \in DependsOn(edges, t)} = {g[d] : d \in DependsOn(edges, t)}
        BY <1>1, <2>2
      <4>2. QED
        BY <4>1 DEF LongestBelow
    <3>2. QED
      BY <3>1 DEF PathWithin
  <2>3. QED
    BY <2>1, <2>2 DEF Local
<1>4. PICK f \in [T -> V] : f = step[f]
  <2>1. PICK first \in [T -> V] : TRUE
    <3>1. [t \in T |-> <<t>>] \in [T -> V]
      OBVIOUS
    <3>2. QED
      BY <3>1
  <2> HIDE DEF step, V
  <2>2. QED
    BY <1>2, <1>3, <2>1, FixedPoint
<1>5. ASSUME NEW t \in T PROVE f[t] = PathWithin(T, edges, f, t)
  BY <1>4
<1>6. PathsHold(T, edges, f)
  BY <1>5 DEF PathsHold, PathWithin, PathStep
<1>7. ChainsFor(T, edges, w, f)
  BY <1>6, PathsAreChains
<1>8. \A t \in T : f[t] = PathStep(T, edges, f, t)
  BY <1>6, <1>7 DEF PathsHold, ChainsFor
<1> DEFINE Is(a) == a = [t \in T |-> PathStep(T, edges, a, t)]
<1>9. Is(f)
  <2>1. f = [t \in T |-> f[t]]
    OBVIOUS
  <2>2. QED
    BY <1>8, <2>1
<1>10. PathsTo(T, edges) = CHOOSE a : Is(a)
  BY DEF PathsTo
<1>11. Is(PathsTo(T, edges))
  <2> HIDE DEF Is
  <2>1. QED
    BY <1>9, <1>10
<1>12. QED
  BY <1>11

\* The critical path is a chain of dependencies, as long as there are waves
\* (_critical_path).
LEMMA CriticalOfLayers ==
  ASSUME NEW T, NEW edges, edges \subseteq T \X T, NEW depth \in Nat,
         NEW w, Layers(w, depth, T, Graph(T, edges))
  PROVE  /\ Len(CriticalPath(T, edges)) = depth
         /\ \A k \in 1..(depth - 1) :
                <<CriticalPath(T, edges)[k + 1], CriticalPath(T, edges)[k]>> \in edges
<1>1. /\ w \in [T -> 1..depth]
      /\ \A k \in 1..depth : \E t \in T : w[t] = k
  BY DEF Layers
<1>2. CASE T = {}
  <2>1. depth = 0
    <3>1. ~(1 \in 1..depth)
      BY <1>1, <1>2
    <3>2. QED
      BY <3>1
  <2>2. CriticalPath(T, edges) = <<>>
    BY <1>2 DEF CriticalPath
  <2>3. QED
    BY <2>1, <2>2
<1>3. CASE T # {}
  <2>1. PICK f : f = PathsTo(T, edges)
    OBVIOUS
  <2>2. \A t \in T : f[t] = PathStep(T, edges, f, t)
    <3>1. f = [t \in T |-> PathStep(T, edges, f, t)]
      BY <2>1, PathsFound
    <3>2. QED
      BY <3>1
  <2>3. \A t \in T : Chain(f[t], t, T, edges) /\ Len(f[t]) = w[t]
    <3>1. PathsHold(T, edges, f)
      BY <2>2 DEF PathsHold
    <3>2. ChainsFor(T, edges, w, f)
      BY <3>1, PathsAreChains
    <3>3. QED
      BY <3>2 DEF ChainsFor
  <2> DEFINE paths == {f[t] : t \in T}
  <2>4. PICK first \in T : w[first] = depth
    <3>1. PICK u \in T : w[u] \in 1..depth
      BY <1>1, <1>3
    <3>2. depth \in 1..depth
      BY <3>1
    <3>3. QED
      BY <1>1, <3>2
  <2>5. f[first] \in paths /\ \A q \in paths : Len(q) <= Len(f[first])
    BY <1>1, <2>3, <2>4
  <2>6. PICK last \in T : Longest(paths) = f[last] /\ Len(f[first]) <= Len(f[last])
    <3>1. Longest(paths) \in paths /\ \A q \in paths : Len(q) <= Len(Longest(paths))
      <4> HIDE DEF paths
      <4>1. QED
        BY <2>5, LongestOf
    <3>2. QED
      BY <2>5, <3>1
  <2>7. Len(f[last]) = depth
    <3>1. w[last] \in 1..depth /\ Len(f[last]) = w[last] /\ Len(f[first]) = depth
      BY <1>1, <2>3, <2>4
    <3>2. QED
      BY <2>6, <3>1
  <2>8. CriticalPath(T, edges) = f[last]
    BY <1>3, <2>1, <2>6, CriticalMeans
  <2>9. QED
    BY <2>3, <2>7, <2>8 DEF Chain
<1>4. QED
  BY <1>2, <1>3

-----------------------------------------------------------------------------
(* Plans on a graph.                                                       *)

LEMMA MaxIs ==
  ASSUME NEW S, S \subseteq Int, NEW m \in S, \A x \in S : x <= m
  PROVE  Max(S) = m
<1>1. \A y \in S : m >= y
  OBVIOUS
<1>2. Max(S) \in S /\ \A y \in S : Max(S) >= y
  BY <1>1 DEF Max
<1>3. PICK n \in S : n = Max(S)
  BY <1>2
<1>4. n \in Int /\ m \in Int
  OBVIOUS
<1>5. QED
  BY <1>2, <1>3, <1>4

LEMMA MinIs ==
  ASSUME NEW S, S \subseteq Int, NEW m \in S, \A x \in S : m <= x
  PROVE  Min(S) = m
<1>1. \A y \in S : m =< y
  OBVIOUS
<1>2. Min(S) \in S /\ \A y \in S : Min(S) =< y
  BY <1>1 DEF Min
<1>3. PICK n \in S : n = Min(S)
  BY <1>2
<1>4. n \in Int /\ m \in Int
  OBVIOUS
<1>5. QED
  BY <1>2, <1>3, <1>4

\* What a plan is of: its tasks, an acyclic graph on them, and their order.
Orderly(plan, T, edges) ==
    /\ plan.tasks = T /\ plan.edges = edges
    /\ plan.waves = Waves(T, edges) /\ plan.critical = CriticalPath(T, edges)

\* A plan on a graph without a cycle is in order (_implementation_waves,
\* _critical_path).
LEMMA GraphOrdered ==
  ASSUME NEW T, IsFiniteSet(T), NEW edges, edges \subseteq T \X T, ~Cyclic(Graph(T, edges)),
         NEW plan, Orderly(plan, T, edges)
  PROVE  Ordered(plan)
<1>1. Acyclic(T, Graph(T, edges))
  BY NoCycle, GraphOf
<1>2. PICK depth \in Nat : \E w :
        /\ DOMAIN Waves(T, edges) = 1..depth /\ Len(Waves(T, edges)) = depth
        /\ Layers(w, depth, T, Graph(T, edges))
        /\ \A k \in 1..depth : Waves(T, edges)[k] = {t \in T : w[t] = k}
  BY <1>1, WavesLayered
<1>3. PICK w :
        /\ DOMAIN Waves(T, edges) = 1..depth /\ Len(Waves(T, edges)) = depth
        /\ Layers(w, depth, T, Graph(T, edges))
        /\ \A k \in 1..depth : Waves(T, edges)[k] = {t \in T : w[t] = k}
  BY <1>2
<1>4. /\ w \in [T -> 1..depth]
      /\ \A t \in T : \A d \in DependsOn(edges, t) : d \in T /\ w[d] < w[t]
      /\ \A t \in T : w[t] # 1 => \E d \in DependsOn(edges, t) : w[d] = w[t] - 1
  BY <1>3, GraphOf DEF Layers
<1>5. PICK waves : waves = Waves(T, edges)
  OBVIOUS
<1>6. plan.tasks = T /\ plan.edges = edges /\ plan.waves = waves
  BY <1>5 DEF Orderly
<1>7. ASSUME NEW t \in T PROVE {k \in DOMAIN waves : t \in waves[k]} = {w[t]}
  <2>1. w[t] \in 1..depth /\ DOMAIN waves = 1..depth
    BY <1>3, <1>4, <1>5
  <2>2. \A k \in 1..depth : t \in waves[k] <=> w[t] = k
    BY <1>3, <1>5
  <2>3. QED
    BY <2>1, <2>2
<1>8. ASSUME NEW t \in T PROVE Cardinality({k \in DOMAIN waves : t \in waves[k]}) = 1
  BY <1>7, FS_Singleton
<1>9. ASSUME NEW t \in T PROVE WaveOf(plan, t) = w[t]
  <2>1. \A k : k \in DOMAIN waves /\ t \in waves[k] <=> k = w[t]
    BY <1>7
  <2>2. QED
    BY <1>6, <2>1 DEF WaveOf
<1>10. ASSUME NEW t \in T
       PROVE  WaveOf(plan, t) = 1 + Max({0} \cup {WaveOf(plan, d) : d \in DependsOn(edges, t)})
  <2> DEFINE S == {0} \cup {w[d] : d \in DependsOn(edges, t)}
  <2>1. \A d \in DependsOn(edges, t) : d \in T /\ w[d] \in 1..depth /\ w[d] < w[t]
    BY <1>4
  <2>2. {WaveOf(plan, d) : d \in DependsOn(edges, t)} = {w[d] : d \in DependsOn(edges, t)}
    BY <1>9, <2>1
  <2>3. w[t] \in 1..depth /\ w[t] - 1 \in Int
    BY <1>4
  <2>4. S \subseteq Int /\ \A x \in S : x <= w[t] - 1
    BY <2>1, <2>3
  <2>5. w[t] - 1 \in S
    <3>1. CASE w[t] = 1
      BY <3>1
    <3>2. CASE w[t] # 1
      BY <1>4, <3>2
    <3>3. QED
      BY <3>1, <3>2
  <2>6. Max(S) = w[t] - 1
    <3> HIDE DEF S
    <3>1. QED
      BY <2>4, <2>5, MaxIs
  <2>7. Max({0} \cup {WaveOf(plan, d) : d \in DependsOn(edges, t)}) = w[t] - 1
    BY <2>2, <2>6
  <2>8. QED
    BY <1>9, <2>3, <2>7
<1>11. /\ Len(CriticalPath(T, edges)) = depth
       /\ \A k \in 1..(depth - 1) :
                <<CriticalPath(T, edges)[k + 1], CriticalPath(T, edges)[k]>> \in edges
  BY <1>3, CriticalOfLayers
<1>12. PICK critical : critical = CriticalPath(T, edges)
  OBVIOUS
<1>13. plan.critical = critical
  BY <1>12 DEF Orderly
<1>14. Len(waves) = depth
  BY <1>3, <1>5
<1>15. QED
  BY <1>6, <1>8, <1>10, <1>11, <1>12, <1>13, <1>14 DEF Ordered

-----------------------------------------------------------------------------
(* The order of the batches.                                               *)

Flat(seqs) ==
    CHOOSE flat : flat = [i \in 1..Len(seqs) |->
                            IF i = 1 THEN seqs[i] ELSE flat[i - 1] \o seqs[i]]

LEMMA FlattenMeans ==
  ASSUME NEW seqs
  PROVE  FlattenSeq(seqs) = IF Len(seqs) = 0 THEN seqs ELSE Flat(seqs)[Len(seqs)]
  BY DEF FlattenSeq, Flat

\* The tasks up to a wave, each once, none after one of a later wave.
RunsTo(s, k, T, w) ==
    /\ s \in Seq(T)
    /\ \A t \in T : w[t] <= k => \E i \in 1..Len(s) : s[i] = t
    /\ \A i \in 1..Len(s) : w[s[i]] <= k
    /\ \A i, j \in 1..Len(s) : i < j => s[i] # s[j] /\ w[s[i]] <= w[s[j]]

\* A wave, in order.
Lists(q, S) ==
    /\ q \in Seq(S)
    /\ \A t \in S : \E i \in 1..Len(q) : q[i] = t
    /\ \A i, j \in 1..Len(q) : i < j => q[i] # q[j]

LEMMA WaveAppended ==
  ASSUME NEW T, NEW depth \in Nat, NEW w \in [T -> 1..depth], NEW k \in 1..depth, NEW s, NEW q,
         RunsTo(s, k - 1, T, w), Lists(q, {t \in T : w[t] = k})
  PROVE  RunsTo(s \o q, k, T, w)
<1>1. PICK n \in Nat : n = Len(s)
  BY DEF RunsTo
<1>2. PICK m \in Nat : m = Len(q)
  BY DEF Lists
<1>3. PICK r : r = s \o q
  OBVIOUS
<1>4. s \in Seq(T) /\ q \in Seq(T)
  <2>1. {t \in T : w[t] = k} \subseteq T
    OBVIOUS
  <2>2. q \in Seq({t \in T : w[t] = k})
    BY DEF Lists
  <2>3. q \in Seq(T)
    BY <2>1, <2>2
  <2>4. QED
    BY <2>3 DEF RunsTo
<1>5. /\ r \in Seq(T) /\ Len(r) = n + m
      /\ \A i \in 1..n : r[i] = s[i]
      /\ \A i \in 1..m : r[n + i] = q[i]
  BY <1>1, <1>2, <1>3, <1>4
<1>6. \A i \in 1..m : q[i] \in T /\ w[q[i]] = k
  <2>1. q \in Seq({t \in T : w[t] = k})
    BY DEF Lists
  <2>2. ASSUME NEW i \in 1..m PROVE q[i] \in {t \in T : w[t] = k}
    BY <1>2, <2>1
  <2>3. QED
    BY <2>2
<1>7. \A i \in 1..n : s[i] \in T /\ w[s[i]] <= k - 1 /\ w[s[i]] \in 1..depth
  BY <1>1, <1>4 DEF RunsTo
<1>8. ASSUME NEW i \in 1..(n + m)
      PROVE  \/ i \in 1..n /\ r[i] = s[i] /\ w[r[i]] <= k - 1 /\ w[r[i]] \in 1..depth
             \/ i - n \in 1..m /\ r[i] = q[i - n] /\ w[r[i]] = k
  <2>1. CASE i <= n
    BY <1>5, <1>7, <2>1
  <2>2. CASE ~(i <= n)
    <3>1. i - n \in 1..m /\ n + (i - n) = i
      BY <2>2
    <3>2. QED
      BY <1>5, <1>6, <3>1
  <2>3. QED
    BY <2>1, <2>2
<1>9. ASSUME NEW t \in T, w[t] <= k PROVE \E i \in 1..(n + m) : r[i] = t
  <2>1. CASE w[t] <= k - 1
    <3>1. PICK i \in 1..n : s[i] = t
      BY <1>1, <2>1 DEF RunsTo
    <3>2. QED
      BY <1>5, <3>1
  <2>2. CASE w[t] = k
    <3>1. PICK i \in 1..m : q[i] = t
      BY <1>2, <2>2 DEF Lists
    <3>2. n + i \in 1..(n + m)
      OBVIOUS
    <3>3. QED
      BY <1>5, <3>1, <3>2
  <2>3. QED
    BY <1>9, <2>1, <2>2
<1>10. ASSUME NEW i \in 1..(n + m) PROVE w[r[i]] <= k
  BY <1>8
<1>11. ASSUME NEW i \in 1..(n + m), NEW j \in 1..(n + m), i < j
       PROVE  r[i] # r[j] /\ w[r[i]] <= w[r[j]]
  <2>1. CASE i \in 1..n /\ j \in 1..n
    BY <1>1, <1>5, <1>11, <2>1 DEF RunsTo
  <2>2. CASE i \in 1..n /\ j \notin 1..n
    <3>1. r[i] = s[i] /\ w[r[i]] <= k - 1 /\ w[r[i]] \in 1..depth
      BY <1>5, <1>7, <2>2
    <3>2. w[r[j]] = k
      BY <1>8, <2>2
    <3>3. QED
      BY <3>1, <3>2
  <2>3. CASE i \notin 1..n
    <3>1. j \notin 1..n
      BY <1>11, <2>3
    <3>2. /\ i - n \in 1..m /\ r[i] = q[i - n] /\ w[r[i]] = k
          /\ j - n \in 1..m /\ r[j] = q[j - n] /\ w[r[j]] = k
      BY <1>8, <2>3, <3>1
    <3>3. i - n < j - n
      BY <1>11
    <3>4. q[i - n] # q[j - n]
      BY <1>2, <3>2, <3>3 DEF Lists
    <3>5. QED
      BY <3>2, <3>4
  <2>4. QED
    BY <2>1, <2>2, <2>3
<1>12. RunsTo(r, k, T, w)
  BY <1>5, <1>9, <1>10, <1>11 DEF RunsTo
<1>13. QED
  BY <1>3, <1>12

\* Waves that are listed one after the other are a run of all tasks
\* (the order of the batches, in dry_run_evaluated_plan).
LEMMA FlatRuns ==
  ASSUME NEW T, NEW depth \in Nat, NEW w \in [T -> 1..depth], NEW seqs,
         DOMAIN seqs = 1..depth, Len(seqs) = depth,
         \A k \in 1..depth : Lists(seqs[k], {t \in T : w[t] = k}),
         depth = 0 => seqs = <<>>
  PROVE  RunsTo(FlattenSeq(seqs), depth, T, w)
<1> DEFINE X == Seq(T)
           step == [k \in 1..depth |-> [s \in X |-> s \o seqs[k]]]
<1>1. ASSUME NEW k \in 1..depth PROVE seqs[k] \in Seq(T)
  <2>1. {t \in T : w[t] = k} \subseteq T
    OBVIOUS
  <2>2. seqs[k] \in Seq({t \in T : w[t] = k})
    BY DEF Lists
  <2>3. QED
    BY <2>1, <2>2
<1>2. step \in [1..depth -> [X -> X]]
  <2>1. ASSUME NEW k \in 1..depth, NEW s \in X PROVE s \o seqs[k] \in X
    BY <1>1
  <2>2. QED
    BY <2>1
<1>3. PICK h : Follows(h, depth, X, <<>>, step)
  <2>1. <<>> \in X
    OBVIOUS
  <2>2. PICK none : none = <<>>
    OBVIOUS
  <2> HIDE DEF X, step
  <2>3. \E h : Follows(h, depth, X, none, step)
    BY <1>2, <2>1, <2>2, Recursion
  <2>4. QED
    BY <2>2, <2>3
<1>4. h \in [0..depth -> X] /\ h[0] = <<>> /\ \A k \in 1..depth : h[k] = h[k - 1] \o seqs[k]
  <2>1. h \in [0..depth -> X] /\ h[0] = <<>> /\ \A k \in 1..depth : h[k] = step[k][h[k - 1]]
    BY <1>3 DEF Follows
  <2>2. ASSUME NEW k \in 1..depth PROVE h[k] = h[k - 1] \o seqs[k]
    <3>1. h[k - 1] \in X
      BY <2>1
    <3>2. QED
      BY <2>1, <3>1
  <2>3. QED
    BY <2>1, <2>2
<1> DEFINE P == {k \in Nat : k <= depth => RunsTo(h[k], k, T, w)}
<1>5. 0 \in P
  BY <1>4 DEF RunsTo
<1>6. ASSUME NEW k \in P PROVE k + 1 \in P
  <2> SUFFICES ASSUME k + 1 <= depth PROVE RunsTo(h[k + 1], k + 1, T, w)
    OBVIOUS
  <2>1. PICK j \in 1..depth : j = k + 1 /\ j - 1 = k
    OBVIOUS
  <2>2. RunsTo(h[j - 1], j - 1, T, w)
    BY <2>1
  <2>3. h[j] = h[j - 1] \o seqs[j] /\ Lists(seqs[j], {t \in T : w[t] = j})
    BY <1>4
  <2>4. RunsTo(h[j], j, T, w)
    BY <2>2, <2>3, WaveAppended
  <2>5. QED
    BY <2>1, <2>4
<1>7. RunsTo(h[depth], depth, T, w)
  <2>1. P = Nat
    <3> HIDE DEF P
    <3>1. QED
      BY <1>5, <1>6, Induction DEF P
  <2>2. QED
    BY <2>1
<1>8. CASE depth = 0
  <2>1. FlattenSeq(seqs) = <<>>
    BY <1>8, FlattenMeans
  <2>2. QED
    BY <1>4, <1>7, <1>8, <2>1
<1>9. CASE depth # 0
  <2> DEFINE Next1(f, i) == IF i = 1 THEN seqs[i] ELSE f[i - 1] \o seqs[i]
             Is(f) == f = [i \in 1..depth |-> Next1(f, i)]
  <2>1. PICK g : g = [i \in 1..depth |-> h[i]]
    OBVIOUS
  <2>2. ASSUME NEW i \in 1..depth PROVE h[i] = Next1(g, i)
    <3>1. CASE i = 1
      <4>1. h[i] = h[0] \o seqs[i]
        <5>1. i - 1 = 0
          BY <3>1
        <5>2. h[i] = h[i - 1] \o seqs[i]
          BY <1>4
        <5>3. QED
          BY <5>1, <5>2
      <4>2. <<>> \o seqs[i] = seqs[i]
        BY <1>1
      <4>3. QED
        BY <1>4, <3>1, <4>1, <4>2
    <3>2. CASE i # 1
      <4>1. i - 1 \in 1..depth
        BY <3>2
      <4>2. g[i - 1] = h[i - 1]
        BY <2>1, <4>1
      <4>3. QED
        BY <1>4, <3>2, <4>2
    <3>3. QED
      BY <3>1, <3>2
  <2>3. Is(g)
    <3> HIDE DEF Next1
    <3>1. QED
      BY <2>1, <2>2
  <2>4. Flat(seqs) = CHOOSE f : Is(f)
    BY DEF Flat
  <2>5. Is(Flat(seqs))
    <3> HIDE DEF Is
    <3>1. QED
      BY <2>3, <2>4
  <2>6. PICK flat : flat = Flat(seqs)
    OBVIOUS
  <2>7. \A i \in 1..depth : flat[i] = Next1(flat, i)
    <3> HIDE DEF Next1
    <3>1. flat = [i \in 1..depth |-> Next1(flat, i)]
      BY <2>5, <2>6
    <3>2. QED
      BY <3>1
  <2> DEFINE Same(i) == flat[i] = h[i]
             Q == {k \in Nat : k + 1 <= depth => Same(k + 1)}
  <2>8. 0 \in Q
    <3>1. 1 \in 1..depth
      BY <1>9
    <3>2. flat[1] = seqs[1] /\ h[1] = seqs[1]
      BY <2>2, <2>7, <3>1
    <3>3. QED
      BY <3>2
  <2>9. ASSUME NEW k \in Q PROVE k + 1 \in Q
    <3> SUFFICES ASSUME (k + 1) + 1 <= depth PROVE Same((k + 1) + 1)
      OBVIOUS
    <3>1. PICK j \in 1..depth : j = (k + 1) + 1 /\ j # 1 /\ j - 1 \in 1..depth /\ j - 1 = k + 1
      OBVIOUS
    <3>2. flat[j - 1] = h[j - 1]
      BY <3>1
    <3>3. flat[j] = flat[j - 1] \o seqs[j] /\ h[j] = h[j - 1] \o seqs[j]
      BY <1>4, <2>7, <3>1
    <3>4. QED
      BY <3>1, <3>2, <3>3
  <2>10. Same(depth)
    <3>1. Q = Nat
      <4> HIDE DEF Q
      <4>1. QED
        BY <2>8, <2>9, Induction DEF Q
    <3>2. depth - 1 \in Nat /\ (depth - 1) + 1 = depth
      BY <1>9
    <3>3. QED
      BY <3>1, <3>2
  <2>11. FlattenSeq(seqs) = Flat(seqs)[depth]
    BY <1>9, FlattenMeans
  <2>12. QED
    BY <1>7, <2>6, <2>10, <2>11
<1>10. QED
  BY <1>8, <1>9

\* A run of all tasks, in which a task comes after what it depends on.
Runs(order, T, edges) ==
    /\ order \in Seq(T)
    /\ \A t \in T : \E i \in 1..Len(order) : order[i] = t
    /\ \A i, j \in 1..Len(order) : i < j => order[i] # order[j]
    /\ \A i, j \in 1..Len(order) : <<order[i], order[j]>> \in edges => j < i

LEMMA ListedWave ==
  ASSUME NEW S, Named(S)
  PROVE  Lists(InIdOrder(S), S)
<1>1. PICK n \in Nat : n = Cardinality(S)
  BY FS_CardinalityType DEF Named
<1>2. PICK q : q = InIdOrder(S)
  OBVIOUS
<1>3. /\ q \in [1..n -> S]
      /\ \A t \in S : \E i \in 1..n : q[i] = t
      /\ \A i, j \in 1..n : q[i] = q[j] => i = j
  BY <1>1, <1>2, Listed
<1>4. q \in Seq(S) /\ Len(q) = n
  BY <1>3, ListedLength
<1>5. QED
  BY <1>2, <1>3, <1>4 DEF Lists

LEMMA RunOrderRuns ==
  ASSUME NEW T, Named(T), NEW edges, edges \subseteq T \X T, ~Cyclic(Graph(T, edges)),
         NEW plan, Orderly(plan, T, edges)
  PROVE  Runs(RunOrder(plan), T, edges)
<1>1. IsFiniteSet(T)
  BY DEF Named
<1>2. PICK depth \in Nat : \E w :
        /\ DOMAIN Waves(T, edges) = 1..depth /\ Len(Waves(T, edges)) = depth
        /\ Layers(w, depth, T, Graph(T, edges))
        /\ \A k \in 1..depth : Waves(T, edges)[k] = {t \in T : w[t] = k}
  BY <1>1, WavesLayered
<1>3. PICK w :
        /\ DOMAIN Waves(T, edges) = 1..depth /\ Len(Waves(T, edges)) = depth
        /\ Layers(w, depth, T, Graph(T, edges))
        /\ \A k \in 1..depth : Waves(T, edges)[k] = {t \in T : w[t] = k}
  BY <1>2
<1>4. /\ w \in [T -> 1..depth]
      /\ \A t \in T : \A d \in DependsOn(edges, t) : d \in T /\ w[d] < w[t]
  BY <1>3, GraphOf DEF Layers
<1>5. PICK waves : waves = Waves(T, edges) /\ plan.waves = waves /\ plan.edges = edges
  BY DEF Orderly
<1>6. PICK seqs : seqs = [k \in 1..depth |-> InIdOrder(waves[k])]
  OBVIOUS
<1>7. RunOrder(plan) = FlattenSeq(seqs)
  BY <1>3, <1>5, <1>6 DEF RunOrder
<1>8. ASSUME NEW k \in 1..depth PROVE Lists(seqs[k], {t \in T : w[t] = k})
  <2>1. seqs[k] = InIdOrder(waves[k]) /\ waves[k] = {t \in T : w[t] = k}
    BY <1>3, <1>5, <1>6
  <2>2. Named(waves[k])
    BY <2>1, FS_Subset DEF Named
  <2>3. QED
    BY <2>1, <2>2, ListedWave
<1>9. DOMAIN seqs = 1..depth /\ Len(seqs) = depth /\ (depth = 0 => seqs = <<>>)
  <2>1. PICK X : X = {seqs[k] : k \in 1..depth}
    OBVIOUS
  <2>2. seqs \in [1..depth -> X]
    BY <1>6, <2>1
  <2>3. seqs \in Seq(X) /\ Len(seqs) = depth
    BY <2>2, ListedLength
  <2>4. depth = 0 => seqs = <<>>
    BY <2>3
  <2>5. QED
    BY <1>6, <2>3, <2>4
<1>10. PICK order : order = RunOrder(plan)
  OBVIOUS
<1>11. RunsTo(order, depth, T, w)
  BY <1>4, <1>7, <1>8, <1>9, <1>10, FlatRuns
<1>12. PICK n \in Nat : n = Len(order)
  BY <1>11 DEF RunsTo
<1>13. order \in Seq(T) /\ \A i \in 1..n : order[i] \in T /\ w[order[i]] \in 1..depth
  BY <1>4, <1>11, <1>12 DEF RunsTo
<1>14. \A t \in T : \E i \in 1..n : order[i] = t
  BY <1>4, <1>11, <1>12 DEF RunsTo
<1>15. \A i, j \in 1..n : i < j => order[i] # order[j] /\ w[order[i]] <= w[order[j]]
  BY <1>11, <1>12 DEF RunsTo
<1>16. ASSUME NEW i \in 1..n, NEW j \in 1..n, <<order[i], order[j]>> \in edges PROVE j < i
  <2>1. order[j] \in DependsOn(edges, order[i])
    BY <1>13, <1>16, GraphOf
  <2>2. w[order[j]] < w[order[i]]
    BY <1>4, <1>13, <2>1
  <2>3. ~(i < j) /\ i # j
    BY <1>13, <1>15, <2>2
  <2>4. QED
    BY <2>3
<1>17. QED
  BY <1>10, <1>12, <1>13, <1>14, <1>15, <1>16 DEF Runs

-----------------------------------------------------------------------------
(* Batches.                                                                *)

\* The gate that the last of the batches ends with.
GateOfLast(batches) == IF batches = <<>> THEN NoGate ELSE batches[Len(batches)].gate

FlushedBatch(s) ==
    IF s.current = <<>> THEN s
    ELSE [batches |-> Append(s.batches, [tasks |-> s.current, gate |-> NoGate,
                                         resume |-> s.resume]),
          current |-> <<>>, resume |-> NoGate]

PlacedTask(s, t, gates) ==
    IF t \in gates
    THEN [batches |-> Append(FlushedBatch(s).batches,
                             [tasks |-> <<t>>, gate |-> t, resume |-> t]),
          current |-> <<>>, resume |-> t]
    ELSE [s EXCEPT !.current = Append(@, t)]

NothingPlaced == [batches |-> <<>>, current |-> <<>>, resume |-> NoGate]

PlacedTasks(order, gates) ==
    CHOOSE placed : placed =
        [k \in 0..Len(order) |->
            IF k = 0 THEN NothingPlaced ELSE PlacedTask(placed[k - 1], order[k], gates)]

LEMMA BatchesMean ==
  ASSUME NEW plan
  PROVE  ExecutionBatches(plan) =
            FlushedBatch(PlacedTasks(RunOrder(plan), plan.gates)[Len(RunOrder(plan))]).batches
  BY DEF ExecutionBatches, FlushedBatch, PlacedTask, PlacedTasks, NothingPlaced

\* A batch says truly what it waits for: it is its gate alone, or it has no gate
\* in it and resumes after the gate of the batch before it.
Tells(batch, previous, gates) ==
    \/ batch.gate \in gates /\ batch.gate # NoGate /\ batch.tasks = <<batch.gate>>
    \/ /\ batch.gate = NoGate /\ batch.resume = previous
       /\ \A j \in 1..Len(batch.tasks) : batch.tasks[j] \notin gates

\* The first m tasks of an order in batches; batch b begins after start[b] tasks.
CutAt(start, batches, m, order, T, gates) ==
    LET n == Len(batches)
    IN  /\ start \in [1..(n + 1) -> 0..m]
        /\ start[1] = 0 /\ start[n + 1] = m
        /\ \A a, b \in 1..(n + 1) : a < b => start[a] < start[b]
        /\ \A b \in 1..n :
            /\ batches[b].tasks \in Seq(T)
            /\ Len(batches[b].tasks) = start[b + 1] - start[b]
            /\ \A j \in 1..Len(batches[b].tasks) : batches[b].tasks[j] = order[start[b] + j]
            /\ Tells(batches[b], IF b = 1 THEN NoGate ELSE batches[b - 1].gate, gates)

BatchRecord(T) == [tasks : Seq(T), gate : T \cup {NoGate}, resume : T \cup {NoGate}]

Cut(batches, m, order, T, gates) ==
    /\ batches \in Seq(BatchRecord(T))
    /\ \E start : CutAt(start, batches, m, order, T, gates)

LEMMA NoneIsEmpty ==
  ASSUME NEW X, NEW s \in Seq(X), Len(s) = 0
  PROVE  s = <<>>
  OBVIOUS

LEMMA BatchAppended ==
  ASSUME NEW T, NEW gates, NEW order, NEW m \in Nat, NEW batches, Cut(batches, m, order, T, gates),
         NEW batch \in BatchRecord(T), NEW l \in Nat, l > 0, l = Len(batch.tasks),
         \A j \in 1..l : batch.tasks[j] = order[m + j],
         Tells(batch, GateOfLast(batches), gates)
  PROVE  Cut(Append(batches, batch), m + l, order, T, gates)
<1>1. PICK n \in Nat : n = Len(batches)
  BY DEF Cut
<1>2. PICK more : more = Append(batches, batch)
  OBVIOUS
<1>3. /\ batches \in Seq(BatchRecord(T)) /\ more \in Seq(BatchRecord(T)) /\ Len(more) = n + 1
      /\ \A b \in 1..n : more[b] = batches[b]
      /\ more[n + 1] = batch
  BY <1>1, <1>2 DEF Cut
<1>4. PICK start : CutAt(start, batches, m, order, T, gates)
  BY DEF Cut
<1>5. /\ start \in [1..(n + 1) -> 0..m]
      /\ start[1] = 0 /\ start[n + 1] = m
      /\ \A a, b \in 1..(n + 1) : a < b => start[a] < start[b]
  BY <1>1, <1>4 DEF CutAt
<1>6. ASSUME NEW b \in 1..n
      PROVE  /\ batches[b].tasks \in Seq(T)
             /\ Len(batches[b].tasks) = start[b + 1] - start[b]
             /\ \A j \in 1..Len(batches[b].tasks) : batches[b].tasks[j] = order[start[b] + j]
             /\ Tells(batches[b], IF b = 1 THEN NoGate ELSE batches[b - 1].gate, gates)
  BY <1>1, <1>4 DEF CutAt
<1>7. PICK new : new = [b \in 1..((n + 1) + 1) |-> IF b = (n + 1) + 1 THEN m + l ELSE start[b]]
  OBVIOUS
<1>8. /\ new \in [1..((n + 1) + 1) -> 0..(m + l)]
      /\ new[1] = 0 /\ new[(n + 1) + 1] = m + l
      /\ \A b \in 1..(n + 1) : new[b] = start[b]
  <2>1. \A b \in 1..(n + 1) : b \in 1..((n + 1) + 1) /\ b # (n + 1) + 1 /\ start[b] \in 0..(m + l)
    BY <1>5
  <2>2. m + l \in 0..(m + l) /\ (n + 1) + 1 \in 1..((n + 1) + 1) /\ 1 \in 1..(n + 1)
    OBVIOUS
  <2>3. \A b \in 1..((n + 1) + 1) : b \in 1..(n + 1) \/ b = (n + 1) + 1
    OBVIOUS
  <2>4. \A b \in 1..(n + 1) : new[b] = start[b]
    BY <1>7, <2>1
  <2>5. new[(n + 1) + 1] = m + l
    BY <1>7, <2>2
  <2>6. new \in [1..((n + 1) + 1) -> 0..(m + l)]
    BY <1>7, <2>1, <2>2, <2>3
  <2>7. QED
    BY <1>5, <2>2, <2>4, <2>5, <2>6
<1>9. ASSUME NEW a \in 1..((n + 1) + 1), NEW b \in 1..((n + 1) + 1), a < b
      PROVE  new[a] < new[b]
  <2>1. a \in 1..(n + 1)
    BY <1>9
  <2>2. CASE b \in 1..(n + 1)
    BY <1>5, <1>8, <1>9, <2>1, <2>2
  <2>3. CASE b = (n + 1) + 1
    <3>1. new[b] = m + l /\ new[a] = start[a] /\ start[a] \in 0..m
      BY <1>5, <1>8, <2>1, <2>3
    <3>2. QED
      BY <3>1
  <2>4. QED
    BY <2>2, <2>3
<1>10. ASSUME NEW b \in 1..(n + 1)
       PROVE  /\ more[b].tasks \in Seq(T)
              /\ Len(more[b].tasks) = new[b + 1] - new[b]
              /\ \A j \in 1..Len(more[b].tasks) : more[b].tasks[j] = order[new[b] + j]
              /\ Tells(more[b], IF b = 1 THEN NoGate ELSE more[b - 1].gate, gates)
  <2>1. CASE b \in 1..n
    <3>1. b + 1 \in 1..(n + 1) /\ b \in 1..(n + 1)
      BY <2>1
    <3>2. more[b] = batches[b] /\ new[b] = start[b] /\ new[b + 1] = start[b + 1]
      BY <1>3, <1>8, <2>1, <3>1
    <3>3. b # 1 => more[b - 1] = batches[b - 1]
      BY <1>3, <2>1
    <3>4. (IF b = 1 THEN NoGate ELSE more[b - 1].gate)
            = (IF b = 1 THEN NoGate ELSE batches[b - 1].gate)
      BY <3>3, Zenon
    <3>5. Tells(more[b], IF b = 1 THEN NoGate ELSE more[b - 1].gate, gates)
      <4>1. Tells(batches[b], IF b = 1 THEN NoGate ELSE batches[b - 1].gate, gates)
        BY <1>6, <2>1
      <4>2. QED
        BY <3>2, <3>4, <4>1, Zenon
    <3>6. /\ more[b].tasks \in Seq(T)
          /\ Len(more[b].tasks) = new[b + 1] - new[b]
      BY <1>6, <2>1, <3>2
    <3>7. \A j \in 1..Len(more[b].tasks) : more[b].tasks[j] = order[new[b] + j]
      <4>1. \A j \in 1..Len(batches[b].tasks) : batches[b].tasks[j] = order[start[b] + j]
        BY <1>6, <2>1
      <4>2. QED
        BY <3>2, <4>1
    <3>8. QED
      BY <3>5, <3>6, <3>7
  <2>2. CASE b = n + 1
    <3>1. more[b] = batch /\ new[b] = m /\ new[b + 1] = m + l
      BY <1>3, <1>5, <1>8, <2>2
    <3>2. (IF b = 1 THEN NoGate ELSE more[b - 1].gate) = GateOfLast(batches)
      <4>1. CASE n = 0
        <5>1. batches = <<>>
          BY <1>1, <1>3, <4>1, NoneIsEmpty
        <5>2. QED
          BY <2>2, <4>1, <5>1 DEF GateOfLast
      <4>2. CASE n # 0
        <5>1. batches # <<>> /\ b # 1 /\ b - 1 = n /\ n \in 1..n
          BY <1>1, <2>2, <4>2
        <5>2. more[b - 1] = batches[n]
          BY <1>3, <5>1
        <5>3. QED
          BY <1>1, <5>1, <5>2 DEF GateOfLast
      <4>3. QED
        BY <4>1, <4>2
    <3>3. batch.tasks \in Seq(T)
      BY DEF BatchRecord
    <3>4. (m + l) - m = l
      OBVIOUS
    <3>5. QED
      BY <3>1, <3>2, <3>3, <3>4
  <2>3. QED
    BY <2>1, <2>2
<1>11. CutAt(new, more, m + l, order, T, gates)
  BY <1>3, <1>8, <1>9, <1>10 DEF CutAt
<1>12. QED
  BY <1>2, <1>3, <1>11 DEF Cut

\* What has been placed of an order: the batches that are closed, and the tasks
\* that follow them, none of which is behind a gate.
PlacedTo(s, k, order, T, gates) ==
    /\ s \in [batches : Seq(BatchRecord(T)), current : Seq(T), resume : T \cup {NoGate}]
    /\ s.resume = GateOfLast(s.batches)
    /\ \E m \in Nat :
        /\ Cut(s.batches, m, order, T, gates)
        /\ m + Len(s.current) = k
        /\ \A j \in 1..Len(s.current) :
                s.current[j] = order[m + j] /\ s.current[j] \notin gates

LEMMA PlacedFlushed ==
  ASSUME NEW T, NEW gates, NEW order, NEW k \in Nat, NEW s, PlacedTo(s, k, order, T, gates)
  PROVE  /\ Cut(FlushedBatch(s).batches, k, order, T, gates)
         /\ FlushedBatch(s).batches \in Seq(BatchRecord(T))
<1>1. PICK m \in Nat :
        /\ Cut(s.batches, m, order, T, gates)
        /\ m + Len(s.current) = k
        /\ \A j \in 1..Len(s.current) :
                s.current[j] = order[m + j] /\ s.current[j] \notin gates
  BY DEF PlacedTo
<1>2. /\ s.batches \in Seq(BatchRecord(T)) /\ s.current \in Seq(T)
      /\ s.resume \in T \cup {NoGate} /\ s.resume = GateOfLast(s.batches)
  BY DEF PlacedTo
<1>3. CASE s.current = <<>>
  <2>1. m = k /\ FlushedBatch(s) = s
    BY <1>1, <1>3 DEF FlushedBatch
  <2>2. QED
    BY <1>1, <1>2, <2>1
<1>4. CASE s.current # <<>>
  <2>1. PICK l \in Nat : l = Len(s.current) /\ l > 0
    BY <1>2, <1>4
  <2>2. PICK batch : batch = [tasks |-> s.current, gate |-> NoGate, resume |-> s.resume]
    OBVIOUS
  <2>3. /\ batch \in BatchRecord(T) /\ batch.tasks = s.current /\ batch.gate = NoGate
        /\ batch.resume = s.resume
    BY <1>2, <2>2 DEF BatchRecord
  <2>4. Tells(batch, GateOfLast(s.batches), gates)
    BY <1>1, <1>2, <2>3 DEF Tells
  <2>5. Cut(Append(s.batches, batch), m + l, order, T, gates)
    BY <1>1, <2>1, <2>3, <2>4, BatchAppended
  <2>6. FlushedBatch(s).batches = Append(s.batches, batch)
    BY <1>4, <2>2 DEF FlushedBatch
  <2>7. QED
    BY <1>1, <2>1, <2>5, <2>6 DEF Cut
<1>5. QED
  BY <1>3, <1>4

LEMMA PlacedNext ==
  ASSUME NEW T, NEW gates, NEW order, NEW k \in Nat, NEW s, PlacedTo(s, k, order, T, gates),
         NEW t \in T, t = order[k + 1], t # NoGate
  PROVE  PlacedTo(PlacedTask(s, t, gates), k + 1, order, T, gates)
<1>1. CASE t \in gates
  <2>1. PICK flushed \in Seq(BatchRecord(T)) :
            flushed = FlushedBatch(s).batches /\ Cut(flushed, k, order, T, gates)
    BY PlacedFlushed
  <2>2. PICK batch : batch = [tasks |-> <<t>>, gate |-> t, resume |-> t]
    OBVIOUS
  <2>3. /\ batch \in BatchRecord(T) /\ batch.tasks = <<t>> /\ batch.gate = t
        /\ Len(batch.tasks) = 1 /\ batch.tasks[1] = t
    BY <2>2 DEF BatchRecord
  <2>4. Tells(batch, GateOfLast(flushed), gates)
    BY <1>1, <2>3 DEF Tells
  <2>5. PICK more : more = Append(flushed, batch)
    OBVIOUS
  <2>6. Cut(more, k + 1, order, T, gates)
    <3>1. \A j \in 1..1 : batch.tasks[j] = order[k + j]
      BY <2>3
    <3>2. 1 \in Nat /\ 1 > 0
      OBVIOUS
    <3>3. QED
      BY <2>1, <2>3, <2>4, <2>5, <3>1, <3>2, BatchAppended
  <2>7. /\ more \in Seq(BatchRecord(T)) /\ more # <<>> /\ more[Len(more)].gate = t
    BY <2>1, <2>3, <2>5
  <2>8. PICK r : r = [batches |-> more, current |-> <<>>, resume |-> t]
    OBVIOUS
  <2>9. PlacedTask(s, t, gates) = r
    BY <1>1, <2>1, <2>2, <2>5, <2>8 DEF PlacedTask
  <2>10. r.batches = more /\ r.current = <<>> /\ r.resume = t
    BY <2>8
  <2>11. r \in [batches : Seq(BatchRecord(T)), current : Seq(T), resume : T \cup {NoGate}]
    BY <2>7, <2>8
  <2>12. QED
    BY <2>6, <2>7, <2>9, <2>10, <2>11 DEF PlacedTo, GateOfLast
<1>2. CASE t \notin gates
  <2>1. PICK m \in Nat :
          /\ Cut(s.batches, m, order, T, gates)
          /\ m + Len(s.current) = k
          /\ \A j \in 1..Len(s.current) :
                  s.current[j] = order[m + j] /\ s.current[j] \notin gates
    BY DEF PlacedTo
  <2>2. s \in [batches : Seq(BatchRecord(T)), current : Seq(T), resume : T \cup {NoGate}]
    BY DEF PlacedTo
  <2>3. PICK l \in Nat : l = Len(s.current) /\ s.current \in Seq(T)
    BY <2>2
  <2>4. PICK q : q = Append(s.current, t)
    OBVIOUS
  <2>5. q \in Seq(T) /\ Len(q) = l + 1 /\ q[l + 1] = t /\ \A j \in 1..l : q[j] = s.current[j]
    BY <2>3, <2>4
  <2>6. ASSUME NEW j \in 1..(l + 1) PROVE q[j] = order[m + j] /\ q[j] \notin gates
    <3>1. CASE j \in 1..l
      BY <2>1, <2>3, <2>5, <3>1
    <3>2. CASE j = l + 1
      <4>1. m + j = k + 1
        BY <2>1, <2>3, <3>2
      <4>2. QED
        BY <1>2, <2>5, <3>2, <4>1
    <3>3. QED
      BY <3>1, <3>2
  <2>7. PICK r : r = [s EXCEPT !.current = q]
    OBVIOUS
  <2>8. PlacedTask(s, t, gates) = r
    BY <1>2, <2>2, <2>4, <2>7 DEF PlacedTask
  <2>9. /\ r \in [batches : Seq(BatchRecord(T)), current : Seq(T), resume : T \cup {NoGate}]
        /\ r.batches = s.batches /\ r.current = q /\ r.resume = s.resume
    BY <2>2, <2>5, <2>7
  <2>10. m + (l + 1) = k + 1
    <3>1. m + l = k
      BY <2>1, <2>3
    <3>2. QED
      BY <3>1
  <2>11. QED
    BY <2>1, <2>5, <2>6, <2>8, <2>9, <2>10 DEF PlacedTo
<1>3. QED
  BY <1>1, <1>2

Placement(T) == [batches : Seq(BatchRecord(T)), current : Seq(T), resume : T \cup {NoGate}]

LEMMA PlacedType ==
  ASSUME NEW T, NEW gates, NEW s \in Placement(T), NEW t \in T
  PROVE  PlacedTask(s, t, gates) \in Placement(T)
<1>1. PICK flushed : flushed = FlushedBatch(s).batches
  OBVIOUS
<1>2. flushed \in Seq(BatchRecord(T))
  <2>1. CASE s.current = <<>>
    BY <1>1, <2>1 DEF FlushedBatch, Placement
  <2>2. CASE s.current # <<>>
    <3>1. PICK batch \in BatchRecord(T) :
            batch = [tasks |-> s.current, gate |-> NoGate, resume |-> s.resume]
      BY DEF BatchRecord, Placement
    <3>2. flushed = Append(s.batches, batch)
      BY <1>1, <2>2, <3>1 DEF FlushedBatch
    <3>3. s.batches \in Seq(BatchRecord(T))
      BY DEF Placement
    <3>4. QED
      BY <3>1, <3>2, <3>3
  <2>3. QED
    BY <2>1, <2>2
<1>3. PICK batch \in BatchRecord(T) : batch = [tasks |-> <<t>>, gate |-> t, resume |-> t]
  <2>1. PICK alone \in Seq(T) : alone = <<t>>
    <3>1. <<t>> \in Seq(T)
      OBVIOUS
    <3>2. QED
      BY <3>1
  <2>2. [tasks |-> alone, gate |-> t, resume |-> t] \in BatchRecord(T)
    BY DEF BatchRecord
  <2>3. QED
    BY <2>1, <2>2
<1>4. Append(flushed, batch) \in Seq(BatchRecord(T))
  BY <1>2
<1>5. Append(s.current, t) \in Seq(T)
  BY DEF Placement
<1>6. CASE t \in gates
  BY <1>1, <1>3, <1>4, <1>6 DEF PlacedTask, Placement
<1>7. CASE t \notin gates
  BY <1>5, <1>7 DEF PlacedTask, Placement
<1>8. QED
  BY <1>6, <1>7

\* The batches cut the whole order.
LEMMA BatchesCut ==
  ASSUME NEW T, NoGate \notin T, NEW plan, NEW order \in Seq(T), order = RunOrder(plan),
         NEW n \in Nat, n = Len(order)
  PROVE  Cut(ExecutionBatches(plan), n, order, T, plan.gates)
<1>0. PICK gates : gates = plan.gates
  OBVIOUS
<1> DEFINE X == Placement(T)
           step == [k \in 1..n |-> [s \in X |-> PlacedTask(s, order[k], gates)]]
<1>1. \A k \in 1..n : order[k] \in T
  OBVIOUS
<1>2. step \in [1..n -> [X -> X]]
  <2>1. \A k \in 1..n : \A s \in X : PlacedTask(s, order[k], gates) \in X
    BY <1>1, PlacedType
  <2> HIDE DEF X
  <2>2. QED
    BY <2>1
<1>3. PICK none \in X : none = NothingPlaced
  <2>1. <<>> \in Seq(BatchRecord(T)) /\ <<>> \in Seq(T)
    OBVIOUS
  <2>2. NothingPlaced \in X
    BY <2>1 DEF NothingPlaced, Placement
  <2>3. QED
    BY <2>2
<1>4. PICK h : Follows(h, n, X, none, step)
  <2> HIDE DEF X, step
  <2>1. QED
    BY <1>2, Recursion
<1>5. /\ h \in [0..n -> X] /\ h[0] = none
      /\ \A k \in 1..n : h[k] = PlacedTask(h[k - 1], order[k], gates)
  <2> HIDE DEF X
  <2>1. h \in [0..n -> X] /\ h[0] = none /\ \A k \in 1..n : h[k] = step[k][h[k - 1]]
    BY <1>4 DEF Follows
  <2>2. ASSUME NEW k \in 1..n PROVE h[k] = PlacedTask(h[k - 1], order[k], gates)
    <3>1. h[k - 1] \in X
      BY <2>1
    <3>2. QED
      BY <2>1, <3>1
  <2>3. QED
    BY <2>1, <2>2
<1> HIDE DEF X, step
<1> DEFINE Is(f) == f = [k \in 0..n |-> IF k = 0 THEN NothingPlaced
                                        ELSE PlacedTask(f[k - 1], order[k], gates)]
<1>6. Is(h)
  <2>1. h = [k \in 0..n |-> h[k]]
    BY <1>5
  <2>2. \A k \in 0..n : h[k] = IF k = 0 THEN NothingPlaced
                               ELSE PlacedTask(h[k - 1], order[k], gates)
    BY <1>3, <1>5
  <2>3. QED
    BY <2>1, <2>2
<1>7. PICK placed : placed = PlacedTasks(order, gates)
  OBVIOUS
<1>8. Is(placed)
  <2>1. placed = CHOOSE f : Is(f)
    BY <1>7 DEF PlacedTasks
  <2> HIDE DEF Is
  <2>2. QED
    BY <1>6, <2>1
<1>9. \A k \in 0..n : placed[k] = IF k = 0 THEN NothingPlaced
                                  ELSE PlacedTask(placed[k - 1], order[k], gates)
  <2>1. placed = [k \in 0..n |-> IF k = 0 THEN NothingPlaced
                                 ELSE PlacedTask(placed[k - 1], order[k], gates)]
    BY <1>8
  <2>2. QED
    BY <2>1
<1> HIDE DEF Is
<1> DEFINE Good(k) == PlacedTo(placed[k], k, order, T, gates)
           P == {k \in Nat : k <= n => Good(k)}
<1>10. 0 \in P
  <2>1. placed[0] = NothingPlaced
    BY <1>9
  <2>2. PICK s : s = NothingPlaced
    OBVIOUS
  <2>3. s.batches = <<>> /\ s.current = <<>> /\ s.resume = NoGate /\ s \in Placement(T)
    BY <2>2 DEF NothingPlaced, Placement
  <2>4. Cut(<<>>, 0, order, T, gates)
    <3>1. PICK start : start = [b \in 1..(0 + 1) |-> 0]
      OBVIOUS
    <3>2. CutAt(start, <<>>, 0, order, T, gates)
      BY <3>1 DEF CutAt
    <3>3. QED
      BY <3>2 DEF Cut
  <2>5. Good(0)
    BY <2>1, <2>2, <2>3, <2>4 DEF PlacedTo, GateOfLast, Placement
  <2>6. QED
    BY <2>5
<1>11. ASSUME NEW k \in P PROVE k + 1 \in P
  <2> SUFFICES ASSUME k + 1 <= n PROVE Good(k + 1)
    OBVIOUS
  <2>1. k \in Nat /\ k + 1 \in 0..n /\ k + 1 \in 1..n /\ k + 1 # 0 /\ (k + 1) - 1 = k /\ k <= n
    OBVIOUS
  <2>2. PlacedTo(placed[k], k, order, T, gates)
    BY <2>1
  <2>3. placed[k + 1] = PlacedTask(placed[k], order[k + 1], gates)
    BY <1>9, <2>1
  <2>4. PICK t \in T : t = order[k + 1] /\ t # NoGate
    BY <1>1, <2>1
  <2>5. PICK s : s = placed[k]
    OBVIOUS
  <2>6. PlacedTo(PlacedTask(s, t, gates), k + 1, order, T, gates)
    BY <2>1, <2>2, <2>4, <2>5, PlacedNext
  <2>7. QED
    BY <2>3, <2>4, <2>5, <2>6
<1>12. Good(n)
  <2> HIDE DEF Good
  <2>1. P = Nat
    BY <1>10, <1>11, Induction
  <2>2. QED
    BY <2>1
<1>13. PICK s : s = placed[n]
  OBVIOUS
<1>14. Cut(FlushedBatch(s).batches, n, order, T, gates)
  BY <1>12, <1>13, PlacedFlushed
<1>15. ExecutionBatches(plan) = FlushedBatch(s).batches
  BY <1>0, <1>7, <1>13, BatchesMean
<1>16. QED
  BY <1>0, <1>14, <1>15

-----------------------------------------------------------------------------
(* The places of the batches are those of the order. *)

PlacesOf(batches) == UNION {{b} \X DOMAIN batches[b].tasks : b \in DOMAIN batches}

TaskAt(batches, x) == batches[x[1]].tasks[x[2]]

\* pos numbers the places, in their order, as the order numbers its tasks.
Numbers(pos, batches, order) ==
    /\ \A x \in PlacesOf(batches) :
            pos[x] \in 1..Len(order) /\ TaskAt(batches, x) = order[pos[x]]
    /\ \A i \in 1..Len(order) : \E x \in PlacesOf(batches) : pos[x] = i
    /\ \A x, y \in PlacesOf(batches) :
            pos[x] < pos[y] => x[1] < y[1] \/ (x[1] = y[1] /\ x[2] < y[2])
    /\ \A x, y \in PlacesOf(batches) : pos[x] = pos[y] => x = y

LEMMA PlacesOfCut ==
  ASSUME NEW T, NEW gates, NEW n \in Nat, NEW order \in Seq(T), n = Len(order),
         NEW batches, Cut(batches, n, order, T, gates)
  PROVE  \E pos : Numbers(pos, batches, order)
<1>1. PICK l \in Nat : l = Len(batches)
  BY DEF Cut
<1>2. DOMAIN batches = 1..l
  BY <1>1 DEF Cut
<1>3. PICK start : CutAt(start, batches, n, order, T, gates)
  BY DEF Cut
<1>4. /\ start \in [1..(l + 1) -> 0..n]
      /\ start[1] = 0 /\ start[l + 1] = n
      /\ \A a, b \in 1..(l + 1) : a < b => start[a] < start[b]
  BY <1>1, <1>3 DEF CutAt
<1>5. ASSUME NEW b \in 1..l
      PROVE  /\ start[b] \in 0..n /\ start[b + 1] \in 0..n
             /\ DOMAIN batches[b].tasks = 1..(start[b + 1] - start[b])
             /\ \A j \in 1..(start[b + 1] - start[b]) : batches[b].tasks[j] = order[start[b] + j]
  <2>1. /\ batches[b].tasks \in Seq(T)
        /\ Len(batches[b].tasks) = start[b + 1] - start[b]
        /\ \A j \in 1..Len(batches[b].tasks) : batches[b].tasks[j] = order[start[b] + j]
    BY <1>1, <1>3 DEF CutAt
  <2>2. b \in 1..(l + 1) /\ b + 1 \in 1..(l + 1)
    OBVIOUS
  <2>3. DOMAIN batches[b].tasks = 1..Len(batches[b].tasks)
    BY <2>1
  <2>4. QED
    BY <1>4, <2>1, <2>2, <2>3
<1>6. PICK places : places = PlacesOf(batches)
  OBVIOUS
<1>7. ASSUME NEW x \in places
      PROVE  /\ x = <<x[1], x[2]>> /\ x[1] \in 1..l
             /\ x[2] \in 1..(start[x[1] + 1] - start[x[1]])
  <2>1. PICK b \in 1..l : x \in {b} \X DOMAIN batches[b].tasks
    BY <1>2, <1>6 DEF PlacesOf
  <2>2. QED
    BY <1>5, <2>1
<1>8. ASSUME NEW b \in 1..l, NEW j \in 1..(start[b + 1] - start[b]) PROVE <<b, j>> \in places
  <2>1. b \in DOMAIN batches /\ j \in DOMAIN batches[b].tasks
    BY <1>2, <1>5
  <2>2. <<b, j>> \in {b} \X DOMAIN batches[b].tasks
    BY <2>1
  <2>3. QED
    BY <1>6, <2>1, <2>2 DEF PlacesOf
<1>9. PICK pos : pos = [x \in places |-> start[x[1]] + x[2]]
  OBVIOUS
<1>10. ASSUME NEW x \in places
       PROVE  /\ x[1] \in 1..l /\ x[2] \in Nat \ {0}
              /\ start[x[1]] \in 0..n /\ start[x[1] + 1] \in 0..n
              /\ pos[x] = start[x[1]] + x[2] /\ pos[x] \in 1..n
              /\ start[x[1]] < pos[x] /\ pos[x] <= start[x[1] + 1]
  <2>1. PICK b \in 1..l : b = x[1] /\ start[b] \in 0..n /\ start[b + 1] \in 0..n
    BY <1>5, <1>7
  <2>2. PICK j \in 1..(start[b + 1] - start[b]) : j = x[2]
    BY <1>7, <2>1
  <2>3. pos[x] = start[b] + j
    BY <1>9, <2>1, <2>2
  <2>4. start[b] + j \in 1..n /\ start[b] < start[b] + j /\ start[b] + j <= start[b + 1]
    BY <2>1, <2>2
  <2>5. QED
    BY <2>1, <2>2, <2>3, <2>4
<1>11. ASSUME NEW x \in places PROVE TaskAt(batches, x) = order[pos[x]]
  BY <1>5, <1>7, <1>10 DEF TaskAt
<1>12. ASSUME NEW i \in 1..n PROVE \E x \in places : pos[x] = i
  <2> DEFINE S == {b \in 1..(l + 1) : start[b] < i}
  <2>1. S \in SUBSET Nat /\ S # {} /\ \A b \in S : b <= l + 1
    <3>1. 1 \in S
      BY <1>4
    <3>2. QED
      BY <3>1
  <2>2. PICK b \in S : \A a \in S : a <= b
    <3> HIDE DEF S
    <3>1. l + 1 \in Nat
      OBVIOUS
    <3>2. QED
      BY <2>1, <3>1, LargestNumber
  <2>3. b \in 1..(l + 1) /\ start[b] < i
    OBVIOUS
  <2>4. b # l + 1
    BY <1>4, <2>3
  <2>5. b \in 1..l /\ b + 1 \in 1..(l + 1)
    BY <2>3, <2>4
  <2>6. ~(start[b + 1] < i)
    <3>1. b + 1 \notin S
      BY <2>2, <2>5
    <3>2. QED
      BY <2>5, <3>1
  <2>7. start[b] \in 0..n /\ start[b + 1] \in 0..n
    BY <1>4, <2>5
  <2>8. i - start[b] \in 1..(start[b + 1] - start[b]) /\ start[b] + (i - start[b]) = i
    BY <2>3, <2>6, <2>7
  <2>9. PICK x \in places : x = <<b, i - start[b]>>
    BY <1>8, <2>5, <2>8
  <2>10. pos[x] = i
    BY <1>10, <2>8, <2>9
  <2>11. QED
    BY <2>10
<1>13. ASSUME NEW x \in places, NEW y \in places, x[1] < y[1] PROVE pos[x] < pos[y]
  <2>1. PICK a \in 1..l : a = x[1]
    BY <1>10
  <2>2. PICK b \in 1..l : b = y[1] /\ a < b
    BY <1>10, <1>13, <2>1
  <2>3. a + 1 \in 1..(l + 1) /\ b \in 1..(l + 1) /\ (a + 1 = b \/ a + 1 < b)
    BY <2>2
  <2>4. start[a + 1] <= start[b]
    <3>1. start[a + 1] \in 0..n /\ start[b] \in 0..n
      BY <1>4, <2>3
    <3>2. QED
      BY <1>4, <2>3, <3>1
  <2>5. /\ pos[x] \in 1..n /\ pos[y] \in 1..n /\ start[a + 1] \in 0..n /\ start[b] \in 0..n
        /\ pos[x] <= start[a + 1] /\ start[b] < pos[y]
    BY <1>10, <2>1, <2>2
  <2>6. QED
    BY <2>4, <2>5
<1>14. ASSUME NEW x \in places, NEW y \in places, x[1] = y[1]
       PROVE  pos[x] - pos[y] = x[2] - y[2]
  BY <1>10, <1>14
<1>15. ASSUME NEW x \in places, NEW y \in places, pos[x] < pos[y]
       PROVE  x[1] < y[1] \/ (x[1] = y[1] /\ x[2] < y[2])
  <2>1. /\ x[1] \in 1..l /\ y[1] \in 1..l /\ x[2] \in Nat /\ y[2] \in Nat
        /\ pos[x] \in 1..n /\ pos[y] \in 1..n
    BY <1>10
  <2>2. ~(y[1] < x[1])
    <3>1. y[1] < x[1] => pos[y] < pos[x]
      BY <1>13
    <3>2. QED
      BY <1>15, <2>1, <3>1
  <2>3. CASE x[1] = y[1]
    <3>1. pos[x] - pos[y] = x[2] - y[2]
      BY <1>14, <2>3
    <3>2. QED
      BY <1>15, <2>1, <2>3, <3>1
  <2>4. QED
    BY <2>1, <2>2, <2>3
<1>16. ASSUME NEW x \in places, NEW y \in places, pos[x] = pos[y] PROVE x = y
  <2>1. /\ x[1] \in 1..l /\ y[1] \in 1..l /\ x[2] \in Nat /\ y[2] \in Nat
        /\ pos[x] \in 1..n /\ pos[y] \in 1..n
    BY <1>10
  <2>2. x[1] = y[1]
    <3>1. /\ x[1] < y[1] => pos[x] < pos[y]
          /\ y[1] < x[1] => pos[y] < pos[x]
      BY <1>13
    <3>2. QED
      BY <1>16, <2>1, <3>1
  <2>3. x[2] = y[2]
    <3>1. pos[x] - pos[y] = x[2] - y[2]
      BY <1>14, <2>2
    <3>2. QED
      BY <1>16, <2>1, <3>1
  <2>4. QED
    BY <1>7, <2>2, <2>3
<1>17. Numbers(pos, batches, order)
  BY <1>6, <1>10, <1>11, <1>12, <1>15, <1>16 DEF Numbers
<1>18. QED
  BY <1>17

LEMMA AsMany ==
  ASSUME NEW S, NEW n \in Nat, NEW f \in [1..n -> S],
         \A x \in S : \E i \in 1..n : f[i] = x,
         \A i, j \in 1..n : f[i] = f[j] => i = j
  PROVE  Cardinality(S) = n
<1>1. f \in Bijection(1..n, S)
  BY DEF Bijection, Injection, Surjection, IsInjective
<1>2. ExistsBijection(1..n, S)
  BY <1>1 DEF ExistsBijection
<1>3. QED
  BY <1>2, FS_CountingElements

LEMMA NumberedPlaces ==
  ASSUME NEW T, NEW edges, NEW order, Runs(order, T, edges), NEW n \in Nat, n = Len(order),
         NEW batches, NEW pos, Numbers(pos, batches, order)
  PROVE  /\ {TaskAt(batches, x) : x \in PlacesOf(batches)} = T
         /\ Cardinality(PlacesOf(batches)) = Cardinality(T)
         /\ \A x, y \in PlacesOf(batches) :
                <<TaskAt(batches, x), TaskAt(batches, y)>> \in edges =>
                    y[1] < x[1] \/ (y[1] = x[1] /\ y[2] < x[2])
<1>1. PICK places : places = PlacesOf(batches)
  OBVIOUS
<1>2. /\ \A x \in places : pos[x] \in 1..n /\ TaskAt(batches, x) = order[pos[x]]
      /\ \A i \in 1..n : \E x \in places : pos[x] = i
      /\ \A x, y \in places : pos[x] < pos[y] => x[1] < y[1] \/ (x[1] = y[1] /\ x[2] < y[2])
      /\ \A x, y \in places : pos[x] = pos[y] => x = y
  BY <1>1 DEF Numbers
<1>3. /\ order \in Seq(T) /\ \A i \in 1..n : order[i] \in T
      /\ \A t \in T : \E i \in 1..n : order[i] = t
      /\ \A i, j \in 1..n : i < j => order[i] # order[j]
      /\ \A i, j \in 1..n : <<order[i], order[j]>> \in edges => j < i
  BY DEF Runs
<1>4. {TaskAt(batches, x) : x \in places} = T
  <2>1. ASSUME NEW x \in places PROVE TaskAt(batches, x) \in T
    BY <1>2, <1>3
  <2>2. ASSUME NEW t \in T PROVE \E x \in places : TaskAt(batches, x) = t
    <3>1. PICK i \in 1..n : order[i] = t
      BY <1>3
    <3>2. PICK x \in places : pos[x] = i
      BY <1>2
    <3>3. QED
      BY <1>2, <3>1, <3>2
  <2>3. QED
    BY <2>1, <2>2
<1>5. Cardinality(T) = n
  <2>1. PICK f : f = [i \in 1..n |-> order[i]]
    OBVIOUS
  <2>2. f \in [1..n -> T] /\ \A i \in 1..n : f[i] = order[i]
    BY <1>3, <2>1
  <2>3. \A i, j \in 1..n : f[i] = f[j] => i = j
    <3>1. \A i, j \in 1..n : i # j => i < j \/ j < i
      OBVIOUS
    <3>2. QED
      BY <1>3, <2>2, <3>1
  <2>4. \A t \in T : \E i \in 1..n : f[i] = t
    BY <1>3, <2>2
  <2>5. QED
    BY <2>2, <2>3, <2>4, AsMany
<1>6. Cardinality(places) = n
  <2>1. PICK f : f = [i \in 1..n |-> CHOOSE x \in places : pos[x] = i]
    OBVIOUS
  <2>2. ASSUME NEW i \in 1..n PROVE f[i] \in places /\ pos[f[i]] = i
    BY <1>2, <2>1
  <2>3. f \in [1..n -> places]
    BY <2>1, <2>2
  <2>4. \A i, j \in 1..n : f[i] = f[j] => i = j
    BY <2>2
  <2>5. \A x \in places : \E i \in 1..n : f[i] = x
    BY <1>2, <2>2
  <2>6. QED
    BY <2>3, <2>4, <2>5, AsMany
<1>7. ASSUME NEW x \in places, NEW y \in places,
             <<TaskAt(batches, x), TaskAt(batches, y)>> \in edges
      PROVE  y[1] < x[1] \/ (y[1] = x[1] /\ y[2] < x[2])
  <2>1. pos[y] < pos[x]
    BY <1>2, <1>3, <1>7
  <2>2. QED
    BY <1>2, <2>1
<1>8. QED
  BY <1>1, <1>4, <1>5, <1>6, <1>7

\* A gated batch is its gate, and any other resumes after the batch before it.
TellTruly(batches, gates) ==
    \A b \in DOMAIN batches :
        /\ ToSet(batches[b].tasks) \cap gates # {} => batches[b].tasks = <<batches[b].gate>>
        /\ batches[b].gate = NoGate =>
                batches[b].resume = IF b = 1 THEN NoGate ELSE batches[b - 1].gate

LEMMA ToldBatches ==
  ASSUME NEW T, NEW gates, NEW n \in Nat, NEW order, NEW batches,
         Cut(batches, n, order, T, gates)
  PROVE  TellTruly(batches, gates)
<1>1. PICK l \in Nat : l = Len(batches) /\ DOMAIN batches = 1..l
  BY DEF Cut
<1>2. PICK start : CutAt(start, batches, n, order, T, gates)
  BY DEF Cut
<1>3. ASSUME NEW b \in 1..l
      PROVE  /\ ToSet(batches[b].tasks) \cap gates # {} => batches[b].tasks = <<batches[b].gate>>
             /\ batches[b].gate = NoGate =>
                  batches[b].resume = IF b = 1 THEN NoGate ELSE batches[b - 1].gate
  <2>1. PICK batch : batch = batches[b]
    OBVIOUS
  <2>2. PICK previous : previous = IF b = 1 THEN NoGate ELSE batches[b - 1].gate
    OBVIOUS
  <2>3. batch.tasks \in Seq(T) /\ Tells(batch, previous, gates)
    BY <1>1, <1>2, <2>1, <2>2 DEF CutAt
  <2>4. batch.gate = NoGate => batch.resume = previous
    BY <2>3 DEF Tells
  <2>5. ASSUME ToSet(batch.tasks) \cap gates # {} PROVE batch.tasks = <<batch.gate>>
    <3>1. DOMAIN batch.tasks = 1..Len(batch.tasks)
      BY <2>3
    <3>2. PICK j \in 1..Len(batch.tasks) : batch.tasks[j] \in gates
      BY <2>5, <3>1 DEF ToSet
    <3>3. QED
      BY <2>3, <3>2 DEF Tells
  <2>6. QED
    BY <2>1, <2>2, <2>4, <2>5
<1>4. QED
  BY <1>1, <1>3 DEF TellTruly

\* A plan on a graph without a cycle is cut soundly into batches.
LEMMA GraphBatched ==
  ASSUME NEW T, Named(T), NoGate \notin T, NEW edges, edges \subseteq T \X T,
         ~Cyclic(Graph(T, edges)), NEW plan, Orderly(plan, T, edges)
  PROVE  Batched(plan)
<1>1. PICK order : order = RunOrder(plan)
  OBVIOUS
<1>2. Runs(order, T, edges)
  BY <1>1, RunOrderRuns
<1>3. order \in Seq(T)
  BY <1>2 DEF Runs
<1>4. PICK n \in Nat : n = Len(order)
  BY <1>3
<1>5. PICK batches : batches = ExecutionBatches(plan)
  OBVIOUS
<1>6. PICK gates : gates = plan.gates
  OBVIOUS
<1>7. Cut(batches, n, order, T, gates)
  BY <1>1, <1>3, <1>4, <1>5, <1>6, BatchesCut
<1>8. PICK pos : Numbers(pos, batches, order)
  BY <1>3, <1>4, <1>7, PlacesOfCut
<1>9. plan.tasks = T /\ plan.edges = edges
  BY DEF Orderly
<1>10. /\ {TaskAt(batches, x) : x \in PlacesOf(batches)} = T
       /\ Cardinality(PlacesOf(batches)) = Cardinality(T)
       /\ \A x, y \in PlacesOf(batches) :
                <<TaskAt(batches, x), TaskAt(batches, y)>> \in edges =>
                    y[1] < x[1] \/ (y[1] = x[1] /\ y[2] < x[2])
  BY <1>2, <1>4, <1>8, NumberedPlaces
<1>11. TellTruly(batches, gates)
  BY <1>7, ToldBatches
<1>12. QED
  BY <1>5, <1>6, <1>9, <1>10, <1>11 DEF Batched, PlacesOf, TaskAt, TellTruly

\* No task is the mark of a batch without a gate.
LEMMA TasksAreNoMark ==
  ASSUME NEW a, NEW b
  PROVE  <<a, b>> # NoGate
<1> SUFFICES ASSUME <<a, b>> = NoGate PROVE FALSE
  OBVIOUS
<1>1. DOMAIN <<a, b>> = {1, 2}
  OBVIOUS
<1>2. DOMAIN NoGate = {"none"}
  BY DEF NoGate
<1>3. 1 = 2
  BY <1>1, <1>2
<1>4. QED
  BY <1>3

LEMMA NamedNotMark ==
  ASSUME NEW T, Named(T)
  PROVE  NoGate \notin T
<1>1. ASSUME NoGate \in T PROVE FALSE
  <2>1. PICK a \in Nat, b \in Nat : NoGate = <<a, b>>
    BY <1>1 DEF Named
  <2>2. QED
    BY <2>1, TasksAreNoMark
<1>2. QED
  BY <1>1

\* A plan whose dependencies do not come back on themselves, with their order.
OnGraph(plan) ==
    \E T : \E edges :
        /\ Named(T) /\ NoGate \notin T
        /\ edges \subseteq T \X T /\ ~Cyclic(Graph(T, edges))
        /\ Orderly(plan, T, edges)

LEMMA OnGraphSound ==
  ASSUME NEW plan, OnGraph(plan)
  PROVE  Ordered(plan) /\ Batched(plan)
<1>1. PICK T : \E edges :
        /\ Named(T) /\ NoGate \notin T
        /\ edges \subseteq T \X T /\ ~Cyclic(Graph(T, edges))
        /\ Orderly(plan, T, edges)
  BY DEF OnGraph
<1>2. PICK edges :
        /\ Named(T) /\ NoGate \notin T
        /\ edges \subseteq T \X T /\ ~Cyclic(Graph(T, edges))
        /\ Orderly(plan, T, edges)
  BY <1>1
<1>3. IsFiniteSet(T)
  BY <1>2 DEF Named
<1>4. QED
  BY <1>2, <1>3, GraphOrdered, GraphBatched

-----------------------------------------------------------------------------
(* Native plans.                                                           *)

LEMMA GapsKnown ==
  ASSUME NEW m \in Manifest
  PROVE  Gaps(m) \subseteq Capability
<1>1. \A r \in m.requirements : r.caps \subseteq Capability
  BY ManifestAssumption
<1>2. QED
  BY <1>1 DEF Gaps

TaskPairs == Capability \X (Component \cup {Contract})

LEMMA PairsFinite == IsFiniteSet(TaskPairs) /\ TaskPairs \subseteq Nat \X Nat
<1>1. IsFiniteSet(Component \cup {Contract})
  BY PlanNumbering, FS_AddElement
<1>2. IsFiniteSet(TaskPairs)
  BY <1>1, PlanNumbering, FS_Product DEF TaskPairs
<1>3. TaskPairs \subseteq Nat \X Nat
  BY PlanNumbering DEF TaskPairs
<1>4. QED
  BY <1>2, <1>3

\* The tasks of a manifest are finitely many pairs of numbers
\* (_generate_task_candidates).
LEMMA GeneratedNamed ==
  ASSUME NEW m \in Manifest
  PROVE  Named(GeneratedTasks(m))
<1>1. ASSUME NEW c \in Gaps(m), NEW open \in SUBSET Component
      PROVE  (IF open = {} THEN {<<c, Contract>>} ELSE {c} \X open) \subseteq TaskPairs
  BY <1>1, GapsKnown DEF TaskPairs
<1>2. ASSUME NEW c \in Gaps(m) PROVE RealisedBy(m, c) \ m.validated \in SUBSET Component
  BY DEF RealisedBy
<1>3. GeneratedTasks(m) \subseteq TaskPairs
  <2> SUFFICES ASSUME NEW t \in GeneratedTasks(m) PROVE t \in TaskPairs
    OBVIOUS
  <2>1. PICK c \in Gaps(m) : \E open :
            /\ open = RealisedBy(m, c) \ m.validated
            /\ t \in IF open = {} THEN {<<c, Contract>>} ELSE {c} \X open
    BY DEF GeneratedTasks
  <2>2. QED
    BY <1>1, <1>2, <2>1
<1>4. QED
  BY <1>3, PairsFinite, FS_Subset DEF Named

\* The task that stands for a component is one of the tasks.
LEMMA TaskOfComponentIsTask ==
  ASSUME NEW T, Named(T), NEW k, Planned(T, k)
  PROVE  TaskOfComponent(T, k) \in T
<1>1. PICK S : S = {t \in T : ComponentOf(t) = k}
  OBVIOUS
<1>2. S \subseteq T /\ S # {}
  BY <1>1 DEF Planned
<1>3. Named(S)
  BY <1>2, FS_Subset DEF Named
<1>4. PICK t \in S : \A u \in S : <<t, u>> \notin IdOrder(S)
  BY <1>2, <1>3, IdentifiersOrder, LastOf DEF Named
<1>5. \A u \in S : ~IdBefore(t, u)
  BY <1>4 DEF IdOrder
<1>6. t \in T /\ ComponentOf(t) = k /\ \A u \in T : ComponentOf(u) = k => ~IdBefore(t, u)
  BY <1>1, <1>5
<1>7. QED
  BY <1>6 DEF TaskOfComponent

\* The dependencies of a plan are between its tasks (_generate_dependencies).
LEMMA EdgesWithin ==
  ASSUME NEW m, NEW T, Named(T)
  PROVE  DependencyEdges(m, T) \subseteq T \X T
<1>1. ASSUME NEW a, NEW b, Planned(T, a), Planned(T, b)
      PROVE  <<TaskOfComponent(T, b), TaskOfComponent(T, a)>> \in T \X T
  BY <1>1, TaskOfComponentIsTask
<1>2. QED
  BY <1>1 DEF DependencyEdges

GeneratedPlan(m, T, edges) ==
    [manifest |-> m, tasks |-> T, edges |-> edges, waves |-> Waves(T, edges),
     parallel |-> [k \in DOMAIN Waves(T, edges) |-> ParallelSet(Waves(T, edges)[k])],
     critical |-> CriticalPath(T, edges),
     gates |-> HumanGates(T)]

LEMMA GenerateMeans ==
  ASSUME NEW m, Generate(m) # Rejected
  PROVE  /\ ~Cyclic(Graph(GeneratedTasks(m), DependencyEdges(m, GeneratedTasks(m))))
         /\ Generate(m) = GeneratedPlan(m, GeneratedTasks(m), DependencyEdges(m, GeneratedTasks(m)))
<1>1. PICK T : T = GeneratedTasks(m)
  OBVIOUS
<1>2. PICK edges : edges = DependencyEdges(m, T)
  OBVIOUS
<1>3. Generate(m) = IF Resolve(m) = Rejected \/ ~TraceOk(m) THEN Rejected
                    ELSE IF Cyclic(Graph(T, edges)) THEN Rejected
                    ELSE GeneratedPlan(m, T, edges)
  BY <1>1, <1>2, Zenon DEF Generate, GeneratedPlan
<1>4. QED
  BY <1>1, <1>2, <1>3, Zenon

\* A plan that is generated from a manifest is on a graph without a cycle
\* (generate_implementation_plan).
LEMMA NativeOnGraph ==
  ASSUME NEW m \in Manifest, Generate(m) # Rejected
  PROVE  OnGraph(Generate(m))
<1>1. PICK T : T = GeneratedTasks(m)
  OBVIOUS
<1>2. PICK edges : edges = DependencyEdges(m, T)
  OBVIOUS
<1>3. PICK plan : plan = Generate(m)
  OBVIOUS
<1>4. ~Cyclic(Graph(T, edges)) /\ plan = GeneratedPlan(m, T, edges)
  BY <1>1, <1>2, <1>3, GenerateMeans
<1>5. Named(T) /\ NoGate \notin T /\ edges \subseteq T \X T
  BY <1>1, <1>2, GeneratedNamed, NamedNotMark, EdgesWithin
<1>6. Orderly(plan, T, edges)
  BY <1>4 DEF Orderly, GeneratedPlan
<1>7. QED
  BY <1>3, <1>4, <1>5, <1>6 DEF OnGraph

-----------------------------------------------------------------------------
(* Feasibility and freeze.                                                 *)

\* What Evaluate and DryRun say of a frozen plan.
LEMMA FrozenMeans ==
  ASSUME NEW plan, NEW env, NEW policy, NEW evaluation, evaluation = Evaluate(plan, env, policy),
         Frozen(DryRun(plan, evaluation))
  PROVE  \A t \in plan.tasks : Blockers(t, env, policy) = {}
<1>1. DryRun(plan, evaluation).state \in
        {"READY_FOR_PLAN_ACCEPTANCE", "READY_WITH_EXECUTION_PREREQUISITES"}
  BY DEF Frozen
<1>2. ~DryRunErrors(plan, evaluation)
  <2>1. DryRun(plan, evaluation).state =
            IF DryRunErrors(plan, evaluation)
            THEN IF evaluation.status = "BLOCKED" THEN "BLOCKED" ELSE "INVALID"
            ELSE IF Prerequisites(evaluation) # {} THEN "READY_WITH_EXECUTION_PREREQUISITES"
            ELSE "READY_FOR_PLAN_ACCEPTANCE"
    BY DEF DryRun
  <2>2. QED
    BY <1>1, <2>1
<1>3. evaluation.status # "BLOCKED"
  BY <1>2 DEF DryRunErrors
<1>4. PICK results : results = TaskResults(plan, env, policy)
  OBVIOUS
<1>5. evaluation.status = PlanStatus(results)
  BY <1>4 DEF Evaluate
<1>6. \A t \in DOMAIN results : results[t] # "BLOCKED"
  BY <1>3, <1>5 DEF PlanStatus
<1>7. ASSUME NEW t \in plan.tasks PROVE TaskFeasibility(t, plan, env, policy) # "BLOCKED"
  BY <1>4, <1>6 DEF TaskResults
<1>8. QED
  BY <1>7 DEF TaskFeasibility

\* The width of a plan is that of some parallel set, or less, and no more than
\* the policy allows (_feasible_parallel_width).
LEMMA WidthMeans ==
  ASSUME NEW plan, NEW results, NEW policy, policy.maxWidth \in Int, NEW T, IsFiniteSet(T),
         \A k \in DOMAIN plan.parallel : plan.parallel[k] \subseteq T
  PROVE  \E width \in Int :
            /\ width = FeasibleWidth(plan, results, policy)
            /\ width <= policy.maxWidth
            /\ width > 0 => \E k \in DOMAIN plan.parallel :
                                width <= Cardinality(plan.parallel[k])
<1> DEFINE runs(k) == {t \in plan.parallel[k] : results[t] # "BLOCKED"}
<1>1. PICK n \in Nat : n = Cardinality(T)
  BY FS_CardinalityType
<1>2. PICK K : K = DOMAIN plan.parallel
  OBVIOUS
<1>3. ASSUME NEW k \in K
      PROVE  /\ Cardinality(runs(k)) \in Nat /\ Cardinality(runs(k)) <= n
             /\ Cardinality(runs(k)) <= Cardinality(plan.parallel[k])
  <2>1. runs(k) \subseteq plan.parallel[k] /\ plan.parallel[k] \subseteq T
    BY <1>2
  <2>2. IsFiniteSet(plan.parallel[k]) /\ IsFiniteSet(runs(k))
    BY <2>1, FS_Subset
  <2>3. runs(k) \subseteq T
    BY <2>1
  <2>4. QED
    BY <1>1, <2>1, <2>2, <2>3, FS_Subset, FS_CardinalityType
<1>4. PICK S : S = {0} \cup {Cardinality(runs(k)) : k \in K}
  OBVIOUS
<1>5. S \in SUBSET Nat /\ S # {} /\ \A x \in S : x <= n
  <2> HIDE DEF runs
  <2>1. QED
    BY <1>3, <1>4
<1>6. PICK top \in S : \A x \in S : x <= top
  BY <1>1, <1>5, LargestNumber
<1>7. Max(S) = top /\ top \in Nat
  <2>1. S \subseteq Int
    BY <1>5
  <2>2. QED
    BY <1>5, <1>6, <2>1, MaxIs
<1>8. PICK most \in Int : most = policy.maxWidth
  OBVIOUS
<1>9. PICK width \in Int : width = Min({most, top}) /\ width <= most /\ width <= top
  <2>1. CASE most <= top
    BY <1>7, <2>1, MinIs
  <2>2. CASE ~(most <= top)
    BY <1>7, <2>2, MinIs
  <2>3. QED
    BY <2>1, <2>2
<1>10. FeasibleWidth(plan, results, policy) = width
  <2>1. FeasibleWidth(plan, results, policy) = Min({policy.maxWidth, Max(S)})
    BY <1>2, <1>4, Zenon DEF FeasibleWidth
  <2>2. QED
    BY <1>7, <1>8, <1>9, <2>1
<1>11. width > 0 => \E k \in K : width <= Cardinality(plan.parallel[k])
  <2> SUFFICES ASSUME width > 0 PROVE \E k \in K : width <= Cardinality(plan.parallel[k])
    OBVIOUS
  <2>1. top # 0
    BY <1>7, <1>9
  <2> HIDE DEF runs
  <2>2. PICK k \in K : top = Cardinality(runs(k))
    BY <1>4, <1>6, <2>1
  <2>3. plan.parallel[k] \subseteq T
    BY <1>2
  <2>4. Cardinality(plan.parallel[k]) \in Nat
    BY <2>3, FS_Subset, FS_CardinalityType
  <2>5. QED
    BY <1>3, <1>7, <1>9, <2>2, <2>4
<1>12. QED
  BY <1>2, <1>8, <1>9, <1>10, <1>11

\* The waves of an acyclic graph are made of its tasks.
LEMMA WavesOfTasks ==
  ASSUME NEW T, IsFiniteSet(T), NEW edges, edges \subseteq T \X T, ~Cyclic(Graph(T, edges))
  PROVE  \A k \in DOMAIN Waves(T, edges) : Waves(T, edges)[k] \subseteq T
<1>1. PICK depth \in Nat : \E w :
        /\ DOMAIN Waves(T, edges) = 1..depth /\ Len(Waves(T, edges)) = depth
        /\ Layers(w, depth, T, Graph(T, edges))
        /\ \A k \in 1..depth : Waves(T, edges)[k] = {t \in T : w[t] = k}
  BY WavesLayered
<1>2. QED
  BY <1>1

\* A dry run of a native plan freezes soundly, in every environment and under
\* every policy.
LEMMA NativeFreezes ==
  ASSUME NEW m \in Manifest, Generate(m) # Rejected, NEW env, NEW policy,
         policy.maxWidth \in Int
  PROVE  SoundlyFrozen(Generate(m), env, policy)
<1>1. PICK T : T = GeneratedTasks(m)
  OBVIOUS
<1>2. PICK edges : edges = DependencyEdges(m, T)
  OBVIOUS
<1>3. PICK plan : plan = Generate(m)
  OBVIOUS
<1>4. ~Cyclic(Graph(T, edges)) /\ plan = GeneratedPlan(m, T, edges)
  BY <1>1, <1>2, <1>3, GenerateMeans
<1>5. Named(T) /\ IsFiniteSet(T) /\ edges \subseteq T \X T
  BY <1>1, <1>2, GeneratedNamed, EdgesWithin DEF Named
<1>6. PICK waves : waves = Waves(T, edges)
  OBVIOUS
<1>7. /\ plan.tasks = T /\ plan.waves = waves /\ plan.gates = HumanGates(T)
      /\ plan.parallel = [k \in DOMAIN waves |-> ParallelSet(waves[k])]
  BY <1>4, <1>6 DEF GeneratedPlan
<1>8. ASSUME NEW k \in DOMAIN waves
      PROVE  /\ waves[k] \subseteq T
             /\ ParallelSet(waves[k]) \subseteq waves[k] /\ Disjoint(ParallelSet(waves[k]))
             /\ IsFiniteSet(ParallelSet(waves[k]))
  <2>1. waves[k] \subseteq T
    BY <1>4, <1>5, <1>6, WavesOfTasks
  <2>2. Named(waves[k]) /\ IsFiniteSet(waves[k])
    BY <1>5, <2>1, FS_Subset DEF Named
  <2>3. QED
    BY <2>1, <2>2, ParallelDisjoint, FS_Subset
<1>9. PICK evaluation : evaluation = Evaluate(plan, env, policy)
  OBVIOUS
<1>10. PICK dry : dry = DryRun(plan, evaluation)
  OBVIOUS
<1>11. PICK results : results = TaskResults(plan, env, policy)
  OBVIOUS
<1>12. dry.width = FeasibleWidth(plan, results, policy)
  BY <1>9, <1>10, <1>11 DEF DryRun, Evaluate
<1>13. \A k \in DOMAIN plan.parallel : plan.parallel[k] \subseteq T
  BY <1>7, <1>8
<1>14. PICK width \in Int :
            /\ width = dry.width
            /\ width <= policy.maxWidth
            /\ width > 0 => \E k \in DOMAIN plan.parallel :
                                width <= Cardinality(plan.parallel[k])
  BY <1>5, <1>12, <1>13, WidthMeans
<1>15. ASSUME width > 0
       PROVE  \E k \in DOMAIN plan.waves : \E S \in SUBSET plan.waves[k] :
                    Cardinality(S) = width /\ Disjoint(S)
  <2>1. PICK k \in DOMAIN waves : width <= Cardinality(ParallelSet(waves[k]))
    BY <1>7, <1>14, <1>15
  <2>2. width \in Nat
    BY <1>15
  <2>3. PICK S \in SUBSET ParallelSet(waves[k]) : Cardinality(S) = width
    BY <1>8, <2>1, <2>2, SmallerPart
  <2>4. S \in SUBSET waves[k] /\ Disjoint(S)
    BY <1>8, <2>3 DEF Disjoint
  <2>5. QED
    BY <1>7, <2>3, <2>4
<1>16. ASSUME NEW t \in plan.tasks, PolicyDecision(t, policy) = "HUMAN_APPROVAL_REQUIRED"
       PROVE  t \in plan.gates
  BY <1>7, <1>16 DEF PolicyDecision, HumanGates
<1>17. Frozen(dry) => \A t \in plan.tasks : Blockers(t, env, policy) = {}
  BY <1>9, <1>10, FrozenMeans
<1>18. QED
  BY <1>3, <1>9, <1>10, <1>14, <1>15, <1>16, <1>17 DEF SoundlyFrozen, Disjoint

-----------------------------------------------------------------------------
(* Residual plans.                                                         *)

\* The work that a review finds left is finitely many pairs of numbers.
LEMMA WorkNamed ==
  ASSUME NEW facts, NEW settled, NEW T,
         T = UNION {TasksFor(g) : g \in Review(facts, settled).gaps}
  PROVE  Named(T) /\ NoGate \notin T
<1>1. PICK gaps : gaps = ResidualGaps(facts)
  OBVIOUS
<1>2. Review(facts, settled).gaps = gaps
  BY <1>1 DEF Review
<1>3. \A g \in gaps : \E c \in Reviewed : g \in {<<c, "IMPLEMENTATION_GAP">>, <<c, "EVIDENCE_GAP">>}
  BY <1>1 DEF ResidualGaps
<1> DEFINE Pairs == (Reviewed \cup {8}) \X (1..5)
<1>4. ASSUME NEW g \in gaps PROVE TasksFor(g) \subseteq Pairs
  <2>1. PICK c \in Reviewed : g[1] = c
    BY <1>3
  <2>2. QED
    BY <2>1 DEF TasksFor, Agreement, Evidence, Service, Verification, Verify
<1>5. T \subseteq Pairs
  BY <1>2, <1>4
<1>6. IsFiniteSet(Pairs)
  <2>1. IsFiniteSet(Reviewed \cup {8})
    BY ReviewAssumption, FS_AddElement
  <2>2. IsFiniteSet(1..5)
    <3>1. 1..5 \in SUBSET Nat /\ 5 \in Nat /\ \A k \in 1..5 : k <= 5
      OBVIOUS
    <3>2. QED
      BY <3>1, FS_BoundedSetOfNaturals
  <2>3. QED
    BY <2>1, <2>2, FS_Product
<1>7. Pairs \subseteq Nat \X Nat
  <2>1. Reviewed \subseteq Nat
    BY ReviewAssumption
  <2>2. Reviewed \cup {8} \subseteq Nat /\ 1..5 \subseteq Nat
    BY <2>1
  <2>3. QED
    BY <2>2
<1>8. Named(T)
  BY <1>5, <1>6, <1>7, FS_Subset DEF Named
<1>9. QED
  BY <1>8, NamedNotMark

\* The fixed edges lead from a later capability or kind of work to an earlier one.
LEMMA ResidualNotCyclic ==
  ASSUME NEW T, IsFiniteSet(T)
  PROVE  /\ ResidualEdges(T) \subseteq T \X T
         /\ ~Cyclic(Graph(T, ResidualEdges(T)))
<1>1. PICK edges : edges = ResidualEdges(T)
  OBVIOUS
<1>2. edges \subseteq T \X T
  BY <1>1 DEF ResidualEdges
<1> DEFINE w == [t \in T |->
                    CASE t = <<5, 2>> -> 1 [] t = <<6, 2>> -> 2 [] t = <<7, 2>> -> 3
                      [] t = <<8, 1>> -> 4 [] t = <<8, 3>> -> 5 [] t = <<8, 4>> -> 6
                      [] t = <<9, 2>> -> 7 [] OTHER -> 0]
<1>3. w \in [T -> Nat]
  OBVIOUS
<1>4. ASSUME NEW t \in T, NEW d \in T, <<t, d>> \in edges PROVE w[d] < w[t]
  BY <1>1, <1>4 DEF ResidualEdges, Agreement, Evidence, Service, Verification
<1>5. PICK g \in [T -> SUBSET T] : g = Graph(T, edges)
  BY <1>2, GraphOf
<1>6. \A t \in T : \A d \in g[t] : w[d] < w[t]
  BY <1>2, <1>4, <1>5, GraphOf
<1>7. ~Cyclic(g)
  <2> HIDE DEF w
  <2>1. QED
    BY <1>3, <1>6, RankedNotCyclic
<1>8. QED
  BY <1>1, <1>2, <1>5, <1>7

\* A plan that comes from a review is on a graph without a cycle
\* (generate_residual_implementation_plan).
LEMMA ResidualOnGraph ==
  ASSUME NEW facts, NEW settled, NEW review, review = Review(facts, settled),
         ResidualPlan(review) # Rejected
  PROVE  OnGraph(ResidualPlan(review))
<1>1. PICK T : T = UNION {TasksFor(g) : g \in review.gaps}
  OBVIOUS
<1>2. Named(T) /\ NoGate \notin T
  BY <1>1, WorkNamed
<1>3. PICK edges : edges = ResidualEdges(T)
  OBVIOUS
<1>4. edges \subseteq T \X T /\ ~Cyclic(Graph(T, edges))
  BY <1>2, <1>3, ResidualNotCyclic DEF Named
<1>5. "CYCLE" \notin ResidualFindings(review, T, edges)
  BY <1>4 DEF ResidualFindings
<1>6. PICK plan : plan = ResidualPlan(review)
  OBVIOUS
<1>7. plan = [review |-> review, tasks |-> T, edges |-> edges,
              findings |-> ResidualFindings(review, T, edges),
              waves |-> Waves(T, edges), critical |-> CriticalPath(T, edges),
              gates |-> ResidualHumanGates(T)]
  BY <1>1, <1>3, <1>5, <1>6, Zenon DEF ResidualPlan
<1>8. Orderly(plan, T, edges)
  BY <1>7 DEF Orderly
<1>9. QED
  BY <1>2, <1>4, <1>6, <1>8 DEF OnGraph

-----------------------------------------------------------------------------
(* Every plan that is there.                                               *)

\* A review that is there was written by a review, here or where the plan was
\* released, and the plan that is there was generated from one.
ReviewKnown == pir # Absent => \E facts, settled : pir = Review(facts, settled)

PlanFileKnown ==
    planFile # Absent =>
        \E facts, settled : /\ planFile = ResidualPlan(Review(facts, settled))
                            /\ planFile # Rejected

DraftKnown == draft # None => draft \in Manifest

PlansInv == ReviewKnown /\ PlanFileKnown /\ DraftKnown

LEMMA InitPlans == PlannedInit => PlansInv
<1> SUFFICES ASSUME PlannedInit PROVE PlansInv
  OBVIOUS
<1>1. draft = None /\ planFile = Absent /\ pir \in {Absent, Released}
  BY Zenon DEF PlannedInit, ChainInit
<1>2. ReviewKnown
  BY <1>1, ReviewAssumption, Zenon DEF ReviewKnown
<1>3. QED
  BY <1>1, <1>2, Zenon DEF PlansInv, PlanFileKnown, DraftKnown

LEMMA GeneratePlans ==
  ASSUME PlansInv, GeneratePlan, draft' = draft
  PROVE  PlansInv'
<1>1. CASE pir' = pir /\ planFile' = planFile
  BY <1>1, Zenon DEF PlansInv, ReviewKnown, PlanFileKnown, DraftKnown
<1>2. CASE PlanOfReview # Rejected /\ planFile' = PlanOfReview /\ pir' = pir
  <2>1. pir # Absent /\ planFile' = ResidualPlan(pir) /\ ResidualPlan(pir) # Rejected
    BY <1>2, Zenon DEF PlanOfReview
  <2>2. PICK facts, settled : pir = Review(facts, settled)
    BY <2>1, Zenon DEF PlansInv, ReviewKnown
  <2>3. PlanFileKnown'
    BY <2>1, <2>2, Zenon DEF PlanFileKnown
  <2>4. QED
    BY <1>2, <2>3, Zenon DEF PlansInv, ReviewKnown, DraftKnown
<1>3. QED
  BY <1>1, <1>2, Zenon DEF GeneratePlan, GiveUp, Do, files

LEMMA OtherCommands ==
  ASSUME NEW env, CommandStep(env)
  PROVE  GeneratePlan \/ (pir' = pir /\ planFile' = planFile)
<1>1. ASSUME NEW c, Do(c) PROVE pir' = pir /\ planFile' = planFile
  BY <1>1 DEF Do, files
<1>2. ASSUME GiveUp PROVE pir' = pir /\ planFile' = planFile
  BY <1>1, <1>2 DEF GiveUp
<1>3. ASSUME NEW a, HandOver(a) PROVE pir' = pir /\ planFile' = planFile
  BY <1>2, <1>3 DEF HandOver, files
<1>4. CASE WriteFeasibility(env)
  BY <1>4 DEF WriteFeasibility
<1>5. CASE Freeze(env)
  BY <1>1, <1>2, <1>5, Zenon DEF Freeze
<1>6. CASE GenerateAgain
  BY <1>1, <1>2, <1>6, Zenon DEF GenerateAgain
<1>7. CASE WriteGate(env)
  BY <1>7, Zenon DEF WriteGate
<1>8. CASE LoadGate
  BY <1>1, <1>2, <1>8, Zenon DEF LoadGate
<1>9. CASE LoadPlanFile
  BY <1>1, <1>2, <1>9, Zenon DEF LoadPlanFile
<1>10. CASE LoadCurrent(env)
  BY <1>1, <1>3, <1>10, Zenon DEF LoadCurrent
<1>11. CASE LoadRecorded(env)
  BY <1>2, <1>3, <1>11, Zenon DEF LoadRecorded
<1>12. CASE Die
  BY <1>2, <1>12 DEF Die
<1>13. QED
  BY <1>4, <1>5, <1>6, <1>7, <1>8, <1>9, <1>10, <1>11, <1>12, Zenon DEF CommandStep

LEMMA NextPlans == PlansInv /\ [PlannedNext]_<<vars, draft, chain>> => PlansInv'
<1> SUFFICES ASSUME PlansInv, [PlannedNext]_<<vars, draft, chain>> PROVE PlansInv'
  OBVIOUS
<1>1. ASSUME pir' = pir, planFile' = planFile, draft' = draft PROVE PlansInv'
  BY <1>1, Zenon DEF PlansInv, ReviewKnown, PlanFileKnown, DraftKnown
<1>2. CASE UNCHANGED <<draft, chain>>
  BY <1>1, <1>2 DEF chain
<1>3. ASSUME NEW m \in Manifest, DraftPlan(m) PROVE PlansInv'
  <2>1. draft' = m /\ pir' = pir /\ planFile' = planFile
    BY <1>3 DEF DraftPlan, chain
  <2>2. QED
    BY <2>1, Zenon DEF PlansInv, ReviewKnown, PlanFileKnown, DraftKnown
<1>4. CASE RequestCommand
  <2>0. draft' = draft
    BY <1>4 DEF RequestCommand
  <2>1. ASSUME NEW facts \in Facts, WriteReview(facts, Settled) PROVE PlansInv'
    <3>1. PICK settled : settled = Settled
      OBVIOUS
    <3>2. pir' = Review(facts, settled) /\ planFile' = planFile
      BY <2>1, <3>1 DEF WriteReview
    <3>3. ReviewKnown'
      BY <3>2, Zenon DEF ReviewKnown
    <3>4. QED
      BY <2>0, <3>2, <3>3, Zenon DEF PlansInv, PlanFileKnown, DraftKnown
  <2>2. ASSUME NEW goal \in Goal, NEW expected, StartCommand(goal, expected) PROVE PlansInv'
    <3>1. pir' = pir /\ planFile' = planFile
      BY <2>2 DEF StartCommand, Do, files
    <3>2. QED
      BY <1>1, <2>0, <3>1
  <2>3. QED
    BY <1>4, <2>1, <2>2, Zenon DEF RequestCommand
<1>5. CASE RunCommand
  <2>1. draft' = draft /\ CommandStep(EnvRecord[environment])
    BY <1>5 DEF RunCommand
  <2>2. QED
    BY <1>1, <2>1, GeneratePlans, OtherCommands
<1>6. QED
  BY <1>2, <1>3, <1>4, <1>5, Zenon DEF PlannedNext

LEMMA PlansInvariant == PlannedSpec => []PlansInv
<1>1. QED
  BY InitPlans, NextPlans, PTL DEF PlannedSpec

LEMMA EveryPlan ==
  ASSUME PlansInv, NEW plan \in Plans
  PROVE  OnGraph(plan)
<1>1. CASE plan = Drafted
  <2>1. Drafted # Rejected
    BY <1>1 DEF Plans
  <2>2. draft # None /\ Drafted = Generate(draft)
    BY <2>1, Zenon DEF Drafted
  <2>3. draft \in Manifest
    BY <2>2 DEF PlansInv, DraftKnown
  <2>4. QED
    BY <1>1, <2>1, <2>2, <2>3, NativeOnGraph
<1>2. CASE plan = planFile
  <2>1. planFile # Absent
    BY <1>2 DEF Plans
  <2>2. PICK facts, settled : /\ planFile = ResidualPlan(Review(facts, settled))
                              /\ planFile # Rejected
    BY <2>1 DEF PlansInv, PlanFileKnown
  <2>3. PICK review : review = Review(facts, settled)
    OBVIOUS
  <2>4. QED
    BY <1>2, <2>2, <2>3, ResidualOnGraph
<1>3. QED
  BY <1>1, <1>2 DEF Plans

\* For every manifest, review and order of commands: the waves of a generated
\* plan partition its tasks, each comes one wave after the latest of its
\* dependencies, and the critical path is a chain as long as there are waves;
\* its batches run every task once and after its dependencies, a task behind a
\* gate is alone in its batch, and a batch without a gate resumes after the gate
\* of the batch before it (_implementation_waves, _critical_path,
\* _execution_batches).
THEOREM PlansAreOrdered == PlannedSpec => []PlanOrdered
<1>1. PlansInv => PlanOrdered
  BY EveryPlan, OnGraphSound DEF PlanOrdered
<1>2. QED
  BY <1>1, PlansInvariant, PTL

\* For every manifest, environment and policy, a dry run that freezes has no
\* task that is blocked, gates every task that its policy reserves to a human,
\* and promises no more tasks at once than have disjoint write scopes in a wave
\* (evaluate_implementation_plan_feasibility, dry_run_evaluated_plan).
THEOREM FreezesAreSound == PlannedSpec => []FreezeSound
<1>1. PlansInv => FreezeSound
  <2> SUFFICES ASSUME PlansInv, Drafted # Rejected, NEW policy \in Policy
               PROVE  SoundlyFrozen(Drafted, EnvRecord[environment], policy)
    BY DEF FreezeSound
  <2>1. draft # None /\ Drafted = Generate(draft)
    BY Zenon DEF Drafted
  <2>2. draft \in Manifest
    BY <2>1 DEF PlansInv, DraftKnown
  <2>3. policy.maxWidth \in Int
    BY PolicyAssumption
  <2>4. PICK env : env = EnvRecord[environment]
    OBVIOUS
  <2>5. QED
    BY <2>1, <2>2, <2>3, <2>4, NativeFreezes
<1>2. QED
  BY <1>1, PlansInvariant, PTL

-----------------------------------------------------------------------------
(* The accepted residual plan.                                             *)

\* A plan of a review that asked for one.
OfReview(plan) ==
    /\ plan.review.result = "RESIDUAL_GAPS_REQUIRE_NEW_DAG"
    /\ plan.tasks = UNION {TasksFor(g) : g \in plan.review.gaps}

CommandSound ==
    command # Absent =>
        /\ {"goal", "step", "plan", "feasibility", "dry", "gate", "expected"} \subseteq DOMAIN command
        /\ command.step = "decide" => OfReview(command.plan)

GateSound ==
    rpg # Absent /\ GateAccepts(rpg) =>
        /\ rpg.plan = rpg.dry.plan /\ rpg.feasibility = rpg.dry.feasibility
        /\ OfReview(rpg.plan)
        /\ \A t \in rpg.plan.tasks : rpg.feasibility.results[t] # "BLOCKED"
        /\ rpg.plan.tasks # {}
        /\ \E env : rpg.feasibility = EvaluateResidual(rpg.plan, env, env)

HandedSound == handed # Absent => handed.plan = ReleasedPlan /\ AsAccepted(handed)

ResidualInv == CommandSound /\ GateSound /\ HandedSound

-----------------------------------------------------------------------------

\* A plan that is not rejected is one of a review that asked for it
\* (generate_residual_implementation_plan).
LEMMA PlanOfItsReview ==
    ASSUME NEW review, ResidualPlan(review) # Rejected
    PROVE  OfReview(ResidualPlan(review))
<1> DEFINE T == UNION {TasksFor(g) : g \in review.gaps}
           edges == ResidualEdges(T)
           findings == ResidualFindings(review, T, edges)
           cyclic == "CYCLE" \in findings
           plan == [review |-> review, tasks |-> T, edges |-> edges, findings |-> findings,
                    waves |-> IF cyclic THEN <<>> ELSE Waves(T, edges),
                    critical |-> IF cyclic THEN <<>> ELSE CriticalPath(T, edges),
                    gates |-> ResidualHumanGates(T)]
<1>1. /\ review.result = "RESIDUAL_GAPS_REQUIRE_NEW_DAG"
      /\ ResidualPlan(review) = plan
  BY Zenon DEF ResidualPlan
<1>2. plan.review = review /\ plan.tasks = T
  OBVIOUS
<1> QED
  BY <1>1, <1>2, Zenon DEF OfReview

LEMMA SevenAreSome ==
    ASSUME NEW S, Cardinality(S) = 7
    PROVE  S # {}
<1>1. Cardinality({}) = 0
  BY FS_EmptySet
<1> QED
  BY <1>1

LEMMA ResultsOfTasks ==
    ASSUME NEW plan, NEW recorded, NEW live
    PROVE  DOMAIN EvaluateResidual(plan, recorded, live).results = plan.tasks
<1>1. DOMAIN ResidualResults(plan, ResidualTool(recorded, live), recorded) = plan.tasks
  BY DEF ResidualResults
<1> QED
  BY <1>1 DEF EvaluateResidual

\* What an accepted gate counts, for a plan evaluated in an environment
\* (_validations).
LEMMA GateMeans ==
    ASSUME NEW plan, NEW env, NEW feasibility, feasibility = EvaluateResidual(plan, env, env),
           NEW dry, NEW expected, GateResult(plan, feasibility, dry, expected) # "REJECTED"
    PROVE  /\ plan = dry.plan /\ feasibility = dry.feasibility
           /\ plan.tasks # {}
           /\ \A t \in plan.tasks : feasibility.results[t] # "BLOCKED"
<1>1. /\ plan = dry.plan /\ feasibility = dry.feasibility
      /\ Cardinality(plan.tasks) = 7
      /\ \A t \in DOMAIN feasibility.results : feasibility.results[t] # "BLOCKED"
  BY Zenon DEF GateResult, ResidualDefects
<1>2. plan.tasks # {}
  BY <1>1, SevenAreSome, Zenon
<1>3. DOMAIN feasibility.results = plan.tasks
  BY ResultsOfTasks, Zenon
<1> QED
  BY <1>1, <1>2, <1>3, Zenon

\* A task that is not blocked found its executor, so the environment has it,
\* whatever tools there are at another moment (_executor_feasibility).
LEMMA SameElsewhere ==
    ASSUME NEW plan, NEW env, NEW live, NEW t \in plan.tasks,
           EvaluateResidual(plan, env, env).results[t] # "BLOCKED"
    PROVE  EvaluateResidual(plan, env, live) = EvaluateResidual(plan, env, env)
<1> DEFINE tool == ResidualTool(env, env)
<1>1. EvaluateResidual(plan, env, env).results = ResidualResults(plan, tool, env)
  BY DEF EvaluateResidual
<1>2. ResidualResults(plan, tool, env)[t] # "BLOCKED"
  BY <1>1
<1>3. ResidualTaskStatus(t, plan, tool, env) # "BLOCKED"
  BY <1>2, Zenon DEF ResidualResults
<1>4. ResidualBlockers(t, tool, env) = {}
  BY <1>3, Zenon DEF ResidualTaskStatus
<1>5. tool # "MISSING"
  BY <1>4 DEF ResidualBlockers
<1>6. ~(~env.codexAvailable /\ ~env.codexAvailable)
  BY <1>5, Zenon DEF ResidualTool
<1>7. ResidualTool(env, live) = ResidualTool(env, env)
  BY <1>6, Zenon DEF ResidualTool
<1> QED
  BY <1>7, Zenon DEF EvaluateResidual

-----------------------------------------------------------------------------
(* The steps. *)

LEMMA ChainUntouched == ResidualInv /\ UNCHANGED chain => ResidualInv'
  BY DEF ResidualInv, CommandSound, GateSound, HandedSound, chain, OfReview, AsAccepted,
         GateAccepts

\* A command that only goes on, or ends.
LEMMA OnlyCommand ==
    ASSUME ResidualInv, NEW c, Do(c), CommandSound'
    PROVE  ResidualInv'
  BY DEF ResidualInv, CommandSound, GateSound, HandedSound, Do, files, OfReview, AsAccepted,
         GateAccepts

LEMMA GivesUp == ResidualInv /\ GiveUp => ResidualInv'
<1> SUFFICES ASSUME ResidualInv, Do(Absent) PROVE ResidualInv'
  BY DEF GiveUp
<1>1. CommandSound'
  BY DEF Do, CommandSound
<1> QED
  BY <1>1, OnlyCommand

LEMMA ReviewKeeps ==
    ASSUME ResidualInv, NEW facts, NEW settled, WriteReview(facts, settled)
    PROVE  ResidualInv'
  BY DEF ResidualInv, CommandSound, GateSound, HandedSound, WriteReview, OfReview, AsAccepted,
         GateAccepts

LEMMA StartKeeps ==
    ASSUME ResidualInv, NEW goal, NEW expected, StartCommand(goal, expected)
    PROVE  ResidualInv'
<1> DEFINE c == [goal |-> goal, step |-> IF goal = "load" THEN "gate" ELSE "plan",
                 expected |-> expected, gate |-> Absent, plan |-> Absent,
                 feasibility |-> Absent, dry |-> Absent]
<1>1. Do(c)
  BY DEF StartCommand
<1>2. c.step # "decide"
  OBVIOUS
<1>3. {"goal", "step", "plan", "feasibility", "dry", "gate", "expected"} \subseteq DOMAIN c
  OBVIOUS
<1>4. command' = c
  BY <1>1, Zenon DEF Do
<1>5. CommandSound'
  BY <1>2, <1>3, <1>4, Zenon DEF CommandSound
<1> QED
  BY <1>1, <1>5, OnlyCommand, Zenon

LEMMA GenerateKeeps == ResidualInv /\ GeneratePlan => ResidualInv'
<1> SUFFICES ASSUME ResidualInv, GeneratePlan PROVE ResidualInv'
  OBVIOUS
<1>1. CASE GiveUp
  BY <1>1, GivesUp
<1>2. CASE command' = Absent /\ UNCHANGED <<pir, report, rpg, handed>>
  BY <1>2 DEF ResidualInv, CommandSound, GateSound, HandedSound, OfReview, AsAccepted,
              GateAccepts
<1>3. CASE Do([command EXCEPT !.step = "feasibility", !.plan = PlanOfReview])
  <2>1. CommandSound'
    BY <1>3 DEF ResidualInv, CommandSound, Do, GeneratePlan, At
  <2> QED
    BY <1>3, <2>1, OnlyCommand
<1> QED
  BY <1>1, <1>2, <1>3, Zenon DEF GeneratePlan

LEMMA FeasibilityKeeps ==
    ASSUME ResidualInv, NEW env, WriteFeasibility(env) PROVE ResidualInv'
<1>1. command' = Absent /\ rpg' = rpg /\ handed' = handed
  BY Zenon DEF WriteFeasibility
<1> QED
  BY <1>1 DEF ResidualInv, CommandSound, GateSound, HandedSound, OfReview, AsAccepted,
              GateAccepts

LEMMA FreezeKeeps ==
    ASSUME ResidualInv, NEW env, Freeze(env) PROVE ResidualInv'
<1>1. CASE GiveUp
  BY <1>1, GivesUp
<1>2. ASSUME NEW dry, Do([command EXCEPT !.step = "again", !.dry = dry])
      PROVE  ResidualInv'
  <2>1. CommandSound'
    BY <1>2 DEF ResidualInv, CommandSound, Do, Freeze, At
  <2> QED
    BY <1>2, <2>1, OnlyCommand
<1> QED
  BY <1>1, <1>2, Zenon DEF Freeze

LEMMA GenerateAgainKeeps == ResidualInv /\ GenerateAgain => ResidualInv'
<1> SUFFICES ASSUME ResidualInv, GenerateAgain PROVE ResidualInv'
  OBVIOUS
<1>1. CASE GiveUp
  BY <1>1, GivesUp
<1>2. CASE /\ PlanOfReview # Rejected
           /\ Do([command EXCEPT !.step = "decide", !.plan = PlanOfReview])
  <2>1. OfReview(PlanOfReview)
    BY <1>2, PlanOfItsReview, Zenon DEF PlanOfReview
  <2>2. /\ {"goal", "step", "plan", "feasibility", "dry", "gate", "expected"} \subseteq DOMAIN command
    BY DEF ResidualInv, CommandSound, GenerateAgain, At
  <2>3. /\ command'.plan = PlanOfReview
        /\ DOMAIN command' = DOMAIN command
    BY <1>2, <2>2 DEF Do
  <2>4. CommandSound'
    <3>1. OfReview(command'.plan)
      BY <2>1, <2>3, Zenon
    <3> QED
      BY <3>1, <2>2, <2>3, Zenon DEF CommandSound, OfReview
  <2> QED
    BY <1>2, <2>4, OnlyCommand
<1> QED
  BY <1>1, <1>2, Zenon DEF GenerateAgain

LEMMA GateKeeps ==
    ASSUME ResidualInv, NEW env, WriteGate(env) PROVE ResidualInv'
<1>1. PICK feasibility :
        /\ feasibility = EvaluateResidual(command.plan, env, env)
        /\ rpg' = [result |-> GateResult(command.plan, feasibility, command.dry, command.expected),
                   plan |-> command.plan, feasibility |-> feasibility, dry |-> command.dry]
        /\ command' = Absent /\ handed' = handed
  BY Zenon DEF WriteGate
<1>2. OfReview(command.plan)
  BY Zenon DEF ResidualInv, CommandSound, WriteGate, At
<1>3. CommandSound' /\ HandedSound'
  BY <1>1 DEF ResidualInv, CommandSound, HandedSound, AsAccepted, GateAccepts
<1>4. /\ rpg'.plan = command.plan /\ rpg'.dry = command.dry /\ rpg'.feasibility = feasibility
      /\ rpg'.result = GateResult(command.plan, feasibility, command.dry, command.expected)
  BY <1>1
<1>5. ASSUME GateAccepts(rpg') PROVE GateSound'
  <2>1. GateResult(command.plan, feasibility, command.dry, command.expected) # "REJECTED"
    BY <1>4, <1>5, Zenon DEF GateAccepts
  <2>2. /\ command.plan = command.dry.plan /\ feasibility = command.dry.feasibility
        /\ command.plan.tasks # {}
        /\ \A t \in command.plan.tasks : feasibility.results[t] # "BLOCKED"
    BY <1>1, <2>1, GateMeans
  <2> QED
    BY <1>1, <1>2, <1>4, <2>2, Zenon DEF GateSound, OfReview
<1> QED
  BY <1>3, <1>5, Zenon DEF ResidualInv, GateSound, GateAccepts

LEMMA LoadKeeps ==
    ASSUME ResidualInv, NEW env,
           LoadGate \/ LoadPlanFile \/ LoadCurrent(env) \/ LoadRecorded(env)
    PROVE  ResidualInv'
<1>1. ASSUME GiveUp PROVE ResidualInv'
  BY <1>1, GivesUp
<1>2. ASSUME NEW recorded, HandOver(Loaded(recorded, env)) PROVE ResidualInv'
  <2> DEFINE a == Loaded(recorded, env)
  <2>1. a.dry.feasibility = a.feasibility /\ a.gate = command.gate
    BY DEF Loaded, ResidualDryRun
  <2>2. CASE ArtifactsPass(a) /\ handed' = a /\ command' = Absent /\ UNCHANGED files
    <3>1. a.plan = ReleasedPlan /\ AsAccepted(a)
      BY <2>1, <2>2, Zenon DEF ArtifactsPass, AsAccepted
    <3>2. HandedSound'
      BY <2>2, <3>1, Zenon DEF HandedSound, AsAccepted, GateAccepts
    <3>3. CommandSound' /\ GateSound'
      BY <2>2 DEF ResidualInv, CommandSound, GateSound, files, OfReview, GateAccepts
    <3> QED
      BY <3>2, <3>3, Zenon DEF ResidualInv
  <2> QED
    BY <1>1, <1>2, <2>2, Zenon DEF HandOver
<1>3. ASSUME NEW c, Do(c), CommandSound' PROVE ResidualInv'
  BY <1>3, OnlyCommand
<1>4. CASE LoadGate
  <2>1. CASE Do([command EXCEPT !.step = "file", !.gate = rpg])
    <3>1. CommandSound'
      BY <1>4, <2>1 DEF ResidualInv, CommandSound, Do, LoadGate, At
    <3> QED
      BY <1>3, <2>1, <3>1
  <2> QED
    BY <1>1, <1>4, <2>1, Zenon DEF LoadGate
<1>5. CASE LoadPlanFile
  <2>1. ASSUME NEW plan, Do([command EXCEPT !.step = "current", !.plan = plan])
        PROVE  ResidualInv'
    <3>1. CommandSound'
      BY <1>5, <2>1 DEF ResidualInv, CommandSound, Do, LoadPlanFile, At
    <3> QED
      BY <1>3, <2>1, <3>1
  <2> QED
    BY <1>1, <1>5, <2>1, Zenon DEF LoadPlanFile
<1>6. CASE LoadCurrent(env)
  <2>1. CASE Do([command EXCEPT !.step = "recorded"])
    <3>1. CommandSound'
      BY <1>6, <2>1 DEF ResidualInv, CommandSound, Do, LoadCurrent, At
    <3> QED
      BY <1>3, <2>1, <3>1
  <2> QED
    BY <1>2, <1>6, <2>1, Zenon DEF LoadCurrent
<1>7. CASE LoadRecorded(env)
  BY <1>1, <1>2, <1>7, Zenon DEF LoadRecorded
<1> QED
  BY <1>4, <1>5, <1>6, <1>7

-----------------------------------------------------------------------------

LEMMA InitResidual == PlannedInit => ResidualInv
<1> SUFFICES ASSUME PlannedInit PROVE ResidualInv
  OBVIOUS
<1>1. command = Absent /\ rpg = Absent /\ handed = Absent
  BY Zenon DEF PlannedInit, ChainInit
<1> QED
  BY <1>1, Zenon DEF ResidualInv, CommandSound, GateSound, HandedSound

LEMMA NextResidual == ResidualInv /\ [PlannedNext]_<<vars, draft, chain>> => ResidualInv'
<1> SUFFICES ASSUME ResidualInv, [PlannedNext]_<<vars, draft, chain>> PROVE ResidualInv'
  OBVIOUS
<1>1. CASE UNCHANGED chain
  BY <1>1, ChainUntouched
<1>2. CASE RequestCommand
  BY <1>2, ReviewKeeps, StartKeeps, Zenon DEF RequestCommand
<1>3. CASE RunCommand
  <2> DEFINE env == EnvRecord[environment]
  <2>1. CASE GeneratePlan \/ GenerateAgain
    BY <2>1, GenerateKeeps, GenerateAgainKeeps
  <2>2. CASE WriteFeasibility(env) \/ Freeze(env)
    BY <2>2, FeasibilityKeeps, FreezeKeeps
  <2>3. CASE WriteGate(env)
    BY <2>3, GateKeeps
  <2>4. CASE LoadGate \/ LoadPlanFile \/ LoadCurrent(env) \/ LoadRecorded(env)
    BY <2>4, LoadKeeps
  <2>5. CASE Die
    BY <2>5, GivesUp DEF Die
  <2> QED
    BY <1>3, <2>1, <2>2, <2>3, <2>4, <2>5, Zenon DEF RunCommand, CommandStep
<1> QED
  BY <1>1, <1>2, <1>3, Zenon DEF PlannedNext, DraftPlan, vars, chain

LEMMA ResidualInvariant == PlannedSpec => []ResidualInv
<1>1. ResidualInv /\ UNCHANGED <<vars, draft, chain>> => ResidualInv'
  BY NextResidual
<1> QED
  BY InitResidual, NextResidual, PTL DEF PlannedSpec

\* For any facts, environments and order of reviews, commands and changes, an
\* accepted residual plan is of one review, one plan and one environment, and
\* only what was accepted is loaded for import.
THEOREM AcceptedResidual == PlannedSpec => []ResidualAsAccepted
<1>1. ResidualInv => ResidualAsAccepted
  BY Zenon DEF ResidualInv, GateSound, HandedSound, OfReview, ResidualAsAccepted
<1> QED
  BY <1>1, ResidualInvariant, PTL

\* Whatever the environments are, evaluating an accepted plan again in the one
\* of its acceptance gives what was accepted.
THEOREM ResidualComesOutAgain == PlannedSpec => []ResidualReproducible
<1>1. ResidualInv => ResidualReproducible
  <2> SUFFICES ASSUME ResidualInv, rpg # Absent, GateAccepts(rpg), NEW e \in Env
               PROVE  EvaluateResidual(rpg.plan, rpg.feasibility.env, EnvRecord[e])
                        = rpg.feasibility
    BY Zenon DEF ResidualReproducible
  <2>1. PICK env : rpg.feasibility = EvaluateResidual(rpg.plan, env, env)
    BY Zenon DEF ResidualInv, GateSound
  <2>2. PICK t \in rpg.plan.tasks : rpg.feasibility.results[t] # "BLOCKED"
    BY Zenon DEF ResidualInv, GateSound
  <2>3. EvaluateResidual(rpg.plan, env, EnvRecord[e]) = EvaluateResidual(rpg.plan, env, env)
    BY <2>1, <2>2, SameElsewhere
  <2>4. rpg.feasibility.env = env
    BY <2>1 DEF EvaluateResidual
  <2> QED
    BY <2>1, <2>3, <2>4, Zenon
<1> QED
  BY <1>1, ResidualInvariant, PTL
=============================================================================
