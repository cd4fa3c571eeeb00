--------------------------- MODULE DependencyOrder ---------------------------
(***************************************************************************)
(* Lemmas about definitions by recursion on a natural number, and about    *)
(* graphs of dependencies: what is reached along them, and the waves in    *)
(* which an acyclic graph is placed.  Induction is over a set of numbers,  *)
(* which the provers can instantiate.                                      *)
(***************************************************************************)
EXTENDS Integers, FiniteSetTheorems, TLAPS

LEMMA SmallestNumber ==
  ASSUME NEW P \in SUBSET Nat, P # {}
  PROVE  \E n \in P : \A m \in P : n <= m
<1> DEFINE R == OpToRel(<, Nat)
<1>1. IsWellFoundedOn(R, Nat)
  BY NatLessThanWellFounded
<1>2. PICK n \in P : \A m \in P : ~(<<m, n>> \in R)
  BY <1>1, WFMin
<1>3. \A m \in P : ~(m < n)
  BY <1>2 DEF OpToRel
<1>4. QED
  BY <1>3

LEMMA Induction ==
  ASSUME NEW P \in SUBSET Nat, 0 \in P, \A n \in P : n + 1 \in P
  PROVE  P = Nat
<1> SUFFICES ASSUME Nat \ P # {} PROVE FALSE
  OBVIOUS
<1>1. PICK n \in Nat \ P : \A m \in Nat \ P : n <= m
  BY SmallestNumber
<1>2. n - 1 \in Nat /\ n - 1 \in P
  BY <1>1
<1>3. QED
  BY <1>1, <1>2

LEMMA LargestNumber ==
  ASSUME NEW P \in SUBSET Nat, P # {}, NEW b \in Nat, \A n \in P : n <= b
  PROVE  \E n \in P : \A m \in P : m <= n
<1> DEFINE Q == {d \in Nat : \E n \in P : d = b - n}
<1>1. Q \in SUBSET Nat /\ Q # {}
  <2>1. PICK m \in P : TRUE
    OBVIOUS
  <2>2. m \in Nat /\ m <= b
    OBVIOUS
  <2>3. b - m \in Q
    BY <2>2
  <2>4. QED
    BY <2>3
<1>2. PICK d \in Q : \A e \in Q : d <= e
  <2> HIDE DEF Q
  <2>1. QED
    BY <1>1, SmallestNumber
<1>3. PICK n \in P : d = b - n
  OBVIOUS
<1>4. ASSUME NEW m \in P PROVE m <= n
  <2>1. b - m \in Q
    OBVIOUS
  <2>2. QED
    BY <1>2, <1>3, <2>1
<1>5. QED
  BY <1>4

\* What a recursion on a number defines: f[k] comes from f[k - 1] by the k-th step.
Follows(f, N, X, first, step) ==
    f \in [0..N -> X] /\ f[0] = first /\ \A k \in 1..N : f[k] = step[k][f[k - 1]]

LEMMA Recursion ==
  ASSUME NEW N \in Nat, NEW X, NEW first \in X, NEW step \in [1..N -> [X -> X]]
  PROVE  \E f : Follows(f, N, X, first, step)
<1> DEFINE Good(n) == \E f \in [0..n -> X] :
                          f[0] = first /\ \A k \in 1..n : f[k] = step[k][f[k - 1]]
           P == {n \in Nat : n <= N => Good(n)}
<1>1. 0 \in P
  <2> DEFINE f == [k \in 0..0 |-> first]
  <2>1. f \in [0..0 -> X] /\ f[0] = first /\ \A k \in 1..0 : f[k] = step[k][f[k - 1]]
    OBVIOUS
  <2>2. Good(0)
    BY <2>1
  <2>3. QED
    BY <2>2
<1>2. ASSUME NEW n \in P PROVE n + 1 \in P
  <2> SUFFICES ASSUME n + 1 <= N PROVE Good(n + 1)
    OBVIOUS
  <2>1. PICK f \in [0..n -> X] : f[0] = first /\ \A k \in 1..n : f[k] = step[k][f[k - 1]]
    OBVIOUS
  <2> DEFINE g == [k \in 0..(n + 1) |-> IF k = n + 1 THEN step[n + 1][f[n]] ELSE f[k]]
  <2>2. g \in [0..(n + 1) -> X]
    <3>1. n + 1 \in 1..N /\ f[n] \in X
      OBVIOUS
    <3>2. step[n + 1][f[n]] \in X
      BY <3>1
    <3>3. QED
      BY <3>2
  <2>3. g[0] = first
    BY <2>1
  <2>4. ASSUME NEW k \in 1..(n + 1) PROVE g[k] = step[k][g[k - 1]]
    BY <2>1
  <2> HIDE DEF g
  <2>5. QED
    BY <2>2, <2>3, <2>4
<1>3. Good(N)
  <2> HIDE DEF P
  <2>1. P = Nat
    BY <1>1, <1>2, Induction DEF P
  <2>2. QED
    BY <2>1 DEF P
<1>4. QED
  BY <1>3 DEF Follows

\* A step applied again and again.
Iterates(f, N, X, first, step) ==
    f \in [0..N -> X] /\ f[0] = first /\ \A k \in 1..N : f[k] = step[f[k - 1]]

LEMMA Iteration ==
  ASSUME NEW N \in Nat, NEW X, NEW first \in X, NEW step \in [X -> X]
  PROVE  \E f : Iterates(f, N, X, first, step)
<1> DEFINE steps == [k \in 1..N |-> step]
<1>1. steps \in [1..N -> [X -> X]]
  OBVIOUS
<1>2. PICK f : Follows(f, N, X, first, steps)
  <2> HIDE DEF steps
  <2>1. QED
    BY <1>1, Recursion
<1>3. Iterates(f, N, X, first, step)
  BY <1>2 DEF Iterates, Follows
<1>4. QED
  BY <1>3

-----------------------------------------------------------------------------
(* Graphs: deps[t] is what t depends on.                                   *)

\* However the tasks are cut down, one of those left depends on none of them.
Acyclic(T, deps) == \A S \in SUBSET T : S # {} => \E t \in S : deps[t] \cap S = {}

\* A way along dependencies.
Way(x, N, T, deps) == x \in [0..N -> T] /\ \A k \in 1..N : x[k] \in deps[x[k - 1]]

\* What is reached within a number of further steps.
Reaches(reach, M, T, deps) ==
    /\ \A t \in T : reach[0][t] = deps[t]
    /\ \A m \in 1..M : \A t \in T :
        reach[m][t] = deps[t] \cup UNION {reach[m - 1][d] : d \in deps[t] \cap T}

\* A way as long as there are tasks meets one of them again.
LEMMA MetAgain ==
  ASSUME NEW N \in Nat, NEW T, IsFiniteSet(T), Cardinality(T) = N, NEW deps, NEW x,
         Way(x, N, T, deps)
  PROVE  \E i, j \in 0..N : i < j /\ x[i] = x[j]
<1> DEFINE D == 0..N
<1>1. IsFiniteSet(D) /\ Cardinality(D) = N + 1
  BY FS_Interval
<1>2. Cardinality(T) < Cardinality(D) /\ x \in [D -> T]
  BY <1>1 DEF Way
<1>3. \E i, j \in D : i # j /\ x[i] = x[j]
  <2> HIDE DEF D
  <2>1. QED
    BY <1>1, <1>2, FS_PigeonHole
<1>4. QED
  BY <1>3

\* Along a way x of dependencies, whatever comes within m + 1 steps is reached.
LEMMA ReachedAlong ==
  ASSUME NEW T, NEW deps, NEW reach, NEW M \in Nat, Reaches(reach, M, T, deps),
         NEW N \in Nat, NEW x, Way(x, N, T, deps),
         NEW i \in 0..N, NEW j \in 0..N, i < j, j - i <= M + 1
  PROVE  x[j] \in reach[M][x[i]]
<1> USE DEF Way, Reaches
<1> DEFINE Good(m) == \A a, b \in 0..N : a < b /\ b - a <= m + 1 => x[b] \in reach[m][x[a]]
           P == {m \in Nat : m <= M => Good(m)}
<1>1. Good(0)
  <2> SUFFICES ASSUME NEW a \in 0..N, NEW b \in 0..N, a < b, b - a <= 1
               PROVE  x[b] \in reach[0][x[a]]
    OBVIOUS
  <2>1. b \in 1..N /\ b - 1 = a
    OBVIOUS
  <2>2. QED
    BY <2>1
<1>2. ASSUME NEW m \in Nat, m + 1 <= M, Good(m) PROVE Good(m + 1)
  <2> SUFFICES ASSUME NEW a \in 0..N, NEW b \in 0..N, a < b, b - a <= m + 2
               PROVE  x[b] \in reach[m + 1][x[a]]
    OBVIOUS
  <2> DEFINE c == a + 1
  <2>1. c \in 1..N /\ c - 1 = a /\ c \in 0..N /\ x[c] \in T /\ x[a] \in T
    OBVIOUS
  <2>2. x[c] \in deps[x[a]]
    BY <2>1
  <2>3. m + 1 \in 1..M /\ (m + 1) - 1 = m
    BY <1>2
  <2>4. reach[m + 1][x[a]] = deps[x[a]] \cup UNION {reach[m][d] : d \in deps[x[a]] \cap T}
    BY <2>1, <2>3
  <2>5. CASE b = c
    BY <2>2, <2>4, <2>5
  <2>6. CASE c < b
    <3>1. x[b] \in reach[m][x[c]]
      <4>1. c < b /\ b - c <= m + 1
        BY <2>6
      <4>2. QED
        BY <1>2, <2>1, <4>1
    <3>2. QED
      BY <2>1, <2>2, <2>4, <3>1
  <2>7. QED
    BY <2>5, <2>6
<1>3. Good(M)
  <2>1. 0 \in P
    BY <1>1
  <2> HIDE DEF Good
  <2>2. ASSUME NEW m \in P PROVE m + 1 \in P
    BY <1>2
  <2> HIDE DEF P
  <2>3. P = Nat
    BY <2>1, <2>2, Induction DEF P
  <2>4. QED
    BY <2>3 DEF P
<1>4. QED
  <2> HIDE DEF P
  <2>1. QED
    BY <1>3

\* What searches as many steps ahead as there are tasks finds every cycle.
LEMMA CycleFound ==
  ASSUME NEW T, IsFiniteSet(T), NEW deps, NEW reach, NEW M \in Nat,
         Cardinality(T) <= M + 1, Reaches(reach, M, T, deps),
         \A t \in T : t \notin reach[M][t]
  PROVE  Acyclic(T, deps)
<1> SUFFICES ASSUME NEW S \in SUBSET T, S # {}, \A t \in S : deps[t] \cap S # {}
             PROVE  FALSE
  BY DEF Acyclic
<1> DEFINE step == [t \in S |-> CHOOSE d \in deps[t] : d \in S]
<1>1. PICK s \in S : TRUE
  OBVIOUS
<1>2. step \in [S -> S] /\ \A t \in S : step[t] \in deps[t]
  <2>1. \A t \in S : \E d \in deps[t] : d \in S
    OBVIOUS
  <2>2. QED
    BY <2>1
<1>3. PICK N \in Nat : N = Cardinality(T) /\ N <= M + 1
  BY FS_CardinalityType
<1>4. PICK x : Iterates(x, N, S, s, step)
  <2> HIDE DEF step
  <2>1. QED
    BY <1>2, Iteration
<1>5. Way(x, N, T, deps)
  <2>1. x \in [0..N -> S] /\ \A k \in 1..N : x[k] = step[x[k - 1]]
    BY <1>4 DEF Iterates
  <2> HIDE DEF step
  <2>2. ASSUME NEW k \in 1..N PROVE x[k] \in deps[x[k - 1]]
    <3>1. x[k - 1] \in S
      BY <2>1
    <3>2. QED
      BY <1>2, <2>1, <3>1
  <2>3. QED
    BY <2>1, <2>2 DEF Way
<1>6. PICK i, j \in 0..N : i < j /\ x[i] = x[j]
  BY <1>3, <1>5, MetAgain
<1>8. x[j] \in reach[M][x[i]]
  <2>1. j - i <= M + 1
    BY <1>3
  <2>2. QED
    BY <1>5, <1>6, <2>1, ReachedAlong
<1>9. QED
  <2>1. x[j] \in T
    BY <1>5 DEF Way
  <2>2. QED
    BY <1>6, <1>8, <2>1

\* The tasks placed by the first waves: in each one those whose dependencies
\* were placed before.
Places(placed, N, T, deps) ==
    /\ placed[0] = {}
    /\ \A k \in 1..N :
        placed[k] = placed[k - 1] \cup {t \in T : deps[t] \subseteq placed[k - 1]}

\* As many waves as tasks place them all, and each one places some.
LEMMA PlacedAll ==
  ASSUME NEW T, IsFiniteSet(T), NEW deps, Acyclic(T, deps),
         \A t \in T : deps[t] \subseteq T,
         NEW N \in Nat, N = Cardinality(T), NEW placed, Places(placed, N, T, deps)
  PROVE  /\ placed[N] = T
         /\ \A k \in 0..N : placed[k] \subseteq T
         /\ \A k \in 1..N : placed[k - 1] = T \/ \E t \in placed[k] : t \notin placed[k - 1]
<1> USE DEF Places
<1> DEFINE Full(k) == placed[k] = T \/ Cardinality(placed[k]) >= k
           P == {k \in Nat : k <= N => placed[k] \subseteq T /\ Full(k)}
<1>1. 0 \in P
  <2>1. placed[0] \subseteq T /\ Full(0)
    BY FS_EmptySet
  <2>2. QED
    BY <2>1
<1>2. ASSUME NEW k \in 1..N, placed[k - 1] \subseteq T, placed[k - 1] # T
      PROVE  \E t \in placed[k] : t \notin placed[k - 1]
  <2>1. PICK t \in T \ placed[k - 1] : deps[t] \cap (T \ placed[k - 1]) = {}
    BY <1>2 DEF Acyclic
  <2>2. QED
    BY <2>1
<1>3. ASSUME NEW m \in P PROVE m + 1 \in P
  <2> SUFFICES ASSUME m + 1 <= N PROVE placed[m + 1] \subseteq T /\ Full(m + 1)
    OBVIOUS
  <2>1. m + 1 \in 1..N /\ (m + 1) - 1 = m /\ placed[m] \subseteq T /\ Full(m)
    BY <1>3
  <2>2. placed[m + 1] = placed[m] \cup {t \in T : deps[t] \subseteq placed[m]}
    BY <2>1
  <2>3. placed[m] = T => placed[m + 1] = T
    BY <2>2
  <2>4. ASSUME placed[m] # T PROVE Cardinality(placed[m + 1]) >= m + 1
    <3>1. PICK t \in placed[m + 1] : t \notin placed[m]
      BY <1>2, <2>1, <2>4
    <3>2. IsFiniteSet(placed[m]) /\ IsFiniteSet(placed[m + 1])
      BY <2>1, <2>2, FS_Subset
    <3>3. /\ Cardinality(placed[m] \cup {t}) = Cardinality(placed[m]) + 1
          /\ IsFiniteSet(placed[m] \cup {t})
      BY <3>1, <3>2, FS_AddElement
    <3>4. Cardinality(placed[m] \cup {t}) <= Cardinality(placed[m + 1])
      BY <2>2, <3>1, <3>2, FS_Subset
    <3>5. /\ Cardinality(placed[m]) \in Nat /\ Cardinality(placed[m + 1]) \in Nat
          /\ Cardinality(placed[m]) >= m
      BY <2>1, <2>4, <3>2, FS_CardinalityType
    <3>6. QED
      BY <3>3, <3>4, <3>5
  <2>5. QED
    BY <2>1, <2>2, <2>3, <2>4
<1>4. P = Nat
  <2> HIDE DEF P
  <2>1. QED
    BY <1>1, <1>3, Induction DEF P
<1>5. \A k \in 0..N : placed[k] \subseteq T /\ Full(k)
  BY <1>4
<1>6. placed[N] = T
  <2>1. placed[N] \subseteq T /\ Full(N)
    BY <1>5
  <2>2. Cardinality(placed[N]) <= N
    BY <2>1, FS_Subset
  <2>3. Cardinality(placed[N]) \in Nat
    BY <2>1, FS_Subset, FS_CardinalityType
  <2>4. QED
    BY <2>1, <2>2, <2>3, FS_Subset
<1>7. QED
  BY <1>2, <1>5, <1>6

\* What is placed stays placed.
LEMMA PlacedGrows ==
  ASSUME NEW N \in Nat, NEW T, NEW deps, NEW placed, Places(placed, N, T, deps),
         NEW i \in 0..N, NEW j \in 0..N, i <= j
  PROVE  placed[i] \subseteq placed[j]
<1> DEFINE P == {d \in Nat : i + d <= N => placed[i] \subseteq placed[i + d]}
<1>1. 0 \in P
  OBVIOUS
<1>2. ASSUME NEW d \in P PROVE d + 1 \in P
  <2> SUFFICES ASSUME i + (d + 1) <= N PROVE placed[i] \subseteq placed[i + (d + 1)]
    OBVIOUS
  <2>1. placed[i] \subseteq placed[i + d] /\ i + (d + 1) \in 1..N /\ (i + (d + 1)) - 1 = i + d
    OBVIOUS
  <2>2. QED
    BY <2>1 DEF Places
<1>3. P = Nat
  <2> HIDE DEF P
  <2>1. QED
    BY <1>1, <1>2, Induction DEF P
<1>4. j - i \in Nat /\ i + (j - i) = j
  OBVIOUS
<1>5. j - i \in P
  <2> HIDE DEF P
  <2>1. QED
    BY <1>3, <1>4
<1>6. QED
  BY <1>4, <1>5

\* So a task that is placed has one wave, and is placed from then on.
LEMMA OneWave ==
  ASSUME NEW N \in Nat, NEW T, NEW deps, NEW placed, Places(placed, N, T, deps),
         NEW t \in placed[N]
  PROVE  \E k \in 1..N : \A j \in 0..N : t \in placed[j] <=> k <= j
<1> DEFINE P == {k \in 0..N : t \in placed[k]}
<1>1. N \in P /\ P \in SUBSET Nat
  OBVIOUS
<1>2. PICK k \in P : \A m \in P : k <= m
  BY <1>1, SmallestNumber
<1>3. k \in 1..N /\ t \in placed[k]
  BY <1>2 DEF Places
<1>4. ASSUME NEW j \in 0..N PROVE t \in placed[j] <=> k <= j
  <2>1. k <= j => placed[k] \subseteq placed[j]
    BY <1>3, PlacedGrows
  <2>2. QED
    BY <1>2, <1>3, <2>1
<1>5. QED
  BY <1>3, <1>4

-----------------------------------------------------------------------------
(* Recursion along dependencies that end.                                  *)

\* A number for each task that is greater than those of what it depends on.
Falls(w, N, T, deps) ==
    w \in [T -> 0..N] /\ \A t \in T : \A d \in deps[t] : d \in T /\ w[d] < w[t]

\* A step that computes the value of a task from those of what it depends on.
Local(step, T, deps, V) ==
    /\ step \in [[T -> V] -> [T -> V]]
    /\ \A f, g \in [T -> V], t \in T :
            (\A d \in deps[t] : f[d] = g[d]) => step[f][t] = step[g][t]

\* After as many rounds as the greatest number the values stay.
LEMMA FixedPoint ==
  ASSUME NEW N \in Nat, NEW T, NEW deps, NEW w, Falls(w, N, T, deps),
         NEW V, NEW step, Local(step, T, deps, V), NEW first \in [T -> V]
  PROVE  \E f \in [T -> V] : f = step[f]
<1> DEFINE X == [T -> V]
<1>1. PICK h : Iterates(h, N + 2, X, first, step)
  <2>1. step \in [X -> X] /\ first \in X
    BY DEF Local
  <2>2. PICK M \in Nat : M = N + 2
    OBVIOUS
  <2> HIDE DEF X
  <2>3. \E h : Iterates(h, M, X, first, step)
    BY <2>1, Iteration
  <2>4. QED
    BY <2>2, <2>3
<1>2. /\ h \in [0..(N + 2) -> X]
      /\ \A k \in 1..(N + 2) : h[k] = step[h[k - 1]]
  BY <1>1 DEF Iterates
<1> DEFINE Stays(k) == \A t \in T : w[t] < k => h[k][t] = h[k + 1][t]
           P == {k \in Nat : k <= N + 1 => Stays(k)}
<1>3. 0 \in P
  BY DEF Falls
<1>4. ASSUME NEW k \in P PROVE k + 1 \in P
  <2> SUFFICES ASSUME k + 1 <= N + 1, NEW t \in T, w[t] < k + 1
               PROVE  h[k + 1][t] = h[k + 1 + 1][t]
    OBVIOUS
  <2>1. k \in 0..(N + 2) /\ k + 1 \in 1..(N + 2) /\ k + 1 + 1 \in 1..(N + 2)
        /\ (k + 1) - 1 = k /\ (k + 1 + 1) - 1 = k + 1
    OBVIOUS
  <2>2. h[k + 1] = step[h[k]] /\ h[k + 1 + 1] = step[h[k + 1]]
    BY <1>2, <2>1
  <2>3. h[k] \in [T -> V] /\ h[k + 1] \in [T -> V]
    BY <1>2, <2>1
  <2>4. ASSUME NEW d \in deps[t] PROVE h[k][d] = h[k + 1][d]
    <3>1. d \in T /\ w[d] < k /\ Stays(k)
      BY DEF Falls
    <3>2. QED
      BY <3>1
  <2>5. QED
    BY <2>2, <2>3, <2>4 DEF Local
<1>5. Stays(N + 1)
  <2> HIDE DEF P
  <2>1. P = Nat
    BY <1>3, <1>4, Induction DEF P
  <2>2. QED
    BY <2>1 DEF P
<1>6. h[N + 1] \in X /\ h[N + 2] \in X /\ h[N + 2] = step[h[N + 1]]
  <2>1. N + 2 \in 1..(N + 2) /\ (N + 2) - 1 = N + 1 /\ N + 1 \in 0..(N + 2)
    OBVIOUS
  <2>2. QED
    BY <1>2, <2>1
<1>7. \A t \in T : h[N + 1][t] = h[N + 2][t]
  <2>1. (N + 1) + 1 = N + 2
    OBVIOUS
  <2>2. QED
    BY <1>5, <2>1 DEF Falls
<1>8. h[N + 1] = h[N + 2]
  BY <1>6, <1>7
<1>9. QED
  BY <1>6, <1>8

-----------------------------------------------------------------------------
(* Finite sets.                                                            *)

\* A set has a part of every smaller size.
LEMMA SmallerPart ==
  ASSUME NEW S, IsFiniteSet(S), NEW n \in Nat, n <= Cardinality(S)
  PROVE  \E R \in SUBSET S : Cardinality(R) = n
<1> DEFINE Good(d) == \E R \in SUBSET S : Cardinality(R) = d
           P == {d \in Nat : d <= Cardinality(S) => Good(d)}
<1>1. 0 \in P
  BY FS_EmptySet
<1>2. ASSUME NEW d \in P PROVE d + 1 \in P
  <2> SUFFICES ASSUME d + 1 <= Cardinality(S) PROVE Good(d + 1)
    OBVIOUS
  <2>1. Cardinality(S) \in Nat
    BY FS_CardinalityType
  <2>2. PICK R \in SUBSET S : Cardinality(R) = d
    BY <2>1
  <2>3. PICK x \in S : x \notin R
    BY <2>1, <2>2
  <2>4. Cardinality(R \cup {x}) = d + 1
    BY <2>2, <2>3, FS_Subset, FS_AddElement
  <2>5. R \cup {x} \in SUBSET S
    OBVIOUS
  <2>6. QED
    BY <2>4, <2>5
<1>3. Good(n)
  <2> HIDE DEF P
  <2>1. P = Nat
    BY <1>1, <1>2, Induction DEF P
  <2>2. QED
    BY <2>1 DEF P
<1>4. QED
  BY <1>3

\* A strict total order of a set, as a set of pairs.
Orders(R, S) ==
    /\ \A t \in S : <<t, t>> \notin R
    /\ \A t, u \in S : t # u => <<t, u>> \in R \/ <<u, t>> \in R
    /\ \A t, u, v \in S : <<t, u>> \in R /\ <<u, v>> \in R => <<t, v>> \in R

Earlier(R, S, t) == {v \in S : <<v, t>> \in R}

\* Every place of an order is taken, by one member.
LEMMA Ranked ==
  ASSUME NEW S, IsFiniteSet(S), NEW R, Orders(R, S)
  PROVE  /\ \A t \in S : Cardinality(Earlier(R, S, t)) \in 0..(Cardinality(S) - 1)
         /\ \A t, u \in S :
                Cardinality(Earlier(R, S, t)) = Cardinality(Earlier(R, S, u)) => t = u
         /\ \A i \in 1..Cardinality(S) :
                \E t \in S : Cardinality(Earlier(R, S, t)) = i - 1
<1> DEFINE Before(t) == {v \in S : <<v, t>> \in R}
           rank == [t \in S |-> Cardinality(Before(t))]
<1>1. PICK n \in Nat : n = Cardinality(S)
  BY FS_CardinalityType
<1>2. ASSUME NEW t \in S
      PROVE  /\ IsFiniteSet(Before(t)) /\ Cardinality(Before(t)) \in Nat
             /\ Cardinality(Before(t)) \in 0..(n - 1)
  <2>1. Before(t) \in SUBSET S /\ Before(t) # S
    BY DEF Orders
  <2>2. /\ IsFiniteSet(Before(t)) /\ Cardinality(Before(t)) <= n
        /\ n = Cardinality(Before(t)) => S = Before(t)
    BY <1>1, <2>1, FS_Subset
  <2>3. Cardinality(Before(t)) \in Nat
    BY <2>2, FS_CardinalityType
  <2>4. QED
    BY <2>1, <2>2, <2>3
<1>3. ASSUME NEW t \in S, NEW u \in S, <<t, u>> \in R
      PROVE  Cardinality(Before(t)) # Cardinality(Before(u))
  <2>1. Before(t) \in SUBSET Before(u) /\ t \in Before(u) /\ t \notin Before(t)
    BY <1>3 DEF Orders
  <2>2. IsFiniteSet(Before(u))
    BY <1>2
  <2>3. QED
    BY <2>1, <2>2, FS_Subset
<1>4. ASSUME NEW t \in S, NEW u \in S, Cardinality(Before(t)) = Cardinality(Before(u))
      PROVE  t = u
  <2>1. ASSUME t # u PROVE FALSE
    <3>1. <<t, u>> \in R \/ <<u, t>> \in R
      BY <2>1 DEF Orders
    <3> HIDE DEF Before
    <3>2. QED
      BY <1>3, <1>4, <3>1
  <2>2. QED
    BY <2>1
<1>5. rank \in Surjection(S, 0..(n - 1))
  <2>1. rank \in Injection(S, 0..(n - 1))
    <3> HIDE DEF Before
    <3>1. rank \in [S -> 0..(n - 1)]
      BY <1>2
    <3>2. \A t, u \in S : rank[t] = rank[u] => t = u
      BY <1>4
    <3> HIDE DEF rank
    <3>3. QED
      BY <3>1, <3>2 DEF Injection, IsInjective
  <2>2. IsFiniteSet(0..(n - 1)) /\ Cardinality(0..(n - 1)) = n
    BY FS_Interval
  <2>3. QED
    <3> HIDE DEF rank
    <3>1. QED
      BY <1>1, <2>1, <2>2, FS_Injection
<1>6. ASSUME NEW i \in 1..n PROVE \E t \in S : Cardinality(Before(t)) = i - 1
  <2>1. i - 1 \in 0..(n - 1)
    OBVIOUS
  <2>2. PICK t \in S : rank[t] = i - 1
    <3> HIDE DEF rank
    <3>1. QED
      BY <1>5, <2>1 DEF Surjection
  <2>3. QED
    BY <2>2
<1>7. QED
  BY <1>1, <1>2, <1>4, <1>6 DEF Earlier

\* A finite set that is ordered has a last member.
LEMMA LastOf ==
  ASSUME NEW S, IsFiniteSet(S), S # {}, NEW R, Orders(R, S)
  PROVE  \E t \in S : \A u \in S : <<t, u>> \notin R
<1>1. PICK n \in Nat : n = Cardinality(S)
  BY FS_CardinalityType
<1>2. n # 0 /\ n \in 1..n
  BY <1>1, FS_EmptySet
<1>3. PICK t \in S : Cardinality(Earlier(R, S, t)) = n - 1
  BY <1>1, <1>2, Ranked
<1>4. IsFiniteSet(S \ {t}) /\ Cardinality(S \ {t}) = n - 1
  BY <1>1, FS_RemoveElement
<1>5. Earlier(R, S, t) \subseteq S \ {t}
  BY DEF Earlier, Orders
<1>6. Earlier(R, S, t) = S \ {t}
  BY <1>3, <1>4, <1>5, FS_Subset
<1>7. ASSUME NEW u \in S PROVE <<t, u>> \notin R
  BY <1>6 DEF Earlier, Orders
<1>8. QED
  BY <1>7
=============================================================================
