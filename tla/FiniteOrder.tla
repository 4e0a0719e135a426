---------------------------- MODULE FiniteOrder ----------------------------
(***************************************************************************)
(* Least elements, stated about sets so that proofs can cite them: every   *)
(* family of subsets of a finite set has a minimal one, every set of       *)
(* numbers a least one, and what is closed under successor is everything.  *)
(* From that, recursion over the numbers up to a bound and over the        *)
(* subsets of a finite set, sums over finite sets, and the ranks of a      *)
(* finite order.                                                           *)
(***************************************************************************)
EXTENDS Integers, FiniteSets, FiniteSetTheorems, Functions, TLAPS

\* A family of subsets of a finite set has a minimal member.
LEMMA MinimalSubset ==
  ASSUME NEW S, IsFiniteSet(S), NEW F \in SUBSET (SUBSET S), F # {}
  PROVE  \E x \in F : \A y \in F : ~(y \subseteq x /\ y # x)
  <1>1. F \subseteq FiniteSubsetsOf(S)
    BY FS_FiniteSubsetsOfFinite
  <1>2. \E x \in F : \A y \in F : <<y, x>> \notin StrictSubsetOrdering(S)
    <2>1. IsWellFoundedOn(StrictSubsetOrdering(S), FiniteSubsetsOf(S))
      BY FS_StrictSubsetOrderingWellFounded
    <2> HIDE DEF StrictSubsetOrdering, FiniteSubsetsOf
    <2> QED
      BY <1>1, <2>1, WFMin
  <1> QED
    BY <1>2 DEF StrictSubsetOrdering

\* A set of natural numbers has a least member.
LEMMA LeastNumber ==
  ASSUME NEW T \in SUBSET Nat, T # {}
  PROVE  \E x \in T : \A y \in T : x <= y
  <1>1. PICK t \in T : TRUE
    OBVIOUS
  <1> DEFINE F == {0 .. i : i \in T \cap 0 .. t}
  <1>2. F \in SUBSET (SUBSET (0 .. t)) /\ F # {}
    BY <1>1
  <1>3. PICK x \in T \cap 0 .. t : \A y \in T \cap 0 .. t : ~(0 .. y \subseteq 0 .. x /\ 0 .. y # 0 .. x)
    <2>1. IsFiniteSet(0 .. t)
      BY FS_Interval
    <2>2. \E z \in F : \A y \in F : ~(y \subseteq z /\ y # z)
      <3> HIDE DEF F
      <3> DEFINE S == 0 .. t
      <3>1. IsFiniteSet(S) /\ F \in SUBSET (SUBSET S) /\ F # {}
        BY <1>2, <2>1
      <3> HIDE DEF S
      <3> QED
        BY <3>1, MinimalSubset
    <2>3. PICK z \in F : \A y \in F : ~(y \subseteq z /\ y # z)
      BY <2>2
    <2>4. PICK x \in T \cap 0 .. t : z = 0 .. x
      OBVIOUS
    <2>5. \A y \in T \cap 0 .. t : 0 .. y \in F
      OBVIOUS
    <2> HIDE DEF F
    <2> QED
      BY <2>3, <2>4, <2>5
  <1>4. ASSUME NEW y \in T, y < x PROVE FALSE
    <2>1. y \in 0 .. t /\ 0 .. y \subseteq 0 .. x /\ x \in 0 .. x /\ x \notin 0 .. y
      BY <1>4
    <2> QED
      BY <1>3, <2>1
  <1> QED
    BY <1>3, <1>4

\* Induction over the numbers up to n, for a set of them.
LEMMA UpTo ==
  ASSUME NEW n \in Nat, NEW T, 0 \in T, \A i \in 0 .. n : i > 0 /\ i - 1 \in T => i \in T
  PROVE  0 .. n \subseteq T
  <1> SUFFICES ASSUME (0 .. n) \ T # {} PROVE FALSE
    OBVIOUS
  <1>1. PICK x \in (0 .. n) \ T : \A y \in (0 .. n) \ T : x <= y
    <2>1. (0 .. n) \ T \in SUBSET Nat
      OBVIOUS
    <2> QED
      BY <2>1, LeastNumber
  <1> QED
    BY <1>1

\* f starts at b and takes the steps of next, up to n.
Follows(f, n, b, next) == f[0] = b /\ \A i \in 1 .. n : f[i] = next[i][f[i - 1]]

\* Recursion over the numbers up to n, with values in V: the step is given as a
\* function, and some function takes every step.
LEMMA RecursionUpTo ==
  ASSUME NEW n \in Nat, NEW V, NEW b \in V, NEW next \in [1 .. n -> [V -> V]]
  PROVE  \E f \in [0 .. n -> V] : Follows(f, n, b, next)
  <1> DEFINE Steps(f, m) == f \in [0 .. m -> V] /\ Follows(f, m, b, next)
             T == {m \in 0 .. n : \E f : Steps(f, m)}
  <1>1. 0 \in T
    <2>1. Steps([i \in 0 .. 0 |-> b], 0)
      BY DEF Follows
    <2> HIDE DEF Steps
    <2> QED
      BY <2>1
  <1>2. ASSUME NEW m \in 0 .. n, m > 0, m - 1 \in T PROVE m \in T
    <2>1. PICK f : f \in [0 .. m - 1 -> V] /\ f[0] = b /\ \A i \in 1 .. m - 1 : f[i] = next[i][f[i - 1]]
      BY <1>2 DEF Follows
    <2> DEFINE g == [i \in 0 .. m |-> IF i = m THEN next[m][f[m - 1]] ELSE f[i]]
    <2>2. m \in 1 .. n /\ m - 1 \in 0 .. m - 1
      BY <1>2
    <2>3. f[m - 1] \in V /\ next[m][f[m - 1]] \in V
      BY <2>1, <2>2
    <2>4. g \in [0 .. m -> V]
      BY <2>1, <2>3
    <2>5. g[0] = b
      BY <2>1, <2>2
    <2>6. ASSUME NEW i \in 1 .. m PROVE g[i] = next[i][g[i - 1]]
      <3>1. g[i - 1] = f[i - 1]
        BY <2>6
      <3>2. CASE i = m
        <4>1. g[m] = next[m][f[m - 1]]
          BY <2>2
        <4> HIDE DEF g
        <4> QED
          BY <4>1, <3>1, <3>2
      <3>3. CASE i # m
        <4>1. i \in 1 .. m - 1 /\ g[i] = f[i]
          BY <3>3
        <4> QED
          BY <4>1, <3>1, <2>1
      <3> QED
        BY <3>2, <3>3
    <2>7. Steps(g, m)
      BY <2>4, <2>5, <2>6 DEF Follows
    <2> HIDE DEF g, Steps
    <2> QED
      BY <2>7
  <1>3. 0 .. n \subseteq T
    <2> HIDE DEF T
    <2> QED
      BY <1>1, <1>2, UpTo
  <1> QED
    BY <1>3

-----------------------------------------------------------------------------
(* Recursion over the subsets of a finite set.                             *)

\* A subset of S is in T when it is without any one of its members.
Grows(T, S) == \A s \in SUBSET S : (\A x \in s : s \ {x} \in T) => s \in T

\* Induction over the subsets of a finite set, for a family of them.
LEMMA SubsetsUp ==
  ASSUME NEW S, IsFiniteSet(S), NEW T, Grows(T, S)
  PROVE  SUBSET S \subseteq T
  <1> DEFINE F == (SUBSET S) \ T
  <1> SUFFICES ASSUME F # {} PROVE FALSE
    OBVIOUS
  <1>1. F \in SUBSET (SUBSET S)
    OBVIOUS
  <1>2. PICK m \in F : \A y \in F : ~(y \subseteq m /\ y # m)
    <2> HIDE DEF F
    <2> QED
      BY <1>1, MinimalSubset
  <1>3. \A x \in m : m \ {x} \in SUBSET S /\ m \ {x} \subseteq m /\ m \ {x} # m
    OBVIOUS
  <1>4. \A x \in m : m \ {x} \in T
    BY <1>2, <1>3
  <1> QED
    BY <1>2, <1>4 DEF Grows

\* g is b on the empty set and takes out of every other set the member that pick
\* names, step being given as a function of member and value.
Folds(g, S, b, pick, step) ==
    /\ g[{}] = b
    /\ \A s \in (SUBSET S) \ {{}} : g[s] = step[pick[s]][g[s \ {pick[s]}]]

\* Some function does, when pick names members.
LEMMA RecursionOnSubsets ==
  ASSUME NEW S, IsFiniteSet(S), NEW V, NEW b \in V,
         NEW pick \in [(SUBSET S) \ {{}} -> S], \A s \in (SUBSET S) \ {{}} : pick[s] \in s,
         NEW step \in [S -> [V -> V]]
  PROVE  \E g \in [SUBSET S -> V] : Folds(g, S, b, pick, step)
  <1> DEFINE W == [SUBSET S -> V]
             once(h) == [s \in SUBSET S |-> IF s = {} THEN b ELSE step[pick[s]][h[s \ {pick[s]}]]]
             none == [s \in SUBSET S |-> b]
  <1>1. PICK n \in Nat : n = Cardinality(S)
    BY FS_CardinalityType
  <1>2. \A h \in W : once(h) \in W
    OBVIOUS
  <1>3. none \in W
    OBVIOUS
  <1> DEFINE next == [i \in 1 .. n + 1 |-> [h \in W |-> once(h)]]
  <1>4. next \in [1 .. n + 1 -> [W -> W]]
    <2> HIDE DEF W, once
    <2> QED
      BY <1>2
  <1>5. PICK f \in [0 .. n + 1 -> W] : Follows(f, n + 1, none, next)
    <2> HIDE DEF W, none, next
    <2>1. n + 1 \in Nat
      OBVIOUS
    <2> QED
      BY <1>3, <1>4, <2>1, RecursionUpTo
  <1>6. \A i \in 1 .. n + 1 : f[i] = once(f[i - 1])
    <2> TAKE i \in 1 .. n + 1
    <2>1. i - 1 \in 0 .. n + 1 /\ f[i - 1] \in W
      <3> HIDE DEF W
      <3> QED
        BY <1>5
    <2>2. next[i][f[i - 1]] = once(f[i - 1])
      <3> HIDE DEF W, once
      <3> QED
        BY <2>1
    <2> HIDE DEF once, next
    <2> QED
      BY <1>5, <2>2 DEF Follows
  <1>7. \A s \in SUBSET S : IsFiniteSet(s) /\ Cardinality(s) \in 0 .. n
    <2> TAKE s \in SUBSET S
    <2>1. IsFiniteSet(s) /\ Cardinality(s) <= Cardinality(S)
      BY FS_Subset
    <2>2. Cardinality(s) \in Nat
      BY <2>1, FS_CardinalityType
    <2> QED
      BY <1>1, <2>1, <2>2
  <1>8. \A s \in (SUBSET S) \ {{}} : s \ {pick[s]} \in SUBSET S
                                     /\ Cardinality(s \ {pick[s]}) = Cardinality(s) - 1
    <2> TAKE s \in (SUBSET S) \ {{}}
    <2>1. PICK x \in s : x = pick[s]
      OBVIOUS
    <2>2. IsFiniteSet(s) /\ x \in S
      BY <1>7
    <2>3. Cardinality(s \ {x}) = Cardinality(s) - 1
      BY <2>2, FS_RemoveElement
    <2> QED
      BY <2>1, <2>3
  <1>9. \A i \in 0 .. n : \A s \in SUBSET S : Cardinality(s) <= i => f[i + 1][s] = f[i][s]
    <2> DEFINE T == {i \in 0 .. n : \A s \in SUBSET S : Cardinality(s) <= i => f[i + 1][s] = f[i][s]}
    <2>1. ASSUME NEW i \in 0 .. n, i = 0 \/ i - 1 \in T PROVE i \in T
      <3> SUFFICES ASSUME NEW s \in SUBSET S, Cardinality(s) <= i PROVE f[i + 1][s] = f[i][s]
        OBVIOUS
      <3>1. i + 1 \in 1 .. n + 1 /\ (i + 1) - 1 = i /\ f[i + 1] = once(f[i])
        <4> HIDE DEF once
        <4>1. i + 1 \in 1 .. n + 1 /\ (i + 1) - 1 = i
          OBVIOUS
        <4> QED
          BY <1>6, <4>1
      <3>2. CASE s = {}
        <4>1. f[i + 1][s] = b
          BY <3>1, <3>2
        <4>2. CASE i = 0
          BY <1>5, <4>1, <4>2 DEF Follows
        <4>3. CASE i # 0
          <5>1. i \in 1 .. n + 1
            BY <4>3
          <5>2. f[i] = once(f[i - 1])
            <6> HIDE DEF once
            <6> QED
              BY <1>6, <5>1
          <5> QED
            BY <3>2, <4>1, <5>2
        <4> QED
          BY <4>2, <4>3
      <3>3. CASE s # {}
        <4>1. s \in (SUBSET S) \ {{}} /\ Cardinality(s) # 0
          <5>1. s \in (SUBSET S) \ {{}}
            BY <3>3
          <5> QED
            BY <1>7, <3>3, <5>1, FS_EmptySet
        <4>2. PICK r \in SUBSET S : r = s \ {pick[s]} /\ Cardinality(r) = Cardinality(s) - 1
          BY <1>8, <4>1
        <4>3. i \in 1 .. n + 1 /\ i - 1 \in T /\ Cardinality(r) <= i - 1
          <5> HIDE DEF T
          <5> QED
            BY <1>7, <2>1, <4>1, <4>2
        <4>4. f[(i - 1) + 1][r] = f[i - 1][r] /\ (i - 1) + 1 = i
          BY <4>3
        <4>5. f[i] = once(f[i - 1])
          <5> HIDE DEF once
          <5> QED
            BY <1>6, <4>3
        <4>6. f[i][s] = step[pick[s]][f[i - 1][r]]
          BY <3>3, <4>2, <4>5
        <4>7. f[i + 1][s] = step[pick[s]][f[i][r]]
          BY <3>1, <3>3, <4>2
        <4> QED
          BY <4>4, <4>6, <4>7
      <3> QED
        BY <3>2, <3>3
    <2>2. 0 .. n \subseteq T
      <3> HIDE DEF T
      <3>1. 0 \in T
        BY <2>1
      <3> QED
        BY <2>1, <3>1, UpTo
    <2> QED
      BY <2>2
  <1>10. PICK g : g = f[n]
    OBVIOUS
  <1>11. g \in W
    <2> HIDE DEF W
    <2> QED
      BY <1>5, <1>10
  <1>12. \A s \in SUBSET S : g[s] = once(g)[s]
    <2> TAKE s \in SUBSET S
    <2>1. n + 1 \in 1 .. n + 1 /\ (n + 1) - 1 = n /\ n \in 0 .. n /\ Cardinality(s) <= n
      BY <1>7
    <2>2. f[n + 1] = once(f[n])
      <3> HIDE DEF once
      <3> QED
        BY <1>6, <2>1
    <2>3. f[n + 1][s] = f[n][s]
      BY <1>9, <2>1
    <2> HIDE DEF once
    <2> QED
      BY <1>10, <2>2, <2>3
  <1>13. Folds(g, S, b, pick, step)
    BY <1>12 DEF Folds
  <1> QED
    BY <1>11, <1>13

-----------------------------------------------------------------------------
(* Sums over finite sets, of natural or of whole numbers.                  *)

\* g is, over every subset of S, what is chosen from it plus the sum of the rest.
Sums(g, f, S) ==
    /\ g[{}] = 0
    /\ \A s \in (SUBSET S) \ {{}} :
          g[s] = f[CHOOSE x \in s : TRUE] + g[s \ {CHOOSE x \in s : TRUE}]

\* A sum is over every subset what is chosen from it plus the sum of the rest.
LEMMA SumUnfold ==
  ASSUME NEW S, IsFiniteSet(S), NEW f, \A x \in S : f[x] \in Int
  PROVE  \E g \in [SUBSET S -> Int] :
            g[S] = SumFunctionOnSet(f, S) /\ Sums(g, f, S)
  <1> DEFINE pick == [s \in (SUBSET S) \ {{}} |-> CHOOSE x \in s : TRUE]
             step == [x \in S |-> [v \in Int |-> f[x] + v]]
             Is(g) == g = [s \in SUBSET S |->
                             IF s = {} THEN 0
                             ELSE f[CHOOSE x \in s : TRUE] + g[s \ {CHOOSE x \in s : TRUE}]]
  <1>1. \A s \in (SUBSET S) \ {{}} : (CHOOSE x \in s : TRUE) \in s
    OBVIOUS
  <1>2. pick \in [(SUBSET S) \ {{}} -> S] /\ \A s \in (SUBSET S) \ {{}} : pick[s] \in s
    BY <1>1
  <1>3. 0 \in Int /\ step \in [S -> [Int -> Int]]
    OBVIOUS
  <1>4. PICK g \in [SUBSET S -> Int] : Folds(g, S, 0, pick, step)
    <2> HIDE DEF pick, step
    <2> QED
      BY <1>2, <1>3, RecursionOnSubsets
  <1>5. ASSUME NEW s \in (SUBSET S) \ {{}}
        PROVE  g[s] = f[CHOOSE x \in s : TRUE] + g[s \ {CHOOSE x \in s : TRUE}]
    <2>1. PICK x \in s : x = CHOOSE y \in s : TRUE
      BY <1>1
    <2>2. pick[s] = x /\ x \in S /\ g[s \ {x}] \in Int
      BY <2>1
    <2>3. step[x][g[s \ {x}]] = f[x] + g[s \ {x}]
      BY <2>2
    <2> HIDE DEF pick, step
    <2> QED
      BY <1>4, <2>1, <2>2, <2>3 DEF Folds
  <1>6. Is(g)
    <2>1. \A s \in SUBSET S : g[s] = IF s = {} THEN 0
             ELSE f[CHOOSE x \in s : TRUE] + g[s \ {CHOOSE x \in s : TRUE}]
      <3>1. g[{}] = 0
        BY <1>4 DEF Folds
      <3> QED
        BY <1>5, <3>1
    <2> QED
      BY <2>1
  <1> DEFINE iter == CHOOSE h : Is(h)
  <1>7. Is(iter)
    <2> HIDE DEF Is
    <2> QED
      BY <1>6
  <1>8. SumFunctionOnSet(f, S) = iter[S]
    BY DEF SumFunctionOnSet, FoldFunctionOnSet, MapThenFoldSet
  <1> HIDE DEF iter
  <1>9. \A s \in SUBSET S : iter[s] = g[s]
    <2> DEFINE T == {s \in SUBSET S : iter[s] = g[s]}
    <2>1. ASSUME NEW s \in SUBSET S, \A x \in s : s \ {x} \in T PROVE s \in T
      <3>1. CASE s = {}
        BY <1>6, <1>7, <3>1
      <3>2. CASE s # {}
        <4>1. PICK x \in s : x = CHOOSE y \in s : TRUE
          BY <3>2
        <4>2. iter[s \ {x}] = g[s \ {x}]
          BY <2>1
        <4>3. iter[s] = f[x] + iter[s \ {x}]
          BY <1>7, <3>2, <4>1
        <4>4. g[s] = f[x] + g[s \ {x}]
          BY <1>6, <3>2, <4>1
        <4> QED
          BY <4>2, <4>3, <4>4
      <3> QED
        BY <3>1, <3>2
    <2>2. SUBSET S \subseteq T
      <3>1. Grows(T, S)
        BY <2>1 DEF Grows
      <3> HIDE DEF T
      <3> QED
        BY <3>1, SubsetsUp
    <2> QED
      BY <2>2
  <1>10. g[S] = SumFunctionOnSet(f, S)
    BY <1>8, <1>9
  <1>11. g[{}] = 0
    BY <1>4 DEF Folds
  <1> QED
    BY <1>5, <1>10, <1>11 DEF Sums

\* A sum of whole numbers is one.
LEMMA SumInt ==
  ASSUME NEW S, IsFiniteSet(S), NEW f, \A x \in S : f[x] \in Int
  PROVE  SumFunctionOnSet(f, S) \in Int
  <1>1. PICK g \in [SUBSET S -> Int] : g[S] = SumFunctionOnSet(f, S)
    BY SumUnfold
  <1> QED
    BY <1>1

\* A sum of natural numbers is one.
LEMMA SumNat ==
  ASSUME NEW S, IsFiniteSet(S), NEW f, \A x \in S : f[x] \in Nat
  PROVE  SumFunctionOnSet(f, S) \in Nat
  <1>0. \A x \in S : f[x] \in Int
    OBVIOUS
  <1>1. PICK g \in [SUBSET S -> Int] : g[S] = SumFunctionOnSet(f, S) /\ Sums(g, f, S)
    BY <1>0, SumUnfold
  <1> DEFINE T == {s \in SUBSET S : g[s] \in Nat}
  <1>2. Grows(T, S)
    <2>0. {} \in T
      BY <1>1 DEF Sums
    <2> SUFFICES ASSUME NEW s \in SUBSET S, \A x \in s : s \ {x} \in T, s # {} PROVE s \in T
      <3> HIDE DEF T
      <3> QED
        BY <2>0 DEF Grows
    <2>1. PICK x \in s : x = CHOOSE y \in s : TRUE
      OBVIOUS
    <2>2. g[s \ {x}] \in Nat /\ f[x] \in Nat
      BY <2>1
    <2>3. g[s] = f[x] + g[s \ {x}]
      BY <1>1, <2>1 DEF Sums
    <2> QED
      BY <2>2, <2>3
  <1>3. SUBSET S \subseteq T
    <2> HIDE DEF T
    <2> QED
      BY <1>2, SubsetsUp
  <1> QED
    BY <1>1, <1>3

\* Two functions that agree on a finite set have the same sum over it.
LEMMA SumAgree ==
  ASSUME NEW S, IsFiniteSet(S), NEW f, \A x \in S : f[x] \in Int,
         NEW h, \A x \in S : h[x] = f[x]
  PROVE  SumFunctionOnSet(h, S) = SumFunctionOnSet(f, S)
  <1>0. \A x \in S : h[x] \in Int
    OBVIOUS
  <1>1. PICK g \in [SUBSET S -> Int] :
           g[S] = SumFunctionOnSet(f, S) /\ Sums(g, f, S)
    BY SumUnfold
  <1>2. PICK k \in [SUBSET S -> Int] :
           k[S] = SumFunctionOnSet(h, S) /\ Sums(k, h, S)
    BY <1>0, SumUnfold
  <1> DEFINE T == {s \in SUBSET S : k[s] = g[s]}
  <1>3. Grows(T, S)
    <2> SUFFICES ASSUME NEW s \in SUBSET S, \A x \in s : s \ {x} \in T, s # {} PROVE k[s] = g[s]
      BY <1>1, <1>2 DEF Sums, Grows
    <2>1. PICK x \in s : x = CHOOSE y \in s : TRUE
      OBVIOUS
    <2>2. k[s \ {x}] = g[s \ {x}] /\ h[x] = f[x]
      BY <2>1
    <2>3. g[s] = f[x] + g[s \ {x}]
      BY <1>1, <2>1 DEF Sums
    <2>4. k[s] = h[x] + k[s \ {x}]
      BY <1>2, <2>1 DEF Sums
    <2> QED
      BY <2>2, <2>3, <2>4
  <1>4. SUBSET S \subseteq T
    <2> HIDE DEF T
    <2> QED
      BY <1>3, SubsetsUp
  <1> QED
    BY <1>1, <1>2, <1>4

\* A sum over a subset is what the sum's own recursion has for it.
LEMMA SumWithin ==
  ASSUME NEW S, IsFiniteSet(S), NEW f, \A x \in S : f[x] \in Int,
         NEW g \in [SUBSET S -> Int], Sums(g, f, S)
  PROVE  \A s \in SUBSET S : g[s] = SumFunctionOnSet(f, s)
  <1> TAKE s \in SUBSET S
  <1>1. IsFiniteSet(s) /\ \A x \in s : f[x] \in Int
    BY FS_Subset
  <1>2. PICK k \in [SUBSET s -> Int] :
           k[s] = SumFunctionOnSet(f, s) /\ Sums(k, f, s)
    BY <1>1, SumUnfold
  <1> DEFINE T == {t \in SUBSET s : k[t] = g[t]}
  <1>3. Grows(T, s)
    <2> SUFFICES ASSUME NEW t \in SUBSET s, \A x \in t : t \ {x} \in T, t # {} PROVE k[t] = g[t]
      BY <1>2 DEF Sums, Grows
    <2>1. PICK x \in t : x = CHOOSE y \in t : TRUE
      OBVIOUS
    <2>2. k[t \ {x}] = g[t \ {x}] /\ t \in (SUBSET S) \ {{}}
      BY <2>1
    <2> QED
      BY <1>2, <2>1, <2>2 DEF Sums
  <1>4. SUBSET s \subseteq T
    <2> HIDE DEF T
    <2> QED
      BY <1>1, <1>3, SubsetsUp
  <1> QED
    BY <1>2, <1>4

\* Any member of a finite set may be summed first.
LEMMA SumSplit ==
  ASSUME NEW S, IsFiniteSet(S), NEW f, \A x \in S : f[x] \in Int, NEW a \in S
  PROVE  SumFunctionOnSet(f, S) = f[a] + SumFunctionOnSet(f, S \ {a})
  <1>1. PICK g \in [SUBSET S -> Int] :
           g[S] = SumFunctionOnSet(f, S) /\ Sums(g, f, S)
    BY SumUnfold
  <1> DEFINE T == {s \in SUBSET S : \A b \in s : g[s] = f[b] + g[s \ {b}]}
  <1>2. Grows(T, S)
    <2> SUFFICES ASSUME NEW s \in SUBSET S, \A x \in s : s \ {x} \in T, NEW b \in s
                 PROVE  g[s] = f[b] + g[s \ {b}]
      BY DEF Grows
    <2>1. PICK x \in s : x = CHOOSE y \in s : TRUE
      OBVIOUS
    <2>2. g[s] = f[x] + g[s \ {x}]
      BY <1>1, <2>1 DEF Sums
    <2>3. CASE x # b
      <3>1. PICK r \in SUBSET S : r = (s \ {x}) \ {b} /\ r = (s \ {b}) \ {x}
        OBVIOUS
      <3>2. s \ {x} \in T /\ b \in s \ {x} /\ s \ {b} \in T /\ x \in s \ {b}
        BY <2>1, <2>3
      <3>3. g[s \ {x}] = f[b] + g[r] /\ g[s \ {b}] = f[x] + g[r]
        BY <3>1, <3>2
      <3>4. f[x] \in Int /\ f[b] \in Int /\ g[r] \in Int
        OBVIOUS
      <3> QED
        BY <2>2, <3>3, <3>4
    <2> QED
      BY <2>2, <2>3
  <1>3. SUBSET S \subseteq T
    <2> HIDE DEF T
    <2> QED
      BY <1>2, SubsetsUp
  <1>4. g[S] = f[a] + g[S \ {a}]
    BY <1>3
  <1>5. g[S \ {a}] = SumFunctionOnSet(f, S \ {a})
    <2>1. PICK s \in SUBSET S : s = S \ {a}
      OBVIOUS
    <2>2. \A t \in SUBSET S : g[t] = SumFunctionOnSet(f, t)
      <3> HIDE DEF T
      <3> QED
        BY <1>1, SumWithin
    <2> QED
      BY <2>1, <2>2
  <1> QED
    BY <1>1, <1>4, <1>5

\* The sum over nothing.
LEMMA SumEmpty ==
  ASSUME NEW f
  PROVE  SumFunctionOnSet(f, {}) = 0
  <1>1. IsFiniteSet({}) /\ \A x \in {} : f[x] \in Int
    BY FS_EmptySet
  <1>2. PICK S : S = {}
    OBVIOUS
  <1>3. PICK g \in [SUBSET S -> Int] : g[S] = SumFunctionOnSet(f, S) /\ Sums(g, f, S)
    BY <1>1, <1>2, SumUnfold
  <1> QED
    BY <1>2, <1>3 DEF Sums

\* A sum does not depend on what the members are called.
LEMMA SumReindex ==
  ASSUME NEW S, IsFiniteSet(S), NEW f, \A x \in S : f[x] \in Int,
         NEW R, NEW p \in [R -> S], \A i, j \in R : p[i] = p[j] => i = j,
         \A x \in S : \E i \in R : p[i] = x, IsFiniteSet(R),
         NEW h, \A i \in R : h[i] = f[p[i]]
  PROVE  SumFunctionOnSet(h, R) = SumFunctionOnSet(f, S)
  <1> DEFINE Img(r) == {p[i] : i \in r}
             T == {r \in SUBSET R : SumFunctionOnSet(h, r) = SumFunctionOnSet(f, Img(r))}
  <1>1. Grows(T, R)
    <2> SUFFICES ASSUME NEW r \in SUBSET R, \A i \in r : r \ {i} \in T
                 PROVE  SumFunctionOnSet(h, r) = SumFunctionOnSet(f, Img(r))
      BY DEF Grows
    <2>1. CASE r = {}
      <3>1. Img(r) = {}
        BY <2>1
      <3> HIDE DEF Img
      <3> QED
        BY <2>1, <3>1, SumEmpty
    <2>2. CASE r # {}
      <3>1. PICK i \in r : TRUE
        BY <2>2
      <3>2. IsFiniteSet(r) /\ \A k \in r : h[k] \in Int
        BY FS_Subset
      <3>3. PICK Q \in SUBSET S : Q = Img(r)
        <4>1. Img(r) \in SUBSET S
          OBVIOUS
        <4> HIDE DEF Img
        <4> QED
          BY <4>1
      <3>4. IsFiniteSet(Q) /\ (\A x \in Q : f[x] \in Int) /\ p[i] \in Q
        BY <3>3, FS_Subset
      <3>5. SumFunctionOnSet(h, r) = h[i] + SumFunctionOnSet(h, r \ {i})
        BY <3>2, SumSplit
      <3>6. PICK x \in Q : x = p[i]
        BY <3>4
      <3>7. SumFunctionOnSet(f, Q) = f[x] + SumFunctionOnSet(f, Q \ {x})
        BY <3>4, SumSplit
      <3>8. Img(r \ {i}) = Q \ {x}
        BY <3>3, <3>6
      <3>9. SumFunctionOnSet(h, r \ {i}) = SumFunctionOnSet(f, Img(r \ {i}))
        OBVIOUS
      <3>10. h[i] = f[x]
        BY <3>6
      <3> HIDE DEF Img
      <3> QED
        BY <3>3, <3>5, <3>7, <3>8, <3>9, <3>10
    <2> QED
      BY <2>1, <2>2
  <1>2. SUBSET R \subseteq T
    <2> HIDE DEF T
    <2> QED
      BY <1>1, SubsetsUp
  <1>3. Img(R) = S
    OBVIOUS
  <1>4. R \in T
    BY <1>2
  <1> HIDE DEF Img
  <1> QED
    BY <1>3, <1>4

-----------------------------------------------------------------------------
(* The ranks of a finite order, given as a set of pairs.                   *)

InFront(S, R, c) == {d \in S : <<d, c>> \in R}
Ordered(S, R) ==
    /\ \A a \in S : <<a, a>> \notin R
    /\ \A a, b, c \in S : <<a, b>> \in R /\ <<b, c>> \in R => <<a, c>> \in R
    /\ \A a, b \in S : a # b => <<a, b>> \in R \/ <<b, a>> \in R

\* Every number below the size of the set is how many are ahead of one member.
LEMMA Ranks ==
  ASSUME NEW S, IsFiniteSet(S), NEW R, Ordered(S, R)
  PROVE  /\ Cardinality(S) \in Nat
         /\ \A c \in S : /\ Cardinality(InFront(S, R, c)) \in Nat
                         /\ Cardinality(InFront(S, R, c)) + 1 \in 1 .. Cardinality(S)
         /\ \A a, b \in S : Cardinality(InFront(S, R, a)) = Cardinality(InFront(S, R, b)) => a = b
         /\ \A a, b \in S : Cardinality(InFront(S, R, a)) < Cardinality(InFront(S, R, b)) <=> <<a, b>> \in R
         /\ \A i \in 1 .. Cardinality(S) : \E c \in S : Cardinality(InFront(S, R, c)) = i - 1
  <1> DEFINE n == Cardinality(S)
             B(c) == InFront(S, R, c)
             rank == [c \in S |-> Cardinality(B(c)) + 1]
  <1>1. n \in Nat
    BY FS_CardinalityType
  <1>2. ASSUME NEW c \in S
        PROVE  IsFiniteSet(B(c)) /\ Cardinality(B(c)) \in Nat /\ Cardinality(B(c)) + 1 \in 1 .. n
    <2>1. B(c) \in SUBSET S /\ c \notin B(c)
      BY DEF InFront, Ordered
    <2> HIDE DEF B
    <2>2. IsFiniteSet(B(c)) /\ Cardinality(B(c)) <= n /\ (n = Cardinality(B(c)) => S = B(c))
      BY <2>1, FS_Subset
    <2>3. Cardinality(B(c)) \in Nat
      BY <2>2, FS_CardinalityType
    <2>4. Cardinality(B(c)) # n
      BY <2>1, <2>2
    <2> QED
      BY <1>1, <2>2, <2>3, <2>4
  <1>3. ASSUME NEW a \in S, NEW b \in S, <<a, b>> \in R
        PROVE  Cardinality(B(a)) < Cardinality(B(b))
    <2>1. B(a) \in SUBSET B(b) /\ a \in B(b) /\ a \notin B(a)
      BY <1>3 DEF InFront, Ordered
    <2> HIDE DEF B
    <2>2. Cardinality(B(a)) <= Cardinality(B(b)) /\ (Cardinality(B(b)) = Cardinality(B(a)) => B(b) = B(a))
      BY <1>2, <2>1, FS_Subset
    <2> QED
      BY <1>2, <2>1, <2>2
  <1>4. \A a, b \in S : a # b => <<a, b>> \in R \/ <<b, a>> \in R
    BY DEF Ordered
  <1>5. ASSUME NEW a \in S, NEW b \in S
        PROVE  /\ Cardinality(B(a)) = Cardinality(B(b)) => a = b
               /\ Cardinality(B(a)) < Cardinality(B(b)) <=> <<a, b>> \in R
    <2>1. PICK i \in Nat, j \in Nat : i = Cardinality(B(a)) /\ j = Cardinality(B(b))
      BY <1>2
    <2>2. (<<a, b>> \in R => i < j) /\ (<<b, a>> \in R => j < i)
      BY <1>3, <2>1
    <2> HIDE DEF B
    <2> QED
      BY <1>4, <2>1, <2>2
  <1>7. \A i \in 1 .. n : \E c \in S : Cardinality(B(c)) = i - 1
    <2> HIDE DEF B
    <2>1. rank \in [S -> 1 .. n] /\ \A a, b \in S : rank[a] = rank[b] => a = b
      <3>1. \A c \in S : Cardinality(B(c)) \in Nat /\ Cardinality(B(c)) + 1 \in 1 .. n
        BY <1>2
      <3>2. \A a, b \in S : Cardinality(B(a)) = Cardinality(B(b)) => a = b
        BY <1>5
      <3> QED
        BY <3>1, <3>2
    <2>2. rank \in Injection(S, 1 .. n)
      <3> HIDE DEF rank
      <3> QED
        BY <2>1 DEF Injection, IsInjective
    <2>3. IsFiniteSet(1 .. n) /\ Cardinality(1 .. n) = n
      BY <1>1, FS_Interval
    <2>4. rank \in Surjection(S, 1 .. n)
      <3> HIDE DEF rank
      <3> QED
        BY <2>2, <2>3, FS_Injection
    <2>5. \A i \in 1 .. n : \E c \in S : rank[c] = i
      <3> HIDE DEF rank
      <3> QED
        BY <2>4 DEF Surjection
    <2> QED
      BY <1>1, <1>2, <2>5
  <1> QED
    BY <1>1, <1>2, <1>5, <1>7

\* The members in order, best first: each place goes to the one with as many
\* ahead of it as there are places before.
InOrder(S, R) == [i \in 1 .. Cardinality(S) |-> CHOOSE c \in S : Cardinality(InFront(S, R, c)) = i - 1]

LEMMA InOrderIs ==
  ASSUME NEW S, IsFiniteSet(S), NEW R, Ordered(S, R)
  PROVE  /\ InOrder(S, R) \in [1 .. Cardinality(S) -> S]
         /\ \A c \in S : \E i \in 1 .. Cardinality(S) : InOrder(S, R)[i] = c
         /\ \A i, j \in 1 .. Cardinality(S) : i < j <=> <<InOrder(S, R)[i], InOrder(S, R)[j]>> \in R
  <1> DEFINE n == Cardinality(S)
             B(c) == Cardinality(InFront(S, R, c))
  <1>1. /\ n \in Nat
        /\ \A c \in S : B(c) \in Nat /\ B(c) + 1 \in 1 .. n
        /\ \A a, b \in S : B(a) = B(b) => a = b
        /\ \A a, b \in S : B(a) < B(b) <=> <<a, b>> \in R
        /\ \A i \in 1 .. n : \E c \in S : B(c) = i - 1
    BY Ranks
  <1>2. \A i \in 1 .. n : InOrder(S, R)[i] = CHOOSE c \in S : B(c) = i - 1
    BY DEF InOrder
  <1>3. DOMAIN InOrder(S, R) = 1 .. n /\ InOrder(S, R) = [i \in 1 .. n |-> InOrder(S, R)[i]]
    BY DEF InOrder
  <1> HIDE DEF B, n
  <1>4. \A i \in 1 .. n : InOrder(S, R)[i] \in S /\ B(InOrder(S, R)[i]) = i - 1
    BY <1>1, <1>2
  <1>5. \A c \in S : \E i \in 1 .. n : InOrder(S, R)[i] = c
    <2> TAKE c \in S
    <2>1. PICK i \in 1 .. n : i = B(c) + 1
      BY <1>1
    <2>2. B(InOrder(S, R)[i]) = B(c) /\ InOrder(S, R)[i] \in S
      <3>1. B(InOrder(S, R)[i]) = i - 1 /\ InOrder(S, R)[i] \in S
        BY <1>4
      <3>2. B(c) \in Int
        BY <1>1
      <3> QED
        BY <2>1, <3>1, <3>2
    <2> QED
      BY <1>1, <2>2
  <1>6. \A i, j \in 1 .. n : i < j <=> <<InOrder(S, R)[i], InOrder(S, R)[j]>> \in R
    <2> TAKE i, j \in 1 .. n
    <2>1. /\ InOrder(S, R)[i] \in S /\ B(InOrder(S, R)[i]) = i - 1
          /\ InOrder(S, R)[j] \in S /\ B(InOrder(S, R)[j]) = j - 1
      BY <1>4
    <2>2. i < j <=> i - 1 < j - 1
      BY <1>1
    <2> QED
      BY <1>1, <2>1, <2>2
  <1> QED
    BY <1>3, <1>4, <1>5, <1>6 DEF n

-----------------------------------------------------------------------------
(* Greatest members and images.                                            *)

\* Among finitely many things one has the most of a number.
LEMMA Greatest ==
  ASSUME NEW S, IsFiniteSet(S), S # {}, NEW f, \A x \in S : f[x] \in Int
  PROVE  \E x \in S : \A y \in S : f[y] <= f[x]
  <1> DEFINE T == {s \in SUBSET S : s # {} => \E x \in s : \A y \in s : f[y] <= f[x]}
  <1>1. Grows(T, S)
    <2> SUFFICES ASSUME NEW s \in SUBSET S, \A x \in s : s \ {x} \in T PROVE s \in T
      BY DEF Grows
    <2> SUFFICES ASSUME s # {} PROVE \E x \in s : \A y \in s : f[y] <= f[x]
      OBVIOUS
    <2>1. PICK a \in s : TRUE
      OBVIOUS
    <2>2. CASE s = {a}
      BY <2>1, <2>2
    <2>3. CASE s # {a}
      <3>1. s \ {a} \in T /\ s \ {a} # {}
        BY <2>1, <2>3
      <3>2. PICK b \in s \ {a} : \A y \in s \ {a} : f[y] <= f[b]
        BY <3>1
      <3>3. \A y \in s : f[y] \in Int
        OBVIOUS
      <3>4. CASE f[a] <= f[b]
        BY <3>2, <3>4
      <3>5. CASE ~(f[a] <= f[b])
        <4>1. \A y \in s : f[y] <= f[a]
          BY <3>2, <3>3, <3>5, <2>1
        <4> QED
          BY <4>1, <2>1
      <3> QED
        BY <3>4, <3>5
    <2> QED
      BY <2>2, <2>3
  <1>2. SUBSET S \subseteq T
    <2> HIDE DEF T
    <2> QED
      BY <1>1, SubsetsUp
  <1> QED
    BY <1>2

\* The values of a function on a finite set are finitely many.
LEMMA Images ==
  ASSUME NEW S, IsFiniteSet(S), NEW f
  PROVE  IsFiniteSet({f[x] : x \in S}) /\ Cardinality({f[x] : x \in S}) <= Cardinality(S)
  <1> DEFINE T == {f[x] : x \in S}
             g == [x \in S |-> f[x]]
  <1>1. g \in Surjection(S, T)
    BY DEF Surjection
  <1> HIDE DEF T, g
  <1>2. IsFiniteSet(T) /\ Cardinality(T) <= Cardinality(S)
    BY <1>1, FS_Surjection
  <1> QED
    BY <1>2 DEF T

\* Intervals are finite, and those that begin with one have as many members as
\* their last says.
LEMMA Intervals ==
  /\ \A a, b \in Int : IsFiniteSet(a .. b)
  /\ \A a, b \in Int : a <= b + 1 => Cardinality(a .. b) = b - a + 1
  /\ \A b \in Nat : IsFiniteSet(1 .. b) /\ Cardinality(1 .. b) = b
  <1>1. ASSUME NEW a \in Int, NEW b \in Int
        PROVE  IsFiniteSet(a .. b) /\ (a <= b + 1 => Cardinality(a .. b) = b - a + 1)
    <2>1. IsFiniteSet(a .. b) /\ Cardinality(a .. b) = IF a > b THEN 0 ELSE b - a + 1
      BY FS_Interval
    <2> QED
      BY <2>1
  <1>2. ASSUME NEW b \in Nat PROVE IsFiniteSet(1 .. b) /\ Cardinality(1 .. b) = b
    BY <1>1
  <1> QED
    BY <1>1, <1>2

=============================================================================
