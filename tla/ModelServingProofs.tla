-------------------------- MODULE ModelServingProofs --------------------------
(***************************************************************************)
(* Proofs about the model rungs, for every text, merge list, vocabulary,   *)
(* number of callers and set of calls.                                     *)
(***************************************************************************)
EXTENDS ModelServing, FiniteOrder

-----------------------------------------------------------------------------
(* The tokenizer's heap of merges makes the joins that byte-pair encoding  *)
(* is defined by.                                                          *)

LEMMA RankIsNat ==
  ASSUME NEW pair, Mergeable(pair)
  PROVE  RankOf(pair) \in Nat
  <1> DEFINE L == Listed(pair)
             last == CHOOSE i \in L : \A j \in L : j <= i
  <1>1. L \in SUBSET (1 .. Len(Merges)) /\ L # {} /\ Len(Merges) \in Nat
    BY MergesAssumption DEF Mergeable, Listed
  <1>2. IsFiniteSet(L)
    BY <1>1, Intervals, FS_Subset
  <1>3. \E i \in L : \A j \in L : j <= i
    <2> DEFINE f == [i \in L |-> i]
    <2>1. \A i \in L : f[i] \in Int
      BY <1>1
    <2> HIDE DEF f
    <2>2. \E i \in L : \A j \in L : f[j] <= f[i]
      BY <1>1, <1>2, <2>1, Greatest
    <2> QED
      BY <2>2 DEF f
  <1>4. last \in L
    BY <1>3
  <1>5. last \in Int
    BY <1>1, <1>4
  <1> DEFINE r == 1 .. last - 1
  <1>6. IsFiniteSet(r)
    BY <1>5, Intervals
  <1> HIDE DEF last, r
  <1>7. IsFiniteSet({Merges[j] : j \in r})
    BY <1>6, Images
  <1> QED
    BY <1>7, FS_CardinalityType DEF RankOf, last, r

\* The heap's minimum is in the heap and in front of all the rest.
LEMMA LowestIs ==
  ASSUME NEW Q \in SUBSET (Nat \X Nat \X Nat), Q # {}
  PROVE  /\ Lowest(Q) \in Q
         /\ \A f \in Q : \/ Lowest(Q)[1] < f[1]
                         \/ Lowest(Q)[1] = f[1] /\ Lowest(Q)[2] <= f[2]
  <1>1. PICK a \in {e[1] : e \in Q} : \A b \in {e[1] : e \in Q} : a <= b
    <2>1. {e[1] : e \in Q} \in SUBSET Nat /\ {e[1] : e \in Q} # {}
      OBVIOUS
    <2> QED
      BY <2>1, LeastNumber
  <1> DEFINE A == {e \in Q : e[1] = a}
  <1>2. PICK p \in {e[2] : e \in A} : \A b \in {e[2] : e \in A} : p <= b
    <2>1. {e[2] : e \in A} \in SUBSET Nat /\ {e[2] : e \in A} # {}
      BY <1>1
    <2> QED
      BY <2>1, LeastNumber
  <1> DEFINE B == {e \in A : e[2] = p}
  <1>3. PICK v \in {e[3] : e \in B} : \A b \in {e[3] : e \in B} : v <= b
    <2>1. {e[3] : e \in B} \in SUBSET Nat /\ {e[3] : e \in B} # {}
      BY <1>2
    <2> QED
      BY <2>1, LeastNumber
  <1>4. PICK e \in B : e[3] = v
    BY <1>3
  <1> DEFINE Least(x) == \A f \in Q : \/ x[1] < f[1]
                                      \/ x[1] = f[1] /\ x[2] < f[2]
                                      \/ x[1] = f[1] /\ x[2] = f[2] /\ x[3] <= f[3]
  <1>5. Least(e)
    <2> SUFFICES ASSUME NEW f \in Q
                 PROVE  \/ e[1] < f[1]
                        \/ e[1] = f[1] /\ e[2] < f[2]
                        \/ e[1] = f[1] /\ e[2] = f[2] /\ e[3] <= f[3]
      OBVIOUS
    <2>1. e[1] = a /\ e[2] = p /\ e[3] = v /\ a \in Nat /\ p \in Nat /\ v \in Nat
      BY <1>4
    <2>2. f[1] \in Nat /\ f[2] \in Nat /\ f[3] \in Nat
      OBVIOUS
    <2>3. a <= f[1]
      BY <1>1
    <2>4. f[1] = a => p <= f[2]
      BY <1>2
    <2>5. f[1] = a /\ f[2] = p => v <= f[3]
      BY <1>3
    <2> QED
      BY <2>1, <2>2, <2>3, <2>4, <2>5
  <1>6. Lowest(Q) \in Q /\ Least(Lowest(Q))
    BY <1>4, <1>5 DEF Lowest
  <1>7. Lowest(Q)[2] \in Nat /\ \A f \in Q : f[2] \in Nat
    BY <1>6
  <1> QED
    BY <1>6, <1>7

\* So is the pair that is to be joined.
LEMMA BestIs ==
  ASSUME NEW s, Len(s) \in Nat, Pairs(s) # {}
  PROVE  /\ BestPair(s) \in Pairs(s)
         /\ \A i \in Pairs(s) :
               (\A j \in Pairs(s) : \/ RankOf(PairAt(s, i)) < RankOf(PairAt(s, j))
                                    \/ RankOf(PairAt(s, i)) = RankOf(PairAt(s, j)) /\ i <= j)
               => BestPair(s) = i
  <1> DEFINE P == Pairs(s)
             r == [i \in P |-> RankOf(PairAt(s, i))]
             Least(i) == \A j \in P : r[i] < r[j] \/ (r[i] = r[j] /\ i <= j)
  <1>1. P \in SUBSET Nat
    BY DEF Pairs
  <1>2. \A i \in P : r[i] \in Nat
    BY RankIsNat DEF Pairs
  <1> HIDE DEF r
  <1>3. PICK a \in {r[i] : i \in P} : \A b \in {r[i] : i \in P} : a <= b
    <2>1. {r[i] : i \in P} \in SUBSET Nat /\ {r[i] : i \in P} # {}
      BY <1>2
    <2> QED
      BY <2>1, LeastNumber
  <1>4. PICK p \in {i \in P : r[i] = a} : \A b \in {i \in P : r[i] = a} : p <= b
    <2>1. {i \in P : r[i] = a} \in SUBSET Nat /\ {i \in P : r[i] = a} # {}
      BY <1>1, <1>3
    <2> QED
      BY <2>1, LeastNumber
  <1>5. Least(p)
    <2> SUFFICES ASSUME NEW j \in P PROVE r[p] < r[j] \/ (r[p] = r[j] /\ p <= j)
      OBVIOUS
    <2>1. r[p] = a /\ r[j] \in Nat /\ a \in Nat /\ p \in Nat /\ j \in Nat
      BY <1>1, <1>2, <1>4
    <2>2. a <= r[j]
      BY <1>3
    <2>3. r[j] = a => p <= j
      BY <1>4
    <2> QED
      BY <2>1, <2>2, <2>3
  <1>6. BestPair(s) \in P /\ Least(BestPair(s))
    <2>1. BestPair(s) = CHOOSE i \in P : Least(i)
      BY DEF BestPair, r
    <2> HIDE DEF P, Least
    <2> QED
      BY <1>4, <1>5, <2>1
  <1>7. ASSUME NEW i \in P, Least(i) PROVE BestPair(s) = i
    BY <1>1, <1>2, <1>6, <1>7
  <1> QED
    BY <1>6, <1>7 DEF r

\* What a round of the definition is about.
RoundType(C) == [symbols : Seq(Seq(C)), failed : BOOLEAN]

LEMMA JoinKeepsType ==
  ASSUME NEW C, NEW g \in RoundType(C)
  PROVE  JoinBest(g) \in RoundType(C)
  <1> DEFINE s == g.symbols
             i == BestPair(s)
             joined == s[i] \o s[i + 1]
             next == SubSeq(s, 1, i - 1) \o <<joined>> \o SubSeq(s, i + 2, Len(s))
  <1> SUFFICES ASSUME Pairs(s) # {} PROVE JoinBest(g) \in RoundType(C)
    BY DEF JoinBest
  <1>1. s \in Seq(Seq(C)) /\ Len(s) \in Nat
    BY DEF RoundType
  <1>2. i \in 1 .. Len(s) - 1
    BY <1>1, BestIs DEF Pairs
  <1> HIDE DEF i
  <1>3. joined \in Seq(C)
    BY <1>1, <1>2
  <1> HIDE DEF joined
  <1>4. SubSeq(s, 1, i - 1) \in Seq(Seq(C)) /\ SubSeq(s, i + 2, Len(s)) \in Seq(Seq(C))
    BY <1>1, <1>2
  <1>5. next \in Seq(Seq(C))
    BY <1>3, <1>4
  <1> HIDE DEF next, s
  <1>6. JoinBest(g) = g \/ JoinBest(g) = [g EXCEPT !.failed = TRUE] \/ JoinBest(g) = [g EXCEPT !.symbols = next]
    BY DEF JoinBest, next, joined, i, s
  <1> QED
    BY <1>5, <1>6 DEF RoundType

\* The rounds of the definition, one after the other.
RoundsOf(s) ==
    CHOOSE after : after = [n \in 0 .. Len(s) |->
        IF n = 0 THEN [symbols |-> s, failed |-> FALSE] ELSE JoinBest(after[n - 1])]

LEMMA Rounds ==
  ASSUME NEW C, NEW s \in Seq(Seq(C))
  PROVE  /\ Greedy(s) = RoundsOf(s)[Len(s)]
         /\ RoundsOf(s)[0] = [symbols |-> s, failed |-> FALSE]
         /\ \A n \in 1 .. Len(s) : RoundsOf(s)[n] = JoinBest(RoundsOf(s)[n - 1])
  <1> DEFINE V == RoundType(C)
             b == [symbols |-> s, failed |-> FALSE]
             next == [n \in 1 .. Len(s) |-> [g \in V |-> JoinBest(g)]]
             Is(after) == after = [n \in 0 .. Len(s) |-> IF n = 0 THEN b ELSE JoinBest(after[n - 1])]
  <1>1. Len(s) \in Nat /\ b \in V
    BY DEF RoundType
  <1>2. next \in [1 .. Len(s) -> [V -> V]]
    BY JoinKeepsType
  <1>3. PICK f \in [0 .. Len(s) -> V] : Follows(f, Len(s), b, next)
    <2> HIDE DEF V, b, next
    <2> QED
      BY <1>1, <1>2, RecursionUpTo
  <1>4. Is(f)
    <2>1. \A n \in 0 .. Len(s) : f[n] = IF n = 0 THEN b ELSE JoinBest(f[n - 1])
      <3> SUFFICES ASSUME NEW n \in 0 .. Len(s), n # 0 PROVE f[n] = JoinBest(f[n - 1])
        BY <1>3 DEF Follows
      <3>1. n \in 1 .. Len(s) /\ n - 1 \in 0 .. Len(s)
        BY <1>1
      <3>2. f[n] = next[n][f[n - 1]] /\ f[n - 1] \in V
        BY <1>3, <3>1 DEF Follows
      <3> QED
        BY <3>1, <3>2
    <2> HIDE DEF b
    <2> QED
      BY <1>3, <2>1
  <1>5. Is(RoundsOf(s))
    BY <1>4 DEF RoundsOf
  <1>6. Greedy(s) = RoundsOf(s)[Len(s)]
    BY DEF Greedy, RoundsOf
  <1>7. PICK after : after = RoundsOf(s)
    OBVIOUS
  <1>8. after = [n \in 0 .. Len(s) |-> IF n = 0 THEN b ELSE JoinBest(after[n - 1])]
    BY <1>5, <1>7
  <1>9. after[0] = b /\ \A n \in 1 .. Len(s) : after[n] = JoinBest(after[n - 1])
    <2> HIDE DEF b
    <2> QED
      BY <1>1, <1>8
  <1> QED
    BY <1>6, <1>7, <1>9

\* A sequence that rises has as many members as it is long.
LEMMA Rising ==
  ASSUME NEW n \in Nat, NEW at \in [1 .. n -> Nat],
         \A i, j \in 1 .. n : i < j => at[i] < at[j],
         NEW k \in 0 .. n
  PROVE  IsFiniteSet({at[j] : j \in 1 .. k}) /\ Cardinality({at[j] : j \in 1 .. k}) = k
  <1> DEFINE A(i) == {at[j] : j \in 1 .. i}
             T == {i \in 0 .. n : IsFiniteSet(A(i)) /\ Cardinality(A(i)) = i}
  <1>1. 0 \in T
    <2>1. A(0) = {} /\ 0 \in 0 .. n
      OBVIOUS
    <2> HIDE DEF A
    <2> QED
      BY <2>1, FS_EmptySet
  <1>2. ASSUME NEW i \in 0 .. n, i > 0, i - 1 \in T PROVE i \in T
    <2>1. A(i) = A(i - 1) \cup {at[i]} /\ at[i] \notin A(i - 1)
      BY <1>2
    <2> HIDE DEF A
    <2> QED
      BY <1>2, <2>1, FS_AddElement
  <1> HIDE DEF T
  <1>3. 0 .. n \subseteq T
    BY <1>1, <1>2, UpTo
  <1> QED
    BY <1>3 DEF T

-----------------------------------------------------------------------------
\* The symbols of a text of N characters from C, and what is queued of them.
HeapType(N, C) ==
    [symbols : [1 .. N -> Seq(C)], alive : [1 .. N -> BOOLEAN], versions : [1 .. N -> Nat],
     queue : SUBSET (Nat \X (1 .. N) \X Nat), failed : BOOLEAN]

\* The n positions that are left are those of `at', in order.
Standing(alive, at, n, N) ==
    /\ n \in 0 .. N /\ at \in [1 .. n -> 1 .. N]
    /\ \A i, j \in 1 .. n : i < j => at[i] < at[j]
    /\ \A p \in 1 .. N : alive[p] <=> \E i \in 1 .. n : at[i] = p

LEMMA SymbolsAre ==
  ASSUME NEW N \in Nat, NEW C, NEW m \in HeapType(N, C)
  PROVE  m.symbols \in Seq(Seq(C)) /\ Len(m.symbols) = N
  <1> DEFINE s == m.symbols
  <1>1. s \in [1 .. N -> Seq(C)]
    BY DEF HeapType
  <1> HIDE DEF s
  <1>2. s \in Seq(Seq(C)) /\ Len(s) = N
    BY <1>1
  <1> QED
    BY <1>2 DEF s

\* What stands next to the i-th position that is left, and next to a position
\* between it and the one after it.
Neighbours(m, at, n, N) ==
    \A i \in 1 .. n, b \in 1 .. N : at[i] <= b /\ (i < n => b < at[i + 1]) =>
        /\ After(m, b) = IF i < n THEN at[i + 1] ELSE N + 1
        /\ Before(m, at[i]) = IF i > 1 THEN at[i - 1] ELSE 0

LEMMA NeighboursAre ==
  ASSUME NEW N \in Nat, NEW C, NEW m \in HeapType(N, C), NEW n, NEW at, Standing(m.alive, at, n, N)
  PROVE  Neighbours(m, at, n, N)
  <1> SUFFICES ASSUME NEW i \in 1 .. n, NEW b \in 1 .. N, at[i] <= b, i < n => b < at[i + 1]
               PROVE  /\ After(m, b) = IF i < n THEN at[i + 1] ELSE N + 1
                      /\ Before(m, at[i]) = IF i > 1 THEN at[i - 1] ELSE 0
    BY DEF Neighbours
  <1> DEFINE p == at[i]
             up == {j \in b + 1 .. N : m.alive[j]}
             down == {j \in 1 .. p - 1 : m.alive[j]}
  <1>1. n \in Nat /\ at \in [1 .. n -> 1 .. N] /\ p \in 1 .. N /\ Len(m.symbols) = N
    BY SymbolsAre DEF Standing
  <1>2. ASSUME NEW j \in up PROVE i < n /\ at[i + 1] <= j
    <2>1. j \in 1 .. N /\ m.alive[j] /\ p < j
      BY <1>1
    <2>2. PICK h \in 1 .. n : at[h] = j
      BY <2>1 DEF Standing
    <2>3. i < h
      <3> SUFFICES ASSUME h <= i PROVE FALSE
        BY <1>1
      <3>1. h = i \/ at[h] < at[i]
        BY <1>1 DEF Standing
      <3> QED
        BY <1>1, <2>1, <2>2, <3>1
    <2>4. i + 1 \in 1 .. n /\ (i + 1 = h \/ i + 1 < h)
      BY <1>1, <2>3
    <2>5. at[i + 1] \in 1 .. N /\ at[i + 1] <= at[h]
      BY <1>1, <2>4 DEF Standing
    <2> QED
      BY <1>1, <2>2, <2>3, <2>5
  <1>3. ASSUME i < n PROVE at[i + 1] \in up
    <2>1. i + 1 \in 1 .. n /\ i < i + 1
      BY <1>1, <1>3
    <2>2. at[i + 1] \in 1 .. N /\ b < at[i + 1] /\ m.alive[at[i + 1]]
      BY <1>1, <1>3, <2>1 DEF Standing
    <2> QED
      BY <1>1, <2>2
  <1>4. After(m, b) = IF i < n THEN at[i + 1] ELSE N + 1
    <2>1. After(m, b) = IF up = {} THEN N + 1 ELSE CHOOSE j \in up : \A k \in up : j <= k
      BY <1>1 DEF After
    <2>2. up \in SUBSET Int
      BY <1>1
    <2> HIDE DEF up
    <2>3. CASE i < n
      <3>1. ASSUME NEW j \in up, \A k \in up : j <= k PROVE j = at[i + 1]
        <4>1. j \in Int /\ at[i + 1] \in Int /\ j <= at[i + 1]
          BY <1>3, <2>2, <2>3, <3>1
        <4>2. at[i + 1] <= j
          BY <1>2
        <4> QED
          BY <4>1, <4>2
      <3> QED
        BY <1>2, <1>3, <2>1, <2>3, <3>1
    <2> QED
      BY <1>2, <2>1, <2>3
  <1>5. ASSUME NEW j \in down PROVE i > 1 /\ j <= at[i - 1]
    <2>1. j \in 1 .. N /\ m.alive[j] /\ j < p
      BY <1>1
    <2>2. PICK h \in 1 .. n : at[h] = j
      BY <2>1 DEF Standing
    <2>3. h < i
      <3> SUFFICES ASSUME i <= h PROVE FALSE
        BY <1>1
      <3>1. h = i \/ at[i] < at[h]
        BY <1>1 DEF Standing
      <3> QED
        BY <1>1, <2>1, <2>2, <3>1
    <2>4. i - 1 \in 1 .. n /\ (i - 1 = h \/ h < i - 1)
      BY <1>1, <2>3
    <2>5. at[i - 1] \in 1 .. N /\ at[h] \in 1 .. N
      BY <1>1, <2>4
    <2>6. i - 1 = h \/ at[h] < at[i - 1]
      BY <2>4 DEF Standing
    <2> QED
      BY <1>1, <2>2, <2>4, <2>5, <2>6
  <1>6. ASSUME i > 1 PROVE at[i - 1] \in down
    <2>1. i - 1 \in 1 .. n /\ i - 1 < i
      BY <1>1, <1>6
    <2>2. at[i - 1] \in 1 .. N /\ at[i - 1] < p /\ m.alive[at[i - 1]]
      BY <1>1, <2>1 DEF Standing
    <2> QED
      BY <1>1, <2>2
  <1>7. Before(m, p) = IF i > 1 THEN at[i - 1] ELSE 0
    <2>1. Before(m, p) = IF down = {} THEN 0 ELSE CHOOSE j \in down : \A k \in down : j >= k
      BY DEF Before
    <2>2. down \in SUBSET Int
      BY <1>1
    <2> HIDE DEF down
    <2>3. CASE i > 1
      <3>1. ASSUME NEW j \in down, \A k \in down : j >= k PROVE j = at[i - 1]
        <4>1. j \in Int /\ at[i - 1] \in Int /\ j >= at[i - 1]
          BY <1>6, <2>2, <2>3, <3>1
        <4>2. j <= at[i - 1]
          BY <1>5
        <4> QED
          BY <4>1, <4>2
      <3> QED
        BY <1>5, <1>6, <2>1, <2>2, <2>3, <3>1
    <2> QED
      BY <1>5, <2>1, <2>3
  <1> QED
    BY <1>4, <1>7

\* The symbols that are left, in order.
View(m, at, n) == [i \in 1 .. n |-> m.symbols[at[i]]]
LEMMA LiveIs ==
  ASSUME NEW N \in Nat, NEW C, NEW m \in HeapType(N, C), NEW n, NEW at, Standing(m.alive, at, n, N)
  PROVE  Live(m) = View(m, at, n)
  <1> DEFINE live == {j \in DOMAIN m.alive : m.alive[j]}
             all(k) == {at[j] : j \in 1 .. k}
             nth(i) == CHOOSE j \in live : Cardinality({k \in live : k <= j}) = i
  <1>1. n \in Nat /\ n \in 0 .. n /\ at \in [1 .. n -> Nat] /\ (\A i, j \in 1 .. n : i < j => at[i] < at[j])
    BY DEF Standing
  <1>2. live = all(n)
    <2>1. DOMAIN m.alive = 1 .. N /\ (\A i \in 1 .. n : at[i] \in 1 .. N)
      BY DEF HeapType, Standing
    <2> QED
      BY <2>1 DEF Standing
  <1>3. \A k \in 0 .. n : Cardinality(all(k)) = k
    BY <1>1, Rising
  <1>4. ASSUME NEW i \in 1 .. n PROVE {k \in live : k <= at[i]} = all(i)
    <2>1. \A j \in 1 .. n : at[j] <= at[i] <=> j <= i
      <3> SUFFICES ASSUME NEW j \in 1 .. n PROVE at[j] <= at[i] <=> j <= i
        OBVIOUS
      <3>1. j < i \/ j = i \/ i < j
        BY <1>1
      <3> QED
        BY <1>1, <3>1
    <2>2. 1 .. i \subseteq 1 .. n /\ \A j \in 1 .. n : j <= i <=> j \in 1 .. i
      BY <1>1
    <2> QED
      BY <1>2, <2>1, <2>2
  <1> HIDE DEF live, all
  <1>5. ASSUME NEW i \in 1 .. n PROVE nth(i) = at[i]
    <2>1. at[i] \in live /\ Cardinality({k \in live : k <= at[i]}) = i
      BY <1>2, <1>3, <1>4 DEF all
    <2>2. ASSUME NEW j \in live, Cardinality({k \in live : k <= j}) = i PROVE j = at[i]
      <3>1. PICK h \in 1 .. n : at[h] = j
        BY <1>2 DEF all
      <3>2. Cardinality(all(h)) = i /\ h \in 0 .. n
        BY <1>4, <2>2, <3>1
      <3> QED
        BY <1>3, <3>1, <3>2
    <2> QED
      BY <2>1, <2>2
  <1>6. Live(m) = [i \in 1 .. Cardinality(live) |-> m.symbols[nth(i)]]
    BY DEF Live, live
  <1>7. Cardinality(live) = n
    BY <1>1, <1>2, <1>3
  <1> HIDE DEF nth
  <1> QED
    BY <1>5, <1>6, <1>7 DEF View

LEMMA Concatenation ==
  ASSUME NEW X, NEW a \in Seq(X), NEW b \in Seq(X)
  PROVE  /\ a \o b \in Seq(X) /\ Len(a \o b) = Len(a) + Len(b)
         /\ \A i \in 1 .. Len(a) + Len(b) : (a \o b)[i] = IF i <= Len(a) THEN a[i] ELSE b[i - Len(a)]
  OBVIOUS

\* One symbol in the place of two.
Shorter(s, n, k, x) == [i \in 1 .. n - 1 |-> IF i < k THEN s[i] ELSE IF i = k THEN x ELSE s[i + 1]]

LEMMA Spliced ==
  ASSUME NEW X, NEW s \in Seq(X), NEW k \in 1 .. Len(s) - 1, NEW x \in X
  PROVE  SubSeq(s, 1, k - 1) \o <<x>> \o SubSeq(s, k + 2, Len(s)) = Shorter(s, Len(s), k, x)
  <1> DEFINE a == SubSeq(s, 1, k - 1)
             c == SubSeq(s, k + 2, Len(s))
             d == a \o <<x>>
             all == d \o c
  <1>1. Len(s) \in Nat /\ k \in Nat /\ k <= Len(s) - 1
    OBVIOUS
  <1>2. a \in Seq(X) /\ Len(a) = k - 1 /\ \A i \in 1 .. k - 1 : a[i] = s[i]
    BY <1>1
  <1>3. c \in Seq(X) /\ Len(c) = Len(s) - k - 1 /\ \A i \in 1 .. Len(s) - k - 1 : c[i] = s[k + 1 + i]
    BY <1>1
  <1> HIDE DEF a, c
  <1>4. d \in Seq(X) /\ Len(d) = k /\ d[k] = x /\ \A i \in 1 .. k - 1 : d[i] = a[i]
    BY <1>1, <1>2
  <1> HIDE DEF d
  <1>5. all \in Seq(X) /\ Len(all) = Len(s) - 1
    <2>1. all \in Seq(X) /\ Len(all) = Len(d) + Len(c)
      BY <1>3, <1>4, Concatenation
    <2> QED
      BY <1>1, <1>3, <1>4, <2>1
  <1>6. ASSUME NEW i \in 1 .. Len(s) - 1
        PROVE  all[i] = IF i < k THEN s[i] ELSE IF i = k THEN x ELSE s[i + 1]
    <2>1. CASE i <= k
      <3>1. all[i] = d[i]
        BY <1>1, <1>3, <1>4, <2>1
      <3> QED
        BY <1>1, <1>2, <1>4, <2>1, <3>1
    <2>2. CASE i > k
      <3>1. all[i] = c[i - k] /\ i - k \in 1 .. Len(s) - k - 1
        BY <1>1, <1>3, <1>4, <2>2
      <3>2. c[i - k] = s[k + 1 + (i - k)] /\ k + 1 + (i - k) = i + 1
        BY <1>1, <1>3, <3>1
      <3> QED
        BY <1>1, <2>2, <3>1, <3>2
    <2>3. i <= k \/ i > k
      BY <1>1
    <2> HIDE DEF all
    <2> QED
      BY <2>1, <2>2, <2>3
  <1> HIDE DEF all
  <1>7. all = [i \in 1 .. Len(s) - 1 |-> all[i]]
    BY <1>1, <1>5
  <1> QED
    BY <1>6, <1>7 DEF all, a, c, d, Shorter

-----------------------------------------------------------------------------
\* Every pair that is left and can be joined is queued, and the rounds of the
\* definition have got to the symbols that are left, or have failed as well.
Characters(t) == [i \in DOMAIN t |-> <<t[i]>>]
Queued(m, at, n) ==
    \A i \in 1 .. n - 1 : Mergeable(<<m.symbols[at[i]], m.symbols[at[i + 1]]>>) =>
        <<RankOf(<<m.symbols[at[i]], m.symbols[at[i + 1]]>>), at[i], m.versions[at[i]]>> \in m.queue
InStep(t, m, at, n) ==
    IF m.failed THEN n > 0 /\ RoundsOf(Characters(t))[Len(t) - n + 1].failed
    ELSE /\ Queued(m, at, n)
         /\ RoundsOf(Characters(t))[Len(t) - n]
               = [symbols |-> View(m, at, n), failed |-> FALSE]
HeapInv(t, m) ==
    /\ m \in HeapType(Len(t), ToSet(t))
    /\ \E n \in 0 .. Len(t) : \E at \in [1 .. n -> 1 .. Len(t)] :
          Standing(m.alive, at, n, Len(t)) /\ InStep(t, m, at, n)

LEMMA CharactersAre ==
  ASSUME NEW t, t \in Seq(ToSet(t))
  PROVE  Characters(t) \in Seq(Seq(ToSet(t))) /\ Len(Characters(t)) = Len(t) /\ Len(t) \in Nat
         /\ DOMAIN t = 1 .. Len(t) /\ Characters(t) \in [1 .. Len(t) -> Seq(ToSet(t))]
  <1>1. Len(t) \in Nat /\ DOMAIN t = 1 .. Len(t) /\ \A i \in 1 .. Len(t) : t[i] \in ToSet(t)
    OBVIOUS
  <1> DEFINE C == ToSet(t)
  <1> HIDE DEF C
  <1>2. \A i \in 1 .. Len(t) : <<t[i]>> \in Seq(C)
    BY <1>1 DEF C
  <1>3. Characters(t) \in [1 .. Len(t) -> Seq(C)]
    BY <1>1, <1>2 DEF Characters
  <1>4. Characters(t) \in Seq(Seq(C)) /\ Len(Characters(t)) = Len(t)
    BY <1>1, <1>3
  <1> QED
    BY <1>1, <1>3, <1>4 DEF C

\* An entry that is put on the heap.
LEMMA EntryIs ==
  ASSUME NEW N \in Nat, NEW C, NEW m \in HeapType(N, C), NEW i \in 0 .. N, NEW j \in 1 .. N + 1
  PROVE  /\ Entry(m, i, j) \subseteq Nat \X (1 .. N) \X Nat
         /\ (i > 0 /\ j <= N /\ Mergeable(<<m.symbols[i], m.symbols[j]>>)) =>
                <<RankOf(<<m.symbols[i], m.symbols[j]>>), i, m.versions[i]>> \in Entry(m, i, j)
  <1>1. Len(m.symbols) = N
    BY SymbolsAre
  <1>2. i > 0 => m.versions[i] \in Nat
    BY DEF HeapType
  <1> DEFINE pair == <<m.symbols[i], m.symbols[j]>>
  <1>3. Entry(m, i, j) = IF i < 1 \/ j > N \/ ~Mergeable(pair) THEN {} ELSE {<<RankOf(pair), i, m.versions[i]>>}
    BY <1>1 DEF Entry
  <1>4. Mergeable(pair) => RankOf(pair) \in Nat
    BY RankIsNat
  <1> HIDE DEF pair
  <1>5. Entry(m, i, j) \subseteq Nat \X (1 .. N) \X Nat
    BY <1>2, <1>3, <1>4
  <1>6. (i > 0 /\ j <= N /\ Mergeable(pair)) => <<RankOf(pair), i, m.versions[i]>> \in Entry(m, i, j)
    BY <1>3
  <1> QED
    BY <1>5, <1>6 DEF pair

LEMMA StartInStep ==
  ASSUME NEW t, t \in Seq(ToSet(t))
  PROVE  HeapInv(t, Start(t))
  <1> DEFINE N == Len(t)
             C == ToSet(t)
             m == [symbols |-> [i \in 1 .. N |-> <<t[i]>>], alive |-> [i \in 1 .. N |-> TRUE],
                   versions |-> [i \in 1 .. N |-> 0], queue |-> {}, failed |-> FALSE]
             first == UNION {Entry(m, i, i + 1) : i \in 1 .. N - 1}
             at == [i \in 1 .. N |-> i]
  <1>1. /\ Characters(t) \in Seq(Seq(C)) /\ Len(Characters(t)) = N /\ N \in Nat
        /\ Characters(t) = [i \in 1 .. N |-> <<t[i]>>] /\ Characters(t) \in [1 .. N -> Seq(C)]
    BY CharactersAre DEF Characters
  <1> HIDE DEF C
  <1>2. m \in HeapType(N, C)
    BY <1>1 DEF HeapType
  <1>3. Start(t) = [m EXCEPT !.queue = first]
    BY DEF Start
  <1>4. first \subseteq Nat \X (1 .. N) \X Nat
    <2> SUFFICES ASSUME NEW i \in 1 .. N - 1 PROVE Entry(m, i, i + 1) \subseteq Nat \X (1 .. N) \X Nat
      OBVIOUS
    <2>1. i \in 0 .. N /\ i + 1 \in 1 .. N + 1
      BY <1>1
    <2> HIDE DEF m, N
    <2> QED
      BY <1>1, <1>2, <2>1, EntryIs
  <1> DEFINE z == Start(t)
  <1>5. /\ z.symbols = m.symbols /\ z.alive = m.alive /\ z.versions = m.versions /\ z.queue = first
        /\ z.failed = FALSE
    BY <1>3
  <1>6. z \in HeapType(N, C)
    <2> HIDE DEF first
    <2> QED
      BY <1>2, <1>3, <1>4 DEF HeapType
  <1>7. N \in 0 .. N /\ at \in [1 .. N -> 1 .. N] /\ Standing(z.alive, at, N, N)
    BY <1>1, <1>5 DEF Standing
  <1>8. Queued(z, at, N)
    <2> SUFFICES ASSUME NEW i \in 1 .. N - 1, Mergeable(<<z.symbols[at[i]], z.symbols[at[i + 1]]>>)
                 PROVE  <<RankOf(<<z.symbols[at[i]], z.symbols[at[i + 1]]>>), at[i], z.versions[at[i]]>> \in z.queue
      BY DEF Queued
    <2>1. i \in 0 .. N /\ i + 1 \in 1 .. N + 1 /\ i > 0 /\ i + 1 <= N /\ at[i] = i /\ at[i + 1] = i + 1
      BY <1>1
    <2> HIDE DEF m, z, first, at
    <2>2. Mergeable(<<m.symbols[i], m.symbols[i + 1]>>)
      BY <1>5, <2>1
    <2>3. <<RankOf(<<m.symbols[i], m.symbols[i + 1]>>), i, m.versions[i]>> \in Entry(m, i, i + 1)
      BY <1>1, <1>2, <2>1, <2>2, EntryIs
    <2>4. <<RankOf(<<m.symbols[i], m.symbols[i + 1]>>), i, m.versions[i]>> \in first
      BY <2>3 DEF first
    <2> QED
      BY <1>5, <2>1, <2>4
  <1>9. RoundsOf(Characters(t))[0] = [symbols |-> View(z, at, N), failed |-> FALSE]
    <2>1. RoundsOf(Characters(t))[0] = [symbols |-> Characters(t), failed |-> FALSE]
      BY <1>1, Rounds
    <2>2. \A i \in 1 .. N : z.symbols[at[i]] = Characters(t)[i]
      BY <1>1, <1>5
    <2> HIDE DEF z, m, at
    <2>3. View(z, at, N) = Characters(t)
      BY <1>1, <2>2 DEF View
    <2> QED
      BY <2>1, <2>3
  <1> HIDE DEF z, m, first, at
  <1>10. InStep(t, z, at, N)
    BY <1>1, <1>5, <1>8, <1>9 DEF InStep
  <1> QED
    BY <1>6, <1>7, <1>10 DEF HeapInv, z, C

\* Once the heap is empty no pair that is left can be joined.
LEMMA SettledRounds ==
  ASSUME NEW C, NEW s \in Seq(Seq(C)), NEW k \in 0 .. Len(s),
         RoundsOf(s)[k].failed \/ Pairs(RoundsOf(s)[k].symbols) = {}
  PROVE  Greedy(s) = RoundsOf(s)[k]
  <1> DEFINE g == RoundsOf(s)[k]
             T == {i \in 0 .. Len(s) : i >= k => RoundsOf(s)[i] = g}
  <1>1. JoinBest(g) = g
    BY DEF JoinBest
  <1>2. Len(s) \in Nat /\ k \in Nat
    OBVIOUS
  <1> HIDE DEF g
  <1>3. 0 \in T
    BY <1>2 DEF g
  <1>4. ASSUME NEW i \in 0 .. Len(s), i > 0, i - 1 \in T PROVE i \in T
    <2>1. i \in 1 .. Len(s)
      BY <1>4
    <2>2. RoundsOf(s)[i] = JoinBest(RoundsOf(s)[i - 1])
      BY <2>1, Rounds
    <2>3. i >= k => i = k \/ i - 1 >= k
      BY <1>2, <2>1
    <2> QED
      BY <1>1, <1>4, <2>2, <2>3 DEF g
  <1> HIDE DEF T
  <1>5. 0 .. Len(s) \subseteq T
    BY <1>2, <1>3, <1>4, UpTo
  <1>6. Len(s) \in T
    BY <1>2, <1>5
  <1>7. RoundsOf(s)[Len(s)] = g
    BY <1>2, <1>6 DEF T
  <1> QED
    BY <1>7, Rounds DEF g

LEMMA FinishedIsGreedy ==
  ASSUME NEW t, t \in Seq(ToSet(t)), NEW m, HeapInv(t, m), Finished(m)
  PROVE  LET g == Greedy(Characters(t))
             unknown == g.failed \/ \E i \in DOMAIN g.symbols : g.symbols[i] \notin Vocabulary
         IN  Unknown(m) = unknown /\ (~unknown => Live(m) = g.symbols)
  <1> DEFINE N == Len(t)
             C == ToSet(t)
             s == Characters(t)
             g == Greedy(s)
             unknown == g.failed \/ \E i \in DOMAIN g.symbols : g.symbols[i] \notin Vocabulary
  <1>1. s \in Seq(Seq(C)) /\ Len(s) = N /\ N \in Nat
    BY CharactersAre
  <1>2. m \in HeapType(N, C)
    BY DEF HeapInv
  <1>3. PICK n, at : /\ n \in 0 .. N /\ at \in [1 .. n -> 1 .. N]
                     /\ Standing(m.alive, at, n, N) /\ InStep(t, m, at, n)
    BY DEF HeapInv
  <1>4. CASE m.failed
    <2>1. RoundsOf(s)[N - n + 1].failed /\ N - n + 1 \in 0 .. N
      BY <1>1, <1>3, <1>4 DEF InStep
    <2>2. g = RoundsOf(s)[N - n + 1]
      BY <1>1, <2>1, SettledRounds
    <2>3. Unknown(m) = TRUE
      BY <1>4 DEF Unknown
    <2> QED
      BY <2>1, <2>2, <2>3
  <1>5. CASE ~m.failed
    <2> DEFINE v == View(m, at, n)
    <2>1. /\ RoundsOf(s)[N - n] = [symbols |-> v, failed |-> FALSE] /\ N - n \in 0 .. N
          /\ Queued(m, at, n)
      BY <1>1, <1>3, <1>5 DEF InStep
    <2>2. m.queue = {}
      BY <1>5 DEF Finished
    <2>3. v \in Seq(Seq(C)) /\ Len(v) = n /\ v = [i \in 1 .. n |-> m.symbols[at[i]]]
      <3>1. \A i \in 1 .. n : m.symbols[at[i]] \in Seq(C)
        BY <1>2, <1>3 DEF HeapType
      <3>2. n \in Nat
        BY <1>1, <1>3
      <3>3. v \in [1 .. n -> Seq(C)] /\ v = [i \in 1 .. n |-> m.symbols[at[i]]]
        BY <3>1 DEF View
      <3> HIDE DEF v
      <3> QED
        BY <3>2, <3>3
    <2>4. Pairs(v) = {}
      <3> SUFFICES ASSUME NEW i \in 1 .. n - 1, Mergeable(<<v[i], v[i + 1]>>) PROVE FALSE
        BY <2>3 DEF Pairs, PairAt
      <3>1. i \in 1 .. n /\ i + 1 \in 1 .. n
        BY <1>1, <1>3
      <3> QED
        BY <2>1, <2>2, <2>3, <3>1 DEF Queued
    <2>5. g = [symbols |-> v, failed |-> FALSE]
      <3> HIDE DEF v
      <3>1. Pairs(RoundsOf(s)[N - n].symbols) = {}
        BY <2>1, <2>4
      <3>2. g = RoundsOf(s)[N - n]
        BY <1>1, <2>1, <3>1, SettledRounds
      <3> QED
        BY <2>1, <3>2
    <2>6. Live(m) = v
      <3>1. Standing(m.alive, at, n, N)
        BY <1>3
      <3>2. PICK M, D : M \in Nat /\ m \in HeapType(M, D) /\ Standing(m.alive, at, n, M)
        BY <1>1, <1>2, <3>1
      <3>3. Live(m) = View(m, at, n)
        BY <3>2, LiveIs
      <3> QED
        BY <3>3 DEF View
    <2>7. Unknown(m) <=> \E i \in 1 .. n : v[i] \notin Vocabulary
      <3>1. DOMAIN m.alive = 1 .. N
        BY <1>2 DEF HeapType
      <3>2. Unknown(m) <=> \E j \in 1 .. N : m.alive[j] /\ m.symbols[j] \notin Vocabulary
        BY <1>5, <3>1 DEF Unknown
      <3>3. \A j \in 1 .. N : m.alive[j] <=> \E i \in 1 .. n : at[i] = j
        BY <1>3 DEF Standing
      <3>4. \A i \in 1 .. n : at[i] \in 1 .. N /\ v[i] = m.symbols[at[i]]
        BY <1>3, <2>3
      <3> HIDE DEF v
      <3>5. Unknown(m) => \E i \in 1 .. n : v[i] \notin Vocabulary
        BY <3>2, <3>3, <3>4
      <3>6. (\E i \in 1 .. n : v[i] \notin Vocabulary) => Unknown(m)
        <4> SUFFICES ASSUME NEW i \in 1 .. n, v[i] \notin Vocabulary PROVE Unknown(m)
          OBVIOUS
        <4>1. at[i] \in 1 .. N /\ m.alive[at[i]] /\ m.symbols[at[i]] \notin Vocabulary
          BY <3>3, <3>4
        <4> QED
          BY <3>2, <4>1
      <3> QED
        BY <3>5, <3>6
    <2>8. unknown <=> \E i \in 1 .. n : v[i] \notin Vocabulary
      <3>1. g.failed = FALSE /\ g.symbols = v /\ DOMAIN v = 1 .. n
        BY <2>3, <2>5
      <3> HIDE DEF v, g
      <3> QED
        BY <3>1
    <2>9. Unknown(m) \in BOOLEAN /\ unknown \in BOOLEAN
      BY <1>2, <2>5 DEF Unknown, HeapType
    <2> HIDE DEF v
    <2>10. Live(m) = g.symbols
      BY <2>5, <2>6
    <2> HIDE DEF unknown, g
    <2>11. Unknown(m) = unknown
      BY <2>7, <2>8, <2>9
    <2> QED
      BY <2>10, <2>11 DEF unknown, g
  <1> QED
    BY <1>4, <1>5

\* An entry that is popped and does not apply was not that of a pair that is left.
LEMMA StaleIsSpare ==
  ASSUME NEW N \in Nat, NEW C, NEW m \in HeapType(N, C), NEW n, NEW at, Standing(m.alive, at, n, N),
         Queued(m, at, n), NEW e \in m.queue, ~Applies(m, e), NEW r, r = [m EXCEPT !.queue = @ \ {e}]
  PROVE  Queued(r, at, n)
  <1>1. /\ r.symbols = m.symbols /\ r.versions = m.versions /\ r.queue = m.queue \ {e}
        /\ Len(m.symbols) = N
    BY SymbolsAre DEF HeapType
  <1> SUFFICES ASSUME NEW i \in 1 .. n - 1, Mergeable(<<m.symbols[at[i]], m.symbols[at[i + 1]]>>),
                      <<RankOf(<<m.symbols[at[i]], m.symbols[at[i + 1]]>>), at[i], m.versions[at[i]]>> = e
               PROVE  FALSE
    BY <1>1 DEF Queued
  <1>2. /\ e[1] = RankOf(<<m.symbols[at[i]], m.symbols[at[i + 1]]>>) /\ e[2] = at[i]
        /\ e[3] = m.versions[at[i]]
    OBVIOUS
  <1>3. n \in Nat /\ i \in 1 .. n /\ i < n /\ i + 1 \in 1 .. n /\ i < i + 1
    BY DEF Standing
  <1>4. at[i] \in 1 .. N /\ at[i + 1] \in 1 .. N /\ at[i] < at[i + 1] /\ m.alive[at[i]]
    BY <1>3 DEF Standing
  <1>5. After(m, at[i]) = at[i + 1]
    <2>1. PICK b \in 1 .. N : b = at[i]
      BY <1>4
    <2>2. at[i] <= b /\ (i < n => b < at[i + 1])
      BY <1>4, <2>1
    <2>3. Neighbours(m, at, n, N)
      BY NeighboursAre
    <2>4. After(m, b) = IF i < n THEN at[i + 1] ELSE N + 1
      BY <1>3, <2>2, <2>3 DEF Neighbours
    <2> QED
      BY <1>3, <2>1, <2>4
  <1> QED
    BY <1>1, <1>2, <1>4, <1>5 DEF Applies

\* One that applies is that of the pair that the definition joins.
PicksBest(m, at, n, e) ==
    \E k \in 1 .. n - 1 :
        /\ at[k] = e[2] /\ After(m, e[2]) = at[k + 1]
        /\ k \in Pairs(View(m, at, n)) /\ BestPair(View(m, at, n)) = k

LEMMA AppliesToBest ==
  ASSUME NEW N \in Nat, NEW C, NEW m \in HeapType(N, C), NEW n, NEW at, Standing(m.alive, at, n, N),
         Queued(m, at, n), m.queue # {}, NEW e, e = Lowest(m.queue), Applies(m, e)
  PROVE  PicksBest(m, at, n, e)
  <1>1. m.queue \in SUBSET (Nat \X Nat \X Nat) /\ m.queue \in SUBSET (Nat \X (1 .. N) \X Nat)
    BY DEF HeapType
  <1>2. /\ e \in m.queue /\ e[2] \in 1 .. N /\ e[1] \in Nat
        /\ \A f \in m.queue : e[1] < f[1] \/ (e[1] = f[1] /\ e[2] <= f[2])
    BY <1>1, LowestIs
  <1>3. n \in Nat /\ at \in [1 .. n -> 1 .. N] /\ Len(m.symbols) = N
    BY SymbolsAre DEF Standing
  <1>4. PICK k \in 1 .. n : at[k] = e[2]
    BY <1>2 DEF Applies, Standing
  <1>5. at[k] <= at[k] /\ (k < n => at[k] < at[k + 1])
    <2>1. k < n => k + 1 \in 1 .. n /\ k < k + 1
      BY <1>3
    <2> QED
      BY <1>2, <1>3, <1>4, <2>1 DEF Standing
  <1>6. After(m, at[k]) = IF k < n THEN at[k + 1] ELSE N + 1
    <2>1. PICK b \in 1 .. N : b = at[k]
      BY <1>2, <1>4
    <2>2. at[k] <= b /\ (k < n => b < at[k + 1])
      BY <1>5, <2>1
    <2>3. Neighbours(m, at, n, N)
      BY NeighboursAre
    <2>4. After(m, b) = IF k < n THEN at[k + 1] ELSE N + 1
      BY <2>2, <2>3 DEF Neighbours
    <2> QED
      BY <2>1, <2>4
  <1>7. After(m, e[2]) <= N
    BY <1>3 DEF Applies
  <1>8. k < n /\ k \in 1 .. n - 1 /\ After(m, e[2]) = at[k + 1] /\ k + 1 \in 1 .. n
    BY <1>3, <1>4, <1>6, <1>7
  <1> DEFINE v == View(m, at, n)
  <1>9. v \in [1 .. n -> Seq(C)] /\ \A i \in 1 .. n : v[i] = m.symbols[at[i]]
    <2>1. \A i \in 1 .. n : m.symbols[at[i]] \in Seq(C)
      BY <1>3 DEF HeapType
    <2> QED
      BY <2>1 DEF View
  <1> HIDE DEF v
  <1>10. Len(v) = n /\ v \in Seq(Seq(C))
    BY <1>3, <1>9
  <1>11. Mergeable(PairAt(v, k)) /\ RankOf(PairAt(v, k)) = e[1]
    BY <1>4, <1>8, <1>9 DEF Applies, PairAt
  <1>12. k \in Pairs(v)
    BY <1>8, <1>10, <1>11 DEF Pairs
  <1>13. ASSUME NEW j \in Pairs(v)
         PROVE  RankOf(PairAt(v, k)) < RankOf(PairAt(v, j)) \/ (RankOf(PairAt(v, k)) = RankOf(PairAt(v, j)) /\ k <= j)
    <2>1. j \in 1 .. n - 1 /\ j \in 1 .. n /\ j + 1 \in 1 .. n /\ Mergeable(PairAt(v, j))
      BY <1>3, <1>10 DEF Pairs
    <2>2. PairAt(v, j) = <<m.symbols[at[j]], m.symbols[at[j + 1]]>>
      BY <1>9, <2>1 DEF PairAt
    <2>3. <<RankOf(PairAt(v, j)), at[j], m.versions[at[j]]>> \in m.queue
      BY <2>1, <2>2 DEF Queued
    <2>4. e[1] < RankOf(PairAt(v, j)) \/ (e[1] = RankOf(PairAt(v, j)) /\ at[k] <= at[j])
      BY <1>2, <1>4, <2>3
    <2>5. at[k] <= at[j] => k <= j
      <3> SUFFICES ASSUME j < k, at[k] <= at[j] PROVE FALSE
        BY <1>3, <2>1
      <3>1. at[j] < at[k]
        BY <2>1 DEF Standing
      <3>2. at[j] \in 1 .. N /\ at[k] \in 1 .. N
        BY <1>3, <2>1
      <3> QED
        BY <3>1, <3>2
    <2> QED
      BY <1>11, <2>4, <2>5
  <1>14. BestPair(v) = k
    BY <1>10, <1>12, <1>13, BestIs
  <1> QED
    BY <1>4, <1>8, <1>12, <1>14 DEF v, PicksBest

\* The symbols after a join, and the positions that are left then.
Joint(m, p, next) ==
    [m EXCEPT !.symbols[p] = m.symbols[p] \o m.symbols[next], !.alive[next] = FALSE, !.versions[p] = @ + 1]
Closed(at, n, k) == [i \in 1 .. n - 1 |-> IF i <= k THEN at[i] ELSE at[i + 1]]

Joins(m, p, next, N, C) ==
    /\ Joint(m, p, next) \in HeapType(N, C)
    /\ Joint(m, p, next).queue = m.queue /\ Joint(m, p, next).failed = m.failed
    /\ m.symbols[p] \o m.symbols[next] \in Seq(C)
    /\ \A i \in 1 .. N :
          /\ Joint(m, p, next).symbols[i] = IF i = p THEN m.symbols[p] \o m.symbols[next] ELSE m.symbols[i]
          /\ Joint(m, p, next).alive[i] <=> (i # next /\ m.alive[i])
          /\ i # p => Joint(m, p, next).versions[i] = m.versions[i]

LEMMA JointIs ==
  ASSUME NEW N \in Nat, NEW C, NEW m \in HeapType(N, C), NEW p \in 1 .. N, NEW next \in 1 .. N, next # p
  PROVE  Joins(m, p, next, N, C)
  <1>1. m.symbols[p] \in Seq(C) /\ m.symbols[next] \in Seq(C) /\ m.versions[p] + 1 \in Nat
    BY DEF HeapType
  <1>2. m.symbols[p] \o m.symbols[next] \in Seq(C)
    BY <1>1
  <1> QED
    BY <1>1, <1>2 DEF HeapType, Joint, Joins

LEMMA ClosedIs ==
  ASSUME NEW N \in Nat, NEW C, NEW m \in HeapType(N, C), NEW n, NEW at, Standing(m.alive, at, n, N),
         NEW k \in 1 .. n - 1, NEW p, p = at[k], NEW next, next = at[k + 1]
  PROVE  /\ p \in 1 .. N /\ next \in 1 .. N /\ p < next
         /\ Standing(Joint(m, p, next).alive, Closed(at, n, k), n - 1, N)
  <1> DEFINE q == Joint(m, p, next)
             c == Closed(at, n, k)
  <1>1. n \in Nat /\ n \in 0 .. N /\ at \in [1 .. n -> 1 .. N] /\ k \in 1 .. n /\ k + 1 \in 1 .. n /\ k < k + 1
    BY DEF Standing
  <1>2. p \in 1 .. N /\ next \in 1 .. N /\ p < next
    BY <1>1 DEF Standing
  <1>3. \A i \in 1 .. N : q.alive[i] <=> (i # next /\ m.alive[i])
    <2>1. Joins(m, p, next, N, C)
      BY <1>2, JointIs
    <2> QED
      BY <2>1 DEF Joins
  <1> HIDE DEF q
  <1>4. c \in [1 .. n - 1 -> 1 .. N] /\ \A i \in 1 .. n - 1 : c[i] = IF i <= k THEN at[i] ELSE at[i + 1]
    <2>1. \A i \in 1 .. n - 1 : i \in 1 .. n /\ i + 1 \in 1 .. n
      BY <1>1
    <2> QED
      BY <1>1, <2>1 DEF Closed
  <1> HIDE DEF c
  <1>5. ASSUME NEW i \in 1 .. n - 1, NEW j \in 1 .. n - 1, i < j PROVE c[i] < c[j]
    <2> DEFINE i1 == IF i <= k THEN i ELSE i + 1
               j1 == IF j <= k THEN j ELSE j + 1
    <2>1. i1 \in 1 .. n /\ j1 \in 1 .. n /\ i1 < j1
      BY <1>1, <1>5
    <2>2. c[i] = at[i1] /\ c[j] = at[j1]
      BY <1>4
    <2> HIDE DEF i1, j1
    <2> QED
      BY <2>1, <2>2 DEF Standing
  <1>6. ASSUME NEW b \in 1 .. N PROVE q.alive[b] <=> \E i \in 1 .. n - 1 : c[i] = b
    <2>1. m.alive[b] <=> \E i \in 1 .. n : at[i] = b
      BY DEF Standing
    <2>2. ASSUME NEW i \in 1 .. n, at[i] = b, b # next PROVE \E j \in 1 .. n - 1 : c[j] = b
      <3>1. i # k + 1
        BY <2>2
      <3>2. CASE i <= k
        <4>1. i \in 1 .. n - 1
          BY <1>1, <3>2
        <4> QED
          BY <1>4, <2>2, <3>2, <4>1
      <3>3. CASE i > k
        <4>1. i - 1 \in 1 .. n - 1 /\ ~(i - 1 <= k) /\ (i - 1) + 1 = i
          BY <1>1, <3>1, <3>3
        <4>2. c[i - 1] = at[i]
          BY <1>4, <4>1
        <4> QED
          BY <2>2, <4>1, <4>2
      <3> QED
        BY <1>1, <3>2, <3>3
    <2>3. ASSUME NEW j \in 1 .. n - 1, c[j] = b PROVE b # next /\ \E i \in 1 .. n : at[i] = b
      <3>1. PICK i \in 1 .. n : c[j] = at[i] /\ (i < k + 1 \/ k + 1 < i)
        <4>1. CASE j <= k
          BY <1>1, <1>4, <4>1
        <4>2. CASE j > k
          <5>1. j + 1 \in 1 .. n /\ k + 1 < j + 1 /\ ~(j <= k)
            BY <1>1, <4>2
          <5>2. c[j] = at[j + 1]
            BY <1>4, <5>1
          <5> QED
            BY <5>1, <5>2
        <4> QED
          BY <1>1, <4>1, <4>2
      <3>2. at[i] < at[k + 1] \/ at[k + 1] < at[i]
        BY <1>1, <3>1 DEF Standing
      <3> QED
        BY <1>2, <2>3, <3>1, <3>2
    <2> QED
      BY <1>3, <2>1, <2>2, <2>3
  <1>7. n - 1 \in 0 .. N
    BY <1>1
  <1> QED
    BY <1>2, <1>4, <1>5, <1>6, <1>7 DEF Standing, q, c

\* After the join every pair that is left is queued again, and the symbols that
\* are left are those after a round of the definition.
Requeued(q, p, next) ==
    [q EXCEPT !.queue = @ \cup Entry(q, Before(q, p), p) \cup Entry(q, p, After(q, next))]
Requeues(m, z, at, c, n, k, N, C) ==
    /\ z \in HeapType(N, C) /\ z.failed = m.failed
    /\ Standing(z.alive, c, n - 1, N) /\ Queued(z, c, n - 1)
    /\ View(z, c, n - 1) = Shorter(View(m, at, n), n, k, View(m, at, n)[k] \o View(m, at, n)[k + 1])

LEMMA JoinRequeues ==
  ASSUME NEW N \in Nat, NEW C, NEW m \in HeapType(N, C), NEW n, NEW at, Standing(m.alive, at, n, N),
         Queued(m, at, n), NEW k \in 1 .. n - 1, NEW e, e[2] = at[k],
         NEW rest, rest = [m EXCEPT !.queue = @ \ {e}],
         NEW p, p = at[k], NEW next, next = at[k + 1],
         NEW z, z = Requeued(Joint(rest, p, next), p, next)
  PROVE  Requeues(m, z, at, Closed(at, n, k), n, k, N, C)
  <1> DEFINE q == Joint(rest, p, next)
             c == Closed(at, n, k)
             low == Entry(q, Before(q, p), p)
             high == Entry(q, p, After(q, next))
  <1>1. n \in Nat /\ n \in 0 .. N /\ at \in [1 .. n -> 1 .. N] /\ k \in 1 .. n /\ k + 1 \in 1 .. n /\ k \in 1 .. n - 1
    BY DEF Standing
  <1>2. /\ rest \in HeapType(N, C) /\ rest.symbols = m.symbols /\ rest.alive = m.alive
        /\ rest.versions = m.versions /\ rest.failed = m.failed /\ rest.queue = m.queue \ {e}
    BY DEF HeapType
  <1>3. p \in 1 .. N /\ next \in 1 .. N /\ p < next /\ Standing(q.alive, c, n - 1, N)
    <2>1. Standing(rest.alive, at, n, N)
      BY <1>2
    <2> QED
      BY <1>1, <1>2, <2>1, ClosedIs
  <1>4. Joins(rest, p, next, N, C)
    BY <1>2, <1>3, JointIs
  <1> HIDE DEF q, c
  <1>5. /\ q \in HeapType(N, C) /\ q.queue = m.queue \ {e} /\ q.failed = m.failed
        /\ \A i \in 1 .. N :
              /\ q.symbols[i] = IF i = p THEN m.symbols[p] \o m.symbols[next] ELSE m.symbols[i]
              /\ i # p => q.versions[i] = m.versions[i]
    <2>1. /\ q \in HeapType(N, C) /\ q.queue = rest.queue /\ q.failed = rest.failed
          /\ \A i \in 1 .. N :
                /\ q.symbols[i] = IF i = p THEN rest.symbols[p] \o rest.symbols[next] ELSE rest.symbols[i]
                /\ i # p => q.versions[i] = rest.versions[i]
      BY <1>4 DEF Joins, q
    <2> QED
      BY <1>2, <2>1
  <1>6. c \in [1 .. n - 1 -> 1 .. N] /\ \A i \in 1 .. n - 1 : c[i] = IF i <= k THEN at[i] ELSE at[i + 1]
    <2>1. \A i \in 1 .. n - 1 : i \in 1 .. n /\ i + 1 \in 1 .. n
      BY <1>1
    <2> QED
      BY <1>1, <2>1 DEF Closed, c
  <1>7. Neighbours(q, c, n - 1, N)
    <2>1. PICK d : d = n - 1
      OBVIOUS
    <2>2. Neighbours(q, c, d, N)
      BY <1>3, <1>5, <2>1, NeighboursAre
    <2> QED
      BY <2>1, <2>2
  <1>8. c[k] = p /\ (k < n - 1 => k + 1 \in 1 .. n - 1 /\ c[k + 1] = at[k + 2] /\ next < c[k + 1])
    <2>1. c[k] = p
      BY <1>1, <1>6
    <2>2. ASSUME k < n - 1 PROVE k + 1 \in 1 .. n - 1 /\ c[k + 1] = at[k + 2] /\ next < c[k + 1]
      <3>1. k + 1 \in 1 .. n - 1 /\ k + 2 \in 1 .. n /\ k + 1 < k + 2 /\ ~(k + 1 <= k) /\ (k + 1) + 1 = k + 2
        BY <1>1, <2>2
      <3>2. c[k + 1] = at[k + 2]
        BY <1>6, <3>1
      <3>3. at[k + 1] < at[k + 2]
        BY <1>1, <3>1 DEF Standing
      <3> QED
        BY <3>1, <3>2, <3>3
    <2> QED
      BY <2>1, <2>2
  <1>9. Before(q, p) = IF k > 1 THEN c[k - 1] ELSE 0
    <2>1. c[k] <= p /\ (k < n - 1 => p < c[k + 1])
      <3>1. k < n - 1 => c[k + 1] \in 1 .. N
        BY <1>6, <1>8
      <3> QED
        BY <1>3, <1>8, <3>1
    <2> QED
      BY <1>1, <1>3, <1>7, <1>8, <2>1 DEF Neighbours
  <1>10. After(q, next) = IF k < n - 1 THEN c[k + 1] ELSE N + 1
    <2>1. c[k] <= next /\ (k < n - 1 => next < c[k + 1])
      BY <1>3, <1>8
    <2> QED
      BY <1>1, <1>3, <1>7, <2>1 DEF Neighbours
  <1>11. Before(q, p) \in 0 .. N /\ After(q, next) \in 1 .. N + 1 /\ p \in 0 .. N /\ p \in 1 .. N + 1
    <2>1. k > 1 => k - 1 \in 1 .. n - 1
      BY <1>1
    <2>2. k > 1 => c[k - 1] \in 1 .. N
      BY <1>6, <2>1
    <2>3. k < n - 1 => c[k + 1] \in 1 .. N
      BY <1>6, <1>8
    <2> QED
      BY <1>3, <1>9, <1>10, <2>2, <2>3
  <1>12. low \subseteq Nat \X (1 .. N) \X Nat /\ high \subseteq Nat \X (1 .. N) \X Nat
    BY <1>5, <1>11, EntryIs
  <1> HIDE DEF low, high
  <1>13. /\ z \in HeapType(N, C) /\ z.failed = m.failed /\ z.alive = q.alive /\ z.symbols = q.symbols
         /\ z.versions = q.versions /\ z.queue = (m.queue \ {e}) \cup low \cup high
    <2>1. z = [q EXCEPT !.queue = @ \cup low \cup high]
      BY DEF Requeued, q, low, high
    <2> QED
      BY <1>5, <1>12, <2>1 DEF HeapType
  <1> DEFINE pair(i) == <<z.symbols[c[i]], z.symbols[c[i + 1]]>>
             entry(i) == <<RankOf(pair(i)), c[i], z.versions[c[i]]>>
  <1>14. ASSUME NEW i \in 1 .. (n - 1) - 1, Mergeable(pair(i)) PROVE entry(i) \in z.queue
    <2>1. i \in 1 .. n - 1 /\ i + 1 \in 1 .. n - 1 /\ i \in Int
      BY <1>1
    <2>2. c[i] \in 1 .. N /\ c[i + 1] \in 1 .. N
      BY <1>6, <2>1
    <2>3. CASE i + 1 = k
      <3>1. k > 1 /\ k - 1 = i
        BY <1>1, <2>1, <2>3
      <3>2. Before(q, p) = c[i] /\ p = c[i + 1]
        BY <1>8, <1>9, <2>3, <3>1
      <3>3. entry(i) \in Entry(q, c[i], p)
        <4>1. c[i] \in 0 .. N /\ c[i] > 0 /\ p <= N
          BY <1>3, <2>2
        <4> QED
          BY <1>5, <1>11, <1>13, <1>14, <3>2, <4>1, EntryIs
      <3> QED
        BY <1>13, <3>2, <3>3 DEF low
    <2>4. CASE i = k
      <3>1. k < n - 1
        BY <1>1, <2>1, <2>4
      <3>2. After(q, next) = c[i + 1] /\ p = c[i]
        BY <1>8, <1>10, <2>4, <3>1
      <3>3. entry(i) \in Entry(q, p, c[i + 1])
        <4>1. p > 0 /\ c[i + 1] <= N /\ c[i + 1] \in 1 .. N + 1
          BY <1>3, <2>2
        <4> QED
          BY <1>5, <1>11, <1>13, <1>14, <3>2, <4>1, EntryIs
      <3> QED
        BY <1>13, <3>2, <3>3 DEF high
    <2>5. CASE i # k /\ i + 1 # k
      <3>1. PICK j \in 1 .. n - 1 : j # k /\ j + 1 # k /\ c[i] = at[j] /\ c[i + 1] = at[j + 1]
        <4>1. CASE i < k
          <5>1. i <= k /\ i + 1 <= k
            BY <1>1, <2>1, <4>1
          <5> QED
            BY <1>6, <2>1, <2>5, <5>1
        <4>2. CASE i > k
          <5>1. ~(i <= k) /\ ~(i + 1 <= k) /\ i + 1 # k /\ (i + 1) + 1 # k
            BY <1>1, <2>1, <4>2
          <5>2. c[i] = at[i + 1] /\ c[i + 1] = at[(i + 1) + 1]
            BY <1>6, <2>1, <5>1
          <5> QED
            BY <2>1, <5>1, <5>2
        <4> QED
          BY <1>1, <2>1, <2>5, <4>1, <4>2
      <3>2. j \in 1 .. n /\ j + 1 \in 1 .. n
        BY <1>1
      <3>3. at[j] # p /\ at[j + 1] # p /\ at[j] \in 1 .. N /\ at[j + 1] \in 1 .. N
        <4>1. /\ (j < k \/ k < j) /\ (j + 1 < k \/ k < j + 1)
          BY <1>1, <3>1, <3>2
        <4>2. /\ at[j] < at[k] \/ at[k] < at[j]
              /\ at[j + 1] < at[k] \/ at[k] < at[j + 1]
          BY <1>1, <3>2, <4>1 DEF Standing
        <4>3. at[j] \in 1 .. N /\ at[j + 1] \in 1 .. N
          BY <1>1, <3>2
        <4> QED
          BY <1>3, <4>2, <4>3
      <3>4. /\ z.symbols[c[i]] = m.symbols[at[j]] /\ z.symbols[c[i + 1]] = m.symbols[at[j + 1]]
            /\ z.versions[c[i]] = m.versions[at[j]]
        BY <1>5, <1>13, <3>1, <3>3
      <3>5. entry(i) = <<RankOf(<<m.symbols[at[j]], m.symbols[at[j + 1]]>>), at[j], m.versions[at[j]]>>
        BY <3>1, <3>4
      <3>6. entry(i) \in m.queue
        BY <1>14, <3>1, <3>4, <3>5 DEF Queued
      <3>7. entry(i) # e
        <4>1. entry(i)[2] = at[j]
          BY <3>1
        <4> HIDE DEF entry
        <4> QED
          BY <3>3, <4>1
      <3> HIDE DEF entry
      <3> QED
        BY <1>13, <3>6, <3>7
    <2> QED
      BY <2>3, <2>4, <2>5
  <1>15. Queued(z, c, n - 1)
    BY <1>14 DEF Queued
  <1>16. View(z, c, n - 1) = Shorter(View(m, at, n), n, k, View(m, at, n)[k] \o View(m, at, n)[k + 1])
    <2> DEFINE v == View(m, at, n)
    <2>1. \A i \in 1 .. n : v[i] = m.symbols[at[i]]
      BY DEF View
    <2> HIDE DEF v
    <2> SUFFICES ASSUME NEW i \in 1 .. n - 1
                 PROVE  z.symbols[c[i]] = IF i < k THEN v[i] ELSE IF i = k THEN v[k] \o v[k + 1] ELSE v[i + 1]
      BY DEF View, Shorter, v
    <2>2. i \in 1 .. n /\ i + 1 \in 1 .. n /\ c[i] \in 1 .. N /\ (i < k \/ i = k \/ i > k)
      BY <1>1, <1>6
    <2>3. CASE i = k
      BY <1>1, <1>5, <1>8, <1>13, <2>1, <2>2, <2>3
    <2>4. CASE i < k
      <3>1. c[i] = at[i] /\ at[i] < at[k] /\ at[i] \in 1 .. N
        BY <1>1, <1>6, <2>2, <2>4 DEF Standing
      <3> QED
        BY <1>1, <1>3, <1>5, <1>13, <2>1, <2>2, <2>4, <3>1
    <2>5. CASE i > k
      <3>1. c[i] = at[i + 1] /\ k < i + 1
        BY <1>1, <1>6, <2>2, <2>5
      <3>2. at[k] < at[i + 1] /\ at[i + 1] \in 1 .. N
        BY <1>1, <2>2, <3>1 DEF Standing
      <3> QED
        BY <1>1, <1>3, <1>5, <1>13, <2>1, <2>2, <2>5, <3>1, <3>2
    <2> QED
      BY <2>2, <2>3, <2>4, <2>5
  <1> QED
    BY <1>3, <1>13, <1>15, <1>16 DEF Requeues, c

LEMMA PopStaysInStep ==
  ASSUME NEW t, t \in Seq(ToSet(t)), NEW m, HeapInv(t, m), ~Finished(m)
  PROVE  HeapInv(t, Popped(m))
  <1> DEFINE N == Len(t)
             C == ToSet(t)
             s == Characters(t)
             e == Lowest(m.queue)
             rest == [m EXCEPT !.queue = @ \ {e}]
             z == Popped(m)
  <1>1. s \in Seq(Seq(C)) /\ Len(s) = N /\ N \in Nat
    BY CharactersAre
  <1>2. m \in HeapType(N, C) /\ m.queue # {} /\ ~m.failed
    BY DEF HeapInv, Finished
  <1>3. PICK n, at : /\ n \in 0 .. N /\ at \in [1 .. n -> 1 .. N]
                     /\ Standing(m.alive, at, n, N) /\ InStep(t, m, at, n)
    BY DEF HeapInv
  <1> DEFINE v == View(m, at, n)
  <1>4. Queued(m, at, n) /\ RoundsOf(s)[N - n] = [symbols |-> v, failed |-> FALSE]
    BY <1>2, <1>3 DEF InStep
  <1>5. e \in m.queue
    <2>1. m.queue \in SUBSET (Nat \X Nat \X Nat)
      BY <1>2 DEF HeapType
    <2> QED
      BY <1>2, <2>1, LowestIs
  <1>6. n \in Nat /\ N - n \in 0 .. N
    BY <1>1, <1>3
  <1> HIDE DEF e, N, C, s
  <1>7. rest \in HeapType(N, C) /\ rest.symbols = m.symbols /\ rest.alive = m.alive /\ rest.failed = FALSE
    BY <1>2 DEF HeapType
  <1>8. CASE ~Applies(m, e)
    <2>1. z = rest
      BY <1>8 DEF Popped, e
    <2>2. PICK r : r = rest
      OBVIOUS
    <2>3. Queued(r, at, n)
      BY <1>1, <1>2, <1>3, <1>4, <1>5, <1>8, <2>2, StaleIsSpare
    <2>4. View(r, at, n) = v
      BY <1>7, <2>2 DEF View
    <2>5. r \in HeapType(N, C) /\ Standing(r.alive, at, n, N) /\ r.failed = FALSE
      BY <1>3, <1>7, <2>2
    <2> HIDE DEF rest, v
    <2>6. InStep(t, r, at, n)
      BY <1>4, <2>3, <2>4, <2>5 DEF InStep, s, N
    <2>7. HeapInv(t, r)
      BY <1>3, <2>5, <2>6 DEF HeapInv, N, C
    <2> HIDE DEF z
    <2> QED
      BY <2>1, <2>2, <2>7 DEF z
  <1>9. CASE Applies(m, e)
    <2>1. PICK k \in 1 .. n - 1 : /\ at[k] = e[2] /\ After(m, e[2]) = at[k + 1]
                                  /\ k \in Pairs(v) /\ BestPair(v) = k
      <3>1. PICK f : f = e
        OBVIOUS
      <3>2. f = Lowest(m.queue) /\ Applies(m, f)
        BY <1>9, <3>1 DEF e
      <3>3. PicksBest(m, at, n, f)
        BY <1>1, <1>2, <1>3, <1>4, <3>2, AppliesToBest
      <3> QED
        BY <3>1, <3>3 DEF PicksBest
    <2> DEFINE p == e[2]
               next == at[k + 1]
               joined == m.symbols[p] \o m.symbols[next]
               g == RoundsOf(s)[N - n]
    <2>2. k \in 1 .. n /\ k + 1 \in 1 .. n /\ n - 1 \in 0 .. N /\ n - 1 > 0 /\ N - (n - 1) = N - n + 1
          /\ N - n + 1 \in 1 .. N /\ (N - n + 1) - 1 = N - n
      BY <1>1, <1>3, <2>1
    <2>3. RoundsOf(s)[N - n + 1] = JoinBest(g)
      BY <1>1, <2>2, Rounds
    <2>4. v \in [1 .. n -> Seq(C)] /\ v \in Seq(Seq(C)) /\ Len(v) = n /\ \A i \in 1 .. n : v[i] = m.symbols[at[i]]
      <3>1. \A i \in 1 .. n : m.symbols[at[i]] \in Seq(C)
        BY <1>2, <1>3 DEF HeapType
      <3>2. v \in [1 .. n -> Seq(C)] /\ \A i \in 1 .. n : v[i] = m.symbols[at[i]]
        BY <3>1 DEF View
      <3> HIDE DEF v
      <3> QED
        BY <1>6, <3>2
    <2> HIDE DEF v
    <2>5. joined = v[k] \o v[k + 1]
      BY <2>1, <2>2, <2>4
    <2> DEFINE spliced == SubSeq(v, 1, k - 1) \o <<joined>> \o SubSeq(v, k + 2, n)
    <2>6. JoinBest(g) = IF joined \notin Vocabulary THEN [symbols |-> v, failed |-> TRUE]
                        ELSE [symbols |-> spliced, failed |-> FALSE]
      <3>1. g = [symbols |-> v, failed |-> FALSE]
        BY <1>4
      <3> HIDE DEF g, joined
      <3>2. g.symbols = v /\ g.failed = FALSE /\ Pairs(g.symbols) # {}
        BY <2>1, <3>1
      <3>3. JoinBest(g) = IF joined \notin Vocabulary THEN [g EXCEPT !.failed = TRUE]
                          ELSE [g EXCEPT !.symbols = spliced]
        BY <2>1, <2>4, <2>5, <3>2 DEF JoinBest
      <3> HIDE DEF spliced
      <3> QED
        BY <3>1, <3>3
    <2>7. MergeAt(rest, p) = IF joined \notin Vocabulary THEN [rest EXCEPT !.failed = TRUE]
                             ELSE Requeued(Joint(rest, p, next), p, next)
      <3>1. After(rest, p) = next
        BY <1>7, <2>1 DEF After
      <3> HIDE DEF rest
      <3>2. joined = rest.symbols[p] \o rest.symbols[next]
        BY <1>7
      <3> HIDE DEF p, next, joined
      <3> QED
        BY <3>1, <3>2 DEF MergeAt, Requeued, Joint
    <2>8. z = MergeAt(rest, p)
      BY <1>9 DEF Popped, e
    <2>9. CASE joined \notin Vocabulary
      <3>1. PICK r : r = [rest EXCEPT !.failed = TRUE]
        OBVIOUS
      <3>2. z = r
        BY <2>7, <2>8, <2>9, <3>1
      <3>3. r \in HeapType(N, C) /\ r.alive = m.alive /\ r.failed = TRUE
        <4> HIDE DEF rest
        <4> QED
          BY <1>7, <3>1 DEF HeapType
      <3>4. RoundsOf(s)[N - n + 1].failed
        BY <2>3, <2>6, <2>9
      <3>5. InStep(t, r, at, n)
        BY <1>1, <1>3, <2>2, <3>3, <3>4 DEF InStep, s, N
      <3>6. HeapInv(t, r)
        BY <1>3, <3>3, <3>5 DEF HeapInv, N, C
      <3> HIDE DEF z
      <3> QED
        BY <3>2, <3>6 DEF z
    <2>10. CASE joined \in Vocabulary
      <3>1. PICK r, x, y, w, u : /\ x = rest /\ y = p /\ w = next /\ u = e
                                 /\ r = Requeued(Joint(x, y, w), y, w)
        OBVIOUS
      <3>2. z = r
        BY <2>7, <2>8, <2>10, <3>1
      <3> DEFINE c == Closed(at, n, k)
      <3>3. x = [m EXCEPT !.queue = @ \ {u}] /\ u[2] = at[k] /\ y = at[k] /\ w = at[k + 1]
        BY <2>1, <3>1
      <3>4. Requeues(m, r, at, c, n, k, N, C)
        BY <1>1, <1>2, <1>3, <1>4, <3>1, <3>3, JoinRequeues
      <3>5. spliced = View(r, c, n - 1)
        <4>1. joined \in Seq(C)
          BY <2>2, <2>4, <2>5, Concatenation
        <4> HIDE DEF joined, c
        <4>2. k \in 1 .. Len(v) - 1
          BY <2>1, <2>4
        <4>3. spliced = Shorter(v, n, k, joined)
          BY <2>4, <4>1, <4>2, Spliced
        <4> HIDE DEF spliced
        <4> QED
          BY <2>5, <3>4, <4>3 DEF v, Requeues
      <3>6. RoundsOf(s)[N - (n - 1)] = [symbols |-> View(r, c, n - 1), failed |-> FALSE]
        <4> HIDE DEF spliced, joined, c
        <4> QED
          BY <2>2, <2>3, <2>6, <2>10, <3>5
      <3>7. InStep(t, r, c, n - 1)
        <4> HIDE DEF c
        <4> QED
          BY <1>2, <3>4, <3>6 DEF InStep, Requeues, s, N
      <3>8. c \in [1 .. n - 1 -> 1 .. N]
        BY <3>4 DEF Standing, Requeues
      <3>9. HeapInv(t, r)
        <4> HIDE DEF c
        <4> QED
          BY <2>2, <3>4, <3>7, <3>8 DEF HeapInv, Requeues, N, C
      <3> HIDE DEF z
      <3> QED
        BY <3>2, <3>9 DEF z
    <2> QED
      BY <2>9, <2>10
  <1> QED
    BY <1>8, <1>9

\* What is being merged is in step with the definition.
MergeInv == merge # Nothing => text \in Texts /\ HeapInv(text, merge)

LEMMA InitMergeInv == Init => MergeInv
  <1> SUFFICES ASSUME Init, merge # Nothing PROVE text \in Texts /\ HeapInv(text, merge)
    BY DEF MergeInv
  <1>1. text \in Texts /\ merge = Start(text)
    BY DEF Init
  <1>2. HeapInv(text, Start(text))
    BY <1>1, TextAssumption, StartInStep DEF IsSeq
  <1> QED
    BY <1>1, <1>2

LEMMA StepMergeInv == MergeInv /\ [Next]_vars => MergeInv'
  <1> SUFFICES ASSUME MergeInv, [Next]_vars PROVE MergeInv'
    OBVIOUS
  <1>1. CASE UNCHANGED <<text, merge>>
    BY <1>1 DEF MergeInv
  <1>2. CASE PopMerge
    <2>1. text \in Texts /\ HeapInv(text, merge) /\ ~Finished(merge)
      BY <1>2 DEF PopMerge, MergeInv
    <2>2. HeapInv(text, Popped(merge))
      BY <2>1, TextAssumption, PopStaysInStep DEF IsSeq
    <2> QED
      BY <1>2, <2>1, <2>2 DEF PopMerge, MergeInv
  <1>3. CASE UNCHANGED vars
    BY <1>3 DEF MergeInv, vars
  <1> QED
    BY <1>1, <1>2, <1>3 DEF Next, Step, Prepare, Enter, TurnedAway, Run, Panic, Answer, Rest

\* The tokenizer's heap, with all the stale entries it holds, gives for every
\* text, merge list and vocabulary the symbols of byte-pair encoding, and fails
\* for the same texts.
THEOREM HeapMergesGreedily == Spec => []HeapIsGreedy
  <1>1. Spec => []MergeInv
    BY InitMergeInv, StepMergeInv, PTL DEF Spec
  <1>2. MergeInv => HeapIsGreedy
    <2> SUFFICES ASSUME MergeInv, merge # Nothing, Finished(merge)
                 PROVE  LET g == Greedy(Characters(text))
                            unknown == g.failed \/ \E i \in DOMAIN g.symbols : g.symbols[i] \notin Vocabulary
                        IN  Unknown(merge) = unknown /\ (~unknown => Live(merge) = g.symbols)
      BY DEF HeapIsGreedy, Characters
    <2>1. text \in Texts /\ HeapInv(text, merge)
      BY DEF MergeInv
    <2>2. PICK t, m : t = text /\ m = merge
      OBVIOUS
    <2>3. LET g == Greedy(Characters(t))
              unknown == g.failed \/ \E i \in DOMAIN g.symbols : g.symbols[i] \notin Vocabulary
          IN  Unknown(m) = unknown /\ (~unknown => Live(m) = g.symbols)
      BY <2>1, <2>2, TextAssumption, FinishedIsGreedy DEF IsSeq
    <2> QED
      BY <2>2, <2>3
  <1> QED
    BY <1>1, <1>2, PTL

-----------------------------------------------------------------------------
(* The calls.                                                              *)

\* How far a call is, and where what it holds and says comes from.
SessionCall(k) ==
    /\ k.job \in UNION Batches
    /\ k.at \in {"new", "waiting", "inside", "panicked", "done"}
    /\ k.at \in {"waiting", "inside"} =>
          Prepared[k.job].ok /\ ~Vacuous(k.job) /\ k.prepared = Prepared[k.job].value
    /\ k.at = "done" /\ k.reply.ok =>
          /\ Prepared[k.job].ok
          /\ \/ Vacuous(k.job) /\ k.reply = Prepared[k.job]
             \/ /\ ~Vacuous(k.job) /\ k.prepared = Prepared[k.job].value
                /\ \E o \in Outcomes : k.reply = Result[k.job][o]
AskedCall(k) ==
    /\ k.job.kind = "ask" /\ k.job.ask \in Asks /\ k.at \in {"new", "done"}
    /\ k.at = "done" => k.reply = Answered(k.job.ask)
NoCallAt(k) == k.job.kind = "none" /\ k.at = "done" /\ k.reply.ok = FALSE

CallsInv ==
    /\ DOMAIN calls = Callers
    /\ \A c \in Callers :
          /\ DOMAIN calls[c] = {"job", "at", "prepared", "reply"}
          /\ SessionCall(calls[c]) \/ AskedCall(calls[c]) \/ NoCallAt(calls[c])

LEMMA InitCallsInv == Init => CallsInv
  <1> SUFFICES ASSUME Init PROVE CallsInv
    OBVIOUS
  <1>1. ASSUME NEW job PROVE /\ Call(job).job = job /\ Call(job).at = "new" /\ Call(job).reply = Pending
                            /\ DOMAIN Call(job) = {"job", "at", "prepared", "reply"}
    BY DEF Call
  <1>2. NoCall = [job |-> [kind |-> "none"], at |-> "done", prepared |-> Nothing, reply |-> Pending]
    BY DEF NoCall, Call
  <1>3. /\ NoCall.job.kind = "none" /\ NoCall.at = "done" /\ NoCall.reply.ok = FALSE
        /\ DOMAIN NoCall = {"job", "at", "prepared", "reply"}
    BY <1>2 DEF Pending
  <1>4. NoCallAt(NoCall)
    BY <1>3 DEF NoCallAt
  <1>5. ASSUME NEW b \in Batches, calls \in [Callers -> {Call(j) : j \in b}] PROVE CallsInv
    <2> SUFFICES ASSUME NEW c \in Callers
                 PROVE  /\ DOMAIN calls[c] = {"job", "at", "prepared", "reply"}
                        /\ SessionCall(calls[c])
      BY <1>5 DEF CallsInv
    <2>1. PICK j \in b : calls[c] = Call(j)
      BY <1>5
    <2>2. j \in UNION Batches
      BY <2>1
    <2> QED
      BY <1>1, <2>1, <2>2 DEF SessionCall
  <1>6. ASSUME NEW a \in Asks, NEW one \in Callers,
               calls = [c \in Callers |-> IF c = one THEN Call([kind |-> "ask", ask |-> a]) ELSE NoCall]
        PROVE  CallsInv
    <2> SUFFICES ASSUME NEW c \in Callers
                 PROVE  /\ DOMAIN calls[c] = {"job", "at", "prepared", "reply"}
                        /\ AskedCall(calls[c]) \/ NoCallAt(calls[c])
      BY <1>6 DEF CallsInv
    <2>1. CASE c = one
      <3> DEFINE j == [kind |-> "ask", ask |-> a]
      <3>1. calls[c] = Call(j) /\ j.kind = "ask" /\ j.ask = a
        BY <1>6, <2>1
      <3> HIDE DEF j
      <3> QED
        BY <1>1, <3>1 DEF AskedCall
    <2>2. CASE c # one
      BY <1>3, <1>4, <1>6, <2>2
    <2> QED
      BY <2>1, <2>2
  <1>7. ASSUME calls = [c \in Callers |-> NoCall] PROVE CallsInv
    BY <1>3, <1>4, <1>7 DEF CallsInv
  <1> QED
    BY <1>5, <1>6, <1>7 DEF Init

\* A reply to a call, and a call that goes on.
LEMMA ReplyIs ==
  ASSUME NEW c \in Callers, CallsInv, NEW r, Reply(c, r)
  PROVE  /\ calls'[c].job = calls[c].job /\ calls'[c].at = "done" /\ calls'[c].prepared = calls[c].prepared
         /\ calls'[c].reply = r /\ DOMAIN calls'[c] = {"job", "at", "prepared", "reply"}
         /\ DOMAIN calls' = Callers /\ \A d \in Callers : d # c => calls'[d] = calls[d]
  BY DEF Reply, CallsInv

LEMMA MoveIs ==
  ASSUME NEW c \in Callers, CallsInv, NEW at, Move(c, at)
  PROVE  /\ calls'[c].job = calls[c].job /\ calls'[c].at = at /\ calls'[c].prepared = calls[c].prepared
         /\ calls'[c].reply = calls[c].reply /\ DOMAIN calls'[c] = {"job", "at", "prepared", "reply"}
         /\ DOMAIN calls' = Callers /\ \A d \in Callers : d # c => calls'[d] = calls[d]
  BY DEF Move, CallsInv

\* What a call of the session rungs is not.
LEMMA OneKind ==
  ASSUME NEW c \in Callers, CallsInv
  PROVE  /\ calls[c].job.kind = "ask" => AskedCall(calls[c])
         /\ calls[c].at \in {"waiting", "inside"} => SessionCall(calls[c])
         /\ calls[c].at = "new" /\ calls[c].job.kind # "ask" => SessionCall(calls[c])
  <1>1. SessionCall(calls[c]) => calls[c].job.kind # "ask"
    BY JobAssumption DEF SessionCall
  <1> QED
    BY <1>1 DEF CallsInv, AskedCall, NoCallAt

LEMMA StepCallsInv == CallsInv /\ [Next]_vars => CallsInv'
  <1> SUFFICES ASSUME CallsInv, [Next]_vars PROVE CallsInv'
    OBVIOUS
  <1>1. ASSUME NEW c \in Callers, DOMAIN calls' = Callers, DOMAIN calls'[c] = {"job", "at", "prepared", "reply"},
               \A d \in Callers : d # c => calls'[d] = calls[d],
               SessionCall(calls'[c]) \/ AskedCall(calls'[c])
        PROVE  CallsInv'
    BY <1>1 DEF CallsInv, SessionCall, AskedCall, NoCallAt
  <1>2. ASSUME NEW c \in Callers, Prepare(c) PROVE CallsInv'
    <2>1. SessionCall(calls[c]) /\ calls[c].at = "new"
      BY <1>2, OneKind DEF Prepare
    <2> DEFINE job == calls[c].job
    <2>2. CASE Prepared[job].ok /\ ~Vacuous(job)
      <3>1. calls' = [calls EXCEPT ![c].at = "waiting", ![c].prepared = Prepared[job].value]
        BY <1>2, <2>2 DEF Prepare
      <3>2. /\ calls'[c].job = job /\ calls'[c].at = "waiting" /\ calls'[c].prepared = Prepared[job].value
            /\ DOMAIN calls'[c] = {"job", "at", "prepared", "reply"}
            /\ DOMAIN calls' = Callers /\ \A d \in Callers : d # c => calls'[d] = calls[d]
        BY <3>1 DEF CallsInv
      <3>3. SessionCall(calls'[c])
        BY <2>1, <2>2, <3>2 DEF SessionCall
      <3> QED
        BY <1>1, <3>2, <3>3
    <2>3. CASE ~(Prepared[job].ok /\ ~Vacuous(job))
      <3>1. Reply(c, Prepared[job])
        BY <1>2, <2>3 DEF Prepare
      <3>2. SessionCall(calls'[c])
        BY <2>1, <2>3, <3>1, ReplyIs DEF SessionCall
      <3> QED
        BY <1>1, <3>1, <3>2, ReplyIs
    <2> QED
      BY <2>2, <2>3
  <1>3. ASSUME NEW c \in Callers, Enter(c) \/ Panic(c) PROVE CallsInv'
    <2>1. SessionCall(calls[c]) /\ calls[c].at \in {"waiting", "inside"}
      BY <1>3, OneKind DEF Enter, Panic
    <2>2. Move(c, "inside") \/ Move(c, "panicked")
      BY <1>3 DEF Enter, Panic
    <2>3. SessionCall(calls'[c])
      BY <2>1, <2>2, MoveIs DEF SessionCall
    <2> QED
      BY <1>1, <2>2, <2>3, MoveIs
  <1>4. ASSUME NEW c \in Callers, TurnedAway(c) PROVE CallsInv'
    <2>1. SessionCall(calls[c]) /\ Reply(c, Err("poisoned"))
      BY <1>4, OneKind DEF TurnedAway
    <2>2. SessionCall(calls'[c])
      BY <2>1, ReplyIs DEF SessionCall, Err
    <2> QED
      BY <1>1, <2>1, <2>2, ReplyIs
  <1>5. ASSUME NEW c \in Callers, Run(c) PROVE CallsInv'
    <2>1. SessionCall(calls[c]) /\ calls[c].at = "inside"
      BY <1>5, OneKind DEF Run
    <2>2. PICK o \in Outcomes : Reply(c, Result[calls[c].job][o])
      BY <1>5 DEF Run
    <2>3. SessionCall(calls'[c])
      BY <2>1, <2>2, ReplyIs DEF SessionCall
    <2> QED
      BY <1>1, <2>2, <2>3, ReplyIs
  <1>6. ASSUME NEW c \in Callers, Answer(c) PROVE CallsInv'
    <2>1. AskedCall(calls[c]) /\ Reply(c, Answered(calls[c].job.ask))
      BY <1>6, OneKind DEF Answer
    <2>2. AskedCall(calls'[c])
      BY <2>1, ReplyIs DEF AskedCall
    <2> QED
      BY <1>1, <2>1, <2>2, ReplyIs
  <1>7. CASE UNCHANGED calls
    BY <1>7 DEF CallsInv, SessionCall, AskedCall, NoCallAt
  <1> QED
    BY <1>2, <1>3, <1>4, <1>5, <1>6, <1>7 DEF Next, Step, PopMerge, vars

LEMMA CallsInvariant == Spec => []CallsInv
  BY InitCallsInv, StepCallsInv, PTL DEF Spec

-----------------------------------------------------------------------------
(* The rungs without a session.                                            *)

\* A good answer is that of a question that was asked.
LEMMA GoodAnswer ==
  ASSUME CallsInv, NEW c \in Callers, Good(c), Job(c).kind = "ask"
  PROVE  Job(c).ask \in Asks /\ calls[c].reply = Answered(Job(c).ask)
  BY OneKind DEF Good, Job, AskedCall

LEMMA GreaterIs ==
  ASSUME NEW a \in Int, NEW b \in Int
  PROVE  /\ Max({a, b}) = IF a >= b THEN a ELSE b
         /\ Min({a, b}) = IF a <= b THEN a ELSE b
  BY DEF Max, Min

\* What divides is at most what it goes into.
LEMMA QuotientAtLeast ==
  ASSUME NEW n \in Nat, NEW m \in Nat, m > 0, NEW k \in Nat, n >= k * m
  PROVE  n \div m \in Nat /\ n \div m >= k
  <1> DEFINE q == n \div m
  <1>1. q \in Nat /\ n < (q + 1) * m
    OBVIOUS
  <1> HIDE DEF q
  <1>2. SUFFICES ASSUME q + 1 <= k PROVE FALSE
    BY <1>1 DEF q
  <1>3. (q + 1) * m <= k * m
    BY <1>1, <1>2
  <1>4. (q + 1) * m \in Nat /\ k * m \in Nat
    BY <1>1
  <1> QED
    BY <1>1, <1>3, <1>4

LEMMA ScaledCovers ==
  ASSUME NEW longer \in Nat, NEW shorter \in Nat, NEW side \in Nat, longer >= shorter,
         Scaled(longer, shorter, side).ok
  PROVE  Scaled(longer, shorter, side).value \in Nat /\ Scaled(longer, shorter, side).value >= side
  <1>1. shorter > 0 /\ Scaled(longer, shorter, side).value = (longer * side + shorter \div 2) \div shorter
    BY DEF Scaled, Ok, Err
  <1> DEFINE n == longer * side + shorter \div 2
  <1>2. longer * side \in Nat /\ shorter \div 2 \in Nat /\ side * shorter \in Nat
    OBVIOUS
  <1>3. longer * side >= side * shorter
    OBVIOUS
  <1>4. n \in Nat /\ n >= side * shorter
    BY <1>2, <1>3
  <1> HIDE DEF n
  <1>5. n \div shorter \in Nat /\ n \div shorter >= side
    BY <1>1, <1>4, QuotientAtLeast
  <1> QED
    BY <1>1, <1>5 DEF n

LEMMA MiddleIsCentred ==
  ASSUME NEW edge \in Nat, NEW side \in Nat, edge >= side
  PROVE  edge - ((Max({edge - side, 0}) \div 2) + side) - (Max({edge - side, 0}) \div 2) \in {0, 1}
  <1> DEFINE d == edge - side
  <1>1. d \in Nat
    OBVIOUS
  <1> HIDE DEF d
  <1>2. Max({d, 0}) = d
    BY <1>1, GreaterIs
  <1>3. d - (d \div 2) - (d \div 2) \in {0, 1} /\ d \div 2 \in Nat
    BY <1>1
  <1> DEFINE h == d \div 2
  <1> HIDE DEF h
  <1>4. edge - (h + side) - h = d - h - h /\ h \in Nat
    BY <1>1, <1>3 DEF d, h
  <1> QED
    BY <1>2, <1>3, <1>4 DEF d, h

LEMMA WindowCentred ==
  ASSUME NEW width \in Nat, NEW height \in Nat, NEW side \in Nat, NEW r, r = Window(width, height, side), r.ok
  PROVE  LET centred(at, edge) == edge - (at + side) - at \in {0, 1}
         IN  centred(r.value.x, r.value.width) /\ centred(r.value.y, r.value.height)
  <1> DEFINE long == IF width <= height THEN Scaled(height, width, side) ELSE Scaled(width, height, side)
             w == IF width <= height THEN side ELSE long.value
             h == IF width <= height THEN long.value ELSE side
             middle(edge) == Max({edge - side, 0}) \div 2
  <1>1. r = IF ~long.ok THEN long
            ELSE IF w > MaxEdge \/ h > MaxEdge THEN Err("contract")
            ELSE Ok([width |-> w, height |-> h, x |-> middle(w), y |-> middle(h)])
    BY DEF Window
  <1>2. long.ok /\ r.value = [width |-> w, height |-> h, x |-> middle(w), y |-> middle(h)]
    <2> HIDE DEF long, w, h, middle
    <2> QED
      BY <1>1 DEF Ok, Err
  <1>3. long.value \in Nat /\ long.value >= side
    <2>1. CASE width <= height
      BY <1>2, <2>1, ScaledCovers
    <2>2. CASE ~(width <= height)
      BY <1>2, <2>2, ScaledCovers
    <2> QED
      BY <2>1, <2>2
  <1>4. w \in Nat /\ h \in Nat /\ w >= side /\ h >= side
    BY <1>3
  <1> HIDE DEF w, h, long
  <1>5. w - (middle(w) + side) - middle(w) \in {0, 1} /\ h - (middle(h) + side) - middle(h) \in {0, 1}
    BY <1>4, MiddleIsCentred
  <1> HIDE DEF middle
  <1> QED
    BY <1>2, <1>5

\* For every size of image the window lies inside it and in its middle.
THEOREM WindowAlwaysInside == Spec => []WindowInsideImage
  <1>1. CallsInv => WindowInsideImage
    <2> SUFFICES ASSUME CallsInv, NEW c \in Callers, Good(c), Job(c).kind = "ask", Job(c).ask.rung = "window"
                 PROVE  LET w == calls[c].reply.value
                            side == Job(c).ask.side
                            centred(at, edge) == edge - (at + side) - at \in {0, 1}
                        IN  centred(w.x, w.width) /\ centred(w.y, w.height)
      BY DEF WindowInsideImage
    <2>1. PICK ask \in Asks : ask = Job(c).ask /\ calls[c].reply = Answered(ask) /\ ask.rung = "window"
      BY GoodAnswer
    <2>2. PICK width \in Nat, height \in Nat, side \in Nat :
                width = ask.width /\ height = ask.height /\ side = ask.side
      BY <2>1, AskAssumption
    <2>3. PICK r : r = calls[c].reply /\ r = Window(width, height, side) /\ r.ok
      BY <2>1, <2>2 DEF Answered, Good
    <2>4. LET centred(at, edge) == edge - (at + side) - at \in {0, 1}
          IN  centred(r.value.x, r.value.width) /\ centred(r.value.y, r.value.height)
      BY <2>3, WindowCentred
    <2> QED
      BY <2>1, <2>2, <2>3, <2>4
  <1> QED
    BY <1>1, CallsInvariant, PTL

\* Sequences, whatever they are of.
LEMMA SequenceIs ==
  /\ \A s : IsSeq(s) => Len(s) \in Nat /\ DOMAIN s = 1 .. Len(s) /\ s = [i \in 1 .. Len(s) |-> s[i]]
  /\ \A s, n : n \in Nat /\ s = [i \in 1 .. n |-> s[i]] => IsSeq(s) /\ Len(s) = n /\ DOMAIN s = 1 .. n
  <1>1. ASSUME NEW s, IsSeq(s) PROVE Len(s) \in Nat /\ DOMAIN s = 1 .. Len(s) /\ s = [i \in 1 .. Len(s) |-> s[i]]
    <2> DEFINE X == ToSet(s)
    <2>1. s \in Seq(X)
      BY <1>1 DEF IsSeq
    <2> HIDE DEF X
    <2> QED
      BY <2>1
  <1>2. ASSUME NEW s, NEW n, n \in Nat, s = [i \in 1 .. n |-> s[i]]
        PROVE  IsSeq(s) /\ Len(s) = n /\ DOMAIN s = 1 .. n
    <2> DEFINE X == ToSet(s)
    <2>1. s \in [1 .. n -> X] /\ DOMAIN s = 1 .. n
      BY <1>2 DEF ToSet
    <2> HIDE DEF X
    <2>2. s \in Seq(X) /\ Len(s) = n
      BY <1>2, <2>1
    <2> QED
      BY <2>1, <2>2 DEF IsSeq, X
  <1> QED
    BY <1>1, <1>2

LEMMA CutIs ==
  ASSUME NEW s, IsSeq(s), NEW n \in Nat
  PROVE  /\ IsSeq(Cut(s, n)) /\ Len(Cut(s, n)) = IF Len(s) <= n THEN Len(s) ELSE n
         /\ \A i \in 1 .. Len(Cut(s, n)) : Cut(s, n)[i] = s[i]
         /\ n >= Len(s) => Cut(s, n) = s
         /\ Cut(s, n) = SubSeq(s, 1, IF Len(s) <= n THEN Len(s) ELSE n)
  <1> DEFINE k == IF Len(s) <= n THEN Len(s) ELSE n
             X == ToSet(s)
  <1>1. Len(s) \in Nat /\ k \in 0 .. Len(s) /\ k \in Nat
    BY SequenceIs
  <1>2. Cut(s, n) = SubSeq(s, 1, k)
    <2>1. Min({Len(s), n}) = k
      <3>1. PICK l \in Nat : l = Len(s)
        BY <1>1
      <3>2. Min({l, n}) = IF l <= n THEN l ELSE n
        BY GreaterIs
      <3> QED
        BY <3>1, <3>2
    <2> QED
      BY <2>1 DEF Cut
  <1>3. s \in Seq(X)
    BY DEF IsSeq
  <1> HIDE DEF X
  <1>4. Cut(s, n) = [i \in 1 .. k |-> s[i]]
    <2> HIDE DEF k
    <2> QED
      BY <1>1, <1>2, <1>3
  <1>5. Cut(s, n) = [i \in 1 .. k |-> Cut(s, n)[i]] /\ \A i \in 1 .. k : Cut(s, n)[i] = s[i]
    <2> HIDE DEF k
    <2> QED
      BY <1>4
  <1>6. IsSeq(Cut(s, n)) /\ Len(Cut(s, n)) = k
    <2> DEFINE z == Cut(s, n)
    <2> HIDE DEF k, z
    <2>1. IsSeq(z) /\ Len(z) = k
      BY <1>1, <1>5, SequenceIs DEF z
    <2> QED
      BY <2>1 DEF z
  <1>7. n >= Len(s) => Cut(s, n) = s
    <2> SUFFICES ASSUME n >= Len(s) PROVE Cut(s, n) = s
      OBVIOUS
    <2>1. k = Len(s)
      BY <1>1
    <2> QED
      BY <1>4, <2>1, SequenceIs
  <1> QED
    BY <1>2, <1>5, <1>6, <1>7

LEMMA KeysAre ==
  ASSUME NEW options, IsSeq(options)
  PROVE  /\ IsSeq(Keys(options)) /\ Len(Keys(options)) = Len(options) /\ Len(options) \in Nat
         /\ \A i \in 1 .. Len(options) : Keys(options)[i] = options[i].key
  <1>1. Len(options) \in Nat /\ DOMAIN options = 1 .. Len(options)
    BY SequenceIs
  <1>2. /\ Keys(options) = [i \in 1 .. Len(options) |-> Keys(options)[i]]
        /\ \A i \in 1 .. Len(options) : Keys(options)[i] = options[i].key
    BY <1>1 DEF Keys
  <1> DEFINE z == Keys(options)
             n == Len(options)
  <1> HIDE DEF z, n
  <1>3. IsSeq(z) /\ Len(z) = n
    BY <1>1, <1>2, SequenceIs DEF z, n
  <1> QED
    BY <1>1, <1>2, <1>3 DEF z, n

\* A distribution over all the scores there are keys for is over all the keys.
LEMMA OverAllKeys ==
  ASSUME NEW keys, IsSeq(keys), NEW n \in Nat, n >= Len(keys), OverKeys(keys, n).ok
  PROVE  OverKeys(keys, n).value = keys
  <1>1. OverKeys(keys, n) = Ok(Cut(keys, n))
    BY DEF OverKeys, Err
  <1>2. Cut(keys, n) = keys
    BY CutIs
  <1> QED
    BY <1>1, <1>2 DEF Ok

LEMMA AnswersAre ==
  ASSUME NEW d, DecisionFits(d)
  PROVE  IsSeq(AnswersOf(d)) /\ (d.kind # "boolean" => AnswersOf(d) = Keys(d.options))
  <1>1. IsSeq(<<"true", "false">>)
    <2> DEFINE s == <<"true", "false">>
    <2>1. s = [i \in 1 .. 2 |-> s[i]]
      OBVIOUS
    <2> HIDE DEF s
    <2>2. IsSeq(s)
      BY <2>1, SequenceIs
    <2> QED
      BY <2>2 DEF s
  <1>2. IsSeq(Keys(d.options))
    BY KeysAre DEF DecisionFits
  <1> QED
    BY <1>1, <1>2 DEF AnswersOf

\* A sequence up to its length is all of it.
LEMMA WholeSequence ==
  ASSUME NEW s, IsSeq(s)
  PROVE  SubSeq(s, 1, Len(s) - 0) = s
  <1>1. Len(s) \in Nat /\ Len(s) - 0 = Len(s)
    BY SequenceIs
  <1>2. Cut(s, Len(s)) = SubSeq(s, 1, Len(s)) /\ Cut(s, Len(s)) = s
    BY <1>1, CutIs
  <1> QED
    BY <1>1, <1>2

LEMMA VisionCovers ==
  ASSUME NEW d, DecisionFits(d), NEW images, NEW pooled, NEW returned \in Nat,
         VisionDecide(d, images, pooled, returned).ok
  PROVE  VisionDecide(d, images, pooled, returned).value = AnswersOf(d)
  <1>1. ImageEmbedding(images, pooled)
    BY DEF VisionDecide, Err
  <1>2. CASE d.kind = "boolean"
    <2>1. VisionDecide(d, images, pooled, returned) = VisionBoolean(d, returned)
      BY <1>1, <1>2 DEF VisionDecide
    <2> QED
      BY <1>2, <2>1 DEF VisionBoolean, AnswersOf, Ok, Err
  <1>3. CASE d.kind \in {"choice", "score"}
    <2>1. VisionDecide(d, images, pooled, returned) = VisionPrompts(d, returned)
      BY <1>1, <1>3 DEF VisionDecide, VisionChoice, VisionScore
    <2>2. returned >= Len(d.options) /\ VisionPrompts(d, returned) = OverKeys(Keys(d.options), returned)
      <3>1. Len(d.options) \in Nat
        BY KeysAre DEF DecisionFits
      <3> QED
        BY <2>1, <3>1 DEF VisionPrompts, Err
    <2>3. IsSeq(Keys(d.options)) /\ Len(Keys(d.options)) = Len(d.options)
      BY KeysAre DEF DecisionFits
    <2>4. OverKeys(Keys(d.options), returned).value = Keys(d.options)
      BY <2>1, <2>2, <2>3, OverAllKeys
    <2> QED
      BY <1>3, <2>1, <2>2, <2>4, AnswersAre
  <1> QED
    BY <1>2, <1>3 DEF DecisionFits

LEMMA CandidatesCover ==
  ASSUME NEW d, DecisionFits(d), NEW returned \in Nat, CandidateScores(d, returned).ok
  PROVE  CandidateScores(d, returned).value = AnswersOf(d)
  <1>1. returned = Len(AnswersOf(d)) /\ CandidateScores(d, returned) = OverKeys(AnswersOf(d), returned)
    BY DEF CandidateScores, Err
  <1>2. IsSeq(AnswersOf(d)) /\ returned >= Len(AnswersOf(d))
    BY <1>1, AnswersAre
  <1> QED
    BY <1>1, <1>2, OverAllKeys

\* What the embedding rung answers is short of the last answers by as many as it
\* was not given vectors for.
LEMMA EmbeddingCovers ==
  ASSUME NEW ask, ask.rung = "embedding", DecisionFits(ask.d), ask.returned \in Nat,
         EmbeddingDecide(ask.d, ask.returned).ok
  PROVE  EmbeddingDecide(ask.d, ask.returned).value
            = SubSeq(AnswersOf(ask.d), 1, Len(AnswersOf(ask.d)) - Shortfall(ask))
  <1>0. PICK d : d = ask.d /\ DecisionFits(d)
    OBVIOUS
  <1>r. PICK r \in Nat : r = ask.returned
    OBVIOUS
  <1>1. CASE d.kind = "boolean"
    <2>1. EmbeddingDecide(d, r) = EmbeddingBoolean(d, r)
      BY <1>1 DEF EmbeddingDecide
    <2>2. r >= 2 /\ EmbeddingDecide(d, r).value = AnswersOf(d)
      BY <1>0, <1>r, <1>1, <2>1 DEF EmbeddingBoolean, AnswersOf, Ok, Err
    <2>3. Shortfall(ask) = 0
      <3>1. 2 - r \in Int /\ 2 - r <= 0
        BY <2>2
      <3> QED
        BY <1>0, <1>r, <1>1, <3>1, GreaterIs DEF Shortfall, EmbeddingAsked
    <2> QED
      BY <1>0, <1>r, <2>2, <2>3, AnswersAre, WholeSequence
  <1>2. CASE d.kind \in {"choice", "score"}
    <2> DEFINE keys == Keys(d.options)
    <2>1. IsSeq(keys) /\ AnswersOf(d) = keys
      BY <1>0, <1>r, <1>2, AnswersAre, KeysAre DEF DecisionFits
    <2> HIDE DEF keys
    <2>2. PICK n \in Nat : n = Len(keys)
      BY <2>1, SequenceIs
    <2>3. r # 0 /\ EmbeddingDecide(d, r) = OverKeys(keys, r - 1)
      BY <1>0, <1>r, <1>2 DEF EmbeddingDecide, EmbeddingChoice, EmbeddingScore, Err, keys
    <2>4. PICK k \in Nat : k = r - 1
      BY <2>3
    <2>5. k <= n /\ OverKeys(keys, k) = Ok(Cut(keys, k))
      BY <1>0, <1>r, <2>2, <2>3, <2>4 DEF OverKeys, Err
    <2>6. Cut(keys, k) = SubSeq(keys, 1, k)
      <3>1. Cut(keys, k) = SubSeq(keys, 1, IF n <= k THEN n ELSE k)
        BY <2>1, <2>2, CutIs
      <3>2. (IF n <= k THEN n ELSE k) = k
        BY <2>5
      <3> QED
        BY <3>1, <3>2
    <2>7. Shortfall(ask) = n - k
      <3>1. EmbeddingAsked(ask.d) - ask.returned = n - k
        BY <1>0, <1>r, <1>2, <2>1, <2>2, <2>4 DEF EmbeddingAsked
      <3>2. n - k \in Int /\ n - k >= 0
        BY <2>5
      <3> QED
        BY <3>1, <3>2, GreaterIs DEF Shortfall
    <2>8. n - (n - k) = k
      OBVIOUS
    <2> QED
      BY <1>0, <1>r, <2>1, <2>2, <2>3, <2>4, <2>5, <2>6, <2>7, <2>8 DEF Ok
  <1> QED
    BY <1>0, <1>r, <1>1, <1>2 DEF DecisionFits

LEMMA LlamaCovers ==
  ASSUME NEW d, DecisionFits(d), NEW response, LlamaDecide(d, response).ok
  PROVE  LlamaDecide(d, response).value = AnswersOf(d)
  <1> DEFINE keys == AnswersOf(d)
             pairs == LlamaPairs(d, response)
  <1>1. keys = [i \in 1 .. Len(keys) |-> keys[i]] /\ DOMAIN keys = 1 .. Len(keys)
    BY AnswersAre, SequenceIs
  <1>2. pairs.ok
    BY DEF LlamaDecide
  <1>3. LlamaDecide(d, response).value = [i \in DOMAIN pairs.value |-> pairs.value[i].key]
    BY <1>2 DEF LlamaDecide, Ok, Err
  <1>4. pairs = Ok([i \in DOMAIN keys |-> [key |-> keys[i],
                         mass |-> PostJson(response).value.distribution[keys[i]]]])
    BY <1>2 DEF LlamaPairs, Err
  <1>5. DOMAIN pairs.value = DOMAIN keys /\ \A i \in DOMAIN keys : pairs.value[i].key = keys[i]
    BY <1>4 DEF Ok
  <1> HIDE DEF keys, pairs
  <1> QED
    BY <1>1, <1>3, <1>5 DEF keys

\* Whatever number of vectors or scores comes back, a decision is over exactly the
\* answers of its question, but at the embedding rung, which leaves out the last
\* answers that it was given no vector for.
THEOREM AnswersDroppedOnlyByEmbedding == Spec => []OnlyEmbeddingDropsAnswers
  <1>1. CallsInv => OnlyEmbeddingDropsAnswers
    <2> SUFFICES ASSUME CallsInv, NEW c \in Callers, Good(c), Job(c).kind = "ask",
                        Job(c).ask.rung \in {"embedding", "vision", "candidates", "llama"}
                 PROVE  calls[c].reply.value
                           = SubSeq(AnswersOf(Job(c).ask.d), 1,
                                    Len(AnswersOf(Job(c).ask.d)) - Shortfall(Job(c).ask))
      BY DEF OnlyEmbeddingDropsAnswers
    <2>1. PICK ask \in Asks : /\ ask = Job(c).ask /\ calls[c].reply = Answered(ask)
      BY GoodAnswer
    <2>2. Answered(ask).ok /\ ask.rung \in {"embedding", "vision", "candidates", "llama"}
      BY <2>1 DEF Good
    <2>3. PICK d : d = ask.d /\ DecisionFits(d)
      BY <2>2, AskAssumption
    <2>4. CASE ask.rung = "embedding"
      <3>1. ask.returned \in Nat /\ Answered(ask) = EmbeddingDecide(ask.d, ask.returned)
        BY <2>4, AskAssumption DEF Answered
      <3> QED
        BY <2>1, <2>2, <2>3, <2>4, <3>1, EmbeddingCovers
    <2>5. CASE ask.rung # "embedding"
      <3>1. Shortfall(ask) = 0
        BY <2>5 DEF Shortfall
      <3>2. SubSeq(AnswersOf(d), 1, Len(AnswersOf(d)) - 0) = AnswersOf(d)
        BY <2>3, AnswersAre, WholeSequence
      <3>3. CASE ask.rung = "vision"
        <4>1. ask.returned \in Nat /\ Answered(ask) = VisionDecide(d, ask.images, ask.pooled, ask.returned)
          BY <2>3, <3>3, AskAssumption DEF Answered
        <4> QED
          BY <2>1, <2>2, <2>3, <3>1, <3>2, <4>1, VisionCovers
      <3>4. CASE ask.rung = "candidates"
        <4>1. ask.returned \in Nat /\ Answered(ask) = CandidateScores(d, ask.returned)
          BY <2>3, <3>4, AskAssumption DEF Answered
        <4> QED
          BY <2>1, <2>2, <2>3, <3>1, <3>2, <4>1, CandidatesCover
      <3>5. CASE ask.rung = "llama"
        <4>1. Answered(ask) = LlamaDecide(d, ask.response)
          BY <2>3, <3>5 DEF Answered
        <4> QED
          BY <2>1, <2>2, <2>3, <3>1, <3>2, <4>1, LlamaCovers
      <3> QED
        BY <2>2, <2>5, <3>3, <3>4, <3>5
    <2> QED
      BY <2>4, <2>5
  <1> QED
    BY <1>1, CallsInvariant, PTL

-----------------------------------------------------------------------------
(* Sequences put together and taken apart.                                 *)

LEMMA SameSequence ==
  ASSUME NEW a, NEW b, IsSeq(a), IsSeq(b), Len(a) = Len(b), \A i \in 1 .. Len(a) : a[i] = b[i]
  PROVE  a = b
  BY SequenceIs

LEMMA ConcatIs ==
  ASSUME NEW a, NEW b, IsSeq(a), IsSeq(b)
  PROVE  /\ IsSeq(a \o b) /\ Len(a \o b) = Len(a) + Len(b)
         /\ \A i \in 1 .. Len(a) : (a \o b)[i] = a[i]
         /\ \A i \in 1 .. Len(b) : (a \o b)[Len(a) + i] = b[i]
  <1> DEFINE X == ToSet(a) \cup ToSet(b)
             z == a \o b
  <1>1. Len(a) \in Nat /\ Len(b) \in Nat /\ DOMAIN a = 1 .. Len(a) /\ DOMAIN b = 1 .. Len(b)
        /\ a = [i \in 1 .. Len(a) |-> a[i]] /\ b = [i \in 1 .. Len(b) |-> b[i]]
    BY SequenceIs
  <1>2. a \in Seq(X) /\ b \in Seq(X)
    <2>1. a \in Seq(ToSet(a)) /\ b \in Seq(ToSet(b)) /\ ToSet(a) \subseteq X /\ ToSet(b) \subseteq X
      BY DEF IsSeq
    <2> HIDE DEF X
    <2>2. \A i \in 1 .. Len(a) : a[i] \in X
      BY <1>1, <2>1
    <2>3. \A i \in 1 .. Len(b) : b[i] \in X
      BY <1>1, <2>1
    <2>4. a \in [1 .. Len(a) -> X] /\ b \in [1 .. Len(b) -> X]
      BY <1>1, <2>2, <2>3
    <2> QED
      BY <1>1, <2>4
  <1> HIDE DEF X
  <1>3. z \in Seq(X) /\ Len(z) = Len(a) + Len(b)
        /\ \A i \in 1 .. Len(a) + Len(b) : z[i] = IF i <= Len(a) THEN a[i] ELSE b[i - Len(a)]
    BY <1>2, Concatenation
  <1> HIDE DEF z
  <1>4. z = [i \in 1 .. Len(z) |-> z[i]] /\ Len(z) \in Nat
    BY <1>3
  <1>5. IsSeq(z)
    BY <1>4, SequenceIs
  <1>6. \A i \in 1 .. Len(a) : z[i] = a[i]
    BY <1>1, <1>3
  <1>7. ASSUME NEW i \in 1 .. Len(b) PROVE z[Len(a) + i] = b[i]
    <2>1. Len(a) + i \in 1 .. Len(a) + Len(b) /\ ~(Len(a) + i <= Len(a)) /\ (Len(a) + i) - Len(a) = i
      BY <1>1
    <2> QED
      BY <1>3, <2>1
  <1> QED
    BY <1>3, <1>5, <1>6, <1>7 DEF z

LEMMA SubSeqIs ==
  ASSUME NEW s, IsSeq(s), NEW m \in 1 .. Len(s) + 1, NEW n \in 0 .. Len(s), m <= n + 1
  PROVE  /\ IsSeq(SubSeq(s, m, n)) /\ Len(SubSeq(s, m, n)) = n - m + 1
         /\ \A i \in 1 .. n - m + 1 : SubSeq(s, m, n)[i] = s[m + i - 1]
  <1> DEFINE X == ToSet(s)
             z == SubSeq(s, m, n)
  <1>1. s \in Seq(X) /\ Len(s) \in Nat
    BY SequenceIs DEF IsSeq
  <1> HIDE DEF X
  <1>2. z = [i \in 1 .. n - m + 1 |-> s[m + i - 1]]
    BY <1>1
  <1>3. n - m + 1 \in Nat /\ z = [i \in 1 .. n - m + 1 |-> z[i]] /\ \A i \in 1 .. n - m + 1 : z[i] = s[m + i - 1]
    BY <1>1, <1>2
  <1> HIDE DEF z
  <1>4. PICK k \in Nat : k = n - m + 1
    BY <1>3
  <1>5. IsSeq(z) /\ Len(z) = k
    BY <1>3, <1>4, SequenceIs
  <1> QED
    BY <1>3, <1>4, <1>5 DEF z

LEMMA SingleIs ==
  ASSUME NEW x
  PROVE  IsSeq(<<x>>) /\ Len(<<x>>) = 1 /\ <<x>>[1] = x
  <1>1. <<x>> \in Seq({x}) /\ ToSet(<<x>>) = {x}
    BY DEF ToSet
  <1> QED
    BY <1>1 DEF IsSeq

\* Rows put one after the other.
Rows(r, n) == n \in Nat /\ DOMAIN r = 1 .. n /\ \A i \in 1 .. n : IsSeq(r[i])
FirstOf(r, n) == [i \in 1 .. n |-> r[i]]

FlatFrom(g, r, n) ==
    /\ g[0] = <<>> /\ \A i \in 1 .. n : g[i] = g[i - 1] \o r[i]
    /\ \A i \in 0 .. n : IsSeq(g[i]) /\ g[i] = FlattenSeq(FirstOf(r, i))

LEMMA NothingIs == IsSeq(<<>>) /\ Len(<<>>) = 0
  BY DEF IsSeq

LEMMA NothingBefore ==
  ASSUME NEW s, IsSeq(s)
  PROVE  <<>> \o s = s
  <1>1. /\ IsSeq(<<>> \o s) /\ Len(<<>> \o s) = 0 + Len(s)
        /\ \A i \in 1 .. Len(s) : (<<>> \o s)[0 + i] = s[i]
    BY NothingIs, ConcatIs
  <1> DEFINE z == <<>> \o s
  <1> HIDE DEF z
  <1>2. IsSeq(z) /\ Len(z) = Len(s) /\ \A i \in 1 .. Len(s) : z[i] = s[i]
    BY <1>1, SequenceIs DEF z
  <1>3. z = s
    BY <1>2, SameSequence
  <1> QED
    BY <1>3 DEF z

\* Rows put one after the other, row by row.
LEMMA FlatIs ==
  ASSUME NEW n \in Nat, NEW r, Rows(r, n)
  PROVE  \E g : FlatFrom(g, r, n)
  <1> DEFINE X == UNION {ToSet(r[i]) : i \in 1 .. n}
             V == Seq(X)
             b == <<>>
             next == [i \in 1 .. n |-> [v \in V |-> v \o r[i]]]
  <1>1. \A i \in 1 .. n : r[i] \in V
    <2> SUFFICES ASSUME NEW i \in 1 .. n PROVE r[i] \in V
      OBVIOUS
    <2>1. IsSeq(r[i]) /\ ToSet(r[i]) \subseteq X
      BY DEF Rows
    <2>2. PICK s, Y : s = r[i] /\ Y = ToSet(s) /\ s \in Seq(Y)
      BY <2>1 DEF IsSeq
    <2>3. Y \subseteq X
      BY <2>1, <2>2
    <2> HIDE DEF X
    <2>4. s \in Seq(X)
      BY <2>2, <2>3
    <2> QED
      BY <2>2, <2>4
  <1> HIDE DEF X
  <1>2. b \in V /\ next \in [1 .. n -> [V -> V]]
    BY <1>1
  <1>3. PICK g \in [0 .. n -> V] : Follows(g, n, b, next)
    <2> HIDE DEF V, b, next
    <2> QED
      BY <1>2, RecursionUpTo
  <1>4. \A i \in 1 .. n : g[i - 1] \in V /\ g[i] = g[i - 1] \o r[i]
    <2> SUFFICES ASSUME NEW i \in 1 .. n PROVE g[i - 1] \in V /\ g[i] = g[i - 1] \o r[i]
      OBVIOUS
    <2>1. i - 1 \in 0 .. n
      OBVIOUS
    <2> QED
      BY <1>3, <2>1 DEF Follows
  <1>5. g[0] = <<>>
    BY <1>3 DEF Follows
  <1>6. \A i \in 0 .. n : IsSeq(g[i])
    <2> SUFFICES ASSUME NEW i \in 0 .. n PROVE IsSeq(g[i])
      OBVIOUS
    <2>1. g[i] \in Seq(X)
      OBVIOUS
    <2>2. PICK s : s = g[i]
      OBVIOUS
    <2>3. s = [j \in 1 .. Len(s) |-> s[j]] /\ Len(s) \in Nat
      BY <2>1, <2>2
    <2> QED
      BY <2>2, <2>3, SequenceIs
  <1>7. ASSUME NEW k \in 0 .. n PROVE g[k] = FlattenSeq(FirstOf(r, k))
    <2> DEFINE s == FirstOf(r, k)
    <2>1. k \in Nat /\ s = [i \in 1 .. k |-> r[i]] /\ s = [i \in 1 .. k |-> s[i]] /\ \A i \in 1 .. k : s[i] = r[i]
      BY DEF FirstOf
    <2>2. Len(s) = k
      <3> HIDE DEF s
      <3> QED
        BY <2>1, SequenceIs
    <2> HIDE DEF s
    <2>3. CASE k = 0
      <3>1. FlattenSeq(s) = s
        BY <2>2, <2>3 DEF FlattenSeq
      <3>2. s = <<>>
        BY <2>1, <2>3
      <3> QED
        BY <1>5, <2>3, <3>1, <3>2 DEF s
    <2>4. CASE k # 0
      <3> DEFINE F == CHOOSE f : f = [i \in 1 .. Len(s) |-> IF i = 1 THEN s[i] ELSE f[i - 1] \o s[i]]
                 h == [i \in 1 .. k |-> g[i]]
      <3>1. h = [i \in 1 .. k |-> IF i = 1 THEN s[i] ELSE h[i - 1] \o s[i]]
        <4>1. \A i \in 1 .. k : h[i] = IF i = 1 THEN s[i] ELSE h[i - 1] \o s[i]
          <5> SUFFICES ASSUME NEW i \in 1 .. k PROVE h[i] = IF i = 1 THEN s[i] ELSE h[i - 1] \o s[i]
            OBVIOUS
          <5>1. h[i] = g[i] /\ i \in 1 .. n /\ s[i] = r[i]
            BY <2>1
          <5>2. CASE i = 1
            <6>0. 1 \in 1 .. n /\ 1 - 1 = 0
              BY <5>1, <5>2
            <6>1. g[1] = <<>> \o r[1] /\ IsSeq(r[1])
              BY <1>4, <1>5, <6>0 DEF Rows
            <6>2. g[1] = r[1]
              BY <6>1, NothingBefore
            <6> QED
              BY <5>1, <5>2, <6>2
          <5>3. CASE i # 1
            <6>1. h[i - 1] = g[i - 1]
              BY <5>3
            <6> QED
              BY <1>4, <5>1, <5>3, <6>1
          <5> QED
            BY <5>2, <5>3
        <4> QED
          BY <4>1
      <3> HIDE DEF h
      <3>2. F = [i \in 1 .. Len(s) |-> IF i = 1 THEN s[i] ELSE F[i - 1] \o s[i]]
        BY <2>2, <3>1
      <3>3. FlattenSeq(s) = F[k]
        BY <2>2, <2>4 DEF FlattenSeq
      <3> HIDE DEF F
      <3> DEFINE T == {i \in 0 .. k : i # 0 => F[i] = g[i]}
      <3>4. 0 \in T
        OBVIOUS
      <3>5. ASSUME NEW i \in 0 .. k, i > 0, i - 1 \in T PROVE i \in T
        <4>0. i \in 1 .. k /\ i \in 1 .. Len(s)
          BY <2>2, <3>5
        <4>1. h[i] = g[i] /\ F[i] = IF i = 1 THEN s[i] ELSE F[i - 1] \o s[i]
          <5>1. h[i] = g[i]
            BY <4>0 DEF h
          <5>2. F[i] = IF i = 1 THEN s[i] ELSE F[i - 1] \o s[i]
            BY <3>2, <4>0
          <5> QED
            BY <5>1, <5>2
        <4>2. h[i] = IF i = 1 THEN s[i] ELSE h[i - 1] \o s[i]
          BY <3>1, <4>0
        <4>3. CASE i = 1
          BY <4>1, <4>2, <4>3
        <4>4. CASE i # 1
          <5>1. F[i - 1] = g[i - 1] /\ h[i - 1] = g[i - 1]
            BY <3>5, <4>0, <4>4 DEF h
          <5> QED
            BY <4>1, <4>2, <4>4, <5>1
        <4> QED
          BY <4>3, <4>4
      <3> HIDE DEF T
      <3>6. 0 .. k \subseteq T
        BY <2>1, <3>4, <3>5, UpTo
      <3>7. F[k] = g[k]
        BY <2>1, <2>4, <3>6 DEF T
      <3> QED
        BY <3>3, <3>7 DEF s
    <2> QED
      BY <2>3, <2>4
  <1> QED
    BY <1>4, <1>5, <1>6, <1>7 DEF FlatFrom

\* Rows of one width: where a cell of theirs ends up.
InRows(z, r, n, W) ==
    /\ IsSeq(z) /\ Len(z) = n * W
    /\ \A i \in 1 .. n, c \in 1 .. W : z[(i - 1) * W + c] = r[i][c]

LEMMA FlatRows ==
  ASSUME NEW n \in Nat, NEW W \in Nat, NEW r, Rows(r, n), \A i \in 1 .. n : Len(r[i]) = W,
         NEW z, z = FlattenSeq(FirstOf(r, n))
  PROVE  InRows(z, r, n, W)
  <1>1. PICK g : FlatFrom(g, r, n)
    BY FlatIs
  <1> DEFINE At(k) == /\ Len(g[k]) = k * W
                      /\ \A i \in 1 .. k, c \in 1 .. W : g[k][(i - 1) * W + c] = r[i][c]
             T == {k \in 0 .. n : At(k)}
  <1>2. 0 \in T
    BY <1>1, NothingIs DEF FlatFrom
  <1>3. ASSUME NEW k \in 0 .. n, k > 0, k - 1 \in T PROVE k \in T
    <2>1. k \in 1 .. n /\ k - 1 \in 0 .. n /\ k - 1 \in Nat
      BY <1>3
    <2>2. PICK s, t, u : s = g[k - 1] /\ t = r[k] /\ u = g[k] /\ u = s \o t /\ IsSeq(s) /\ IsSeq(t) /\ Len(t) = W
      BY <1>1, <2>1 DEF FlatFrom, Rows
    <2>3. Len(s) = (k - 1) * W /\ \A i \in 1 .. k - 1, c \in 1 .. W : s[(i - 1) * W + c] = r[i][c]
      BY <1>3, <2>2
    <2>4. /\ Len(u) = Len(s) + W /\ \A i \in 1 .. Len(s) : u[i] = s[i]
          /\ \A i \in 1 .. W : u[Len(s) + i] = t[i]
      <3>1. /\ Len(s \o t) = Len(s) + Len(t) /\ \A i \in 1 .. Len(s) : (s \o t)[i] = s[i]
            /\ \A i \in 1 .. Len(t) : (s \o t)[Len(s) + i] = t[i]
        <4>1. IsSeq(s) /\ IsSeq(t)
          BY <2>2
        <4> QED
          BY ONLY <4>1, ConcatIs
      <3> QED
        BY <2>2, <3>1
    <2>5. (k - 1) * W \in Nat /\ (k - 1) * W + W = k * W
      BY <2>1
    <2>6. ASSUME NEW i \in 1 .. k, NEW c \in 1 .. W PROVE u[(i - 1) * W + c] = r[i][c]
      <3>1. CASE i = k
        BY <2>2, <2>3, <2>4, <3>1
      <3>2. CASE i # k
        <4>1. i \in 1 .. k - 1
          BY <2>1, <3>2
        <4>2. (i - 1) * W + c \in 1 .. Len(s)
          <5>1. PICK a \in Nat, d \in Nat : a = i - 1 /\ k - 1 = i + d
            <6>1. i - 1 \in Nat /\ (k - 1) - i \in Nat /\ k - 1 = i + ((k - 1) - i)
              BY <2>1, <4>1
            <6> QED
              BY <6>1
          <5>2. (k - 1) * W = a * W + W + d * W /\ a * W \in Nat /\ d * W \in Nat
            <6>1. k - 1 = a + 1 + d
              BY <4>1, <5>1
            <6>2. a * W \in Nat /\ d * W \in Nat /\ (a + 1 + d) * W = a * W + W + d * W
              OBVIOUS
            <6> QED
              BY <6>1, <6>2
          <5> QED
            BY <2>3, <5>1, <5>2
        <4> QED
          BY <2>3, <2>4, <4>1, <4>2
      <3> QED
        BY <3>1, <3>2
    <2>7. At(k)
      <3>1. Len(u) = k * W
        BY <2>3, <2>4, <2>5
      <3> QED
        BY <2>2, <2>6, <3>1
    <2> QED
      BY <2>7
  <1> HIDE DEF T
  <1>4. 0 .. n \subseteq T
    BY <1>2, <1>3, UpTo
  <1>5. At(n) /\ IsSeq(g[n]) /\ g[n] = z
    BY <1>1, <1>4 DEF T, FlatFrom
  <1> QED
    BY <1>5 DEF InRows

\* Cells counted row by row.
LEMMA Place ==
  ASSUME NEW a \in Nat, NEW W \in Nat, NEW c \in 1 .. W
  PROVE  (a * W + c - 1) \div W = a /\ ((a * W + c - 1) % W) + 1 = c
  <1>1. PICK m \in Nat : m = a * W
    OBVIOUS
  <1>2. (m + c - 1) \in Nat /\ W > 0
    BY <1>1
  <1>3. (m + c - 1) \div W = a
    BY <1>1, <1>2
  <1>4. (m + c - 1) % W = c - 1
    BY <1>1, <1>2, <1>3
  <1> QED
    BY <1>1, <1>3, <1>4

LEMMA LongestIs ==
  ASSUME NEW n \in Nat, n > 0, NEW rows, DOMAIN rows = 1 .. n, \A i \in 1 .. n : IsSeq(rows[i])
  PROVE  Longest(rows) \in Nat /\ \A i \in 1 .. n : Len(rows[i]) \in Nat /\ Len(rows[i]) <= Longest(rows)
  <1> DEFINE f == [i \in 1 .. n |-> Len(rows[i])]
             S == {Len(rows[i]) : i \in 1 .. n}
  <1>1. \A i \in 1 .. n : f[i] = Len(rows[i]) /\ f[i] \in Nat
    BY SequenceIs
  <1>2. PICK x \in 1 .. n : \A y \in 1 .. n : f[y] <= f[x]
    <2>1. IsFiniteSet(1 .. n) /\ 1 \in 1 .. n
      BY Intervals
    <2> HIDE DEF f
    <2>2. \A i \in 1 .. n : f[i] \in Int
      BY <1>1
    <2> QED
      BY <2>1, <2>2, Greatest
  <1>3. \E m \in S : \A k \in S : m >= k
    BY <1>1, <1>2
  <1>4. Longest(rows) = Max(S)
    BY DEF Longest
  <1> HIDE DEF f
  <1>5. Max(S) \in S /\ \A k \in S : Max(S) >= k
    BY <1>3 DEF Max
  <1> QED
    BY <1>1, <1>4, <1>5

\* One row out of many, laid out one after the other.
RowCells(t, i, W) ==
    /\ IsSeq(RowOf(t, i - 1)) /\ Len(RowOf(t, i - 1)) = W
    /\ \A c \in 1 .. W : RowOf(t, i - 1)[c] = t.data[(i - 1) * W + c]

LEMMA RowIs ==
  ASSUME NEW n \in Nat, NEW W \in Nat, NEW t, t.shape = <<n, W>>, IsSeq(t.data), Len(t.data) = n * W,
         NEW i \in 1 .. n
  PROVE  RowCells(t, i, W)
  <1>1. PICK lo \in Nat, hi \in Nat, d \in Nat : lo = (i - 1) * W /\ hi = i * W /\ hi = lo + W /\ n * W = hi + d * W
    <2>1. PICK a \in Nat, d \in Nat : a = i - 1 /\ d = n - i
      OBVIOUS
    <2>2. a * W \in Nat /\ (a + 1) * W = a * W + W /\ (a + 1) * W \in Nat /\ (a + 1 + d) * W = (a + 1) * W + d * W
      OBVIOUS
    <2>3. a + 1 = i /\ a + 1 + d = n
      BY <2>1
    <2> QED
      BY <2>1, <2>2, <2>3
  <1>2. d * W \in Nat
    OBVIOUS
  <1>3. RowOf(t, i - 1) = SubSeq(t.data, lo + 1, hi)
    <2>1. t.shape[2] = W /\ (i - 1) + 1 = i
      OBVIOUS
    <2> QED
      BY <1>1, <2>1 DEF RowOf
  <1>4. PICK s : s = t.data /\ IsSeq(s) /\ Len(s) = hi + d * W
    BY <1>1
  <1>5. lo + 1 \in 1 .. Len(s) + 1 /\ hi \in 0 .. Len(s) /\ lo + 1 <= hi + 1
    BY <1>1, <1>2, <1>4
  <1>6. /\ IsSeq(SubSeq(s, lo + 1, hi)) /\ Len(SubSeq(s, lo + 1, hi)) = hi - (lo + 1) + 1
        /\ \A c \in 1 .. hi - (lo + 1) + 1 : SubSeq(s, lo + 1, hi)[c] = s[(lo + 1) + c - 1]
    BY <1>4, <1>5, SubSeqIs
  <1>7. hi - (lo + 1) + 1 = W /\ \A c \in 1 .. W : (lo + 1) + c - 1 = lo + c
    BY <1>1
  <1> QED
    BY <1>1, <1>3, <1>4, <1>6, <1>7 DEF RowCells

\* What a cell attends to when the mask is on for the first tokens of its row.
LEMMA AttendedIs ==
  ASSUME NEW t, NEW kind, kind # "pixels", NEW r, NEW W \in Nat, NEW row, IsSeq(row), Len(row) <= W,
         "attention_mask" \in DOMAIN t,
         IsSeq(RowOf(t.input_ids, r)), Len(RowOf(t.input_ids, r)) = W,
         \A c \in 1 .. W : RowOf(t.attention_mask, r)[c] = IF c <= Len(row) THEN 1 ELSE 0,
         \A c \in 1 .. Len(row) : RowOf(t.input_ids, r)[c] = row[c]
  PROVE  Attended(kind, t, r) = row
  <1> DEFINE ids == RowOf(t.input_ids, r)
             seen == {i \in DOMAIN ids : "attention_mask" \in DOMAIN t => RowOf(t.attention_mask, r)[i] = 1}
             at(k) == CHOOSE i \in seen : Cardinality({j \in seen : j <= i}) = k
  <1>1. Attended(kind, t, r) = [k \in 1 .. Cardinality(seen) |-> ids[at(k)]]
    BY DEF Attended
  <1>2. PICK n \in Nat : n = Len(row) /\ n <= W /\ row = [k \in 1 .. n |-> row[k]]
    BY SequenceIs
  <1>3. seen = 1 .. n
    <2>1. DOMAIN ids = 1 .. W
      BY SequenceIs
    <2> QED
      BY <1>2, <2>1
  <1> HIDE DEF seen
  <1>4. Cardinality(seen) = n
    BY <1>3, Intervals
  <1>5. ASSUME NEW k \in 1 .. n PROVE at(k) = k
    <2>1. ASSUME NEW i \in seen PROVE Cardinality({j \in seen : j <= i}) = i
      <3>1. {j \in seen : j <= i} = 1 .. i /\ i \in Nat
        BY <1>3
      <3> QED
        BY <3>1, Intervals
    <2>2. k \in seen
      BY <1>3
    <2> QED
      BY <2>1, <2>2
  <1>6. \A k \in 1 .. n : ids[at(k)] = row[k]
    BY <1>2, <1>5
  <1> HIDE DEF at
  <1> QED
    BY <1>1, <1>2, <1>4, <1>6

\* A tensor that is accepted.
LEMMA TensorIs ==
  ASSUME NEW shape, NEW data, Tensor(shape, data).ok
  PROVE  /\ Tensor(shape, data).value = [shape |-> shape, data |-> data]
         /\ \A i \in DOMAIN shape : shape[i] # 0
         /\ \A i \in DOMAIN data : data[i] # NaN
  BY DEF Tensor, Ok, Err

LEMMA TogetherIs ==
  ASSUME NEW tensors, Together(tensors).ok
  PROVE  /\ DOMAIN Together(tensors).value = DOMAIN tensors
         /\ \A n \in DOMAIN tensors : tensors[n].ok /\ Together(tensors).value[n] = tensors[n].value
  BY DEF Together, Ok, Err

\* Padding: each row stands at the start of its own, and the mask is on for it.
PaddedRight(rows, n, W, p) ==
    /\ p.shape = <<n, W>> /\ IsSeq(p.ids) /\ Len(p.ids) = n * W /\ IsSeq(p.mask) /\ Len(p.mask) = n * W
    /\ \A i \in 1 .. n : Len(rows[i]) \in Nat /\ Len(rows[i]) <= W
    /\ \A i \in 1 .. n, c \in 1 .. W :
          /\ p.mask[(i - 1) * W + c] = IF c <= Len(rows[i]) THEN 1 ELSE 0
          /\ c <= Len(rows[i]) => p.ids[(i - 1) * W + c] = rows[i][c]

LEMMA PaddedIs ==
  ASSUME NEW n \in Nat, n > 0, NEW rows, IsSeq(rows), Len(rows) = n, \A i \in 1 .. n : IsSeq(rows[i])
  PROVE  Longest(rows) \in Nat /\ PaddedRight(rows, n, Longest(rows), Padded(rows))
  <1>1. DOMAIN rows = 1 .. n
    BY SequenceIs
  <1>2. PICK W \in Nat : W = Longest(rows) /\ \A i \in 1 .. n : Len(rows[i]) \in Nat /\ Len(rows[i]) <= W
    BY <1>1, LongestIs
  <1> DEFINE fill(v, m) == [i \in 1 .. m |-> v]
             long == [i \in 1 .. n |-> rows[i] \o fill("[PAD]", W - Len(rows[i]))]
             marks == [i \in 1 .. n |-> fill(1, Len(rows[i])) \o fill(0, W - Len(rows[i]))]
  <1>3. \A v, m : m \in Nat => IsSeq(fill(v, m)) /\ Len(fill(v, m)) = m /\ \A i \in 1 .. m : fill(v, m)[i] = v
    <2> SUFFICES ASSUME NEW v, NEW m \in Nat
                 PROVE  IsSeq(fill(v, m)) /\ Len(fill(v, m)) = m /\ \A i \in 1 .. m : fill(v, m)[i] = v
      OBVIOUS
    <2>1. PICK z : z = fill(v, m)
      OBVIOUS
    <2>2. z = [i \in 1 .. m |-> z[i]] /\ \A i \in 1 .. m : z[i] = v
      BY <2>1
    <2>3. IsSeq(z) /\ Len(z) = m
      BY <2>2, SequenceIs
    <2> QED
      BY <2>1, <2>2, <2>3
  <1> HIDE DEF fill
  <1>4. ASSUME NEW i \in 1 .. n
        PROVE  /\ IsSeq(long[i]) /\ Len(long[i]) = W /\ \A c \in 1 .. Len(rows[i]) : long[i][c] = rows[i][c]
               /\ IsSeq(marks[i]) /\ Len(marks[i]) = W
               /\ \A c \in 1 .. W : marks[i][c] = IF c <= Len(rows[i]) THEN 1 ELSE 0
    <2>1. PICK k \in Nat, rest \in Nat : k = Len(rows[i]) /\ rest = W - k /\ W = k + rest
      <3>1. Len(rows[i]) \in Nat /\ W - Len(rows[i]) \in Nat /\ W = Len(rows[i]) + (W - Len(rows[i]))
        BY <1>2
      <3> QED
        BY <3>1
    <2>2. PICK row, pad, on, off : /\ row = rows[i] /\ pad = fill("[PAD]", rest)
                                   /\ on = fill(1, k) /\ off = fill(0, rest)
      OBVIOUS
    <2>3. long[i] = row \o pad /\ marks[i] = on \o off
      BY <2>1, <2>2
    <2>4. IsSeq(row) /\ IsSeq(pad) /\ IsSeq(on) /\ IsSeq(off) /\ Len(row) = k /\ Len(pad) = rest /\ Len(on) = k
          /\ Len(off) = rest /\ (\A c \in 1 .. k : on[c] = 1) /\ (\A c \in 1 .. rest : off[c] = 0)
      BY <1>3, <2>1, <2>2
    <2>5. IsSeq(row \o pad) /\ Len(row \o pad) = k + rest /\ \A c \in 1 .. k : (row \o pad)[c] = row[c]
      BY <2>4, ConcatIs
    <2>6. /\ IsSeq(on \o off) /\ Len(on \o off) = k + rest /\ \A c \in 1 .. k : (on \o off)[c] = on[c]
          /\ \A c \in 1 .. rest : (on \o off)[k + c] = off[c]
      BY <2>4, ConcatIs
    <2> HIDE DEF long, marks
    <2>7. ASSUME NEW c \in 1 .. W PROVE marks[i][c] = IF c <= k THEN 1 ELSE 0
      <3>1. CASE c <= k
        BY <2>3, <2>4, <2>6, <3>1
      <3>2. CASE ~(c <= k)
        <4>1. PICK d \in 1 .. rest : c = k + d
          <5>1. c - k \in 1 .. rest /\ c = k + (c - k)
            BY <2>1, <3>2
          <5> QED
            BY <5>1
        <4> QED
          BY <2>3, <2>4, <2>6, <3>2, <4>1
      <3> QED
        BY <3>1, <3>2
    <2> QED
      BY <2>1, <2>2, <2>3, <2>5, <2>6, <2>7
  <1>5. Rows(long, n) /\ Rows(marks, n) /\ FirstOf(long, n) = long /\ FirstOf(marks, n) = marks
    BY <1>4 DEF Rows, FirstOf
  <1>6. PICK ids, mask : ids = FlattenSeq(long) /\ mask = FlattenSeq(marks)
    OBVIOUS
  <1>7. Padded(rows) = [ids |-> ids, mask |-> mask, shape |-> <<n, W>>]
    BY <1>1, <1>2, <1>6 DEF Padded, fill
  <1> HIDE DEF long, marks
  <1>8. IsSeq(ids) /\ Len(ids) = n * W /\ \A i \in 1 .. n, c \in 1 .. W : ids[(i - 1) * W + c] = long[i][c]
    <2>1. ids = FlattenSeq(FirstOf(long, n)) /\ Rows(long, n) /\ \A i \in 1 .. n : Len(long[i]) = W
      BY <1>4, <1>5, <1>6
    <2>2. InRows(ids, long, n, W)
      BY <2>1, FlatRows
    <2> QED
      BY <2>2 DEF InRows
  <1>9. IsSeq(mask) /\ Len(mask) = n * W /\ \A i \in 1 .. n, c \in 1 .. W : mask[(i - 1) * W + c] = marks[i][c]
    <2>1. mask = FlattenSeq(FirstOf(marks, n)) /\ Rows(marks, n) /\ \A i \in 1 .. n : Len(marks[i]) = W
      BY <1>4, <1>5, <1>6
    <2>2. InRows(mask, marks, n, W)
      BY <2>1, FlatRows
    <2> QED
      BY <2>2 DEF InRows
  <1>10. PICK p : p = Padded(rows) /\ p.ids = ids /\ p.mask = mask /\ p.shape = <<n, W>>
    BY <1>7
  <1>11. PaddedRight(rows, n, W, p)
    <2>1. ASSUME NEW i \in 1 .. n, NEW c \in 1 .. W
          PROVE  /\ p.mask[(i - 1) * W + c] = IF c <= Len(rows[i]) THEN 1 ELSE 0
                 /\ c <= Len(rows[i]) => p.ids[(i - 1) * W + c] = rows[i][c]
      <3>1. mask[(i - 1) * W + c] = marks[i][c] /\ ids[(i - 1) * W + c] = long[i][c]
        BY <1>8, <1>9
      <3>2. c <= Len(rows[i]) => c \in 1 .. Len(rows[i])
        BY <1>2
      <3> QED
        BY <1>4, <1>10, <3>1, <3>2
    <2> QED
      BY <1>2, <1>8, <1>9, <1>10, <2>1 DEF PaddedRight
  <1> QED
    BY <1>2, <1>10, <1>11

\* An output of the shape that was asked for has the cell of each row and column.
LEMMA ProducedIs ==
  ASSUME NEW o \in Outcomes, NEW kind, NEW t, NEW B \in Nat, B = BatchOf(kind, t), NEW W \in Nat, W = Width(kind, t),
         NEW out, out = Produced(o, kind, t), out.ok, out.value.shape = <<B, W>>
  PROVE  \A i \in 1 .. B : /\ IsSeq(RowOf(out.value, i - 1)) /\ Len(RowOf(out.value, i - 1)) = W
                           /\ \A c \in 1 .. W : RowOf(out.value, i - 1)[c] = Cell(kind, t, i - 1, c)
  <1> DEFINE rows == BatchOf(kind, t) - (IF o = "short" THEN 1 ELSE 0)
             width == Width(kind, t) - (IF o = "narrow" THEN 1 ELSE 0)
             cell(n) == IF o = "nan" /\ n = 1 THEN NaN
                        ELSE Cell(kind, t, (n - 1) \div width, ((n - 1) % width) + 1)
             data == [n \in 1 .. rows * width |-> cell(n)]
  <1>1. out = Tensor(<<rows, width>>, data)
    <2>1. o # "fails"
      BY DEF Produced, Err
    <2> HIDE DEF rows, width
    <2> QED
      BY <2>1 DEF Produced, rows, width
  <1>2. /\ out.value = [shape |-> <<rows, width>>, data |-> data]
        /\ \A i \in DOMAIN <<rows, width>> : <<rows, width>>[i] # 0
        /\ \A i \in DOMAIN data : data[i] # NaN
    <2> HIDE DEF data, rows, width
    <2> QED
      BY <1>1, TensorIs
  <1>3. rows = B /\ width = W /\ B # 0 /\ W # 0
    <2>1. out.value.shape = <<rows, width>> /\ rows # 0 /\ width # 0
      BY <1>2
    <2> HIDE DEF rows, width
    <2> QED
      BY <2>1
  <1>4. B * W \in Nat /\ B * W >= 1
    <2>1. PICK a \in Nat, b \in Nat : B = a + 1 /\ W = b + 1
      <3>1. B - 1 \in Nat /\ W - 1 \in Nat /\ B = (B - 1) + 1 /\ W = (W - 1) + 1
        BY <1>3
      <3> QED
        BY <3>1
    <2>2. (a + 1) * (b + 1) = a * b + a + b + 1 /\ a * b \in Nat
      OBVIOUS
    <2> QED
      BY <2>1, <2>2
  <1>5. PICK D : D = data
    OBVIOUS
  <1>6. D = [n \in 1 .. B * W |-> cell(n)] /\ out.value = [shape |-> <<B, W>>, data |-> D]
        /\ \A i \in DOMAIN D : D[i] # NaN
    <2> HIDE DEF cell
    <2>1. D = [n \in 1 .. rows * width |-> cell(n)]
      BY <1>5
    <2> HIDE DEF data, rows, width
    <2> QED
      BY <1>2, <1>3, <1>5, <2>1
  <1>7. o # "nan"
    <2> SUFFICES ASSUME o = "nan" PROVE FALSE
      OBVIOUS
    <2>1. 1 \in 1 .. B * W /\ cell(1) = NaN
      BY <1>4
    <2> HIDE DEF cell
    <2> QED
      BY <1>6, <2>1
  <1>8. \A n \in 1 .. B * W : D[n] = Cell(kind, t, (n - 1) \div W, ((n - 1) % W) + 1)
    <2>1. \A n \in 1 .. B * W : D[n] = cell(n)
      <3> HIDE DEF cell
      <3> QED
        BY <1>6
    <2> HIDE DEF rows
    <2>2. width = W
      BY <1>3
    <2> HIDE DEF width
    <2> QED
      BY <1>7, <2>1, <2>2
  <1>9. IsSeq(D) /\ Len(D) = B * W
    <2>1. PICK m \in Nat : m = B * W
      BY <1>4
    <2>2. D = [n \in 1 .. m |-> D[n]]
      <3> HIDE DEF cell
      <3> QED
        BY <1>6, <2>1
    <2> QED
      BY <2>1, <2>2, SequenceIs
  <1>10. PICK v : v = out.value /\ v.shape = <<B, W>> /\ v.data = D
    <2>1. out.value.shape = <<B, W>> /\ out.value.data = D
      <3> HIDE DEF cell
      <3> QED
        BY <1>6
    <2> QED
      BY <2>1
  <1>11. ASSUME NEW i \in 1 .. B
         PROVE  /\ IsSeq(RowOf(v, i - 1)) /\ Len(RowOf(v, i - 1)) = W
                /\ \A c \in 1 .. W : RowOf(v, i - 1)[c] = Cell(kind, t, i - 1, c)
    <2>1. /\ IsSeq(RowOf(v, i - 1)) /\ Len(RowOf(v, i - 1)) = W
          /\ \A c \in 1 .. W : RowOf(v, i - 1)[c] = v.data[(i - 1) * W + c]
      <3>1. /\ B \in Nat /\ W \in Nat /\ i \in 1 .. B
            /\ v.shape = <<B, W>> /\ IsSeq(v.data) /\ Len(v.data) = B * W
        BY <1>9, <1>10
      <3>2. RowCells(v, i, W)
        BY ONLY <3>1, RowIs
      <3> QED
        BY <3>2 DEF RowCells
    <2>2. ASSUME NEW c \in 1 .. W PROVE D[(i - 1) * W + c] = Cell(kind, t, i - 1, c)
      <3>1. PICK a \in Nat, d \in Nat : a = i - 1 /\ B = a + 1 + d
        <4>1. i - 1 \in Nat /\ B - i \in Nat /\ B = (i - 1) + 1 + (B - i)
          OBVIOUS
        <4> QED
          BY <4>1
      <3>2. (a + 1 + d) * W = a * W + W + d * W /\ a * W \in Nat /\ d * W \in Nat
        OBVIOUS
      <3>3. a * W + c \in 1 .. B * W
        BY <3>1, <3>2
      <3>4. (a * W + c - 1) \div W = a /\ ((a * W + c - 1) % W) + 1 = c
        BY Place
      <3>5. PICK n \in 1 .. B * W : n = a * W + c
        BY <3>3
      <3>6. (n - 1) \div W = a /\ ((n - 1) % W) + 1 = c
        BY <3>4, <3>5
      <3>7. D[n] = Cell(kind, t, a, c)
        BY <1>8, <3>6
      <3> QED
        BY <3>1, <3>5, <3>7
    <2> QED
      BY <1>10, <2>1, <2>2
  <1> QED
    BY <1>10, <1>11

\* Where the collation of pointers puts one.
LEMMA ColumnIs ==
  ASSUME NEW n \in Nat, NEW W \in Nat, NEW e, DOMAIN e = 1 .. n, Len(e) = n, NEW L,
         NEW i \in 1 .. n, NEW k \in 1 .. W, k <= Len(e[i].option_pos)
  PROVE  KaiColumns(e, L, W)[(i - 1) * W + k] = e[i].option_pos[k]
  <1>1. PICK a \in Nat, d \in Nat : a = i - 1 /\ n = a + 1 + d
    <2>1. i - 1 \in Nat /\ n - i \in Nat /\ n = (i - 1) + 1 + (n - i)
      OBVIOUS
    <2> QED
      BY <2>1
  <1>2. (a + 1 + d) * W = a * W + W + d * W /\ a * W \in Nat /\ d * W \in Nat
    OBVIOUS
  <1>3. PICK m : m = (i - 1) * W + k /\ m \in 1 .. n * W
    BY <1>1, <1>2
  <1> DEFINE hits == {rc \in (DOMAIN e) \X (1 .. W) :
                        /\ rc[2] <= Len(e[rc[1]].option_pos)
                        /\ (rc[1] - 1) * W + rc[2] = m}
  <1>4. KaiColumns(e, L, W)[m] = IF hits = {} THEN 0
                                 ELSE LET rc == CHOOSE h \in hits : TRUE IN e[rc[1]].option_pos[rc[2]]
    BY <1>3 DEF KaiColumns
  <1>5. <<i, k>> \in hits
    BY <1>3
  <1>6. ASSUME NEW h \in hits PROVE h[1] = i /\ h[2] = k
    <2>1. PICK b \in Nat, c \in 1 .. W : b = h[1] - 1 /\ c = h[2] /\ h[1] \in 1 .. n /\ b * W + c = m
      <3>1. h[1] \in 1 .. n /\ h[2] \in 1 .. W /\ (h[1] - 1) * W + h[2] = m
        OBVIOUS
      <3>2. h[1] - 1 \in Nat
        BY <3>1
      <3> QED
        BY <3>1, <3>2
    <2> HIDE DEF hits
    <2>2. (b * W + c - 1) \div W = b /\ ((b * W + c - 1) % W) + 1 = c
      BY Place
    <2>3. (a * W + k - 1) \div W = a /\ ((a * W + k - 1) % W) + 1 = k
      BY Place
    <2>4. a * W + k = b * W + c
      BY <1>1, <1>3, <2>1
    <2>5. a = b /\ k = c
      BY <2>2, <2>3, <2>4
    <2>6. h[2] = k
      BY <2>1, <2>5
    <2>7. h[1] = i
      <3>1. h[1] \in Int /\ h[1] - 1 = a
        BY <2>1, <2>5
      <3> QED
        BY <1>1, <3>1
    <2> QED
      BY <2>6, <2>7
  <1> HIDE DEF hits
  <1>7. PICK rc : rc = (CHOOSE h \in hits : TRUE) /\ rc[1] = i /\ rc[2] = k
    BY <1>5, <1>6
  <1> QED
    BY <1>3, <1>4, <1>5, <1>7

\* Rows padded to tensors, read back under their mask.
LEMMA PaddedAttended ==
  ASSUME NEW n \in Nat, n > 0, NEW rows, IsSeq(rows), Len(rows) = n, \A i \in 1 .. n : IsSeq(rows[i]),
         NEW t, "attention_mask" \in DOMAIN t,
         t.input_ids = [shape |-> Padded(rows).shape, data |-> Padded(rows).ids],
         t.attention_mask = [shape |-> Padded(rows).shape, data |-> Padded(rows).mask],
         NEW kind, kind # "pixels"
  PROVE  t.input_ids.shape[1] = n /\ \A i \in 1 .. n : Attended(kind, t, i - 1) = rows[i]
  <1>0. PICK W \in Nat : PaddedRight(rows, n, W, Padded(rows))
    BY PaddedIs
  <1>1. PICK p : p = Padded(rows) /\ PaddedRight(rows, n, W, p)
    BY <1>0
  <1>2. PICK ids, mask : ids = t.input_ids /\ mask = t.attention_mask
    OBVIOUS
  <1>3. ids.shape = <<n, W>> /\ ids.data = p.ids /\ mask.shape = <<n, W>> /\ mask.data = p.mask
    BY <1>1, <1>2 DEF PaddedRight
  <1>4. IsSeq(ids.data) /\ Len(ids.data) = n * W /\ IsSeq(mask.data) /\ Len(mask.data) = n * W
    BY <1>1, <1>3 DEF PaddedRight
  <1>5. ASSUME NEW i \in 1 .. n PROVE Attended(kind, t, i - 1) = rows[i]
    <2>1. /\ IsSeq(RowOf(ids, i - 1)) /\ Len(RowOf(ids, i - 1)) = W
          /\ \A c \in 1 .. W : RowOf(ids, i - 1)[c] = ids.data[(i - 1) * W + c]
      <3>1. n \in Nat /\ W \in Nat /\ i \in 1 .. n /\ ids.shape = <<n, W>> /\ IsSeq(ids.data) /\ Len(ids.data) = n * W
        BY <1>3, <1>4
      <3>2. RowCells(ids, i, W)
        BY ONLY <3>1, RowIs
      <3> QED
        BY <3>2 DEF RowCells
    <2>2. \A c \in 1 .. W : RowOf(mask, i - 1)[c] = mask.data[(i - 1) * W + c]
      <3>1. n \in Nat /\ W \in Nat /\ i \in 1 .. n /\ mask.shape = <<n, W>> /\ IsSeq(mask.data) /\ Len(mask.data) = n * W
        BY <1>3, <1>4
      <3>2. RowCells(mask, i, W)
        BY ONLY <3>1, RowIs
      <3> QED
        BY <3>2 DEF RowCells
    <2>3. PICK row : row = rows[i] /\ IsSeq(row) /\ Len(row) \in Nat /\ Len(row) <= W
      BY <1>1 DEF PaddedRight
    <2>4. \A c \in 1 .. W : RowOf(mask, i - 1)[c] = IF c <= Len(row) THEN 1 ELSE 0
      <3>1. \A c \in 1 .. W : p.mask[(i - 1) * W + c] = IF c <= Len(rows[i]) THEN 1 ELSE 0
        BY ONLY <1>1, i \in 1 .. n DEF PaddedRight
      <3> QED
        BY ONLY <1>3, <2>2, <2>3, <3>1
    <2>5. \A c \in 1 .. Len(row) : RowOf(ids, i - 1)[c] = row[c]
      <3>1. \A c \in 1 .. W : c <= Len(rows[i]) => p.ids[(i - 1) * W + c] = rows[i][c]
        BY ONLY <1>1, i \in 1 .. n DEF PaddedRight
      <3>2. \A c \in 1 .. W : c <= Len(row) => RowOf(ids, i - 1)[c] = row[c]
        BY ONLY <1>3, <2>1, <2>3, <3>1
      <3>3. \A c \in 1 .. Len(row) : c \in 1 .. W /\ c <= Len(row)
        BY <2>3
      <3> QED
        BY ONLY <3>2, <3>3
    <2>6. Attended(kind, t, i - 1) = row
      <3>1. IsSeq(RowOf(t.input_ids, i - 1)) /\ Len(RowOf(t.input_ids, i - 1)) = W
        BY <1>2, <2>1
      <3>2. \A c \in 1 .. W : RowOf(t.attention_mask, i - 1)[c] = IF c <= Len(row) THEN 1 ELSE 0
        BY <1>2, <2>4
      <3>3. \A c \in 1 .. Len(row) : RowOf(t.input_ids, i - 1)[c] = row[c]
        BY <1>2, <2>5
      <3>4. "attention_mask" \in DOMAIN t /\ kind # "pixels" /\ W \in Nat /\ IsSeq(row) /\ Len(row) <= W
        BY <2>3
      <3> QED
        BY ONLY <3>1, <3>2, <3>3, <3>4, AttendedIs
    <2> QED
      BY <2>3, <2>6
  <1> QED
    BY <1>2, <1>3, <1>5

\* Encodings that a batch can be made of.
KaiFits(e, n) ==
    /\ n \in Nat /\ n > 0 /\ IsSeq(e) /\ Len(e) = n
    /\ \A i \in 1 .. n : /\ IsSeq(e[i].ids) /\ IsSeq(e[i].keys) /\ IsSeq(e[i].option_pos)
                         /\ Len(e[i].option_pos) = Len(e[i].keys)

\* The cell of a question's own option.
OwnCell(e, k) == [ids |-> e.ids, pointer |-> e.option_pos[k], answer |-> e.answer_pos]
KaiColumnsWide(e, t, n, W) ==
    /\ t.input_ids.shape[1] = n /\ t.option_pos.shape[2] = W
    /\ \A i \in 1 .. n : Len(e[i].keys) \in Nat /\ Len(e[i].keys) <= W
    /\ \A i \in 1 .. n, k \in 1 .. W : k <= Len(e[i].keys) => Cell("kai", t, i - 1, k) = OwnCell(e[i], k)

LEMMA KaiCells ==
  ASSUME NEW n, NEW e, KaiFits(e, n), KaiTensors(e).ok, NEW t, t = KaiTensors(e).value
  PROVE  \E W \in Nat : KaiColumnsWide(e, t, n, W)
  <1>1. n \in Nat /\ n > 0 /\ DOMAIN e = 1 .. n /\ Len(e) = n
    BY SequenceIs DEF KaiFits
  <1> DEFINE ids == [i \in 1 .. n |-> e[i].ids]
             keys == [i \in 1 .. n |-> e[i].keys]
             width == Max({Len(e[i].keys) : i \in 1 .. n})
  <1>2. PICK rows : rows = ids /\ IsSeq(rows) /\ Len(rows) = n /\ \A i \in 1 .. n : rows[i] = e[i].ids /\ IsSeq(rows[i])
    <2>1. PICK rows : rows = ids
      OBVIOUS
    <2>2. rows = [i \in 1 .. n |-> rows[i]] /\ \A i \in 1 .. n : rows[i] = e[i].ids
      BY <2>1
    <2>3. IsSeq(rows) /\ Len(rows) = n
      BY <1>1, <2>2, SequenceIs
    <2>4. \A i \in 1 .. n : IsSeq(rows[i])
      BY <2>2 DEF KaiFits
    <2> QED
      BY <2>1, <2>2, <2>3, <2>4
  <1>3. PICK W \in Nat : W = width /\ \A i \in 1 .. n : Len(e[i].keys) \in Nat /\ Len(e[i].keys) <= W
    <2>1. Longest(keys) = width /\ DOMAIN keys = 1 .. n /\ \A i \in 1 .. n : keys[i] = e[i].keys /\ IsSeq(keys[i])
      BY DEF Longest, KaiFits
    <2> HIDE DEF keys, width
    <2>2. Longest(keys) \in Nat /\ \A i \in 1 .. n : Len(keys[i]) \in Nat /\ Len(keys[i]) <= Longest(keys)
      BY <1>1, <2>1, LongestIs
    <2> QED
      BY <2>1, <2>2
  <1> DEFINE columns == KaiColumns(e, Longest(rows), W)
             all == [input_ids |-> Tensor(Padded(rows).shape, Padded(rows).ids),
                     attention_mask |-> Tensor(Padded(rows).shape, Padded(rows).mask),
                     answer_pos |-> Tensor(<<n>>, [i \in 1 .. n |-> e[i].answer_pos]),
                     option_pos |-> Tensor(<<n, W>>, columns)]
  <1>4. KaiTensors(e) = Together(all)
    <2>1. e # <<>>
      BY <1>1, NothingIs
    <2> HIDE DEF width
    <2>2. KaiTensors(e) = Together([input_ids |-> Tensor(Padded(rows).shape, Padded(rows).ids),
                     attention_mask |-> Tensor(Padded(rows).shape, Padded(rows).mask),
                     answer_pos |-> Tensor(<<n>>, [i \in 1 .. n |-> e[i].answer_pos]),
                     option_pos |-> Tensor(<<n, width>>, KaiColumns(e, Longest(rows), width))])
      BY <1>1, <1>2, <2>1 DEF KaiTensors, width
    <2> QED
      BY <1>3, <2>2
  <1>5. DOMAIN all = {"input_ids", "attention_mask", "answer_pos", "option_pos"}
    OBVIOUS
  <1>6. PICK a, b, c, d : /\ a = Tensor(Padded(rows).shape, Padded(rows).ids)
                          /\ b = Tensor(Padded(rows).shape, Padded(rows).mask)
                          /\ c = Tensor(<<n>>, [i \in 1 .. n |-> e[i].answer_pos])
                          /\ d = Tensor(<<n, W>>, columns)
    OBVIOUS
  <1>7. all.input_ids = a /\ all.attention_mask = b /\ all.answer_pos = c /\ all.option_pos = d
    BY <1>6
  <1>8. DOMAIN t = DOMAIN all /\ \A name \in DOMAIN all : all[name].ok /\ t[name] = all[name].value
    <2> HIDE DEF all
    <2> QED
      BY <1>4, TogetherIs
  <1> HIDE DEF all, columns
  <1>9. /\ "attention_mask" \in DOMAIN t
        /\ t.input_ids = a.value /\ t.attention_mask = b.value /\ t.answer_pos = c.value /\ t.option_pos = d.value
        /\ a.ok /\ b.ok /\ c.ok /\ d.ok
    BY <1>5, <1>7, <1>8
  <1>10. /\ a.value = [shape |-> Padded(rows).shape, data |-> Padded(rows).ids]
         /\ b.value = [shape |-> Padded(rows).shape, data |-> Padded(rows).mask]
    BY <1>6, <1>9, TensorIs
  <1>11. c.value = [shape |-> <<n>>, data |-> [i \in 1 .. n |-> e[i].answer_pos]]
    <2>1. PICK ends : ends = [i \in 1 .. n |-> e[i].answer_pos]
      OBVIOUS
    <2>2. c = Tensor(<<n>>, ends)
      BY <1>6, <2>1
    <2>3. c.value = [shape |-> <<n>>, data |-> ends]
      BY <1>9, <2>2, TensorIs
    <2> QED
      BY <2>1, <2>3
  <1>12. d.value = [shape |-> <<n, W>>, data |-> columns]
    BY <1>6, <1>9, TensorIs
  <1>13. t.input_ids.shape[1] = n /\ \A i \in 1 .. n : Attended("kai", t, i - 1) = rows[i]
    <2>1. /\ "attention_mask" \in DOMAIN t
          /\ t.input_ids = [shape |-> Padded(rows).shape, data |-> Padded(rows).ids]
          /\ t.attention_mask = [shape |-> Padded(rows).shape, data |-> Padded(rows).mask]
      BY <1>9, <1>10
    <2>2. n \in Nat /\ n > 0 /\ IsSeq(rows) /\ Len(rows) = n /\ (\A i \in 1 .. n : IsSeq(rows[i])) /\ "kai" # "pixels"
      BY <1>1, <1>2
    <2> QED
      BY ONLY <2>1, <2>2, PaddedAttended
  <1>14. PICK o : o = t.option_pos /\ o.shape = <<n, W>> /\ o.data = columns
    BY <1>9, <1>12
  <1>15. columns = [m \in 1 .. n * W |-> columns[m]]
    BY <1>1 DEF columns, KaiColumns
  <1>16. IsSeq(columns) /\ Len(columns) = n * W
    BY <1>1, <1>15, SequenceIs
  <1>17. ASSUME NEW i \in 1 .. n, NEW k \in 1 .. W, k <= Len(e[i].keys)
         PROVE  Cell("kai", t, i - 1, k) = OwnCell(e[i], k)
    <2>1. RowOf(o, i - 1)[k] = columns[(i - 1) * W + k]
      <3>1. n \in Nat /\ W \in Nat /\ i \in 1 .. n /\ o.shape = <<n, W>> /\ IsSeq(o.data) /\ Len(o.data) = n * W
        BY <1>1, <1>14, <1>16
      <3>2. RowCells(o, i, W)
        BY ONLY <3>1, RowIs
      <3>3. RowOf(o, i - 1)[k] = o.data[(i - 1) * W + k]
        BY <3>2 DEF RowCells
      <3> QED
        BY <1>14, <3>3
    <2>2. columns[(i - 1) * W + k] = e[i].option_pos[k]
      <3>1. n \in Nat /\ DOMAIN e = 1 .. n /\ Len(e) = n /\ k <= Len(e[i].option_pos)
        BY <1>1, <1>17 DEF KaiFits
      <3> QED
        BY <3>1, ColumnIs DEF columns
    <2>3. t.answer_pos.data[(i - 1) + 1] = e[i].answer_pos
      <3>1. (i - 1) + 1 = i
        OBVIOUS
      <3> QED
        BY <1>9, <1>11, <3>1
    <2>4. Attended("kai", t, i - 1) = e[i].ids
      BY <1>2, <1>13
    <2> QED
      BY <1>14, <2>1, <2>2, <2>3, <2>4 DEF Cell, Pointed, OwnCell
  <1>18. t.option_pos.shape[2] = W
    BY <1>14
  <1> QED
    BY <1>3, <1>13, <1>17, <1>18 DEF KaiColumnsWide

LEMMA ProbabilitiesAre ==
  ASSUME NEW kind, NEW keys, NEW logits, Probabilities(kind, keys, logits).ok
  PROVE  Probabilities(kind, keys, logits).value =
            [i \in DOMAIN keys |-> [key |-> keys[i], cell |-> logits[i],
                                    bias |-> IF Biased(kind, Len(keys)) THEN i ELSE 0]]
  BY DEF Probabilities, Ok, Err

\* The answer of a question in a batch, from its own cells.
OwnReading(e) ==
    [k \in DOMAIN e.keys |->
        [key |-> e.keys[k], bias |-> IF Biased(e.kind, Len(e.keys)) THEN k ELSE 0, cell |-> OwnCell(e, k)]]

LEMMA KaiOwn ==
  ASSUME NEW n, NEW e, KaiFits(e, n), KaiTensors(e).ok, NEW t, t = KaiTensors(e).value,
         NEW o \in Outcomes, NEW out, out = KaiInfer(o, t), out.ok,
         NEW r, r = KaiReadings(e, out.value), r.ok
  PROVE  \A i \in 1 .. n : r.value[i] = OwnReading(e[i])
  <1>1. PICK W \in Nat : KaiColumnsWide(e, t, n, W)
    BY KaiCells
  <1>2. n \in Nat /\ DOMAIN e = 1 .. n
    BY SequenceIs DEF KaiFits
  <1>3. BatchOf("kai", t) = n /\ Width("kai", t) = W
    BY <1>1 DEF BatchOf, Width, Pointed, KaiColumnsWide
  <1>4. out = Produced(o, "kai", t) /\ out.value.shape = <<n, W>>
    BY <1>1 DEF KaiInfer, Checked, Err, KaiColumnsWide
  <1>5. \A i \in 1 .. n : /\ IsSeq(RowOf(out.value, i - 1)) /\ Len(RowOf(out.value, i - 1)) = W
                          /\ \A c \in 1 .. W : RowOf(out.value, i - 1)[c] = Cell("kai", t, i - 1, c)
    <2>1. n \in Nat /\ W \in Nat /\ o \in Outcomes /\ out.ok
      BY <1>2
    <2> QED
      BY ONLY <2>1, <1>3, <1>4, ProducedIs
  <1> SUFFICES ASSUME NEW i \in 1 .. n PROVE r.value[i] = OwnReading(e[i])
    OBVIOUS
  <1> DEFINE logits == Cut(RowOf(out.value, i - 1), Len(e[i].keys))
             p == Probabilities(e[i].kind, e[i].keys, logits)
  <1>6. p.ok /\ r.value[i] = p.value
    BY <1>2 DEF KaiReadings, Ok, Err
  <1>7. PICK l \in Nat : l = Len(e[i].keys) /\ l <= W /\ IsSeq(e[i].keys) /\ DOMAIN e[i].keys = 1 .. l
    <2>1. IsSeq(e[i].keys) /\ Len(e[i].keys) \in Nat /\ Len(e[i].keys) <= W
      BY <1>1 DEF KaiFits, KaiColumnsWide
    <2> QED
      BY <2>1, SequenceIs
  <1>8. PICK row : row = RowOf(out.value, i - 1) /\ IsSeq(row) /\ Len(row) = W
    BY <1>5
  <1>9. \A k \in 1 .. l : Cut(row, l)[k] = row[k]
    <2>1. Len(Cut(row, l)) = l /\ \A k \in 1 .. Len(Cut(row, l)) : Cut(row, l)[k] = row[k]
      BY <1>7, <1>8, CutIs
    <2> QED
      BY <2>1
  <1>10. ASSUME NEW k \in 1 .. l PROVE logits[k] = OwnCell(e[i], k)
    <2>1. k \in 1 .. W /\ logits[k] = row[k]
      BY <1>7, <1>9, <1>8
    <2>2. row[k] = Cell("kai", t, i - 1, k)
      BY <1>5, <1>8, <2>1
    <2>3. Cell("kai", t, i - 1, k) = OwnCell(e[i], k)
      BY <1>1, <1>7, <2>1 DEF KaiColumnsWide
    <2> QED
      BY <2>1, <2>2, <2>3
  <1> HIDE DEF logits
  <1>11. p.value = [k \in DOMAIN e[i].keys |->
                     [key |-> e[i].keys[k], cell |-> logits[k],
                      bias |-> IF Biased(e[i].kind, Len(e[i].keys)) THEN k ELSE 0]]
    BY <1>6, ProbabilitiesAre
  <1>12. DOMAIN e[i].keys = 1 .. l
    BY <1>7
  <1> HIDE DEF p
  <1>13. OwnReading(e[i]) = [k \in DOMAIN e[i].keys |->
                     [key |-> e[i].keys[k], cell |-> OwnCell(e[i], k),
                      bias |-> IF Biased(e[i].kind, Len(e[i].keys)) THEN k ELSE 0]]
    BY DEF OwnReading
  <1> QED
    BY <1>6, <1>10, <1>11, <1>12, <1>13

LEMMA ProducedShape ==
  ASSUME NEW o, NEW kind, NEW t, Produced(o, kind, t).ok,
         NEW rows, rows = BatchOf(kind, t) - (IF o = "short" THEN 1 ELSE 0),
         NEW width, width = Width(kind, t) - (IF o = "narrow" THEN 1 ELSE 0)
  PROVE  rows # 0 /\ width # 0 /\ Produced(o, kind, t).value.shape = <<rows, width>>
  <1> DEFINE cell(n) == IF o = "nan" /\ n = 1 THEN NaN
                        ELSE Cell(kind, t, (n - 1) \div width, ((n - 1) % width) + 1)
             data == [n \in 1 .. rows * width |-> cell(n)]
  <1>1. Produced(o, kind, t) = Tensor(<<rows, width>>, data)
    <2>1. o # "fails"
      BY DEF Produced, Err
    <2> QED
      BY <2>1 DEF Produced
  <1> HIDE DEF data
  <1>2. /\ Produced(o, kind, t).value = [shape |-> <<rows, width>>, data |-> data]
        /\ \A i \in DOMAIN <<rows, width>> : <<rows, width>>[i] # 0
    BY <1>1, TensorIs
  <1>3. rows # 0 /\ width # 0
    BY <1>2
  <1> QED
    BY <1>2, <1>3

\* Each entailment mass is of its own pair.
OwnPairs(e, m) == DOMAIN m.value = 1 .. Len(e) /\ Len(e) > 0 /\ \A i \in 1 .. Len(e) : m.value[i].ids = e[i]

LEMMA NliOwn ==
  ASSUME NEW e, IsSeq(e), \A i \in 1 .. Len(e) : IsSeq(e[i]), NliTensors(e).ok, NEW t, t = NliTensors(e).value,
         NEW o \in Outcomes, NEW out, out = NliInfer(o, t), out.ok,
         NEW m, m = Entailments(e, out.value), m.ok
  PROVE  OwnPairs(e, m)
  <1>1. PICK n \in Nat : n = Len(e) /\ n > 0 /\ DOMAIN e = 1 .. n
    <2>1. e # <<>>
      BY DEF NliTensors, Err
    <2>2. Len(e) # 0
      BY <2>1, NothingIs, SameSequence
    <2> QED
      BY <2>2, SequenceIs
  <1> DEFINE all == [input_ids |-> Tensor(Padded(e).shape, Padded(e).ids),
                     attention_mask |-> Tensor(Padded(e).shape, Padded(e).mask)]
  <1>2. NliTensors(e) = Together(all)
    BY DEF NliTensors, Err
  <1>3. PICK a, b : a = Tensor(Padded(e).shape, Padded(e).ids) /\ b = Tensor(Padded(e).shape, Padded(e).mask)
    OBVIOUS
  <1>4. DOMAIN all = {"input_ids", "attention_mask"} /\ all.input_ids = a /\ all.attention_mask = b
    BY <1>3
  <1>5. DOMAIN t = DOMAIN all /\ \A name \in DOMAIN all : all[name].ok /\ t[name] = all[name].value
    <2> HIDE DEF all
    <2> QED
      BY <1>2, TogetherIs
  <1> HIDE DEF all
  <1>6. "attention_mask" \in DOMAIN t /\ t.input_ids = a.value /\ t.attention_mask = b.value /\ a.ok /\ b.ok
    BY <1>4, <1>5
  <1>7. /\ t.input_ids = [shape |-> Padded(e).shape, data |-> Padded(e).ids]
        /\ t.attention_mask = [shape |-> Padded(e).shape, data |-> Padded(e).mask]
    BY <1>3, <1>6, TensorIs
  <1>8. t.input_ids.shape[1] = n /\ \A i \in 1 .. n : Attended("nli", t, i - 1) = e[i]
    <2>1. n \in Nat /\ n > 0 /\ IsSeq(e) /\ Len(e) = n /\ (\A i \in 1 .. n : IsSeq(e[i])) /\ "nli" # "pixels"
          /\ "attention_mask" \in DOMAIN t
      BY <1>1, <1>6
    <2> QED
      BY ONLY <1>7, <2>1, PaddedAttended
  <1>9. out = Produced(o, "nli", t) /\ out.value.shape[1] = n
    BY <1>8 DEF NliInfer, Checked, Err
  <1>10. BatchOf("nli", t) = n /\ Width("nli", t) = EntailColumn /\ EntailColumn \in Nat
    BY <1>8, ReadoutAssumption DEF BatchOf, Width, Pointed
  <1>11. /\ m.value = [i \in DOMAIN e |-> RowOf(out.value, i - 1)[EntailColumn]]
         /\ ~(out.value.shape[2] < EntailColumn)
    BY DEF Entailments, Ok, Err
  <1>12. out.value.shape = <<n, EntailColumn>> /\ EntailColumn # 0
    <2>1. PICK rows, width : /\ rows = BatchOf("nli", t) - (IF o = "short" THEN 1 ELSE 0)
                             /\ width = Width("nli", t) - (IF o = "narrow" THEN 1 ELSE 0)
      OBVIOUS
    <2>2. width # 0 /\ out.value.shape = <<rows, width>>
      <3>1. Produced(o, "nli", t).ok
        BY <1>9
      <3> QED
        BY <1>9, <2>1, <3>1, ProducedShape
    <2>3. out.value.shape[1] = rows /\ out.value.shape[2] = width
      BY <2>2
    <2>4. rows = n
      BY <1>9, <2>3
    <2>5. width = EntailColumn
      BY <1>10, <1>11, <2>1, <2>2, <2>3
    <2> QED
      BY <2>2, <2>4, <2>5
  <1>13. \A i \in 1 .. n : \A c \in 1 .. EntailColumn : RowOf(out.value, i - 1)[c] = Cell("nli", t, i - 1, c)
    <2>1. o \in Outcomes /\ out.ok /\ n \in Nat
      OBVIOUS
    <2> QED
      BY ONLY <2>1, <1>9, <1>10, <1>12, ProducedIs
  <1>14. ASSUME NEW i \in 1 .. n PROVE m.value[i].ids = e[i]
    <2>1. m.value[i] = Cell("nli", t, i - 1, EntailColumn)
      BY <1>1, <1>10, <1>11, <1>12, <1>13
    <2> QED
      BY <1>8, <2>1 DEF Cell
  <1> QED
    BY <1>1, <1>11, <1>14 DEF OwnPairs

LEMMA EntailmentIs ==
  ASSUME NEW keys, NEW masses, NEW zero, EntailmentDistribution(keys, masses, zero).ok
  PROVE  /\ Len(masses) = Len(keys)
         /\ EntailmentDistribution(keys, masses, zero).value =
               [i \in DOMAIN keys |-> [key |-> keys[i], of |-> masses[i].of, cell |-> masses[i].cell]]
  BY DEF EntailmentDistribution, Ok, Err

LEMMA NliDecided ==
  ASSUME NEW d, NEW e, IsSeq(d.options), NEW masses, NEW n \in Nat, n > 0, DOMAIN masses = 1 .. n,
         \A i \in 1 .. n : masses[i].ids = e[i],
         NEW r, r = NliDecide(d, masses, {}), r.ok
  PROVE  \A i \in DOMAIN r.value : r.value[i].cell.ids = IF d.kind = "boolean" THEN e[1] ELSE e[i]
  <1> DEFINE entailed == [i \in DOMAIN masses |-> [of |-> "entailed", cell |-> masses[i]]]
             split == <<entailed[1], [of |-> "rest", cell |-> masses[1]]>>
  <1>1. CASE d.kind # "boolean"
    <2>1. r = EntailmentDistribution(AnswersOf(d), entailed, {})
      BY <1>1 DEF NliDecide
    <2>2. entailed = [i \in 1 .. n |-> entailed[i]] /\ \A i \in 1 .. n : entailed[i].cell = masses[i]
      OBVIOUS
    <2> HIDE DEF entailed
    <2>3. PICK keys : keys = AnswersOf(d)
      OBVIOUS
    <2>4. r.value = [i \in DOMAIN keys |-> [key |-> keys[i], of |-> entailed[i].of, cell |-> entailed[i].cell]]
          /\ Len(entailed) = Len(keys)
      BY <2>1, <2>3, EntailmentIs
    <2>5. Len(entailed) = n
      BY <2>2, SequenceIs
    <2>6. DOMAIN keys = 1 .. n
      <3>1. IsSeq(keys)
        BY <1>1, <2>3, KeysAre DEF AnswersOf
      <3> QED
        BY <2>4, <2>5, <3>1, SequenceIs
    <2> QED
      BY <1>1, <2>2, <2>4, <2>6
  <1>2. CASE d.kind = "boolean"
    <2>1. PICK keys : keys = AnswersOf(d) /\ DOMAIN keys = 1 .. 2
      <3>1. AnswersOf(d) = <<"true", "false">>
        BY <1>2 DEF AnswersOf
      <3>2. DOMAIN AnswersOf(d) = 1 .. 2
        BY <3>1
      <3> QED
        BY <3>2
    <2>2. r = EntailmentDistribution(keys, split, {})
      BY <1>2, <2>1 DEF NliDecide, Err
    <2>3. split[1].cell = masses[1] /\ split[2].cell = masses[1]
      OBVIOUS
    <2> HIDE DEF split
    <2>4. r.value = [i \in DOMAIN keys |-> [key |-> keys[i], of |-> split[i].of, cell |-> split[i].cell]]
      BY <2>2, EntailmentIs
    <2>5. \A i \in 1 .. 2 : split[i].cell = masses[1]
      BY <2>3
    <2> QED
      BY <1>2, <2>1, <2>4, <2>5
  <1> QED
    BY <1>1, <1>2

LEMMA ProductIs ==
  ASSUME NEW a \in Nat, NEW b \in Nat, NEW c \in Nat
  PROVE  Product(<<a, b, c>>) = a * b * c
  <1> DEFINE s == <<a, b, c>>
             next == [i \in 1 .. 3 |-> [v \in Nat |-> v * s[i]]]
             Is(p) == p = [i \in 0 .. 3 |-> IF i = 0 THEN 1 ELSE p[i - 1] * s[i]]
             P == CHOOSE p : Is(p)
  <1>1. Len(s) = 3 /\ \A i \in 1 .. 3 : s[i] \in Nat
    OBVIOUS
  <1>2. next \in [1 .. 3 -> [Nat -> Nat]]
    BY <1>1
  <1>3. PICK f \in [0 .. 3 -> Nat] : Follows(f, 3, 1, next)
    <2> HIDE DEF next
    <2> QED
      BY <1>2, RecursionUpTo
  <1>4. Is(f)
    <2>1. \A i \in 0 .. 3 : f[i] = IF i = 0 THEN 1 ELSE f[i - 1] * s[i]
      <3> SUFFICES ASSUME NEW i \in 0 .. 3, i # 0 PROVE f[i] = f[i - 1] * s[i]
        BY <1>3 DEF Follows
      <3>1. i \in 1 .. 3 /\ i - 1 \in 0 .. 3
        OBVIOUS
      <3>2. f[i] = next[i][f[i - 1]] /\ f[i - 1] \in Nat
        BY <1>3, <3>1 DEF Follows
      <3> HIDE DEF s
      <3> QED
        BY <3>1, <3>2
    <2> HIDE DEF s
    <2> QED
      BY <2>1
  <1>5. Is(P)
    <2> HIDE DEF Is
    <2> QED
      BY <1>4
  <1>6. Product(s) = P[3]
    <2> HIDE DEF s
    <2> QED
      BY <1>1 DEF Product
  <1> HIDE DEF P
  <1>7. P[0] = 1 /\ P[1] = P[0] * s[1] /\ P[2] = P[1] * s[2] /\ P[3] = P[2] * s[3]
    <2> HIDE DEF s
    <2> QED
      BY <1>5
  <1>8. P[1] = a /\ P[2] = a * b
    BY <1>7
  <1> QED
    BY <1>6, <1>7, <1>8

\* A number in base S, two digits taken off.
LEMMA Digits ==
  ASSUME NEW m \in Nat, NEW S \in Nat, S > 0
  PROVE  /\ m \div S \in Nat /\ m \div (S * S) \in Nat /\ m % S \in 0 .. S - 1 /\ (m \div S) % S \in 0 .. S - 1
         /\ m = (m \div (S * S)) * (S * S) + ((m \div S) % S) * S + (m % S)
  <1>1. PICK b \in Nat, x \in 0 .. S - 1 : b = m \div S /\ x = m % S /\ m = b * S + x
    <2>1. m \div S \in Nat /\ m % S \in 0 .. S - 1 /\ m = (m \div S) * S + (m % S)
      OBVIOUS
    <2> QED
      BY <2>1
  <1>2. PICK q \in Nat, y \in 0 .. S - 1 : q = b \div S /\ y = b % S /\ b = q * S + y
    <2>1. b \div S \in Nat /\ b % S \in 0 .. S - 1 /\ b = (b \div S) * S + (b % S)
      OBVIOUS
    <2> QED
      BY <2>1
  <1>3. PICK W \in Nat, r \in Nat : W = S * S /\ r = y * S + x /\ r + 1 \in 1 .. W
    <2>1. S * S \in Nat /\ y * S + x \in Nat
      OBVIOUS
    <2>2. y * S + x < S * S
      <3>1. PICK d \in Nat : S = y + 1 + d
        <4>1. S - y - 1 \in Nat /\ S = y + 1 + (S - y - 1)
          OBVIOUS
        <4> QED
          BY <4>1
      <3>2. (y + 1 + d) * S = y * S + S + d * S /\ d * S \in Nat
        OBVIOUS
      <3> QED
        BY <3>1, <3>2
    <2> QED
      BY <2>1, <2>2
  <1>4. m = q * W + r
    <2>1. (q * S + y) * S = q * (S * S) + y * S
      OBVIOUS
    <2> QED
      BY <1>1, <1>2, <1>3, <2>1
  <1>5. PICK c \in 1 .. W : c = r + 1
    BY <1>3
  <1>6. (q * W + c - 1) \div W = q
    BY Place
  <1>7. q * W + c - 1 = m
    BY <1>4, <1>5
  <1> QED
    BY <1>1, <1>2, <1>3, <1>4, <1>6, <1>7

\* The planes of an image show three colours, and every pixel of a colour once.
LEMMA PlanesAre ==
  ASSUME NEW name, NEW w, w.x \in Int, w.y \in Int, NEW S \in Nat, S > 0,
         NEW z, z = Planes(name, w, S)
  PROVE  /\ IsSeq(z) /\ Len(z) = 3 * S * S
         /\ {[of |-> p.of, colour |-> p.colour] : p \in ToSet(z)} = [of : {name}, colour : 0 .. 2]
         /\ Cardinality(ToSet(z)) = 3 * S * S
  <1>1. PICK N \in Nat, W \in Nat : W = S * S /\ W > 0 /\ N = 3 * S * S /\ N = 3 * W
    <2>1. S * S \in Nat /\ S * S > 0 /\ 3 * S * S = 3 * (S * S)
      OBVIOUS
    <2> QED
      BY <2>1
  <1> DEFINE colour(n) == (n - 1) \div W
             x(n) == (n - 1) % S
             y(n) == ((n - 1) \div S) % S
  <1>2. z = [n \in 1 .. N |-> [of |-> name, colour |-> colour(n), x |-> w.x + x(n), y |-> w.y + y(n)]]
    BY <1>1 DEF Planes
  <1>3. IsSeq(z) /\ Len(z) = N /\ DOMAIN z = 1 .. N
    <2>1. z = [n \in 1 .. N |-> z[n]]
      BY <1>2
    <2> QED
      BY <2>1, SequenceIs
  <1>4. ASSUME NEW n \in 1 .. N
        PROVE  /\ colour(n) \in 0 .. 2 /\ x(n) \in Nat /\ y(n) \in Nat
               /\ n = colour(n) * W + y(n) * S + x(n) + 1
    <2>1. PICK m \in Nat : m = n - 1
      OBVIOUS
    <2>2. /\ m \div (S * S) \in Nat /\ m % S \in 0 .. S - 1 /\ (m \div S) % S \in 0 .. S - 1
          /\ m = (m \div (S * S)) * (S * S) + ((m \div S) % S) * S + (m % S)
      BY Digits
    <2>3. m < 3 * W
      BY <1>1, <2>1
    <2>4. m \div W \in 0 .. 2
      <3>1. PICK q \in Nat, r \in Nat : q = m \div W /\ m = q * W + r
        <4>1. m \div W \in Nat /\ m % W \in Nat /\ m = (m \div W) * W + (m % W)
          BY <1>1
        <4> QED
          BY <4>1
      <3>2. q < 3
        <4> SUFFICES ASSUME q >= 3 PROVE FALSE
          OBVIOUS
        <4>1. PICK d \in Nat : q = 3 + d
          <5>1. q - 3 \in Nat /\ q = 3 + (q - 3)
            OBVIOUS
          <5> QED
            BY <5>1
        <4>2. (3 + d) * W = 3 * W + d * W /\ d * W \in Nat
          OBVIOUS
        <4> QED
          BY <2>3, <3>1, <4>1, <4>2
      <3> QED
        BY <3>1, <3>2
    <2> QED
      BY <1>1, <2>1, <2>2, <2>4
  <1>5. ASSUME NEW c \in 0 .. 2 PROVE \E n \in 1 .. N : colour(n) = c
    <2>1. c * W + 1 \in 1 .. N
      BY <1>1
    <2>2. 1 \in 1 .. W
      BY <1>1
    <2>3. (c * W + 1 - 1) \div W = c
      BY <2>2, Place
    <2>4. PICK n \in 1 .. N : n = c * W + 1
      BY <2>1
    <2> QED
      BY <2>3, <2>4
  <1> HIDE DEF colour, x, y
  <1>6. ASSUME NEW n \in 1 .. N, NEW k \in 1 .. N, z[n] = z[k] PROVE n = k
    <2>1. colour(n) = colour(k) /\ w.x + x(n) = w.x + x(k) /\ w.y + y(n) = w.y + y(k)
      <3>1. z[n].colour = z[k].colour /\ z[n].x = z[k].x /\ z[n].y = z[k].y
        BY <1>6
      <3> QED
        BY <1>2, <3>1
    <2>2. x(n) = x(k) /\ y(n) = y(k)
      <3>1. PICK u \in Int, v \in Int : u = w.x /\ v = w.y
        OBVIOUS
      <3>2. x(n) \in Nat /\ x(k) \in Nat /\ y(n) \in Nat /\ y(k) \in Nat
        BY <1>4
      <3> QED
        BY <2>1, <3>1, <3>2
    <2> QED
      BY <1>4, <2>1, <2>2
  <1>7. ToSet(z) = {z[n] : n \in 1 .. N}
    BY <1>3 DEF ToSet
  <1>8. {[of |-> p.of, colour |-> p.colour] : p \in ToSet(z)} = [of : {name}, colour : 0 .. 2]
    <2>1. \A n \in 1 .. N : z[n].of = name /\ z[n].colour = colour(n)
      BY <1>2
    <2>2. \A p \in ToSet(z) : [of |-> p.of, colour |-> p.colour] \in [of : {name}, colour : 0 .. 2]
      BY <1>4, <1>7, <2>1
    <2>3. ASSUME NEW q \in [of : {name}, colour : 0 .. 2]
          PROVE  \E p \in ToSet(z) : [of |-> p.of, colour |-> p.colour] = q
      <3>1. q.colour \in 0 .. 2 /\ q.of = name /\ q = [of |-> q.of, colour |-> q.colour]
        OBVIOUS
      <3>2. PICK n \in 1 .. N : colour(n) = q.colour
        BY <1>5, <3>1
      <3>3. z[n] \in ToSet(z) /\ z[n].of = q.of /\ z[n].colour = q.colour
        BY <1>7, <2>1, <3>1, <3>2
      <3> QED
        BY <3>1, <3>3
    <2> QED
      BY <2>2, <2>3
  <1>9. Cardinality(ToSet(z)) = N
    <2>1. z \in Bijection(1 .. N, ToSet(z))
      <3>1. z \in [1 .. N -> ToSet(z)]
        BY <1>2, <1>7
      <3>2. z \in Injection(1 .. N, ToSet(z))
        BY <1>6, <3>1 DEF Injection, IsInjective
      <3>3. z \in Surjection(1 .. N, ToSet(z))
        BY <1>7, <3>1 DEF Surjection
      <3> QED
        BY <3>2, <3>3 DEF Bijection
    <2>2. ExistsBijection(1 .. N, ToSet(z))
      BY <2>1 DEF ExistsBijection
    <2>3. IsFiniteSet(1 .. N) /\ Cardinality(1 .. N) = N
      BY Intervals
    <2> QED
      BY <2>2, <2>3, FS_Bijection
  <1> QED
    BY <1>1, <1>3, <1>8, <1>9

LEMMA WindowPlaced ==
  ASSUME NEW width \in Nat, NEW height \in Nat, NEW side \in Nat, Window(width, height, side).ok
  PROVE  Window(width, height, side).value.x \in Nat /\ Window(width, height, side).value.y \in Nat
  <1> DEFINE long == IF width <= height THEN Scaled(height, width, side) ELSE Scaled(width, height, side)
             w == IF width <= height THEN side ELSE long.value
             h == IF width <= height THEN long.value ELSE side
             middle(edge) == Max({edge - side, 0}) \div 2
             r == Window(width, height, side)
  <1>1. r = IF ~long.ok THEN long
            ELSE IF w > MaxEdge \/ h > MaxEdge THEN Err("contract")
            ELSE Ok([width |-> w, height |-> h, x |-> middle(w), y |-> middle(h)])
    BY DEF Window
  <1>2. long.ok /\ r.value = [width |-> w, height |-> h, x |-> middle(w), y |-> middle(h)]
    <2> HIDE DEF long, w, h, middle
    <2>1. r.ok
      OBVIOUS
    <2> HIDE DEF r
    <2> QED
      BY <1>1, <2>1 DEF Ok, Err
  <1>3. long.value \in Nat
    <2>1. CASE width <= height
      BY <1>2, <2>1, ScaledCovers
    <2>2. CASE ~(width <= height)
      BY <1>2, <2>2, ScaledCovers
    <2> QED
      BY <2>1, <2>2
  <1>4. ASSUME NEW edge \in Nat PROVE middle(edge) \in Nat
    <2>1. PICK d \in Int : d = edge - side
      OBVIOUS
    <2>2. Max({d, 0}) = IF d >= 0 THEN d ELSE 0
      BY GreaterIs
    <2>3. PICK g \in Nat : g = Max({d, 0})
      BY <2>2
    <2>4. g \div 2 \in Nat
      OBVIOUS
    <2> QED
      BY <2>1, <2>3, <2>4
  <1>5. w \in Nat /\ h \in Nat
    BY <1>3
  <1> HIDE DEF w, h, long, middle, r
  <1>6. r.value.x \in Nat /\ r.value.y \in Nat
    BY <1>2, <1>4, <1>5
  <1> QED
    BY <1>6 DEF r

OwnPixels(pixels, name) ==
    /\ {[of |-> p.of, colour |-> p.colour] : p \in ToSet(pixels)} = [of : {name}, colour : 0 .. 2]
    /\ Cardinality(ToSet(pixels)) = 3 * Side * Side

\* The pixels that the embedding of one image is computed from.
LEMMA PlanesInTensor ==
  ASSUME NEW n \in Nat, n > 0, NEW e, DOMAIN e = 1 .. n, Len(e) = n,
         \A i \in 1 .. n : e[i].width \in Nat /\ e[i].height \in Nat,
         PixelTensors(e, Side).ok, NEW t, t = PixelTensors(e, Side).value
  PROVE  /\ t.pixel_values.shape[1] = n
         /\ \A i \in 1 .. n : OwnPixels(Attended("pixels", t, i - 1), e[i].name)
  <1> DEFINE window(i) == Window(e[i].width, e[i].height, Side)
             planes == [i \in 1 .. n |-> Planes(e[i].name, window(i).value, Side)]
  <1>1. PICK shape, data : shape = <<n, 3, Side, Side>> /\ data = FlattenSeq(planes)
    OBVIOUS
  <1>2. (\A i \in 1 .. n : window(i).ok) /\ PixelTensors(e, Side) = Together([pixel_values |-> Tensor(shape, data)])
    <2> HIDE DEF OwnPixels
    <2>1. \A i \in 1 .. n : window(i).ok
      BY DEF PixelTensors, Err
    <2> QED
      BY <1>1, <2>1 DEF PixelTensors, Err
  <1>3. PICK x : x = Tensor(shape, data)
    OBVIOUS
  <1>4. t.pixel_values = x.value /\ x.ok
    <2>1. PICK all : all = [pixel_values |-> x]
      OBVIOUS
    <2>2. DOMAIN all = {"pixel_values"} /\ all["pixel_values"] = x
      BY <2>1
    <2>3. PixelTensors(e, Side) = Together(all)
      BY <1>2, <1>3, <2>1
    <2>4. \A name \in DOMAIN all : all[name].ok /\ t[name] = all[name].value
      BY <2>3, TogetherIs
    <2> QED
      BY <2>2, <2>4
  <1>5. t.pixel_values = [shape |-> shape, data |-> data] /\ Side # 0
    <2>1. x.value = [shape |-> shape, data |-> data] /\ \A i \in DOMAIN shape : shape[i] # 0
      BY <1>3, <1>4, TensorIs
    <2>2. 3 \in DOMAIN shape /\ shape[3] = Side
      BY <1>1
    <2> QED
      BY <1>4, <2>1, <2>2
  <1>6. PICK S \in Nat, P \in Nat : S = Side /\ S > 0 /\ P = 3 * S * S
    BY <1>5, SideAssumption
  <1>7. ASSUME NEW i \in 1 .. n
        PROVE  IsSeq(planes[i]) /\ Len(planes[i]) = P /\ OwnPixels(planes[i], e[i].name)
    <2>1. PICK w : w = window(i).value /\ w.x \in Int /\ w.y \in Int
      <3>1. e[i].width \in Nat /\ e[i].height \in Nat /\ Side \in Nat /\ Window(e[i].width, e[i].height, Side).ok
        BY <1>2, SideAssumption
      <3>2. window(i).value.x \in Nat /\ window(i).value.y \in Nat
        BY ONLY <3>1, WindowPlaced
      <3> HIDE DEF window
      <3> QED
        BY <3>2
    <2>2. PICK z, name : z = planes[i] /\ name = e[i].name /\ z = Planes(name, w, S)
      BY <1>6, <2>1
    <2>3. /\ IsSeq(z) /\ Len(z) = 3 * S * S
          /\ {[of |-> p.of, colour |-> p.colour] : p \in ToSet(z)} = [of : {name}, colour : 0 .. 2]
          /\ Cardinality(ToSet(z)) = 3 * S * S
      <3>1. w.x \in Int /\ w.y \in Int /\ S \in Nat /\ S > 0 /\ z = Planes(name, w, S)
        BY <1>6, <2>1, <2>2
      <3>2. IsSeq(z) /\ Len(z) = 3 * S * S
        BY ONLY <3>1, PlanesAre
      <3>3. /\ {[of |-> p.of, colour |-> p.colour] : p \in ToSet(z)} = [of : {name}, colour : 0 .. 2]
            /\ Cardinality(ToSet(z)) = 3 * S * S
        BY ONLY <3>1, PlanesAre
      <3> QED
        BY <3>2, <3>3
    <2> QED
      BY <1>6, <2>2, <2>3 DEF OwnPixels
  <1>8. Rows(planes, n) /\ FirstOf(planes, n) = planes
    BY <1>7 DEF Rows, FirstOf
  <1>9. IsSeq(data) /\ Len(data) = n * P /\ \A i \in 1 .. n, c \in 1 .. P : data[(i - 1) * P + c] = planes[i][c]
    <2>1. /\ n \in Nat /\ P \in Nat
          /\ data = FlattenSeq(FirstOf(planes, n)) /\ Rows(planes, n) /\ \A i \in 1 .. n : Len(planes[i]) = P
      BY <1>1, <1>7, <1>8 DEF planes
    <2>2. PICK rows : rows = planes
      OBVIOUS
    <2> HIDE DEF planes
    <2>3. /\ n \in Nat /\ P \in Nat
          /\ data = FlattenSeq(FirstOf(rows, n)) /\ Rows(rows, n) /\ \A i \in 1 .. n : Len(rows[i]) = P
      BY <2>1, <2>2
    <2>4. InRows(data, rows, n, P)
      BY ONLY <2>3, FlatRows
    <2> QED
      BY <2>2, <2>4 DEF InRows
  <1> HIDE DEF planes
  <1>10. Product(Tail(t.pixel_values.shape)) = P
    <2>1. Tail(shape) = <<3, S, S>>
      BY <1>1, <1>6
    <2>2. Product(<<3, S, S>>) = 3 * S * S
      BY ProductIs
    <2>3. t.pixel_values.shape = shape
      BY <1>5
    <2> QED
      BY <1>6, <2>1, <2>2, <2>3
  <1>11. PICK flat : flat.shape = <<n, P>> /\ flat.data = data
    <2>1. [shape |-> <<n, P>>, data |-> data].shape = <<n, P>> /\ [shape |-> <<n, P>>, data |-> data].data = data
      OBVIOUS
    <2> QED
      BY <2>1
  <1>12. ASSUME NEW i \in 1 .. n PROVE OwnPixels(Attended("pixels", t, i - 1), e[i].name)
    <2>1. Attended("pixels", t, i - 1) = RowOf(flat, i - 1)
      <3>1. t.pixel_values.data = data /\ flat.shape[2] = P
        BY <1>5, <1>11
      <3> QED
        BY <1>10, <1>11, <3>1 DEF Attended, RowOf
    <2>2. n \in Nat /\ P \in Nat /\ i \in 1 .. n /\ flat.shape = <<n, P>> /\ IsSeq(flat.data) /\ Len(flat.data) = n * P
      BY <1>9, <1>11
    <2>3. RowCells(flat, i, P)
      BY ONLY <2>2, RowIs
    <2>4. /\ IsSeq(RowOf(flat, i - 1)) /\ Len(RowOf(flat, i - 1)) = P
          /\ \A c \in 1 .. P : RowOf(flat, i - 1)[c] = flat.data[(i - 1) * P + c]
      BY <2>3 DEF RowCells
    <2>5. PICK a, b : a = RowOf(flat, i - 1) /\ b = planes[i]
      OBVIOUS
    <2>6. IsSeq(a) /\ IsSeq(b) /\ Len(a) = Len(b) /\ \A c \in 1 .. Len(a) : a[c] = b[c]
      <3>1. IsSeq(a) /\ Len(a) = P /\ \A c \in 1 .. P : a[c] = data[(i - 1) * P + c]
        BY <1>11, <2>4, <2>5
      <3>2. IsSeq(b) /\ Len(b) = P
        BY <1>7, <2>5
      <3>3. \A c \in 1 .. P : data[(i - 1) * P + c] = b[c]
        BY <1>9, <2>5
      <3> QED
        BY ONLY <3>1, <3>2, <3>3
    <2>7. a = b
      BY <2>6, SameSequence
    <2> QED
      BY <1>7, <2>1, <2>5, <2>7
  <1>13. t.pixel_values.shape[1] = n
    BY <1>1, <1>5
  <1> QED
    BY <1>12, <1>13

\* An image is embedded from its own pixels.
LEMMA PixelsOwn ==
  ASSUME NEW n \in Nat, n > 0, NEW e, DOMAIN e = 1 .. n, Len(e) = n,
         \A i \in 1 .. n : e[i].width \in Nat /\ e[i].height \in Nat,
         PixelTensors(e, Side).ok, NEW t, t = PixelTensors(e, Side).value,
         NEW o \in Outcomes, NEW out, out = VisionInfer(o, t), out.ok,
         NEW r, r = PooledRows(e, out.value), r.ok
  PROVE  \A i \in 1 .. n, k \in 1 .. Dims : OwnPixels(r.value[i][k].ids, e[i].name)
  <1>1. t.pixel_values.shape[1] = n /\ \A i \in 1 .. n : OwnPixels(Attended("pixels", t, i - 1), e[i].name)
    BY PlanesInTensor
  <1>2. out = Produced(o, "pixels", t)
    BY DEF VisionInfer, Checked, Err
  <1>3. out.value.shape = <<n, Dims>> /\ r.value = [i \in 1 .. n |-> RowOf(out.value, i - 1)]
    BY DEF PooledRows, Ok, Err
  <1>4. BatchOf("pixels", t) = n /\ Width("pixels", t) = Dims /\ Dims \in Nat
    BY <1>1, ReadoutAssumption DEF BatchOf, Width, Pointed
  <1>5. \A i \in 1 .. n : \A c \in 1 .. Dims : RowOf(out.value, i - 1)[c] = Cell("pixels", t, i - 1, c)
    <2>1. o \in Outcomes /\ out.ok /\ n \in Nat
      OBVIOUS
    <2> QED
      BY ONLY <2>1, <1>2, <1>3, <1>4, ProducedIs
  <1> SUFFICES ASSUME NEW i \in 1 .. n, NEW k \in 1 .. Dims PROVE OwnPixels(r.value[i][k].ids, e[i].name)
    OBVIOUS
  <1>6. r.value[i][k] = Cell("pixels", t, i - 1, k)
    BY <1>3, <1>5
  <1>7. r.value[i][k].ids = Attended("pixels", t, i - 1)
    BY <1>6 DEF Cell
  <1> QED
    BY <1>1, <1>7

LEMMA PreparationIs ==
  ASSUME NEW job, ~Vacuous(job), Preparation(job).ok
  PROVE  /\ Encodings(job).ok /\ TensorsOf(job, Encodings(job).value).ok
         /\ Preparation(job).value = [encoded |-> Encodings(job).value,
                                      tensors |-> TensorsOf(job, Encodings(job).value).value]
  <1>1. PICK E : E = Encodings(job)
    OBVIOUS
  <1>2. PICK T : T = TensorsOf(job, E.value)
    OBVIOUS
  <1>3. Preparation(job) = IF Backend(job).ok
                           THEN IF E.ok
                                THEN IF T.ok
                                     THEN IF ShapesFit(job, T.value)
                                          THEN Ok([encoded |-> E.value, tensors |-> T.value]) ELSE Err("tensor")
                                     ELSE T
                                ELSE E
                           ELSE Backend(job)
    BY <1>1, <1>2 DEF Preparation, Then
  <1>4. Backend(job).ok /\ E.ok /\ T.ok /\ ShapesFit(job, T.value)
    BY <1>3 DEF Err
  <1>5. Preparation(job).value = [encoded |-> E.value, tensors |-> T.value]
    BY <1>3, <1>4 DEF Ok
  <1> QED
    BY <1>1, <1>2, <1>4, <1>5

\* Where an answer of a call to a session comes from.
AnsweredFrom(c, e, t, o) ==
    /\ Job(c) \in UNION Batches /\ o \in Outcomes
    /\ Encodings(Job(c)).ok /\ e = Encodings(Job(c)).value /\ Encoded(c) = e
    /\ TensorsOf(Job(c), e).ok /\ t = TensorsOf(Job(c), e).value
    /\ Inferred(o, Job(c), t).ok /\ calls[c].reply = Read(Job(c), e, Inferred(o, Job(c), t)) /\ calls[c].reply.ok

LEMMA GoodCall ==
  ASSUME CallsInv, NEW c \in Callers, Good(c), Job(c).kind \in {"kai", "julia", "nli", "siglip", "pixels"},
         ~Vacuous(Job(c))
  PROVE  \E e, t, o : AnsweredFrom(c, e, t, o)
  <1>1. PICK job : job = Job(c) /\ job = calls[c].job
    BY DEF Job
  <1>2. SessionCall(calls[c]) /\ job \in UNION Batches
    BY <1>1 DEF CallsInv, AskedCall, NoCallAt, SessionCall
  <1>3. calls[c].at = "done" /\ calls[c].reply.ok /\ ~Vacuous(job)
    BY <1>1 DEF Good
  <1>4. PICK o \in Outcomes : /\ Prepared[job].ok /\ calls[c].prepared = Prepared[job].value
                              /\ calls[c].reply = Result[job][o]
    BY <1>1, <1>2, <1>3 DEF SessionCall
  <1>5. Prepared[job] = Preparation(job)
    BY <1>2 DEF Prepared
  <1>6. PICK e, t : e = Encodings(job).value /\ t = TensorsOf(job, e).value
    OBVIOUS
  <1>7. /\ Encodings(job).ok /\ TensorsOf(job, e).ok /\ Prepared[job].value = [encoded |-> e, tensors |-> t]
    BY <1>3, <1>4, <1>5, <1>6, PreparationIs
  <1>8. PICK p : p = Prepared[job].value /\ p.encoded = e /\ p.tensors = t
    BY <1>7
  <1>9. Result[job] = [x \in Outcomes |-> Read(job, p.encoded, Inferred(x, job, p.tensors))]
    <2> HIDE DEF Prepared
    <2>1. Result[job] = IF Prepared[job].ok
                        THEN IF Vacuous(job) THEN <<>>
                             ELSE [x \in Outcomes |-> Read(job, p.encoded, Inferred(x, job, p.tensors))]
                        ELSE Prepared[job]
      BY <1>2, <1>8 DEF Result, Then
    <2> QED
      BY <1>3, <1>4, <2>1
  <1>10. calls[c].reply = Read(job, e, Inferred(o, job, t))
    BY <1>4, <1>8, <1>9
  <1>11. Inferred(o, job, t).ok
    <2>1. PICK x : x = Inferred(o, job, t)
      OBVIOUS
    <2>2. Read(job, e, x).ok
      BY <1>3, <1>10, <2>1
    <2>3. ~x.ok => Read(job, e, x) = x
      BY DEF Read
    <2> QED
      BY <2>1, <2>2, <2>3
  <1>12. Encoded(c) = e
    BY <1>4, <1>8 DEF Encoded
  <1>13. AnsweredFrom(c, e, t, o)
    BY <1>1, <1>2, <1>3, <1>6, <1>7, <1>10, <1>11, <1>12 DEF AnsweredFrom
  <1> QED
    BY <1>13

\* Texts, and what they are joined to.
AllFit(texts) == IsSeq(texts) /\ \A i \in 1 .. Len(texts) : TextFits(texts[i])

LEMMA JoinedFits ==
  ASSUME NEW texts, AllFit(texts)
  PROVE  TextFits(Joined(texts))
  <1>1. PICK n \in Nat : n = Len(texts) /\ DOMAIN texts = 1 .. n
    BY SequenceIs DEF AllFit
  <1>2. PICK r : r = [i \in 1 .. n |-> texts[i].ids]
    OBVIOUS
  <1>3. Rows(r, n) /\ FirstOf(r, n) = r
    BY <1>1, <1>2 DEF Rows, FirstOf, AllFit, TextFits
  <1>4. PICK g : FlatFrom(g, r, n)
    BY <1>3, FlatIs
  <1>5. IsSeq(FlattenSeq(r))
    BY <1>3, <1>4 DEF FlatFrom
  <1>6. Joined(texts).ids = FlattenSeq(r)
    BY <1>1, <1>2 DEF Joined
  <1> QED
    BY <1>5, <1>6 DEF TextFits

LEMMA WordFits == \A w : TextFits(Word(w))
  BY SingleIs DEF TextFits, Word

LEMMA OneFits ==
  ASSUME NEW x, TextFits(x)
  PROVE  AllFit(<<x>>)
  BY SingleIs DEF AllFit

LEMMA BothFit ==
  ASSUME NEW a, NEW b, AllFit(a), AllFit(b)
  PROVE  AllFit(a \o b)
  <1>1. PICK m \in Nat, n \in Nat : m = Len(a) /\ n = Len(b)
    BY SequenceIs DEF AllFit
  <1>2. /\ IsSeq(a \o b) /\ Len(a \o b) = m + n /\ \A i \in 1 .. m : (a \o b)[i] = a[i]
        /\ \A i \in 1 .. n : (a \o b)[m + i] = b[i]
    BY <1>1, ConcatIs DEF AllFit
  <1>3. ASSUME NEW i \in 1 .. m + n PROVE TextFits((a \o b)[i])
    <2>1. CASE i <= m
      BY <1>1, <1>2, <2>1 DEF AllFit
    <2>2. CASE ~(i <= m)
      <3>1. PICK j \in 1 .. n : i = m + j
        <4>1. i - m \in 1 .. n /\ i = m + (i - m)
          BY <2>2
        <4> QED
          BY <4>1
      <3> QED
        BY <1>1, <1>2, <3>1 DEF AllFit
    <2> QED
      BY <2>1, <2>2
  <1> QED
    BY <1>2, <1>3 DEF AllFit

\* The options a question is asked with.
LEMMA OptionsFit ==
  ASSUME NEW d, DecisionFits(d), NEW words
  PROVE  /\ IsSeq(OptionsOf(d, words))
         /\ \A i \in 1 .. Len(OptionsOf(d, words)) :
               /\ DOMAIN OptionsOf(d, words)[i] = {"key", "text"}
               /\ TextFits(OptionsOf(d, words)[i].text)
  <1>1. PICK n \in Nat : n = Len(d.options) /\ DOMAIN d.options = 1 .. n
    BY SequenceIs DEF DecisionFits
  <1>2. \A i \in 1 .. n : DOMAIN d.options[i] = {"key", "text"} /\ TextFits(d.options[i].text)
    BY <1>1 DEF DecisionFits, ToSet
  <1>3. CASE d.kind = "choice"
    <2>1. OptionsOf(d, words) = d.options
      BY <1>3 DEF OptionsOf
    <2> QED
      BY <1>1, <1>2, <2>1 DEF DecisionFits
  <1>4. CASE d.kind = "score"
    <2>1. OptionsOf(d, words) = [i \in 1 .. n |-> [d.options[i] EXCEPT !.key = ToString(i - 1)]]
      BY <1>1, <1>4 DEF OptionsOf
    <2>2. PICK z : z = OptionsOf(d, words)
      OBVIOUS
    <2>3. /\ z = [i \in 1 .. n |-> z[i]]
          /\ \A i \in 1 .. n : z[i] = [d.options[i] EXCEPT !.key = ToString(i - 1)]
      BY <2>1, <2>2
    <2>4. IsSeq(z) /\ Len(z) = n
      BY <2>3, SequenceIs
    <2>5. \A i \in 1 .. n : DOMAIN z[i] = {"key", "text"} /\ z[i].text = d.options[i].text
      BY <1>2, <2>3
    <2> QED
      BY <1>2, <2>2, <2>4, <2>5
  <1>5. CASE d.kind = "boolean"
    <2>1. OptionsOf(d, words) = [i \in 1 .. 2 |-> [key |-> NoulKeys[i], text |-> Word(words[i])]]
      BY <1>5 DEF OptionsOf
    <2>2. PICK z : z = OptionsOf(d, words)
      OBVIOUS
    <2>3. /\ z = [i \in 1 .. 2 |-> z[i]]
          /\ \A i \in 1 .. 2 : z[i] = [key |-> NoulKeys[i], text |-> Word(words[i])]
      BY <2>1, <2>2
    <2>4. IsSeq(z) /\ Len(z) = 2
      BY <2>3, SequenceIs
    <2>5. \A i \in 1 .. 2 : DOMAIN z[i] = {"key", "text"} /\ z[i].text = Word(words[i])
      BY <2>3
    <2> QED
      BY <2>2, <2>4, <2>5, WordFits
  <1> QED
    BY <1>3, <1>4, <1>5 DEF DecisionFits

QuestionFits(q) ==
    /\ TextFits(q.state) /\ TextFits(q.text) /\ IsSeq(q.options)
    /\ \A i \in 1 .. Len(q.options) : TextFits(q.options[i].text)

LEMMA KaiSegmentsFit ==
  ASSUME NEW q, QuestionFits(q)
  PROVE  AllFit(KaiSegments(q))
  <1>1. PICK n \in Nat : n = Len(q.options) /\ DOMAIN q.options = 1 .. n
    BY SequenceIs DEF QuestionFits
  <1> DEFINE head == <<Word("Context:"), q.state, Word(q.kind), q.text, Word("Options:")>>
             described(i) == IF q.options[i].text.blank THEN <<>> ELSE <<q.options[i].text>>
             line(i) == (<<Word("<option>"), Word(q.options[i].key)>> \o described(i)) \o <<Word("</option>")>>
             lines == [i \in 1 .. n |-> Joined(line(i))]
  <1>2. AllFit(head)
    <2>1. head = [i \in 1 .. 5 |-> head[i]] /\ \A i \in 1 .. 5 : TextFits(head[i])
      <3>1. \A i \in 1 .. 5 : head[i] \in {Word("Context:"), q.state, Word(q.kind), q.text, Word("Options:")}
        OBVIOUS
      <3>2. \A x \in {Word("Context:"), q.state, Word(q.kind), q.text, Word("Options:")} : TextFits(x)
        BY WordFits DEF QuestionFits
      <3>3. head = [i \in 1 .. 5 |-> head[i]]
        OBVIOUS
      <3> HIDE DEF head
      <3> QED
        BY <3>1, <3>2, <3>3
    <2> HIDE DEF head
    <2> QED
      BY <2>1, SequenceIs DEF AllFit
  <1>3. ASSUME NEW i \in 1 .. n PROVE TextFits(Joined(line(i)))
    <2>1. AllFit(<<Word("<option>"), Word(q.options[i].key)>>)
      <3>1. PICK a, b : a = Word("<option>") /\ b = Word(q.options[i].key) /\ TextFits(a) /\ TextFits(b)
        BY WordFits
      <3>2. PICK s : s = <<a, b>>
        OBVIOUS
      <3>3. s = [j \in 1 .. 2 |-> s[j]] /\ \A j \in 1 .. 2 : TextFits(s[j])
        BY <3>1, <3>2
      <3>4. IsSeq(s) /\ Len(s) = 2
        BY <3>3, SequenceIs
      <3> QED
        BY <3>1, <3>2, <3>3, <3>4 DEF AllFit
    <2>2. AllFit(described(i))
      <3>1. TextFits(q.options[i].text)
        BY <1>1 DEF QuestionFits
      <3>2. AllFit(<<>>)
        BY NothingIs DEF AllFit
      <3>3. AllFit(<<q.options[i].text>>)
        BY <3>1, OneFits
      <3> QED
        BY <3>2, <3>3
    <2>3. AllFit(<<Word("</option>")>>)
      BY WordFits, OneFits
    <2> HIDE DEF described
    <2>4. AllFit(<<Word("<option>"), Word(q.options[i].key)>> \o described(i))
      BY <2>1, <2>2, BothFit
    <2>5. AllFit(line(i))
      BY <2>3, <2>4, BothFit
    <2> HIDE DEF line
    <2> QED
      BY <2>5, JoinedFits
  <1>4. AllFit(lines)
    <2>1. PICK z : z = lines
      OBVIOUS
    <2>2. z = [i \in 1 .. n |-> z[i]] /\ \A i \in 1 .. n : TextFits(z[i])
      <3> HIDE DEF line
      <3> QED
        BY <1>3, <2>1
    <2>3. IsSeq(z) /\ Len(z) = n
      BY <2>2, SequenceIs
    <2> QED
      BY <2>1, <2>2, <2>3 DEF AllFit
  <1>5. AllFit(<<Joined(head)>>) /\ AllFit(<<Word("Decision:")>>)
    BY <1>2, JoinedFits, WordFits, OneFits
  <1>6. KaiSegments(q) = (<<Joined(head)>> \o lines) \o <<Word("Decision:")>>
    BY <1>1 DEF KaiSegments
  <1> HIDE DEF head, lines
  <1>7. AllFit(<<Joined(head)>> \o lines)
    BY <1>4, <1>5, BothFit
  <1>8. AllFit((<<Joined(head)>> \o lines) \o <<Word("Decision:")>>)
    BY <1>5, <1>7, BothFit
  <1> QED
    BY <1>6, <1>8

LEMMA KaiEncodeFits ==
  ASSUME NEW q, QuestionFits(q), KaiEncode(q).ok, NEW e, e = KaiEncode(q).value
  PROVE  IsSeq(e.ids) /\ IsSeq(e.keys) /\ IsSeq(e.option_pos) /\ Len(e.option_pos) = Len(e.keys)
  <1> DEFINE parts == KaiSegments(q)
             whole(n) == Joined(SubSeq(parts, 1, n)).ids
             ids == whole(Len(parts))
             pos == [i \in DOMAIN q.options |-> Len(whole(i + 1)) - 1]
             x == [ids |-> ids, keys |-> Keys(q.options), kind |-> q.kind, answer_pos |-> Len(ids) - 1,
                   option_pos |-> pos]
  <1>1. KaiValid(x) /\ e = x
    BY DEF KaiEncode, Ok, Err
  <1>2. e.ids = ids /\ e.keys = Keys(q.options) /\ e.option_pos = pos
    <2> HIDE DEF ids, pos
    <2> QED
      BY <1>1
  <1>3. PICK n \in Nat : n = Len(q.options) /\ DOMAIN q.options = 1 .. n
    BY SequenceIs DEF QuestionFits
  <1>4. IsSeq(pos) /\ Len(pos) = n
    <2>1. PICK z : z = pos
      OBVIOUS
    <2>2. z = [i \in 1 .. n |-> z[i]]
      BY <1>3, <2>1
    <2>3. IsSeq(z) /\ Len(z) = n
      BY <2>2, SequenceIs
    <2> QED
      BY <2>1, <2>3
  <1>5. IsSeq(Keys(q.options)) /\ Len(Keys(q.options)) = n
    BY <1>3, KeysAre DEF QuestionFits
  <1>6. IsSeq(ids)
    <2>1. AllFit(parts)
      BY KaiSegmentsFit
    <2> HIDE DEF parts
    <2>2. PICK m \in Nat : m = Len(parts) /\ IsSeq(parts)
      BY <2>1, SequenceIs DEF AllFit
    <2>3. /\ IsSeq(SubSeq(parts, 1, m)) /\ Len(SubSeq(parts, 1, m)) = m - 1 + 1
          /\ \A i \in 1 .. m - 1 + 1 : SubSeq(parts, 1, m)[i] = parts[1 + i - 1]
      <3>1. 1 \in 1 .. Len(parts) + 1 /\ m \in 0 .. Len(parts) /\ 1 <= m + 1
        BY <2>2
      <3> QED
        BY <2>2, <3>1, SubSeqIs
    <2>4. PICK s : s = SubSeq(parts, 1, m)
      OBVIOUS
    <2>5. IsSeq(s) /\ Len(s) = m /\ \A i \in 1 .. m : s[i] = parts[i]
      BY <2>3, <2>4
    <2>6. AllFit(s)
      BY <2>1, <2>2, <2>5 DEF AllFit
    <2>7. TextFits(Joined(s))
      BY <2>6, JoinedFits
    <2> QED
      BY <2>2, <2>4, <2>7 DEF TextFits
  <1> HIDE DEF ids, pos
  <1> QED
    BY <1>2, <1>4, <1>5, <1>6

LEMMA AllOkIs ==
  ASSUME NEW n \in Nat, NEW results, DOMAIN results = 1 .. n, AllOk(results).ok
  PROVE  /\ IsSeq(AllOk(results).value) /\ Len(AllOk(results).value) = n
         /\ \A i \in 1 .. n : results[i].ok /\ AllOk(results).value[i] = results[i].value
  <1>1. PICK z : z = AllOk(results).value
    OBVIOUS
  <1>2. z = [i \in 1 .. n |-> results[i].value] /\ \A i \in 1 .. n : results[i].ok
    BY <1>1 DEF AllOk, Ok, Err
  <1>3. z = [i \in 1 .. n |-> z[i]] /\ \A i \in 1 .. n : z[i] = results[i].value
    BY <1>2
  <1>4. IsSeq(z) /\ Len(z) = n
    BY <1>3, SequenceIs
  <1> QED
    BY <1>1, <1>2, <1>3, <1>4

LEMMA KaiEncodings ==
  ASSUME NEW job \in UNION Batches, job.kind = "kai", Encodings(job).ok, NEW e, e = Encodings(job).value,
         KaiTensors(e).ok
  PROVE  KaiFits(e, Len(job.asked)) /\ DOMAIN job.asked = 1 .. Len(job.asked)
  <1>1. PICK n \in Nat : n = Len(job.asked) /\ DOMAIN job.asked = 1 .. n
    BY JobAssumption, SequenceIs
  <1> DEFINE kai(q) == IF KaiQuestion(q.state, q.d).ok THEN KaiEncode(KaiQuestion(q.state, q.d).value)
                       ELSE KaiQuestion(q.state, q.d)
             results == [i \in 1 .. n |-> kai(job.asked[i])]
  <1>2. Encodings(job) = AllOk(results)
    BY <1>1 DEF Encodings
  <1>3. /\ IsSeq(e) /\ Len(e) = n
        /\ \A i \in 1 .. n : results[i].ok /\ e[i] = results[i].value
    <2>1. PICK z : z = results
      OBVIOUS
    <2>2. DOMAIN z = 1 .. n
      BY <2>1
    <2> HIDE DEF results
    <2>3. AllOk(z).ok /\ e = AllOk(z).value
      BY <1>2, <2>1
    <2>4. /\ IsSeq(AllOk(z).value) /\ Len(AllOk(z).value) = n
          /\ \A i \in 1 .. n : z[i].ok /\ AllOk(z).value[i] = z[i].value
      BY <2>2, <2>3, AllOkIs
    <2> QED
      BY <2>1, <2>3, <2>4
  <1>4. n > 0
    <2>1. e # <<>>
      BY DEF KaiTensors, Err
    <2>2. n # 0
      BY <1>3, <2>1, NothingIs, SameSequence
    <2> QED
      BY <2>2
  <1>5. ASSUME NEW i \in 1 .. n
        PROVE  IsSeq(e[i].ids) /\ IsSeq(e[i].keys) /\ IsSeq(e[i].option_pos) /\ Len(e[i].option_pos) = Len(e[i].keys)
    <2>1. PICK a : a = job.asked[i] /\ DecisionFits(a.d) /\ TextFits(a.state.text)
      BY <1>1, JobAssumption DEF ToSet
    <2>2. KaiQuestion(a.state, a.d).ok /\ KaiEncode(KaiQuestion(a.state, a.d).value).ok
          /\ e[i] = KaiEncode(KaiQuestion(a.state, a.d).value).value
      BY <1>3, <2>1
    <2>3. PICK q : q = KaiQuestion(a.state, a.d).value
      OBVIOUS
    <2>4. q = [state |-> a.state.text, text |-> a.d.text, kind |-> KindOf(a.d),
               options |-> OptionsOf(a.d, <<"No", "Yes">>)]
      BY <2>2, <2>3 DEF KaiQuestion, Ok, Err
    <2>5. QuestionFits(q)
      BY <2>1, <2>4, OptionsFit DEF QuestionFits, DecisionFits
    <2> QED
      BY <2>2, <2>3, <2>5, KaiEncodeFits
  <1> QED
    BY <1>1, <1>3, <1>4, <1>5 DEF KaiFits

LEMMA PairEncodedFits ==
  ASSUME NEW pair, IsSeq(pair.premise), IsSeq(pair.hypothesis)
  PROVE  IsSeq(PairEncoded(pair))
  <1> DEFINE a == Len(pair.premise)
             b == Len(pair.hypothesis)
             short == Min({a, b, MaxPair \div 2})
             of(swapped) == IF swapped = (a > b) THEN MaxPair - short ELSE short
             p == PairTruncated(pair)
  <1>1. a \in Nat /\ b \in Nat /\ MaxPair \in Nat /\ MaxPair \div 2 \in Nat /\ MaxPair \div 2 <= MaxPair
    BY SequenceIs, ReadoutAssumption
  <1>2. short \in Nat /\ short <= MaxPair
    <2>1. PICK x \in Nat, y \in Nat, z \in Nat : x = a /\ y = b /\ z = MaxPair \div 2 /\ z <= MaxPair
      BY <1>1
    <2>2. \E m \in {x, y, z} : \A k \in {x, y, z} : m <= k
      OBVIOUS
    <2>3. Min({x, y, z}) \in {x, y, z} /\ \A k \in {x, y, z} : Min({x, y, z}) <= k
      BY <2>2 DEF Min
    <2>4. Min({x, y, z}) \in Nat /\ Min({x, y, z}) <= z
      BY <2>3
    <2>5. short = Min({x, y, z})
      BY <2>1
    <2> HIDE DEF short
    <2> QED
      BY <1>1, <2>1, <2>4, <2>5
  <1> HIDE DEF short
  <1>3. of(TRUE) \in Nat /\ of(FALSE) \in Nat
    BY <1>1, <1>2
  <1> HIDE DEF of, a, b
  <1>4. /\ IsSeq(Cut(pair.premise, of(TRUE))) /\ IsSeq(Cut(pair.hypothesis, of(FALSE)))
    BY <1>3, CutIs
  <1>5. IsSeq(p.premise) /\ IsSeq(p.hypothesis)
    <2>1. p = IF a + b <= MaxPair THEN pair
              ELSE [premise |-> Cut(pair.premise, of(TRUE)), hypothesis |-> Cut(pair.hypothesis, of(FALSE))]
      BY DEF PairTruncated, of, a, b, short
    <2> HIDE DEF p
    <2> QED
      BY <1>4, <2>1
  <1> HIDE DEF p
  <1>6. IsSeq(p.premise \o <<"[SEP]">>)
    BY <1>5, SingleIs, ConcatIs
  <1>7. IsSeq((p.premise \o <<"[SEP]">>) \o p.hypothesis)
    BY <1>5, <1>6, ConcatIs
  <1> QED
    BY <1>7 DEF PairEncoded, p

LEMMA NliEncodings ==
  ASSUME NEW job \in UNION Batches, job.kind = "nli", NEW e, e = Encodings(job).value
  PROVE  IsSeq(e) /\ (\A i \in 1 .. Len(e) : IsSeq(e[i])) /\ IsSeq(job.asked[1].d.options)
  <1>1. PICK a : a = job.asked[1] /\ DecisionFits(a.d) /\ TextFits(a.state.text)
    <2>1. DOMAIN job.asked = 1 .. 1
      BY JobAssumption, SequenceIs
    <2>2. job.asked[1] \in ToSet(job.asked)
      BY <2>1 DEF ToSet
    <2> QED
      BY <2>2, JobAssumption
  <1>2. PICK pairs : pairs = PairsOf(a.state, a.d)
    OBVIOUS
  <1>3. e = [i \in DOMAIN pairs |-> PairEncoded(pairs[i])]
    BY <1>1, <1>2 DEF Encodings, Ok
  <1>4. PICK h : h = Hypotheses(a.d)
    OBVIOUS
  <1>5. PICK n \in Nat : DOMAIN h = 1 .. n /\ \A i \in 1 .. n : IsSeq(h[i])
    <2>1. CASE a.d.kind = "boolean"
      <3>1. h = <<a.d.text.ids>> /\ IsSeq(a.d.text.ids)
        BY <1>1, <1>4, <2>1 DEF Hypotheses, DecisionFits, TextFits
      <3>2. DOMAIN h = 1 .. 1 /\ h[1] = a.d.text.ids
        BY <3>1
      <3> QED
        BY <3>1, <3>2
    <2>2. CASE a.d.kind # "boolean"
      <3>1. PICK m \in Nat : DOMAIN a.d.options = 1 .. m
        BY <1>1, SequenceIs DEF DecisionFits
      <3>2. h = [i \in 1 .. m |-> a.d.options[i].text.ids]
        BY <1>4, <2>2, <3>1 DEF Hypotheses
      <3>3. \A i \in 1 .. m : IsSeq(a.d.options[i].text.ids)
        BY <1>1, <3>1 DEF DecisionFits, TextFits, ToSet
      <3> QED
        BY <3>2, <3>3
    <2> QED
      BY <2>1, <2>2
  <1>6. PICK s : s = Premise(a.state, a.d) /\ IsSeq(s)
    <2>1. IsSeq(a.state.text.ids) /\ IsSeq(a.d.text.ids)
      BY <1>1 DEF DecisionFits, TextFits
    <2>2. IsSeq(a.state.text.ids \o a.d.text.ids)
      BY <2>1, ConcatIs
    <2> QED
      BY <2>2 DEF Premise
  <1>7. pairs = [i \in 1 .. n |-> [premise |-> s, hypothesis |-> h[i]]]
    BY <1>2, <1>4, <1>5, <1>6 DEF PairsOf
  <1>8. \A i \in 1 .. n : pairs[i].premise = s /\ pairs[i].hypothesis = h[i]
    BY <1>7
  <1>9. \A i \in 1 .. n : IsSeq(PairEncoded(pairs[i]))
    BY <1>5, <1>6, <1>8, PairEncodedFits
  <1>10. e = [i \in 1 .. n |-> e[i]] /\ \A i \in 1 .. n : IsSeq(e[i])
    <2>1. e = [i \in 1 .. n |-> PairEncoded(pairs[i])]
      BY <1>3, <1>7
    <2> QED
      BY <1>9, <2>1
  <1>11. IsSeq(e) /\ Len(e) = n
    BY <1>10, SequenceIs
  <1> QED
    BY <1>1, <1>10, <1>11 DEF DecisionFits

\* Whatever is batched, each question is answered from its own cells
\* (collation in kai.rs, nli.rs and vision.rs, and the readouts).
THEOREM ReadingsStayOwn == Spec => []ReadingsAreOwn
  <1>1. CallsInv => ReadingsAreOwn
    <2> SUFFICES ASSUME CallsInv, NEW c \in Callers, Good(c)
                 PROVE  /\ Job(c).kind = "kai" =>
                              \A i \in DOMAIN Job(c).asked :
                                 LET e == Encoded(c)[i]
                                 IN  calls[c].reply.value[i] =
                                        [k \in DOMAIN e.keys |->
                                            [key |-> e.keys[k], bias |-> IF Biased(e.kind, Len(e.keys)) THEN k ELSE 0,
                                             cell |-> [ids |-> e.ids, pointer |-> e.option_pos[k], answer |-> e.answer_pos]]]
                        /\ Job(c).kind = "nli" =>
                              LET rows == Encoded(c)
                                  row(i) == IF Job(c).asked[1].d.kind = "boolean" THEN rows[1] ELSE rows[i]
                              IN  \A i \in DOMAIN calls[c].reply.value :
                                     calls[c].reply.value[i].cell.ids = row(i)
                        /\ Job(c).kind = "pixels" =>
                              \A i \in DOMAIN Job(c).asked, k \in 1 .. Dims :
                                 LET pixels == calls[c].reply.value[i][k].ids
                                 IN  /\ {[of |-> p.of, colour |-> p.colour] : p \in ToSet(pixels)}
                                           = [of : {Job(c).asked[i].name}, colour : 0 .. 2]
                                     /\ Cardinality(ToSet(pixels)) = 3 * Side * Side
      BY DEF ReadingsAreOwn
    <2>1. PICK job, reply : job = Job(c) /\ reply = calls[c].reply
      OBVIOUS
    <2>2. ASSUME job.kind = "kai", NEW i \in DOMAIN job.asked
          PROVE  reply.value[i] = OwnReading(Encoded(c)[i])
      <3>1. PICK e, t, o : AnsweredFrom(c, e, t, o)
        BY <2>1, <2>2, GoodCall DEF Vacuous
      <3>2. /\ job \in UNION Batches /\ Encodings(job).ok /\ e = Encodings(job).value /\ Encoded(c) = e
            /\ o \in Outcomes /\ KaiTensors(e).ok /\ t = KaiTensors(e).value
        BY <2>1, <2>2, <3>1 DEF AnsweredFrom, TensorsOf
      <3>3. PICK out : out = KaiInfer(o, t) /\ out.ok /\ reply = KaiReadings(e, out.value) /\ reply.ok
        BY <2>1, <2>2, <3>1 DEF AnsweredFrom, Inferred, Read
      <3>4. PICK n : n = Len(job.asked) /\ KaiFits(e, n) /\ DOMAIN job.asked = 1 .. n
        BY <2>2, <3>2, KaiEncodings
      <3>5. \A j \in 1 .. n : reply.value[j] = OwnReading(e[j])
        BY ONLY <3>2, <3>3, <3>4, KaiOwn
      <3> QED
        BY <2>2, <3>2, <3>4, <3>5
    <2>3. ASSUME job.kind = "nli", NEW i \in DOMAIN reply.value
          PROVE  reply.value[i].cell.ids = IF job.asked[1].d.kind = "boolean" THEN Encoded(c)[1] ELSE Encoded(c)[i]
      <3>1. PICK e, t, o : AnsweredFrom(c, e, t, o)
        BY <2>1, <2>3, GoodCall DEF Vacuous
      <3>2. /\ job \in UNION Batches /\ Encodings(job).ok /\ e = Encodings(job).value /\ Encoded(c) = e
            /\ o \in Outcomes /\ NliTensors(e).ok /\ t = NliTensors(e).value
        BY <2>1, <2>3, <3>1 DEF AnsweredFrom, TensorsOf
      <3>3. PICK out, m : /\ out = NliInfer(o, t) /\ out.ok /\ m = Entailments(e, out.value)
                          /\ reply = (IF m.ok THEN NliDecide(job.asked[1].d, m.value, {}) ELSE m) /\ reply.ok
        BY <2>1, <2>3, <3>1 DEF AnsweredFrom, Inferred, Read
      <3>4. m.ok /\ reply = NliDecide(job.asked[1].d, m.value, {})
        BY <3>3
      <3>5. IsSeq(e) /\ (\A j \in 1 .. Len(e) : IsSeq(e[j])) /\ IsSeq(job.asked[1].d.options)
        BY <2>3, <3>2, NliEncodings
      <3>6. OwnPairs(e, m)
        BY ONLY <3>2, <3>3, <3>4, <3>5, NliOwn
      <3>7. PICK n \in Nat : n = Len(e)
        BY <3>5, SequenceIs
      <3>8. PICK d, masses : d = job.asked[1].d /\ masses = m.value
        OBVIOUS
      <3>9. n > 0 /\ DOMAIN masses = 1 .. n /\ \A j \in 1 .. n : masses[j].ids = e[j]
        BY <3>6, <3>7, <3>8 DEF OwnPairs
      <3>10. \A j \in DOMAIN reply.value : reply.value[j].cell.ids = IF d.kind = "boolean" THEN e[1] ELSE e[j]
        BY <3>3, <3>4, <3>5, <3>8, <3>9, NliDecided
      <3> QED
        BY <2>3, <3>2, <3>8, <3>10
    <2>4. ASSUME job.kind = "pixels", NEW i \in DOMAIN job.asked, NEW k \in 1 .. Dims
          PROVE  OwnPixels(reply.value[i][k].ids, job.asked[i].name)
      <3>1. ~Vacuous(job)
        BY <2>4 DEF Vacuous
      <3>2. PICK e, t, o : AnsweredFrom(c, e, t, o)
        BY <2>1, <2>4, <3>1, GoodCall
      <3>3. job \in UNION Batches /\ Encodings(job) = Ok(job.asked) /\ e = job.asked
        BY <2>1, <2>4, <3>2 DEF AnsweredFrom, Encodings, Ok
      <3>4. o \in Outcomes /\ PixelTensors(e, Side).ok /\ t = PixelTensors(e, Side).value
        BY <2>1, <2>4, <3>2 DEF AnsweredFrom, TensorsOf
      <3>5. PICK out : out = VisionInfer(o, t) /\ out.ok /\ reply = PooledRows(e, out.value) /\ reply.ok
        BY <2>1, <2>4, <3>2 DEF AnsweredFrom, Inferred, Read
      <3>6. PICK n \in Nat : n = Len(e) /\ DOMAIN e = 1 .. n
        BY <2>4, <3>3, JobAssumption, SequenceIs
      <3>7. i \in 1 .. n /\ n > 0
        BY <2>4, <3>3, <3>6
      <3>8. \A j \in 1 .. n : e[j].width \in Nat /\ e[j].height \in Nat
        BY <2>4, <3>3, <3>6, JobAssumption DEF ToSet
      <3>9. \A j \in 1 .. n, x \in 1 .. Dims : OwnPixels(reply.value[j][x].ids, e[j].name)
        BY ONLY n \in Nat, <3>4, <3>5, <3>6, <3>7, <3>8, PixelsOwn
      <3> QED
        BY <3>3, <3>7, <3>9
    <2> QED
      BY <2>1, <2>2, <2>3, <2>4 DEF OwnReading, OwnCell, OwnPixels
  <1> QED
    BY <1>1, CallsInvariant, PTL

-----------------------------------------------------------------------------
(* Julia's prompt.                                                         *)

\* The part p stands in s behind the first m.
Holds(s, m, p) ==
    /\ IsSeq(s) /\ IsSeq(p) /\ m \in Nat /\ m + Len(p) <= Len(s)
    /\ \A j \in 1 .. Len(p) : s[m + j] = p[j]

LEMMA HeldPart ==
  ASSUME NEW s, NEW m, NEW p, Holds(s, m, p)
  PROVE  SubSeq(s, m + 1, (m + 1) + Len(p) - 1) = p
  <1>1. PICK n \in Nat, l \in Nat : n = Len(p) /\ l = Len(s) /\ m \in Nat /\ m + n <= l /\ IsSeq(s) /\ IsSeq(p)
    BY SequenceIs DEF Holds
  <1>2. m + 1 \in 1 .. l + 1 /\ m + n \in 0 .. l /\ m + 1 <= (m + n) + 1
    BY <1>1
  <1>3. PICK z : z = SubSeq(s, m + 1, m + n)
    OBVIOUS
  <1>4. IsSeq(z) /\ Len(z) = (m + n) - (m + 1) + 1
        /\ \A i \in 1 .. (m + n) - (m + 1) + 1 : z[i] = s[(m + 1) + i - 1]
    <2>1. /\ IsSeq(SubSeq(s, m + 1, m + n)) /\ Len(SubSeq(s, m + 1, m + n)) = (m + n) - (m + 1) + 1
          /\ \A i \in 1 .. (m + n) - (m + 1) + 1 : SubSeq(s, m + 1, m + n)[i] = s[(m + 1) + i - 1]
      <3>1. m + 1 \in 1 .. Len(s) + 1 /\ m + n \in 0 .. Len(s)
        BY <1>1, <1>2
      <3> QED
        BY <1>1, <1>2, <3>1, SubSeqIs
    <2> QED
      BY <1>3, <2>1
  <1>5. Len(z) = n /\ \A i \in 1 .. n : z[i] = p[i]
    <2>1. (m + n) - (m + 1) + 1 = n /\ \A i \in 1 .. n : (m + 1) + i - 1 = m + i
      BY <1>1
    <2> QED
      BY <1>1, <1>4, <2>1 DEF Holds
  <1>6. z = p
    BY <1>1, <1>4, <1>5, SameSequence
  <1>7. (m + 1) + n - 1 = m + n
    BY <1>1
  <1> QED
    BY <1>1, <1>3, <1>6, <1>7

LEMMA HeldWithMore ==
  ASSUME NEW s, NEW m, NEW p, Holds(s, m, p), NEW b, IsSeq(b)
  PROVE  Holds(s \o b, m, p) /\ Holds(b \o s, Len(b) + m, p)
  <1>1. PICK n \in Nat, l \in Nat, k \in Nat :
           n = Len(p) /\ l = Len(s) /\ k = Len(b) /\ m \in Nat /\ m + n <= l /\ IsSeq(s) /\ IsSeq(p)
    BY SequenceIs DEF Holds
  <1>2. \A j \in 1 .. n : s[m + j] = p[j] /\ m + j \in 1 .. l
    BY <1>1 DEF Holds
  <1>3. Holds(s \o b, m, p)
    <2>1. IsSeq(s \o b) /\ Len(s \o b) = l + k /\ \A i \in 1 .. l : (s \o b)[i] = s[i]
      BY <1>1, ConcatIs
    <2> QED
      BY <1>1, <1>2, <2>1 DEF Holds
  <1>4. Holds(b \o s, k + m, p)
    <2>1. IsSeq(b \o s) /\ Len(b \o s) = k + l /\ \A i \in 1 .. l : (b \o s)[k + i] = s[i]
      BY <1>1, ConcatIs
    <2>2. \A j \in 1 .. n : (b \o s)[(k + m) + j] = p[j]
      <3>1. \A j \in 1 .. n : (k + m) + j = k + (m + j)
        BY <1>1
      <3> QED
        BY <1>2, <2>1, <3>1
    <2> QED
      BY <1>1, <2>1, <2>2 DEF Holds
  <1> QED
    BY <1>1, <1>3, <1>4

LEMMA HeldInFlat ==
  ASSUME NEW n \in Nat, NEW r, Rows(r, n), NEW g, FlatFrom(g, r, n), NEW i \in 1 .. n
  PROVE  Holds(g[n], Len(g[i - 1]), r[i])
  <1> DEFINE T == {k \in 0 .. n : k >= i => Holds(g[k], Len(g[i - 1]), r[i])}
  <1>1. 0 \in T
    OBVIOUS
  <1>2. ASSUME NEW k \in 0 .. n, k > 0, k - 1 \in T PROVE k \in T
    <2>1. SUFFICES ASSUME k >= i PROVE Holds(g[k], Len(g[i - 1]), r[i])
      OBVIOUS
    <2>2. k \in 1 .. n /\ k - 1 \in 0 .. n
      BY <1>2
    <2>3. g[k] = g[k - 1] \o r[k] /\ IsSeq(r[k]) /\ IsSeq(g[k - 1])
      BY <2>2 DEF FlatFrom, Rows
    <2>4. CASE k = i
      <3>1. Holds(r[i], 0, r[i])
        BY <2>3, <2>4, SequenceIs DEF Holds
      <3>2. Holds(g[i - 1] \o r[i], Len(g[i - 1]) + 0, r[i])
        BY <2>3, <2>4, <3>1, HeldWithMore
      <3>3. Len(g[i - 1]) + 0 = Len(g[i - 1])
        BY <2>3, <2>4, SequenceIs
      <3> QED
        BY <2>3, <2>4, <3>2, <3>3
    <2>5. CASE k # i
      <3>1. Holds(g[k - 1], Len(g[i - 1]), r[i])
        BY <1>2, <2>1, <2>2, <2>5
      <3> QED
        BY <2>3, <3>1, HeldWithMore
    <2> QED
      BY <2>4, <2>5
  <1> HIDE DEF T
  <1>3. n \in T
    BY <1>1, <1>2, UpTo
  <1> QED
    BY <1>3 DEF T

LEMMA ReverseIs ==
  ASSUME NEW s, IsSeq(s)
  PROVE  /\ IsSeq(Reverse(s)) /\ Len(Reverse(s)) = Len(s)
         /\ \A i \in 1 .. Len(s) : Reverse(s)[i] = s[(Len(s) - i) + 1]
  <1>1. PICK n \in Nat : n = Len(s)
    BY SequenceIs
  <1>2. PICK z : z = Reverse(s)
    OBVIOUS
  <1>3. z = [i \in 1 .. n |-> s[(n - i) + 1]]
    BY <1>1, <1>2 DEF Reverse
  <1>4. z = [i \in 1 .. n |-> z[i]] /\ \A i \in 1 .. n : z[i] = s[(n - i) + 1]
    BY <1>3
  <1> QED
    BY <1>1, <1>2, <1>4, SequenceIs

LEMMA SuffixIs ==
  ASSUME NEW a, IsSeq(a), NEW b, IsSeq(b)
  PROVE  IsSuffix(b, a \o b)
  <1>1. PICK m \in Nat, n \in Nat : m = Len(a) /\ n = Len(b)
    BY SequenceIs
  <1>2. PICK t : t = a \o b
    OBVIOUS
  <1>3. IsSeq(t) /\ Len(t) = m + n /\ \A i \in 1 .. n : t[m + i] = b[i]
    BY <1>1, <1>2, ConcatIs
  <1>4. PICK x, y : x = Reverse(b) /\ y = Reverse(t)
    OBVIOUS
  <1>5. /\ IsSeq(x) /\ Len(x) = n /\ \A i \in 1 .. n : x[i] = b[(n - i) + 1]
    BY <1>1, <1>4, ReverseIs
  <1>6. IsSeq(y) /\ Len(y) = m + n /\ \A i \in 1 .. m + n : y[i] = t[((m + n) - i) + 1]
    <2>1. IsSeq(y) /\ Len(y) = Len(t) /\ \A i \in 1 .. Len(t) : y[i] = t[(Len(t) - i) + 1]
      BY <1>3, <1>4, ReverseIs
    <2>2. PICK k \in Nat : k = m + n
      OBVIOUS
    <2> QED
      BY <1>3, <2>1, <2>2
  <1>7. \A i \in 1 .. n : y[i] = x[i]
    <2> SUFFICES ASSUME NEW i \in 1 .. n PROVE y[i] = x[i]
      OBVIOUS
    <2>1. i \in 1 .. m + n /\ ((m + n) - i) + 1 = m + ((n - i) + 1) /\ (n - i) + 1 \in 1 .. n
      OBVIOUS
    <2>2. y[i] = t[m + ((n - i) + 1)]
      BY <1>6, <2>1
    <2> QED
      BY <1>3, <1>5, <2>1, <2>2
  <1>8. Holds(x, 0, x) /\ Holds(y, 0, x)
    BY <1>5, <1>6, <1>7 DEF Holds
  <1>9. SubSeq(x, 0 + 1, (0 + 1) + Len(x) - 1) = x /\ SubSeq(y, 0 + 1, (0 + 1) + Len(x) - 1) = x
    BY <1>8, HeldPart
  <1>10. 0 + 1 = 1 /\ (0 + 1) + Len(x) - 1 = Len(x)
    BY <1>5
  <1>11. IsPrefix(x, y)
    BY <1>5, <1>6, <1>9, <1>10 DEF IsPrefix
  <1> QED
    BY <1>2, <1>4, <1>11 DEF IsSuffix

LEMMA ConcatAgain ==
  ASSUME NEW a, IsSeq(a), NEW b, IsSeq(b), NEW c, IsSeq(c)
  PROVE  (a \o b) \o c = a \o (b \o c)
  <1>1. PICK l \in Nat, m \in Nat, n \in Nat : l = Len(a) /\ m = Len(b) /\ n = Len(c)
    BY SequenceIs
  <1>2. PICK x, y, u, v : x = a \o b /\ y = b \o c /\ u = x \o c /\ v = a \o y
    OBVIOUS
  <1>3. /\ IsSeq(x) /\ Len(x) = l + m /\ \A i \in 1 .. l : x[i] = a[i]
        /\ \A i \in 1 .. m : x[l + i] = b[i]
    BY <1>1, <1>2, ConcatIs
  <1>4. /\ IsSeq(y) /\ Len(y) = m + n /\ \A i \in 1 .. m : y[i] = b[i]
        /\ \A i \in 1 .. n : y[m + i] = c[i]
    BY <1>1, <1>2, ConcatIs
  <1>5. /\ IsSeq(u) /\ Len(u) = (l + m) + n /\ \A i \in 1 .. l + m : u[i] = x[i]
        /\ \A i \in 1 .. n : u[(l + m) + i] = c[i]
    BY <1>1, <1>2, <1>3, ConcatIs
  <1>6. /\ IsSeq(v) /\ Len(v) = l + (m + n) /\ \A i \in 1 .. l : v[i] = a[i]
        /\ \A i \in 1 .. m + n : v[l + i] = y[i]
    BY <1>1, <1>2, <1>4, ConcatIs
  <1>7. ASSUME NEW i \in 1 .. (l + m) + n PROVE u[i] = v[i]
    <2>1. CASE i <= l
      BY <1>3, <1>5, <1>6, <2>1
    <2>2. CASE i > l /\ i <= l + m
      <3>1. i - l \in 1 .. m /\ i = l + (i - l)
        BY <2>2
      <3>2. PICK j \in 1 .. m : i = l + j
        BY <3>1
      <3>3. u[i] = b[j]
        <4>1. u[i] = x[i]
          BY <1>5, <2>2
        <4> QED
          BY <1>3, <3>2, <4>1
      <3>4. j \in 1 .. m + n /\ y[j] = b[j]
        BY <1>4
      <3> QED
        BY <1>6, <3>2, <3>3, <3>4
    <2>3. CASE i > l + m
      <3>1. (i - l) - m \in 1 .. n /\ i = (l + m) + ((i - l) - m)
        BY <2>3
      <3>2. PICK j \in 1 .. n : i = (l + m) + j
        BY <3>1
      <3>3. u[i] = c[j] /\ y[m + j] = c[j]
        BY <1>4, <1>5, <3>2
      <3>4. m + j \in 1 .. m + n /\ i = l + (m + j)
        BY <3>2
      <3> QED
        BY <1>6, <3>3, <3>4
    <2> QED
      BY <2>1, <2>2, <2>3
  <1>8. u = v
    BY <1>5, <1>6, <1>7, SameSequence
  <1> QED
    BY <1>2, <1>8

LEMMA JuliaOptionsFit ==
  ASSUME NEW d, DecisionFits(d)
  PROVE  /\ IsSeq(JuliaOptions(d))
         /\ \A i \in 1 .. Len(JuliaOptions(d)) : TextFits(JuliaOptions(d)[i].text)
  <1>1. PICK o : o = OptionsOf(d, NoulKeys)
    OBVIOUS
  <1>2. IsSeq(o) /\ \A i \in 1 .. Len(o) : DOMAIN o[i] = {"key", "text"} /\ TextFits(o[i].text)
    BY <1>1, OptionsFit
  <1>3. PICK n \in Nat : n = Len(o) /\ DOMAIN o = 1 .. n
    BY <1>2, SequenceIs
  <1>4. PICK z : z = JuliaOptions(d)
    OBVIOUS
  <1>5. z = [i \in 1 .. n |-> IF d.kind = "choice" /\ o[i].text.blank
                              THEN [o[i] EXCEPT !.text = Word(o[i].key)] ELSE o[i]]
    BY <1>1, <1>3, <1>4 DEF JuliaOptions
  <1>6. z = [i \in 1 .. n |-> z[i]]
        /\ \A i \in 1 .. n : z[i] = IF d.kind = "choice" /\ o[i].text.blank
                                    THEN [o[i] EXCEPT !.text = Word(o[i].key)] ELSE o[i]
    BY <1>5
  <1>7. IsSeq(z) /\ Len(z) = n
    BY <1>6, SequenceIs
  <1>8. ASSUME NEW i \in 1 .. n PROVE TextFits(z[i].text)
    <2>1. PICK x : x = o[i] /\ DOMAIN x = {"key", "text"} /\ TextFits(x.text)
      BY <1>2, <1>3
    <2>2. PICK w : w = Word(x.key) /\ TextFits(w)
      BY WordFits
    <2>3. [x EXCEPT !.text = w].text = w
      BY <2>1
    <2>4. z[i] = [x EXCEPT !.text = w] \/ z[i] = x
      BY <1>6, <2>1, <2>2
    <2> QED
      BY <2>1, <2>2, <2>3, <2>4
  <1> QED
    BY <1>4, <1>7, <1>8

LEMMA PairIs ==
  ASSUME NEW a, NEW b
  PROVE  <<a>> \o <<b>> = <<a, b>>
  <1>1. PICK s : s = <<a, b>>
    OBVIOUS
  <1>2. s \in Seq({a, b}) /\ ToSet(s) = {a, b} /\ Len(s) = 2 /\ s[1] = a /\ s[2] = b
    BY <1>1 DEF ToSet
  <1>3. IsSeq(s)
    BY <1>2 DEF IsSeq
  <1>4. PICK t : t = <<a>> \o <<b>>
    OBVIOUS
  <1>5. IsSeq(<<a>>) /\ IsSeq(<<b>>) /\ Len(<<a>>) = 1 /\ Len(<<b>>) = 1 /\ <<a>>[1] = a /\ <<b>>[1] = b
    BY SingleIs
  <1>6. IsSeq(t) /\ Len(t) = 2 /\ t[1] = a /\ t[2] = b
    <2>1. /\ IsSeq(<<a>> \o <<b>>) /\ Len(<<a>> \o <<b>>) = Len(<<a>>) + Len(<<b>>)
          /\ \A i \in 1 .. Len(<<a>>) : (<<a>> \o <<b>>)[i] = <<a>>[i]
          /\ \A i \in 1 .. Len(<<b>>) : (<<a>> \o <<b>>)[Len(<<a>>) + i] = <<b>>[i]
      BY <1>5, ConcatIs
    <2>2. 1 \in 1 .. 1 /\ 1 + 1 = 2
      OBVIOUS
    <2> QED
      BY <1>4, <1>5, <2>1, <2>2
  <1>7. \A i \in 1 .. Len(s) : s[i] = t[i]
    <2>1. \A i \in 1 .. 2 : i = 1 \/ i = 2
      OBVIOUS
    <2> QED
      BY <1>2, <1>6, <2>1
  <1> QED
    BY <1>1, <1>2, <1>3, <1>4, <1>6, <1>7, SameSequence

\* The parts of a prompt, and the options one behind the other.
JuliaOpen(q) == <<"[CLS]">> \o HeadKept(q) \o <<"[SEP]">>
JuliaFlat(q, n, r, g) ==
    /\ n = Len(q.options) /\ DOMAIN q.options = 1 .. n /\ r = [i \in 1 .. n |-> JuliaOption(q, i)] /\ Rows(r, n)
    /\ FlatFrom(g, r, n)
JuliaFixed(q, n, g) == (JuliaOpen(q) \o g[n]) \o <<"[SEP]">>
JuliaIds(q, n, g) == (JuliaFixed(q, n, g) \o Cut(q.state.ids, JuliaRoom(Len(JuliaFixed(q, n, g))))) \o <<"[SEP]">>

LEMMA JuliaParts ==
  ASSUME NEW q, QuestionFits(q)
  PROVE  /\ IsSeq(JuliaOpen(q))
         /\ \E n, r, g : n \in Nat /\ JuliaFlat(q, n, r, g)
  <1>1. PICK n \in Nat : n = Len(q.options) /\ DOMAIN q.options = 1 .. n
    BY SequenceIs DEF QuestionFits
  <1>2. PICK r : r = [i \in 1 .. n |-> JuliaOption(q, i)]
    OBVIOUS
  <1>3. ASSUME NEW i \in 1 .. n PROVE IsSeq(JuliaOption(q, i))
    <2>1. PICK x : x = q.options[i].text.ids /\ IsSeq(x)
      BY <1>1 DEF QuestionFits, TextFits
    <2>2. IsSeq(Cut(x, OptionLimit))
      BY <2>1, PromptAssumption, CutIs
    <2> QED
      BY <2>1, <2>2, SingleIs, ConcatIs DEF JuliaOption
  <1>4. Rows(r, n)
    BY <1>2, <1>3 DEF Rows
  <1>5. PICK g : FlatFrom(g, r, n)
    BY <1>4, FlatIs
  <1>6. IsSeq(HeadKept(q))
    <2>1. PICK h : h = JuliaHead(q).ids /\ IsSeq(h)
      <3>1. AllFit(<<Word(q.kind)>> \o <<q.text>>)
        BY WordFits, OneFits, BothFit DEF QuestionFits
      <3>2. <<Word(q.kind)>> \o <<q.text>> = <<Word(q.kind), q.text>>
        BY PairIs
      <3> QED
        BY <3>1, <3>2, JoinedFits DEF JuliaHead, TextFits
    <2>2. PICK s : s = FlattenSeq([i \in DOMAIN q.options |-> JuliaOption(q, i)])
      OBVIOUS
    <2>3. IsSeq(s)
      <3>1. FirstOf(r, n) = r /\ IsSeq(FlattenSeq(FirstOf(r, n)))
        BY <1>2, <1>5 DEF FirstOf, FlatFrom
      <3> QED
        BY <1>1, <1>2, <2>2, <3>1
    <2>4. PICK l \in Nat : l = Len(s)
      BY <2>3, SequenceIs
    <2>5. PICK k : k = Max({HeadLength - l, MinHead}) /\ k \in Nat
      <3>1. PICK x \in Int, y \in Nat : x = HeadLength - l /\ y = MinHead
        BY PromptAssumption
      <3>2. \E m \in {x, y} : \A j \in {x, y} : m >= j
        OBVIOUS
      <3>3. Max({x, y}) \in {x, y} /\ \A j \in {x, y} : Max({x, y}) >= j
        BY <3>2 DEF Max
      <3>4. Max({x, y}) \in Nat
        BY <3>3
      <3> QED
        BY <3>1, <3>4
    <2>6. HeadKept(q) = Cut(h, k)
      BY <2>1, <2>2, <2>4, <2>5 DEF HeadKept
    <2> QED
      BY <2>1, <2>5, <2>6, CutIs
  <1>7. IsSeq(JuliaOpen(q))
    <2>1. PICK h : h = HeadKept(q) /\ IsSeq(h)
      BY <1>6
    <2>2. IsSeq(<<"[CLS]">> \o h)
      BY <2>1, SingleIs, ConcatIs
    <2>3. IsSeq((<<"[CLS]">> \o h) \o <<"[SEP]">>)
      BY <2>2, SingleIs, ConcatIs
    <2> QED
      BY <2>1, <2>3 DEF JuliaOpen
  <1>8. JuliaFlat(q, n, r, g)
    BY <1>1, <1>2, <1>4, <1>5 DEF JuliaFlat
  <1> QED
    BY <1>7, <1>8

\* What is left for the state.
LEMMA RoomIs ==
  ASSUME NEW f \in Nat
  PROVE  JuliaRoom(f) \in Nat /\ JuliaRoom(f) = IF JuliaMax >= f + 1 THEN JuliaMax - (f + 1) ELSE 0
  <1>1. PICK y \in Int : y = JuliaMax - (f + 1)
    BY PromptAssumption
  <1>2. \E k \in {0, y} : \A j \in {0, y} : k >= j
    OBVIOUS
  <1>3. Max({0, y}) \in {0, y} /\ \A j \in {0, y} : Max({0, y}) >= j
    BY <1>2 DEF Max
  <1>4. Max({0, y}) = IF y >= 0 THEN y ELSE 0
    BY <1>3
  <1> QED
    BY <1>1, <1>4, PromptAssumption DEF JuliaRoom

LEMMA JuliaIdsFit ==
  ASSUME NEW q, QuestionFits(q), NEW n, NEW r, NEW g, JuliaFlat(q, n, r, g)
  PROVE  IsSeq(JuliaOpen(q) \o g[n]) /\ IsSeq(JuliaFixed(q, n, g)) /\ IsSeq(JuliaIds(q, n, g))
  <1>1. IsSeq(JuliaOpen(q)) /\ IsSeq(g[n]) /\ IsSeq(<<"[SEP]">>)
    <2>1. IsSeq(JuliaOpen(q))
      BY JuliaParts
    <2>2. n \in 0 .. n /\ FlatFrom(g, r, n)
      BY DEF JuliaFlat, Rows
    <2> QED
      BY <2>1, <2>2, SingleIs DEF FlatFrom
  <1>2. IsSeq(JuliaOpen(q) \o g[n])
    BY <1>1, ConcatIs
  <1>3. IsSeq(JuliaFixed(q, n, g))
    BY <1>1, <1>2, ConcatIs DEF JuliaFixed
  <1>4. PICK m \in Nat : m = JuliaRoom(Len(JuliaFixed(q, n, g)))
    BY <1>3, SequenceIs, RoomIs
  <1>5. IsSeq(Cut(q.state.ids, m))
    BY CutIs DEF QuestionFits, TextFits
  <1>6. IsSeq(JuliaFixed(q, n, g) \o Cut(q.state.ids, m))
    BY <1>3, <1>5, ConcatIs
  <1>7. IsSeq(JuliaIds(q, n, g))
    BY <1>1, <1>4, <1>6, ConcatIs DEF JuliaIds
  <1> QED
    BY <1>2, <1>3, <1>7

\* Markers stand in front of their options.
JuliaPlaced(q, e, n, r, g) ==
    /\ e.ids = JuliaIds(q, n, g) /\ Len(e.ids) <= JuliaMax /\ e.keys = Keys(q.options)
    /\ e.marker_pos = [i \in 1 .. n |-> Len(JuliaOpen(q) \o g[i - 1])]
    /\ Len(e.marker_pos) = Len(e.keys)

LEMMA JuliaEncodeIs ==
  ASSUME NEW q, QuestionFits(q), JuliaEncode(q).ok, NEW e, e = JuliaEncode(q).value,
         NEW n \in Nat, NEW r, NEW g, JuliaFlat(q, n, r, g)
  PROVE  JuliaPlaced(q, e, n, r, g)
  <1> DEFINE upto(k) == JuliaOpen(q) \o FlattenSeq([i \in 1 .. k |-> JuliaOption(q, i)])
             fixed == upto(Len(q.options)) \o <<"[SEP]">>
             room == JuliaRoom(Len(fixed))
             ids == fixed \o Cut(q.state.ids, room) \o <<"[SEP]">>
             pos == [i \in DOMAIN q.options |-> Len(upto(i - 1))]
             x == [ids |-> ids, keys |-> Keys(q.options), kind |-> q.kind, marker_pos |-> pos]
  <1>1. n = Len(q.options) /\ DOMAIN q.options = 1 .. n /\ r = [i \in 1 .. n |-> JuliaOption(q, i)]
        /\ FlatFrom(g, r, n)
    BY DEF JuliaFlat
  <1>2. e = x /\ JuliaValid(x) /\ ~(Len(ids) > JuliaMax)
    BY DEF JuliaEncode, JuliaOpen, Ok, Err
  <1>3. \A k \in 0 .. n : upto(k) = JuliaOpen(q) \o g[k]
    <2> SUFFICES ASSUME NEW k \in 0 .. n PROVE upto(k) = JuliaOpen(q) \o g[k]
      OBVIOUS
    <2>1. [i \in 1 .. k |-> JuliaOption(q, i)] = FirstOf(r, k)
      BY <1>1 DEF FirstOf
    <2>2. g[k] = FlattenSeq(FirstOf(r, k))
      BY <1>1 DEF FlatFrom
    <2> QED
      BY <2>1, <2>2
  <1> HIDE DEF upto
  <1>4. fixed = JuliaFixed(q, n, g)
    <2>1. n \in 0 .. n
      OBVIOUS
    <2>2. upto(n) = JuliaOpen(q) \o g[n]
      BY <1>3, <2>1
    <2> QED
      BY <1>1, <2>2 DEF JuliaFixed
  <1> HIDE DEF fixed
  <1>5. ids = JuliaIds(q, n, g)
    BY <1>4 DEF JuliaIds
  <1>6. pos = [i \in 1 .. n |-> Len(JuliaOpen(q) \o g[i - 1])]
    BY <1>1, <1>3
  <1> HIDE DEF ids, pos
  <1>7. e.ids = ids /\ e.keys = Keys(q.options) /\ e.marker_pos = pos
    BY <1>2
  <1>8. Len(pos) = Len(Keys(q.options))
    BY <1>2 DEF JuliaValid
  <1>9. Len(ids) <= JuliaMax
    <2>1. IsSeq(ids)
      BY <1>5, JuliaIdsFit
    <2>2. Len(ids) \in Nat
      BY <2>1, SequenceIs
    <2> QED
      BY <1>2, <2>2, PromptAssumption
  <1> QED
    BY <1>5, <1>6, <1>7, <1>8, <1>9 DEF JuliaPlaced

\* Behind each marker stands its option, and the state is cut only when the
\* prompt is full.
OptionsHeld(q, e, n) ==
    \A i \in 1 .. n :
       SubSeq(e.ids, e.marker_pos[i] + 1, (e.marker_pos[i] + 1) + Len(JuliaOption(q, i)) - 1) = JuliaOption(q, i)
StateHeld(q, e) == Len(e.ids) < JuliaMax => IsSuffix(q.state.ids \o <<"[SEP]">>, e.ids)

LEMMA JuliaHolds ==
  ASSUME NEW q, QuestionFits(q), NEW n, NEW r, NEW g, JuliaFlat(q, n, r, g), NEW e, JuliaPlaced(q, e, n, r, g)
  PROVE  OptionsHeld(q, e, n) /\ StateHeld(q, e)
  <1>1. PICK open : open = JuliaOpen(q) /\ IsSeq(open)
    BY JuliaParts
  <1>2. n \in Nat /\ Rows(r, n) /\ FlatFrom(g, r, n) /\ r = [i \in 1 .. n |-> JuliaOption(q, i)]
    BY DEF JuliaFlat, Rows
  <1>3. PICK fixed : fixed = JuliaFixed(q, n, g) /\ IsSeq(fixed)
    BY JuliaIdsFit
  <1>4. PICK f \in Nat, room \in Nat : f = Len(fixed) /\ room = JuliaRoom(f)
    BY <1>3, SequenceIs, RoomIs
  <1>5. PICK cut : cut = Cut(q.state.ids, room) /\ IsSeq(cut)
    BY CutIs DEF QuestionFits, TextFits
  <1>6. PICK sep : sep = <<"[SEP]">> /\ IsSeq(sep) /\ Len(sep) = 1
    BY SingleIs
  <1>7. e.ids = (fixed \o cut) \o sep
    BY <1>3, <1>4, <1>5, <1>6 DEF JuliaPlaced, JuliaIds
  <1>8. fixed = (open \o g[n]) \o sep
    BY <1>1, <1>3, <1>6 DEF JuliaFixed
  <1>9. ASSUME NEW i \in 1 .. n
        PROVE  SubSeq(e.ids, e.marker_pos[i] + 1, (e.marker_pos[i] + 1) + Len(JuliaOption(q, i)) - 1) = JuliaOption(q, i)
    <2>1. PICK m : m = e.marker_pos[i] /\ m = Len(open \o g[i - 1])
      BY <1>1 DEF JuliaPlaced
    <2>2. PICK l : l = Len(g[i - 1]) /\ IsSeq(g[i - 1])
      <3>1. i - 1 \in 0 .. n
        BY <1>2
      <3> QED
        BY <1>2, <3>1 DEF FlatFrom
    <2>3. m = Len(open) + l
      BY <1>1, <2>1, <2>2, ConcatIs
    <2>4. PICK o : o = JuliaOption(q, i) /\ o = r[i]
      BY <1>2
    <2>5. Holds(g[n], l, o)
      BY <1>2, <2>2, <2>4, HeldInFlat
    <2>6. Holds(open \o g[n], m, o)
      BY <1>1, <2>3, <2>5, HeldWithMore
    <2>7. Holds(fixed, m, o)
      BY <1>6, <1>8, <2>6, HeldWithMore
    <2>8. Holds(fixed \o cut, m, o)
      BY <1>5, <2>7, HeldWithMore
    <2>9. Holds(e.ids, m, o)
      BY <1>6, <1>7, <2>8, HeldWithMore
    <2> QED
      BY <2>1, <2>4, <2>9, HeldPart
  <1>10. ASSUME Len(e.ids) < JuliaMax PROVE IsSuffix(q.state.ids \o <<"[SEP]">>, e.ids)
    <2>1. PICK s, k : s = q.state.ids /\ IsSeq(s) /\ k = Len(s) /\ k \in Nat
      BY SequenceIs DEF QuestionFits, TextFits
    <2>2. PICK c \in Nat : c = Len(cut)
      BY <1>5, SequenceIs
    <2>3. Len(e.ids) = (f + c) + 1
      <3>1. IsSeq(fixed \o cut) /\ Len(fixed \o cut) = f + c
        BY <1>3, <1>4, <1>5, <2>2, ConcatIs
      <3> QED
        BY <1>6, <1>7, <3>1, ConcatIs
    <2>4. c = (IF k <= room THEN k ELSE room) /\ (room >= k => cut = s)
      BY <1>4, <1>5, <2>1, <2>2, CutIs
    <2>5. room = IF JuliaMax >= f + 1 THEN JuliaMax - (f + 1) ELSE 0
      BY <1>4, RoomIs
    <2>6. room >= k
      BY <1>10, <2>1, <2>3, <2>4, <2>5, PromptAssumption
    <2>7. e.ids = fixed \o (s \o sep)
      <3>1. cut = s
        BY <2>4, <2>6
      <3>2. (fixed \o s) \o sep = fixed \o (s \o sep)
        <4>1. IsSeq(fixed) /\ IsSeq(s) /\ IsSeq(sep)
          BY <1>3, <1>6, <2>1
        <4> QED
          BY ONLY <4>1, ConcatAgain
      <3> QED
        BY <1>7, <3>1, <3>2
    <2>8. IsSeq(s \o sep)
      BY <1>6, <2>1, ConcatIs
    <2> QED
      BY <1>3, <1>6, <2>1, <2>7, <2>8, SuffixIs
  <1> QED
    BY <1>9, <1>10 DEF OptionsHeld, StateHeld

\* The cell of a marker.
MarkerCell(e, k) == [ids |-> e.ids, pointer |-> e.marker_pos[k], answer |-> 0]
MarkerReading(e) == [k \in DOMAIN e.keys |-> [key |-> e.keys[k], bias |-> 0, cell |-> MarkerCell(e, k)]]
JuliaFits(e) == IsSeq(e.ids) /\ IsSeq(e.keys) /\ IsSeq(e.marker_pos) /\ Len(e.marker_pos) = Len(e.keys)

LEMMA JuliaCells ==
  ASSUME NEW e, JuliaFits(e), JuliaTensors(e).ok, NEW t, t = JuliaTensors(e).value
  PROVE  /\ t.input_ids.shape[1] = 1 /\ t.option_pos.shape[2] = Len(e.keys)
         /\ \A k \in 1 .. Len(e.keys) : Cell("julia", t, 0, k) = MarkerCell(e, k)
  <1>1. PICK n \in Nat, W \in Nat : n = Len(e.ids) /\ W = Len(e.keys)
    BY SequenceIs DEF JuliaFits
  <1>2. PICK ones, marks : ones = [i \in 1 .. n |-> 1] /\ marks = [i \in 1 .. W |-> 1]
    OBVIOUS
  <1> DEFINE all == [input_ids |-> Tensor(<<1, n>>, e.ids),
                     attention_mask |-> Tensor(<<1, n>>, ones),
                     option_pos |-> Tensor(<<1, W>>, e.marker_pos),
                     marker_mask |-> Tensor(<<1, W>>, marks),
                     qtype |-> Tensor(<<1>>, <<e.kind>>)]
  <1>3. JuliaTensors(e) = Together(all)
    BY <1>1, <1>2 DEF JuliaTensors
  <1>4. DOMAIN all = {"input_ids", "attention_mask", "option_pos", "marker_mask", "qtype"}
    OBVIOUS
  <1>5. PICK a, b, d : a = Tensor(<<1, n>>, e.ids) /\ b = Tensor(<<1, n>>, ones) /\ d = Tensor(<<1, W>>, e.marker_pos)
    OBVIOUS
  <1>6. all.input_ids = a /\ all.attention_mask = b /\ all.option_pos = d
    BY <1>5
  <1>7. DOMAIN t = DOMAIN all /\ \A name \in DOMAIN all : all[name].ok /\ t[name] = all[name].value
    <2> HIDE DEF all
    <2> QED
      BY <1>3, TogetherIs
  <1> HIDE DEF all
  <1>8. /\ "attention_mask" \in DOMAIN t /\ t.input_ids = a.value /\ t.attention_mask = b.value /\ t.option_pos = d.value
        /\ a.ok /\ b.ok /\ d.ok
    BY <1>4, <1>6, <1>7
  <1>9. /\ a.value = [shape |-> <<1, n>>, data |-> e.ids] /\ b.value = [shape |-> <<1, n>>, data |-> ones]
        /\ d.value = [shape |-> <<1, W>>, data |-> e.marker_pos]
    BY <1>5, <1>8, TensorIs
  <1>10. IsSeq(ones) /\ Len(ones) = n /\ \A c \in 1 .. n : ones[c] = 1
    <2>1. ones = [i \in 1 .. n |-> ones[i]] /\ \A c \in 1 .. n : ones[c] = 1
      BY <1>2
    <2> QED
      BY <2>1, SequenceIs
  <1>11. PICK u, v, w : u = t.input_ids /\ v = t.attention_mask /\ w = t.option_pos
    OBVIOUS
  <1>12. /\ u.shape = <<1, n>> /\ u.data = e.ids /\ v.shape = <<1, n>> /\ v.data = ones
         /\ w.shape = <<1, W>> /\ w.data = e.marker_pos
    BY <1>8, <1>9, <1>11
  <1>13. RowCells(u, 1, n) /\ RowCells(v, 1, n) /\ RowCells(w, 1, W)
    <2>1. 1 \in Nat /\ n \in Nat /\ W \in Nat /\ 1 \in 1 .. 1 /\ n = 1 * n /\ W = 1 * W
      OBVIOUS
    <2>2. /\ IsSeq(u.data) /\ Len(u.data) = 1 * n /\ IsSeq(v.data) /\ Len(v.data) = 1 * n
          /\ IsSeq(w.data) /\ Len(w.data) = 1 * W
      BY <1>1, <1>10, <1>12, <2>1 DEF JuliaFits
    <2>3. RowCells(u, 1, n)
      BY ONLY <1>12, <2>1, <2>2, RowIs
    <2>4. RowCells(v, 1, n)
      BY ONLY <1>12, <2>1, <2>2, RowIs
    <2>5. RowCells(w, 1, W)
      BY ONLY <1>12, <2>1, <2>2, RowIs
    <2> QED
      BY <2>3, <2>4, <2>5
  <1>14. \A c \in Nat : 1 - 1 = 0 /\ 0 * n + c = c /\ 0 * W + c = c
    OBVIOUS
  <1>15. /\ IsSeq(RowOf(u, 0)) /\ Len(RowOf(u, 0)) = n
         /\ \A c \in 1 .. n : RowOf(u, 0)[c] = e.ids[c] /\ RowOf(v, 0)[c] = 1
    <2>1. \A c \in 1 .. n : (1 - 1) * n + c = c
      OBVIOUS
    <2> QED
      BY <1>10, <1>12, <1>13, <2>1 DEF RowCells
  <1>16. \A k \in 1 .. W : RowOf(w, 0)[k] = e.marker_pos[k]
    <2>1. \A c \in 1 .. W : (1 - 1) * W + c = c
      OBVIOUS
    <2> QED
      BY <1>12, <1>13, <2>1 DEF RowCells
  <1>17. Attended("julia", t, 0) = e.ids
    <2>1. PICK row : row = e.ids /\ IsSeq(row) /\ Len(row) = n
      BY <1>1 DEF JuliaFits
    <2>2. /\ n \in Nat /\ IsSeq(row) /\ Len(row) <= n /\ "attention_mask" \in DOMAIN t /\ "julia" # "pixels"
          /\ IsSeq(RowOf(t.input_ids, 0)) /\ Len(RowOf(t.input_ids, 0)) = n
      BY <1>8, <1>11, <1>15, <2>1
    <2>3. /\ \A c \in 1 .. n : RowOf(t.attention_mask, 0)[c] = IF c <= Len(row) THEN 1 ELSE 0
          /\ \A c \in 1 .. Len(row) : RowOf(t.input_ids, 0)[c] = row[c]
      BY <1>11, <1>15, <2>1
    <2>4. Attended("julia", t, 0) = row
      BY ONLY <2>2, <2>3, AttendedIs
    <2> QED
      BY <2>1, <2>4
  <1>18. ASSUME NEW k \in 1 .. W PROVE Cell("julia", t, 0, k) = MarkerCell(e, k)
    <2>1. RowOf(t.option_pos, 0)[k] = e.marker_pos[k]
      BY <1>11, <1>16
    <2> QED
      BY <1>17, <2>1 DEF Cell, Pointed, MarkerCell
  <1>19. t.input_ids.shape[1] = 1 /\ t.option_pos.shape[2] = W
    BY <1>11, <1>12
  <1> QED
    BY <1>1, <1>18, <1>19

LEMMA JuliaOwn ==
  ASSUME NEW e, JuliaFits(e), JuliaTensors(e).ok, NEW t, t = JuliaTensors(e).value,
         NEW o \in Outcomes, NEW out, out = JuliaInfer(o, t), out.ok,
         NEW r, r = JuliaReading(e, out.value), r.ok
  PROVE  r.value = MarkerReading(e)
  <1>1. PICK W \in Nat : W = Len(e.keys) /\ DOMAIN e.keys = 1 .. W
    BY SequenceIs DEF JuliaFits
  <1>2. BatchOf("julia", t) = 1 /\ Width("julia", t) = W
    BY <1>1, JuliaCells DEF BatchOf, Width, Pointed
  <1>3. out = Produced(o, "julia", t) /\ out.value.shape = <<1, W>>
    BY <1>1, JuliaCells DEF JuliaInfer, Checked, Err
  <1>4. \A i \in 1 .. 1 : /\ IsSeq(RowOf(out.value, i - 1)) /\ Len(RowOf(out.value, i - 1)) = W
                          /\ \A c \in 1 .. W : RowOf(out.value, i - 1)[c] = Cell("julia", t, i - 1, c)
    <2>1. 1 \in Nat /\ W \in Nat /\ o \in Outcomes /\ out.ok
      OBVIOUS
    <2> QED
      BY ONLY <2>1, <1>2, <1>3, ProducedIs
  <1>5. PICK row : row = RowOf(out.value, 0)
    OBVIOUS
  <1>6. \A k \in 1 .. W : row[k] = MarkerCell(e, k)
    <2>1. 1 \in 1 .. 1 /\ 1 - 1 = 0
      OBVIOUS
    <2>2. \A c \in 1 .. W : row[c] = Cell("julia", t, 0, c)
      BY <1>4, <1>5, <2>1
    <2> QED
      BY <1>1, <2>2, JuliaCells
  <1> DEFINE p == Probabilities("julia", e.keys, row)
  <1>7. p.ok /\ r = p
    BY <1>5 DEF JuliaReading
  <1>8. p.value = [k \in DOMAIN e.keys |-> [key |-> e.keys[k], cell |-> row[k],
                                            bias |-> IF Biased("julia", Len(e.keys)) THEN k ELSE 0]]
    BY <1>7, ProbabilitiesAre
  <1>9. ~Biased("julia", Len(e.keys))
    BY DEF Biased
  <1> HIDE DEF p
  <1>10. p.value = [k \in 1 .. W |-> [key |-> e.keys[k], cell |-> row[k], bias |-> 0]]
    BY <1>1, <1>8, <1>9
  <1>11. MarkerReading(e) = [k \in 1 .. W |-> [key |-> e.keys[k], bias |-> 0, cell |-> MarkerCell(e, k)]]
    BY <1>1 DEF MarkerReading
  <1> QED
    BY <1>6, <1>7, <1>10, <1>11

LEMMA JuliaEncodings ==
  ASSUME NEW job \in UNION Batches, job.kind = "julia", Encodings(job).ok, NEW e, e = Encodings(job).value[1],
         NEW a, a = job.asked[1], NEW q, q = JuliaQuestion(a.state, a.d).value
  PROVE  QuestionFits(q) /\ JuliaEncode(q).ok /\ e = JuliaEncode(q).value
  <1>1. DecisionFits(a.d) /\ TextFits(a.state.text)
    <2>1. DOMAIN job.asked = 1 .. 1
      BY JobAssumption, SequenceIs
    <2>2. job.asked[1] \in ToSet(job.asked)
      BY <2>1 DEF ToSet
    <2> QED
      BY <2>2, JobAssumption
  <1>2. PICK j : j = IF JuliaQuestion(a.state, a.d).ok THEN JuliaEncode(q) ELSE JuliaQuestion(a.state, a.d)
    OBVIOUS
  <1>3. Encodings(job) = AllOk(<<j>>)
    BY <1>2 DEF Encodings
  <1>4. DOMAIN <<j>> = 1 .. 1 /\ <<j>>[1] = j /\ 1 \in 1 .. 1
    OBVIOUS
  <1>5. j.ok /\ e = j.value
    <2>1. PICK s : s = <<j>>
      OBVIOUS
    <2>2. \A i \in 1 .. 1 : s[i].ok /\ AllOk(s).value[i] = s[i].value
      <3>1. PICK n \in Nat : n = 1 /\ DOMAIN s = 1 .. n /\ AllOk(s).ok
        BY <1>3, <1>4, <2>1
      <3>2. /\ IsSeq(AllOk(s).value) /\ Len(AllOk(s).value) = n
            /\ \A i \in 1 .. n : s[i].ok /\ AllOk(s).value[i] = s[i].value
        BY <3>1, AllOkIs
      <3> QED
        BY <3>1, <3>2
    <2>3. e = AllOk(s).value[1]
      BY <1>3, <2>1
    <2> QED
      BY <1>4, <2>1, <2>2, <2>3
  <1>6. JuliaQuestion(a.state, a.d).ok /\ j = JuliaEncode(q)
    BY <1>2, <1>5
  <1>7. q = [state |-> a.state.text, text |-> a.d.text, kind |-> KindOf(a.d), options |-> JuliaOptions(a.d)]
    BY <1>6 DEF JuliaQuestion, Ok, Err
  <1>8. QuestionFits(q)
    BY <1>1, <1>7, JuliaOptionsFit DEF QuestionFits, DecisionFits
  <1> QED
    BY <1>5, <1>6, <1>8

LEMMA JuliaFitting ==
  ASSUME NEW q, QuestionFits(q), NEW n, NEW r, NEW g, JuliaFlat(q, n, r, g), NEW e, JuliaPlaced(q, e, n, r, g)
  PROVE  JuliaFits(e)
  <1>1. IsSeq(e.ids)
    BY JuliaIdsFit DEF JuliaPlaced
  <1>2. n \in Nat /\ e.keys = Keys(q.options) /\ Len(e.marker_pos) = Len(e.keys)
    BY DEF JuliaFlat, Rows, JuliaPlaced
  <1>3. IsSeq(e.keys)
    BY <1>2, KeysAre DEF QuestionFits
  <1>4. IsSeq(e.marker_pos)
    <2>1. PICK z : z = e.marker_pos
      OBVIOUS
    <2>2. z = [i \in 1 .. n |-> Len(JuliaOpen(q) \o g[i - 1])]
      BY <2>1 DEF JuliaPlaced
    <2>3. z = [i \in 1 .. n |-> z[i]]
      BY <2>2
    <2> QED
      BY <1>2, <2>1, <2>3, SequenceIs
  <1> QED
    BY <1>1, <1>2, <1>3, <1>4 DEF JuliaFits

\* A prompt that holds its options, and an answer read from it.
PromptHeld(q, e, readings) ==
    /\ Len(e.ids) <= JuliaMax
    /\ \A i \in DOMAIN q.options :
          SubSeq(e.ids, e.marker_pos[i] + 1, (e.marker_pos[i] + 1) + Len(JuliaOption(q, i)) - 1) = JuliaOption(q, i)
    /\ StateHeld(q, e) /\ readings = MarkerReading(e)

\* A Julia prompt within its limit holds all its options behind their markers,
\* and the answer is read from them (JuliaEncoding::encode and the readout, julia.rs).
THEOREM PromptsHoldTheirOptions == Spec => []PromptHoldsItsOptions
  <1>1. ASSUME CallsInv, NEW c \in Callers, Good(c), Job(c).kind = "julia",
               NEW q, q = JuliaQuestion(Job(c).asked[1].state, Job(c).asked[1].d).value,
               NEW e, e = Encoded(c)[1]
        PROVE  PromptHeld(q, e, calls[c].reply.value)
    <2>1. PICK job, a : job = Job(c) /\ a = job.asked[1]
      OBVIOUS
    <2>2. PICK es, t, o : AnsweredFrom(c, es, t, o)
      BY <1>1, GoodCall DEF Vacuous
    <2>3. /\ job \in UNION Batches /\ job.kind = "julia" /\ Encodings(job).ok /\ e = Encodings(job).value[1]
          /\ o \in Outcomes /\ JuliaTensors(e).ok /\ t = JuliaTensors(e).value
      BY <1>1, <2>1, <2>2 DEF AnsweredFrom, TensorsOf
    <2>4. PICK out : out = JuliaInfer(o, t) /\ out.ok /\ calls[c].reply = JuliaReading(e, out.value) /\ calls[c].reply.ok
      BY <2>1, <2>2, <2>3 DEF AnsweredFrom, Inferred, Read
    <2>5. QuestionFits(q) /\ JuliaEncode(q).ok /\ e = JuliaEncode(q).value
      BY <1>1, <2>1, <2>3, JuliaEncodings
    <2>6. PICK n, r, g : n \in Nat /\ JuliaFlat(q, n, r, g)
      BY <2>5, JuliaParts
    <2>7. JuliaPlaced(q, e, n, r, g)
      BY <2>5, <2>6, JuliaEncodeIs
    <2>8. OptionsHeld(q, e, n) /\ StateHeld(q, e)
      BY <2>5, <2>6, <2>7, JuliaHolds
    <2>9. JuliaFits(e)
      BY <2>5, <2>6, <2>7, JuliaFitting
    <2>10. calls[c].reply.value = MarkerReading(e)
      BY ONLY <2>3, <2>4, <2>9, JuliaOwn
    <2>11. DOMAIN q.options = 1 .. n /\ Len(e.ids) <= JuliaMax
      BY <2>6, <2>7 DEF JuliaFlat, JuliaPlaced
    <2> QED
      BY <2>8, <2>10, <2>11 DEF OptionsHeld, PromptHeld
  <1>2. ASSUME CallsInv PROVE PromptHoldsItsOptions
    <2> SUFFICES ASSUME NEW c \in Callers, Good(c) /\ Job(c).kind = "julia"
                 PROVE  LET q == JuliaQuestion(Job(c).asked[1].state, Job(c).asked[1].d).value
                            e == Encoded(c)[1]
                            from(i) == e.marker_pos[i] + 1
                        IN  /\ Len(e.ids) <= JuliaMax
                            /\ \A i \in DOMAIN q.options :
                                  SubSeq(e.ids, from(i), from(i) + Len(JuliaOption(q, i)) - 1) = JuliaOption(q, i)
                            /\ Len(e.ids) < JuliaMax => IsSuffix(q.state.ids \o <<"[SEP]">>, e.ids)
                            /\ calls[c].reply.value = [k \in DOMAIN e.keys |->
                                  [key |-> e.keys[k], bias |-> 0,
                                   cell |-> [ids |-> e.ids, pointer |-> e.marker_pos[k], answer |-> 0]]]
      BY DEF PromptHoldsItsOptions
    <2>1. PICK q, e : q = JuliaQuestion(Job(c).asked[1].state, Job(c).asked[1].d).value /\ e = Encoded(c)[1]
      OBVIOUS
    <2>2. PromptHeld(q, e, calls[c].reply.value)
      BY <1>1, <1>2, <2>1
    <2> QED
      BY <2>1, <2>2 DEF PromptHeld, StateHeld, MarkerReading, MarkerCell
  <1> QED
    BY <1>2, CallsInvariant, PTL

==============================================================================
