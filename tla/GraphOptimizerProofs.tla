------------------------ MODULE GraphOptimizerProofs ------------------------
(***************************************************************************)
(* Theorems about GraphOptimizer, for every set of documents.  Kahn's loop *)
(* is described by what its counters and its current wave mean; the merges *)
(* by what every node computes, at every depth of unfolding.               *)
(***************************************************************************)
EXTENDS GraphOptimizer, FiniteOrder

-----------------------------------------------------------------------------
(* The inductive invariant.                                                *)

\* What a document can be: finitely many ids, a list of ids at each.
IsDocument(g) ==
    /\ IsFiniteSet(g.ids) /\ g.ids \in SUBSET Nat
    /\ g.deps \in [g.ids -> SUBSET Nat]
    /\ g.repeats \subseteq g.ids

\* Node n belongs in wave i: all it depends on is in earlier waves, and some of
\* it in the one just before.
BelongsIn(n, i) ==
    /\ doc.deps[n] \subseteq UNION {waves[j] : j \in 1 .. i - 1}
    /\ i > 1 => doc.deps[n] \cap waves[i - 1] # {}
    /\ i = 1 => doc.deps[n] = {}

\* Kahn's loop: a counter is the number of dependencies not placed yet, waves
\* are levels, the current wave is the next one and it misses no node that
\* could be placed.
LoopInv ==
    /\ waves \in Seq(SUBSET doc.ids) /\ current \subseteq doc.ids
    /\ remaining \in [doc.ids -> Nat]
    /\ \A n \in doc.ids : remaining[n] = Cardinality(doc.deps[n] \ Placed)
    /\ current \cap Placed = {}
    /\ \A i \in 1 .. Len(waves), n \in doc.ids : n \in waves[i] <=> BelongsIn(n, i)
    /\ \A n \in doc.ids : n \in current <=> BelongsIn(n, Len(waves) + 1)
    /\ \A n \in doc.ids : doc.deps[n] \subseteq Placed => n \in Placed \cup current

\* What the checks made so far have established.
ValidationInv ==
    /\ step \in {"nodes", "deps", "waves", "roots", "reach", "output", "done"}
    /\ IsDocument(doc)
    /\ verdict = Accepted => step = "done"
    /\ step \in {"nodes", "deps"} => waves = <<>>
    /\ step \in {"deps", "waves", "roots", "reach", "output"} => ~BadNode
    /\ step \in {"waves", "roots", "reach", "output"} \/ verdict = Accepted => BadDeps = {} /\ LoopInv
    /\ step \in {"roots", "reach", "output"} \/ verdict = Accepted => current = {} /\ Leftover = {}
    /\ step \in {"reach", "output"} => Cardinality(Roots(doc)) = 1
    /\ VerdictMatchesReference

\* What the nodes in S compute, and what is known one level below depth k.
Computed(terms, S) == {terms[d] : d \in S}
Below(g, k) == IF k = 0 THEN [n \in g.ids |-> {}] ELSE Terms(g)[k - 1]

\* The nodes in S compute the same as those in R, however deep one looks.
SameTerms(S, R) ==
    \A k \in Nat : Computed(Terms(graph)[k], S) = Computed(Terms(graph)[k], R)

\* The merges: every node is waiting, kept or merged, merged nodes compute what
\* their survivors do, and kept nodes still read the same.
MergeInv ==
    /\ IsDocument(graph) /\ WellFormed(graph)
    /\ kept \cup queue \cup DOMAIN rewritten = graph.ids
    /\ kept \cap queue = {}
    /\ deps \in [graph.ids -> SUBSET Nat]
    /\ \A d \in DOMAIN rewritten :
          /\ rewritten[d] \in graph.ids /\ IsPure(graph.kind[d])
          /\ \A k \in Nat : Terms(graph)[k][d] = Terms(graph)[k][rewritten[d]]
    /\ \A n \in kept : /\ deps[n] \subseteq graph.ids /\ SameTerms(deps[n], graph.deps[n])
                       /\ deps[n] = {} <=> graph.deps[n] = {}

\* A level per node, one more than the highest below it; merged nodes are on the
\* level of their survivors, and what a kept node reads is on the levels of what
\* it declared.
Levels(L) ==
    /\ \A n \in graph.ids :
          /\ \A d \in graph.deps[n] : L[d] < L[n]
          /\ L[n] # 0 => \E d \in graph.deps[n] : L[d] + 1 = L[n]
    /\ \A d \in DOMAIN rewritten : L[rewritten[d]] = L[d]
    /\ \A n \in kept : /\ \A d \in deps[n] : \E e \in graph.deps[n] : L[e] = L[d]
                       /\ \A e \in graph.deps[n] : \E d \in deps[n] : L[d] = L[e]

LevelInv == \E L \in [graph.ids -> Nat] : Levels(L)

\* What is left of the graph once dead nodes are gone.
LeftOver ==
    /\ doc.ids = Spared /\ doc.faulty = {} /\ doc.repeats = {} /\ doc.twice = FALSE
    /\ doc.kind = [n \in Spared |-> graph.kind[n]]
    /\ doc.knob = [n \in Spared |-> graph.knob[n]]
    /\ doc.deps = [n \in Spared |-> deps[n]]

OptimizerInv ==
    /\ pass \in {"load", "merge", "dead", "rebuild"}
    /\ pass = "load" => kept = {} /\ DOMAIN rewritten = {}
    /\ pass # "load" => MergeInv /\ LevelInv
    /\ pass \in {"dead", "rebuild"} => queue = {}
    /\ pass = "rebuild" => LeftOver

GraphInv == ValidationInv /\ OptimizerInv

-----------------------------------------------------------------------------
(* Unfolding.                                                              *)

\* Terms is the function its recursion describes: layer k is built on layer
\* k - 1.
LEMMA TermsUnfold ==
  ASSUME NEW g, NEW k \in Nat
  PROVE  Terms(g)[k] = Layer(g, IF k = 0 THEN [n \in g.ids |-> {}] ELSE Terms(g)[k - 1])
  <1> DEFINE Base == [n \in g.ids |-> {}]
             Up(f, i) == Layer(g, IF i = 0 THEN Base ELSE f[i - 1])
             Good(f, m) == f = [i \in 0 .. m |-> Up(f, i)]
  <1> HIDE DEF Base
  <1>1. ASSUME NEW m \in Nat PROVE \E f : Good(f, m)
    <2> DEFINE T == {i \in 0 .. m : \E f : Good(f, i)}
    <2>1. 0 \in T
      <3> DEFINE f == [i \in 0 .. 0 |-> Layer(g, Base)]
      <3>1. Good(f, 0)
        OBVIOUS
      <3> HIDE DEF f, Good
      <3> QED
        BY <3>1
    <2>2. ASSUME NEW i \in 0 .. m, i > 0, i - 1 \in T PROVE i \in T
      <3>1. PICK f : Good(f, i - 1)
        BY <2>2
      <3> DEFINE h == [j \in 0 .. i |-> IF j = i THEN Layer(g, f[i - 1]) ELSE f[j]]
      <3>2. ASSUME NEW j \in 0 .. i PROVE h[j] = Up(h, j)
        <4>1. CASE j = i
          <5>1. h[j - 1] = f[i - 1] /\ j # 0
            BY <4>1, <2>2
          <5> QED
            BY <5>1, <4>1
        <4>2. CASE j # i
          <5>1. j \in 0 .. i - 1 /\ h[j] = f[j]
            BY <4>2
          <5>2. f[j] = Up(f, j)
            BY <5>1, <3>1
          <5>3. j # 0 => h[j - 1] = f[j - 1]
            BY <4>2
          <5> QED
            BY <5>1, <5>2, <5>3
        <4> QED
          BY <4>1, <4>2
      <3>3. Good(h, i)
        BY <3>2
      <3> HIDE DEF h, Good
      <3> QED
        BY <3>3
    <2>3. 0 .. m \subseteq T
      <3> HIDE DEF T
      <3> QED
        BY <2>1, <2>2, UpTo
    <2> QED
      BY <2>3
  <1>2. ASSUME NEW m \in Nat, NEW p \in Nat, m <= p, NEW f, NEW h, Good(f, m), Good(h, p)
        PROVE  f[m] = h[m]
    <2> DEFINE T == {i \in 0 .. m : f[i] = h[i]}
    <2>1. \A i \in 0 .. m : f[i] = Up(f, i) /\ h[i] = Up(h, i)
      <3>1. \A i \in 0 .. m : i \in 0 .. p
        BY <1>2
      <3>2. \A i \in 0 .. m : f[i] = Up(f, i)
        <4> HIDE DEF Up
        <4> QED
          BY <1>2
      <3>3. \A i \in 0 .. p : h[i] = Up(h, i)
        <4> HIDE DEF Up
        <4> QED
          BY <1>2
      <3> QED
        BY <3>1, <3>2, <3>3
    <2>2. 0 \in T
      BY <2>1
    <2>3. ASSUME NEW i \in 0 .. m, i > 0, i - 1 \in T PROVE i \in T
      <3>1. f[i - 1] = h[i - 1] /\ i # 0
        BY <2>3
      <3>2. Up(f, i) = Up(h, i)
        BY <3>1
      <3> QED
        BY <3>2, <2>1
    <2>4. 0 .. m \subseteq T
      <3> HIDE DEF T
      <3> QED
        BY <2>2, <2>3, UpTo
    <2> QED
      BY <2>4
  <1> DEFINE F(m) == CHOOSE f : Good(f, m)
             G == [m \in Nat |-> F(m)[m]]
  <1>3. ASSUME NEW m \in Nat PROVE Good(F(m), m)
    <2> HIDE DEF Good
    <2> QED
      BY <1>1
  <1>4. ASSUME NEW m \in Nat PROVE G[m] = Up(G, m)
    <2>1. F(m)[m] = Up(F(m), m)
      <3>1. ASSUME NEW f, Good(f, m) PROVE f[m] = Up(f, m)
        <4> HIDE DEF Up
        <4> QED
          BY <3>1
      <3> HIDE DEF Good, F, Up
      <3> QED
        BY <3>1, <1>3
    <2>2. m # 0 => F(m)[m - 1] = G[m - 1]
      <3> SUFFICES ASSUME m # 0 PROVE F(m)[m - 1] = G[m - 1]
        OBVIOUS
      <3>1. m - 1 \in Nat /\ m - 1 <= m
        OBVIOUS
      <3>2. Good(F(m - 1), m - 1) /\ Good(F(m), m)
        BY <1>3, <3>1
      <3> HIDE DEF Good, F
      <3> QED
        BY <1>2, <3>1, <3>2
    <2>3. G[m] = F(m)[m]
      OBVIOUS
    <2> HIDE DEF G, F
    <2> QED
      BY <2>1, <2>2, <2>3
  <1>5. G = [m \in Nat |-> Up(G, m)]
    <2>1. G = [m \in Nat |-> G[m]]
      OBVIOUS
    <2> HIDE DEF G, Up
    <2> QED
      BY <1>4, <2>1
  <1>6. Terms(g) = [m \in Nat |-> Up(Terms(g), m)]
    <2>1. Terms(g) = CHOOSE T : T = [m \in Nat |-> Up(T, m)]
      BY DEF Terms, Base
    <2> HIDE DEF G, Up
    <2> QED
      BY <1>5, <2>1
  <1> QED
    BY <1>6 DEF Base

-----------------------------------------------------------------------------
(* Sets of nodes.                                                          *)

\* A non-empty set of ids has a least one, which Least names.
LEMMA LeastIsMember ==
  ASSUME NEW S \in SUBSET Nat, S # {}
  PROVE  Least(S) \in S /\ \A n \in S : Least(S) <= n
  BY LeastNumber DEF Least

\* A single element is the least, and the whole set.
LEMMA OneElement ==
  ASSUME NEW S, IsFiniteSet(S), Cardinality(S) = 1
  PROVE  \E x : S = {x}
  <1>1. PICK x \in S : TRUE
    BY FS_EmptySet
  <1>2. Cardinality(S \ {x}) = 0 /\ IsFiniteSet(S \ {x})
    BY <1>1, FS_RemoveElement
  <1>3. S \ {x} = {}
    BY <1>2, FS_EmptySet
  <1> QED
    BY <1>1, <1>3

\* What a node's counter says: how many of its dependencies are outside P.
LEMMA Outside ==
  ASSUME NEW D, NEW P, IsFiniteSet(D)
  PROVE  /\ Cardinality(D \ P) \in Nat
         /\ Cardinality(D \ P) = 0 <=> D \subseteq P
  <1>1. IsFiniteSet(D \ P)
    BY FS_Difference
  <1> QED
    BY <1>1, FS_CardinalityType, FS_EmptySet

\* Placing C takes the dependencies in C off the counter.
LEMMA CounterDrops ==
  ASSUME NEW D, NEW P, NEW C, IsFiniteSet(D), C \cap P = {}
  PROVE  Cardinality(D \ P) - Cardinality(D \cap C) = Cardinality(D \ (P \cup C))
  <1>1. IsFiniteSet(D \ P)
    BY FS_Difference
  <1>2. Cardinality((D \ P) \ C) = Cardinality(D \ P) - Cardinality((D \ P) \cap C)
    BY <1>1, FS_Difference
  <1>3. (D \ P) \ C = D \ (P \cup C) /\ (D \ P) \cap C = D \cap C
    OBVIOUS
  <1> QED
    BY <1>2, <1>3

\* An acyclic graph with one entry is reachable from it.
LEMMA EverythingReached ==
  ASSUME \A n \in doc.ids : doc.deps[n] \subseteq doc.ids, Acyclic(doc),
         NEW r, Roots(doc) = {r}
  PROVE  doc.ids \ ReachableFrom(r) = {}
  <1> DEFINE lost == doc.ids \ ReachableFrom(r)
  <1> SUFFICES ASSUME lost # {} PROVE FALSE
    OBVIOUS
  <1>1. PICK n \in lost : doc.deps[n] \cap lost = {}
    BY DEF Acyclic
  <1>2. r \in doc.ids /\ n # r
    BY DEF Roots, ReachableFrom
  <1>3. PICK d \in doc.deps[n] : TRUE
    BY <1>2 DEF Roots
  <1>4. d \in doc.ids /\ (d = r \/ r \in AncestorsOf(doc, d))
    BY <1>1, <1>3 DEF ReachableFrom
  <1>5. ASSUME NEW S \in ClosedFrom(doc, n) PROVE r \in S
    <2>1. d \in S /\ S \in ClosedFrom(doc, d)
      BY <1>3, <1>5 DEF ClosedFrom
    <2> QED
      BY <2>1, <1>4 DEF AncestorsOf
  <1>6. r \in AncestorsOf(doc, n)
    BY <1>2, <1>5 DEF AncestorsOf
  <1> QED
    BY <1>6 DEF ReachableFrom

-----------------------------------------------------------------------------
(* Kahn's loop.                                                            *)

\* The first wave is the roots, and every counter is full.
LEMMA LoopBegins ==
  ASSUME IsDocument(doc), BadDeps = {}, waves = <<>>, CheckDeps
  PROVE  LoopInv'
  <1>1. /\ waves' = <<>> /\ doc' = doc /\ current' = Roots(doc)
        /\ remaining' = [n \in doc.ids |-> Cardinality(doc.deps[n])]
    BY DEF CheckDeps
  <1>2. Placed' = {}
    BY <1>1 DEF Placed
  <1>3. \A n \in doc.ids : IsFiniteSet(doc.deps[n]) /\ Cardinality(doc.deps[n]) \in Nat
    <2>1. \A n \in doc.ids : doc.deps[n] \in SUBSET doc.ids
      BY DEF BadDeps
    <2> QED
      BY <2>1, FS_Subset, FS_CardinalityType DEF IsDocument
  <1>4. remaining' \in [doc.ids -> Nat]
    BY <1>1, <1>3
  <1>5. \A n \in doc.ids : remaining'[n] = Cardinality(doc.deps[n] \ {})
    BY <1>1
  <1>6. \A n \in doc.ids : n \in current' <=> BelongsIn(n, 1)'
    BY <1>1 DEF Roots, BelongsIn
  <1>7. Len(waves') = 0 /\ waves' \in Seq(SUBSET doc.ids)
    BY <1>1
  <1>8. \A n \in doc.ids : doc.deps[n] \subseteq {} => n \in current'
    BY <1>1 DEF Roots
  <1> QED
    BY <1>1, <1>2, <1>4, <1>5, <1>6, <1>7, <1>8 DEF LoopInv, Roots

\* In the loop every counter reads zero exactly when all the node depends on is
\* placed.
LEMMA CounterReads ==
  ASSUME IsDocument(doc), BadDeps = {}, LoopInv, NEW n \in doc.ids
  PROVE  /\ doc.deps[n] \subseteq doc.ids /\ IsFiniteSet(doc.deps[n])
         /\ remaining[n] = Cardinality(doc.deps[n] \ Placed)
         /\ remaining[n] = 0 <=> doc.deps[n] \subseteq Placed
  <1>1. doc.deps[n] \in SUBSET doc.ids
    BY DEF BadDeps
  <1>2. IsFiniteSet(doc.deps[n])
    BY <1>1, FS_Subset DEF IsDocument
  <1>3. remaining[n] = Cardinality(doc.deps[n] \ Placed)
    BY DEF LoopInv
  <1> DEFINE D == doc.deps[n]
  <1>4. Cardinality(D \ Placed) = 0 <=> D \subseteq Placed
    <2>1. IsFiniteSet(D)
      BY <1>2
    <2> HIDE DEF D
    <2> QED
      BY <2>1, Outside
  <1> QED
    BY <1>1, <1>2, <1>3, <1>4

\* Placing the current wave: what it frees is the next level, and nothing that
\* could be placed is left out.
LEMMA LoopContinues ==
  ASSUME IsDocument(doc), BadDeps = {}, LoopInv, PlaceWave
  PROVE  LoopInv'
  <1>0. PICK L \in Nat : L = Len(waves)
    BY DEF LoopInv
  <1>1. /\ waves' = Append(waves, current) /\ doc' = doc /\ current' = Freed
        /\ remaining' = [n \in doc.ids |-> Dropped(n)]
    BY DEF PlaceWave
  <1>2. /\ L \in Nat /\ Len(waves') = L + 1 /\ waves' \in Seq(SUBSET doc.ids)
        /\ \A i \in 1 .. L : waves'[i] = waves[i]
        /\ waves'[L + 1] = current
    BY <1>0, <1>1 DEF LoopInv
  <1>3. Placed' = Placed \cup current
    <2>1. 1 .. L + 1 = 1 .. L \cup {L + 1}
      BY <1>2
    <2> QED
      BY <2>1, <1>0, <1>2 DEF Placed
  <1>5. ASSUME NEW n \in doc.ids
        PROVE  /\ Dropped(n) = Cardinality(doc.deps[n] \ Placed')
               /\ Dropped(n) \in Nat
               /\ Dropped(n) = 0 <=> doc.deps[n] \subseteq Placed'
    <2> DEFINE D == doc.deps[n]
    <2>1. remaining[n] = Cardinality(D \ Placed) /\ IsFiniteSet(D)
      BY CounterReads
    <2>2. current \cap Placed = {}
      BY DEF LoopInv
    <2>3. Dropped(n) = Cardinality(D \ Placed) - Cardinality(D \cap current)
      BY <2>1 DEF Dropped
    <2> HIDE DEF D
    <2>4. Dropped(n) = Cardinality(D \ Placed')
      <3> DEFINE P == Placed
      <3>0. IsFiniteSet(D) /\ current \cap P = {}
        BY <2>1, <2>2
      <3> HIDE DEF P
      <3>1. Cardinality(D \ P) - Cardinality(D \cap current) = Cardinality(D \ (P \cup current))
        BY ONLY <3>0, CounterDrops
      <3> QED
        BY <2>3, <3>1, <1>3 DEF P
    <2>5. Cardinality(D \ Placed') \in Nat /\ (Cardinality(D \ Placed') = 0 <=> D \subseteq Placed')
      BY <2>1, Outside
    <2> QED
      BY <2>4, <2>5 DEF D
  <1>6. \A n \in doc.ids : remaining[n] = 0 <=> doc.deps[n] \subseteq Placed
    BY CounterReads
  <1>7. \A n \in doc.ids : n \in Freed <=> /\ doc.deps[n] \subseteq Placed \cup current
                                        /\ doc.deps[n] \cap current # {}
    BY <1>3, <1>5, <1>6 DEF Freed, LoopInv
  <1>8. \A i \in 1 .. L + 1, n \in doc.ids : BelongsIn(n, i) <=> BelongsIn(n, i)'
    <2>1. \A i \in 1 .. L + 1 : \A j \in 1 .. i - 1 : waves'[j] = waves[j]
      BY <1>2
    <2>2. \A i \in 1 .. L + 1 : i > 1 => waves'[i - 1] = waves[i - 1]
      BY <1>2
    <2>3. ASSUME NEW i \in 1 .. L + 1
          PROVE  UNION {waves'[j] : j \in 1 .. i - 1} = UNION {waves[j] : j \in 1 .. i - 1}
      BY <2>1
    <2> QED
      BY <1>1, <2>2, <2>3 DEF BelongsIn
  <1>9. \A i \in 1 .. L + 1, n \in doc.ids : n \in waves'[i] <=> BelongsIn(n, i)'
    <2>1. \A n \in doc.ids : n \in waves'[L + 1] <=> BelongsIn(n, L + 1)
      BY <1>0, <1>2 DEF LoopInv
    <2>2. \A i \in 1 .. L, n \in doc.ids : n \in waves'[i] <=> BelongsIn(n, i)
      BY <1>0, <1>2 DEF LoopInv
    <2> QED
      BY <2>1, <2>2, <1>2, <1>8
  <1>10. \A n \in doc.ids : n \in current' <=> BelongsIn(n, L + 2)'
    <2>1. UNION {waves'[j] : j \in 1 .. (L + 2) - 1} = Placed \cup current
      <3>1. (L + 2) - 1 = Len(waves')
        BY <1>2
      <3> QED
        BY <3>1, <1>3 DEF Placed
    <2>2. waves'[(L + 2) - 1] = current /\ L + 2 > 1 /\ L + 2 # 1
      <3>1. (L + 2) - 1 = L + 1
        BY <1>2
      <3> QED
        BY <1>2, <3>1
    <2>3. \A n \in doc.ids : BelongsIn(n, L + 2)' <=> /\ doc.deps[n] \subseteq Placed \cup current
                                                  /\ doc.deps[n] \cap current # {}
      BY <1>1, <2>1, <2>2 DEF BelongsIn
    <2> QED
      BY <1>1, <1>7, <2>3
  <1>11. \A n \in Placed \cup current : doc.deps[n] \subseteq Placed
    <2>1. ASSUME NEW i \in 1 .. L, NEW n \in waves[i] PROVE doc.deps[n] \subseteq Placed
      <3>1. n \in doc.ids /\ BelongsIn(n, i)
        BY <1>0, <2>1 DEF LoopInv
      <3>2. 1 .. i - 1 \subseteq 1 .. L
        BY <1>2
      <3> QED
        BY <1>0, <3>1, <3>2 DEF BelongsIn, Placed
    <2>2. ASSUME NEW n \in current PROVE doc.deps[n] \subseteq Placed
      <3>1. BelongsIn(n, L + 1) /\ (L + 1) - 1 = L
        BY <1>0, <1>2 DEF LoopInv
      <3> QED
        BY <1>0, <3>1 DEF BelongsIn, Placed
    <2> QED
      BY <1>0, <2>1, <2>2 DEF Placed
  <1>12. current' \cap Placed' = {}
    BY <1>1, <1>3, <1>7, <1>11 DEF LoopInv, Freed
  <1>13. \A n \in doc.ids : doc.deps[n] \subseteq Placed' => n \in Placed' \cup current'
    BY <1>1, <1>3, <1>7 DEF LoopInv
  <1>14. remaining' \in [doc.ids -> Nat]
         /\ \A n \in doc.ids : remaining'[n] = Cardinality(doc.deps[n] \ Placed')
    BY <1>1, <1>5
  <1>15. current' \subseteq doc.ids /\ Len(waves') + 1 = L + 2
    BY <1>1, <1>2 DEF Freed
  <1> DEFINE Leveled == /\ \A i \in 1 .. Len(waves), n \in doc.ids : n \in waves[i] <=> BelongsIn(n, i)
                        /\ \A n \in doc.ids : n \in current <=> BelongsIn(n, Len(waves) + 1)
  <1>16. Leveled'
    BY <1>1, <1>2, <1>9, <1>10, <1>15
  <1> QED
    BY <1>1, <1>2, <1>12, <1>13, <1>14, <1>15, <1>16 DEF LoopInv

\* When the loop stops with nothing left over, everything is placed and there is
\* no cycle.
LEMMA LoopPlacesAll ==
  ASSUME IsDocument(doc), BadDeps = {}, LoopInv, current = {}, Leftover = {}
  PROVE  Placed = doc.ids /\ Acyclic(doc)
  <1>2. \A n \in doc.ids : remaining[n] = 0
    BY DEF Leftover, LoopInv
  <1>3. \A n \in doc.ids : doc.deps[n] \subseteq Placed
    BY <1>2, CounterReads
  <1>4. Placed \subseteq doc.ids
    BY DEF LoopInv, Placed
  <1>5. Placed = doc.ids
    BY <1>3, <1>4 DEF LoopInv
  <1>6. ASSUME NEW S \in (SUBSET doc.ids) \ {{}} PROVE \E n \in S : doc.deps[n] \cap S = {}
    <2> DEFINE I == {i \in 1 .. Len(waves) : waves[i] \cap S # {}}
    <2>1. I \in SUBSET Nat /\ I # {}
      <3>1. PICK s \in S : s \in Placed
        BY <1>5, <1>6
      <3>2. PICK i \in 1 .. Len(waves) : s \in waves[i]
        BY <3>1 DEF Placed
      <3>3. i \in I
        BY <3>2
      <3> QED
        BY <3>3
    <2>2. PICK i \in I : \A j \in I : i <= j
      <3> HIDE DEF I
      <3> QED
        BY <2>1, LeastNumber
    <2>3. PICK n \in waves[i] : n \in S
      OBVIOUS
    <2>4. BelongsIn(n, i)
      BY <2>3 DEF LoopInv
    <2>5. \A j \in 1 .. i - 1 : waves[j] \cap S = {}
      BY <2>2 DEF LoopInv
    <2> QED
      BY <2>3, <2>4, <2>5 DEF BelongsIn
  <1> QED
    BY <1>5, <1>6 DEF Acyclic

\* When it stops with something left over, that is a set in which every node
\* waits for another: a cycle.
LEMMA LeftoverIsCyclic ==
  ASSUME IsDocument(doc), BadDeps = {}, LoopInv, current = {}, Leftover # {}
  PROVE  ~Acyclic(doc)
  <1>1. \A n \in doc.ids : doc.deps[n] \subseteq doc.ids
    BY CounterReads
  <1>2. \A n \in doc.ids : remaining[n] = 0 <=> doc.deps[n] \subseteq Placed
    BY CounterReads
  <1>3. \A n \in doc.ids : n \in Leftover <=> ~(doc.deps[n] \subseteq Placed)
    BY <1>2 DEF Leftover, LoopInv
  <1>4. ASSUME NEW n \in Leftover PROVE doc.deps[n] \cap Leftover # {}
    <2>1. n \in doc.ids
      BY DEF Leftover
    <2>2. PICK d \in doc.deps[n] : d \notin Placed
      BY <1>3, <2>1
    <2>3. d \in doc.ids /\ ~(doc.deps[d] \subseteq Placed)
      BY <1>1, <2>1, <2>2 DEF LoopInv
    <2> QED
      BY <1>3, <2>3
  <1> QED
    BY <1>4 DEF Acyclic, Leftover

-----------------------------------------------------------------------------
(* The checks of DecisionGraph::new.                                       *)

\* An error is right to report on a document that is not of the documented
\* shape.
LEMMA RejectKeepsInv ==
  ASSUME ValidationInv, step # "done", NEW error, error # "ok", NEW n, Reject(error, n),
         ~(~BadNode /\ doc.repeats = {} /\ WellFormed(doc))
  PROVE  ValidationInv'
  <1>1. /\ step' = "done" /\ UNCHANGED doc
        /\ verdict' = [result |-> error, node |-> n]
    BY DEF Reject
  <1>2. verdict' # Accepted'
    <2>1. verdict'.result # Accepted'.result
      BY <1>1 DEF Accepted
    <2> QED
      BY <2>1
  <1>3. IsDocument(doc)' /\ BadNode' = BadNode /\ WellFormed(doc)' = WellFormed(doc)
    BY <1>1 DEF ValidationInv, IsDocument, BadNode, WellFormed, Acyclic, Roots, Outputs, DependentsOf
  <1>4. VerdictMatchesReference'
    BY <1>1, <1>2, <1>3 DEF VerdictMatchesReference
  <1> QED
    BY <1>1, <1>2, <1>3, <1>4 DEF ValidationInv

\* Going on to the next check: what the loop established stays as it was.
LEMMA UnchangedLoop ==
  ASSUME UNCHANGED <<doc, remaining, current, waves>>
  PROVE  /\ LoopInv' = LoopInv /\ BadNode' = BadNode /\ BadDeps' = BadDeps
         /\ Leftover' = Leftover /\ Roots(doc)' = Roots(doc)
         /\ IsDocument(doc)' = IsDocument(doc) /\ WellFormed(doc)' = WellFormed(doc)
  <1>1. Placed' = Placed
    BY DEF Placed
  <1>2. LoopInv' = LoopInv
    BY <1>1 DEF LoopInv, BelongsIn
  <1>3. WellFormed(doc)' = WellFormed(doc)
    BY DEF WellFormed, Acyclic, Roots, Outputs, DependentsOf
  <1> QED
    BY <1>2, <1>3 DEF BadNode, BadDeps, Leftover, Roots, IsDocument

\* Each check either reports a document of the wrong shape or leaves behind what
\* the next ones rely on.
LEMMA ValidateKeepsInv ==
  ASSUME ValidationInv, Validate
  PROVE  ValidationInv'
  <1> USE DEF ValidationInv
  <1>0. /\ Accepted = [result |-> "ok"] /\ IsDocument(doc)
        /\ \A n \in doc.ids : doc.deps[n] \subseteq Nat
    BY DEF Accepted, IsDocument
  <1>1. CASE CheckNodes
    <2>1. CASE BadNode
      BY <1>1, <2>1, RejectKeepsInv DEF CheckNodes
    <2>2. CASE ~BadNode
      <3>1. step = "nodes" /\ step' = "deps" /\ UNCHANGED <<doc, remaining, current, waves, verdict>>
        BY <1>1, <2>2 DEF CheckNodes
      <3> QED
        BY <3>1, <2>2, UnchangedLoop DEF VerdictMatchesReference, Accepted
    <2> QED
      BY <2>1, <2>2
  <1>2. CASE CheckDeps
    <2>1. CASE BadDeps # {}
      <3>1. ~(doc.repeats = {} /\ WellFormed(doc))
        BY <2>1 DEF BadDeps, WellFormed
      <3> QED
        BY <1>2, <2>1, <3>1, RejectKeepsInv DEF CheckDeps
    <2>2. CASE BadDeps = {}
      <3>1. step = "deps" /\ step' = "waves" /\ UNCHANGED <<doc, waves, verdict>>
        BY <1>2, <2>2 DEF CheckDeps
      <3>2. waves = <<>> /\ BadDeps' = {} /\ BadNode' = BadNode
        BY <3>1, <2>2 DEF BadDeps, BadNode
      <3>3. LoopInv'
        BY <1>2, <2>2, <3>2, LoopBegins
      <3> QED
        BY <3>1, <3>2, <3>3 DEF VerdictMatchesReference, Accepted, IsDocument
    <2> QED
      BY <2>1, <2>2
  <1>3. CASE PlaceWave
    <2>1. step = "waves" /\ UNCHANGED <<doc, step, verdict>>
      BY <1>3 DEF PlaceWave
    <2>2. LoopInv'
      BY <1>3, <2>1, LoopContinues
    <2> QED
      BY <2>1, <2>2 DEF VerdictMatchesReference, BadDeps, BadNode, IsDocument, Accepted
  <1>4. CASE CheckCycle
    <2>1. step = "waves" /\ current = {} /\ BadDeps = {} /\ LoopInv
      BY <1>4 DEF CheckCycle
    <2>2. CASE Leftover # {}
      <3>1. ~WellFormed(doc)
        BY <2>1, <2>2, LeftoverIsCyclic DEF WellFormed
      <3> QED
        BY <1>4, <2>2, <3>1, RejectKeepsInv DEF CheckCycle
    <2>3. CASE Leftover = {}
      <3>1. step' = "roots" /\ UNCHANGED <<doc, remaining, current, waves, verdict>>
        BY <1>4, <2>3 DEF CheckCycle
      <3> QED
        BY <2>1, <2>3, <3>1, UnchangedLoop DEF VerdictMatchesReference, Accepted
    <2> QED
      BY <2>2, <2>3
  <1>5. CASE CheckRoots
    <2>1. IsFiniteSet(Roots(doc)) /\ Cardinality(Roots(doc)) \in Nat
      <3>1. Roots(doc) \in SUBSET doc.ids
        BY DEF Roots
      <3> QED
        BY <3>1, FS_Subset, FS_CardinalityType DEF IsDocument
    <2>2. CASE TooManyRoots \/ Roots(doc) = {}
      <3>1. Cardinality(Roots(doc)) # 1
        BY <2>1, <2>2, FS_EmptySet DEF TooManyRoots
      <3> QED
        BY <1>5, <2>2, <3>1, RejectKeepsInv DEF CheckRoots, WellFormed
    <2>3. CASE ~TooManyRoots /\ Roots(doc) # {}
      <3>1. Cardinality(Roots(doc)) = 1
        BY <2>1, <2>3, FS_EmptySet DEF TooManyRoots
      <3>2. step = "roots" /\ step' = "reach" /\ UNCHANGED <<doc, remaining, current, waves, verdict>>
        BY <1>5, <2>3 DEF CheckRoots
      <3> QED
        BY <3>1, <3>2, UnchangedLoop DEF VerdictMatchesReference, Accepted
    <2> QED
      BY <2>2, <2>3
  <1>6. CASE CheckReach
    <2>1. step = "reach"
      BY <1>6 DEF CheckReach
    <2>2. PICK r : Roots(doc) = {r}
      <3>1. IsFiniteSet(Roots(doc))
        <4>1. Roots(doc) \in SUBSET doc.ids
          BY DEF Roots
        <4> QED
          BY <4>1, FS_Subset DEF IsDocument
      <3> QED
        BY <2>1, <3>1, OneElement
    <2>3. Least(Roots(doc)) = r
      BY <2>2, LeastIsMember DEF Roots, IsDocument
    <2>4. Acyclic(doc) /\ \A n \in doc.ids : doc.deps[n] \subseteq doc.ids
      BY <2>1, LoopPlacesAll DEF BadDeps
    <2>5. doc.ids \ ReachableFrom(Least(Roots(doc))) = {}
      BY <2>2, <2>3, <2>4, EverythingReached
    <2>6. step' = "output" /\ UNCHANGED <<doc, remaining, current, waves, verdict>>
      BY <1>6, <2>5 DEF CheckReach
    <2> QED
      BY <2>1, <2>6, UnchangedLoop DEF VerdictMatchesReference, Accepted
  <1>7. CASE CheckOutput
    <2>1. step = "output"
      BY <1>7 DEF CheckOutput
    <2>2. /\ ~BadNode /\ doc.repeats = {} /\ Acyclic(doc)
          /\ \A n \in doc.ids : doc.deps[n] \subseteq doc.ids
          /\ Cardinality(Roots(doc)) = 1
      BY <2>1, LoopPlacesAll DEF BadDeps, IsDocument
    <2>3. ASSUME Cardinality(Outputs(doc)) = 1
          PROVE  Outputs(doc) = {Least(Outputs(doc))}
      <3>1. Outputs(doc) \in SUBSET doc.ids
        BY DEF Outputs
      <3>2. PICK o : Outputs(doc) = {o}
        BY <2>3, <3>1, FS_Subset, OneElement DEF IsDocument
      <3> QED
        BY <3>1, <3>2, LeastIsMember DEF IsDocument
    <2>4. BadOutput <=> ~WellFormed(doc)
      BY <2>2, <2>3 DEF BadOutput, WellFormed
    <2>5. CASE BadOutput
      BY <1>7, <2>1, <2>4, <2>5, RejectKeepsInv DEF CheckOutput
    <2>6. CASE ~BadOutput
      <3>1. step' = "done" /\ verdict' = Accepted /\ UNCHANGED <<doc, remaining, current, waves>>
        BY <1>7, <2>6 DEF CheckOutput
      <3> QED
        BY <2>1, <2>2, <2>4, <2>6, <3>1, UnchangedLoop DEF VerdictMatchesReference, Accepted
    <2> QED
      BY <2>5, <2>6
  <1> QED
    BY <1>1, <1>2, <1>3, <1>4, <1>5, <1>6, <1>7 DEF Validate

-----------------------------------------------------------------------------
(* The merges.                                                             *)

\* What a node computes one level deeper.
LEMMA TermAt ==
  ASSUME NEW g, NEW n \in g.ids, NEW k \in Nat
  PROVE  Terms(g)[k][n] = <<g.kind[n], g.knob[n], IF IsPure(g.kind[n]) THEN 0 ELSE n,
                            Computed(Below(g, k), g.deps[n])>>
  <1>1. Terms(g)[k] = Layer(g, Below(g, k))
    BY TermsUnfold DEF Below
  <1>2. ASSUME NEW below
        PROVE  Layer(g, below)[n] = <<g.kind[n], g.knob[n], IF IsPure(g.kind[n]) THEN 0 ELSE n,
                                      Computed(below, g.deps[n])>>
    BY DEF Layer, Computed
  <1> QED
    BY <1>1, <1>2

\* At the bottom all nodes look alike, so only having any tells.
LEMMA NothingBelow ==
  ASSUME NEW g, NEW S \in SUBSET g.ids, NEW R \in SUBSET g.ids, S = {} <=> R = {}
  PROVE  Computed(Below(g, 0), S) = Computed(Below(g, 0), R)
  <1>1. \A X \in SUBSET g.ids : Computed([n \in g.ids |-> {}], X) = IF X = {} THEN {} ELSE {{}}
    BY DEF Computed
  <1> QED
    BY <1>1 DEF Below

\* Dependencies that compute the same at every depth do so one level below.
LEMMA SameBelow ==
  ASSUME NEW S \in SUBSET graph.ids, NEW R \in SUBSET graph.ids,
         S = {} <=> R = {}, SameTerms(S, R), NEW k \in Nat
  PROVE  Computed(Below(graph, k), S) = Computed(Below(graph, k), R)
  <1>1. CASE k = 0
    BY <1>1, NothingBelow
  <1>2. CASE k # 0
    <2>1. k - 1 \in Nat /\ Below(graph, k) = Terms(graph)[k - 1]
      BY <1>2 DEF Below
    <2> QED
      BY <2>1 DEF SameTerms
  <1> QED
    BY <1>1, <1>2

\* Two pure nodes of one kind and knob whose dependencies compute the same
\* compute the same.
LEMMA SameDepsSameTerm ==
  ASSUME \A n \in graph.ids : graph.deps[n] \subseteq graph.ids,
         NEW n \in graph.ids, NEW m \in graph.ids,
         graph.kind[n] = graph.kind[m], graph.knob[n] = graph.knob[m], IsPure(graph.kind[n]),
         graph.deps[n] = {} <=> graph.deps[m] = {},
         SameTerms(graph.deps[n], graph.deps[m]),
         NEW k \in Nat
  PROVE  Terms(graph)[k][n] = Terms(graph)[k][m]
  <1>1. Computed(Below(graph, k), graph.deps[n]) = Computed(Below(graph, k), graph.deps[m])
    BY SameBelow
  <1>2. /\ Terms(graph)[k][n] = <<graph.kind[n], graph.knob[n], IF IsPure(graph.kind[n]) THEN 0 ELSE n,
                                  Computed(Below(graph, k), graph.deps[n])>>
        /\ Terms(graph)[k][m] = <<graph.kind[m], graph.knob[m], IF IsPure(graph.kind[m]) THEN 0 ELSE m,
                                  Computed(Below(graph, k), graph.deps[m])>>
    BY TermAt
  <1> QED
    BY <1>1, <1>2

\* Renaming what was merged changes nothing one can read.
LEMMA RenamedReadsTheSame ==
  ASSUME MergeInv, NEW n \in graph.ids
  PROVE  /\ NewDeps(n) \subseteq graph.ids
         /\ SameTerms(NewDeps(n), graph.deps[n])
         /\ NewDeps(n) = {} <=> graph.deps[n] = {}
  <1>1. graph.deps[n] \subseteq graph.ids
    BY DEF MergeInv, WellFormed
  <1>2. \A d \in graph.ids : /\ Renamed(d) \in graph.ids
                            /\ \A k \in Nat : Terms(graph)[k][Renamed(d)] = Terms(graph)[k][d]
    BY DEF MergeInv, Renamed
  <1>3. SameTerms(NewDeps(n), graph.deps[n])
    <2> SUFFICES ASSUME NEW k \in Nat
                 PROVE  Computed(Terms(graph)[k], NewDeps(n)) = Computed(Terms(graph)[k], graph.deps[n])
      BY DEF SameTerms
    <2>1. \A d \in graph.deps[n] : Terms(graph)[k][Renamed(d)] = Terms(graph)[k][d]
      BY <1>1, <1>2
    <2> QED
      BY <2>1 DEF NewDeps, Computed
  <1> QED
    BY <1>1, <1>2, <1>3 DEF NewDeps

\* The least node waiting is a node, waiting and neither kept nor merged.
LEMMA FirstWaits ==
  ASSUME MergeInv, queue # {}
  PROVE  First \in queue /\ First \in graph.ids /\ First \notin kept
  <1>1. queue \in SUBSET Nat
    BY DEF MergeInv, IsDocument
  <1>2. First \in queue
    BY <1>1, LeastNumber DEF First
  <1> QED
    BY <1>2 DEF MergeInv

\* Merging: the twin that was kept computes the same.
LEMMA MergeKeepsInv ==
  ASSUME MergeInv, Merge
  PROVE  MergeInv'
  <1>1. /\ First \in queue /\ First \in graph.ids /\ First \notin kept
    BY FirstWaits DEF Merge
  <1>2. PICK m \in Survivors(First) :
          rewritten' = [d \in DOMAIN rewritten \cup {First} |-> IF d = First THEN m ELSE rewritten[d]]
    BY DEF Merge
  <1>3. queue' = queue \ {First} /\ UNCHANGED <<graph, kept, deps>>
    BY DEF Merge
  <1>4. /\ m \in kept /\ m \in graph.ids /\ IsPure(graph.kind[First])
        /\ graph.kind[m] = graph.kind[First] /\ graph.knob[m] = graph.knob[First]
        /\ deps[m] = NewDeps(First)
    BY <1>2 DEF Survivors, SameKey, MergeInv
  <1>5. /\ SameTerms(NewDeps(First), graph.deps[First])
        /\ NewDeps(First) = {} <=> graph.deps[First] = {}
    BY <1>1, RenamedReadsTheSame
  <1>6. /\ SameTerms(deps[m], graph.deps[m])
        /\ deps[m] = {} <=> graph.deps[m] = {}
    BY <1>4 DEF MergeInv
  <1>7. SameTerms(graph.deps[First], graph.deps[m])
    BY <1>4, <1>5, <1>6 DEF SameTerms
  <1>8. \A i \in graph.ids : graph.deps[i] \subseteq graph.ids
    BY DEF MergeInv, WellFormed
  <1>9. \A k \in Nat : Terms(graph)[k][First] = Terms(graph)[k][m]
    <2> HIDE DEF MergeInv
    <2>1. graph.deps[First] = {} <=> graph.deps[m] = {}
      BY <1>4, <1>5, <1>6
    <2> QED
      BY <1>1, <1>4, <1>7, <1>8, <2>1, SameDepsSameTerm
  <1>10. ASSUME NEW d \in DOMAIN rewritten'
         PROVE  /\ rewritten'[d] \in graph.ids /\ IsPure(graph.kind[d])
                /\ \A k \in Nat : Terms(graph)[k][d] = Terms(graph)[k][rewritten'[d]]
    <2>1. CASE d = First
      BY <1>2, <1>4, <1>9, <2>1
    <2>2. CASE d # First
      <3>1. d \in DOMAIN rewritten /\ rewritten'[d] = rewritten[d]
        BY <1>2, <2>2
      <3> QED
        BY <3>1 DEF MergeInv
    <2> QED
      BY <2>1, <2>2
  <1>11. kept \cup queue' \cup DOMAIN rewritten' = graph.ids
    BY <1>1, <1>2, <1>3 DEF MergeInv
  <1>12. \A n \in kept : SameTerms(deps[n], graph.deps[n]) <=> SameTerms(deps[n], graph.deps[n])'
    BY <1>3 DEF SameTerms
  <1>13. IsDocument(graph)' /\ WellFormed(graph)'
    BY <1>3 DEF MergeInv, IsDocument, WellFormed, Acyclic, Roots, Outputs, DependentsOf
  <1> QED
    BY <1>3, <1>10, <1>11, <1>12, <1>13 DEF MergeInv

\* Keeping: the rewritten dependencies read the same as the declared ones.
LEMMA KeepKeepsInv ==
  ASSUME MergeInv, Keep
  PROVE  MergeInv'
  <1>1. First \in queue /\ First \in graph.ids /\ First \notin kept
    BY FirstWaits DEF Keep
  <1>2. /\ kept' = kept \cup {First} /\ queue' = queue \ {First}
        /\ deps' = [deps EXCEPT ![First] = NewDeps(First)] /\ UNCHANGED <<graph, rewritten>>
    BY DEF Keep
  <1>3. /\ NewDeps(First) \subseteq graph.ids
        /\ SameTerms(NewDeps(First), graph.deps[First])
        /\ NewDeps(First) = {} <=> graph.deps[First] = {}
    BY <1>1, RenamedReadsTheSame
  <1>4. NewDeps(First) \in SUBSET Nat /\ deps \in [graph.ids -> SUBSET Nat]
    BY <1>3 DEF MergeInv, IsDocument
  <1>5. deps' \in [graph.ids -> SUBSET Nat]
    BY <1>2, <1>4
  <1>6. deps'[First] = NewDeps(First) /\ \A n \in graph.ids : n # First => deps'[n] = deps[n]
    BY <1>1, <1>2, <1>4
  <1>7. ASSUME NEW n \in kept'
        PROVE  /\ deps'[n] \subseteq graph.ids /\ SameTerms(deps'[n], graph.deps[n])
               /\ deps'[n] = {} <=> graph.deps[n] = {}
    <2>1. CASE n = First
      BY <1>3, <1>6, <2>1
    <2>2. CASE n # First
      <3>1. n \in kept /\ n \in graph.ids /\ deps'[n] = deps[n]
        BY <1>2, <1>6, <2>2 DEF MergeInv
      <3> QED
        BY <3>1 DEF MergeInv
    <2> QED
      BY <2>1, <2>2
  <1>8. kept' \cup queue' \cup DOMAIN rewritten' = graph.ids /\ kept' \cap queue' = {}
    BY <1>1, <1>2 DEF MergeInv
  <1>9. IsDocument(graph)' /\ WellFormed(graph)'
    BY <1>2 DEF MergeInv, IsDocument, WellFormed, Acyclic, Roots, Outputs, DependentsOf
  <1>10. \A d \in DOMAIN rewritten' :
          /\ rewritten'[d] \in graph.ids /\ IsPure(graph.kind[d])
          /\ \A k \in Nat : Terms(graph)[k][d] = Terms(graph)[k][rewritten'[d]]
    BY <1>2 DEF MergeInv
  <1>11. \A n \in kept' : SameTerms(deps'[n], graph.deps[n]) => SameTerms(deps[n], graph.deps[n])'
    BY <1>2 DEF SameTerms
  <1> QED
    BY <1>2, <1>5, <1>7, <1>8, <1>9, <1>10, <1>11 DEF MergeInv

-----------------------------------------------------------------------------
(* Levels.                                                                 *)

\* No node is in two waves: the earliest such node would have a dependency that
\* is in two waves, one of them earlier still.
LEMMA OneWaveEach ==
  ASSUME LoopInv, NEW i \in 1 .. Len(waves), NEW j \in 1 .. Len(waves),
         NEW n \in waves[i] \cap waves[j]
  PROVE  i = j
  <1>0. PICK N \in Nat : N = Len(waves)
    BY DEF LoopInv
  <1>1. \A k \in 1 .. N : \A m \in waves[k] : m \in doc.ids /\ BelongsIn(m, k)
    BY <1>0 DEF LoopInv
  <1> DEFINE Twice == {k \in 1 .. N : \E l \in 1 .. N : l # k /\ waves[k] \cap waves[l] # {}}
  <1> SUFFICES ASSUME i # j PROVE FALSE
    OBVIOUS
  <1>2. Twice \in SUBSET Nat /\ i \in Twice
    BY <1>0
  <1>3. PICK k \in Twice : \A l \in Twice : k <= l
    <2> HIDE DEF Twice
    <2> QED
      BY <1>2, LeastNumber
  <1>4. PICK l \in 1 .. N : l # k /\ waves[k] \cap waves[l] # {}
    OBVIOUS
  <1>5. l \in Twice /\ k < l
    <2>1. l \in Twice
      BY <1>4
    <2> QED
      BY <1>3, <1>4, <2>1
  <1>10. PICK m \in doc.ids : m \in waves[k] /\ m \in waves[l]
    BY <1>1, <1>4
  <1>6. PICK d \in doc.deps[m] : d \in waves[l - 1]
    BY <1>1, <1>4, <1>5, <1>10 DEF BelongsIn
  <1>7. PICK h \in 1 .. k - 1 : d \in waves[h]
    BY <1>1, <1>6, <1>10 DEF BelongsIn
  <1>8. h \in Twice
    <2>1. l - 1 \in 1 .. N /\ h \in 1 .. N /\ h # l - 1
      BY <1>5, <1>7
    <2> QED
      BY <1>6, <1>7, <2>1
  <1>9. k <= h /\ k \in 1 .. N
    BY <1>3, <1>8
  <1> HIDE DEF Twice
  <1> QED
    BY <1>7, <1>9

\* The waves of an accepted document give every node its level.
LEMMA WavesGiveLevels ==
  ASSUME LoopInv, Placed = doc.ids, \A n \in doc.ids : doc.deps[n] \subseteq doc.ids
  PROVE  \E L \in [doc.ids -> Nat] :
            \A n \in doc.ids : /\ \A d \in doc.deps[n] : L[d] < L[n]
                               /\ L[n] # 0 => \E d \in doc.deps[n] : L[d] + 1 = L[n]
  <1>0. PICK N \in Nat : N = Len(waves)
    BY DEF LoopInv
  <1> DEFINE At(n) == CHOOSE i \in 1 .. N : n \in waves[i]
             L == [n \in doc.ids |-> At(n) - 1]
  <1>1. ASSUME NEW n \in doc.ids PROVE At(n) \in 1 .. N /\ n \in waves[At(n)]
    BY <1>0 DEF Placed
  <1>2. ASSUME NEW n \in doc.ids, NEW i \in 1 .. N, n \in waves[i] PROVE At(n) = i
    <2> HIDE DEF At
    <2> QED
      BY <1>0, <1>1, <1>2, OneWaveEach
  <1> HIDE DEF At
  <1>3. L \in [doc.ids -> Nat]
    BY <1>1
  <1>4. ASSUME NEW n \in doc.ids
        PROVE  /\ \A d \in doc.deps[n] : L[d] < L[n]
               /\ L[n] # 0 => \E d \in doc.deps[n] : L[d] + 1 = L[n]
    <2>1. BelongsIn(n, At(n)) /\ At(n) \in 1 .. N
      BY <1>0, <1>1 DEF LoopInv
    <2>2. ASSUME NEW d \in doc.deps[n] PROVE L[d] < L[n]
      <3>1. PICK j \in 1 .. At(n) - 1 : d \in waves[j]
        BY <2>1 DEF BelongsIn
      <3>2. d \in doc.ids /\ At(d) = j
        BY <1>2, <2>1, <3>1
      <3> QED
        BY <2>1, <3>1, <3>2
    <2>3. ASSUME L[n] # 0 PROVE \E d \in doc.deps[n] : L[d] + 1 = L[n]
      <3>1. At(n) > 1
        BY <2>1, <2>3
      <3>2. PICK d \in doc.deps[n] : d \in waves[At(n) - 1]
        BY <2>1, <3>1 DEF BelongsIn
      <3>3. d \in doc.ids /\ At(d) = At(n) - 1
        BY <1>2, <2>1, <3>1, <3>2
      <3> QED
        BY <2>1, <3>3
    <2> QED
      BY <2>2, <2>3
  <1> HIDE DEF L
  <1> QED
    BY <1>3, <1>4

\* A node's level is settled by the levels of what it depends on.
LEMMA SameLevelsBelow ==
  ASSUME NEW L \in [graph.ids -> Nat], Levels(L),
         \A i \in graph.ids : graph.deps[i] \subseteq graph.ids,
         NEW n \in graph.ids, NEW m \in graph.ids,
         \A d \in graph.deps[n] : \E e \in graph.deps[m] : L[e] = L[d]
  PROVE  L[n] <= L[m]
  <1>1. CASE L[n] = 0
    BY <1>1
  <1>2. CASE L[n] # 0
    <2>1. PICK d \in graph.deps[n] : L[d] + 1 = L[n]
      BY <1>2 DEF Levels
    <2>2. PICK e \in graph.deps[m] : L[e] = L[d]
      BY <2>1
    <2>3. L[e] < L[m]
      BY <2>2 DEF Levels
    <2>4. L[n] \in Nat /\ L[m] \in Nat /\ L[d] \in Nat
      OBVIOUS
    <2> QED
      BY <2>1, <2>2, <2>3, <2>4
  <1> QED
    BY <1>1, <1>2

\* What the first waiting node will read is on the levels of what it declared.
LEMMA RenamedOnSameLevels ==
  ASSUME MergeInv, NEW L \in [graph.ids -> Nat], Levels(L), NEW n \in graph.ids
  PROVE  /\ \A d \in NewDeps(n) : \E e \in graph.deps[n] : L[e] = L[d]
         /\ \A e \in graph.deps[n] : \E d \in NewDeps(n) : L[d] = L[e]
  <1>1. \A d \in graph.deps[n] : L[Renamed(d)] = L[d]
    BY DEF Levels, Renamed
  <1> QED
    BY <1>1 DEF NewDeps

\* A merged node is on the level of the twin that was kept.
LEMMA MergeKeepsLevels ==
  ASSUME MergeInv, LevelInv, Merge
  PROVE  LevelInv'
  <1>1. First \in graph.ids
    BY FirstWaits DEF Merge
  <1>2. PICK m \in Survivors(First) :
          rewritten' = [d \in DOMAIN rewritten \cup {First} |-> IF d = First THEN m ELSE rewritten[d]]
    BY DEF Merge
  <1>3. UNCHANGED <<graph, kept, deps>>
    BY DEF Merge
  <1>4. m \in kept /\ m \in graph.ids /\ deps[m] = NewDeps(First)
    BY <1>2 DEF Survivors, SameKey, MergeInv
  <1>5. PICK L \in [graph.ids -> Nat] : Levels(L)
    BY DEF LevelInv
  <1>6. /\ \A d \in NewDeps(First) : \E e \in graph.deps[First] : L[e] = L[d]
        /\ \A e \in graph.deps[First] : \E d \in NewDeps(First) : L[d] = L[e]
    BY <1>1, <1>5, RenamedOnSameLevels
  <1>7. /\ \A d \in deps[m] : \E e \in graph.deps[m] : L[e] = L[d]
        /\ \A e \in graph.deps[m] : \E d \in deps[m] : L[d] = L[e]
    BY <1>4, <1>5 DEF Levels
  <1>8. \A i \in graph.ids : graph.deps[i] \subseteq graph.ids
    BY DEF MergeInv, WellFormed
  <1>9. L[First] = L[m]
    <2>1. /\ \A d \in graph.deps[First] : \E e \in graph.deps[m] : L[e] = L[d]
          /\ \A d \in graph.deps[m] : \E e \in graph.deps[First] : L[e] = L[d]
      <3>1. ASSUME NEW d \in graph.deps[First] PROVE \E e \in graph.deps[m] : L[e] = L[d]
        <4>1. PICK x \in deps[m] : L[x] = L[d]
          BY <1>4, <1>6
        <4> QED
          BY <1>7, <4>1
      <3>2. ASSUME NEW d \in graph.deps[m] PROVE \E e \in graph.deps[First] : L[e] = L[d]
        <4>1. PICK x \in NewDeps(First) : L[x] = L[d]
          BY <1>4, <1>7
        <4> QED
          BY <1>6, <4>1
      <3> QED
        BY <3>1, <3>2
    <2>2. L[First] <= L[m] /\ L[m] <= L[First]
      BY <1>1, <1>4, <1>5, <1>8, <2>1, SameLevelsBelow
    <2> QED
      BY <1>1, <1>4, <2>2
  <1>10. Levels(L)'
    <2>1. \A d \in DOMAIN rewritten' : L[rewritten'[d]] = L[d]
      BY <1>2, <1>5, <1>9 DEF Levels
    <2> QED
      BY <1>3, <1>5, <2>1 DEF Levels
  <1> QED
    BY <1>3, <1>10 DEF LevelInv

\* Keeping a node leaves what it reads on the levels of what it declared.
LEMMA KeepKeepsLevels ==
  ASSUME MergeInv, LevelInv, Keep
  PROVE  LevelInv'
  <1>1. First \in graph.ids /\ First \notin kept
    BY FirstWaits DEF Keep
  <1>2. /\ kept' = kept \cup {First} /\ UNCHANGED <<graph, rewritten>>
        /\ deps' = [deps EXCEPT ![First] = NewDeps(First)] /\ deps \in [graph.ids -> SUBSET Nat]
        /\ kept \subseteq graph.ids
    BY DEF Keep, MergeInv
  <1>3. PICK L \in [graph.ids -> Nat] : Levels(L)
    BY DEF LevelInv
  <1>4. /\ \A d \in NewDeps(First) : \E e \in graph.deps[First] : L[e] = L[d]
        /\ \A e \in graph.deps[First] : \E d \in NewDeps(First) : L[d] = L[e]
    BY <1>1, <1>3, RenamedOnSameLevels
  <1>5. deps'[First] = NewDeps(First) /\ \A n \in kept : deps'[n] = deps[n]
    BY <1>1, <1>2
  <1>6. ASSUME NEW n \in kept'
        PROVE  /\ \A d \in deps'[n] : \E e \in graph.deps[n] : L[e] = L[d]
               /\ \A e \in graph.deps[n] : \E d \in deps'[n] : L[d] = L[e]
    <2>1. CASE n = First
      BY <1>4, <1>5, <2>1
    <2>2. CASE n # First
      <3>1. n \in kept /\ deps'[n] = deps[n]
        BY <1>2, <1>5, <2>2
      <3> QED
        BY <1>3, <3>1 DEF Levels
    <2> QED
      BY <2>1, <2>2
  <1>7. Levels(L)'
    <2>1. \A d \in DOMAIN rewritten' : L[rewritten'[d]] = L[d]
      BY <1>2, <1>3 DEF Levels
    <2>2. \A n \in graph.ids : /\ \A d \in graph.deps[n] : L[d] < L[n]
                               /\ L[n] # 0 => \E d \in graph.deps[n] : L[d] + 1 = L[n]
      BY <1>3 DEF Levels
    <2> QED
      BY <1>2, <1>6, <2>1, <2>2 DEF Levels
  <1> QED
    BY <1>2, <1>7 DEF LevelInv

-----------------------------------------------------------------------------
(* The rebuilt graph.                                                      *)

\* If no dependency of it is missing, every node of the rebuilt graph computes
\* what it did in the input, at every depth.
LEMMA TermsKept ==
  ASSUME MergeInv, LeftOver, \A n \in doc.ids : doc.deps[n] \subseteq doc.ids,
         NEW k \in Nat, NEW n \in doc.ids
  PROVE  Terms(doc)[k][n] = Terms(graph)[k][n]
  <1>1. /\ doc.ids \subseteq kept /\ doc.ids \subseteq graph.ids
        /\ \A m \in doc.ids : /\ doc.kind[m] = graph.kind[m] /\ doc.knob[m] = graph.knob[m]
                              /\ doc.deps[m] = deps[m] /\ deps[m] \subseteq graph.ids
                              /\ SameTerms(deps[m], graph.deps[m])
                              /\ (deps[m] = {} <=> graph.deps[m] = {})
                              /\ graph.deps[m] \subseteq graph.ids
    BY DEF LeftOver, Spared, Live, MergeInv, WellFormed
  <1> DEFINE T == {i \in 0 .. k : \A m \in doc.ids : Terms(doc)[i][m] = Terms(graph)[i][m]}
  <1>2. ASSUME NEW i \in 0 .. k, NEW m \in doc.ids,
               Computed(Below(doc, i), doc.deps[m]) = Computed(Below(graph, i), deps[m])
        PROVE  Terms(doc)[i][m] = Terms(graph)[i][m]
    <2>1. i \in Nat /\ m \in graph.ids
      BY <1>1
    <2>2. Terms(doc)[i][m] = <<doc.kind[m], doc.knob[m], IF IsPure(doc.kind[m]) THEN 0 ELSE m,
                               Computed(Below(doc, i), doc.deps[m])>>
      BY <2>1, TermAt
    <2>3. Terms(graph)[i][m] = <<graph.kind[m], graph.knob[m], IF IsPure(graph.kind[m]) THEN 0 ELSE m,
                                 Computed(Below(graph, i), graph.deps[m])>>
      BY <2>1, TermAt
    <2>4. Computed(Below(graph, i), deps[m]) = Computed(Below(graph, i), graph.deps[m])
      BY <1>1, <2>1, SameBelow
    <2>5. IsPure(doc.kind[m]) = IsPure(graph.kind[m])
      BY <1>1
    <2> QED
      BY <1>1, <1>2, <2>2, <2>3, <2>4, <2>5
  <1>3. 0 \in T
    <2>1. \A m \in doc.ids : Computed(Below(doc, 0), doc.deps[m]) = Computed(Below(graph, 0), deps[m])
      <3> SUFFICES ASSUME NEW m \in doc.ids
                   PROVE  Computed(Below(doc, 0), doc.deps[m]) = Computed(Below(graph, 0), deps[m])
        OBVIOUS
      <3>1. \A d \in deps[m] : [x \in doc.ids |-> {}][d] = {} /\ [x \in graph.ids |-> {}][d] = {}
        BY <1>1
      <3> QED
        BY <1>1, <3>1 DEF Computed, Below
    <2> QED
      BY <1>2, <2>1
  <1>4. ASSUME NEW i \in 0 .. k, i > 0, i - 1 \in T PROVE i \in T
    <2>1. \A m \in doc.ids : Terms(doc)[i - 1][m] = Terms(graph)[i - 1][m]
      BY <1>4
    <2>2. Below(doc, i) = Terms(doc)[i - 1] /\ Below(graph, i) = Terms(graph)[i - 1]
      BY <1>4 DEF Below
    <2>3. \A m \in doc.ids : doc.deps[m] = deps[m] /\ deps[m] \subseteq doc.ids
      BY <1>1
    <2>4. \A m \in doc.ids : Computed(Below(doc, i), doc.deps[m]) = Computed(Below(graph, i), deps[m])
      BY <2>1, <2>2, <2>3 DEF Computed
    <2> QED
      BY <1>2, <2>4
  <1>5. 0 .. k \subseteq T
    <2> HIDE DEF T
    <2> QED
      BY <1>3, <1>4, UpTo
  <1> QED
    BY <1>5

\* The output is the one node of its kind, and no node that is left reads it: what
\* it would read in its place is an output that the node declared.
LEMMA OutputIsLast ==
  ASSUME MergeInv
  PROVE  /\ Outputs(graph) = {Output} /\ Output \in graph.ids
         /\ \A n \in kept : Output \notin deps[n]
  <1>1. PICK o : Outputs(graph) = {o}
    <2>1. Outputs(graph) \in SUBSET graph.ids
      BY DEF Outputs
    <2> QED
      BY <2>1, FS_Subset, OneElement DEF MergeInv, WellFormed, IsDocument
  <1>2. Output = o /\ o \in graph.ids /\ \A n \in graph.ids : graph.kind[n] = "output" <=> n = o
    BY <1>1 DEF Outputs, Output
  <1>3. ASSUME NEW n \in kept, o \in deps[n] PROVE FALSE
    <2>1. /\ n \in graph.ids /\ graph.deps[n] \subseteq graph.ids
          /\ Computed(Terms(graph)[0], deps[n]) = Computed(Terms(graph)[0], graph.deps[n])
      BY DEF MergeInv, SameTerms, WellFormed
    <2>2. PICK e \in graph.deps[n] : Terms(graph)[0][e] = Terms(graph)[0][o]
      BY <1>3, <2>1 DEF Computed
    <2>3. Terms(graph)[0][e][1] = graph.kind[e] /\ Terms(graph)[0][o][1] = graph.kind[o]
      BY <1>2, <2>1, <2>2, TermAt
    <2>4. e = o
      BY <1>2, <2>1, <2>2, <2>3
    <2> QED
      BY <1>1, <2>1, <2>2, <2>4 DEF MergeInv, WellFormed, DependentsOf
  <1> QED
    BY <1>1, <1>2, <1>3

\* The output and the cache nodes are never merged and never dead.
LEMMA ObservableSpared ==
  ASSUME MergeInv, queue = {}, NEW n \in graph.ids, graph.kind[n] \in {"output", "cache"}
  PROVE  n \in Spared
  <1>1. n \in kept
    BY DEF MergeInv, IsPure
  <1>2. CASE graph.kind[n] = "cache"
    BY <1>1, <1>2 DEF Spared
  <1>3. CASE graph.kind[n] = "output"
    <2>1. n = Output
      BY <1>3, OutputIsLast DEF Outputs
    <2> QED
      BY <1>1, <2>1 DEF Spared, Live
  <1> QED
    BY <1>2, <1>3

\* What is left is of the documented shape as soon as it names nothing that is
\* gone: levels leave no cycle, only the input's root and output are ones.
LEMMA RebuiltShape ==
  ASSUME MergeInv, LevelInv, LeftOver, queue = {},
         \A n \in doc.ids : doc.deps[n] \subseteq doc.ids
  PROVE  WellFormed(doc)
  <1>1. /\ doc.ids \subseteq kept /\ doc.ids \subseteq graph.ids
        /\ \A n \in doc.ids : /\ doc.kind[n] = graph.kind[n] /\ doc.deps[n] = deps[n]
                              /\ deps[n] = {} <=> graph.deps[n] = {}
    BY DEF LeftOver, Spared, Live, MergeInv
  <1>2. PICK L \in [graph.ids -> Nat] : Levels(L)
    BY DEF LevelInv
  <1>3. Outputs(graph) = {Output} /\ Output \in doc.ids /\ graph.kind[Output] = "output"
    <2>1. Outputs(graph) = {Output} /\ Output \in graph.ids /\ graph.kind[Output] = "output"
      BY OutputIsLast DEF Outputs
    <2> QED
      BY <2>1, ObservableSpared DEF LeftOver
  <1>4. Acyclic(doc)
    <2> SUFFICES ASSUME NEW S \in (SUBSET doc.ids) \ {{}} PROVE \E n \in S : doc.deps[n] \cap S = {}
      BY DEF Acyclic
    <2> DEFINE I == {L[n] : n \in S}
    <2>1. I \in SUBSET Nat /\ I # {}
      BY <1>1
    <2>2. PICK i \in I : \A j \in I : i <= j
      <3> HIDE DEF I
      <3> QED
        BY <2>1, LeastNumber
    <2>3. PICK n \in S : L[n] = i
      BY <2>2
    <2>4. ASSUME NEW d \in doc.deps[n] \cap S PROVE FALSE
      <3>1. PICK e \in graph.deps[n] : L[e] = L[d]
        BY <1>1, <1>2, <2>3, <2>4 DEF Levels
      <3>2. L[e] < L[n] /\ L[d] \in I
        BY <1>1, <1>2, <2>3, <2>4, <3>1 DEF Levels
      <3>3. L[n] \in Nat /\ L[d] \in Nat
        BY <1>1, <2>3, <2>4
      <3> QED
        BY <2>2, <2>3, <3>1, <3>2, <3>3
    <2> QED
      BY <2>3, <2>4
  <1>5. Cardinality(Roots(doc)) = 1
    <2>1. PICK r : Roots(graph) = {r}
      <3>1. Roots(graph) \in SUBSET graph.ids
        BY DEF Roots
      <3> QED
        BY <3>1, FS_Subset, OneElement DEF MergeInv, WellFormed, IsDocument
    <2>2. Roots(doc) \subseteq {r}
      BY <1>1, <2>1 DEF Roots
    <2>3. PICK n \in doc.ids : doc.deps[n] \cap doc.ids = {}
      BY <1>3, <1>4 DEF Acyclic
    <2>4. n \in Roots(doc)
      BY <2>3 DEF Roots
    <2>5. Roots(doc) = {r}
      BY <2>2, <2>4
    <2> QED
      BY <2>5, FS_Singleton
  <1>6. Outputs(doc) = {Output}
    BY <1>1, <1>3 DEF Outputs
  <1>7. Cardinality(Outputs(doc)) = 1
    BY <1>6, FS_Singleton
  <1>8. doc.deps[Output] # {} /\ DependentsOf(doc, Output) = {}
    <2>1. graph.deps[Output] # {}
      BY <1>3 DEF MergeInv, WellFormed
    <2> QED
      BY <1>1, <1>3, <2>1, OutputIsLast DEF DependentsOf
  <1> QED
    BY <1>4, <1>5, <1>6, <1>7, <1>8 DEF WellFormed

\* Initially nothing has been checked and nothing merged.
LEMMA GraphInitInv ==
  ASSUME Init
  PROVE  GraphInv
  <1>1. IsDocument(doc)
    BY DocumentAssumption DEF Init, ValidationInit, IsDocument
  <1>2. verdict # Accepted
    <2>1. verdict.result # Accepted.result
      BY DEF Init, ValidationInit, Undecided, Accepted
    <2> QED
      BY <2>1
  <1> QED
    BY <1>1, <1>2 DEF Init, ValidationInit, GraphInv, ValidationInv, OptimizerInv, VerdictMatchesReference

\* Optimizing leaves what was validated alone.
LEMMA ValidationStands ==
  ASSUME ValidationInv, UNCHANGED validationVars
  PROVE  ValidationInv'
  <1>1. UNCHANGED <<doc, step, remaining, current, waves, verdict>>
    BY DEF validationVars
  <1> QED
    BY <1>1, UnchangedLoop DEF ValidationInv, VerdictMatchesReference, Accepted

\* What is left of a graph is a document like any other.
LEMMA DropDeadKeepsInv ==
  ASSUME GraphInv, DropDead
  PROVE  GraphInv'
  <1>1. /\ pass = "dead" /\ pass' = "rebuild" /\ UNCHANGED <<graph, queue, kept, deps, rewritten>>
        /\ step' = "nodes" /\ waves' = <<>> /\ verdict' = Undecided
        /\ LeftOver' /\ doc'.repeats = {}
    BY DEF DropDead, Reads, LeftOver, Spared, Live, Output, Step
  <1>2. MergeInv /\ LevelInv /\ queue = {}
    BY <1>1 DEF GraphInv, OptimizerInv
  <1>3. MergeInv' /\ LevelInv'
    <2>1. MergeInv' = MergeInv
      BY <1>1 DEF MergeInv, SameTerms, IsDocument, WellFormed, Acyclic, Roots, Outputs, DependentsOf
    <2>2. LevelInv' = LevelInv
      BY <1>1 DEF LevelInv, Levels
    <2> QED
      BY <1>2, <2>1, <2>2
  <1>4. Spared' = Spared
    BY <1>1 DEF Spared, Live, Output, Step
  <1>5. IsDocument(doc)'
    <2>1. Spared \in SUBSET graph.ids
      BY <1>2 DEF Spared, Live, MergeInv
    <2>2. IsFiniteSet(Spared)
      BY <1>2, <2>1, FS_Subset DEF MergeInv, IsDocument
    <2>3. [n \in Spared |-> deps[n]] \in [Spared -> SUBSET Nat]
      BY <1>2, <2>1 DEF MergeInv
    <2>4. doc'.ids = Spared /\ doc'.deps = [n \in Spared |-> deps[n]]
      BY <1>1, <1>4 DEF LeftOver
    <2> QED
      BY <1>1, <1>2, <2>1, <2>2, <2>3, <2>4 DEF IsDocument, MergeInv
  <1>6. verdict' # Accepted'
    <2>1. verdict'.result # Accepted'.result
      BY <1>1 DEF Undecided, Accepted
    <2> QED
      BY <2>1
  <1>7. ValidationInv'
    BY <1>1, <1>5, <1>6 DEF ValidationInv, VerdictMatchesReference
  <1> QED
    BY <1>1, <1>2, <1>3, <1>7 DEF GraphInv, OptimizerInv, LeftOver

\* Every step keeps the invariant.
LEMMA GraphStepInv ==
  ASSUME GraphInv, [Next]_vars
  PROVE  GraphInv'
  <1>1. CASE Check
    <2>1. UNCHANGED <<graph, queue, kept, deps, rewritten, pass>> /\ ValidationInv'
      BY <1>1, ValidateKeepsInv DEF Check, GraphInv, optimizerVars
    <2>2. doc' = doc
      BY <1>1 DEF Check, Validate, CheckNodes, CheckDeps, PlaceWave, CheckCycle, CheckRoots, CheckReach,
                  CheckOutput, Reject
    <2>3. MergeInv' = MergeInv /\ LevelInv' = LevelInv
      BY <2>1 DEF MergeInv, SameTerms, IsDocument, WellFormed, Acyclic, Roots, Outputs, DependentsOf,
                  LevelInv, Levels
    <2>4. LeftOver' = LeftOver
      BY <2>1, <2>2 DEF LeftOver, Spared, Live, Output, Step
    <2> QED
      BY <2>1, <2>3, <2>4 DEF GraphInv, OptimizerInv
  <1>2. CASE Begin
    <2>1. /\ pass = "load" /\ verdict = Accepted /\ pass' = "merge" /\ graph' = doc /\ queue' = doc.ids
          /\ deps' = doc.deps /\ kept' = {} /\ DOMAIN rewritten' = {} /\ UNCHANGED validationVars
      BY <1>2 DEF Begin, GraphInv, OptimizerInv
    <2>2. IsDocument(doc) /\ WellFormed(doc)
      BY <2>1 DEF GraphInv, ValidationInv, VerdictMatchesReference
    <2>3. IsDocument(graph)' /\ WellFormed(graph)'
      BY <2>1, <2>2 DEF IsDocument, WellFormed, Acyclic, Roots, Outputs, DependentsOf
    <2>4. MergeInv'
      BY <2>1, <2>2, <2>3 DEF MergeInv, IsDocument
    <2>5. LevelInv'
      <3>1. LoopInv /\ Placed = doc.ids /\ \A n \in doc.ids : doc.deps[n] \subseteq doc.ids
        BY <2>1, <2>2, LoopPlacesAll DEF GraphInv, ValidationInv, WellFormed
      <3>2. PICK L \in [doc.ids -> Nat] :
              \A n \in doc.ids : /\ \A d \in doc.deps[n] : L[d] < L[n]
                                 /\ L[n] # 0 => \E d \in doc.deps[n] : L[d] + 1 = L[n]
        BY <3>1, WavesGiveLevels
      <3>3. Levels(L)'
        BY <2>1, <3>2 DEF Levels
      <3> QED
        BY <2>1, <3>2, <3>3 DEF LevelInv
    <2> QED
      BY <2>1, <2>4, <2>5, ValidationStands DEF GraphInv, OptimizerInv
  <1>3. CASE Merge
    <2>1. pass = "merge" /\ pass' = pass /\ UNCHANGED validationVars
      BY <1>3 DEF Merge
    <2> QED
      BY <1>3, <2>1, MergeKeepsInv, MergeKeepsLevels, ValidationStands DEF GraphInv, OptimizerInv
  <1>4. CASE Keep
    <2>1. pass = "merge" /\ pass' = pass /\ UNCHANGED validationVars
      BY <1>4 DEF Keep
    <2> QED
      BY <1>4, <2>1, KeepKeepsInv, KeepKeepsLevels, ValidationStands DEF GraphInv, OptimizerInv
  <1>5. CASE MergeDone
    <2>1. /\ pass = "merge" /\ pass' = "dead" /\ queue = {}
          /\ UNCHANGED <<graph, queue, kept, deps, rewritten>> /\ UNCHANGED validationVars
      BY <1>5 DEF MergeDone
    <2>2. MergeInv' = MergeInv /\ LevelInv' = LevelInv
      BY <2>1 DEF MergeInv, SameTerms, IsDocument, WellFormed, Acyclic, Roots, Outputs, DependentsOf,
                  LevelInv, Levels
    <2> QED
      BY <2>1, <2>2, ValidationStands DEF GraphInv, OptimizerInv
  <1>6. CASE DropDead
    BY <1>6, DropDeadKeepsInv
  <1>7. CASE UNCHANGED vars
    <2>1. UNCHANGED <<graph, queue, kept, deps, rewritten, pass>> /\ UNCHANGED validationVars
      BY <1>7 DEF vars, optimizerVars
    <2>2. MergeInv' = MergeInv /\ LevelInv' = LevelInv
      BY <2>1 DEF MergeInv, SameTerms, IsDocument, WellFormed, Acyclic, Roots, Outputs, DependentsOf,
                  LevelInv, Levels
    <2>3. LeftOver' = LeftOver
      BY <2>1 DEF LeftOver, Spared, Live, Output, Step, validationVars
    <2> QED
      BY <2>1, <2>2, <2>3, ValidationStands DEF GraphInv, OptimizerInv
  <1> QED
    BY <1>1, <1>2, <1>3, <1>4, <1>5, <1>6, <1>7 DEF Next, Finished

-----------------------------------------------------------------------------
(* The theorems.                                                           *)

\* The invariant holds in every reachable state: DecisionGraph::new and the
\* passes of optimize keep what each later step relies on.
THEOREM GraphInvariant == Spec => []GraphInv
  <1>1. Init => GraphInv
    BY GraphInitInv
  <1>2. GraphInv /\ [Next]_vars => GraphInv'
    BY GraphStepInv
  <1> QED
    BY <1>1, <1>2, PTL DEF Spec

\* DecisionGraph::new accepts a document exactly when it is acyclic with one
\* entry and one terminal output, whatever the order of its checks.
THEOREM ShapeDecided == Spec => []VerdictMatchesReference
  <1>1. GraphInv => VerdictMatchesReference
    BY DEF GraphInv, ValidationInv
  <1> QED
    BY <1>1, GraphInvariant, PTL

\* The waves of every accepted graph are its levels: waves_for places each node
\* in the first wave that follows all its dependencies.
THEOREM LevelsBuilt == Spec => []WavesAreLevels
  <1>1. ASSUME GraphInv PROVE WavesAreLevels
    <2> SUFFICES ASSUME verdict = Accepted PROVE WavesAreLevels
      BY DEF WavesAreLevels
    <2>1. LoopInv /\ Placed = doc.ids
      BY <1>1, LoopPlacesAll DEF GraphInv, ValidationInv
    <2> QED
      BY <2>1 DEF WavesAreLevels, LoopInv, BelongsIn
  <1> QED
    BY <1>1, GraphInvariant, PTL

\* optimize's rebuild is refused exactly when a node that is left names one that
\* is gone; otherwise the output and every cache node of its input are there, and
\* each computes what it did from the same.
THEOREM OptimizerSound == Spec => []TermsAndShapeKept
  <1>1. ASSUME GraphInv PROVE TermsAndShapeKept
    <2> SUFFICES ASSUME Rebuilt PROVE TermsAndShapeKept
      BY DEF TermsAndShapeKept
    <2>1. MergeInv /\ LevelInv /\ LeftOver /\ queue = {}
      BY <1>1 DEF Rebuilt, GraphInv, OptimizerInv
    <2>2. ~BadNode
      <3>1. Output \in graph.ids /\ graph.kind[Output] = "output"
        BY <2>1, OutputIsLast DEF Outputs
      <3> QED
        BY <2>1, <3>1, ObservableSpared DEF BadNode, LeftOver
    <2>3. verdict = Accepted <=> \A n \in doc.ids : doc.deps[n] \subseteq doc.ids
      <3>1. verdict = Accepted <=> ~BadNode /\ doc.repeats = {} /\ WellFormed(doc)
        BY <1>1 DEF Rebuilt, GraphInv, ValidationInv, VerdictMatchesReference
      <3>2. doc.repeats = {}
        BY <2>1 DEF LeftOver
      <3>3. WellFormed(doc) <=> \A n \in doc.ids : doc.deps[n] \subseteq doc.ids
        BY <2>1, RebuiltShape DEF WellFormed
      <3> QED
        BY <2>2, <3>1, <3>2, <3>3
    <2>4. ASSUME verdict = Accepted, NEW n \in graph.ids, graph.kind[n] \in {"output", "cache"}
          PROVE  /\ n \in doc.ids
                 /\ Terms(doc)[Cardinality(graph.ids)][n] = Terms(graph)[Cardinality(graph.ids)][n]
      <3>1. n \in doc.ids
        BY <2>1, <2>4, ObservableSpared DEF LeftOver
      <3>2. Cardinality(graph.ids) \in Nat
        BY <2>1, FS_CardinalityType DEF MergeInv, IsDocument
      <3> QED
        BY <2>1, <2>3, <2>4, <3>1, <3>2, TermsKept
    <2>5. verdict = Accepted => SameFromSame
      BY <2>4 DEF SameFromSame
    <2> QED
      BY <2>3, <2>5 DEF TermsAndShapeKept
  <1> QED
    BY <1>1, GraphInvariant, PTL
=============================================================================
