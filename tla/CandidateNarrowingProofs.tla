---------------------- MODULE CandidateNarrowingProofs ----------------------
(***************************************************************************)
(* Theorems about CandidateNarrowing, for every declared list, rule set,   *)
(* plan, scoring and limit.                                                *)
(***************************************************************************)
EXTENDS CandidateNarrowing, FiniteOrder

-----------------------------------------------------------------------------
(* Lists.                                                                  *)

\* Appending one element adds it to the set of elements.
LEMMA ToSetAppend ==
  ASSUME NEW X, NEW s \in Seq(X), NEW x \in X
  PROVE  ToSet(Append(s, x)) = ToSet(s) \cup {x}
  <1>1. /\ Len(s) \in Nat /\ Len(Append(s, x)) = Len(s) + 1
        /\ DOMAIN Append(s, x) = 1 .. Len(s) + 1 /\ DOMAIN s = 1 .. Len(s)
        /\ \A i \in 1 .. Len(s) : Append(s, x)[i] = s[i]
        /\ Append(s, x)[Len(s) + 1] = x
    OBVIOUS
  <1>2. 1 .. Len(s) + 1 = 1 .. Len(s) \cup {Len(s) + 1}
    BY <1>1
  <1> QED
    BY <1>1, <1>2 DEF ToSet

\* The elements of a concatenation.
LEMMA ToSetConcat ==
  ASSUME NEW X, NEW s \in Seq(X), NEW t \in Seq(X)
  PROVE  ToSet(s \o t) = ToSet(s) \cup ToSet(t)
  <1>1. /\ Len(s) \in Nat /\ Len(t) \in Nat /\ DOMAIN s = 1 .. Len(s) /\ DOMAIN t = 1 .. Len(t)
        /\ DOMAIN (s \o t) = 1 .. Len(s) + Len(t)
        /\ \A i \in 1 .. Len(s) : (s \o t)[i] = s[i]
        /\ \A i \in 1 .. Len(t) : (s \o t)[Len(s) + i] = t[i]
    OBVIOUS
  <1>2. ASSUME NEW i \in 1 .. Len(s) + Len(t)
        PROVE  (s \o t)[i] \in ToSet(s) \cup ToSet(t)
    <2>1. CASE i \in 1 .. Len(s)
      BY <1>1, <2>1 DEF ToSet
    <2>2. CASE i \notin 1 .. Len(s)
      <3>1. i - Len(s) \in 1 .. Len(t) /\ Len(s) + (i - Len(s)) = i
        BY <1>1, <2>2
      <3>2. (s \o t)[i] = t[i - Len(s)]
        BY <1>1, <3>1
      <3> QED
        BY <1>1, <3>1, <3>2 DEF ToSet
    <2> QED
      BY <2>1, <2>2
  <1>3. ASSUME NEW i \in 1 .. Len(s) PROVE s[i] \in ToSet(s \o t)
    <2>1. i \in 1 .. Len(s) + Len(t)
      BY <1>1
    <2> QED
      BY <1>1, <2>1 DEF ToSet
  <1>4. ASSUME NEW i \in 1 .. Len(t) PROVE t[i] \in ToSet(s \o t)
    <2>1. Len(s) + i \in 1 .. Len(s) + Len(t)
      BY <1>1
    <2> QED
      BY <1>1, <2>1 DEF ToSet
  <1> QED
    BY <1>1, <1>2, <1>3, <1>4 DEF ToSet

\* Among keeps exactly the members of S, whatever the list repeats.
LEMMA AmongIs ==
  ASSUME NEW X, NEW s \in Seq(X), NEW S
  PROVE  Among(s, S) \in Seq(X) /\ ToSet(Among(s, S)) = ToSet(s) \cap S
  <1> DEFINE N == Len(s)
             Grown(l, i) == IF s[i] \in S THEN Append(l, s[i]) ELSE l
             Body(f) == [i \in 0 .. N |-> IF i = 0 THEN <<>> ELSE Grown(f[i - 1], i)]
             g == CHOOSE f : f = Body(f)
  <1>1. N \in Nat /\ \A i \in 1 .. N : s[i] \in X
    OBVIOUS
  <1>2. \A i \in 1 .. N, l \in Seq(X) : Grown(l, i) \in Seq(X)
    BY <1>1
  <1>3. \E f : f = Body(f)
    <2> HIDE DEF Grown
    <2>0. PICK V : V = Seq(X)
      OBVIOUS
    <2>1. PICK n \in Nat, b \in V : n = N /\ b = <<>>
      <3>1. <<>> \in V
        BY <2>0
      <3> QED
        BY <1>1, <3>1
    <2>2. PICK next \in [1 .. n -> [V -> V]] : next = [i \in 1 .. n |-> [l \in V |-> Grown(l, i)]]
      BY <1>2, <2>0, <2>1
    <2>3. PICK f \in [0 .. n -> V] : Follows(f, n, b, next)
      BY RecursionUpTo
    <2>4. ASSUME NEW i \in 0 .. n PROVE f[i] = IF i = 0 THEN b ELSE Grown(f[i - 1], i)
      <3>1. i # 0 => i \in 1 .. n /\ i - 1 \in 0 .. n
        OBVIOUS
      <3> QED
        BY <2>2, <2>3, <3>1 DEF Follows
    <2>5. f = [i \in 0 .. n |-> IF i = 0 THEN b ELSE Grown(f[i - 1], i)]
      BY <2>4
    <2>6. f = Body(f)
      BY <2>1, <2>5
    <2> HIDE DEF Body
    <2> QED
      BY <2>6
  <1>4. g = Body(g)
    <2> HIDE DEF Body
    <2> QED
      BY <1>3
  <1>5. \A i \in 0 .. N : g[i] = IF i = 0 THEN <<>> ELSE Grown(g[i - 1], i)
    <2> HIDE DEF g, Grown, N
    <2> QED
      BY <1>4
  <1>6. Among(s, S) = g[N]
    BY DEF Among
  <1> DEFINE T == {i \in 0 .. N : g[i] \in Seq(X) /\ ToSet(g[i]) = {s[j] : j \in 1 .. i} \cap S}
  <1> HIDE DEF g
  <1>7. 0 \in T
    <2>1. g[0] = <<>> /\ 0 \in 0 .. N
      BY <1>1, <1>5
    <2>2. <<>> \in Seq(X) /\ ToSet(<<>>) = {} /\ 1 .. 0 = {}
      BY DEF ToSet
    <2> HIDE DEF N
    <2> QED
      BY <2>1, <2>2
  <1>8. ASSUME NEW i \in 0 .. N, i > 0, i - 1 \in T PROVE i \in T
    <2>1. i \in 1 .. N /\ g[i - 1] \in Seq(X) /\ ToSet(g[i - 1]) = {s[j] : j \in 1 .. i - 1} \cap S
      BY <1>1, <1>8
    <2>2. g[i] = Grown(g[i - 1], i)
      BY <1>5, <2>1
    <2>3. {s[j] : j \in 1 .. i} = {s[j] : j \in 1 .. i - 1} \cup {s[i]}
      <3>1. 1 .. i = 1 .. i - 1 \cup {i}
        BY <2>1
      <3> QED
        BY <3>1
    <2>4. CASE s[i] \in S
      <3>1. g[i] = Append(g[i - 1], s[i])
        BY <2>2, <2>4
      <3>2. g[i] \in Seq(X) /\ ToSet(g[i]) = ToSet(g[i - 1]) \cup {s[i]}
        BY <1>1, <2>1, <3>1, ToSetAppend
      <3> QED
        BY <2>1, <2>3, <2>4, <3>2
    <2>5. CASE s[i] \notin S
      BY <2>1, <2>2, <2>3, <2>5
    <2> QED
      BY <2>4, <2>5
  <1>9. 0 .. N \subseteq T
    <2> HIDE DEF T, N
    <2> QED
      BY <1>1, <1>7, <1>8, UpTo
  <1>10. N \in T
    <2> HIDE DEF T, N
    <2> QED
      BY <1>1, <1>9
  <1> QED
    BY <1>6, <1>10 DEF ToSet

\* A list has finitely many elements.
LEMMA ToSetFinite ==
  ASSUME NEW X, NEW s \in Seq(X)
  PROVE  IsFiniteSet(ToSet(s)) /\ ToSet(s) \subseteq X
  <1> DEFINE D == 1 .. Len(s)
  <1>1. Len(s) \in Nat /\ DOMAIN s = D /\ s \in [D -> X]
    OBVIOUS
  <1>2. s \in Surjection(D, ToSet(s))
    BY <1>1 DEF Surjection, ToSet
  <1>3. IsFiniteSet(D)
    BY <1>1, FS_Interval
  <1>4. ToSet(s) \subseteq X
    BY <1>1 DEF ToSet
  <1> HIDE DEF D
  <1> QED
    BY <1>2, <1>3, <1>4, FS_Surjection

\* Ranking lists every member once: ties in the score go to the smaller id, so no
\* two members have equally many betters, and every place is somebody's.
LEMMA RankedIs ==
  ASSUME NEW S \in SUBSET Nat, IsFiniteSet(S), NEW score, \A c \in S : score[c] \in Nat
  PROVE  Ranked(S, score) \in Seq(S) /\ ToSet(Ranked(S, score)) = S
  <1> DEFINE n == Cardinality(S)
             B(c) == {d \in S : Better(score, d, c)}
             rank == [c \in S |-> Cardinality(B(c)) + 1]
  <1>1. n \in Nat
    BY FS_CardinalityType
  <1>2. ASSUME NEW c \in S
        PROVE  IsFiniteSet(B(c)) /\ Cardinality(B(c)) \in Nat /\ Cardinality(B(c)) + 1 \in 1 .. n
    <2>1. B(c) \in SUBSET S /\ c \notin B(c)
      BY DEF Better
    <2> HIDE DEF B
    <2>2. IsFiniteSet(B(c)) /\ Cardinality(B(c)) <= n /\ (n = Cardinality(B(c)) => S = B(c))
      BY <2>1, FS_Subset
    <2>3. Cardinality(B(c)) \in Nat
      BY <2>2, FS_CardinalityType
    <2>4. Cardinality(B(c)) # n
      BY <2>1, <2>2
    <2> QED
      BY <1>1, <2>2, <2>3, <2>4
  <1>3. ASSUME NEW a \in S, NEW b \in S, Better(score, a, b)
        PROVE  Cardinality(B(a)) < Cardinality(B(b))
    <2>1. B(a) \in SUBSET B(b) /\ a \in B(b) /\ a \notin B(a)
      <3>1. ASSUME NEW d \in S, Better(score, d, a) PROVE Better(score, d, b)
        <4>1. score[a] \in Nat /\ score[b] \in Nat /\ score[d] \in Nat /\ a \in Nat /\ b \in Nat /\ d \in Nat
          OBVIOUS
        <4> QED
          BY <1>3, <3>1, <4>1 DEF Better
      <3>2. ~Better(score, a, a)
        BY DEF Better
      <3> QED
        BY <1>3, <3>1, <3>2
    <2> HIDE DEF B
    <2>2. Cardinality(B(a)) <= Cardinality(B(b)) /\ (Cardinality(B(b)) = Cardinality(B(a)) => B(b) = B(a))
      BY <1>2, <2>1, FS_Subset
    <2> QED
      BY <1>2, <2>1, <2>2
  <1>4. \A a, b \in S : a # b => Better(score, a, b) \/ Better(score, b, a)
    BY DEF Better
  <1>5. \A a, b \in S : Cardinality(B(a)) = Cardinality(B(b)) => a = b
    <2> HIDE DEF B
    <2> QED
      BY <1>2, <1>3, <1>4
  <1>6. \A i \in 1 .. n : \E c \in S : Cardinality(B(c)) = i - 1
    <2> HIDE DEF B
    <2>1. rank \in [S -> 1 .. n] /\ \A a, b \in S : rank[a] = rank[b] => a = b
      BY <1>2, <1>5
    <2>2. rank \in Injection(S, 1 .. n)
      <3> HIDE DEF rank
      <3> QED
        BY <2>1 DEF Injection, IsInjective
    <2>3. IsFiniteSet(1 .. n) /\ Cardinality(1 .. n) = n
      BY <1>1, FS_Interval
    <2>4. rank \in Surjection(S, 1 .. n)
      <3> HIDE DEF rank
      <3> QED
        BY <2>2, <2>3, FS_Injection
    <2>5. \A i \in 1 .. n : \E c \in S : rank[c] = i
      <3> HIDE DEF rank
      <3> QED
        BY <2>4 DEF Surjection
    <2> QED
      BY <1>1, <1>2, <2>5
  <1>7. Ranked(S, score) = [i \in 1 .. n |-> CHOOSE c \in S : Cardinality(B(c)) = i - 1]
    BY DEF Ranked
  <1> HIDE DEF B
  <1>8. \A i \in 1 .. n : Ranked(S, score)[i] \in S /\ Cardinality(B(Ranked(S, score)[i])) = i - 1
    <2> TAKE i \in 1 .. n
    <2>1. Ranked(S, score)[i] = CHOOSE c \in S : Cardinality(B(c)) = i - 1
      BY <1>7
    <2> QED
      BY <1>6, <2>1
  <1>9. Ranked(S, score) \in Seq(S) /\ DOMAIN Ranked(S, score) = 1 .. n
    BY <1>1, <1>7, <1>8
  <1>10. ASSUME NEW c \in S PROVE c \in ToSet(Ranked(S, score))
    <2> DEFINE i == Cardinality(B(c)) + 1
    <2>1. i \in 1 .. n /\ i - 1 = Cardinality(B(c))
      BY <1>2
    <2>2. Ranked(S, score)[i] = c
      <3> HIDE DEF i
      <3> QED
        BY <1>5, <1>8, <2>1
    <2> QED
      BY <1>9, <2>1, <2>2 DEF ToSet
  <1> QED
    BY <1>8, <1>9, <1>10 DEF ToSet

\* What is left without the members of S.
LEMMA WithoutIs ==
  ASSUME NEW X, NEW s \in Seq(X), NEW S
  PROVE  Without(s, S) \in Seq(X) /\ ToSet(Without(s, S)) = ToSet(s) \ S
  <1>1. /\ Among(s, ToSet(s) \ S) \in Seq(X)
        /\ ToSet(Among(s, ToSet(s) \ S)) = ToSet(s) \cap (ToSet(s) \ S)
    BY AmongIs
  <1> QED
    BY <1>1 DEF Without

\* Sorting loses nobody and adds nobody, whatever the order names.
LEMMA SortedIs ==
  ASSUME NEW X, NEW list \in Seq(X), NEW order, order = Nothing \/ order \in Seq(X)
  PROVE  Sorted(list, order) \in Seq(X) /\ ToSet(Sorted(list, order)) = ToSet(list)
  <1>1. CASE order = Nothing
    BY <1>1 DEF Sorted
  <1>2. CASE order # Nothing
    <2> DEFINE a == Among(order, ToSet(list))
               b == Without(list, ToSet(order))
    <2>1. a \in Seq(X) /\ ToSet(a) = ToSet(order) \cap ToSet(list)
      BY <1>2, AmongIs
    <2>2. b \in Seq(X) /\ ToSet(b) = ToSet(list) \ ToSet(order)
      BY WithoutIs
    <2>3. Sorted(list, order) = a \o b
      BY <1>2 DEF Sorted
    <2> HIDE DEF a, b
    <2>4. a \o b \in Seq(X) /\ ToSet(a \o b) = ToSet(a) \cup ToSet(b)
      BY <2>1, <2>2, ToSetConcat
    <2> QED
      BY <2>1, <2>2, <2>3, <2>4
  <1> QED
    BY <1>1, <1>2

\* The candidates are finitely many, and no list of them is mistaken for Nothing.
LEMMA CandidatesAre ==
  /\ IsFiniteSet(Candidates) /\ Candidates \subseteq Nat
  /\ Declared \in Seq(Candidates) /\ Nothing \notin Seq(Candidates)
  <1>1. Declared \in Seq(Candidates) /\ Candidates \subseteq Nat /\ 0 \notin Candidates
    BY NarrowingAssumption
  <1>2. IsFiniteSet(Candidates)
    BY <1>1, ToSetFinite DEF Candidates
  <1>3. Nothing \notin Seq(Candidates)
    <2>1. ASSUME NEW X, Nothing \in Seq(X) PROVE 0 \in X
      BY <2>1 DEF Nothing
    <2> HIDE DEF Candidates
    <2> QED
      BY <1>1, <2>1
  <1> QED
    BY <1>1, <1>2, <1>3

-----------------------------------------------------------------------------
(* The inductive invariant.                                                *)

\* What a rule pass reports.
Report == [excluded : SUBSET Candidates, pinned : SUBSET Candidates]

\* A list of candidates, or no entry for the question.
List == Seq(Candidates) \cup {Nothing}

State ==
    [facts : [Facts -> Values], report : Report,
     narrowing : List, basis : Report,
     index : List, lexed : Seq(Candidates), ranking : List, dropped : Seq(Candidates), order : List,
     asked : List, scored : List, judged : Report]

ConfigInv ==
    /\ rules \in RuleSets /\ plan \in Plans /\ limit \in Limits
    /\ safe \in BOOLEAN /\ Allowed(plan, safe)
    /\ sim \in [Candidates -> Levels]

PlaceInv ==
    /\ wave \in 1 .. Len(plan) + 1
    /\ wave <= Len(plan) => pos \in 1 .. Len(plan[wave])

ScoresInv ==
    /\ bm25 = [d \in DOMAIN bm25 |-> bm25[d]]
    /\ \A d \in DOMAIN bm25 : bm25[d] \in [ToSet(d) -> Levels]

\* What is believed of the rules was reported by a pass, or by none.
Reported(s, reports) == {s.report, s.basis, s.judged} \subseteq reports \cup {NoReport}

\* The survivors are the declared candidates but those their report removed.
Filtered(s) ==
    IF s.narrowing = Nothing THEN s.basis = NoReport
    ELSE ToSet(s.narrowing) = Candidates \ Removed(s.basis)

\* A safe engine prunes nobody.
Spared(s) == safe => s.lexed = <<>> /\ s.dropped = <<>>

\* The classifier was asked about nobody its report removed, and about everybody
\* else but who was pruned.
Asked(s) ==
    s.asked # Nothing =>
        /\ ToSet(s.asked) \cap Removed(s.judged) = {}
        /\ Candidates \ Removed(s.judged) \subseteq ToSet(s.asked) \cup Pruned(s)

StateInv(s, reports) == s \in State /\ Reported(s, reports) /\ Filtered(s) /\ Spared(s) /\ Asked(s)

NarrowInv ==
    /\ ConfigInv /\ PlaceInv /\ ScoresInv
    /\ passes \subseteq Report
    /\ StateInv(seen, passes) /\ StateInv(run, passes)
    /\ Pruned(seen) \subseteq Pruned(run)

-----------------------------------------------------------------------------
(* Rule passes and nodes.                                                  *)

Pass == [facts : [Facts -> Values], excluded : SUBSET Candidates, pinned : SUBSET Candidates]

\* A pass over the rules writes fact values and names declared candidates only.
LEMMA EvaluateIs ==
  ASSUME rules \in Seq(Rule), NEW facts \in [Facts -> Values]
  PROVE  Evaluate(facts) \in Pass
  <1>0. PICK rs \in Seq(Rule) : rs = rules
    OBVIOUS
  <1> DEFINE N == Len(rs)
             Start == [facts |-> facts, excluded |-> {}, pinned |-> {}]
             Fired(p, i) ==
                 IF ~Matches(rs[i].when, p.facts) THEN p
                 ELSE [facts    |-> Written(p.facts, rs[i].sets),
                       excluded |-> p.excluded \cup rs[i].excludes,
                       pinned   |-> p.pinned \cup rs[i].pins]
             Body(f) == [i \in 0 .. N |-> IF i = 0 THEN Start ELSE Fired(f[i - 1], i)]
             g == CHOOSE f : f = Body(f)
  <1>1. N \in Nat /\ \A i \in 1 .. N : rs[i] \in Rule
    OBVIOUS
  <1>2. Start \in Pass
    BY DEF Pass
  <1>3. ASSUME NEW p \in Pass, NEW i \in 1 .. N PROVE Fired(p, i) \in Pass
    <2>1. rs[i].excludes \subseteq Candidates /\ rs[i].pins \subseteq Candidates
      BY <1>1 DEF Rule
    <2>2. Written(p.facts, rs[i].sets) \in [Facts -> Values]
      <3>1. p.facts \in [Facts -> Values]
        BY DEF Pass
      <3> QED
        BY <3>1 DEF Written
    <2> HIDE DEF Start
    <2> QED
      BY <2>1, <2>2 DEF Pass
  <1>4. \E f : f = Body(f)
    <2> HIDE DEF Start, Fired
    <2>1. PICK n \in Nat, b \in Pass : n = N /\ b = Start
      BY <1>1, <1>2
    <2>2. PICK next \in [1 .. n -> [Pass -> Pass]] : next = [i \in 1 .. n |-> [p \in Pass |-> Fired(p, i)]]
      BY <1>3, <2>1
    <2>3. PICK f \in [0 .. n -> Pass] : Follows(f, n, b, next)
      BY RecursionUpTo
    <2>4. ASSUME NEW i \in 0 .. n PROVE f[i] = IF i = 0 THEN b ELSE Fired(f[i - 1], i)
      <3>1. i # 0 => i \in 1 .. n /\ i - 1 \in 0 .. n
        OBVIOUS
      <3> QED
        BY <2>2, <2>3, <3>1 DEF Follows
    <2>5. f = [i \in 0 .. n |-> IF i = 0 THEN b ELSE Fired(f[i - 1], i)]
      BY <2>4
    <2>6. f = Body(f)
      BY <2>1, <2>5
    <2> HIDE DEF Body
    <2> QED
      BY <2>6
  <1>5. g = Body(g)
    <2> HIDE DEF Body
    <2> QED
      BY <1>4
  <1>6. \A i \in 0 .. N : g[i] = IF i = 0 THEN Start ELSE Fired(g[i - 1], i)
    <2> HIDE DEF g, Start, Fired, N
    <2> QED
      BY <1>5
  <1>7. Evaluate(facts) = g[N]
    BY <1>0 DEF Evaluate
  <1> DEFINE T == {i \in 0 .. N : g[i] \in Pass}
  <1> HIDE DEF g, Start, Fired
  <1>8. 0 \in T
    BY <1>1, <1>6, <1>2
  <1>9. ASSUME NEW i \in 0 .. N, i > 0, i - 1 \in T PROVE i \in T
    <2>1. i \in 1 .. N /\ g[i - 1] \in Pass
      BY <1>1, <1>9
    <2> QED
      BY <1>6, <1>3, <2>1
  <1>10. 0 .. N \subseteq T
    <2> HIDE DEF T, N
    <2> QED
      BY <1>1, <1>8, <1>9, UpTo
  <1>11. N \in T
    <2> HIDE DEF T, N
    <2> QED
      BY <1>1, <1>10
  <1> QED
    BY <1>7, <1>11

\* The node a running plan points at.
LEMMA NodeIs ==
  ASSUME ConfigInv, PlaceInv, Running
  PROVE  /\ pos \in 1 .. Len(plan[wave])
         /\ Node.kind = "retrieve" => ~safe /\ Node.top_n \in Nat \ {0}
         /\ wave + 1 \in 1 .. Len(plan) + 1
         /\ wave + 1 <= Len(plan) => 1 \in 1 .. Len(plan[wave + 1])
  <1>1. plan \in Plans /\ Allowed(plan, safe) /\ Len(plan) \in Nat /\ DOMAIN plan = 1 .. Len(plan)
    <2>1. plan \in Seq(ToSet(plan))
      BY NarrowingAssumption DEF ConfigInv
    <2> QED
      BY <2>1 DEF ConfigInv
  <1>2. wave \in DOMAIN plan /\ pos \in 1 .. Len(plan[wave])
    BY <1>1 DEF PlaceInv, Running
  <1>3. \A w \in DOMAIN plan : plan[w] \in Seq(ToSet(plan[w])) /\ plan[w] # <<>>
    BY <1>1, NarrowingAssumption
  <1>4. \A w \in DOMAIN plan : Len(plan[w]) \in Nat \ {0} /\ DOMAIN plan[w] = 1 .. Len(plan[w])
    <2>1. \A X : \A s \in Seq(X) : s # <<>> => Len(s) \in Nat \ {0} /\ DOMAIN s = 1 .. Len(s)
      OBVIOUS
    <2> QED
      BY <1>3, <2>1
  <1>5. pos \in DOMAIN plan[wave]
    BY <1>2, <1>4
  <1>6. Node.kind = "retrieve" => ~safe /\ Node.top_n \in Nat \ {0}
    BY <1>1, <1>2, <1>5, NarrowingAssumption DEF Allowed, Node
  <1>7. wave + 1 <= Len(plan) => wave + 1 \in DOMAIN plan
    BY <1>1, <1>2
  <1>8. wave + 1 \in 1 .. Len(plan) + 1
    BY <1>1, <1>2
  <1> QED
    BY <1>2, <1>4, <1>6, <1>7, <1>8

\* Lists that are already of candidates, as the state keeps them.
LEMMA InPlayIs ==
  ASSUME NEW s \in State
  PROVE  /\ Base(s) \in Seq(Candidates)
         /\ InPlay(s) \in Seq(Candidates) /\ ToSet(InPlay(s)) = ToSet(Base(s)) \ Pruned(s)
         /\ Prepared(s) \in Seq(Candidates) /\ ToSet(Prepared(s)) = ToSet(Base(s)) \ Pruned(s)
  <1>1. s.narrowing \in Seq(Candidates) \cup {Nothing} /\ s.order \in Seq(Candidates) \cup {Nothing}
    BY DEF State, List
  <1>2. Base(s) \in Seq(Candidates)
    BY <1>1, CandidatesAre DEF Base
  <1> DEFINE list == InPlay(s)
  <1>3. list \in Seq(Candidates) /\ ToSet(list) = ToSet(Base(s)) \ Pruned(s)
    BY <1>2, WithoutIs DEF InPlay
  <1> HIDE DEF list
  <1>4. Sorted(list, s.order) \in Seq(Candidates) /\ ToSet(Sorted(list, s.order)) = ToSet(list)
    BY <1>1, <1>3, SortedIs
  <1> QED
    BY <1>2, <1>3, <1>4 DEF list, Prepared

\* Merging a sound state, after a report that stays, keeps the invariant.
LEMMA MergeKeepsInv ==
  ASSUME NarrowInv, Running, NEW st, Merge(st),
         passes \subseteq passes', passes' \subseteq Report, ScoresInv',
         StateInv(st, passes'), Pruned(run) \subseteq Pruned(st)
  PROVE  NarrowInv'
  <1> USE DEF NarrowInv
  <1>1. /\ run' = st /\ safe' = safe /\ plan' = plan /\ rules' = rules /\ limit' = limit /\ sim' = sim
        /\ \/ pos < Len(plan[wave]) /\ pos' = pos + 1 /\ wave' = wave /\ seen' = seen
           \/ pos' = 1 /\ wave' = wave + 1 /\ seen' = st
    BY DEF Merge, config
  <1>2. ConfigInv'
    BY <1>1 DEF ConfigInv
  <1>3. PlaceInv'
    <2>1. /\ pos \in 1 .. Len(plan[wave]) /\ wave \in 1 .. Len(plan) + 1
          /\ wave + 1 \in 1 .. Len(plan) + 1
          /\ wave + 1 <= Len(plan) => 1 \in 1 .. Len(plan[wave + 1])
      BY NodeIs DEF PlaceInv
    <2>2. CASE pos < Len(plan[wave]) /\ pos' = pos + 1 /\ wave' = wave
      BY <1>1, <2>1, <2>2 DEF PlaceInv
    <2>3. CASE pos' = 1 /\ wave' = wave + 1
      BY <1>1, <2>1, <2>3 DEF PlaceInv
    <2> QED
      BY <1>1, <2>2, <2>3
  <1>4. StateInv(seen, passes')
    BY DEF StateInv, Reported
  <1>5. seen' \in {seen, st} /\ run' = st
    BY <1>1
  <1>6. StateInv(seen, passes)' /\ StateInv(run, passes)'
    <2>1. \A s : StateInv(s, passes') => (safe' => s.lexed = <<>> /\ s.dropped = <<>>)
      BY <1>1 DEF StateInv, Spared
    <2> QED
      BY <1>4, <1>5, <2>1 DEF StateInv, Reported, Filtered, Spared, Asked
  <1>7. Pruned(seen)' \subseteq Pruned(run)'
    <2>1. Pruned(seen) \subseteq Pruned(st) /\ Pruned(st) \subseteq Pruned(st)
      OBVIOUS
    <2> QED
      BY <1>5, <2>1 DEF Pruned
  <1> QED
    BY <1>2, <1>3, <1>6, <1>7

-----------------------------------------------------------------------------
(* Every step.                                                             *)

LEMMA NarrowInitInv ==
  ASSUME Init
  PROVE  NarrowInv
  <1>1. Fresh \in State /\ NoReport \in Report
    <2>1. [f \in Facts |-> Absent] \in [Facts -> Values]
      BY NarrowingAssumption
    <2>2. NoReport \in Report
      BY DEF NoReport, Report
    <2>3. <<>> \in Seq(Candidates) /\ Nothing \in List
      BY DEF List
    <2> HIDE DEF Candidates, Nothing, NoReport
    <2> QED
      BY <2>1, <2>2, <2>3 DEF Fresh, State
  <1>2. StateInv(Fresh, passes)
    <2>1. /\ Fresh.report = NoReport /\ Fresh.basis = NoReport /\ Fresh.judged = NoReport
          /\ Fresh.narrowing = Nothing /\ Fresh.asked = Nothing
          /\ Fresh.lexed = <<>> /\ Fresh.dropped = <<>>
      BY DEF Fresh
    <2> QED
      BY <1>1, <2>1 DEF StateInv, Reported, Filtered, Spared, Asked
  <1>3. PlaceInv
    <2>1. plan \in Seq(ToSet(plan)) /\ \A w \in DOMAIN plan : plan[w] \in Seq(ToSet(plan[w])) /\ plan[w] # <<>>
      BY NarrowingAssumption DEF Init
    <2>2. Len(plan) \in Nat /\ DOMAIN plan = 1 .. Len(plan)
      BY <2>1
    <2>3. ASSUME 1 <= Len(plan) PROVE 1 \in 1 .. Len(plan[1])
      <3>1. plan[1] \in Seq(ToSet(plan[1])) /\ plan[1] # <<>>
        BY <2>1, <2>2, <2>3
      <3> QED
        BY <3>1
    <2> QED
      BY <2>2, <2>3 DEF Init, PlaceInv
  <1>4. ScoresInv
    BY DEF Init, ScoresInv
  <1>5. ConfigInv
    BY DEF Init, ConfigInv
  <1> QED
    BY <1>2, <1>3, <1>4, <1>5 DEF Init, NarrowInv

\* A state that believes and asked what the run did, and pruned nobody in safe
\* mode, is sound.
LEMMA OnlyPruned ==
  ASSUME NarrowInv, NEW st \in State,
         st.report = run.report, st.basis = run.basis, st.judged = run.judged,
         st.narrowing = run.narrowing, st.asked = run.asked,
         Pruned(run) \subseteq Pruned(st), Spared(st)
  PROVE  StateInv(st, passes)
  BY DEF NarrowInv, StateInv, Reported, Filtered, Asked

LEMMA RuleKeepsInv ==
  ASSUME NarrowInv, RuleNode
  PROVE  NarrowInv'
  <1> DEFINE p == Evaluate(seen.facts)
  <1>1. p \in Pass
    <2>1. rules \in Seq(Rule) /\ seen.facts \in [Facts -> Values]
      BY NarrowingAssumption DEF NarrowInv, ConfigInv, StateInv, State
    <2> QED
      BY <2>1, EvaluateIs
  <1>2. PICK q \in Pass : q = p
    BY <1>1
  <1>3. PICK st : st = [run EXCEPT !.facts = q.facts, !.report = [excluded |-> q.excluded, pinned |-> q.pinned]]
    OBVIOUS
  <1>4. /\ Running /\ Merge(st) /\ bm25' = bm25
        /\ passes' = passes \cup {st.report}
    <2>1. run \in State
      BY DEF NarrowInv, StateInv
    <2>2. st.report = [excluded |-> q.excluded, pinned |-> q.pinned]
      BY <1>3, <2>1 DEF State
    <2> QED
      BY <1>2, <1>3, <2>2 DEF RuleNode, At
  <1>5. /\ st \in State /\ st.report \in Report
        /\ st.basis = run.basis /\ st.judged = run.judged /\ st.narrowing = run.narrowing
        /\ st.asked = run.asked /\ st.lexed = run.lexed /\ st.dropped = run.dropped
    <2>1. run \in State
      BY DEF NarrowInv, StateInv
    <2>2. q.facts \in [Facts -> Values] /\ [excluded |-> q.excluded, pinned |-> q.pinned] \in Report
      BY DEF Pass, Report
    <2> QED
      BY <1>3, <2>1, <2>2 DEF State
  <1>6. passes \subseteq passes' /\ passes' \subseteq Report
    BY <1>4, <1>5 DEF NarrowInv
  <1>7. StateInv(st, passes') /\ Pruned(run) \subseteq Pruned(st)
    BY <1>4, <1>5 DEF NarrowInv, StateInv, Reported, Filtered, Spared, Asked, Pruned
  <1>8. ScoresInv'
    BY <1>4 DEF NarrowInv, ScoresInv
  <1> QED
    BY <1>4, <1>6, <1>7, <1>8, MergeKeepsInv

LEMMA FilterKeepsInv ==
  ASSUME NarrowInv, FilterNode
  PROVE  NarrowInv'
  <1>1. PICK l : l = Without(Declared, Removed(seen.report))
    OBVIOUS
  <1>2. PICK st : st = [run EXCEPT !.narrowing = l, !.basis = seen.report]
    OBVIOUS
  <1>3. l \in Seq(Candidates) /\ ToSet(l) = Candidates \ Removed(seen.report) /\ l # Nothing
    <2>1. l \in Seq(Candidates) /\ ToSet(l) = ToSet(Declared) \ Removed(seen.report)
      BY <1>1, CandidatesAre, WithoutIs
    <2> QED
      BY <2>1, CandidatesAre DEF Candidates
  <1>4. Running /\ Merge(st) /\ bm25' = bm25 /\ passes' = passes
    BY <1>1, <1>2 DEF FilterNode, At
  <1>5. /\ st \in State
        /\ st.report = run.report /\ st.judged = run.judged /\ st.narrowing = l
        /\ st.basis = seen.report /\ st.asked = run.asked /\ st.lexed = run.lexed /\ st.dropped = run.dropped
    <2>1. run \in State /\ seen.report \in Report
      BY DEF NarrowInv, StateInv, State
    <2> QED
      BY <1>2, <1>3, <2>1 DEF State, List
  <1>6. passes \subseteq passes' /\ passes' \subseteq Report
    BY <1>4 DEF NarrowInv
  <1>7. StateInv(st, passes') /\ Pruned(run) \subseteq Pruned(st)
    BY <1>3, <1>4, <1>5 DEF NarrowInv, StateInv, Reported, Filtered, Spared, Asked, Pruned
  <1>8. ScoresInv'
    BY <1>4 DEF NarrowInv, ScoresInv
  <1> QED
    BY <1>4, <1>6, <1>7, <1>8, MergeKeepsInv

\* Scores are of the documents they are for, now and later.
LEMMA ScoresRevealed ==
  ASSUME ScoresInv, NEW docs, NEW s \in Scorings(docs), bm25' = Revealed(docs, s)
  PROVE  ScoresInv' /\ s \in [ToSet(docs) -> Levels]
  <1>1. s \in [ToSet(docs) -> Levels]
    BY DEF Scorings, ScoresInv
  <1>2. bm25' = [d \in DOMAIN bm25 \cup {docs} |-> IF d = docs THEN s ELSE bm25[d]]
    BY DEF Revealed
  <1>3. /\ DOMAIN bm25' = DOMAIN bm25 \cup {docs}
        /\ \A d \in DOMAIN bm25' : bm25'[d] = IF d = docs THEN s ELSE bm25[d]
        /\ bm25' = [d \in DOMAIN bm25' |-> bm25'[d]]
    BY <1>2
  <1> QED
    BY <1>1, <1>3 DEF ScoresInv

\* Ranking the documents of a list gives a list of them.
LEMMA RankedDocs ==
  ASSUME NEW docs \in Seq(Candidates), NEW s, \A c \in ToSet(docs) : s[c] \in Levels
  PROVE  Ranked(ToSet(docs), s) \in Seq(Candidates)
  <1> DEFINE S == ToSet(docs)
  <1>1. IsFiniteSet(S) /\ S \subseteq Candidates
    BY ToSetFinite
  <1>2. S \in SUBSET Nat /\ \A c \in S : s[c] \in Nat
    BY <1>1, CandidatesAre, NarrowingAssumption
  <1> HIDE DEF S
  <1>3. Ranked(S, s) \in Seq(S)
    BY <1>1, <1>2, RankedIs
  <1>4. \A X, Y : X \subseteq Y => Seq(X) \subseteq Seq(Y)
    OBVIOUS
  <1>5. Ranked(S, s) \in Seq(Candidates)
    BY <1>1, <1>3, <1>4
  <1> QED
    BY <1>5 DEF S

LEMMA LexicalKeepsInv ==
  ASSUME NarrowInv, LexicalNode
  PROVE  NarrowInv'
  <1>0. run \in State /\ seen \in State /\ Running /\ passes' = passes
    BY DEF NarrowInv, StateInv, LexicalNode, At
  <1>1. PICK docs : docs = seen.narrowing
    OBVIOUS
  <1>2. CASE docs \in {Nothing, <<>>}
    <2>1. Merge(run) /\ bm25' = bm25
      BY <1>1, <1>2 DEF LexicalNode
    <2>2. PICK st : st = run
      OBVIOUS
    <2>3. /\ Merge(st) /\ passes \subseteq passes' /\ passes' \subseteq Report /\ ScoresInv'
          /\ StateInv(st, passes') /\ Pruned(run) \subseteq Pruned(st)
      BY <1>0, <2>1, <2>2 DEF NarrowInv, ScoresInv
    <2> QED
      BY <1>0, <2>3, MergeKeepsInv
  <1>3. CASE docs \notin {Nothing, <<>>}
    <2>1. docs \in Seq(Candidates)
      BY <1>0, <1>1, <1>3 DEF State, List
    <2>2. PICK s \in Scorings(docs) :
            bm25' = Revealed(docs, s) /\ Merge([run EXCEPT !.index = docs, !.lexed = @ \o Worse(docs, s)])
      BY <1>1, <1>3 DEF LexicalNode
    <2>3. ScoresInv' /\ s \in [ToSet(docs) -> Levels]
      BY <2>2, ScoresRevealed DEF NarrowInv
    <2>4. PICK w : w = Worse(docs, s)
      OBVIOUS
    <2>5. w \in Seq(Candidates) /\ (safe => w = <<>>)
      <3>1. Ranked(ToSet(docs), s) \in Seq(Candidates)
        BY <2>1, <2>3, RankedDocs
      <3>2. Among(Ranked(ToSet(docs), s), BelowCut(docs, s)) \in Seq(Candidates)
        BY <3>1, AmongIs
      <3> QED
        BY <2>4, <3>2 DEF Worse
    <2>6. PICK st : st = [run EXCEPT !.index = docs, !.lexed = run.lexed \o w]
      OBVIOUS
    <2>7. Merge(st)
      <3>1. [run EXCEPT !.index = docs, !.lexed = @ \o Worse(docs, s)] = st
        BY <1>0, <2>4, <2>6 DEF State
      <3> QED
        BY <2>2, <3>1
    <2>8. /\ st \in State
          /\ st.report = run.report /\ st.basis = run.basis /\ st.judged = run.judged
          /\ st.narrowing = run.narrowing /\ st.asked = run.asked
          /\ st.lexed = run.lexed \o w /\ st.dropped = run.dropped
      <3>1. run.lexed \in Seq(Candidates) /\ run.lexed \o w \in Seq(Candidates)
        BY <1>0, <2>5 DEF State
      <3> QED
        BY <1>0, <2>1, <2>6, <3>1 DEF State, List
    <2>9. Pruned(run) \subseteq Pruned(st) /\ Spared(st)
      <3>1. run.lexed \in Seq(Candidates)
        BY <1>0 DEF State
      <3>2. ToSet(run.lexed \o w) = ToSet(run.lexed) \cup ToSet(w)
        BY <2>5, <3>1, ToSetConcat
      <3>3. safe => run.lexed = <<>> /\ run.dropped = <<>> /\ <<>> \o <<>> = <<>>
        BY DEF NarrowInv, StateInv, Spared
      <3> QED
        BY <2>5, <2>8, <3>2, <3>3 DEF Pruned, Spared
    <2>10. StateInv(st, passes)
      BY <2>8, <2>9, OnlyPruned
    <2> QED
      BY <1>0, <2>3, <2>7, <2>9, <2>10, MergeKeepsInv DEF NarrowInv
  <1> QED
    BY <1>2, <1>3

LEMMA EmbeddingKeepsInv ==
  ASSUME NarrowInv, EmbeddingNode
  PROVE  NarrowInv'
  <1>0. run \in State /\ seen \in State /\ Running /\ passes' = passes /\ bm25' = bm25
    BY DEF NarrowInv, StateInv, EmbeddingNode, At
  <1>1. PICK r : r = Ranked(ToSet(InPlay(seen)), sim)
    OBVIOUS
  <1>2. r \in Seq(Candidates)
    <2>1. PICK docs \in Seq(Candidates) : docs = InPlay(seen)
      BY <1>0, InPlayIs
    <2>2. PICK score : score = sim
      OBVIOUS
    <2>3. \A c \in ToSet(docs) : score[c] \in Levels
      BY <2>1, <2>2, ToSetFinite DEF NarrowInv, ConfigInv
    <2> QED
      BY <1>1, <2>1, <2>2, <2>3, RankedDocs
  <1>3. PICK st : st = [run EXCEPT !.ranking = r]
    OBVIOUS
  <1>4. Merge(st)
    BY <1>1, <1>3 DEF EmbeddingNode
  <1>5. /\ st \in State
        /\ st.report = run.report /\ st.basis = run.basis /\ st.judged = run.judged
        /\ st.narrowing = run.narrowing /\ st.asked = run.asked
        /\ st.lexed = run.lexed /\ st.dropped = run.dropped
    BY <1>0, <1>2, <1>3 DEF State, List
  <1>6. Pruned(run) \subseteq Pruned(st) /\ Spared(st)
    BY <1>5 DEF Pruned, Spared, NarrowInv, StateInv
  <1>7. StateInv(st, passes)
    BY <1>5, <1>6, OnlyPruned
  <1> QED
    BY <1>0, <1>4, <1>6, <1>7, MergeKeepsInv DEF NarrowInv, ScoresInv

LEMMA RetrieveKeepsInv ==
  ASSUME NarrowInv, RetrieveNode
  PROVE  NarrowInv'
  <1>0. run \in State /\ seen \in State /\ Running /\ passes' = passes /\ bm25' = bm25
    BY DEF NarrowInv, StateInv, RetrieveNode, At
  <1>1. PICK ranked : ranked = Among(seen.ranking, ToSet(InPlay(seen)))
    OBVIOUS
  <1>2. PICK kept : kept = Kept(ranked)
    OBVIOUS
  <1>3. PICK gone : gone = Without(ranked, ToSet(kept))
    OBVIOUS
  <1>4. ranked \in Seq(Candidates)
    <2>1. seen.ranking \in Seq(Candidates)
      BY <1>0 DEF RetrieveNode, State, List
    <2>2. PICK l, S : l \in Seq(Candidates) /\ l = seen.ranking /\ S = ToSet(InPlay(seen))
      BY <2>1
    <2> QED
      BY <1>1, <2>2, AmongIs
  <1>5. kept \in Seq(Candidates)
    <2>1. Node.top_n \in Nat \ {0}
      BY <1>0, NodeIs DEF RetrieveNode, At, NarrowInv
    <2>2. ASSUME NEW l \in Seq(Candidates), NEW n \in Nat PROVE First(l, n) \in Seq(Candidates)
      <3> DEFINE k == IF Len(l) < n THEN Len(l) ELSE n
      <3>1. k \in Nat /\ k <= Len(l) /\ Len(l) \in Nat
        OBVIOUS
      <3> HIDE DEF k
      <3>2. SubSeq(l, 1, k) \in Seq(Candidates)
        BY <3>1
      <3> QED
        BY <3>2 DEF First, k
    <2>3. PICK S, above : S = {c \in ToSet(ranked) : sim[c] >= Node.floor} /\ above = Among(ranked, S)
      OBVIOUS
    <2>4. above \in Seq(Candidates)
      BY <1>4, <2>3, AmongIs
    <2>5. kept = IF above = <<>> THEN First(ranked, 1) ELSE First(above, Node.top_n)
      BY <1>2, <2>3 DEF Kept
    <2>6. PICK n \in Nat : n = Node.top_n
      BY <2>1
    <2> QED
      BY <1>4, <2>2, <2>4, <2>5, <2>6
  <1>6. gone \in Seq(Candidates)
    BY <1>3, <1>4, WithoutIs
  <1>7. PICK st : st = [run EXCEPT !.dropped = run.dropped \o gone, !.order = kept]
    OBVIOUS
  <1>8. Merge(st)
    <2>1. [run EXCEPT !.dropped = @ \o gone, !.order = kept] = st
      BY <1>0, <1>7 DEF State
    <2> QED
      BY <1>1, <1>2, <1>3, <2>1 DEF RetrieveNode
  <1>9. /\ st \in State
        /\ st.report = run.report /\ st.basis = run.basis /\ st.judged = run.judged
        /\ st.narrowing = run.narrowing /\ st.asked = run.asked
        /\ st.lexed = run.lexed /\ st.dropped = run.dropped \o gone
    <2>1. run.dropped \in Seq(Candidates) /\ run.dropped \o gone \in Seq(Candidates)
      BY <1>0, <1>6 DEF State
    <2> QED
      BY <1>0, <1>5, <1>7, <2>1 DEF State, List
  <1>10. Pruned(run) \subseteq Pruned(st) /\ Spared(st)
    <2>1. run.dropped \in Seq(Candidates)
      BY <1>0 DEF State
    <2>2. ToSet(run.dropped \o gone) = ToSet(run.dropped) \cup ToSet(gone)
      BY <1>6, <2>1, ToSetConcat
    <2>3. ~safe
      BY <1>0, NodeIs DEF RetrieveNode, At, NarrowInv
    <2> QED
      BY <1>9, <2>2, <2>3 DEF Pruned, Spared
  <1>11. StateInv(st, passes)
    BY <1>9, <1>10, OnlyPruned
  <1> QED
    BY <1>0, <1>8, <1>10, <1>11, MergeKeepsInv DEF NarrowInv, ScoresInv

LEMMA RerankKeepsInv ==
  ASSUME NarrowInv, RerankNode
  PROVE  NarrowInv'
  <1>0. run \in State /\ seen \in State /\ Running /\ passes' = passes
    BY DEF NarrowInv, StateInv, RerankNode, At
  <1>1. PICK docs \in Seq(Candidates) : docs = InPlay(seen)
    BY <1>0, InPlayIs
  <1>2. ASSUME NEW s, \A c \in ToSet(docs) : s[c] \in Levels, ScoresInv',
               Merge([run EXCEPT !.order = Ranked(ToSet(docs), s)])
        PROVE  NarrowInv'
    <2>1. PICK r \in Seq(Candidates) : r = Ranked(ToSet(docs), s)
      BY <1>2, RankedDocs
    <2>2. PICK st : st = [run EXCEPT !.order = r]
      OBVIOUS
    <2>3. Merge(st)
      BY <1>2, <2>1, <2>2
    <2>4. /\ st \in State
          /\ st.report = run.report /\ st.basis = run.basis /\ st.judged = run.judged
          /\ st.narrowing = run.narrowing /\ st.asked = run.asked
          /\ st.lexed = run.lexed /\ st.dropped = run.dropped
      BY <1>0, <2>1, <2>2 DEF State, List
    <2>5. Pruned(run) \subseteq Pruned(st) /\ Spared(st)
      BY <2>4 DEF Pruned, Spared, NarrowInv, StateInv
    <2>6. StateInv(st, passes)
      BY <2>4, <2>5, OnlyPruned
    <2> QED
      BY <1>0, <1>2, <2>3, <2>5, <2>6, MergeKeepsInv DEF NarrowInv
  <1>3. CASE docs = <<>>
    <2>1. Merge(run) /\ bm25' = bm25
      BY <1>1, <1>3 DEF RerankNode
    <2>2. PICK st : st = run
      OBVIOUS
    <2>3. /\ Merge(st) /\ passes \subseteq passes' /\ passes' \subseteq Report /\ ScoresInv'
          /\ StateInv(st, passes') /\ Pruned(run) \subseteq Pruned(st)
      BY <1>0, <2>1, <2>2 DEF NarrowInv, ScoresInv
    <2> QED
      BY <1>0, <2>3, MergeKeepsInv
  <1>4. CASE docs # <<>> /\ Node.reranker = "embedding"
    <2>1. Merge([run EXCEPT !.order = Ranked(ToSet(docs), sim)]) /\ bm25' = bm25
      BY <1>1, <1>4 DEF RerankNode
    <2>2. PICK s : s = sim
      OBVIOUS
    <2>3. \A c \in ToSet(docs) : s[c] \in Levels
      BY <2>2, ToSetFinite DEF NarrowInv, ConfigInv
    <2> QED
      BY <1>2, <2>1, <2>2, <2>3 DEF NarrowInv, ScoresInv
  <1>5. CASE docs # <<>> /\ Node.reranker # "embedding"
    <2>1. PICK s \in Scorings(docs) :
            bm25' = Revealed(docs, s) /\ Merge([run EXCEPT !.order = Ranked(ToSet(docs), s)])
      BY <1>1, <1>5 DEF RerankNode
    <2>2. ScoresInv' /\ s \in [ToSet(docs) -> Levels]
      BY <2>1, ScoresRevealed DEF NarrowInv
    <2> QED
      BY <1>2, <2>1, <2>2
  <1> QED
    BY <1>3, <1>4, <1>5

\* The deciding list is what the filter's report left and nobody pruned; what
\* was pruned when the wave began is pruned still.
LEMMA ChoiceKeepsInv ==
  ASSUME NarrowInv, ChoiceNode
  PROVE  NarrowInv'
  <1>0. run \in State /\ seen \in State /\ Running /\ passes' = passes /\ bm25' = bm25
    BY DEF NarrowInv, StateInv, ChoiceNode, At
  <1>1. PICK list, handed : list = Prepared(seen) /\ handed = Handed(seen)
    OBVIOUS
  <1>2. list \in Seq(Candidates) /\ ToSet(list) = ToSet(Base(seen)) \ Pruned(seen)
    BY <1>0, <1>1, InPlayIs
  <1>3. handed \in Seq(Candidates)
    <2>1. handed = list \/ (seen.index # Nothing /\ handed = seen.index)
      BY <1>1 DEF Handed
    <2> QED
      BY <1>0, <1>2, <2>1 DEF State, List
  <1>4. PICK st : st = IF list = <<>> THEN run
                       ELSE [run EXCEPT !.asked = list, !.scored = handed, !.judged = seen.basis]
    OBVIOUS
  <1>5. Merge(st)
    BY <1>1, <1>4 DEF ChoiceNode
  <1>6. CASE list = <<>>
    BY <1>0, <1>4, <1>5, <1>6, MergeKeepsInv DEF NarrowInv, ScoresInv
  <1>7. CASE list # <<>>
    <2>1. /\ st \in State
          /\ st.report = run.report /\ st.basis = run.basis /\ st.judged = seen.basis
          /\ st.narrowing = run.narrowing /\ st.asked = list
          /\ st.lexed = run.lexed /\ st.dropped = run.dropped
      <3>1. seen.basis \in Report
        BY <1>0 DEF State
      <3> QED
        BY <1>0, <1>2, <1>3, <1>4, <1>7, <3>1 DEF State, List
    <2>2. ToSet(Base(seen)) = Candidates \ Removed(seen.basis)
      <3>1. CASE seen.narrowing = Nothing
        <4>1. Removed(NoReport) = {}
          BY DEF Removed, NoReport
        <4>2. Base(seen) = Declared /\ seen.basis = NoReport
          BY <3>1 DEF Base, NarrowInv, StateInv, Filtered
        <4> QED
          BY <4>1, <4>2 DEF Candidates
      <3>2. CASE seen.narrowing # Nothing
        BY <3>2 DEF Base, NarrowInv, StateInv, Filtered
      <3> QED
        BY <3>1, <3>2
    <2>3. Pruned(seen) \subseteq Pruned(run) /\ Pruned(st) = Pruned(run)
      BY <2>1 DEF Pruned, NarrowInv
    <2>4. Asked(st)
      BY <1>2, <2>1, <2>2, <2>3 DEF Asked
    <2>5. Reported(st, passes) /\ Filtered(st) /\ Spared(st)
      BY <2>1 DEF NarrowInv, StateInv, Reported, Filtered, Spared
    <2>6. StateInv(st, passes)
      BY <2>1, <2>4, <2>5 DEF StateInv
    <2> QED
      BY <1>0, <1>5, <2>3, <2>6, MergeKeepsInv DEF NarrowInv, ScoresInv
  <1> QED
    BY <1>6, <1>7

LEMMA NarrowStepInv ==
  ASSUME NarrowInv, [Next]_vars
  PROVE  NarrowInv'
  <1>1. ASSUME UNCHANGED <<rules, plan, limit, safe, sim, bm25, wave, pos, seen, run, passes>>
        PROVE  NarrowInv'
    BY <1>1 DEF NarrowInv, ConfigInv, PlaceInv, ScoresInv, StateInv, Reported, Filtered, Spared,
                Asked, Pruned
  <1>2. CASE NodeFails
    BY <1>1, <1>2 DEF NodeFails, config
  <1>3. CASE Assemble
    BY <1>1, <1>3 DEF Assemble, config
  <1>4. CASE Finished \/ UNCHANGED vars
    BY <1>1, <1>4 DEF Finished, vars
  <1> QED
    BY <1>2, <1>3, <1>4, RuleKeepsInv, FilterKeepsInv, LexicalKeepsInv, EmbeddingKeepsInv,
       RetrieveKeepsInv, RerankKeepsInv, ChoiceKeepsInv DEF Next

\* Types, and what the lists of a run owe to the rule passes behind them.
THEOREM NarrowInvariant == Spec => []NarrowInv
  BY NarrowInitInv, NarrowStepInv, PTL DEF Spec

\* A safe engine keeps every candidate no rule pass excludes (engine.rs
\* DecisionEngine::new, executor.rs handle_lexical): whatever lexical, embedding
\* and rerank nodes the graph has, in whatever waves.
THEOREM SafeKeeps == Spec => []SafeModeKeeps
  <1>1. NarrowInv => SafeModeKeeps
    <2> SUFFICES ASSUME NarrowInv, safe, run.asked # Nothing,
                        NEW c \in Candidates, c \notin ToSet(run.asked)
                 PROVE  \E p \in passes : c \in p.excluded \ p.pinned
      BY DEF SafeModeKeeps
    <2>1. Pruned(run) = {}
      <3>1. ToSet(<<>>) = {}
        BY DEF ToSet
      <3> QED
        BY <3>1 DEF NarrowInv, StateInv, Spared, Pruned
    <2>2. c \in Removed(run.judged)
      BY <2>1 DEF NarrowInv, StateInv, Asked
    <2>3. run.judged \in passes
      BY <2>2 DEF NarrowInv, StateInv, Reported, Removed, NoReport
    <2> QED
      BY <2>2, <2>3 DEF Removed
  <1> QED
    BY <1>1, NarrowInvariant, PTL

\* Rules prevail (narrowing.rs NarrowingOutcome::apply): for every plan, nobody
\* the deciding filter removed is asked about, and whoever its rules pinned is
\* asked about unless a prune the graph orders dropped it.
THEOREM RulesGovern == Spec => []RulesPrevail
  <1>1. NarrowInv => RulesPrevail
    <2> SUFFICES ASSUME NarrowInv, run.asked # Nothing
                 PROVE  /\ ToSet(run.asked) \cap (run.judged.excluded \ run.judged.pinned) = {}
                        /\ run.judged.pinned \subseteq ToSet(run.asked) \cup Pruned(run)
      BY DEF RulesPrevail
    <2>1. run.judged.pinned \subseteq Candidates
      BY DEF NarrowInv, StateInv, State, Report
    <2> QED
      BY <2>1 DEF NarrowInv, StateInv, Asked, Removed
  <1> QED
    BY <1>1, NarrowInvariant, PTL
=============================================================================
