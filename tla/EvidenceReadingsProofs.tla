----------------------- MODULE EvidenceReadingsProofs -----------------------
(***************************************************************************)
(* Theorems about EvidenceReadings.                                        *)
(***************************************************************************)
EXTENDS EvidenceReadings, FiniteOrder

-----------------------------------------------------------------------------
(* Numbers.                                                                *)

\* Max of a finite set of numbers is in it and not below any of it.
LEMMA MaxIs ==
  ASSUME NEW S \in SUBSET Int, IsFiniteSet(S), S # {}
  PROVE  Max(S) \in S /\ \A y \in S : y <= Max(S)
  <1> DEFINE f == [x \in S |-> x]
  <1>1. \A x \in S : f[x] \in Int
    OBVIOUS
  <1>2. \E x \in S : \A y \in S : f[y] <= f[x]
    <2> HIDE DEF f
    <2> QED
      BY <1>1, Greatest
  <1>3. \E x \in S : \A y \in S : x >= y
    BY <1>2
  <1> QED
    BY <1>3 DEF Max

-----------------------------------------------------------------------------
(* The early exit of a rotated readout.                                    *)

\* Among the votes read and those to come, a candidate has at least the first
\* and at most the first and all the others.
LEMMA WinsOfMore ==
  ASSUME NEW S, NEW votes \in Seq(S), NEW rest \in Seq(S), NEW c
  PROVE  /\ Wins(votes, c) \in Nat /\ Wins(votes \o rest, c) \in Nat
         /\ Wins(votes \o rest, c) >= Wins(votes, c)
         /\ Wins(votes \o rest, c) <= Wins(votes, c) + Len(rest)
  <1> DEFINE n == Len(votes)
             m == Len(rest)
             A == {i \in 1 .. n : votes[i] = c}
             B == {i \in 1 .. n + m : (votes \o rest)[i] = c}
             R == n + 1 .. n + m
  <1>1. /\ n \in Nat /\ m \in Nat /\ votes \o rest \in Seq(S) /\ Len(votes \o rest) = n + m
        /\ DOMAIN votes = 1 .. n /\ DOMAIN (votes \o rest) = 1 .. n + m
        /\ \A i \in 1 .. n : (votes \o rest)[i] = votes[i]
    OBVIOUS
  <1>2. Wins(votes, c) = Cardinality(A) /\ Wins(votes \o rest, c) = Cardinality(B)
    BY <1>1 DEF Wins
  <1>3. A \subseteq 1 .. n /\ A \subseteq B /\ B \subseteq A \cup R /\ B \subseteq 1 .. n + m
    BY <1>1
  <1>4. IsFiniteSet(1 .. n) /\ IsFiniteSet(1 .. n + m) /\ IsFiniteSet(R) /\ Cardinality(R) = m
    <2> HIDE DEF n, m
    <2>1. n + m \in Nat /\ n + 1 \in Int /\ n + 1 <= n + m + 1 /\ n + m - (n + 1) + 1 = m
      BY <1>1
    <2>2. IsFiniteSet(1 .. n) /\ IsFiniteSet(1 .. n + m)
      BY <1>1, <2>1, Intervals
    <2>3. \A a, b \in Int : a <= b + 1 => IsFiniteSet(a .. b) /\ Cardinality(a .. b) = b - a + 1
      BY Intervals
    <2>4. IsFiniteSet(n + 1 .. n + m) /\ Cardinality(n + 1 .. n + m) = n + m - (n + 1) + 1
      <3>0. PICK a, b : a = n + 1 /\ b = n + m
        OBVIOUS
      <3>1. a \in Int /\ b \in Int /\ a <= b + 1
        BY <2>1, <3>0
      <3>2. IsFiniteSet(a .. b) /\ Cardinality(a .. b) = b - a + 1
        BY <2>3, <3>1
      <3> QED
        BY <1>1, <2>1, <3>0, <3>2
    <2> QED
      BY <2>1, <2>2, <2>4
  <1> HIDE DEF A, B, R, n, m
  <1>5. IsFiniteSet(A) /\ IsFiniteSet(B) /\ Cardinality(A) \in Nat /\ Cardinality(B) \in Nat
    BY <1>3, <1>4, FS_Subset, FS_CardinalityType
  <1>6. Cardinality(A) <= Cardinality(B)
    BY <1>3, <1>5, FS_Subset
  <1>7. IsFiniteSet(A \cup R) /\ Cardinality(A \cup R) = Cardinality(A) + m - Cardinality(A \cap R)
    BY <1>4, <1>5, FS_Union
  <1>8. Cardinality(A \cap R) \in Nat
    BY <1>5, FS_Intersection, FS_CardinalityType
  <1>9. Cardinality(B) <= Cardinality(A \cup R)
    BY <1>3, <1>7, FS_Subset
  <1> QED
    BY <1>1, <1>2, <1>5, <1>6, <1>7, <1>8, <1>9 DEF m

\* The leader has as many votes as anyone, and nobody else more than the
\* runner-up.
LEMMA LeaderLeads ==
  ASSUME NEW k \in Nat \ {0}, NEW S, NEW votes \in Seq(S)
  PROVE  LET c == Leader(k, votes)
         IN  /\ c \in 1 .. k
             /\ \A d \in 1 .. k : Wins(votes, c) >= Wins(votes, d)
             /\ RunnerUp(k, votes) \in Nat
             /\ \A d \in 1 .. k \ {c} : Wins(votes, d) <= RunnerUp(k, votes)
  <1> DEFINE c == Leader(k, votes)
             W == [d \in 0 .. k |-> Wins(votes, d)]
  <1>1. \A d : Wins(votes, d) \in Nat
    <2> TAKE d
    <2>1. <<>> \in Seq(S)
      OBVIOUS
    <2> QED
      BY <2>1, WinsOfMore
  <1>2. IsFiniteSet(1 .. k) /\ IsFiniteSet(0 .. k) /\ 1 .. k # {}
    <2>1. 0 \in Int /\ 1 \in Int /\ k \in Int /\ 1 \in 1 .. k
      OBVIOUS
    <2> QED
      BY <2>1, Intervals
  <1>3. \E x \in 1 .. k : \A d \in 1 .. k : W[d] <= W[x]
    <2>1. \A d \in 1 .. k : W[d] \in Int
      BY <1>1
    <2> HIDE DEF W
    <2> QED
      BY <1>2, <2>1, Greatest
  <1>4. c \in 1 .. k /\ \A d \in 1 .. k : Wins(votes, c) >= Wins(votes, d)
    <2>1. \E x \in 1 .. k : \A d \in 1 .. k : Wins(votes, x) >= Wins(votes, d)
      <3>1. PICK x \in 1 .. k : \A d \in 1 .. k : W[d] <= W[x]
        BY <1>3
      <3>2. \A d \in 1 .. k : W[d] = Wins(votes, d)
        OBVIOUS
      <3>3. \A d \in 1 .. k : Wins(votes, x) >= Wins(votes, d)
        <4> HIDE DEF W
        <4> QED
          BY <1>1, <3>1, <3>2
      <3> QED
        BY <3>3
    <2> QED
      BY <2>1 DEF Leader
  <1> DEFINE D == (1 .. k \ {c}) \cup {0}
             V == {Wins(votes, d) : d \in D}
  <1>5. V \in SUBSET Nat /\ V # {} /\ RunnerUp(k, votes) = Max(V)
    BY <1>1 DEF RunnerUp
  <1>6. IsFiniteSet(V)
    <2>1. D \subseteq 0 .. k
      OBVIOUS
    <2>2. IsFiniteSet(D)
      BY <1>2, <2>1, FS_Subset
    <2>3. {W[d] : d \in D} = V
      BY <2>1
    <2> HIDE DEF D, V, W
    <2> QED
      BY <2>2, <2>3, Images
  <1>7. Max(V) \in V /\ \A y \in V : y <= Max(V)
    <2> HIDE DEF V
    <2> QED
      BY <1>5, <1>6, MaxIs
  <1>8. \A d \in 1 .. k \ {c} : Wins(votes, d) \in V
    OBVIOUS
  <1> HIDE DEF V, c
  <1>9. RunnerUp(k, votes) \in Nat /\ \A d \in 1 .. k \ {c} : Wins(votes, d) <= RunnerUp(k, votes)
    BY <1>5, <1>7, <1>8
  <1> QED
    BY <1>4, <1>9 DEF c

\* The reads of all rotations are sequences of some set.
SomeReads == UNION {InnerReads(r.k) : r \in Rotations}

\* An exit before the last rotation leaves the others fewer votes than the
\* leader is ahead.
LEMMA ExitKeepsLeader ==
  ASSUME NEW k \in Nat, NEW X, NEW rs \in Seq(X), NEW early, Exits(k, rs, early), Len(rs) < k,
         NEW rest \in [1 .. k - Len(rs) -> 1 .. k],
         NEW d \in 1 .. k \ {Leader(k, Votes(k, rs))}
  PROVE  Wins(Votes(k, rs) \o rest, Leader(k, Votes(k, rs))) > Wins(Votes(k, rs) \o rest, d)
  <1> DEFINE n == Len(rs)
             votes == Votes(k, rs)
             c == Leader(k, votes)
             S == {votes[i] : i \in 1 .. n} \cup 1 .. k
  <1>1. n \in Nat /\ k \in Nat \ {0} /\ k - n \in Nat /\ k - n # 0 /\ DOMAIN rs = 1 .. n
    OBVIOUS
  <1>2. votes \in Seq(S) /\ Len(votes) = n
    <2>1. votes = [i \in 1 .. n |-> Vote(k, rs[i], i - 1)]
      BY <1>1 DEF Votes
    <2>2. votes \in [1 .. n -> S]
      <3>1. \A i \in 1 .. n : votes[i] \in S
        OBVIOUS
      <3> HIDE DEF S
      <3> QED
        BY <2>1, <3>1
    <2> HIDE DEF votes, S, n
    <2> QED
      BY <1>1, <2>2
  <1>3. rest \in Seq(S) /\ Len(rest) = k - n
    <2>1. 1 .. k \subseteq S
      OBVIOUS
    <2> HIDE DEF S, n
    <2> QED
      BY <1>1, <2>1
  <1>4. Certified(k, votes, early.alpha)
    BY DEF Exits
  <1> HIDE DEF votes, S
  <1>5. Wins(votes, c) > RunnerUp(k, votes) + (k - n)
    BY <1>1, <1>2, <1>4 DEF Certified
  <1>6. RunnerUp(k, votes) \in Nat /\ Wins(votes, d) <= RunnerUp(k, votes)
    <2>1. d \in 1 .. k \ {c}
      BY DEF votes
    <2> QED
      BY <1>1, <1>2, <2>1, LeaderLeads
  <1> HIDE DEF c, n
  <1>7. /\ Wins(votes, c) \in Nat /\ Wins(votes \o rest, c) \in Nat
        /\ Wins(votes \o rest, c) >= Wins(votes, c)
    BY <1>2, <1>3, WinsOfMore
  <1>8. /\ Wins(votes, d) \in Nat /\ Wins(votes \o rest, d) \in Nat
        /\ Wins(votes \o rest, d) <= Wins(votes, d) + Len(rest)
    BY <1>2, <1>3, WinsOfMore
  <1>9. Wins(votes \o rest, c) > Wins(votes \o rest, d)
    BY <1>1, <1>3, <1>5, <1>6, <1>7, <1>8
  <1> QED
    BY <1>9 DEF votes, c

-----------------------------------------------------------------------------
(* Every answer is what its task asks for.                                 *)

IsTask(t) ==
    \/ \E r \in Rotations : t = [kind |-> "rotation", k |-> r.k, early |-> r.early,
                                 combine |-> r.combine]
    \/ \E v \in Views : t = [kind |-> "view", state |-> v.state, budget |-> v.budget]
    \/ \E b \in Boards : t = [kind |-> "board", sentences |-> b.sentences,
                              candidates |-> b.candidates]
    \/ \E s \in Scorings : t = [kind |-> "score", scoring |-> s]
    \/ \E e \in Samples : t = [kind |-> "fit", evidence |-> e]
    \/ \E p \in Profiles : t = [kind |-> "profile", profile |-> p]

IsAnswer(t, rs, a) ==
    \/ a = Pending
    \/ a = Failed
    \/ t.kind = "rotation" /\ a.kind = "read" /\ Exits(t.k, rs, t.early)
    \/ t.kind = "view" /\ a = [kind |-> "viewed", view |-> Focus(t.state, t.budget)]
    \/ t.kind = "board" /\ a = [kind |-> "solved", proof |-> Prove(Extract(t.sentences), t.candidates)]
    \/ t.kind = "score" /\ a = ScoringOf(t.scoring)
    \/ /\ t.kind = "fit"
       /\ \E id \in Ids : a = [kind |-> "fitted", threshold |-> Fit(t.evidence), id |-> id,
                               emitted |-> Emit(id, Fit(t.evidence))]
    \/ t.kind = "profile" /\ a.kind = "loaded"

EvidenceInv == IsTask(task) /\ reads \in Seq(SomeReads) /\ IsAnswer(task, reads, answer)

\* Scoring returns scores, an order or an error.
LEMMA ScoringKinds ==
  ASSUME NEW s \in Scorings
  PROVE  /\ s.mode \in {"choice", "score", "boolean"} => ScoringOf(s).kind = "scored"
         /\ s.mode \in {"rerank", "rerank_embedding"} => ScoringOf(s).kind \in {"ranked", "error"}
         /\ ScoringOf(s).kind \in {"scored", "ranked", "error"}
  <1> DEFINE query == QueryFor(s.state, s.text)
  <1>1. \A i : LexicalChoice(query, s.candidates, s.prebuilt).kind = "scored"
    BY DEF LexicalChoice, Scored
  <1>2. \A l : LexicalLevels(query, l).kind = "scored"
    BY DEF LexicalLevels, Scored
  <1>3. LexicalBoolean(s.state, s.text).kind = "scored"
    BY DEF LexicalBoolean, Scored
  <1>4. \A c, v : Ranked(c, v).kind = "ranked"
    BY DEF Ranked
  <1>5. LexicalRerank(query, s.candidates).kind = "ranked"
    BY <1>4 DEF LexicalRerank
  <1>6. EmbeddingRerank(query, s.candidates, s.lost).kind \in {"ranked", "error"}
    BY <1>4 DEF EmbeddingRerank, Failed
  <1> QED
    BY <1>1, <1>2, <1>3, <1>5, <1>6, TaskAssumption DEF ScoringOf

\* The invariant holds throughout: a read is appended only while a readout is
\* pending, and an answer is given once.
LEMMA EvidenceInvariant == Spec => []EvidenceInv
  <1>1. Init => EvidenceInv
    BY DEF Init, EvidenceInv, IsTask, IsAnswer
  <1>2. EvidenceInv /\ [Next]_vars => EvidenceInv'
    <2> SUFFICES ASSUME EvidenceInv, [Next]_vars PROVE EvidenceInv'
      OBVIOUS
    <2> USE DEF EvidenceInv
    <2>1. CASE ReadRotation
      <3>1. PICK r \in InnerReads(task.k) :
              /\ reads' = Append(reads, r)
              /\ answer' = IF Exits(task.k, reads', task.early)
                           THEN [kind |-> "read", winners |-> Combined(task.combine, task.k, reads')]
                           ELSE Pending
        BY <2>1 DEF ReadRotation
      <3>2. task.kind = "rotation" /\ task' = task
        BY <2>1 DEF ReadRotation, Working
      <3>3. \E q \in Rotations : task.k = q.k
        BY <3>2 DEF IsTask
      <3>4. r \in SomeReads
        BY <3>3 DEF SomeReads
      <3>5. reads' \in Seq(SomeReads)
        BY <3>1, <3>4
      <3>6. IsAnswer(task', reads', answer')
        BY <3>1, <3>2 DEF IsAnswer
      <3> QED
        BY <3>2, <3>5, <3>6
    <2>2. CASE ReadFails
      BY <2>2 DEF ReadFails, Reply, IsAnswer
    <2>3. CASE TakeView
      BY <2>3 DEF TakeView, Reply, Working, IsAnswer
    <2>4. CASE SolveBoard
      BY <2>4 DEF SolveBoard, Reply, Working, IsAnswer
    <2>5. CASE ScoreText
      BY <2>5 DEF ScoreText, Reply, Working, IsAnswer
    <2>6. CASE FitBoundary
      BY <2>6 DEF FitBoundary, Reply, Working, IsAnswer
    <2>7. CASE LoadProfile
      <3> DEFINE l == IntoLadder(task.profile)
      <3>1. task.kind = "profile" /\ UNCHANGED <<task, reads>> /\ (answer' = Failed \/ answer'.kind = "loaded")
        BY <2>7 DEF LoadProfile, Reply, Working
      <3> QED
        BY <3>1 DEF IsAnswer
    <2>8. CASE Done \/ UNCHANGED vars
      BY <2>8 DEF Done, vars
    <2> QED
      BY <2>1, <2>2, <2>3, <2>4, <2>5, <2>6, <2>7, <2>8 DEF Next
  <1> QED
    BY <1>1, <1>2, PTL DEF Spec

\* rotation.rs "the partial winner keeps the full-K lead": whatever the rotations
\* that were not read would have voted, the leader of those read leads.
THEOREM EarlyExitIsSound == Spec => []CertificateSound
  <1>1. EvidenceInv => CertificateSound
    <2> SUFFICES ASSUME EvidenceInv, answer.kind = "read", Len(reads) < task.k,
                        NEW rest \in [1 .. task.k - Len(reads) -> 1 .. task.k],
                        NEW d \in 1 .. task.k \ {Leader(task.k, Votes(task.k, reads))}
                 PROVE  Wins(Votes(task.k, reads) \o rest, Leader(task.k, Votes(task.k, reads)))
                           > Wins(Votes(task.k, reads) \o rest, d)
      BY DEF CertificateSound
    <2>1. task.kind = "rotation" /\ Exits(task.k, reads, task.early)
      <3>1. task.kind = "score" => ScoringOf(task.scoring).kind # "read"
        BY ScoringKinds DEF EvidenceInv, IsTask
      <3> QED
        BY <3>1 DEF EvidenceInv, IsAnswer, Pending, Failed
    <2>2. task.k \in Nat /\ reads \in Seq(SomeReads)
      BY <2>1, TaskAssumption DEF EvidenceInv, IsTask
    <2> QED
      BY <2>1, <2>2, ExitKeepsLeader
  <1> QED
    BY <1>1, EvidenceInvariant, PTL

-----------------------------------------------------------------------------
(* Relational proofs.                                                      *)

\* What is proved is the one answer the provers left agree on.
LEMMA OnlyIs ==
  /\ \A x : Only({x}) = x
  /\ Only({}) = Nobody
  /\ \A S : IsFiniteSet(S) /\ Only(S) # Nobody => S = {Only(S)}
  <1>1. \A x : Cardinality({x}) = 1
    BY FS_Singleton
  <1>2. ASSUME NEW S, IsFiniteSet(S), Only(S) # Nobody PROVE S = {Only(S)}
    <2>1. Cardinality(S) = 1
      BY <1>2 DEF Only
    <2>2. PICK x : S = {x}
      BY <1>2, <2>1, FS_Singleton
    <2>3. Only(S) = CHOOSE y \in S : TRUE
      BY <2>1 DEF Only
    <2> QED
      BY <2>2, <2>3
  <1>3. Only({}) = Nobody
    BY FS_EmptySet DEF Only
  <1>4. ASSUME NEW x PROVE Only({x}) = x
    BY <1>1 DEF Only
  <1> QED
    BY <1>2, <1>3, <1>4

\* There are five provers.
LEMMA ProversFinite ==
  ASSUME NEW facts
  PROVE  IsFiniteSet(Provers(facts))
  <1>1. \A a, b, c, d, e : IsFiniteSet({a, b, c, d, e})
    <2> TAKE a, b, c, d, e
    <2>1. IsFiniteSet({a})
      BY FS_Singleton
    <2>2. IsFiniteSet({a} \cup {b})
      BY <2>1, FS_AddElement
    <2>3. IsFiniteSet(({a} \cup {b}) \cup {c})
      BY <2>2, FS_AddElement
    <2>4. IsFiniteSet((({a} \cup {b}) \cup {c}) \cup {d})
      BY <2>3, FS_AddElement
    <2>5. IsFiniteSet(((({a} \cup {b}) \cup {c}) \cup {d}) \cup {e})
      BY <2>4, FS_AddElement
    <2>6. ((({a} \cup {b}) \cup {c}) \cup {d}) \cup {e} = {a, b, c, d, e}
      OBVIOUS
    <2> QED
      BY <2>5, <2>6
  <1> QED
    BY <1>1 DEF Provers

\* relational.rs: taking candidates away leaves a proof standing while its
\* answer is one of them, and otherwise delegates; no prover left over can turn
\* the answer into another one.
THEOREM ProofsSurviveNarrowing == Spec => []ProofSurvivesNarrowing
  <1>1. EvidenceInv => ProofSurvivesNarrowing
    <2> SUFFICES ASSUME EvidenceInv, answer.kind = "solved", answer.proof # Nobody,
                        NEW fewer \in SUBSET task.candidates
                 PROVE  Prove(Extract(task.sentences), fewer) =
                            IF answer.proof \in fewer THEN answer.proof ELSE Nobody
      BY DEF ProofSurvivesNarrowing
    <2> DEFINE facts == Extract(task.sentences)
               P == Provers(facts)
    <2>1. answer.proof = Prove(facts, task.candidates)
      <3>1. task.kind = "score" => ScoringOf(task.scoring).kind # "solved"
        BY ScoringKinds DEF EvidenceInv, IsTask
      <3> QED
        BY <3>1 DEF EvidenceInv, IsAnswer, Pending, Failed
    <2>2. IsFiniteSet(P \cap task.candidates)
      BY ProversFinite, FS_Intersection
    <2> HIDE DEF facts
    <2>3. P \cap task.candidates = {answer.proof}
      <3>1. answer.proof = Only(P \cap task.candidates)
        BY <2>1 DEF Prove
      <3> HIDE DEF P
      <3> QED
        BY <2>2, <3>1, OnlyIs
    <2>4. P \cap fewer = IF answer.proof \in fewer THEN {answer.proof} ELSE {}
      BY <2>3
    <2>5. Prove(facts, fewer) = Only(P \cap fewer)
      BY DEF Prove
    <2> HIDE DEF P
    <2>6. Only(P \cap fewer) = IF answer.proof \in fewer THEN answer.proof ELSE Nobody
      BY <2>4, OnlyIs
    <2> QED
      BY <2>5, <2>6 DEF facts
  <1> QED
    BY <1>1, EvidenceInvariant, PTL

-----------------------------------------------------------------------------
(* The fit of the Boolean boundary.                                        *)

Fraction == [part : Nat, of : Nat \ {0}]

\* Cross-multiplication orders fractions.
LEMMA FractionsOrdered ==
  ASSUME NEW f \in Fraction, NEW g \in Fraction, NEW h \in Fraction
  PROVE  /\ ~Greater(f, f)
         /\ Greater(f, g) => ~Greater(g, f)
         /\ Greater(f, g) /\ ~Greater(h, g) => Greater(f, h)
  <1>1. ASSUME NEW a \in Nat, NEW b \in Nat \ {0}, NEW c \in Nat, NEW d \in Nat \ {0},
               NEW p \in Nat, NEW q \in Nat \ {0}, a * d > c * b, ~(p * d > c * q)
        PROVE  a * q > p * b
    <2>1. (a * d) * q > (c * b) * q
      BY <1>1
    <2>2. (p * d) * b <= (c * q) * b
      BY <1>1
    <2>3. (a * d) * q = (a * q) * d /\ (c * b) * q = (c * q) * b /\ (p * d) * b = (p * b) * d
      OBVIOUS
    <2>4. (a * q) * d > (p * b) * d /\ a * q \in Nat /\ p * b \in Nat
      BY <2>1, <2>2, <2>3
    <2>5. ASSUME NEW x \in Nat, NEW y \in Nat, x * d > y * d PROVE x > y
      BY <2>5
    <2> QED
      BY <2>4, <2>5
  <1>2. /\ f.part \in Nat /\ f.of \in Nat \ {0} /\ g.part \in Nat /\ g.of \in Nat \ {0}
        /\ h.part \in Nat /\ h.of \in Nat \ {0}
    BY DEF Fraction
  <1>3. ~Greater(f, f) /\ (Greater(f, g) => ~Greater(g, f))
    BY <1>2 DEF Greater
  <1>4. ASSUME Greater(f, g), ~Greater(h, g) PROVE Greater(f, h)
    BY <1>1, <1>2, <1>4 DEF Greater
  <1> QED
    BY <1>3, <1>4

\* f1_at is a fraction.
LEMMA F1IsFraction ==
  ASSUME NEW X, NEW evidence \in Seq(X), NEW t
  PROVE  F1At(evidence, t) \in Fraction
  <1>1. \A predicted, label : Hits(evidence, t, predicted, label) \in Nat
    <2> TAKE predicted, label
    <2> DEFINE H == {i \in DOMAIN evidence :
                        (evidence[i].p_true >= 2 * t) = predicted /\ evidence[i].label = label}
    <2>1. DOMAIN evidence = 1 .. Len(evidence) /\ Len(evidence) \in Nat
      OBVIOUS
    <2>2. IsFiniteSet(DOMAIN evidence)
      BY <2>1, Intervals
    <2>3. H \subseteq DOMAIN evidence
      OBVIOUS
    <2>4. Hits(evidence, t, predicted, label) = Cardinality(H)
      BY DEF Hits
    <2> HIDE DEF H
    <2> QED
      BY <2>2, <2>3, <2>4, FS_Subset, FS_CardinalityType
  <1> DEFINE tp == Hits(evidence, t, TRUE, TRUE)
             wrong == 2 * tp + Hits(evidence, t, TRUE, FALSE) + Hits(evidence, t, FALSE, TRUE)
  <1>2. tp \in Nat /\ wrong \in Nat
    <2>1. /\ Hits(evidence, t, TRUE, TRUE) \in Nat
          /\ Hits(evidence, t, TRUE, FALSE) \in Nat
          /\ Hits(evidence, t, FALSE, TRUE) \in Nat
      BY <1>1, Zenon
    <2>2. \A a, b, c \in Nat : 2 * a + b + c \in Nat
      OBVIOUS
    <2> QED
      BY <2>1, <2>2
  <1>3. Max({1, wrong}) \in Nat \ {0}
    <2> HIDE DEF wrong
    <2>1. IsFiniteSet({1}) /\ {1} \cup {wrong} = {1, wrong}
      BY FS_Singleton
    <2>2. IsFiniteSet({1, wrong})
      BY <2>1, FS_AddElement
    <2> DEFINE W == {1, wrong}
    <2>3. W \in SUBSET Int /\ W # {} /\ 1 \in W /\ W \subseteq Nat
      BY <1>2
    <2> HIDE DEF W
    <2>4. Max(W) \in W /\ \A y \in W : y <= Max(W)
      BY <2>2, <2>3, MaxIs DEF W
    <2>5. Max(W) \in Nat \ {0}
      <3>1. PICK m : m = Max(W)
        OBVIOUS
      <3>2. m \in Nat /\ 1 <= m
        BY <2>3, <2>4, <3>1
      <3> QED
        BY <3>1, <3>2
    <2> QED
      BY <2>5 DEF W
  <1>4. F1At(evidence, t) = [part |-> 2 * tp, of |-> Max({1, wrong})]
    BY DEF F1At
  <1> HIDE DEF tp, wrong
  <1> QED
    BY <1>2, <1>3, <1>4 DEF Fraction

\* The sweep ends at the first boundary that no other beats.
LEMMA FitIsFirstBest ==
  ASSUME NEW X, NEW evidence \in Seq(X)
  PROVE  \E best \in 0 .. GridSteps :
            /\ Fit(evidence) = Threshold(best)
            /\ \A s \in 0 .. GridSteps :
                  /\ ~Greater(F1At(evidence, Threshold(s)), F1At(evidence, Threshold(best)))
                  /\ s < best => Greater(F1At(evidence, Threshold(best)), F1At(evidence, Threshold(s)))
  <1> DEFINE N == GridSteps
             S == 1 .. N
             V == 0 .. N
             F == [s \in V |-> F1At(evidence, Threshold(s))]
             better(best, step) ==
               IF Greater(F1At(evidence, Threshold(step)), F1At(evidence, Threshold(best))) THEN step ELSE best
             pick == [s \in (SUBSET S) \ {{}} |-> Max(s)]
             step == [x \in S |-> [v \in V |-> better(v, x)]]
             Is(g) == g = [s \in SUBSET S |->
                             IF s = {} THEN 0 ELSE better(g[s \ {Max(s)}], [x \in S |-> x][Max(s)])]
  <1>0. N \in Nat /\ IsFiniteSet(S) /\ 0 \in V
    BY GridAssumption, Intervals
  <1>1. \A s \in (SUBSET S) \ {{}} : Max(s) \in s /\ \A y \in s : y <= Max(s)
    <2> TAKE s \in (SUBSET S) \ {{}}
    <2>1. IsFiniteSet(s)
      <3> HIDE DEF S
      <3> QED
        BY <1>0, FS_Subset
    <2>2. s \in SUBSET Int /\ s # {}
      OBVIOUS
    <2> QED
      BY <2>1, <2>2, MaxIs
  <1>2. pick \in [(SUBSET S) \ {{}} -> S] /\ \A s \in (SUBSET S) \ {{}} : pick[s] \in s
    BY <1>1
  <1>3. step \in [S -> [V -> V]]
    BY <1>0
  <1>4. PICK g \in [SUBSET S -> V] : Folds(g, S, 0, pick, step)
    <2> HIDE DEF pick, step, S, V
    <2> QED
      BY <1>0, <1>2, <1>3, RecursionOnSubsets
  <1>5. ASSUME NEW s \in (SUBSET S) \ {{}}
        PROVE  g[s] = better(g[s \ {Max(s)}], Max(s))
    <2>1. PICK x \in s : x = Max(s)
      BY <1>1
    <2>2. pick[s] = x /\ x \in S /\ g[s \ {x}] \in V
      BY <2>1
    <2>3. step[x][g[s \ {x}]] = better(g[s \ {x}], x)
      BY <2>2
    <2>4. g[s] = step[pick[s]][g[s \ {pick[s]}]]
      BY <1>4 DEF Folds
    <2> HIDE DEF pick, step
    <2> QED
      BY <2>1, <2>2, <2>3, <2>4
  <1>6. Is(g)
    <2>1. g[{}] = 0
      BY <1>4 DEF Folds
    <2>2. \A s \in (SUBSET S) \ {{}} : [x \in S |-> x][Max(s)] = Max(s)
      BY <1>1
    <2>3. \A s \in SUBSET S : g[s] = IF s = {} THEN 0
                                     ELSE better(g[s \ {Max(s)}], [x \in S |-> x][Max(s)])
      BY <1>5, <2>1, <2>2
    <2> QED
      BY <2>3
  <1> DEFINE iter == CHOOSE h : Is(h)
  <1>7. Is(iter)
    <2> HIDE DEF Is
    <2> QED
      BY <1>6
  <1>8. Fit(evidence) = Threshold(iter[S])
    BY DEF Fit, FoldLeft, MapThenFoldSet
  <1> HIDE DEF iter
  <1>9. \A s \in SUBSET S : iter[s] = g[s]
    <2> DEFINE T == {s \in SUBSET S : iter[s] = g[s]}
    <2>1. ASSUME NEW s \in SUBSET S, \A x \in s : s \ {x} \in T PROVE s \in T
      <3>1. CASE s = {}
        BY <1>6, <1>7, <3>1
      <3>2. CASE s # {}
        <4>1. Max(s) \in s
          BY <1>1, <3>2
        <4>2. iter[s \ {Max(s)}] = g[s \ {Max(s)}]
          BY <2>1, <4>1
        <4>3. iter[s] = better(iter[s \ {Max(s)}], [x \in S |-> x][Max(s)])
          BY <1>7, <3>2
        <4>4. g[s] = better(g[s \ {Max(s)}], [x \in S |-> x][Max(s)])
          BY <1>6, <3>2
        <4> QED
          BY <4>2, <4>3, <4>4
      <3> QED
        BY <3>1, <3>2
    <2>2. SUBSET S \subseteq T
      <3>1. Grows(T, S)
        BY <2>1 DEF Grows
      <3> HIDE DEF T
      <3> QED
        BY <1>0, <3>1, SubsetsUp
    <2> QED
      BY <2>2
  <1> DEFINE First(b, n) == \A s \in 0 .. n : ~Greater(F[s], F[b]) /\ (s < b => Greater(F[b], F[s]))
             T == {n \in V : g[1 .. n] \in 0 .. n /\ First(g[1 .. n], n)}
  <1>10. \A s \in V : F[s] \in Fraction
    BY F1IsFraction
  <1>11. 0 \in T
    <2>1. 1 .. 0 = {} /\ g[{}] = 0
      BY <1>4 DEF Folds
    <2>2. ~Greater(F[0], F[0])
      BY <1>0, <1>10, FractionsOrdered
    <2> HIDE DEF F
    <2> QED
      BY <1>0, <2>1, <2>2
  <1>12. ASSUME NEW n \in V, n > 0, n - 1 \in T PROVE n \in T
    <2> DEFINE b == g[1 .. n - 1]
    <2>0. n \in Nat /\ n <= N /\ 0 .. n = (0 .. n - 1) \cup {n}
      BY <1>0, <1>12
    <2>1. b \in 0 .. n - 1 /\ First(b, n - 1) /\ n \in Nat /\ b \in V /\ 0 .. n = (0 .. n - 1) \cup {n}
      <3>1. b \in 0 .. n - 1 /\ First(b, n - 1)
        <4> HIDE DEF First
        <4> QED
          BY <1>12
      <3>2. b \in V
        BY <1>0, <2>0, <3>1
      <3> HIDE DEF First, b
      <3> QED
        BY <2>0, <3>1, <3>2
    <2>2. g[1 .. n] = better(b, n)
      <3>1. 1 .. n \in (SUBSET S) \ {{}} /\ n \in 1 .. n
        BY <1>0, <1>12
      <3>2. Max(1 .. n) = n
        <4>1. Max(1 .. n) \in 1 .. n /\ n <= Max(1 .. n)
          BY <1>1, <3>1
        <4> QED
          BY <4>1, <2>1
      <3>3. (1 .. n) \ {n} = 1 .. n - 1
        BY <2>1
      <3> QED
        BY <1>5, <3>1, <3>2, <3>3
    <2>3. F[n] = F1At(evidence, Threshold(n)) /\ F[b] = F1At(evidence, Threshold(b))
      BY <2>1
    <2>4. g[1 .. n] = IF Greater(F[n], F[b]) THEN n ELSE b
      BY <2>2, <2>3
    <2> HIDE DEF F, b
    <2>5. \A s \in 0 .. n : F[s] \in Fraction
      BY <1>0, <1>10
    <2>6. ~Greater(F[n], F[n])
      BY <1>10, FractionsOrdered
    <2>7. CASE Greater(F[n], F[b])
      <3>1. \A s \in 0 .. n - 1 : Greater(F[n], F[s])
        BY <2>1, <2>5, <2>7, FractionsOrdered
      <3>2. \A s \in 0 .. n - 1 : ~Greater(F[s], F[n])
        BY <2>1, <2>5, <2>6, <3>1, FractionsOrdered
      <3> QED
        BY <2>1, <2>4, <2>6, <2>7, <3>1, <3>2
    <2>8. CASE ~Greater(F[n], F[b])
      <3>1. ~(n < b)
        BY <2>1
      <3> QED
        BY <2>1, <2>4, <2>8, <3>1
    <2> QED
      BY <2>7, <2>8
  <1>13. N \in T
    <2>1. V \subseteq T
      <3> HIDE DEF T
      <3> QED
        BY <1>0, <1>11, <1>12, UpTo
    <2>2. N \in V
      BY <1>0
    <2> HIDE DEF T, V
    <2> QED
      BY <2>1, <2>2
  <1>14. g[S] \in V /\ First(g[S], N) /\ Fit(evidence) = Threshold(g[S])
    BY <1>8, <1>9, <1>13
  <1>15. \A s \in V : F[s] = F1At(evidence, Threshold(s))
    OBVIOUS
  <1> HIDE DEF F
  <1> QED
    BY <1>14, <1>15

\* An emitted profile is accepted when it is loaded, and governs a Boolean node.
LEMMA EmittedGoverns ==
  ASSUME NEW id, NEW t, Emit(id, t).ok
  PROVE  LET l == IntoLadder(Emit(id, t).profile)
         IN  l.ok /\ Resolve(l.ladder, NodeOf, "boolean", FamilyOf).policy = t
  <1> DEFINE p == [id |-> id, per_node |-> Empty, per_kind |-> [k \in {"boolean"} |-> t],
                   per_family |-> Empty, calibrations |-> Empty]
             bare == [p EXCEPT !.calibrations = Empty]
  <1>1. id \notin {"", "none"} /\ Emit(id, t).profile = p
    BY DEF Emit
  <1>2. DOMAIN Empty = {}
    BY DEF Empty
  <1>3. ~NoOverride(bare)
    <2>1. DOMAIN bare.per_kind = {"boolean"}
      OBVIOUS
    <2> QED
      BY <1>2, <2>1 DEF NoOverride
  <1>4. LadderOK(bare)
    <2>1. bare.id = id /\ bare.per_family = Empty
      OBVIOUS
    <2> QED
      BY <1>1, <1>2, <2>1 DEF LadderOK
  <1>5. LadderOK(p)
    BY <1>1, <1>2 DEF LadderOK
  <1>6. IntoLadder(p) = [ok |-> TRUE, ladder |-> p]
    <2>1. DOMAIN p.calibrations = {}
      BY <1>2
    <2> QED
      BY <1>3, <1>4, <1>5, <2>1 DEF IntoLadder
  <1>7. Resolve(p, NodeOf, "boolean", FamilyOf) = Rung("kind", "boolean", t)
    <2>1. p.per_node = Empty /\ p.per_family = Empty /\ DOMAIN p.per_kind = {"boolean"}
          /\ p.per_kind["boolean"] = t
      OBVIOUS
    <2> HIDE DEF p
    <2> QED
      BY <1>2, <2>1 DEF Resolve
  <1>8. Rung("kind", "boolean", t).policy = t
    BY DEF Rung
  <1> HIDE DEF p
  <1>9. IntoLadder(p).ok /\ IntoLadder(p).ladder = p
    BY <1>6
  <1>10. Resolve(IntoLadder(p).ladder, NodeOf, "boolean", FamilyOf).policy = t
    BY <1>7, <1>8, <1>9
  <1>11. Emit(id, t).profile = p
    BY <1>1
  <1> QED
    BY <1>9, <1>10, <1>11

\* ladder_fit.rs fit_boolean_threshold, emit_boolean_profile: for every evidence
\* and every grid the boundary is the smallest of the best, its profile is refused
\* only for its id or when nothing below 1.00 is best, and what is emitted loads
\* and governs.
THEOREM FittedProfilesGovern == Spec => []FittedProfileGoverns
  <1>1. EvidenceInv => FittedProfileGoverns
    <2> SUFFICES ASSUME EvidenceInv, answer.kind = "fitted" PROVE FittedProfileGoverns
      BY DEF FittedProfileGoverns
    <2> DEFINE f1(t) == F1At(task.evidence, t)
               grid == {Threshold(s) : s \in 0 .. GridSteps}
               unbeaten(t) == \A u \in grid : ~Greater(f1(u), f1(t))
    <2>1. PICK id \in Ids : /\ task.kind = "fit" /\ answer.threshold = Fit(task.evidence)
                            /\ answer.id = id /\ answer.emitted = Emit(id, Fit(task.evidence))
      <3>1. task.kind = "score" => ScoringOf(task.scoring).kind # "fitted"
        BY ScoringKinds DEF EvidenceInv, IsTask
      <3> QED
        BY <3>1 DEF EvidenceInv, IsAnswer, Pending, Failed
    <2>2. task.evidence \in Seq([p_true : 0 .. 200, label : BOOLEAN])
      BY <2>1, TaskAssumption DEF EvidenceInv, IsTask
    <2>3. PICK best \in 0 .. GridSteps :
            /\ Fit(task.evidence) = Threshold(best)
            /\ \A s \in 0 .. GridSteps :
                  /\ ~Greater(F1At(task.evidence, Threshold(s)), F1At(task.evidence, Threshold(best)))
                  /\ s < best => Greater(F1At(task.evidence, Threshold(best)), F1At(task.evidence, Threshold(s)))
      BY <2>2, FitIsFirstBest
    <2>4. \A s, r \in 0 .. GridSteps : Threshold(s) < Threshold(r) <=> s < r
      BY GridAssumption DEF Threshold
    <2>5. unbeaten(answer.threshold) /\ answer.threshold \in grid
      BY <2>1, <2>3
    <2>6. \A t \in grid : t < answer.threshold => Greater(f1(answer.threshold), f1(t))
      BY <2>1, <2>3, <2>4
    <2>7. answer.threshold < 100 <=> \E t \in grid : t < 100 /\ unbeaten(t)
      <3>1. ASSUME NEW t \in grid, t < 100, unbeaten(t) PROVE answer.threshold < 100
        <4>1. ~(t < answer.threshold)
          BY <2>5, <2>6, <3>1
        <4>2. t \in Int /\ answer.threshold \in Int
          BY <2>5, GridAssumption DEF Threshold
        <4> QED
          BY <3>1, <4>1, <4>2
      <3> QED
        BY <2>5, <3>1
    <2>8. answer.emitted.ok <=> answer.id \notin {"", "none"} /\ answer.threshold < 100
      <3>1. ASSUME NEW t PROVE Emit(id, t).ok <=> id \notin {"", "none"} /\ t < 100
        <4>1. CASE id \in {"", "none"} \/ ~(t < 100)
          <5>1. Emit(id, t) = [ok |-> FALSE]
            BY <4>1 DEF Emit, ThresholdOK
          <5>2. Emit(id, t).ok = FALSE
            BY <5>1
          <5> QED
            BY <4>1, <5>2, Zenon
        <4>2. CASE id \notin {"", "none"} /\ t < 100
          <5>1. Emit(id, t).ok = TRUE
            BY <4>2 DEF Emit, ThresholdOK
          <5> QED
            BY <4>2, <5>1, Zenon
        <4> QED
          BY <4>1, <4>2, Zenon
      <3> HIDE DEF f1, grid, unbeaten
      <3> QED
        BY <2>1, <3>1
    <2>9. answer.emitted.ok =>
            LET l == IntoLadder(answer.emitted.profile)
            IN  l.ok /\ Resolve(l.ladder, NodeOf, "boolean", FamilyOf).policy = answer.threshold
      BY <2>1, EmittedGoverns
    <2> HIDE DEF f1, grid, unbeaten
    <2>10. /\ unbeaten(answer.threshold)
           /\ \A t \in grid : t < answer.threshold => Greater(f1(answer.threshold), f1(t))
           /\ answer.emitted.ok <=> answer.id \notin {"", "none"} /\ \E t \in grid : t < 100 /\ unbeaten(t)
      BY <2>5, <2>6, <2>7, <2>8
    <2> QED
      BY <2>9, <2>10 DEF FittedProfileGoverns, f1, grid, unbeaten
  <1> QED
    BY <1>1, EvidenceInvariant, PTL

-----------------------------------------------------------------------------
(* The focused view.                                                       *)

Parts == [bytes : Nat, score : Nat, mentions : BOOLEAN]
Evident(parts) == {i \in DOMAIN parts : parts[i].score > 0 \/ parts[i].mentions}
Better(parts, i, j) == \/ parts[i].score > parts[j].score
                       \/ parts[i].score = parts[j].score /\ i < j

\* The ranking lists the sentences with evidence once each, the better first.
LEMMA RankedPartsAre ==
  ASSUME NEW parts \in Seq(Parts)
  PROVE  LET r == RankedParts(parts)
         IN  /\ r \in Seq(Evident(parts))
             /\ \A i \in Evident(parts) : \E n \in 1 .. Len(r) : r[n] = i
             /\ \A m, n \in 1 .. Len(r) : m < n <=> Better(parts, r[m], r[n])
  <1> DEFINE E == Evident(parts)
             R == {e \in E \X E : Better(parts, e[1], e[2])}
             n == Cardinality(E)
             before(i) == {j \in E : \/ parts[j].score > parts[i].score
                                     \/ parts[j].score = parts[i].score /\ j < i}
  <1>1. DOMAIN parts = 1 .. Len(parts) /\ Len(parts) \in Nat /\ \A i \in DOMAIN parts : parts[i].score \in Nat
    <2>1. DOMAIN parts = 1 .. Len(parts) /\ Len(parts) \in Nat
      OBVIOUS
    <2>2. \A i \in 1 .. Len(parts) : parts[i] \in Parts
      OBVIOUS
    <2> QED
      BY <2>1, <2>2 DEF Parts
  <1>2. IsFiniteSet(E) /\ E \subseteq DOMAIN parts
    <2>1. IsFiniteSet(DOMAIN parts) /\ E \subseteq DOMAIN parts
      BY <1>1, Intervals DEF Evident
    <2> HIDE DEF E
    <2> QED
      BY <2>1, FS_Subset
  <1>3. \A i, j \in E : <<i, j>> \in R <=> Better(parts, i, j)
    <2> HIDE DEF E
    <2> QED
      OBVIOUS
  <1>4. \A i \in E : i \in Nat /\ parts[i].score \in Nat
    BY <1>1, <1>2
  <1> HIDE DEF E
  <1>5. Ordered(E, R)
    <2>1. \A i \in E : <<i, i>> \notin R
      BY <1>3, <1>4 DEF Better
    <2>2. ASSUME NEW a \in E, NEW b \in E, NEW c \in E, <<a, b>> \in R, <<b, c>> \in R PROVE <<a, c>> \in R
      <3>1. Better(parts, a, b) /\ Better(parts, b, c)
        BY <1>3, <2>2
      <3>2. Better(parts, a, c)
        BY <1>4, <3>1 DEF Better
      <3> QED
        BY <1>3, <3>2
    <2>3. \A a, b \in E : a # b => <<a, b>> \in R \/ <<b, a>> \in R
      BY <1>3, <1>4 DEF Better
    <2> HIDE DEF R
    <2> QED
      BY <2>1, <2>2, <2>3 DEF Ordered
  <1>6. \A i \in E : InFront(E, R, i) = before(i)
    BY <1>3 DEF InFront, Better
  <1>7. RankedParts(parts) = [k \in 1 .. n |-> CHOOSE i \in E : Cardinality(before(i)) = k - 1]
    BY DEF RankedParts, E, Evident
  <1>8. RankedParts(parts) = InOrder(E, R)
    <2> HIDE DEF before, R
    <2>1. \A k : (CHOOSE i \in E : Cardinality(before(i)) = k - 1)
                    = CHOOSE i \in E : Cardinality(InFront(E, R, i)) = k - 1
      BY <1>6
    <2> QED
      BY <1>7, <2>1 DEF InOrder
  <1> HIDE DEF R, n
  <1>9. /\ InOrder(E, R) \in [1 .. n -> E]
        /\ \A c \in E : \E i \in 1 .. n : InOrder(E, R)[i] = c
        /\ \A i, j \in 1 .. n : i < j <=> <<InOrder(E, R)[i], InOrder(E, R)[j]>> \in R
    BY <1>2, <1>5, InOrderIs DEF n
  <1>10. n \in Nat
    BY <1>2, FS_CardinalityType DEF n
  <1>11. InOrder(E, R) \in Seq(E) /\ Len(InOrder(E, R)) = n
    BY <1>9, <1>10
  <1>12. \A i, j \in 1 .. n : i < j <=> Better(parts, InOrder(E, R)[i], InOrder(E, R)[j])
    BY <1>3, <1>9
  <1> QED
    BY <1>8, <1>9, <1>11, <1>12 DEF E

\* A total of natural numbers is one.
LEMMA TotalNat ==
  ASSUME NEW S, IsFiniteSet(S), NEW f, DOMAIN f = S, \A x \in S : f[x] \in Nat
  PROVE  Total(f) \in Nat
  <1>1. Total(f) = SumFunctionOnSet(f, S)
    BY DEF Total, FoldFunction, SumFunctionOnSet
  <1> QED
    BY <1>1, SumNat

\* What is kept is a beginning of the ranking: its first sentence, or as many as
\* fit.
LEMMA KeptIsPrefix ==
  ASSUME NEW parts \in Seq(Parts), NEW budget, Kept(parts, budget) # <<>>
  PROVE  LET r == RankedParts(parts)
         IN  \E n \in 1 .. Len(r) : /\ Kept(parts, budget) = Prefix(r, n)
                                    /\ n = 1 \/ Used(parts, Prefix(r, n)) <= budget
  <1> DEFINE r == RankedParts(parts)
             fitting == {n \in 1 .. Len(r) : n = 1 \/ Used(parts, Prefix(r, n)) <= budget}
  <1>1. r # <<>> /\ Kept(parts, budget) = Prefix(r, Max(fitting))
    BY DEF Kept
  <1>2. r \in Seq(Evident(parts))
    BY RankedPartsAre
  <1> HIDE DEF r
  <1>3. Len(r) \in Nat /\ 1 \in 1 .. Len(r)
    BY <1>1, <1>2
  <1>4. fitting \in SUBSET Int /\ fitting # {} /\ fitting \subseteq 1 .. Len(r)
    BY <1>3
  <1>5. IsFiniteSet(1 .. Len(r))
    BY <1>3, Intervals
  <1>6. Max(fitting) \in fitting
    <2> HIDE DEF fitting
    <2>1. IsFiniteSet(fitting)
      BY <1>4, <1>5, FS_Subset
    <2> QED
      BY <1>4, <2>1, MaxIs
  <1>7. PICK n : n = Max(fitting)
    OBVIOUS
  <1>8. n \in 1 .. Len(r) /\ (n = 1 \/ Used(parts, Prefix(r, n)) <= budget)
    BY <1>6, <1>7
  <1> HIDE DEF fitting
  <1> QED
    BY <1>1, <1>7, <1>8 DEF r

\* The sentences in a beginning of the ranking are at least as good as all others.
LEMMA PrefixIsBest ==
  ASSUME NEW parts \in Seq(Parts), NEW n \in 1 .. Len(RankedParts(parts))
  PROVE  LET kept == ToSet(Prefix(RankedParts(parts), n))
         IN  /\ kept # {} /\ kept \subseteq DOMAIN parts
             /\ n = 1 => Cardinality(kept) = 1
             /\ \A i \in kept : parts[i].score > 0 \/ parts[i].mentions
             /\ \A i \in kept, j \in DOMAIN parts \ kept : parts[i].score >= parts[j].score
  <1> DEFINE r == RankedParts(parts)
             kept == ToSet(Prefix(r, n))
  <1>1. /\ r \in Seq(Evident(parts))
        /\ \A i \in Evident(parts) : \E m \in 1 .. Len(r) : r[m] = i
        /\ \A k, m \in 1 .. Len(r) : k < m <=> Better(parts, r[k], r[m])
    BY RankedPartsAre
  <1>2. Evident(parts) \subseteq DOMAIN parts /\ \A i \in DOMAIN parts : parts[i].score \in Nat
    <2>1. DOMAIN parts = 1 .. Len(parts) /\ Len(parts) \in Nat
      OBVIOUS
    <2>2. \A i \in 1 .. Len(parts) : parts[i] \in Parts
      OBVIOUS
    <2> QED
      BY <2>1, <2>2 DEF Parts, Evident
  <1> HIDE DEF r
  <1>3. n \in 1 .. Len(r) /\ Len(r) \in Nat
    BY <1>1 DEF r
  <1>4. /\ Prefix(r, n) = [m \in 1 .. n |-> r[m]]
        /\ DOMAIN Prefix(r, n) = 1 .. n
    BY <1>1, <1>3 DEF Prefix
  <1>5. kept = {r[m] : m \in 1 .. n}
    BY <1>4 DEF ToSet
  <1>6. \A m \in 1 .. Len(r) : r[m] \in Evident(parts)
    BY <1>1
  <1>7. kept # {} /\ kept \subseteq DOMAIN parts
    <2>1. 1 \in 1 .. n /\ 1 .. n \subseteq 1 .. Len(r)
      BY <1>3
    <2> QED
      BY <1>2, <1>5, <1>6, <2>1
  <1>8. n = 1 => Cardinality(kept) = 1
    <2>1. n = 1 => 1 .. n = {1}
      OBVIOUS
    <2>2. n = 1 => kept = {r[1]}
      BY <1>5, <2>1
    <2> HIDE DEF kept
    <2> QED
      BY <2>2, FS_Singleton
  <1>9. ASSUME NEW i \in kept, NEW j \in DOMAIN parts \ kept PROVE parts[i].score >= parts[j].score
    <2>1. PICK k \in 1 .. n : i = r[k]
      BY <1>5
    <2>2. k \in 1 .. Len(r) /\ i \in Evident(parts)
      BY <1>3, <1>6, <2>1
    <2>3. parts[i].score \in Nat /\ parts[j].score \in Nat
      BY <1>2, <2>2
    <2>4. CASE j \in Evident(parts)
      <3>1. PICK m \in 1 .. Len(r) : j = r[m]
        BY <1>1, <2>4
      <3>2. ~(m <= n)
        BY <1>3, <1>5, <3>1
      <3>3. k < m
        BY <1>3, <2>1, <3>1, <3>2
      <3>4. Better(parts, i, j)
        BY <1>1, <2>1, <2>2, <3>1, <3>3
      <3> QED
        BY <2>3, <3>4 DEF Better
    <2>5. CASE j \notin Evident(parts)
      <3>1. ~(parts[j].score > 0)
        BY <2>5 DEF Evident
      <3> QED
        BY <2>3, <3>1
    <2> QED
      BY <2>4, <2>5
  <1>10. \A i \in kept : parts[i].score > 0 \/ parts[i].mentions
    <2>1. 1 .. n \subseteq 1 .. Len(r)
      BY <1>3
    <2>2. kept \subseteq Evident(parts)
      BY <1>5, <1>6, <2>1
    <2> HIDE DEF kept
    <2> QED
      BY <2>2 DEF Evident
  <1> QED
    BY <1>7, <1>8, <1>9, <1>10 DEF r

\* focus.rs focus: a shortened view holds only sentences with evidence, the best
\* scores of them within the budget, and is shorter than the text.
THEOREM ViewsKeepEvidence == Spec => []ViewKeepsEvidence
  <1>1. EvidenceInv => ViewKeepsEvidence
    <2> SUFFICES ASSUME EvidenceInv, answer.kind = "viewed", answer.view.extracted
                 PROVE  /\ answer.view.parts # {}
                        /\ \A i \in answer.view.parts :
                              task.state.text.parts[i].score > 0 \/ task.state.text.parts[i].mentions
                        /\ \A i \in answer.view.parts, j \in DOMAIN task.state.text.parts \ answer.view.parts :
                              task.state.text.parts[i].score >= task.state.text.parts[j].score
                        /\ Tokens(Total([i \in answer.view.parts |-> task.state.text.parts[i].bytes]))
                              < Tokens(Bytes(task.state.text))
                        /\ answer.view.tokens <= task.budget \/ Cardinality(answer.view.parts) = 1
      BY DEF ViewKeepsEvidence
    <2>1. task.kind = "view" /\ answer.view = Focus(task.state, task.budget)
      <3>1. task.kind = "score" => ScoringOf(task.scoring).kind # "viewed"
        BY ScoringKinds DEF EvidenceInv, IsTask
      <3> QED
        BY <3>1 DEF EvidenceInv, IsAnswer, Pending, Failed
    <2>2. task.state.text.parts \in Seq(Parts) /\ task.state.text.blank \in Nat
      BY <2>1, TaskAssumption DEF EvidenceInv, IsTask, Parts
    <2> DEFINE parts == task.state.text.parts
               size == Tokens(Bytes(task.state.text))
               kept == Kept(parts, task.budget)
               bytes == Total([i \in ToSet(kept) |-> parts[i].bytes])
    <2>3. /\ kept # <<>> /\ ~(Tokens(bytes) >= size)
          /\ answer.view.parts = ToSet(kept) /\ answer.view.tokens = Used(parts, kept)
      BY <2>1 DEF Focus, Whole
    <2>4. PICK n \in 1 .. Len(RankedParts(parts)) :
             /\ kept = Prefix(RankedParts(parts), n)
             /\ n = 1 \/ Used(parts, Prefix(RankedParts(parts), n)) <= task.budget
      <3> HIDE DEF parts
      <3> QED
        BY <2>2, <2>3, KeptIsPrefix DEF parts
    <2>5. /\ ToSet(kept) # {} /\ ToSet(kept) \subseteq DOMAIN parts
          /\ n = 1 => Cardinality(ToSet(kept)) = 1
          /\ \A i \in ToSet(kept) : parts[i].score > 0 \/ parts[i].mentions
          /\ \A i \in ToSet(kept), j \in DOMAIN parts \ ToSet(kept) : parts[i].score >= parts[j].score
      BY <2>2, <2>4, PrefixIsBest
    <2>6. \A i \in DOMAIN parts : parts[i].bytes \in Nat
      <3>1. DOMAIN parts = 1 .. Len(parts) /\ Len(parts) \in Nat
        BY <2>2
      <3>2. \A i \in 1 .. Len(parts) : parts[i] \in Parts
        BY <2>2
      <3> QED
        BY <3>1, <3>2 DEF Parts
    <2>7. IsFiniteSet(DOMAIN parts)
      <3>1. DOMAIN parts = 1 .. Len(parts) /\ Len(parts) \in Nat
        BY <2>2
      <3> HIDE DEF parts
      <3> QED
        BY <3>1, Intervals
    <2>8. IsFiniteSet(ToSet(kept))
      BY <2>5, <2>7, FS_Subset
    <2> HIDE DEF parts, kept
    <2>9. bytes \in Nat /\ Total([i \in DOMAIN parts |-> parts[i].bytes]) \in Nat
      BY <2>5, <2>6, <2>7, <2>8, TotalNat
    <2>10. \A b \in Nat : Tokens(b) \in Int
      BY DEF Tokens, CeilDiv
    <2>11. size \in Int
      <3>1. Bytes(task.state.text) = Total([i \in DOMAIN parts |-> parts[i].bytes]) + task.state.text.blank
        BY DEF Bytes, parts
      <3>2. Bytes(task.state.text) \in Nat
        BY <2>2, <2>9, <3>1
      <3> QED
        BY <2>10, <3>2
    <2>12. Tokens(bytes) < size
      <3> HIDE DEF size, bytes
      <3> QED
        BY <2>3, <2>9, <2>10, <2>11
    <2> QED
      BY <2>3, <2>4, <2>5, <2>12 DEF parts
  <1> QED
    BY <1>1, EvidenceInvariant, PTL

-----------------------------------------------------------------------------
(* Lexical scores.                                                         *)

\* A text is a list of its own words.
IsText(text) == text \in Seq(ToSet(text))

\* Texts have a length, and so have the words left of them.
LEMMA TextIs ==
  /\ \A X : \A text \in Seq(X) : IsText(text)
  /\ \A text : IsText(text) => /\ Len(text) \in Nat /\ DOMAIN text = 1 .. Len(text)
                               /\ IsFiniteSet(DOMAIN text) /\ IsFiniteSet(ToSet(text))
  /\ \A text : IsText(text) => IsText(Tokenize(text))
  <1>1. ASSUME NEW X, NEW text \in Seq(X) PROVE IsText(text)
    <2>1. DOMAIN text = 1 .. Len(text) /\ Len(text) \in Nat
      OBVIOUS
    <2>2. \A i \in 1 .. Len(text) : text[i] \in ToSet(text)
      BY <2>1 DEF ToSet
    <2>3. text = [i \in 1 .. Len(text) |-> text[i]]
      OBVIOUS
    <2> QED
      BY <2>1, <2>2, <2>3 DEF IsText
  <1>2. ASSUME NEW text, IsText(text)
        PROVE  /\ Len(text) \in Nat /\ DOMAIN text = 1 .. Len(text)
               /\ IsFiniteSet(DOMAIN text) /\ IsFiniteSet(ToSet(text))
    <2>1. Len(text) \in Nat /\ DOMAIN text = 1 .. Len(text)
      BY <1>2 DEF IsText
    <2>2. IsFiniteSet(DOMAIN text)
      BY <2>1, Intervals
    <2>3. IsFiniteSet({text[i] : i \in DOMAIN text})
      BY <2>2, Images
    <2> QED
      BY <2>1, <2>2, <2>3 DEF ToSet
  <1>3. ASSUME NEW text, IsText(text) PROVE IsText(Tokenize(text))
    <2> DEFINE kept == {i \in DOMAIN text : text[i] \notin StopWords}
               n == Cardinality(kept)
               word(m) == text[CHOOSE i \in kept : Cardinality(kept \cap 1 .. i) = m]
               V == {word(m) : m \in 1 .. n}
    <2>1. n \in Nat
      <3>1. IsFiniteSet(DOMAIN text) /\ kept \subseteq DOMAIN text
        BY <1>2, <1>3
      <3> HIDE DEF kept
      <3> QED
        BY <3>1, FS_Subset, FS_CardinalityType
    <2>2. Tokenize(text) = [m \in 1 .. n |-> word(m)]
      BY DEF Tokenize
    <2> HIDE DEF n, word
    <2>3. Tokenize(text) \in [1 .. n -> V]
      BY <2>2
    <2> HIDE DEF V
    <2>4. Tokenize(text) \in Seq(V)
      BY <2>1, <2>3
    <2> QED
      BY <1>1, <2>4
  <1> QED
    BY <1>1, <1>2, <1>3

\* How often a word stands in a text is a number, positive when it does.
LEMMA FrequencyIs ==
  ASSUME NEW words, IsText(words), NEW term
  PROVE  Frequency(term, words) \in Nat /\ (term \in ToSet(words) => Frequency(term, words) > 0)
  <1> DEFINE F == {i \in DOMAIN words : words[i] = term}
  <1>1. IsFiniteSet(DOMAIN words) /\ F \subseteq DOMAIN words
    BY TextIs
  <1>2. IsFiniteSet(F) /\ Frequency(term, words) = Cardinality(F)
    <2>1. Frequency(term, words) = Cardinality(F)
      BY DEF Frequency
    <2> HIDE DEF F
    <2> QED
      BY <1>1, <2>1, FS_Subset
  <1>3. term \in ToSet(words) => F # {}
    BY DEF ToSet
  <1> HIDE DEF F
  <1>4. Cardinality(F) \in Nat /\ (F # {} => Cardinality(F) # 0)
    BY <1>2, FS_CardinalityType, FS_EmptySet
  <1> QED
    BY <1>2, <1>3, <1>4

\* An index of texts whose terms have weights.
IsIndex(index) ==
    /\ IsText(index.words)
    /\ \A i \in DOMAIN index.words : IsText(index.words[i])
    /\ \A seen \in 1 .. Len(index.words) : TermWeight(Len(index.words), seen) \in Nat

\* The lengths of the documents add up, to no less than that of any of them.
LEMMA AllWords ==
  ASSUME NEW index, IsIndex(index)
  PROVE  LET total == Added([i \in DOMAIN index.words |-> Len(index.words[i])])
         IN  total \in Nat /\ \A i \in DOMAIN index.words : Len(index.words[i]) <= total
  <1> DEFINE D == DOMAIN index.words
             f == [i \in D |-> Len(index.words[i])]
  <1>1. IsFiniteSet(D) /\ \A i \in D : f[i] \in Nat
    BY TextIs DEF IsIndex
  <1>2. \A i \in D : f[i] \in Int
    BY <1>1
  <1>3. Added(f) = SumFunctionOnSet(f, D)
    BY DEF Added, FoldFunction, SumFunctionOnSet
  <1>4. \A i \in D : f[i] = Len(index.words[i])
    OBVIOUS
  <1> HIDE DEF D, f
  <1>5. Added(f) \in Nat
    BY <1>1, <1>3, SumNat
  <1>6. ASSUME NEW i \in D PROVE f[i] <= Added(f)
    <2>1. SumFunctionOnSet(f, D) = f[i] + SumFunctionOnSet(f, D \ {i})
      BY <1>1, <1>2, SumSplit
    <2>2. IsFiniteSet(D \ {i}) /\ \A j \in D \ {i} : f[j] \in Nat
      BY <1>1, FS_RemoveElement
    <2>3. SumFunctionOnSet(f, D \ {i}) \in Nat
      BY <2>2, SumNat
    <2> QED
      BY <1>1, <1>3, <2>1, <2>3
  <1> QED
    BY <1>4, <1>5, <1>6 DEF D, f

\* The saturated frequency, of a term in a document of l of the t words in m
\* documents.
Saturation(tf, t, l, m) == (22000 * tf * t) \div (10 * tf * t + 3 * t + 9 * l * m)

LEMMA SaturationIs ==
  ASSUME NEW tf \in Nat, NEW t \in Nat, NEW l \in Nat, NEW m \in Nat, t > 0
  PROVE  Saturation(tf, t, l, m) \in Nat
  <1>1. tf * t \in Nat /\ l * m \in Nat
    OBVIOUS
  <1>2. 22000 * tf * t \in Nat /\ 10 * tf * t \in Nat /\ 9 * l * m \in Nat
    BY <1>1
  <1>3. PICK a \in Nat, b \in Nat, c \in Nat :
           a = 22000 * tf * t /\ b = 10 * tf * t /\ c = 9 * l * m
    BY <1>2
  <1>4. b + 3 * t + c \in Nat /\ b + 3 * t + c > 0
    OBVIOUS
  <1>5. PICK d \in Nat : d = b + 3 * t + c /\ d > 0
    BY <1>4
  <1>6. a \div d \in Nat
    BY <1>5
  <1>7. Saturation(tf, t, l, m) = a \div d
    BY <1>3, <1>5 DEF Saturation
  <1> QED
    BY <1>6, <1>7

\* The score of a document is a natural number: only terms it has are counted,
\* none against it, and its length is not zero when it has one.
LEMMA ScoreIsNumber ==
  ASSUME NEW index, IsIndex(index), NEW query, IsText(query), NEW i \in DOMAIN index.words
  PROVE  ScoreTerms(index, query, i) \in Nat
  <1> DEFINE document == index.words[i]
             terms == ToSet(query) \cap ToSet(document)
             n == Len(index.words)
             total == Added([j \in DOMAIN index.words |-> Len(index.words[j])])
             weight(term) == TermWeight(n, DocumentFrequency(index, term))
                             * SaturatedFrequency(index, Frequency(term, document), Len(document))
                             * Frequency(term, query)
             f == [term \in terms |-> weight(term)]
  <1>1. n \in Nat /\ IsText(document) /\ Len(document) \in Nat /\ total \in Nat /\ Len(document) <= total
    BY AllWords, TextIs DEF IsIndex
  <1>2. IsFiniteSet(terms)
    <2>1. IsFiniteSet(ToSet(query))
      BY TextIs
    <2> QED
      BY <2>1, FS_Intersection
  <1>3. ASSUME NEW term \in terms PROVE weight(term) \in Nat
    <2>1. Frequency(term, query) \in Nat /\ Frequency(term, document) \in Nat
      BY <1>1, FrequencyIs
    <2>2. total > 0
      <3>1. PICK k \in DOMAIN document : term = document[k]
        BY DEF ToSet
      <3>2. DOMAIN document = 1 .. Len(document)
        BY <1>1, TextIs
      <3> HIDE DEF document, total
      <3>3. Len(document) > 0
        BY <1>1, <3>1, <3>2
      <3> QED
        BY <1>1, <3>3
    <2>3. SaturatedFrequency(index, Frequency(term, document), Len(document)) \in Nat
      <3>2. PICK tf, l : tf = Frequency(term, document) /\ l = Len(document)
        OBVIOUS
      <3>3. SaturatedFrequency(index, tf, l)
               = Saturation(tf, total, l, n)
        BY DEF SaturatedFrequency, Saturation
      <3>4. tf \in Nat /\ l \in Nat /\ total \in Nat /\ n \in Nat
        BY <1>1, <2>1, <3>2
      <3> HIDE DEF document, total, n
      <3>5. SaturatedFrequency(index, tf, l) \in Nat
        BY <2>2, <3>3, <3>4, SaturationIs
      <3> QED
        BY <3>2, <3>5
    <2>4. TermWeight(n, DocumentFrequency(index, term)) \in Nat
      <3> DEFINE having == {j \in DOMAIN index.words : Frequency(term, index.words[j]) > 0}
      <3>1. DOMAIN index.words = 1 .. n /\ IsFiniteSet(1 .. n) /\ Cardinality(1 .. n) = n
        BY <1>1, TextIs, Intervals DEF IsIndex
      <3>2. having \subseteq 1 .. n /\ i \in having
        BY <1>1, <3>1, FrequencyIs
      <3>3. DocumentFrequency(index, term) = Cardinality(having)
        BY DEF DocumentFrequency
      <3> HIDE DEF having, n
      <3>4. IsFiniteSet(having) /\ Cardinality(having) \in Nat /\ Cardinality(having) <= n
        BY <3>1, <3>2, FS_Subset, FS_CardinalityType
      <3>5. Cardinality(having) # 0
        BY <3>2, <3>4, FS_EmptySet
      <3>6. Cardinality(having) \in 1 .. n
        BY <1>1, <3>4, <3>5
      <3> QED
        BY <3>3, <3>6 DEF IsIndex, n
    <2>5. \A a, b, c \in Nat : a * b * c \in Nat
      OBVIOUS
    <2> HIDE DEF document, n
    <2> QED
      BY <2>1, <2>3, <2>4, <2>5
  <1>4. \A term \in terms : f[term] \in Nat
    BY <1>3
  <1>5. ScoreTerms(index, query, i) = Added(f) \div 1000
    BY DEF ScoreTerms
  <1>6. Added(f) = SumFunctionOnSet(f, terms)
    BY DEF Added, FoldFunction, SumFunctionOnSet
  <1> HIDE DEF f, terms
  <1>7. SumFunctionOnSet(f, terms) \in Nat
    BY <1>2, <1>4, SumNat
  <1> QED
    BY <1>5, <1>6, <1>7

\* The highest of some scores is one of them.
LEMMA HighestIs ==
  ASSUME NEW D, IsFiniteSet(D), D # {}, NEW f \in [D -> Int]
  PROVE  /\ Highest(f) \in Int /\ \E i \in D : f[i] = Highest(f)
         /\ \A i \in D : f[i] <= Highest(f)
  <1> DEFINE V == {f[i] : i \in D}
  <1>1. V \in SUBSET Int /\ V # {} /\ Highest(f) = Max(V) /\ \A i \in D : f[i] \in V
    BY DEF Highest
  <1>2. IsFiniteSet(V)
    BY Images
  <1>3. Max(V) \in V /\ \A y \in V : y <= Max(V)
    <2> HIDE DEF V
    <2> QED
      BY <1>1, <1>2, MaxIs
  <1>4. \E i \in D : f[i] = Max(V)
    BY <1>3
  <1> HIDE DEF V
  <1> QED
    BY <1>1, <1>3, <1>4

\* Bounding scores keeps the best where it is and the others within the cap.
LEMMA BoundedIs ==
  ASSUME NEW D, IsFiniteSet(D), NEW raw \in [D -> Nat]
  PROVE  /\ Bounded(raw) \in [D -> Int]
         /\ \A i, j \in D : Bounded(raw)[i] - Bounded(raw)[j] <= Cap
         /\ BestOf(Bounded(raw)) = BestOf(raw)
  <1> DEFINE top == Highest(raw)
             low(i) == Cap - Min({top - raw[i], Cap})
  <1>0. Cap \in Nat \ {0}
    BY LexicalAssumption
  <1>1. CASE D = {}
    <2>1. Bounded(raw) = raw
      BY <1>1 DEF Bounded
    <2> QED
      BY <1>1, <2>1
  <1>2. CASE D # {}
    <2>1. top \in Int /\ (\E i \in D : raw[i] = top) /\ \A i \in D : raw[i] <= top
      <3>1. raw \in [D -> Int]
        OBVIOUS
      <3> QED
        BY <1>2, <3>1, HighestIs
    <2> HIDE DEF top
    <2>2. CASE top <= Cap
      <3>1. Bounded(raw) = raw
        BY <2>2 DEF Bounded, top
      <3>2. \A i, j \in D : raw[i] - raw[j] <= Cap
        <4> TAKE i, j \in D
        <4>1. raw[i] \in Nat /\ raw[j] \in Nat /\ raw[i] <= top
          BY <2>1
        <4> QED
          BY <1>0, <2>1, <2>2, <4>1
      <3> QED
        BY <3>1, <3>2
    <2>3. CASE ~(top <= Cap)
      <3>1. Bounded(raw) = [i \in D |-> low(i)]
        BY <2>3 DEF Bounded, top
      <3>2. ASSUME NEW x \in Int PROVE Min({x, Cap}) = IF x <= Cap THEN x ELSE Cap
        BY <1>0 DEF Min
      <3>3. ASSUME NEW i \in D
            PROVE  low(i) \in 0 .. Cap /\ (low(i) = Cap <=> raw[i] = top)
        <4>1. raw[i] \in Nat /\ raw[i] <= top /\ top - raw[i] \in Nat
          BY <2>1
        <4>2. low(i) = Cap - (IF top - raw[i] <= Cap THEN top - raw[i] ELSE Cap)
          BY <3>2, <4>1
        <4> HIDE DEF low
        <4> QED
          BY <1>0, <2>1, <4>1, <4>2
      <3>4. Bounded(raw) \in [D -> Int] /\ \A i \in D : Bounded(raw)[i] = low(i)
        BY <3>1, <3>3
      <3> HIDE DEF low
      <3>5. ASSUME NEW i \in D, NEW j \in D PROVE Bounded(raw)[i] - Bounded(raw)[j] <= Cap
        BY <1>0, <3>3, <3>4
      <3>6. Highest(Bounded(raw)) = Cap
        <4>1. PICK i \in D : Bounded(raw)[i] = Highest(Bounded(raw))
          BY <1>2, <3>4, HighestIs
        <4>2. PICK j \in D : raw[j] = top
          BY <2>1
        <4>3. Bounded(raw)[j] <= Highest(Bounded(raw)) /\ Highest(Bounded(raw)) \in Int
          BY <1>2, <3>4, HighestIs
        <4>4. Bounded(raw)[i] \in 0 .. Cap /\ Bounded(raw)[j] = Cap
          BY <3>3, <3>4, <4>2
        <4> QED
          BY <1>0, <4>1, <4>3, <4>4
      <3>7. {i \in D : Bounded(raw)[i] = Highest(Bounded(raw))} = {i \in D : raw[i] = top}
        BY <3>3, <3>4, <3>6
      <3>8. DOMAIN raw = D /\ DOMAIN Bounded(raw) = D
        BY <3>4
      <3>9. BestOf(Bounded(raw)) = BestOf(raw)
        BY <3>7, <3>8 DEF BestOf, top
      <3> QED
        BY <3>4, <3>5, <3>9
    <2> QED
      BY <2>2, <2>3
  <1> QED
    BY <1>1, <1>2

\* An index built over texts is one, when the terms have weights.
LEMMA BuiltIndex ==
  ASSUME NEW documents, IsText(documents), \A i \in DOMAIN documents : IsText(documents[i]),
         \A seen \in 1 .. Len(documents) : TermWeight(Len(documents), seen) \in Nat
  PROVE  /\ IsIndex(Bm25Index(documents))
         /\ DOMAIN Bm25Index(documents).words = DOMAIN documents
         /\ Bm25Index(documents).words = [i \in DOMAIN documents |-> Tokenize(documents[i])]
  <1> DEFINE words == [i \in DOMAIN documents |-> Tokenize(documents[i])]
             n == Len(documents)
  <1>1. Bm25Index(documents).words = words
    BY DEF Bm25Index
  <1>2. n \in Nat /\ DOMAIN documents = 1 .. n
    BY TextIs
  <1>3. \A i \in DOMAIN documents : IsText(words[i])
    BY TextIs
  <1>4. words = [i \in 1 .. n |-> words[i]]
    BY <1>2
  <1> HIDE DEF words, n
  <1>5. IsText(words) /\ Len(words) = n /\ DOMAIN words = 1 .. n
    <2>1. words \in Seq({words[i] : i \in 1 .. n}) /\ Len(words) = n /\ DOMAIN words = 1 .. n
      BY <1>2, <1>4
    <2> QED
      BY <2>1, TextIs
  <1> QED
    BY <1>1, <1>2, <1>3, <1>5 DEF IsIndex, words, n

\* The scores of all documents are natural numbers.
LEMMA ScoresAreNumbers ==
  ASSUME NEW index, IsIndex(index), NEW query, IsText(query)
  PROVE  /\ ScoreAll(index, query) \in [DOMAIN index.words -> Nat]
         /\ IsFiniteSet(DOMAIN index.words)
  <1>1. IsText(Tokenize(query)) /\ IsFiniteSet(DOMAIN index.words)
    BY TextIs DEF IsIndex
  <1>2. \A i \in DOMAIN index.words : ScoreTerms(index, Tokenize(query), i) \in Nat
    BY <1>1, ScoreIsNumber
  <1> QED
    BY <1>1, <1>2 DEF ScoreAll

\* What a scoring is about: texts, and weights for its terms.
Documents(s) == [i \in DOMAIN s.candidates |-> s.candidates[i].words]

Listing == [id : Nat, words : Seq(STRING)]
Fields == {"mode", "text", "state", "candidates", "prebuilt", "lost"}

LEMMA ScoringIs ==
  ASSUME NEW s \in Scorings
  PROVE  /\ s.text \in Seq(STRING) /\ s.state \in Seq(STRING) /\ s.candidates \in Seq(Listing)
         /\ s.prebuilt \in {Unbuilt} \cup [built : {TRUE}, words : Seq(Seq(STRING))]
         /\ s.mode \in {"choice", "score", "boolean", "rerank", "rerank_embedding"}
         /\ DOMAIN s = Fields
  <1> DEFINE B == {Unbuilt} \cup [built : {TRUE}, words : Seq(Seq(STRING))]
             M == {"choice", "score", "boolean", "rerank", "rerank_embedding"}
             T == Seq(STRING)
             L == Seq(Listing)
  <1>1. s \in [mode : M, text : T, state : T, candidates : L, prebuilt : B, lost : Nat]
    BY TaskAssumption DEF Listing
  <1> HIDE DEF B, M, T, L
  <1>2. /\ s.text \in T /\ s.state \in T /\ s.candidates \in L /\ s.prebuilt \in B /\ s.mode \in M
        /\ DOMAIN s = Fields
    BY <1>1 DEF Fields
  <1> QED
    BY <1>2 DEF B, M, T, L

LEMMA ScoringTexts ==
  ASSUME NEW s \in Scorings
  PROVE  /\ IsText(s.text) /\ IsText(s.state) /\ IsText(QueryFor(s.state, s.text))
         /\ IsText(Documents(s)) /\ Len(Documents(s)) = Len(s.candidates)
         /\ DOMAIN Documents(s) = DOMAIN s.candidates
         /\ DOMAIN s.candidates = 1 .. Len(s.candidates) /\ Len(s.candidates) \in Nat
         /\ \A i \in DOMAIN s.candidates : IsText(s.candidates[i].words)
         /\ \A i \in DOMAIN Documents(s) : IsText(Documents(s)[i])
         /\ s.prebuilt.built => /\ IsText(s.prebuilt.words)
                                /\ \A i \in DOMAIN s.prebuilt.words : IsText(s.prebuilt.words[i])
         /\ \A n \in {1, Len(s.candidates)} : \A seen \in 1 .. n : TermWeight(n, seen) \in Nat
  <1> DEFINE C == [id : Nat, words : Seq(STRING)]
             n == Len(s.candidates)
  <1>1. /\ s.text \in Seq(STRING) /\ s.state \in Seq(STRING) /\ s.candidates \in Seq(C)
        /\ s.prebuilt.built => s.prebuilt.words \in Seq(Seq(STRING))
        /\ \A k \in {1, n} : \A seen \in 1 .. k : TermWeight(k, seen) \in Nat
    <2>1. /\ s.text \in Seq(STRING) /\ s.state \in Seq(STRING) /\ s.candidates \in Seq(C)
          /\ s.prebuilt \in {Unbuilt} \cup [built : {TRUE}, words : Seq(Seq(STRING))]
      BY ScoringIs DEF C, Listing
    <2>2. s.prebuilt.built => s.prebuilt.words \in Seq(Seq(STRING))
      <3> DEFINE W == Seq(Seq(STRING))
      <3>1. s.prebuilt = [built |-> FALSE] \/ s.prebuilt \in [built : {TRUE}, words : W]
        BY <2>1 DEF Unbuilt
      <3> HIDE DEF W
      <3>2. s.prebuilt = [built |-> FALSE] => ~s.prebuilt.built
        OBVIOUS
      <3>3. s.prebuilt \in [built : {TRUE}, words : W] => s.prebuilt.words \in W
        OBVIOUS
      <3> QED
        BY <3>1, <3>2, <3>3 DEF W
    <2>3. \A k \in {1, n} : \A seen \in 1 .. k : TermWeight(k, seen) \in Nat
      BY TaskAssumption
    <2> QED
      BY <2>1, <2>2, <2>3
  <1>2. QueryFor(s.state, s.text) \in Seq(STRING)
    BY <1>1 DEF QueryFor
  <1>3. DOMAIN s.candidates = 1 .. n /\ n \in Nat
    BY <1>1
  <1>4. \A i \in 1 .. n : s.candidates[i] \in C
    <2> HIDE DEF C
    <2> QED
      BY <1>1
  <1>5. \A i \in 1 .. n : s.candidates[i].words \in Seq(STRING)
    BY <1>4
  <1>6. Documents(s) = [i \in 1 .. n |-> s.candidates[i].words]
    BY <1>3 DEF Documents
  <1>7. Documents(s) \in [1 .. n -> Seq(STRING)]
    <2> HIDE DEF n
    <2> QED
      BY <1>5, <1>6
  <1>8. Documents(s) \in Seq(Seq(STRING)) /\ Len(Documents(s)) = n /\ DOMAIN Documents(s) = 1 .. n
    <2> HIDE DEF n
    <2> QED
      BY <1>3, <1>7
  <1>9. \A i \in 1 .. n : Documents(s)[i] \in Seq(STRING)
    BY <1>7
  <1>10. s.prebuilt.built => \A i \in DOMAIN s.prebuilt.words : s.prebuilt.words[i] \in Seq(STRING)
    <2> SUFFICES ASSUME s.prebuilt.built, NEW i \in DOMAIN s.prebuilt.words
                 PROVE  s.prebuilt.words[i] \in Seq(STRING)
      OBVIOUS
    <2>1. s.prebuilt.words \in Seq(Seq(STRING))
      BY <1>1
    <2>2. DOMAIN s.prebuilt.words = 1 .. Len(s.prebuilt.words)
      BY <2>1
    <2> QED
      BY <2>1, <2>2
  <1> HIDE DEF C, n
  <1>11. IsText(s.text) /\ IsText(s.state) /\ IsText(QueryFor(s.state, s.text)) /\ IsText(Documents(s))
    BY <1>1, <1>2, <1>8, TextIs
  <1>12. \A i \in 1 .. n : IsText(s.candidates[i].words) /\ IsText(Documents(s)[i])
    BY <1>5, <1>9, TextIs
  <1>13. s.prebuilt.built => /\ IsText(s.prebuilt.words)
                             /\ \A i \in DOMAIN s.prebuilt.words : IsText(s.prebuilt.words[i])
    BY <1>1, <1>10, TextIs
  <1> QED
    BY <1>1, <1>3, <1>8, <1>11, <1>12, <1>13 DEF n

\* Of every scoring the scores are bounded, and in the order in which they were
\* unless a negation swaps them.
LEMMA ScoredIs ==
  ASSUME NEW s \in Scorings, ScoringOf(s).kind = "scored"
  PROVE  LET a == ScoringOf(s)
         IN  /\ \A i, j \in DOMAIN a.scores : a.scores[i] - a.scores[j] <= Cap
             /\ s.mode # "boolean" => BestOf(a.scores) = BestOf(a.raw)
  <1> DEFINE a == ScoringOf(s)
             query == QueryFor(s.state, s.text)
             D == Documents(s)
  <1>1. s.mode \in {"choice", "score", "boolean"}
    BY ScoringKinds, TaskAssumption
  <1>2. ASSUME NEW index, IsIndex(index), NEW q, IsText(q), NEW c
        PROVE  LET b == Scored(ScoreAll(index, q), c)
               IN  /\ \A i, j \in DOMAIN b.scores : b.scores[i] - b.scores[j] <= Cap
                   /\ BestOf(b.scores) = BestOf(b.raw)
    <2> DEFINE raw == ScoreAll(index, q)
    <2>1. Scored(raw, c).scores = Bounded(raw) /\ Scored(raw, c).raw = raw
      BY DEF Scored
    <2>2. raw \in [DOMAIN index.words -> Nat] /\ IsFiniteSet(DOMAIN index.words)
      BY <1>2, ScoresAreNumbers
    <2> HIDE DEF raw
    <2>3. /\ Bounded(raw) \in [DOMAIN index.words -> Int] /\ BestOf(Bounded(raw)) = BestOf(raw)
          /\ \A i, j \in DOMAIN index.words : Bounded(raw)[i] - Bounded(raw)[j] <= Cap
      BY <2>2, BoundedIs
    <2>4. DOMAIN Bounded(raw) = DOMAIN index.words
      BY <2>3
    <2> QED
      BY <2>1, <2>3, <2>4 DEF raw
  <1>3. CASE s.mode = "choice"
    <2> DEFINE index == IndexFor(D, s.prebuilt)
    <2>1. IsIndex(index)
      <3>1. CASE s.prebuilt.built /\ Len(s.prebuilt.words) = Len(D)
        <4>1. index = s.prebuilt
          BY <3>1 DEF IndexFor
        <4> QED
          BY <3>1, <4>1, ScoringTexts DEF IsIndex
      <3>2. CASE ~(s.prebuilt.built /\ Len(s.prebuilt.words) = Len(D))
        <4>1. index = Bm25Index(D)
          BY <3>2 DEF IndexFor
        <4>2. IsIndex(Bm25Index(D))
          BY ScoringTexts, BuiltIndex
        <4> QED
          BY <4>1, <4>2
      <3> QED
        BY <3>1, <3>2
    <2>2. a = Scored(ScoreAll(index, query), Coverage(index, BestOf(Bounded(ScoreAll(index, query))), query))
      BY <1>3 DEF ScoringOf, LexicalChoice, Documents
    <2> HIDE DEF index, query, a
    <2> QED
      BY <1>2, <2>1, <2>2, ScoringTexts DEF query, a
  <1>4. CASE s.mode = "score"
    <2> DEFINE index == Bm25Index(D)
    <2>1. IsIndex(index)
      BY ScoringTexts, BuiltIndex
    <2>2. a = Scored(ScoreAll(index, query), Coverage(index, BestOf(Bounded(ScoreAll(index, query))), query))
      BY <1>4 DEF ScoringOf, LexicalLevels, Documents
    <2> HIDE DEF index, query, a
    <2> QED
      BY <1>2, <2>1, <2>2, ScoringTexts DEF query, a
  <1>5. CASE s.mode = "boolean"
    <2> DEFINE index == Bm25Index(<<s.text>>)
               raw == <<ScoreAll(index, s.state)[1], 0>>
    <2>1. IsIndex(index) /\ 1 \in DOMAIN index.words
      <3>1. IsText(s.text)
        BY ScoringTexts
      <3>2. <<s.text>> \in Seq({s.text}) /\ Len(<<s.text>>) = 1 /\ DOMAIN <<s.text>> = 1 .. 1
            /\ <<s.text>>[1] = s.text
        OBVIOUS
      <3>3. PICK d : d = <<s.text>>
        OBVIOUS
      <3>4. IsText(d) /\ \A i \in DOMAIN d : IsText(d[i])
        <4>1. DOMAIN d = {1} /\ d[1] = s.text
          BY <3>2, <3>3
        <4>2. IsText(d)
          BY <3>2, <3>3, TextIs
        <4> QED
          BY <3>1, <4>1, <4>2
      <3>5. \A seen \in 1 .. 1 : TermWeight(1, seen) \in Nat
        BY ScoringTexts
      <3>6. Len(d) = 1 /\ 1 \in DOMAIN d
        BY <3>2, <3>3
      <3>7. IsIndex(Bm25Index(d)) /\ DOMAIN Bm25Index(d).words = DOMAIN d
        BY <3>4, <3>5, <3>6, BuiltIndex
      <3> QED
        BY <3>3, <3>6, <3>7
    <2>2. ScoreAll(index, s.state)[1] \in Nat
      <3>1. ScoreAll(index, s.state) \in [DOMAIN index.words -> Nat]
        BY <2>1, ScoringTexts, ScoresAreNumbers
      <3> HIDE DEF index
      <3> QED
        BY <2>1, <3>1
    <2> HIDE DEF index
    <2>3. raw \in [1 .. 2 -> Nat]
      BY <2>2
    <2> HIDE DEF raw
    <2>4. /\ Bounded(raw) \in [1 .. 2 -> Int]
          /\ \A i, j \in 1 .. 2 : Bounded(raw)[i] - Bounded(raw)[j] <= Cap
      <3>1. IsFiniteSet(1 .. 2)
        BY Intervals
      <3> QED
        BY <2>3, <3>1, BoundedIs
    <2>5. a.scores = Bounded(raw) \/ a.scores = Reverse(Bounded(raw))
      BY <1>5 DEF a, ScoringOf, LexicalBoolean, Scored, raw, index
    <2>6. Bounded(raw) \in Seq(Int) /\ Len(Bounded(raw)) = 2
      <3>1. PICK k, b : k \in Nat /\ k = 2 /\ b = Bounded(raw)
        OBVIOUS
      <3>2. k \in Nat /\ b \in [1 .. k -> Int]
        BY <2>4, <3>1
      <3>3. b \in Seq(Int) /\ Len(b) = k
        BY <3>2
      <3> QED
        BY <3>1, <3>3
    <2>7. Reverse(Bounded(raw)) = [i \in 1 .. 2 |-> Bounded(raw)[(2 - i) + 1]]
      BY <2>6 DEF Reverse
    <2>8. /\ DOMAIN a.scores = 1 .. 2
          /\ \A i \in 1 .. 2 : \E k \in 1 .. 2 : a.scores[i] = Bounded(raw)[k]
      <3>1. CASE a.scores = Bounded(raw)
        BY <2>4, <3>1
      <3>2. CASE a.scores = Reverse(Bounded(raw))
        <4>1. \A i \in 1 .. 2 : (2 - i) + 1 \in 1 .. 2
          OBVIOUS
        <4> QED
          BY <2>7, <3>2, <4>1
      <3> QED
        BY <2>5, <3>1, <3>2
    <2> HIDE DEF a
    <2> QED
      BY <1>5, <2>4, <2>8 DEF a
  <1> QED
    BY <1>1, <1>3, <1>4, <1>5

\* lexical.rs "term overlap can never certify better than 99:1 odds.
\* Order-preserving": for every text, every list of candidates and every index.
THEOREM OddsAreBounded == Spec => []LexicalOddsBounded
  <1>1. EvidenceInv => LexicalOddsBounded
    <2> SUFFICES ASSUME EvidenceInv, answer.kind = "scored"
                 PROVE  /\ \A i, j \in DOMAIN answer.scores : answer.scores[i] - answer.scores[j] <= Cap
                        /\ task.scoring.mode # "boolean" => BestOf(answer.scores) = BestOf(answer.raw)
      BY DEF LexicalOddsBounded
    <2>1. task.kind = "score" /\ answer = ScoringOf(task.scoring) /\ task.scoring \in Scorings
      BY DEF EvidenceInv, IsAnswer, IsTask, Pending, Failed
    <2> QED
      BY <2>1, ScoredIs
  <1> QED
    BY <1>1, EvidenceInvariant, PTL

-----------------------------------------------------------------------------
(* The order in which candidates are listed.                               *)

\* p gives each member of S one name in R.
Renames(p, R, S) ==
    /\ p \in [R -> S]
    /\ \A i, j \in R : p[i] = p[j] => i = j
    /\ \A x \in S : \E i \in R : p[i] = x

\* There are as many names as there are members named.
LEMMA CountRenamed ==
  ASSUME NEW S, IsFiniteSet(S), NEW R, NEW p, Renames(p, R, S), NEW A \in SUBSET S
  PROVE  /\ IsFiniteSet({i \in R : p[i] \in A})
         /\ Cardinality({i \in R : p[i] \in A}) = Cardinality(A)
  <1> DEFINE B == {i \in R : p[i] \in A}
             g == [i \in B |-> p[i]]
  <1>1. IsFiniteSet(A)
    BY FS_Subset
  <1>2. g \in Injection(B, A) /\ g \in Surjection(B, A)
    BY DEF Renames, Injection, Surjection, IsInjective
  <1> HIDE DEF g, B
  <1>3. IsFiniteSet(B) /\ Cardinality(B) = Cardinality(A)
    BY <1>1, <1>2, FS_Injection
  <1> QED
    BY <1>3 DEF B

\* The score of a document depends on it and on the other documents, not on their
\* order.
LEMMA ScoreRenamed ==
  ASSUME NEW x, IsIndex(x), NEW y, IsIndex(y), NEW p, Renames(p, DOMAIN y.words, DOMAIN x.words),
         \A i \in DOMAIN y.words : y.words[i] = x.words[p[i]],
         NEW query, NEW i \in DOMAIN y.words
  PROVE  ScoreTerms(y, query, i) = ScoreTerms(x, query, p[i])
  <1> DEFINE S == DOMAIN x.words
             R == DOMAIN y.words
             f == [j \in S |-> Len(x.words[j])]
             h == [j \in R |-> Len(y.words[j])]
  <1>1. IsFiniteSet(S) /\ IsFiniteSet(R) /\ \A j \in R : p[j] \in S
    BY TextIs DEF IsIndex, Renames
  <1>2. Len(x.words) = Len(y.words)
    <2>1. Cardinality({j \in R : p[j] \in S}) = Cardinality(S) /\ {j \in R : p[j] \in S} = R
      BY <1>1, CountRenamed
    <2>2. /\ Cardinality(S) = Len(x.words) /\ Cardinality(R) = Len(y.words)
      <3>1. /\ S = 1 .. Len(x.words) /\ Len(x.words) \in Nat
            /\ R = 1 .. Len(y.words) /\ Len(y.words) \in Nat
        BY TextIs DEF IsIndex
      <3> HIDE DEF S, R
      <3> QED
        BY <3>1, Intervals
    <2> QED
      BY <2>1, <2>2
  <1>3. \A term : DocumentFrequency(y, term) = DocumentFrequency(x, term)
    <2> TAKE term
    <2> DEFINE A == {j \in S : Frequency(term, x.words[j]) > 0}
    <2>1. {j \in R : p[j] \in A} = {j \in R : Frequency(term, y.words[j]) > 0}
      BY <1>1
    <2>2. Cardinality({j \in R : p[j] \in A}) = Cardinality(A)
      BY <1>1, CountRenamed
    <2> QED
      BY <2>1, <2>2 DEF DocumentFrequency
  <1>4. Added(h) = Added(f)
    <2>1. Added(f) = SumFunctionOnSet(f, S) /\ Added(h) = SumFunctionOnSet(h, R)
      BY DEF Added, FoldFunction, SumFunctionOnSet
    <2>2. \A j \in S : f[j] \in Int
      BY TextIs DEF IsIndex
    <2>3. \A j \in R : h[j] = f[p[j]]
      BY <1>1
    <2>4. /\ p \in [R -> S] /\ \A j, k \in R : p[j] = p[k] => j = k
          /\ \A z \in S : \E j \in R : p[j] = z
      BY DEF Renames
    <2> HIDE DEF f, h, S, R
    <2>5. SumFunctionOnSet(h, R) = SumFunctionOnSet(f, S)
      BY <1>1, <2>2, <2>3, <2>4, SumReindex
    <2> QED
      BY <2>1, <2>5
  <1>5. \A tf, l : SaturatedFrequency(y, tf, l) = SaturatedFrequency(x, tf, l)
    BY <1>2, <1>4 DEF SaturatedFrequency
  <1>6. y.words[i] = x.words[p[i]]
    OBVIOUS
  <1> DEFINE w(index, document, term) ==
               TermWeight(Len(index.words), DocumentFrequency(index, term))
               * SaturatedFrequency(index, Frequency(term, document), Len(document))
               * Frequency(term, query)
             terms(document) == ToSet(query) \cap ToSet(document)
  <1>7. \A document, term : w(y, document, term) = w(x, document, term)
    BY <1>2, <1>3, <1>5
  <1>8. \A document : [term \in terms(document) |-> w(y, document, term)]
                        = [term \in terms(document) |-> w(x, document, term)]
    <2> HIDE DEF w, terms
    <2> QED
      BY <1>7
  <1>9. /\ ScoreTerms(y, query, i) = Added([term \in terms(y.words[i]) |-> w(y, y.words[i], term)]) \div 1000
        /\ ScoreTerms(x, query, p[i]) = Added([term \in terms(x.words[p[i]]) |-> w(x, x.words[p[i]], term)]) \div 1000
    BY DEF ScoreTerms
  <1> HIDE DEF w, terms
  <1> QED
    BY <1>6, <1>8, <1>9

\* Candidates with unique ids, and a score for each.
Listed(c, v) ==
    /\ c \in Seq(Listing)
    /\ \A i, j \in DOMAIN c : c[i].id = c[j].id => i = j
    /\ v \in [DOMAIN c -> Int]

AheadOf(c, v, i) == {j \in DOMAIN c : \/ v[j] > v[i]
                                      \/ v[j] = v[i] /\ c[j].id < c[i].id}

\* Each place of the ranking belongs to one candidate.
LEMMA PlacesAreTaken ==
  ASSUME NEW c, NEW v, Listed(c, v)
  PROVE  /\ \A n \in 1 .. Len(c) : \E i \in DOMAIN c : Cardinality(AheadOf(c, v, i)) = n - 1
         /\ \A i, j \in DOMAIN c : Cardinality(AheadOf(c, v, i)) = Cardinality(AheadOf(c, v, j)) => i = j
         /\ IsFiniteSet(DOMAIN c)
  <1> DEFINE S == DOMAIN c
             R == {e \in S \X S : v[e[1]] > v[e[2]] \/ (v[e[1]] = v[e[2]] /\ c[e[1]].id < c[e[2]].id)}
  <1>1. S = 1 .. Len(c) /\ Len(c) \in Nat
    BY DEF Listed
  <1>2. \A i \in S : v[i] \in Int /\ c[i].id \in Nat
    <2>1. \A i \in 1 .. Len(c) : c[i] \in Listing
      BY DEF Listed
    <2> QED
      BY <1>1, <2>1 DEF Listed, Listing
  <1>3. \A i, j \in S : c[i].id = c[j].id => i = j
    BY DEF Listed
  <1>4. IsFiniteSet(S) /\ Cardinality(S) = Len(c)
    <2> HIDE DEF S
    <2> QED
      BY <1>1, Intervals
  <1> HIDE DEF S
  <1>5. \A i, j \in S : <<i, j>> \in R <=> v[i] > v[j] \/ (v[i] = v[j] /\ c[i].id < c[j].id)
    OBVIOUS
  <1> HIDE DEF R
  <1>6. Ordered(S, R)
    <2>1. \A i \in S : <<i, i>> \notin R
      BY <1>2, <1>5
    <2>2. \A i, j, k \in S : <<i, j>> \in R /\ <<j, k>> \in R => <<i, k>> \in R
      BY <1>2, <1>5
    <2>3. \A i, j \in S : i # j => <<i, j>> \in R \/ <<j, i>> \in R
      BY <1>2, <1>3, <1>5
    <2> QED
      BY <2>1, <2>2, <2>3 DEF Ordered
  <1>7. \A i \in S : InFront(S, R, i) = AheadOf(c, v, i)
    BY <1>5 DEF InFront, AheadOf, S
  <1>8. /\ \A a, b \in S : Cardinality(InFront(S, R, a)) = Cardinality(InFront(S, R, b)) => a = b
        /\ \A i \in 1 .. Cardinality(S) : \E a \in S : Cardinality(InFront(S, R, a)) = i - 1
    BY <1>4, <1>6, Ranks
  <1> QED
    BY <1>4, <1>7, <1>8 DEF S

\* The ranking of renamed candidates names the same ids in the same order.
LEMMA RankedRenamed ==
  ASSUME NEW c, NEW v, Listed(c, v), NEW d, NEW u, Listed(d, u), Len(c) = Len(d),
         NEW p, Renames(p, DOMAIN d, DOMAIN c),
         \A i \in DOMAIN d : d[i] = c[p[i]] /\ u[i] = v[p[i]]
  PROVE  Ranked(d, u) = Ranked(c, v)
  <1> DEFINE nth(e, w, n) == CHOOSE i \in DOMAIN e : Cardinality(AheadOf(e, w, i)) = n - 1
  <1>1. \A e, w : Ranked(e, w) = [kind |-> "ranked", ids |-> [n \in 1 .. Len(e) |-> e[nth(e, w, n)].id]]
    BY DEF Ranked, AheadOf
  <1>2. IsFiniteSet(DOMAIN c) /\ \A i \in DOMAIN d : p[i] \in DOMAIN c
    BY PlacesAreTaken DEF Renames
  <1>3. ASSUME NEW i \in DOMAIN d
        PROVE  Cardinality(AheadOf(d, u, i)) = Cardinality(AheadOf(c, v, p[i]))
    <2> DEFINE A == AheadOf(c, v, p[i])
    <2>1. A \in SUBSET DOMAIN c
      BY DEF AheadOf
    <2>2. {j \in DOMAIN d : p[j] \in A} = AheadOf(d, u, i)
      BY <1>2 DEF AheadOf
    <2> HIDE DEF A
    <2>3. Cardinality({j \in DOMAIN d : p[j] \in A}) = Cardinality(A)
      <3>1. PICK S, R, B : S = DOMAIN c /\ R = DOMAIN d /\ B = A
        OBVIOUS
      <3>2. IsFiniteSet(S) /\ Renames(p, R, S) /\ B \in SUBSET S
        BY <1>2, <2>1, <3>1
      <3>3. Cardinality({j \in R : p[j] \in B}) = Cardinality(B)
        <4> HIDE <3>1
        <4> QED
          BY <3>2, CountRenamed
      <3> QED
        BY <3>1, <3>3
    <2> QED
      BY <2>2, <2>3 DEF A
  <1>4. ASSUME NEW n \in 1 .. Len(c) PROVE d[nth(d, u, n)].id = c[nth(c, v, n)].id
    <2>1. nth(d, u, n) \in DOMAIN d /\ Cardinality(AheadOf(d, u, nth(d, u, n))) = n - 1
      BY PlacesAreTaken
    <2>2. nth(c, v, n) \in DOMAIN c /\ Cardinality(AheadOf(c, v, nth(c, v, n))) = n - 1
      BY PlacesAreTaken
    <2> HIDE DEF nth
    <2>3. p[nth(d, u, n)] = nth(c, v, n)
      BY <1>2, <1>3, <2>1, <2>2, PlacesAreTaken
    <2> QED
      BY <2>1, <2>3
  <1> HIDE DEF nth
  <1>5. [n \in 1 .. Len(d) |-> d[nth(d, u, n)].id] = [n \in 1 .. Len(c) |-> c[nth(c, v, n)].id]
    BY <1>4
  <1> QED
    BY <1>1, <1>5

\* A cosine is a whole number.
LEMMA CosineIsNumber ==
  ASSUME NEW left \in Seq(Int), NEW right \in Seq(Int)
  PROVE  Cosine(left, right) \in Int
  <1>1. ASSUME NEW v \in Seq(Int)
        PROVE  /\ DOMAIN v = 1 .. Len(v) /\ Len(v) \in Nat /\ IsFiniteSet(DOMAIN v)
               /\ \A i \in DOMAIN v : v[i] \in Int
               /\ Added([i \in DOMAIN v |-> v[i] * v[i]]) \in Nat
    <2> DEFINE f == [i \in DOMAIN v |-> v[i] * v[i]]
    <2>1. DOMAIN v = 1 .. Len(v) /\ Len(v) \in Nat /\ \A i \in DOMAIN v : v[i] \in Int
      OBVIOUS
    <2>2. IsFiniteSet(DOMAIN v)
      BY <2>1, Intervals
    <2>3. \A x \in Int : x * x \in Nat
      OBVIOUS
    <2>4. \A i \in DOMAIN v : f[i] \in Nat
      BY <2>1, <2>3
    <2>5. Added(f) = SumFunctionOnSet(f, DOMAIN v)
      BY DEF Added, FoldFunction, SumFunctionOnSet
    <2> HIDE DEF f
    <2>6. Added(f) \in Nat
      BY <2>2, <2>4, <2>5, SumNat
    <2> QED
      BY <2>1, <2>2, <2>6 DEF f
  <1> DEFINE f == [i \in DOMAIN left |-> left[i] * right[i]]
             nl == Added([i \in DOMAIN left |-> left[i] * left[i]])
             nr == Added([i \in DOMAIN right |-> right[i] * right[i]])
  <1>2. nl \in Nat /\ nr \in Nat
    BY <1>1
  <1>3. ASSUME Len(left) = Len(right) PROVE Added(f) \in Int
    <2>1. DOMAIN left = DOMAIN right
      BY <1>1, <1>3
    <2>2. \A x, y \in Int : x * y \in Int
      OBVIOUS
    <2>3. \A i \in DOMAIN left : f[i] \in Int
      BY <1>1, <2>1, <2>2
    <2>4. Added(f) = SumFunctionOnSet(f, DOMAIN left)
      BY DEF Added, FoldFunction, SumFunctionOnSet
    <2> HIDE DEF f
    <2> QED
      BY <1>1, <2>3, <2>4, SumInt
  <1>4. ASSUME NEW dot \in Int, NEW a \in Nat \ {0}, NEW b \in Nat \ {0}
        PROVE  (1000 * dot * (IF dot < 0 THEN -dot ELSE dot)) \div (a * b) \in Int
    <2>1. PICK m \in Int : m = IF dot < 0 THEN -dot ELSE dot
      OBVIOUS
    <2>2. a * b \in Nat \ {0} /\ 1000 * dot * m \in Int
      OBVIOUS
    <2>3. PICK x \in Int, y \in Nat \ {0} : x = 1000 * dot * m /\ y = a * b
      BY <2>2
    <2>4. x \div y \in Int
      OBVIOUS
    <2> QED
      BY <2>1, <2>3, <2>4
  <1>5. CASE Len(left) # Len(right) \/ nl = 0 \/ nr = 0
    BY <1>5 DEF Cosine
  <1>6. CASE ~(Len(left) # Len(right) \/ nl = 0 \/ nr = 0)
    <2>1. Cosine(left, right) = (1000 * Added(f) * (IF Added(f) < 0 THEN -Added(f) ELSE Added(f))) \div (nl * nr)
      BY <1>6 DEF Cosine
    <2>2. PICK dot \in Int, a \in Nat \ {0}, b \in Nat \ {0} : dot = Added(f) /\ a = nl /\ b = nr
      BY <1>2, <1>3, <1>6
    <2> HIDE DEF f, nl, nr
    <2>3. Cosine(left, right) = (1000 * dot * (IF dot < 0 THEN -dot ELSE dot)) \div (a * b)
      BY <2>1, <2>2
    <2> QED
      BY <1>4, <2>3
  <1> QED
    BY <1>5, <1>6

\* Lists with the same candidates are renamings of each other.
LEMMA SameCandidates ==
  ASSUME NEW c \in Seq(Listing), NEW d \in Seq(Listing), ToSet(c) = ToSet(d),
         \A i, j \in DOMAIN c : c[i].id = c[j].id => i = j,
         \A i, j \in DOMAIN d : d[i].id = d[j].id => i = j
  PROVE  /\ Len(c) = Len(d)
         /\ \E p : Renames(p, DOMAIN d, DOMAIN c) /\ \A i \in DOMAIN d : d[i] = c[p[i]]
  <1> DEFINE p == [i \in DOMAIN d |-> CHOOSE k \in DOMAIN c : c[k] = d[i]]
  <1>1. /\ DOMAIN c = 1 .. Len(c) /\ Len(c) \in Nat
        /\ DOMAIN d = 1 .. Len(d) /\ Len(d) \in Nat
    OBVIOUS
  <1>2. \A i \in DOMAIN d : \E k \in DOMAIN c : c[k] = d[i]
    BY DEF ToSet
  <1>3. \A i \in DOMAIN d : p[i] \in DOMAIN c /\ c[p[i]] = d[i]
    BY <1>2
  <1>4. p \in [DOMAIN d -> DOMAIN c]
    BY <1>3
  <1> HIDE DEF p
  <1>5. \A i, j \in DOMAIN d : p[i] = p[j] => i = j
    BY <1>3
  <1>6. \A x \in DOMAIN c : \E i \in DOMAIN d : p[i] = x
    <2> TAKE x \in DOMAIN c
    <2>1. PICK i \in DOMAIN d : d[i] = c[x]
      BY DEF ToSet
    <2>2. c[p[i]] = c[x]
      BY <1>3, <2>1
    <2> QED
      BY <1>3, <2>2
  <1>7. Renames(p, DOMAIN d, DOMAIN c)
    BY <1>4, <1>5, <1>6 DEF Renames
  <1>8. Len(c) = Len(d)
    <2>1. PICK S, R : S = DOMAIN c /\ R = DOMAIN d
      OBVIOUS
    <2>2. IsFiniteSet(S) /\ Cardinality(S) = Len(c) /\ Cardinality(R) = Len(d)
      BY <1>1, <2>1, Intervals
    <2>3. {i \in R : p[i] \in S} = R
      BY <1>3, <2>1
    <2>4. Renames(p, R, S) /\ S \in SUBSET S
      BY <1>7, <2>1
    <2>5. Cardinality({i \in R : p[i] \in S}) = Cardinality(S)
      <3> HIDE <2>1
      <3> QED
        BY <2>2, <2>4, CountRenamed
    <2> QED
      BY <2>2, <2>3, <2>5
  <1> QED
    BY <1>3, <1>7, <1>8

\* The candidates with the highest score, by id.
Winners(c, raw) == {c[i].id : i \in {k \in DOMAIN raw : raw[k] = Highest(raw)}}

\* The winners of renamed candidates are the same.
LEMMA WinnersRenamed ==
  ASSUME NEW c, NEW d, NEW S, NEW R, NEW p, Renames(p, R, S), \A i \in R : d[i] = c[p[i]],
         NEW v \in [S -> Int], NEW u \in [R -> Int], \A i \in R : u[i] = v[p[i]]
  PROVE  Winners(d, u) = Winners(c, v)
  <1>1. \A i \in R : p[i] \in S /\ u[i] = v[p[i]] /\ d[i] = c[p[i]]
    BY DEF Renames
  <1>2. \A x \in S : \E i \in R : p[i] = x
    BY DEF Renames
  <1>3. {u[i] : i \in R} = {v[i] : i \in S}
    BY <1>1, <1>2
  <1>4. Highest(u) = Highest(v)
    BY <1>3 DEF Highest
  <1>5. Winners(d, u) = {d[i].id : i \in {k \in R : u[k] = Highest(v)}}
    BY <1>4 DEF Winners
  <1>6. Winners(c, v) = {c[i].id : i \in {k \in S : v[k] = Highest(v)}}
    BY DEF Winners
  <1>7. ASSUME NEW x \in {d[i].id : i \in {k \in R : u[k] = Highest(v)}}
        PROVE  x \in {c[i].id : i \in {k \in S : v[k] = Highest(v)}}
    BY <1>1
  <1>8. ASSUME NEW x \in {c[i].id : i \in {k \in S : v[k] = Highest(v)}}
        PROVE  x \in {d[i].id : i \in {k \in R : u[k] = Highest(v)}}
    <2>1. PICK k \in S : v[k] = Highest(v) /\ x = c[k].id
      OBVIOUS
    <2>2. PICK i \in R : p[i] = k
      BY <1>2
    <2> QED
      BY <1>1, <2>1, <2>2
  <1> QED
    BY <1>5, <1>6, <1>7, <1>8

\* Two scorings that differ in the order of their candidates decide alike.
LEMMA RenamedScoring ==
  ASSUME NEW t \in Scorings, NEW s \in Scorings, s.mode = t.mode, s.text = t.text, s.state = t.state,
         s.prebuilt = t.prebuilt, s.lost = t.lost, ToSet(s.candidates) = ToSet(t.candidates),
         t.mode \notin {"boolean", "score"}, ~t.prebuilt.built
  PROVE  /\ ScoringOf(t).kind = "ranked" => ScoringOf(s) = ScoringOf(t)
         /\ ScoringOf(t).kind = "scored" =>
               Winners(s.candidates, ScoringOf(s).raw) = Winners(t.candidates, ScoringOf(t).raw)
  <1> DEFINE c == t.candidates
             d == s.candidates
             query == QueryFor(t.state, t.text)
             x == Bm25Index(Documents(t))
             y == Bm25Index(Documents(s))
             S == DOMAIN c
             R == DOMAIN d
  <1>1. /\ c \in Seq(Listing) /\ d \in Seq(Listing)
        /\ \A i, j \in S : c[i].id = c[j].id => i = j
        /\ \A i, j \in R : d[i].id = d[j].id => i = j
    BY ScoringIs, TaskAssumption
  <1>2. Len(c) = Len(d) /\ \E p : Renames(p, R, S) /\ \A i \in R : d[i] = c[p[i]]
    <2> HIDE DEF c, d
    <2> QED
      BY <1>1, SameCandidates DEF c, d
  <1>3. PICK p : Renames(p, R, S) /\ \A i \in R : d[i] = c[p[i]]
    BY <1>2
  <1>4. \A i \in R : p[i] \in S
    BY <1>3 DEF Renames
  <1>5. /\ IsIndex(x) /\ DOMAIN x.words = S /\ x.words = [i \in S |-> Tokenize(Documents(t)[i])]
        /\ IsIndex(y) /\ DOMAIN y.words = R /\ y.words = [i \in R |-> Tokenize(Documents(s)[i])]
    BY ScoringTexts, BuiltIndex
  <1>6. \A i \in R : y.words[i] = x.words[p[i]]
    <2> TAKE i \in R
    <2>1. y.words[i] = Tokenize(Documents(s)[i]) /\ x.words[p[i]] = Tokenize(Documents(t)[p[i]])
      <3> HIDE DEF x, y, S, R
      <3> QED
        BY <1>4, <1>5
    <2>2. Documents(s)[i] = d[i].words /\ Documents(t)[p[i]] = c[p[i]].words
      BY <1>4 DEF Documents
    <2> QED
      BY <1>3, <2>1, <2>2
  <1>7. IsText(query)
    BY ScoringTexts
  <1> DEFINE v == ScoreAll(x, query)
             u == ScoreAll(y, query)
  <1>8. v \in [S -> Int] /\ u \in [R -> Int]
    <2>1. v \in [S -> Nat] /\ u \in [R -> Nat]
      <3> HIDE DEF x, y, S, R, query
      <3> QED
        BY <1>5, <1>7, ScoresAreNumbers
    <2> HIDE DEF v, u, S, R
    <2> QED
      BY <2>1
  <1>9. \A i \in R : u[i] = v[p[i]]
    <2> TAKE i \in R
    <2>1. ScoreTerms(y, Tokenize(query), i) = ScoreTerms(x, Tokenize(query), p[i])
      <3> HIDE DEF x, y, S, R, query
      <3> QED
        BY <1>3, <1>5, <1>6, ScoreRenamed
    <2>2. u[i] = ScoreTerms(y, Tokenize(query), i) /\ v[p[i]] = ScoreTerms(x, Tokenize(query), p[i])
      <3> HIDE DEF x, y, S, R, query
      <3> QED
        BY <1>4, <1>5 DEF ScoreAll
    <2> QED
      BY <2>1, <2>2
  <1> HIDE DEF u, v, x, y
  <1>10. CASE t.mode = "choice"
    <2>1. ScoringOf(t).kind = "scored" /\ ScoringOf(t).raw = v /\ ScoringOf(s).raw = u
      <3>1. IndexFor(Documents(t), t.prebuilt) = x /\ IndexFor(Documents(s), s.prebuilt) = y
        BY DEF IndexFor, x, y
      <3>2. /\ ScoringOf(t) = LexicalChoice(query, c, t.prebuilt)
            /\ ScoringOf(s) = LexicalChoice(query, d, s.prebuilt)
        BY <1>10 DEF ScoringOf
      <3> QED
        BY <3>1, <3>2 DEF LexicalChoice, Scored, Documents, u, v
    <2>2. Winners(d, u) = Winners(c, v)
      <3> HIDE DEF c, d, S, R
      <3> QED
        BY <1>3, <1>8, <1>9, WinnersRenamed
    <2> QED
      BY <2>1, <2>2
  <1>11. CASE t.mode = "rerank"
    <2>1. ScoringOf(t) = Ranked(c, v) /\ ScoringOf(s) = Ranked(d, u)
      BY <1>11 DEF ScoringOf, LexicalRerank, Documents, u, v, x, y
    <2>2. Listed(c, v) /\ Listed(d, u)
      BY <1>1, <1>8 DEF Listed
    <2>3. Ranked(d, u) = Ranked(c, v)
      BY <1>2, <1>3, <1>9, <2>2, RankedRenamed
    <2>4. Ranked(c, v).kind = "ranked"
      BY DEF Ranked
    <2> QED
      BY <2>1, <2>3, <2>4
  <1>12. CASE t.mode = "rerank_embedding"
    <2> DEFINE f == [i \in S |-> Cosine(VectorOf(query), VectorOf(c[i].words))]
               g == [i \in R |-> Cosine(VectorOf(query), VectorOf(d[i].words))]
    <2>1. CASE t.lost > 0
      <3>1. ScoringOf(t) = Failed
        BY <1>12, <2>1 DEF ScoringOf, EmbeddingRerank
      <3> QED
        BY <3>1 DEF Failed
    <2>2. CASE ~(t.lost > 0)
      <3>1. ScoringOf(t) = Ranked(c, f) /\ ScoringOf(s) = Ranked(d, g)
        BY <1>12, <2>2 DEF ScoringOf, EmbeddingRerank
      <3>2. VectorOf(query) \in Seq(Int)
        BY TaskAssumption
      <3>3. \A i \in S : VectorOf(c[i].words) \in Seq(Int)
        <4>1. \A i \in S : c[i] \in ToSet(t.candidates)
          BY DEF ToSet
        <4> QED
          BY <4>1, TaskAssumption
      <3>4. \A i \in R : VectorOf(d[i].words) \in Seq(Int)
        BY <1>3, <1>4, <3>3
      <3>5. f \in [S -> Int] /\ g \in [R -> Int]
        <4>1. \A i \in S : f[i] \in Int
          BY <3>2, <3>3, CosineIsNumber
        <4>2. \A i \in R : g[i] \in Int
          BY <3>2, <3>4, CosineIsNumber
        <4> QED
          BY <4>1, <4>2
      <3>6. \A i \in R : g[i] = f[p[i]]
        BY <1>3, <1>4
      <3> HIDE DEF f, g
      <3>7. Listed(c, f) /\ Listed(d, g)
        BY <1>1, <3>5 DEF Listed
      <3>8. Ranked(d, g) = Ranked(c, f)
        BY <1>2, <1>3, <3>6, <3>7, RankedRenamed
      <3>9. Ranked(c, f).kind = "ranked"
        BY DEF Ranked
      <3> QED
        BY <3>1, <3>8, <3>9
    <2> QED
      BY <2>1, <2>2
  <1> QED
    BY <1>10, <1>11, <1>12, ScoringIs

\* cache.rs "candidates arrive in caller order but must not change the key": with
\* equal keys the winners are equal, and so is every order of a reranker.
THEOREM EqualKeysDecideAlike == Spec => []SameKeySameAnswer
  <1>1. EvidenceInv => SameKeySameAnswer
    <2> SUFFICES ASSUME EvidenceInv, answer.kind \in {"scored", "ranked"},
                        task.scoring.mode \notin {"boolean", "score"}, ~task.scoring.prebuilt.built,
                        NEW s \in Scorings,
                        [s EXCEPT !.candidates = task.scoring.candidates] = task.scoring,
                        NormalizeChoice(s.text, s.candidates)
                           = NormalizeChoice(task.scoring.text, task.scoring.candidates)
                 PROVE  IF answer.kind = "ranked" THEN ScoringOf(s) = answer
                        ELSE Winners(s.candidates, ScoringOf(s).raw)
                                = Winners(task.scoring.candidates, answer.raw)
      BY DEF SameKeySameAnswer, Winners
    <2>1. task.kind = "score" /\ answer = ScoringOf(task.scoring) /\ task.scoring \in Scorings
      BY DEF EvidenceInv, IsAnswer, IsTask, Pending, Failed
    <2>2. PICK t \in Scorings : t = task.scoring
      BY <2>1
    <2>3. /\ s.mode = t.mode /\ s.text = t.text /\ s.state = t.state
          /\ s.prebuilt = t.prebuilt /\ s.lost = t.lost
      <3>1. DOMAIN s = Fields
        BY ScoringIs
      <3>2. \A f \in Fields \ {"candidates"} : [s EXCEPT !.candidates = t.candidates][f] = s[f]
        BY <3>1
      <3>3. \A f \in Fields \ {"candidates"} : s[f] = t[f]
        BY <2>2, <3>2
      <3> QED
        BY <3>3 DEF Fields
    <2>4. ToSet(s.candidates) = ToSet(t.candidates)
      BY <2>2 DEF NormalizeChoice
    <2>5. /\ ScoringOf(t).kind = "ranked" => ScoringOf(s) = ScoringOf(t)
          /\ ScoringOf(t).kind = "scored" =>
                Winners(s.candidates, ScoringOf(s).raw) = Winners(t.candidates, ScoringOf(t).raw)
      BY <2>2, <2>3, <2>4, RenamedScoring
    <2> QED
      BY <2>1, <2>2, <2>5
  <1> QED
    BY <1>1, EvidenceInvariant, PTL

=============================================================================
