------------------------- MODULE CandidateNarrowing -------------------------
(***************************************************************************)
(* How the candidates of one choice question shrink and are reordered on   *)
(* their way to the classifier (rules.rs evaluate, narrowing.rs, rerank.rs *)
(* and executor.rs filter_candidates .. prepare_question, merge, assemble).*)
(* No stage looks across questions, so one question stands for all.        *)
(*                                                                         *)
(* A plan is the graph's waves, each wave its nodes in id order, inert     *)
(* nodes left out.  Every node of a wave reads the run state as it stood   *)
(* when the wave began (`seen'); its effect is merged into `run'.          *)
(*                                                                         *)
(* Scores are small numbers.  Cosine similarity depends on the candidate   *)
(* alone; BM25 depends on the documents it indexes as well, so its scores  *)
(* are revealed per list of documents, once.  The synthetic abstain        *)
(* candidate, which no stage before the classifier sees, is the subject of *)
(* ThresholdGate.                                                          *)
(***************************************************************************)
EXTENDS Naturals, Sequences, FiniteSets, SequencesExt

CONSTANTS
    Declared,    \* the question's candidates (ids) in declared order
    Facts,       \* fact keys
    Values,      \* fact values, with Absent
    Absent,      \* the value of a fact that is not in the state
    RuleSets,    \* rule sets an engine may be configured with
    Plans,       \* the waves of graphs an engine may be configured with
    Limits,      \* values of lexical_prune_limit; NoLimit when not set
    Levels       \* scores

NoLimit == 0
Candidates == ToSet(Declared)

Condition == [fact : Facts, value : Values, holds : BOOLEAN]
Rule == [when : Condition, sets : SUBSET (Facts \X Values),
         excludes : SUBSET Candidates, pins : SUBSET Candidates]
Kinds == {"rule", "filter", "lexical", "embedding", "retrieve", "rerank", "choice"}

\* NodeSpec::validate demands top_n >= 1 of a retrieve node; a lexical limit of
\* zero is refused by DecisionEngine::new.
ASSUME NarrowingAssumption ==
    /\ Declared \in Seq(Candidates) /\ Declared # <<>> /\ IsInjective(Declared)
    /\ Candidates \subseteq Nat \ {0}
    /\ Absent \in Values
    /\ RuleSets \subseteq Seq(Rule)
    /\ Limits \subseteq Nat /\ Levels \subseteq Nat
    /\ \A p \in Plans : p \in Seq(ToSet(p)) /\ \A w \in DOMAIN p :
          /\ p[w] \in Seq(ToSet(p[w])) /\ p[w] # <<>>
          /\ \A i \in DOMAIN p[w] :
                p[w][i].kind \in Kinds /\ (p[w][i].kind = "retrieve" => p[w][i].top_n \in Nat \ {0})

VARIABLES
    rules, plan, limit, safe,   \* the engine's configuration
    sim,        \* candidate -> cosine similarity to the query
    bm25,       \* documents -> scores, as far as they have been computed
    wave, pos,  \* the node to run next
    seen,       \* the run state the wave began with
    run,        \* the run state with the merged effects so far
    response,   \* what assemble returns
    passes      \* history: what every rule pass reported

config == <<rules, plan, limit, safe, sim>>
vars == <<rules, plan, limit, safe, sim, bm25, wave, pos, seen, run, response, passes>>

Nothing == <<0>>    \* a map without an entry for the question
NoReport == [excluded |-> {}, pinned |-> {}]    \* selectors_for without rules
Pending == [kind |-> "pending"]

-----------------------------------------------------------------------------
(* Rules.                                                                  *)

Matches(c, facts) == (facts[c.fact] = c.value) = c.holds

Written(facts, sets) ==
    [f \in Facts |-> IF \E v \in Values : <<f, v>> \in sets
                     THEN CHOOSE v \in Values : <<f, v>> \in sets ELSE facts[f]]

\* RuleEngine::evaluate: in declared order, each rule sees the facts written by
\* the rules before it.
Evaluate(facts) ==
    LET pass[i \in 0 .. Len(rules)] ==
            IF i = 0 THEN [facts |-> facts, excluded |-> {}, pinned |-> {}]
            ELSE LET p == pass[i - 1]
                     r == rules[i]
                 IN  IF ~Matches(r.when, p.facts) THEN p
                     ELSE [facts    |-> Written(p.facts, r.sets),
                           excluded |-> p.excluded \cup r.excludes,
                           pinned   |-> p.pinned \cup r.pins]
    IN  pass[Len(rules)]

-----------------------------------------------------------------------------
(* Scores and who is in play.                                              *)

\* The members of S in the order of list s.
Among(s, S) ==
    LET upTo[i \in 0 .. Len(s)] ==
            IF i = 0 THEN <<>>
            ELSE IF s[i] \in S THEN Append(upTo[i - 1], s[i]) ELSE upTo[i - 1]
    IN  upTo[Len(s)]

Without(s, S) == Among(s, ToSet(s) \ S)

Better(score, c, d) == score[c] > score[d] \/ (score[c] = score[d] /\ c < d)

\* Best first: place i goes to the one that i - 1 others are better than.
Ranked(S, score) ==
    [i \in 1 .. Cardinality(S) |->
        CHOOSE c \in S : Cardinality({d \in S : Better(score, d, c)}) = i - 1]

\* Scores BM25 may give a list of documents: those it gave before, or any.
Scorings(docs) == IF docs \in DOMAIN bm25 THEN {bm25[docs]} ELSE [ToSet(docs) -> Levels]
Revealed(docs, s) == [d \in DOMAIN bm25 \cup {docs} |-> IF d = docs THEN s ELSE bm25[d]]

Pruned(s) == ToSet(s.lexed) \cup ToSet(s.dropped)

\* What narrowing left of the question, or all of it when no filter ran.
Base(s) == IF s.narrowing = Nothing THEN Declared ELSE s.narrowing

\* candidates_in_play, in list order; surviving_ids are its members.
InPlay(s) == Without(Base(s), Pruned(s))

-----------------------------------------------------------------------------
(* The nodes.                                                              *)

Running == response = Pending /\ wave <= Len(plan)
Node == plan[wave][pos]
At(kind) == Running /\ Node.kind = kind

\* The node's effect is merged; a finished wave hands its state to the next.
Merge(state) ==
    /\ run' = state
    /\ IF pos < Len(plan[wave]) THEN pos' = pos + 1 /\ UNCHANGED <<wave, seen>>
       ELSE pos' = 1 /\ wave' = wave + 1 /\ seen' = state
    /\ UNCHANGED <<config, response>>

\* A later report replaces an earlier one whole; facts accumulate.
RuleNode ==
    /\ At("rule")
    /\ LET p == Evaluate(seen.facts)
           report == [excluded |-> p.excluded, pinned |-> p.pinned]
       IN  /\ Merge([run EXCEPT !.facts = p.facts, !.report = report])
           /\ passes' = passes \cup {report}
    /\ UNCHANGED bm25

\* NarrowingOutcome::apply: include wins over exclude.
Removed(r) == r.excluded \ r.pinned

FilterNode ==
    /\ At("filter")
    /\ Merge([run EXCEPT !.narrowing = Without(Declared, Removed(seen.report)),
                         !.basis = seen.report])
    /\ UNCHANGED <<bm25, passes>>

\* Whoever scores below the last place that is retained; ties are kept.
BelowCut(docs, s) == {c \in ToSet(docs) : s[c] < s[Ranked(ToSet(docs), s)[limit]]}

\* Mutant: the limit prunes in safe mode too.
WorseUnsafe(docs, s) ==
    IF limit = NoLimit \/ Len(docs) <= limit THEN <<>>
    ELSE Among(Ranked(ToSet(docs), s), BelowCut(docs, s))

\* LexicalScores::prune, which a safe engine never calls.
Worse(docs, s) ==
    IF safe \/ limit = NoLimit \/ Len(docs) <= limit THEN <<>>
    ELSE Among(Ranked(ToSet(docs), s), BelowCut(docs, s))

\* score_lexical indexes the filter's survivors, whatever was pruned since; an
\* unfiltered or starved question is passed over.
LexicalNode ==
    /\ At("lexical")
    /\ LET docs == seen.narrowing
       IN  IF docs \in {Nothing, <<>>} THEN Merge(run) /\ UNCHANGED bm25
           ELSE \E s \in Scorings(docs) :
                   /\ bm25' = Revealed(docs, s)
                   /\ Merge([run EXCEPT !.index = docs, !.lexed = @ \o Worse(docs, s)])
    /\ UNCHANGED passes

EmbeddingNode ==
    /\ At("embedding")
    /\ Merge([run EXCEPT !.ranking = Ranked(ToSet(InPlay(seen)), sim)])
    /\ UNCHANGED <<bm25, passes>>

First(s, n) == SubSeq(s, 1, IF Len(s) < n THEN Len(s) ELSE n)

\* What a retrieve node keeps of the ranked survivors: the best top_n at or
\* above the floor, or the single best one.
Kept(r) ==
    LET above == Among(r, {c \in ToSet(r) : sim[c] >= Node.floor})
    IN  IF above = <<>> THEN First(r, 1) ELSE First(above, Node.top_n)

RetrieveNode ==
    /\ At("retrieve") /\ seen.ranking # Nothing
    /\ LET ranked == Among(seen.ranking, ToSet(InPlay(seen)))
           kept == Kept(ranked)
       IN  Merge([run EXCEPT
                    !.dropped = @ \o Without(ranked, ToSet(kept)),
                    !.order = kept])
    /\ UNCHANGED <<bm25, passes>>

\* The reranker orders who is in play by BM25 or by cosine similarity; an empty
\* list is passed over.
RerankNode ==
    /\ At("rerank")
    /\ LET docs == InPlay(seen)
       IN  IF docs = <<>> THEN Merge(run) /\ UNCHANGED bm25
           ELSE IF Node.reranker = "embedding"
           THEN Merge([run EXCEPT !.order = Ranked(ToSet(docs), sim)]) /\ UNCHANGED bm25
           ELSE \E s \in Scorings(docs) :
                   /\ bm25' = Revealed(docs, s)
                   /\ Merge([run EXCEPT !.order = Ranked(ToSet(docs), s)])
    /\ UNCHANGED passes

\* A retrieve node without scores, or an embedding backend that is down: the
\* run returns an error.
NodeFails ==
    /\ Running
    /\ \/ Node.kind = "retrieve" /\ seen.ranking = Nothing
       \/ Node.kind = "embedding"
       \/ Node.kind = "rerank" /\ Node.reranker = "embedding"
    /\ response' = [kind |-> "error"]
    /\ UNCHANGED <<config, bm25, wave, pos, seen, run, passes>>

\* The list by the rank of `order', what it does not name last, stably.
Sorted(list, order) ==
    IF order = Nothing THEN list
    ELSE Among(order, ToSet(list)) \o Without(list, ToSet(order))

\* Mutant: an ordered question is rebuilt from its declared candidates.
PreparedFromDeclared(s) ==
    Sorted(Without(IF s.order = Nothing THEN Base(s) ELSE Declared, Pruned(s)), s.order)

\* prepare_question: the list the classifier decides over; empty when the
\* question cannot be prepared.
Prepared(s) == Sorted(InPlay(s), s.order)

\* lexical_handoff: the index is handed over when narrowing's survivors are the
\* deciding list; the classifier takes one of the right length.
Handed(s) ==
    IF s.index # Nothing /\ s.narrowing = Prepared(s) /\ Len(s.index) = Len(Prepared(s))
    THEN s.index ELSE Prepared(s)

ChoiceNode ==
    /\ At("choice")
    /\ Merge(IF Prepared(seen) = <<>> THEN run
             ELSE [run EXCEPT !.asked = Prepared(seen), !.scored = Handed(seen),
                              !.judged = seen.basis])
    /\ UNCHANGED <<bm25, passes>>

-----------------------------------------------------------------------------
Minus(m, n) == IF m > n THEN m - n ELSE 0

\* metrics.candidates_out, with its saturating subtractions.
CandidatesOut ==
    Minus(Minus(IF run.narrowing = Nothing THEN 0 ELSE Len(run.narrowing), Len(run.lexed)),
          Len(run.dropped))

\* assemble: a question narrowing starved is reported as such; one nobody
\* decided for another reason counts as an abstention.
Assemble ==
    /\ response = Pending /\ wave > Len(plan)
    /\ response' = [kind |-> "decided",
                    outcome |-> IF run.narrowing = <<>> THEN "NoValidCandidate"
                                ELSE IF run.asked = Nothing THEN "Abstain" ELSE "Answered",
                    candidates_out |-> CandidatesOut]
    /\ UNCHANGED <<config, bm25, wave, pos, seen, run, passes>>

Finished == response # Pending /\ UNCHANGED vars

Fresh ==
    [facts |-> [f \in Facts |-> Absent], report |-> NoReport,
     narrowing |-> Nothing, basis |-> NoReport,    \* basis: history, the report it applied
     index |-> Nothing, lexed |-> <<>>, ranking |-> Nothing, dropped |-> <<>>, order |-> Nothing,
     asked |-> Nothing, scored |-> Nothing, judged |-> NoReport]    \* judged: history, its basis

\* Safe mode refuses a graph with a retrieve node (DecisionEngine::new).
Allowed(p, s) == s => \A w \in DOMAIN p : \A i \in DOMAIN p[w] : p[w][i].kind # "retrieve"

Init ==
    /\ rules \in RuleSets
    /\ plan \in Plans
    /\ limit \in Limits
    /\ safe \in {s \in BOOLEAN : Allowed(plan, s)}
    /\ sim \in [Candidates -> Levels]
    /\ bm25 = [d \in {} |-> <<>>]
    /\ wave = 1 /\ pos = 1
    /\ seen = Fresh /\ run = Fresh
    /\ response = Pending
    /\ passes = {}

Next ==
    \/ RuleNode \/ FilterNode \/ LexicalNode \/ EmbeddingNode \/ RetrieveNode \/ RerankNode
    \/ ChoiceNode \/ NodeFails \/ Assemble \/ Finished

Spec == Init /\ [][Next]_vars

-----------------------------------------------------------------------------
(* Properties.                                                             *)

\* Safe mode (engine.rs "semantic evidence may order, and only an explicit
\* engine-level opt-out may let it eliminate"): a candidate missing from the
\* deciding list was excluded, and not pinned, by a rule pass, whatever lexical
\* and rerank nodes the graph has.
SafeModeKeeps ==
    safe /\ run.asked # Nothing =>
        \A c \in Candidates \ ToSet(run.asked) : \E p \in passes : c \in p.excluded \ p.pinned

\* Rules are the source of truth: no candidate the last filter removed for a
\* rule is put to the classifier, however retrieve and rerank nodes reordered
\* the list, and a pinned one is removed by none of them but by a prune.
RulesPrevail ==
    run.asked # Nothing =>
        /\ ToSet(run.asked) \cap (run.judged.excluded \ run.judged.pinned) = {}
        /\ run.judged.pinned \subseteq ToSet(run.asked) \cup Pruned(run)

Done == response.kind = "decided"

\* A statement of the comments that the code does not keep: executor.rs
\* lexical_handoff, the index is "reusable only when the deciding list is exactly
\* those documents in the same order".
HandoffIsIdentical == run.scored = run.asked
=============================================================================
