--------------------------- MODULE LexicalEvidence ---------------------------
(***************************************************************************)
(* BM25 scores and what is decided by them (lexical.rs, classifier.rs,     *)
(* rerank.rs), and the normal form of a choice question that goes into the *)
(* cache key (cache.rs).  A text is a sequence of words, a candidate is    *)
(* [id, words] with a number for its id.  Scores are in thousandths, which *)
(* makes K1 = 1.2 and B = 0.75 exact; the logarithm is given by a table.   *)
(***************************************************************************)
EXTENDS Integers, Sequences, FiniteSets, SequencesExt

CONSTANTS
    StopWords,         \* the words a tokenizer drops, over-long ones included
    Negators,          \* the negating words
    Cap,               \* LEXICAL_LOG_ODDS_CAP
    TermWeight(_, _),  \* the weight of a term in a number of the documents
    VectorOf(_)        \* what the embedding backend makes of a text

ASSUME LexicalAssumption == Cap \in Nat \ {0} /\ Negators \cap StopWords = {}

Added(f) == FoldFunction(+, 0, f)
Failed == [kind |-> "error"]
Unbuilt == [built |-> FALSE]

-----------------------------------------------------------------------------
(* The index: the words of every document.                                 *)

Tokenize(text) ==
    LET kept == {i \in DOMAIN text : text[i] \notin StopWords}
    IN  [n \in 1 .. Cardinality(kept) |-> text[CHOOSE i \in kept : Cardinality(kept \cap 1 .. i) = n]]
Frequency(term, words) == Cardinality({i \in DOMAIN words : words[i] = term})

Bm25Index(documents) == [built |-> TRUE, words |-> [i \in DOMAIN documents |-> Tokenize(documents[i])]]
DocumentFrequency(index, term) ==
    Cardinality({i \in DOMAIN index.words : Frequency(term, index.words[i]) > 0})

\* saturated_frequency: tf (K1 + 1) / (tf + K1 (1 - B + B length / average)).
SaturatedFrequency(index, tf, length) ==
    LET total == Added([i \in DOMAIN index.words |-> Len(index.words[i])])
    IN  (22000 * tf * total) \div (10 * tf * total + 3 * total + 9 * length * Len(index.words))

\* score_terms: every term of the query that the document has, as often as the
\* query has it.
ScoreTerms(index, query, i) ==
    LET document == index.words[i]
        weight(term) == TermWeight(Len(index.words), DocumentFrequency(index, term))
                        * SaturatedFrequency(index, Frequency(term, document), Len(document))
                        * Frequency(term, query)
    IN  Added([term \in ToSet(query) \cap ToSet(document) |-> weight(term)]) \div 1000

ScoreAll(index, query) == [i \in DOMAIN index.words |-> ScoreTerms(index, Tokenize(query), i)]

\* coverage: how many of the query's terms the document has.
Coverage(index, i, query) ==
    LET terms == ToSet(Tokenize(query))
    IN  [hits |-> Cardinality(terms \cap ToSet(index.words[i])), of |-> Cardinality(terms)]

-----------------------------------------------------------------------------
(* Decisions.                                                              *)

Highest(scores) == Max({scores[i] : i \in DOMAIN scores})

\* Mutant: each score is clipped at the cap, whatever the best one is.
BoundedByClipping(scores) == [i \in DOMAIN scores |-> Min({scores[i], Cap})]

\* bound_lexical_spread: scores are lowered by their distance from the best
\* one, which is capped.
Bounded(scores) ==
    LET top == Highest(scores)
    IN  IF top <= Cap THEN scores
        ELSE [i \in DOMAIN scores |-> Cap - Min({top - scores[i], Cap})]

\* max_by takes the last of equal scores, as Distribution::top does.
BestOf(scores) == Max({i \in DOMAIN scores : scores[i] = Highest(scores)})

\* A prebuilt index is taken for its number of documents.
IndexFor(documents, prebuilt) ==
    IF prebuilt.built /\ Len(prebuilt.words) = Len(documents) THEN prebuilt ELSE Bm25Index(documents)

QueryFor(state, text) == text \o state
Scored(raw, coverage) == [kind |-> "scored", raw |-> raw, scores |-> Bounded(raw), coverage |-> coverage]

\* decide_choice_with_support, decide_score_with_support: the descriptions of the
\* candidates or the labels of the levels against question and state.
LexicalChoice(query, candidates, prebuilt) ==
    LET index == IndexFor([i \in DOMAIN candidates |-> candidates[i].words], prebuilt)
        raw == ScoreAll(index, query)
    IN  Scored(raw, Coverage(index, BestOf(Bounded(raw)), query))
LexicalLevels(query, levels) ==
    LET index == Bm25Index(levels)
        raw == ScoreAll(index, query)
    IN  Scored(raw, Coverage(index, BestOf(Bounded(raw)), query))

\* decide_boolean_with_support and negation_polarity: the question against the
\* state; an odd number of negators swaps the two scores.
Negated(text) == Cardinality({i \in DOMAIN Tokenize(text) : Tokenize(text)[i] \in Negators}) % 2 = 1
LexicalBoolean(state, text) ==
    LET index == Bm25Index(<<text>>)
        s == Scored(<<ScoreAll(index, state)[1], 0>>, Coverage(index, 1, state))
    IN  IF Negated(text) THEN [s EXCEPT !.scores = Reverse(@)] ELSE s

-----------------------------------------------------------------------------
(* Reranking.                                                              *)

\* Best score first, equal ones by id.
Ranked(candidates, scores) ==
    LET before(i) == {j \in DOMAIN candidates :
                        \/ scores[j] > scores[i]
                        \/ scores[j] = scores[i] /\ candidates[j].id < candidates[i].id}
        nth(n) == CHOOSE i \in DOMAIN candidates : Cardinality(before(i)) = n - 1
    IN  [kind |-> "ranked", ids |-> [n \in 1 .. Len(candidates) |-> candidates[nth(n)].id]]

LexicalRerank(query, candidates) ==
    Ranked(candidates, ScoreAll(Bm25Index([i \in DOMAIN candidates |-> candidates[i].words]), query))

\* cosine, squared with its sign and in thousandths: it orders as the cosine does.
Cosine(left, right) ==
    LET dot == Added([i \in DOMAIN left |-> left[i] * right[i]])
        norm(v) == Added([i \in DOMAIN v |-> v[i] * v[i]])
        size == IF dot < 0 THEN -dot ELSE dot
    IN  IF Len(left) # Len(right) THEN 0
        ELSE IF norm(left) = 0 \/ norm(right) = 0 THEN 0
        ELSE (1000 * dot * size) \div (norm(left) * norm(right))

\* EmbeddingReranker: `lost' vectors are missing from what the backend returns.
EmbeddingRerank(query, candidates, lost) ==
    IF lost > 0 THEN Failed
    ELSE Ranked(candidates, [i \in DOMAIN candidates |-> Cosine(VectorOf(query), VectorOf(candidates[i].words))])

-----------------------------------------------------------------------------
(* The cache key.                                                          *)

\* Mutant: only the ids of the candidates go into the key.
NormalizeIds(text, candidates) ==
    [text |-> text, candidates |-> {candidates[i].id : i \in DOMAIN candidates}]

\* normalize_choice: the candidates sorted by id, with all they carry; a set, as
\* ids are unique.
NormalizeChoice(text, candidates) == [text |-> text, candidates |-> ToSet(candidates)]
==============================================================================
