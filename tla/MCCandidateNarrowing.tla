------------------------ MODULE MCCandidateNarrowing ------------------------
(***************************************************************************)
(* Three candidates, one fact, and graphs that order the narrowing nodes   *)
(* in the usual and in unusual ways.                                       *)
(***************************************************************************)
EXTENDS CandidateNarrowing

Three == <<1, 2, 3>>

Always == [fact |-> "x", value |-> 9, holds |-> FALSE]
Is(v) == [fact |-> "x", value |-> v, holds |-> TRUE]

\* A rule that fires, sets x to v unless v is 0, and removes or pins.
Does(c, v, out, in) ==
    [when |-> c, sets |-> IF v = 0 THEN {} ELSE {<<"x", v>>}, excludes |-> out, pins |-> in]

SomeRules ==
    {<<>>,
     <<Does(Always, 1, {1}, {}), Does(Is(1), 0, {2, 3}, {3})>>,      \* chained, with a pin
     <<Does(Is(1), 2, {1}, {}), Does(Is(0), 1, {3}, {})>>,           \* a second pass differs
     <<Does(Always, 0, {1, 2, 3}, {})>>}                             \* starves the question

N(k) == [kind |-> k]
Retrieve(n, f) == [kind |-> "retrieve", top_n |-> n, floor |-> f]
Rerank(r) == [kind |-> "rerank", reranker |-> r]

\* The built-in pipeline, with and without a reranker.
Usual ==
    {<<<<N("rule")>>, <<N("filter")>>, <<N("lexical")>>, <<N("choice")>>>>,
     <<<<N("rule")>>, <<N("filter")>>, <<N("lexical")>>, <<Rerank("lexical")>>, <<N("choice")>>>>,
     <<<<N("rule")>>, <<N("filter")>>, <<N("embedding"), N("lexical")>>, <<Retrieve(2, 2)>>,
       <<Rerank("embedding")>>, <<N("choice")>>>>}

\* Two prunes in one wave, a filter behind a prune, two rule passes, no filter,
\* no embedding, a decision before and after narrowing.
Unusual ==
    {<<<<N("rule")>>, <<N("filter")>>, <<N("embedding")>>, <<N("lexical"), Retrieve(1, 0)>>, <<N("choice")>>>>,
     <<<<N("embedding"), N("rule")>>, <<Retrieve(1, 1)>>, <<N("filter")>>, <<N("choice")>>>>,
     <<<<N("rule")>>, <<N("filter")>>, <<N("lexical")>>, <<N("rule")>>, <<N("filter"), N("lexical")>>, <<N("choice")>>>>,
     <<<<N("embedding")>>, <<Retrieve(1, 2), Retrieve(2, 1)>>, <<Rerank("lexical")>>, <<N("choice")>>>>,
     <<<<N("rule")>>, <<Retrieve(1, 0)>>, <<N("filter")>>, <<N("choice")>>>>,
     <<<<N("rule")>>, <<N("choice"), N("filter")>>, <<N("lexical")>>, <<N("choice")>>>>}

AllPlans == Usual \cup Unusual
=============================================================================
