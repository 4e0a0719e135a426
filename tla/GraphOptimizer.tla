--------------------------- MODULE GraphOptimizer ---------------------------
(***************************************************************************)
(* From a graph document to an optimized graph: the document is validated  *)
(* (DecisionGraph), then optimize.rs eliminates common subexpressions node *)
(* by node in id order (merge_common) and dead nodes (eliminate_dead), and *)
(* what is left is validated again by the same DecisionGraph::new.         *)
(*                                                                         *)
(* A node's knobs (threshold, when, top_n, floor, reranker) are one value. *)
(* Dependency lists are sets, which is what Key::of and dedupe make of     *)
(* them.                                                                   *)
(***************************************************************************)
EXTENDS DecisionGraph

VARIABLES
    graph,       \* the validated input, once it is accepted
    queue,       \* nodes merge_common has still to visit
    kept,        \* nodes merge_common keeps
    deps,        \* the rewritten dependencies of the nodes visited
    rewritten,   \* merged node -> the survivor its dependents should read
    pass         \* load | merge | dead | rebuild

optimizerVars == <<graph, queue, kept, deps, rewritten, pass>>
vars == <<validationVars, optimizerVars>>

Output == CHOOSE n \in graph.ids : graph.kind[n] = "output"
First == CHOOSE n \in queue : \A m \in queue : n <= m

\* NodeSpec::is_pure.
IsPure(k) == k \in {"normalize", "rule", "filter", "lexical", "embedding", "retrieve", "rerank",
                    "choice", "boolean", "score", "branch"}

\* A dependency under the merges made so far.
Renamed(d) == IF d \in DOMAIN rewritten THEN rewritten[d] ELSE d

\* Mutant: knobs do not tell nodes apart.
SameKeyNoKnob(n, m, d) == graph.kind[m] = graph.kind[n] /\ deps[m] = d

\* Key::of agrees on kept node m and on n with dependencies d.
SameKey(n, m, d) ==
    graph.kind[m] = graph.kind[n] /\ graph.knob[m] = graph.knob[n] /\ deps[m] = d

NewDeps(n) == {Renamed(d) : d \in graph.deps[n]}

Survivors(n) == {m \in kept : IsPure(graph.kind[n]) /\ SameKey(n, m, NewDeps(n))}

\* optimize is handed a graph that DecisionGraph::new accepted.
Begin ==
    /\ pass = "load" /\ verdict = Accepted
    /\ pass' = "merge"
    /\ graph' = doc
    /\ queue' = doc.ids
    /\ deps' = doc.deps
    /\ UNCHANGED <<validationVars, kept, rewritten>>

\* A twin was kept before: n is dropped and its dependents will read the twin.
Merge ==
    /\ pass = "merge" /\ queue # {}
    /\ Survivors(First) # {}
    /\ \E m \in Survivors(First) :
          rewritten' = [d \in DOMAIN rewritten \cup {First} |-> IF d = First THEN m ELSE rewritten[d]]
    /\ queue' = queue \ {First}
    /\ UNCHANGED <<validationVars, graph, kept, deps, pass>>

\* The first of its kind: n is kept, with its dependencies rewritten.
Keep ==
    /\ pass = "merge" /\ queue # {}
    /\ Survivors(First) = {}
    /\ kept' = kept \cup {First}
    /\ deps' = [deps EXCEPT ![First] = NewDeps(First)]
    /\ queue' = queue \ {First}
    /\ UNCHANGED <<validationVars, graph, rewritten, pass>>

MergeDone ==
    /\ pass = "merge" /\ queue = {}
    /\ pass' = "dead"
    /\ UNCHANGED <<validationVars, graph, queue, kept, deps, rewritten>>

\* The walk starts from the input's own output node, so from the dependencies
\* it had before the merges, and then follows the rewritten ones; a name that
\* was merged away leads nowhere.
Step(n) == (IF n = Output THEN graph.deps[n] ELSE deps[n]) \cap kept

Live ==
    {n \in kept : \A S \in SUBSET kept :
        (Output \in S /\ \A m \in S : Step(m) \subseteq S) => n \in S}

\* Cache nodes are never eliminated.
Spared == Live \cup {n \in kept : graph.kind[n] = "cache"}

\* What is left goes through DecisionGraph::new once more.
DropDead ==
    /\ pass = "dead"
    /\ Reads([ids |-> Spared, kind |-> [n \in Spared |-> graph.kind[n]],
              knob |-> [n \in Spared |-> graph.knob[n]], deps |-> [n \in Spared |-> deps[n]],
              faulty |-> {}, repeats |-> {}, twice |-> FALSE])
    /\ pass' = "rebuild"
    /\ UNCHANGED <<graph, queue, kept, deps, rewritten>>

Check == pass \in {"load", "rebuild"} /\ Validate /\ UNCHANGED optimizerVars

Finished ==
    /\ step = "done" /\ (pass = "rebuild" \/ (pass = "load" /\ verdict # Accepted))
    /\ UNCHANGED vars

Init ==
    /\ ValidationInit
    /\ graph = doc
    /\ queue = {}
    /\ kept = {}
    /\ deps = doc.deps
    /\ rewritten = [n \in {} |-> 0]
    /\ pass = "load"

Next == Check \/ Begin \/ Merge \/ Keep \/ MergeDone \/ DropDead \/ Finished

Spec == Init /\ [][Next]_vars

-----------------------------------------------------------------------------
(* Properties.                                                             *)

Rebuilt == pass = "rebuild" /\ step = "done"

\* What each node computes when what its dependencies compute is given: its
\* kind, its knob and theirs.  An impure node is also told by its name.
Layer(g, below) ==
    [n \in g.ids |-> <<g.kind[n], g.knob[n], IF IsPure(g.kind[n]) THEN 0 ELSE n,
                       {below[d] : d \in g.deps[n]}>>]

\* What the nodes of g compute, unfolded k levels deep.
Terms(g) ==
    LET T[k \in Nat] == Layer(g, IF k = 0 THEN [n \in g.ids |-> {}] ELSE T[k - 1])
    IN  T

\* What an optimized graph computes along its dependencies: the output and every
\* cache node of the input are still there and compute the same from the same,
\* twins counting as one.  (Nothing is said of what a node does to the run
\* besides: a rule or a deciding node that leads nowhere is dropped.)
SameFromSame ==
    LET depth == Cardinality(graph.ids)
        before == Terms(graph)[depth]
        after == Terms(doc)[depth]
    IN  \A n \in graph.ids :
            graph.kind[n] \in {"output", "cache"} => n \in doc.ids /\ after[n] = before[n]

\* Merges and eliminations (optimize.rs merge_common, eliminate_dead) keep those
\* terms and the shape of the graph: no cycle, second entry or bad output comes
\* of them.  The rebuild, of which optimize says that it cannot fail, fails
\* exactly when a node that is left names one that is gone.
TermsAndShapeKept ==
    Rebuilt =>
        /\ verdict = Accepted <=> \A n \in doc.ids : doc.deps[n] \subseteq doc.ids
        /\ verdict = Accepted => SameFromSame

=============================================================================
