--------------------------- MODULE DecisionGraph ---------------------------
(***************************************************************************)
(* Validation of a declared decision graph (graph.rs DecisionGraph::new),  *)
(* one action per check in the order the code makes them, with the loop of *)
(* Kahn's algorithm (waves_for) wave by wave.                              *)
(*                                                                         *)
(* Of NodeSpec::validate only its verdict is kept: `faulty' are the nodes  *)
(* whose fields contradict their kind.  A dependency list is a set, with   *)
(* `repeats' the nodes that name one dependency twice; `twice' says that   *)
(* some id is declared by two nodes.                                       *)
(***************************************************************************)
EXTENDS GraphDefs, Sequences

CONSTANT Documents    \* graph documents to read

ASSUME DocumentAssumption ==
    \A g \in Documents :
        /\ IsFiniteSet(g.ids) /\ g.ids \subseteq Nat
        /\ g.faulty \subseteq g.ids /\ g.repeats \subseteq g.ids /\ g.twice \in BOOLEAN
        /\ g.deps \in [g.ids -> SUBSET Nat]

VARIABLES
    doc,         \* the document being validated
    step,        \* the check to make next
    remaining,   \* node -> dependencies not yet placed
    current,     \* the wave being placed
    waves,       \* waves placed so far
    verdict      \* what DecisionGraph::new returns

validationVars == <<doc, step, remaining, current, waves, verdict>>

Accepted == [result |-> "ok"]
Undecided == [result |-> "undecided"]

Least(S) == CHOOSE n \in S : \A m \in S : n <= m

Reject(error, n) ==
    /\ verdict' = [result |-> error, node |-> n]
    /\ step' = "done"
    /\ UNCHANGED <<doc, remaining, current, waves>>

\* An empty document has no output; every node's fields agree with its kind;
\* no id is declared twice.
BadNode == doc.ids = {} \/ doc.faulty # {} \/ doc.twice

CheckNodes ==
    /\ step = "nodes"
    /\ IF BadNode THEN Reject("node", 0)
       ELSE step' = "deps" /\ UNCHANGED <<doc, remaining, current, waves, verdict>>

\* No dependency is named twice by one node or names no node.
BadDeps == {n \in doc.ids : n \in doc.repeats \/ ~(doc.deps[n] \subseteq doc.ids)}

CheckDeps ==
    /\ step = "deps"
    /\ IF BadDeps # {} THEN Reject("dependency", Least(BadDeps))
       ELSE /\ step' = "waves"
            /\ remaining' = [n \in doc.ids |-> Cardinality(doc.deps[n])]
            /\ current' = Roots(doc)
            /\ UNCHANGED <<doc, waves, verdict>>

\* The counter of n once every node of the current wave has decremented its
\* dependents.
Dropped(n) == remaining[n] - Cardinality(doc.deps[n] \cap current)

\* Mutant: any placed dependency frees a node.
FreedEarly == {n \in doc.ids : doc.deps[n] \cap current # {} /\ remaining[n] # 0}

\* Nodes whose counter reaches zero in this wave.
Freed == {n \in doc.ids : remaining[n] # 0 /\ Dropped(n) = 0}

PlaceWave ==
    /\ step = "waves" /\ current # {}
    /\ waves' = Append(waves, current)
    /\ remaining' = [n \in doc.ids |-> Dropped(n)]
    /\ current' = Freed
    /\ UNCHANGED <<doc, step, verdict>>

Placed == UNION {waves[i] : i \in 1 .. Len(waves)}

\* Mutant: a leftover node is only an error when nothing at all was placed.
LeftoverAll == IF Placed = {} THEN doc.ids ELSE {}

\* The nodes a cycle keeps from being placed.
Leftover == {n \in doc.ids : remaining[n] > 0}

CheckCycle ==
    /\ step = "waves" /\ current = {}
    /\ IF Leftover # {} THEN Reject("cycle", Least(Leftover))
       ELSE step' = "roots" /\ UNCHANGED <<doc, remaining, current, waves, verdict>>

TooManyRoots == Cardinality(Roots(doc)) > 1

\* A single entry node.  With no entry at all the graph was already cyclic.
CheckRoots ==
    /\ step = "roots"
    /\ IF TooManyRoots THEN Reject("roots", 0)
       ELSE IF Roots(doc) = {} THEN Reject("cycle", Least(doc.ids))
       ELSE step' = "reach" /\ UNCHANGED <<doc, remaining, current, waves, verdict>>

\* reachable_from: everything the first root's dependents lead to.
ReachableFrom(r) == {n \in doc.ids : n = r \/ r \in AncestorsOf(doc, n)}

CheckReach ==
    /\ step = "reach"
    /\ LET lost == doc.ids \ ReachableFrom(Least(Roots(doc)))
       IN  IF lost # {} THEN Reject("unreachable", Least(lost))
           ELSE step' = "output" /\ UNCHANGED <<doc, remaining, current, waves, verdict>>

\* Exactly one output node, with a dependency and without dependents.
BadOutput ==
    \/ Cardinality(Outputs(doc)) # 1
    \/ doc.deps[Least(Outputs(doc))] = {}
    \/ DependentsOf(doc, Least(Outputs(doc))) # {}

CheckOutput ==
    /\ step = "output"
    /\ IF BadOutput THEN Reject("output", 0)
       ELSE /\ verdict' = Accepted /\ step' = "done"
            /\ UNCHANGED <<doc, remaining, current, waves>>

\* DecisionGraph::new begins to read document d.
Reads(d) ==
    /\ doc' = d
    /\ step' = "nodes"
    /\ remaining' = [n \in d.ids |-> 0]
    /\ current' = {}
    /\ waves' = <<>>
    /\ verdict' = Undecided

ValidationInit ==
    /\ doc \in Documents
    /\ step = "nodes"
    /\ remaining = [n \in doc.ids |-> 0]
    /\ current = {}
    /\ waves = <<>>
    /\ verdict = Undecided

\* The next check of DecisionGraph::new.
Validate ==
    \/ CheckNodes \/ CheckDeps \/ PlaceWave \/ CheckCycle \/ CheckRoots \/ CheckReach
    \/ CheckOutput

-----------------------------------------------------------------------------
(* Properties.                                                             *)

\* The checks together accept exactly the documents of the documented shape:
\* acyclic, one entry, one terminal output.
VerdictMatchesReference ==
    step = "done" =>
        (verdict = Accepted <=> ~BadNode /\ doc.repeats = {} /\ WellFormed(doc))

\* The waves of an accepted graph are its levels: every node is in one wave and
\* that wave is the first one after all its dependencies, which is what lets
\* the executor run a wave's nodes in parallel and lets none wait needlessly.
WavesAreLevels ==
    verdict = Accepted =>
        /\ Placed = doc.ids
        /\ \A i \in 1 .. Len(waves), n \in doc.ids :
              n \in waves[i] <=> /\ doc.deps[n] \subseteq UNION {waves[j] : j \in 1 .. i - 1}
                                 /\ i > 1 => doc.deps[n] \cap waves[i - 1] # {}
                                 /\ i = 1 => doc.deps[n] = {}

=============================================================================
