----------------------------- MODULE GraphDefs -----------------------------
(***************************************************************************)
(* Graph documents and what makes one well-formed, stated as properties of *)
(* the dependency relation: the reference that DecisionGraph::new is       *)
(* checked against and the optimizer's rebuild is judged by.               *)
(*                                                                         *)
(* A document has ids (numbers, so that the sort by id is an order), a     *)
(* kind per node and the set of dependencies of each node.                 *)
(***************************************************************************)
EXTENDS Naturals, FiniteSets

\* Sets closed under dependencies that contain those of n.
ClosedFrom(g, n) ==
    {S \in SUBSET g.ids : g.deps[n] \subseteq S /\ \A m \in S : g.deps[m] \subseteq S}

\* The nodes n transitively depends on.
AncestorsOf(g, n) == {m \in g.ids : \A S \in ClosedFrom(g, n) : m \in S}

\* Every non-empty set of nodes has one that depends on none of the others.
Acyclic(g) == \A S \in (SUBSET g.ids) \ {{}} : \E n \in S : g.deps[n] \cap S = {}

Roots(g) == {n \in g.ids : g.deps[n] = {}}
Outputs(g) == {n \in g.ids : g.kind[n] = "output"}
DependentsOf(g, n) == {m \in g.ids : n \in g.deps[m]}

\* The shape graph.rs's module documentation describes.
WellFormed(g) ==
    /\ \A n \in g.ids : g.deps[n] \subseteq g.ids
    /\ Acyclic(g)
    /\ Cardinality(Roots(g)) = 1
    /\ Cardinality(Outputs(g)) = 1
    /\ \A o \in Outputs(g) : g.deps[o] # {} /\ DependentsOf(g, o) = {}
=============================================================================
