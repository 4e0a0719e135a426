-------------------------- MODULE MCGraphOptimizer --------------------------
(***************************************************************************)
(* Documents to validate: every dependency relation on three nodes, with   *)
(* self-loops and an unknown dependency, every one without self-loops on   *)
(* four nodes, malformed nodes.  Graphs to optimize: every single-entry    *)
(* graph of five nodes over five inner kinds, under orders of the ids that *)
(* agree with the dependencies, oppose them and mix.                       *)
(***************************************************************************)
EXTENDS GraphOptimizer

Ghost == 9    \* an id no node declares

Document(ids, outputs, edges, faulty, repeats, twice) ==
    [ids |-> ids, kind |-> [n \in ids |-> IF n \in outputs THEN "output" ELSE "rule"],
     knob |-> [n \in ids |-> 0], deps |-> edges, faulty |-> faulty, repeats |-> repeats, twice |-> twice]

Three ==
    {Document(1 .. 3, o, d, {}, {}, FALSE) :
        o \in {{}, {1}, {3}, {2, 3}},
        d \in {f \in [1 .. 3 -> SUBSET {1, 2, 3, Ghost}] : Ghost \notin f[1] \cup f[3]}}

Four ==
    {Document(1 .. 4, {4}, d, {}, {}, FALSE) :
        d \in {f \in [1 .. 4 -> SUBSET (1 .. 4)] : \A n \in 1 .. 4 : n \notin f[n]}}

Malformed ==
    {Document(1 .. 2, {2}, [n \in 1 .. 2 |-> {m \in {1} : m < n}], f, r, t) :
        f \in SUBSET (1 .. 2), r \in SUBSET {2}, t \in BOOLEAN}
    \cup {Document({}, {}, [n \in {} |-> {}], {}, {}, FALSE)}

\* The id of the node at each topological position.
Orders == {<<1, 2, 3, 4, 5>>, <<5, 4, 3, 2, 1>>, <<3, 2, 4, 5, 1>>}

Inner == {<<"rule", 0>>, <<"rule", 1>>, <<"boolean", 0>>, <<"branch", 0>>, <<"cache", 0>>}

\* Dependencies by position: the entry is first, everyone else has some.
Shapes ==
    {<<{}, {1}, a, b, c>> : a \in SUBSET (1 .. 2) \ {{}}, b \in SUBSET (1 .. 3) \ {{}},
                            c \in SUBSET (1 .. 4) \ {{}}}

PositionOf(order, n) == CHOOSE p \in 1 .. 5 : order[p] = n

Graph(order, shape, inner) ==
    LET spec == <<<<"normalize", 0>>>> \o inner \o <<<<"output", 0>>>>
    IN  [ids  |-> 1 .. 5,
         kind |-> [n \in 1 .. 5 |-> spec[PositionOf(order, n)][1]],
         knob |-> [n \in 1 .. 5 |-> spec[PositionOf(order, n)][2]],
         deps |-> [n \in 1 .. 5 |-> {order[p] : p \in shape[PositionOf(order, n)]}],
         faulty |-> {}, repeats |-> {}, twice |-> FALSE]

\* Nodes 2 and 3 over every pair of kinds, node 4 over two.
SmallGraphs ==
    {Graph(order, shape, <<x, y, z>>) :
        order \in Orders, shape \in {s \in Shapes : 4 \in s[5] /\ 1 \notin s[5]},
        x \in Inner, y \in Inner, z \in {<<"rule", 0>>, <<"boolean", 0>>}}

AllDocuments == Three \cup Four \cup Malformed \cup SmallGraphs
=============================================================================
