------------------------------ MODULE TokenMerge ------------------------------
(***************************************************************************)
(* BpeTokenizer (kai.rs): best-first byte-pair merging with a heap of      *)
(* (rank, position, version) entries that are never removed when they go   *)
(* stale, only recognised as stale when they are popped.  A symbol is a    *)
(* tuple of base characters; positions count from 1.                       *)
(***************************************************************************)
EXTENDS Integers, Sequences, FiniteSets, SequencesExt

CONSTANTS Merges,      \* the merge list of the tokenizer file, pairs of symbols
          Vocabulary   \* the symbols that have an id

ASSUME MergesAssumption == Merges \in Seq(ToSet(Merges))

\* The merge table.  A pair gets the size of the table at its insertion, and a
\* repeated pair is inserted again.
Listed(pair) == {i \in DOMAIN Merges : Merges[i] = pair}
RankOf(pair) ==
    LET last == CHOOSE i \in Listed(pair) : \A j \in Listed(pair) : j <= i
    IN  Cardinality({Merges[j] : j \in 1 .. last - 1})
Mergeable(pair) == Listed(pair) # {}

\* The live position after (before) i, or one past the end (zero).
After(m, i) ==
    LET live == {j \in i + 1 .. Len(m.symbols) : m.alive[j]}
    IN  IF live = {} THEN Len(m.symbols) + 1 ELSE CHOOSE j \in live : \A k \in live : j <= k
Before(m, i) ==
    LET live == {j \in 1 .. i - 1 : m.alive[j]}
    IN  IF live = {} THEN 0 ELSE CHOOSE j \in live : \A k \in live : j >= k

\* Pair (i, j) is pushed when it has a rank.
Entry(m, i, j) ==
    IF i < 1 \/ j > Len(m.symbols) \/ ~Mergeable(<<m.symbols[i], m.symbols[j]>>) THEN {}
    ELSE {<<RankOf(<<m.symbols[i], m.symbols[j]>>), i, m.versions[i]>>}

\* The start of encode: one symbol per character, every adjacent pair pushed.
Start(text) ==
    LET n == Len(text)
        m == [symbols |-> [i \in 1 .. n |-> <<text[i]>>], alive |-> [i \in 1 .. n |-> TRUE],
              versions |-> [i \in 1 .. n |-> 0], queue |-> {}, failed |-> FALSE]
    IN  [m EXCEPT !.queue = UNION {Entry(m, i, i + 1) : i \in 1 .. n - 1}]

\* The heap's minimum.  Equal entries would be the same merge twice, the second
\* stale, so the heap is a set.
Lowest(queue) ==
    CHOOSE e \in queue : \A f \in queue :
        \/ e[1] < f[1]
        \/ e[1] = f[1] /\ e[2] < f[2]
        \/ e[1] = f[1] /\ e[2] = f[2] /\ e[3] <= f[3]

\* The two guards on a popped entry: the position still is what it was, and its
\* pair still has the rank it was pushed with.
Applies(m, e) ==
    LET next == After(m, e[2])
    IN  /\ m.alive[e[2]] /\ m.versions[e[2]] = e[3]
        /\ next <= Len(m.symbols)
        /\ Mergeable(<<m.symbols[e[2]], m.symbols[next]>>)
        /\ RankOf(<<m.symbols[e[2]], m.symbols[next]>>) = e[1]

\* Mutant: the pair formed with the symbol before is not pushed again.
MergeForwardOnly(m, i) ==
    LET next == After(m, i)
        joined == m.symbols[i] \o m.symbols[next]
        n == [m EXCEPT !.symbols[i] = joined, !.alive[next] = FALSE, !.versions[i] = @ + 1]
    IN  IF joined \notin Vocabulary THEN [m EXCEPT !.failed = TRUE]
        ELSE [n EXCEPT !.queue = @ \cup Entry(n, i, After(n, next))]

\* The merge at position i with the live symbol after it; a joined symbol that
\* has no id fails the encoding.
MergeAt(m, i) ==
    LET next == After(m, i)
        joined == m.symbols[i] \o m.symbols[next]
        n == [m EXCEPT !.symbols[i] = joined, !.alive[next] = FALSE, !.versions[i] = @ + 1]
    IN  IF joined \notin Vocabulary THEN [m EXCEPT !.failed = TRUE]
        ELSE [n EXCEPT !.queue = @ \cup Entry(n, Before(n, i), i) \cup Entry(n, i, After(n, next))]

\* One pop of the heap.
Popped(m) ==
    LET e == Lowest(m.queue)
        rest == [m EXCEPT !.queue = @ \ {e}]
    IN  IF Applies(m, e) THEN MergeAt(rest, e[2]) ELSE rest

Finished(m) == m.queue = {} \/ m.failed

\* The symbols whose ids are returned.
Live(m) ==
    LET live == {j \in DOMAIN m.alive : m.alive[j]}
        nth(i) == CHOOSE j \in live : Cardinality({k \in live : k <= j}) = i
    IN  [i \in 1 .. Cardinality(live) |-> m.symbols[nth(i)]]
Unknown(m) == m.failed \/ \E j \in DOMAIN m.alive : m.alive[j] /\ m.symbols[j] \notin Vocabulary

-----------------------------------------------------------------------------
(* The definition of byte-pair encoding: again and again, the leftmost of  *)
(* the adjacent pairs of least rank is joined, until none can be; a joined *)
(* symbol without an id fails the encoding.                                *)

PairAt(s, i) == <<s[i], s[i + 1]>>
Pairs(s) == {i \in 1 .. Len(s) - 1 : Mergeable(PairAt(s, i))}
BestPair(s) ==
    CHOOSE i \in Pairs(s) : \A j \in Pairs(s) :
        \/ RankOf(PairAt(s, i)) < RankOf(PairAt(s, j))
        \/ RankOf(PairAt(s, i)) = RankOf(PairAt(s, j)) /\ i <= j

JoinBest(g) ==
    LET s == g.symbols
        i == BestPair(s)
        joined == s[i] \o s[i + 1]
    IN  IF g.failed \/ Pairs(s) = {} THEN g
        ELSE IF joined \notin Vocabulary THEN [g EXCEPT !.failed = TRUE]
        ELSE [g EXCEPT !.symbols = SubSeq(s, 1, i - 1) \o <<joined>> \o SubSeq(s, i + 2, Len(s))]

\* Each round shortens the text, so as many as it has characters are enough.
Greedy(s) ==
    LET after[n \in 0 .. Len(s)] ==
            IF n = 0 THEN [symbols |-> s, failed |-> FALSE] ELSE JoinBest(after[n - 1])
    IN  after[Len(s)]
==============================================================================
