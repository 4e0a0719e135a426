------------------------------ MODULE MCEvidence ------------------------------
(* Small instances of the evidence layer.                                  *)
EXTENDS EvidenceReadings

MCUnit == 4

Reads(k) == {r \in [1 .. k -> 0 .. MCUnit] : Total(r) = MCUnit}
OneHot(k) == {[c \in 1 .. k |-> IF c = w THEN MCUnit ELSE 0] : w \in 1 .. k}

\* Three candidates read in every way, four and five as clear votes: three reads
\* of five are the fewest that can certify, three of four may leave a draw.
MCInnerReads(k) == IF k <= 3 THEN Reads(k) ELSE OneHot(k)

Early(n, part, of) == [on |-> TRUE, k_min |-> n, alpha |-> [part |-> part, of |-> of]]
Never == [on |-> FALSE, k_min |-> 1, alpha |-> [part |-> 1, of |-> 100]]
MCRotations ==
    {[k |-> 3, early |-> e, combine |-> c] :
        e \in {Never, Early(1, 1, 5)}, c \in {"LogMean", "ArithmeticMean"}}
    \cup {[k |-> 5, early |-> e, combine |-> "LogMean"] : e \in {Early(2, 1, 10), Early(3, 2, 5)}}
    \cup {[k |-> 4, early |-> Early(2, 1, 5), combine |-> "ArithmeticMean"]}
    \cup {[k |-> 1, early |-> Never, combine |-> "LogMean"]}

Sentences == [bytes : {4, 9, 30}, score : {0, 1, 2}, mentions : {FALSE}]
             \cup {[bytes |-> 9, score |-> 0, mentions |-> TRUE]}
MCViews ==
    {[state |-> [text |-> [parts |-> p, blank |-> b], facts |-> {"f"}, images |-> 1], budget |-> n] :
        p \in BoundedSeq(Sentences, 3), b \in {0, 8}, n \in {0, 2, 5, 9}}

MCNames == {"a", "b", "c"}
MCStatuses == [w \in {"ok", "down"} |-> IF w = "ok" THEN "Healthy" ELSE "Down"]
MCDates == [w \in {"feb28", "feb29", "feb29bad"} |->
              CASE w = "feb28" -> <<2024, 2, 28, 9, 0>> [] w = "feb29" -> <<2024, 2, 29, 0, 0>>
                [] OTHER -> <<2100, 2, 29, 0, 0>>]
Lines == {<<x, "depends", "on", y>> : x, y \in MCNames} \cup {<<x, "is", "down">> : x \in MCNames}
         \cup {<<"a", ":", "ok", "down">>, <<"b", ":", "down">>, <<"b", "is", "ok">>,
               <<"b", "restores-after", "c">>, <<"c", "restores-after", "a">>,
               <<"a", "depends", "on", "feb28">>, <<"b", "is", "unwell">>}
Times == {<<x, "due", n, d>> : x \in {"a", "b"}, n \in {"by", "on"}, d \in DOMAIN MCDates}
MCBoards ==
    {[sentences |-> s, candidates |-> C] :
        s \in [1 .. 3 -> Lines] \cup [1 .. 2 -> Lines \cup Times] \cup [1 .. 1 -> Lines \cup Times],
        C \in {MCNames, {"b", "c"}, {"a"}}}

\* 1000 ln (1 + (n - seen + 0.5) / (seen + 0.5))
MCTermWeight(n, seen) ==
    CASE n = 1 -> 288
      [] n = 2 -> (IF seen = 1 THEN 693 ELSE 182)
      [] n = 3 -> (IF seen = 1 THEN 981 ELSE IF seen = 2 THEN 470 ELSE 134)
MCVectorOf(words) == [i \in 1 .. 2 |-> Frequency(<<"x", "y">>[i], words)]

\* Repeating a word twelve times takes a score past the cap.
Often == [i \in 1 .. 12 |-> "x"]
Descriptions == {<<>>, <<"x">>, <<"x", "y">>, <<"the", "y", "y">>, <<"x", "z", "z", "z">>}
Listed(ids, words) == [i \in DOMAIN ids |-> [id |-> ids[i], words |-> words[i]]]
Candidates ==
    {Listed(i, w) : i \in {<<1, 2>>, <<2, 1>>}, w \in [1 .. 2 -> Descriptions]}
    \cup {Listed(i, w) : i \in {<<1, 2, 3>>, <<3, 1, 2>>, <<2, 1, 3>>}, w \in {<<<<"x">>, <<"x", "y">>, <<"z">>>>, <<<<"y">>, <<"x">>, <<"x">>>>,
                                                    <<<<"x", "y">>, <<"x">>, <<"z">>>>, <<<<"x">>, <<"x">>, <<"y">>>>,
                                                    <<<<"z">>, <<"x">>, <<"x", "y">>>>}}
Scoring(mode, text, state, candidates) ==
    [mode |-> mode, text |-> text, state |-> state, candidates |-> candidates, prebuilt |-> Unbuilt, lost |-> 0]
Prebuilt(s, documents) == [s EXCEPT !.prebuilt = Bm25Index(documents)]
MCScorings ==
    {Scoring(m, t, s, c) : m \in {"choice", "rerank", "rerank_embedding"}, t \in {<<>>, <<"the", "x">>},
                           s \in {<<>>, <<"y">>, Often}, c \in Candidates}
    \cup {Scoring("score", <<"x">>, s, c) : s \in {<<"y">>, Often}, c \in Candidates}
    \cup {[Scoring("rerank_embedding", <<"x">>, <<>>, c) EXCEPT !.lost = 1] : c \in Candidates}
    \cup {Prebuilt(Scoring("choice", <<"x">>, <<"y">>, Listed(<<1, 2>>, <<<<"x">>, <<"y">>>>)), d) :
            d \in {<<<<"x">>, <<"y">>>>, <<<<"y">>, <<"x">>>>, <<<<"x">>>>}}
    \cup {Scoring("boolean", t, s, <<>>) :
            t \in {<<"x">>, <<"not", "x">>, <<"never", "not", "x">>, <<"the">>}, s \in {<<>>, <<"x">>, <<"y", "x">>, Often \o Often}}

MCSamples == BoundedSeq([p_true : {60, 120, 199, 200}, label : BOOLEAN], 3)

Artifact ==
    [format |-> 1, scheme |-> "temperature", version |-> 1, model |-> "m", default |-> 1,
     exponents |-> [c \in {"boolean"} |-> 2], fit |-> [items |-> 200, before |-> Unset, after |-> Unset]]
Artifacts ==
    {Artifact, [Artifact EXCEPT !.version = 0], [Artifact EXCEPT !.scheme = "platt"],
     [Artifact EXCEPT !.exponents = [c \in {"boolean"} |-> 0]],
     [Artifact EXCEPT !.fit = [items |-> 199, before |-> 2, after |-> 1]],
     [Artifact EXCEPT !.fit = [items |-> 200, before |-> 1, after |-> 2]],
     [Artifact EXCEPT !.fit = [items |-> 200, before |-> 2, after |-> 1]]}
Overrides(keys) == {Empty} \cup {[k \in {x} |-> 70] : x \in keys}
MCProfiles ==
    {[id |-> i, per_node |-> n, per_kind |-> k, per_family |-> f, calibrations |-> c] :
        i \in {"", "none", "fit-1"}, n \in Overrides({"n"}), k \in Overrides({"boolean", "choice"}),
        f \in Overrides({"fam", "not a name"}),
        c \in {Empty} \cup {[r \in {<<l, "n">>} |-> [artifact |-> a, proof_aware |-> aware]] :
                              l \in {"node", "kind"}, a \in Artifacts, aware \in BOOLEAN}}
MCSpreads == {<<4>>, <<3, 1>>, <<2, 2>>}
==============================================================================
