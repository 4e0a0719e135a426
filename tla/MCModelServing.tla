---------------------------- MODULE MCModelServing ----------------------------
(* Small instances of the model rungs.                                     *)
EXTENDS ModelServing

T(ids) == [ids |-> ids, blank |-> ids = <<>>, ok |-> TRUE]
Spaces == [ids |-> <<"_">>, blank |-> TRUE, ok |-> TRUE]
Garbled == [ids |-> <<>>, blank |-> FALSE, ok |-> FALSE]

Option(k, ids) == [key |-> k, text |-> T(ids)]
Choice2 == [kind |-> "choice", text |-> T(<<"q">>), options |-> <<Option("a", <<"x">>), Option("b", <<>>)>>]
Choice3 == [kind |-> "choice", text |-> T(<<"q", "r">>),
            options |-> <<Option("a", <<"x", "y", "z">>), Option("b", <<"x">>), Option("c", <<"y", "y">>)>>]
Levels(n) == [kind |-> "score", text |-> T(<<"how">>),
              options |-> [i \in 1 .. n |-> Option(ToString(i), <<"l">>)]]
YesNo == [kind |-> "boolean", text |-> T(<<"q", "r", "s", "t">>), options |-> <<>>]
Single == [Choice2 EXCEPT !.options = <<Option("a", <<"x">>)>>]
NoKey == [Choice2 EXCEPT !.options[1].key = ""]
Unasked == [Choice2 EXCEPT !.text = Spaces]
Unread == [Choice2 EXCEPT !.options[1].text = Garbled]
Decisions == {Choice2, Choice3, Levels(5), Levels(6), YesNo, Single, NoKey, Unasked, Unread}

Texts2 == {T(<<>>), T(<<"s">>), T(<<"s", "u", "v">>), Garbled}
States == [text : Texts2, facts : {FALSE}] \cup {[text |-> T(<<"s">>), facts |-> TRUE]}
Short == [text |-> T(<<"s">>), facts |-> FALSE]
Long == [text |-> T(<<"s", "u", "v">>), facts |-> FALSE]

File(name, demands) == [name |-> name, loads |-> TRUE, demands |-> demands]
Kai(asked) == [kind |-> "kai", asked |-> asked, graph |-> File("kai.onnx", {})]
One(kind, s, d) == [kind |-> kind, asked |-> <<[state |-> s, d |-> d]>>, graph |-> File(kind, {})]
Tower(kind, asked, demands) == [kind |-> kind, asked |-> asked, graph |-> File(kind, demands)]
Broken(job) == [job EXCEPT !.graph.loads = FALSE]
Rows == {<<"p">>, <<"p", "r">>, <<"p", "r", "s", "s">>, <<>>}
Image(n, r, w, h) == [name |-> n, readable |-> r, width |-> w, height |-> h]
Images == {Image("i", TRUE, 2, 5), Image("j", TRUE, 7, 2), Image("k", TRUE, 3, 3), Image("l", FALSE, 3, 3),
           Image("m", TRUE, 1, 9)}
TextInputs == {{"input_ids"}, {"input_ids", "attention_mask"}, {"input_ids", "token_type_ids"}, {"pixel_values"}}

\* Two callers share a backend: batches of several sizes and kinds of question.
Firsts == {[state |-> Long, d |-> Choice2], [state |-> Short, d |-> Levels(5)],
           [state |-> Short, d |-> YesNo]}
Pool == [state : {Short, Long}, d : {Choice2, Levels(5), YesNo}]
Paired == {Kai(<<f, g>>) : f, g \in Pool}
Triple == {Kai(<<[state |-> Short, d |-> Choice3], f, g>>) : f, g \in Firsts}
MCBatches ==
    {{k} : k \in Paired \cup {Kai(<<>>)}} \cup {{k} : k \in Triple}
    \cup {{One("kai", s, d)} : s \in States, d \in Decisions}
    \cup {{One("julia", s, d)} : s \in States, d \in Decisions}
    \cup {{One("nli", s, d), One("nli", Short, Choice3)} :
            s \in {Short, Long}, d \in {Choice2, Choice3, YesNo, Levels(5)}}
    \cup {{Tower("siglip", r, {"input_ids"})} : r \in [1 .. 2 -> Rows]}
    \cup {{Tower("siglip", r, d)} : r \in {<<>>, <<<<"p">>>>}, d \in TextInputs}
    \cup {{Tower("pixels", i, {"pixel_values"})} : i \in [1 .. 2 -> Images]}
    \cup {{Tower("pixels", <<>>, {"pixel_values"})}, {Tower("pixels", <<Image("i", TRUE, 2, 5)>>, {"pixels"})}}
    \cup {{Broken(Kai(<<>>))}, {Broken(One("julia", Short, YesNo))}, {Broken(One("nli", Short, YesNo))},
          {Broken(Tower("siglip", <<>>, {"input_ids"}))}}

-----------------------------------------------------------------------------
Counts == 0 .. 4
AskedOf == {Choice2, Choice3, YesNo, Levels(3)}
Manifest(id) == [readable |-> TRUE, model_id |-> id, format |-> "onnx", revision |-> "1", hex |-> TRUE,
                 sha256 |-> 1]
Artifacts == {"vision", "text", "tokenizer", "config"}
Graphs_ == [vision |-> File("v.onnx", {"pixel_values"}), text |-> File("t.onnx", {"input_ids"}),
            nli |-> File("n.onnx", {"input_ids", "attention_mask"})]
Directory ==
    [bytes |-> [a \in Artifacts |-> 1],
     manifest |-> [a \in Artifacts |-> Manifest(IF a \in DOMAIN Graphs_ THEN <<a, Graphs_[a].name>> ELSE <<a>>)],
     config |-> [image_size |-> 256, hidden_size |-> 768], tokenizer |-> TRUE, graph |-> Graphs_]
Directories ==
    {Directory, [Directory EXCEPT !.bytes["text"] = 2], [Directory EXCEPT !.manifest["config"].hex = FALSE],
     [Directory EXCEPT !.config.image_size = 0], [Directory EXCEPT !.manifest["vision"].model_id = <<"vision", "old">>],
     [Directory EXCEPT !.tokenizer = FALSE], [Directory EXCEPT !.graph.text.loads = FALSE],
     [Directory EXCEPT !.graph.text.demands = {"input_ids", "attention_mask"}]}
Body(shape, f) == [choice |-> TRUE, shape |-> shape, distribution |-> f]
Responses(d) ==
    {[status |-> "ok", body |-> Body("object", f)] :
        f \in [ToSet(AnswersOf(d)) -> -1 .. 1] \cup [{"a"} -> 0 .. 1]
              \cup [ToSet(AnswersOf(d)) \cup {"other"} -> {1}]}
    \cup {[status |-> "ok", body |-> Body("none", <<>>)], [status |-> "ok", body |-> Body("array", <<>>)],
          [status |-> "ok", body |-> [Body("object", <<>>) EXCEPT !.choice = FALSE]]}
    \cup [status : {"lost", "refused", "not_json"}, body : {Body("none", <<>>)}]
MCAsks ==
    [rung : {"embedding", "candidates"}, d : AskedOf, returned : Counts]
    \cup [rung : {"vision"}, d : AskedOf, images : 0 .. 2, pooled : 0 .. 2, returned : Counts]
    \cup UNION {[rung : {"llama"}, d : {d}, response : Responses(d)] : d \in AskedOf}
    \cup [rung : {"window"}, width : 0 .. 9, height : 0 .. 9, side : 1 .. 5]
    \cup [rung : {"load", "load_nli"}, dir : Directories]
    \cup [rung : {"connect"}, url : [scheme : {"http", "https"}, host : {"", "h"}]]
    \cup [rung : {"parity"}, expected : [1 .. 2 -> 0 .. 2], masses : [1 .. 1 -> 0 .. 2]]

-----------------------------------------------------------------------------
\* Merges whose results are pairs of later and of earlier merges, one listed
\* twice, and one whose result has no id.
MCMerges == <<<<<<"a">>, <<"b">>>>, <<<<"b">>, <<"a">>>>, <<<<"a", "b">>, <<"a">>>>,
              <<<<"a">>, <<"a", "b">>>>, <<<<"b">>, <<"a">>>>, <<<<"a", "b">>, <<"a", "b">>>>,
              <<<<"a", "b", "a">>, <<"b">>>>, <<<<"b">>, <<"b">>>>>>
MCVocabulary ==
    {<<"a">>, <<"b">>, <<"a", "b">>, <<"b", "a">>, <<"a", "b", "a">>, <<"a", "a", "b">>,
     <<"a", "b", "a", "b">>}
MCTexts == UNION {[1 .. n -> {"a", "b"}] : n \in 0 .. 7}
==============================================================================
