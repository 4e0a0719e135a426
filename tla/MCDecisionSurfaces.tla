-------------------------- MODULE MCDecisionSurfaces --------------------------
(* Small instances of the surfaces: documents of every format, calls alone  *)
(* and side by side.                                                        *)
EXTENDS DecisionSurfaces

MCLimits == [input_bytes |-> 6, questions |-> 2, candidates |-> 3, graph_nodes |-> 4, retrieval |-> 1,
             time |-> 1, images |-> 1, image_bytes |-> 3]
MCEnvelope == [output |-> 11, content |-> 12, type |-> 13, input |-> 14, tool_use |-> 15]
MCCost == [skeleton |-> 2, flag |-> 1, entry |-> 2]
MCGuidance == <<1, 3, 2, 1>>
MCEvidence == {[trace |-> 0, in |-> <<>>, out |-> <<>>], [trace |-> 2, in |-> <<1>>, out |-> <<2, 2>>],
               [trace |-> 1, in |-> <<3, 3>>, out |-> <<>>]}

NoGraph == [typed |-> TRUE, nodes |-> 1, kinds |-> {"normalize"}, verdict |-> "valid"]
MCPipeline == [NoGraph EXCEPT !.nodes = 2]
NoFlags == [graph |-> {}, focus |-> {}, ladder |-> {}, llama |-> {}, vision |-> {}, policy |-> {}, image |-> <<>>,
            lenient |-> FALSE, bind |-> [parses |-> TRUE, loopback |-> TRUE, allowed |-> FALSE]]
J(surface, op, format, body) ==
    [surface |-> surface, op |-> op, format |-> format, body |-> body, graph |-> NoGraph,
     valid |-> TRUE, meant |-> {}, flags |-> NoFlags]

-----------------------------------------------------------------------------
\* Requests a client means, encoded by the client.
Choice(id) == Question("choice", id, 3, <<2, 1>>)
Boolean(id) == Question("boolean", id, 2, <<>>)
Score(id) == Question("score", id, 2, <<3, 1, 2>>)
Meaning(images, questions) ==
    NewRequest([FromText(2) EXCEPT !.images = images], questions, DefaultPolicy, MCLimits).v
Meant == {Meaning(<<>>, <<Choice(1)>>), Meaning(<<>>, <<Boolean(1)>>), Meaning(<<>>, <<Score(1)>>),
          Meaning(<<>>, <<Question("score", 1, 2, <<1, 2, 3>>)>>), Meaning(<<>>, <<Score(2), Boolean(1)>>), Meaning(<<2>>, <<Boolean(1)>>),
          Meaning(<<>>, <<Boolean(11)>>), Meaning(<<>>, <<Boolean(13)>>),
          [Meaning(<<>>, <<Boolean(1)>>) EXCEPT !.policy.escalate = {3}]}
Sent == {[J("http", "decide", format, Given(EncodeRequest(format, r, MCLimits).v)) EXCEPT !.meant = {r}] :
           format \in Formats, r \in Meant}

-----------------------------------------------------------------------------
\* OpenAI schemas.
P(type) == [has |-> {}, branches |-> Absent, type |-> type, enum |-> Absent, const |-> Absent, title |-> 2, note |-> Absent]
Enum(ids) == [P(Given("string")) EXCEPT !.enum = Given([i \in DOMAIN ids |-> Given(ids[i])])]
Levels(labels) == [P(Given("integer")) EXCEPT !.note = Given([marker |-> "levels", labels |-> labels])]
Const(v) == [P(Given("string")) EXCEPT !.has = {"const"}, !.title = 0, !.const = v]
\* Tables: one entry alone, and the anyOf of the entries behind it.
Alone(p) == <<Given(p)>>
AnyOf(ps) ==
    <<Given([P(Absent) EXCEPT !.has = {"anyOf"}, !.branches = Given([i \in DOMAIN ps |-> i + 1])])>>
    \o [i \in DOMAIN ps |-> Given(ps[i])]
\* An anyOf whose only branch is an anyOf of a constant and null.
Nested == <<Given([P(Absent) EXCEPT !.has = {"anyOf"}, !.branches = Given(<<2>>)]),
            Given([P(Absent) EXCEPT !.has = {"anyOf"}, !.branches = Given(<<3, 4>>)]),
            Given(Const(Given(1))), Given(P(Given("null")))>>
Properties ==
    {Alone(p) : p \in
       {Enum(<<1, 2>>), Enum(<<1, 1>>), Enum(<<>>), Enum(<<1, 2, 3, 4>>), Enum(<<9>>), P(Given("string")),
        [P(Given("string")) EXCEPT !.enum = Given(<<Wrong>>)], [P(Given("string")) EXCEPT !.enum = Wrong],
        P(Given("boolean")), [P(Given("boolean")) EXCEPT !.title = 0], P(Given("number")), P(Given("array")),
        P(Absent), P(Wrong), P(Given("integer")), Levels(Given(<<1, 2>>)), Levels(Given(<<1>>)), Levels(Wrong),
        Levels(Given(<<1, 0>>)), Levels(Given(<<1, 1>>)), [P(Given("boolean")) EXCEPT !.note = Wrong],
        [P(Given("boolean")) EXCEPT !.has = {"oneOf"}], Const(Given(1))}}
    \cup {AnyOf(<<Enum(<<1, 2>>), P(Given("null"))>>), AnyOf(<<Enum(<<1, 2>>), Enum(<<2, 1>>)>>),
          AnyOf(<<P(Given("null"))>>), AnyOf(<<P(Given("boolean")), P(Given("number"))>>),
          AnyOf(<<Const(Given(1)), P(Given("null"))>>), Nested}
Schema(properties) ==
    [has |-> {}, properties |-> Given(properties),
     required |-> Given(Cardinality(DOMAIN properties))]
OneQuestion == Schema(1 :> Alone(P(Given("boolean"))))
Text(n) == Given([kind |-> "text", text |-> n])
Parts(ps) == Given([kind |-> "parts", parts |-> ps])
OpenAi(input, facts, schema) == Given([input |-> input, facts |-> facts, schema |-> schema])
ContentParts ==
    {<<>>, <<TextPart(2), TextPart(1)>>, <<TextPart(1), ImagePart(2)>>, <<ImagePart(Unusable)>>,
     <<ImagePart(Elsewhere)>>, <<ImagePart(5)>>, <<ImagePart(1), ImagePart(1)>>, <<Wrong>>,
     <<Given([type |-> "audio", body |-> Absent])>>, <<Given([type |-> "text", body |-> Absent])>>}
Schemas ==
    {Schema(1 :> p) : p \in Properties} \cup
    {Schema(<<Alone(Enum(<<1>>)), Alone(P(Given("boolean"))), Alone(P(Given("boolean")))>>), Schema(<<>>),
     [OneQuestion EXCEPT !.required = Given(0)], [OneQuestion EXCEPT !.required = Absent],
     [OneQuestion EXCEPT !.properties = Wrong], [OneQuestion EXCEPT !.has = {"oneOf"}],
     [OneQuestion EXCEPT !.properties = Given(1 :> <<Wrong>>)]}
Facts == {Absent, Null, Wrong, Given(1 :> 2), Given(1 :> BadFact)}
OpenAiDocs ==
    {OpenAi(Text(2), Absent, Given(s)) : s \in Schemas}
    \cup {OpenAi(Parts(ps), Absent, Given(OneQuestion)) : ps \in ContentParts}
    \cup {OpenAi(Text(2), f, Given(OneQuestion)) : f \in Facts}
    \cup {OpenAi(Text(7), Absent, Given(OneQuestion)), OpenAi(Absent, Absent, Given(OneQuestion)),
          OpenAi(Wrong, Absent, Given(OneQuestion)), OpenAi(Text(1), Absent, Absent)}

-----------------------------------------------------------------------------
\* Anthropic requests.
Anthropic(facts, tools, messages, schema) ==
    Given([facts |-> facts, tools |-> tools, messages |-> messages, schema |-> schema])
Tool(s) == Given(<<Given(Given(s))>>)
Message(role, content) == Given([role |-> role, content |-> content])
Said == Given(<<Message("assistant", Text(5)), Message("user", Text(2)), Message("user", Text(1))>>)
AnthropicDocs ==
    {Anthropic(Absent, Tool(s), Said, Absent) : s \in Schemas}
    \cup {Anthropic(Absent, Tool(OneQuestion), Given(<<Message("user", Parts(ps))>>), Absent) : ps \in ContentParts}
    \cup {Anthropic(f, Tool(OneQuestion), Said, Absent) : f \in Facts}
    \cup {Anthropic(Absent, Absent, Absent, Given(OneQuestion)), Anthropic(Absent, Absent, Absent, Absent),
          Anthropic(Absent, Given(<<>>), Said, Absent), Anthropic(Absent, Wrong, Said, Absent),
          Anthropic(Absent, Given(<<Given(Absent)>>), Said, Absent),
          Anthropic(Absent, Tool(OneQuestion), Absent, Absent), Anthropic(Absent, Tool(OneQuestion), Wrong, Absent),
          Anthropic(Absent, Tool(OneQuestion), Given(<<Wrong>>), Absent),
          Anthropic(Absent, Tool(OneQuestion), Given(<<Message("user", Absent)>>), Absent),
          Anthropic(Absent, Tool(OneQuestion), Given(<<Message("user", Text(5)), Message("user", Text(5))>>), Absent)}

-----------------------------------------------------------------------------
\* Jev requests.
Jev(state, model, facts, questions) ==
    Given([state |-> state, model |-> model, facts |-> facts, questions |-> questions])
JevAsk(type, instructions, criteria) ==
    Given([type |-> type, instructions |-> instructions, criteria |-> criteria])
Written(qs) == Given([i \in DOMAIN qs |-> [id |-> i, question |-> qs[i]]])
Noul == JevAsk(Given("noul"), Given(2), Null)
JevQuestions ==
    {Noul, Wrong, JevAsk(Given("noul"), Given(0), Absent), JevAsk(Absent, Given(2), Absent),
     JevAsk(Wrong, Given(2), Absent), JevAsk(Given("noul"), Absent, Absent), JevAsk(Given("rank"), Given(2), Absent),
     JevAsk(Given("choice"), Given(2), Absent), JevAsk(Given("choice"), Given(0), Absent),
     JevAsk(Given("choice"), Given(2), Given(<<>>)), JevAsk(Given("choice"), Given(2), Given(<<2, 1>>)),
     JevAsk(Given("choice"), Given(2), Given(<<1, 2, 3, 4>>)), JevAsk(Given("choice"), Given(2), Given(<<9>>)),
     JevAsk(Given("score"), Given(2), Given(<<1>>)), JevAsk(Given("score"), Given(2), Given(<<1, 2, 3, 4>>)),
     JevAsk(Given("score"), Given(2), Given(<<2, 2>>)), JevAsk(Given("score"), Given(2), Given(<<2, 1>>)),
     JevAsk(Given("score"), Given(2), Given(<<1, 0>>))}
JevDocs ==
    {Jev(Given(2), Given(1), Absent, Written(<<q>>)) : q \in JevQuestions}
    \cup {Jev(Given(2), Given(1), f, Written(<<Noul>>)) : f \in Facts}
    \cup {Jev(Given(7), Given(1), Absent, Written(<<Noul>>)), Jev(Absent, Given(1), Absent, Written(<<Noul>>)),
          Jev(Given(2), Absent, Absent, Written(<<Noul>>)), Jev(Given(2), Given(1), Absent, Absent),
          Jev(Given(2), Given(1), Absent, Written(<<>>)), Jev(Given(2), Given(1), Absent, Written(<<Noul, Noul, Noul>>))}

-----------------------------------------------------------------------------
\* Native documents.
Plain == NativeEncodeRequest(Meaning(<<>>, <<Boolean(1)>>), MCLimits).v
RawLimits == Or(Plain.limits, {})
NativeDocs ==
    {Plain, [Plain EXCEPT !.policy = {}], [Plain EXCEPT !.limits = {}], [Plain EXCEPT !.extra = TRUE],
     [Plain EXCEPT !.images = {<<>>}], [Plain EXCEPT !.images = {<<2>>}], [Plain EXCEPT !.images = {<<4>>}],
     [Plain EXCEPT !.images = {<<1, 1>>}], [Plain EXCEPT !.text = 7], [Plain EXCEPT !.questions = <<>>],
     [Plain EXCEPT !.questions = <<Boolean(1), Boolean(1)>>],
     [Plain EXCEPT !.questions = <<Boolean(1), Boolean(2), Boolean(3)>>],
     [Plain EXCEPT !.questions = <<Question("choice", 1, 2, <<1, 2, 3, 4>>)>>],
     [Plain EXCEPT !.questions = <<Question("choice", 1, 2, <<>>)>>],
     [Plain EXCEPT !.questions = <<Question("choice", 1, 2, <<9>>)>>],
     [Plain EXCEPT !.questions = <<Question("score", 1, 2, <<1>>)>>],
     [Plain EXCEPT !.questions = <<Question("score", 1, 2, <<1, 1>>)>>],
     [Plain EXCEPT !.questions = <<Question("boolean", 0, 2, <<>>)>>],
     [Plain EXCEPT !.questions = <<Question("boolean", 1, 0, <<>>)>>],
     [Plain EXCEPT !.questions = <<Question("boolean", 1, 12, <<>>)>>],
     [Plain EXCEPT !.limits = {[RawLimits EXCEPT !.graph_nodes = 1]}],
     [Plain EXCEPT !.limits = {[RawLimits EXCEPT !.questions = 3]}],
     [Plain EXCEPT !.limits = {[RawLimits EXCEPT !.images = {1}]}],
     [Plain EXCEPT !.limits = {[RawLimits EXCEPT !.images = {4}]}, !.images = {<<1, 1>>}]}
    \cup {[Plain EXCEPT !.policy = {raw}] : raw \in
            LET p == RawPolicy(DefaultPolicy)
            IN  {[p EXCEPT !.margin = {0}], [p EXCEPT !.margin = {5}], [p EXCEPT !.min = 5], [p EXCEPT !.verify = 4],
                 [p EXCEPT !.entropy = {0}], [p EXCEPT !.ood = {Infinity}], [p EXCEPT !.threshold = {4}],
                 [p EXCEPT !.sentinel = {0}], [p EXCEPT !.overlap = {0}], [p EXCEPT !.escalate = {4}]}}

-----------------------------------------------------------------------------
\* Chat completions, definitions, graphs, feedback.
Chat(messages, format) == Given([messages |-> messages, format |-> format])
Format(type, properties, required) == Given([type |-> type, properties |-> properties, required |-> required])
Asking == Format("json_schema", Given(1 :> Alone(P(Given("boolean")))), Absent)
Heard(content) == Given(<<Message("system", Text(1)), Message("assistant", Text(5)), Message("user", content)>>)
ChatDocs ==
    {Chat(Heard(Text(2)), Asking), Chat(Absent, Asking), Chat(Heard(Absent), Asking), Chat(Given(<<>>), Asking),
     Chat(Heard(Text(2)), Absent), Chat(Heard(Text(2)), Format("text", Absent, Absent)),
     Chat(Heard(Text(2)), Format("json_schema", Absent, Absent)),
     Chat(Heard(Text(2)), Format("json_schema", Given(1 :> Alone(P(Given("boolean")))), Given(0)))}
    \cup {Chat(Heard(Parts(ps)), Asking) : ps \in ContentParts}

Definition(kind, levels, candidates) ==
    [id |-> 1, version |-> 1, kind |-> kind, text |-> 2, levels |-> levels, candidates |-> candidates, policy |-> {}]
Static(cs) == {[dynamic |-> FALSE, static |-> {cs}]}
Dynamic == {[dynamic |-> TRUE, static |-> {}]}
Stored(documents, id, candidates) == Given([documents |-> documents, id |-> id, text |-> 2, candidates |-> candidates])
RegistryDocs ==
    {Stored(<<Definition("choice", <<>>, Static(<<1, 2>>))>>, 1, cs) : cs \in {<<>>, <<3>>}}
    \cup {Stored(<<Definition("choice", <<>>, Dynamic)>>, 1, cs) : cs \in {<<>>, <<3>>, <<3, 3>>, <<1, 2, 3, 4>>}}
    \cup {Stored(<<d>>, 1, <<>>) : d \in
            {Definition("boolean", <<>>, {}), Definition("boolean", <<>>, Dynamic), Definition("score", <<1, 2>>, {}),
             Definition("score", <<1>>, {}), Definition("score", <<1, 0>>, {}), Definition("choice", <<>>, {}),
             Definition("choice", <<>>, Static(<<>>)), Definition("choice", <<>>, Static(<<9>>)),
             [Definition("boolean", <<>>, {}) EXCEPT !.version = 0], [Definition("boolean", <<>>, {}) EXCEPT !.id = 0],
             [Definition("boolean", <<>>, {}) EXCEPT !.text = 0],
             [Definition("boolean", <<>>, {}) EXCEPT !.text = 3, !.policy = {[RawPolicy(DefaultPolicy) EXCEPT !.min = 1]}]}}
    \cup {Stored(<<Definition("boolean", <<>>, {}), Definition("boolean", <<>>, {})>>, 1, <<>>), Stored(<<>>, 1, <<>>)}

Graphs == {NoGraph, [NoGraph EXCEPT !.typed = FALSE], [NoGraph EXCEPT !.nodes = 5],
           [NoGraph EXCEPT !.verdict = "graph.cycle"], [NoGraph EXCEPT !.kinds = {"embedding"}],
           [NoGraph EXCEPT !.kinds = {"retrieve"}]}
GraphJobs ==
    {[J(surface, op, "native", Given(Plain)) EXCEPT !.graph = g] :
       surface \in {"http", "mcp", "ffi", "wasm", "cli"}, op \in {"graph_validate", "graph_run"}, g \in Graphs}
    \ {[J(surface, "graph_run", "native", Given(Plain)) EXCEPT !.graph = g] : surface \in {"mcp", "cli"}, g \in Graphs}
Feedback == {Given([p |-> 2, source |-> "human"]), Given([p |-> 5, source |-> "human"]),
             Given([p |-> 2, source |-> "oracle"]), Wrong}
Args(state, question) == Given([state |-> state, id |-> 1, question |-> question])

\* Flags: of the servers, one set of which is in order, and of decide.
Ladder(id, overrides) == {Given([id |-> id, overrides |-> overrides])}
Llama(id, http) == {[id |-> id, http |-> http]}
RawDefault == RawPolicy(DefaultPolicy)
Bind(parses, loopback, allowed) == [parses |-> parses, loopback |-> loopback, allowed |-> allowed]
MCLaunches ==
    {[NoFlags EXCEPT !.bind = Bind(TRUE, FALSE, TRUE), !.policy = {RawDefault}],
     [NoFlags EXCEPT !.bind = Bind(TRUE, FALSE, FALSE)], [NoFlags EXCEPT !.bind = Bind(FALSE, FALSE, TRUE)],
     [NoFlags EXCEPT !.policy = {[RawDefault EXCEPT !.min = 5]}, !.bind = Bind(TRUE, TRUE, FALSE)],
     [NoFlags EXCEPT !.llama = Llama(Empty, TRUE)], [NoFlags EXCEPT !.graph = {Given([NoGraph EXCEPT !.nodes = 5])}],
     [NoFlags EXCEPT !.graph = {Wrong}]}
DecideFlags ==
    {NoFlags, [NoFlags EXCEPT !.lenient = TRUE], [NoFlags EXCEPT !.policy = {RawDefault}],
     [NoFlags EXCEPT !.policy = {[RawDefault EXCEPT !.min = 5]}], [NoFlags EXCEPT !.image = <<2>>],
     [NoFlags EXCEPT !.image = <<2>>, !.vision = {TRUE}], [NoFlags EXCEPT !.image = <<1, 1>>, !.vision = {TRUE}],
     [NoFlags EXCEPT !.image = <<5>>, !.vision = {TRUE}], [NoFlags EXCEPT !.image = <<Unusable>>],
     [NoFlags EXCEPT !.vision = {FALSE}], [NoFlags EXCEPT !.focus = {2}, !.llama = Llama(1, TRUE)],
     [NoFlags EXCEPT !.llama = Llama(1, FALSE)], [NoFlags EXCEPT !.llama = Llama(Empty, TRUE)],
     [NoFlags EXCEPT !.ladder = Ladder(1, 2)], [NoFlags EXCEPT !.ladder = Ladder(1, 0)],
     [NoFlags EXCEPT !.ladder = Ladder(Empty, 1)], [NoFlags EXCEPT !.ladder = {Wrong}]}
CliJobs ==
    {[J("cli", "decide", "native", Given(Plain)) EXCEPT !.flags = flags] : flags \in DecideFlags}
    \cup {[J("cli", "decide", "native", Given(Plain)) EXCEPT !.valid = FALSE], J("cli", "decide", "native", Wrong),
          J("cli", "decide", "jev", Given(JevEncodeRequest(Meaning(<<>>, <<Score(1)>>)).v)),
          J("cli", "decide", "native", Given([Plain EXCEPT !.text = 7]))}

\* The members of a set, in some order.
Listed(S) == FoldSet(LAMBDA x, s : Append(s, x), <<>>, S)

Judged(op, format, docs) == Listed({J("http", op, format, d) : d \in docs})

Batch(docs) == Given(Given(docs))
SideBySide ==
    << J("http", "feedback", "native", Given([p |-> 2, source |-> "human"])),
       J("ffi", "decide", "native", Wrong),
       [J("ffi", "decide", "native", Given(Plain)) EXCEPT !.valid = FALSE],
       J("ffi", "decide", "native", Given(Plain)),
       J("http", "decide", "native", Given(Plain)),
       J("http", "healthz", "native", Absent) >>

MCJobTable ==
    SideBySide \o << J("none", "none", "native", Absent) >>
    \o Listed({j \in Sent : j.format = "native"}) \o Listed({j \in Sent : j.format = "openai"})
    \o Listed({j \in Sent : j.format = "anthropic"}) \o Listed({j \in Sent : j.format = "jev"})
    \o Listed({[J("library", "decode_str", "jev", Given(JevEncodeRequestStr(r).v)) EXCEPT !.meant = {r}] : r \in Meant})
    \o Listed({J("library", "decode_str", "jev", d) : d \in JevDocs})
    \o Judged("validate", "openai", OpenAiDocs) \o Judged("validate", "anthropic", AnthropicDocs)
    \o Judged("validate", "jev", JevDocs) \o Judged("decide", "native", {Given(d) : d \in NativeDocs})
    \o Judged("chat", "openai", ChatDocs) \o Judged("feedback", "native", Feedback)
    \o Listed({J("library", "instantiate", "native", d) : d \in RegistryDocs})
    \o Listed(GraphJobs) \o Listed(CliJobs)
    \o Listed({J("http", op, "native", Absent) : op \in {"models", "capabilities"}})
    \o Listed({J(surface, op, "native", Absent) : surface \in {"ffi", "wasm"}, op \in {"identity", "new"}})
    \o << J("http", "decide", "toml", Wrong), J("http", "decide", "native", Wrong),
          [J("http", "decide", "native", Given(Plain)) EXCEPT !.valid = FALSE],
          J("mcp", "gate", "native", Args(2, 2)), J("mcp", "gate", "native", Args(2, 0)),
          J("mcp", "verify", "native", Given(Plain)), J("mcp", "explain", "native", Given(Plain)),
          J("mcp", "pipeline", "native", Absent), J("wasm", "decide", "native", Given(Plain)) >>
    \o [i \in 1..4 |-> J(<<"http", "mcp", "ffi", "wasm">>[i], "batch", "native",
                         Batch(<<[Plain EXCEPT !.text = 7], Plain>>))]
    \o << J("mcp", "batch", "native", Batch(<<Plain, Plain, Plain>>)),
          J("http", "batch", "native", Batch(<<Plain, Plain, Plain>>)),
          J("http", "batch", "native", Given(Wrong)), J("http", "batch", "jev", Batch(<<>>)) >>

MCCrowds ==
    {<<j, Len(SideBySide) + 1>> : j \in DOMAIN MCJobTable} \cup {<<i, j>> : i, j \in DOMAIN SideBySide}
=============================================================================
