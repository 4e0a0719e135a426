--------------------------- MODULE SurfaceRequests ----------------------------
(***************************************************************************)
(* What the surfaces make of a call before the engine is asked: the HTTP   *)
(* handlers, the MCP tools, the C ABI and WASM bindings over wire.rs, the  *)
(* command line, and a host that uses the library.  A job is a call:       *)
(*   [surface, op, format, body, graph, valid, flags]                      *)
(* `body` is the document (Wrong: not JSON, or no argument at all), `graph`*)
(* a graph document, `valid` whether the arguments of a C call are usable  *)
(* pointers, an HTTP body is within its limit, a file of the command line  *)
(* can be read; `flags` are those of `opencodifier decide`.                *)
(***************************************************************************)
EXTENDS EngineAssembly

CONSTANTS MaxBatch     \* MAX_BATCH

ASSUME SurfaceAssumption == MaxBatch \in Nat

-----------------------------------------------------------------------------
(* Chat completions: an OpenAI request in chat clothes.                    *)

\* A text block; an image block waits for the OpenAI decoder.
ChatBlock(block) ==
    IF block.is # "given" \/ block.v.type \notin {"text", "image"} THEN Err("schema.invalid_value")
    ELSE IF block.v.type = "image" THEN Ok([text |-> 0, images |-> <<block>>])
    ELSE InvalidValue(Then(AsTyped(block.v.body), LAMBDA n : Ok([text |-> n, images |-> <<>>])))

ChatMessage(content) ==
    IF content.is # "given" THEN Err("schema.invalid_value")
    ELSE IF content.v.kind = "text" THEN Ok([text |-> content.v.text, images |-> <<>>])
    ELSE Then(Each(content.v.parts, ChatBlock), LAMBDA blocks : Ok(Gathered(blocks)))

\* System and user messages, two newlines between them.
ChatInput(messages) ==
    LET heard == {k \in DOMAIN messages.v :
                    messages.v[k].is = "given" /\ messages.v[k].v.role \in {"system", "user"}}
        joined(texts) == Gathered(texts).text + 2 * Max({0, Len(texts) - 1})
    IN  IF messages.is # "given" THEN Err("schema.missing_field")
        ELSE Then(Each(Sorted(heard), LAMBDA k : ChatMessage(messages.v[k].v.content)), LAMBDA texts :
               LET images == Gathered(texts).images
               IN  IF joined(texts) = 0 /\ images = <<>> THEN Err("schema.invalid_value")
                   ELSE IF images = <<>> THEN Ok([kind |-> "text", text |-> joined(texts)])
                   ELSE Ok([kind |-> "parts", parts |-> <<TextPart(joined(texts))>> \o images]))

\* response_format: [type, properties, required]; what is not asked to be
\* required is taken to be.
ChatSchema(format) ==
    Unless(<< <<format.is # "given", "schema.unsupported_generation_field">> >>, format.v)

DecisionProperties(format) ==
    Then(ChatSchema(format), LAMBDA f :
      Unless(<< <<f.type # "json_schema", "schema.unsupported_generation_field">>,
                <<f.properties.is # "given", "schema.invalid_value">> >>, f.properties.v))

SchemaRequired(format, properties) ==
    IF format.v.required = Absent THEN Given(Cardinality(DOMAIN properties)) ELSE format.v.required

ChatRequest(doc) ==
    Then(ChatInput(doc.messages), LAMBDA input :
    Then(DecisionProperties(doc.format), LAMBDA properties :
      OpenAiDecodeRequest(
        [input |-> Given(input), facts |-> Absent,
         schema |-> Given([has |-> {}, properties |-> Given(properties),
                           required |-> SchemaRequired(doc.format, properties)])], Limits)))

-----------------------------------------------------------------------------
(* Shared steps.  What an operation asks the engine is a sequence of       *)
(* requests, each decoded or refused, or the refusal of the whole call.    *)

One_(request) == Ok(<<Ok(request)>>)
Nothing == Ok(<<>>)

ParseJson(body) == Unless(<< <<body.is # "given", "schema.invalid_json">> >>, body.v)

\* The items of a batch fail alone.
Items(format, docs) == Ok([i \in DOMAIN docs |-> DecodeRequest(format, docs[i], Limits)])

\* A graph as documents carry it, counted before it is built.
GraphDocument(g) ==
    Unless(<< <<~g.typed, "schema.invalid_value">>,
              <<g.nodes > Limits.graph_nodes, "schema.limit_exceeded">>,
              <<g.verdict # "valid", g.verdict>> >>, g)

-----------------------------------------------------------------------------
(* The HTTP handlers.                                                      *)

SelectedFormat(job) ==
    Unless(<< <<job.format \notin Formats, "schema.invalid_value">> >>, job.format)

\* POST /v1/decide, and /v1/validate up to its verdict.
HttpDecide(job) ==
    Then(SelectedFormat(job), LAMBDA format :
    Then(ParseJson(job.body), LAMBDA doc :
    Then(DecodeRequest(format, doc, Limits), One_)))

HttpBatch(job) ==
    Then(SelectedFormat(job), LAMBDA format :
    Then(ParseJson(job.body), LAMBDA body :
    Then(InvalidValue(AsTyped(body)), LAMBDA docs :
      IF Len(docs) > MaxBatch THEN Err("schema.limit_exceeded") ELSE Items(format, docs))))

HttpGraphValidate(job) ==
    Then(ParseJson(job.body), LAMBDA doc : Then(GraphDocument(job.graph), LAMBDA g : Nothing))

HttpGraphRun(job) ==
    Then(ParseJson(job.body), LAMBDA doc :
    Then(GraphDocument(job.graph), LAMBDA g :
    Then(NativeDecodeRequest(doc, Limits), One_)))

\* A feedback document is [p, source]: the row the boundary fit will read.
FeedbackRow(body) ==
    Then(InvalidValue(AsTyped(body)), LAMBDA row :
      Unless(<< <<~IsUnit(row.p), "schema.invalid_value">>,
                <<row.source \notin {"human", "host_model", "outcome"}, "schema.invalid_value">> >>, row))

HttpCall(job) ==
    CASE ~job.valid -> Err("http.body_too_large")
      [] job.valid /\ job.op \in {"decide", "validate"} -> HttpDecide(job)
      [] job.valid /\ job.op = "batch" -> HttpBatch(job)
      [] job.valid /\ job.op = "chat" ->
           Then(ParseJson(job.body), LAMBDA doc : Then(ChatRequest(doc), One_))
      [] job.valid /\ job.op = "graph_validate" -> HttpGraphValidate(job)
      [] job.valid /\ job.op = "graph_run" -> HttpGraphRun(job)
      [] job.valid /\ job.op = "feedback" -> Then(FeedbackRow(job.body), LAMBDA row : Nothing)
      [] job.valid /\ job.op \in {"models", "capabilities", "healthz"} -> Nothing

-----------------------------------------------------------------------------
(* The MCP tools; their arguments are JSON already.                        *)

McpDecode(document) == NativeDecodeRequest(document, Limits)

BatchDocument(docs) ==
    IF Len(docs) > MaxBatch THEN Err("mcp.batch_too_large") ELSE Items("native", docs)

\* codify_gate: one yes/no question over a text, or over none.
GateRequest(args) ==
    McpDecode([text |-> args.state, facts |-> <<>>, images |-> {}, policy |-> {}, limits |-> {},
               questions |-> <<Question("boolean", args.id, args.question, <<>>)>>, extra |-> FALSE])

McpCall(job) ==
    CASE job.op \in {"decide", "verify", "explain"} -> Then(McpDecode(job.body.v), One_)
      [] job.op = "batch" -> BatchDocument(job.body.v.v)
      [] job.op = "gate" -> Then(GateRequest(job.body.v), One_)
      [] job.op = "graph_validate" -> Then(GraphDocument(job.graph), LAMBDA g : Nothing)
      [] job.op = "pipeline" -> Nothing

-----------------------------------------------------------------------------
(* wire.rs, under the C ABI and the WASM binding.                          *)

WireCode(failure, inner) == IF failure = "MalformedJson" THEN "schema.invalid_json" ELSE inner

DecideImpl(body) == Then(ParseJson(body), LAMBDA doc : Then(NativeDecodeRequest(doc, Limits), One_))

\* The `requests` of an envelope.
BatchRequests(envelope) == InvalidValue(AsTyped(envelope))

DecideBatchImpl(body) ==
    Then(ParseJson(body), LAMBDA envelope :
    Then(BatchRequests(envelope), LAMBDA docs :
      IF Len(docs) > MaxBatch THEN Err("schema.limit_exceeded") ELSE Items("native", docs)))

\* Nothing counts the nodes here, and a document of the wrong shape is
\* reported as malformed JSON.
ValidateGraphImpl(g) ==
    Unless(<< <<~g.typed, WireCode("MalformedJson", "")>>, <<g.verdict # "valid", g.verdict>> >>, g)

\* The engine for the graph is assembled before the request is read.
RunGraphImpl(g, body) ==
    Then(ValidateGraphImpl(g), LAMBDA graph : Then(Ephemeral(graph), LAMBDA engine : DecideImpl(body)))

WireCall(job) ==
    CASE job.op = "decide" -> DecideImpl(job.body)
      [] job.op = "batch" -> DecideBatchImpl(job.body)
      [] job.op = "graph_validate" -> Then(ValidateGraphImpl(job.graph), LAMBDA g : Nothing)
      [] job.op = "graph_run" -> RunGraphImpl(job.graph, job.body)
      [] job.op = "identity" -> Nothing

\* The constructor both bindings offer.
NewLexical == Then(Lexical(EngineConfig(Pipeline)), LAMBDA engine : Nothing)

\* Boundary: what C callers are told.
BoundaryCode(boundary, inner) ==
    CASE boundary = "Wire" -> inner
      [] boundary = "Argument" -> "ffi.invalid_argument"
      [] boundary = "Panic" -> "ffi.panic"

\* engine_of and argument_str come before the wire; the constructor has no
\* arguments.
FfiCall(job) ==
    IF job.op = "new" THEN NewLexical
    ELSE IF ~job.valid THEN Err(BoundaryCode("Argument", ""))
    ELSE LET r == WireCall(job)
         IN  IF r.ok THEN r ELSE Err(BoundaryCode("Wire", r.code))

WasmCall(job) == IF job.op = "new" THEN NewLexical ELSE WireCall(job)

-----------------------------------------------------------------------------
(* The command line: `opencodifier decide`, `graph validate`.              *)

\* decide::with_policy_override; the file is a policy or is refused.
WithPolicyOverride(request, raw) ==
    LET policy == NewPolicy(raw)
    IN  IF ~policy.ok THEN Err("schema.invalid_value")
        ELSE NewRequest(request.state, request.questions, policy.v, request.limits)

\* decide::with_images: files by their size, Unusable when neither PNG nor JPEG.
WithImages(request, files) ==
    IF \E file \in Range(files) : file = Unusable THEN Err("cli.unsupported_image")
    ELSE NewRequest([request.state EXCEPT !.images = @ \o files], request.questions, request.policy, request.limits)

CliDecide(job) ==
    Then(Unless(<< <<~job.valid, "cli.unreadable_input">> >>, job), LAMBDA j :
    Then(ParseJson(job.body), LAMBDA doc :
    Then(DecodeRequest(job.format, doc, Limits), LAMBDA request :
    Then(IF job.flags.policy = {} THEN Ok(request)
         ELSE WithPolicyOverride(request, Or(job.flags.policy, {})), LAMBDA governed :
    Then(IF job.flags.image = <<>> THEN Ok(governed)
         ELSE WithImages(governed, job.flags.image), LAMBDA seen :
    Then(HandleOf(job.flags, job.flags.vision), LAMBDA engine : One_(seen)))))))

CliGraphValidate(job) == Then(LoadGraph(IF job.graph.typed THEN Given(job.graph) ELSE Wrong), LAMBDA g : Nothing)

CliCall(job) == IF job.op = "graph_validate" THEN CliGraphValidate(job) ELSE CliDecide(job)

-----------------------------------------------------------------------------
(* A host that uses the library: the registry, and Jev's ordered entry.    *)

FromRegistry(job) ==
    Then(Each(job.body.v.documents, DecodeDefinition), LAMBDA definitions :
    Then(NewRegistry(definitions), LAMBDA registry :
      IF job.body.v.id \notin DOMAIN registry THEN Err("absent")
      ELSE Instantiate(registry[job.body.v.id], job.body.v.text, job.body.v.candidates, Limits)))

LibraryCall(job) ==
    CASE job.op = "instantiate" -> Then(FromRegistry(job), One_)
      [] job.op = "decode_str" ->
           Then(ParseJson(job.body), LAMBDA doc : Then(JevDecodeRequestStr(doc, Limits), One_))

Requests(job) ==
    CASE job.surface = "http" -> HttpCall(job)
      [] job.surface = "mcp" -> McpCall(job)
      [] job.surface = "ffi" -> FfiCall(job)
      [] job.surface = "wasm" -> WasmCall(job)
      [] job.surface = "cli" -> CliCall(job)
      [] job.surface = "library" -> LibraryCall(job)

-----------------------------------------------------------------------------
(* What calls are made of.                                                 *)

Operations ==
    [http |-> {"decide", "validate", "batch", "chat", "graph_validate", "graph_run", "feedback", "models",
               "capabilities", "healthz"},
     mcp |-> {"decide", "verify", "explain", "batch", "gate", "graph_validate", "pipeline"},
     ffi |-> {"decide", "batch", "graph_validate", "graph_run", "identity", "new"},
     wasm |-> {"decide", "batch", "graph_validate", "graph_run", "identity", "new"},
     cli |-> {"decide", "graph_validate"},
     library |-> {"instantiate", "decode_str"}]

\* The format a call's documents are read in.
FormatRead(job) == IF job.surface \in {"http", "cli"} /\ job.op # "graph_run" THEN job.format ELSE "native"

IsChat(doc) ==
    /\ doc.messages \in Holding(Seq(Holding(MessageOfDocument)))
    /\ doc.format.is = "given" /\ doc.format.v.properties.is = "given" => IsProperties(doc.format.v.properties.v)

IsStored(body) ==
    /\ body.documents \in Seq(WrittenDefinition)
    /\ body.text \in Nat /\ body.candidates \in Seq(Nat)

\* The body of a call, by what the call is.  Arguments of an MCP tool are there.
BodyFits(job) ==
    /\ job.op \in {"decide", "validate", "verify", "explain", "graph_run"} /\ job.body.is = "given"
         /\ FormatRead(job) \in Formats => IsDocument(FormatRead(job), job.body.v)
    /\ job.op = "batch" /\ job.body.is = "given" /\ job.body.v.is = "given" /\ FormatRead(job) \in Formats =>
         /\ DOMAIN job.body.v.v = 1..Len(job.body.v.v) /\ Len(job.body.v.v) \in Nat
         /\ \A i \in DOMAIN job.body.v.v : IsDocument(FormatRead(job), job.body.v.v[i])
    /\ job.op = "chat" /\ job.body.is = "given" => IsChat(job.body.v)
    /\ job.op = "gate" => job.body.v \in [state : Nat, id : Nat, question : Nat]
    /\ job.op = "instantiate" => IsStored(job.body.v)
    /\ job.op = "decode_str" /\ job.body.is = "given" => IsJevDocument(job.body.v)
    /\ job.surface = "mcp" /\ job.op \in {"decide", "verify", "explain", "batch"} => job.body.is = "given"
    /\ job.surface = "mcp" /\ job.op = "batch" => job.body.v.is = "given"

\* "ir.invalid" is what the engine calls an error of the IR, no graph's verdict.
IsGraph(graph) == graph.verdict # "ir.invalid"

FlagsFit(flags) ==
    /\ flags.policy \subseteq WrittenPolicy /\ flags.image \in Seq(Nat \cup {Unusable})
    /\ \A graph \in flags.graph : graph.is = "given" => IsGraph(graph.v)

IsJob(job) ==
    /\ job.surface \in DOMAIN Operations /\ job.op \in Operations[job.surface]
    /\ job.valid \in BOOLEAN /\ job.format \in STRING /\ (job.surface = "cli" => job.format \in Formats)
    /\ IsGraph(job.graph) /\ FlagsFit(job.flags) /\ BodyFits(job)
=============================================================================
