---------------------------- MODULE SurfaceReplies ----------------------------
(***************************************************************************)
(* What the surfaces tell their callers: HTTP statuses and bodies, the     *)
(* documents of the MCP tools, of the bindings over wire.rs and of the     *)
(* command line with its exit codes.  `status` is the HTTP status, the     *)
(* exit code, or 1 where a call can only fail.                             *)
(***************************************************************************)
EXTENDS SurfaceRequests

Success(status, v) == [ok |-> TRUE, status |-> status, v |-> v]
Failure(status, code) == [ok |-> FALSE, status |-> status, code |-> code]

-----------------------------------------------------------------------------
(* HTTP.                                                                   *)

\* HttpError::code, by variant.
HttpCode(variant, inner) ==
    CASE variant \in {"Schema", "Graph", "Engine"} -> inner
      [] variant = "Serve" -> "http.serve_failed"
      [] variant = "FeedbackDisabled" -> "http.feedback_disabled"

HttpStatus(variant, inner) ==
    CASE variant \in {"Schema", "Graph"} -> 400
      [] variant = "Engine" -> IF inner = "engine.vision_required" THEN 400 ELSE 500
      [] variant = "Serve" -> 500
      [] variant = "FeedbackDisabled" -> 404

HttpFailure(variant, inner) == Failure(HttpStatus(variant, inner), HttpCode(variant, inner))

\* The framework's own refusal of a body over the limit.
BodyTooLarge == Failure(413, "http.body_too_large")

-----------------------------------------------------------------------------
(* The command line.                                                       *)

ExitCode(kind) == CASE kind = "Input" -> 1 [] kind = "Escalated" -> 2 [] kind = "Engine" -> 3

\* Codes of an engine that cannot be assembled.
AssemblyCodes == {"engine.invalid_config", "graph.limit_exceeded", "cache.miss_configured",
                  "engine.missing_backend", "engine.classifier_failed"}

CliFailure(code) == Failure(ExitCode(IF code \in AssemblyCodes THEN "Engine" ELSE "Input"), code)

\* decide::finish: the document is printed either way.
CliFinish(document, outcome, lenient) ==
    IF outcome \in Decisive \/ lenient THEN Success(0, document)
    ELSE [ok |-> FALSE, status |-> ExitCode("Escalated"), code |-> "cli.escalated", v |-> document]

-----------------------------------------------------------------------------
(* Refusals.                                                               *)

\* A call that never reaches the engine.
Refusal(job, code) ==
    CASE job.surface = "http" -> IF code = BodyTooLarge.code THEN BodyTooLarge ELSE HttpFailure("Schema", code)
      [] job.surface = "cli" -> CliFailure(code)
      [] job.surface \in {"mcp", "ffi", "wasm", "library"} -> Failure(1, code)

\* One the engine refuses or fails.
EngineRefusal(job, code) ==
    CASE job.surface = "http" -> HttpFailure("Engine", code)
      [] job.surface = "cli" -> Failure(ExitCode("Engine"), code)
      [] job.surface = "ffi" -> Failure(1, BoundaryCode("Wire", code))
      [] job.surface \in {"mcp", "wasm", "library"} -> Failure(1, code)

\* A panic of the blocking task reads as a cancellation, one behind the C
\* ABI is caught at the boundary.
Panicked(job) ==
    IF job.surface = "ffi" THEN Failure(1, BoundaryCode("Panic", "")) ELSE HttpFailure("Engine", "engine.cancelled")

-----------------------------------------------------------------------------
(* Answers that take no decision.                                          *)

Immediate == {"validate", "graph_validate", "models", "capabilities", "healthz", "pipeline", "identity", "new"}

Validated(request) == [valid |-> TRUE, questions |-> Len(request.questions), state_bytes |-> request.state.text]

GraphVerdict(g) == [valid |-> TRUE, nodes |-> g.nodes]

Models(engine) == [id |-> Identity(engine).model_id, graph_version |-> Identity(engine).graph_version]

Capabilities(engine) ==
    [max_batch |-> MaxBatch, cache_enabled |-> Health(engine).cache_enabled, identity |-> Health(engine).identity]

\* codify_graph.
PipelineDocument(engine) == [health |-> Health(engine), graph |-> engine.config.graph]

ImmediateDocument(job, asked, engine) ==
    CASE job.op = "validate" -> Validated(asked[1].v)
      [] job.op = "graph_validate" -> GraphVerdict(job.graph)
      [] job.op = "models" -> Models(engine)
      [] job.op = "capabilities" -> Capabilities(engine)
      [] job.op = "healthz" -> Health(engine)
      [] job.op = "pipeline" -> PipelineDocument(engine)
      [] job.op \in {"identity", "new"} -> Identity(engine)

-----------------------------------------------------------------------------
(* Documents about decisions.                                              *)

\* The command line prints the native form whatever it was asked in.
FormatOf(job) ==
    CASE job.op = "chat" -> "openai"
      [] job.op = "graph_run" \/ job.surface = "cli" -> "native"
      [] OTHER -> job.format

Encoded(job, r) == Then(r, LAMBDA response : EncodeResponse(FormatOf(job), response))

BatchOf(job, decided) ==
    LET results == [i \in DOMAIN decided |-> Encoded(job, decided[i])]
        accepted == Cardinality({i \in DOMAIN results : results[i].ok})
    IN  IF job.surface = "mcp"
        THEN [results |-> results, accepted |-> accepted, refused |-> Len(results) - accepted]
        ELSE [results |-> results, count |-> Len(results)]

\* codify_gate goes ahead on a decisive yes only.
GateDocument(response) ==
    LET value == response.answers # <<>> /\ Head(response.answers).value = 1
    IN  [proceed |-> response.outcome \in Decisive /\ value, value |-> value, outcome |-> response.outcome]

VerifyDocument(response, encoded) ==
    [outcome |-> response.outcome, decisive |-> response.outcome \in Decisive, response |-> encoded]

\* codify_explain; its account of the run is a projection of the run's report.
ExplainDocument(encoded) == [response |-> encoded]

ChatCompletion(content, response) == [content |-> content, outcome |-> response.outcome]

\* Over HTTP the ephemeral engine's identity goes with the response.
GraphRun(job, response, engine) ==
    IF job.surface = "http" THEN [response |-> response, identity |-> Identity(engine)] ELSE [response |-> response]

Document(job, response, engine) ==
    LET encoded == Encoded(job, Ok(response)).v
    IN  CASE job.op = "gate" -> GateDocument(response)
          [] job.op = "verify" -> VerifyDocument(response, encoded)
          [] job.op = "explain" -> ExplainDocument(encoded)
          [] job.op = "chat" -> ChatCompletion(encoded, response)
          [] job.op = "graph_run" -> GraphRun(job, encoded, engine)
          [] OTHER -> encoded

\* The payload a client decodes out of a document.
PayloadOf(job, document, i) ==
    CASE job.op = "batch" -> document.results[i].v
      [] job.op = "chat" -> document.content
      [] job.op \in {"graph_run", "verify", "explain"} -> document.response
      [] OTHER -> document

Answered(job, decided, engine) ==
    IF job.op = "batch" THEN Success(200, BatchOf(job, decided))
    ELSE IF ~decided[1].ok THEN EngineRefusal(job, decided[1].code)
    ELSE LET document == Document(job, decided[1].v, engine.v)
         IN  IF job.surface = "cli" THEN CliFinish(document, decided[1].v.outcome, job.flags.lenient)
             ELSE Success(200, document)
=============================================================================
