---------------------------- MODULE EngineAssembly ----------------------------
(***************************************************************************)
(* How an engine comes to be: the configuration and its builders, the      *)
(* checks of DecisionEngine::new_with_rungs with the identity decisions    *)
(* are cached under, the constructors of EngineHandle, and the flags of    *)
(* the command line that choose among them.                                *)
(*                                                                         *)
(* Data: a graph is [typed, nodes, kinds, verdict], the count and the kinds*)
(* of its nodes and what DecisionGraph::new says of it; a ladder is        *)
(* [id, overrides]; a rung is [model, image, calibration]; a model id is   *)
(* the sequence of its decorations.                                        *)
(***************************************************************************)
EXTENDS DecisionRegistry

CONSTANTS
    Limits,       \* Limits::default, the server's ceilings
    Pipeline,     \* DecisionGraph::default_pipeline
    Parallelism,  \* available_parallelism
    VisionModel   \* the id of the vision rung's model

ASSUME AssemblyAssumption ==
    Limits \in [LimitNames -> Nat] /\ Pipeline.typed /\ Parallelism \in Nat \ {0}

Builtin == [graph_version |-> <<>>, model_id |-> <<>>, embedding_model |-> "none"]
NoLadder == [id |-> Empty, overrides |-> 0]
SolverOverLexical == "relational|lexical"

-----------------------------------------------------------------------------
(* EngineConfig.                                                           *)

EngineConfig(graph) ==
    [graph |-> graph, identity |-> Builtin, parallelism |-> Parallelism, safe_mode |-> TRUE, prune |-> {},
     cache |-> [entries |-> 1024, ttl |-> 300], focus |-> {}, embedding |-> {}, ladder |-> NoLadder]

WithIdentity(config, identity) == [config EXCEPT !.identity = identity]
WithCache(config, cache) == [config EXCEPT !.cache = cache]
WithFocus(config, budget) == [config EXCEPT !.focus = budget]
WithEmbedding(config, embedding) == [config EXCEPT !.embedding = embedding]
WithLadder(config, ladder) == [config EXCEPT !.ladder = ladder]

-----------------------------------------------------------------------------
(* DecisionEngine::new_with_rungs.                                         *)

\* A node that works on embeddings; "rerank" is an embedding reranker.
Semantic == {"embedding", "retrieve", "rerank"}

LadderValid(ladder) == ladder.overrides > 0 => ladder.id # Empty

\* Who decides, on what view, under which ladder, with which rungs behind.
ModelId(config, classifier, rungs) ==
    <<classifier>>
    \o [i \in 1..Cardinality(config.focus) |-> <<"focused", Or(config.focus, 0)>>]
    \o (IF config.ladder.overrides > 0 THEN << <<"ladder", config.ladder.id>> >> ELSE <<>>)
    \o (IF rungs # <<>> THEN << <<"rungs", rungs>> >> ELSE <<>>)

NewEngine(config, classifier, rungs) ==
    Unless(<< <<config.parallelism = 0, "engine.invalid_config">>,
              <<config.prune = {0}, "engine.invalid_config">>,
              <<config.graph.nodes > Limits.graph_nodes, "graph.limit_exceeded">>,
              <<config.cache.entries = 0 \/ config.cache.ttl = 0, "cache.miss_configured">>,
              <<config.graph.kinds \cap Semantic # {} /\ config.embedding = {}, "engine.missing_backend">>,
              <<config.safe_mode /\ "retrieve" \in config.graph.kinds, "engine.invalid_config">>,
              <<~LadderValid(config.ladder), "engine.invalid_config">> >>,
           [config |-> WithIdentity(config, [config.identity EXCEPT
                         !.model_id = ModelId(config, classifier, rungs),
                         !.embedding_model = Or(config.embedding, "none")]),
            rungs |-> rungs])

-----------------------------------------------------------------------------
(* EngineHandle.                                                           *)

HandleWithEmbedding(config, classifier, embedding) ==
    NewEngine(WithEmbedding(config, embedding), classifier, <<>>)

HandleNew(config, classifier) == HandleWithEmbedding(config, classifier, {})

WithRungs(config, classifier, ladder, rungs) == NewEngine(WithLadder(config, ladder), classifier, rungs)

Lexical(config) == HandleNew(config, SolverOverLexical)

\* An engine for one call: identified by its graph's content, with a cache
\* of one slot that goes with it.
Ephemeral(graph) ==
    HandleNew(WithCache(WithIdentity(EngineConfig(graph),
                                     [Builtin EXCEPT !.graph_version = <<graph.nodes, graph.kinds>>]),
                        [entries |-> 1, ttl |-> 1]),
              SolverOverLexical)

Identity(engine) == engine.config.identity

Health(engine) ==
    [identity |-> Identity(engine), nodes |-> engine.config.graph.nodes,
     parallelism |-> engine.config.parallelism, cache_enabled |-> engine.config.cache.entries > 0]

\* DecisionEngine::validate, what the IR does not check of a request.
Validate(engine, request) ==
    Unless(<< <<Repeats([i \in DOMAIN request.questions |-> request.questions[i].id]),
                "engine.duplicate_question">>,
              <<engine.config.graph.nodes > request.limits.graph_nodes, "graph.limit_exceeded">>,
              <<request.state.images # <<>> /\ \A rung \in Range(engine.rungs) : ~rung.image,
                "engine.vision_required">> >>, request)

-----------------------------------------------------------------------------
(* The command line.  Flags: [graph, focus, ladder, llama, vision, policy, *)
(* bind]; a graph or ladder file that does not parse is {Wrong}.           *)

\* graph::load.
LoadGraph(graph) ==
    IF graph.is # "given" THEN Err("cli.invalid_graph_json")
    ELSE Unless(<< <<graph.v.verdict # "valid", graph.v.verdict>> >>, graph.v)

\* A ladder without overrides is refused, one without a name too.
LoadLadder(ladder) ==
    IF ladder.is # "given" THEN Err("cli.invalid_ladder")
    ELSE Unless(<< <<ladder.v.overrides = 0 \/ ~LadderValid(ladder.v), "cli.invalid_ladder">> >>, ladder.v)

\* runtime::engine_config; without a ladder file the ladder is the empty one.
EngineConfigOf(flags) ==
    LET graph == IF flags.graph = {} THEN Ok(Pipeline) ELSE LoadGraph(Or(flags.graph, Wrong))
        ladder == IF flags.ladder = {} THEN Ok(NoLadder) ELSE LoadLadder(Or(flags.ladder, Wrong))
    IN  Then(graph, LAMBDA g : Then(ladder, LAMBDA l : Ok(WithLadder(WithFocus(EngineConfig(g), flags.focus), l))))

\* runtime::model_rung: a llama server, [id, http], needs a model id.
ModelRung(flags) ==
    Unless(<< <<\E server \in flags.llama : server.id = Empty, "cli.model_rung_unavailable">> >>, flags.llama)

\* runtime::model_classifier, of a build with llama.cpp: the url must be http.
ModelClassifier(llama) ==
    Unless(<< <<\E server \in llama : ~server.http, "engine.classifier_failed">> >>,
           SetToSeq({[model |-> server.id, image |-> FALSE, calibration |-> 0] : server \in llama}))

\* runtime::vision_rung, of a build with vision: the artifacts load or do not.
VisionRung(loads) ==
    Unless(<< <<FALSE \in loads, "cli.vision_rung_unavailable">> >>,
           SetToSeq({[model |-> VisionModel, image |-> TRUE, calibration |-> 0] : load \in loads}))

\* runtime::handle: the lexical engine unless there is a rung behind it.
HandleOf(flags, vision) ==
    Then(ModelRung(flags), LAMBDA llama :
    Then(VisionRung(vision), LAMBDA eye :
    Then(EngineConfigOf(flags), LAMBDA config :
    Then(ModelClassifier(llama), LAMBDA model :
      IF model \o eye = <<>> THEN Lexical(config)
      ELSE WithRungs(config, SolverOverLexical, config.ladder, model \o eye)))))

\* The rule of ServerConfig::with_remote, made by the command line too.
Permitted(bind) == bind.loopback \/ bind.allowed

\* serve::assemble: the engine a server is started with, or why it is not.
\* A policy file is read and validated, and changes nothing.
Assemble(flags) ==
    Then(Unless(<< <<~flags.bind.parses, "cli.invalid_bind">>,
                   <<flags.bind.parses /\ ~Permitted(flags.bind), "cli.bind_requires_allow_remote">>,
                   <<\E raw \in flags.policy : ~NewPolicy(raw).ok, "schema.invalid_value">> >>, flags),
         LAMBDA f : HandleOf(f, {}))
=============================================================================
