# OpenCodifier: TLA+ models, checks and proofs

OpenCodifier answers *decision requests*: questions of kind choice, Boolean or
score about a state, decided by running a declared graph of nodes (rules,
filters, lexical and semantic narrowing, classifiers, a threshold gate) and
returned with a confidence, an outcome and a trace. Requests come in through
HTTP, MCP, a C ABI, WASM, the command line or the library, in a native or a
vendor's format, and the harder questions go to model rungs. This project models
that path from the document a client sends to the document it gets back. Paths
below are relative to `src/crates/opencodifier-engine/src/` unless they name
another crate (`http/`, `schema/`, `model/` ... for `opencodifier-http/src/` and
so on).

## Inventory

| Part | State it keeps | Operations | Hard about it | What makes it correct |
|---|---|---|---|---|
| Engine (`engine.rs`) | configuration, a cancellation token, the cache | `decide_with_report`, `cache`, cancellation | callers in parallel; lookup and store are separate critical sections | a replay is the latest live decision of that key; errors are never cached; every call returns |
| Decision cache (`cache.rs`) | map of slots, recency counter, mutex | `get`, `insert`, `len`, `clear` | capacity, age and recency interact; poisoning | bound, strict recency, fresh and latest hits, least-recent eviction |
| Clock and token (`clock.rs`) | time, a flag | `now`, `cancel` | race with everything | a stopped run does not answer |
| Wave executor (`executor.rs`: `run` .. `merge`) | run state, skipped nodes, trace | waves of worker threads, guard, merge | interleaving, panics, deadlines, branches | results independent of scheduling, dependencies first, termination |
| Candidate narrowing (`rules.rs`, `narrowing.rs`, `rerank.rs`, `executor.rs`) | facts, rule report, surviving lists, prunes, orders, an index | rule, filter, lexical, embedding, retrieve, rerank, choice nodes | stages overwrite and extend each other in any graph order | rules are never overruled, safe mode eliminates nothing on its own |
| Threshold gate (`executor.rs`: `decide_question`, `resolve_threshold`, `assemble`; core `confidence.rs`, `response.rs`) | decisions, outcomes, fired rungs | escalation walk, gate, verifier, assembly | a chain of policies; several questions in one response | the response is as decisive as its least decisive question |
| Graph validation (`graph.rs`) | the document | `DecisionGraph::new`, `waves` | a row of checks with unsigned counters | accepts exactly the documented shape; waves are levels |
| Graph optimizer (`optimize.rs`) | rewriting tables | `optimize` | order of rewriting against order of ids | what the output and the caches compute stays |
| Rotation readout (`rotation.rs`) | the reads made so far | rotate, read, certify, combine | certificate arithmetic; the unread rotations | an early exit never changes the leader |
| Focus, facts, relational proofs (`focus.rs`, `facts.rs`, `relational.rs`) | none | select sentences, extract facts, prove | budgets, ties, candidates that are gone | the highest scores are kept; a proof survives narrowing or delegates |
| Lexical evidence and the cache key (`lexical.rs`, `classifier.rs`, `rerank.rs`, `cache.rs`) | an index | score, bound, rerank, normalise | the key forgets the candidates' order, scoring does not | equal keys, equal decisions |
| Calibration and ladders (`calibration.rs`, `ladder.rs`, `ladder_fit.rs`) | artifacts, profiles | validate, resolve, fit, emit | what is fitted offline must load and govern online | the emitted boundary loads, governs and is optimal |
| Handle and wire (`handle.rs`, `wire.rs`) | shared reference to the engine | construct, decide, batch, validate a graph | many ways to assemble an engine | every failure has its code |
| Decision IR (`core/`) | none | constructors with limits | order of refusals, budgets in bytes | only legal requests exist; reports fit |
| Schema codecs (`schema/`) | a registry of definitions | four encoders and decoders | two independent conversions each way | what is meant is asked, what is decided is read |
| HTTP (`http/`) | evidence file behind a mutex, shutdown | routes, batch, feedback, drain | blocking tasks outlive their handlers; disconnects; partial writes | acknowledged rows are whole; who stays is answered |
| MCP, CLI (`mcp/`, `cli/`) | none beyond the engine | tools, `decide`, `serve`, `mcp` | flags that choose an engine | same decision as every other surface |
| Bindings (`ffi/`, `wasm/`) | last error per thread | decide, validate, last error | a second call reads the first one's error | the error is the thread's own |
| Model serving (`model/`) | tokenizers, sessions | merge, pack, batch, read out | stale heap entries, padding, limits, short returns | batched answers are their own; no answer is lost |
| Runtime backends (`runtime/`) | a session behind a mutex | open, infer | panic while the lock is held | every caller ends |
| Configuration (`config/`), report projections, macjev, recipes, init, doctor, item generator (`itemgen/`) | none | files and text | | not modelled, see below |

Calls go one way: a surface decodes a document into a request and calls the
engine; the engine looks the key up in the cache, and on a miss hands the request
to the executor, which walks the validated (perhaps optimized) graph; nodes read
and extend the run state, ask the evidence layer and the model rungs, and the
threshold node and the assembler make the response, which the engine stores and
the surface encodes. The cache, the clock and the token are what concurrent
calls share in the engine; worker threads share only an immutable snapshot of
the run state; model callers share a session; HTTP handlers share the evidence
file.

## Modules

Engine core:

| Module | Models | State and actions |
|---|---|---|
| `DecisionCache` | `cache.rs` | one action per method, because each takes the lock once: `GetHit`, `GetMiss`, `GetPoisoned`, `Insert`, `InsertPoisoned`, `CacheLen`, `Clear`, `Refuse`; `Tick` and `Poison` are the surroundings. `written` and `reply` are history. |
| `DecisionService` | what the engine promises | abstract specification: ask, replay the latest live decision, decide, fail, forget |
| `DecisionEngine` | `engine.rs` `decide_with_report` | extends the cache; per caller thread a program counter, deadline and wave counter. Composition: a lookup and a store are the cache's own actions. |
| `WaveExecutor` | `executor.rs` `run`, `guard`, `wave_is_skipped`, `mark_skipped`, `run_wave`, `execute` | the main thread's phases and one `worker` state per node; `verdict` says how each node's own code ends |
| `CandidateNarrowing` | rule, filter, lexical, embedding, retrieve, rerank nodes, `prepare_question`, `lexical_handoff`, metrics | `seen` is the snapshot a wave began with, `run` the state its nodes merge into |
| `ThresholdGate` | `decide_question`, `resolve_threshold`, `assemble`, `conservative`, core `outcome_for`, `DecisionResponse::new` | walk, fire, skip, gate, verify, assemble |
| `GraphDefs` | reference definitions over a dependency relation | none |
| `DecisionGraph` | `DecisionGraph::new` and `waves_for` | one action per check, Kahn's algorithm wave by wave |
| `GraphOptimizer` | `optimize.rs` | extends `DecisionGraph`: validate, merge node by node, drop dead nodes, validate the result with the same actions |

Evidence layer, composed by `EvidenceReadings` (one task at a time, the
rotated readout read by read; `reads` are the reads made so far, `answer` what
the task returns):

| Module | Models |
|---|---|
| `RotationReadout` | `rotation.rs`: rotations, votes, the early-exit certificate, the two ways to combine |
| `StateEvidence` | `focus.rs`, `facts.rs`, `relational.rs`: the view, extraction of facts, the five proof operators and their agreement |
| `LexicalEvidence` | `lexical.rs`, the lexical classifier, `rerank.rs`, and the normal form of a choice in the cache key |
| `LadderProfiles` | `calibration.rs`, `ladder.rs`, `ladder_fit.rs`: artifacts, profiles, resolution, the grid fit, emission and reload |

Model serving, composed by `ModelServing` (per caller where its call is;
`session` is free, held or poisoned; the tokenizer's heap goes pop by pop):

| Module | Models |
|---|---|
| `TokenMerge` | `BpeTokenizer` of `model/kai.rs`: `PopMerge` is one iteration of the heap loop; `Greedy` is the reference |
| `PromptEncoding` | questions and prompts of the Kai and Julia rungs, with every refusal and cut |
| `TensorReadout` | `runtime/tensor.rs`, collation and padding, logits back to distributions |
| `RuntimeBackends` | the session backends: opening, contract and shape checks; the graph itself is external and known by what each cell attends to |
| `RungReadouts` | NLI, embedding, vision and llama.cpp rungs, image geometry, model directories and manifests |

Surfaces, composed by `DecisionSurfaces` (per caller the stage of its call;
`sink` the evidence file and its lock, `lastError` a slot per thread, `served`
the engine the server was launched with; what the engine decides is left open):

| Module | Models |
|---|---|
| `DecisionIR` | the constructors of `core/`, each the ordered list of its refusals; escalation reports |
| `SchemaCodecs` | the native, OpenAI, Anthropic and Jev formats in all four directions |
| `DecisionRegistry` | `schema/registry.rs` |
| `EngineAssembly` | `EngineConfig` and its builders, `new_with_rungs`, `EngineHandle`, the flags of the command line |
| `SurfaceRequests` | what HTTP, MCP, FFI, WASM, CLI and library hosts make of a call before the engine is asked |
| `SurfaceReplies` | what they tell their callers: statuses, documents, exit codes |

Theorems are kept beside the models: `DecisionEngineProofs` (the cache, the
engine and the gate), `WaveExecutorProofs`, `CandidateNarrowingProofs`,
`GraphOptimizerProofs` (validation and the optimizer), `EvidenceReadingsProofs`,
`ModelServingProofs` (tokenizer, prompts, tensors, sessions) and
`DecisionSurfacesProofs` (IR, codecs, registry, assembly, surfaces) each extend
the model they are named after.
`FiniteOrder` is their library: minimal subsets, least and greatest numbers,
functions defined by recursion up to a bound or over the subsets of a set, sums,
ranks and intervals. `MC*` hold the constants for TLC.

Abstractions: ids, labels and keys are numbers where the code sorts them, so
that its sorts are orders; a response is an opaque value where only its identity
matters; probabilities are multiples of a unit that each module names; a text is
what its readers tell apart (a length for limits, words for scoring, tokens for
prompts); a document is a record of the members the code reads, each absent,
null, of the wrong type or given; one clock tick stands for any span of time.
Operators whose comment begins with "Mutant" are deliberate mistakes of the kind
the code could contain: each property is known to fail when one of them replaces
the definition it is modelled on. They are not part of any specification.

## What is checked

| Run | Shows |
|---|---|
| `engine` | Two callers, two keys, a cache with room for one decision, two waves, three calls in all: the engine implements `DecisionService`; a call that began after cancellation never decides; every call returns. |
| `cache` | Three keys for two slots under every order of calls and ticks: bound, hits that are current and fresh, eviction of the least recent entry only. |
| `wave` | The built-in pipeline (10 nodes) and a graph with branches (8 nodes), up to two failing or panicking nodes, cancellation and the deadline at any moment, the nodes of a wave in parallel: a node runs only after all its dependencies and never behind a silent branch; the trace, skips and facts equal a sequential reference; the failure reported is that of the least failing node; a run stopped ahead of a guard never answers; every run ends. |
| `narrowing` | Nine graph shapes (usual and unusual orders), four rule sets, every scoring of three candidates: in safe mode only rules eliminate, and rules are never overruled. |
| `gate` | Choice and Boolean questions alone through ladders of up to three rungs and together through at most one, with a verifier or not, outages, starved and skipped questions: the last word of the walk is what ships, the response is as decisive as its least decisive question, a disagreeing verifier withholds it, an abstention reaches the caller. |
| `graphs` | All relations on three nodes (self-loops and an unknown name included), all loop-free ones on four, malformed nodes, and 12 600 five-node graphs under three id orders: validation accepts exactly the well-formed ones, waves are levels, and the optimizer (`TermsAndShapeKept`) keeps what the output and the caches compute along their dependencies; the graph it builds is refused exactly when a node left names one that is gone. What a node does to the run state besides is not compared (see Observations). |
| `evidence` | Every reading of up to three candidates through all rotations and clear votes of four and five: an early exit keeps the leader (`CertificateSound`). Every text of up to three sentences: the view keeps the sentences with the highest scores within its budget and none without evidence (`ViewKeepsEvidence`). Boards of up to three sentences of facts: a proof survives the loss of other candidates, or delegates (`ProofSurvivesNarrowing`). Lists of candidates in every order: bounding keeps the best and the 99:1 cap (`LexicalOddsBounded`), and requests with one cache key decide alike up to equal scores (`SameKeySameAnswer`). Samples of up to three items and every small profile: the boundary is the smallest of the best, a profile is emitted unless its id names no ladder or only 1.00 is best, and what is emitted loads and governs (`FittedProfileGoverns`). |
| `serving` | Two callers of one session with batches of different sizes, a panic at any moment, backends that return too little: every cell an answer comes from is its own question's (`ReadingsAreOwn`), a decision is over exactly the answers, except that the embedding rung loses as many of the last as vectors were missing (`OnlyEmbeddingDropsAnswers`), a full Julia prompt still has its options (`PromptHoldsItsOptions`), the cut-out of an image lies inside it and in its middle (`WindowInsideImage`), the heap with its stale entries merges like the greedy reference (`HeapIsGreedy`), and every call ends (`ServingEnds`). |
| `service` | Calls alone and two side by side through every surface, documents of every format, with malformed, oversized and contradictory members, seven launches, most of them refused: the engine is handed only legal requests (`OnlyLegalRequestsDecided`), what a client meant, the levels of a Jev score in sorted order over HTTP (`AsksWhatWasMeant`); the client, holding the reply against what it wrote, reads what was decided, a score by its place (`ClientReadsTheDecision`); escalation reports leave valid and fitted (`EscalationFits`); acknowledged feedback rows are whole (`AcknowledgedRowsAreWhole`); errors stay with their thread (`LastErrorIsOwn`); a client that stays is answered at the latest when the server has stopped, with a document exactly when its whole call was decided (`ClientsAreAnsweredInFull`); every call ends and a server told to stop stops (`EveryCallEnds`). |

Three runs state what a comment or a test says and show the code doing
otherwise:

| Run | Statement | What happens |
|---|---|---|
| `cache_lock` | `cache.rs:392` "recovering from poisoning" | a poisoned lock is an error for ever: `get` misses and `insert` does nothing |
| `narrowing_handoff` | `executor.rs:894` the index is "Reusable only when the deciding list is exactly those documents in the same order" | the deciding list is compared with the current narrowing, not with the indexed documents; after a second filter another list of the same length is scored |
| `gate_rung_policy` | `executor.rs:1175` "Each rung is gated by its own policy when it carries one" | every rung is gated by the deciding node's policy |

### Observations without a run

Engine core:

* Overwriting a present key in a full cache evicts another entry (`cache.rs:383`).
* A node alone in its wave runs on the calling thread and its panic unwinds
  through `run` (`executor.rs:464`, against the comment at `executor.rs:450`).
* A question emptied by the filter and a prune together ends as an abstention,
  not as `NoValidCandidate` (`executor.rs:1311`, `1346`); `candidates_out` may
  undercount (`executor.rs:1775`).
* A rung re-decides a question whose decision elected the abstain candidate
  (`executor.rs:1184`, against `docs/DECISIONS.md:1030` "Election is a terminal
  abstention."); a rung whose policy marks no abstain candidate can ship the
  synthetic id (`executor.rs:1206`).
* Agreement with the verifier is judged on the distribution, which a Boolean
  threshold may contradict (`executor.rs:1243`).
* A cycle error may name a node that merely depends on the cycle
  (`graph.rs:576`).
* The optimizer's rebuild "cannot fail" (`optimize.rs:42`) and does, in three
  ways, each leaving a node that names one that is gone: ids that do not follow
  the dependencies (`optimize.rs:104`); a dependency of the output that was
  merged, because the walk for live nodes starts from the output as it was and
  misses the survivor; a cache node, which is kept, whose feed was dropped or
  merged. `TermsAndShapeKept` says that these are all. Branch nodes are merged
  although the comment says that they are left alone (`graph.rs:308`, against
  `optimize.rs:91`, `112`). Rules and deciding nodes without a path to the output
  are dropped (`optimize.rs:82`) and decide through the run state all the same,
  against "the same decisions and the same observable traces" (`optimize.rs:3`,
  `16`).
* Between equal scores the last candidate in the caller's order wins, while the
  cache key forgets that order: `SameKeySameAnswer` is up to equal scores.

Evidence:

* Under `LogMean` each read is divided by its candidate's own geometric mean
  before the logarithms are averaged, so candidates without a zero read all end
  up even (`rotation.rs:44`, `203`); focusing drops the images of a state (`focus.rs:22`); `healthiest`
  counts a repeated sentence twice; the grid of the fit ends at 1.00, which
  cannot be emitted, where its comment says 0.99 (`ladder_fit.rs:78`); `into_ladder` tests for emptiness
  before the calibrations are inserted (`ladder.rs:384`).
* A sentence that names a candidate is "stronger than any term-overlap score"
  (`focus.rs:177`), but sentences are ranked by their BM25 score alone
  (`focus.rs:221`): one that only names a candidate scores nothing, ranks last
  and is the first to be dropped. `ViewKeepsEvidence` is about the scores.
* `with_boolean_threshold` accepts 0.0 though its error says strictly inside
  (`core/policy.rs`).

Models:

* The merge list may name a pair twice, and the second rank then equals the
  next pair's (`model/kai.rs:548`).
* Vision: the attention mask is never sent (`model/vision/serve.rs:73`, `468`);
  a SigLIP text graph that demands one is refused (`runtime/siglip.rs:413`); the
  padding id is read after padding was switched off and is always 0
  (`model/nli/serving.rs:91`). Manifests are verified and the files opened again
  to be loaded (`model/vision/serve.rs:108`); the NLI directory has no manifest.
* An embedder that returns fewer vectors than it was given texts is "a typed
  failure" in the comment (`model/embedding.rs:84`); only a backend that returns
  none at all is refused. With fewer, the vectors are zipped with the candidates
  or levels (`model/embedding.rs:117`, `129`, `172`, `184`): the last answers are
  silently missing from a distribution that is normalized over the rest. Of too
  many vectors a Boolean ignores the surplus; a choice or a score fails, because
  the mass of the surplus is missing.

Surfaces:

* The server's own shutdown future is Ctrl-C alone, though its comment says
  Ctrl-C plus SIGTERM (`http/lib.rs:170`).
* Some client mistakes come back as status 500: repeated question ids in a
  native payload, a graph above its node limit or with an embedding node
  (`http/lib.rs:22`).
* The node limit documented for graph validation in the bindings is not tested
  (`wire.rs:154`, `ffi/lib.rs:325`, `wasm/lib.rs:91`).
* A score's level is where its mean falls, rounded down (`core/question.rs:288`);
  OpenAI and Anthropic are sent the mean rounded to the nearest level
  (`schema/openai.rs:555`), because "`expected` is a level index by construction"
  (`schema/openai.rs:547`). It is a mean: at 1.75 the engine says level 1 and the
  client reads level 2. `Agrees` in `ClientReadsTheDecision` says exactly when.
* HTTP reads Jev requests through `serde_json::Value` (`http/routes.rs:382`), though
  `decode_request_str` "is the entry point the HTTP layer uses"
  (`schema/jev.rs:54`). The levels of a score are then asked in sorted order and
  the reply counts them in that order, while the client counts its own: unless it
  lists its levels in sorted order, every level it reads has the weight of
  another. `AsksWhatWasMeant` and `Agrees` state the shift.
* A blocking task fails when it panics, too, and the client is told
  `engine.cancelled`, where the comment says "The only way a blocking task fails
  is runtime shutdown" (`http/routes.rs:388`).
* Nested unions are accepted when each reduces (`schema/openai.rs:340` says they
  are rejected).
* Jev drops images and every fact but `model`; a question
  named `output` (OpenAI), or `content` or `type` (Anthropic), collides with the
  envelope; OpenAI refuses `facts: null`, the other formats accept it.
* A feedback row and its newline are two writes, so a failed append can leave a
  torn line that the next row joins; the row of a caller that was told 201 is
  whole all the same. The `feedback` command appends without the server's lock
  (`cli/feedback.rs:76`).
* A client that disconnects leaves its blocking task running to the end.
* `serve` and `mcp` never load a vision rung; `serve --policy` is validated and
  then unused; `EngineHandle::new` overwrites an embedding given in the
  configuration.
* The question text in an escalation report is never cut, so a report may stay
  above its budget, as its comment says.

### Bounds

* Engine: room for one decision and two keys make every insert of the other key
  evict; three calls over two threads are enough for a decision to be superseded
  or forgotten between another call's lookup and its replay. The time to live
  and the time limit are one tick and the clock makes one, so an entry and a
  deadline may or may not expire at every point of a call.
* Cache: three keys for two slots, four ages, five recency ticks: fills the
  cache, evicts, refreshes, expires, refills. `MaxTime` and `MaxTicks` only
  bound the exploration; the theorems do not depend on their values.
* Executor: two graphs that between them have waves of one, two and three
  nodes, waves skipped in part and whole, a branch on a fact of its own wave and
  of an earlier one, and an output that may itself be skipped. Two faulty nodes
  are what the order of failures needs. The limit of one tick is passed or not
  at each guard.
* Narrowing: three candidates distinguish best, tied and dropped; limits 0 (not
  set) to 2 prune none, two or one; three score levels give ties at every rank.
* Gate: thirds put every mass below, at and above the thresholds of the three
  policies, which between them use every knob.
* Graphs: every relation on up to four nodes has every kind of cycle and level;
  five nodes let two merged twins have dependents visited before and after.
* Evidence: three reads of five are the fewest that can certify, three of four
  may leave a draw; three sentences and four budgets give views that fit, that
  overflow at the first sentence and later; three facts give chains, cycles and
  ties; words repeated a dozen times pass the spread cap; four probabilities lie
  below, on and above grid points, the end of the grid included. `MinItems` (200)
  and `GridSteps` (50) are the code's own.
* Serving: batches of one and two questions with unequal lengths, option counts
  and levels, so that every kind of padding occurs; limits small enough for
  each cut (`KaiMax`, `JuliaMax`, `HeadLength`, `OptionLimit` stand for 512 to
  1024 tokens); images of every size around the window; merge lists whose
  results are pairs of earlier and later merges, one pair twice.
* Service: limits of a few questions, options and images, so that each is met
  and passed; `MaxBatch` 2; two callers, because the file, the error slots and the
  shutdown are shared by pairs; `JobTable` lists the documents and `Crowds` which
  calls meet.

### Fairness

`WaveExecutor` assumes weak fairness of the main thread and of each worker:
operating-system threads are scheduled and a node's work returns. The clock and
the caller owe nothing. `DecisionEngine` assumes weak fairness of each caller
that is in a call; no caller has to call, nobody has to cancel and time need not
pass. `MaxTicks` bounds hits and inserts at one tick per call, so with as many
ticks as calls it disables no thread. `ModelServing` assumes that each caller's
thread runs and that a free mutex is handed to a waiter. `DecisionSurfaces`
assumes that a call which has begun is run by its thread or task, and that the
server's loop notices that nothing is left to drain; nothing promises a panic, a
failed write, a disconnect or a signal.

Deadlock is checked in every run except `engine`, `serving` and `service`,
where the system is at rest once the bounded number of calls has been made.

## What is proved

The theorems hold for every value of the constants. The assumptions on
constants, which TLC evaluates, are what the code itself enforces before the
modelled part begins:

| Assumption | Says | Because |
|---|---|---|
| `CacheAssumption`, `EngineAssumption` | keys are numbers, 0 is none; capacity, time to live and waves are positive | `DecisionCache::new` refuses zero; a graph has a node |
| `ExecutorAssumption` | finitely many nodes, which depend on nodes of the graph | the graph was validated; it may still be cyclic in the theorems |
| `GateAssumption` | a request has finitely many questions and one at least, a ladder is a list of rungs, the abstention is no label | `DecisionRequest::new`; the id marks the synthetic candidate (`core/policy.rs`) |
| `DocumentAssumption` | a document has finitely many ids; what they depend on is any set of names | a document is a finite list; nothing is assumed about the relation |
| `NarrowingAssumption` | candidates are declared once, a plan is a list of waves, none empty, `top_n` is positive | `Question` refuses repeated ids; waves are built by peeling; `NodeSpec::validate` |
| `LexicalAssumption`, `EvidenceAssumption`, `GridAssumption`, `TaskAssumption` | no negator is a stop word, no name is a date, the grid is a list of steps, texts and samples are lists, candidate ids are unique, term weights are no less than 0 | word lists of `lexical.rs`; ids as above; `ln(1 + x)` of a non-negative `x` |
| `MergesAssumption`, `TextAssumption` | the merge list and the texts are lists | they are read from a file, and from characters |
| `JobAssumption`, `AskAssumption` | a batch holds questions of a known kind with lists for texts and options; a Julia or NLI call asks one question | the types of `DecisionQuestion`; those two rungs are called per question |
| `PromptAssumption` | the limits of prompts are numbers, the least head is positive | constants of `kai.rs` and `julia.rs` |
| `ReadoutAssumption`, `SideAssumption` | the column, the width, the limits and the side are numbers | constants of the rungs |
| `SurfacesAssumption` | callers are positive numbers, crowds hand out calls of the table, a call names a known surface | 0 is the free lock; the table lists calls |
| `IRAssumption`, `AssemblyAssumption`, `CodecAssumption`, `SurfaceAssumption` | limits, costs, names and the batch size are numbers; the built-in pipeline is well typed; a machine has a processor | constants of the crates; texts are numbers here |
| `DocumentsAssumption` | a document is of its grammar: a record of the members its decoder reads, each absent, null, of the wrong type or given, and given lists are finite; a fault of a run has a code of its own | JSON text parses to no more than that; only the constructors say `ir.invalid` |
| `ReportAssumption` | the guidance is not empty and its characters have one to four bytes; evidence that says nothing is not gathered | the guidance and the reasons of an evidence are string constants (`engine.rs:552`, `560`, `615`) |

**Cache** (`DecisionEngineProofs`): `CacheTypeCorrect`, `CacheIsBounded`,
`RecencyIsStrict`, `HitsAreCurrent`, `EvictionIsLeastRecent`. The inductive
invariant `CacheInv` adds `SlotsAgreeWithHistory`, that a retained slot holds the
response and time of the latest insert of its key: a hit by itself says nothing
about history, and hits change recency only. The eviction loop is described by
what it keeps (`IsKept`), and the bound follows from the cardinality of that set.
One lemma (`DropKeepsInv`) covers every operation that only removes slots.

**Engine** (`DecisionEngineProofs`): every engine step is a cache step or leaves
the cache alone, so `CacheInv` carries over; `EngineInv` adds where each variable
lives and `DoomedStop`, that a call which began after cancellation stops at its
first guard. From it follow `EngineTypeCorrect`, `CancelledEngineOnlyReplays` and
`EngineImplementsService`, the refinement: initial states map to initial states,
and each action to a service step or a stutter. A hit needs the cache invariant
to be the abstract replay.

**Executor** (`WaveExecutorProofs`): `DependenciesComeFirst`,
`LeastFailureIsReported`, `StoppedRunsStayStopped`, `ScheduleShowsNowhere`, for
every graph, cyclic or not, and every interleaving of the workers.

* `ExecInv` adds that the nodes behind the main thread are closed under
  dependencies and merged unless skipped, that the skipped nodes are closed
  under dependents, that only nodes whose dependencies are behind the main
  thread have a worker, and that a joined worker's result is kept until it is
  merged and is no success of a failing node. The step that could break it is the
  merge of a branch that does not fire while others of its wave are unmerged:
  `DownstreamOfWave` shows from the closure that it silences later waves only.
* `StoppedRunsStayStopped` adds `Doomed`: a stopped run is before a wave, or has
  a worker that has not passed its guard, or an error that waits in the merge,
  and no step leads out of that.
* `ScheduleShowsNowhere` compares a run with a reference that knows no threads:
  `Reference[k]` is what ran, was skipped and was written after `k` waves. The
  invariant (`SchedInv`) adds `Tracks(k)`: for some `k` the run is the reference
  after `k` waves plus the effects of the nodes of the current wave merged so
  far, and what a branch found is what it finds in the reference's facts, because
  it read the snapshot the wave began with. Nodes are merged by id and waves grow
  by level (`LevelGrows`), so the trace is sorted whatever order the workers
  ended in (`TraceOrdered`). A merge that silences nodes silences none of its own
  wave (`TakenSparesWave`); a reference that has run an output or finds nothing
  new stays as it is (`Settles`), so that the run that ends early is the end of
  the reference.

**Narrowing** (`CandidateNarrowingProofs`): `SafeKeeps` and `RulesGovern`, for
every plan, rule set, limit and scoring. `NarrowInv` says, of the snapshot a wave
sees and of the state being merged alike (`StateInv`), that the surviving
candidates are the declared ones less what the report they were filtered by
removed (`Filtered`); that such a report was made by a pass (`Reported`); that
whoever is missing from what a question asks was removed by its report or pruned
by a node (`Asked`); and that a safe engine prunes nobody (`Spared`). The stages
overwrite each other in any order, so each of the seven kinds of node has a step
of its own, against a merge that takes the snapshot's values and the run's
(`MergeKeepsInv`). The lists are rearranged by sorting: `RankedIs` shows, from
ranks, that ordering by scores loses and repeats nobody.

**Gate** (`DecisionEngineProofs`): `LastWordShipped`, `DecisiveAnswers`,
`DisagreementIsFinal`, `AbstentionIsFinal`, for any number of questions and any
ladder. `GateInv` keeps that the decision in place is the last word of its walk
(`LiveIsLastWord`): rungs replace the decision of the question being walked and
of no other; that a resolved question was resolved by what the gate says of the
decision in place, or by the verifier where the gate asks for it
(`GateResolved`); and that the response is as severe as its severest question
(`ResponseDriven`). That one question drives it (`DriverExists`) uses that the
order the code compares by, ties broken by confidence and id, has a greatest
element on a finite set.

**Graphs** (`GraphOptimizerProofs`): `ShapeDecided`, `LevelsBuilt`,
`OptimizerSound`, for every document and every order of ids. Validation counts
and peels where its reference speaks of cycles and paths: the loop invariant says
that each counter is the number of dependencies that are not placed yet
(`CounterDrops`), that waves are the levels they should be, and that the current
wave misses no node that could be placed; when nothing is left to peel, each
leftover node depends on another leftover one, which a finite acyclic relation
does not allow (`LeftoverIsCyclic`), while an order that places everybody has no
cycle (`LoopPlacesAll`). For the optimizer, the meaning of a node is the term
it computes, unfolded to a depth (`TermsUnfold`): merged nodes compute the same
term at every depth (`SameDepsSameTerm`), renaming dependencies to
representatives changes no term, and dropping dead nodes leaves the terms of
the others alone (`TermsKept`). That nothing but a name that is gone can make the
rebuild fail is shown with a level function: waves give every node a number
above those of its dependencies (`WavesGiveLevels`), twins have the same number
(`SameLevelsBelow`), so renaming one to the other keeps the order
(`RenamedOnSameLevels`) and no cycle can appear (`RebuiltShape`).

**Evidence** (`EvidenceReadingsProofs`): all six properties of the layer, each
resting on `EvidenceInv`, that an answer is the one its task asks for given the
reads made.

* `EarlyExitIsSound`: each unread rotation adds at most one vote (`WinsOfMore`),
  so a leader ahead of the runner-up by more than the unread stays ahead.
* `ProofsSurviveNarrowing`: an answer is the only one of five provers' answers
  (`OnlyIs`); taking other candidates away removes answers but never adds one.
* `FittedProfilesGovern`: the sweep over the grid, unfolded as a recursion over
  sets of steps, ends at the first of the best (`FitIsFirstBest`), so it ends at
  1.00, and nothing is emitted, only when nothing below is as good; F1 values are
  fractions and compared by cross-multiplication (`FractionsOrdered`).
* `ViewsKeepEvidence`: sentences are taken in the order of their rank, so what
  fits the budget is a prefix of the ranking (`KeptIsPrefix`) and nothing left
  out scores more than what was kept (`PrefixIsBest`); what is ranked at all has
  a score or names a candidate.
* `OddsAreBounded`: scores are sums of non-negative terms; the distance to the
  best is capped and the best does not move (`BoundedIs`).
* `EqualKeysDecideAlike`: two requests with one key list the same candidates, so
  one list is a renaming of the other (`SameCandidates`); frequencies, sums and
  ranks do not change under a renaming (`CountRenamed`, `ScoreRenamed`,
  `RankedRenamed`), and so neither do the winners nor a reranker's order.

**Surfaces** (`DecisionSurfacesProofs`): `ErrorsStayWithTheirThread`,
`AcknowledgedRowsStand`, for any number of callers, any documents and whatever
the engine decides. `SurfacesInv` adds to the two properties

* that a server which does not serve holds nobody unless it drains
  (`NobodyHeld`): connections are accepted only while it serves, and axum's
  graceful shutdown, which `Stop` stands for, waits for the held ones;
* that a call has a reply only once it has ended (`RepliesEnd`), so that an error
  slot is written with the reply and never for a call still under way;
* that whoever is between its two writes holds the lock (`WriterHoldsLock`), so
  that nobody writes behind a row before its newline;
* where the row of a caller stands (`RowsRight`): nowhere before its write, at
  the end of the file between the two writes, in front of a newline once it is
  acknowledged. Only the step that wrote the newline replies 201: no failure,
  refusal, panic or decision has that status (`FailuresAcknowledgeNothing`,
  `RefusalsAcknowledgeNothing`, `DecisionsAcknowledgeNothing`). A failed write
  may leave a fragment, which moves no row that stands (`OtherRowsKept`).

`RequestsDecidedAreLegal` and `EscalationsFit` rest on a second invariant,
`CallsRight`, which follows a call from its document to its decision: a call
under way carries a job of the table; what it asks was built by a decoder, so
that each request is legal and within the server's limits, or is a refusal of
its own (a batch carries both); nothing is decided while it is idle; and what
has been decided is no longer than what was asked, each result with reports that
fit or with an error that no check of a report made (`Sound`).

* A decoder either refuses or gives what its caller asked of it (`Gives`,
  `Clean`). That is one lemma per constructor of the IR, per codec
  (`DecodeIs` over the four formats, `ChatRequestIs` for the chat route, the
  registry's `InstantiateIs` and `FromRegistryIs`), per builder of an engine
  (`NewEngineIs` to `HandleOfIs`) and per surface (`HttpIs`, `McpIs`, `WireIs`,
  `BindingsAre`, `CliIs`, `LibraryIs`), put together by `RequestsAre`. A request
  is legal for the limits it carries, and its decoder had those from the server;
  `WithinIsLegal` puts the two together.
* The answers of a run, whatever it elects, have masses, a top and a response
  that the constructors take (`MassesAre`, `TopIs`, `AnswerSetsAre`,
  `ResponsesAre`), so the report of a response that escalates is valid when it is
  built (`ReportOf`).
* `StayingIsAnsweredInFull` rests on a third invariant, `AnswersRight`: only calls
  that want a decision are worked on and only feedback waits for the file, so
  that every way a call ends is one reply of a known kind, in full (`InFull`): a
  refusal, a panic and a failed engine carry no document (`FailuresCarryNothing`)
  and leave the call incomplete, the end of the work carries one item for every
  item decided (`AnsweredIs`), which is every item asked. The two steps that end
  a call without a reply, a client leaving before its handler ran and a runtime
  dropping tasks it has not started, meet nobody who waits: the second needs
  `NobodyHeld`, and with it what axum promises, which is the one thing here that
  is assumed and not the code's.
* `ReportsFitOrAreMinimal`, of the trimming alone: trace and evidence are cut
  before the guidance, which loses an eighth, or a byte at least, rounded up to
  a character at a time. The loop gives up when a cut would leave nothing; since
  a character has one to four bytes, that is so only with one character left.

**Model serving** (`ModelServingProofs`): all its safety properties, for any
vocabulary, batch and number of callers.

* `HeapMergesGreedily`: the heap holds stale entries and is never searched. The
  invariant says that every pair of live neighbours that has a rank is queued with
  the versions it has now, and that the symbols merged so far are those of some
  round of the greedy reference. The least entry that is not stale is then the
  leftmost pair of least rank, and popping a stale one changes nothing.
* `ReadingsStayOwn`: rows are padded to the longest and laid out in one list, so
  the proof is about where each cell lands: that `(i - 1) * W + c` determines `i` and
  `c` (`Place`), that a row read under its mask is the row that was padded
  (`PaddedAttended`), that the collated pointers are in their own columns
  (`ColumnIs`), and that the readout pairs cell `k` of row `i` with key `k` of
  question `i`. `CallsInv` keeps, over the interleavings, that a call's reply is a
  function of its own batch: the session is shared, its result is not.
* `PromptsHoldTheirOptions`: an option is cut to its own limit before it is laid
  out, and the state gets the room that is left, so that the cut of the whole
  prompt takes from the state alone; each option stands where its marker says
  because the positions are sums of the lengths before it.
* `AnswersDroppedOnlyByEmbedding`: a readout pairs scores with keys and stops at
  the shorter of the two. Vision and llama.cpp check what they got back and leave
  no key without a score; the embedding rung does not, and the keys it leaves
  out are the last, one for each vector that was missing. Nothing is assumed of
  the number of vectors.
* `WindowAlwaysInside`: the scaled image covers the side in both directions, and
  the centred offsets round down.

Recursion and induction. The library's induction theorems take an operator as a
parameter and cannot be used; `FiniteOrder` gets what the proofs need from
minimal elements instead (`MinimalSubset`, `LeastNumber`): a statement that
failed somewhere would have a least failure. `RecursionUpTo` and
`RecursionOnSubsets` give from this that a recursive function, and a fold of the
community modules, unfolds, which the references of the executor, the optimizer
and the scoring are; so do the loops that trim a report, the greedy reference of
the tokenizer (`Greedy`), the size of a tensor (`Product`) and the reading of
nested branches. For that a property of an OpenAI schema is not a tree but a table of
entries that name the places of their branches, always behind their own. Some
definitions of the models (`RankedParts`, `Ranked`, `Tokenize`, `Sorted`,
`Attended`) choose by rank for the same reason, instead of calling a sorting
operator that the prover cannot open.

Only model-checked:

* everything temporal with fairness (`Terminates`, `EveryCallReturns`,
  `ServingEnds`, `EveryCallEnds`): liveness is beyond the installed backends;
* two round trips, `AsksWhatWasMeant` and `ClientReadsTheDecision`: they compare
  what one conversion wrote with what another reads, and need, beyond the lemmas
  about decoders, that each encoder's output parses to what went in, in four
  formats that sort, drop and rename members in different ways;
* the three statements that the code does not keep.

## Not modelled

* Configuration files (`config/`): lookup and deserialisation; the surfaces build
  their engine from flags and never load one.
* Report projections (`report.rs`), `schema/macjev.rs`, recipes, `init`,
  `doctor`, listings and the `lane`, `ladder` and `feedback` subcommands of
  the command line: text, templates and files around the program.
* The item generator: an offline, seeded generator of benchmark items; it shares
  no state with the engine.
* The graphs of the model runtimes (external), image decoding, and the text of the
  llama.cpp client's HTTP exchange.
* Characters: how a text is split into words, tokens of a vocabulary, dates or
  JSON. What a selector string of a rule matches is left out too: a rule
  excludes and pins sets of candidates.
* Score questions in `ThresholdGate`, which gate like choices without
  abstention.

## Plan

Done: the engine core with its abstract service; the evidence layer; model
serving; the surfaces over the codecs, the IR and the assembly of an engine;
theorems for every safety property of the runs but the two round trips.

Next, in this order:

1. `AsksWhatWasMeant` and `ClientReadsTheDecision`, one format at a time, the
   native one first: each needs the counterpart of `DecodeIs` for the encoder.
2. The engine model in place of the open decision in `DecisionSurfaces`.
3. The item generator's verifier, whose solver could be checked against
   `StateEvidence`.
