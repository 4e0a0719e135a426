----------------------------- MODULE RungReadouts -----------------------------
(***************************************************************************)
(* The classifiers over the model backends: the NLI verifier, embedding,   *)
(* vision and llama.cpp rungs (nli.rs, embedding.rs, vision.rs,            *)
(* llamacpp.rs, decision.rs), the geometry of an image and the loading of  *)
(* a model directory (nli/serving.rs, vision/serve.rs, manifest.rs).       *)
(***************************************************************************)
EXTENDS RuntimeBackends

CONSTANTS PairTolerance,   \* parity drift allowed by verify_fixture
          Side,            \* the side of an image the vision tower takes
          MaxEdge          \* the largest edge of a scaled image (u32)

ASSUME SideAssumption == Side \in Nat

\* answers_of: the keys a distribution over the question must have, in order.
AnswersOf(d) == IF d.kind = "boolean" THEN <<"true", "false">> ELSE Keys(d.options)

\* distribution_over: softmax over `count' scores paired with keys (zip stops at
\* the shorter), which Distribution::from_pairs refuses when it is empty or has
\* lost mass.
OverKeys(keys, count) ==
    IF count = 0 \/ Len(keys) < count THEN Err("classifier") ELSE Ok(Cut(keys, count))

-----------------------------------------------------------------------------
(* NLI.                                                                    *)

\* premise and hypotheses: one pair of texts per answer, except that a Boolean
\* question is its own single hypothesis.
Premise(state, d) == state.text.ids \o d.text.ids
Hypotheses(d) ==
    IF d.kind = "boolean" THEN <<d.text.ids>> ELSE [i \in DOMAIN d.options |-> d.options[i].text.ids]
PairsOf(state, d) ==
    [i \in DOMAIN Hypotheses(d) |-> [premise |-> Premise(state, d), hypothesis |-> Hypotheses(d)[i]]]

\* entailment_distribution: one mass per key, not all of them nothing.  A mass is
\* a cell; `zero' are the cells without mass.
EntailmentDistribution(keys, masses, zero) ==
    IF Len(masses) # Len(keys) \/ {m.cell : m \in ToSet(masses)} \subseteq zero THEN Err("classifier")
    ELSE Ok([i \in DOMAIN keys |-> [key |-> keys[i], of |-> masses[i].of, cell |-> masses[i].cell]])

\* NliVerifier::decide: the single mass of a Boolean question goes to true and
\* what is left of it to false.
NliDecide(d, masses, zero) ==
    LET entailed == [i \in DOMAIN masses |-> [of |-> "entailed", cell |-> masses[i]]]
        split == <<entailed[1], [of |-> "rest", cell |-> masses[1]]>>
    IN  IF d.kind # "boolean" THEN EntailmentDistribution(AnswersOf(d), entailed, zero)
        ELSE IF masses = <<>> THEN Err("classifier")
        ELSE EntailmentDistribution(AnswersOf(d), split, {})

\* verify_fixture: rows and masses are compared as far as both go.
ParityHolds(expected, masses) ==
    \A i \in (DOMAIN expected) \cap (DOMAIN masses) :
        expected[i] - masses[i] \in -PairTolerance .. PairTolerance

-----------------------------------------------------------------------------
(* Embedding and vision.  `returned' is the number of vectors a backend    *)
(* gives back for the texts it was asked about.                            *)

\* The query and one text per answer; a Boolean question is two texts.
EmbeddingAsked(d) == IF d.kind = "boolean" THEN 2 ELSE 1 + Len(AnswersOf(d))

EmbeddingChoice(d, returned) ==
    IF returned = 0 THEN Err("classifier") ELSE OverKeys(Keys(d.options), returned - 1)
EmbeddingScore(d, returned) ==
    IF returned = 0 THEN Err("classifier") ELSE OverKeys(Keys(d.options), returned - 1)
EmbeddingBoolean(d, returned) ==
    IF returned < 2 THEN Err("classifier") ELSE Ok(<<"true", "false">>)
EmbeddingDecide(d, returned) ==
    CASE d.kind = "choice" -> EmbeddingChoice(d, returned)
      [] d.kind = "score" -> EmbeddingScore(d, returned)
      [] d.kind = "boolean" -> EmbeddingBoolean(d, returned)

\* image_embedding and pooled_image: no image may be missing.
ImageEmbedding(images, pooled) == images > 0 /\ pooled >= images

\* Mutant: a short return of the text tower is not noticed.
VisionPromptsUnchecked(d, returned) == OverKeys(Keys(d.options), returned)

\* score_prompts: a prompt for every candidate or level, and as many vectors.
VisionPrompts(d, returned) ==
    IF returned < Len(d.options) THEN Err("classifier") ELSE OverKeys(Keys(d.options), returned)

VisionChoice(d, returned) == VisionPrompts(d, returned)
VisionScore(d, returned) == VisionPrompts(d, returned)
VisionBoolean(d, returned) ==
    IF returned = 0 THEN Err("classifier") ELSE Ok(<<"true", "false">>)

\* VisionClassifier::decide: the images before any text.
VisionDecide(d, images, pooled, returned) ==
    IF ~ImageEmbedding(images, pooled) THEN Err("classifier")
    ELSE CASE d.kind = "choice" -> VisionChoice(d, returned)
           [] d.kind = "score" -> VisionScore(d, returned)
           [] d.kind = "boolean" -> VisionBoolean(d, returned)

\* CandidateConditionedModel::score: exactly one logit per candidate.
CandidateScores(d, returned) ==
    IF returned # Len(AnswersOf(d)) THEN Err("classifier") ELSE OverKeys(AnswersOf(d), returned)

-----------------------------------------------------------------------------
(* llama.cpp.  A response is [status, body]; a body is [choice, shape,     *)
(* distribution].                                                          *)

\* UreqTransport::new and loopback: an absolute http URL with a host.
Loopback(url) == IF url.scheme = "http" /\ url.host # "" THEN Ok(url.host) ELSE Err("classifier")

\* post_json: a transport fault, a status and a body that is no JSON all fail.
PostJson(response) ==
    IF response.status \in {"lost", "refused", "not_json"} THEN Err("classifier") ELSE Ok(response.body)

\* decide_distribution: exactly the declared answers, each a probability.
LlamaPairs(d, response) ==
    LET keys == AnswersOf(d)
        body == PostJson(response)
    IN  IF \/ ~body.ok
           \/ ~body.value.choice \/ body.value.shape # "object"
           \/ \E k \in ToSet(keys) : \/ k \notin DOMAIN body.value.distribution
                                     \/ body.value.distribution[k] \notin Nat
           \/ Cardinality(DOMAIN body.value.distribution) # Len(keys)
        THEN Err("classifier")
        ELSE Ok([i \in DOMAIN keys |-> [key |-> keys[i], mass |-> body.value.distribution[keys[i]]]])

\* LlamaDecisionClassifier::decide: with some mass, which is normalized.
LlamaDecide(d, response) ==
    LET pairs == LlamaPairs(d, response)
    IN  IF ~pairs.ok THEN pairs
        ELSE IF \A i \in DOMAIN pairs.value : pairs.value[i].mass = 0 THEN Err("classifier")
        ELSE Ok([i \in DOMAIN pairs.value |-> pairs.value[i].key])

-----------------------------------------------------------------------------
(* preprocess: the shorter edge is scaled to the side and the longer edge  *)
(* by the same factor, rounded half up, then the middle is cut out.        *)

\* Mutant: the edges are taken the wrong way round.
ScaledSwapped(longer, shorter, side) ==
    IF longer = 0 THEN Err("contract") ELSE Ok((shorter * side + longer \div 2) \div longer)

\* scale: an edge of nothing cannot be divided by.
Scaled(longer, shorter, side) ==
    IF shorter = 0 THEN Err("contract") ELSE Ok((longer * side + shorter \div 2) \div shorter)

\* preprocess, as far as the window that is cut out.
Window(width, height, side) ==
    LET long == IF width <= height THEN Scaled(height, width, side) ELSE Scaled(width, height, side)
        w == IF width <= height THEN side ELSE long.value
        h == IF width <= height THEN long.value ELSE side
        middle(edge) == Max({edge - side, 0}) \div 2
    IN  IF ~long.ok THEN long
        ELSE IF w > MaxEdge \/ h > MaxEdge THEN Err("contract")
        ELSE Ok([width |-> w, height |-> h, x |-> middle(w), y |-> middle(h)])

\* The planes of one image, a colour at a time; a pixel goes by its image, its
\* colour and its place.
Planes(image, window, side) ==
    [n \in 1 .. 3 * side * side |->
        [of |-> image, colour |-> (n - 1) \div (side * side),
         x |-> window.x + ((n - 1) % side), y |-> window.y + (((n - 1) \div side) % side)]]

\* embed_images, as far as the tensor; an image is [name, readable, width, height].
PixelTensors(images, side) ==
    LET window(i) == Window(images[i].width, images[i].height, side)
        planes == FlattenSeq([i \in DOMAIN images |-> Planes(images[i].name, window(i).value, side)])
    IN  IF \E i \in DOMAIN images : ~images[i].readable \/ ~window(i).ok THEN Err("contract")
        ELSE Together([pixel_values |-> Tensor(<<Len(images), 3, side, side>>, planes)])

-----------------------------------------------------------------------------
(* A model directory.                                                      *)

\* ModelManifest::load and verify_artifact; an id is a sequence, as a backend's is.
ManifestUsable(m) == m.readable /\ m.model_id # <<>> /\ m.format # "" /\ m.revision # "" /\ m.hex
ManifestHolds(m, bytes) == ManifestUsable(m) /\ m.sha256 = bytes

\* config_from_dir_json: the geometry must be in its bounds.
ConfigHolds(c) == c.image_size \in 1 .. 16384 /\ c.hidden_size \in 1 .. 4096

\* OnnxSiglip2Embedder::from_dir: every artifact against its manifest, then the
\* config, the tokenizer, both graphs, and the names the graphs go by.
FromDir(dir) ==
    LET tower == [vision |-> VisionFromFile(dir.graph.vision), text |-> TextFromFile(dir.graph.text)]
    IN  IF \E a \in DOMAIN dir.bytes : ~ManifestHolds(dir.manifest[a], dir.bytes[a]) THEN Err("manifest")
        ELSE IF ~ConfigHolds(dir.config) \/ ~dir.tokenizer THEN Err("contract")
        ELSE IF \E g \in DOMAIN tower : ~tower[g].ok THEN Err("contract")
        ELSE IF \E g \in DOMAIN tower : dir.manifest[g].model_id # tower[g].value THEN Err("manifest")
        ELSE Ok([demands |-> DemandsMask(dir.graph.text), graph |-> dir.graph])

\* OnnxNliScorer::from_dir and from_parts: neither manifest nor inputs are looked at.
NliFromDir(dir) ==
    LET backend == NliFromFile(dir.graph.nli)
    IN  IF ~dir.tokenizer THEN Err("contract") ELSE IF ~backend.ok THEN Err("contract") ELSE backend
==============================================================================
