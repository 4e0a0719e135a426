----------------------------- MODULE ModelServing -----------------------------
(***************************************************************************)
(* Concurrent callers of one model backend.  A call is prepared (rendered, *)
(* tokenized, collated), takes the mutex of the session, runs the graph    *)
(* and reads its output; a panic inside the graph poisons the mutex for    *)
(* good.  Calls of the rungs without a session answer in one step.  The    *)
(* tokenizer's merging is followed pop by pop.                             *)
(***************************************************************************)
EXTENDS RungReadouts, TokenMerge

CONSTANTS
    Callers,
    Batches,   \* sets of calls that share a backend: [kind, ...] records
    Asks,      \* calls of the rungs without a session
    Texts,     \* texts given to the tokenizer
    Nothing    \* no merging, nothing prepared

IsSeq(s) == s \in Seq(ToSet(s))
TextFits(x) == IsSeq(x.ids)
DecisionFits(d) ==
    /\ d.kind \in {"choice", "score", "boolean"} /\ TextFits(d.text) /\ IsSeq(d.options)
    /\ \A o \in ToSet(d.options) : DOMAIN o = {"key", "text"} /\ TextFits(o.text)

ASSUME TextAssumption == \A t \in Texts : IsSeq(t)
ASSUME JobAssumption == \A job \in UNION Batches :
    /\ job.kind \in {"kai", "julia", "nli", "siglip", "pixels"} /\ IsSeq(job.asked)
    /\ job.kind \in {"kai", "julia", "nli"} =>
          \A q \in ToSet(job.asked) : DecisionFits(q.d) /\ TextFits(q.state.text)
    /\ job.kind \in {"julia", "nli"} => Len(job.asked) = 1
    /\ job.kind = "siglip" => \A row \in ToSet(job.asked) : IsSeq(row)
    /\ job.kind = "pixels" => \A image \in ToSet(job.asked) : {image.width, image.height} \subseteq Nat
ASSUME AskAssumption == \A ask \in Asks :
    /\ ask.rung \in {"embedding", "vision", "candidates", "llama"} => DecisionFits(ask.d)
    /\ ask.rung \in {"embedding", "vision", "candidates"} => ask.returned \in Nat
    /\ ask.rung = "window" => {ask.width, ask.height, ask.side} \subseteq Nat

VARIABLES calls, session, text, merge

vars == <<calls, session, text, merge>>

Free == "free"
Poisoned == "poisoned"

-----------------------------------------------------------------------------
(* A call.                                                                 *)

AllOk(results) ==
    IF \A i \in DOMAIN results : results[i].ok
    THEN Ok([i \in DOMAIN results |-> results[i].value]) ELSE Err("prompt")

\* The backend a call is made on, from the file of its graph.
Backend(job) ==
    CASE job.kind = "kai" -> KaiFromFile(job.graph)
      [] job.kind = "julia" -> JuliaFromFile(job.graph)
      [] job.kind = "nli" -> NliFromFile(job.graph)
      [] job.kind = "siglip" -> TextFromFile(job.graph)
      [] job.kind = "pixels" -> VisionFromFile(job.graph)

\* The encodings (or rows) of a call.
Encodings(job) ==
    LET kai(q) == LET k == KaiQuestion(q.state, q.d) IN IF k.ok THEN KaiEncode(k.value) ELSE k
        julia(q) == LET j == JuliaQuestion(q.state, q.d) IN IF j.ok THEN JuliaEncode(j.value) ELSE j
        pairs(q) == PairsOf(q.state, q.d)
    IN  CASE job.kind = "kai" -> AllOk([i \in DOMAIN job.asked |-> kai(job.asked[i])])
          [] job.kind = "julia" -> AllOk(<<julia(job.asked[1])>>)
          [] job.kind = "nli" -> Ok([i \in DOMAIN pairs(job.asked[1]) |-> PairEncoded(pairs(job.asked[1])[i])])
          [] job.kind = "siglip" -> Ok([i \in DOMAIN job.asked |-> Cut(job.asked[i], MaxText)])
          [] job.kind = "pixels" -> Ok(job.asked)

TensorsOf(job, e) ==
    CASE job.kind = "kai" -> KaiTensors(e)
      [] job.kind = "julia" -> JuliaTensors(e[1])
      [] job.kind = "nli" -> NliTensors(e)
      [] job.kind = "siglip" -> SiglipTensors(e, DemandsMask(job.graph))
      [] job.kind = "pixels" -> PixelTensors(e, Side)

\* What a backend checks before it asks for the session.
ShapesFit(job, t) ==
    CASE job.kind = "kai" -> KaiShapes(t)
      [] job.kind = "julia" -> JuliaShapes(t)
      [] job.kind = "nli" -> NliShapes(t)
      [] job.kind = "siglip" -> TextShapes(t, DemandsMask(job.graph))
      [] job.kind = "pixels" -> VisionShapes(t)

\* What the session makes of the tensors, checked by its backend.
Inferred(outcome, job, t) ==
    CASE job.kind = "kai" -> KaiInfer(outcome, t)
      [] job.kind = "julia" -> JuliaInfer(outcome, t)
      [] job.kind = "nli" -> NliInfer(outcome, t)
      [] job.kind = "siglip" -> TextInfer(outcome, t)
      [] job.kind = "pixels" -> VisionInfer(outcome, t)

\* The answer of a call, given what the session made of its tensors.
Read(job, e, out) ==
    IF ~out.ok THEN out
    ELSE CASE job.kind = "kai" -> KaiReadings(e, out.value)
           [] job.kind = "julia" -> JuliaReading(e[1], out.value)
           [] job.kind = "nli" ->
                 LET m == Entailments(e, out.value)
                 IN  IF m.ok THEN NliDecide(job.asked[1].d, m.value, {}) ELSE m
           [] job.kind \in {"siglip", "pixels"} -> PooledRows(e, out.value)

\* embed_texts and embed_images of nothing give nothing, without a session.
Vacuous(job) == job.kind \in {"siglip", "pixels"} /\ job.asked = <<>>

Then(result, Use(_)) == IF result.ok THEN Use(result.value) ELSE result

\* Opening, encoding and collating for a call, and the check of the shapes.
Preparation(job) ==
    Then(Backend(job), LAMBDA b :
        IF Vacuous(job) THEN Ok(<<>>)
        ELSE Then(Encodings(job), LAMBDA e :
                Then(TensorsOf(job, e), LAMBDA t :
                    IF ShapesFit(job, t) THEN Ok([encoded |-> e, tensors |-> t]) ELSE Err("tensor"))))

\* Both are functions of the call alone, tabulated for the calls of the instance.
Prepared == [job \in UNION Batches |-> Preparation(job)]
Result == [job \in UNION Batches |->
              LET outcome(p) == [o \in Outcomes |-> Read(job, p.encoded, Inferred(o, job, p.tensors))]
              IN  Then(Prepared[job], LAMBDA p : IF Vacuous(job) THEN <<>> ELSE outcome(p))]

\* What a rung without a session answers.
Answered(ask) ==
    CASE ask.rung = "embedding" -> EmbeddingDecide(ask.d, ask.returned)
      [] ask.rung = "vision" -> VisionDecide(ask.d, ask.images, ask.pooled, ask.returned)
      [] ask.rung = "candidates" -> CandidateScores(ask.d, ask.returned)
      [] ask.rung = "llama" -> LlamaDecide(ask.d, ask.response)
      [] ask.rung = "window" -> Window(ask.width, ask.height, ask.side)
      [] ask.rung = "connect" -> Loopback(ask.url)
      [] ask.rung = "load" -> FromDir(ask.dir)
      [] ask.rung = "load_nli" -> NliFromDir(ask.dir)
      [] ask.rung = "parity" -> IF ParityHolds(ask.expected, ask.masses) THEN Ok("parity") ELSE Err("drift")

-----------------------------------------------------------------------------
Pending == [ok |-> FALSE, value |-> "pending"]
Reply(c, r) == calls' = [calls EXCEPT ![c].at = "done", ![c].reply = r]
Move(c, at) == calls' = [calls EXCEPT ![c].at = at]
Rest == UNCHANGED <<text, merge>>

Prepare(c) ==
    /\ calls[c].at = "new" /\ calls[c].job.kind # "ask"
    /\ \E p \in {Prepared[calls[c].job]} :
          IF p.ok /\ ~Vacuous(calls[c].job)
          THEN calls' = [calls EXCEPT ![c].at = "waiting", ![c].prepared = p.value] ELSE Reply(c, p)
    /\ UNCHANGED session /\ Rest

\* session.lock()
Enter(c) == calls[c].at = "waiting" /\ session = Free /\ session' = c /\ Move(c, "inside") /\ Rest
TurnedAway(c) ==
    /\ calls[c].at = "waiting" /\ session = Poisoned
    /\ Reply(c, Err("poisoned")) /\ UNCHANGED session /\ Rest

\* Mutant: the guard outlives the call.
RunHoldingLock(c) ==
    /\ calls[c].at = "inside"
    /\ \E o \in Outcomes : Reply(c, Result[calls[c].job][o])
    /\ UNCHANGED session /\ Rest

\* The graph is run under the guard, which is dropped on every path.
Run(c) ==
    /\ calls[c].at = "inside"
    /\ \E o \in Outcomes : Reply(c, Result[calls[c].job][o])
    /\ session' = Free /\ Rest

\* A panic unwinds through the guard.
Panic(c) == calls[c].at = "inside" /\ Move(c, "panicked") /\ session' = Poisoned /\ Rest

\* A rung without a session.
Answer(c) ==
    /\ calls[c].at = "new" /\ calls[c].job.kind = "ask"
    /\ Reply(c, Answered(calls[c].job.ask)) /\ UNCHANGED session /\ Rest

\* The tokenizer pops its heap.
PopMerge ==
    /\ merge # Nothing /\ ~Finished(merge)
    /\ merge' = Popped(merge) /\ UNCHANGED <<calls, session, text>>

AllEnded ==
    /\ \A c \in DOMAIN calls : calls[c].at \in {"done", "panicked"}
    /\ merge # Nothing => Finished(merge)

Call(job) == [job |-> job, at |-> "new", prepared |-> Nothing, reply |-> Pending]
NoCall == [Call([kind |-> "none"]) EXCEPT !.at = "done"]

Init ==
    /\ session = Free
    /\ \/ \E b \in Batches : /\ calls \in [Callers -> {Call(j) : j \in b}]
                             /\ text = <<>> /\ merge = Nothing
       \/ \E a \in Asks, one \in Callers :
             /\ calls = [c \in Callers |-> IF c = one THEN Call([kind |-> "ask", ask |-> a]) ELSE NoCall]
             /\ text = <<>> /\ merge = Nothing
       \/ /\ text \in Texts /\ merge = Start(text)
          /\ calls = [c \in Callers |-> NoCall]

Step(c) == Prepare(c) \/ Enter(c) \/ TurnedAway(c) \/ Run(c) \/ Panic(c) \/ Answer(c)
Next == (\E c \in Callers : Step(c)) \/ PopMerge

\* Every caller is a thread of its own, and the mutex wakes a waiter.
Fairness == WF_vars(PopMerge) /\ \A c \in Callers : WF_vars(Step(c))
Spec == Init /\ [][Next]_vars /\ Fairness

-----------------------------------------------------------------------------
(* Properties.                                                             *)

Good(c) == calls[c].at = "done" /\ calls[c].reply.ok
Job(c) == calls[c].job
Encoded(c) == calls[c].prepared.encoded

\* kai.rs "both guards are required, a stale rank would apply a merge out of
\* order": whatever stale entries the heap still held, the symbols left are those
\* of merging the leftmost pair of least rank again and again, and the same texts
\* fail.
HeapIsGreedy ==
    merge # Nothing /\ Finished(merge) =>
        LET g == Greedy([i \in DOMAIN text |-> <<text[i]>>])
            unknown == g.failed \/ \E i \in DOMAIN g.symbols : g.symbols[i] \notin Vocabulary
        IN  Unknown(merge) = unknown /\ (~unknown => Live(merge) = g.symbols)

\* Batching does not mix questions: each cell that a batched question is answered
\* from attends to exactly that question's tokens, from its own answer position,
\* and points at its own option; each entailment mass is of its own pair, and an
\* image is embedded from its own pixels, colour by colour.
ReadingsAreOwn ==
    \A c \in Callers : Good(c) =>
        /\ Job(c).kind = "kai" =>
              \A i \in DOMAIN Job(c).asked :
                 LET e == Encoded(c)[i]
                 IN  calls[c].reply.value[i] =
                        [k \in DOMAIN e.keys |->
                            [key |-> e.keys[k], bias |-> IF Biased(e.kind, Len(e.keys)) THEN k ELSE 0,
                             cell |-> [ids |-> e.ids, pointer |-> e.option_pos[k], answer |-> e.answer_pos]]]
        /\ Job(c).kind = "nli" =>
              LET rows == Encoded(c)
                  row(i) == IF Job(c).asked[1].d.kind = "boolean" THEN rows[1] ELSE rows[i]
              IN  \A i \in DOMAIN calls[c].reply.value :
                     calls[c].reply.value[i].cell.ids = row(i)
        /\ Job(c).kind = "pixels" =>
              \A i \in DOMAIN Job(c).asked, k \in 1 .. Dims :
                 LET pixels == calls[c].reply.value[i][k].ids
                 IN  /\ {[of |-> p.of, colour |-> p.colour] : p \in ToSet(pixels)}
                           = [of : {Job(c).asked[i].name}, colour : 0 .. 2]
                     /\ Cardinality(ToSet(pixels)) = 3 * Side * Side

\* A Julia prompt within its limit holds all its options: behind each marker
\* stands the text of the option it marks, and the state is cut only when the
\* prompt is full.
PromptHoldsItsOptions ==
    \A c \in Callers : Good(c) /\ Job(c).kind = "julia" =>
        LET q == JuliaQuestion(Job(c).asked[1].state, Job(c).asked[1].d).value
            e == Encoded(c)[1]
            from(i) == e.marker_pos[i] + 1
        IN  /\ Len(e.ids) <= JuliaMax
            /\ \A i \in DOMAIN q.options :
                  SubSeq(e.ids, from(i), from(i) + Len(JuliaOption(q, i)) - 1) = JuliaOption(q, i)
            /\ Len(e.ids) < JuliaMax => IsSuffix(q.state.ids \o <<"[SEP]">>, e.ids)
            /\ calls[c].reply.value = [k \in DOMAIN e.keys |->
                  [key |-> e.keys[k], bias |-> 0,
                   cell |-> [ids |-> e.ids, pointer |-> e.marker_pos[k], answer |-> 0]]]

\* How many of the vectors it asked for an embedding rung was not given.
Shortfall(ask) ==
    IF ask.rung = "embedding" THEN Max({0, EmbeddingAsked(ask.d) - ask.returned}) ELSE 0

\* Whatever number of vectors or scores a backend gives back, a decision that is
\* made is over exactly the answers of its question at every rung but one: the
\* embedding rung (embedding.rs decide_choice, decide_score) pairs what it was
\* given and silently leaves out as many of the last answers as vectors were
\* missing, where no_embeddings_failure speaks of a typed failure (README,
\* Observations).
OnlyEmbeddingDropsAnswers ==
    \A c \in Callers : Good(c) /\ Job(c).kind = "ask" =>
        LET ask == Job(c).ask
            answers == AnswersOf(ask.d)
        IN  ask.rung \in {"embedding", "vision", "candidates", "llama"} =>
                calls[c].reply.value = SubSeq(answers, 1, Len(answers) - Shortfall(ask))

\* The window that is cut out of a scaled image lies inside it and in its middle,
\* for every size of image that is accepted.
WindowInsideImage ==
    \A c \in Callers : Good(c) /\ Job(c).kind = "ask" /\ Job(c).ask.rung = "window" =>
        LET w == calls[c].reply.value
            side == Job(c).ask.side
            centred(at, edge) == edge - (at + side) - at \in {0, 1}
        IN  centred(w.x, w.width) /\ centred(w.y, w.height)

\* Every call ends, whoever panics while holding the session; so does merging.
ServingEnds == <>[]AllEnded

==============================================================================
