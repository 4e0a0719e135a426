----------------------------- MODULE SchemaCodecs -----------------------------
(***************************************************************************)
(* The wire formats: what each decoder makes of a document and what each   *)
(* encoder makes of a request or a response (opencodifier-schema).         *)
(*                                                                         *)
(* Data: a field of a document is absent, null, of the wrong JSON type or  *)
(* given with its value.  A JSON object is a function from labels, a       *)
(* document written in order a sequence; serde_json's map hands its keys   *)
(* over in sorted order.  A value of an answer is [t, v], t its JSON type. *)
(***************************************************************************)
EXTENDS DecisionIR

CONSTANTS
    MaxCriteria,  \* MAX_CRITERIA of jev.rs
    ModelFact,    \* the label of the fact `model`
    Envelope      \* the labels a vendor's envelope uses: [output, content, type, input, tool_use]

ASSUME CodecAssumption ==
    /\ MaxCriteria \in Nat /\ ModelFact \in Nat
    /\ Envelope \in [{"output", "content", "type", "input", "tool_use"} -> Nat]

-----------------------------------------------------------------------------
(* Fields and errors.                                                      *)

Given(v) == [is |-> "given", v |-> v]
Absent == [is |-> "absent"]
Null == [is |-> "null"]
Wrong == [is |-> "wrong"]

AsTyped(f) == IF f.is = "given" THEN Ok(f.v) ELSE Err("schema.invalid_type")
Required(f) == IF f.is = "absent" THEN Err("schema.missing_field") ELSE AsTyped(f)
Nullable(f) ==
    IF f.is \in {"absent", "null"} THEN Ok({}) ELSE Then(AsTyped(f), LAMBDA v : Ok({v}))

\* SchemaError::code for an error of the IR.
SchemaCode(code) ==
    CASE code = "ir.empty_questions" -> "schema.empty_questions"
      [] code = "ir.empty_field" -> "schema.missing_field"
      [] OTHER -> "schema.invalid_value"

FromCore(r) == IF r.ok THEN r ELSE Err(SchemaCode(r.code))
InvalidValue(r) == IF r.ok THEN r ELSE Err("schema.invalid_value")

Sorted(labels) ==
    CHOOSE s \in [1..Cardinality(labels) -> labels] : \A i, j \in DOMAIN s : i < j => s[i] < s[j]

\* The first refusal of F over a sequence, or its values.
Each(s, F(_)) == Collect([i \in DOMAIN s |-> F(s[i])])

EnforceLimits(bytes, count, limits) ==
    Unless(<< <<bytes > limits.input_bytes, "schema.limit_exceeded">>,
              <<count = 0, "schema.empty_questions">>,
              <<count > limits.questions, "schema.limit_exceeded">> >>, TRUE)

EnforceUnique(questions) ==
    Unless(<< <<Repeats([i \in DOMAIN questions |-> questions[i].id]), "schema.invalid_value">> >>, TRUE)

-----------------------------------------------------------------------------
(* States.  A fact that is no fact value is BadFact; an image is its       *)
(* bytes, Unusable when it does not decode, Elsewhere when it is a         *)
(* reference.                                                              *)

BadFact == -1
Unusable == -1
Elsewhere == -2

WithFacts(state, facts) ==
    IF BadFact \in Range(facts) THEN Err("schema.invalid_value")
    ELSE Ok([state EXCEPT !.facts = facts @@ state.facts])

FromText(text) == [text |-> text, images |-> <<>>, facts |-> <<>>]

\* One content part; `elsewhere` is the error of an image given by reference.
Part(part, elsewhere) ==
    Then(AsTyped(part), LAMBDA p :
      CASE p.type = "text" -> Then(Required(p.body), LAMBDA n : Ok(FromText(n)))
        [] p.type = "image" -> Then(Required(p.body), LAMBDA n :
              Unless(<< <<n = Unusable, "schema.invalid_value">>, <<n = Elsewhere, elsewhere>> >>,
                     [FromText(0) EXCEPT !.images = <<n>>]))
        [] OTHER -> Err("schema.unsupported_construct"))

\* The parts in order: texts run together, images follow one another.
Gathered(states) ==
    [FromText(SumFunction([i \in DOMAIN states |-> states[i].text]))
       EXCEPT !.images = FlattenSeq([i \in DOMAIN states |-> states[i].images])]

StateFromParts(parts, elsewhere) ==
    Then(Each(parts, LAMBDA p : Part(p, elsewhere)), LAMBDA states : Ok(Gathered(states)))

\* `input` or `content`: a string or a sequence of parts.
Content(c, elsewhere) ==
    IF c.kind = "text" THEN Ok(FromText(c.text)) ELSE StateFromParts(c.parts, elsewhere)

-----------------------------------------------------------------------------
(* The OpenAI schema.  A property is a table: its first entry, and behind  *)
(* each entry the branches it nests.  An entry is [has, branches, type,    *)
(* enum, const, title, note]: the combinators it carries, the places of    *)
(* the branches of its anyOf, and its description, which may list labels   *)
(* behind a marker.                                                        *)

SameDecision(p, q) ==
    /\ p.kind = q.kind
    /\ p.kind # "boolean" => p.id = q.id /\ p.options = q.options

\* The labels behind a marker; {} without the marker.
Marked(p, marker) ==
    Then(Nullable(p.note), LAMBDA note :
      IF \E n \in note : n.marker = marker
      THEN InvalidValue(Then(AsTyped(Or(note, {}).labels), LAMBDA labels : Ok({labels})))
      ELSE Ok({}))

ChoiceFromEnum(name, p, ids, limits) ==
    Then(Unless(<< <<ids = <<>>, "schema.invalid_value">>,
                   <<Len(ids) > limits.candidates, "schema.limit_exceeded">> >>, ids), LAMBDA given :
    Then(Each(given, LAMBDA id : Then(AsTyped(id), LAMBDA v : FromCore(NewCandidate(v)))), LAMBDA candidates :
    Then(Marked(p, "descriptions"), LAMBDA descriptions :
      FromCore(NewChoice(name, Or({p.title} \ {Empty}, name), candidates)))))

LevelLabels(p) ==
    Then(Marked(p, "levels"), LAMBDA found :
      Unless(<< <<found = {}, "schema.missing_field">>,
                <<\E labels \in found : Len(labels) < 2, "schema.invalid_value">> >>, Or(found, <<>>)))

ScoreFromLevels(name, p) ==
    Then(LevelLabels(p), LAMBDA labels :
    Then(InvalidValue(Each(labels, NewLevel)), LAMBDA levels :
      FromCore(NewScore(name, Or({p.title} \ {Empty}, name), levels))))

\* The one decision all the branches that are not null stand for, given what
\* each entry behind theirs is read as.
ReduceAnyOf(table, branches, reading) ==
    LET null(b) == table[b].is = "given" /\ table[b].v.type = Given("null")
        decidable == {k \in DOMAIN branches : ~null(branches[k])}
        first == reading[branches[Min(decidable)]]
        reduced == [k \in decidable |-> Then(reading[branches[k]], LAMBDA q :
                      IF first.ok /\ ~SameDecision(q, first.v)
                      THEN Err("schema.unsupported_construct") ELSE Ok(q))]
    IN  IF decidable = {} THEN Err("schema.unsupported_construct")
        ELSE Then(Collect(reduced), LAMBDA questions : Ok(questions[Min(decidable)]))

\* A property without branches, by its type.
TypedToQuestion(name, p, limits) ==
    Then(Required(p.type), LAMBDA type :
      CASE type = "string" ->
             IF p.enum = Absent THEN Err("schema.unsupported_generation_field")
             ELSE Then(AsTyped(p.enum), LAMBDA ids : ChoiceFromEnum(name, p, ids, limits))
        [] type = "boolean" -> FromCore(NewBoolean(name, Or({p.title} \ {Empty}, name)))
        [] type = "integer" -> ScoreFromLevels(name, p)
        [] type = "number" -> Err("schema.unsupported_construct")
        [] OTHER -> Err("schema.invalid_type"))

\* Branches nest, so every entry is read, the last ones first.
PropertyToQuestion(name, table, limits) ==
    LET read[i \in DOMAIN table] ==
          Then(AsTyped(table[i]), LAMBDA p :
            IF p.has \cap {"oneOf", "const"} # {} THEN Err("schema.unsupported_construct")
            ELSE IF "anyOf" \in p.has
            THEN Then(AsTyped(p.branches), LAMBDA branches : ReduceAnyOf(table, branches, read))
            ELSE TypedToQuestion(name, p, limits))
    IN  read[1]

\* A schema is [has, properties, required]: a function from names, and the
\* number of names required.
DecodeSchema(schema, limits) ==
    IF schema.has \cap {"oneOf", "anyOf"} # {} THEN Err("schema.unsupported_construct")
    ELSE Then(Required(schema.properties), LAMBDA properties :
         Then(Required(schema.required), LAMBDA required :
           IF required # Cardinality(DOMAIN properties) THEN Err("schema.invalid_value")
           ELSE Then(Each(Sorted(DOMAIN properties), LAMBDA name :
                            PropertyToQuestion(name, properties[name], limits)), LAMBDA questions :
                Unless(<< <<questions = <<>>, "schema.empty_questions">>,
                          <<Len(questions) > limits.questions, "schema.limit_exceeded">> >>, questions))))

PropertyFor(q) ==
    [has |-> {}, branches |-> Absent, title |-> q.text,
     type |-> Given(CASE q.kind = "choice" -> "string" [] q.kind = "boolean" -> "boolean"
                      [] q.kind = "score" -> "integer"),
     const |-> Absent,
     enum |-> IF q.kind = "choice" THEN Given([i \in DOMAIN q.options |-> Given(q.options[i])]) ELSE Absent,
     note |-> Given([marker |-> CASE q.kind = "choice" -> "descriptions" [] q.kind = "boolean" -> "none"
                                  [] q.kind = "score" -> "levels",
                     labels |-> Given(q.options)])]

\* The question of an id, the last one written.
Of(s, id) == s[Max({i \in DOMAIN s : s[i].id = id})]
Ids(s) == {s[i].id : i \in DOMAIN s}

SchemaFor(request) ==
    Then(EnforceUnique(request.questions), LAMBDA unique :
      Ok([has |-> {}, required |-> Given(Len(request.questions)),
          properties |-> Given([id \in Ids(request.questions) |->
                                  <<Given(PropertyFor(Of(request.questions, id)))>>])]))

-----------------------------------------------------------------------------
(* OpenAI: requests and responses.                                         *)

\* A document is [input, facts, schema]; a null `facts` is no object here.
OpenAiDecodeRequest(doc, limits) ==
    Then(Then(Required(doc.input), LAMBDA input : Content(input, "schema.invalid_value")), LAMBDA state :
    Then(IF doc.facts = Absent THEN Ok(state)
         ELSE Then(AsTyped(doc.facts), LAMBDA facts : WithFacts(state, facts)), LAMBDA full :
    Then(Then(Required(doc.schema), LAMBDA schema : DecodeSchema(schema, limits)), LAMBDA questions :
    Then(EnforceLimits(full.text, Len(questions), limits), LAMBDA within :
      FromCore(NewRequest(full, questions, DefaultPolicy, limits))))))

TextPart(n) == Given([type |-> "text", body |-> Given(n)])
ImagePart(n) == Given([type |-> "image", body |-> Given(n)])

\* Mutant: the text alone.
ContentOfText(state) == [kind |-> "text", text |-> state.text]

ContentOf(state) ==
    IF state.images = <<>> THEN [kind |-> "text", text |-> state.text]
    ELSE [kind |-> "parts", parts |-> <<TextPart(state.text)>> \o
                                      [i \in DOMAIN state.images |-> ImagePart(state.images[i])]]

OpenAiEncodeRequest(request) ==
    Then(SchemaFor(request), LAMBDA schema :
      Ok([input |-> Given(ContentOf(request.state)), facts |-> Given(request.state.facts),
          schema |-> Given(schema)]))

\* Answers.  A Boolean's value is 1 or 0; `expected` counts 1 / One of a level.
Answer(q, value, expected, probability, entries) ==
    [kind |-> q.kind, id |-> q.id, value |-> value, expected |-> expected,
     probability |-> probability, confidence |-> probability, entries |-> entries]

Certain(key) == << <<key, One>> >>

AnswerFor(q, w) ==
    CASE q.kind = "choice" ->
           Unless(<< <<w.t # "string", "schema.invalid_type">>,
                     <<w.v \notin Range(q.options), "schema.invalid_value">> >>,
                  Answer(q, w.v, 0, One, Certain(w.v)))
      [] q.kind = "boolean" ->
           Unless(<< <<w.t # "boolean", "schema.invalid_type">> >>, Answer(q, w.v, 0, One, <<>>))
      [] q.kind = "score" ->
           Unless(<< <<w.t # "integer", "schema.invalid_type">>,
                     <<w.v \notin 0..(Len(q.options) - 1), "schema.invalid_value">> >>,
                  Answer(q, q.options[w.v + 1], w.v * One, One, Certain(q.options[w.v + 1])))

Value(t, v) == [t |-> t, v |-> v]

\* The answers to every question of the request, out of an object of values.
AnswersFrom(values, request, F(_, _)) ==
    Then(Each(request.questions, LAMBDA q :
                IF q.id \in DOMAIN values THEN F(q, values[q.id]) ELSE Err("schema.missing_field")),
         LAMBDA answers : FromCore(NewResponse(answers, "verify")))

\* A score goes out as the level its mean rounds to.
Rounded(expected) == (2 * expected + One) \div (2 * One)

OpenAiEncodeResponse(response) ==
    Ok([id \in Ids(response.answers) |->
          LET a == Of(response.answers, id)
          IN  CASE a.kind = "choice" -> Value("string", a.value)
                [] a.kind = "boolean" -> Value("boolean", a.value)
                [] a.kind = "score" -> Value("integer", Rounded(a.expected))])

\* A Responses envelope holds its values in the text of the last output_text
\* block; an object with no such block is the values themselves.
UnwrapEnvelope(payload) ==
    LET texts(block) ==
          Then(AsTyped(block), LAMBDA b :
            IF b.type = "output_text" THEN Then(Required(b.text), LAMBDA t : Ok(<<t>>)) ELSE Ok(<<>>))
        blocks(item) ==
          Then(AsTyped(item), LAMBDA i :
            IF i.content = Absent THEN Ok(<<>>)
            ELSE Then(AsTyped(i.content), LAMBDA bs :
                 Then(Each(bs, texts), LAMBDA found : Ok(FlattenSeq(found)))))
    IN  IF Envelope.output \notin DOMAIN payload THEN Ok(payload)
        ELSE IF payload[Envelope.output].t # "array" THEN Err("schema.invalid_type")
        ELSE Then(Each(payload[Envelope.output].v, blocks), LAMBDA found :
               LET all == FlattenSeq(found)
               IN  IF all = <<>> THEN Ok(payload) ELSE InvalidValue(AsTyped(Last(all))))

OpenAiDecodeResponse(payload, request) ==
    Then(UnwrapEnvelope(payload), LAMBDA values : AnswersFrom(values, request, AnswerFor))

-----------------------------------------------------------------------------
(* Anthropic: the same schema as a tool.                                   *)

\* rewrite_const: {const: x} becomes {enum: [x]} at every depth.
RewriteConst(table) ==
    [i \in DOMAIN table |->
       IF table[i].is # "given" \/ "const" \notin table[i].v.has THEN table[i]
       ELSE Given([table[i].v EXCEPT !.has = @ \ {"const"}, !.enum = Given(<<table[i].v.const>>)])]

DecodeInputSchema(schema, limits) ==
    DecodeSchema([schema EXCEPT !.properties =
                    IF @.is # "given" THEN @
                    ELSE Given([name \in DOMAIN @.v |-> RewriteConst(@.v[name])])], limits)

\* Only what the user said is evidence.
StateFromMessages(messages) ==
    Then(Each(messages, LAMBDA message : Then(AsTyped(message), LAMBDA m :
           IF m.role # "user" THEN Ok(FromText(0))
           ELSE Then(Required(m.content), LAMBDA c : Content(c, "schema.unsupported_construct")))),
         LAMBDA states : Ok(Gathered(states)))

\* A document is [facts, tools, messages, schema]: with tools, the first is
\* the schema; without, the document is itself a tool.
SplitRequest(doc) ==
    Then(Nullable(doc.facts), LAMBDA facts :
      IF doc.tools = Absent
      THEN Then(Required(doc.schema), LAMBDA schema :
             Ok([facts |-> facts, schema |-> schema, state |-> FromText(0)]))
      ELSE Then(AsTyped(doc.tools), LAMBDA tools :
           Then(IF tools = <<>> THEN Err("schema.invalid_value") ELSE AsTyped(Head(tools)), LAMBDA tool :
           Then(Required(tool), LAMBDA schema :
           Then(IF doc.messages = Absent THEN Ok(FromText(0))
                ELSE Then(AsTyped(doc.messages), StateFromMessages), LAMBDA state :
             Ok([facts |-> facts, schema |-> schema, state |-> state]))))))

AnthropicDecodeRequest(doc, limits) ==
    Then(SplitRequest(doc), LAMBDA parts :
    Then(DecodeInputSchema(parts.schema, limits), LAMBDA questions :
    Then(EnforceLimits(parts.state.text, Len(questions), limits), LAMBDA within :
    Then(WithFacts(parts.state, Or(parts.facts, <<>>)), LAMBDA state :
      FromCore(NewRequest(state, questions, DefaultPolicy, limits))))))

AnthropicEncodeRequest(request) ==
    Then(SchemaFor(request), LAMBDA schema :
      Ok([facts |-> Given(request.state.facts), tools |-> Given(<<Given(Given(schema))>>),
          messages |-> Given(<<Given([role |-> "user", content |-> Given(ContentOf(request.state))])>>),
          schema |-> Absent]))

\* The input of the first tool_use, or the payload itself.
UnwrapToolUse(payload) ==
    LET used == SelectSeq(payload[Envelope.content].v, LAMBDA b : b.is # "given" \/ b.v.type = "tool_use")
    IN  IF /\ Envelope.type \in DOMAIN payload
           /\ payload[Envelope.type].t = "string"
           /\ payload[Envelope.type].v = Envelope.tool_use
        THEN IF Envelope.input \notin DOMAIN payload THEN Err("schema.missing_field")
             ELSE IF payload[Envelope.input].t # "object" THEN Err("schema.invalid_type")
             ELSE Ok(payload[Envelope.input].v)
        ELSE IF Envelope.content \notin DOMAIN payload THEN Ok(payload)
        ELSE IF payload[Envelope.content].t # "array" THEN Err("schema.invalid_type")
        ELSE IF used = <<>> THEN Ok(payload)
        ELSE Then(AsTyped(Head(used)), LAMBDA b : Required(b.input))

AnthropicDecodeResponse(payload, request) ==
    Then(UnwrapToolUse(payload), LAMBDA values : AnswersFrom(values, request, AnswerFor))

-----------------------------------------------------------------------------
(* Jev.  A document is [state, model, facts, questions], its questions and *)
(* the criteria of each written in order.                                  *)

\* A question of the document as QuestionWire: a field of the wrong type is
\* met before a missing one is missed.
QuestionWire(question) ==
    IF question.is # "given" THEN Err("schema.invalid_value")
    ELSE LET q == question.v
             typed == /\ {q.type.is, q.instructions.is} \cap {"wrong", "null"} = {}
                      /\ q.criteria.is # "wrong"
         IN  Unless(<< <<~typed, "schema.invalid_value">>,
                       <<q.type = Absent \/ q.instructions = Absent, "schema.missing_field">> >>,
                    [type |-> q.type.v, instructions |-> q.instructions.v,
                     criteria |-> IF q.criteria.is = "given" THEN {q.criteria.v} ELSE {}])

JevQuestion(id, q, limits) ==
    LET criteria == Or(q.criteria, <<>>)
        counted(least, most) ==
          Unless(<< <<q.instructions = Empty, "schema.missing_field">>,
                    <<q.criteria = {}, "schema.missing_field">>,
                    <<Len(criteria) < least, "schema.invalid_value">>,
                    <<Len(criteria) > most, "schema.limit_exceeded">>,
                    <<Len(criteria) > limits.candidates, "schema.limit_exceeded">> >>, criteria)
    IN  CASE q.type = "choice" ->
               Then(counted(1, MaxCriteria), LAMBDA labels :
               Then(InvalidValue(Each(labels, NewCandidate)), LAMBDA candidates :
                 FromCore(NewChoice(id, q.instructions, candidates))))
          [] q.type = "score" ->
               Then(counted(2, Len(criteria)), LAMBDA labels :
               Then(InvalidValue(Each(labels, NewLevel)), LAMBDA levels :
                 FromCore(NewScore(id, q.instructions, levels))))
          [] q.type = "noul" -> FromCore(NewBoolean(id, q.instructions))
          [] OTHER -> Unless(<< <<q.instructions = Empty, "schema.missing_field">>,
                                <<TRUE, "schema.invalid_type">> >>, q)

JevBuild(wire, limits) ==
    Then(EnforceLimits(wire.state, Len(wire.questions), limits), LAMBDA within :
    Then(WithFacts([FromText(wire.state) EXCEPT !.facts = ModelFact :> wire.model], wire.facts), LAMBDA state :
    Then(Each(wire.questions, LAMBDA q : JevQuestion(q.id, q.v, limits)), LAMBDA questions :
      FromCore(NewRequest(state, questions, DefaultPolicy, limits)))))

\* serde_json::Value keeps the last of equal keys and sorts them.
SortedCriteria(question) ==
    IF question.is # "given" \/ question.v.criteria.is # "given" THEN question
    ELSE Given([question.v EXCEPT !.criteria = Given(Sorted(Range(@.v)))])

JevDecodeRequest(doc, limits) ==
    Then(Required(doc.state), LAMBDA state :
    Then(Required(doc.model), LAMBDA model :
    Then(Nullable(doc.facts), LAMBDA facts :
    Then(Required(doc.questions), LAMBDA written :
    Then(Each(Sorted(Ids(written)), LAMBDA id :
                Then(QuestionWire(SortedCriteria(Of(written, id).question)), LAMBDA q : Ok([id |-> id, v |-> q]))),
         LAMBDA questions :
      JevBuild([state |-> state, model |-> model, facts |-> Or(facts, <<>>), questions |-> questions], limits))))))

\* The text of the document, read in order: what does not fit the wire
\* types, a repeated key among it, is no valid document at all.
JevDecodeRequestStr(doc, limits) ==
    LET written == doc.questions.v
        wires == [i \in DOMAIN written |-> QuestionWire(written[i].question)]
        repeated(q) == q.is = "given" /\ q.v.criteria.is = "given" /\ Repeats(q.v.criteria.v)
    IN  IF \/ doc.state.is # "given" \/ doc.model.is # "given" \/ doc.facts.is = "wrong"
           \/ doc.questions.is # "given"
        THEN Err("schema.invalid_json")
        ELSE IF \/ Repeats([i \in DOMAIN written |-> written[i].id])
                \/ ~Collect(wires).ok
                \/ \E i \in DOMAIN written : repeated(written[i].question)
        THEN Err("schema.invalid_json")
        ELSE JevBuild([state |-> doc.state.v, model |-> doc.model.v,
                       facts |-> IF doc.facts.is = "given" THEN doc.facts.v ELSE <<>>,
                       questions |-> [i \in DOMAIN wires |-> [id |-> written[i].id, v |-> wires[i].v]]], limits)

\* The images and the facts but the model are left behind.
JevEncodeRequestStr(request) ==
    Then(EnforceUnique(request.questions), LAMBDA unique :
      Ok([state |-> Given(request.state.text),
          model |-> Given(IF ModelFact \in DOMAIN request.state.facts
                          THEN request.state.facts[ModelFact] ELSE Empty),
          facts |-> Absent,
          questions |-> Given([i \in DOMAIN request.questions |->
            LET q == request.questions[i]
            IN  [id |-> q.id,
                 question |-> Given([type |-> Given(IF q.kind = "boolean" THEN "noul" ELSE q.kind),
                                     instructions |-> Given(q.text),
                                     criteria |-> IF q.kind = "boolean" THEN Null ELSE Given(q.options)])]])]))

\* Through serde_json::Value the questions and their criteria are sorted.
JevEncodeRequest(request) ==
    Then(JevEncodeRequestStr(request), LAMBDA doc :
      Ok([doc EXCEPT !.questions = Given([i \in DOMAIN Sorted(Ids(@.v)) |->
            LET q == Of(@.v, Sorted(Ids(@.v))[i])
            IN  [q EXCEPT !.question = SortedCriteria(@)]])]))

Mean(weights, n) == FoldFunction(LAMBDA i, sum : i * weights[i].v + sum, 0, [i \in 1..n |-> i - 1])

JevAnswer(q, w) ==
    LET levels == DOMAIN q.options
        weight(i) == w.v[i - 1]
        faulty == {i \in levels : i - 1 \notin DOMAIN w.v \/ weight(i).t # "number" \/ ~IsUnit(weight(i).v)}
        entries == [i \in levels |-> <<q.options[i], weight(i).v>>]
    IN  CASE q.kind = "choice" ->
               Unless(<< <<w.t # "string", "schema.invalid_type">>,
                         <<w.v \notin Range(q.options), "schema.invalid_value">> >>,
                      Answer(q, w.v, 0, One, Certain(w.v)))
          [] q.kind = "boolean" ->
               Unless(<< <<w.t # "number", "schema.invalid_type">>, <<~IsUnit(w.v), "schema.invalid_value">> >>,
                      IF 2 * w.v >= One THEN Answer(q, 1, 0, w.v, <<>>) ELSE Answer(q, 0, 0, One - w.v, <<>>))
          [] q.kind = "score" ->
               IF w.t # "object" THEN Err("schema.invalid_type")
               ELSE IF faulty # {}
               THEN LET i == Min(faulty)
                    IN  Err(IF i - 1 \notin DOMAIN w.v THEN "schema.missing_field"
                            ELSE IF weight(i).t # "number" THEN "schema.invalid_type" ELSE "schema.invalid_value")
               ELSE Then(InvalidValue(NewDistribution(entries)), LAMBDA d :
                      Ok(Answer(q, LevelFor(q.options, Mean(w.v, Len(q.options))), Mean(w.v, Len(q.options)),
                                TopOf(d)[2], d)))

\* Mutant: the probability of the verdict, whichever it is.
OfVerdict(a) == a.probability

\* A Boolean goes out as the probability of yes.
OfYes(a) == IF a.value = 1 THEN a.probability ELSE One - a.probability

\* A score goes out by the index of each entry of its distribution.
JevEncodeResponse(response) ==
    Ok([answers |-> Given([id \in Ids(response.answers) |->
          LET a == Of(response.answers, id)
          IN  CASE a.kind = "choice" -> Value("string", a.value)
                [] a.kind = "boolean" -> Value("number", OfYes(a))
                [] a.kind = "score" ->
                     Value("object", [i \in 0..(Len(a.entries) - 1) |-> Value("number", a.entries[i + 1][2])])])])

JevDecodeResponse(payload, request) ==
    Then(Required(payload.answers), LAMBDA answers : AnswersFrom(answers, request, JevAnswer))

-----------------------------------------------------------------------------
(* Native: the IR's own serialization, every field of it known.            *)

\* The optional fields a document writes out although they have the value
\* serialization omits: the re-encoding it is compared with lacks them.
OmittedOnTheWire(doc, limits) ==
    \/ <<>> \in doc.images
    \/ \E raw \in doc.policy : 0 \in raw.margin
    \/ \E raw \in doc.limits : limits.images \in raw.images \/ limits.image_bytes \in raw.image_bytes

NewQuestion(raw) ==
    CASE raw.kind = "choice" ->
           Then(Each(raw.options, NewCandidate), LAMBDA c : NewChoice(raw.id, raw.text, c))
      [] raw.kind = "boolean" -> NewBoolean(raw.id, raw.text)
      [] raw.kind = "score" -> Then(Each(raw.options, NewLevel), LAMBDA l : NewScore(raw.id, raw.text, l))

\* A document is [text, facts, images, questions, policy, limits, extra]:
\* images, policy and limits optional, extra set when some key is foreign.
NativeRequest(doc, limits) ==
    LET own == IF doc.limits = {} THEN limits
               ELSE LET raw == Or(doc.limits, limits)
                    IN  [raw EXCEPT !.images = Or(@, limits.images), !.image_bytes = Or(@, limits.image_bytes)]
    IN  Then(Each(doc.questions, NewQuestion), LAMBDA questions :
        Then(IF doc.policy = {} THEN Ok(DefaultPolicy) ELSE NewPolicy(Or(doc.policy, {})), LAMBDA policy :
          NewRequest([text |-> doc.text, facts |-> doc.facts, images |-> Or(doc.images, <<>>)],
                     questions, policy, own)))

CheckLimits(request, limits) ==
    LET over == \/ request.state.text > limits.input_bytes
                \/ Len(request.questions) > limits.questions
                \/ \E q \in Range(request.questions) :
                      q.kind = "choice" /\ Len(q.options) > limits.candidates
                \/ Len(request.state.images) > limits.images
                \/ \E i \in DOMAIN request.state.images : request.state.images[i] > limits.image_bytes
                \/ \E l \in LimitNames : request.limits[l] > limits[l]
    IN  Unless(<< <<over, "schema.limit_exceeded">> >>, request)

NativeDecodeRequest(doc, limits) ==
    Then(InvalidValue(NativeRequest(doc, limits)), LAMBDA request :
    Then(Unless(<< <<doc.extra \/ OmittedOnTheWire(doc, limits), "schema.invalid_value">> >>, request),
         LAMBDA known :
    Then(CheckLimits(known, limits), LAMBDA within :
      FromCore(NewRequest(within.state, within.questions, within.policy, within.limits)))))

NativeEncodeRequest(request, limits) ==
    Ok([text |-> request.state.text, facts |-> request.state.facts,
        images |-> {request.state.images} \ {<<>>}, questions |-> request.questions,
        policy |-> {RawPolicy(request.policy)},
        limits |-> {[request.limits EXCEPT !.images = {@} \ {limits.images},
                                           !.image_bytes = {@} \ {limits.image_bytes}]},
        extra |-> FALSE])

\* Everything is checked twice; every refusal reads the same.
NativeDecodeResponse(payload) ==
    InvalidValue(
      Then(NewResponse(payload.answers, payload.outcome), LAMBDA response :
      Then(Each(SelectSeq(response.answers, LAMBDA a : a.kind # "boolean"),
                LAMBDA a : NewDistribution(a.entries)), LAMBDA normalized :
        IF payload.escalation = {} THEN Ok(response)
        ELSE WithEscalation(response, Or(payload.escalation, {})))))

-----------------------------------------------------------------------------
(* The four formats behind one trait.                                      *)

Formats == {"native", "openai", "anthropic", "jev"}

DecodeRequest(format, doc, limits) ==
    CASE format = "native" -> NativeDecodeRequest(doc, limits)
      [] format = "openai" -> OpenAiDecodeRequest(doc, limits)
      [] format = "anthropic" -> AnthropicDecodeRequest(doc, limits)
      [] format = "jev" -> JevDecodeRequest(doc, limits)

EncodeRequest(format, request, limits) ==
    CASE format = "native" -> NativeEncodeRequest(request, limits)
      [] format = "openai" -> OpenAiEncodeRequest(request)
      [] format = "anthropic" -> AnthropicEncodeRequest(request)
      [] format = "jev" -> JevEncodeRequest(request)

EncodeResponse(format, response) ==
    CASE format = "native" -> Ok(response)
      [] format = "jev" -> JevEncodeResponse(response)
      [] format \in {"openai", "anthropic"} -> OpenAiEncodeResponse(response)

DecodeResponse(format, payload, request) ==
    CASE format = "native" -> NativeDecodeResponse(payload)
      [] format = "openai" -> OpenAiDecodeResponse(payload, request)
      [] format = "anthropic" -> AnthropicDecodeResponse(payload, request)
      [] format = "jev" -> JevDecodeResponse(payload, request)

-----------------------------------------------------------------------------
(* What documents are made of: whatever a client writes, a field it fills  *)
(* with the right JSON type holds a text, a label or a list of them.       *)

Holding(S) == {Absent, Null, Wrong} \cup [is : {"given"}, v : S]

ContentPart ==
    [type : {"text"}, body : Holding(Nat)]
    \cup [type : {"image"}, body : Holding(Nat \cup {Unusable, Elsewhere})]
    \cup [type : STRING \ {"text", "image"}, body : Holding(Nat)]

ContentOfDocument == [kind : {"text"}, text : Nat] \cup [kind : {"parts"}, parts : Seq(Holding(ContentPart))]

MessageOfDocument == [role : STRING, content : Holding(ContentOfDocument)]

EntryOfTable ==
    [has : SUBSET STRING, branches : Holding(Seq(Nat)), type : Holding(STRING), const : Holding(Nat),
     enum : Holding(Seq(Holding(Nat))), title : Nat, note : Holding([marker : STRING, labels : Holding(Seq(Nat))])]

\* Branches stand behind the entry they belong to.
IsTable(table) ==
    /\ table \in Seq(Holding(EntryOfTable)) /\ table # <<>>
    /\ \A i \in DOMAIN table : table[i].is = "given" /\ table[i].v.branches.is = "given" =>
         Range(table[i].v.branches.v) \subseteq (i + 1)..Len(table)

IsProperties(properties) ==
    /\ properties = [name \in DOMAIN properties |-> properties[name]]
    /\ IsFiniteSet(DOMAIN properties) /\ DOMAIN properties \subseteq Nat
    /\ \A name \in DOMAIN properties : IsTable(properties[name])

IsSchema(schema) ==
    /\ DOMAIN schema = {"has", "properties", "required"}
    /\ schema.properties.is = "given" => IsProperties(schema.properties.v)

IsOpenAiDocument(doc) ==
    doc.input \in Holding(ContentOfDocument) /\ (doc.schema.is = "given" => IsSchema(doc.schema.v))

IsAnthropicDocument(doc) ==
    /\ doc.messages \in Holding(Seq(Holding(MessageOfDocument)))
    /\ doc.schema.is = "given" => IsSchema(doc.schema.v)
    /\ doc.tools.is = "given" /\ doc.tools.v # <<>> =>
         LET tool == Head(doc.tools.v)
         IN  tool.is = "given" /\ tool.v.is = "given" => IsSchema(tool.v.v)

WrittenQuestion == [type : Holding(STRING), instructions : Holding(Nat), criteria : Holding(Seq(Nat))]

IsJevDocument(doc) ==
    doc.state \in Holding(Nat) /\ doc.questions \in Holding(Seq([id : Nat, question : Holding(WrittenQuestion)]))

WrittenPolicy ==
    [min : Int, verify : Int, abstain : Int, entropy : SUBSET Int, margin : SUBSET Int, ood : SUBSET Int,
     threshold : SUBSET Int, sentinel : SUBSET Nat, overlap : SUBSET Int, escalate : SUBSET Int]

WrittenLimits(raw) ==
    /\ DOMAIN raw = LimitNames /\ raw.images \subseteq Nat /\ raw.image_bytes \subseteq Nat
    /\ \A l \in LimitNames \ {"images", "image_bytes"} : raw[l] \in Nat

IsNativeDocument(doc) ==
    /\ doc.text \in Nat /\ doc.images \subseteq Seq(Nat) /\ doc.extra \in BOOLEAN
    /\ doc.questions \in Seq([kind : {"choice", "boolean", "score"}, id : Nat, text : Nat, options : Seq(Nat)])
    /\ doc.policy \subseteq WrittenPolicy
    /\ \A raw \in doc.limits : WrittenLimits(raw)

IsDocument(format, doc) ==
    CASE format = "native" -> IsNativeDocument(doc)
      [] format = "openai" -> IsOpenAiDocument(doc)
      [] format = "anthropic" -> IsAnthropicDocument(doc)
      [] format = "jev" -> IsJevDocument(doc)
=============================================================================
