------------------------------ MODULE DecisionIR ------------------------------
(***************************************************************************)
(* The decision IR: the constructors every request, answer and response    *)
(* passes, each the ordered list of its refusals.                          *)
(*                                                                         *)
(* Data: a label (an id, a candidate, a level) is a number, 0 the empty    *)
(* string, and numeric order is the order of the strings; a text is its    *)
(* length in bytes; a probability counts units of 1 / One; an optional     *)
(* value is a set of at most one element.                                  *)
(***************************************************************************)
EXTENDS Integers, Sequences, FiniteSets, SequencesExt, FiniteSetsExt

CONSTANTS
    One,        \* the probability 1.0
    Malformed,  \* labels that break the identifier rules (alphabet, 128 bytes)
    Cost        \* bytes of a report: [skeleton, flag, entry], see SerializedLen

ASSUME IRAssumption ==
    /\ One \in Nat \ {0}
    /\ Malformed \subseteq Nat
    /\ Cost \in [skeleton : Nat, flag : Nat, entry : Nat]

-----------------------------------------------------------------------------
(* Results.                                                                *)

Ok(v) == [ok |-> TRUE, v |-> v]
Err(code) == [ok |-> FALSE, code |-> code]

\* The `?` of the source.
Then(r, F(_)) == IF r.ok THEN F(r.v) ELSE r

\* A constructor's checks in the order it makes them, each <<condition,
\* code>>: the first that holds refuses, and v is built when none does.
Unless(checks, v) ==
    LET met == {i \in DOMAIN checks : checks[i][1]}
    IN  IF met = {} THEN Ok(v) ELSE Err(checks[Min(met)][2])

\* The first refusal of a sequence of results, or all their values.
Collect(rs) ==
    LET bad == {i \in DOMAIN rs : ~rs[i].ok}
    IN  IF bad # {} THEN rs[Min(bad)] ELSE Ok([i \in DOMAIN rs |-> rs[i].v])

Or(option, default) == IF option = {} THEN default ELSE CHOOSE x \in option : TRUE

-----------------------------------------------------------------------------
(* Identifiers and questions.                                              *)

Empty == 0
IsUnit(p) == p \in 0..One

NewId(id) == IF id = Empty \/ id \in Malformed THEN Err("ir.invalid_id") ELSE Ok(id)

NewCandidate(id) == NewId(id)
NewLevel(label) == IF label = Empty THEN Err("ir.empty_field") ELSE Ok(label)

Repeats(s) == \E i, j \in DOMAIN s : i < j /\ s[i] = s[j]

Question(kind, id, text, options) ==
    [kind |-> kind, id |-> id, text |-> text, options |-> options]

NewChoice(id, text, candidates) ==
    Unless(<< <<~NewId(id).ok, "ir.invalid_id">>,
              <<text = Empty, "ir.empty_field">>,
              <<candidates = <<>>, "ir.empty_candidates">>,
              <<Repeats(candidates), "ir.duplicate_candidate">> >>,
           Question("choice", id, text, candidates))

\* The text is looked at before the id.
NewBoolean(id, text) ==
    Unless(<< <<text = Empty, "ir.empty_field">>, <<~NewId(id).ok, "ir.invalid_id">> >>,
           Question("boolean", id, text, <<>>))

NewScore(id, text, levels) ==
    Unless(<< <<~NewId(id).ok, "ir.invalid_id">>,
              <<text = Empty, "ir.empty_field">>,
              <<Len(levels) < 2, "ir.too_few_levels">>,
              <<Repeats(levels), "ir.duplicate_level">> >>,
           Question("score", id, text, levels))

\* The level an expected index falls into (expected counts 1 / One of a level).
LevelFor(levels, expected) ==
    levels[Min({(IF expected >= 0 THEN expected \div One ELSE 0) + 1, Len(levels)})]

-----------------------------------------------------------------------------
(* Policies and limits.                                                    *)

Infinity == 2 * One

DefaultPolicy ==
    [min |-> (4 * One) \div 5, verify |-> (13 * One) \div 20, abstain |-> One \div 2,
     entropy |-> Infinity, margin |-> 0, ood |-> Infinity,
     threshold |-> {}, sentinel |-> {}, overlap |-> {}, escalate |-> {}]

\* DecisionPolicy::new: three thresholds in order, every gate off.
PolicyNew(min, verify, abstain) ==
    Unless(<< <<~(IsUnit(min) /\ IsUnit(verify) /\ IsUnit(abstain)), "ir.invalid_policy">>,
              <<~(abstain <= verify /\ verify <= min), "ir.invalid_policy">> >>,
           [DefaultPolicy EXCEPT !.min = min, !.verify = verify, !.abstain = abstain])

WithEntropyCeiling(policy, ceiling) ==
    Unless(<< <<ceiling <= 0, "ir.invalid_policy">> >>, [policy EXCEPT !.entropy = ceiling])

WithMinMargin(policy, margin) ==
    Unless(<< <<~IsUnit(margin), "ir.invalid_policy">> >>, [policy EXCEPT !.margin = margin])

WithOodCeiling(policy, ceiling) ==
    Unless(<< <<ceiling # Infinity /\ ~IsUnit(ceiling), "ir.invalid_policy">> >>, [policy EXCEPT !.ood = ceiling])

\* Zero passes, one does not.
WithBooleanThreshold(policy, threshold) ==
    Unless(<< <<threshold \notin 0..(One - 1), "ir.invalid_policy">> >>, [policy EXCEPT !.threshold = {threshold}])

\* Empty stands for an id that is empty or the reserved "none" as well.
WithAbstainCandidate(policy, sentinel) ==
    Unless(<< <<sentinel = Empty, "ir.empty_field">> >>, [policy EXCEPT !.sentinel = {sentinel}])

WithMaxLabelOverlap(policy, overlap) ==
    Unless(<< <<overlap \notin 1..One, "ir.invalid_policy">> >>, [policy EXCEPT !.overlap = {overlap}])

WithEscalateBelow(policy, threshold) ==
    Unless(<< <<~IsUnit(threshold), "ir.invalid_policy">>,
              <<threshold \notin policy.abstain..policy.min, "ir.invalid_policy">> >>,
           [policy EXCEPT !.escalate = {threshold}])

\* A builder for what is there to be set.
Applied(option, policy, With(_, _)) == IF option = {} THEN Ok(policy) ELSE With(policy, Or(option, 0))

\* DecisionPolicy::try_from.
NewPolicy(raw) ==
    Then(PolicyNew(raw.min, raw.verify, raw.abstain), LAMBDA p1 :
    Then(Applied(raw.entropy, p1, WithEntropyCeiling), LAMBDA p2 :
    Then(Applied(raw.margin, p2, WithMinMargin), LAMBDA p3 :
    Then(Applied(raw.ood, p3, WithOodCeiling), LAMBDA p4 :
    Then(Applied(raw.threshold, p4, WithBooleanThreshold), LAMBDA p5 :
    Then(Applied(raw.sentinel, p5, WithAbstainCandidate), LAMBDA p6 :
    Then(Applied(raw.overlap, p6, WithMaxLabelOverlap), LAMBDA p7 :
      Applied(raw.escalate, p7, WithEscalateBelow))))))))

\* Serialization leaves out what has its default.
RawPolicy(policy) ==
    [policy EXCEPT !.entropy = {policy.entropy} \ {Infinity},
                   !.margin = {policy.margin} \ {0},
                   !.ood = {policy.ood} \ {Infinity}]

\* The ceilings of Limits.
LimitNames == {"input_bytes", "questions", "candidates", "graph_nodes", "retrieval",
               "time", "images", "image_bytes"}

-----------------------------------------------------------------------------
(* Requests.  A state is [text, images, facts]: bytes, a sequence of bytes *)
(* and a function from keys to values.                                     *)

\* Mutant: the constructor without its look at the images.
NewRequestImageless(state, questions, policy, limits) ==
    Unless(<< <<questions = <<>>, "ir.empty_questions">>,
              <<Len(questions) > limits.questions, "ir.invalid_policy">>,
              <<state.text > limits.input_bytes, "ir.invalid_policy">> >>,
           [state |-> state, questions |-> questions, policy |-> policy, limits |-> limits])

NewRequest(state, questions, policy, limits) ==
    LET tooLarge == \E i \in DOMAIN state.images : state.images[i] > limits.image_bytes
        tooMany == \E q \in Range(questions) :
                      q.kind = "choice" /\ Len(q.options) > limits.candidates
    IN  Unless(<< <<questions = <<>>, "ir.empty_questions">>,
                  <<Len(questions) > limits.questions, "ir.invalid_policy">>,
                  <<state.text > limits.input_bytes, "ir.invalid_policy">>,
                  <<Len(state.images) > limits.images, "ir.too_many_images">>,
                  <<tooLarge, "ir.image_too_large">>,
                  <<tooMany, "ir.invalid_policy">> >>,
               [state |-> state, questions |-> questions, policy |-> policy, limits |-> limits])

-----------------------------------------------------------------------------
(* Distributions, answers and responses.  A distribution is a sequence of  *)
(* <<key, probability>> pairs.                                             *)

Mass(entries) == FoldFunction(LAMBDA e, sum : e[2] + sum, 0, entries)

NewDistribution(entries) ==
    LET again(i) == \E j \in 1..(i - 1) : entries[j][1] = entries[i][1]
        bad == {i \in DOMAIN entries : again(i) \/ ~IsUnit(entries[i][2])}
    IN  IF bad # {}
        THEN Err(IF again(Min(bad)) THEN "ir.duplicate_candidate" ELSE "ir.invalid_probability")
        ELSE Unless(<< <<entries = <<>>, "ir.empty_field">>,
                       <<Mass(entries) # One, "ir.distribution_not_normalized">> >>, entries)

\* max_by keeps the last of equals.
TopOf(entries) ==
    entries[Max({i \in DOMAIN entries : \A j \in DOMAIN entries : entries[j][2] <= entries[i][2]})]

ValidAnswer(a) ==
    /\ IsUnit(a.confidence)
    /\ a.kind = "boolean" => IsUnit(a.probability)

Decisive == {"accept", "verified"}

NewResponse(answers, outcome) ==
    Unless(<< <<outcome \in Decisive /\ answers = <<>>, "ir.empty_field">>,
              <<\E i \in DOMAIN answers : ~ValidAnswer(answers[i]), "ir.invalid_probability">> >>,
           [answers |-> answers, outcome |-> outcome, escalation |-> {}])

-----------------------------------------------------------------------------
(* Escalation reports.  Evidence is the length of its `why`, guidance the  *)
(* widths of its characters.                                               *)

Bytes(widths) == SumFunction(widths)

SerializedLen(r) ==
    Cost.skeleton + r.text + (IF r.truncated THEN Cost.flag ELSE 0) + Bytes(r.guidance)
    + Cost.entry * (r.trace + Len(r.out) + Len(r.in)) + Bytes(r.out) + Bytes(r.in)

ValidReport(r) ==
    /\ IsUnit(r.threshold) /\ IsUnit(r.observed)
    /\ r.text # Empty /\ r.guidance # <<>> /\ r.model # Empty
    /\ \A why \in Range(r.in) \cup Range(r.out) : why # Empty
    /\ \A p \in r.partial : IsUnit(p)

WithEscalation(response, report) ==
    IF ~ValidReport(report) \/ response.outcome # "escalate" THEN Err("ir.invalid_escalation")
    ELSE Ok([response EXCEPT !.escalation = {report}])

\* The most entries of a part, at most n, with which the report fits; 0 if none do.
MostThatFit(n, With(_), max) ==
    LET fits == {k \in 0..n : SerializedLen(With(k)) <= max}
    IN  IF fits = {} THEN 0 ELSE Max(fits)

\* Mutant: the cut may take everything.
TrimGuidanceAway(r, max) == [r EXCEPT !.guidance = <<>>]

\* Guidance loses an eighth (at least a byte, rounded up to a character)
\* at a time until the report fits or a cut would leave nothing.
TrimGuidance(r, max) ==
    LET held(k) == SubSeq(r.guidance, 1, k)
        cutTo(k) == Max({j \in 0..k :
                          Bytes(held(j)) <= Bytes(held(k)) - Max({Bytes(held(k)) \div 8, 1})})
        trim[k \in 0..Len(r.guidance)] ==
            IF k = 0 \/ cutTo(k) = 0 THEN k
            ELSE IF SerializedLen([r EXCEPT !.guidance = held(cutTo(k))]) <= max THEN cutTo(k)
            ELSE trim[cutTo(k)]
    IN  [r EXCEPT !.guidance = held(trim[Len(r.guidance)])]

FitTo(report, max) ==
    LET flagged == [report EXCEPT !.truncated = TRUE]
        t == [flagged EXCEPT !.trace =
                 MostThatFit(flagged.trace, LAMBDA k : [flagged EXCEPT !.trace = k], max)]
        o == [t EXCEPT !.out = SubSeq(t.out, 1,
                 MostThatFit(Len(t.out), LAMBDA k : [t EXCEPT !.out = SubSeq(t.out, 1, k)], max))]
        i == [o EXCEPT !.in = SubSeq(o.in, 1,
                 MostThatFit(Len(o.in), LAMBDA k : [o EXCEPT !.in = SubSeq(o.in, 1, k)], max))]
    IN  IF SerializedLen(report) <= max THEN report
        ELSE IF SerializedLen(i) <= max THEN i
        ELSE TrimGuidance(i, max)
=============================================================================
