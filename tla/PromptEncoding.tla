---------------------------- MODULE PromptEncoding ----------------------------
(***************************************************************************)
(* Questions for the Kai and Julia rungs and the token sequences they are  *)
(* encoded to (kai.rs, julia.rs).  A text is [ids, blank, ok]: the tokens  *)
(* the tokenizer gives for it, whether it trims to nothing, and whether    *)
(* the tokenizer accepts it.  Tokens and keys are strings; positions in a  *)
(* prompt count from 0, as the tensors do.                                 *)
(***************************************************************************)
EXTENDS Integers, Sequences, FiniteSets, SequencesExt, FiniteSetsExt

CONSTANTS
    MinOptions, MaxOptions, MaxLevels,              \* 2, 255, 10
    KaiMax,                                         \* MAX_INPUT_TOKENS
    JuliaMax, HeadLength, MinHead, OptionLimit      \* 1024, 256, 8, 48

ASSUME PromptAssumption ==
    /\ {MinOptions, MaxOptions, MaxLevels, KaiMax, JuliaMax, HeadLength, OptionLimit} \subseteq Nat
    /\ MinHead \in Nat \ {0}

Ok(v) == [ok |-> TRUE, value |-> v]
Err(why) == [ok |-> FALSE, value |-> why]

Cut(s, n) == SubSeq(s, 1, Min({Len(s), n}))
Joined(texts) == [ids |-> FlattenSeq([i \in DOMAIN texts |-> texts[i].ids]),
                  blank |-> \A i \in DOMAIN texts : texts[i].blank,
                  ok |-> \A i \in DOMAIN texts : texts[i].ok]
Word(w) == [ids |-> <<w>>, blank |-> FALSE, ok |-> TRUE]

\* The keys of a Boolean question, in the order the rungs require.
NoulKeys == <<"false", "true">>
Keys(options) == [i \in DOMAIN options |-> options[i].key]

\* from_decision: a candidate goes by its id, a level by its index, and both are
\* described by their text; a Boolean question gets two fixed options.
OptionsOf(d, words) ==
    CASE d.kind = "choice" -> d.options
      [] d.kind = "score" ->
            [i \in DOMAIN d.options |-> [d.options[i] EXCEPT !.key = ToString(i - 1)]]
      [] d.kind = "boolean" ->
            [i \in 1 .. 2 |-> [key |-> NoulKeys[i], text |-> Word(words[i])]]
KindOf(d) == IF d.kind = "boolean" THEN "noul" ELSE d.kind

CountFits(options, most) == Len(options) \in MinOptions .. most
KeysUsable(kind, options) ==
    /\ \A i \in DOMAIN options : options[i].key # ""
    /\ kind = "noul" => Keys(options) = NoulKeys

-----------------------------------------------------------------------------
(* Kai.                                                                    *)

\* KaiQuestion::new, which a Boolean question goes round (noul).
KaiAccepts(q) ==
    /\ ~q.state.blank /\ ~q.text.blank
    /\ CountFits(q.options, IF q.kind = "score" THEN MaxLevels ELSE MaxOptions)
    /\ KeysUsable(q.kind, q.options)

KaiQuestion(state, d) ==
    LET q == [state |-> state.text, text |-> d.text, kind |-> KindOf(d), options |-> OptionsOf(d, <<"No", "Yes">>)]
    IN  IF state.facts THEN Err("facts")
        ELSE IF d.kind = "boolean" \/ KaiAccepts(q) THEN Ok(q)
        ELSE Err("contract")

\* segments: the prompt in the parts that are tokenized one by one.  An option
\* without a description is written with its key alone.
KaiSegments(q) ==
    <<Joined(<<Word("Context:"), q.state, Word(q.kind), q.text, Word("Options:")>>)>>
    \o [i \in DOMAIN q.options |->
          Joined(<<Word("<option>"), Word(q.options[i].key)>>
                 \o (IF q.options[i].text.blank THEN <<>> ELSE <<q.options[i].text>>)
                 \o <<Word("</option>")>>)]
    \o <<Word("Decision:")>>

\* KaiEncoding::validate.
KaiValid(e) ==
    /\ Len(e.option_pos) = Len(e.keys)
    /\ Len(e.keys) \in MinOptions .. MaxOptions
    /\ \A i \in 1 .. Len(e.option_pos) - 1 : e.option_pos[i] < e.option_pos[i + 1]
    /\ e.answer_pos = Len(e.ids) - 1
    /\ \A i \in DOMAIN e.option_pos : e.option_pos[i] < e.answer_pos

\* KaiEncoding::encode: an option is pointed at by its last token.
KaiEncode(q) ==
    LET parts == KaiSegments(q)
        whole(n) == Joined(SubSeq(parts, 1, n)).ids
        ids == whole(Len(parts))
        e == [ids |-> ids, keys |-> Keys(q.options), kind |-> q.kind, answer_pos |-> Len(ids) - 1,
              option_pos |-> [i \in DOMAIN q.options |-> Len(whole(i + 1)) - 1]]
    IN  IF \E i \in DOMAIN parts : ~parts[i].ok \/ parts[i].ids = <<>> THEN Err("tokenizer")
        ELSE IF Len(ids) > KaiMax THEN Err("too long")
        ELSE IF KaiValid(e) THEN Ok(e) ELSE Err("contract")

-----------------------------------------------------------------------------
(* Julia.                                                                  *)

\* JuliaQuestion::new.
JuliaAccepts(q) ==
    /\ CountFits(q.options, MaxOptions) /\ ~q.text.blank
    /\ KeysUsable(q.kind, q.options)
    /\ \A i \in DOMAIN q.options : ~q.options[i].text.blank

\* from_decision: a candidate without a description is shown by its id.
JuliaOptions(d) ==
    [i \in DOMAIN OptionsOf(d, NoulKeys) |->
        LET o == OptionsOf(d, NoulKeys)[i]
        IN  IF d.kind = "choice" /\ o.text.blank THEN [o EXCEPT !.text = Word(o.key)] ELSE o]
JuliaQuestion(state, d) ==
    LET q == [state |-> state.text, text |-> d.text, kind |-> KindOf(d), options |-> JuliaOptions(d)]
    IN  IF state.facts THEN Err("facts") ELSE IF JuliaAccepts(q) THEN Ok(q) ELSE Err("contract")

JuliaHead(q) == Joined(<<Word(q.kind), q.text>>)
JuliaOption(q, i) == <<"[MASK]">> \o Cut(q.options[i].text.ids, OptionLimit)

\* JuliaEncoding::validate.
JuliaValid(e) ==
    /\ Len(e.marker_pos) = Len(e.keys)
    /\ \A i \in 1 .. Len(e.marker_pos) - 1 : e.marker_pos[i] < e.marker_pos[i + 1]
    /\ \A i \in DOMAIN e.marker_pos :
          e.marker_pos[i] < Len(e.ids) /\ e.ids[e.marker_pos[i] + 1] = "[MASK]"

\* The head gives way to the options, but keeps a minimum.
HeadKept(q) ==
    LET spent == Len(FlattenSeq([i \in DOMAIN q.options |-> JuliaOption(q, i)]))
    IN  Cut(JuliaHead(q).ids, Max({HeadLength - spent, MinHead}))

\* Mutant: the separator before the state is counted again.
JuliaRoomTwice(taken) == Max({0, JuliaMax - (taken + 2)})

\* What is left for the state, behind which one more separator follows.
JuliaRoom(taken) == Max({0, JuliaMax - (taken + 1)})

\* JuliaEncoding::encode.
JuliaEncode(q) ==
    LET open == <<"[CLS]">> \o HeadKept(q) \o <<"[SEP]">>
        upto(n) == open \o FlattenSeq([i \in 1 .. n |-> JuliaOption(q, i)])
        fixed == upto(Len(q.options)) \o <<"[SEP]">>
        room == JuliaRoom(Len(fixed))
        ids == fixed \o Cut(q.state.ids, room) \o <<"[SEP]">>
        e == [ids |-> ids, keys |-> Keys(q.options), kind |-> q.kind,
              marker_pos |-> [i \in DOMAIN q.options |-> Len(upto(i - 1))]]
        texts == {JuliaHead(q)} \cup {q.options[i].text : i \in DOMAIN q.options}
    IN  IF \E t \in texts : ~t.ok \/ t.ids = <<>> THEN Err("tokenizer")
        ELSE IF room > 0 /\ ~q.state.ok THEN Err("tokenizer")
        ELSE IF Len(ids) > JuliaMax THEN Err("too long")
        ELSE IF JuliaValid(e) THEN Ok(e) ELSE Err("contract")
==============================================================================
