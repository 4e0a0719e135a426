--------------------------- MODULE DecisionRegistry ---------------------------
(***************************************************************************)
(* Stored decision definitions (registry.rs): decoding one, filing them    *)
(* under their ids and turning one into a request.                         *)
(*                                                                         *)
(* A definition document is [id, version, kind, text, levels, candidates,  *)
(* policy]; candidates and policy are optional, and a candidate source is  *)
(* [dynamic, static] with static optional.                                 *)
(***************************************************************************)
EXTENDS SchemaCodecs

Source(raw) == Or(raw.candidates, [dynamic |-> FALSE, static |-> {}])
Embedded(raw) == Or(Source(raw).static, <<>>)

\* What deserialization itself refuses: a candidate id, a policy.
Readable(raw) ==
    /\ Each(Embedded(raw), NewCandidate).ok
    /\ \A policy \in raw.policy : NewPolicy(policy).ok

\* A choice names exactly one source of candidates, the other kinds none.
SourceFits(raw) ==
    IF raw.kind = "choice"
    THEN raw.candidates # {} /\ (Source(raw).dynamic # (Embedded(raw) # <<>>))
         /\ (Source(raw).dynamic => Source(raw).static = {})
    ELSE raw.candidates = {}

DecodeDefinition(raw) ==
    Then(Unless(<< <<~Readable(raw), "schema.invalid_value">>,
                   <<raw.id = Empty, "schema.invalid_value">>,
                   <<raw.version = 0, "schema.invalid_value">>,
                   <<raw.text = Empty, "schema.invalid_value">>,
                   <<~SourceFits(raw), "schema.invalid_value">>,
                   <<raw.kind = "score" /\ Len(raw.levels) < 2, "schema.invalid_value">> >>, raw), LAMBDA sound :
    Then(IF raw.kind = "score" THEN FromCore(Each(raw.levels, NewLevel)) ELSE Ok(<<>>), LAMBDA levels :
      Ok([id |-> raw.id, version |-> raw.version, kind |-> raw.kind, text |-> raw.text, levels |-> levels,
          dynamic |-> Source(raw).dynamic, static |-> Embedded(raw),
          policy |-> IF raw.policy = {} THEN DefaultPolicy ELSE NewPolicy(Or(raw.policy, {})).v])))

\* Candidates come from the caller exactly when the definition is dynamic.
Instantiate(def, text, candidates, limits) ==
    LET mistaken == def.kind = "choice" /\ (def.dynamic = (candidates = <<>>))
        question == CASE def.kind = "choice" ->
                           NewChoice(def.id, def.text, IF def.dynamic THEN candidates ELSE def.static)
                      [] def.kind = "boolean" -> NewBoolean(def.id, def.text)
                      [] def.kind = "score" -> NewScore(def.id, def.text, def.levels)
    IN  IF mistaken THEN Err("schema.invalid_value")
        ELSE FromCore(Then(question, LAMBDA q : NewRequest(FromText(text), <<q>>, def.policy, limits)))

\* Definitions by id; a second one under an id refuses them all.
NewRegistry(definitions) ==
    Unless(<< <<Repeats([i \in DOMAIN definitions |-> definitions[i].id]), "schema.invalid_value">> >>,
           [id \in Ids(definitions) |-> Of(definitions, id)])

-----------------------------------------------------------------------------
(* What stored definitions are made of.                                    *)

WrittenDefinition ==
    [id : Nat, version : Nat, kind : {"choice", "boolean", "score"}, text : Nat, levels : Seq(Nat),
     candidates : SUBSET [dynamic : BOOLEAN, static : SUBSET Seq(Nat)], policy : SUBSET WrittenPolicy]
=============================================================================
