---------------------------- MODULE StateEvidence ----------------------------
(***************************************************************************)
(* What the cheap rungs read from the text of a state: the focused view    *)
(* (focus.rs), relational facts and the proofs made of them (facts.rs,     *)
(* relational.rs).                                                         *)
(*                                                                         *)
(* A sentence of a view is its length, its BM25 score for the question and *)
(* whether it names a candidate.  A sentence of facts is its words; which  *)
(* words are names, statuses or dates is given by constants.  Scores are   *)
(* whole numbers.                                                          *)
(***************************************************************************)
EXTENDS Integers, Sequences, FiniteSets, SequencesExt

CONSTANTS
    Names,      \* the words that are entity names (is_name)
    Statuses,   \* status word -> "Healthy" | "Degraded" | "Down" (Health::parse)
    Dates       \* date word -> <<year, month, day, hour, minute>>

ASSUME EvidenceAssumption == Names \cap DOMAIN Dates = {}

Nobody == "nobody"    \* no proof; not a name
CeilDiv(n, d) == (n + d - 1) \div d
Total(f) == FoldFunction(+, 0, f)
Prefix(s, n) == SubSeq(s, 1, n)

-----------------------------------------------------------------------------
(* The focused view.                                                       *)

Tokens(bytes) == CeilDiv(bytes, 4)    \* estimate_tokens

\* A text is its sentences and the bytes of blank stretches between them.
Bytes(text) == Total([i \in DOMAIN text.parts |-> text.parts[i].bytes]) + text.blank

\* Sentences with evidence, best score first, equal ones in text order.
RankedParts(parts) ==
    LET evidence == {i \in DOMAIN parts : parts[i].score > 0 \/ parts[i].mentions}
        before(i) == {j \in evidence : \/ parts[j].score > parts[i].score
                                       \/ parts[j].score = parts[i].score /\ j < i}
    IN  [n \in 1 .. Cardinality(evidence) |-> CHOOSE i \in evidence : Cardinality(before(i)) = n - 1]

Used(parts, order) == Total([i \in DOMAIN order |-> Tokens(parts[order[i]].bytes)])

\* Mutant: the budget is tested after a sentence is taken.
KeptPastBudget(parts, budget) ==
    LET r == RankedParts(parts)
        fitting == {n \in 1 .. Len(r) : Used(parts, Prefix(r, n - 1)) <= budget}
    IN  IF r = <<>> THEN <<>> ELSE Prefix(r, Max(fitting))

\* The best sentence, then as many of the next as fit, up to the first that
\* does not.
Kept(parts, budget) ==
    LET r == RankedParts(parts)
        fitting == {n \in 1 .. Len(r) : n = 1 \/ Used(parts, Prefix(r, n)) <= budget}
    IN  IF r = <<>> THEN <<>> ELSE Prefix(r, Max(fitting))

Whole(state) == [extracted |-> FALSE, parts |-> DOMAIN state.text.parts,
                 tokens |-> Tokens(Bytes(state.text)),
                 facts |-> state.facts, images |-> state.images]

\* focus.  The view is rebuilt from its text and the facts; sentences stand in
\* text order, so a set of them is the view.
Focus(state, budget) ==
    LET parts == state.text.parts
        size == Tokens(Bytes(state.text))
        kept == Kept(parts, budget)
        bytes == Total([i \in ToSet(kept) |-> parts[i].bytes])
    IN  IF budget = 0 \/ size <= budget \/ kept = <<>> \/ Tokens(bytes) >= size THEN Whole(state)
        ELSE [extracted |-> TRUE, parts |-> ToSet(kept), tokens |-> Used(parts, kept),
              facts |-> state.facts, images |-> 0]

-----------------------------------------------------------------------------
(* Relational facts.                                                       *)

IsLeapYear(y) == y % 4 = 0 /\ (y % 100 # 0 \/ y % 400 = 0)
DaysInMonth(y, m) ==
    IF m = 2 THEN IF IsLeapYear(y) THEN 29 ELSE 28
    ELSE IF m \in {4, 6, 9, 11} THEN 30 ELSE 31

IsTimestamp(w) ==
    /\ w \in DOMAIN Dates
    /\ LET t == Dates[w]
       IN  t[2] \in 1 .. 12 /\ t[3] \in 1 .. DaysInMonth(t[1], t[2]) /\ t[4] <= 23 /\ t[5] <= 59

\* The order of timestamps is that of their fields from left to right.
Before(s, t) == \E i \in 1 .. 5 : s[i] < t[i] /\ \A j \in 1 .. i - 1 : s[j] = t[j]

NoFact == [kind |-> "none"]
When(b, fact) == IF b THEN fact ELSE NoFact

\* parse_sentence.  The first arm whose words match decides, even when it then
\* refuses the sentence.  The colon of a group and "comes back online only
\* after" are a word each.
Parse(w) ==
    LET n == Len(w)
    IN  CASE n = 4 /\ w[2] = "depends" /\ w[3] = "on" ->
                When(w[1] \in Names /\ w[4] \in Names,
                     [kind |-> "DependsOn", dependent |-> w[1], dependency |-> w[4]])
          [] n = 3 /\ w[2] = "is" ->
                When(w[1] \in Names /\ w[3] \in DOMAIN Statuses,
                     [kind |-> "Health", entity |-> w[1], statuses |-> <<Statuses[w[3]]>>])
          [] n = 3 /\ w[2] = "restores-after" ->
                When(w[1] \in Names /\ w[3] \in Names,
                     [kind |-> "RestoresAfter", later |-> w[1], earlier |-> w[3]])
          [] n >= 3 /\ w[2] = ":" ->
                When(w[1] \in Names /\ \A i \in 3 .. n : w[i] \in DOMAIN Statuses,
                     [kind |-> "HealthList", entity |-> w[1],
                      statuses |-> [i \in 1 .. n - 2 |-> Statuses[w[i + 2]]]])
          [] n \in 4 .. 6 /\ w[n - 1] \in {"by", "on"} ->
                When(w[1] \in Names /\ IsTimestamp(w[n]),
                     [kind |-> IF w[n - 1] = "by" THEN "Deadline" ELSE "Event",
                      entity |-> w[1], at |-> Dates[w[n]]])
          [] OTHER -> NoFact

\* extract: the sentences that state a fact, in text order.
Extract(sentences) ==
    SelectSeq([i \in DOMAIN sentences |-> Parse(sentences[i])], LAMBDA f : f # NoFact)

Of(facts, kind) == {f \in ToSet(facts) : f.kind = kind}
Only(S) == IF Cardinality(S) = 1 THEN CHOOSE x \in S : TRUE ELSE Nobody

-----------------------------------------------------------------------------
(* The five provers, over all facts, before candidates are looked at.      *)

\* Only the single-entity form reports a failure.
Down(facts) == {f.entity : f \in {g \in Of(facts, "Health") : g.statuses = <<"Down">>}}

\* transitive_dependencies; a cycle brings the start back in.
Needs(facts, e) ==
    LET edges == Of(facts, "DependsOn")
        step(S) == S \cup {f.dependency : f \in {g \in edges : g.dependent \in S}}
        reach[n \in 0 .. Cardinality(Names)] ==
            IF n = 0 THEN {f.dependency : f \in {g \in edges : g.dependent = e}}
            ELSE step(reach[n - 1])
    IN  reach[Cardinality(Names)]

RootCause(facts) ==
    Only({e \in Down(facts) :
            /\ \E f \in Of(facts, "DependsOn") : f.dependency = e
            /\ (Needs(facts, e) \ {e}) \cap Down(facts) = {}})

Healthy(facts, e) ==
    Total([i \in DOMAIN facts |->
        IF facts[i].kind \in {"Health", "HealthList"} /\ facts[i].entity = e
        THEN Cardinality({j \in DOMAIN facts[i].statuses : facts[i].statuses[j] = "Healthy"}) ELSE 0])

Healthiest(facts) ==
    Only({e \in Names : Healthy(facts, e) > 0 /\ \A d \in Names \ {e} : Healthy(facts, d) < Healthy(facts, e)})

FirstRestored(facts) ==
    LET orders == Of(facts, "RestoresAfter")
    IN  Only({f.earlier : f \in orders} \ {f.later : f \in orders})

\* The entity with the extreme time, unless another has the same.
Extreme(facts, kind, Earlier(_, _)) ==
    LET all == Of(facts, kind)
        best == {f \in all : \A g \in all : ~Earlier(g.at, f.at)}
    IN  Only({f.entity : f \in best})

SoonestDeadline(facts) == Extreme(facts, "Deadline", LAMBDA s, t : Before(s, t))
MostRecentEvent(facts) == Extreme(facts, "Event", LAMBDA s, t : Before(t, s))

Provers(facts) == {RootCause(facts), Healthiest(facts), FirstRestored(facts),
                   SoonestDeadline(facts), MostRecentEvent(facts)}

\* Mutant: any prover's answer will do.
ProveAny(facts, candidates) ==
    LET proven == Provers(facts) \cap candidates
    IN  IF proven = {} THEN Nobody ELSE CHOOSE x \in proven : TRUE

\* prove: each prover drops an answer that is no candidate; the answer stands
\* when the provers left agree.  Nobody delegates to the inner classifier.
Prove(facts, candidates) == Only(Provers(facts) \cap candidates)
==============================================================================
