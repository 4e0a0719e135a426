--------------------------- MODULE EvidenceReadings ---------------------------
(***************************************************************************)
(* One task of the engine's evidence layer at a time: a rotated readout    *)
(* read by read, a focused view, a relational proof, a lexical score or    *)
(* order, a threshold fit with the profile it emits, or a ladder profile to load. *)
(* A task is taken from the constant sets; `answer' is what it returns.    *)
(***************************************************************************)
EXTENDS RotationReadout, StateEvidence, LexicalEvidence, LadderProfiles

CONSTANTS
    Rotations,      \* [k, early, combine] of configured readouts
    InnerReads(_),  \* the reads an inner classifier may give for k candidates
    Views,          \* [state, budget]
    Boards,         \* [sentences, candidates] put to the relational solver
    Scorings,       \* [mode, text, state, candidates, ...] put to the lexical classifier and the rerankers
    Samples,        \* labelled evidence of a fit
    Ids,            \* ids for an emitted profile
    Profiles,       \* ladder profiles
    Spreads,        \* distributions to calibrate
    NodeOf, FamilyOf    \* the node and family a loaded ladder is asked about

\* Lists of candidates are counted, a text is a list of sentences or of words,
\* labelled evidence is a list; there are five ways to score, ids are unique, a
\* term never counts against a document, and vectors are made of numbers.
ASSUME TaskAssumption ==
    /\ \A r \in Rotations : r.k \in Nat
    /\ \A v \in Views : /\ v.state.text.parts \in Seq([bytes : Nat, score : Nat, mentions : BOOLEAN])
                        /\ v.state.text.blank \in Nat
    /\ \A e \in Samples : e \in Seq([p_true : 0 .. 200, label : BOOLEAN])
    /\ \A s \in Scorings :
          /\ s \in [mode : {"choice", "score", "boolean", "rerank", "rerank_embedding"},
                    text : Seq(STRING), state : Seq(STRING),
                    candidates : Seq([id : Nat, words : Seq(STRING)]),
                    prebuilt : {Unbuilt} \cup [built : {TRUE}, words : Seq(Seq(STRING))],
                    lost : Nat]
          /\ \A i, j \in DOMAIN s.candidates : s.candidates[i].id = s.candidates[j].id => i = j
          /\ \A n \in {1, Len(s.candidates)} : \A seen \in 1 .. n : TermWeight(n, seen) \in Nat
          /\ \A t \in {QueryFor(s.state, s.text)} \cup {c.words : c \in ToSet(s.candidates)} :
                VectorOf(t) \in Seq(Int)

VARIABLES task, reads, answer

vars == <<task, reads, answer>>

Pending == [kind |-> "pending"]
Working(kind) == task.kind = kind /\ answer = Pending
Reply(a) == answer' = a /\ UNCHANGED <<task, reads>>

\* The next rotation is read; the loop ends when it may.
ReadRotation ==
    /\ Working("rotation")
    /\ \E r \in InnerReads(task.k) :
          /\ reads' = Append(reads, r)
          /\ answer' = IF Exits(task.k, reads', task.early)
                       THEN [kind |-> "read", winners |-> Combined(task.combine, task.k, reads')]
                       ELSE Pending
    /\ UNCHANGED task

\* The inner classifier fails: decide returns its error.
ReadFails == Working("rotation") /\ Reply(Failed)

TakeView ==
    Working("view") /\ Reply([kind |-> "viewed", view |-> Focus(task.state, task.budget)])

SolveBoard ==
    /\ Working("board")
    /\ Reply([kind |-> "solved", proof |-> Prove(Extract(task.sentences), task.candidates)])

\* What the lexical classifier or a reranker makes of a question.
ScoringOf(t) ==
    LET query == QueryFor(t.state, t.text)
    IN  CASE t.mode = "choice" -> LexicalChoice(query, t.candidates, t.prebuilt)
          [] t.mode = "score" -> LexicalLevels(query, [i \in DOMAIN t.candidates |-> t.candidates[i].words])
          [] t.mode = "boolean" -> LexicalBoolean(t.state, t.text)
          [] t.mode = "rerank" -> LexicalRerank(query, t.candidates)
          [] t.mode = "rerank_embedding" -> EmbeddingRerank(query, t.candidates, t.lost)

ScoreText == Working("score") /\ Reply(ScoringOf(task.scoring))

\* The fitting tool: without evidence there is no fit to emit.
FitBoundary ==
    /\ Working("fit")
    /\ IF task.evidence = <<>> THEN Reply(Failed)
       ELSE \E id \in Ids :
               Reply([kind |-> "fitted", threshold |-> Fit(task.evidence), id |-> id,
                      emitted |-> Emit(id, Fit(task.evidence))])

LoadProfile ==
    /\ Working("profile")
    /\ LET l == IntoLadder(task.profile)
           rung == ResolveCalibration(l.ladder, NodeOf, "boolean")
       IN  Reply(IF ~l.ok THEN Failed
                 ELSE [kind |-> "loaded", ladder |-> l.ladder,
                       resolved |-> Resolve(l.ladder, NodeOf, "boolean", FamilyOf),
                       confidence |-> [d \in Spreads |-> Confidence(l.ladder, rung, "boolean", d)]])

Done == answer # Pending /\ UNCHANGED vars

Init ==
    /\ \/ \E r \in Rotations : task = [kind |-> "rotation", k |-> r.k, early |-> r.early,
                                       combine |-> r.combine]
       \/ \E v \in Views : task = [kind |-> "view", state |-> v.state, budget |-> v.budget]
       \/ \E b \in Boards : task = [kind |-> "board", sentences |-> b.sentences,
                                    candidates |-> b.candidates]
       \/ \E s \in Scorings : task = [kind |-> "score", scoring |-> s]
       \/ \E e \in Samples : task = [kind |-> "fit", evidence |-> e]
       \/ \E p \in Profiles : task = [kind |-> "profile", profile |-> p]
    /\ reads = <<>>
    /\ answer = Pending

Next ==
    \/ ReadRotation \/ ReadFails \/ TakeView \/ SolveBoard \/ ScoreText \/ FitBoundary
    \/ LoadProfile \/ Done

Spec == Init /\ [][Next]_vars

-----------------------------------------------------------------------------
(* Properties.                                                             *)

\* rotation.rs "the partial winner keeps the full-K lead": when the loop stops
\* before the last rotation, the leader of the votes read is the strict leader
\* of all K votes, whatever the unread rotations would have voted.
CertificateSound ==
    answer.kind = "read" /\ Len(reads) < task.k =>
        LET votes == Votes(task.k, reads)
            c == Leader(task.k, votes)
        IN  \A rest \in [1 .. task.k - Len(reads) -> 1 .. task.k] :
               \A d \in 1 .. task.k \ {c} : Wins(votes \o rest, c) > Wins(votes \o rest, d)

\* focus.rs "sentences with no evidence are never selected", "highest-evidence
\* sentences within the budget": a shortened view holds only sentences with
\* evidence, none of those dropped has a higher BM25 score than one kept, it is
\* shorter than the text, and it exceeds the budget only as a single sentence.
\* Best is by score alone: a sentence that only names a candidate scores nothing
\* and stays only when every scoring one does, whatever mentions_candidate says
\* of such sentences (README, Observations).
ViewKeepsEvidence ==
    answer.kind = "viewed" /\ answer.view.extracted =>
        LET parts == task.state.text.parts
            kept == answer.view.parts
        IN  /\ kept # {}
            /\ \A i \in kept : parts[i].score > 0 \/ parts[i].mentions
            /\ \A i \in kept, j \in DOMAIN parts \ kept : parts[i].score >= parts[j].score
            /\ Tokens(Total([i \in kept |-> parts[i].bytes])) < Tokens(Bytes(task.state.text))
            /\ answer.view.tokens <= task.budget \/ Cardinality(kept) = 1

\* relational.rs: a proof is about the facts, so taking candidates away leaves
\* it standing as long as its answer is still a candidate, and otherwise
\* delegates.
ProofSurvivesNarrowing ==
    answer.kind = "solved" /\ answer.proof # Nobody =>
        \A fewer \in SUBSET task.candidates :
            Prove(Extract(task.sentences), fewer) =
                IF answer.proof \in fewer THEN answer.proof ELSE Nobody

\* ladder_fit.rs "a fitted profile can never drift from what --ladder accepts": the
\* fitted boundary is the smallest on the grid that no other beats; the profile is
\* refused exactly for an id that names no ladder or when only the end of the
\* grid, 1.00, is unbeaten, which a policy cannot hold; one that is emitted loads
\* and governs a Boolean node that no narrower override names.
FittedProfileGoverns ==
    answer.kind = "fitted" =>
        LET l == IntoLadder(answer.emitted.profile)
            f1(t) == F1At(task.evidence, t)
            grid == {Threshold(s) : s \in 0 .. GridSteps}
            unbeaten(t) == \A u \in grid : ~Greater(f1(u), f1(t))
        IN  /\ unbeaten(answer.threshold)
            /\ \A t \in grid : t < answer.threshold => Greater(f1(answer.threshold), f1(t))
            /\ answer.emitted.ok <=> /\ answer.id \notin {"", "none"}
                                     /\ \E t \in grid : t < 100 /\ unbeaten(t)
            /\ answer.emitted.ok =>
                  l.ok /\ Resolve(l.ladder, NodeOf, "boolean", FamilyOf).policy = answer.threshold

\* lexical.rs "term overlap can never certify better than 99:1 odds.
\* Order-preserving": bounding the scores keeps the best candidate and leaves no
\* two further apart than the cap.
LexicalOddsBounded ==
    answer.kind = "scored" =>
        /\ \A i, j \in DOMAIN answer.scores : answer.scores[i] - answer.scores[j] <= Cap
        /\ task.scoring.mode # "boolean" => BestOf(answer.scores) = BestOf(answer.raw)

\* cache.rs "candidates arrive in caller order but must not change the key": requests that share a cache
\* key share their decision, so the order in which the caller lists candidates may
\* decide between equal scores only, and never the outcome of a reranker.
SameKeySameAnswer ==
    answer.kind \in {"scored", "ranked"} /\ task.scoring.mode \notin {"boolean", "score"} /\ ~task.scoring.prebuilt.built =>
        \A s \in Scorings :
            /\ [s EXCEPT !.candidates = task.scoring.candidates] = task.scoring
            /\ NormalizeChoice(s.text, s.candidates) = NormalizeChoice(task.scoring.text, task.scoring.candidates)
            => LET other == ScoringOf(s)
                   winners(t, a) == {t.candidates[i].id : i \in {k \in DOMAIN a.raw : a.raw[k] = Highest(a.raw)}}
               IN  IF answer.kind = "ranked" THEN other = answer
                   ELSE winners(s, other) = winners(task.scoring, answer)

==============================================================================
