---------------------------- MODULE ThresholdGate ----------------------------
(***************************************************************************)
(* From a classifier's distribution to the outcome of the request          *)
(* (executor.rs: decide_question, resolve_threshold, merge of Resolved,    *)
(* assemble, conservative; core confidence.rs: outcome_for; core           *)
(* response.rs: DecisionResponse::new).                                    *)
(*                                                                         *)
(* The threshold node visits the decided questions in id order.  For each  *)
(* it walks the fallback rungs while the gate does not accept, then gates  *)
(* the answer the walk ended with and, when the gate says Verify, asks the *)
(* verifier.  Afterwards the run is assembled into one response.           *)
(*                                                                         *)
(* Probabilities are multiples of 1/Full.  Calibration is the identity     *)
(* (NoCalibration); of the distribution only the top entry, its mass and   *)
(* whether it is flat enough for an uncertainty gate are kept.             *)
(***************************************************************************)
EXTENDS Naturals, Sequences, FiniteSets

CONSTANTS
    Setups,      \* requests: the questions, whether the state has images, the
                 \* fallback rungs in force
    QKind,       \* "choice" or "boolean" per question id
    Labels,      \* declared candidate ids of a choice question
    Full,        \* the mass of a certain answer
    Policies     \* decision policies that may be in force

Abstention == "abstain"    \* the id policy.abstain_candidate marks
NoLevel == Full + 1        \* an optional threshold that is not configured
Verdicts == {"true", "false"}

\* DecisionPolicy::new, with_escalate_below and with_boolean_threshold.
PolicyOK(p) ==
    /\ p.abstain_below <= p.verify_below /\ p.verify_below <= p.min_confidence
    /\ p.min_confidence <= Full
    /\ p.escalate_below # NoLevel =>
          p.abstain_below <= p.escalate_below /\ p.escalate_below <= p.min_confidence
    /\ p.boolean_threshold # NoLevel => p.boolean_threshold < Full

Policy == {p \in [min_confidence : 0 .. Full, verify_below : 0 .. Full, abstain_below : 0 .. Full,
                  escalate_below : 0 .. NoLevel, boolean_threshold : 0 .. NoLevel,
                  risky : BOOLEAN, gated : BOOLEAN, elicits : BOOLEAN, overlaps : BOOLEAN] :
              PolicyOK(p)}

Inherit == [inherit |-> TRUE]    \* Rung::policy = None
Rung == [policy : Policies \cup {Inherit}, image : BOOLEAN]

ASSUME GateAssumption ==
    /\ \A s \in Setups :
          /\ s.questions \subseteq Nat /\ s.questions # {} /\ IsFiniteSet(s.questions)
          /\ \A q \in s.questions : QKind[q] \in {"choice", "boolean"}
          /\ s.rungs \in Seq(Rung) /\ s.images \in BOOLEAN
    /\ Abstention \notin Labels
    /\ Full \in Nat \ {0}
    /\ Policies \subseteq Policy

VARIABLES
    questions,   \* ids of the request's questions, in order
    policyOf,    \* the policy each question's node resolves to
    rungs,       \* the engine's fallback rungs
    verifier,    \* whether a verifier is configured
    images,      \* whether the state carries images
    starved,     \* choice questions whose candidates the filter eliminated
    decisions,   \* question -> its current decision; absent if undecided
    primary,     \* history: the decisions the walk started from
    todo,        \* questions the threshold node has still to resolve
    rung,        \* index of the next rung for the current question
    phase,       \* walk | gate | assemble | done
    resolved,    \* question -> outcome, as the threshold node fills it
    fired,       \* history: question -> rungs that fired for it
    vote,        \* history: question -> the verifier's top key
    response     \* what the run returns

config == <<questions, policyOf, rungs, verifier, images, starved, primary>>
gateVars == <<questions, policyOf, rungs, verifier, images, starved, decisions, primary, todo, rung,
          phase, resolved, fired, vote, response>>

Pending == [kind |-> "pending"]

-----------------------------------------------------------------------------
(* Gate and decision.                                                      *)

\* ConfidenceReport::outcome_for.  `verify_below' is never read.
OutcomeFor(d, p) ==
    IF d.confidence < p.abstain_below THEN "Abstain"
    ELSE IF p.escalate_below # NoLevel /\ d.confidence < p.escalate_below THEN "Escalate"
    ELSE IF d.confidence >= p.min_confidence /\ ~p.risky /\ ~(p.gated /\ d.flat) THEN "Accept"
    ELSE "Verify"

\* What a classifier may read off question q once its distribution is clipped
\* to the surviving answers.  The synthetic abstain candidate is among them
\* when the deciding node's policy appended it (prepare_question).  Flatness is
\* told apart only where the question's policy has an uncertainty gate.
Readings(q) ==
    LET flats == {FALSE, policyOf[q].gated}
    IN  IF QKind[q] = "choice"
        THEN [top : Labels \cup (IF policyOf[q].elicits THEN {Abstention} ELSE {}),
              mass : 1 .. Full, flat : flats]
        ELSE {r \in [top : Verdicts, mass : 1 .. Full, flat : flats] : 2 * r.mass >= Full}

\* flipped_boolean_verdict: the verdict of a configured Boolean boundary and
\* its own mass.
TrueMass(r) == IF r.top = "true" THEN r.mass ELSE Full - r.mass

Verdict(r, p) == IF TrueMass(r) >= p.boolean_threshold THEN "true" ELSE "false"

VerdictMass(r, p) == IF Verdict(r, p) = "true" THEN TrueMass(r) ELSE Full - TrueMass(r)

\* Why a decision abstains ahead of the gate.
Abstained(q, r, p) ==
    IF QKind[q] # "choice" THEN "no"
    ELSE IF p.elicits /\ r.top = Abstention THEN "Elicited"
    ELSE IF p.overlaps THEN "LabelOverlap"
    ELSE "no"

\* decide_question under policy p.
DecideQuestion(q, r, p) ==
    LET bounded == QKind[q] = "boolean" /\ p.boolean_threshold # NoLevel
    IN  [top        |-> r.top,
         answer     |-> IF bounded THEN Verdict(r, p) ELSE r.top,
         confidence |-> IF bounded THEN VerdictMass(r, p) ELSE r.mass,
         flat       |-> r.flat,
         abstained  |-> Abstained(q, r, p)]

Decision == [top : Labels \cup {Abstention} \cup Verdicts, answer : Labels \cup {Abstention} \cup Verdicts,
             confidence : 0 .. Full, flat : BOOLEAN, abstained : {"no", "Elicited", "LabelOverlap"}]

-----------------------------------------------------------------------------
(* The threshold node.                                                     *)

Current == CHOOSE q \in todo : \A o \in todo : q <= o
NodePolicy == policyOf[Current]
Live == decisions[Current]
RungPolicy == IF rungs[rung].policy = Inherit THEN NodePolicy ELSE rungs[rung].policy

\* The live decision clears the gate of the deciding node's policy.
Accepted == OutcomeFor(Live, NodePolicy) = "Accept"
RungLeft == rung <= Len(rungs)
CannotRead == rungs[rung].image /\ ~images

Walking == phase = "walk" /\ todo # {}

\* The gate accepts, or no rung is left: the walk is over.
WalkEnd ==
    /\ Walking
    /\ RungLeft => Accepted
    /\ phase' = "gate"
    /\ UNCHANGED <<config, decisions, todo, rung, resolved, fired, vote, response>>

\* An image rung cannot read a text-only state: it is passed over.
WalkSkip ==
    /\ Walking
    /\ RungLeft /\ ~Accepted /\ CannotRead
    /\ rung' = rung + 1
    /\ UNCHANGED <<config, decisions, todo, phase, resolved, fired, vote, response>>

\* Mutant: the rung fires but the walk keeps gating the primary's answer.
WalkFireKeepsPrimary(r) ==
    /\ Walking
    /\ RungLeft /\ ~Accepted /\ ~CannotRead
    /\ UNCHANGED decisions
    /\ fired' = [fired EXCEPT ![Current] = Append(@, [rung |-> rung, decision |-> DecideQuestion(Current, r, RungPolicy)])]
    /\ rung' = rung + 1
    /\ UNCHANGED <<config, todo, phase, resolved, vote, response>>

\* The rung decides the question; its decision replaces the live one.
WalkFire(r) ==
    /\ Walking
    /\ RungLeft /\ ~Accepted /\ ~CannotRead
    /\ LET d == DecideQuestion(Current, r, RungPolicy)
       IN  /\ decisions' = [decisions EXCEPT ![Current] = d]
           /\ fired' = [fired EXCEPT ![Current] = Append(@, [rung |-> rung, decision |-> d])]
    /\ rung' = rung + 1
    /\ UNCHANGED <<config, todo, phase, resolved, vote, response>>

\* The guard before a rung, the rung's classifier or the verifier fails: the
\* run returns an error and nothing of the threshold node is merged.
Fail ==
    /\ \/ Walking /\ RungLeft /\ ~Accepted /\ ~CannotRead
       \/ phase = "gate" /\ verifier /\ Live.abstained = "no" /\ OutcomeFor(Live, NodePolicy) = "Verify"
    /\ phase' = "done"
    /\ response' = [kind |-> "error"]
    /\ UNCHANGED <<config, decisions, todo, rung, resolved, fired, vote>>

\* Mutant: the report alone decides, an abstention is not looked at.
GateOutcomeReportOnly(d, p) == OutcomeFor(d, p)

\* An abstention ahead of the gate is terminal for the live decision.
GateOutcome(d, p) == IF d.abstained # "no" THEN "Abstain" ELSE OutcomeFor(d, p)

Resolve(o, v) ==
    /\ phase = "gate"
    /\ resolved' = [resolved EXCEPT ![Current] = o]
    /\ vote' = [vote EXCEPT ![Current] = v]
    /\ todo' = todo \ {Current}
    /\ rung' = 1
    /\ phase' = IF todo = {Current} THEN "assemble" ELSE "walk"
    /\ UNCHANGED <<config, decisions, fired, response>>

\* The gate's outcome stands: it is not Verify, or there is no verifier.
GateStands ==
    /\ phase = "gate"
    /\ GateOutcome(Live, NodePolicy) = "Verify" => ~verifier
    /\ Resolve(GateOutcome(Live, NodePolicy), "none")

\* Mutant: disagreement leaves the answer unverified instead of refusing it.
VerdictOfVoteLenient(v) == IF v = Live.top THEN "Verified" ELSE "Verify"

\* The verifier agrees with the top of the live distribution, or the engine
\* abstains.
VerdictOfVote(v) == IF v = Live.top THEN "Verified" ELSE "Abstain"

GateVerifies ==
    /\ phase = "gate"
    /\ GateOutcome(Live, NodePolicy) = "Verify" /\ verifier
    /\ \E r \in Readings(Current) : Resolve(VerdictOfVote(r.top), r.top)

-----------------------------------------------------------------------------
(* Assembling the response.                                                *)

Severity(o) ==
    CASE o = "Accept" -> 1 [] o = "Verified" -> 2 [] o = "Verify" -> 3
      [] o \in {"Escalate", "Abstain"} -> 4 [] OTHER -> 5

Decided == DOMAIN decisions

\* Mutant: a question whose node was skipped does not hold the others back.
OutcomeOfSkipped(q) == IF q \in Decided THEN resolved[q] ELSE "Accept"

\* A question no node answered counts as an abstention.
OutcomeOf(q) == IF q \in Decided THEN resolved[q] ELSE "Abstain"
ConfidenceOf(q) == IF q \in Decided THEN decisions[q].confidence ELSE Full

\* conservative: the severest outcome, then the lowest confidence, then the
\* greatest id.
Drives(q) ==
    \A o \in questions \ {q} :
        \/ Severity(OutcomeOf(q)) > Severity(OutcomeOf(o))
        \/ /\ Severity(OutcomeOf(q)) = Severity(OutcomeOf(o))
           /\ \/ ConfidenceOf(q) < ConfidenceOf(o)
              \/ ConfidenceOf(q) = ConfidenceOf(o) /\ q > o

\* An abstained decision ships no answer.
Answered == {q \in Decided : decisions[q].abstained = "no"}

Assemble ==
    /\ phase = "assemble"
    /\ phase' = "done"
    /\ LET o == IF starved # {} THEN "NoValidCandidate"
                ELSE OutcomeOf(CHOOSE q \in questions : Drives(q))
       IN  response' =
             IF o \in {"Accept", "Verified"} /\ Answered = {} THEN [kind |-> "refused"]
             ELSE [kind |-> "decided", outcome |-> o,
                   answers |-> [q \in Answered |-> decisions[q].answer]]
    /\ UNCHANGED <<config, decisions, todo, rung, resolved, fired, vote>>

Finished == phase = "done" /\ UNCHANGED gateVars

-----------------------------------------------------------------------------
\* The deciding nodes have run: a question is undecided when its candidates
\* were eliminated or its node was skipped.  A filter beside or behind the
\* deciding node may starve a question that is decided.
GateInit ==
    /\ \E s \in Setups : questions = s.questions /\ rungs = s.rungs /\ images = s.images
    /\ policyOf \in [questions -> Policies]
    /\ verifier \in BOOLEAN
    /\ \E answered \in SUBSET questions :
          /\ starved \in SUBSET {q \in questions : QKind[q] = "choice"}
          /\ \E read \in [answered -> UNION {Readings(q) : q \in questions}] :
                /\ \A q \in answered : read[q] \in Readings(q)
                /\ decisions = [q \in answered |-> DecideQuestion(q, read[q], policyOf[q])]
    /\ primary = decisions
    /\ todo = DOMAIN decisions
    /\ rung = 1
    /\ phase = IF todo = {} THEN "assemble" ELSE "walk"
    /\ resolved = [q \in questions |-> "none"]
    /\ fired = [q \in questions |-> <<>>]
    /\ vote = [q \in questions |-> "none"]
    /\ response = Pending

GateNext ==
    \/ WalkEnd \/ WalkSkip \/ Fail
    \/ \E r \in (IF Walking THEN Readings(Current) ELSE {}) : WalkFire(r)
    \/ GateStands \/ GateVerifies
    \/ Assemble \/ Finished

GateSpec == GateInit /\ [][GateNext]_gateVars

-----------------------------------------------------------------------------
(* Properties.                                                             *)

Outcomes == {"Accept", "Verify", "Verified", "Abstain", "Escalate", "NoValidCandidate"}
Decisive == {"Accept", "Verified"}
Ready == response.kind = "decided"

\* The decision question q's walk ended with: the last rung that fired for it,
\* or the deciding node's own.
LastWord(q) == IF fired[q] = <<>> THEN primary[q] ELSE fired[q][Len(fired[q])].decision

\* The last word is shipped: an answer in the response is the one its walk
\* ended with, the gate judged that same decision, and a rung firing for one
\* question displaces no other question's decision.
LastWordIsShipped ==
    Ready => \A q \in DOMAIN response.answers :
        /\ response.answers[q] = LastWord(q).answer
        /\ resolved[q] = "Accept" => OutcomeFor(LastWord(q), policyOf[q]) = "Accept"

\* A decisive response is decisive about every question it was asked: each was
\* decided, carries an answer, and its own outcome is Accept or Verified, with
\* a confidence that is not below the question's abstention threshold.  This
\* is what executor.rs means by "a request is only as decisive as its least
\* decisive question".
DecisiveAnswersEverything ==
    Ready => (response.outcome \in Decisive =>
        /\ DOMAIN response.answers = questions
        /\ \A q \in questions :
              /\ resolved[q] \in Decisive
              /\ decisions[q].confidence >= policyOf[q].abstain_below)

\* A verifier that disagreed about any question withholds the whole response:
\* it is neither accepted nor offered as merely unverified.
DisagreementWithholds ==
    Ready => ((\E q \in Decided : vote[q] \notin {"none", LastWord(q).top}) =>
                  response.outcome \in {"Abstain", "Escalate", "NoValidCandidate"})

\* A walk that ends in an elected or overlap abstention reaches the caller as
\* one, whatever its confidence and whatever the other questions decided: the
\* question has no answer and the response is not decisive.
AbstentionReachesCaller ==
    Ready => \A q \in Decided :
        LastWord(q).abstained # "no" =>
            /\ q \notin DOMAIN response.answers
            /\ response.outcome \in {"Abstain", "Escalate", "NoValidCandidate"}

(* Statements of the code's comments that the code does not keep.          *)

\* executor.rs "Each rung is gated by its own policy when it carries one":
\* an accepted answer of such a rung clears that rung's policy.
RungGateHolds ==
    Ready => \A q \in Decided :
        (resolved[q] = "Accept" /\ fired[q] # <<>>) =>
            LET own == rungs[fired[q][Len(fired[q])].rung].policy
            IN  own # Inherit => OutcomeFor(LastWord(q), own) = "Accept"

=============================================================================
