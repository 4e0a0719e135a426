---------------------------- MODULE LadderProfiles ----------------------------
(***************************************************************************)
(* The operator-side documents of the engine: calibration artifacts        *)
(* (calibration.rs), ladder profiles and how a node resolves its policy    *)
(* and calibration (ladder.rs), and the offline fit of the Boolean         *)
(* boundary (ladder_fit.rs).                                               *)
(*                                                                         *)
(* Probabilities of evidence are in units of 1/200, thresholds in units    *)
(* of 1/100.  A policy is its Boolean threshold, the only part the fit     *)
(* writes.  A temperature is the exponent it stands for (1 / temperature), *)
(* zero for one that is not finite and positive.                           *)
(***************************************************************************)
EXTENDS Naturals, Sequences, FiniteSets, SequencesExt

CONSTANTS GridSteps,   \* GRID: the sweep takes steps 0 .. GridSteps
          MinItems     \* SELECTIVE_PREDICTION_MIN_ITEMS

ASSUME GridAssumption == GridSteps \in Nat

Empty == [x \in {} |-> x]
Absent == "absent"
Unset == 1000    \* an optional number that is not given

-----------------------------------------------------------------------------
(* Calibration.                                                            *)

AurcRefused(fit) ==
    /\ Unset \notin {fit.before, fit.after}
    /\ fit.items < MinItems \/ fit.after > fit.before

\* TemperatureCalibration::from_artifact accepts.
ArtifactOK(a) ==
    /\ a.format = 1 /\ a.scheme = "temperature" /\ a.version >= 1 /\ a.model # ""
    /\ ~AurcRefused(a.fit)
    /\ a.default > 0 /\ \A c \in DOMAIN a.exponents : a.exponents[c] > 0

ExponentFor(a, class) == IF class \in DOMAIN a.exponents THEN a.exponents[class] ELSE a.default

TopKey(d) == Max({i \in DOMAIN d : \A j \in DOMAIN d : d[i] >= d[j]})    \* the last of equal ones

\* calibrate: the top entry's share after rescaling, as a fraction.
Calibrate(a, class, d) ==
    LET e == ExponentFor(a, class)
    IN  [part |-> d[TopKey(d)]^e, of |-> MapThenSumSet(LAMBDA i : d[i]^e, DOMAIN d)]

\* ProofAwareCalibration: a distribution of one entry passes through.
CalibrateProofAware(a, class, d) ==
    IF Len(d) = 1 THEN [part |-> d[1], of |-> d[1]] ELSE Calibrate(a, class, d)

-----------------------------------------------------------------------------
(* Ladders.                                                                *)

NoOverride(l) ==
    l.per_node = Empty /\ l.per_kind = Empty /\ l.per_family = Empty /\ l.calibrations = Empty

\* LadderPolicy::validate; the characters a family name may have are abstracted
\* to the set BadNames.
BadNames == {"", "not a name"}
LadderOK(l) ==
    /\ NoOverride(l) \/ l.id \notin {"", "none"}
    /\ DOMAIN l.per_family \cap BadNames = {}

\* LadderProfile::into_ladder: the emptiness test sees no calibrations yet.
IntoLadder(p) ==
    LET bare == [p EXCEPT !.calibrations = Empty]
        calibrated == DOMAIN p.calibrations
    IN  IF NoOverride(bare) \/ ~LadderOK(bare)
           \/ \E r \in calibrated : ~ArtifactOK(p.calibrations[r].artifact)
        THEN [ok |-> FALSE] ELSE [ok |-> TRUE, ladder |-> p]

Rung(level, key, policy) == [rung |-> <<level, key>>, policy |-> policy]

\* resolve: node, then the request's family (Absent when it has none), then kind;
\* else the request's own policy governs.
Resolve(l, node, kind, family) ==
    IF node \in DOMAIN l.per_node THEN Rung("node", node, l.per_node[node])
    ELSE IF family \in DOMAIN l.per_family THEN Rung("family", family, l.per_family[family])
    ELSE IF kind \in DOMAIN l.per_kind THEN Rung("kind", kind, l.per_kind[kind])
    ELSE Rung("request", "", Unset)

ResolveCalibration(l, node, kind) ==
    LET keys == {<<"node", node>>, <<"kind", kind>>} \cap DOMAIN l.calibrations
    IN  IF keys = {} THEN Absent
        ELSE IF <<"node", node>> \in keys THEN <<"node", node>> ELSE <<"kind", kind>>

\* The confidence of a distribution under the resolved calibration; without
\* one the top entry speaks for itself.
Confidence(l, rung, class, d) ==
    IF rung = Absent THEN [part |-> d[TopKey(d)], of |-> MapThenSumSet(LAMBDA i : d[i], DOMAIN d)]
    ELSE LET c == l.calibrations[rung]
         IN  IF c.proof_aware THEN CalibrateProofAware(c.artifact, class, d) ELSE Calibrate(c.artifact, class, d)

-----------------------------------------------------------------------------
(* The fit of the Boolean boundary.                                        *)

Threshold(step) == step + 50    \* grid_threshold

Hits(evidence, t, predicted, label) ==
    Cardinality({i \in DOMAIN evidence :
        (evidence[i].p_true >= 2 * t) = predicted /\ evidence[i].label = label})

\* f1_at as a fraction: 2 tp / (2 tp + fp + fn); zero without a true positive.
F1At(evidence, t) ==
    LET tp == Hits(evidence, t, TRUE, TRUE)
    IN  [part |-> 2 * tp,
         of |-> Max({1, 2 * tp + Hits(evidence, t, TRUE, FALSE) + Hits(evidence, t, FALSE, TRUE)})]

Greater(f, g) == f.part * g.of > g.part * f.of

\* Mutant: a tie moves to the later boundary.
FitLater(evidence) ==
    LET better(best, step) ==
            IF Greater(F1At(evidence, Threshold(best)), F1At(evidence, Threshold(step))) THEN best ELSE step
    IN  Threshold(FoldLeft(better, 0, [step \in 1 .. GridSteps |-> step]))

\* fit_boolean_threshold: a later step replaces the best only when greater.
Fit(evidence) ==
    LET better(best, step) ==
            IF Greater(F1At(evidence, Threshold(step)), F1At(evidence, Threshold(best))) THEN step ELSE best
    IN  Threshold(FoldLeft(better, 0, [step \in 1 .. GridSteps |-> step]))

ThresholdOK(t) == t < 100    \* DecisionPolicy::with_boolean_threshold

\* emit_boolean_profile: a profile with one override, for the Boolean kind.
Emit(id, t) ==
    IF id \in {"", "none"} \/ ~ThresholdOK(t) THEN [ok |-> FALSE]
    ELSE [ok |-> TRUE, profile |->
            [id |-> id, per_node |-> Empty, per_kind |-> [k \in {"boolean"} |-> t],
             per_family |-> Empty, calibrations |-> Empty]]
==============================================================================
