--------------------------- MODULE MCThresholdGate ---------------------------
(***************************************************************************)
(* Model-checking instances of ThresholdGate: a choice and a Boolean       *)
(* question, masses in thirds, policies and ladders that use every knob.   *)
(***************************************************************************)
EXTENDS ThresholdGate, TLC

Kinds == 1 :> "choice" @@ 2 :> "boolean"

\* A ladder node holding answers to certainty, with an escalation band.
Certain ==
    [min_confidence |-> 3, verify_below |-> 2, abstain_below |-> 1, escalate_below |-> 2,
     boolean_threshold |-> NoLevel, risky |-> FALSE, gated |-> FALSE, elicits |-> TRUE, overlaps |-> FALSE]

\* A lenient policy with an uncertainty gate and a fitted Boolean boundary.
Fitted ==
    [min_confidence |-> 2, verify_below |-> 1, abstain_below |-> 1, escalate_below |-> NoLevel,
     boolean_threshold |-> 1, risky |-> FALSE, gated |-> TRUE, elicits |-> FALSE, overlaps |-> FALSE]

\* A policy that refuses overlapping labels and always verifies.
Guarded ==
    [min_confidence |-> 2, verify_below |-> 2, abstain_below |-> 2, escalate_below |-> NoLevel,
     boolean_threshold |-> 2, risky |-> TRUE, gated |-> FALSE, elicits |-> FALSE, overlaps |-> TRUE]

PolicySet == {Certain, Fitted, Guarded}

Text(p) == [policy |-> p, image |-> FALSE]
Image(p) == [policy |-> p, image |-> TRUE]

\* Ladders for one question's walk: several rungs, some that may be passed over.
LongLadders ==
    {<<>>, <<Image(Inherit), Text(Fitted), Text(Inherit)>>, <<Text(Certain), Image(Inherit)>>}

\* At most one rung where two questions meet in one response.
ShortLadders == {<<>>, <<Text(Fitted)>>}

AllSetups ==
    [questions : {{1}, {2}}, rungs : LongLadders, images : BOOLEAN]
    \cup [questions : {{1, 2}}, rungs : ShortLadders, images : {FALSE}]
=============================================================================
