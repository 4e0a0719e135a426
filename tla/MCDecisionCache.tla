-------------------------- MODULE MCDecisionCache --------------------------
(* Small instances of the decision cache for TLC. *)
EXTENDS DecisionCache
=============================================================================
