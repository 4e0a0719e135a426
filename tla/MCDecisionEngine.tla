-------------------------- MODULE MCDecisionEngine --------------------------
(* Two callers and two keys over a cache with room for one decision. *)
EXTENDS DecisionEngine
=============================================================================
