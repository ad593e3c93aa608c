-------------------------- MODULE MCStrategyPlanner --------------------------
(* Two callers; two of the four prompts share a key. *)
EXTENDS StrategyPlanner

CONSTANTS p1, p2, p3, p4, k1, k2, k3

MCKeyOf == [p \in Prompt |-> CASE p \in {p1, p2} -> k1 [] p = p3 -> k2 [] p = p4 -> k3]

==============================================================================
