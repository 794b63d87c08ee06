----------------------------- MODULE MCAgentLoop -----------------------------
(* Three calls of the model, and two children that take a third of the tokens. *)
EXTENDS AgentLoop, TLC

MCSymmetry == Permutations(Children) \cup Permutations(BlockReasons)
=============================================================================
