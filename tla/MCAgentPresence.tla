--------------------------- MODULE MCAgentPresence ---------------------------
(* Model checking of AgentPresence: symmetry. *)
EXTENDS AgentPresence, TLC

Symmetry == Permutations(Copies) \cup Permutations(Occurrences)
=============================================================================
