----------------------------- MODULE MCAgentTurn -----------------------------
(* Small instances of AgentTurn. *)
EXTENDS AgentTurn, TLC

\* Turns, connections and texts are interchangeable.
Symmetry == Permutations(Turns) \cup Permutations(Conns) \cup Permutations(Texts)

=============================================================================
