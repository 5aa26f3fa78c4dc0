----------------------------- MODULE MCSandbox -----------------------------
(* Sandbox with the constants TLC needs: the sets are given in the .cfg.    *)
EXTENDS Sandbox, TLC

\* Experiments, runs, tokens, servers and requests are interchangeable; sound
\* for the
\* configurations that check no liveness.
Symmetry == Permutations(Experiments) \cup Permutations(Runs) \cup Permutations(Tokens)
                \cup Permutations(Servers) \cup Permutations(Ops)

=============================================================================
