------------------------- MODULE MCPauseGenerations -------------------------
(* Jobs are interchangeable, and so are servers and sessions.               *)
EXTENDS PauseGenerations, TLC

Symmetry == Permutations(Jobs) \cup Permutations(Servers) \cup Permutations(Sessions)
=============================================================================
