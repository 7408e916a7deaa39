---------------------------- MODULE MCAgentLock ----------------------------
(* One agent's lock: two acquirers, one fallback and one sweep.             *)
EXTENDS AgentLock, TLC

CONSTANTS a1, a2, i1, i2, i3, i4, i5

\* Tasks of a kind and inodes are interchangeable.
Symmetry == Permutations({a1, a2}) \cup Permutations({i1, i2, i3, i4, i5})
=============================================================================
