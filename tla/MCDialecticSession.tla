------------------------- MODULE MCDialecticSession -------------------------
(* Instances of DialecticSession for TLC.                                   *)
EXTENDS DialecticSession, TLC

\* A job that loaded a shorter transcript never matches the row again: whatever
\* else it loaded decides nothing, so such jobs are told apart by their step only.
Stale(w) == job[w].rev # Len(log)

View ==
    <<row, log, decision, idle, saga,
      [w \in Workers |-> IF Stale(w) THEN [Free EXCEPT !.step = job[w].step] ELSE job[w]],
      {w \in current : ~Stale(w)}, {w \in unclaimed : ~Stale(w)}>>

Symmetry == Permutations(Workers)
=============================================================================
