---------------------------- MODULE MCLeasePlane ----------------------------
(* TLC instances of LeasePlane: symmetry for the safety runs, and an order of *)
(* lease ids for the live one, where symmetry would be unsound. *)
EXTENDS LeasePlaneRefinement, TLC

Symmetry == Permutations(Agents) \cup Permutations(Leases)
            \cup Permutations(Requests) \cup Permutations(Effects)

\* Which free id a new row gets makes no difference but for its name, so one
\* lease is always used first: every behaviour left out is one of those kept,
\* with two ids exchanged.
First == CHOOSE l \in Leases : TRUE

InOrder == rows[First].st = "free" => \A r \in Requests : tx'[r].new \in {None, First}
=============================================================================
