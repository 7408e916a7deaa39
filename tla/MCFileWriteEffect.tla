-------------------------- MODULE MCFileWriteEffect --------------------------
(* TLC instances of FileWriteEffect: two requests with effects, keys and    *)
(* contents of their own, or sharing them.                                  *)
EXTENDS FileWriteEffect, TLC

CONSTANTS x1, x2, f1, f2, k1, k2, c1, c2

Pair(a, b) == [x \in Execs |-> IF x = x1 THEN a ELSE b]

OwnEffects    == Pair(f1, f2)
SharedEffect  == Pair(f1, f1)
OwnKeys       == Pair(k1, k2)
SharedKey     == Pair(k1, k1)
OwnContents   == Pair(c1, c2)
SharedContent == Pair(c1, c1)

\* The two requests exchanged, with the effect and the content of each
Exchange(a, b) == a :> b @@ b :> a
Swapped == {Exchange(x1, x2) @@ Exchange(f1, f2) @@ Exchange(c1, c2)}
=============================================================================
