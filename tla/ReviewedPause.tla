--------------------------- MODULE ReviewedPause ---------------------------
(***************************************************************************)
(* What the pauses of one agent and the reviews of them promise.           *)
(*                                                                         *)
(* Every pause is a generation of its own.  One is in force at a time, one *)
(* that ended is never in force again, and a review is settled only after  *)
(* the very generation it was opened on has ended.                         *)
(***************************************************************************)
EXTENDS Naturals

CONSTANTS
    MaxGen,      \* bound on the pauses of the agent
    Sessions,    \* reviews
    NoGen        \* no pause

Gens == 1 .. MaxGen

VARIABLES
    inforce,   \* the generation the agent is paused under
    ended,     \* the generations that are over
    review     \* review[d]: the generation it was opened on and its state:
               \* none, open, settled or repaired

vars == <<inforce, ended, review>>

Init ==
    /\ inforce = NoGen
    /\ ended = {}
    /\ review = [d \in Sessions |-> [on |-> NoGen, state |-> "none"]]

Pause(g) ==
    /\ inforce = NoGen
    /\ g \notin ended
    /\ inforce' = g
    /\ UNCHANGED <<ended, review>>

End ==
    /\ inforce # NoGen
    /\ inforce' = NoGen
    /\ ended' = ended \cup {inforce}
    /\ UNCHANGED review

Open(d) ==
    /\ review[d].state = "none"
    /\ review' = [review EXCEPT ![d] = [on |-> inforce, state |-> "open"]]
    /\ UNCHANGED <<inforce, ended>>

Settle(d) ==
    /\ review[d].state = "open"
    /\ review[d].on \in ended \cup {NoGen}
    /\ review' = [review EXCEPT ![d].state = "settled"]
    /\ UNCHANGED <<inforce, ended>>

\* An operator who has put the agent right by hand closes the review.
Repair(d) ==
    /\ review[d].state = "open"
    /\ review' = [review EXCEPT ![d].state = "repaired"]
    /\ UNCHANGED <<inforce, ended>>

Next ==
    \/ \E g \in Gens : Pause(g)
    \/ End
    \/ \E d \in Sessions : Open(d) \/ Settle(d) \/ Repair(d)

Spec == Init /\ [][Next]_vars
=============================================================================
