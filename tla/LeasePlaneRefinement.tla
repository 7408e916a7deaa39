------------------------ MODULE LeasePlaneRefinement ------------------------
(* LeasePlane implements SurfaceCustody: the committed unreleased row of a *)
(* surface is its grant.                                                   *)
EXTENDS LeasePlane

GrantOf(l) == [lease |-> l, agent |-> rows[l].agent, expires |-> rows[l].expires,
               fence |-> rows[l].fence]

CustodyOf(s) == IF ActiveOn(s) = {} THEN None ELSE GrantOf(CHOOSE l \in ActiveOn(s) : TRUE)

Custody == INSTANCE SurfaceCustody WITH
    custody  <- [s \in Surfaces |-> CustodyOf(s)],
    spent    <- {l \in Leases : rows[l].st # "free"},
    promised <- {<<o.lease, o.to>> : o \in offers}

ASSUME NoGrantAssumption == None \notin Custody!Grant

\* Every step of every actor is a step of the abstract custody of one surface
\* or changes none: a surface changes hands only by being vacated, superseded
\* after its deadline, or handed to a promised recipient, and never while an
\* effect has reserved it.
RefinesCustody == Custody!CustodySpec
=============================================================================
