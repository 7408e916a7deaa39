---------------------------- MODULE GovernedFile ----------------------------
(***************************************************************************)
(* What a governed write promises about a file, without leases, clocks,    *)
(* payload rows, pre-images, watchers, recovery, crashes or torn writes:   *)
(* a write is one transaction on the file.  A request reserves the file at *)
(* most once, and of the requests for one effect one does.  Until the      *)
(* reservation is given back nobody sees a change of the file, and it is   *)
(* given back with the request's bytes in it if the request was decided    *)
(* committed, and as it was found if rejected.  A decision is final.  What *)
(* is not given back stays reserved.                                       *)
(***************************************************************************)
CONSTANTS Execs, Contents, EffectOf, ContentOf, Absent, None

VARIABLES
    seen,      \* the file, as whoever takes the surface next will find it
    owner,     \* the request the file is reserved for, or None
    reserved,  \* the requests it has been reserved for
    answer     \* what each request was decided to be

governedVars == <<seen, owner, reserved, answer>>

GovernedInit ==
    /\ seen \in Contents \cup {Absent}
    /\ owner = None
    /\ reserved = {}
    /\ answer = [x \in Execs |-> "none"]

Decided(x, a) == answer[x] = "none" /\ answer' = [answer EXCEPT ![x] = a]

\* A request may be declined by the answer to its reservation.
Reserve(x) ==
    /\ owner = None
    /\ answer[x] = "none"
    /\ \A y \in reserved : EffectOf[y] # EffectOf[x]
    /\ owner' = x
    /\ reserved' = reserved \cup {x}
    /\ UNCHANGED answer \/ Decided(x, "declined")
    /\ UNCHANGED seen

Decline(x) ==
    /\ x \notin reserved
    /\ Decided(x, "declined")
    /\ UNCHANGED <<seen, owner, reserved>>

Decide(x) ==
    /\ owner = x
    /\ Decided(x, "committed") \/ Decided(x, "rejected")
    /\ UNCHANGED <<seen, owner, reserved>>

GiveBack(x) ==
    /\ owner = x
    /\ \/ answer[x] = "committed" /\ seen' = ContentOf[x]
       \/ answer[x] = "rejected" /\ UNCHANGED seen
    /\ owner' = None
    /\ UNCHANGED <<reserved, answer>>

\* Somebody who took the surface writes the file.
OthersWrite ==
    /\ owner = None
    /\ seen' \in Contents
    /\ UNCHANGED <<owner, reserved, answer>>

GovernedNext ==
    \/ \E x \in Execs : Reserve(x) \/ Decline(x) \/ Decide(x) \/ GiveBack(x)
    \/ OthersWrite

GovernedSpec == GovernedInit /\ [][GovernedNext]_governedVars
=============================================================================
