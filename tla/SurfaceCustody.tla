--------------------------- MODULE SurfaceCustody ---------------------------
(***************************************************************************)
(* What the lease plane promises about a surface, without rows,            *)
(* transactions, processes or a reaper: a surface is in the custody of at  *)
(* most one grant; a grant ends by vacating the surface, by being          *)
(* superseded once its deadline has passed, or by passing to a promised    *)
(* recipient; and a grant reserved by an effect cannot end at all.  A      *)
(* grant that ended never comes back.                                      *)
(***************************************************************************)
EXTENDS Integers

CONSTANTS Surfaces, Agents, Leases, Effects, None

VARIABLES
    custody,    \* the grant each surface is in, or None
    spent,      \* lease ids that have been granted
    promised,   \* <<lease, agent>>: the recipient a handoff was offered to
    clock

custodyVars == <<custody, spent, promised, clock>>

Grant == [lease : Leases, agent : Agents, expires : Nat, fence : Effects \cup {None}]

CustodyInit ==
    /\ custody  = [s \in Surfaces |-> None]
    /\ spent    = {}
    /\ promised = {}
    /\ clock    = 0

Held(s)       == custody[s] # None
Unreserved(s) == Held(s) /\ custody[s].fence = None

\* s passes to a new, unreserved grant under a lease id never used before
PassTo(s) ==
    LET g == custody'[s] IN
    /\ g \in Grant
    /\ g.lease \notin spent
    /\ g.fence = None
    /\ custody' = [custody EXCEPT ![s] = g]
    /\ spent' = spent \cup {g.lease}
    /\ UNCHANGED clock

Take(s) ==
    /\ ~Held(s)
    /\ PassTo(s)
    /\ UNCHANGED promised

Supersede(s) ==
    /\ Unreserved(s)
    /\ custody[s].expires < clock
    /\ PassTo(s)
    /\ UNCHANGED promised

\* promised may still name the recipient: it can have been offered s twice
HandOver(s) ==
    /\ Unreserved(s)
    /\ PassTo(s)
    /\ LET pair == <<custody[s].lease, custody'[s].agent>> IN
          /\ pair \in promised
          /\ promised' \in {promised, promised \ {pair}}

Vacate(s) ==
    /\ Unreserved(s)
    /\ custody' = [custody EXCEPT ![s] = None]
    /\ UNCHANGED <<spent, promised, clock>>

Prolong(s) ==
    /\ Held(s)
    /\ custody'[s] \in Grant
    /\ custody' = [custody EXCEPT ![s].expires = custody'[s].expires]
    /\ UNCHANGED <<spent, promised, clock>>

Admit(s, e) ==
    /\ Unreserved(s)
    /\ custody[s].expires > clock
    /\ custody' = [custody EXCEPT ![s].fence = e]
    /\ UNCHANGED <<spent, promised, clock>>

Retire(s) ==
    /\ Held(s)
    /\ custody' = [custody EXCEPT ![s].fence = None]
    /\ UNCHANGED <<spent, promised, clock>>

Promise(s, a) ==
    /\ Held(s)
    /\ promised' = promised \cup {<<custody[s].lease, a>>}
    /\ UNCHANGED <<custody, spent, clock>>

Withdraw ==
    /\ promised' \in SUBSET promised
    /\ UNCHANGED <<custody, spent, clock>>

Pass == clock' = clock + 1 /\ UNCHANGED <<custody, spent, promised>>

CustodyNext ==
    \/ \E s \in Surfaces :
          \/ Take(s)
          \/ Supersede(s)
          \/ HandOver(s)
          \/ Vacate(s)
          \/ Prolong(s)
          \/ \E e \in Effects : Admit(s, e)
          \/ Retire(s)
          \/ \E a \in Agents : Promise(s, a)
    \/ Withdraw
    \/ Pass

CustodySpec == CustodyInit /\ [][CustodyNext]_custodyVars
=============================================================================
