--------------------- MODULE LeasePlaneRefinementProofs ---------------------
(***************************************************************************)
(* Every step of LeasePlane is a step of SurfaceCustody, or a stutter, for *)
(* every number of surfaces, agents, leases, requests and effects.         *)
(***************************************************************************)
EXTENDS LeasePlaneProofs, LeasePlaneRefinement

\* The refinement mapping, named
Mapped   == [s \in Surfaces |-> CustodyOf(s)]
Spent    == {l \in Leases : rows[l].st # "free"}
Promises == {<<o.lease, o.to>> : o \in offers}

\* Rows and acquire transactions name a surface and an agent.
Named ==
    /\ \A l \in Leases : Active(l) => rows[l].surface \in Surfaces /\ rows[l].agent \in Agents
    /\ \A r \in Requests : tx[r].pc \notin {"idle", "spawn", "renew"} =>
          tx[r].surface \in Surfaces /\ tx[r].agent \in Agents

RInv == IInv /\ AcceptSound /\ Named

-----------------------------------------------------------------------------
(* The mapping, read off the table *)

LEMMA CustodyOfHeld ==
    ASSUME AtMostOneActive, NEW l \in Leases, Active(l)
    PROVE  CustodyOf(rows[l].surface) = GrantOf(l)
<1>1. ActiveOn(rows[l].surface) = {l}
  BY DEF AtMostOneActive, ActiveOn
<1> QED BY <1>1 DEF CustodyOf

LEMMA CustodyOfFree ==
    ASSUME NEW s, ActiveOn(s) = {} PROVE CustodyOf(s) = None
BY DEF CustodyOf

\* A step that touches rows of surface s only changes no other custody.
LEMMA OneSurface ==
    ASSUME NEW s \in Surfaces,
           \A k \in Leases : rows'[k] # rows[k] =>
              /\ Active(k) => rows[k].surface = s
              /\ Active(k)' => rows'[k].surface = s
    PROVE  Mapped' = [Mapped EXCEPT ![s] = CustodyOf(s)']
<1>1. ASSUME NEW z \in Surfaces, z # s PROVE CustodyOf(z)' = CustodyOf(z)
  <2>1. ActiveOn(z)' = ActiveOn(z)
    BY <1>1 DEF ActiveOn, Active
  <2>2. \A k \in ActiveOn(z) : GrantOf(k)' = GrantOf(k)
    BY <1>1 DEF ActiveOn, GrantOf
  <2>3. CASE ActiveOn(z) = {}
    BY <2>1, <2>3 DEF CustodyOf
  <2>4. CASE ActiveOn(z) # {}
    <3>1. (CHOOSE l \in ActiveOn(z) : TRUE) \in ActiveOn(z)
      BY <2>4
    <3> QED BY <2>1, <2>2, <2>4, <3>1 DEF CustodyOf
  <2> QED BY <2>3, <2>4
<1> QED BY <1>1 DEF Mapped

\* Steps that leave the rows alone, and the quiet parts of the mapping
LEMMA QuietMapping ==
    ASSUME UNCHANGED rows PROVE UNCHANGED <<Mapped, Spent>>
BY DEF Mapped, Spent, CustodyOf, GrantOf, ActiveOn, Active

-----------------------------------------------------------------------------
(* One active row is rewritten *)

LEMMA RowMapping ==
    ASSUME RInv, IInv', NEW l \in Leases, Active(l), NEW row, rows' = [rows EXCEPT ![l] = row],
           row.st # "free", row.surface = rows[l].surface
    PROVE  LET s == rows[l].surface IN
           /\ s \in Surfaces
           /\ Mapped[s] = GrantOf(l)
           /\ Mapped' = [Mapped EXCEPT ![s] = CustodyOf(s)']
           /\ Spent' = Spent
           /\ row.st = "active" => CustodyOf(s)' = GrantOf(l)'
           /\ row.st # "active" => CustodyOf(s)' = None
<1> DEFINE s == rows[l].surface
<1>1. s \in Surfaces /\ DOMAIN rows = Leases
  BY DEF RInv, Named, IInv, TypeOK
<1>2. rows'[l] = row /\ \A k \in Leases \ {l} : rows'[k] = rows[k]
  BY <1>1
<1>3. Mapped[s] = GrantOf(l)
  BY <1>1, CustodyOfHeld DEF Mapped, RInv, IInv
<1>4. Mapped' = [Mapped EXCEPT ![s] = CustodyOf(s)']
  BY <1>1, <1>2, OneSurface
<1>5. Spent' = Spent
  BY <1>2 DEF Spent, Active
<1>6. CASE row.st = "active"
  <2>1. ActiveOn(s)' = {l}
    BY <1>2, <1>6 DEF RInv, IInv, AtMostOneActive, ActiveOn, Active
  <2>2. CustodyOf(s)' = GrantOf(l)'
    BY <2>1 DEF CustodyOf
  <2> QED BY <1>1, <1>3, <1>4, <1>5, <1>6, <2>2
<1>7. CASE row.st # "active"
  <2>1. ActiveOn(s)' = {}
    BY <1>2, <1>7 DEF RInv, IInv, AtMostOneActive, ActiveOn, Active
  <2>2. CustodyOf(s)' = None
    BY <2>1 DEF CustodyOf
  <2> QED BY <1>1, <1>3, <1>4, <1>5, <1>7, <2>2
<1> QED BY <1>6, <1>7

\* The grant of an active row is a grant.
LEMMA GrantTyped ==
    ASSUME RInv, NEW l \in Leases, Active(l)
    PROVE  GrantOf(l) \in Custody!Grant /\ GrantOf(l) # None
<1>1. rows[l] \in Row /\ rows[l].agent \in Agents
  BY DEF RInv, IInv, TypeOK, Named
<1>2. GrantOf(l) \in Custody!Grant
  BY <1>1 DEF GrantOf, Row, Custody!Grant
<1> QED BY <1>2, NoGrantAssumption

\* A released row vacates its surface.
LEMMA VacateStep ==
    ASSUME RInv, IInv', NEW l \in Leases, Active(l), rows[l].fence = None, NEW why,
           rows' = [rows EXCEPT ![l] = Closed(@, why)], UNCHANGED <<offers, clock>>
    PROVE  Custody!CustodyNext
<1> DEFINE s == rows[l].surface
           row == Closed(rows[l], why)
<1>1. rows[l] \in Row
  BY DEF RInv, IInv, TypeOK
<1>2. row.st = "closed" /\ row.surface = s
  BY <1>1 DEF Closed, Row
<1>3. rows' = [rows EXCEPT ![l] = row]
  OBVIOUS
<1> HIDE DEF row
<1>4. /\ s \in Surfaces /\ Mapped[s] = GrantOf(l)
      /\ Mapped' = [Mapped EXCEPT ![s] = None] /\ Spent' = Spent
  BY <1>2, <1>3, RowMapping
<1>5. Mapped[s] # None /\ Mapped[s].fence = None
  BY <1>4, GrantTyped DEF GrantOf
<1>6. Custody!Vacate(s)
  BY <1>4, <1>5 DEF Custody!Vacate, Custody!Unreserved, Custody!Held, Mapped, Spent
<1> QED BY <1>4, <1>6 DEF Custody!CustodyNext

\* A heartbeat changes the deadline of a grant, whether later or earlier.
LEMMA ProlongStep ==
    ASSUME RInv, IInv', NEW l \in Leases, Active(l), NEW x \in Nat,
           rows' = [rows EXCEPT ![l].expires = x], UNCHANGED <<offers, clock>>
    PROVE  Custody!CustodyNext
<1> DEFINE s == rows[l].surface
           row == [rows[l] EXCEPT !.expires = x]
<1>1. rows[l] \in Row
  BY DEF RInv, IInv, TypeOK
<1>2. row.st = "active" /\ row.st # "free" /\ row.surface = s
  BY <1>1 DEF Row, Active
<1>3. rows' = [rows EXCEPT ![l] = row]
  BY DEF RInv, IInv, TypeOK
<1>4. GrantOf(l)' = [GrantOf(l) EXCEPT !.expires = x]
  BY <1>1, <1>3 DEF GrantOf, Row, RInv, IInv, TypeOK
<1> HIDE DEF row
<1>5. /\ s \in Surfaces /\ Mapped[s] = GrantOf(l)
      /\ Mapped' = [Mapped EXCEPT ![s] = [Mapped[s] EXCEPT !.expires = x]] /\ Spent' = Spent
  BY ZenonT(30), <1>2, <1>3, <1>4, RowMapping
<1>6. Mapped[s] # None /\ Mapped[s] \in Custody!Grant
  BY <1>5, GrantTyped
<1>7. Mapped'[s] = [Mapped[s] EXCEPT !.expires = x]
  BY <1>5 DEF Mapped
<1>8. Mapped'[s] \in Custody!Grant /\ Mapped'[s].expires = x
  BY <1>6, <1>7 DEF Custody!Grant
<1>9. Mapped' = [Mapped EXCEPT ![s].expires = Mapped'[s].expires]
  BY <1>5, <1>8
<1>10. Custody!Prolong(s)
  BY <1>5, <1>6, <1>8, <1>9 DEF Custody!Prolong, Custody!Held, Mapped, Spent
<1> QED BY <1>5, <1>10 DEF Custody!CustodyNext

\* A reservation is set or cleared.
LEMMA FenceMapping ==
    ASSUME RInv, IInv', NEW l \in Leases, Active(l), NEW f,
           rows' = [rows EXCEPT ![l].fence = f]
    PROVE  LET s == rows[l].surface IN
           /\ s \in Surfaces /\ Mapped[s] = GrantOf(l) /\ Mapped[s] # None
           /\ Mapped' = [Mapped EXCEPT ![s].fence = f]
           /\ Spent' = Spent
<1> DEFINE s == rows[l].surface
           row == [rows[l] EXCEPT !.fence = f]
<1>1. rows[l] \in Row
  BY DEF RInv, IInv, TypeOK
<1>2. row.st = "active" /\ row.st # "free" /\ row.surface = s
  BY <1>1 DEF Row, Active
<1>3. rows' = [rows EXCEPT ![l] = row]
  BY DEF RInv, IInv, TypeOK
<1>4. GrantOf(l)' = [GrantOf(l) EXCEPT !.fence = f]
  BY <1>1, <1>3 DEF GrantOf, Row, RInv, IInv, TypeOK
<1> HIDE DEF row
<1>5. /\ s \in Surfaces /\ Mapped[s] = GrantOf(l)
      /\ Mapped' = [Mapped EXCEPT ![s] = [Mapped[s] EXCEPT !.fence = f]] /\ Spent' = Spent
  BY ZenonT(30), <1>2, <1>3, <1>4, RowMapping
<1> QED BY <1>5, GrantTyped

LEMMA AdmitStep ==
    ASSUME RInv, IInv', NEW e \in Effects, NEW l \in Leases, BeginEffect(e, l)
    PROVE  Custody!CustodyNext
<1> DEFINE s == rows[l].surface
<1>1. /\ Active(l) /\ rows[l].fence = None /\ rows[l].expires > clock
      /\ rows' = [rows EXCEPT ![l].fence = e] /\ UNCHANGED <<offers, clock>>
  BY DEF BeginEffect, Admissible
<1>2. /\ s \in Surfaces /\ Mapped[s] = GrantOf(l) /\ Mapped[s] # None
      /\ Mapped' = [Mapped EXCEPT ![s].fence = e]
      /\ Spent' = Spent
  BY <1>1, FenceMapping
<1>3. Mapped[s].fence = None /\ Mapped[s].expires > clock
  BY <1>1, <1>2 DEF GrantOf
<1>4. Custody!Admit(s, e)
  BY <1>1, <1>2, <1>3 DEF Custody!Admit, Custody!Unreserved, Custody!Held, Mapped, Spent
<1> QED BY <1>2, <1>4 DEF Custody!CustodyNext

LEMMA RetireStep ==
    ASSUME RInv, IInv', NEW e \in Effects, FinishEffect(e)
    PROVE  Custody!CustodyNext
<1> DEFINE l == writing[e]
           s == rows[l].surface
<1>1. /\ l \in Leases /\ Active(l) /\ rows[l].fence = e
      /\ rows' = [rows EXCEPT ![l].fence = None] /\ UNCHANGED <<offers, clock>>
  BY DEF FinishEffect, OwnFence, RInv, IInv, WriterExclusive, TypeOK
<1>2. /\ s \in Surfaces /\ Mapped[s] = GrantOf(l) /\ Mapped[s] # None
      /\ Mapped' = [Mapped EXCEPT ![s].fence = None]
      /\ Spent' = Spent
  BY <1>1, FenceMapping
<1>3. Custody!Retire(s)
  BY <1>1, <1>2 DEF Custody!Retire, Custody!Held, Mapped, Spent
<1> QED BY <1>2, <1>3 DEF Custody!CustodyNext

-----------------------------------------------------------------------------
(* A surface passes to a new grant *)

\* Row n becomes the only active row of surface s.
LEMMA PassMapping ==
    ASSUME RInv, IInv', NEW s \in Surfaces, NEW n \in Leases, rows[n].st = "free",
           rows'[n].st = "active", rows'[n].surface = s, rows'[n].agent \in Agents,
           rows'[n].fence = None, UNCHANGED clock,
           \A k \in Leases \ {n} : rows'[k] # rows[k] =>
              Active(k) /\ rows[k].surface = s /\ rows'[k].st = "closed"
    PROVE  /\ Custody!PassTo(s)
           /\ Mapped'[s].agent = rows'[n].agent
<1>1. Mapped' = [Mapped EXCEPT ![s] = CustodyOf(s)']
  BY OneSurface DEF Active
<1>2. CustodyOf(s)' = GrantOf(n)'
  <2>1. ActiveOn(s)' = {n}
    BY DEF RInv, IInv, AtMostOneActive, ActiveOn, Active
  <2> QED BY <2>1 DEF CustodyOf
<1>3. Mapped'[s] = GrantOf(n)' /\ Mapped' = [Mapped EXCEPT ![s] = Mapped'[s]]
  BY <1>1, <1>2 DEF Mapped
<1>4. rows'[n] \in Row
  BY DEF IInv, TypeOK
<1>5. /\ Mapped'[s] \in Custody!Grant /\ Mapped'[s].lease = n
      /\ Mapped'[s].fence = None /\ Mapped'[s].agent = rows'[n].agent
  BY <1>3, <1>4 DEF GrantOf, Row, Custody!Grant
<1>6. n \notin Spent /\ Spent' = Spent \cup {n}
  BY DEF Spent, Active
<1>7. Custody!PassTo(s)
  BY <1>3, <1>5, <1>6 DEF Custody!PassTo, Mapped, Spent
<1> QED BY <1>5, <1>7

\* An acquire takes a free surface, or supersedes the expired row it closes.
LEMMA AcquireStep ==
    ASSUME RInv, IInv', NEW r \in Requests, Commit(r)
    PROVE  Custody!CustodyNext
<1>0. tx[r] \in Tx /\ tx[r].pc = "commit"
  BY DEF Commit, RInv, IInv, TypeOK
<1>s. PICK s \in Surfaces : s = tx[r].surface
  BY <1>0 DEF RInv, Named
<1>n. PICK n \in Leases : n = tx[r].new /\ n # None
  BY <1>0 DEF RInv, IInv, TxShape, Tx
<1>1. n # None /\ n \in Leases /\ rows[n].st = "free" /\ n \notin tx[r].closed
  BY <1>0, <1>n DEF RInv, IInv, PendingWritesSound, Active
<1>2. s \in Surfaces /\ tx[r].agent \in Agents
  BY <1>0, <1>s DEF RInv, Named
<1>3. /\ UNCHANGED <<offers, clock>>
      /\ \A l \in tx[r].closed : rows'[l] = Closed(rows[l], "reaped_remote_ttl")
      /\ rows'[n] = NewRow(s, tx[r].agent, tx[r].kind, tx[r].ttl, tx[r].now)
      /\ \A l \in Leases \ tx[r].closed : l # n => rows'[l] = rows[l]
  BY <1>0, <1>1, <1>n, <1>s DEF Commit, RInv, IInv, TypeOK, Tx
<1>4. \A l \in tx[r].closed : /\ l \in Leases /\ rows[l] \in Row /\ Active(l)
                              /\ rows[l].surface = s /\ rows[l].fence = None
                              /\ rows[l].expires < clock
  BY <1>0, <1>s DEF RInv, IInv, PendingWritesSound, TypeOK, Tx
<1>5. \A l \in tx[r].closed : rows'[l].st = "closed"
  BY <1>3, <1>4 DEF Closed, Row
<1>6. ActiveOn(s) \subseteq tx[r].closed
  BY <1>1, <1>n, <1>s DEF RInv, IInv, PendingWritesSound
<1>7. Custody!PassTo(s)
  <2>1. /\ rows'[n].st = "active" /\ rows'[n].surface = s /\ rows'[n].agent \in Agents
        /\ rows'[n].fence = None
    BY <1>2, <1>3 DEF NewRow
  <2>2. \A k \in Leases \ {n} : rows'[k] # rows[k] =>
           Active(k) /\ rows[k].surface = s /\ rows'[k].st = "closed"
    BY <1>3, <1>4, <1>5
  <2> QED BY <1>1, <1>2, <1>3, <2>1, <2>2, PassMapping
<1>8. Promises' = Promises
  BY <1>3 DEF Promises
<1>9. CASE ActiveOn(s) = {}
  <2>1. Mapped[s] = None
    BY <1>2, <1>9, CustodyOfFree DEF Mapped
  <2>2. Custody!Take(s)
    BY <1>7, <1>8, <2>1 DEF Custody!Take, Custody!Held, Mapped, Promises
  <2> QED BY <1>2, <2>2 DEF Custody!CustodyNext
<1>10. CASE ActiveOn(s) # {}
  <2>1. PICK l \in tx[r].closed : l \in ActiveOn(s)
    BY <1>6, <1>10
  <2>2. Mapped[s] = GrantOf(l) /\ Mapped[s] # None
    BY <1>2, <1>4, <2>1, CustodyOfHeld, GrantTyped DEF Mapped, RInv, IInv
  <2>3. Mapped[s].fence = None /\ Mapped[s].expires < clock
    BY <1>4, <2>1, <2>2 DEF GrantOf
  <2>4. Custody!Supersede(s)
    BY <1>7, <1>8, <2>2, <2>3
       DEF Custody!Supersede, Custody!Unreserved, Custody!Held, Mapped, Promises
  <2> QED BY <1>2, <2>4 DEF Custody!CustodyNext
<1> QED BY <1>9, <1>10

\* A handoff passes the surface to the agent it was offered to.
LEMMA HandOverStep ==
    ASSUME RInv, IInv', AcceptHandoff
    PROVE  Custody!CustodyNext
<1>0. PICK o \in offers : o = accepting.offer
  BY DEF AcceptHandoff, RInv, AcceptSound
<1> DEFINE old  == o.lease
           pair == <<old, o.to>>
<1>s. PICK s \in Surfaces : s = rows[old].surface
  BY <1>0, AcceptTyped DEF Releasable, RInv, Named, IInv
<1>1. /\ old \in Leases /\ o.to \in Agents /\ Active(old) /\ rows[old].fence = None
      /\ rows[old] \in Row /\ rows[old].surface = s
  BY <1>0, <1>s, AcceptTyped DEF Releasable, RInv, IInv, TypeOK
<1>2. PICK n \in Fresh, now \in Nat :
         rows' = [rows EXCEPT ![old] = Closed(@, "handoff"),
                              ![n] = NewRow(s, o.to, "remote_heartbeat", o.ttl, now)]
  BY <1>0, <1>s, AcceptTyped DEF RInv, IInv
<1>3. n \in Leases /\ rows[n].st = "free" /\ n # old
  BY <1>1, <1>2 DEF Fresh, Active
<1>4. /\ rows'[old] = Closed(rows[old], "handoff")
      /\ rows'[n] = NewRow(s, o.to, "remote_heartbeat", o.ttl, now)
      /\ \A l \in Leases \ {old, n} : rows'[l] = rows[l]
  BY <1>1, <1>2, <1>3 DEF RInv, IInv, TypeOK
<1>5. UNCHANGED clock /\ offers' = offers \ {o}
  BY <1>0 DEF AcceptHandoff
<1>6. Custody!PassTo(s) /\ Mapped'[s].agent = o.to
  <2>1. /\ rows'[n].st = "active" /\ rows'[n].surface = s /\ rows'[n].agent = o.to
        /\ rows'[n].fence = None
    BY <1>4 DEF NewRow
  <2>2. \A k \in Leases \ {n} : rows'[k] # rows[k] =>
           Active(k) /\ rows[k].surface = s /\ rows'[k].st = "closed"
    <3>1. rows'[old].st = "closed"
      BY <1>1, <1>4 DEF Closed, Row
    <3> QED BY <1>1, <1>4, <3>1
  <2> QED BY <1>1, <1>3, <1>5, <2>1, <2>2, PassMapping
<1>7. Mapped[s] = GrantOf(old) /\ Mapped[s] # None
  BY <1>1, CustodyOfHeld, GrantTyped DEF Mapped, RInv, IInv
<1>8. Mapped[s].lease = old /\ Mapped[s].fence = None
  BY <1>1, <1>7 DEF GrantOf
<1>9. pair \in Promises /\ Promises' \in {Promises, Promises \ {pair}}
  <2>1. Promises \ {pair} \subseteq Promises' /\ Promises' \subseteq Promises
    BY <1>5 DEF Promises
  <2> QED BY <2>1 DEF Promises
<1>10. Custody!HandOver(s)
  BY <1>6, <1>7, <1>8, <1>9
     DEF Custody!HandOver, Custody!Unreserved, Custody!Held, Mapped, Promises
<1> QED BY <1>1, <1>10 DEF Custody!CustodyNext

-----------------------------------------------------------------------------
(* The steps of each actor *)

LEMMA QuietCustody ==
    ASSUME UNCHANGED <<rows, offers, clock>> PROVE UNCHANGED Custody!custodyVars
BY QuietMapping DEF Custody!custodyVars, Mapped, Spent

LEMMA RequestCustody ==
    ASSUME RInv, IInv', NEW r \in Requests, RequestStep(r)
    PROVE  [Custody!CustodyNext]_(Custody!custodyVars)
<1>0. tx[r] \in Tx
  BY DEF RInv, IInv, TypeOK
<1>1. CASE Commit(r)
  BY <1>1, AcquireStep
<1>2. CASE SpawnFailed(r) /\ Releasable(tx[r].seen)
  <2>1. tx[r].seen \in Leases
    BY <1>0, <1>2 DEF SpawnFailed, RInv, IInv, TxShape, Tx
  <2> QED BY <1>2, <2>1, VacateStep DEF SpawnFailed, Releasable
<1>3. CASE Renew(r) /\ Active(tx[r].seen)
  <2> DEFINE l == tx[r].seen
             x == tx[r].now + rows[l].ttl
  <2>1. l \in Leases
    BY <1>0, <1>3 DEF Renew, RInv, IInv, TxShape, Tx
  <2>2. x \in Nat
    BY <1>0, <2>1 DEF RInv, IInv, TypeOK, Row, Tx
  <2>3. rows' = [rows EXCEPT ![l].expires = x] /\ UNCHANGED <<offers, clock>>
    BY <1>3 DEF Renew, Renewable, Renewed
  <2> HIDE DEF x
  <2> QED BY <1>3, <2>1, <2>2, <2>3, ProlongStep
<1>4. CASE UNCHANGED <<rows, offers, clock>>
  BY <1>4, QuietCustody
<1>5. CASE /\ ~Commit(r)
           /\ ~(SpawnFailed(r) /\ Releasable(tx[r].seen))
           /\ ~(Renew(r) /\ Active(tx[r].seen))
  <2>1. UNCHANGED <<rows, offers, clock>>
    BY <1>5 DEF RequestStep, AcquireBegin, CloseExpired, ReadFree, ReadRefused, ReadOwn, Touch,
                Insert, InsertConflict, SpawnHolder, SpawnFailed, RenewBegin, Renew, Renewable,
                TxAbort
  <2> QED BY <1>4, <2>1
<1> QED BY <1>1, <1>2, <1>3, <1>5

LEMMA LeaseCustody ==
    ASSUME RInv, IInv', NEW l \in Leases, LeaseStep(l)
    PROVE  [Custody!CustodyNext]_(Custody!custodyVars)
<1>0. rows[l] \in Row /\ clock \in Nat
  BY DEF RInv, IInv, TypeOK
<1>1. CASE HolderRenew(l) /\ Active(l)
  <2> DEFINE x == clock + rows[l].ttl
  <2>1. x \in Nat
    BY <1>0 DEF Row
  <2>2. rows' = [rows EXCEPT ![l].expires = x] /\ UNCHANGED <<offers, clock>>
    BY <1>1 DEF HolderRenew, Renewable, Renewed
  <2> HIDE DEF x
  <2> QED BY <1>1, <2>1, <2>2, ProlongStep
<1>2. CASE HolderTerminate(l) /\ Releasable(l)
  BY <1>2, VacateStep DEF HolderTerminate, Releasable
<1>3. ASSUME NEW why \in {"normal", "forced"}, Release(l, why) PROVE Custody!CustodyNext
  BY <1>3, VacateStep DEF Release, Releasable
<1>4. CASE Reap(l) /\ StillExpired(l)
  BY <1>4, VacateStep DEF Reap, StillExpired, Releasable
<1>5. ASSUME NEW a \in Agents, NEW t \in Ttls, OfferHandoff(l, a, t) PROVE Custody!CustodyNext
  <2>1. PICK s \in Surfaces : s = rows[l].surface
    BY <1>5 DEF OfferHandoff, RInv, Named
  <2>2. Mapped[s] = GrantOf(l) /\ Mapped[s] # None
    BY <1>5, <2>1, CustodyOfHeld, GrantTyped DEF OfferHandoff, Mapped, RInv, IInv
  <2>3. Mapped[s].lease = l
    BY <2>2 DEF GrantOf
  <2>4. Promises' = Promises \cup {<<l, a>>}
    <3> DEFINE o == [lease |-> l, to |-> a, ttl |-> t, until |-> clock + OfferWindow]
    <3>1. offers' = offers \cup {o} /\ o.lease = l /\ o.to = a
      BY <1>5 DEF OfferHandoff
    <3> HIDE DEF o
    <3> QED BY <3>1 DEF Promises
  <2>5. UNCHANGED <<Mapped, Spent, clock>>
    BY <1>5, QuietMapping DEF OfferHandoff
  <2>6. Custody!Promise(s, a)
    BY <2>2, <2>3, <2>4, <2>5 DEF Custody!Promise, Custody!Held, Mapped, Spent, Promises
  <2> QED BY <2>6 DEF Custody!CustodyNext
<1>6. CASE UNCHANGED <<rows, offers, clock>>
  BY <1>6, QuietCustody
<1>7. CASE /\ ~(HolderRenew(l) /\ Active(l))
           /\ ~(HolderTerminate(l) /\ Releasable(l))
           /\ ~(\E why \in {"normal", "forced"} : Release(l, why))
           /\ ~(Reap(l) /\ StillExpired(l))
           /\ ~(\E a \in Agents, t \in Ttls : OfferHandoff(l, a, t))
  <2>1. UNCHANGED <<rows, offers, clock>>
    BY <1>7 DEF LeaseStep, HolderRenew, Renewable, HolderHandedOff, HolderExit, HolderTerminate,
                HolderKilled, Reap
  <2> QED BY <1>6, <2>1
<1> QED BY <1>1, <1>2, <1>3, <1>4, <1>5, <1>7

\* Offers disappear: one by its deadline, all of them with the node.
LEMMA WithdrawStep ==
    ASSUME offers' \subseteq offers, UNCHANGED <<rows, clock>>
    PROVE  Custody!CustodyNext
<1>1. UNCHANGED <<Mapped, Spent>> /\ Promises' \in SUBSET Promises
  BY QuietMapping DEF Promises
<1>2. Custody!Withdraw
  BY <1>1 DEF Custody!Withdraw, Mapped, Spent, Promises
<1> QED BY <1>2 DEF Custody!CustodyNext

LEMMA NextCustody ==
    ASSUME RInv, IInv', [Next]_vars
    PROVE  [Custody!CustodyNext]_(Custody!custodyVars)
<1>1. CASE \E r \in Requests : RequestStep(r)
  BY <1>1, RequestCustody
<1>2. CASE \E l \in Leases : LeaseStep(l)
  BY <1>2, LeaseCustody
<1>3. ASSUME NEW e \in Effects, EffectStep(e)
      PROVE  [Custody!CustodyNext]_(Custody!custodyVars)
  <2>1. CASE \E l \in Leases : BeginEffect(e, l)
    BY <2>1, AdmitStep
  <2>2. CASE FinishEffect(e)
    BY <2>2, RetireStep
  <2>3. CASE ExecutorDies(e)
    BY <2>3, QuietCustody DEF ExecutorDies
  <2> QED BY <1>3, <2>1, <2>2, <2>3 DEF EffectStep
<1>4. CASE AcceptHandoff
  BY <1>4, HandOverStep
<1>5. CASE (\E o \in offers : ExpireOffer(o)) \/ ExpireStale \/ NodeCrash
  <2>1. offers' \subseteq offers /\ UNCHANGED <<rows, clock>>
    BY <1>5 DEF ExpireOffer, ExpireStale, NodeCrash
  <2> QED BY <2>1, WithdrawStep
<1>6. CASE (\E o \in offers : AcceptBegins(o)) \/ AcceptFails \/ ReaperScan \/ UNCHANGED vars
  BY <1>6, QuietCustody DEF AcceptBegins, AcceptFails, ReaperScan, vars
<1>7. CASE Tick
  <2>1. UNCHANGED <<Mapped, Spent, Promises>> /\ clock' = clock + 1
    BY <1>7, QuietMapping DEF Tick, Promises
  <2>2. Custody!Pass
    BY <2>1 DEF Custody!Pass, Mapped, Spent, Promises
  <2> QED BY <2>2 DEF Custody!CustodyNext
<1> QED BY <1>1, <1>2, <1>3, <1>4, <1>5, <1>6, <1>7 DEF Next, Step

-----------------------------------------------------------------------------
(* Surfaces and agents are named throughout *)

\* Only an acquire's commit and an accepted handoff grant a row.
LEMMA OnlyTheseGrant ==
    ASSUME IInv, [Next]_vars, NEW l \in Leases, Active(l)', ~Active(l)
    PROVE  \/ \E r \in Requests : Commit(r) /\ l = tx[r].new
           \/ \E now : AcceptHandoff /\ rows'[l] = ToRecipient(accepting.offer, now)
<1>0. rows \in [Leases -> Row] /\ tx \in [Requests -> Tx]
  BY DEF IInv, TypeOK
<1>1. rows'[l] # rows[l]
  BY DEF Active
<1>2. ASSUME NEW k, Active(k), NEW row, rows' = [rows EXCEPT ![k] = row] PROVE FALSE
  BY <1>0, <1>1, <1>2
<1>3. ASSUME NEW r \in Requests, RequestStep(r) PROVE Commit(r) /\ l = tx[r].new
  <2>1. CASE Commit(r)
    <3>1. l \notin tx[r].closed
      BY DEF IInv, PendingWritesSound
    <3> QED BY <1>1, <2>1, <3>1 DEF Commit
  <2>2. CASE SpawnFailed(r)
    BY <1>1, <1>2, <2>2 DEF SpawnFailed, Releasable
  <2>3. CASE Renew(r)
    BY <1>1, <1>2, <2>3 DEF Renew, Renewable, Renewed
  <2>4. CASE ~Commit(r) /\ ~SpawnFailed(r) /\ ~Renew(r)
    <3>1. UNCHANGED rows
      BY <1>3, <2>4 DEF RequestStep, AcquireBegin, CloseExpired, ReadFree, ReadRefused, ReadOwn,
                        Touch, Insert, InsertConflict, SpawnHolder, RenewBegin, TxAbort
    <3> QED BY <1>1, <3>1
  <2> QED BY <2>1, <2>2, <2>3, <2>4
<1>4. ASSUME NEW k \in Leases, LeaseStep(k) PROVE FALSE
  <2>1. UNCHANGED rows \/ \E row : Active(k) /\ rows' = [rows EXCEPT ![k] = row]
    BY <1>4 DEF LeaseStep, HolderRenew, HolderHandedOff, HolderExit, HolderTerminate,
                HolderKilled, Release, Reap, StillExpired, Releasable, Renewable, Renewed,
                OfferHandoff
  <2> QED BY <1>1, <1>2, <2>1
<1>5. ASSUME NEW e \in Effects, EffectStep(e) PROVE FALSE
  <2>1. UNCHANGED rows \/ \E k, row : Active(k) /\ rows' = [rows EXCEPT ![k] = row]
    BY <1>5 DEF EffectStep, BeginEffect, FinishEffect, ExecutorDies, Admissible, OwnFence
  <2> QED BY <1>1, <1>2, <2>1
<1>6. ASSUME AcceptHandoff PROVE \E now : rows'[l] = ToRecipient(accepting.offer, now)
  <2> DEFINE o == accepting.offer
  <2>1. PICK n \in Fresh, now \in accepting.at .. clock : rows' = Replacing(o, n, now)
    BY <1>6 DEF AcceptHandoff
  <2>2. o.lease # l
    BY <1>6 DEF AcceptHandoff, Releasable
  <2> QED BY <1>0, <1>1, <2>1, <2>2 DEF Replacing
<1>7. CASE \/ \E o \in offers : AcceptBegins(o) \/ ExpireOffer(o)
           \/ AcceptFails \/ ExpireStale \/ ReaperScan \/ NodeCrash \/ Tick \/ UNCHANGED vars
  BY <1>1, <1>7 DEF AcceptBegins, AcceptFails, ExpireOffer, ExpireStale, ReaperScan, NodeCrash, Tick, vars
<1> QED BY <1>3, <1>4, <1>5, <1>6, <1>7 DEF Next, Step

LEMMA NamedRows ==
    ASSUME RInv, [Next]_vars, NEW l \in Leases, Active(l)'
    PROVE  rows'[l].surface \in Surfaces /\ rows'[l].agent \in Agents
<1>0. rows[l] \in Row
  BY DEF RInv, IInv, TypeOK
<1>1. CASE Active(l)
  <2>1. RowChange(l)
    BY NextRowChange DEF RInv
  <2>2. rows'[l].surface = rows[l].surface /\ rows'[l].agent = rows[l].agent
    BY <1>0, <1>1, <2>1 DEF RowChange, Granted, Prolonged, Ended, Reserved, Retired, Active,
                           Closed, Row
  <2> QED BY <1>1, <2>2 DEF RInv, Named
<1>2. ASSUME ~Active(l), NEW r \in Requests, Commit(r), l = tx[r].new
      PROVE  rows'[l].surface \in Surfaces /\ rows'[l].agent \in Agents
  <2>1. l \notin tx[r].closed
    BY <1>2 DEF RInv, IInv, PendingWritesSound
  <2>2. rows'[l] = NewRow(tx[r].surface, tx[r].agent, tx[r].kind, tx[r].ttl, tx[r].now)
    BY <1>2, <2>1 DEF Commit
  <2>3. tx[r].surface \in Surfaces /\ tx[r].agent \in Agents
    BY <1>2 DEF Commit, RInv, Named
  <2> QED BY <2>2, <2>3 DEF NewRow
<1>3. ASSUME NEW now, AcceptHandoff, rows'[l] = ToRecipient(accepting.offer, now)
      PROVE  rows'[l].surface \in Surfaces /\ rows'[l].agent \in Agents
  <2> DEFINE o == accepting.offer
  <2>1. o.lease \in Leases /\ o.to \in Agents /\ Releasable(o.lease)
    BY <1>3, AcceptTyped DEF RInv, IInv
  <2>2. rows[o.lease].surface \in Surfaces
    BY <2>1 DEF Releasable, RInv, Named
  <2> QED BY <1>3, <2>1, <2>2 DEF ToRecipient, NewRow
<1> QED BY <1>1, <1>2, <1>3, OnlyTheseGrant DEF RInv

\* A transaction keeps its surface and agent until it is answered.
NamedTx(t) == t.pc \notin {"idle", "spawn", "renew"} => t.surface \in Surfaces /\ t.agent \in Agents

LEMMA NamedRequest ==
    ASSUME RInv, NEW r \in Requests, RequestStep(r), NEW q \in Requests
    PROVE  NamedTx(tx'[q])
<1>0. tx \in [Requests -> Tx]
  BY DEF RInv, IInv, TypeOK
<1>1. NamedTx(tx[q]) /\ NamedTx(tx[r])
  BY DEF RInv, Named, NamedTx
<1>2. NamedTx(Idle) /\ \A l : NamedTx(Answered(r, l))
  BY DEF Idle, Answered, NamedTx
<1>3. ASSUME NEW t, NamedTx(t), tx' = [tx EXCEPT ![r] = t] PROVE NamedTx(tx'[q])
  BY <1>0, <1>1, <1>3
<1>4. ASSUME NEW s \in Surfaces, NEW a \in Agents, NEW t \in Ttls, AcquireBegin(r, s, a, t)
      PROVE  NamedTx(tx'[q])
  BY <1>3, <1>4 DEF AcquireBegin, NamedTx, Idle
<1>5. CASE CloseExpired(r) \/ ReadFree(r) \/ Insert(r) \/ InsertConflict(r)
  BY <1>0, <1>1, <1>2, <1>5 DEF CloseExpired, ReadFree, Insert, InsertConflict, NamedTx, Tx
<1>6. CASE ReadOwn(r) \/ Touch(r)
  <2> DEFINE touched(l)  == [tx[r] EXCEPT !.pc = "touch", !.seen = l]
             restarted   == [tx[r] EXCEPT !.pc = "insert", !.depth = 0, !.seen = None,
                                !.kind = rows[tx[r].seen].kind, !.ttl = rows[tx[r].seen].ttl]
  <2>1. tx[r].pc \in {"read", "touch"} /\ tx[r] \in Tx
    BY <1>0, <1>6 DEF ReadOwn, Touch
  <2>2. tx[r].surface \in Surfaces /\ tx[r].agent \in Agents
    BY <1>1, <2>1 DEF NamedTx
  <2>3. NamedTx(restarted) /\ \A l : NamedTx(touched(l))
    BY <2>1, <2>2 DEF NamedTx, Tx
  <2>4. \/ tx' = [tx EXCEPT ![r] = restarted]
        \/ \E l : tx' = [tx EXCEPT ![r] = touched(l)]
        \/ \E l : tx' = [tx EXCEPT ![r] = Answered(r, l)]
    BY <1>6 DEF ReadOwn, Touch
  <2> HIDE DEF touched, restarted
  <2> QED BY <1>2, <1>3, <2>3, <2>4
<1>7. CASE ReadRefused(r) \/ Commit(r) \/ SpawnHolder(r) \/ SpawnFailed(r) \/ Renew(r) \/ TxAbort(r)
  BY <1>2, <1>3, <1>7 DEF ReadRefused, Commit, SpawnHolder, SpawnFailed, Renew, TxAbort
<1>8. ASSUME NEW l \in Leases, RenewBegin(r, l) PROVE NamedTx(tx'[q])
  BY <1>3, <1>8 DEF RenewBegin, NamedTx, Idle
<1> QED BY <1>4, <1>5, <1>6, <1>7, <1>8 DEF RequestStep

LEMMA NamedStep == ASSUME RInv, [Next]_vars PROVE Named'
<1>1. ASSUME NEW q \in Requests PROVE NamedTx(tx'[q])
  <2>1. CASE \E r \in Requests : RequestStep(r)
    BY <2>1, NamedRequest
  <2>2. CASE UNCHANGED tx
    BY <2>2 DEF RInv, Named, NamedTx
  <2>3. CASE NodeCrash
    BY <2>3 DEF NodeCrash, NamedTx, Idle
  <2>4. CASE \E l \in Leases : LeaseStep(l)
    BY <2>2, <2>4 DEF LeaseStep, HolderRenew, HolderHandedOff, HolderExit, HolderTerminate,
                      HolderKilled, Release, Reap, OfferHandoff
  <2>5. CASE \E e \in Effects : EffectStep(e)
    BY <2>2, <2>5 DEF EffectStep, BeginEffect, FinishEffect, ExecutorDies
  <2>6. CASE \/ \E o \in offers : AcceptBegins(o) \/ ExpireOffer(o)
             \/ AcceptHandoff \/ AcceptFails
             \/ ExpireStale \/ ReaperScan \/ Tick \/ UNCHANGED vars
    BY <2>2, <2>6 DEF AcceptBegins, AcceptHandoff, AcceptFails, ExpireOffer, ExpireStale, ReaperScan, Tick, vars
  <2> QED BY <2>1, <2>3, <2>4, <2>5, <2>6 DEF Next, Step
<1> QED BY <1>1, NamedRows DEF Named, NamedTx

LEMMA CustodyInitially == ASSUME Init PROVE Custody!CustodyInit /\ Named
<1>1. \A l \in Leases : rows[l].st = "free" /\ ~Active(l)
  BY DEF Init, FreeRow, Active
<1>2. \A s \in Surfaces : CustodyOf(s) = None
  BY <1>1 DEF CustodyOf, ActiveOn
<1>3. Spent = {} /\ Promises = {} /\ clock = 0
  BY <1>1 DEF Init, Spent, Promises
<1>4. Custody!CustodyInit
  BY <1>2, <1>3 DEF Custody!CustodyInit, Spent, Promises
<1>5. Named
  BY <1>1 DEF Init, Named, Idle
<1> QED BY <1>4, <1>5

-----------------------------------------------------------------------------
(* The refinement *)

LEMMA RInductive == Spec => []RInv
<1>1. Init => RInv
  BY InitInv, CustodyInitially DEF RInv, Init, AcceptSound
<1>2. RInv /\ [Next]_vars => RInv'
  BY NextInv, NamedStep, AcceptSoundStep DEF RInv, IInv
<1> QED BY <1>1, <1>2, PTL DEF Spec

\* The lease plane implements the custody of a surface: a surface changes
\* hands only by being vacated, superseded after its deadline, or handed to a
\* promised recipient, and never while an effect has reserved it.
THEOREM ImplementsCustody == Spec => RefinesCustody
<1>1. Init => Custody!CustodyInit
  BY CustodyInitially
<1>2. RInv /\ RInv' /\ [Next]_vars => [Custody!CustodyNext]_(Custody!custodyVars)
  BY NextCustody DEF RInv
<1> QED BY <1>1, <1>2, RInductive, PTL DEF Spec, RefinesCustody, Custody!CustodySpec

=============================================================================
