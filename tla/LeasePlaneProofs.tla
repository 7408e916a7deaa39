-------------------------- MODULE LeasePlaneProofs --------------------------
(***************************************************************************)
(* Safety of LeasePlane for every number of surfaces, agents, leases,      *)
(* requests and effects.                                                   *)
(***************************************************************************)
EXTENDS LeasePlane, TLAPS

\* What the program counter of a request says about the rest of its record
TxShape ==
    \A r \in Requests :
        /\ tx[r].now <= clock
        /\ tx[r].pc \in {"touch", "spawn", "renew"} => tx[r].seen # None
        /\ tx[r].new # None <=> tx[r].pc = "commit"
        /\ tx[r].pc \in {"idle", "touch", "spawn", "renew"} => tx[r].closed = {}

\* The offer an accept has found in time is still pending: HandoffServer serves
\* one call at a time.
AcceptSound ==
    accepting # None =>
        /\ accepting.offer \in offers
        /\ accepting.at < accepting.offer.until
        /\ accepting.at <= clock

IInv == TypeOK /\ TxShape /\ AtMostOneActive /\ PendingWritesSound /\ WriterExclusive

-----------------------------------------------------------------------------
(* A step that changes only what request r has in flight: its new record    *)
(* either carries the same uncommitted writes or has none.                  *)

OthersTyped ==
    /\ holder' \in [Leases -> {"none", "live", "told", "exiting"}]
    /\ sweep' \in SUBSET Leases
    /\ offers' \in SUBSET Offer
    /\ accepting' \in Accept \cup {None}

TxOnly(r, t) ==
    /\ tx' = [tx EXCEPT ![r] = t]
    /\ OthersTyped
    /\ UNCHANGED <<rows, writing, clock>>

ShapeOK(t) ==
    /\ t \in Tx
    /\ t.now <= clock
    /\ t.pc \in {"touch", "spawn", "renew"} => t.seen # None
    /\ t.new # None <=> t.pc = "commit"
    /\ t.pc \in {"idle", "touch", "spawn", "renew"} => t.closed = {}

LEMMA IdleShape == ASSUME TypeOK PROVE ShapeOK(Idle)
BY NoneAssumption DEF TypeOK, ShapeOK, Idle, Tx

LEMMA TxOnlyStep ==
    ASSUME IInv, NEW r \in Requests, NEW t, ShapeOK(t), TxOnly(r, t),
           \/ t.closed = {} /\ t.new = None
           \/ t.closed = tx[r].closed /\ t.new = tx[r].new /\ t.surface = tx[r].surface
    PROVE  IInv'
<1> USE DEF IInv, TxOnly
<1>1. TypeOK'
  BY DEF TypeOK, ShapeOK, OthersTyped
<1>2. TxShape'
  BY DEF TxShape, TypeOK, ShapeOK
<1>3. AtMostOneActive' /\ WriterExclusive'
  BY DEF AtMostOneActive, WriterExclusive, Active
<1>4. PendingWritesSound'
  BY DEF PendingWritesSound, TypeOK, Active, ActiveOn
<1> QED BY <1>1, <1>2, <1>3, <1>4

(* A step that rewrites one unreleased, unlocked row: it may be released    *)
(* only when unreserved, and keeps its surface and its reservation.         *)

RowRewrite(l, row) ==
    /\ row \in Row
    /\ row.st \in {"active", "closed"}
    /\ row.surface = rows[l].surface
    /\ row.st = "closed" => rows[l].fence = None
    /\ rows[l].fence # None => row.fence = rows[l].fence

LEMMA RowStep ==
    ASSUME IInv, NEW l \in Leases, NEW row, Active(l), ~Locked(l), RowRewrite(l, row),
           rows' = [rows EXCEPT ![l] = row], OthersTyped, UNCHANGED <<writing, clock>>,
           \/ UNCHANGED tx
           \/ \E r \in Requests : tx' = [tx EXCEPT ![r] = Idle]
    PROVE  IInv'
<1> USE DEF IInv
<1>0. tx' \in [Requests -> Tx] /\ \A r \in Requests : tx'[r] = tx[r] \/ tx'[r] = Idle
  BY IdleShape DEF TypeOK, ShapeOK
<1>1. TypeOK'
  BY <1>0 DEF TypeOK, OthersTyped, RowRewrite
<1>2. TxShape'
  BY <1>0, IdleShape DEF TxShape, TypeOK, ShapeOK
<1>3. AtMostOneActive'
  BY DEF AtMostOneActive, Active, TypeOK, RowRewrite
<1>4. PendingWritesSound'
  <2>1. \A r \in Requests : l \notin tx[r].closed
    BY DEF Locked, LockedBy
  <2>2. \A r \in Requests : tx[r].new # l
    BY NoneAssumption DEF PendingWritesSound, Active, TypeOK, Tx
  <2>3. \A s : ActiveOn(s)' \subseteq ActiveOn(s)
    BY DEF ActiveOn, Active, TypeOK, RowRewrite
  <2> QED BY <1>0, <2>1, <2>2, <2>3 DEF PendingWritesSound, Active, Idle, TypeOK, Tx
<1>5. WriterExclusive'
  BY NoneAssumption DEF WriterExclusive, Active, TypeOK, RowRewrite
<1> QED BY <1>1, <1>2, <1>3, <1>4, <1>5

-----------------------------------------------------------------------------
(* The steps that take or use locks *)

LEMMA CloseExpiredStep ==
    ASSUME IInv, NEW r \in Requests, CloseExpired(r) PROVE IInv'
<1> USE DEF IInv
<1> DEFINE dead == ExpiredRemote(r)
           t == [tx[r] EXCEPT !.pc = "read", !.closed = @ \cup dead]
<1>1. t \in Tx /\ tx' = [tx EXCEPT ![r] = t]
  BY ZenonT(30) DEF CloseExpired, TypeOK, Tx, ExpiredRemote, ActiveOn
<1>2. UNCHANGED <<rows, holder, sweep, offers, accepting, writing, clock>>
  BY DEF CloseExpired
<1>3. TypeOK'
  BY <1>1, <1>2 DEF TypeOK
<1>4. TxShape'
  BY <1>1, <1>2 DEF TxShape, TypeOK, Tx, CloseExpired
<1>5. AtMostOneActive' /\ WriterExclusive'
  BY <1>2 DEF AtMostOneActive, WriterExclusive, Active
<1>6. PendingWritesSound'
  <2>1. \A l \in dead : /\ Active(l) /\ rows[l].surface = tx[r].surface
                        /\ rows[l].fence = None /\ rows[l].expires < clock
    <3>1. tx[r].now \in Nat /\ clock \in Nat /\ tx[r].now <= clock
      BY DEF TxShape, TypeOK, Tx
    <3>2. \A l \in Leases : rows[l].expires \in Nat
      BY DEF TypeOK, Row
    <3> QED BY <3>1, <3>2 DEF ExpiredRemote, ActiveOn
  <2>2. \A q \in Requests \ {r} : dead \cap tx[q].closed = {}
    BY DEF CloseExpired, LockedByOther, LockedBy
  <2>3. tx[r].new = None
    BY DEF CloseExpired, TxShape
  <2> QED BY <1>1, <1>2, <2>1, <2>2, <2>3 DEF PendingWritesSound, Active, ActiveOn, TypeOK, Tx
<1> QED BY <1>3, <1>4, <1>5, <1>6

LEMMA InsertStep ==
    ASSUME IInv, NEW r \in Requests, Insert(r) PROVE IInv'
<1> USE DEF IInv
<1>1. PICK n \in Fresh : tx' = [tx EXCEPT ![r].pc = "commit", ![r].new = n]
  BY DEF Insert
<1>2. n \in Leases /\ n # None /\ rows[n].st = "free" /\ \A q \in Requests : tx[q].new # n
  BY <1>1, NoneAssumption DEF Fresh
<1>3. UNCHANGED <<rows, holder, sweep, offers, accepting, writing, clock>> /\ tx[r].pc = "insert"
  BY DEF Insert
<1>4. TypeOK'
  BY <1>1, <1>2, <1>3 DEF TypeOK, Tx
<1>5. TxShape'
  BY <1>1, <1>2, <1>3 DEF TxShape, TypeOK, Tx
<1>6. AtMostOneActive' /\ WriterExclusive'
  BY <1>3 DEF AtMostOneActive, WriterExclusive, Active
<1>7. PendingWritesSound'
  <2>1. ActiveOn(tx[r].surface) \subseteq tx[r].closed
    BY DEF Insert, ActiveSeenBy
  <2>2. \A q \in Requests \ {r} : tx[q].surface = tx[r].surface => tx[q].new = None
    BY DEF Insert, IndexFree
  <2> QED BY <1>1, <1>2, <1>3, <2>1, <2>2 DEF PendingWritesSound, Active, ActiveOn, TypeOK, Tx
<1> QED BY <1>4, <1>5, <1>6, <1>7

\* The record Answered leaves behind has nothing in flight.
LEMMA AnsweredShape ==
    ASSUME TypeOK, NEW r \in Requests, NEW l \in Leases
    PROVE  /\ ShapeOK(Answered(r, l))
           /\ Answered(r, l).closed = {} /\ Answered(r, l).new = None
<1>1. CASE tx[r].surface \in LocalSurfaces
  <2>1. Answered(r, l) = [Idle EXCEPT !.pc = "spawn", !.seen = l]
    BY <1>1 DEF Answered
  <2>2. /\ Answered(r, l).pc = "spawn" /\ Answered(r, l).seen = l
        /\ Answered(r, l).now = 0 /\ Answered(r, l).closed = {}
        /\ Answered(r, l).new = None
    BY <2>1 DEF Idle
  <2>3. Idle \in Tx
    BY IdleShape DEF ShapeOK
  <2>4. Answered(r, l) \in Tx
    BY <2>1, <2>3 DEF Tx
  <2> QED BY <2>2, <2>4, NoneAssumption DEF ShapeOK, TypeOK
<1>2. CASE tx[r].surface \notin LocalSurfaces
  BY <1>2, IdleShape DEF Answered, Idle
<1> QED BY <1>1, <1>2

LEMMA ClosedRow ==
    ASSUME NEW row \in Row, NEW why \in Reasons
    PROVE  /\ Closed(row, why) \in Row
           /\ Closed(row, why).st = "closed"
           /\ Closed(row, why).surface = row.surface
           /\ Closed(row, why).fence = row.fence
BY DEF Closed, Row

LEMMA CommitStep ==
    ASSUME IInv, NEW r \in Requests, Commit(r) PROVE IInv'
<1> USE DEF IInv
<1> DEFINE n == tx[r].new
           s == tx[r].surface
<1>1. n \in Leases /\ rows[n].st = "free" /\ n \notin tx[r].closed
  BY DEF Commit, TxShape, TypeOK, Tx, PendingWritesSound, Active
<1>2. tx' = [tx EXCEPT ![r] = Answered(r, n)]
  BY DEF Commit
<1>3. /\ UNCHANGED <<holder, sweep, offers, accepting, writing, clock>>
      /\ DOMAIN rows' = Leases
      /\ \A l \in tx[r].closed : rows'[l] = Closed(rows[l], "reaped_remote_ttl")
      /\ rows'[n] = NewRow(s, tx[r].agent, tx[r].kind, tx[r].ttl, tx[r].now)
      /\ \A l \in Leases \ tx[r].closed : l # n => rows'[l] = rows[l]
  BY <1>1 DEF Commit, TypeOK, Tx
<1>4. \A l \in tx[r].closed : rows'[l] \in Row /\ rows'[l].st = "closed"
  BY <1>3, ClosedRow DEF TypeOK, Tx, Reasons
<1>5. rows'[n] \in Row /\ rows'[n].st = "active" /\ rows'[n].surface = s
  BY <1>3 DEF NewRow, TypeOK, Tx, Row
<1>6. TypeOK'
  <2>1. rows' \in [Leases -> Row]
    BY <1>1, <1>3, <1>4, <1>5 DEF TypeOK, Commit
  <2> QED BY <1>1, <1>2, <1>3, <2>1, AnsweredShape DEF TypeOK, ShapeOK
<1>7. TxShape'
  BY <1>1, <1>2, <1>3, AnsweredShape DEF TxShape, TypeOK, ShapeOK
<1>8. ActiveOn(s) \subseteq tx[r].closed
  BY <1>1, NoneAssumption DEF PendingWritesSound
<1>9. AtMostOneActive'
  BY <1>1, <1>3, <1>4, <1>5, <1>8 DEF AtMostOneActive, Active, ActiveOn
<1>10. PendingWritesSound'
  <2>1. \A q \in Requests : tx'[q] = tx[q] \/ (tx'[q].closed = {} /\ tx'[q].new = None)
    BY <1>1, <1>2, AnsweredShape DEF TypeOK
  <2>2. \A q \in Requests \ {r} : tx'[q] = tx[q]
    BY <1>2 DEF TypeOK
  <2>3. tx'[r].closed = {} /\ tx'[r].new = None
    BY <1>1, <1>2, AnsweredShape DEF TypeOK
  <2>4. \A q \in Requests \ {r} : \A l \in tx[q].closed : l \in Leases /\ rows'[l] = rows[l]
    BY <1>1, <1>3 DEF PendingWritesSound, TypeOK, Tx, Active
  <2>5. \A q \in Requests \ {r} : tx[q].new # None =>
           /\ rows'[tx[q].new] = rows[tx[q].new]
           /\ tx[q].surface # s
    BY <1>1, <1>3, NoneAssumption DEF PendingWritesSound, TypeOK, Tx, Active
  <2>6. \A z : z # s => ActiveOn(z)' \subseteq ActiveOn(z)
    BY <1>3, <1>4, <1>5 DEF ActiveOn, Active
  <2> QED BY <1>3, <2>2, <2>3, <2>4, <2>5, <2>6 DEF PendingWritesSound, Active
<1>11. WriterExclusive'
  <2>1. \A e \in Effects : writing[e] # None => rows'[writing[e]] = rows[writing[e]]
    BY <1>1, <1>3, NoneAssumption DEF WriterExclusive, PendingWritesSound, Active, TypeOK
  <2> QED BY <1>3, <2>1 DEF WriterExclusive, Active
<1> QED BY <1>6, <1>7, <1>9, <1>10, <1>11

-----------------------------------------------------------------------------
(* The handoff, the effect reservations, and the environment *)

\* What an accept that commits does, whenever its transaction began
LEMMA AcceptTyped ==
    ASSUME TypeOK, AcceptHandoff
    PROVE  LET o == accepting.offer IN
           /\ o.lease \in Leases /\ o.to \in Agents /\ o.ttl \in Nat
           /\ Releasable(o.lease)
           /\ \E n \in Fresh, now \in Nat :
                 /\ now >= accepting.at
                 /\ rows' = [rows EXCEPT ![o.lease] = Closed(@, "handoff"),
                         ![n] = NewRow(rows[o.lease].surface, o.to, "remote_heartbeat", o.ttl, now)]
<1>1. accepting.at \in Nat /\ accepting.offer \in Offer
  BY DEF AcceptHandoff, TypeOK, Accept
<1>2. \A now \in accepting.at .. clock : now \in Nat /\ now >= accepting.at
  BY <1>1 DEF TypeOK
<1> QED BY <1>1, <1>2, TtlsAssumption DEF AcceptHandoff, Offer, Replacing, ToRecipient

LEMMA AcceptHandoffStep ==
    ASSUME IInv, AcceptHandoff PROVE IInv'
<1> USE DEF IInv
<1>0. PICK o : o = accepting.offer
  OBVIOUS
<1> DEFINE old == o.lease
           s   == rows[old].surface
<1>1. /\ old \in Leases /\ o.to \in Agents /\ o.ttl \in Nat
      /\ Active(old) /\ rows[old].fence = None
      /\ \A r \in Requests : old \notin tx[r].closed
  BY <1>0, AcceptTyped DEF Releasable, Locked, LockedBy
<1>2. PICK n \in Fresh, now \in Nat :
         rows' = [rows EXCEPT ![old] = Closed(@, "handoff"),
                              ![n] = NewRow(s, o.to, "remote_heartbeat", o.ttl, now)]
  BY <1>0, AcceptTyped
<1>3. n \in Leases /\ rows[n].st = "free" /\ n # old /\ \A r \in Requests : tx[r].new # n
  BY <1>1, <1>2 DEF Fresh, Active
<1>4. /\ rows'[old] \in Row /\ rows'[old].st = "closed"
      /\ rows'[n] \in Row /\ rows'[n].st = "active" /\ rows'[n].surface = s
      /\ \A l \in Leases \ {old, n} : rows'[l] = rows[l]
  <2>1. rows[old] \in Row
    BY <1>1 DEF TypeOK
  <2>2. Closed(rows[old], "handoff") \in Row /\ Closed(rows[old], "handoff").st = "closed"
    BY <2>1, ClosedRow DEF Reasons
  <2>3. NewRow(s, o.to, "remote_heartbeat", o.ttl, now) \in Row
    BY <1>1, <2>1 DEF NewRow, Row, Kinds, TypeOK
  <2> QED BY <1>1, <1>2, <1>3, <2>2, <2>3 DEF TypeOK, NewRow
<1>5. UNCHANGED <<tx, sweep, writing, clock>>
  BY DEF AcceptHandoff
<1>6. TypeOK'
  BY <1>1, <1>2, <1>3, <1>4, <1>5 DEF TypeOK, AcceptHandoff
<1>7. TxShape'
  BY <1>5 DEF TxShape
<1>8. \A l \in Leases : Active(l) /\ rows[l].surface = s => l = old
  BY <1>1 DEF AtMostOneActive
<1>9. AtMostOneActive'
  BY <1>3, <1>4, <1>8 DEF AtMostOneActive, Active
<1>10. PendingWritesSound'
  <2>1. \A r \in Requests : \A l \in tx[r].closed : l \in Leases /\ rows'[l] = rows[l]
    BY <1>1, <1>3, <1>4 DEF PendingWritesSound, TypeOK, Tx, Active
  <2>2. \A r \in Requests : tx[r].new # None =>
           rows'[tx[r].new] = rows[tx[r].new] /\ tx[r].surface # s
    BY <1>1, <1>3, <1>4 DEF PendingWritesSound, ActiveOn, TypeOK, Tx, Active
  <2>3. \A z : z # s => ActiveOn(z)' \subseteq ActiveOn(z)
    BY <1>4 DEF ActiveOn, Active
  <2> QED BY <1>5, <2>1, <2>2, <2>3 DEF PendingWritesSound, Active
<1>11. WriterExclusive'
  <2>1. \A e \in Effects : writing[e] # None => rows'[writing[e]] = rows[writing[e]]
    BY <1>1, <1>3, <1>4, NoneAssumption DEF WriterExclusive, Active, TypeOK
  <2> QED BY <1>5, <2>1 DEF WriterExclusive, Active
<1> QED BY <1>6, <1>7, <1>9, <1>10, <1>11

\* A reservation set or cleared on an unlocked row disturbs no transaction.
LEMMA FenceStep ==
    ASSUME IInv, NEW l \in Leases, ~Locked(l), NEW f \in Effects \cup {None},
           rows' = [rows EXCEPT ![l].fence = f],
           writing' \in [Effects -> Leases \cup {None}],
           UNCHANGED <<tx, holder, sweep, offers, accepting, clock>>
    PROVE  /\ TypeOK' /\ TxShape' /\ AtMostOneActive' /\ PendingWritesSound'
<1> USE DEF IInv
<1>1. \A m \in Leases : rows'[m] = IF m = l THEN [rows[m] EXCEPT !.fence = f] ELSE rows[m]
  BY DEF TypeOK
<1>2. \A m \in Leases : /\ rows'[m] \in Row /\ rows'[m].st = rows[m].st
                        /\ rows'[m].surface = rows[m].surface
                        /\ rows'[m].expires = rows[m].expires
  BY <1>1 DEF TypeOK, Row
<1>3. TypeOK' /\ TxShape'
  BY <1>2 DEF TypeOK, TxShape
<1>4. AtMostOneActive'
  BY <1>2 DEF AtMostOneActive, Active
<1>5. PendingWritesSound'
  <2>1. \A r \in Requests : /\ l \notin tx[r].closed
                            /\ tx[r].closed \subseteq Leases
                            /\ tx[r].new \in Leases \cup {None}
    BY DEF Locked, LockedBy, TypeOK, Tx
  <2>2. \A z : ActiveOn(z)' = ActiveOn(z)
    BY <1>2 DEF ActiveOn, Active
  <2> QED BY <1>1, <1>2, <2>1, <2>2 DEF PendingWritesSound, Active
<1> QED BY <1>3, <1>4, <1>5

LEMMA BeginEffectStep ==
    ASSUME IInv, NEW e \in Effects, NEW l \in Leases, BeginEffect(e, l) PROVE IInv'
<1> USE DEF IInv
<1>1. TypeOK' /\ TxShape' /\ AtMostOneActive' /\ PendingWritesSound'
  BY FenceStep DEF BeginEffect, Admissible, TypeOK
<1>2. WriterExclusive'
  <2>1. /\ Active(l) /\ rows[l].fence = None
        /\ rows' = [rows EXCEPT ![l].fence = e]
        /\ writing' = [writing EXCEPT ![e] = l]
    BY DEF BeginEffect, Admissible
  <2>2. \A f \in Effects \ {e} : writing[f] # None =>
           /\ writing[f] \in Leases /\ writing[f] # l
           /\ rows[writing[f]].surface # rows[l].surface
    BY <2>1, NoneAssumption DEF WriterExclusive, AtMostOneActive, TypeOK
  <2>3. \A m \in Leases : rows'[m].st = rows[m].st /\ rows'[m].surface = rows[m].surface
    BY <2>1 DEF TypeOK, Row
  <2>4. rows'[l].fence = e /\ \A m \in Leases \ {l} : rows'[m] = rows[m]
    BY <2>1 DEF TypeOK, Row
  <2>5. writing'[e] = l /\ \A f \in Effects \ {e} : writing'[f] = writing[f]
    BY <2>1 DEF TypeOK
  <2> QED BY <2>1, <2>2, <2>3, <2>4, <2>5 DEF WriterExclusive, Active
<1> QED BY <1>1, <1>2

LEMMA FinishEffectStep ==
    ASSUME IInv, NEW e \in Effects, FinishEffect(e) PROVE IInv'
<1> USE DEF IInv
<1> DEFINE l == writing[e]
<1>1. /\ l \in Leases /\ l # None /\ ~Locked(l) /\ rows[l].fence = e /\ Active(l)
      /\ rows' = [rows EXCEPT ![l].fence = None]
      /\ writing' = [writing EXCEPT ![e] = None]
      /\ UNCHANGED <<tx, holder, sweep, offers, accepting, clock>>
  BY DEF FinishEffect, OwnFence, WriterExclusive, TypeOK
<1>2. TypeOK' /\ TxShape' /\ AtMostOneActive' /\ PendingWritesSound'
  BY <1>1, FenceStep DEF TypeOK
<1>3. WriterExclusive'
  <2>1. \A f \in Effects \ {e} : writing[f] # None => writing[f] \in Leases /\ writing[f] # l
    BY <1>1 DEF WriterExclusive, TypeOK
  <2>2. writing'[e] = None /\ \A f \in Effects \ {e} : writing'[f] = writing[f]
    BY <1>1 DEF TypeOK
  <2>3. \A m \in Leases \ {l} : rows'[m] = rows[m]
    BY <1>1 DEF TypeOK
  <2> QED BY <2>1, <2>2, <2>3 DEF WriterExclusive, Active
<1> QED BY <1>2, <1>3

-----------------------------------------------------------------------------
(* The steps of each actor *)

LEMMA RequestStepInv ==
    ASSUME IInv, NEW r \in Requests, RequestStep(r) PROVE IInv'
<1> USE DEF IInv
<1>0. TypeOK /\ ShapeOK(Idle) /\ tx[r] \in Tx /\ Idle.closed = {} /\ Idle.new = None
  BY IdleShape DEF TypeOK, Idle
<1>a. tx[r] \in Tx /\ Idle \in Tx /\ clock \in Nat
  BY <1>0 DEF ShapeOK, TypeOK
<1>1. ASSUME NEW s \in Surfaces, NEW a \in Agents, NEW t \in Ttls, AcquireBegin(r, s, a, t)
      PROVE  IInv'
  <2> DEFINE b == [Idle EXCEPT !.pc = "close", !.surface = s, !.agent = a, !.kind = KindFor(s),
                               !.ttl = t, !.now = clock]
  <2>1. ShapeOK(b) /\ b.closed = {} /\ b.new = None
    <3>1. b \in Tx
      <4>1. KindFor(s) \in Kinds /\ t \in Nat /\ clock \in Nat /\ Idle \in Tx
        BY <1>0, TtlsAssumption DEF KindFor, Kinds, TypeOK, ShapeOK
      <4> QED BY <4>1 DEF Tx
    <3>2. b.pc = "close" /\ b.now = clock /\ b.closed = {} /\ b.new = None
      BY DEF Idle
    <3> HIDE DEF b
    <3> QED BY <3>1, <3>2 DEF ShapeOK, TypeOK
  <2>2. TxOnly(r, b)
    BY <1>1 DEF AcquireBegin, TxOnly, OthersTyped, TypeOK
  <2> HIDE DEF b
  <2> QED BY <2>1, <2>2, TxOnlyStep
<1>2. CASE CloseExpired(r)
  BY <1>2, CloseExpiredStep
<1>3. CASE ReadFree(r)
  <2>1. CASE tx[r].depth > MaxDepth
    <3>1. TxOnly(r, Idle)
      BY <1>3, <2>1 DEF ReadFree, TxOnly, OthersTyped, TypeOK
    <3> QED BY <1>0, <3>1, TxOnlyStep
  <2>2. CASE ~(tx[r].depth > MaxDepth)
    <3> DEFINE t == [tx[r] EXCEPT !.pc = "insert"]
    <3>1. TxOnly(r, t)
      BY <1>3, <2>2 DEF ReadFree, TxOnly, OthersTyped, TypeOK
    <3>2. /\ ShapeOK(t)
          /\ t.closed = tx[r].closed /\ t.new = tx[r].new /\ t.surface = tx[r].surface
      BY <1>0, <1>3 DEF ReadFree, ShapeOK, Tx, TxShape
    <3> HIDE DEF t
    <3> QED BY <3>1, <3>2, TxOnlyStep
  <2> QED BY <2>1, <2>2
<1>4. CASE ReadRefused(r)
  <2>1. TxOnly(r, Idle)
    BY <1>4 DEF ReadRefused, TxOnly, OthersTyped, TypeOK
  <2> QED BY <1>0, <2>1, TxOnlyStep
<1>5. CASE ReadOwn(r)
  <2>1. PICK l \in ActiveSeenBy(r) :
           \/ tx' = [tx EXCEPT ![r] = Answered(r, l)]
           \/ tx' = [tx EXCEPT ![r] = [tx[r] EXCEPT !.pc = "touch", !.seen = l]]
    BY <1>5 DEF ReadOwn
  <2>2. l \in Leases /\ l # None /\ tx[r].pc = "read"
    BY <1>5, <2>1, NoneAssumption DEF ActiveSeenBy, ActiveOn, ReadOwn
  <2>3. tx[r].closed = {}
    BY <1>0, <2>1 DEF ActiveSeenBy, ActiveOn, PendingWritesSound, AtMostOneActive, Tx
  <2>4. CASE tx' = [tx EXCEPT ![r] = [tx[r] EXCEPT !.pc = "touch", !.seen = l]]
    <3> DEFINE t == [tx[r] EXCEPT !.pc = "touch", !.seen = l]
    <3>1. TxOnly(r, t)
      BY <1>5, <2>1, <2>4 DEF ReadOwn, TxOnly, OthersTyped, TypeOK
    <3>2. t \in Tx
      BY <1>0, <2>2 DEF Tx
    <3>3. /\ t.pc = "touch" /\ t.seen = l /\ t.now = tx[r].now
          /\ t.closed = {} /\ t.new = None
      BY <1>0, <2>2, <2>3 DEF Tx, TxShape
    <3> HIDE DEF t
    <3>4. ShapeOK(t)
      BY <2>2, <3>2, <3>3 DEF ShapeOK, TxShape
    <3> QED BY <3>1, <3>3, <3>4, TxOnlyStep
  <2>5. CASE tx' = [tx EXCEPT ![r] = Answered(r, l)]
    <3>1. TxOnly(r, Answered(r, l))
      BY <1>5, <2>1, <2>5 DEF ReadOwn, TxOnly, OthersTyped, TypeOK
    <3> QED BY <1>0, <2>2, <3>1, AnsweredShape, TxOnlyStep
  <2> QED BY <2>1, <2>4, <2>5
<1>6. CASE Touch(r)
  <2> DEFINE l == tx[r].seen
  <2>1. l \in Leases /\ tx[r].closed = {} /\ tx[r].new = None
    BY <1>0, <1>6 DEF Touch, TxShape, Tx
  <2>2. CASE Active(l)
    <3>1. TxOnly(r, Answered(r, l))
      BY <1>6, <2>2 DEF Touch, TxOnly, OthersTyped, TypeOK
    <3> QED BY <1>0, <2>1, <3>1, AnsweredShape, TxOnlyStep
  <2>3. CASE ~Active(l)
    <3> DEFINE t == [tx[r] EXCEPT !.pc = "insert", !.depth = 0, !.seen = None,
                                  !.kind = rows[l].kind, !.ttl = rows[l].ttl]
    <3>1. TxOnly(r, t)
      BY <1>6, <2>3 DEF Touch, TxOnly, OthersTyped, TypeOK
    <3>2. rows[l].kind \in Kinds \cup {"none"} /\ rows[l].ttl \in Nat
      BY <2>1 DEF TypeOK, Row
    <3>3. t \in Tx
      BY <1>a, <3>2 DEF Tx
    <3>4. t.pc = "insert" /\ t.now = tx[r].now /\ t.closed = {} /\ t.new = None
      BY <1>0, <2>1 DEF Tx
    <3> HIDE DEF t
    <3>5. ShapeOK(t)
      BY <3>3, <3>4 DEF ShapeOK, TxShape
    <3> QED BY <3>1, <3>4, <3>5, TxOnlyStep
  <2> QED BY <2>2, <2>3
<1>7. CASE Insert(r)
  BY <1>7, InsertStep
<1>8. CASE InsertConflict(r)
  <2> DEFINE t == [tx[r] EXCEPT !.pc = "close", !.depth = @ + 1]
  <2>1. TxOnly(r, t)
    BY <1>0, <1>8 DEF InsertConflict, TxOnly, OthersTyped, TypeOK
  <2>2. t \in Tx
    <3>1. t = [tx[r] EXCEPT !.pc = "close", !.depth = tx[r].depth + 1]
      BY <1>a
    <3>2. tx[r].depth + 1 \in Nat
      BY <1>a DEF Tx
    <3> QED BY <1>a, <3>1, <3>2 DEF Tx
  <2>3. /\ t.pc = "close" /\ t.now = tx[r].now /\ t.closed = tx[r].closed
        /\ t.new = tx[r].new /\ t.surface = tx[r].surface
    BY <1>0 DEF Tx
  <2> HIDE DEF t
  <2>4. ShapeOK(t)
    BY <1>8, <2>2, <2>3 DEF InsertConflict, ShapeOK, TxShape
  <2> QED BY <2>1, <2>3, <2>4, TxOnlyStep
<1>9. CASE Commit(r)
  BY <1>9, CommitStep
<1>10. CASE SpawnHolder(r)
  <2>1. TxOnly(r, Idle)
    BY <1>10 DEF SpawnHolder, TxOnly, OthersTyped, TypeOK
  <2> QED BY <1>0, <2>1, TxOnlyStep
<1>11. CASE SpawnFailed(r)
  <2> DEFINE l == tx[r].seen
  <2>1. OthersTyped /\ tx' = [tx EXCEPT ![r] = Idle] /\ UNCHANGED <<writing, clock>>
    BY <1>11 DEF SpawnFailed, OthersTyped, TypeOK
  <2>2. CASE Releasable(l)
    <3>1. l \in Leases /\ Active(l) /\ ~Locked(l)
      BY <1>0, <1>11, <2>2 DEF SpawnFailed, Releasable, TxShape, Tx
    <3>2. RowRewrite(l, Closed(rows[l], "reaped_after_supervisor_failed"))
      BY <2>2, <3>1, ClosedRow DEF RowRewrite, Releasable, TypeOK, Reasons
    <3>3. rows' = [rows EXCEPT ![l] = Closed(rows[l], "reaped_after_supervisor_failed")]
      BY <1>11, <2>2 DEF SpawnFailed
    <3> QED BY <2>1, <3>1, <3>2, <3>3, RowStep
  <2>3. CASE ~Releasable(l)
    <3>1. TxOnly(r, Idle)
      BY <1>11, <2>1, <2>3 DEF SpawnFailed, TxOnly
    <3> QED BY <1>0, <3>1, TxOnlyStep
  <2> QED BY <2>2, <2>3
<1>12. ASSUME NEW l \in Leases, RenewBegin(r, l) PROVE IInv'
  <2> DEFINE b == [Idle EXCEPT !.pc = "renew", !.seen = l, !.now = clock]
  <2>1. ShapeOK(b) /\ b.closed = {} /\ b.new = None
    <3>1. b \in Tx
      BY ZenonT(20), <1>a DEF Tx
    <3>2. /\ b.pc = "renew" /\ b.seen = l /\ b.now = clock
          /\ b.closed = {} /\ b.new = None
      BY DEF Idle
    <3> HIDE DEF b
    <3> QED BY <3>1, <3>2, NoneAssumption DEF ShapeOK, TypeOK
  <2>2. TxOnly(r, b)
    BY <1>12 DEF RenewBegin, TxOnly, OthersTyped, TypeOK
  <2> HIDE DEF b
  <2> QED BY <2>1, <2>2, TxOnlyStep
<1>13. CASE Renew(r)
  <2> DEFINE l == tx[r].seen
  <2>1. OthersTyped /\ tx' = [tx EXCEPT ![r] = Idle] /\ UNCHANGED <<writing, clock>>
    BY <1>13 DEF Renew, OthersTyped, TypeOK
  <2>2. CASE Active(l)
    <3> DEFINE row == [rows[l] EXCEPT !.expires = tx[r].now + rows[l].ttl]
    <3>1. l \in Leases /\ Active(l) /\ ~Locked(l)
      BY <1>0, <1>13, <2>2 DEF Renew, TxShape, Tx
    <3>2. RowRewrite(l, row)
      <4>1. rows[l] \in Row /\ tx[r].now \in Nat
        BY <1>0, <3>1 DEF TypeOK, Tx
      <4>2. row \in Row
        BY <4>1 DEF Row
      <4>3. row.st = "active" /\ row.surface = rows[l].surface /\ row.fence = rows[l].fence
        BY <3>1, <4>1 DEF Row, Active
      <4> HIDE DEF row
      <4> QED BY <4>2, <4>3 DEF RowRewrite
    <3>3. rows' = [rows EXCEPT ![l] = row]
      BY <1>13, <2>2, <3>1 DEF Renew, Renewable, Renewed, TypeOK
    <3> HIDE DEF row
    <3> QED BY <2>1, <3>1, <3>2, <3>3, RowStep
  <2>3. CASE ~Active(l)
    <3>1. TxOnly(r, Idle)
      BY <1>13, <2>1, <2>3 DEF Renew, Renewable, TxOnly
    <3> QED BY <1>0, <3>1, TxOnlyStep
  <2> QED BY <2>2, <2>3
<1>14. CASE TxAbort(r)
  <2>1. TxOnly(r, Idle)
    BY <1>14 DEF TxAbort, TxOnly, OthersTyped, TypeOK
  <2> QED BY <1>0, <2>1, TxOnlyStep
<1> QED BY <1>1, <1>2, <1>3, <1>4, <1>5, <1>6, <1>7, <1>8, <1>9, <1>10, <1>11, <1>12, <1>13,
          <1>14 DEF RequestStep

\* A step that leaves rows and transactions alone
LEMMA QuietStep ==
    ASSUME IInv, OthersTyped, UNCHANGED <<rows, tx, writing, clock>> PROVE IInv'
BY DEF IInv, TypeOK, OthersTyped, TxShape, AtMostOneActive, PendingWritesSound, WriterExclusive,
       Active, ActiveOn

LEMMA LeaseStepInv ==
    ASSUME IInv, NEW l \in Leases, LeaseStep(l) PROVE IInv'
<1>0. TypeOK /\ rows[l] \in Row
  BY DEF IInv, TypeOK
<1>1. CASE HolderRenew(l)
  <2>1. OthersTyped /\ UNCHANGED <<tx, writing, clock>> /\ ~Locked(l)
    BY <1>0, <1>1 DEF HolderRenew, HolderAfterNotFound, OthersTyped, TypeOK
  <2>2. CASE Active(l)
    <3> DEFINE row == [rows[l] EXCEPT !.expires = clock + rows[l].ttl]
    <3>1. row \in Row
      BY <1>0 DEF TypeOK, Row
    <3>2. row.st = "active" /\ row.surface = rows[l].surface /\ row.fence = rows[l].fence
      BY <1>0, <2>2 DEF Row, Active
    <3>3. rows' = [rows EXCEPT ![l] = row]
      BY <1>0, <1>1, <2>2 DEF HolderRenew, Renewable, Renewed, TypeOK
    <3> HIDE DEF row
    <3>4. RowRewrite(l, row)
      BY <3>1, <3>2 DEF RowRewrite
    <3> QED BY <2>1, <2>2, <3>3, <3>4, RowStep
  <2>3. CASE ~Active(l)
    <3>1. UNCHANGED rows
      BY <1>1, <2>3 DEF HolderRenew, Renewable
    <3> QED BY <2>1, <3>1, QuietStep
  <2> QED BY <2>2, <2>3
<1>2. CASE HolderHandedOff(l) \/ HolderExit(l) \/ HolderKilled(l)
  <2>1. OthersTyped /\ UNCHANGED <<rows, tx, writing, clock>>
    BY <1>0, <1>2 DEF HolderHandedOff, HolderExit, HolderKilled, OthersTyped, TypeOK
  <2> QED BY <2>1, QuietStep
<1>3. CASE HolderTerminate(l)
  <2>1. OthersTyped /\ UNCHANGED <<tx, writing, clock>>
    BY <1>0, <1>3 DEF HolderTerminate, OthersTyped, TypeOK
  <2>2. CASE Releasable(l)
    <3>1. RowRewrite(l, Closed(rows[l], "down_local")) /\ Active(l) /\ ~Locked(l)
      BY <1>0, <2>2, ClosedRow DEF RowRewrite, Releasable, Reasons
    <3>2. rows' = [rows EXCEPT ![l] = Closed(rows[l], "down_local")]
      BY <1>3, <2>2 DEF HolderTerminate
    <3> QED BY <2>1, <3>1, <3>2, RowStep
  <2>3. CASE ~Releasable(l)
    <3>1. UNCHANGED rows
      BY <1>3, <2>3 DEF HolderTerminate
    <3> QED BY <2>1, <3>1, QuietStep
  <2> QED BY <2>2, <2>3
<1>4. ASSUME NEW why \in {"normal", "forced"}, Release(l, why) PROVE IInv'
  <2>1. OthersTyped /\ UNCHANGED <<tx, writing, clock>>
    BY <1>0, <1>4 DEF Release, OthersTyped, TypeOK
  <2>2. RowRewrite(l, Closed(rows[l], why)) /\ Active(l) /\ ~Locked(l)
    BY <1>0, <1>4, ClosedRow DEF RowRewrite, Release, Releasable, Reasons
  <2>3. rows' = [rows EXCEPT ![l] = Closed(rows[l], why)]
    BY <1>4 DEF Release
  <2> QED BY <2>1, <2>2, <2>3, RowStep
<1>5. CASE Reap(l)
  <2>1. OthersTyped /\ UNCHANGED <<tx, writing, clock>>
    BY <1>0, <1>5 DEF Reap, OthersTyped, TypeOK
  <2>2. CASE StillExpired(l)
    <3>1. ReapReason(l) \in Reasons
      BY DEF ReapReason, Reasons
    <3>2. RowRewrite(l, Closed(rows[l], ReapReason(l))) /\ Active(l) /\ ~Locked(l)
      BY <1>0, <2>2, <3>1, ClosedRow DEF RowRewrite, StillExpired, Releasable
    <3>3. rows' = [rows EXCEPT ![l] = Closed(rows[l], ReapReason(l))]
      BY <1>5, <2>2 DEF Reap
    <3> QED BY <2>1, <3>2, <3>3, RowStep
  <2>3. CASE ~StillExpired(l)
    <3>1. UNCHANGED rows
      BY <1>5, <2>3 DEF Reap
    <3> QED BY <2>1, <3>1, QuietStep
  <2> QED BY <2>2, <2>3
<1>6. ASSUME NEW a \in Agents, NEW t \in Ttls, OfferHandoff(l, a, t) PROVE IInv'
  <2>1. clock + OfferWindow \in Nat
    BY <1>0, BoundsAssumption DEF TypeOK
  <2>2. [lease |-> l, to |-> a, ttl |-> t, until |-> clock + OfferWindow] \in Offer
    BY <2>1 DEF Offer
  <2>3. OthersTyped /\ UNCHANGED <<rows, tx, writing, clock>>
    BY <1>0, <1>6, <2>2 DEF OfferHandoff, OthersTyped, TypeOK
  <2> QED BY <2>3, QuietStep
<1> QED BY <1>1, <1>2, <1>3, <1>4, <1>5, <1>6 DEF LeaseStep

LEMMA EffectStepInv ==
    ASSUME IInv, NEW e \in Effects, EffectStep(e) PROVE IInv'
<1>1. ASSUME NEW l \in Leases, BeginEffect(e, l) PROVE IInv'
  BY <1>1, BeginEffectStep
<1>2. CASE FinishEffect(e)
  BY <1>2, FinishEffectStep
<1>3. CASE ExecutorDies(e)
  <2>1. TypeOK' /\ TxShape' /\ AtMostOneActive' /\ PendingWritesSound'
    BY <1>3 DEF ExecutorDies, IInv, TypeOK, TxShape, AtMostOneActive, PendingWritesSound,
                Active, ActiveOn
  <2>2. \A f \in Effects : writing'[f] # None => writing'[f] = writing[f]
    BY <1>3 DEF ExecutorDies, IInv, TypeOK
  <2>3. WriterExclusive'
    BY <1>3, <2>2 DEF ExecutorDies, IInv, WriterExclusive, Active
  <2> QED BY <2>1, <2>3 DEF IInv
<1> QED BY <1>1, <1>2, <1>3 DEF EffectStep

LEMMA NodeCrashInv == ASSUME IInv, NodeCrash PROVE IInv'
<1>1. TypeOK' /\ TxShape'
  BY IdleShape DEF NodeCrash, IInv, TypeOK, TxShape, ShapeOK
<1>2. AtMostOneActive' /\ WriterExclusive'
  BY DEF NodeCrash, IInv, AtMostOneActive, WriterExclusive, Active
<1>3. PendingWritesSound'
  BY DEF NodeCrash, PendingWritesSound, Idle
<1> QED BY <1>1, <1>2, <1>3 DEF IInv

LEMMA TickInv == ASSUME IInv, Tick PROVE IInv'
<1>1. clock \in Nat /\ clock' = clock + 1
  BY DEF Tick, IInv, TypeOK
<1>2. \A r \in Requests : tx[r].now \in Nat /\ \A l \in tx[r].closed : rows[l].expires \in Nat
  BY DEF IInv, TypeOK, Tx, Row
<1>3. TypeOK'
  BY <1>1 DEF Tick, IInv, TypeOK
<1>4. TxShape'
  BY <1>1, <1>2 DEF Tick, IInv, TxShape
<1>5. AtMostOneActive' /\ WriterExclusive'
  BY DEF Tick, IInv, AtMostOneActive, WriterExclusive, Active
<1>6. PendingWritesSound'
  BY <1>1, <1>2 DEF Tick, IInv, PendingWritesSound, Active, ActiveOn
<1> QED BY <1>3, <1>4, <1>5, <1>6 DEF IInv

-----------------------------------------------------------------------------
(* The inductive invariant *)

LEMMA InitInv == Init => IInv
<1> SUFFICES ASSUME Init PROVE IInv
  OBVIOUS
<1>1. FreeRow \in Row /\ FreeRow.st = "free"
  BY DEF FreeRow, Row
<1>2. TypeOK
  <2>1. Idle \in Tx
    BY DEF Idle, Tx
  <2> QED BY <1>1, <2>1 DEF Init, TypeOK
<1>3. TxShape
  BY <1>2, IdleShape DEF Init, TxShape, ShapeOK, TypeOK
<1>4. AtMostOneActive
  BY <1>1 DEF Init, AtMostOneActive, Active
<1>5. PendingWritesSound
  BY DEF Init, PendingWritesSound, Idle
<1>6. WriterExclusive
  BY DEF Init, WriterExclusive
<1> QED BY <1>2, <1>3, <1>4, <1>5, <1>6 DEF IInv

LEMMA NextInv == IInv /\ [Next]_vars => IInv'
<1> SUFFICES ASSUME IInv, [Next]_vars PROVE IInv'
  OBVIOUS
<1>1. CASE \E r \in Requests : RequestStep(r)
  BY <1>1, RequestStepInv
<1>2. CASE \E l \in Leases : LeaseStep(l)
  BY <1>2, LeaseStepInv
<1>3. CASE \E e \in Effects : EffectStep(e)
  BY <1>3, EffectStepInv
<1>4. CASE AcceptHandoff
  BY <1>4, AcceptHandoffStep
<1>5. CASE \/ \E o \in offers : AcceptBegins(o) \/ ExpireOffer(o)
           \/ AcceptFails \/ ExpireStale \/ ReaperScan
  <2>1. OthersTyped /\ UNCHANGED <<rows, tx, writing, clock>>
    BY <1>5 DEF AcceptBegins, Accept, AcceptFails, ExpireOffer, ExpireStale, ReaperScan,
                ExpiredRows, OthersTyped, IInv, TypeOK
  <2> QED BY <2>1, QuietStep
<1>6. CASE NodeCrash
  BY <1>6, NodeCrashInv
<1>7. CASE Tick
  BY <1>7, TickInv
<1>8. CASE UNCHANGED vars
  <2>1. OthersTyped /\ UNCHANGED <<rows, tx, writing, clock>>
    BY <1>8 DEF vars, OthersTyped, IInv, TypeOK
  <2> QED BY <2>1, QuietStep
<1> QED BY <1>1, <1>2, <1>3, <1>4, <1>5, <1>6, <1>7, <1>8 DEF Next, Step

LEMMA Inductive == Spec => []IInv
<1>1. Init => IInv
  BY InitInv
<1>2. IInv /\ [Next]_vars => IInv'
  BY NextInv
<1> QED BY <1>1, <1>2, PTL DEF Spec

-----------------------------------------------------------------------------
(* The accept in progress: a small invariant of its own, beside IInv        *)

LEMMA AcceptSoundStep == ASSUME TypeOK, AcceptSound, [Next]_vars PROVE AcceptSound'
<1>0. clock \in Nat /\ (accepting # None => accepting.at \in Nat)
  BY DEF TypeOK, Accept
<1>1. CASE \E o \in offers : AcceptBegins(o)
  <2>1. PICK o \in offers : AcceptBegins(o)
    BY <1>1
  <2>2. accepting' = [offer |-> o, at |-> clock] /\ clock < o.until /\ UNCHANGED <<offers, clock>>
    BY <2>1 DEF AcceptBegins, Acceptable
  <2> QED BY <1>0, <2>2 DEF AcceptSound
<1>2. CASE AcceptHandoff \/ AcceptFails \/ NodeCrash
  BY <1>2 DEF AcceptHandoff, AcceptFails, NodeCrash, AcceptSound
<1>3. CASE UNCHANGED accepting /\ (accepting # None => UNCHANGED offers) /\ clock' \in {clock, clock + 1}
  BY <1>0, <1>3 DEF AcceptSound
<1>4. CASE \E r \in Requests : RequestStep(r)
  BY <1>3, <1>4 DEF RequestStep, AcquireBegin, CloseExpired, ReadFree, ReadRefused, ReadOwn, Touch,
                Insert, InsertConflict, Commit, SpawnHolder, SpawnFailed, RenewBegin, Renew, TxAbort
<1>5. CASE \E l \in Leases : LeaseStep(l)
  BY <1>3, <1>5 DEF LeaseStep, HolderRenew, HolderHandedOff, HolderExit, HolderTerminate,
                HolderKilled, Release, Reap, OfferHandoff
<1>6. CASE \E e \in Effects : EffectStep(e)
  BY <1>3, <1>6 DEF EffectStep, BeginEffect, FinishEffect, ExecutorDies
<1>7. CASE \/ \E o \in offers : ExpireOffer(o)
           \/ ExpireStale \/ ReaperScan \/ Tick \/ UNCHANGED vars
  BY <1>3, <1>7 DEF ExpireOffer, ExpireStale, ReaperScan, Tick, vars
<1> QED BY <1>1, <1>2, <1>4, <1>5, <1>6, <1>7 DEF Next, Step

LEMMA AcceptStaysSound == Spec => []AcceptSound
<1>1. Init => AcceptSound
  BY DEF Init, AcceptSound
<1>2. IInv /\ AcceptSound /\ [Next]_vars => AcceptSound'
  BY AcceptSoundStep DEF IInv
<1> QED BY <1>1, <1>2, Inductive, PTL DEF Spec

-----------------------------------------------------------------------------

\* Every variable keeps its type in every reachable state.
THEOREM TypeCorrect == Spec => []TypeOK
<1>1. IInv => TypeOK
  BY DEF IInv
<1> QED BY <1>1, Inductive, PTL

\* The exactly-one-winner invariant: whatever acquires, handoffs, releases and
\* reaper passes interleave, a surface never has two unreleased rows.
THEOREM OneActivePerSurface == Spec => []AtMostOneActive
<1>1. IInv => AtMostOneActive
  BY DEF IInv
<1> QED BY <1>1, Inductive, PTL

\* What a transaction has written and not committed is never invalidated by
\* another actor before the commit.
THEOREM PendingWritesStaySound == Spec => []PendingWritesSound
<1>1. IInv => PendingWritesSound
  BY DEF IInv
<1> QED BY <1>1, Inductive, PTL

\* An admitted executor holds its reservation, alone on its surface, for as
\* long as it may write, across crashes, expiry, releases and handoffs.
THEOREM WritersExclude == Spec => []WriterExclusive
<1>1. IInv => WriterExclusive
  BY DEF IInv
<1> QED BY <1>1, Inductive, PTL

-----------------------------------------------------------------------------
(* What a step may do to one row, whoever takes it.                         *)

Granted(l) ==
    /\ rows[l].st = "free"
    /\ rows'[l].st = "active" /\ rows'[l].fence = None

Prolonged(l) == Active(l) /\ \E x \in Nat : rows'[l] = [rows[l] EXCEPT !.expires = x]

HandedOver(l) ==
    LET o == accepting.offer IN
    /\ accepting # None /\ o.lease = l /\ o \notin offers'
    /\ \E m \in Leases :
          /\ rows[m].st = "free" /\ rows'[m].st = "active"
          /\ rows'[m].surface = rows[l].surface /\ rows'[m].agent = o.to
          /\ rows'[m].expires >= accepting.at + o.ttl

Ended(l) ==
    /\ Active(l) /\ rows[l].fence = None
    /\ \E why \in Reasons :
          /\ rows'[l] = Closed(rows[l], why)
          /\ why \in {"reaped_remote_ttl", "reaped_local_ttl"} => rows[l].expires < clock
          /\ why = "handoff" => HandedOver(l)

Reserved(l) ==
    /\ Active(l) /\ rows[l].fence = None
    /\ \E e \in Effects : rows'[l] = [rows[l] EXCEPT !.fence = e]

Retired(l) ==
    /\ Active(l) /\ writing[rows[l].fence] = l
    /\ rows'[l] = [rows[l] EXCEPT !.fence = None]

RowChange(l) ==
    \/ rows'[l] = rows[l]
    \/ Granted(l) \/ Prolonged(l) \/ Ended(l) \/ Reserved(l) \/ Retired(l)

LEMMA OneRowChange ==
    ASSUME TypeOK, NEW l \in Leases, NEW row, rows' = [rows EXCEPT ![l] = row],
           NEW k \in Leases, k = l => RowChange(l)
    PROVE  RowChange(k)
BY DEF TypeOK, RowChange

LEMMA RequestRowChange ==
    ASSUME IInv, NEW r \in Requests, RequestStep(r), NEW k \in Leases PROVE RowChange(k)
<1>0. TypeOK /\ tx[r] \in Tx /\ clock \in Nat
  BY DEF IInv, TypeOK
<1>1. CASE Commit(r)
  <2> DEFINE n == tx[r].new
  <2>1. n \in Leases /\ rows[n].st = "free" /\ n \notin tx[r].closed
    BY <1>1, <1>0 DEF Commit, IInv, TxShape, Tx, PendingWritesSound, Active
  <2>2. CASE k \in tx[r].closed
    <3>1. rows'[k] = Closed(rows[k], "reaped_remote_ttl")
      BY <1>1, <2>1, <2>2 DEF Commit
    <3>2. Active(k) /\ rows[k].fence = None /\ rows[k].expires < clock
      BY <2>2 DEF IInv, PendingWritesSound
    <3> QED BY <3>1, <3>2 DEF RowChange, Ended, Reasons
  <2>3. CASE k = n
    <3>1. rows'[k] = NewRow(tx[r].surface, tx[r].agent, tx[r].kind, tx[r].ttl, tx[r].now)
      BY <1>1, <2>1, <2>3 DEF Commit
    <3> QED BY <2>1, <2>3, <3>1 DEF RowChange, Granted, NewRow
  <2>4. CASE k \notin tx[r].closed /\ k # n
    BY <1>1, <2>4 DEF Commit, RowChange
  <2> QED BY <2>2, <2>3, <2>4
<1>2. CASE SpawnFailed(r)
  <2> DEFINE l == tx[r].seen
             why == "reaped_after_supervisor_failed"
  <2>1. CASE Releasable(l)
    <3>1. l \in Leases
      BY <1>0, <1>2 DEF SpawnFailed, IInv, TxShape, Tx
    <3>2. rows' = [rows EXCEPT ![l] = Closed(rows[l], why)]
      BY <1>2, <2>1 DEF SpawnFailed
    <3>3. rows'[l] = Closed(rows[l], why)
      BY <1>0, <3>1, <3>2 DEF TypeOK
    <3>4. RowChange(l)
      BY <2>1, <3>3 DEF RowChange, Ended, Releasable, Reasons
    <3> QED BY <1>0, <3>1, <3>2, <3>4, OneRowChange
  <2>2. CASE ~Releasable(l)
    BY <1>2, <2>2 DEF SpawnFailed, RowChange
  <2> QED BY <2>1, <2>2
<1>3. CASE Renew(r)
  <2> DEFINE l == tx[r].seen
             x == tx[r].now + rows[l].ttl
  <2>1. CASE Active(l)
    <3>1. l \in Leases
      BY <1>0, <1>3 DEF Renew, IInv, TxShape, Tx
    <3>2. rows' = [rows EXCEPT ![l] = [rows[l] EXCEPT !.expires = x]]
      BY <1>0, <1>3, <2>1, <3>1 DEF Renew, Renewable, Renewed, TypeOK
    <3>3. x \in Nat
      BY <1>0, <3>1 DEF TypeOK, Row, Tx
    <3>4. RowChange(l)
      BY <1>0, <2>1, <3>1, <3>2, <3>3 DEF RowChange, Prolonged, TypeOK
    <3> QED BY <1>0, <3>1, <3>2, <3>4, OneRowChange
  <2>2. CASE ~Active(l)
    BY <1>3, <2>2 DEF Renew, Renewable, RowChange
  <2> QED BY <2>1, <2>2
<1>4. CASE ~Commit(r) /\ ~SpawnFailed(r) /\ ~Renew(r)
  <2>1. UNCHANGED rows
    BY <1>4 DEF RequestStep, AcquireBegin, CloseExpired, ReadFree, ReadRefused, ReadOwn, Touch,
                Insert, InsertConflict, SpawnHolder, RenewBegin, TxAbort
  <2> QED BY <2>1 DEF RowChange
<1> QED BY <1>1, <1>2, <1>3, <1>4

LEMMA LeaseRowChange ==
    ASSUME IInv, NEW l \in Leases, LeaseStep(l), NEW k \in Leases PROVE RowChange(k)
<1>0. TypeOK /\ rows[l] \in Row /\ clock \in Nat
  BY DEF IInv, TypeOK
<1>1. CASE HolderRenew(l) /\ Active(l)
  <2> DEFINE x == clock + rows[l].ttl
  <2>1. rows' = [rows EXCEPT ![l] = [rows[l] EXCEPT !.expires = x]]
    BY <1>0, <1>1 DEF HolderRenew, Renewable, Renewed, TypeOK
  <2>2. x \in Nat
    BY <1>0 DEF Row
  <2>3. RowChange(l)
    BY <1>0, <1>1, <2>1, <2>2 DEF RowChange, Prolonged, TypeOK
  <2> QED BY <1>0, <2>1, <2>3, OneRowChange
<1>2. ASSUME NEW why \in Reasons \ {"handoff"}, Releasable(l),
             rows' = [rows EXCEPT ![l] = Closed(rows[l], why)],
             why \in {"reaped_remote_ttl", "reaped_local_ttl"} => rows[l].expires < clock
      PROVE  RowChange(k)
  <2>1. rows'[l] = Closed(rows[l], why)
    BY <1>0, <1>2 DEF TypeOK
  <2>2. RowChange(l)
    BY <1>2, <2>1 DEF RowChange, Ended, Releasable
  <2> QED BY <1>0, <1>2, <2>2, OneRowChange
<1>3. CASE HolderTerminate(l) /\ Releasable(l)
  BY <1>2, <1>3 DEF HolderTerminate, Reasons
<1>4. ASSUME NEW why \in {"normal", "forced"}, Release(l, why) PROVE RowChange(k)
  BY <1>2, <1>4 DEF Release, Reasons
<1>5. CASE Reap(l) /\ StillExpired(l)
  <2>1. ReapReason(l) \in Reasons \ {"handoff"}
    BY DEF ReapReason, Reasons
  <2> QED BY <1>2, <1>5, <2>1 DEF Reap, StillExpired
<1>6. CASE UNCHANGED rows
  BY <1>6 DEF RowChange
<1>7. CASE /\ ~(HolderRenew(l) /\ Active(l))
           /\ ~(HolderTerminate(l) /\ Releasable(l))
           /\ ~(Reap(l) /\ StillExpired(l))
           /\ ~(\E why \in {"normal", "forced"} : Release(l, why))
  <2>1. UNCHANGED rows
    BY <1>7 DEF LeaseStep, HolderRenew, Renewable, HolderHandedOff, HolderExit, HolderTerminate,
                HolderKilled, Reap, OfferHandoff
  <2> QED BY <1>6, <2>1
<1> QED BY <1>1, <1>3, <1>4, <1>5, <1>7

LEMMA EffectRowChange ==
    ASSUME IInv, NEW e \in Effects, EffectStep(e), NEW k \in Leases PROVE RowChange(k)
<1>0. TypeOK
  BY DEF IInv
<1>1. ASSUME NEW l \in Leases, BeginEffect(e, l) PROVE RowChange(k)
  <2>1. rows' = [rows EXCEPT ![l] = [rows[l] EXCEPT !.fence = e]]
    BY <1>0, <1>1 DEF BeginEffect, TypeOK
  <2>2. Active(l) /\ rows[l].fence = None
    BY <1>1 DEF BeginEffect, Admissible
  <2>3. RowChange(l)
    BY <1>0, <2>1, <2>2 DEF RowChange, Reserved, TypeOK
  <2> QED BY <1>0, <2>1, <2>3, OneRowChange
<1>2. CASE FinishEffect(e)
  <2> DEFINE l == writing[e]
  <2>1. l \in Leases /\ Active(l) /\ rows[l].fence = e
    BY <1>2 DEF FinishEffect, IInv, TypeOK, WriterExclusive
  <2>2. rows' = [rows EXCEPT ![l] = [rows[l] EXCEPT !.fence = None]]
    BY <1>0, <1>2, <2>1 DEF FinishEffect, OwnFence, TypeOK
  <2>3. RowChange(l)
    BY <1>0, <2>1, <2>2 DEF RowChange, Retired, TypeOK
  <2> QED BY <1>0, <2>1, <2>2, <2>3, OneRowChange
<1>3. CASE ExecutorDies(e)
  BY <1>3 DEF ExecutorDies, RowChange
<1> QED BY <1>1, <1>2, <1>3 DEF EffectStep

LEMMA HandoffRowChange ==
    ASSUME IInv, AcceptHandoff, NEW k \in Leases PROVE RowChange(k)
<1>0. PICK o, at : o = accepting.offer /\ at = accepting.at
  OBVIOUS
<1> DEFINE old == o.lease
           s   == rows[old].surface
<1>1. old \in Leases /\ Active(old) /\ rows[old].fence = None
  BY <1>0, AcceptTyped DEF Releasable, IInv
<1>2. PICK n \in Fresh, now \in Nat :
         /\ now >= at
         /\ rows' = [rows EXCEPT ![old] = Closed(@, "handoff"),
                                 ![n] = NewRow(s, o.to, "remote_heartbeat", o.ttl, now)]
  BY <1>0, AcceptTyped DEF IInv
<1>3. n \in Leases /\ rows[n].st = "free" /\ n # old
  BY <1>1, <1>2 DEF Fresh, Active
<1>4. /\ rows'[old] = Closed(rows[old], "handoff")
      /\ rows'[n] = NewRow(s, o.to, "remote_heartbeat", o.ttl, now)
      /\ \A l \in Leases \ {old, n} : rows'[l] = rows[l]
  BY <1>1, <1>2, <1>3 DEF IInv, TypeOK
<1>5. RowChange(n)
  BY <1>3, <1>4 DEF RowChange, Granted, NewRow
<1>6. HandedOver(old)
  <2>1. at \in Nat /\ o.ttl \in Nat
    BY <1>0, AcceptTyped DEF AcceptHandoff, IInv, TypeOK, Accept
  <2>2. rows'[n].expires >= at + o.ttl
    BY <1>2, <1>4, <2>1 DEF NewRow
  <2>3. /\ rows'[n].st = "active" /\ rows'[n].surface = s /\ rows'[n].agent = o.to
    BY <1>4 DEF NewRow
  <2>4. accepting # None /\ o \notin offers'
    BY <1>0 DEF AcceptHandoff
  <2> QED BY <1>0, <1>3, <2>2, <2>3, <2>4 DEF HandedOver
<1>7. RowChange(old)
  BY <1>1, <1>4, <1>6 DEF RowChange, Ended, Reasons
<1> QED BY <1>4, <1>5, <1>7 DEF RowChange

LEMMA NextRowChange ==
    ASSUME IInv, [Next]_vars, NEW k \in Leases PROVE RowChange(k)
<1>1. CASE \E r \in Requests : RequestStep(r)
  BY <1>1, RequestRowChange
<1>2. CASE \E l \in Leases : LeaseStep(l)
  BY <1>2, LeaseRowChange
<1>3. CASE \E e \in Effects : EffectStep(e)
  BY <1>3, EffectRowChange
<1>4. CASE AcceptHandoff
  BY <1>4, HandoffRowChange
<1>5. CASE UNCHANGED rows
  BY <1>5 DEF RowChange
<1>6. CASE \/ \E o \in offers : AcceptBegins(o) \/ ExpireOffer(o)
           \/ AcceptFails \/ ExpireStale \/ ReaperScan \/ NodeCrash \/ Tick \/ UNCHANGED vars
  BY <1>5, <1>6 DEF AcceptBegins, AcceptFails, ExpireOffer, ExpireStale, ReaperScan, NodeCrash, Tick, vars
<1> QED BY <1>1, <1>2, <1>3, <1>4, <1>6 DEF Next, Step

-----------------------------------------------------------------------------
(* The action properties *)

\* A released row never changes again.
THEOREM ReleaseIsFinal == Spec => ReleasedIsFinal
<1>1. ASSUME IInv, [Next]_vars, NEW l \in Leases, rows[l].st = "closed"
      PROVE  rows'[l] = rows[l]
  <2>1. RowChange(l)
    BY <1>1, NextRowChange
  <2> QED BY <1>1, <2>1 DEF RowChange, Granted, Prolonged, Ended, Reserved, Retired, Active
<1>2. IInv /\ [Next]_vars => [\A l \in Leases : rows[l].st = "closed" => rows'[l] = rows[l]]_vars
  BY <1>1
<1> QED BY <1>2, Inductive, PTL DEF Spec, ReleasedIsFinal

\* No release by deadline takes a lease whose heartbeat came first.
THEOREM HeartbeatsWin == Spec => HeartbeatWins
<1> DEFINE P == \A l \in Leases :
                   /\ Active(l) /\ rows'[l].st = "closed"
                   /\ rows'[l].reason \in {"reaped_remote_ttl", "reaped_local_ttl"}
                   => rows[l].expires < clock
<1>1. ASSUME IInv, [Next]_vars, NEW l \in Leases, Active(l), rows'[l].st = "closed",
             rows'[l].reason \in {"reaped_remote_ttl", "reaped_local_ttl"}
      PROVE  rows[l].expires < clock
  <2>1. RowChange(l) /\ rows[l] \in Row
    BY <1>1, NextRowChange DEF IInv, TypeOK
  <2>2. Ended(l)
    BY <1>1, <2>1 DEF RowChange, Granted, Prolonged, Reserved, Retired, Active, Row
  <2>3. PICK why \in Reasons :
           /\ rows'[l] = Closed(rows[l], why)
           /\ why \in {"reaped_remote_ttl", "reaped_local_ttl"} => rows[l].expires < clock
    BY <2>2 DEF Ended
  <2>4. rows'[l].reason = why
    BY <2>1, <2>3 DEF Closed, Row
  <2> QED BY <1>1, <2>3, <2>4
<1>2. IInv /\ [Next]_vars => [P]_vars
  BY <1>1
<1> QED BY <1>2, Inductive, PTL DEF Spec, HeartbeatWins

\* A reserved row stays with its lease until its own effect finishes.
THEOREM FencesHold == Spec => FenceHolds
<1> DEFINE P == \A l \in Leases : Active(l) /\ rows[l].fence # None =>
                   /\ rows'[l].st = "active"
                   /\ \/ rows'[l].fence = rows[l].fence
                      \/ rows'[l].fence = None /\ writing[rows[l].fence] = l
<1>1. ASSUME IInv, [Next]_vars, NEW l \in Leases, Active(l), rows[l].fence # None
      PROVE  /\ rows'[l].st = "active"
             /\ \/ rows'[l].fence = rows[l].fence
                \/ rows'[l].fence = None /\ writing[rows[l].fence] = l
  <2>1. RowChange(l) /\ rows[l] \in Row
    BY <1>1, NextRowChange DEF IInv, TypeOK
  <2> QED BY <1>1, <2>1 DEF RowChange, Granted, Prolonged, Ended, Reserved, Retired, Active, Row
<1>2. IInv /\ [Next]_vars => [P]_vars
  BY <1>1
<1> QED BY <1>2, Inductive, PTL DEF Spec, FenceHolds

\* A handoff passes the surface to the recipient of an offer that is pending and
\* was in time when HandoffServer looked at it, uses the offer up, and gives the
\* recipient a lease that runs at least from that look, however long the accept
\* has waited for the row since.
THEOREM HandoffsReachRecipient == Spec => HandoffReachesRecipient
<1> DEFINE P == \A l \in Leases :
                   Active(l) /\ rows'[l].st = "closed" /\ rows'[l].reason = "handoff" =>
                      LET o == accepting.offer IN
                      /\ accepting # None /\ o.lease = l
                      /\ o \in offers /\ o \notin offers'
                      /\ accepting.at < o.until
                      /\ \E m \in Leases :
                            /\ rows[m].st = "free" /\ rows'[m].st = "active"
                            /\ rows'[m].surface = rows[l].surface /\ rows'[m].agent = o.to
                            /\ rows'[m].expires >= accepting.at + o.ttl
<1>1. ASSUME IInv, [Next]_vars, NEW l \in Leases, Active(l), rows'[l].st = "closed",
             rows'[l].reason = "handoff"
      PROVE  HandedOver(l)
  <2>1. RowChange(l) /\ rows[l] \in Row
    BY <1>1, NextRowChange DEF IInv, TypeOK
  <2>2. Ended(l)
    BY <1>1, <2>1 DEF RowChange, Granted, Prolonged, Reserved, Retired, Active, Row
  <2>3. PICK why \in Reasons :
           /\ rows'[l] = Closed(rows[l], why)
           /\ why = "handoff" => HandedOver(l)
    BY <2>2 DEF Ended
  <2>4. rows'[l].reason = why
    BY <2>1, <2>3 DEF Closed, Row
  <2> QED BY <1>1, <2>3, <2>4
<1>2. IInv /\ AcceptSound /\ [Next]_vars => [P]_vars
  BY <1>1 DEF HandedOver, AcceptSound
<1> QED BY <1>2, Inductive, AcceptStaysSound, PTL DEF Spec, HandoffReachesRecipient
=============================================================================
