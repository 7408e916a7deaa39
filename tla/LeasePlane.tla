----------------------------- MODULE LeasePlane -----------------------------
(***************************************************************************)
(* The durable surface-lease table of the Elixir lease plane and every     *)
(* actor that writes it: concurrent acquire transactions, heartbeats,      *)
(* releases, the TTL reaper, LeaseHolder processes, handoffs, and the      *)
(* effect reservations that pin a row while a file write is in progress.   *)
(*                                                                         *)
(* The grain is one SQL statement of an acquire transaction (READ          *)
(* COMMITTED), and one whole transaction for operations that touch a       *)
(* single row: such a transaction waits for the row lock, re-evaluates its *)
(* WHERE clause on the committed row, and commits.  Rows are only changed  *)
(* by a commit; tx[r].closed and tx[r].new are what transaction r has      *)
(* written and not committed, and are the locks the others wait for.       *)
(***************************************************************************)
EXTENDS Integers, FiniteSets

CONSTANTS
    Surfaces,       \* surface ids
    LocalSurfaces,  \* those whose acquire takes the LeaseHolder path
    Agents,         \* holder_agent_uuid values
    Leases,         \* pool of lease ids gen_random_uuid() draws from
    Requests,       \* request processes, one database connection each
    Effects,        \* effect ids of the file-write executors
    Ttls,           \* original_ttl_s values, in clock ticks
    OfferWindow,    \* handoff_offer_window_s, in clock ticks
    MaxDepth,       \* acquire_step_nil gives up when depth > MaxDepth (3)
    MaxTime,        \* bound: the clock stops here
    MaxOffers,      \* bound: pending handoff offers
    None            \* SQL NULL, Elixir nil

ASSUME LocalSurfacesAssumption == LocalSurfaces \subseteq Surfaces
ASSUME TtlsAssumption          == Ttls \subseteq Nat \ {0}
ASSUME BoundsAssumption        == /\ OfferWindow \in Nat
                                  /\ MaxDepth \in Nat
                                  /\ MaxTime \in Nat
                                  /\ MaxOffers \in Nat
ASSUME NoneAssumption          == None \notin Surfaces \cup Agents \cup Leases \cup Effects

VARIABLES
    rows,     \* lease_plane.surface_leases, the committed rows by lease id
    tx,       \* the transaction (or its after-commit work) each request runs
    holder,   \* the LeaseHolder registered for a lease id
    sweep,    \* rows a reaper pass has read and not yet tried to release
    offers,   \* HandoffServer state.pending
    accepting, \* the accept HandoffServer is in the middle of
    writing,  \* the lease whose reservation an executor believes it holds
    clock     \* the database wall clock

vars == <<rows, tx, holder, sweep, offers, accepting, writing, clock>>

Kinds   == {"local_beam", "remote_heartbeat"}
Reasons == {"normal", "forced", "down_local", "reaped_local_ttl",
            "reaped_remote_ttl", "reaped_after_supervisor_failed", "handoff"}

Row == [st      : {"free", "active", "closed"},
        surface : Surfaces \cup {None},
        agent   : Agents \cup {None},
        kind    : Kinds \cup {"none"},
        ttl     : Nat,
        expires : Nat,
        fence   : Effects \cup {None},
        reason  : Reasons \cup {"none"}]

FreeRow == [st |-> "free", surface |-> None, agent |-> None, kind |-> "none",
            ttl |-> 0, expires |-> 0, fence |-> None, reason |-> "none"]

NewRow(s, a, k, t, at) ==
    [st |-> "active", surface |-> s, agent |-> a, kind |-> k, ttl |-> t,
     expires |-> at + t, fence |-> None, reason |-> "none"]

Closed(row, why) == [row EXCEPT !.st = "closed", !.reason = why]

Tx == [pc      : {"idle", "close", "read", "touch", "insert", "commit", "spawn", "renew"},
       surface : Surfaces \cup {None},
       agent   : Agents \cup {None},
       kind    : Kinds \cup {"none"},
       ttl     : Nat,
       now     : Nat,                     \* now(): the time of BEGIN
       depth   : Nat,
       closed  : SUBSET Leases,           \* rows closed, uncommitted
       seen    : Leases \cup {None},      \* the existing row it read
       new     : Leases \cup {None}]      \* row inserted, uncommitted

Idle == [pc |-> "idle", surface |-> None, agent |-> None, kind |-> "none",
         ttl |-> 0, now |-> 0, depth |-> 0, closed |-> {},
         seen |-> None, new |-> None]

Offer == [lease : Leases, to : Agents, ttl : Ttls, until : Nat]

\* an accept: the offer, and when it was found not to have expired
Accept == [offer : Offer, at : Nat]

Init ==
    /\ rows    = [l \in Leases |-> FreeRow]
    /\ tx      = [r \in Requests |-> Idle]
    /\ holder  = [l \in Leases |-> "none"]
    /\ sweep   = {}
    /\ offers  = {}
    /\ accepting = None
    /\ writing = [e \in Effects |-> None]
    /\ clock   = 0

-----------------------------------------------------------------------------
(* State formulae *)

Active(l)   == rows[l].st = "active"
ActiveOn(s) == {l \in Leases : Active(l) /\ rows[l].surface = s}

\* A row some other transaction has closed and not committed: a statement
\* that wants to update it waits.
LockedBy(r, l)      == l \in tx[r].closed
Locked(l)           == \E r \in Requests : LockedBy(r, l)
LockedByOther(r, l) == \E q \in Requests \ {r} : LockedBy(q, l)

\* lease_id values no committed or uncommitted row uses
Fresh == {l \in Leases : rows[l].st = "free" /\ \A r \in Requests : tx[r].new # l}

KindFor(s) == IF s \in LocalSurfaces THEN "local_beam" ELSE "remote_heartbeat"

\* What release may close: `released_at IS NULL`, and the guard_effect_custody
\* trigger rejects the update of a reserved row.
\* Fault: the trigger is missing.
Releasable_NoTrigger(l) == Active(l) /\ ~Locked(l)
Releasable(l)           == Active(l) /\ ~Locked(l) /\ rows[l].fence = None

-----------------------------------------------------------------------------
(* Repo.acquire: one action per statement *)

AcquireBegin(r, s, a, t) ==
    /\ tx[r].pc = "idle"
    /\ tx' = [tx EXCEPT ![r] = [Idle EXCEPT !.pc = "close", !.surface = s,
                                !.agent = a, !.kind = KindFor(s), !.ttl = t,
                                !.now = clock]]
    /\ UNCHANGED <<rows, holder, sweep, offers, accepting, writing, clock>>

\* The rows release_expired_remote_for_acquire matches.
\* Fault: expires_at is not tested.
ExpiredRemote_AnyAge(r) ==
    {l \in ActiveOn(tx[r].surface) : rows[l].fence = None /\ rows[l].kind = "remote_heartbeat"}
ExpiredRemote(r) ==
    {l \in ActiveOn(tx[r].surface) : /\ rows[l].fence = None
                                     /\ rows[l].kind = "remote_heartbeat"
                                     /\ rows[l].expires < tx[r].now}

CloseExpired(r) ==
    /\ tx[r].pc = "close"
    /\ \A l \in ExpiredRemote(r) : ~LockedByOther(r, l)
    /\ tx' = [tx EXCEPT ![r].pc = "read", ![r].closed = @ \cup ExpiredRemote(r)]
    /\ UNCHANGED <<rows, holder, sweep, offers, accepting, writing, clock>>

\* The SELECT of maybe_existing_active, in the transaction's own view
ActiveSeenBy(r) == ActiveOn(tx[r].surface) \ tx[r].closed

ReadFree(r) ==
    /\ tx[r].pc = "read"
    /\ ActiveSeenBy(r) = {}
    /\ tx' = IF tx[r].depth > MaxDepth
             THEN [tx EXCEPT ![r] = Idle]                      \* race_storm
             ELSE [tx EXCEPT ![r].pc = "insert"]
    /\ UNCHANGED <<rows, holder, sweep, offers, accepting, writing, clock>>

\* effect_in_progress, or held_by_other with its conflict event
ReadRefused(r) ==
    /\ tx[r].pc = "read"
    /\ \E l \in ActiveSeenBy(r) : rows[l].fence # None \/ rows[l].agent # tx[r].agent
    /\ tx' = [tx EXCEPT ![r] = Idle]
    /\ UNCHANGED <<rows, holder, sweep, offers, accepting, writing, clock>>

\* The transaction commits with {:ok, l, _}.  On a local surface start_holder
\* goes on to spawn_holder; otherwise the request is answered.
Answered(r, l) ==
    IF tx[r].surface \in LocalSurfaces THEN [Idle EXCEPT !.pc = "spawn", !.seen = l]
                                       ELSE Idle

\* The row is the caller's: answered at once, or touched first when the caller
\* sent substrate fields, which nothing else looks at.
ReadOwn(r) ==
    /\ tx[r].pc = "read"
    /\ \E l \in ActiveSeenBy(r) :
          /\ rows[l].fence = None
          /\ rows[l].agent = tx[r].agent
          /\ \/ tx' = [tx EXCEPT ![r] = Answered(r, l)]
             \/ tx' = [tx EXCEPT ![r].pc = "touch", ![r].seen = l]
    /\ UNCHANGED <<rows, holder, sweep, offers, accepting, writing, clock>>

\* update_substrate_on_idempotent; when the row is gone the insert restarts
\* at depth 0 with the parameters of the existing row (p_from_existing).
Touch(r) ==
    LET l == tx[r].seen IN
    /\ tx[r].pc = "touch"
    /\ ~LockedByOther(r, l)
    /\ tx' = [tx EXCEPT ![r] = IF Active(l)
                               THEN Answered(r, l)
                               ELSE [@ EXCEPT !.pc = "insert", !.depth = 0, !.seen = None,
                                              !.kind = rows[l].kind, !.ttl = rows[l].ttl]]
    /\ UNCHANGED <<rows, holder, sweep, offers, accepting, writing, clock>>

\* The unique index waits for a transaction that has closed or inserted a row
\* of this surface.
\* Fault: the index is not unique over uncommitted rows.
IndexFree_NoWait(r) == TRUE
IndexFree(r) ==
    \A q \in Requests \ {r} :
        tx[q].surface = tx[r].surface => tx[q].closed = {} /\ tx[q].new = None

Insert(r) ==
    /\ tx[r].pc = "insert"
    /\ IndexFree(r)
    /\ ActiveSeenBy(r) = {}
    /\ \E l \in Fresh : tx' = [tx EXCEPT ![r].pc = "commit", ![r].new = l]
    /\ UNCHANGED <<rows, holder, sweep, offers, accepting, writing, clock>>

\* unique_violation: back to the savepoint, then recover_race
InsertConflict(r) ==
    /\ tx[r].pc = "insert"
    /\ IndexFree(r)
    /\ ActiveSeenBy(r) # {}
    /\ tx' = [tx EXCEPT ![r].pc = "close", ![r].depth = @ + 1]
    /\ UNCHANGED <<rows, holder, sweep, offers, accepting, writing, clock>>

Commit(r) ==
    /\ tx[r].pc = "commit"
    /\ rows' = [l \in Leases |->
                  CASE l \in tx[r].closed -> Closed(rows[l], "reaped_remote_ttl")
                    [] l = tx[r].new      -> NewRow(tx[r].surface, tx[r].agent,
                                                    tx[r].kind, tx[r].ttl, tx[r].now)
                    [] OTHER              -> rows[l]]
    /\ tx' = [tx EXCEPT ![r] = Answered(r, tx[r].new)]
    /\ UNCHANGED <<holder, sweep, offers, accepting, writing, clock>>

\* The connection is lost or a statement times out: everything uncommitted is
\* rolled back.  In "spawn" the request process dies after its commit.
TxAbort(r) ==
    /\ tx[r].pc # "idle"
    /\ tx' = [tx EXCEPT ![r] = Idle]
    /\ UNCHANGED <<rows, holder, sweep, offers, accepting, writing, clock>>

-----------------------------------------------------------------------------
(* LeaseSupervisor and LeaseHolder.  holder[l] is "live", "told" (the       *)
(* handoff_released cast is in its mailbox) or "exiting" (an EXIT signal    *)
(* has stopped it and terminate/2 has still to run; it stays registered).   *)

SpawnHolder(r) ==
    /\ tx[r].pc = "spawn"
    /\ tx' = [tx EXCEPT ![r] = Idle]
    /\ holder' = [holder EXCEPT ![tx[r].seen] =
                     IF @ = "none" THEN "live" ELSE @]         \* already_started
    /\ UNCHANGED <<rows, sweep, offers, accepting, writing, clock>>

\* The supervisor refuses the child: the row is released, as far as it can be.
SpawnFailed(r) ==
    LET l == tx[r].seen IN
    /\ tx[r].pc = "spawn"
    /\ holder[l] = "none"
    /\ ~Locked(l)
    /\ tx' = [tx EXCEPT ![r] = Idle]
    /\ rows' = IF Releasable(l)
               THEN [rows EXCEPT ![l] = Closed(@, "reaped_after_supervisor_failed")]
               ELSE rows
    /\ UNCHANGED <<holder, sweep, offers, accepting, writing, clock>>

\* The UPDATE of Repo.renew.  Fault: it does not test released_at.
Renewable_AnyRow(l) == rows[l].st # "free"
Renewable(l)        == Active(l)

\* expires_at = now() + original_ttl_s, where now() is the time of BEGIN
Renewed(l, now) == [rows EXCEPT ![l].expires = now + rows[l].ttl]

\* A renewal that answers not_found stops the holder.
\* Fault: it is taken for a transient error and tried again at the next tick.
HolderAfterNotFound_Retries(l) == holder[l]
HolderAfterNotFound(l)         == "none"

\* LeaseHolder :tick and :renew
HolderRenew(l) ==
    /\ holder[l] \in {"live", "told"}
    /\ ~Locked(l)
    /\ rows' = IF Renewable(l) THEN Renewed(l, clock) ELSE rows
    /\ holder' = IF Renewable(l) THEN holder
                 ELSE [holder EXCEPT ![l] = HolderAfterNotFound(l)]
    /\ UNCHANGED <<tx, sweep, offers, accepting, writing, clock>>

HolderHandedOff(l) ==
    /\ holder[l] = "told"
    /\ holder' = [holder EXCEPT ![l] = "none"]
    /\ UNCHANGED <<rows, tx, sweep, offers, accepting, writing, clock>>

HolderExit(l) ==
    /\ holder[l] \in {"live", "told"}
    /\ holder' = [holder EXCEPT ![l] = "exiting"]
    /\ UNCHANGED <<rows, tx, sweep, offers, accepting, writing, clock>>

\* terminate/2: Repo.release(l, "down_local"), whatever it answers
HolderTerminate(l) ==
    /\ holder[l] = "exiting"
    /\ ~Locked(l)
    /\ holder' = [holder EXCEPT ![l] = "none"]
    /\ rows' = IF Releasable(l) THEN [rows EXCEPT ![l] = Closed(@, "down_local")]
                                ELSE rows
    /\ UNCHANGED <<tx, sweep, offers, accepting, writing, clock>>

\* Process.exit(pid, :kill) bypasses terminate/2
HolderKilled(l) ==
    /\ holder[l] # "none"
    /\ holder' = [holder EXCEPT ![l] = "none"]
    /\ UNCHANGED <<rows, tx, sweep, offers, accepting, writing, clock>>

-----------------------------------------------------------------------------
(* Heartbeats and releases that reach the table directly *)

RenewBegin(r, l) ==
    /\ tx[r].pc = "idle"
    /\ Active(l)
    /\ tx' = [tx EXCEPT ![r] = [Idle EXCEPT !.pc = "renew", !.seen = l, !.now = clock]]
    /\ UNCHANGED <<rows, holder, sweep, offers, accepting, writing, clock>>

Renew(r) ==
    LET l == tx[r].seen IN
    /\ tx[r].pc = "renew"
    /\ ~Locked(l)
    /\ rows' = IF Renewable(l) THEN Renewed(l, tx[r].now) ELSE rows
    /\ tx' = [tx EXCEPT ![r] = Idle]
    /\ UNCHANGED <<holder, sweep, offers, accepting, writing, clock>>

\* UnitaresLeasePlane.release and force_release: through the LeaseHolder when
\* one is registered, which then stops.
Release(l, why) ==
    /\ Releasable(l)
    /\ holder[l] # "exiting"
    /\ rows' = [rows EXCEPT ![l] = Closed(@, why)]
    /\ holder' = [holder EXCEPT ![l] = "none"]
    /\ UNCHANGED <<tx, sweep, offers, accepting, writing, clock>>

-----------------------------------------------------------------------------
(* The reaper: one read of the expired rows, then one update per row *)

\* expired_active_leases.  Fault: local rows are left to their holders.
ExpiredRows_RemoteOnly == {l \in Leases : /\ Active(l) /\ rows[l].fence = None
                                          /\ rows[l].expires < clock
                                          /\ rows[l].kind = "remote_heartbeat"}
ExpiredRows == {l \in Leases : /\ Active(l) /\ rows[l].fence = None
                               /\ rows[l].expires < clock}

ReaperScan ==
    /\ sweep = {}
    /\ ExpiredRows # {}
    /\ sweep' = ExpiredRows
    /\ UNCHANGED <<rows, tx, holder, offers, accepting, writing, clock>>

\* release_if_expired.  Fault: the expiry is not tested again.
StillExpired_FromScan(l) == Releasable(l)
StillExpired(l)          == Releasable(l) /\ rows[l].expires < clock

\* release_reason
\* Fault: a reason the table's CHECK constraint does not list.
ReapReason_Unlisted(l) == "expired"
ReapReason(l) ==
    IF rows[l].kind = "remote_heartbeat" THEN "reaped_remote_ttl"
    ELSE IF holder[l] # "none" THEN "reaped_local_ttl"
    ELSE "reaped_after_supervisor_failed"

Reap(l) ==
    /\ l \in sweep
    /\ ~Locked(l)
    /\ sweep' = sweep \ {l}
    /\ rows' = IF StillExpired(l) THEN [rows EXCEPT ![l] = Closed(@, ReapReason(l))]
                                  ELSE rows
    /\ UNCHANGED <<tx, holder, offers, accepting, writing, clock>>

-----------------------------------------------------------------------------
(* HandoffServer.  One process serves offers, accepts and expiries, so      *)
(* nothing happens to an offer while an accept waits for the old row's lock. *)

OfferHandoff(l, a, t) ==
    /\ accepting = None
    /\ Active(l)
    /\ Cardinality(offers) < MaxOffers
    /\ offers' = offers \cup {[lease |-> l, to |-> a, ttl |-> t,
                               until |-> clock + OfferWindow]}
    /\ UNCHANGED <<rows, tx, holder, sweep, accepting, writing, clock>>

\* Fault: an expired offer is still accepted.
Acceptable_AnyAge(o) == TRUE
\* not expired?(pending)
Acceptable(o) == clock < o.until

\* accept_pending looks at the deadline, and only then opens a transaction.
AcceptBegins(o) ==
    /\ accepting = None
    /\ Acceptable(o)
    /\ accepting' = [offer |-> o, at |-> clock]
    /\ UNCHANGED <<rows, tx, holder, sweep, offers, writing, clock>>

\* The recipient's row, with the now() of a BEGIN, and the old row's release.
ToRecipient(o, now) == NewRow(rows[o.lease].surface, o.to, "remote_heartbeat", o.ttl, now)
Replacing(o, l, now) == [rows EXCEPT ![o.lease] = Closed(@, "handoff"),
                                     ![l] = ToRecipient(o, now)]

\* The transaction has locked the old row, however long after the look at the
\* deadline, and replaces it; the holder of the old row is told.
AcceptHandoff ==
    LET o == accepting.offer IN
    /\ accepting # None
    /\ Releasable(o.lease)
    /\ \E l \in Fresh, now \in accepting.at .. clock : rows' = Replacing(o, l, now)
    /\ holder' = [holder EXCEPT ![o.lease] = IF @ = "live" THEN "told" ELSE @]
    /\ offers' = offers \ {o}
    /\ accepting' = None
    /\ UNCHANGED <<tx, sweep, writing, clock>>

\* The row is released or reserved by now, or the database fails: the answer is
\* an error and the offer stays.
AcceptFails ==
    /\ accepting # None
    /\ accepting' = None
    /\ UNCHANGED <<rows, tx, holder, sweep, offers, writing, clock>>

\* The :expire timer, an accept that comes too late, and the periodic sweep
ExpireOffer(o) ==
    /\ accepting = None
    /\ clock >= o.until
    /\ offers' = offers \ {o}
    /\ UNCHANGED <<rows, tx, holder, sweep, accepting, writing, clock>>

ExpireStale ==
    /\ accepting = None
    /\ offers' = {o \in offers : clock < o.until}
    /\ offers' # offers
    /\ UNCHANGED <<rows, tx, holder, sweep, accepting, writing, clock>>

-----------------------------------------------------------------------------
(* Effect custody: the durable reservation of a file write *)

\* The UPDATE of begin_effect_custody, under the row lock.
\* Fault: admission does not test the expiry, or an earlier reservation.
Admissible_Expired(l) == Active(l) /\ ~Locked(l) /\ rows[l].fence = None
Admissible_Fenced(l)  == Active(l) /\ ~Locked(l) /\ rows[l].expires > clock
Admissible(l)         == /\ Active(l) /\ ~Locked(l)
                         /\ rows[l].expires > clock
                         /\ rows[l].fence = None

BeginEffect(e, l) ==
    /\ writing[e] = None
    /\ Admissible(l)
    /\ rows' = [rows EXCEPT ![l].fence = e]
    /\ writing' = [writing EXCEPT ![e] = l]
    /\ UNCHANGED <<tx, holder, sweep, offers, accepting, clock>>

\* finish_effect_custody clears only its own reservation.
OwnFence(e, l) == Active(l) /\ rows[l].fence = e

FinishEffect(e) ==
    LET l == writing[e] IN
    /\ l # None
    /\ ~Locked(l)
    /\ rows' = IF OwnFence(e, l) THEN [rows EXCEPT ![l].fence = None] ELSE rows
    /\ writing' = [writing EXCEPT ![e] = None]
    /\ UNCHANGED <<tx, holder, sweep, offers, accepting, clock>>

\* The executor dies: nothing clears the reservation.
ExecutorDies(e) ==
    /\ writing[e] # None
    /\ writing' = [writing EXCEPT ![e] = None]
    /\ UNCHANGED <<rows, tx, holder, sweep, offers, accepting, clock>>

-----------------------------------------------------------------------------
(* The BEAM node restarts: processes and HandoffServer state are lost, rows *)
(* stay, and an operating-system write already issued may still be running. *)
NodeCrash ==
    /\ tx'     = [r \in Requests |-> Idle]
    /\ holder' = [l \in Leases |-> "none"]
    /\ sweep'  = {}
    /\ offers' = {}
    /\ accepting' = None
    /\ UNCHANGED <<rows, writing, clock>>

Tick ==
    /\ clock < MaxTime
    /\ clock' = clock + 1
    /\ UNCHANGED <<rows, tx, holder, sweep, offers, accepting, writing>>

RequestStep(r) ==
    \/ \E s \in Surfaces, a \in Agents, t \in Ttls : AcquireBegin(r, s, a, t)
    \/ CloseExpired(r)
    \/ ReadFree(r)
    \/ ReadRefused(r)
    \/ ReadOwn(r)
    \/ Touch(r)
    \/ Insert(r)
    \/ InsertConflict(r)
    \/ Commit(r)
    \/ SpawnHolder(r)
    \/ SpawnFailed(r)
    \/ \E l \in Leases : RenewBegin(r, l)
    \/ Renew(r)
    \/ TxAbort(r)

LeaseStep(l) ==
    \/ HolderRenew(l)
    \/ HolderHandedOff(l)
    \/ HolderExit(l)
    \/ HolderTerminate(l)
    \/ HolderKilled(l)
    \/ \E why \in {"normal", "forced"} : Release(l, why)
    \/ Reap(l)
    \/ \E a \in Agents, t \in Ttls : OfferHandoff(l, a, t)

EffectStep(e) ==
    \/ \E l \in Leases : BeginEffect(e, l)
    \/ FinishEffect(e)
    \/ ExecutorDies(e)

\* everything but a restart of the node
Step ==
    \/ \E r \in Requests : RequestStep(r)
    \/ \E l \in Leases : LeaseStep(l)
    \/ \E e \in Effects : EffectStep(e)
    \/ \E o \in offers : AcceptBegins(o) \/ ExpireOffer(o)
    \/ AcceptHandoff
    \/ AcceptFails
    \/ ExpireStale
    \/ ReaperScan
    \/ Tick

Next == Step \/ NodeCrash

Spec == Init /\ [][Next]_vars

(* Only the server's own periodic work is fair: the reaper runs every       *)
(* reaper_interval_ms, a LeaseHolder re-arms its tick and runs terminate/2, *)
(* and a transaction that stalls is rolled back by its connection's         *)
(* timeout.  The reaper's release waits in the queue of the row lock, which *)
(* transactions that keep taking the lock do not overtake for ever (SF).    *)
(* Clients and executors promise nothing.  A node that restarts for ever    *)
(* reaps nothing, so liveness is stated of a node that stays up; what a     *)
(* restart leaves behind, Step reaches by aborts and killed holders.        *)
Fairness ==
    /\ WF_vars(Tick)
    /\ WF_vars(ReaperScan)
    /\ \A l \in Leases : /\ SF_vars(Reap(l))
                         /\ WF_vars(HolderRenew(l))
                         /\ WF_vars(HolderTerminate(l))
    /\ \A r \in Requests : WF_vars(TxAbort(r))

FairSpec == Init /\ [][Step]_vars /\ Fairness

-----------------------------------------------------------------------------
(* Properties *)

TypeOK ==
    /\ rows \in [Leases -> Row]
    /\ tx \in [Requests -> Tx]
    /\ holder \in [Leases -> {"none", "live", "told", "exiting"}]
    /\ sweep \in SUBSET Leases
    /\ offers \in SUBSET Offer
    /\ accepting \in Accept \cup {None}
    /\ writing \in [Effects -> Leases \cup {None}]
    /\ clock \in Nat

\* Two acquires, a handoff and a reaper may race on one surface, but no surface
\* ever has two unreleased rows (exactly-one-winner, Repo.acquire).
AtMostOneActive ==
    \A l, m \in Leases :
        Active(l) /\ Active(m) /\ rows[l].surface = rows[m].surface => l = m

\* While an admitted executor may still write, its surface stays with the very
\* lease that admitted it, and no other executor writes there
\* (begin_effect_custody, guard_effect_custody).
WriterExclusive ==
    \A e \in Effects : writing[e] # None =>
        /\ Active(writing[e])
        /\ rows[writing[e]].fence = e
        /\ \A f \in Effects \ {e} :
              writing[f] # None => rows[writing[f]].surface # rows[writing[e]].surface

\* A reservation survives node crashes, lost connections and expiry: whatever
\* any other actor does, a fenced row only changes by the effect's own finish.
FenceHolds ==
    [][\A l \in Leases : Active(l) /\ rows[l].fence # None =>
          /\ rows'[l].st = "active"
          /\ \/ rows'[l].fence = rows[l].fence
             \/ rows'[l].fence = None /\ writing[rows[l].fence] = l]_vars

\* A TTL release decided from a stale read, or by an acquire that began before
\* the heartbeat, never closes a row whose deadline has not passed (Reaper).
HeartbeatWins ==
    [][\A l \in Leases :
          /\ Active(l) /\ rows'[l].st = "closed"
          /\ rows'[l].reason \in {"reaped_remote_ttl", "reaped_local_ttl"}
          => rows[l].expires < clock]_vars

\* A released row is final: no late heartbeat, holder exit, reaper pass, lost
\* acquire or handoff revives it or rewrites why it was released.
ReleasedIsFinal ==
    [][\A l \in Leases : rows[l].st = "closed" => rows'[l] = rows[l]]_vars

\* A surface whose holder lets go by handoff passes in the same step to the
\* offered recipient, whose lease runs from no earlier than the look at the
\* offer's deadline.  Between that look and this step the accept may have waited
\* for the row past the deadline; the offer was in time when it was looked at, is
\* still pending, and is used up (HandoffServer accept_pending).
HandoffReachesRecipient ==
    [][\A l \in Leases : Active(l) /\ rows'[l].st = "closed" /\ rows'[l].reason = "handoff" =>
          LET o == accepting.offer IN
          /\ accepting # None /\ o.lease = l
          /\ o \in offers /\ o \notin offers'
          /\ accepting.at < o.until
          /\ \E m \in Leases :
                /\ rows[m].st = "free" /\ rows'[m].st = "active"
                /\ rows'[m].surface = rows[l].surface /\ rows'[m].agent = o.to
                /\ rows'[m].expires >= accepting.at + o.ttl]_vars

\* What an acquire transaction has written and not committed stays true of the
\* table until it commits: the rows it closed are still the expired, unreserved
\* rows it matched, no other transaction has closed them too, and the row it
\* inserted will be the only unreleased row of its surface.
PendingWritesSound ==
    \A r \in Requests :
        /\ \A l \in tx[r].closed : /\ Active(l)
                                   /\ rows[l].surface = tx[r].surface
                                   /\ rows[l].fence = None
                                   /\ rows[l].expires < clock
        /\ tx[r].new # None => /\ rows[tx[r].new].st = "free"
                               /\ ActiveOn(tx[r].surface) \subseteq tx[r].closed
        /\ \A q \in Requests \ {r} :
              /\ tx[r].closed \cap tx[q].closed = {}
              /\ tx[r].new # None /\ tx[q].new # None =>
                    tx[r].new # tx[q].new /\ tx[r].surface # tx[q].surface

\* An unreserved lease whose holder stopped renewing does not hold its surface
\* for ever: it is released, or its holder comes back and renews it.
ExpiredEventuallyFreed ==
    \A l \in Leases :
        Active(l) /\ rows[l].fence = None /\ rows[l].expires < clock
        ~> ~Active(l) \/ rows[l].expires >= clock

\* A LeaseHolder whose row was released behind its back (reaper, handoff,
\* forced release) does not keep running: its next tick finds no row.
OrphanHolderStops ==
    \A l \in Leases : holder[l] # "none" /\ rows[l].st = "closed" ~> holder[l] = "none"

=============================================================================
