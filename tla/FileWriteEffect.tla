--------------------------- MODULE FileWriteEffect ---------------------------
(***************************************************************************)
(* A governed file write in execute mode: the request that looks up its    *)
(* idempotency key, acquires the surface, asks governance, is admitted,    *)
(* captures the pre-image, writes, marks, compensates, retires its         *)
(* reservation, records and releases; the watcher that cleans up after a   *)
(* request that died; and the recovery sweep.                              *)
(*                                                                         *)
(* The surface is the one SurfaceCustody promises and LeasePlane           *)
(* implements: executions and outside holders act on it only through the   *)
(* steps of that specification.  Every execution and every outside holder  *)
(* takes the surface at most once, so its name stands for its lease id; a  *)
(* handoff to an outside holder is a Vacate followed by its Take.          *)
(*                                                                         *)
(* The grain is one database statement or transaction, and two steps for a *)
(* file write: the file is torn until the second one.  A database call may *)
(* be applied and acknowledged, applied with the answer lost, or not       *)
(* applied.                                                                *)
(***************************************************************************)
EXTENDS Integers

CONSTANTS
    Execs,      \* POST /v1/effects requests in execute mode, one process each
    Outside,    \* holders that take the surface through /v1/lease and write it
    Effects,    \* effect ids
    Keys,       \* idempotency keys
    Contents,   \* file contents
    EffectOf,   \* effect_id_for: the effect id an execution runs under
    KeyOf,      \* its idempotency key
    ContentOf,  \* the bytes it writes
    Promoted,   \* executions that promote a record_only effect
    Surface,    \* the file's surface id
    Ttl,        \* lease ttl_s, in clock ticks
    MaxTime,    \* bound: the clock stops here
    Absent,     \* the file does not exist
    Torn,       \* the file after a truncated or partial write
    Unreadable, \* pre-image of a file that exists and could not be read
    None

\* Only promotions of one predecessor share an effect id; every other
\* execution generates its own.
ASSUME ExecutionsAssumption ==
    /\ EffectOf \in [Execs -> Effects]
    /\ KeyOf \in [Execs -> Keys]
    /\ ContentOf \in [Execs -> Contents]
    /\ Promoted \subseteq Execs
    /\ \A x, y \in Execs : EffectOf[x] = EffectOf[y] /\ x # y => {x, y} \subseteq Promoted
ASSUME BoundsAssumption == Ttl \in Nat \ {0} /\ MaxTime \in Nat
ASSUME ValuesAssumption ==
    /\ Execs \cap Outside = {}
    /\ None \notin Execs \cup Outside \cup Effects \cup Contents \cup {Absent, Torn, Unreadable}
    /\ {Absent, Torn, Unreadable} \cap Contents = {}
    /\ Absent # Torn /\ Absent # Unreadable /\ Torn # Unreadable
    /\ "admit" \notin Contents \cup {Absent, None}

VARIABLES
    ex,       \* each execution: its process, its watcher and what it leaves behind
    payload,  \* effects.payloads, one row per effect id
    audit,    \* the governed_effect.execute record a key's lookup finds
    file,     \* the bytes on disk
    orphans,  \* rows the recovery scan has read and not yet reconciled
    verdict,  \* what EffectReconcile decided for one of them, not yet written
    custody,  \* the surface's lease, as SurfaceCustody has it
    spent,
    clock

custodyVars == <<custody, spent, clock>>
recoveryVars == <<orphans, verdict>>
vars == <<ex, payload, audit, file, orphans, verdict, custody, spent, clock>>

Grants == Execs \cup Outside

Custody == INSTANCE SurfaceCustody WITH
    Surfaces <- {Surface}, Agents <- Grants, Leases <- Grants, promised <- {}

ASSUME NoGrantAssumption == None \notin Custody!Grant

Busy     == {"acquire", "watch", "veto", "check", "admit", "capture", "preimage", "write",
             "writing", "mark", "restore", "restoring", "tombstone", "quarantine",
             "finish", "record", "disarm", "release"}
Outcomes == {"none", "answered", "governance_blocked", "custody_refused", "persist_failed",
             "promotion_consumed", "not_captured", "committed", "deferred", "retained",
             "rolled_back", "rollback_failed"}
FileStates == Contents \cup {Absent, Torn}

Exec == [pc       : Busy \cup {"start", "done", "dead"},
         outcome  : Outcomes,
         pre      : FileStates \cup {Unreadable, None},
         late     : Contents \cup {"admit", None},  \* still to be carried out for a dead process
         watch    : {"off", "armed", "release", "kept", "failed"},
         admitted : BOOLEAN,                        \* history: its admission committed
         found    : FileStates \cup {None},         \* history: the file it was admitted to
         touched  : BOOLEAN,                        \* history: it opened the file for writing
         wrote    : BOOLEAN]                        \* history: its bytes reached the file

RowStates == {"none", "null", "pending", "tombstoned", "quarantined"}
PayloadRow == [state : RowStates, committed : BOOLEAN, want : Contents \cup {None},
               pre : FileStates \cup {Unreadable, None}]
NoRow == [state |-> "none", committed |-> FALSE, want |-> None, pre |-> None]

Digest(x) == <<ContentOf[x], IF x \in Promoted THEN EffectOf[x] ELSE None>>

Init ==
    /\ ex = [x \in Execs |-> [pc |-> "start", outcome |-> "none", pre |-> None, late |-> None,
                              watch |-> "off", admitted |-> FALSE, found |-> None,
                              touched |-> FALSE, wrote |-> FALSE]]
    /\ payload = [f \in Effects |-> NoRow]
    /\ audit = [k \in Keys |-> None]
    /\ file \in Contents \cup {Absent}
    /\ orphans = {}
    /\ verdict = None
    /\ custody = [s \in {Surface} |-> None]
    /\ spent = {}
    /\ clock = 0

-----------------------------------------------------------------------------
(* State formulae *)

At(x, p)      == ex[x].pc = p
Row(x)        == payload[EffectOf[x]]
HeldBy(g)     == custody[Surface] # None /\ custody[Surface].lease = g
FencedBy(f)   == custody[Surface] # None /\ custody[Surface].fence = f
Unfenced      == custody[Surface] # None /\ custody[Surface].fence = None
Live(x)       == HeldBy(x) /\ custody[Surface].expires > clock

Goto(x, p)    == ex' = [ex EXCEPT ![x].pc = p]
End(x, p, o)  == ex' = [ex EXCEPT ![x].pc = p, ![x].outcome = o]

\* How a database call can go for its caller
Calls == {"ok", "lost", "failed"}
Applied(d) == d # "failed"

\* Repo.acquire succeeds with :new: the surface is free or its lease expired.
TakeSurface(g) ==
    /\ custody' = [custody EXCEPT ![Surface] = [lease |-> g, agent |-> g,
                                                expires |-> clock + Ttl, fence |-> None]]
    /\ Custody!Take(Surface) \/ Custody!Supersede(Surface)

-----------------------------------------------------------------------------
(* Before admission *)

Stored(x)     == audit[KeyOf[x]]
SameDigest(x) == Stored(x) # None /\ Stored(x).digest = Digest(x)

\* A stored custody refusal never answers a retry.
Replayable(x) == SameDigest(x) /\ Stored(x).status # "custody_refused"

\* nothing stored, or a refusal for the same digest: acquire
LookupFresh(x) ==
    /\ At(x, "start")
    /\ Stored(x) = None \/ (SameDigest(x) /\ ~Replayable(x))
    /\ Goto(x, "acquire")
    /\ UNCHANGED <<payload, audit, file, recoveryVars, custodyVars>>

\* execute_idempotent_body, idempotency_conflict or idempotency_lookup_failed
LookupAnswers(x) ==
    /\ At(x, "start")
    /\ \/ Replayable(x) /\ End(x, "done", "answered")
       \/ ~SameDigest(x) /\ Goto(x, "done")
    /\ UNCHANGED <<payload, audit, file, recoveryVars, custodyVars>>

Acquire(x) ==
    /\ At(x, "acquire")
    /\ TakeSurface(x)
    /\ \E d \in {"ok", "lost"} : Goto(x, IF d = "ok" THEN "watch" ELSE "done")
    /\ UNCHANGED <<payload, audit, file, recoveryVars>>

\* lease_held (also when the proposer itself holds it), effect_in_progress,
\* lease_acquire_failed
AcquireRefused(x) ==
    /\ At(x, "acquire")
    /\ Goto(x, "done")
    /\ UNCHANGED <<payload, audit, file, recoveryVars, custodyVars>>

StartWatcher(x) ==
    /\ At(x, "watch")
    /\ ex' = [ex EXCEPT ![x].pc = "veto", ![x].watch = "armed"]
    /\ UNCHANGED <<payload, audit, file, recoveryVars, custodyVars>>

Veto(x) ==
    /\ At(x, "veto")
    /\ Goto(x, "check") \/ End(x, "record", "governance_blocked")
    /\ UNCHANGED <<payload, audit, file, recoveryVars, custodyVars>>

CheckCustody(x) ==
    /\ At(x, "check")
    /\ \/ Live(x) /\ Goto(x, "admit")
       \/ End(x, "record", "custody_refused")      \* revoked, expired, or the read failed
    /\ UNCHANGED <<payload, audit, file, recoveryVars, custodyVars>>

-----------------------------------------------------------------------------
(* Admission: the reservation and the payload row commit together *)

\* begin_effect_custody matches the exact lease, unexpired and unreserved.
\* Fault: it matches whatever lease the surface has.
Admissible_BySurface(x) == Unfenced /\ custody[Surface].expires > clock
Admissible(x)           == Unfenced /\ Live(x)

\* ensure_payload_row for a promotion must insert the row of its effect id.
\* Fault: a promotion uses the insert that ignores a conflict.
Claimable_Conflict(x) == TRUE
Claimable(x)          == x \in Promoted => Row(x).state = "none"

AdmittedRow(x) ==
    IF Row(x).state # "none" THEN payload
    ELSE [payload EXCEPT ![EffectOf[x]] =
             [state |-> "null", committed |-> FALSE, want |-> ContentOf[x], pre |-> None]]

Admission(x) ==
    /\ Admissible(x)
    /\ Claimable(x)
    /\ Custody!Admit(Surface, EffectOf[x])
    /\ payload' = AdmittedRow(x)

Admit(x) ==
    /\ At(x, "admit")
    /\ Admission(x)
    /\ \/ ex' = [ex EXCEPT ![x].pc = "capture", ![x].admitted = TRUE, ![x].found = file]
       \/ ex' = [ex EXCEPT ![x].pc = "record", ![x].outcome = "custody_refused",
                           ![x].admitted = TRUE,
                           ![x].found = file]             \* the COMMIT's answer is lost
    /\ UNCHANGED <<audit, file, recoveryVars>>

AdmitRefused(x) ==
    /\ At(x, "admit")
    /\ \/ Admissible(x) /\ ~Claimable(x) /\ End(x, "disarm", "promotion_consumed")
       \/ Admissible(x) /\ End(x, "record", "persist_failed")
       \/ End(x, "record", "custody_refused")
    /\ UNCHANGED <<payload, audit, file, recoveryVars, custodyVars>>

-----------------------------------------------------------------------------
(* Under the reservation *)

Capture(x) ==
    /\ At(x, "capture")
    /\ \E p \in {file, Unreadable} \ (IF file = Absent THEN {Unreadable} ELSE {}) :
          ex' = [ex EXCEPT ![x].pc = "preimage", ![x].pre = p]
    /\ UNCHANGED <<payload, audit, file, recoveryVars, custodyVars>>

RecordPreImage(x) ==
    LET fresh == Row(x).state = "null" /\ ~Row(x).committed IN
    /\ At(x, "preimage")
    /\ \E d \in Calls :
          /\ payload' = IF fresh /\ Applied(d)
                        THEN [payload EXCEPT ![EffectOf[x]].state = "pending",
                                             ![EffectOf[x]].pre = ex[x].pre]
                        ELSE payload
          /\ IF fresh /\ d = "ok" THEN Goto(x, "write") ELSE End(x, "finish", "not_captured")
    /\ UNCHANGED <<audit, file, recoveryVars, custodyVars>>

\* File.write: the open fails, or truncates and the bytes follow
OpenFails(x) ==
    /\ At(x, "write")
    /\ Goto(x, "restore")
    /\ UNCHANGED <<payload, audit, file, recoveryVars, custodyVars>>

WriteBegins(x) ==
    /\ At(x, "write")
    /\ ex' = [ex EXCEPT ![x].pc = "writing", ![x].touched = TRUE]
    /\ file' = Torn
    /\ UNCHANGED <<payload, audit, recoveryVars, custodyVars>>

WriteEnds(x) ==
    /\ At(x, "writing")
    /\ \/ /\ file' = ContentOf[x]
          /\ ex' = [ex EXCEPT ![x].pc = "mark", ![x].wrote = TRUE]
       \/ file' = Torn /\ Goto(x, "restore")
    /\ UNCHANGED <<payload, audit, recoveryVars, custodyVars>>

\* The write is durable and its mark is not acknowledged.
\* Fault: the executor compensates.
MarkUnknown_Compensates(x) == Goto(x, "restore")
MarkUnknown(x)             == End(x, "record", "deferred")

Marked(f) == IF payload[f].committed THEN payload
             ELSE [payload EXCEPT ![f].committed = TRUE, ![f].state = "null"]

MarkCommitted(x) ==
    /\ At(x, "mark")
    /\ \E d \in Calls :
          /\ payload' = IF Applied(d) THEN Marked(EffectOf[x]) ELSE payload
          /\ IF d = "ok" THEN End(x, "finish", "committed") ELSE MarkUnknown(x)
    /\ UNCHANGED <<audit, file, recoveryVars, custodyVars>>

\* compensate: rewrite the pre-image, or remove the file that was not there.
\* Fault: a file that was not there is left as it is.
AfterRemoval_Skipped == file
AfterRemoval         == Absent

Restore(x) ==
    /\ At(x, "restore")
    /\ \/ /\ ex[x].pre \in Contents
          /\ file' = Torn
          /\ ex' = [ex EXCEPT ![x].pc = "restoring", ![x].touched = TRUE]
       \/ /\ ex[x].pre = Absent
          /\ file' = AfterRemoval
          /\ Goto(x, "tombstone")
       \/ Goto(x, "quarantine") /\ UNCHANGED file
    /\ UNCHANGED <<payload, audit, recoveryVars, custodyVars>>

RestoreEnds(x) ==
    /\ At(x, "restoring")
    /\ \/ file' = ex[x].pre /\ Goto(x, "tombstone")
       \/ file' = Torn /\ Goto(x, "quarantine")
    /\ UNCHANGED <<payload, audit, recoveryVars, custodyVars>>

\* set_state, whose answer the executor ignores
SetState(f, st) == \/ payload' = [payload EXCEPT ![f].state = st]
                   \/ UNCHANGED payload

Tombstone(x) ==
    /\ At(x, "tombstone")
    /\ SetState(EffectOf[x], "tombstoned")
    /\ End(x, "finish", "rolled_back")
    /\ UNCHANGED <<audit, file, recoveryVars, custodyVars>>

\* finish_custody does not retire the reservation of a dirty surface.
\* Fault: it retires every reservation.
AfterQuarantine_Finish == "finish"
AfterQuarantine        == "record"

Quarantine(x) ==
    /\ At(x, "quarantine")
    /\ SetState(EffectOf[x], "quarantined")
    /\ End(x, AfterQuarantine, "rollback_failed")
    /\ UNCHANGED <<audit, file, recoveryVars, custodyVars>>

Finish(x) ==
    /\ At(x, "finish")
    /\ \E d \in Calls :
          /\ IF Applied(d) /\ HeldBy(x) /\ FencedBy(EffectOf[x])
             THEN Custody!Retire(Surface)
             ELSE UNCHANGED custodyVars
          /\ IF d # "ok" /\ ex[x].outcome = "committed"
             THEN End(x, "record", "retained")
             ELSE Goto(x, "record")
    /\ UNCHANGED <<payload, audit, file, recoveryVars>>

-----------------------------------------------------------------------------
(* After the outcome is known *)

\* result_audit.  Fault: the executor's own result is stored.
StatusOf_Raw(o) == o
StatusOf(o) ==
    IF o \in {"committed", "deferred", "retained"} THEN "committed"
    ELSE IF o \in {"not_captured", "rolled_back", "rollback_failed"} THEN "rejected"
    ELSE o

\* persist_execute, whose failure does not stop the request
Record(x) ==
    /\ At(x, "record")
    /\ Goto(x, "disarm")
    /\ \/ audit' = [audit EXCEPT ![KeyOf[x]] = [status |-> StatusOf(ex[x].outcome),
                                                digest |-> Digest(x), effect |-> EffectOf[x]]]
       \/ UNCHANGED audit
    /\ UNCHANGED <<payload, file, recoveryVars, custodyVars>>

\* custody_after
Holds(x) == ex[x].outcome \in {"deferred", "retained", "rollback_failed"}

Disarm(x) ==
    /\ At(x, "disarm")
    /\ ex' = [ex EXCEPT ![x].watch = "off", ![x].pre = None,
                        ![x].pc = IF Holds(x) THEN "done" ELSE "release"]
    /\ UNCHANGED <<payload, audit, file, recoveryVars, custodyVars>>

\* Repo.release by lease id: refused while reserved, not_found once it is gone
ReleaseOwn(x) == IF HeldBy(x) /\ Unfenced THEN Custody!Vacate(Surface) ELSE UNCHANGED custodyVars

Release(x) ==
    /\ At(x, "release")
    /\ Goto(x, "done")
    /\ ReleaseOwn(x) \/ UNCHANGED custodyVars
    /\ UNCHANGED <<payload, audit, file, recoveryVars>>

-----------------------------------------------------------------------------
(* A request process dies: killed, or it raises.  An admission or a file    *)
(* write already issued may still be carried out.                           *)

LateOf(x) ==
    {None} \cup CASE At(x, "admit")     -> {"admit"}
                  [] At(x, "writing")   -> {ContentOf[x]}
                  [] At(x, "restoring") -> {ex[x].pre}
                  [] OTHER              -> {}

Dies(x) ==
    /\ ex[x].pc \in Busy
    /\ \E late \in LateOf(x) :
          ex' = [ex EXCEPT ![x].pc = "dead", ![x].pre = None, ![x].late = late]
    /\ UNCHANGED <<payload, audit, file, recoveryVars, custodyVars>>

LateAdmission(x) ==
    /\ ex[x].late = "admit"
    /\ \/ /\ Admission(x)
          /\ ex' = [ex EXCEPT ![x].late = None, ![x].admitted = TRUE, ![x].found = file]
       \/ ex' = [ex EXCEPT ![x].late = None] /\ UNCHANGED <<payload, custodyVars>>
    /\ UNCHANGED <<audit, file, recoveryVars>>

LateWrite(x) ==
    /\ ex[x].late \in Contents
    /\ file' = ex[x].late
    /\ ex' = [ex EXCEPT ![x].late = None,
                        ![x].wrote = @ \/ ex[x].late = ContentOf[x]]
    /\ UNCHANGED <<payload, audit, recoveryVars, custodyVars>>

\* release_uncommitted_custody: no payload row, or a clean rollback.
\* Fault: a tombstone is required, or committed_at is not looked at.
Uncommitted_NoRow(row)    == row.state = "tombstoned" /\ ~row.committed
Uncommitted_AnyState(row) == row.state # "pending"
Uncommitted(row)          == row.state = "none" \/ (row.state = "tombstoned" /\ ~row.committed)

WatcherReads(x) ==
    /\ At(x, "dead")
    /\ ex[x].watch = "armed"
    /\ ex' = [ex EXCEPT ![x].watch = IF Uncommitted(Row(x)) THEN "release" ELSE "kept"]
    /\ UNCHANGED <<payload, audit, file, recoveryVars, custodyVars>>

WatcherReleases(x) ==
    /\ ex[x].watch = "release"
    /\ ex' = [ex EXCEPT ![x].watch = "off"]
    /\ ReleaseOwn(x)
    /\ UNCHANGED <<payload, audit, file, recoveryVars>>

\* The watcher's database call fails: it gives up and the TTL remains.
WatcherFails(x) ==
    /\ At(x, "dead")
    /\ ex[x].watch \in {"armed", "release"}
    /\ ex' = [ex EXCEPT ![x].watch = "failed"]
    /\ UNCHANGED <<payload, audit, file, recoveryVars, custodyVars>>

\* The node restarts: every request and watcher dies, the sweep starts over.
LateInCrash(x) == IF ex[x].pc \in Busy THEN LateOf(x) ELSE {ex[x].late}

NodeCrash ==
    /\ \E late \in [Execs -> UNION {LateInCrash(x) : x \in Execs}] :
          /\ \A x \in Execs : late[x] \in LateInCrash(x)
          /\ ex' = [x \in Execs |->
                      [ex[x] EXCEPT !.pc = IF @ \in Busy THEN "dead" ELSE @,
                                    !.pre = None, !.late = late[x],
                                    !.watch = IF @ \in {"armed", "release"} THEN "failed" ELSE @]]
    /\ orphans' = {}
    /\ verdict' = None
    /\ UNCHANGED <<payload, audit, file, custodyVars>>

-----------------------------------------------------------------------------
(* EffectRecovery and EffectReconcile: marks only, never bytes *)

\* Fault: reserved rows are not excluded.
Orphans_Reserved == {f \in Effects : payload[f].state = "pending" /\ ~payload[f].committed}
Orphans == {f \in Effects : /\ payload[f].state = "pending" /\ ~payload[f].committed
                            /\ ~FencedBy(f)}

Scan ==
    /\ orphans = {} /\ verdict = None
    /\ Orphans # {}
    /\ orphans' = Orphans
    /\ UNCHANGED <<ex, payload, audit, file, verdict, custodyVars>>

Classify(f) ==
    IF file = payload[f].want THEN "committed"
    ELSE IF file = payload[f].pre THEN "tombstoned"
    ELSE "quarantined"

Reconcile(f) ==
    /\ f \in orphans
    /\ verdict = None
    /\ \E mark \in {Classify(f), "quarantined"} :         \* the read may fail
          verdict' = [effect |-> f, mark |-> mark]
    /\ orphans' = orphans \ {f}
    /\ UNCHANGED <<ex, payload, audit, file, custodyVars>>

PersistOutcome ==
    /\ verdict # None
    /\ verdict' = None
    /\ \/ /\ verdict.mark = "committed"
          /\ payload' = Marked(verdict.effect) \/ UNCHANGED payload
       \/ verdict.mark # "committed" /\ SetState(verdict.effect, verdict.mark)
    /\ UNCHANGED <<ex, audit, file, orphans, custodyVars>>

-----------------------------------------------------------------------------
(* The rest of the lease plane's clients *)

OutsideTakes(o) ==
    /\ TakeSurface(o)
    /\ UNCHANGED <<ex, payload, audit, file, recoveryVars>>

OutsideWrites(o) ==
    /\ Live(o)
    /\ file' \in Contents
    /\ UNCHANGED <<ex, payload, audit, recoveryVars, custodyVars>>

\* A release, a forced release, a handoff or the reaper ends the lease.
LeaseEnds ==
    /\ Custody!Vacate(Surface)
    /\ UNCHANGED <<ex, payload, audit, file, recoveryVars>>

Renewed ==
    /\ custody[Surface] # None
    /\ custody' = [custody EXCEPT ![Surface].expires = clock + Ttl]
    /\ Custody!Prolong(Surface)
    /\ UNCHANGED <<ex, payload, audit, file, recoveryVars>>

Tick ==
    /\ clock < MaxTime
    /\ Custody!Pass
    /\ UNCHANGED <<ex, payload, audit, file, recoveryVars>>

ExecStep(x) ==
    \/ LookupFresh(x) \/ LookupAnswers(x) \/ Acquire(x) \/ AcquireRefused(x)
    \/ StartWatcher(x) \/ Veto(x) \/ CheckCustody(x) \/ Admit(x) \/ AdmitRefused(x)
    \/ Capture(x) \/ RecordPreImage(x) \/ OpenFails(x) \/ WriteBegins(x) \/ WriteEnds(x)
    \/ MarkCommitted(x) \/ Restore(x) \/ RestoreEnds(x) \/ Tombstone(x) \/ Quarantine(x)
    \/ Finish(x) \/ Record(x) \/ Disarm(x) \/ Release(x)

FaultStep(x) ==
    \/ Dies(x) \/ LateAdmission(x) \/ LateWrite(x)
    \/ WatcherReads(x) \/ WatcherReleases(x) \/ WatcherFails(x)

Next ==
    \/ \E x \in Execs : ExecStep(x) \/ FaultStep(x)
    \/ NodeCrash
    \/ Scan
    \/ \E f \in Effects : Reconcile(f)
    \/ PersistOutcome
    \/ \E o \in Outside : OutsideTakes(o) \/ OutsideWrites(o)
    \/ LeaseEnds
    \/ Renewed
    \/ Tick

Spec == Init /\ [][Next]_vars

\* A monitor process runs as soon as the process it watches is down.
FairSpec == Spec /\ \A x \in Execs : WF_vars(WatcherReads(x)) /\ WF_vars(WatcherReleases(x))

-----------------------------------------------------------------------------
(* Properties *)

Statuses == {"governance_blocked", "custody_refused", "persist_failed", "committed", "rejected"}
AuditRecord == [status : Statuses,
                digest : Contents \X (Effects \cup {None}), effect : Effects]

TypeOK ==
    /\ ex \in [Execs -> Exec]
    /\ payload \in [Effects -> PayloadRow]
    /\ audit \in [Keys -> AuditRecord \cup {None}]
    /\ file \in FileStates
    /\ orphans \in SUBSET Effects
    /\ verdict \in [effect : Effects, mark : RowStates \cup {"committed"}] \cup {None}
    /\ custody \in [{Surface} -> Custody!Grant \cup {None}]
    /\ spent \in SUBSET Grants
    /\ clock \in Nat

\* Once an execution has opened the file, and until its write is marked
\* committed or its pre-image is back, the surface stays reserved for it:
\* through crashes, lost answers, expiry, force-release and recovery.
UnknownOutcomeKeepsCustody ==
    \A x \in Execs :
        ex[x].touched /\ ~Row(x).committed /\ ex[x].outcome # "rolled_back"
        => HeldBy(x) /\ FencedBy(EffectOf[x])

\* The file is changed either by a client of the lease plane other than the
\* executions, under a running lease of its own, or by one execution, and then
\* the surface is in that execution's lease and reserved for its effect.  So an
\* execution never writes on a surface somebody else holds, and a write that
\* lands after its process died is no exception.
WritesUnderOwnCustody ==
    [][file' # file =>
          \/ ex' = ex /\ \E o \in Outside : Live(o)
          \/ \E x \in Execs : HeldBy(x) /\ FencedBy(EffectOf[x]) /\ ex'[x] # ex[x]]_vars

\* An effect that did not reach committed leaves the surface as if it never
\* started: when the executor is about to give up its reservation after a
\* failed capture or a rollback, the file is what it was at admission.
RejectedLeavesFileAsFound ==
    \A x \in Execs :
        At(x, "finish") /\ ex[x].outcome \in {"not_captured", "rolled_back"}
        => file = ex[x].found

\* A successful write is never compensated: once its bytes are in the file, no
\* later step of the execution changes the file.
CommitNeverUndone ==
    [][\A x \in Execs : ex[x].wrote /\ file' # file => ex'[x] = ex[x]]_vars

\* Recovery decides about an effect only when no execution of it can still
\* write: none is between its admission and its last file call, dead or alive.
RecoveryNeverRacesWriter ==
    \A x \in Execs :
        EffectOf[x] \in orphans \/ (verdict # None /\ verdict.effect = EffectOf[x])
        => /\ ex[x].pc \notin {"capture", "preimage", "write", "writing", "mark",
                               "restore", "restoring", "tombstone", "quarantine"}
           /\ ex[x].late \notin Contents

\* A request that died after its write was marked and before its record was
\* stored does not give the surface to its own retry: its watcher lets go only
\* of a lease whose effect is not committed.
CommittedCrashHoldsLease ==
    [][\A x \in Execs :
          At(x, "dead") /\ Row(x).committed /\ HeldBy(x) /\ custody'[Surface] = None
          => ex'[x] = ex[x]]_vars

\* A watcher that keeps the lease of a dead request keeps it for a reason: the
\* request's own admission committed (release_uncommitted_custody, #2620).  Of
\* requests that share no effect id: promotions of one predecessor share its row.
WatcherKeepsOnlyAdmitted ==
    \A x \in Execs : ex[x].watch = "kept" /\ HeldBy(x) => ex[x].admitted

\* A promotion's effect id is admitted once, whatever keys and processes retry
\* it and wherever the first one stopped.
PromotionAdmittedOnce ==
    \A x, y \in Execs :
        ex[x].admitted /\ ex[y].admitted /\ EffectOf[x] = EffectOf[y] => x = y

\* A request killed before its admission does not keep the surface until its
\* TTL: its watcher releases the lease, unless its database call fails, the
\* node goes down with it, or the admission commits after all.
PreAdmissionCrashFrees ==
    \A x \in Execs :
        At(x, "dead") /\ ex[x].watch = "armed" /\ ~ex[x].admitted /\ HeldBy(x)
        ~> ~HeldBy(x) \/ ex[x].admitted \/ ex[x].watch = "failed"

-----------------------------------------------------------------------------
(* The abstract specification it implements *)

\* The execution the surface is reserved for
Owner == IF custody[Surface] = None \/ Unfenced THEN None ELSE custody[Surface].lease

\* While it is reserved nobody else reads the file
Seen == IF Owner = None THEN file ELSE ex[Owner].found

AnswerOf(x) ==
    IF ex[x].outcome = "none" THEN "none"
    ELSE IF StatusOf(ex[x].outcome) \in {"committed", "rejected"} THEN StatusOf(ex[x].outcome)
    ELSE "declined"

Governed == INSTANCE GovernedFile WITH
    seen <- Seen, owner <- Owner, reserved <- {x \in Execs : ex[x].admitted},
    answer <- [x \in Execs |-> AnswerOf(x)]

\* To whoever takes the surface after it, a governed write happened completely
\* or not at all, as it was answered, and once for its effect: whatever died,
\* tore the file, lost an answer or was reconciled in between.
RefinesGovernedFile == Governed!GovernedSpec

=============================================================================
