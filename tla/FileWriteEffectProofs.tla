----------------------- MODULE FileWriteEffectProofs -----------------------
(***************************************************************************)
(* Type correctness, the safety invariants and the action properties of    *)
(* FileWriteEffect, for any number of executions, outside holders, effects *)
(* and contents, and any lifetime of a lease.                              *)
(***************************************************************************)
EXTENDS FileWriteEffect, TLAPS

-----------------------------------------------------------------------------
(* The inductive invariant *)

\* Where an execution has asked for nothing but the lease
Before == {"start", "acquire", "watch", "veto", "check", "admit"}

\* Where its reservation has not been retired
Reserving == {"capture", "preimage", "write", "writing", "mark", "restore", "restoring",
              "tombstone", "quarantine", "finish"}

\* Where the pre-image it recorded is what recovery would work from
Writing == {"write", "writing", "mark", "restore", "restoring", "tombstone", "quarantine"}

Reserved(x) == HeldBy(x) /\ FencedBy(EffectOf[x])

\* What an execution's place says of the rest of its own record.
Shaped(e) ==
    /\ e.late # None => e.pc = "dead"
    /\ e.watch = "release" => e.pc = "dead"
    /\ e.pc \in Before => ~e.admitted /\ ~e.touched /\ ~e.wrote
    /\ e.late = "admit" => ~e.admitted /\ e.outcome = "none"
    /\ e.pc \in (Before \cup Reserving) \ {"finish"} => e.outcome = "none"
    /\ e.late \in Contents => e.admitted /\ ~e.wrote
    /\ e.pc \in Reserving => e.admitted
    /\ e.pc \in {"capture", "preimage", "write"} => ~e.touched
    /\ e.pc \in {"capture", "preimage", "write", "writing", "restore", "restoring"} => ~e.wrote
    /\ e.pc = "restoring" => e.pre \in Contents
    /\ e.pc = "record" => e.outcome \in {"governance_blocked", "custody_refused",
           "persist_failed", "committed", "deferred", "retained", "not_captured",
           "rolled_back", "rollback_failed"}
    /\ e.pc = "finish" => e.outcome \in {"not_captured", "committed", "rolled_back"}
    /\ e.pc = "finish" /\ e.outcome = "not_captured" => ~e.touched

\* It may still write, or has not given its reservation up.
Writer(e) == e.pc \in Reserving \/ e.late \in Contents

\* A writer has the surface, reserved.
WritersReserve == \A x \in Execs : Writer(ex[x]) => Reserved(x)

\* A payload row is there from the one admission of its effect on.
RowsAdmitted ==
    /\ \A x \in Execs : ex[x].admitted => Row(x).state # "none"
    /\ \A f \in Effects : payload[f].state # "none" =>
           \E x \in Execs : ex[x].admitted /\ EffectOf[x] = f
    /\ \A f \in Effects : payload[f].state = "none" => ~payload[f].committed

\* What the row says while the executor works, and once it knows its write marked
RowsFollow ==
    \A x \in Execs :
        /\ ex[x].pc \in Writing => Row(x).state = "pending" /\ ~Row(x).committed
        /\ At(x, "finish") /\ ex[x].outcome = "committed" => Row(x).committed

\* Recovery works on rows that are still open, one verdict at a time.
InRecovery(f) == f \in orphans \/ (verdict # None /\ verdict.effect = f)

RecoverySound ==
    /\ \A f \in Effects : InRecovery(f) => payload[f].state = "pending" /\ ~payload[f].committed
    /\ verdict # None => /\ verdict.mark \in {"committed", "tombstoned", "quarantined"}
                         /\ verdict.effect \notin orphans

RecoveryApart == \A x \in Execs : InRecovery(EffectOf[x]) => ~Writer(ex[x])

\* A watcher about to release has nothing committed to protect.
WatcherSound ==
    \A x \in Execs :
        ex[x].watch = "release" /\ HeldBy(x) /\ Unfenced => Uncommitted(Row(x))

\* Until the file is opened, and again once the pre-image is back, the file is
\* what the admission found, and what was captured of it is true; once written
\* it is what was asked for.
FileFollows ==
    \A x \in Execs :
        /\ ex[x].pc \in {"capture", "preimage", "write", "tombstone"} => file = ex[x].found
        /\ ex[x].pc \in {"preimage", "write", "writing", "restore", "restoring"} =>
               ex[x].pre \in {ex[x].found, Unreadable}
        /\ At(x, "mark") => file = ContentOf[x]
        /\ At(x, "finish") =>
               file = IF ex[x].outcome = "committed" THEN ContentOf[x] ELSE ex[x].found

\* A reservation is that of an execution's own admission.
FencedByAdmitted ==
    custody[Surface] # None /\ custody[Surface].fence # None =>
        \E x \in Execs : ex[x].admitted /\ Reserved(x)

IInv ==
    /\ TypeOK
    /\ \A x \in Execs : Shaped(ex[x])
    /\ WritersReserve
    /\ RowsAdmitted
    /\ RowsFollow
    /\ RecoverySound
    /\ RecoveryApart
    /\ WatcherSound
    /\ FileFollows
    /\ FencedByAdmitted
    /\ UnknownOutcomeKeepsCustody
    /\ PromotionAdmittedOnce

-----------------------------------------------------------------------------
(* One execution moves *)

\* A step of an execution changes its own record only, and leaves it well shaped.
LEMMA OwnRecord ==
    ASSUME IInv, NEW x \in Execs, ExecStep(x) \/ FaultStep(x)
    PROVE  /\ ex' \in [Execs -> Exec]
           /\ Shaped(ex'[x])
           /\ \A z \in Execs \ {x} : ex'[z] = ex[z]
<1> DEFINE P == /\ ex' \in [Execs -> Exec]
                /\ Shaped(ex'[x])
                /\ \A z \in Execs \ {x} : ex'[z] = ex[z]
<1>a. ex \in [Execs -> Exec] /\ ex[x] \in Exec /\ Shaped(ex[x]) /\ file \in FileStates
  BY DEF IInv, TypeOK
<1>b. ContentOf[x] \in Contents
  BY ExecutionsAssumption
<1>1. CASE LookupFresh(x)
  BY <1>1, <1>a, <1>b, ValuesAssumption DEF LookupFresh, Goto, End, At, Shaped, Exec, Busy, Outcomes, Before, Reserving,
     FileStates
<1>2. CASE LookupAnswers(x)
  BY <1>2, <1>a, <1>b, ValuesAssumption DEF LookupAnswers, Goto, End, At, Shaped, Exec, Busy, Outcomes, Before, Reserving,
     FileStates
<1>3. CASE Acquire(x)
  BY <1>3, <1>a, <1>b, ValuesAssumption DEF Acquire, Goto, End, At, Shaped, Exec, Busy, Outcomes, Before, Reserving,
     FileStates
<1>4. CASE AcquireRefused(x)
  BY <1>4, <1>a, <1>b, ValuesAssumption DEF AcquireRefused, Goto, End, At, Shaped, Exec, Busy, Outcomes, Before, Reserving,
     FileStates
<1>5. CASE StartWatcher(x)
  <2>1. At(x, "watch") /\ ex' = [ex EXCEPT ![x].pc = "veto", ![x].watch = "armed"]
    BY <1>5 DEF StartWatcher
  <2>2. ex'[x] = [ex[x] EXCEPT !.pc = "veto", !.watch = "armed"]
    BY <2>1, <1>a
  <2>3. Shaped(ex'[x])
    BY <2>2, <2>1, <1>a, ValuesAssumption DEF At, Shaped, Exec, Before, Reserving
  <2>4. ex'[x] \in Exec
    BY <2>2, <1>a DEF Exec, Busy
  <2> QED BY <2>1, <2>2, <2>3, <2>4, <1>a
<1>6. CASE Veto(x)
  BY <1>6, <1>a, <1>b, ValuesAssumption DEF Veto, Goto, End, At, Shaped, Exec, Busy, Outcomes, Before, Reserving,
     FileStates
<1>7. CASE CheckCustody(x)
  BY <1>7, <1>a, <1>b, ValuesAssumption DEF CheckCustody, Goto, End, At, Shaped, Exec, Busy, Outcomes, Before, Reserving,
     FileStates
<1>8. CASE Admit(x)
  BY <1>8, <1>a, <1>b, ValuesAssumption DEF Admit, Goto, End, At, Shaped, Exec, Busy, Outcomes, Before, Reserving,
     FileStates
<1>9. CASE AdmitRefused(x)
  BY <1>9, <1>a, <1>b, ValuesAssumption DEF AdmitRefused, Goto, End, At, Shaped, Exec, Busy, Outcomes, Before, Reserving,
     FileStates
<1>10. CASE Capture(x)
  <2>1. PICK q \in FileStates \cup {Unreadable} :
            ex' = [ex EXCEPT ![x].pc = "preimage", ![x].pre = q]
    BY <1>10, <1>a DEF Capture
  <2>2. At(x, "capture")
    BY <1>10 DEF Capture
  <2>3. ex'[x] = [ex[x] EXCEPT !.pc = "preimage", !.pre = q]
    BY <2>1, <1>a
  <2>4. Shaped(ex'[x])
    BY <2>3, <2>2, <1>a, ValuesAssumption DEF At, Shaped, Exec, Before, Reserving
  <2>5. ex'[x] \in Exec
    BY ZenonT(30), <2>3, <2>1, <1>a DEF Exec, Busy, Outcomes
  <2> QED BY <2>1, <2>3, <2>4, <2>5, <1>a
<1>11. CASE RecordPreImage(x)
  BY <1>11, <1>a, <1>b, ValuesAssumption DEF RecordPreImage, Goto, End, At, Shaped, Exec, Busy, Outcomes, Before, Reserving,
     FileStates, Calls
<1>12. CASE OpenFails(x)
  BY <1>12, <1>a, <1>b, ValuesAssumption DEF OpenFails, Goto, End, At, Shaped, Exec, Busy, Outcomes, Before, Reserving,
     FileStates
<1>13. CASE WriteBegins(x)
  BY <1>13, <1>a, <1>b, ValuesAssumption DEF WriteBegins, Goto, End, At, Shaped, Exec, Busy, Outcomes, Before, Reserving,
     FileStates
<1>14. CASE WriteEnds(x)
  BY <1>14, <1>a, <1>b, ValuesAssumption DEF WriteEnds, Goto, End, At, Shaped, Exec, Busy, Outcomes, Before, Reserving,
     FileStates
<1>15. CASE MarkCommitted(x)
  BY <1>15, <1>a, <1>b, ValuesAssumption DEF MarkCommitted, Goto, End, At, Shaped, Exec, Busy, Outcomes, Before, Reserving,
     FileStates, Calls, MarkUnknown
<1>16. CASE Restore(x)
  BY <1>16, <1>a, <1>b, ValuesAssumption DEF Restore, Goto, End, At, Shaped, Exec, Busy, Outcomes, Before, Reserving,
     FileStates
<1>17. CASE RestoreEnds(x)
  BY <1>17, <1>a, <1>b, ValuesAssumption DEF RestoreEnds, Goto, End, At, Shaped, Exec, Busy, Outcomes, Before, Reserving,
     FileStates
<1>18. CASE Tombstone(x)
  <2>1. At(x, "tombstone") /\ End(x, "finish", "rolled_back")
    BY <1>18 DEF Tombstone
  <2>2. ex'[x] = [ex[x] EXCEPT !.pc = "finish", !.outcome = "rolled_back"]
    BY <2>1, <1>a DEF End
  <2>3. Shaped(ex'[x])
    BY <2>2, <2>1, <1>a, ValuesAssumption DEF At, Shaped, Exec, Before, Reserving
  <2>4. ex'[x] \in Exec
    BY ZenonT(30), <2>2, <1>a DEF Exec, Busy, Outcomes
  <2> QED BY <2>1, <2>2, <2>3, <2>4, <1>a DEF End
<1>19. CASE Quarantine(x)
  <2>1. At(x, "quarantine") /\ End(x, "record", "rollback_failed")
    BY <1>19 DEF Quarantine, AfterQuarantine
  <2>2. ex'[x] = [ex[x] EXCEPT !.pc = "record", !.outcome = "rollback_failed"]
    BY <2>1, <1>a DEF End
  <2>3. Shaped(ex'[x])
    BY <2>2, <2>1, <1>a, ValuesAssumption DEF At, Shaped, Exec, Before, Reserving
  <2>4. ex'[x] \in Exec
    BY ZenonT(30), <2>2, <1>a DEF Exec, Busy, Outcomes
  <2> QED BY <2>1, <2>2, <2>3, <2>4, <1>a DEF End
<1>20. CASE Finish(x)
  BY <1>20, <1>a, <1>b, ValuesAssumption DEF Finish, Goto, End, At, Shaped, Exec, Busy, Outcomes, Before, Reserving,
     FileStates, Calls
<1>21. CASE Record(x)
  BY <1>21, <1>a, <1>b, ValuesAssumption DEF Record, Goto, End, At, Shaped, Exec, Busy, Outcomes, Before, Reserving,
     FileStates
<1>22. CASE Disarm(x)
  BY <1>22, <1>a, <1>b, ValuesAssumption DEF Disarm, Goto, End, At, Shaped, Exec, Busy, Outcomes, Before, Reserving,
     FileStates, Holds
<1>23. CASE Release(x)
  BY <1>23, <1>a, <1>b, ValuesAssumption DEF Release, Goto, End, At, Shaped, Exec, Busy, Outcomes, Before, Reserving,
     FileStates
<1>24. CASE Dies(x)
  <2>1. PICK l \in LateOf(x) :
            ex' = [ex EXCEPT ![x].pc = "dead", ![x].pre = None, ![x].late = l]
    BY <1>24 DEF Dies
  <2>2. l = None \/ (l = "admit" /\ At(x, "admit"))
        \/ (l \in Contents /\ (At(x, "writing") \/ At(x, "restoring")))
    BY <1>a, <1>b DEF LateOf, At, Shaped
  <2>3. ex'[x] = [ex[x] EXCEPT !.pc = "dead", !.pre = None, !.late = l] /\ l \in Contents \cup {"admit", None}
    BY <2>1, <2>2, <1>a
  <2>4. Shaped(ex'[x])
    BY <2>2, <2>3, <1>a, ValuesAssumption DEF At, Shaped, Exec, Before, Reserving
  <2>5. ex'[x] \in Exec
    BY <2>3, <1>a DEF Exec
  <2> QED BY <2>1, <2>3, <2>4, <2>5, <1>a
<1>25. CASE LateAdmission(x)
  BY <1>25, <1>a, <1>b, ValuesAssumption DEF LateAdmission, Goto, End, At, Shaped, Exec, Busy, Outcomes, Before, Reserving,
     FileStates
<1>26. CASE LateWrite(x)
  <2>1. ex[x].late \in Contents
    BY <1>26 DEF LateWrite
  <2>2. PICK b \in BOOLEAN : ex' = [ex EXCEPT ![x].late = None, ![x].wrote = b]
    BY <1>26, <1>a DEF LateWrite, Exec
  <2>3. ex[x].pc = "dead"
    BY <2>1, <1>a, ValuesAssumption DEF Shaped
  <2>4. ex'[x] = [ex[x] EXCEPT !.late = None, !.wrote = b]
    BY <2>2, <1>a
  <2>5. Shaped(ex'[x])
    BY <2>4, <2>3, <1>a, ValuesAssumption DEF Shaped, Exec, Before, Reserving
  <2>6. ex'[x] \in Exec
    BY <2>4, <1>a DEF Exec
  <2> QED BY <2>2, <2>4, <2>5, <2>6, <1>a
<1>27. CASE WatcherReads(x)
  BY <1>27, <1>a, <1>b, ValuesAssumption DEF WatcherReads, Goto, End, At, Shaped, Exec, Busy, Outcomes, Before, Reserving,
     FileStates
<1>28. CASE WatcherReleases(x)
  BY <1>28, <1>a, <1>b, ValuesAssumption DEF WatcherReleases, Goto, End, At, Shaped, Exec, Busy, Outcomes, Before, Reserving,
     FileStates
<1>29. CASE WatcherFails(x)
  BY <1>29, <1>a, <1>b, ValuesAssumption DEF WatcherFails, Goto, End, At, Shaped, Exec, Busy, Outcomes, Before, Reserving,
     FileStates
<1> QED BY <1>1, <1>2, <1>3, <1>4, <1>5, <1>6, <1>7, <1>8, <1>9, <1>10, <1>11, <1>12, <1>13, <1>14, <1>15, <1>16, <1>17, <1>18, <1>19, <1>20, <1>21, <1>22, <1>23, <1>24, <1>25, <1>26, <1>27, <1>28, <1>29 DEF ExecStep, FaultStep

\* A restart of the node leaves every record well shaped, and takes no
\* reservation's place on.
LEMMA CrashRecords ==
    ASSUME IInv, NodeCrash
    PROVE  /\ ex' \in [Execs -> Exec]
           /\ \A x \in Execs :
                /\ Shaped(ex'[x])
                /\ ex'[x].pc \notin Busy
                /\ ex'[x].late \in Contents =>
                     ex[x].late \in Contents \/ ex[x].pc \in {"writing", "restoring"}
                /\ ex'[x].watch = "release" => FALSE
                /\ UNCHANGED <<ex[x].outcome, ex[x].admitted, ex[x].found, ex[x].touched, ex[x].wrote>>
<1>1. PICK late \in [Execs -> UNION {LateInCrash(x) : x \in Execs}] :
        /\ \A x \in Execs : late[x] \in LateInCrash(x)
        /\ ex' = [x \in Execs |->
                    [ex[x] EXCEPT !.pc = IF @ \in Busy THEN "dead" ELSE @,
                                  !.pre = None, !.late = late[x],
                                  !.watch = IF @ \in {"armed", "release"} THEN "failed" ELSE @]]
  BY DEF NodeCrash
<1>2. ASSUME NEW x \in Execs
      PROVE  /\ ex'[x] \in Exec
             /\ Shaped(ex'[x])
             /\ ex'[x].pc \notin Busy
             /\ ex'[x].late \in Contents =>
                  ex[x].late \in Contents \/ ex[x].pc \in {"writing", "restoring"}
             /\ ex'[x].watch # "release"
             /\ UNCHANGED <<ex[x].outcome, ex[x].admitted, ex[x].found, ex[x].touched, ex[x].wrote>>
  <2>1. ex[x] \in Exec /\ Shaped(ex[x]) /\ ContentOf[x] \in Contents
    BY ExecutionsAssumption DEF IInv, TypeOK
  <2>2. ex'[x] = [ex[x] EXCEPT !.pc = IF @ \in Busy THEN "dead" ELSE @,
                               !.pre = None, !.late = late[x],
                               !.watch = IF @ \in {"armed", "release"} THEN "failed" ELSE @]
    BY <1>1
  <2>3. \/ ex[x].pc \notin Busy /\ late[x] = ex[x].late
        \/ ex[x].pc \in Busy /\ late[x] = None
        \/ At(x, "admit") /\ late[x] = "admit"
        \/ late[x] \in Contents /\ (At(x, "writing") \/ At(x, "restoring"))
    BY <1>1, <2>1 DEF LateInCrash, LateOf, At, Shaped
  <2>4. late[x] \in Contents \cup {"admit", None}
    BY <2>1, <2>3 DEF Exec
  <2>5. ex'[x] \in Exec
    BY <2>1, <2>2, <2>4 DEF Exec, Busy
  <2>6. Shaped(ex'[x])
    BY <2>1, <2>2, <2>3, ValuesAssumption DEF At, Shaped, Exec, Busy, Before, Reserving
  <2>7. ex'[x].pc \notin Busy /\ ex'[x].watch # "release"
    BY <2>1, <2>2 DEF Exec, Busy
  <2>8. ex'[x].late \in Contents =>
           ex[x].late \in Contents \/ ex[x].pc \in {"writing", "restoring"}
    BY <2>1, <2>2, <2>3, ValuesAssumption DEF At, Exec
  <2>9. UNCHANGED <<ex[x].outcome, ex[x].admitted, ex[x].found, ex[x].touched, ex[x].wrote>>
    BY <2>1, <2>2 DEF Exec
  <2> QED BY <2>5, <2>6, <2>7, <2>8, <2>9
<1>3. ex' \in [Execs -> Exec]
  BY <1>1, <1>2
<1> QED BY <1>2, <1>3

-----------------------------------------------------------------------------
(* The surface *)

\* Whoever moves the surface takes a step of SurfaceCustody, and only an
\* execution that finishes retires a reservation.
CustodyStep ==
    \/ UNCHANGED custodyVars
    \/ Custody!Take(Surface)
    \/ Custody!Supersede(Surface)
    \/ Custody!Vacate(Surface)
    \/ Custody!Prolong(Surface)
    \/ \E e \in Effects : Custody!Admit(Surface, e)
    \/ Custody!Pass

Retires(x) ==
    Finish(x) /\ HeldBy(x) /\ FencedBy(EffectOf[x]) /\ Custody!Retire(Surface)

LEMMA CustodyStepOfOne ==
    ASSUME NEW x \in Execs, ExecStep(x) \/ FaultStep(x)
    PROVE  CustodyStep \/ Retires(x)
<1>a. EffectOf[x] \in Effects
  BY ExecutionsAssumption
<1>1. CASE Acquire(x)
  BY <1>1 DEF Acquire, TakeSurface, CustodyStep
<1>2. CASE Admit(x) \/ LateAdmission(x)
  BY <1>2, <1>a DEF Admit, LateAdmission, Admission, CustodyStep, custodyVars
<1>3. CASE Finish(x)
  BY <1>3 DEF Finish, CustodyStep, Retires
<1>4. CASE Release(x) \/ WatcherReleases(x)
  BY <1>4 DEF Release, WatcherReleases, ReleaseOwn, CustodyStep
<1>5. CASE UNCHANGED custodyVars
  BY <1>5 DEF CustodyStep
<1> QED
  BY <1>1, <1>2, <1>3, <1>4, <1>5 DEF ExecStep, FaultStep, LookupFresh, LookupAnswers,
     AcquireRefused, StartWatcher, Veto, CheckCustody, AdmitRefused, Capture, RecordPreImage,
     OpenFails, WriteBegins, WriteEnds, MarkCommitted, Restore, RestoreEnds, Tombstone,
     Quarantine, Record, Disarm, Dies, LateWrite, WatcherReads, WatcherFails

LEMMA CustodySteps ==
    ASSUME [Next]_vars PROVE CustodyStep \/ \E x \in Execs : Retires(x)
<1>1. ASSUME NEW x \in Execs, ExecStep(x) \/ FaultStep(x) PROVE CustodyStep \/ Retires(x)
  BY <1>1, CustodyStepOfOne
<1>2. ASSUME NEW o \in Outside, OutsideTakes(o) PROVE CustodyStep
  BY <1>2 DEF OutsideTakes, TakeSurface, CustodyStep
<1>3. CASE LeaseEnds \/ Renewed \/ Tick
  BY <1>3 DEF LeaseEnds, Renewed, Tick, CustodyStep
<1>4. CASE UNCHANGED custodyVars
  BY <1>4 DEF CustodyStep
<1> QED
  BY <1>1, <1>2, <1>3, <1>4 DEF Next, vars, custodyVars, NodeCrash, Scan, Reconcile,
     PersistOutcome, OutsideWrites

\* Its type
LEMMA CustodyTyped ==
    ASSUME TypeOK, CustodyStep \/ \E x \in Execs : Retires(x)
    PROVE  /\ custody' \in [{Surface} -> Custody!Grant \cup {None}]
           /\ spent' \in SUBSET Grants
           /\ clock' \in Nat
<1> USE DEF TypeOK
<1>1. CASE Custody!Take(Surface) \/ Custody!Supersede(Surface)
  BY <1>1 DEF Custody!Take, Custody!Supersede, Custody!PassTo, Custody!Grant
<1>2. CASE Custody!Vacate(Surface)
  BY <1>2 DEF Custody!Vacate
<1>3. CASE Custody!Prolong(Surface)
  BY <1>3 DEF Custody!Prolong
<1>4. CASE \E e \in Effects : Custody!Admit(Surface, e)
  BY <1>4 DEF Custody!Admit, Custody!Unreserved, Custody!Held, Custody!Grant
<1>5. CASE \E x \in Execs : Retires(x)
  BY <1>5 DEF Retires, Custody!Retire, Custody!Held, Custody!Grant
<1>6. CASE Custody!Pass
  BY <1>6 DEF Custody!Pass
<1> QED BY <1>1, <1>2, <1>3, <1>4, <1>5, <1>6 DEF CustodyStep, custodyVars

\* A reservation outlasts every step that does not retire it.
LEMMA ReservationStays ==
    ASSUME TypeOK, NEW f \in Effects, FencedBy(f), CustodyStep
    PROVE  FencedBy(f)' /\ \A g : HeldBy(g) => HeldBy(g)'
<1>1. custody[Surface] # None /\ custody[Surface].fence # None
      /\ custody[Surface] \in Custody!Grant
  BY ValuesAssumption DEF FencedBy, TypeOK
<1>2. CASE UNCHANGED custody
  BY <1>2 DEF FencedBy, HeldBy
<1>3. CASE Custody!Prolong(Surface)
  BY <1>1, <1>3, NoGrantAssumption DEF Custody!Prolong, FencedBy, HeldBy, TypeOK, Custody!Grant
<1> QED
  BY <1>1, <1>2, <1>3 DEF CustodyStep, custodyVars, Custody!Take, Custody!Supersede, Custody!Vacate,
     Custody!Admit, Custody!Unreserved, Custody!Held, Custody!Pass

\* An execution keeps its reservation until it retires it itself.
LEMMA ReservedStays ==
    ASSUME TypeOK, [Next]_vars, NEW x \in Execs, Reserved(x), ~Retires(x)
    PROVE  Reserved(x)'
<1>1. EffectOf[x] \in Effects /\ FencedBy(EffectOf[x]) /\ HeldBy(x)
  BY ExecutionsAssumption DEF Reserved
<1>2. \A y \in Execs : ~Retires(y)
  BY <1>1 DEF Retires, HeldBy
<1>3. CustodyStep
  BY <1>2, CustodySteps
<1> QED BY <1>1, <1>3, ReservationStays DEF Reserved

-----------------------------------------------------------------------------
(* The payload rows *)

\* What may become of the rows: an admission inserts one, the executor of an
\* effect writes its own, recovery the one it has a verdict on.
RowStep(f, row) == payload' = [payload EXCEPT ![f] = row]

Pended(f, p)   == [payload[f] EXCEPT !.state = "pending", !.pre = p]
InState(f, st) == [payload[f] EXCEPT !.state = st]
AsMarked(f)    == [payload[f] EXCEPT !.committed = TRUE, !.state = "null"]

ExecutorWrites(x) ==
    LET f == EffectOf[x] IN
    \/ At(x, "preimage") /\ payload[f].state = "null" /\ ~payload[f].committed
       /\ RowStep(f, Pended(f, ex[x].pre))
    \/ At(x, "mark") /\ ~payload[f].committed /\ RowStep(f, AsMarked(f))
    \/ At(x, "tombstone") /\ RowStep(f, InState(f, "tombstoned"))
    \/ At(x, "quarantine") /\ RowStep(f, InState(f, "quarantined"))

RecoveryWrites ==
    LET f == verdict.effect IN
    /\ verdict # None /\ verdict' = None /\ UNCHANGED <<ex, orphans, file, custodyVars>>
    /\ \/ RowStep(f, AsMarked(f))
       \/ verdict.mark # "committed" /\ RowStep(f, InState(f, verdict.mark))

LEMMA RowSteps ==
    ASSUME IInv, [Next]_vars
    PROVE  \/ UNCHANGED payload
           \/ \E x \in Execs : (Admit(x) \/ LateAdmission(x)) /\ Admission(x) /\ ex'[x].admitted
           \/ \E x \in Execs : ExecStep(x) /\ ExecutorWrites(x)
           \/ RecoveryWrites
<1>1. ASSUME NEW x \in Execs, ExecStep(x) \/ FaultStep(x)
      PROVE  \/ UNCHANGED payload
             \/ (Admit(x) \/ LateAdmission(x)) /\ Admission(x) /\ ex'[x].admitted
             \/ ExecStep(x) /\ ExecutorWrites(x)
  <2>a. payload \in [Effects -> PayloadRow] /\ EffectOf[x] \in Effects
    BY ExecutionsAssumption DEF IInv, TypeOK
  <2>b. ex \in [Execs -> Exec]
    BY DEF IInv, TypeOK
  <2>1. CASE Admit(x) \/ LateAdmission(x)
    BY <2>1, <2>b DEF Admit, LateAdmission, Exec
  <2>2. CASE RecordPreImage(x)
    <3>1. UNCHANGED payload \/
          (Row(x).state = "null" /\ ~Row(x).committed /\ 
           payload' = [payload EXCEPT ![EffectOf[x]].state = "pending",
                                      ![EffectOf[x]].pre = ex[x].pre])
      BY <2>2 DEF RecordPreImage
    <3> QED BY <3>1, <2>2, <2>a DEF RecordPreImage, ExecutorWrites, RowStep, Pended, Row, ExecStep, PayloadRow
  <2>3. CASE MarkCommitted(x)
    <3>1. UNCHANGED payload \/ payload' = Marked(EffectOf[x])
      BY <2>3 DEF MarkCommitted
    <3> QED BY <3>1, <2>3, <2>a DEF MarkCommitted, ExecutorWrites, RowStep, AsMarked, Marked, ExecStep, PayloadRow
  <2>4. CASE Tombstone(x)
    BY <2>4, <2>a DEF Tombstone, SetState, ExecutorWrites, RowStep, InState, ExecStep, PayloadRow
  <2>5. CASE Quarantine(x)
    BY <2>5, <2>a DEF Quarantine, SetState, ExecutorWrites, RowStep, InState, ExecStep, PayloadRow
  <2>6. CASE UNCHANGED payload
    BY <2>6
  <2> QED
    BY <1>1, <2>1, <2>2, <2>3, <2>4, <2>5, <2>6 DEF ExecStep, FaultStep, LookupFresh,
       LookupAnswers, Acquire, AcquireRefused, StartWatcher, Veto, CheckCustody, AdmitRefused,
       Capture, OpenFails, WriteBegins, WriteEnds, Restore, RestoreEnds, Finish, Record,
       Disarm, Release, Dies, LateWrite, WatcherReads, WatcherReleases, WatcherFails
<1>2. CASE PersistOutcome
  <2>1. verdict # None => payload \in [Effects -> PayloadRow] /\ verdict.effect \in Effects
    BY DEF IInv, TypeOK
  <2> QED BY <1>2, <2>1 DEF PersistOutcome, RecoveryWrites, SetState, Marked, RowStep, AsMarked,
             InState, PayloadRow
<1>3. CASE UNCHANGED payload
  BY <1>3
<1> QED
  BY <1>1, <1>2, <1>3 DEF Next, vars, NodeCrash, Scan, Reconcile, OutsideTakes, OutsideWrites,
     LeaseEnds, Renewed, Tick

\* The executor's and the compensation's calls on the file
WritesFile(x) ==
    WriteBegins(x) \/ WriteEnds(x) \/ Restore(x) \/ RestoreEnds(x) \/ LateWrite(x)

LEMMA FileSteps ==
    ASSUME [Next]_vars, file' # file
    PROVE  \/ \E o \in Outside : OutsideWrites(o)
           \/ \E x \in Execs : WritesFile(x)
<1>1. ASSUME NEW x \in Execs, ExecStep(x) PROVE WritesFile(x)
  <2>1. CASE \/ LookupFresh(x) \/ LookupAnswers(x) \/ Acquire(x) \/ AcquireRefused(x)
             \/ StartWatcher(x) \/ Veto(x) \/ CheckCustody(x) \/ Admit(x) \/ AdmitRefused(x)
             \/ Capture(x) \/ RecordPreImage(x)
    BY <2>1 DEF LookupFresh, LookupAnswers, Acquire, AcquireRefused, StartWatcher, Veto,
       CheckCustody, Admit, AdmitRefused, Capture, RecordPreImage
  <2>2. CASE \/ OpenFails(x) \/ MarkCommitted(x) \/ Tombstone(x) \/ Quarantine(x)
             \/ Finish(x) \/ Record(x) \/ Disarm(x) \/ Release(x)
    BY <2>2 DEF OpenFails, MarkCommitted, Tombstone, Quarantine, Finish, Record, Disarm, Release
  <2> QED BY <1>1, <2>1, <2>2 DEF ExecStep, WritesFile
<1>2. ASSUME NEW x \in Execs, FaultStep(x) PROVE WritesFile(x)
  BY <1>2 DEF WritesFile, FaultStep, Dies, LateAdmission, WatcherReads, WatcherReleases,
     WatcherFails
<1>3. ~(NodeCrash \/ Scan \/ PersistOutcome) /\ \A f \in Effects : ~Reconcile(f)
  BY DEF NodeCrash, Scan, Reconcile, PersistOutcome
<1>4. ~(LeaseEnds \/ Renewed \/ Tick \/ UNCHANGED vars) /\ \A o \in Outside : ~OutsideTakes(o)
  BY DEF OutsideTakes, LeaseEnds, Renewed, Tick, vars
<1> QED BY <1>1, <1>2, <1>3, <1>4 DEF Next

\* Only the record of an outcome changes the audit.
LEMMA AuditSteps ==
    ASSUME [Next]_vars PROVE UNCHANGED audit \/ \E x \in Execs : Record(x)
<1>1. ASSUME NEW x \in Execs, ExecStep(x) PROVE UNCHANGED audit \/ Record(x)
  <2>1. CASE \/ LookupFresh(x) \/ LookupAnswers(x) \/ Acquire(x) \/ AcquireRefused(x)
             \/ StartWatcher(x) \/ Veto(x) \/ CheckCustody(x) \/ Admit(x) \/ AdmitRefused(x)
             \/ Capture(x) \/ RecordPreImage(x)
    BY <2>1 DEF LookupFresh, LookupAnswers, Acquire, AcquireRefused, StartWatcher, Veto,
       CheckCustody, Admit, AdmitRefused, Capture, RecordPreImage
  <2>2. CASE \/ OpenFails(x) \/ WriteBegins(x) \/ WriteEnds(x) \/ MarkCommitted(x)
             \/ Restore(x) \/ RestoreEnds(x) \/ Tombstone(x) \/ Quarantine(x)
             \/ Finish(x) \/ Disarm(x) \/ Release(x)
    BY <2>2 DEF OpenFails, WriteBegins, WriteEnds, MarkCommitted, Restore, RestoreEnds,
       Tombstone, Quarantine, Finish, Disarm, Release
  <2> QED BY <1>1, <2>1, <2>2 DEF ExecStep
<1>2. ASSUME NEW x \in Execs, FaultStep(x) PROVE UNCHANGED audit
  BY <1>2 DEF FaultStep, Dies, LateAdmission, LateWrite, WatcherReads, WatcherReleases,
     WatcherFails
<1>3. CASE NodeCrash \/ Scan \/ PersistOutcome \/ \E f \in Effects : Reconcile(f)
  BY <1>3 DEF NodeCrash, Scan, Reconcile, PersistOutcome
<1>4. CASE LeaseEnds \/ Renewed \/ Tick \/ UNCHANGED vars
  BY <1>4 DEF LeaseEnds, Renewed, Tick, vars
<1>5. CASE \E o \in Outside : OutsideTakes(o) \/ OutsideWrites(o)
  BY <1>5 DEF OutsideTakes, OutsideWrites
<1> QED BY <1>1, <1>2, <1>3, <1>4, <1>5 DEF Next

LEMMA RecoverySteps ==
    ASSUME [Next]_vars
    PROVE  \/ UNCHANGED recoveryVars
           \/ NodeCrash
           \/ Scan
           \/ \E f \in Effects : Reconcile(f)
           \/ PersistOutcome
<1>1. ASSUME NEW x \in Execs, ExecStep(x) PROVE UNCHANGED recoveryVars
  <2>1. CASE \/ LookupFresh(x) \/ LookupAnswers(x) \/ Acquire(x) \/ AcquireRefused(x)
             \/ StartWatcher(x) \/ Veto(x) \/ CheckCustody(x) \/ Admit(x) \/ AdmitRefused(x)
             \/ Capture(x) \/ RecordPreImage(x)
    BY <2>1 DEF recoveryVars, LookupFresh, LookupAnswers, Acquire, AcquireRefused,
       StartWatcher, Veto, CheckCustody, Admit, AdmitRefused, Capture, RecordPreImage
  <2>2. CASE \/ OpenFails(x) \/ WriteBegins(x) \/ WriteEnds(x) \/ MarkCommitted(x)
             \/ Restore(x) \/ RestoreEnds(x) \/ Tombstone(x) \/ Quarantine(x)
             \/ Finish(x) \/ Record(x) \/ Disarm(x) \/ Release(x)
    BY <2>2 DEF recoveryVars, OpenFails, WriteBegins, WriteEnds, MarkCommitted, Restore,
       RestoreEnds, Tombstone, Quarantine, Finish, Record, Disarm, Release
  <2> QED BY <1>1, <2>1, <2>2 DEF ExecStep
<1>2. ASSUME NEW x \in Execs, FaultStep(x) PROVE UNCHANGED recoveryVars
  BY <1>2 DEF recoveryVars, FaultStep, Dies, LateAdmission, LateWrite, WatcherReads,
     WatcherReleases, WatcherFails
<1>3. ASSUME NEW o \in Outside, OutsideTakes(o) \/ OutsideWrites(o)
      PROVE  UNCHANGED recoveryVars
  BY <1>3 DEF recoveryVars, OutsideTakes, OutsideWrites
<1>4. CASE LeaseEnds \/ Renewed \/ Tick \/ UNCHANGED vars
  BY <1>4 DEF recoveryVars, LeaseEnds, Renewed, Tick, vars
<1> QED BY <1>1, <1>2, <1>3, <1>4 DEF Next

-----------------------------------------------------------------------------
(* Types and shapes *)

LEMMA RowsAreRows ==
    ASSUME payload \in [Effects -> PayloadRow], NEW f \in Effects
    PROVE  /\ \A q \in FileStates \cup {Unreadable, None} : Pended(f, q) \in PayloadRow
           /\ \A st \in RowStates : InState(f, st) \in PayloadRow
           /\ AsMarked(f) \in PayloadRow
<1>1. \A q \in FileStates \cup {Unreadable, None} : Pended(f, q) \in PayloadRow
  BY DEF Pended, PayloadRow, RowStates
<1>2. \A st \in RowStates : InState(f, st) \in PayloadRow
  BY DEF InState, PayloadRow
<1>3. AsMarked(f) \in PayloadRow
  BY DEF AsMarked, PayloadRow, RowStates
<1> QED BY <1>1, <1>2, <1>3

LEMMA RowsTyped ==
    ASSUME IInv, [Next]_vars PROVE payload' \in [Effects -> PayloadRow]
<1>a. payload \in [Effects -> PayloadRow] /\ ex \in [Execs -> Exec]
  BY DEF IInv, TypeOK
<1>b. \A x \in Execs : EffectOf[x] \in Effects /\ ContentOf[x] \in Contents
  BY ExecutionsAssumption
<1>1. ASSUME NEW x \in Execs, Admission(x) PROVE payload' \in [Effects -> PayloadRow]
  BY <1>1, <1>a, <1>b DEF Admission, AdmittedRow, PayloadRow, RowStates
<1>2. ASSUME NEW x \in Execs, ExecutorWrites(x) PROVE payload' \in [Effects -> PayloadRow]
  <2>1. \E row \in PayloadRow : RowStep(EffectOf[x], row)
    BY <1>2, <1>a, <1>b, RowsAreRows DEF ExecutorWrites, Exec, RowStates
  <2> QED BY <2>1, <1>a, <1>b DEF RowStep
<1>3. CASE RecoveryWrites
  <2>1. verdict.effect \in Effects /\ (verdict.mark # "committed" => verdict.mark \in RowStates)
    BY <1>3 DEF RecoveryWrites, IInv, TypeOK
  <2>2. \E row \in PayloadRow : RowStep(verdict.effect, row)
    BY <1>3, <1>a, <2>1, RowsAreRows DEF RecoveryWrites
  <2> QED BY <2>1, <2>2, <1>a DEF RowStep
<1> QED BY <1>1, <1>2, <1>3, <1>a, RowSteps

LEMMA AuditTyped ==
    ASSUME IInv, [Next]_vars PROVE audit' \in [Keys -> AuditRecord \cup {None}]
<1>1. CASE UNCHANGED audit
  BY <1>1 DEF IInv, TypeOK
<1>2. ASSUME NEW x \in Execs, Record(x) PROVE audit' \in [Keys -> AuditRecord \cup {None}]
  <2>1. StatusOf(ex[x].outcome) \in Statuses
    BY <1>2 DEF Record, At, IInv, Shaped, StatusOf, Statuses
  <2>2. Digest(x) \in Contents \X (Effects \cup {None}) /\ EffectOf[x] \in Effects /\ KeyOf[x] \in Keys
    BY ExecutionsAssumption DEF Digest
  <2> QED BY <1>2, <2>1, <2>2 DEF Record, IInv, TypeOK, AuditRecord
<1> QED BY <1>1, <1>2, AuditSteps

LEMMA FileTyped ==
    ASSUME IInv, [Next]_vars PROVE file' \in FileStates
<1>a. /\ file \in FileStates
      /\ \A x \in Execs : ContentOf[x] \in Contents
      /\ \A x \in Execs : ex[x].pc = "restoring" => ex[x].pre \in Contents
  BY ExecutionsAssumption DEF IInv, TypeOK, Shaped
<1>1. CASE UNCHANGED file
  BY <1>1, <1>a
<1>2. ASSUME NEW x \in Execs,
             WriteBegins(x) \/ WriteEnds(x) \/ Restore(x) \/ RestoreEnds(x) \/ LateWrite(x)
      PROVE  file' \in FileStates
  <2>a. ContentOf[x] \in Contents /\ (At(x, "restoring") => ex[x].pre \in Contents)
    BY <1>a DEF At
  <2>1. CASE WriteBegins(x) \/ WriteEnds(x)
    <3>1. file' = Torn \/ file' = ContentOf[x]
      BY <2>1 DEF WriteBegins, WriteEnds
    <3> QED BY <3>1, <2>a DEF FileStates
  <2>2. CASE Restore(x)
    BY <2>2, <1>a DEF Restore, AfterRemoval, FileStates
  <2>3. CASE RestoreEnds(x) \/ LateWrite(x)
    <3>1. file' = Torn \/ file' \in Contents
      BY <2>3, <2>a DEF RestoreEnds, LateWrite
    <3> QED BY <3>1 DEF FileStates
  <2> QED BY <1>2, <2>1, <2>2, <2>3
<1>3. ASSUME NEW o \in Outside, OutsideWrites(o) PROVE file' \in FileStates
  BY <1>3 DEF OutsideWrites, FileStates
<1> QED BY <1>1, <1>2, <1>3, FileSteps DEF WritesFile

\* Steps that are not an execution's and not a restart leave the records alone.
LEMMA Records ==
    ASSUME IInv, [Next]_vars
    PROVE  \/ \E x \in Execs : ExecStep(x) \/ FaultStep(x)
           \/ NodeCrash
           \/ UNCHANGED ex
BY DEF Next, vars, Scan, Reconcile, PersistOutcome, OutsideTakes, OutsideWrites, LeaseEnds,
       Renewed, Tick

LEMMA RecordsTyped ==
    ASSUME IInv, [Next]_vars
    PROVE  ex' \in [Execs -> Exec] /\ \A x \in Execs : Shaped(ex'[x])
<1>a. ex \in [Execs -> Exec] /\ \A x \in Execs : Shaped(ex[x])
  BY DEF IInv, TypeOK
<1>1. ASSUME NEW x \in Execs, ExecStep(x) \/ FaultStep(x)
      PROVE  ex' \in [Execs -> Exec] /\ \A z \in Execs : Shaped(ex'[z])
  <2>1. ex' \in [Execs -> Exec] /\ Shaped(ex'[x]) /\ \A z \in Execs \ {x} : ex'[z] = ex[z]
    BY <1>1, OwnRecord
  <2> QED BY <2>1, <1>a
<1>2. CASE NodeCrash
  BY <1>2, CrashRecords
<1>3. CASE UNCHANGED ex
  BY <1>3, <1>a
<1> QED BY <1>1, <1>2, <1>3, Records

LEMMA RecoveryTyped ==
    ASSUME IInv, [Next]_vars
    PROVE  /\ orphans' \in SUBSET Effects
           /\ verdict' \in [effect : Effects, mark : RowStates \cup {"committed"}] \cup {None}
<1>1. CASE UNCHANGED recoveryVars
  BY <1>1 DEF recoveryVars, IInv, TypeOK
<1>2. CASE NodeCrash \/ Scan \/ PersistOutcome
  BY <1>2 DEF NodeCrash, Scan, Orphans, PersistOutcome, IInv, TypeOK
<1>3. ASSUME NEW f \in Effects, Reconcile(f)
      PROVE  /\ orphans' \in SUBSET Effects
             /\ verdict' \in [effect : Effects, mark : RowStates \cup {"committed"}]
  BY <1>3 DEF Reconcile, Classify, RowStates, IInv, TypeOK
<1> QED BY <1>1, <1>2, <1>3, RecoverySteps

LEMMA TypeStep == ASSUME IInv, [Next]_vars PROVE TypeOK'
<1>1. TypeOK
  BY DEF IInv
<1>2. /\ custody' \in [{Surface} -> Custody!Grant \cup {None}]
      /\ spent' \in SUBSET Grants
      /\ clock' \in Nat
  BY <1>1, CustodySteps, CustodyTyped
<1> QED BY <1>2, RecordsTyped, RowsTyped, AuditTyped, FileTyped, RecoveryTyped DEF TypeOK

-----------------------------------------------------------------------------
(* Reservations *)

\* An execution becomes a writer by its admission, and a finish ends it.
LEMMA WriterSteps ==
    ASSUME IInv, [Next]_vars, NEW x \in Execs, Writer(ex'[x])
    PROVE  \/ Admit(x) /\ Admission(x)
           \/ Writer(ex[x]) /\ ~Finish(x)
<1>a. ex \in [Execs -> Exec] /\ ex[x] \in Exec /\ Shaped(ex[x])
  BY DEF IInv, TypeOK
<1>1. CASE ExecStep(x) \/ FaultStep(x)
  <2>1. CASE LookupFresh(x) \/ LookupAnswers(x) \/ Acquire(x) \/ AcquireRefused(x)
             \/ StartWatcher(x) \/ Veto(x) \/ CheckCustody(x) \/ AdmitRefused(x)
    <3>1. ex'[x].late = ex[x].late /\ ex'[x].pc \notin Reserving
      BY <2>1, <1>a DEF LookupFresh, LookupAnswers, Acquire, AcquireRefused, StartWatcher,
         Veto, CheckCustody, AdmitRefused, Goto, End, Exec, Reserving
    <3>2. ~Finish(x)
      BY <2>1 DEF LookupFresh, LookupAnswers, Acquire, AcquireRefused, StartWatcher,
         Veto, CheckCustody, AdmitRefused, At, Finish
    <3> QED BY <3>1, <3>2 DEF Writer
  <2>2. CASE Admit(x)
    BY <2>2 DEF Admit
  <2>3. CASE Capture(x) \/ RecordPreImage(x) \/ OpenFails(x) \/ WriteBegins(x) \/ WriteEnds(x)
             \/ MarkCommitted(x) \/ Restore(x) \/ RestoreEnds(x) \/ Tombstone(x)
             \/ Quarantine(x)
    BY <2>3 DEF Capture, RecordPreImage, OpenFails, WriteBegins, WriteEnds, MarkCommitted,
       Restore, RestoreEnds, Tombstone, Quarantine, At, Finish, Writer, Reserving
  <2>4. CASE Finish(x) \/ Record(x) \/ Disarm(x) \/ Release(x)
    <3>1. ex'[x].late = ex[x].late /\ ex'[x].pc \notin Reserving
      BY <2>4, <1>a DEF Finish, Record, Disarm, Release, Goto, End, Exec, Reserving
    <3>2. ex[x].late = None
      BY <2>4, <1>a DEF Finish, Record, Disarm, Release, At, Shaped
    <3> QED BY <3>1, <3>2, ValuesAssumption DEF Writer
  <2>5. CASE Dies(x)
    <3>1. PICK l \in LateOf(x) :
              ex' = [ex EXCEPT ![x].pc = "dead", ![x].pre = None, ![x].late = l]
      BY <2>5 DEF Dies
    <3>2. ex'[x].pc = "dead" /\ ex'[x].late = l
      BY <3>1, <1>a DEF Exec
    <3>3. At(x, "writing") \/ At(x, "restoring")
      BY <3>1, <3>2, ValuesAssumption DEF Writer, Reserving, LateOf
    <3> QED BY <3>3, <2>5 DEF Dies, At, Writer, Reserving, Finish, Goto, End
  <2>6. CASE LateAdmission(x) \/ LateWrite(x) \/ WatcherReads(x) \/ WatcherReleases(x)
             \/ WatcherFails(x)
    <3>1. ex[x].pc = "dead"
      BY <2>6, <1>a, ValuesAssumption DEF LateAdmission, LateWrite, WatcherReads,
         WatcherReleases, WatcherFails, At, Shaped
    <3>2. ex'[x].pc = "dead" /\ ex'[x].late \in {ex[x].late, None}
      BY <2>6, <3>1, <1>a DEF LateAdmission, LateWrite, WatcherReads, WatcherReleases,
         WatcherFails, Exec
    <3> QED BY <3>1, <3>2, ValuesAssumption DEF Writer, Reserving, Finish, At
  <2> QED
    BY <1>1, <2>1, <2>2, <2>3, <2>4, <2>5, <2>6 DEF ExecStep, FaultStep
<1>2. ASSUME NEW y \in Execs \ {x}, ExecStep(y) \/ FaultStep(y)
      PROVE  Writer(ex[x]) /\ ~Finish(x)
  <2>1. ex'[x] = ex[x]
    BY <1>2, OwnRecord
  <2>2. ~Finish(x)
    BY <2>1, <1>a DEF Finish, Goto, End, At, Exec
  <2> QED BY <2>1, <2>2
<1>3. CASE NodeCrash \/ UNCHANGED ex
  <2>1. Writer(ex[x])
    <3>1. CASE NodeCrash
      <4>1. /\ ex'[x].pc \notin Busy
            /\ ex'[x].late \in Contents =>
                 ex[x].late \in Contents \/ ex[x].pc \in {"writing", "restoring"}
        BY <3>1, CrashRecords
      <4> QED BY <4>1 DEF Writer, Reserving, Busy
    <3> QED BY <1>3, <3>1
  <2>2. ~Finish(x)
    <3>1. ASSUME Finish(x) PROVE ex'[x].pc = "record" /\ ex'[x].late = None
      BY <3>1, <1>a DEF Finish, Goto, End, At, Exec, Shaped
    <3> QED BY <3>1, ValuesAssumption DEF Writer, Reserving
  <2> QED BY <2>1, <2>2
<1> QED BY <1>1, <1>2, <1>3, Records

LEMMA AdmissionReserves ==
    ASSUME TypeOK, NEW x \in Execs, Admission(x) PROVE Reserved(x)'
<1>1. /\ custody[Surface] \in Custody!Grant /\ custody[Surface].lease = x
      /\ custody' = [custody EXCEPT ![Surface].fence = EffectOf[x]]
      /\ EffectOf[x] \in Effects
  BY ExecutionsAssumption DEF Admission, Admissible, Live, HeldBy, Custody!Admit, TypeOK
<1>2. custody'[Surface] \in Custody!Grant
  BY <1>1 DEF Custody!Grant, TypeOK
<1> QED BY <1>1, <1>2, NoGrantAssumption DEF Reserved, HeldBy, FencedBy, Custody!Grant, TypeOK

LEMMA WritersReserveStep == ASSUME IInv, [Next]_vars PROVE WritersReserve'
<1>1. ASSUME NEW x \in Execs, Writer(ex'[x]) PROVE Reserved(x)'
  <2>1. CASE Admit(x) /\ Admission(x)
    BY <2>1, AdmissionReserves DEF IInv
  <2>2. CASE Writer(ex[x]) /\ ~Finish(x)
    BY <2>2, ReservedStays DEF IInv, WritersReserve, Retires
  <2> QED BY <1>1, <2>1, <2>2, WriterSteps
<1> QED BY <1>1 DEF WritersReserve, Reserved, HeldBy, FencedBy

\* There is one writer at a time.
LEMMA OneWriter ==
    ASSUME IInv, NEW x \in Execs, NEW y \in Execs, Writer(ex[x]), Writer(ex[y])
    PROVE  x = y
BY DEF IInv, WritersReserve, Reserved, HeldBy

-----------------------------------------------------------------------------
(* Admissions *)

LEMMA AdmissionIsFirst ==
    ASSUME IInv, NEW x \in Execs, Admit(x) \/ LateAdmission(x), Admission(x)
    PROVE  /\ Row(x).state = "none"
           /\ \A y \in Execs : EffectOf[y] = EffectOf[x] => ~ex[y].admitted
<1>1. ~ex[x].admitted
  BY DEF IInv, Shaped, Admit, LateAdmission, At, Before
<1>2. Row(x).state = "none"
  <2>1. CASE x \in Promoted
    BY <2>1 DEF Admission, Claimable
  <2>2. CASE x \notin Promoted
    <3>1. \A y \in Execs : EffectOf[y] = EffectOf[x] => y = x
      BY <2>2, ExecutionsAssumption
    <3>2. EffectOf[x] \in Effects
      BY ExecutionsAssumption
    <3> QED BY <3>1, <3>2, <1>1 DEF IInv, RowsAdmitted, Row
  <2> QED BY <2>1, <2>2
<1> QED BY <1>2 DEF IInv, RowsAdmitted, Row

\* Only an admission makes an execution admitted, and nothing undoes it.
LEMMA AdmittedSteps ==
    ASSUME IInv, [Next]_vars, NEW x \in Execs
    PROVE  \/ ex'[x].admitted = ex[x].admitted /\ ex'[x].found = ex[x].found
           \/ /\ Admit(x) \/ LateAdmission(x)
              /\ Admission(x)
              /\ ex'[x].admitted /\ ex'[x].found = file
<1>a. ex \in [Execs -> Exec]
  BY DEF IInv, TypeOK
<1>1. CASE ExecStep(x)
  <2>1. CASE \/ LookupFresh(x) \/ LookupAnswers(x) \/ Acquire(x) \/ AcquireRefused(x)
             \/ StartWatcher(x) \/ Veto(x) \/ CheckCustody(x) \/ Admit(x) \/ AdmitRefused(x)
    BY <2>1, <1>a DEF LookupFresh, LookupAnswers, Acquire, AcquireRefused, StartWatcher,
       Veto, CheckCustody, Admit, AdmitRefused, Goto, End, Exec
  <2>2. CASE \/ Capture(x) \/ RecordPreImage(x) \/ OpenFails(x) \/ WriteBegins(x)
             \/ WriteEnds(x) \/ MarkCommitted(x)
    BY <2>2, <1>a DEF Capture, RecordPreImage, OpenFails, WriteBegins, WriteEnds,
       MarkCommitted, MarkUnknown, Goto, End, Exec
  <2>3. CASE \/ Restore(x) \/ RestoreEnds(x) \/ Tombstone(x) \/ Quarantine(x)
             \/ Finish(x) \/ Record(x) \/ Disarm(x) \/ Release(x)
    BY <2>3, <1>a DEF Restore, RestoreEnds, Tombstone, Quarantine, Finish, Record, Disarm,
       Release, Goto, End, Exec
  <2> QED BY <1>1, <2>1, <2>2, <2>3 DEF ExecStep
<1>2. CASE FaultStep(x)
  BY <1>2, <1>a DEF FaultStep, Dies, LateAdmission, LateWrite, WatcherReads, WatcherReleases,
     WatcherFails, Exec
<1>3. ASSUME NEW y \in Execs \ {x}, ExecStep(y) \/ FaultStep(y) PROVE ex'[x] = ex[x]
  BY <1>3, OwnRecord
<1>4. CASE NodeCrash
  BY <1>4, CrashRecords
<1> QED BY <1>1, <1>2, <1>3, <1>4, Records

LEMMA AdmittedOnceStep == ASSUME IInv, [Next]_vars PROVE PromotionAdmittedOnce'
<1>1. ASSUME NEW x \in Execs, NEW y \in Execs, ex'[x].admitted, ex'[y].admitted,
             EffectOf[x] = EffectOf[y], ~ex[x].admitted
      PROVE  x = y
  <2>1. (Admit(x) \/ LateAdmission(x)) /\ Admission(x)
    BY <1>1, AdmittedSteps
  <2>2. ~ex[y].admitted
    BY <1>1, <2>1, AdmissionIsFirst
  <2>3. (Admit(y) \/ LateAdmission(y)) /\ Admission(y)
    BY <1>1, <2>2, AdmittedSteps
  <2>4. HeldBy(x) /\ HeldBy(y)
    BY <2>1, <2>3 DEF Admission, Admissible, Live
  <2> QED BY <2>4 DEF HeldBy
<1>2. PromotionAdmittedOnce
  BY DEF IInv
<1>3. ASSUME NEW x \in Execs, NEW y \in Execs, ex'[x].admitted, ex'[y].admitted,
             EffectOf[x] = EffectOf[y]
      PROVE  x = y
  BY <1>1, <1>2, <1>3 DEF PromotionAdmittedOnce
<1> QED BY <1>3 DEF PromotionAdmittedOnce

-----------------------------------------------------------------------------
(* What happens to one row *)

Inserted(f) ==
    /\ payload[f].state = "none" /\ payload'[f].state = "null" /\ ~payload'[f].committed
    /\ \E x \in Execs :
          /\ EffectOf[x] = f /\ ex'[x].admitted
          /\ Admit(x) \/ LateAdmission(x)
          /\ Admission(x)

Executed(f) ==
    \E x \in Execs :
        /\ EffectOf[x] = f /\ ExecStep(x) /\ Writer(ex[x])
        /\ \/ At(x, "preimage") /\ payload'[f] = Pended(f, ex[x].pre) /\ ~payload[f].committed
           \/ At(x, "mark") /\ payload'[f] = AsMarked(f)
           \/ At(x, "tombstone") /\ payload'[f] = InState(f, "tombstoned")
           \/ At(x, "quarantine") /\ payload'[f] = InState(f, "quarantined")

Recovered(f) ==
    /\ verdict # None /\ verdict.effect = f /\ RecoveryWrites
    /\ \/ payload'[f] = AsMarked(f)
       \/ /\ verdict.mark \in {"tombstoned", "quarantined"}
          /\ payload'[f] = InState(f, verdict.mark)

LEMMA RowChanges ==
    ASSUME IInv, [Next]_vars, NEW f \in Effects, payload'[f] # payload[f]
    PROVE  Inserted(f) \/ Executed(f) \/ Recovered(f)
<1>a. payload \in [Effects -> PayloadRow] /\ \A x \in Execs : EffectOf[x] \in Effects
  BY ExecutionsAssumption DEF IInv, TypeOK
<1>1. ASSUME NEW x \in Execs, Admit(x) \/ LateAdmission(x), Admission(x), ex'[x].admitted
      PROVE  Inserted(f)
  <2>1. payload[EffectOf[x]].state = "none"
    BY <1>1, AdmissionIsFirst DEF Row
  <2>2. payload' = [payload EXCEPT ![EffectOf[x]] =
             [state |-> "null", committed |-> FALSE, want |-> ContentOf[x], pre |-> None]]
    BY <1>1, <2>1 DEF Admission, AdmittedRow, Row
  <2> QED BY <1>1, <1>a, <2>1, <2>2 DEF Inserted
<1>2. ASSUME NEW x \in Execs, ExecStep(x), ExecutorWrites(x) PROVE Executed(f)
  <2>1. Writer(ex[x])
    BY <1>2 DEF ExecutorWrites, At, Writer, Reserving
  <2>2. EffectOf[x] = f
    BY <1>2, <1>a DEF ExecutorWrites, RowStep
  <2>3. At(x, "preimage") => ~payload[f].committed
    BY <1>2, <2>2 DEF ExecutorWrites, At
  <2> QED BY <1>2, <1>a, <2>1, <2>2, <2>3 DEF ExecutorWrites, RowStep, Executed
<1>3. CASE RecoveryWrites
  <2>1. verdict.effect = f
    BY <1>3, <1>a DEF RecoveryWrites, RowStep
  <2>2. verdict.mark \in {"committed", "tombstoned", "quarantined"}
    BY <1>3 DEF RecoveryWrites, IInv, RecoverySound
  <2> QED BY <1>3, <1>a, <2>1, <2>2 DEF RecoveryWrites, RowStep, Recovered
<1> QED BY <1>1, <1>2, <1>3, RowSteps

\* A row, once there, is never taken away, and a mark is never taken back.
LEMMA RowPersists ==
    ASSUME IInv, [Next]_vars, NEW f \in Effects
    PROVE  /\ payload[f].state # "none" => payload'[f].state # "none"
           /\ payload[f].committed => payload'[f].committed
           /\ payload'[f].state = "none" => payload'[f] = payload[f]
<1>a. payload[f] \in PayloadRow
  BY DEF IInv, TypeOK
<1>1. CASE Inserted(f)
  BY <1>1 DEF Inserted, IInv, RowsAdmitted
<1>2. CASE Executed(f)
  BY <1>2, <1>a DEF Executed, Pended, AsMarked, InState, PayloadRow
<1>3. CASE Recovered(f)
  BY <1>3, <1>a DEF Recovered, AsMarked, InState, PayloadRow
<1> QED BY <1>1, <1>2, <1>3, RowChanges

LEMMA RowsAdmittedStep == ASSUME IInv, [Next]_vars PROVE RowsAdmitted'
<1>1. ASSUME NEW x \in Execs, ex'[x].admitted PROVE Row(x)'.state # "none"
  <2>a. EffectOf[x] \in Effects /\ payload \in [Effects -> PayloadRow]
    BY ExecutionsAssumption DEF IInv, TypeOK
  <2>1. CASE ex[x].admitted
    BY <2>1, <2>a, RowPersists DEF IInv, RowsAdmitted, Row
  <2>2. CASE Admission(x)
    BY <2>2, <2>a, RowPersists DEF Admission, AdmittedRow, Row
  <2> QED BY <1>1, <2>1, <2>2, AdmittedSteps
<1>2. ASSUME NEW f \in Effects, payload'[f].state # "none"
      PROVE  \E x \in Execs : ex'[x].admitted /\ EffectOf[x] = f
  <2>1. CASE payload[f].state # "none"
    <3>1. PICK x \in Execs : ex[x].admitted /\ EffectOf[x] = f
      BY <2>1 DEF IInv, RowsAdmitted
    <3> QED BY <3>1, AdmittedSteps
  <2>2. CASE payload[f].state = "none"
    <3>1. ~Executed(f)
      <4>1. \A x \in Execs : Writer(ex[x]) => ex[x].admitted
        BY DEF IInv, Shaped, Writer
      <4> QED BY <2>2, <4>1 DEF Executed, IInv, RowsAdmitted, Row
    <3>2. ~Recovered(f)
      BY <2>2 DEF Recovered, IInv, RecoverySound, InRecovery
    <3>3. Inserted(f)
      BY <1>2, <2>2, <3>1, <3>2, RowChanges
    <3> QED BY <3>3 DEF Inserted
  <2> QED BY <2>1, <2>2
<1>3. ASSUME NEW f \in Effects, payload'[f].state = "none" PROVE ~payload'[f].committed
  BY <1>3, RowPersists DEF IInv, RowsAdmitted
<1> QED BY <1>1, <1>2, <1>3 DEF RowsAdmitted, Row

-----------------------------------------------------------------------------
(* Where an execution is, and how it got there *)

\* An execution's record changes by its own step or with the node.
LEMMA Mover ==
    ASSUME IInv, [Next]_vars, NEW x \in Execs
    PROVE  ex'[x] = ex[x] \/ ExecStep(x) \/ FaultStep(x) \/ NodeCrash
BY Records, OwnRecord

\* The places a fault takes an execution to are not those of a running one.
LEMMA FaultsStop ==
    ASSUME IInv, NEW x \in Execs, FaultStep(x) \/ NodeCrash
    PROVE  ex'[x].pc \notin Busy
<1>a. ex \in [Execs -> Exec] /\ ex[x] \in Exec /\ Shaped(ex[x])
  BY DEF IInv, TypeOK
<1>1. CASE Dies(x)
  BY <1>1, <1>a DEF Dies, Exec, Busy
<1>2. CASE LateAdmission(x) \/ LateWrite(x) \/ WatcherReads(x) \/ WatcherReleases(x)
           \/ WatcherFails(x)
  <2>1. ex[x].pc = "dead"
    BY <1>2, <1>a, ValuesAssumption DEF LateAdmission, LateWrite, WatcherReads,
       WatcherReleases, WatcherFails, At, Shaped
  <2>2. ex'[x].pc = "dead"
    BY <1>2, <2>1, <1>a DEF LateAdmission, LateWrite, WatcherReads, WatcherReleases,
       WatcherFails, Exec
  <2> QED BY <2>2 DEF Busy
<1>3. CASE NodeCrash
  BY <1>3, CrashRecords
<1> QED BY <1>1, <1>2, <1>3 DEF FaultStep

\* What the executor does from where it writes its row
LEMMA RowWriterLeaves ==
    ASSUME IInv, NEW x \in Execs, ExecStep(x),
           At(x, "mark") \/ At(x, "tombstone") \/ At(x, "quarantine")
    PROVE  ex'[x].pc \notin Writing
<1>a. ex \in [Execs -> Exec]
  BY DEF IInv, TypeOK
<1>1. MarkCommitted(x) \/ Tombstone(x) \/ Quarantine(x)
  BY DEF ExecStep, LookupFresh, LookupAnswers, Acquire, AcquireRefused, StartWatcher,
     Veto, CheckCustody, Admit, AdmitRefused, Capture, RecordPreImage, OpenFails, WriteBegins,
     WriteEnds, Restore, RestoreEnds, Finish, Record, Disarm, Release, At
<1> QED BY <1>1, <1>a DEF MarkCommitted, MarkUnknown, Tombstone, Quarantine, AfterQuarantine,
           Goto, End, Exec, Writing

\* It starts to write by a recorded pre-image.
LEMMA WritingSteps ==
    ASSUME IInv, [Next]_vars, NEW x \in Execs, ex'[x].pc \in Writing
    PROVE  \/ ex[x].pc \in Writing
           \/ /\ RecordPreImage(x)
              /\ Row(x)'.state = "pending" /\ ~Row(x)'.committed
<1>a. /\ ex \in [Execs -> Exec] /\ ex[x] \in Exec
      /\ payload \in [Effects -> PayloadRow] /\ EffectOf[x] \in Effects
  BY ExecutionsAssumption DEF IInv, TypeOK
<1>1. CASE ex'[x] = ex[x]
  BY <1>1
<1>2. CASE FaultStep(x) \/ NodeCrash
  BY <1>2, FaultsStop DEF Writing, Busy
<1>3. CASE RecordPreImage(x)
  <2>1. /\ Row(x).state = "null" /\ ~Row(x).committed
        /\ payload' = [payload EXCEPT ![EffectOf[x]].state = "pending",
                                      ![EffectOf[x]].pre = ex[x].pre]
    BY <1>3, <1>a DEF RecordPreImage, End, Exec, Writing, Applied, Calls
  <2> QED BY <1>3, <2>1, <1>a DEF Row, PayloadRow
<1>4. CASE OpenFails(x) \/ WriteBegins(x) \/ WriteEnds(x) \/ Restore(x) \/ RestoreEnds(x)
  BY <1>4 DEF OpenFails, WriteBegins, WriteEnds, Restore, RestoreEnds, At, Writing
<1>5. ASSUME ExecStep(x), ex'[x].pc \in Writing
      PROVE  \/ RecordPreImage(x) \/ OpenFails(x) \/ WriteBegins(x) \/ WriteEnds(x)
             \/ Restore(x) \/ RestoreEnds(x)
  BY <1>5, <1>a DEF ExecStep, LookupFresh, LookupAnswers, Acquire, AcquireRefused, StartWatcher,
     Veto, CheckCustody, Admit, AdmitRefused, Capture, MarkCommitted, MarkUnknown, Tombstone,
     Quarantine, AfterQuarantine, Finish, Record, Disarm, Release, Goto, End, Exec, Writing
<1> QED BY <1>1, <1>2, <1>3, <1>4, <1>5, Mover

\* It comes to give its reservation up in three ways.
LEMMA FinishSteps ==
    ASSUME IInv, [Next]_vars, NEW x \in Execs, ex'[x].pc = "finish"
    PROVE  \/ ex'[x] = ex[x]
           \/ RecordPreImage(x) /\ ex'[x].outcome = "not_captured"
           \/ MarkCommitted(x) /\ ex'[x].outcome = "committed" /\ Row(x)'.committed
           \/ Tombstone(x) /\ ex'[x].outcome = "rolled_back"
<1>a. /\ ex \in [Execs -> Exec] /\ ex[x] \in Exec
      /\ payload \in [Effects -> PayloadRow] /\ EffectOf[x] \in Effects
  BY ExecutionsAssumption DEF IInv, TypeOK
<1>2. CASE FaultStep(x) \/ NodeCrash
  BY <1>2, FaultsStop DEF Busy
<1>3. CASE RecordPreImage(x)
  BY <1>3, <1>a DEF RecordPreImage, Goto, End, Exec
<1>4. CASE MarkCommitted(x)
  <2>1. PICK d \in Calls :
          /\ payload' = IF Applied(d) THEN Marked(EffectOf[x]) ELSE payload
          /\ IF d = "ok" THEN End(x, "finish", "committed") ELSE MarkUnknown(x)
    BY <1>4 DEF MarkCommitted
  <2>2. d = "ok"
    BY <2>1, <1>a DEF MarkUnknown, End, Exec
  <2>3. payload' = Marked(EffectOf[x]) /\ End(x, "finish", "committed")
    BY <2>1, <2>2 DEF Applied
  <2>4. ex'[x].outcome = "committed"
    BY <2>3, <1>a DEF End, Exec
  <2>5. Row(x)'.committed
    BY <2>3, <1>a DEF Marked, Row, PayloadRow
  <2> QED BY <1>4, <2>4, <2>5
<1>5. CASE Tombstone(x)
  BY <1>5, <1>a DEF Tombstone, End, Exec
<1>6. ASSUME ExecStep(x) PROVE RecordPreImage(x) \/ MarkCommitted(x) \/ Tombstone(x)
  BY <1>6, <1>a DEF ExecStep, LookupFresh, LookupAnswers, Acquire, AcquireRefused, StartWatcher,
     Veto, CheckCustody, Admit, AdmitRefused, Capture, OpenFails, WriteBegins, WriteEnds,
     Restore, RestoreEnds, Quarantine, AfterQuarantine, Finish, Record, Disarm, Release,
     Goto, End, Exec
<1> QED BY <1>2, <1>3, <1>4, <1>5, <1>6, Mover

LEMMA RowsFollowStep == ASSUME IInv, [Next]_vars PROVE RowsFollow'
<1>a. \A x \in Execs : EffectOf[x] \in Effects
  BY ExecutionsAssumption
<1>1. ASSUME NEW x \in Execs, ex'[x].pc \in Writing
      PROVE  Row(x)'.state = "pending" /\ ~Row(x)'.committed
  <2>1. CASE ex[x].pc \in Writing
    <3>1. payload[EffectOf[x]].state = "pending" /\ ~payload[EffectOf[x]].committed
          /\ Writer(ex[x])
      BY <2>1 DEF IInv, RowsFollow, Row, Writer, Writing, Reserving
    <3>2. ~Inserted(EffectOf[x])
      BY <3>1 DEF Inserted
    <3>3. ~Executed(EffectOf[x])
      <4>1. SUFFICES ASSUME Executed(EffectOf[x]) PROVE FALSE
        OBVIOUS
      <4>2. ExecStep(x) /\ (At(x, "preimage") \/ At(x, "mark") \/ At(x, "tombstone")
                             \/ At(x, "quarantine"))
        BY <4>1, <3>1, OneWriter DEF Executed
      <4>3. ~At(x, "preimage")
        BY <2>1 DEF At, Writing
      <4> QED BY <4>2, <4>3, <1>1, RowWriterLeaves
    <3>4. ~Recovered(EffectOf[x])
      BY <3>1 DEF Recovered, IInv, RecoveryApart, InRecovery
    <3> QED BY <3>1, <3>2, <3>3, <3>4, <1>a, RowChanges DEF Row
  <2> QED BY <1>1, <2>1, WritingSteps
<1>2. ASSUME NEW x \in Execs, ex'[x].pc = "finish", ex'[x].outcome = "committed"
      PROVE  Row(x)'.committed
  <2>1. ex'[x] = ex[x] \/ Row(x)'.committed
    BY <1>2, FinishSteps
  <2>2. ASSUME ex'[x] = ex[x] PROVE Row(x)'.committed
    <3>1. payload[EffectOf[x]].committed
      BY <1>2, <2>2 DEF IInv, RowsFollow, Row, At
    <3> QED BY <3>1, <1>a, RowPersists DEF Row
  <2> QED BY <2>1, <2>2
<1> QED BY <1>1, <1>2 DEF RowsFollow, Row, At

-----------------------------------------------------------------------------
(* Recovery *)

\* A row comes into recovery by the scan.
LEMMA InRecoverySteps ==
    ASSUME [Next]_vars, NEW f, InRecovery(f)'
    PROVE  InRecovery(f) \/ (Scan /\ f \in Orphans)
<1>1. CASE UNCHANGED recoveryVars
  BY <1>1 DEF recoveryVars, InRecovery
<1>2. CASE NodeCrash
  BY <1>2 DEF NodeCrash, InRecovery
<1>3. CASE Scan
  BY <1>3 DEF Scan, InRecovery
<1>4. ASSUME NEW g \in Effects, Reconcile(g) PROVE InRecovery(f)
  BY <1>4 DEF Reconcile, InRecovery
<1>5. CASE PersistOutcome
  BY <1>5 DEF PersistOutcome, InRecovery
<1> QED BY <1>1, <1>2, <1>3, <1>4, <1>5, RecoverySteps

LEMMA RecoverySoundStep == ASSUME IInv, [Next]_vars PROVE RecoverySound'
<1>1. ASSUME NEW f \in Effects, InRecovery(f)'
      PROVE  payload'[f].state = "pending" /\ ~payload'[f].committed
  <2>1. CASE Scan /\ f \in Orphans
    BY <2>1 DEF Scan, Orphans
  <2>2. CASE InRecovery(f)
    <3>1. payload[f].state = "pending" /\ ~payload[f].committed
      BY <2>2 DEF IInv, RecoverySound
    <3>2. ~Inserted(f)
      BY <3>1 DEF Inserted
    <3>3. ~Executed(f)
      BY <2>2 DEF Executed, IInv, RecoveryApart
    <3>4. ~Recovered(f)
      <4>1. SUFFICES ASSUME Recovered(f) PROVE FALSE
        OBVIOUS
      <4>2. verdict.effect = f /\ f \notin orphans /\ verdict' = None /\ orphans' = orphans
        BY <4>1 DEF Recovered, RecoveryWrites, IInv, RecoverySound
      <4> QED BY <4>2, <1>1 DEF InRecovery
    <3> QED BY <3>1, <3>2, <3>3, <3>4, RowChanges
  <2> QED BY <1>1, <2>1, <2>2, InRecoverySteps
<1>2. ASSUME verdict' # None
      PROVE  /\ verdict'.mark \in {"committed", "tombstoned", "quarantined"}
             /\ verdict'.effect \notin orphans'
  <2>1. CASE UNCHANGED recoveryVars
    BY <1>2, <2>1 DEF recoveryVars, IInv, RecoverySound
  <2>2. ASSUME NEW g \in Effects, Reconcile(g)
        PROVE  /\ verdict'.mark \in {"committed", "tombstoned", "quarantined"}
               /\ verdict'.effect \notin orphans'
    BY <2>2 DEF Reconcile, Classify
  <2> QED BY <1>2, <2>1, <2>2, RecoverySteps DEF NodeCrash, Scan, PersistOutcome
<1> QED BY <1>1, <1>2 DEF RecoverySound, InRecovery

LEMMA RecoveryApartStep == ASSUME IInv, [Next]_vars PROVE RecoveryApart'
<1>1. ASSUME NEW x \in Execs, InRecovery(EffectOf[x])', Writer(ex'[x]) PROVE FALSE
  <2>a. EffectOf[x] \in Effects
    BY ExecutionsAssumption
  <2>1. CASE Admit(x) /\ Admission(x)
    <3>1. payload[EffectOf[x]].state = "none"
      BY <2>1, AdmissionIsFirst DEF Row
    <3>2. InRecovery(EffectOf[x])
      BY <2>1, <1>1 DEF Admit, recoveryVars, InRecovery
    <3> QED BY <3>1, <3>2, <2>a DEF IInv, RecoverySound
  <2>2. CASE Writer(ex[x])
    <3>1. ~InRecovery(EffectOf[x])
      BY <2>2 DEF IInv, RecoveryApart
    <3>2. FencedBy(EffectOf[x])
      BY <2>2 DEF IInv, WritersReserve, Reserved
    <3> QED BY <3>1, <3>2, <1>1, InRecoverySteps DEF Orphans
  <2> QED BY <1>1, <2>1, <2>2, WriterSteps
<1> QED BY <1>1 DEF RecoveryApart, InRecovery, Writer

-----------------------------------------------------------------------------
(* The watcher *)

\* An unreserved surface in an execution's hands was that before, or the
\* execution has just acquired it or given its reservation up.
LEMMA HeldBefore ==
    ASSUME IInv, [Next]_vars, NEW x \in Execs, HeldBy(x)', Unfenced'
    PROVE  Acquire(x) \/ Finish(x) \/ (HeldBy(x) /\ Unfenced)
<1>a. /\ custody \in [{Surface} -> Custody!Grant \cup {None}]
      /\ x \notin Outside
  BY ValuesAssumption DEF IInv, TypeOK
<1>1. CASE UNCHANGED custodyVars
  BY <1>1 DEF custodyVars, HeldBy, Unfenced
<1>2. ASSUME NEW y \in Execs, Acquire(y) PROVE y = x
  BY <1>2, <1>a, NoGrantAssumption DEF Acquire, TakeSurface, HeldBy
<1>3. ASSUME NEW y \in Execs, Admission(y) PROVE FALSE
  <2>1. Reserved(y)'
    BY <1>3, AdmissionReserves DEF IInv
  <2>2. EffectOf[y] \in Effects /\ EffectOf[y] # None
    BY ExecutionsAssumption, ValuesAssumption
  <2> QED BY <2>1, <2>2 DEF Reserved, FencedBy, Unfenced
<1>4. ASSUME NEW y \in Execs, Retires(y) PROVE y = x
  <2>1. custody'[Surface] = [custody[Surface] EXCEPT !.fence = None]
        /\ custody[Surface].lease = y /\ custody[Surface] \in Custody!Grant
    BY <1>4, <1>a DEF Retires, Custody!Retire, HeldBy
  <2> QED BY <2>1 DEF HeldBy, Custody!Grant
<1>5. CASE Custody!Vacate(Surface)
  BY <1>5, <1>a DEF Custody!Vacate, HeldBy
<1>6. ASSUME NEW o \in Outside, OutsideTakes(o) PROVE FALSE
  BY <1>6, <1>a DEF OutsideTakes, TakeSurface, HeldBy
<1>7. CASE Custody!Prolong(Surface)
  <2>1. /\ custody[Surface] # None /\ custody[Surface] \in Custody!Grant
        /\ custody'[Surface] = [custody[Surface] EXCEPT !.expires = custody'[Surface].expires]
    BY <1>7, <1>a DEF Custody!Prolong, Custody!Held
  <2>2. custody'[Surface].lease = custody[Surface].lease
        /\ custody'[Surface].fence = custody[Surface].fence
    BY <2>1 DEF Custody!Grant
  <2> QED BY <2>1, <2>2 DEF HeldBy, Unfenced
<1>8. CASE Custody!Pass
  BY <1>8 DEF Custody!Pass, HeldBy, Unfenced
<1>9. ASSUME NEW y \in Execs, ExecStep(y) \/ FaultStep(y)
      PROVE  \/ UNCHANGED custodyVars \/ Acquire(y) \/ Admission(y)
             \/ Retires(y) \/ Custody!Vacate(Surface)
  BY <1>9 DEF ExecStep, FaultStep, LookupFresh, LookupAnswers, AcquireRefused, StartWatcher,
     Veto, CheckCustody, Admit, AdmitRefused, Capture, RecordPreImage, OpenFails, WriteBegins,
     WriteEnds, MarkCommitted, Restore, RestoreEnds, Tombstone, Quarantine, Finish, Retires,
     Record, Disarm, Release, ReleaseOwn, Dies, LateAdmission, LateWrite, WatcherReads,
     WatcherReleases, WatcherFails, custodyVars
<1> QED
  BY <1>1, <1>2, <1>3, <1>4, <1>5, <1>6, <1>7, <1>8, <1>9 DEF Next, vars, custodyVars, Retires,
     NodeCrash, Scan, Reconcile, PersistOutcome, OutsideWrites, LeaseEnds, Renewed, Tick

\* The watcher decides to release, or to keep, by what it reads in the row.
LEMMA WatchSteps ==
    ASSUME IInv, [Next]_vars, NEW x \in Execs
    PROVE  /\ ex'[x].watch = "release" =>
                ex[x].watch = "release" \/ (WatcherReads(x) /\ Uncommitted(Row(x)))
           /\ ex'[x].watch = "kept" =>
                ex[x].watch = "kept" \/ (WatcherReads(x) /\ ~Uncommitted(Row(x)))
<1>a. ex \in [Execs -> Exec] /\ ex[x] \in Exec
  BY DEF IInv, TypeOK
<1>1. CASE ex'[x] = ex[x]
  BY <1>1
<1>2. CASE WatcherReads(x)
  <2>1. ex'[x].watch = IF Uncommitted(Row(x)) THEN "release" ELSE "kept"
    BY <1>2, <1>a DEF WatcherReads, Exec
  <2> QED BY <2>1, <1>2
<1>3. ASSUME ExecStep(x) PROVE ex'[x].watch \in {ex[x].watch, "armed", "off", "failed"}
  <2>1. CASE \/ LookupFresh(x) \/ LookupAnswers(x) \/ Acquire(x) \/ AcquireRefused(x)
             \/ StartWatcher(x) \/ Veto(x) \/ CheckCustody(x) \/ Admit(x) \/ AdmitRefused(x)
    BY <2>1, <1>a DEF LookupFresh, LookupAnswers, Acquire, AcquireRefused, StartWatcher,
       Veto, CheckCustody, Admit, AdmitRefused, Goto, End, Exec
  <2>2. CASE \/ Capture(x) \/ RecordPreImage(x) \/ OpenFails(x) \/ WriteBegins(x)
             \/ WriteEnds(x) \/ MarkCommitted(x)
    BY <2>2, <1>a DEF Capture, RecordPreImage, OpenFails, WriteBegins, WriteEnds,
       MarkCommitted, MarkUnknown, Goto, End, Exec
  <2>3. CASE \/ Restore(x) \/ RestoreEnds(x) \/ Tombstone(x) \/ Quarantine(x)
             \/ Finish(x) \/ Record(x) \/ Disarm(x) \/ Release(x)
    BY <2>3, <1>a DEF Restore, RestoreEnds, Tombstone, Quarantine, Finish, Record, Disarm,
       Release, Goto, End, Exec
  <2> QED BY <1>3, <2>1, <2>2, <2>3 DEF ExecStep
<1>4. ASSUME FaultStep(x), ~WatcherReads(x)
      PROVE  ex'[x].watch \in {ex[x].watch, "armed", "off", "failed"}
  BY <1>4, <1>a DEF FaultStep, Dies, LateAdmission, LateWrite, WatcherReleases, WatcherFails,
     Exec
<1>5. CASE NodeCrash
  <2>1. PICK late \in [Execs -> UNION {LateInCrash(z) : z \in Execs}] :
          ex' = [z \in Execs |->
                  [ex[z] EXCEPT !.pc = IF @ \in Busy THEN "dead" ELSE @,
                                !.pre = None, !.late = late[z],
                                !.watch = IF @ \in {"armed", "release"} THEN "failed" ELSE @]]
    BY <1>5 DEF NodeCrash
  <2>2. ex'[x] = [ex[x] EXCEPT !.pc = IF @ \in Busy THEN "dead" ELSE @,
                               !.pre = None, !.late = late[x],
                               !.watch = IF @ \in {"armed", "release"} THEN "failed" ELSE @]
    BY <2>1
  <2>3. ex'[x].watch \in {ex[x].watch, "failed"}
    BY <2>2, <1>a DEF Exec
  <2> QED BY <2>3
<1> QED BY <1>1, <1>2, <1>3, <1>4, <1>5, Mover

LEMMA WatcherSoundStep == ASSUME IInv, [Next]_vars PROVE WatcherSound'
<1>1. ASSUME NEW x \in Execs, ex'[x].watch = "release", HeldBy(x)', Unfenced'
      PROVE  Uncommitted(payload'[EffectOf[x]])
  <2>a. EffectOf[x] \in Effects /\ Shaped(ex[x])
    BY ExecutionsAssumption DEF IInv
  <2>1. CASE WatcherReads(x) /\ Uncommitted(Row(x))
    BY <2>1 DEF WatcherReads, Row
  <2>2. CASE ex[x].watch = "release"
    <3>1. HeldBy(x) /\ Unfenced
      BY <1>1, <2>2, <2>a, HeldBefore DEF Shaped, Acquire, Finish, At
    <3>2. Uncommitted(payload[EffectOf[x]])
      BY <2>2, <3>1 DEF IInv, WatcherSound, Row
    <3>3. ~Inserted(EffectOf[x])
      <4>1. SUFFICES ASSUME NEW y \in Execs, Admission(y) PROVE FALSE
        BY DEF Inserted
      <4>2. Reserved(y)' /\ EffectOf[y] # None
        BY <4>1, AdmissionReserves, ExecutionsAssumption, ValuesAssumption DEF IInv
      <4> QED BY <4>2, <1>1 DEF Reserved, FencedBy, Unfenced
    <3>4. ~Executed(EffectOf[x])
      <4>1. SUFFICES ASSUME NEW y \in Execs, Writer(ex[y]) PROVE FALSE
        BY DEF Executed
      <4>2. Reserved(y) /\ EffectOf[y] # None
        BY <4>1, ExecutionsAssumption, ValuesAssumption DEF IInv, WritersReserve
      <4> QED BY <4>2, <3>1 DEF Reserved, FencedBy, Unfenced
    <3>5. ~Recovered(EffectOf[x])
      BY <3>2, <2>a DEF Recovered, IInv, RecoverySound, InRecovery, Uncommitted
    <3> QED BY <3>2, <3>3, <3>4, <3>5, <2>a, RowChanges
  <2> QED BY <1>1, <2>1, <2>2, WatchSteps
<1> QED BY <1>1 DEF WatcherSound, HeldBy, Unfenced, Uncommitted, Row

-----------------------------------------------------------------------------
(* The file *)

\* Such a call is a writer's, before its bytes are in, and shows in its record.
LEMMA FileWriter ==
    ASSUME IInv, NEW x \in Execs, WritesFile(x)
    PROVE  /\ Writer(ex[x]) /\ ~ex[x].wrote /\ ex'[x] # ex[x]
           /\ ex[x].pc \notin {"capture", "preimage", "mark", "tombstone", "finish"}
           /\ At(x, "write") => ex'[x].pc = "writing"
<1>a. ex \in [Execs -> Exec] /\ ex[x] \in Exec /\ Shaped(ex[x])
  BY DEF IInv, TypeOK
<1>1. CASE WriteBegins(x)
  BY <1>1, <1>a DEF WriteBegins, At, Shaped, Writer, Reserving, Exec
<1>2. CASE WriteEnds(x)
  BY <1>2, <1>a DEF WriteEnds, At, Goto, Shaped, Writer, Reserving, Exec
<1>3. CASE Restore(x) \/ RestoreEnds(x)
  BY <1>3, <1>a DEF Restore, RestoreEnds, At, Goto, Shaped, Writer, Reserving, Exec
<1>4. CASE LateWrite(x)
  <2>1. ex[x].late \in Contents /\ ex'[x].late = None /\ ex[x].late # None
    BY <1>4, <1>a, ValuesAssumption DEF LateWrite, Exec
  <2> QED BY <2>1, <1>a DEF At, Shaped, Writer
<1> QED BY <1>1, <1>2, <1>3, <1>4 DEF WritesFile

\* While an execution may still write, only it changes the file.
LEMMA OnlyTheWriter ==
    ASSUME IInv, [Next]_vars, NEW x \in Execs, Writer(ex[x]), file' # file
    PROVE  WritesFile(x)
<1>1. ASSUME NEW o \in Outside, OutsideWrites(o) PROVE FALSE
  <2>1. HeldBy(o) /\ HeldBy(x)
    BY <1>1 DEF OutsideWrites, Live, IInv, WritersReserve, Reserved
  <2> QED BY <2>1, ValuesAssumption DEF HeldBy
<1>2. ASSUME NEW y \in Execs, WritesFile(y) PROVE WritesFile(x)
  BY <1>2, FileWriter, OneWriter
<1> QED BY <1>1, <1>2, FileSteps

\* While an execution stays where it does not write, the file stays.
LEMMA FileStays ==
    ASSUME IInv, [Next]_vars, NEW x \in Execs,
           ex[x].pc \in {"capture", "preimage", "write", "mark", "tombstone", "finish"},
           ex'[x] = ex[x]
    PROVE  file' = file
<1>1. Writer(ex[x])
  BY DEF Writer, Reserving
<1>2. SUFFICES ASSUME file' # file PROVE FALSE
  OBVIOUS
<1>3. WritesFile(x)
  BY <1>1, <1>2, OnlyTheWriter
<1> QED BY <1>3, FileWriter

\* How an execution comes to each place up to the end of a rollback
LEMMA ComesTo ==
    ASSUME IInv, [Next]_vars, NEW x \in Execs
    PROVE  /\ ex'[x].pc = "capture" => ex'[x] = ex[x] \/ (Admit(x) /\ Admission(x))
           /\ ex'[x].pc = "preimage" => ex'[x] = ex[x] \/ Capture(x)
           /\ ex'[x].pc = "write" => ex'[x] = ex[x] \/ RecordPreImage(x)
           /\ ex'[x].pc = "writing" => ex'[x] = ex[x] \/ WriteBegins(x)
           /\ ex'[x].pc = "restore" => ex'[x] = ex[x] \/ OpenFails(x) \/ WriteEnds(x)
           /\ ex'[x].pc = "restoring" => ex'[x] = ex[x] \/ Restore(x)
           /\ ex'[x].pc = "mark" => ex'[x] = ex[x] \/ WriteEnds(x)
           /\ ex'[x].pc = "tombstone" => ex'[x] = ex[x] \/ Restore(x) \/ RestoreEnds(x)
<1>a. ex \in [Execs -> Exec] /\ ex[x] \in Exec
  BY DEF IInv, TypeOK
<1>1. CASE ex'[x] = ex[x]
  BY <1>1
<1>2. CASE FaultStep(x) \/ NodeCrash
  BY <1>2, FaultsStop DEF Busy
<1>3. CASE ExecStep(x)
  <2> DEFINE Place == {"capture", "preimage", "write", "writing", "restore", "restoring", "mark",
                       "tombstone"}
  <2>1. CASE \/ LookupFresh(x) \/ LookupAnswers(x) \/ Acquire(x) \/ AcquireRefused(x)
             \/ StartWatcher(x) \/ Veto(x) \/ CheckCustody(x) \/ AdmitRefused(x)
    <3>1. ex'[x].pc \notin Place
      BY <2>1, <1>a DEF LookupFresh, LookupAnswers, Acquire, AcquireRefused, StartWatcher,
         Veto, CheckCustody, AdmitRefused, Goto, End, Exec
    <3> QED BY <3>1
  <2>2. CASE Admit(x)
    <3>1. ex'[x].pc = "capture" => Admission(x)
      BY <2>2, <1>a DEF Admit, Exec
    <3>2. ex'[x].pc \notin Place \ {"capture"}
      BY <2>2, <1>a DEF Admit, Exec
    <3> QED BY <2>2, <3>1, <3>2
  <2>3. CASE Capture(x)
    <3>1. ex'[x].pc = "preimage"
      BY <2>3, <1>a DEF Capture, Exec
    <3> QED BY <2>3, <3>1
  <2>4. CASE RecordPreImage(x)
    <3>1. ex'[x].pc \in {"write", "finish"}
      BY <2>4, <1>a DEF RecordPreImage, Goto, End, Exec
    <3> QED BY <2>4, <3>1
  <2>5. CASE OpenFails(x) \/ WriteBegins(x)
    <3>1. ex'[x].pc = IF OpenFails(x) THEN "restore" ELSE "writing"
      <4>1. OpenFails(x) => ex'[x].pc = "restore"
        BY <1>a DEF OpenFails, Goto, Exec
      <4>2. WriteBegins(x) => ex'[x].pc = "writing"
        BY <1>a DEF WriteBegins, Exec
      <4> QED BY <2>5, <4>1, <4>2
    <3> QED BY <2>5, <3>1
  <2>6. CASE WriteEnds(x)
    <3>1. ex'[x].pc \in {"mark", "restore"}
      BY <2>6, <1>a DEF WriteEnds, Goto, Exec
    <3> QED BY <2>6, <3>1
  <2>7. CASE Restore(x)
    <3>1. ex'[x].pc \in {"restoring", "tombstone", "quarantine"}
      BY <2>7, <1>a DEF Restore, Goto, Exec
    <3> QED BY <2>7, <3>1
  <2>8. CASE RestoreEnds(x)
    <3>1. ex'[x].pc \in {"tombstone", "quarantine"}
      BY <2>8, <1>a DEF RestoreEnds, Goto, Exec
    <3> QED BY <2>8, <3>1
  <2>9. CASE \/ MarkCommitted(x) \/ Tombstone(x) \/ Quarantine(x) \/ Finish(x) \/ Record(x)
             \/ Disarm(x) \/ Release(x)
    <3>1. ex'[x].pc \notin Place
      BY <2>9, <1>a DEF MarkCommitted, MarkUnknown, Tombstone, Quarantine, AfterQuarantine,
         Finish, Record, Disarm, Release, Goto, End, Exec
    <3> QED BY <3>1
  <2> HIDE DEF Place
  <2> QED BY <1>3, <2>1, <2>2, <2>3, <2>4, <2>5, <2>6, <2>7, <2>8, <2>9 DEF ExecStep
<1> QED BY <1>1, <1>2, <1>3, Mover

LEMMA FileFollowsStep == ASSUME IInv, [Next]_vars PROVE FileFollows'
<1>1. ASSUME NEW x \in Execs
      PROVE  /\ ex'[x].pc \in {"capture", "preimage", "write", "tombstone"} =>
                    file' = ex'[x].found
             /\ ex'[x].pc \in {"preimage", "write", "writing", "restore", "restoring"} =>
                    ex'[x].pre \in {ex'[x].found, Unreadable}
             /\ ex'[x].pc = "mark" => file' = ContentOf[x]
             /\ ex'[x].pc = "finish" =>
                    file' = IF ex'[x].outcome = "committed" THEN ContentOf[x] ELSE ex'[x].found
  <2> DEFINE Follows ==
        /\ ex[x].pc \in {"capture", "preimage", "write", "tombstone"} => file = ex[x].found
        /\ ex[x].pc \in {"preimage", "write", "writing", "restore", "restoring"} =>
               ex[x].pre \in {ex[x].found, Unreadable}
        /\ ex[x].pc = "mark" => file = ContentOf[x]
        /\ ex[x].pc = "finish" =>
               file = IF ex[x].outcome = "committed" THEN ContentOf[x] ELSE ex[x].found
  <2>a. ex \in [Execs -> Exec] /\ ex[x] \in Exec /\ Shaped(ex[x]) /\ Follows
    BY DEF IInv, TypeOK, FileFollows, At
  <2>1. CASE ex'[x] = ex[x]
    BY <2>1, <2>a, FileStays
  <2>2. CASE Admit(x) /\ Admission(x)
    BY <2>2, <2>a DEF Admit, Exec
  <2>3. CASE Capture(x)
    <3>1. PICK q \in {file, Unreadable} :
              ex' = [ex EXCEPT ![x].pc = "preimage", ![x].pre = q]
      BY <2>3 DEF Capture
    <3>2. /\ ex'[x].pre = q /\ ex'[x].found = ex[x].found /\ ex'[x].pc = "preimage"
          /\ file' = file /\ ex[x].pc = "capture"
      BY <3>1, <2>3, <2>a DEF Capture, At, Exec
    <3> QED BY <3>2, <2>a
  <2>4. CASE RecordPreImage(x) \/ OpenFails(x)
    <3>1. /\ ex'[x].pre = ex[x].pre /\ ex'[x].found = ex[x].found /\ file' = file
          /\ ex[x].pc \in {"preimage", "write"}
          /\ ex'[x].pc \in {"write", "restore", "finish"}
          /\ ex'[x].pc = "finish" => ex'[x].outcome = "not_captured"
      BY <2>4, <2>a DEF RecordPreImage, OpenFails, Goto, End, At, Exec
    <3> QED BY <3>1, <2>a
  <2>5. CASE WriteBegins(x) \/ WriteEnds(x)
    <3>1. /\ ex'[x].pre = ex[x].pre /\ ex'[x].found = ex[x].found
          /\ ex[x].pc \in {"write", "writing"}
          /\ ex'[x].pc \in {"writing", "restore", "mark"}
          /\ ex'[x].pc = "mark" => file' = ContentOf[x]
      BY <2>5, <2>a DEF WriteBegins, WriteEnds, Goto, At, Exec
    <3> QED BY <3>1, <2>a
  <2>6. CASE Restore(x)
    <3>1. /\ ex'[x].pre = ex[x].pre /\ ex'[x].found = ex[x].found /\ ex[x].pc = "restore"
          /\ ex'[x].pc \in {"restoring", "tombstone", "quarantine"}
          /\ ex'[x].pc = "tombstone" => file' = ex[x].pre /\ ex[x].pre # Unreadable
      BY <2>6, <2>a, ValuesAssumption DEF Restore, AfterRemoval, Goto, At, Exec
    <3> QED BY <3>1, <2>a
  <2>7. CASE RestoreEnds(x)
    <3>1. /\ ex'[x].pre = ex[x].pre /\ ex'[x].found = ex[x].found /\ ex[x].pc = "restoring"
          /\ ex'[x].pc \in {"tombstone", "quarantine"}
          /\ ex'[x].pc = "tombstone" => file' = ex[x].pre
      BY <2>7, <2>a DEF RestoreEnds, Goto, At, Exec
    <3>2. ex[x].pre # Unreadable
      BY <3>1, <2>a, ValuesAssumption DEF Shaped
    <3> QED BY <3>1, <3>2, <2>a
  <2>8. CASE MarkCommitted(x) /\ ex'[x].outcome = "committed" /\ ex'[x].pc = "finish"
    BY <2>8, <2>a DEF MarkCommitted, At
  <2>9. CASE Tombstone(x)
    <3>1. /\ ex'[x].found = ex[x].found /\ file' = file /\ ex[x].pc = "tombstone"
          /\ ex'[x].pc = "finish" /\ ex'[x].outcome = "rolled_back"
      BY <2>9, <2>a DEF Tombstone, End, At, Exec
    <3> QED BY <3>1, <2>a
  <2> QED BY <2>1, <2>2, <2>3, <2>4, <2>5, <2>6, <2>7, <2>8, <2>9, ComesTo, FinishSteps
<1> QED BY <1>1 DEF FileFollows, At

\* A fence is set by an admission.
LEMMA FenceSteps ==
    ASSUME IInv, [Next]_vars, custody'[Surface] # None, custody'[Surface].fence # None
    PROVE  \/ custody[Surface] # None /\ custody[Surface].fence # None
           \/ \E x \in Execs : (Admit(x) \/ LateAdmission(x)) /\ Admission(x) /\ ex'[x].admitted
<1>a. custody \in [{Surface} -> Custody!Grant \cup {None}] /\ ex \in [Execs -> Exec]
  BY DEF IInv, TypeOK
<1>1. CASE UNCHANGED custodyVars
  BY <1>1 DEF custodyVars
<1>2. ASSUME NEW g \in Grants, TakeSurface(g) PROVE FALSE
  BY <1>2, <1>a DEF TakeSurface
<1>3. ASSUME NEW x \in Execs, Admit(x) \/ LateAdmission(x), Admission(x), ~UNCHANGED custodyVars
      PROVE  ex'[x].admitted
  BY <1>3, <1>a DEF Admit, LateAdmission, Exec
<1>4. ASSUME NEW x \in Execs, Retires(x) PROVE FALSE
  <2>1. custody'[Surface] = [custody[Surface] EXCEPT !.fence = None]
        /\ custody[Surface] \in Custody!Grant
    BY <1>4, <1>a DEF Retires, Custody!Retire, HeldBy
  <2> QED BY <2>1 DEF Custody!Grant
<1>5. CASE Custody!Vacate(Surface)
  BY <1>5, <1>a DEF Custody!Vacate
<1>6. CASE Custody!Prolong(Surface)
  <2>1. /\ custody[Surface] # None /\ custody[Surface] \in Custody!Grant
        /\ custody'[Surface] = [custody[Surface] EXCEPT !.expires = custody'[Surface].expires]
    BY <1>6, <1>a DEF Custody!Prolong, Custody!Held
  <2>2. custody'[Surface].fence = custody[Surface].fence
    BY <2>1 DEF Custody!Grant
  <2> QED BY <2>1, <2>2
<1>7. CASE Custody!Pass
  BY <1>7 DEF Custody!Pass
<1>8. ASSUME NEW y \in Execs, ExecStep(y) \/ FaultStep(y)
      PROVE  \/ UNCHANGED custodyVars \/ TakeSurface(y) \/ Retires(y) \/ Custody!Vacate(Surface)
             \/ (Admit(y) \/ LateAdmission(y)) /\ Admission(y)
  BY <1>8 DEF ExecStep, FaultStep, LookupFresh, LookupAnswers, Acquire, AcquireRefused,
     StartWatcher, Veto, CheckCustody, Admit, AdmitRefused, Capture, RecordPreImage, OpenFails,
     WriteBegins, WriteEnds, MarkCommitted, Restore, RestoreEnds, Tombstone, Quarantine, Finish,
     Retires, Record, Disarm, Release, ReleaseOwn, Dies, LateAdmission, LateWrite, WatcherReads,
     WatcherReleases, WatcherFails, custodyVars
<1> QED
  BY <1>1, <1>2, <1>3, <1>4, <1>5, <1>6, <1>7, <1>8 DEF Next, vars, custodyVars, NodeCrash, Scan,
     Reconcile, PersistOutcome, OutsideTakes, OutsideWrites, LeaseEnds, Renewed, Tick, Grants

\* The surface comes to be reserved by an admission.
LEMMA FencedByAdmittedStep == ASSUME IInv, [Next]_vars PROVE FencedByAdmitted'
<1>1. ASSUME custody'[Surface] # None, custody'[Surface].fence # None
      PROVE  \E x \in Execs : ex'[x].admitted /\ Reserved(x)'
  <2>1. ASSUME NEW x \in Execs, ex[x].admitted, Reserved(x)
        PROVE  \E y \in Execs : ex'[y].admitted /\ Reserved(y)'
    <3>1. ex'[x].admitted
      BY <2>1, AdmittedSteps
    <3>2. ~Retires(x)
      <4>1. SUFFICES ASSUME Retires(x) PROVE FALSE
        OBVIOUS
      <4>2. custody' = [custody EXCEPT ![Surface].fence = None]
            /\ custody[Surface] \in Custody!Grant
        BY <4>1 DEF Retires, HeldBy, Custody!Retire, IInv, TypeOK
      <4>3. custody'[Surface].fence = None
        BY <4>2 DEF Custody!Grant, IInv, TypeOK
      <4> QED BY <4>3, <1>1
    <3> QED BY <2>1, <3>1, <3>2, ReservedStays DEF IInv
  <2>2. ASSUME NEW x \in Execs, Admit(x) \/ LateAdmission(x), Admission(x), ex'[x].admitted
        PROVE  \E y \in Execs : ex'[y].admitted /\ Reserved(y)'
    BY <2>2, AdmissionReserves DEF IInv
  <2> QED BY <1>1, <2>1, <2>2, FenceSteps DEF IInv, FencedByAdmitted
<1> QED BY <1>1 DEF FencedByAdmitted, Reserved, HeldBy, FencedBy

-----------------------------------------------------------------------------
(* Custody of an effect whose outcome is unknown *)

\* An execution opens the file to write it or to restore it.
LEMMA TouchedSteps ==
    ASSUME IInv, [Next]_vars, NEW x \in Execs, ex'[x].touched
    PROVE  ex[x].touched \/ ex'[x].pc \in {"writing", "restoring"}
<1>a. ex \in [Execs -> Exec] /\ ex[x] \in Exec
  BY DEF IInv, TypeOK
<1>1. CASE ex'[x] = ex[x]
  BY <1>1
<1>2. CASE ExecStep(x)
  <2>1. CASE \/ LookupFresh(x) \/ LookupAnswers(x) \/ Acquire(x) \/ AcquireRefused(x)
             \/ StartWatcher(x) \/ Veto(x) \/ CheckCustody(x) \/ Admit(x) \/ AdmitRefused(x)
    BY <2>1, <1>a DEF LookupFresh, LookupAnswers, Acquire, AcquireRefused, StartWatcher,
       Veto, CheckCustody, Admit, AdmitRefused, Goto, End, Exec
  <2>2. CASE \/ Capture(x) \/ RecordPreImage(x) \/ OpenFails(x) \/ WriteBegins(x)
             \/ WriteEnds(x) \/ MarkCommitted(x)
    BY <2>2, <1>a DEF Capture, RecordPreImage, OpenFails, WriteBegins, WriteEnds,
       MarkCommitted, MarkUnknown, Goto, End, Exec
  <2>3. CASE \/ Restore(x) \/ RestoreEnds(x) \/ Tombstone(x) \/ Quarantine(x)
             \/ Finish(x) \/ Record(x) \/ Disarm(x) \/ Release(x)
    BY <2>3, <1>a DEF Restore, RestoreEnds, Tombstone, Quarantine, Finish, Record, Disarm,
       Release, Goto, End, Exec
  <2> QED BY <1>2, <2>1, <2>2, <2>3 DEF ExecStep
<1>3. CASE FaultStep(x)
  BY <1>3, <1>a DEF FaultStep, Dies, LateAdmission, LateWrite, WatcherReads, WatcherReleases,
     WatcherFails, Exec
<1>4. CASE NodeCrash
  BY <1>4, CrashRecords
<1> QED BY <1>1, <1>2, <1>3, <1>4, Mover

\* Past its reservation an execution that opened the file decides nothing more.
LEMMA OutcomeStays ==
    ASSUME IInv, [Next]_vars, NEW x \in Execs, ex[x].touched, ~Writer(ex[x])
    PROVE  ex'[x].outcome = ex[x].outcome
<1>a. ex \in [Execs -> Exec] /\ ex[x] \in Exec /\ Shaped(ex[x])
  BY DEF IInv, TypeOK
<1>b. ex[x].pc \notin Before \cup Reserving
  BY <1>a DEF Shaped, Writer
<1>1. CASE ex'[x] = ex[x]
  BY <1>1
<1>2. CASE ExecStep(x)
  <2>1. Record(x) \/ Disarm(x) \/ Release(x)
    BY <1>2, <1>b DEF ExecStep, LookupFresh, LookupAnswers, Acquire, AcquireRefused,
       StartWatcher, Veto, CheckCustody, Admit, AdmitRefused, Capture, RecordPreImage, OpenFails,
       WriteBegins, WriteEnds, MarkCommitted, Restore, RestoreEnds, Tombstone, Quarantine,
       Finish, At, Before, Reserving
  <2> QED BY <2>1, <1>a DEF Record, Disarm, Release, Goto, Exec
<1>3. CASE FaultStep(x)
  BY <1>3, <1>a DEF FaultStep, Dies, LateAdmission, LateWrite, WatcherReads, WatcherReleases,
     WatcherFails, Exec
<1>4. CASE NodeCrash
  BY <1>4, CrashRecords
<1> QED BY <1>1, <1>2, <1>3, <1>4, Mover

LEMMA UnknownOutcomeStep == ASSUME IInv, [Next]_vars PROVE UnknownOutcomeKeepsCustody'
<1>1. ASSUME NEW x \in Execs, ex'[x].touched, ~payload'[EffectOf[x]].committed,
             ex'[x].outcome # "rolled_back"
      PROVE  Reserved(x)'
  <2>a. /\ ex \in [Execs -> Exec] /\ ex[x] \in Exec /\ Shaped(ex[x]) /\ TypeOK
        /\ EffectOf[x] \in Effects
    BY ExecutionsAssumption DEF IInv, TypeOK
  <2>b. ~payload[EffectOf[x]].committed
    BY <1>1, <2>a, RowPersists
  <2>1. CASE Writer(ex'[x])
    BY <2>1, WritersReserveStep DEF WritersReserve, Reserved, HeldBy, FencedBy, Writer
  <2>2. CASE ~Writer(ex'[x])
    <3>1. ex[x].touched
      BY <1>1, <2>2, TouchedSteps DEF Writer, Reserving
    <3>2. CASE Writer(ex[x]) /\ ~Finish(x)
      BY <3>2, <2>a, ReservedStays DEF IInv, WritersReserve, Retires
    <3>3. ~Finish(x)
      <4>1. SUFFICES ASSUME Finish(x) PROVE FALSE
        OBVIOUS
      <4>2. ex[x].pc = "finish" /\ ex[x].outcome \in {"committed", "rolled_back"}
        BY <4>1, <3>1, <2>a DEF Finish, At, Shaped
      <4>3. ex[x].outcome = "rolled_back"
        BY <4>2, <2>b DEF IInv, RowsFollow, At, Row
      <4>4. ex'[x].outcome = "rolled_back"
        BY <4>1, <4>3, <2>a DEF Finish, Goto, End, Exec
      <4> QED BY <4>4, <1>1
    <3>4. CASE ~Writer(ex[x])
      <4>1. ex[x].outcome # "rolled_back"
        BY <1>1, <3>1, <3>4, OutcomeStays
      <4>2. Reserved(x)
        BY <4>1, <3>1, <2>b DEF IInv, UnknownOutcomeKeepsCustody, Row, Reserved
      <4> QED BY <4>2, <3>3, <2>a, ReservedStays DEF Retires
    <3> QED BY <3>2, <3>3, <3>4
  <2> QED BY <2>1, <2>2
<1> QED BY <1>1 DEF UnknownOutcomeKeepsCustody, Row, Reserved, HeldBy, FencedBy

-----------------------------------------------------------------------------
(* The invariants *)

LEMMA IInvInit == ASSUME Init PROVE IInv
<1>1. TypeOK
  <2>1. ex \in [Execs -> Exec]
    BY DEF Init, Exec, Busy, Outcomes
  <2>2. payload \in [Effects -> PayloadRow]
    BY DEF Init, NoRow, PayloadRow, RowStates
  <2> QED BY <2>1, <2>2 DEF Init, TypeOK, FileStates
<1>2. ASSUME NEW x \in Execs PROVE Shaped(ex[x]) /\ ~Writer(ex[x])
  BY <1>2, ValuesAssumption DEF Init, Shaped, Writer, Before, Reserving
<1>3. \A f \in Effects : ~InRecovery(f) /\ payload[f].state = "none" /\ ~payload[f].committed
  BY DEF Init, InRecovery, NoRow
<1>4. RowsAdmitted /\ RecoverySound
  BY <1>3 DEF Init, RowsAdmitted, RecoverySound
<1>5. RowsFollow /\ FileFollows /\ FencedByAdmitted
  BY DEF Init, RowsFollow, FileFollows, FencedByAdmitted, At, Writing
<1>6. WatcherSound /\ UnknownOutcomeKeepsCustody /\ PromotionAdmittedOnce
  BY DEF Init, WatcherSound, UnknownOutcomeKeepsCustody, PromotionAdmittedOnce
<1> QED BY <1>1, <1>2, <1>4, <1>5, <1>6 DEF IInv, WritersReserve, RecoveryApart

LEMMA IInvStep == ASSUME IInv, [Next]_vars PROVE IInv'
BY TypeStep, RecordsTyped, WritersReserveStep, RowsAdmittedStep, RowsFollowStep,
   RecoverySoundStep, RecoveryApartStep, WatcherSoundStep, FileFollowsStep,
   FencedByAdmittedStep, UnknownOutcomeStep, AdmittedOnceStep DEF IInv, Shaped

LEMMA Invariance == Spec => []IInv
<1>1. Init => IInv
  BY IInvInit
<1>2. IInv /\ [Next]_vars => IInv'
  BY IInvStep
<1> QED BY <1>1, <1>2, PTL DEF Spec

\* Every variable of the effect executor keeps to its type.
THEOREM TypeCorrect == Spec => []TypeOK
<1>1. IInv => TypeOK
  BY DEF IInv
<1> QED BY <1>1, Invariance, PTL

\* Whatever dies, expires or is forced, the surface stays reserved for an
\* execution that opened the file until its write is marked or undone.
THEOREM UnknownOutcomeStaysReserved == Spec => []UnknownOutcomeKeepsCustody
<1>1. IInv => UnknownOutcomeKeepsCustody
  BY DEF IInv
<1> QED BY <1>1, Invariance, PTL

\* An effect that gives up, because it could not record its pre-image or
\* because it rolled back, leaves the file as its admission found it.
THEOREM RejectionRestores == Spec => []RejectedLeavesFileAsFound
<1>1. IInv => RejectedLeavesFileAsFound
  BY DEF IInv, FileFollows, RejectedLeavesFileAsFound
<1> QED BY <1>1, Invariance, PTL

\* Of any number of promotions of one effect, one is ever admitted.
THEOREM OnePromotionAdmitted == Spec => []PromotionAdmittedOnce
<1>1. IInv => PromotionAdmittedOnce
  BY DEF IInv
<1> QED BY <1>1, Invariance, PTL

\* The recovery sweep never decides about a row whose executor may still write.
THEOREM RecoveryWaitsForWriters == Spec => []RecoveryNeverRacesWriter
<1>1. IInv => RecoveryNeverRacesWriter
  BY DEF IInv, RecoveryApart, RecoveryNeverRacesWriter, InRecovery, Writer, Reserving
<1> QED BY <1>1, Invariance, PTL

\* Each request that is not a promotion has an effect id of its own.
DistinctEffects == \A x, y \in Execs : EffectOf[x] = EffectOf[y] => x = y

KeptOfAdmitted == \A x \in Execs : ex[x].watch = "kept" => ex[x].admitted

\* Where no two requests share an effect id, the watcher keeps the lease of a
\* dead request only if that request's admission committed.
THEOREM WatcherKeepsForCause == ASSUME DistinctEffects PROVE Spec => []WatcherKeepsOnlyAdmitted
<1>1. Init => KeptOfAdmitted
  BY DEF Init, KeptOfAdmitted
<1>2. ASSUME IInv, KeptOfAdmitted, [Next]_vars PROVE KeptOfAdmitted'
  <2>1. ASSUME NEW x \in Execs, ex'[x].watch = "kept" PROVE ex'[x].admitted
    <3>1. ex[x].admitted => ex'[x].admitted
      BY <1>2, AdmittedSteps
    <3>2. CASE WatcherReads(x) /\ ~Uncommitted(Row(x))
      <4>1. payload[EffectOf[x]].state # "none" /\ EffectOf[x] \in Effects
        BY <3>2, ExecutionsAssumption DEF Uncommitted, Row
      <4>2. PICK y \in Execs : ex[y].admitted /\ EffectOf[y] = EffectOf[x]
        BY <1>2, <4>1 DEF IInv, RowsAdmitted
      <4>3. y = x
        BY <4>2, DistinctEffects DEF DistinctEffects
      <4> QED BY <3>1, <4>2, <4>3
    <3>3. CASE ex[x].watch = "kept"
      BY <1>2, <3>1, <3>3 DEF KeptOfAdmitted
    <3> QED BY <1>2, <2>1, <3>2, <3>3, WatchSteps
  <2> QED BY <2>1 DEF KeptOfAdmitted
<1>3. KeptOfAdmitted => WatcherKeepsOnlyAdmitted
  BY DEF KeptOfAdmitted, WatcherKeepsOnlyAdmitted
<1> QED BY <1>1, <1>2, <1>3, Invariance, PTL DEF Spec

-----------------------------------------------------------------------------
(* What a step never does *)

\* The file is changed by an outside holder under its running lease, or by the
\* execution the surface is reserved for, its process alive or dead: never by an
\* execution while somebody else holds the surface.
THEOREM FileChangesUnderCustody == Spec => WritesUnderOwnCustody
<1>1. ASSUME IInv, [Next]_vars, file' # file
      PROVE  \/ ex' = ex /\ \E o \in Outside : Live(o)
             \/ \E x \in Execs : HeldBy(x) /\ FencedBy(EffectOf[x]) /\ ex'[x] # ex[x]
  <2>1. ASSUME NEW x \in Execs, WritesFile(x)
        PROVE  HeldBy(x) /\ FencedBy(EffectOf[x]) /\ ex'[x] # ex[x]
    BY <1>1, <2>1, FileWriter DEF IInv, WritersReserve, Reserved
  <2>2. ASSUME NEW o \in Outside, OutsideWrites(o) PROVE ex' = ex /\ Live(o)
    BY <2>2 DEF OutsideWrites
  <2> QED BY <1>1, <2>1, <2>2, FileSteps
<1>2. IInv /\ [Next]_vars =>
        [file' # file =>
          \/ ex' = ex /\ \E o \in Outside : Live(o)
          \/ \E x \in Execs : HeldBy(x) /\ FencedBy(EffectOf[x]) /\ ex'[x] # ex[x]]_vars
  BY <1>1
<1> QED BY <1>2, Invariance, PTL DEF Spec, WritesUnderOwnCustody

\* An execution whose bytes are in the file never changes the file again.
THEOREM WrittenIsNeverUndone == Spec => CommitNeverUndone
<1>1. ASSUME IInv, [Next]_vars, NEW x \in Execs, ex[x].wrote, file' # file
      PROVE  ex'[x] = ex[x]
  <2>1. ASSUME NEW y \in Execs, WritesFile(y) PROVE ex'[x] = ex[x]
    <3>1. y # x
      BY <1>1, <2>1, FileWriter
    <3>2. ExecStep(y) \/ FaultStep(y)
      BY <2>1 DEF WritesFile, ExecStep, FaultStep
    <3> QED BY <1>1, <3>1, <3>2, OwnRecord
  <2>2. ASSUME NEW o \in Outside, OutsideWrites(o) PROVE ex'[x] = ex[x]
    BY <2>2 DEF OutsideWrites
  <2> QED BY <1>1, <2>1, <2>2, FileSteps
<1>2. IInv /\ [Next]_vars =>
        [\A x \in Execs : ex[x].wrote /\ file' # file => ex'[x] = ex[x]]_vars
  BY <1>1
<1> QED BY <1>2, Invariance, PTL DEF Spec, CommitNeverUndone

\* The watcher of a request that died after its write was marked does not
\* release the lease.
THEOREM CommittedCrashKeepsLease == Spec => CommittedCrashHoldsLease
<1>1. ASSUME IInv, [Next]_vars, NEW x \in Execs, At(x, "dead"), Row(x).committed, HeldBy(x),
             custody'[Surface] = None, ex'[x] # ex[x]
      PROVE  FALSE
  <2>a. /\ custody[Surface] # None /\ EffectOf[x] \in Effects
        /\ ex[x].pc = "dead" /\ payload[EffectOf[x]].committed
    BY <1>1, ExecutionsAssumption DEF HeldBy, At, Row
  <2>1. custody' # custody
    BY <1>1, <2>a
  <2>2. ExecStep(x) \/ FaultStep(x)
    BY <1>1, <2>1, Mover DEF NodeCrash, custodyVars
  <2>3. WatcherReleases(x) \/ LateAdmission(x)
    BY <2>1, <2>2, <2>a DEF ExecStep, FaultStep, LookupFresh, LookupAnswers, Acquire,
       AcquireRefused, StartWatcher, Veto, CheckCustody, Admit, AdmitRefused, Capture,
       RecordPreImage, OpenFails, WriteBegins, WriteEnds, MarkCommitted, Restore, RestoreEnds,
       Tombstone, Quarantine, Finish, Record, Disarm, Release, Dies, LateWrite, WatcherReads,
       WatcherFails, At, Busy, custodyVars
  <2>4. ~Admission(x)
    BY <1>1, AdmissionReserves DEF IInv, Reserved, HeldBy
  <2>5. WatcherReleases(x)
    BY <2>1, <2>3, <2>4 DEF LateAdmission, custodyVars
  <2>6. Unfenced /\ ex[x].watch = "release"
    BY <2>1, <2>5 DEF WatcherReleases, ReleaseOwn, custodyVars
  <2>7. Uncommitted(payload[EffectOf[x]])
    BY <1>1, <2>6 DEF IInv, WatcherSound, Row
  <2> QED BY <1>1, <2>7, <2>a DEF Uncommitted, IInv, RowsAdmitted
<1>2. IInv /\ [Next]_vars =>
        [\A x \in Execs :
            At(x, "dead") /\ Row(x).committed /\ HeldBy(x) /\ custody'[Surface] = None
            => ex'[x] = ex[x]]_vars
  BY <1>1
<1> QED BY <1>2, Invariance, PTL DEF Spec, CommittedCrashHoldsLease

\* The executor, its watcher and the outside holders use the surface only as
\* SurfaceCustody lets its clients: what LeasePlane implements is all they need.
THEOREM UsesCustody == Spec => Custody!CustodySpec
<1>1. Init => Custody!CustodyInit
  BY DEF Init, Custody!CustodyInit
<1>2. [Next]_vars => [Custody!CustodyNext]_(Custody!custodyVars)
  <2>1. SUFFICES ASSUME [Next]_vars PROVE [Custody!CustodyNext]_(Custody!custodyVars)
    OBVIOUS
  <2>2. CASE UNCHANGED custodyVars
    BY <2>2 DEF custodyVars, Custody!custodyVars
  <2>3. CASE \E x \in Execs : Retires(x)
    BY <2>3 DEF Retires, Custody!CustodyNext
  <2>4. CASE CustodyStep /\ ~UNCHANGED custodyVars
    BY <2>4 DEF CustodyStep, Custody!CustodyNext
  <2> QED BY <2>1, <2>2, <2>3, <2>4, CustodySteps
<1> QED BY <1>1, <1>2, PTL DEF Spec, Custody!CustodySpec
=============================================================================
