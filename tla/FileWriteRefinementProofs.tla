--------------------- MODULE FileWriteRefinementProofs ---------------------
(***************************************************************************)
(* FileWriteEffect implements GovernedFile: a governed write is one        *)
(* transaction on the file, for any number of requests and whatever fails. *)
(***************************************************************************)
EXTENDS FileWriteEffectProofs

-----------------------------------------------------------------------------
(* The owner *)

LEMMA ReservedOwns ==
    ASSUME NEW x \in Execs, Reserved(x) PROVE Owner = x
BY ExecutionsAssumption, ValuesAssumption DEF Reserved, HeldBy, FencedBy, Unfenced, Owner

LEMMA ReservedOwnsNext ==
    ASSUME NEW x \in Execs, Reserved(x)' PROVE Owner' = x
BY ExecutionsAssumption, ValuesAssumption DEF Reserved, HeldBy, FencedBy, Unfenced, Owner

\* The owner is an execution that was admitted, and has the reservation.
LEMMA OwnerIs ==
    ASSUME IInv
    PROVE  \/ Owner = None
           \/ Owner \in Execs /\ Reserved(Owner) /\ ex[Owner].admitted
<1>1. ASSUME Owner # None PROVE Owner \in Execs /\ Reserved(Owner) /\ ex[Owner].admitted
  <2>1. PICK x \in Execs : ex[x].admitted /\ Reserved(x)
    BY <1>1 DEF Owner, Unfenced, IInv, FencedByAdmitted
  <2> QED BY <2>1, ReservedOwns
<1> QED BY <1>1

Admits(x) == (Admit(x) \/ LateAdmission(x)) /\ Admission(x) /\ ex'[x].admitted

\* The surface comes to an owner by an admission, and leaves it by a retirement.
LEMMA OwnerSteps ==
    ASSUME IInv, [Next]_vars
    PROVE  \/ Owner' = Owner
           \/ \E x \in Execs : Admits(x)
           \/ \E x \in Execs : Retires(x)
<1>1. CASE Owner = None
  <2>1. ASSUME Owner' # None PROVE \E x \in Execs : Admits(x)
    <3>1. custody'[Surface] # None /\ custody'[Surface].fence # None
      BY <2>1 DEF Owner, Unfenced
    <3>2. ~(custody[Surface] # None /\ custody[Surface].fence # None)
      <4>1. ASSUME custody[Surface] # None, custody[Surface].fence # None PROVE FALSE
        <5>1. PICK x \in Execs : Reserved(x)
          BY <4>1 DEF IInv, FencedByAdmitted
        <5> QED BY <5>1, <1>1, ReservedOwns, ValuesAssumption
      <4> QED BY <4>1
    <3> QED BY <3>1, <3>2, FenceSteps DEF Admits
  <2> QED BY <1>1, <2>1
<1>2. CASE Owner \in Execs /\ Reserved(Owner)
  <2>1. PICK x \in Execs : x = Owner /\ Reserved(x)
    BY <1>2
  <2>2. ~Retires(x) => Reserved(x)'
    BY <2>1, ReservedStays DEF IInv
  <2> QED BY <2>1, <2>2, ReservedOwnsNext
<1> QED BY <1>1, <1>2, OwnerIs

\* While the owner stays, nobody but an outside holder of a free file changes
\* what is seen of it.
LEMMA SeenSteps ==
    ASSUME IInv, [Next]_vars, Owner' = Owner
    PROVE  \/ Seen' = Seen
           \/ /\ Owner = None /\ Seen' \in Contents
              /\ \E o \in Outside : OutsideWrites(o)
<1>1. CASE Owner = None
  <2>1. Seen = file /\ Seen' = file'
    BY <1>1 DEF Seen
  <2>2. \A x \in Execs : ~WritesFile(x)
    BY <1>1, FileWriter, ReservedOwns, ValuesAssumption DEF IInv, WritersReserve
  <2>3. CASE file' = file
    BY <2>1, <2>3
  <2>4. ASSUME NEW o \in Outside, OutsideWrites(o) PROVE Seen' \in Contents
    BY <2>1, <2>4 DEF OutsideWrites
  <2> QED BY <1>1, <2>2, <2>3, <2>4, FileSteps
<1>2. CASE Owner \in Execs /\ ex[Owner].admitted
  <2>1. PICK x \in Execs : x = Owner /\ ex[x].admitted
    BY <1>2
  <2>2. ex'[x].found = ex[x].found
    BY <2>1, AdmittedSteps, AdmissionIsFirst
  <2>3. Owner # None
    BY <1>2, ValuesAssumption
  <2> QED BY <2>1, <2>2, <2>3 DEF Seen
<1> QED BY <1>1, <1>2, OwnerIs

-----------------------------------------------------------------------------
(* The answers *)

DeclinedOutcomes ==
    {"answered", "governance_blocked", "custody_refused", "persist_failed", "promotion_consumed"}
DecidedOutcomes == {"not_captured", "committed", "deferred", "rolled_back", "rollback_failed"}

\* An outcome is reached once: before the admission, at its lost answer, or as
\* a writer; only a committed one is then retained.
LEMMA OutcomeSteps ==
    ASSUME IInv, [Next]_vars, NEW x \in Execs, ex'[x].outcome # ex[x].outcome
    PROVE  /\ ExecStep(x)
           /\ \/ Finish(x) /\ ex[x].outcome = "committed" /\ ex'[x].outcome = "retained"
              \/ Admits(x)
              \/ /\ Writer(ex[x]) /\ ex[x].outcome = "none"
                 /\ ex'[x].outcome \in DecidedOutcomes
              \/ /\ ~ex[x].admitted /\ ex[x].outcome = "none"
                 /\ ex'[x].outcome \in DeclinedOutcomes
                 /\ UNCHANGED <<file, custodyVars>>
<1>a. ex \in [Execs -> Exec] /\ ex[x] \in Exec /\ Shaped(ex[x])
  BY DEF IInv, TypeOK
<1>1. ExecStep(x)
  <2>1. ASSUME FaultStep(x) PROVE FALSE
    BY <2>1, <1>a DEF FaultStep, Dies, LateAdmission, LateWrite, WatcherReads, WatcherReleases,
       WatcherFails, Exec
  <2>2. ASSUME NodeCrash PROVE FALSE
    BY <2>2, CrashRecords
  <2> QED BY <2>1, <2>2, Mover
<1>2. CASE Finish(x)
  BY <1>1, <1>2, <1>a DEF Finish, Goto, End, Exec
<1>3. CASE Admit(x)
  BY <1>1, <1>3, <1>a DEF Admit, Admits, Exec
<1>4. CASE RecordPreImage(x) \/ MarkCommitted(x) \/ Tombstone(x) \/ Quarantine(x)
  <2>1. ex'[x].outcome \in DecidedOutcomes
    BY <1>4, <1>a DEF RecordPreImage, MarkCommitted, MarkUnknown, Tombstone, Quarantine, Goto,
       End, Exec, DecidedOutcomes
  <2>2. ex[x].pc \in Reserving \ {"finish"}
    BY <1>4 DEF RecordPreImage, MarkCommitted, Tombstone, Quarantine, At, Reserving
  <2> QED BY <1>1, <2>1, <2>2, <1>a DEF Shaped, Writer
<1>5. CASE LookupAnswers(x) \/ Veto(x) \/ CheckCustody(x) \/ AdmitRefused(x)
  <2>1. ex'[x].outcome \in DeclinedOutcomes
    BY <1>5, <1>a DEF LookupAnswers, Veto, CheckCustody, AdmitRefused, Goto, End, Exec,
       DeclinedOutcomes
  <2>2. ex[x].pc \in Before /\ UNCHANGED <<file, custodyVars>>
    BY <1>5 DEF LookupAnswers, Veto, CheckCustody, AdmitRefused, At, Before, custodyVars
  <2> QED BY <1>1, <2>1, <2>2, <1>a DEF Shaped, Reserving, Before
<1>6. CASE \/ LookupFresh(x) \/ Acquire(x) \/ AcquireRefused(x) \/ StartWatcher(x)
           \/ Capture(x) \/ OpenFails(x) \/ WriteBegins(x)
  <2>1. ex'[x].outcome = ex[x].outcome
    BY <1>6, <1>a DEF LookupFresh, Acquire, AcquireRefused, StartWatcher, Capture, OpenFails,
       WriteBegins, Goto, Exec
  <2> QED BY <2>1
<1>7. CASE \/ WriteEnds(x) \/ Restore(x) \/ RestoreEnds(x) \/ Record(x) \/ Disarm(x) \/ Release(x)
  <2>1. ex'[x].outcome = ex[x].outcome
    BY <1>7, <1>a DEF WriteEnds, Restore, RestoreEnds, Record, Disarm, Release, Goto, Exec
  <2> QED BY <2>1
<1> QED BY <1>1, <1>2, <1>3, <1>4, <1>5, <1>6, <1>7 DEF ExecStep

\* What the outcomes are to the caller
LEMMA Answers ==
    ASSUME NEW x \in Execs
    PROVE  /\ ex[x].outcome = "none" => AnswerOf(x) = "none"
           /\ ex[x].outcome \in {"committed", "deferred", "retained"} => AnswerOf(x) = "committed"
           /\ ex[x].outcome \in {"not_captured", "rolled_back", "rollback_failed"} =>
                  AnswerOf(x) = "rejected"
BY DEF AnswerOf, StatusOf

LEMMA AnswersNext ==
    ASSUME NEW x \in Execs
    PROVE  /\ ex'[x].outcome = ex[x].outcome => AnswerOf(x)' = AnswerOf(x)
           /\ ex'[x].outcome \in {"committed", "deferred", "retained"} =>
                  AnswerOf(x)' = "committed"
           /\ ex'[x].outcome \in {"not_captured", "rolled_back", "rollback_failed"} =>
                  AnswerOf(x)' = "rejected"
           /\ ex'[x].outcome \in DeclinedOutcomes => AnswerOf(x)' = "declined"
BY DEF AnswerOf, StatusOf, DeclinedOutcomes

-----------------------------------------------------------------------------
(* The steps of GovernedFile *)

Admitted == {x \in Execs : ex[x].admitted}
Given    == [x \in Execs |-> AnswerOf(x)]

LEMMA ReserveStep ==
    ASSUME IInv, [Next]_vars, NEW x \in Execs, Admits(x)
    PROVE  Governed!Reserve(x)
<1>a. ex \in [Execs -> Exec] /\ ex[x] \in Exec /\ Shaped(ex[x])
  BY DEF IInv, TypeOK
<1>1. Owner = None
  BY DEF Admits, Admission, Admissible, Owner
<1>2. ~ex[x].admitted /\ ex[x].outcome = "none"
  BY <1>a DEF Admits, Admit, LateAdmission, At, Shaped, Before, Reserving
<1>3. \A y \in Execs : ex[y].admitted => EffectOf[y] # EffectOf[x]
  BY AdmissionIsFirst DEF Admits
<1>4. Owner' = x
  BY AdmissionReserves, ReservedOwnsNext DEF Admits, IInv
<1>5. \A y \in Execs \ {x} : ex'[y] = ex[y]
  BY OwnRecord DEF Admits, ExecStep, FaultStep
<1>6. Admitted' = Admitted \cup {x}
  BY <1>5 DEF Admits, Admitted
<1>7. Seen' = Seen
  <2>1. ex'[x].found = file
    BY <1>2, AdmittedSteps DEF Admits
  <2> QED BY <1>1, <1>4, <2>1, ValuesAssumption DEF Seen
<1>8. ex'[x].outcome \in {"none", "custody_refused"}
  BY <1>2, <1>a DEF Admits, Admit, LateAdmission, Exec
<1>9. Given' = Given \/ Given' = [Given EXCEPT ![x] = "declined"]
  <2>1. AnswerOf(x)' \in {AnswerOf(x), "declined"}
    BY <1>2, <1>8, AnswersNext DEF DeclinedOutcomes
  <2>2. \A y \in Execs \ {x} : AnswerOf(y)' = AnswerOf(y)
    BY <1>5, AnswersNext
  <2> QED BY <2>1, <2>2 DEF Given
<1>10. Given[x] = "none"
  BY <1>2, Answers DEF Given
<1> QED
  BY <1>1, <1>3, <1>4, <1>6, <1>7, <1>9, <1>10
     DEF Governed!Reserve, Governed!Decided, Admitted, Given

LEMMA GiveBackStep ==
    ASSUME IInv, [Next]_vars, NEW x \in Execs, Retires(x)
    PROVE  Governed!GiveBack(x)
<1>a. ex \in [Execs -> Exec] /\ ex[x] \in Exec /\ Shaped(ex[x])
  BY DEF IInv, TypeOK
<1>1. Finish(x) /\ Reserved(x) /\ ex[x].pc = "finish"
  BY DEF Retires, Reserved, Finish, At
<1>2. Owner = x /\ Owner # None
  BY <1>1, ReservedOwns, ValuesAssumption
<1>3. Owner' = None
  <2>1. custody'[Surface] = [custody[Surface] EXCEPT !.fence = None]
        /\ custody[Surface] \in Custody!Grant
    BY DEF Retires, HeldBy, Custody!Retire, IInv, TypeOK
  <2>2. custody'[Surface].fence = None
    BY <2>1 DEF Custody!Grant
  <2> QED BY <2>2 DEF Owner, Unfenced
<1>4. \A y \in Execs \ {x} : ex'[y] = ex[y]
  BY <1>1, OwnRecord DEF ExecStep
<1>5. /\ ex'[x].admitted = ex[x].admitted /\ file' = file
      /\ \/ ex'[x].outcome = ex[x].outcome
         \/ ex[x].outcome = "committed" /\ ex'[x].outcome = "retained"
  BY <1>1, <1>a DEF Finish, Goto, End, Exec
<1>6. Admitted' = Admitted
  BY <1>4, <1>5 DEF Admitted
<1>7. Given' = Given
  <2>1. AnswerOf(x)' = AnswerOf(x)
    BY <1>5, Answers, AnswersNext
  <2>2. \A y \in Execs \ {x} : AnswerOf(y)' = AnswerOf(y)
    BY <1>4, AnswersNext
  <2> QED BY <2>1, <2>2 DEF Given
<1>8. Seen = ex[x].found /\ Seen' = file
  BY <1>2, <1>3, <1>5 DEF Seen
<1>9. file = IF ex[x].outcome = "committed" THEN ContentOf[x] ELSE ex[x].found
  BY <1>1 DEF IInv, FileFollows, At
<1>10. \/ Given[x] = "committed" /\ Seen' = ContentOf[x]
       \/ Given[x] = "rejected" /\ Seen' = Seen
  <2>1. ex[x].outcome \in {"not_captured", "committed", "rolled_back"}
    BY <1>1, <1>a DEF Shaped
  <2> QED BY <2>1, <1>8, <1>9, Answers DEF Given
<1> QED BY <1>2, <1>3, <1>6, <1>7, <1>10 DEF Governed!GiveBack, Admitted, Given

LEMMA AnswerStep ==
    ASSUME IInv, [Next]_vars, Owner' = Owner, \A y \in Execs : ~Admits(y),
           NEW x \in Execs, AnswerOf(x)' # AnswerOf(x)
    PROVE  Governed!Decide(x) \/ Governed!Decline(x)
<1>1. ex'[x].outcome # ex[x].outcome
  BY AnswersNext
<1>2. ExecStep(x)
  BY <1>1, OutcomeSteps
<1>3. \A y \in Execs \ {x} : ex'[y] = ex[y]
  BY <1>2, OwnRecord
<1>4. Admitted' = Admitted
  BY AdmittedSteps DEF Admits, Admitted
<1>5. \A a : AnswerOf(x)' = a => Given' = [Given EXCEPT ![x] = a]
  BY <1>3, AnswersNext DEF Given
<1>6. CASE Writer(ex[x]) /\ ex[x].outcome = "none" /\ ex'[x].outcome \in DecidedOutcomes
  <2>1. Owner = x /\ Owner # None
    BY <1>6, ReservedOwns, ValuesAssumption DEF IInv, WritersReserve
  <2>2. Seen' = Seen
    BY <2>1, SeenSteps
  <2>3. Given[x] = "none"
    BY <1>6, Answers DEF Given
  <2>4. AnswerOf(x)' = "committed" \/ AnswerOf(x)' = "rejected"
    BY <1>6, AnswersNext DEF DecidedOutcomes
  <2>5. Given' = [Given EXCEPT ![x] = "committed"] \/ Given' = [Given EXCEPT ![x] = "rejected"]
    BY <1>5, <2>4
  <2> QED BY <1>4, <2>1, <2>2, <2>3, <2>5 DEF Governed!Decide, Governed!Decided, Admitted, Given
<1>7. CASE /\ ~ex[x].admitted /\ ex[x].outcome = "none" /\ ex'[x].outcome \in DeclinedOutcomes
           /\ UNCHANGED <<file, custodyVars>>
  <2>1. Seen' = Seen
    <3>1. CASE Owner = None
      BY <1>7, <3>1 DEF Seen
    <3>2. CASE Owner # None
      BY <3>2, SeenSteps
    <3> QED BY <3>1, <3>2
  <2>2. Given[x] = "none" /\ x \notin Admitted
    BY <1>7, Answers DEF Given, Admitted
  <2>3. Given' = [Given EXCEPT ![x] = "declined"]
    BY <1>5, <1>7, AnswersNext
  <2> QED BY <1>4, <2>1, <2>2, <2>3 DEF Governed!Decline, Governed!Decided, Admitted, Given
<1>8. ~(ex[x].outcome = "committed" /\ ex'[x].outcome = "retained")
  BY Answers, AnswersNext
<1> QED BY <1>1, <1>6, <1>7, <1>8, OutcomeSteps

LEMMA GovernedStep ==
    ASSUME IInv, [Next]_vars PROVE [Governed!GovernedNext]_(Governed!governedVars)
<1>1. ASSUME NEW x \in Execs, Admits(x) PROVE Governed!GovernedNext
  BY <1>1, ReserveStep DEF Governed!GovernedNext
<1>2. ASSUME NEW x \in Execs, Retires(x) PROVE Governed!GovernedNext
  BY <1>2, GiveBackStep DEF Governed!GovernedNext
<1>3. CASE Owner' = Owner /\ \A x \in Execs : ~Admits(x)
  <2>1. ASSUME NEW x \in Execs, AnswerOf(x)' # AnswerOf(x) PROVE Governed!GovernedNext
    BY <1>3, <2>1, AnswerStep DEF Governed!GovernedNext
  <2>2. CASE \A x \in Execs : AnswerOf(x)' = AnswerOf(x)
    <3>1. Given' = Given
      BY <2>2 DEF Given
    <3>2. Admitted' = Admitted
      BY <1>3, AdmittedSteps DEF Admits, Admitted
    <3>3. CASE Seen' = Seen
      BY <1>3, <3>1, <3>2, <3>3 DEF Governed!governedVars, Given, Admitted
    <3>4. CASE Owner = None /\ Seen' \in Contents
      BY <1>3, <3>1, <3>2, <3>4 DEF Governed!GovernedNext, Governed!OthersWrite, Given, Admitted
    <3> QED BY <1>3, <3>3, <3>4, SeenSteps
  <2> QED BY <2>1, <2>2
<1> QED BY <1>1, <1>2, <1>3, OwnerSteps

LEMMA GovernedStart == ASSUME Init PROVE Governed!GovernedInit
<1>1. Owner = None
  BY DEF Init, Owner
<1>2. Seen \in Contents \cup {Absent}
  BY <1>1 DEF Init, Seen
<1>3. Admitted = {}
  BY DEF Init, Admitted
<1>4. Given = [x \in Execs |-> "none"]
  BY DEF Init, Given, AnswerOf
<1> QED BY <1>1, <1>2, <1>3, <1>4 DEF Governed!GovernedInit, Admitted, Given

\* The governed write is one transaction on the file, whatever processes die,
\* answers are lost, writes tear or recovery marks: whoever takes the surface
\* after it finds all of it or nothing of it, as the request was answered, and
\* no effect is carried out by two requests.
THEOREM WritesAreTransactions == Spec => RefinesGovernedFile
<1>1. Init => Governed!GovernedInit
  BY GovernedStart
<1>2. IInv /\ [Next]_vars => [Governed!GovernedNext]_(Governed!governedVars)
  BY GovernedStep
<1> QED BY <1>1, <1>2, Invariance, PTL DEF Spec, RefinesGovernedFile, Governed!GovernedSpec
=============================================================================
