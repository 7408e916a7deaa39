-------------------------- MODULE AgentLockProofs --------------------------
(***************************************************************************)
(* Mutual exclusion of AgentLock for any number of tasks, sweeps and       *)
(* inodes.                                                                 *)
(***************************************************************************)
EXTENDS AgentLock, TLAPS

\* A flock is had through an open descriptor, at the steps that rely on one.
FlocksAreOpen ==
    \A i \in Inodes, c \in Clients :
        owner[i] = c =>
            /\ fd[c] = i
            /\ pc[c] \in {"probed", "unlink", "probe_close", "check", "held"}

\* What the step of a client says of its descriptor.
StepsHaveFlock ==
    \A c \in Clients :
        /\ pc[c] \in {"probe_lock", "lock"} => fd[c] \in Inodes
        /\ pc[c] \in {"probed", "unlink", "check", "held"} =>
              fd[c] \in Inodes /\ owner[fd[c]] = c

\* Between its check and its use of it, a client's file stays at the path, unless
\* it went with its directory.
CheckedIsCurrent ==
    \A c \in Clients \ stranded : pc[c] \in {"unlink", "held"} => path = fd[c]

IInv == TypeOK /\ FlocksAreOpen /\ StepsHaveFlock /\ CheckedIsCurrent

LEMMA InitIInv == Init => IInv
<1> SUFFICES ASSUME Init PROVE IInv
  OBVIOUS
<1>1. TypeOK
  BY RetriesAssumption DEF Init, TypeOK, Steps
<1>2. FlocksAreOpen /\ StepsHaveFlock /\ CheckedIsCurrent
  BY NullAssumption DEF Init, FlocksAreOpen, StepsHaveFlock, CheckedIsCurrent
<1> QED BY <1>1, <1>2 DEF IInv

-----------------------------------------------------------------------------
(* The steps that close a descriptor and go where no flock is relied on.    *)

LEMMA CloseStep ==
    ASSUME IInv, NEW c \in Clients, Closed(c), NEW step \in {"idle", "probe", "open"},
           Goto(c, step), UNCHANGED path, tries' \in [Clients -> 1 .. MaxRetries]
    PROVE  IInv'
<1> USE DEF IInv, Closed, Goto
<1>1. TypeOK'
  BY DEF TypeOK, Steps
<1>2. FlocksAreOpen'
  BY NullAssumption DEF TypeOK, FlocksAreOpen
<1>3. StepsHaveFlock'
  BY NullAssumption DEF TypeOK, StepsHaveFlock
<1>4. CheckedIsCurrent'
  BY DEF TypeOK, CheckedIsCurrent
<1> QED BY <1>1, <1>2, <1>3, <1>4

LEMMA RetryTyped ==
    ASSUME IInv, NEW c \in Clients, Reopen(c) \/ RetryOrGiveUp(c)
    PROVE  /\ \E step \in {"idle", "probe", "open"} : Goto(c, step)
           /\ tries' \in [Clients -> 1 .. MaxRetries]
BY RetriesAssumption DEF IInv, TypeOK, Reopen, RetryOrGiveUp

(* The steps that take the flock of a free inode the descriptor is open on. *)

LEMMA LockStep ==
    ASSUME IInv, NEW c \in Clients, pc[c] \in {"probe_lock", "lock"}, Free(fd[c]),
           owner' = [owner EXCEPT ![fd[c]] = c],
           NEW step \in {"probed", "check"}, Goto(c, step),
           UNCHANGED <<path, fd, tries, stranded>>
    PROVE  IInv'
<1> USE DEF IInv, Goto, Free
<1>0. fd[c] \in Inodes
  BY DEF StepsHaveFlock
<1>1. TypeOK'
  BY <1>0 DEF TypeOK, Steps
<1>2. FlocksAreOpen'
  BY <1>0 DEF TypeOK, FlocksAreOpen
<1>3. StepsHaveFlock'
  BY <1>0, NullAssumption DEF TypeOK, StepsHaveFlock, FlocksAreOpen
<1>4. CheckedIsCurrent'
  BY DEF TypeOK, CheckedIsCurrent
<1> QED BY <1>1, <1>2, <1>3, <1>4

(* The steps that only move a client on, its flock kept or none involved.   *)

LEMMA MoveStep ==
    ASSUME IInv, NEW c \in Clients, NEW step \in Steps, Goto(c, step),
           UNCHANGED <<path, owner, fd, stranded>>, tries' \in [Clients -> 1 .. MaxRetries],
           \/ step \in {"idle", "probe", "open"} /\ pc[c] \in {"idle", "probe"}
           \/ step = "probe_close" /\ pc[c] \in {"probe_lock", "probed"}
           \/ step \in {"unlink", "held"} /\ pc[c] \in {"probed", "check"} /\ path = fd[c]
    PROVE  IInv'
<1> USE DEF IInv, Goto
<1>1. TypeOK'
  BY DEF TypeOK
<1>2. FlocksAreOpen'
  BY DEF TypeOK, FlocksAreOpen
<1>3. StepsHaveFlock'
  BY DEF TypeOK, StepsHaveFlock
<1>4. CheckedIsCurrent'
  BY DEF TypeOK, CheckedIsCurrent
<1> QED BY <1>1, <1>2, <1>3, <1>4

(* The steps that open the file at the path, created when there is none.    *)

LEMMA OpenStep ==
    ASSUME IInv, NEW c \in Clients, pc[c] \in {"probe", "open"},
           path' \in Inodes, path # NoInode => path' = path,
           fd' = [fd EXCEPT ![c] = path'], NEW step \in {"probe_lock", "lock"},
           Goto(c, step), UNCHANGED <<owner, tries, stranded>>
    PROVE  IInv'
<1> USE DEF IInv, Goto
<1>1. TypeOK'
  BY DEF TypeOK, Steps
<1>2. FlocksAreOpen'
  BY DEF TypeOK, FlocksAreOpen
<1>3. StepsHaveFlock'
  BY DEF TypeOK, StepsHaveFlock
<1>4. CheckedIsCurrent'
  BY NullAssumption DEF TypeOK, CheckedIsCurrent, StepsHaveFlock
<1> QED BY <1>1, <1>2, <1>3, <1>4

(* Two clients cannot rely on one inode, so an unlink takes nobody's file,   *)
(* except the late one of a sweep whose own file went with its directory.   *)

LEMMA UnlinkStep == ASSUME IInv, NEW c \in Clients, Unlink(c) PROVE IInv'
<1> USE DEF IInv, Unlink, At, Goto
<1>1. TypeOK'
  BY DEF TypeOK, Steps, Relying
<1>2. FlocksAreOpen'
  BY DEF TypeOK, FlocksAreOpen
<1>3. StepsHaveFlock'
  BY DEF TypeOK, StepsHaveFlock
<1>4. CheckedIsCurrent'
  <2>1. CASE c \in stranded
    BY <2>1 DEF TypeOK, CheckedIsCurrent, Relying
  <2>2. CASE c \notin stranded
    BY <2>2 DEF TypeOK, CheckedIsCurrent, StepsHaveFlock
  <2> QED BY <2>1, <2>2
<1> QED BY <1>1, <1>2, <1>3, <1>4

LEMMA DirStep == ASSUME IInv, DirRemoved PROVE IInv'
BY DEF IInv, DirRemoved, Relying, TypeOK, FlocksAreOpen, StepsHaveFlock, CheckedIsCurrent

-----------------------------------------------------------------------------

LEMMA ClientStep ==
    ASSUME IInv, NEW c \in Clients,
           \/ Start(c) \/ Crash(c)
           \/ ProbeOpen(c) \/ ProbeLock(c) \/ ProbeKeep(c) \/ ProbeCheck(c)
           \/ Unlink(c) \/ ProbeClose(c)
           \/ Open(c) \/ Lock(c) \/ Check(c) \/ CheckOrphan(c) \/ Contended(c)
           \/ Release(c)
    PROVE  IInv'
<1>t. tries \in [Clients -> 1 .. MaxRetries]
  BY DEF IInv, TypeOK
<1>1. CASE Start(c)
  <2>1. tries' \in [Clients -> 1 .. MaxRetries]
    BY <1>1, <1>t, RetriesAssumption DEF Start
  <2> QED BY <1>1, <2>1, MoveStep DEF Start, At, Steps
<1>2. CASE Crash(c) \/ Release(c)
  BY <1>2, <1>t, CloseStep DEF Crash, Release
<1>3. CASE ProbeOpen(c)
  <2>1. CASE path # NoInode
    BY <1>3, <2>1, OpenStep DEF ProbeOpen, At, IInv, TypeOK
  <2>2. CASE path = NoInode
    BY <1>3, <2>2, <1>t, MoveStep DEF ProbeOpen, At, AfterProbe, Steps
  <2> QED BY <2>1, <2>2
<1>4. CASE ProbeLock(c)
  <2>1. CASE Free(fd[c])
    BY <1>4, <2>1, LockStep DEF ProbeLock, At
  <2>2. CASE ~Free(fd[c])
    BY <1>4, <2>2, <1>t, MoveStep DEF ProbeLock, At, Steps
  <2> QED BY <2>1, <2>2
<1>5. CASE ProbeKeep(c)
  BY <1>5, <1>t, MoveStep DEF ProbeKeep, At, Steps
<1>6. CASE ProbeCheck(c)
  BY <1>6, <1>t, MoveStep DEF ProbeCheck, At, HoldsCurrentInode, Steps
<1>7. CASE Unlink(c)
  BY <1>7, UnlinkStep
<1>8. CASE ProbeClose(c)
  BY <1>8, <1>t, CloseStep DEF ProbeClose, AfterProbe
<1>9. CASE Open(c)
  <2>1. path' \in Inodes /\ (path # NoInode => path' = path)
    BY <1>9 DEF Open, IInv, TypeOK
  <2> QED BY <1>9, <2>1, OpenStep DEF Open, At
<1>10. CASE Lock(c)
  BY <1>10, LockStep DEF Lock, At
<1>11. CASE Check(c)
  BY <1>11, <1>t, MoveStep DEF Check, At, HoldsCurrentInode, Steps
<1>12. CASE CheckOrphan(c) \/ Contended(c)
  BY <1>12, RetryTyped, CloseStep DEF CheckOrphan, Contended
<1> QED BY <1>1, <1>2, <1>3, <1>4, <1>5, <1>6, <1>7, <1>8, <1>9, <1>10, <1>11, <1>12

LEMMA NextIInv == IInv /\ [Next]_vars => IInv'
<1> SUFFICES ASSUME IInv, [Next]_vars PROVE IInv'
  OBVIOUS
<1>1. CASE UNCHANGED vars
  BY <1>1 DEF vars, IInv, TypeOK, FlocksAreOpen, StepsHaveFlock, CheckedIsCurrent
<1>2. CASE Next
  BY <1>2, ClientStep, DirStep DEF Next
<1> QED BY <1>1, <1>2

LEMMA SpecIInv == Spec => []IInv
BY InitIInv, NextIInv, PTL DEF Spec

-----------------------------------------------------------------------------

\* Every reachable state of the lock protocol is well formed, for every number
\* of tasks: the first part of IInv.
THEOREM AgentLockTypeCorrect == Spec => []TypeOK
<1>1. IInv => TypeOK
  BY DEF IInv
<1> QED BY <1>1, SpecIInv, PTL

\* However many acquirers, fallbacks, sweeps, crashes and removals of the
\* directory interleave, at most one task is inside the locked body, not counting
\* those whose file a removal took away and which have not left since: two would
\* both have the file at the path (CheckedIsCurrent), and its flock has one owner.
THEOREM AgentLockExclusive == Spec => []OneHolder
<1>1. IInv => OneHolder
  BY DEF IInv, OneHolder, StepsHaveFlock, CheckedIsCurrent, At
<1> QED BY <1>1, SpecIInv, PTL

\* No sweep, acquirer or fallback removes the file of a live lock, whatever
\* their number, unless a removal of the directory or a sweep it fell into did.
THEOREM AgentLockFileStays == Spec => []HolderHasThePath
<1>1. IInv => HolderHasThePath
  BY DEF IInv, HolderHasThePath, StepsHaveFlock, CheckedIsCurrent, At
<1> QED BY <1>1, SpecIInv, PTL
=============================================================================
