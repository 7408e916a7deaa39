----------------------------- MODULE AgentLock -----------------------------
(***************************************************************************)
(* The file lock of one agent: src/state_locking.py, the file fallback of   *)
(* src/cache/distributed_lock.py and the sweeps of src/lock_cleanup.py.     *)
(*                                                                         *)
(* flock locks an inode, everybody else goes by the path.  A sweep unlinks  *)
(* the path of a lock file nobody holds, so an acquirer may lock an inode   *)
(* that is no longer there; the protocol is what keeps two acquirers from   *)
(* both believing that they hold the lock.                                  *)
(***************************************************************************)
EXTENDS Naturals

CONSTANTS
    Acquirers,   \* tasks inside acquire_agent_lock (sync or fcntl async)
    Fallbacks,   \* tasks inside DistributedLock._acquire_file
    Sweepers,    \* callers of cleanup_stale_locks, force_release, is_locked
    Inodes,      \* inodes of the lock directory
    NoInode,     \* no file, no descriptor
    NoClient,    \* nobody holds the flock
    MaxRetries   \* max_retries

Clients == Acquirers \cup Fallbacks \cup Sweepers

ASSUME KindsAssumption == Acquirers \cap Fallbacks = {} /\ Acquirers \cap Sweepers = {}
ASSUME NullAssumption == NoInode \notin Inodes /\ NoClient \notin Clients
ASSUME RetriesAssumption == MaxRetries \in Nat \ {0}

VARIABLES
    path,    \* the inode {agent_id}.lock names
    owner,   \* owner[i]: the client whose descriptor has the flock of inode i
    fd,      \* fd[c]: the inode the descriptor of client c is open on
    pc,      \* pc[c]: the call client c is about to make
    tries,   \* tries[c]: the acquirer's attempt, `attempt' + 1
    stranded \* history: clients whose file went with its directory

vars == <<path, owner, fd, pc, tries, stranded>>

Steps == {"idle", "probe", "probe_lock", "probed", "unlink", "probe_close",
          "open", "lock", "check", "held"}

TypeOK ==
    /\ path \in Inodes \cup {NoInode}
    /\ owner \in [Inodes -> Clients \cup {NoClient}]
    /\ fd \in [Clients -> Inodes \cup {NoInode}]
    /\ pc \in [Clients -> Steps]
    /\ tries \in [Clients -> 1 .. MaxRetries]
    /\ stranded \in SUBSET Clients

Init ==
    /\ path = NoInode
    /\ owner = [i \in Inodes |-> NoClient]
    /\ fd = [c \in Clients |-> NoInode]
    /\ pc = [c \in Clients |-> "idle"]
    /\ tries = [c \in Clients |-> 1]
    /\ stranded = {}

-----------------------------------------------------------------------------
(* The kernel.                                                             *)

\* A descriptor keeps its inode: a new file gets one that neither the path
\* nor a descriptor refers to.
Fresh(i) == i # path /\ \A c \in Clients : fd[c] # i

\* The flock can be taken without blocking.
Free(i) == owner[i] = NoClient

\* Closing the last descriptor releases the flock it has.
Closed(c) ==
    /\ stranded' = stranded \ {c}
    /\ owner' = [i \in Inodes |-> IF owner[i] = c THEN NoClient ELSE owner[i]]
    /\ fd' = [fd EXCEPT ![c] = NoInode]

At(c, step) == pc[c] = step
Goto(c, step) == pc' = [pc EXCEPT ![c] = step]

\* Those that have compared their inode with the path's and rely on it.
Relying == {c \in Clients : pc[c] \in {"unlink", "held"} /\ fd[c] = path}

\* Fault: having the flock is taken as having the file.
HoldsCurrentInode_Always(c) == TRUE

\* fstat of the descriptor and stat of the path agree.
HoldsCurrentInode(c) == path = fd[c]

-----------------------------------------------------------------------------
(* remove_lock_file_if_free: open without creating, flock without blocking, *)
(* check that the inode is still the one at the path, unlink, unlock.       *)

\* Where a client goes on after its probe: an acquirer opens the file.
AfterProbe(c) == IF c \in Acquirers THEN "open" ELSE "idle"

ProbeOpen(c) ==
    /\ At(c, "probe")
    /\ \/ /\ path # NoInode
          /\ fd' = [fd EXCEPT ![c] = path]
          /\ Goto(c, "probe_lock")
       \/ /\ path = NoInode
          /\ Goto(c, AfterProbe(c))
          /\ UNCHANGED fd
    /\ UNCHANGED <<path, owner, tries, stranded>>

\* Fault: a lock file is stale by what it says of its holder, held or not.
ProbeLock_AnyHolder(c) ==
    /\ At(c, "probe_lock")
    /\ owner' = [owner EXCEPT ![fd[c]] = IF Free(fd[c]) THEN c ELSE @]
    /\ Goto(c, "probed")
    /\ UNCHANGED <<path, fd, tries, stranded>>

ProbeLock(c) ==
    /\ At(c, "probe_lock")
    /\ \/ /\ Free(fd[c])
          /\ owner' = [owner EXCEPT ![fd[c]] = c]
          /\ Goto(c, "probed")
       \/ /\ ~Free(fd[c])
          /\ Goto(c, "probe_close")
          /\ UNCHANGED owner
    /\ UNCHANGED <<path, fd, tries, stranded>>

\* The probe does not unlink: a dry run, is_locked, a file touched too
\* recently, an unlink that is refused.
ProbeKeep(c) ==
    /\ At(c, "probed")
    /\ Goto(c, "probe_close")
    /\ UNCHANGED <<path, owner, fd, tries, stranded>>

\* Fault: the probe's lock is given up before the file is removed.
ProbeCheck_Unlocks(c) ==
    /\ At(c, "probed")
    /\ owner' = [i \in Inodes |-> IF owner[i] = c THEN NoClient ELSE owner[i]]
    /\ Goto(c, IF HoldsCurrentInode(c) THEN "unlink" ELSE "probe_close")
    /\ UNCHANGED <<path, fd, tries, stranded>>

ProbeCheck(c) ==
    /\ At(c, "probed")
    /\ Goto(c, IF HoldsCurrentInode(c) THEN "unlink" ELSE "probe_close")
    /\ UNCHANGED <<path, owner, fd, tries, stranded>>

\* unlink(missing_ok=True) goes by the path, whatever it names by now.
Unlink(c) ==
    /\ At(c, "unlink")
    /\ path' = NoInode
    /\ Goto(c, "probe_close")
    /\ stranded' = IF c \in stranded THEN stranded \cup Relying ELSE stranded
    /\ UNCHANGED <<owner, fd, tries>>

ProbeClose(c) ==
    /\ At(c, "probe_close")
    /\ Closed(c)
    /\ Goto(c, AfterProbe(c))
    /\ UNCHANGED <<path, tries>>

-----------------------------------------------------------------------------
(* Acquisition.                                                            *)

\* An acquirer cleans before it opens; the fallback opens at once.
Start(c) ==
    /\ At(c, "idle")
    /\ Goto(c, IF c \in Fallbacks THEN "open" ELSE "probe")
    /\ tries' = [tries EXCEPT ![c] = 1]
    /\ UNCHANGED <<path, owner, fd, stranded>>

\* os.open(O_CREAT): the file at the path, or a new one.
Open(c) ==
    /\ At(c, "open")
    /\ \/ path # NoInode /\ path' = path
       \/ path = NoInode /\ \E i \in Inodes : Fresh(i) /\ path' = i
    /\ fd' = [fd EXCEPT ![c] = path']
    /\ Goto(c, "lock")
    /\ UNCHANGED <<owner, tries, stranded>>

Lock(c) ==
    /\ At(c, "lock")
    /\ Free(fd[c])
    /\ owner' = [owner EXCEPT ![fd[c]] = c]
    /\ Goto(c, "check")
    /\ UNCHANGED <<path, fd, tries, stranded>>

\* A lock that guards the file at the path admits; one on an orphan does not.
Check(c) ==
    /\ At(c, "check")
    /\ HoldsCurrentInode(c)
    /\ Goto(c, "held")
    /\ UNCHANGED <<path, owner, fd, tries, stranded>>

\* Fault: one attempt too many.
RetryOrGiveUp_OffByOne(c) ==
    \/ /\ c \in Acquirers /\ tries[c] <= MaxRetries
       /\ Goto(c, "probe")
       /\ tries' = [tries EXCEPT ![c] = @ + 1]
    \/ /\ c \in Fallbacks \/ tries[c] = MaxRetries
       /\ Goto(c, "idle")
       /\ UNCHANGED tries

\* Where a try whose time is up leads: an acquirer with retries left cleans up
\* and starts another attempt, otherwise LockTimeoutError.
RetryOrGiveUp(c) ==
    \/ /\ c \in Acquirers /\ tries[c] < MaxRetries
       /\ Goto(c, "probe")
       /\ tries' = [tries EXCEPT ![c] = @ + 1]
    \/ /\ c \in Fallbacks \/ tries[c] = MaxRetries
       /\ Goto(c, "idle")
       /\ UNCHANGED tries

Reopen(c) == Goto(c, "open") /\ UNCHANGED tries

CheckOrphan(c) ==
    /\ At(c, "check")
    /\ ~HoldsCurrentInode(c)
    /\ Closed(c)
    /\ Reopen(c) \/ RetryOrGiveUp(c)
    /\ UNCHANGED path

\* A held lock: an acquirer keeps its descriptor until its time is up, the
\* fallback closes it and opens the path again.
Contended(c) ==
    /\ At(c, "lock")
    /\ ~Free(fd[c])
    /\ Closed(c)
    /\ (c \in Fallbacks /\ Reopen(c)) \/ RetryOrGiveUp(c)
    /\ UNCHANGED path

\* The body ended, raised or was cancelled.
Release(c) ==
    /\ At(c, "held")
    /\ Closed(c)
    /\ Goto(c, "idle")
    /\ UNCHANGED <<path, tries>>

\* The process dies: the kernel closes its descriptors.
Crash(c) ==
    /\ ~At(c, "idle")
    /\ Closed(c)
    /\ Goto(c, "idle")
    /\ UNCHANGED <<path, tries>>

\* A deploy or `git clean' removes the directory, whoever is inside; the next
\* open creates both again (_ensure_lock_dir).
DirRemoved ==
    /\ path # NoInode
    /\ path' = NoInode
    /\ stranded' = stranded \cup Relying
    /\ UNCHANGED <<owner, fd, pc, tries>>

-----------------------------------------------------------------------------

Next ==
    \/ \E c \in Clients :
          \/ Start(c) \/ Crash(c)
          \/ ProbeOpen(c) \/ ProbeLock(c) \/ ProbeKeep(c) \/ ProbeCheck(c)
          \/ Unlink(c) \/ ProbeClose(c)
          \/ Open(c) \/ Lock(c) \/ Check(c) \/ CheckOrphan(c) \/ Contended(c)
          \/ Release(c)
    \/ DirRemoved

Spec == Init /\ [][Next]_vars

-----------------------------------------------------------------------------
(* What makes the lock a lock.                                             *)

\* At most one task is inside the locked body, however acquirers of both
\* kinds, sweeps, crashes and removals of the directory interleave, not counting
\* those that such a removal took the file from: nothing can tell them, but once
\* they have left the lock excludes again (state_locking.py: only one process
\* can modify agent state at a time).
OneHolder ==
    \A c, d \in Clients \ stranded : At(c, "held") /\ At(d, "held") => c = d

\* A task inside the locked body has the flock of the file at the path, so the
\* lock it relies on is the one newcomers contend for: no sweep takes away the
\* file of a live lock, only the removal of the directory and a sweep it fell
\* into do (state_locking.py: a held lock is never removed).
HolderHasThePath ==
    \A c \in Clients \ stranded : At(c, "held") => path = fd[c] /\ owner[fd[c]] = c
=============================================================================
