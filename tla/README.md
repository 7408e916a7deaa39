# UNITARES in TLA+

A verification project for the UNITARES governance server: what its coordination
code promises, modelled from the source, checked by TLC on small instances and,
where it matters most, proved by TLAPS for every instance.

Paths below are relative to the repository root.

## 1. The system

UNITARES runs a Python MCP/HTTP server that scores agents (EISV state, risk,
calibration), stores their knowledge graph and runs dialectic reviews between
them, and a set of Elixir/OTP services that own everything concurrent: who may
touch which surface, which governed effects may run, and how a dialectic session
is resolved exactly once.  All of them meet in one PostgreSQL database.

### 1.1 Components

| component | state it keeps | operations | interacts with | hard behaviour |
|---|---|---|---|---|
| lease repository (`elixir/lease_plane/lib/unitares_lease_plane/repo.ex`, `repo/effects_and_handoffs.ex`) | `lease_plane.surface_leases`, one row per lease | acquire, renew, release, handoff, reap, reserve | every other part of the lease plane, through SQL | READ COMMITTED races, row locks, `now()` = BEGIN time, expiry |
| lease holders (`lease_holder.ex`, `lease_supervisor.ex`) | one process per local lease, a Registry | spawn, tick, renew, release, EXIT, terminate | repository, handoff server, reaper | process death at any point, stale registry, row released behind its back |
| reaper (`reaper.ex`) | the list it just read | scan, release each | repository, registry | decides from a stale read |
| handoff server (`handoff_server.ex`, `handoff_timeout.ex`) | pending offers, in memory | offer, accept, expire | repository, holders | accept racing expiry and release; restart loses offers |
| governed file writes (`governed_effect/execution.ex`, `file_write_executor.ex`, `effect_repo.ex`, `effect_recovery.ex`, `effect_reconcile.ex`) | `effects.payloads`, the audit rows that answer retries, the file | acquire, veto, admit, capture, write, compensate, finish, record, recover | repository, governance, filesystem | a crash between any two steps, retries, a slow writer outliving its TTL |
| governed spawns (`governed_effect/execution.ex`) | audit rows | veto, spawn, record | agent orchestrator | irreversible effect, retry after a lost record |
| record-only effects and promotion (`governed_effect.ex`, `governed_effect_ir.ex`) | audit rows | classify, record, promote | governance, repository | single consumption of a promotion |
| audit outbox (`audit_outbox_forwarder.ex`, `repo/messaging.ex`) | `lease_plane_events` | read a batch, forward each | `audit.tool_usage` | two forwarders, failing rows, starvation |
| topic messages (`repo/messaging.ex`, `topic_message_reaper.ex`) | `topic_messages` | send, claim, purge | agents | two pollers, bounded reply depth, expiry |
| identity attestations (`identity_binding.ex`, `repo.ex`, `identity_nonce_reaper.ex`) | consumed nonces | consume, purge | every mutating route | replay against the purge, clock skew |
| dialectic saga (`dialectic_saga.ex`, `dialectic_saga/claims.ex`, `dialectic_liveness*.ex`) | sagas, session rows | claim, resolve, commit, reclaim, update phase/reviewer | Python server, watchdogs | stale claims, fenced revisions, two resolvers |
| agent orchestrator (`elixir/agent_orchestrator`) | spawn ledger, supervised OS processes | reserve, spawn, mark started, sweep | lease plane | a retry of a spawn, a crash between reservation and spawn |
| Sentinel (`elixir/sentinel`) | event cursor, pending alarms, starvation state | poll, emit, advance, reclaim | lease plane events, findings API | cursor order against commit order, undelivered alarms |
| SDKs (`elixir/unitares_sdk`, `agents/sdk`) | remembered holder ids | acquire with recovery, reclaim, forget | lease plane over HTTP | lost responses |
| dialectic in Python (`src/dialectic_protocol.py`, `src/dialectic_db*.py`, `src/mcp_handlers/dialectic`) | session rows, transcripts | submit thesis, antithesis, verdicts; reassign, ask for a human, resolve, fail, sweep | saga, pauses | compare-and-set against a stale read, two parties speaking at once, a batch sweep |
| pauses and resolution effects (`src/db/mixins/identity.py`, `src/agent_loop_detection.py`, `src/mcp_handlers/support/pause_ttl.py`, `src/mcp_handlers/lifecycle`, `src/mcp_handlers/dialectic/resolution*.py`) | two durable copies of the status, the pause token, a cache per server, the outbox of effects | pause, expire, resume, archive; claim, mark, quarantine, acknowledge an effect | dialectic, every gate | writers that compare a generation against writers that do not, lost answers, restarts |
| agent locks (`src/state_locking.py`, `src/cache/distributed_lock.py`, `src/lock_cleanup.py`) | one lock file per agent | acquire with retries, release, sweep | every check-in | flock is on an inode, everything else goes by the path |
| knowledge graph (`src/knowledge_graph*.py`, `src/storage`) | discoveries and their status | add, supersede, archive passes | background tasks | a pass deciding from a snapshot |
| identity, sessions and lifecycle (`src/mcp_handlers`, `src/agent_lifecycle.py`, `src/identity`) | agent records, session bindings | onboard, bind | everything | concurrent binding, a stale cache |
| governance numerics (`governance_core`, `src/governance_monitor.py`, `src/calibration.py`) | floating-point state per agent | one update per check-in | check-in pipeline | numerical |
| front ends, scripts, docs, tests (`dashboard`, `elixir/portal`, `elixir/dialectic_live`, `agents`, `scripts`) | views | | | none of their own |

`PROJECT.json` lists the same components with their source files and says which
are modelled; section 11 says why the rest are not.

### 1.2 What makes the lease plane correct

* A surface never has two unreleased leases, whatever races.
* A lease that was renewed in time is never taken away for expiry, however stale
  the reader that decides.
* A released row is final; nothing late revives it or rewrites its reason.
* A handoff passes the surface to its recipient in the step that ends the old
  lease, under a pending offer that was in time when the server looked at it.
* While an admitted file write may still be running, its surface stays with the
  lease that admitted it, through crashes, expiry, force-release and handoff.
* An expired lease does not hold its surface for ever, and a holder process whose
  row is gone stops.

### 1.3 What makes a governed file write correct

* From the first byte an execution writes until its write is marked committed or
  its pre-image is back, the surface stays reserved for it, whatever dies.
* Nobody writes the file but the holder of its surface: an execution, a write
  that lands after its process died included, never while somebody else holds it.
* A write that succeeded is never compensated; one that was rejected leaves the
  file as it was found.
* Recovery marks an effect only when no execution of it can still write.
* A promotion is admitted once.
* Whoever takes the surface afterwards finds the whole write or none of it, as the
  request was answered; while that is not known nobody takes it.
* A request that died before its admission does not keep the surface.

### 1.4 What makes the agent locks correct

* At most one task is inside the locked body of an agent.
* The file it has locked is the one newcomers contend for, until it lets go.
* Both fail only for a task whose file is removed with the whole directory, and
  only until that task has left.

### 1.5 What makes a pause correct

* One generation is in force at a time and none that ended comes back.
* A verdict lifts the pause its session was opened on and no later one.
* The effect of a verdict has one worker, and is recorded as applied only when the
  generation it is about is over, whatever answer was lost.
* No server shows a token that was neither durable nor reported as not durable,
  and no job that carries an older token hides a pause in force.

### 1.6 What makes a dialectic session correct

* It is resolved on the last word, by somebody with the authority to give it, and
  never over a standing rejection of an independent reviewer.
* It is closed as a standing rejection only when the rejection does stand.
* A session that ended and asks for nobody never changes again.
* While a claim is reserved its resolver alone ends the session, and one whose
  claim was taken back ends nothing, however late it comes.
* Every session ends, although its agents fall silent or keep sending requests that
  record no message.

### 1.7 What would make the other components correct

* *Audit outbox*: each event reaches `audit.tool_usage` once, with any number of
  forwarders and a crash anywhere; a row that always fails does not starve others.
* *Topic messages*: a message is delivered to one poller of its recipient, never
  after its expiry; a chain of replies ends at depth 16.
* *Identity attestations*: a nonce is accepted once, the purge included.
* *Spawn ledger*: one idempotency key starts at most one agent, and a key whose
  spawn never started can be used again.
* *Sentinel poller*: every forced release is alarmed at least once.
* *Knowledge graph passes*: a pass that decides from a snapshot does not undo what
  an agent wrote since.
* *Sessions of identities*: one session key is bound to one agent.

The hazards, each at its line, are in `PROJECT.json` under `hazards`.

## 2. Modules

| module | what it is |
|---|---|
| `SurfaceCustody` | abstract specification: what the lease plane promises about a surface |
| `LeasePlane` | the lease table and every actor that writes it |
| `LeasePlaneRefinement` | the mapping under which `LeasePlane` implements `SurfaceCustody` |
| `MCLeasePlane` | TLC instance: the symmetry of agents, leases and requests |
| `LeasePlaneProofs` | theorems about `LeasePlane` and their proofs |
| `LeasePlaneRefinementProofs` | the proof that `LeasePlane` implements `SurfaceCustody` |
| `FileWriteEffect` | governed file writes, their watcher and recovery, on top of `SurfaceCustody` |
| `GovernedFile` | abstract specification: a governed write is one transaction on its file |
| `FileWriteEffectProofs` | theorems about `FileWriteEffect`, its use of `SurfaceCustody` included |
| `FileWriteRefinementProofs` | the proof that `FileWriteEffect` implements `GovernedFile` |
| `MCFileWriteEffect` | TLC instances: which effects, keys and contents two requests share |
| `AgentLock` | the lock file of one agent, its acquirers and the sweeps that unlink it |
| `AgentLockProofs` | theorems about `AgentLock` |
| `ReviewedPause` | abstract specification: generations of pauses and the reviews of them |
| `PauseGenerations` | the durable copies, caches and jobs that pause and release one agent |
| `PauseGenerationsProofs` | theorems about `PauseGenerations`, its refinement of `ReviewedPause` included |
| `DialecticSession` | one dialectic session: its row, its transcript, handlers, claims and the sweep |
| `DialecticSessionProofs` | theorems about `DialecticSession` |
| `MCAgentLock`, `MCPauseGenerations`, `MCDialecticSession` | TLC instances: symmetries, and a view of the dialectic's jobs |

`FileWriteEffect` composes with the lease plane through the abstract
specification: it INSTANCEs `SurfaceCustody` and acts on the surface only by its
steps (`UsesCustody`), and `ImplementsCustody` proves that `LeasePlane` takes no other
(the run `custody` shows it on a small instance).  An effect may therefore rely on
what `SurfaceCustody` promises and nothing else.  Above them stands `GovernedFile`:
what the two together promise to the next user of the file.

The three Python modules meet at two places.  `PauseGenerations` orders at most one
pause at a time because the check-in that orders it holds the agent's lock, which
is what `AgentLock` shows of the lock.  `DialecticSession` ends with the decision
committed; the same statement writes the effect's outbox row, and what becomes of
it is `PauseGenerations` (`Resolve`, `ClaimEffect` and after).

## 3. Plan

Done, in the order of what everything else stands on: the lease plane with its
abstract custody, governed file writes, agent locks, pauses and the effects of
verdicts, and dialectic sessions with their claims and their sweep.

What could come next, each as a module of its own, most valuable first:

1. `AuditOutbox` and `TopicMessages`: several forwarders and pollers with SKIP
   LOCKED, crashes between copy and mark, expiry.
2. `ForcedReleasePoller`: the order of its cursor against the order of commits.
3. `SpawnLedger` and `GovernedSpawn`, `IdentityNonces`, `AcquireRecovery` of the SDK,
   knowledge graph passes, session binding.

Every safety property that a passing run checks is proved.  What proofs could come
next: an abstract mutual exclusion for `AgentLock` and an abstract review for
`DialecticSession`, with their refinements.

## 4. The lease plane

### 4.1 State

| variable | code |
|---|---|
| `rows` | `lease_plane.surface_leases`, committed rows.  `st` stands for `released_at`, `reason` for `release_reason`, `fence` for `effect_fence` (migration 076) |
| `tx` | one database connection per request: the statement it is at, and what it has written and not committed |
| `holder` | the LeaseHolder registered for a lease, and what is in its mailbox |
| `sweep` | the list `Reaper.run/0` has read and is working through |
| `offers` | `HandoffServer` `state.pending` |
| `accepting` | the offer whose accept `HandoffServer` is serving, and when it looked at its deadline |
| `writing` | history: the lease an executor was admitted under and has not finished |
| `clock` | the clock of the database and of the BEAM, taken to agree |

### 4.2 Grain

`Repo.acquire` is the only operation whose statements another actor can fall
between with effect, so it has one action per statement: the close of expired
remote rows, the SELECT, the idempotent touch, the INSERT under its savepoint, the
COMMIT.  Under READ COMMITTED each statement sees what is committed when it
starts, plus the transaction's own writes; an UPDATE waits for a row another
transaction has written (`Locked`), and the INSERT waits for a transaction that
has touched the index entry of the surface (`IndexFree`).  All the others take one
row lock, look at the committed row again and commit: one action each.  `now()` is
the time of BEGIN, so `tx[r].now` is remembered from it; a direct heartbeat has the
same two moments (`RenewBegin`, `Renew`), so two overlapping heartbeats may commit in
either order (section 10).

An accept has two steps, because `accept_pending` looks at the offer's deadline
before it opens the transaction (`handoff_server.ex:136` and `:141`) and that may
wait for the row: `AcceptBegins`, then `AcceptHandoff` or `AcceptFails`, with the
clock running in between and `now()` anywhere in it.  The server process serves one
call at a time, so nothing else happens to its offers meanwhile.

`HolderRenew`, `Reap` and `Release` read the clock and commit in one step: between
their BEGIN and their commit they only wait for one row.  A holder
is looked up and called in one step.  An operation that fails for its own reasons
(the database is down, the audit event cannot be written) is `TxAbort`, or the
action not being taken.

### 4.3 What is abstracted

Audit events, substrate payloads (whether an idempotent acquire sent one, and so
touches the row, is an open choice), surface kinds and the registry's rules (a surface is local or it is not), handoff ids (an
offer is its lease, recipient, TTL and deadline), the reaper's LIMIT, session
evidence and authentication.  A fenced lease is freed by the operator only, and
nothing here does it.

### 4.4 Runs

| run | instance | what it shows |
|---|---|---|
| `race` | 1 remote surface, 2 agents, 2 requests, 2 leases | acquires, heartbeats, releases and the reaper racing, a retried insert included |
| `custody` | 1 remote surface, 2 agents, 2 effects, an offer, crashes | reservations against every way a row can end, handoff, and the refinement of `SurfaceCustody` |
| `live` | 1 local surface, 1 agent, holders, an offer, fair | process failures and a handoff: a closed row is never written again, by a holder, its `terminate/2` or the reaper; an expired row is freed, an orphaned holder stops |

Bounds.  Surfaces do not interact: every statement is keyed by one surface or one
lease, so one surface shows what two would (the proofs are for any number).  Two
requests are enough for each race the code handles (insert against insert, close
against heartbeat); two leases are enough for a row and its successor, and the
pool running out only stops new rows.  `Ttl` is 1 and `MaxTime` 2 or 3, so that a row can
expire, be renewed after expiry and expire again.  `MaxDepth` is 3 in the code; `race`
uses 1, a retry and then `race_storm`, and the others 0.  In `live` lease ids are used in one order
(`InOrder`, an action constraint: ids are random and mean nothing, so every behaviour it
leaves out is one it keeps with two names exchanged, for which the properties and the
fairness hold alike), and one agent hands the
lease to itself: what a handoff does to a holder is in its mailbox, whoever the
recipient is.

Fairness.  `application.ex:249-309` starts the reaper as a PeriodicWorker, a
LeaseHolder re-arms its tick in every handler, an exiting one runs `terminate/2`,
and a transaction that stalls is rolled back when its connection times out.  Those
are the weak fairness conditions, with the passing of time.  The reaper's release
waits in the queue of the row's lock, which transactions that keep taking the lock
do not overtake for ever: strong fairness.  Clients, executors and operators have
none.  `FairSpec` leaves restarts of the node out, since a node
that restarts for ever reaps nothing; the states a restart leaves behind are
reached by `TxAbort` and `HolderKilled`.

### 4.5 Proofs

`LeasePlaneProofs` proves, for any sets of surfaces, agents, leases, requests and
effects and any bounds that meet the named assumptions of `LeasePlane`:
`TypeOK`, `AtMostOneActive`, `PendingWritesSound` and `WriterExclusive` as invariants,
and `ReleasedIsFinal`, `HeartbeatWins`, `FenceHolds` and `HandoffReachesRecipient` of
every step.

The inductive invariant is

    IInv == TypeOK /\ TxShape /\ AtMostOneActive /\ PendingWritesSound /\ WriterExclusive

None of the parts stands alone.  `AtMostOneActive` is kept by a COMMIT only because
what the transaction wrote is still true of the table (`PendingWritesSound`);
that in turn is kept because every actor that would falsify it waits for the lock
(`Locked`, `IndexFree`), and because `TxShape` says at which statement a
transaction may have uncommitted rows; `WriterExclusive` needs that a fenced row is
never among the closed ones.  The proof has a lemma per kind of step: those that
change only `tx`, those that change one row, and the close, insert, commit,
handoff, reserve and finish steps one by one.  `AcceptSound`, a small invariant of
its own beside `IInv`, keeps what the server saw until the accept ends: the offer was
in time then, and is still pending.  The action properties follow from a
second case analysis, `NextRowChange`: a step leaves a row alone, fills a free one,
or changes an active one in one of the named ways.

`LeasePlaneRefinementProofs` proves `Spec => RefinesCustody`: under the mapping
that gives a surface the grant of its unreleased row, every step is a step of
`SurfaceCustody` or a stutter.  There is one lemma per abstract step
(`AcquireStep`, `VacateStep`, `ProlongStep`, `AdmitStep`, `RetireStep`, `HandOverStep`,
`WithdrawStep`), and under them lemmas on the mapping: when one row is rewritten,
when a fence is set or cleared, when a surface passes to a new row.
`AtMostOneActive` is what makes the mapping well defined, so the refinement rests
on `IInv`, strengthened to

    RInv == IInv /\ AcceptSound /\ Named

where `Named` says that rows and acquiring transactions name a surface and an agent,
which the types, with their NULLs, do not.  The one assumption added is
`NoGrantAssumption`: NULL is not a grant.

Model-checked only: the two liveness properties.

## 5. Governed file writes

### 5.1 State

| variable | code |
|---|---|
| `ex` | one `POST /v1/effects` request in execute mode: its place in `execute_file_write`, the executor's outcome, the captured pre-image, its custody watcher, and what a dead process has issued and the database or the kernel has yet to do (`late`).  `admitted`, `found` (the file at its admission), `touched` and `wrote` are history |
| `payload` | `effects.payloads` by effect id: `rollback_state`, `committed_at`, the payload's and the pre-image's bytes (the code stores hashes of both, and the pre-image) |
| `audit` | the `governed_effect.execute` row `governed_effect_by_idempotency_key` finds |
| `file` | the bytes on disk; `Torn` between truncation and the last byte |
| `orphans`, `verdict` | the sweep's list, and the row it has decided and not yet written |
| `custody`, `spent`, `clock` | the surface, as `SurfaceCustody` has it |

An execution acquires at most one lease and an outside holder is used once, so
their names stand for lease ids.

### 5.2 Grain and faults

One action per statement or file call.  A file write is two steps, and the second
may fail.  A database call may be applied and acknowledged, applied with its
answer lost, or not applied (`Calls`); where the code ignores the answer
(`set_state`, `persist_execute`) only the first and the last differ.  A request may
die at any step (`Dies`); an admission it had sent may still commit, and a file
write it had issued may still land, as long as the machine is up.  `NodeCrash` ends
every request and watcher and restarts the sweep.

`AfterQuarantine`: the executor retires its reservation after every outcome but
a rollback that failed and a mark it is not sure of; `Holds` says which outcomes keep the
lease in `custody_after`.  The watcher reads the payload row and releases in two
steps.  Recovery marks only, from a hash of the file.

A handoff to somebody else's lease is `LeaseEnds` followed by `OutsideTakes`.

### 5.3 Runs

| run | instance | what it shows |
|---|---|---|
| `fw_writers` | 2 requests, one key, different bytes, leases that end at any time | everything at once, with recovery and crashes; the write as one transaction (`RefinesGovernedFile`) |
| `fw_outside` | 1 request, 2 outside holders, a clock, a fair watcher | expiry, others writing the file between transactions and never within one, and that a request killed before admission frees the surface |
| `fw_promotion` | 2 promotions of one effect id under different keys | single consumption |

Bounds.  Requests are finite and each is made once, so the system stops: deadlock is
not checked.  Two requests give a writer and its retry or its competitor; one
file is enough, as an execution with one lease touches one.  `fw_writers` keeps the
clock at 0: a lease may end at any moment by `LeaseEnds`, and what only expiry can
do (a superseded lease, a refused admission) is in `fw_outside`, where the clock
runs to 3 with TTL 1.

Fairness.  Only the watcher's: a process monitor delivers `:DOWN` when the watched
process ends and the watcher acts on it at once.

### 5.4 Proofs

`FileWriteEffectProofs` proves every safety property of the three runs for any
executions, outside holders, effects, keys and contents and any lifetime of a lease:
five invariants and `TypeOK`, and `WritesUnderOwnCustody`, `CommitNeverUndone` and
`CommittedCrashHoldsLease` of every step.  The inductive invariant is

    IInv == TypeOK /\ (\A x \in Execs : Shaped(ex[x])) /\ WritersReserve
            /\ RowsAdmitted /\ RowsFollow /\ RecoverySound /\ RecoveryApart
            /\ WatcherSound /\ FileFollows /\ FencedByAdmitted
            /\ UnknownOutcomeKeepsCustody /\ PromotionAdmittedOnce

`WritersReserve` is the heart: an execution that may still write, one that died with
its write under way included, has the surface, reserved under its own effect.  A
surface has one reservation and an effect one admission (`PromotionAdmittedOnce`), so
there is one writer at a time (the lemma `OneWriter`), and everything about the file
follows from what that one does (`FileFollows`).  The others are there because it
does not stand alone:

* `Shaped` relates the place of an execution to its own history and to what it may
  have issued before it died; without it a dead request could be admitted twice.
* `RowsAdmitted` and `RowsFollow` tie the payload row to the admission it records and
  to the place of the executor.  An admission is refused where the row exists, which
  is what keeps effects admitted once.
* `RecoverySound` and `RecoveryApart` say that what the sweep has read is still open
  and that nobody can write it: the sweep takes rows whose reservation is gone, and a
  row never gets one back.  Without them a stale verdict could mark a row under its
  executor.
* `WatcherSound`: between the watcher's read of the row and its release nothing is
  committed under its lease.
* `FencedByAdmitted` is the converse of `WritersReserve`: a reservation belongs to an
  admitted execution.

`OwnRecord`, `CustodySteps`, `RowSteps`, `FileSteps` and `WatchSteps` say once what the
steps do to each variable; the proof of each part of `IInv` then looks only at the
steps that concern it.

Assumptions: `ExecutionsAssumption` (the constants have the shape their names say,
and two requests share an effect id only as promotions), `ValuesAssumption` (names, contents and special values differ) and
`NoGrantAssumption` (NULL is not a grant).  `WatcherKeepsForCause` has one more
hypothesis, `DistinctEffects`: no two requests share an effect id.  It is needed:
the watcher asks for the row of the effect, and a promotion that died before its
admission finds the row of the one that consumed the predecessor (section 10).

`UsesCustody` proves `Spec => Custody!CustodySpec`: every step leaves the surface
alone or is a step of `SurfaceCustody`.

`WritesAreTransactions` (`FileWriteRefinementProofs`) proves
`Spec => RefinesGovernedFile`.  In `GovernedFile` a request reserves the file, is
decided, and gives the file back: with its bytes if it was committed, as it was
found if it was rejected.  The mapping takes as owner the execution the surface is
reserved for, as the file what was found at the owner's admission as long as there is
an owner and the bytes on disk otherwise, and as answer the status of the outcome.
So what happens under a reservation (a torn file, a compensation, a write that
lands after its process died, a verdict of recovery) is a stutter, and the retirement
of the reservation is the step that must show either all of the write or nothing.
The proof goes by what a step does to the owner: `ReserveStep`, `GiveBackStep`, and for
the steps that keep it `SeenSteps` and `AnswerStep`.  An execution that keeps its
reservation (a rollback that failed, a mark it is not sure of, a crash) may have
been answered already, and gives nothing back: nobody sees the file until an
operator, who is not modelled, has looked at it.

Model-checked only: `PreAdmissionCrashFrees`, which is liveness.

## 6. Agent locks

`acquire_agent_lock` and the file fallback of the distributed lock open
`{agent_id}.lock`, flock the inode they got, and then compare the inode of their
descriptor with the one at the path.  Sweeps open the file, flock it without
blocking, make the same comparison and unlink the path.  Each of these calls is an
action, because a file may be unlinked or replaced between any two of them.

| variable | code |
|---|---|
| `path` | the inode the lock's path names |
| `owner` | the descriptor that has the flock of an inode |
| `fd`, `pc`, `tries` | per task: its descriptor, the call it is about to make, its attempt |
| `stranded` | history: the tasks whose file was removed with its directory |

`ProbeKeep` covers the callers that look and do not remove: `is_locked`, a dry run, a
file touched too recently.  A retry runs the sweep on its own lock first, so an
acquirer passes through the `probe` steps.  A task may die at any step; the kernel
then closes its descriptors.  `DirRemoved` is the removal of the whole directory
that `_ensure_lock_dir` repairs, and may happen at any time.  The code cannot defend
itself against one while a task is inside the lock, or between a sweep's
comparison and its unlink: a second task is admitted.  `stranded` names the tasks this
happens to (`Relying`), and whoever a stranded sweep then takes the file from; the
properties except them and nobody else, so the lock excludes all the others, and
everybody again once they have left.

Run `agent_lock`: two acquirers with two attempts, a fallback, a sweep, five inodes.
Two acquirers are what exclusion is about; the fallback and the sweep add the two
other orders of the same calls.  Inodes are reused once nobody refers to them, so
one more than there can be descriptors is enough.

Proved, for any clients, inodes and attempts: the three properties of the run, from

    IInv == TypeOK /\ FlocksAreOpen /\ StepsHaveFlock /\ CheckedIsCurrent

`CheckedIsCurrent` is the heart: from the comparison on, the path keeps naming the
inode, for every task that is not stranded, because whoever would unlink it must
first have its flock (`StepsHaveFlock`), and a flock has one owner.  It does not stand alone:
`FlocksAreOpen` is needed to know that a closed descriptor has no flock left.

## 7. Pauses and the effects of verdicts

### 7.1 State

| variable | code |
|---|---|
| `row` | `core.agents.status`, `core.identities.status` and `metadata.paused_at`, the token that names a generation |
| `cache` | the agent's metadata in each server process |
| `job` | a request or background task: the circuit breaker, the TTL expiry, the safety net, the effect of a verdict, a resume, an archival; where it is and what it was answered |
| `sess` | a session: the token it was opened on, and the outbox row of its effect.  `claimant` is the owner token while the row is `applying`; `manual` says that an operator closed it |
| `next` | tokens: the code uses the time, taken to be distinct here |
| `committed`, `degraded` | history: tokens that were durable, and those of pauses reported as `enforcement.durable = False` |

### 7.2 Grain and faults

The transitions that carry a token are one transaction each, with both rows
locked (`Installs`, `Consumes`, `Expires`), so each is one action; what the job makes of
its answer is another, after an await.  A resume or an archival is one action per
write: the copies, the mirror in the cache, the token.  Any call may lose its
answer (applied or not), any job may be dropped, a server may restart and read its
cache back.  `Lossy` turns these off, so that a finding does not rest on them.

At most one circuit-breaker job is in flight: a check-in holds its agent's lock
(`update_workflow_service.py:76`).  A job of `Kinds` starts from a cache that may be as
stale as it likes.

`OpenSession` is also the binding that `stuck.py` opens without a check of its own.

### 7.3 Runs and proofs

`pause` has one server, two jobs, one session and two pauses: two generations are
what an older token needs to be mistaken for a newer one, two jobs what a race needs.
`pause_drift` is a finding, section 10.

Everything the run checks is proved for any number of servers, jobs, sessions and
pauses, from

    IInv == TypeOK /\ TokensKnown /\ FreshPause /\ LiftsDone /\ EffectsOwned
            /\ UncasSteps /\ OneWorkerPerEffect /\ AppliedMeansOver

`AppliedMeansOver` is the goal and is not inductive: an effect may be marked
applied long after its call, so the invariant carries `LiftsDone` (between the
answer and the mark nothing of the generation comes back), which needs `FreshPause`
(a pause in flight has a token of its own) and `TokensKnown`.  `EffectsOwned` ties a job to
the session it claimed.  The refinement of `ReviewedPause` (`PausesAreReviewed`) maps
the two rows to the one generation in force, and a session with its effect to one
review; its proof has one case per action, under `IInv` before and after the step.

## 8. Dialectic sessions

### 8.1 State

| variable | code |
|---|---|
| `row` | the row of `core.dialectic_sessions`: status, phase, reviewer, `awaiting_facilitation`, round |
| `log` | `core.dialectic_messages`, by kind and author; `transcript_revision` is its length |
| `decision` | why the session ended (`resolution_json`): a resume, a failure of any kind, a standing rejection |
| `idle` | the age of `updated_at`: fresh, over two hours, over four |
| `saga` | the worker whose claim is reserved in `session_resolution_sagas` |
| `job` | what a request or a sweep has loaded and is doing; `seen` and `rev` are what a later write compares |
| `current`, `unclaimed` | the workers whose loaded `updated_at`, or `resolution_saga_revision`, is still the row's: timestamps and revisions matter only by that |

### 8.2 Grain

A handler loads the row and the transcript, judges them after awaits, and appends
its message by one compare-and-set transaction (`add_message`); one action for the load,
one for the append.  A load that tears (row and messages are two statements) is
refused by the revision, as any other stale one.  A converged verdict is recorded
first and committed later (`Converge`, then `Claim` and `CommitClaimed` in the lease
plane, or `CommitHere` when it cannot be reached).  `Reclaim` takes a reservation back for
its age, whether its resolver is dead or slow.  The sweep reads a batch and writes
one row at a time, each write compared with what was read.

Every update of the row resets `updated_at`: a trigger does it
(`db/postgres/schema.sql:310`), also where the code leaves the column out.  `Touch` is
that.

`Init` has a session just opened, one an older version failed while a human was
asked for (which a reassignment reopens), and one whose reviewer is a declared
author of the work.

Open choices: which reviewer is found, what is said, when a deadline is over.
Left out: the 24-hour eligibility of a first responder, the replay of a claim with the
same payload (it shares the claim's generation), the BEAM liveness timers (off by
default), consults and abstentions (they touch no session row), the takeover of a
review by its in-process reviewer (a reassignment followed by an antithesis).

### 8.3 Runs

| run | instance | what it shows |
|---|---|---|
| `dialectic` | 2 workers, an absent and a synthetic reviewer, an author, a pause at stake, 5 messages | authority, standing rejections, one answer, finality, the fence of claims |
| `dialectic_ends` | 2 workers, 1 reviewer, 3 messages, fair | the session ends |
| `dialectic_self` | no pause at stake, 6 messages | a finding, section 10 |

Bounds.  Two workers are a writer and whoever it races; a claim that outlives its
resolver needs no third.  Five messages are a thesis, an antithesis and three
verdicts: rejection, answer, and one more.  `View` (`MCDialecticSession`) tells jobs
that loaded a shorter transcript apart by their step only: the transcript never gets
shorter, so whatever else they loaded no guard will match again.  Sessions stop, so deadlock is not
checked.

Fairness.  The sweep runs every ten minutes (`background_tasks.py:351`), the saga's
reaper reclaims, time passes and a request comes to an end or dies.  A sweep's
write and a commit are not refused every time for being interrupted: strong
fairness.  Agents owe nothing.

`MaxLog` bounds the transcript: an agent that could add messages for ever would
keep its session alive, and within the protocol only the rounds and the one
recorded answer stop it (`OneAnswerPerRejection`).

### 8.4 Proofs

The properties of `dialectic` are proved for any agents, workers, rounds and
transcripts, from

    IInv == TypeOK /\ Review /\ DecidedOnApproval /\ ClosedQuietly
            /\ ResolvedIsAuthorised /\ RejectionClosedTruly /\ OneAnswerPerRejection

`DecidedOnApproval` says that what a worker carries to its commit was decided on
the transcript up to its frontier, and the compare-and-set at the commit says that
the frontier is still the end.  `Review` says what makes an approval of the paused agent
mean anything: a session in synthesis has an independent antithesis
(`SynthesisReviewed`), a self-review has no other voice (`SelfReviewAlone`).
`ClosedQuietly` is what keeps a closed rejection from being reopened.
`ClaimsAreFenced` needs the types only: every writer that can end a session looks at
the claim (`EndsUnderClaim`), and no other step ends one.  The proof
goes by what a step does to the transcript and the row: steps that touch neither,
those that append one message, those that close.

Model-checked only: `SessionEnds`.

## 9. Properties and the faults they catch

Every property of a passing run is paired in `PROJECT.json` (`mutants`) with a fault
of the code that breaks it.  The faults are the definitions marked `Fault:`, each
next to the definition it would replace: a missing trigger, a dropped re-check, a
conflict-ignoring insert, a reservation retired after a failed rollback, a probe
that unlocks before it unlinks, a resume that takes any generation, an append that
ignores the transcript's revision.

## 10. Findings

Each of these is a run that TLC ends with a counterexample.

| run | what the code does | what the repository says |
|---|---|---|
| `pause_drift` | a resume writes both copies, the token and the cache without comparing the generation; a pause that commits in between ends durable, without a token, and invisible to the cache (`lifecycle/helpers.py:155`) | the order of the writes keeps the drift between database and memory from reappearing (`lifecycle/helpers.py:143`) |
| `dialectic_self` | a self-reviewer rejects; its agreement is refused but recorded, and counts as its last verdict, so that its next agreement converges (`dialectic_protocol.py:1011`) | a self-reviewer that records a rejection cannot then clear itself (`tests/test_dialectic_self_clear_guard.py:246`) |

These were found by model checking as well, and have no run of their own any more:

* A retry of a rolled-back file write is answered from its stored rejection
  (`execution.ex:140`); it must re-execute (migration 052, line 32).
* A committed file write whose record was not stored is written again by its retry
  (`execution.ex:125`); same key and digest return the existing effect
  (`governed-effect-plane-v0.md:95`).
* Recovery marks committed a request that was rejected before writing, because the
  next holder wrote the same bytes (`effect_reconcile.ex:56`); equal hashes are taken
  to mean that the write completed (`effect_reconcile.ex:15`).
* An idempotent acquire of a handed-off row on a local surface starts a LeaseHolder,
  which renews a remote-heartbeat row for ever (`lease_supervisor.ex:27`, against `:6`).
* Of two overlapping heartbeats the later commit may carry the earlier `now()` and
  shorten the lease (`repo.ex:436`, against `unitares_lease_plane.ex:43`).

And these were met while reading:

* `mark_awaiting_facilitation` says that it deliberately does not touch `updated_at`
  (`src/dialectic_db.py:565`, asserted by `tests/test_dialectic_db.py:1048` on the SQL
  text); the trigger of `schema.sql:310` does.  Asking for a human, and reserving a
  claim, therefore reset the clock by which the sweep selects.
* A handoff may commit past its offer's deadline: `handoff_server.ex:136` looks at the
  deadline, and the transaction of `:141` may then wait for the row.
* Removing the lock directory while a task is inside a lock admits a second one
  (`state_locking.py:150-157` expects such removals and restores the directory).
* A comment says that a session reaped while a human was asked for can be revived
  by a reassignment (`resolution_helpers.py:1752`); every terminal write clears the
  request, so only rows of an older version can.
* The bounded insert retry restarts at depth 0 when it was an idempotent touch that
  found its row released (`repo.ex:304`, against the bound of `repo.ex:172-176`): each
  turn needs another transaction to release the row.
* The watcher of a promotion that died before admission finds the row of the
  promotion that consumed the predecessor and keeps the lease until its TTL
  (`execution.ex:329`), so `WatcherKeepsOnlyAdmitted` is checked for requests that
  share no effect id.

## 11. Not modelled

* Governance numerics (`governance_core`, the monitors, calibration): floating-point
  dynamics and statistics.
* HTTP, authentication, canonicalisation, signatures: pure parsing and computation.
* Within governed effects: dry-run mode, several leases per effect, the fermata
  receipt and the operator's recovery routes.
* Within agent locks: the advisory-lock and Redis backends, single calls to a server.
* Within pauses: the conditions and lifecycle events a pause carries, and the
  discovery a resolution may update.
* Within dialectics: how a reviewer is chosen, how proposals are merged, quick and
  assisted reviews.
* Front ends, scripts, resident agents: clients, without state others depend on.
* What section 3 lists as next and no module covers.

## 12. Running it

    tlc -config LeasePlane_race.cfg MCLeasePlane
    tlc -config FileWriteEffect_writers.cfg MCFileWriteEffect
    tlc -config AgentLock.cfg MCAgentLock
    tlc -config PauseGenerations_pause.cfg MCPauseGenerations
    tlc -config DialecticSession_verdict.cfg MCDialecticSession
    tlapm LeasePlaneProofs.tla        (and the other *Proofs modules)

`PROJECT.json` lists every run with its module and configuration; the longest,
`live`, takes two to three minutes with two workers.
