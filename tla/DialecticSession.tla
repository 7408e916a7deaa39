-------------------------- MODULE DialecticSession --------------------------
(***************************************************************************)
(* One dialectic session: the row of core.dialectic_sessions, its          *)
(* transcript, and the processes that write them at the same time.         *)
(*                                                                         *)
(* A handler loads the session, runs the protocol on its copy and appends  *)
(* one message with a compare-and-set on what it loaded; the row's phase,  *)
(* reviewer, round and facilitation flag move in the same transaction.  A  *)
(* converged verdict is committed later, by the lease plane under a claim  *)
(* (DialecticSaga) or by Python itself.  The sweeper reads on its own and  *)
(* may replace the reviewer, ask for a human or close the session.         *)
(*                                                                         *)
(* transcript_revision grows by one with each message, in the transaction  *)
(* that inserts it, so it is Len(log) here and a loaded transcript is a    *)
(* prefix of log.                                                          *)
(***************************************************************************)
EXTENDS Naturals, Sequences

CONSTANTS
    Paused,          \* the paused agent
    Reviewers,       \* independent agents that may be assigned
    Synthetic,       \* the in-process reviewer, which no process continues
    Authors,         \* declared authors of the reviewed work
    Away,            \* reviewers whose record is missing or paused
    NoOne,           \* no reviewer, no claim
    Workers,         \* slots for the requests and sweeps in flight
    EffectRequired,  \* whether the session is bound to a pause
    MaxRounds,       \* max_synthesis_rounds
    MaxLog           \* bound: messages recorded

Agents == {Paused} \cup Reviewers \cup Authors

ASSUME AgentsAssumption ==
    /\ Paused \notin Reviewers \cup Authors
    /\ Reviewers \cap Authors = {}
    /\ NoOne \notin Agents \cup Workers
ASSUME BoundsAssumption == MaxRounds \in Nat /\ MaxLog \in Nat /\ MaxLog >= 2

VARIABLES
    row,        \* the row of core.dialectic_sessions
    log,        \* core.dialectic_messages, in order
    decision,   \* why the session ended, from resolution_json
    idle,       \* the age of updated_at: 0, 1 (over two hours), 2 (over four)
    saga,       \* the worker whose claim is reserved, or NoOne
    job,        \* job[w]: what worker w has loaded and is doing
    current,    \* workers whose loaded updated_at is still the row's
    unclaimed   \* workers whose loaded resolution_saga_revision is still the row's

vars == <<row, log, decision, idle, saga, job, current, unclaimed>>

Phases == {"thesis", "antithesis", "synthesis", "resolved", "failed"}
Row == [status : {"active", "resolved", "failed"}, phase : Phases,
        reviewer : Agents \cup {NoOne}, awaiting : BOOLEAN,
        round : 0 .. MaxRounds + 1]
Message == [kind : {"thesis", "antithesis", "approve", "reject", "system"},
            by : Agents \cup {NoOne}]
\* "failure" stands for a hard limit, the rounds, a deadline and inactivity.
Decisions == {"none", "resume", "failure", "rejection_stands"}
Steps == {"free", "loaded", "deciding", "claimed", "swept", "narrate"}
Seen == [phase : Phases, reviewer : Agents \cup {NoOne}, awaiting : BOOLEAN]
Job == [step : Steps, seen : Seen, rev : 0 .. MaxLog, outcome : Decisions, age : 0 .. 2]

Fresh(r) == [status |-> "active", phase |-> "thesis", reviewer |-> r,
             awaiting |-> FALSE, round |-> 0]
\* What a later write compares of a row.
Read(r) == [phase |-> r.phase, reviewer |-> r.reviewer, awaiting |-> r.awaiting]
Free == [step |-> "free", seen |-> Read(Fresh(NoOne)), rev |-> 0, outcome |-> "none",
         age |-> 0]

TypeOK ==
    /\ row \in Row
    /\ log \in Seq(Message) /\ Len(log) <= MaxLog
    /\ decision \in Decisions
    /\ idle \in 0 .. 2
    /\ saga \in Workers \cup {NoOne}
    /\ job \in [Workers -> Job]
    /\ current \subseteq Workers
    /\ unclaimed \subseteq Workers

\* create_session.
Opened ==
    /\ \E r \in {NoOne, Paused} \cup Reviewers : row = Fresh(r)
    /\ log = <<>>
    /\ decision = "none"

\* A row an older version left: the sweep failed it while a human was asked for.
LeftAsking ==
    /\ \E r \in Reviewers :
         row = [Fresh(r) EXCEPT !.status = "failed", !.phase = "failed", !.awaiting = TRUE]
    /\ log = <<[kind |-> "thesis", by |-> Paused]>>
    /\ decision = "failure"

\* A row written elsewhere: its reviewer is a declared author of the work.
LeftRecused ==
    /\ \E a \in Authors :
         /\ row = [Fresh(a) EXCEPT !.phase = "synthesis", !.round = 1]
         /\ log = <<[kind |-> "thesis", by |-> Paused], [kind |-> "antithesis", by |-> a]>>
    /\ decision = "none"

Init ==
    /\ Opened \/ LeftAsking \/ LeftRecused
    /\ idle = 0
    /\ saga = NoOne
    /\ job = [w \in Workers |-> Free]
    /\ current = {}
    /\ unclaimed = {}

-----------------------------------------------------------------------------
(* What the protocol reads from a transcript.                               *)

Prefix(n) == SubSeq(log, 1, n)

Has(t, kind) == \E i \in DOMAIN t : t[i].kind = kind

\* The verdicts that count: the paused agent's own only when it reviews itself.
Verdicts(t, reviewer) ==
    {i \in DOMAIN t : /\ t[i].kind \in {"approve", "reject"}
                      /\ t[i].by # Paused \/ reviewer = Paused}

LastVerdict(t, reviewer, i) ==
    i \in Verdicts(t, reviewer) /\ \A j \in Verdicts(t, reviewer) : j <= i

\* _reviewer_objection_stands: a reassignment does not erase a rejection.
ObjectionStands(t, reviewer) ==
    \E i \in DOMAIN t : LastVerdict(t, reviewer, i) /\ t[i].kind = "reject"

\* _reviewer_verdict_pending.
VerdictPending(t, reviewer) ==
    /\ reviewer \notin {NoOne, Paused}
    /\ \E i \in DOMAIN t : t[i].kind = "antithesis" /\ t[i].by # Paused
    /\ Verdicts(t, NoOne) = {}

\* Fault: the scan starts one message too late.
AlreadyAnswered_SkipsOne(t, reviewer) ==
    \E i, k \in DOMAIN t :
        /\ i + 1 < k /\ t[k] = [kind |-> "approve", by |-> Paused]
        /\ i \in Verdicts(t, reviewer) /\ t[i].kind = "reject"
        /\ \A j \in Verdicts(t, reviewer) : t[j].kind = "reject" => j <= i

\* _paused_agent_already_answered_current_objection: an approval of the paused
\* agent after the last rejection.
AlreadyAnswered(t, reviewer) ==
    \E i, k \in DOMAIN t :
        /\ i < k /\ t[k] = [kind |-> "approve", by |-> Paused]
        /\ i \in Verdicts(t, reviewer) /\ t[i].kind = "reject"
        /\ \A j \in Verdicts(t, reviewer) : t[j].kind = "reject" => j <= i

\* The authorship declaration recuses a reviewer; the paused agent is labelled
\* a self-review instead.
Recused(r) == r \in Authors

\* A self-review cannot release the pause the session is bound to.
Authorises(r) == ~Recused(r) /\ (EffectRequired => r # Paused)

-----------------------------------------------------------------------------
(* The guarded writes.                                                      *)

Live == row.status = "active"

\* Fault: the transcript revision is not compared.
Matches_AnyRevision(c) ==
    /\ row.phase = c.seen.phase
    /\ row.reviewer = c.seen.reviewer
    /\ row.awaiting = c.seen.awaiting

\* The compare-and-set on phase, reviewer, transcript_revision and
\* awaiting_facilitation.
Matches(c) ==
    /\ row.phase = c.seen.phase
    /\ row.reviewer = c.seen.reviewer
    /\ row.awaiting = c.seen.awaiting
    /\ Len(log) = c.rev

\* Any update of the row: a trigger sets updated_at = now().
Touch == idle' = 0 /\ current' = {}

\* add_message: the row moves and the message is inserted in one transaction.
AddMessage(kind, by, newRow) ==
    /\ Len(log) < MaxLog
    /\ row' = newRow
    /\ log' = Append(log, [kind |-> kind, by |-> by])
    /\ Touch
    /\ UNCHANGED <<decision, saga>>

\* Fault: the status is taken from the action of the resolution.
Close_Action(outcome) ==
    /\ row' = [row EXCEPT !.status = outcome, !.phase = "resolved", !.awaiting = FALSE]
    /\ decision' = outcome
    /\ Touch
    /\ UNCHANGED log

\* The terminal UPDATE: it clears the request for a human.
Close(outcome) ==
    LET status == IF outcome = "resume" THEN "resolved" ELSE "failed"
    IN /\ row' = [row EXCEPT !.status = status, !.phase = status, !.awaiting = FALSE]
       /\ decision' = outcome
       /\ Touch
       /\ UNCHANGED log

Becomes(w, j) == job' = [job EXCEPT ![w] = j]

Release(w) == Becomes(w, Free) /\ unclaimed' = unclaimed \ {w}

-----------------------------------------------------------------------------
(* Handlers.                                                                *)

\* load_session.
Load(h) ==
    /\ job[h].step = "free"
    /\ Becomes(h, [Free EXCEPT !.step = "loaded", !.seen = Read(row), !.rev = Len(log)])
    /\ unclaimed' = unclaimed \cup {h}
    /\ UNCHANGED <<row, log, decision, idle, saga, current>>

\* A refused compare-and-set, a refused submission or a crash: nothing is written
\* and a claim stays reserved.
GiveUp(w) ==
    /\ job[w].step # "free"
    /\ Release(w)
    /\ current' = current \ {w}
    /\ UNCHANGED <<row, log, decision, idle, saga>>

Submits(h) == job[h].step = "loaded" /\ Matches(job[h]) /\ Live

\* submit_thesis: a request for a human raised for an open slot is void.
Thesis(h) ==
    /\ Submits(h)
    /\ row.phase = "thesis"
    /\ AddMessage("thesis", Paused,
                  [row EXCEPT !.phase = "antithesis",
                              !.awaiting = @ /\ row.reviewer # NoOne])
    /\ Release(h)

\* submit_antithesis: an open slot goes to the first independent agent.
Antithesis(h) ==
    /\ Submits(h)
    /\ row.phase = "antithesis"
    /\ \E a \in Agents :
         /\ ~Recused(a)
         /\ a = row.reviewer \/ (row.reviewer = NoOne /\ a # Paused)
         /\ AddMessage("antithesis", a,
                       [row EXCEPT !.phase = "synthesis", !.reviewer = a, !.round = 1,
                                   !.awaiting = @ /\ a = Paused])
    /\ Release(h)

\* The synthesis calls the protocol admits; a recused reviewer stops them all.
InSynthesis(h) ==
    /\ Submits(h)
    /\ row.phase = "synthesis"
    /\ row.round <= MaxRounds
    /\ ~Recused(row.reviewer)

\* submit_synthesis with agrees = False.
Reject(h) ==
    /\ InSynthesis(h)
    /\ \E a \in {Paused, row.reviewer} \ {NoOne} :
         AddMessage("reject", a, [row EXCEPT !.round = @ + 1])
    /\ Release(h)

\* The paused agent agrees over a standing rejection: the first time is
\* recorded and asks for a human, a repeat is refused unrecorded.
AnswerObjection(h) ==
    /\ InSynthesis(h)
    /\ ObjectionStands(log, row.reviewer)
    /\ ~VerdictPending(log, row.reviewer)
    /\ ~AlreadyAnswered(log, row.reviewer)
    /\ AddMessage("approve", Paused, [row EXCEPT !.round = @ + 1, !.awaiting = TRUE])
    /\ Release(h)

\* An agreement that converges: the message is appended, the row stays in
\* synthesis, and the decision is still to be committed.  check_hard_limits may
\* turn it into a block.
Converge(h) ==
    /\ InSynthesis(h)
    /\ \E a \in {Paused, row.reviewer} \ {NoOne}, outcome \in {"resume", "failure"} :
         /\ a = Paused => /\ ~VerdictPending(log, row.reviewer)
                          /\ ~ObjectionStands(log, row.reviewer)
         /\ AddMessage("approve", a, row)
         /\ Becomes(h, [job[h] EXCEPT !.step = "deciding", !.rev = Len(log) + 1,
                                      !.outcome = outcome])
    /\ UNCHANGED unclaimed

\* A failure decided on the loaded row: too many rounds, or a deadline passed,
\* which may be at any moment.
DecideFailure(h) ==
    /\ job[h].step = "loaded"
    /\ Becomes(h, [job[h] EXCEPT !.step = "deciding", !.outcome = "failure"])
    /\ UNCHANGED <<row, log, decision, idle, saga, current, unclaimed>>

\* _set_awaiting_facilitation(True): the review found no reviewer, the synthetic
\* one did not finish or did not approve, the reviewer is recused, or a
\* self-review may not release the pause.
NeedsHuman(c) ==
    \/ /\ c.step = "loaded" /\ c.seen.phase = "antithesis"
       /\ c.seen.reviewer \in {NoOne, Synthetic}
    \/ /\ c.step = "loaded" /\ c.seen.phase = "synthesis"
       /\ c.seen.reviewer = Synthetic \/ Recused(c.seen.reviewer)
    \/ c.step = "deciding" /\ c.outcome = "resume" /\ c.seen.reviewer = Paused

RaiseHand(h) ==
    /\ NeedsHuman(job[h])
    /\ Live /\ Matches(job[h]) /\ ~row.awaiting
    /\ saga = NoOne /\ h \in unclaimed
    /\ row' = [row EXCEPT !.awaiting = TRUE]
    /\ Touch
    /\ Release(h)
    /\ UNCHANGED <<log, decision, saga>>

\* dialectic(get, check_timeout) finds the reviewer stuck and nobody to replace it.
ReportStuck(h) ==
    /\ Submits(h)
    /\ row.reviewer # NoOne /\ ~row.awaiting
    /\ row.phase = "antithesis" \/ (row.phase = "synthesis" /\ Recused(row.reviewer))
    /\ AddMessage("system", NoOne, [row EXCEPT !.awaiting = TRUE])
    /\ Release(h)

-----------------------------------------------------------------------------
(* Reassignment by an operator, the reviewer itself or a timeout check.     *)

Reassignable(r) ==
    \/ r.phase \in {"thesis", "antithesis"}
    \/ r.awaiting
    \/ r.phase = "synthesis" /\ Recused(r.reviewer)

\* A new reviewer of a self-review or of a recused one gets its turn.
Rewound(r) ==
    IF r.phase = "synthesis" /\ (Recused(r.reviewer) \/ (r.awaiting /\ r.reviewer = Paused))
    THEN "antithesis" ELSE r.phase

Reopened == IF Has(log, "thesis") THEN "antithesis" ELSE "thesis"

\* _apply_reviewer_reassignment: a failed session that still asked for a human
\* is reopened, any other terminal one is refused.
Reassign(h) ==
    /\ job[h].step = "loaded" /\ Matches(job[h])
    /\ Reassignable(row)
    /\ \/ Live
       \/ row.status = "failed" /\ row.awaiting
    /\ \E r \in Reviewers \ Away :
         AddMessage("system", NoOne,
                    [row EXCEPT !.reviewer = r, !.awaiting = FALSE, !.status = "active",
                                !.phase = IF Live THEN Rewound(row) ELSE Reopened])
    /\ Release(h)

-----------------------------------------------------------------------------
(* The terminal commit of a decision.                                       *)

\* Fault: a decision is checked against the transcript and not against the row.
Admits_Ended(c) == Len(log) = c.rev /\ (c.outcome = "resume" => Authorises(row.reviewer))

\* The predicates every terminal writer repeats in its UPDATE.
Admits(c) ==
    /\ Live
    /\ Matches(c)
    /\ c.outcome = "resume" => Authorises(row.reviewer)

\* resolve_session, when the lease plane cannot be reached.
CommitHere(h) ==
    /\ job[h].step = "deciding"
    /\ Admits(job[h])
    /\ saga = NoOne /\ h \in unclaimed
    /\ Close(job[h].outcome)
    /\ Release(h)
    /\ UNCHANGED saga

\* DialecticSaga.claim: the row is locked, checked, and its saga revision bumped.
Claim(h) ==
    /\ job[h].step = "deciding"
    /\ row.reviewer # NoOne
    /\ Admits(job[h])
    /\ saga = NoOne
    /\ saga' = h
    /\ Becomes(h, [job[h] EXCEPT !.step = "claimed"])
    /\ idle' = 0 /\ current' = {h}
    /\ unclaimed' = {}
    /\ UNCHANGED <<row, log, decision>>

\* A claim that finds the row terminal reverts the reservation it finds.
ClaimTooLate(h) ==
    /\ job[h].step = "deciding" /\ ~Live
    /\ saga' = NoOne
    /\ Release(h)
    /\ UNCHANGED <<row, log, decision, idle, current>>

\* Fault: the row is compared and the claim is not looked at.
CommitClaimed_AnyClaim(h) ==
    /\ job[h].step = "claimed"
    /\ Admits(job[h]) /\ h \in current
    /\ Close(job[h].outcome)
    /\ saga' = NoOne
    /\ Release(h)

\* commit_claimed_session: the claim is still reserved and the row is as claimed.
CommitClaimed(h) ==
    /\ job[h].step = "claimed"
    /\ saga = h
    /\ Admits(job[h]) /\ h \in current
    /\ Close(job[h].outcome)
    /\ saga' = NoOne
    /\ Release(h)

\* The commit is refused and the reservation reverted.
CommitRefused(h) ==
    /\ job[h].step = "claimed"
    /\ saga = h
    /\ ~(Admits(job[h]) /\ h \in current)
    /\ saga' = NoOne
    /\ Release(h)
    /\ current' = current \ {h}
    /\ UNCHANGED <<row, log, decision, idle>>

\* reclaim_all_stale: a reservation is reverted for its age, whether its
\* resolver is dead or slow.
Reclaim ==
    /\ saga # NoOne
    /\ saga' = NoOne
    /\ UNCHANGED <<row, log, decision, idle, job, current, unclaimed>>

-----------------------------------------------------------------------------
(* The sweep.                                                               *)

\* The rows a sweep looks at: the stuck ones, and those a human is asked for.
SweepRead(w) ==
    /\ job[w].step = "free"
    /\ Live
    /\ idle > 0 \/ (row.phase = "synthesis" /\ row.awaiting)
    /\ Becomes(w, [Free EXCEPT !.step = "swept", !.seen = Read(row), !.rev = Len(log),
                                     !.age = idle])
    /\ current' = current \cup {w}
    /\ unclaimed' = unclaimed \cup {w}
    /\ UNCHANGED <<row, log, decision, idle, saga>>

\* Fault: the sweep writes over what changed since it read.
SweepAdmits_Stale(w, c) == c.step = "swept" /\ Live /\ saga = NoOne

\* The compare-and-set of every sweep write.
SweepAdmits(w, c) ==
    /\ c.step = "swept"
    /\ Live /\ Matches(c)
    /\ w \in current /\ w \in unclaimed
    /\ saga = NoOne

\* assess_rejection_stands: the reviewer that rejects has had its last word,
\* because it answered a reply or because its window ended.
HadLastWord(t, reviewer) ==
    \E i \in DOMAIN t : /\ LastVerdict(t, NoOne, i)
                        /\ t[i].kind = "reject" /\ t[i].by = reviewer

\* _close_standing_rejections.
SweepRejection(w) ==
    LET c == job[w]
    IN /\ SweepAdmits(w, c)
       /\ c.seen.phase = "synthesis" /\ c.seen.awaiting
       /\ c.seen.reviewer \notin {NoOne, Paused} \cup Authors
       /\ HadLastWord(Prefix(c.rev), c.seen.reviewer)
       /\ Close("rejection_stands")
       /\ Release(w)
       /\ UNCHANGED saga

Gone(r) == r \in Away \/ Recused(r)

\* The reviewer owes an antithesis and is gone: another takes the slot.  The
\* row moves without a message; the narration follows.
SweepReassign(w) ==
    LET c == job[w]
    IN /\ SweepAdmits(w, c)
       /\ c.age > 0 /\ c.seen.phase = "antithesis" /\ Gone(c.seen.reviewer)
       /\ \E r \in Reviewers \ (Away \cup {c.seen.reviewer}) :
            /\ row' = [row EXCEPT !.reviewer = r, !.awaiting = FALSE]
            /\ Becomes(w, [c EXCEPT !.step = "narrate", !.seen = Read(row')])
       /\ Touch
       /\ UNCHANGED <<log, decision, saga, unclaimed>>

\* _synthesis_reviewer_owes_reply.
ReviewerOwes(t, reviewer) ==
    /\ reviewer \notin {NoOne, Paused}
    /\ \/ VerdictPending(t, reviewer)
       \/ /\ ObjectionStands(t, reviewer)
          /\ \E k \in DOMAIN t : /\ t[k].kind \in {"approve", "reject"} /\ t[k].by = Paused
                                 /\ \A j \in DOMAIN t : t[j].kind \in {"approve", "reject"} => j <= k

\* The sweep asks for a human when the reviewer owes the move.
SweepFlag(w) ==
    LET c == job[w]
    IN /\ SweepAdmits(w, c)
       /\ c.age = 1 /\ ~c.seen.awaiting
       /\ \/ c.seen.phase = "antithesis" /\ Gone(c.seen.reviewer)
          \/ c.seen.phase = "synthesis" /\ ReviewerOwes(Prefix(c.rev), c.seen.reviewer)
       /\ row' = [row EXCEPT !.awaiting = TRUE]
       /\ Becomes(w, [c EXCEPT !.step = "narrate", !.seen = Read(row')])
       /\ Touch
       /\ UNCHANGED <<log, decision, saga, unclaimed>>

\* The system message about it, if nothing moved meanwhile.  Narrating a
\* reassignment does not compare the flag, so a hand raised since is let pass.
SweepNarrate(w) ==
    /\ job[w].step = "narrate"
    /\ Live
    /\ \/ Matches(job[w])
       \/ row.awaiting /\ Matches([job[w] EXCEPT !.seen.awaiting = TRUE])
    /\ AddMessage("system", NoOne, row)
    /\ Release(w)

\* Fault: a session that waits for a human is left to it.
Overdue_Awaiting(c) == c.age > 0 /\ ~c.seen.awaiting

\* A stuck session is failed, one waiting for a human only after four hours.
Overdue(c) == c.age = 2 \/ (c.age = 1 /\ ~c.seen.awaiting)

SweepReap(w) ==
    LET c == job[w]
    IN /\ SweepAdmits(w, c)
       /\ Overdue(c)
       /\ c.age = 1 => /\ ~(c.seen.phase = "antithesis" /\ Gone(c.seen.reviewer))
                       /\ ~(c.seen.phase = "synthesis"
                            /\ ReviewerOwes(Prefix(c.rev), c.seen.reviewer))
       /\ Close("failure")
       /\ Release(w)
       /\ UNCHANGED saga

\* Time passes.
Tick ==
    /\ Live /\ idle < 2
    /\ idle' = idle + 1
    /\ UNCHANGED <<row, log, decision, saga, job, current, unclaimed>>

-----------------------------------------------------------------------------
Submit(h) ==
    \/ Load(h) \/ Thesis(h) \/ Antithesis(h) \/ Reject(h) \/ AnswerObjection(h)
    \/ Converge(h) \/ DecideFailure(h) \/ RaiseHand(h) \/ ReportStuck(h) \/ Reassign(h)

Settle(h) ==
    \/ CommitHere(h) \/ Claim(h) \/ ClaimTooLate(h) \/ CommitClaimed(h) \/ CommitRefused(h)

Sweep(w) ==
    \/ SweepRead(w) \/ SweepRejection(w) \/ SweepReassign(w) \/ SweepFlag(w)
    \/ SweepNarrate(w) \/ SweepReap(w)

Next ==
    \/ \E w \in Workers : Submit(w) \/ Settle(w) \/ Sweep(w) \/ GiveUp(w)
    \/ Reclaim
    \/ Tick

Spec == Init /\ [][Next]_vars

\* The sweep runs every few minutes, the saga's reaper runs, time passes, a
\* request or its crash comes to an end, and neither a sweep nor a commit is
\* interrupted every time.  Nothing obliges an agent to say anything.
Fairness ==
    /\ \A w \in Workers :
         /\ SF_vars(SweepRead(w))
         /\ SF_vars(SweepRejection(w) \/ SweepReassign(w) \/ SweepFlag(w) \/ SweepReap(w))
         /\ SF_vars(CommitHere(w) \/ CommitClaimed(w))
         /\ WF_vars(GiveUp(w))
    /\ WF_vars(Reclaim)
    /\ WF_vars(Tick)

FairSpec == Spec /\ Fairness

-----------------------------------------------------------------------------
(* Properties.                                                              *)

\* A pause is lifted on the word of an agent that may give it, and on the last
\* word: the reviewer is no author of the work, it is not the paused agent when
\* a pause hangs on the session, its last independent verdict is an approval
\* (not merely the paused agent's own), and nothing was said after the agreement
\* the commit was decided on.
ResolvedIsAuthorised ==
    row.status = "resolved" =>
        /\ Authorises(row.reviewer)
        /\ log # <<>> /\ log[Len(log)].kind = "approve"
        /\ log[Len(log)].by \in {Paused, row.reviewer}
        /\ row.reviewer # Paused =>
             \E i \in DOMAIN log : LastVerdict(log, NoOne, i) /\ log[i].kind = "approve"

\* The sweep closes a session as a standing rejection only while the rejection
\* does stand: the reviewer of the row is the one that said the last word of the
\* review, and it said no.
RejectionClosedTruly ==
    decision = "rejection_stands" =>
        /\ row.status = "failed"
        /\ \E i \in DOMAIN log : /\ LastVerdict(log, NoOne, i)
                                /\ log[i] = [kind |-> "reject", by |-> row.reviewer]

\* The paused agent has one answer to a rejection, however many requests it
\* sends at once: a repeat would refresh updated_at and keep the sweep away for
\* as long as the agent likes.
OneAnswerPerRejection ==
    \A i, k, m \in DOMAIN log :
        /\ i < k /\ k < m
        /\ i \in Verdicts(log, NoOne) /\ log[i].kind = "reject"
        /\ log[k] = [kind |-> "approve", by |-> Paused]
        /\ log[m] = [kind |-> "approve", by |-> Paused]
        => \E j \in i + 1 .. m - 1 : j \in Verdicts(log, NoOne)

\* A decision is final: no late message, commit, sweep or reassignment changes a
\* session that ended and asks for nobody.
DecisionIsFinal ==
    [][(row.status = "resolved" \/ (row.status = "failed" /\ ~row.awaiting))
         => UNCHANGED <<row, log, decision>>]_vars

\* While a claim is reserved nobody ends the session but its resolver, with the
\* outcome it claimed for; and a resolver whose claim was reclaimed for its age,
\* or passed to another one, ends nothing, although it is slow and not dead and
\* the row is still as it left it.
ReservedClaimDecides ==
    [][Live /\ ~Live' =>
         \A w \in Workers :
            /\ saga = w <=> job[w].step = "claimed" /\ job'[w].step = "free"
            /\ saga = w => decision' = job[w].outcome]_vars

\* A session ends although its agents fall silent, and although requests keep
\* coming that add no message to it: claims, refused submissions and requests for
\* a human do not keep the sweep away.
SessionEnds == Live ~> ~Live

\* "A self-reviewer that records a rejection cannot then clear itself."
SelfRejectionStands ==
    row.status = "resolved" /\ row.reviewer = Paused =>
        \A i \in DOMAIN log : log[i] # [kind |-> "reject", by |-> Paused]
=============================================================================
